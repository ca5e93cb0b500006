--------------------------- MODULE BleLink_proofs ---------------------------
(* Theorems about BleLink, for every number of jobs, attempts, hanging calls *)
(* and broken links, every library and every threshold.                      *)
EXTENDS BleLink, FiniteSetTheorems, TLAPS

\* The ranges of the variables.
Interfaces == Jobs \cup {None}
Places == {"idle", "closing", "attempt", "check", "dropping", "opened", "ensure", "wait",
           "abandon", "disposing", "disposed", "count", "publish", "refusing", "cancelling",
           "setup", "rollback", "closed"}
Reasons == {"none", "timeout", "shutdown", "degraded", "refused", "error", "discovery", "mismatch"}
JobStates == {"none", "queued", "running", "callbacks", "dispose", "disposing", "over", "cancelled"}

JobRecord ==
    [st : JobStates, kind : {"create", "connect"}, ex : Nat, iface : Interfaces,
     res : {"none", "ok", "wrong"} \cup Errors, disposer : BOOLEAN,
     timer : {"off", "armed", "firing"}, late : BOOLEAN]
TeardownRecord ==
    [iface : Interfaces, gen : Generations, phase : {"disconnect", "client", "close"},
     tries : Nat, call : Calls \cup {None}]
CallRecord ==
    [st : {"none", "acting", "done", "exited"}, waiter : {"none", "record", "flag", "recheck", "gone"},
     by : Threads, iface : Interfaces, gen : Generations, recorded : BOOLEAN,
     timedOut : BOOLEAN, resolved : BOOLEAN]
AttemptRecord ==
    [pc : Places, gen : Generations, client : Interfaces, assigned : BOOLEAN, job : Interfaces,
     why : Reasons, attempts : Nat, timeouts : Nat]
ExecutorRecord ==
    [slot : Interfaces, exec : Nat, execs : Nat, shut : BOOLEAN, timeouts : Nat,
     orphans : Nat, degraded : BOOLEAN]

\* The types of the variables.  There is one generation per attempt and per broken link.
Types ==
    /\ shuttingDown \in BOOLEAN /\ lib \in [autoReconnect : BOOLEAN, timeoutArg : BOOLEAN, addressed : BOOLEAN]
    /\ iface \in Interfaces /\ client \in Interfaces
    /\ meshLock \in {"free", "connector", "lost"} /\ ifaceLock \in {"free", "connector"}
    /\ at \in AttemptRecord
    /\ job \in [Jobs -> JobRecord]
    /\ ble \in ExecutorRecord
    /\ drops \in 0..MaxDrops /\ gen \in 0..(MaxAttempts + drops)
    /\ registered \in [Jobs -> Generations]
    /\ unresolved \in [Generations -> Nat]
    /\ teardown \in [Threads -> TeardownRecord]
    /\ call \in [Calls -> CallRecord]
    /\ link \in [Jobs -> {"none", "open", "closed"}]
    /\ main \in {"running", "closing", "waiting", "executors", "done"}

\* The count of a generation is the number of its calls that are recorded and not resolved.
Owing(g) == {c \in Calls : call[c].recorded /\ ~call[c].resolved /\ call[c].gen = g}
Counted == main # "done" => \A g \in Generations : unresolved[g] = Cardinality(Owing(g))

\* What the waiter and the helper thread of a call have seen of each other.
Shape(c) ==
    /\ c.st = "none" <=> c.waiter = "none"
    /\ c.recorded => c.gen > 0
    /\ c.waiter \in {"none", "record"} => ~c.recorded
    /\ c.waiter \in {"flag", "recheck"} => (c.recorded <=> c.gen > 0)
    /\ c.waiter \in {"none", "record", "flag"} => ~c.timedOut /\ ~c.resolved
    /\ c.waiter = "recheck" => c.timedOut /\ (c.st \in {"acting", "done"} => ~c.resolved)
    /\ c.waiter = "gone" /\ c.st = "acting" => (c.recorded <=> c.gen > 0) /\ c.timedOut /\ ~c.resolved
    /\ c.waiter = "gone" /\ c.st = "done" => c.timedOut
    /\ c.waiter = "gone" /\ c.st = "exited" => ~c.recorded
Shapes == main # "done" => \A c \in Calls : Shape(call[c])

\* The attempt waits for job j or is about to abandon it.
Waiting(j) == at.job = j /\ at.pc \in {"wait", "abandon"}

\* A job in the slot that nobody waits for runs and is watched.
Watched ==
    /\ ble.degraded => ble.slot = None
    /\ ble.slot # None => job[ble.slot].st # "none"
    /\ \A j \in Jobs : ble.slot = j /\ job[j].st \in {"queued", "running"} /\ ~Waiting(j) =>
          job[j].st = "running" /\ job[j].timer \in {"armed", "firing"}

\* The job and the interface of the attempt.  A creation holds meshtastic_iface_lock and
\* there is no interface; a connect does not, and there is one.
WithJob == {"wait", "abandon", "count", "disposing", "disposed"}
Attempting ==
    /\ at.pc \in WithJob => at.job # None /\ job[at.job].st # "none"
    /\ at.pc \in WithJob => (job[at.job].kind = "create" <=> ifaceLock = "connector")
    /\ at.pc \in {"ensure", "wait", "abandon"} => (iface = None <=> ifaceLock = "connector")
    /\ at.pc \in {"disposing", "disposed"} => iface = None
    /\ at.pc = "count" /\ ifaceLock = "connector" => iface = None
    /\ at.pc \in {"wait", "abandon"} /\ iface # None => job[at.job].iface = iface
    /\ at.pc = "disposing" => job[at.job].kind = "connect" \/ job[at.job].res \in {"ok", "wrong"}
    /\ at.pc = "disposed" => ifaceLock # "connector"
    /\ at.pc \in {"check", "dropping"} => ifaceLock = "connector"
    /\ at.pc = "opened" => iface # None /\ ifaceLock # "connector"
    /\ at.pc \in {"check", "dropping", "opened", "ensure", "wait", "abandon"} => at.client = None
    /\ at.pc = "count" /\ ifaceLock = "connector" => at.client = None
    /\ at.pc \in {"publish", "refusing", "cancelling", "setup", "closed"} => at.client # None
    /\ at.pc = "publish" => at.client = iface

\* The stages of the attempt before a client is published.
Unpublished == {"attempt", "check", "dropping", "opened", "ensure", "wait", "abandon",
                "disposing", "disposed", "count", "publish", "refusing", "cancelling"}

\* A client is the singleton, and the client of the attempt once it is published.
Clients ==
    /\ client # None => client = iface
    /\ at.pc \in Unpublished => client = None
    /\ at.pc = "rollback" /\ ~at.assigned => client = None
    /\ at.pc = "setup" => at.assigned
    /\ at.assigned => at.client # None
    /\ at.pc \in {"setup", "rollback", "closed"} /\ client # None => client = at.client
    /\ meshLock = "lost" => at.pc = "idle" \/ (at.pc = "rollback" /\ at.assigned)
    /\ at.pc \in {"closing", "setup", "closed"} => meshLock = "connector"
    /\ main # "running" => shuttingDown
    /\ main = "waiting" => at.pc \in {"idle", "closing", "attempt", "setup", "rollback", "closed"}
    /\ at.pc \in {"idle", "closing", "attempt"} => at.client = None /\ ~at.assigned
    /\ at.pc = "idle" => at.job = None

\* What is known of a job by its state, and of the interfaces there are.
JobsKnown ==
    /\ \A j \in Jobs : job[j].st # "none" =>
          job[j].iface # None /\ (job[j].kind = "create" => job[j].iface = j)
    /\ \A j \in Jobs : job[j].st \in {"none", "queued", "running", "cancelled"} => job[j].res = "none"
    /\ \A j \in Jobs : job[j].st \in {"dispose", "disposing"} => job[j].disposer
    /\ \A j \in Jobs : job[j].st \in {"none", "queued"} => ~job[j].disposer
    /\ \A j \in Jobs : link[j] # "none" =>
          job[j].st # "none" /\ job[j].kind = "create" /\ job[j].res \in {"ok", "wrong"}
    /\ \A j \in Jobs : job[j].kind = "create" /\ job[j].res \in {"ok", "wrong"} => link[j] # "none"
    /\ \A j \in Jobs : job[j].st # "none" /\ job[j].kind = "connect" => link[job[j].iface] # "none"
    /\ iface # None => link[iface] # "none"
    /\ \A t \in Threads : teardown[t].iface # None => link[teardown[t].iface] # "none"

\* Only the job that is waited for can be queued, on the executor in use.  While there is
\* an interface, no worker of that executor disposes of another one, or will.
Busy == {"running", "callbacks", "dispose", "disposing"}
Workers ==
    /\ ble.exec <= ble.execs /\ \A j \in Jobs : job[j].ex <= ble.execs
    /\ ble.shut => ble.degraded
    /\ \A j \in Jobs : job[j].st = "queued" =>
          Waiting(j) /\ job[j].ex = ble.exec /\ ble.exec # None /\ ~ble.degraded
    /\ \A j \in Jobs : job[j].st = "running" => Waiting(j) \/ job[j].disposer
    /\ iface # None /\ ble.exec # None => \A k \in Jobs : job[k].ex = ble.exec =>
          /\ job[k].st \notin {"dispose", "disposing"}
          /\ job[k].st \in {"queued", "running", "callbacks"} => ~job[k].disposer
    /\ at.pc = "wait" /\ ifaceLock = "connector" /\ ble.exec # None
       /\ job[at.job].st \notin {"queued", "cancelled"} =>
          \A k \in Jobs : job[k].ex = ble.exec /\ job[k].st \in Busy => k = at.job /\ ~job[k].disposer
    /\ at.pc = "abandon" /\ ifaceLock # "connector" /\ at.why # "shutdown" =>
          job[at.job].st \notin {"queued", "cancelled"}

\* Who is tearing an interface down.
Alone ==
    /\ teardown[ConnectThread].iface # None =>
          at.pc \in {"closing", "dropping", "disposed", "refusing", "cancelling", "closed"}
    /\ \A j \in Jobs : teardown[j].iface # None => job[j].st = "disposing"
    /\ teardown[LostThread].iface # None => meshLock = "lost"
    /\ teardown[MainThread].iface # None => main \notin {"running", "closing"}

\* The calls that threads wait for, and the threads that wait for calls.
Pending == {"record", "flag", "recheck"}
Hanging ==
    /\ \A t \in Threads : teardown[t].call # None =>
          call[teardown[t].call].waiter \in Pending /\ call[teardown[t].call].by = t
    /\ \A c \in Calls : call[c].waiter \in Pending =>
          /\ teardown[call[c].by].call = c /\ call[c].iface # None
          /\ teardown[call[c].by].iface = call[c].iface
          /\ call[c].st \in {"done", "exited"} => link[call[c].iface] = "closed"
    /\ \A c \in Calls : call[c].st = "acting" => call[c].iface # None /\ link[call[c].iface] # "none"

\* The interfaces that are closed, or that somebody is closing.
Settled ==
    {i \in Jobs : \/ link[i] = "closed"
                  \/ \E t \in Threads : teardown[t].iface = i
                  \/ \E c \in Calls : call[c].st = "acting" /\ call[c].iface = i}

\* What is given up is closed, or somebody is closing it.
Closing ==
    /\ at.pc \in {"closing", "dropping", "refusing", "cancelling"} => iface \in Settled \cup {None}
    /\ meshLock = "lost" \/ main = "waiting" => iface \in Settled \cup {None}
    /\ at.client # None => at.client = iface \/ at.client \in Settled
    /\ at.pc \in {"refusing", "cancelling", "closed"} => at.client \in Settled
    /\ at.pc = "disposed" => job[at.job].iface \in Settled
    /\ \A j \in Jobs : job[j].st = "disposing" => job[j].iface \in Settled

\* Every open link has an owner.
Disposing(i) ==
    \E j \in Jobs : job[j].disposer /\ job[j].iface = i /\ job[j].st \in Busy
Held(i) ==
    /\ at.pc \in {"wait", "abandon", "disposing"} /\ job[at.job].iface = i
    /\ job[at.job].kind = "create" \/ at.pc = "disposing"
Owned ==
    \A i \in Jobs : link[i] = "open" => iface = i \/ Held(i) \/ Disposing(i) \/ i \in Settled

\* The inductive invariant.
BleInv ==
    /\ Types /\ Counted /\ Shapes /\ Watched /\ Attempting /\ Clients
    /\ JobsKnown /\ Workers /\ Alone /\ Hanging /\ Closing /\ Owned

-----------------------------------------------------------------------------
(* Numbers, and what the helpers of the actions do to the records *)

\* Threads, jobs, calls and generations are told apart by their numbers.
LEMMA Numbers ==
    /\ Jobs \subseteq Threads /\ None \notin Jobs /\ None \notin Calls
    /\ {ConnectThread, LostThread, MainThread} \subseteq Threads \ Jobs
    /\ ConnectThread # LostThread /\ ConnectThread # MainThread /\ LostThread # MainThread
    /\ Generations \subseteq Nat /\ 0 \in Generations /\ Jobs \subseteq Nat /\ Calls \subseteq Nat
BY BleAssumption DEF Jobs, Threads, ConnectThread, LostThread, MainThread, None, Calls, Generations

\* The bound on the generations leaves room for the next one.
LEMMA GenerationsAre ==
    ASSUME Types
    PROVE  /\ gen \in Generations
           /\ gen < MaxAttempts + drops => gen + 1 \in Generations /\ gen + 1 \in 0..(MaxAttempts + drops)
           /\ drops < MaxDrops => /\ gen + 1 \in Generations /\ drops + 1 \in 0..MaxDrops
                                  /\ gen + 1 \in 0..(MaxAttempts + (drops + 1))
BY BleAssumption DEF Types, Generations

\* The attempt goes to a place.
Moves(pc, j, c, a, why) ==
    /\ at' \in AttemptRecord
    /\ at'.pc = pc /\ at'.job = j /\ at'.client = c /\ at'.assigned = a /\ at'.why = why

\* Goto() changes nothing of the attempt but its place.
LEMMA GotoMoves ==
    ASSUME Types, NEW p \in Places, Goto(p)
    PROVE  Moves(p, at.job, at.client, at.assigned, at.why)
BY DEF Types, Goto, Moves, AttemptRecord

\* A failing attempt goes to its rollback with the reason.
LEMMA FailMoves ==
    ASSUME NEW a \in AttemptRecord, NEW why \in Reasons, Fail(a, why)
    PROVE  Moves("rollback", a.job, a.client, a.assigned, why)
BY DEF Fail, Moves, AttemptRecord, Places

\* An attempt that ends keeps nothing.
LEMMA IdleMoves ==
    ASSUME at' = Idle
    PROVE  Moves("idle", None, None, FALSE, "none")
BY Numbers DEF Idle, Moves, AttemptRecord, Places, Reasons, Interfaces

\* A thread begins to tear i down.
Starts(t, i) ==
    /\ teardown' \in [Threads -> TeardownRecord]
    /\ \A s \in Threads \ {t} : teardown'[s] = teardown[s]
    /\ teardown'[t].iface = i /\ teardown'[t].call = None

\* A thread that tears nothing down has no interface and waits for no call.
LEMMA NoTeardownTyped == NoTeardown \in TeardownRecord /\ NoTeardown.iface = None /\ NoTeardown.call = None
BY Numbers DEF NoTeardown, TeardownRecord, Interfaces

\* TearDown() starts without a hanging call.
LEMMA TearDownStarts ==
    ASSUME Types, NEW t \in Threads, NEW i \in Jobs, NEW g \in Generations, TearDown(t, i, g)
    PROVE  Starts(t, i)
<1> DEFINE d == [NoTeardown EXCEPT !.iface = i, !.gen = g]
<1>1. d \in TeardownRecord /\ d.iface = i /\ d.gen = g /\ d.call = None
  BY Numbers DEF NoTeardown, TeardownRecord, Interfaces
<1>2. teardown' = [teardown EXCEPT ![t] = d]
  BY DEF TearDown
<1> HIDE DEF d
<1> QED BY <1>1, <1>2 DEF Starts, Types

\* _get_ble_iface_generation() answers a generation, or zero.
LEMMA GenerationKnown ==
    ASSUME Types, NEW i \in Jobs
    PROVE  IfaceGeneration(i) \in Generations
<1>1. registered[i] \in Generations /\ gen \in Generations
  BY GenerationsAre DEF Types
<1> QED BY <1>1, Numbers DEF IfaceGeneration

\* Tearing i down takes nothing away from what is settled.
LEMMA StartsSettles ==
    ASSUME NEW t \in Threads, NEW i \in Jobs, Starts(t, i), teardown[t].iface = None,
           UNCHANGED call, \A k \in Jobs : link[k] = "closed" => link'[k] = "closed"
    PROVE  Settled \subseteq Settled' /\ i \in Settled'
BY Numbers DEF Starts, Settled

\* The calls of a disconnect follow each other; only after a close() there is none.
LEMMA NextCallsAre ==
    ASSUME NEW d \in TeardownRecord, NEW ok \in BOOLEAN, NEW e \in NextCalls(d, ok)
    PROVE  /\ e \in TeardownRecord /\ e.call = None
           /\ \/ e.iface = d.iface /\ e.gen = d.gen
              \/ e = NoTeardown /\ d.phase = "close"
<1> DEFINE To(phase) == [d EXCEPT !.phase = phase, !.tries = 0, !.call = None]
           More == [d EXCEPT !.tries = @ + 1, !.call = None]
<1>0. d.tries + 1 \in Nat
  BY DEF TeardownRecord
<1>1. \A phase \in {"client", "close"} :
         To(phase) \in TeardownRecord /\ To(phase).call = None /\ To(phase).iface = d.iface /\ To(phase).gen = d.gen
  BY DEF TeardownRecord
<1>2. More \in TeardownRecord /\ More.call = None /\ More.iface = d.iface /\ More.gen = d.gen
  <2> DEFINE n == d.tries + 1
  <2>1. More = [d EXCEPT !.tries = n, !.call = None]
    BY DEF TeardownRecord
  <2>2. n \in Nat
    BY <1>0
  <2> HIDE DEF n
  <2> QED BY <2>1, <2>2 DEF TeardownRecord
<1>3. e \in {More, To("close"), To("client")} \/ (e = NoTeardown /\ d.phase = "close")
  BY DEF NextCalls, TeardownRecord
<1> HIDE DEF To, More
<1> QED BY <1>1, <1>2, <1>3, NoTeardownTyped

\* Two records of a job that differ in nothing but the state.
Alike(x, y) ==
    /\ x.kind = y.kind /\ x.ex = y.ex /\ x.iface = y.iface /\ x.res = y.res
    /\ x.disposer = y.disposer /\ x.timer = y.timer

\* The queued jobs are cancelled.
Dropped(jobs) ==
    /\ jobs \in [Jobs -> JobRecord]
    /\ \A k \in Jobs : Alike(jobs[k], job[k])
    /\ \A k \in Jobs : jobs[k].st = IF job[k].st = "queued" THEN "cancelled" ELSE job[k].st

\* Future.cancel() changes the state of one queued job at most.
LEMMA CancelIs ==
    ASSUME NEW jobs \in [Jobs -> JobRecord], NEW j \in Interfaces
    PROVE  /\ Cancelled(jobs, j) \in [Jobs -> JobRecord]
           /\ \A k \in Jobs \ {j} : Cancelled(jobs, j)[k] = jobs[k]
           /\ j \in Jobs => /\ Alike(Cancelled(jobs, j)[j], jobs[j])
                            /\ Cancelled(jobs, j)[j].st = IF jobs[j].st = "queued" THEN "cancelled" ELSE jobs[j].st
BY Numbers DEF Cancelled, Alike, JobRecord, JobStates, Interfaces

\* The shutdown of an executor cancels the queued jobs of that executor.
LEMMA ShutDownIs ==
    ASSUME NEW jobs \in [Jobs -> JobRecord], NEW e \in Nat
    PROVE  /\ ShutDown(jobs, e) \in [Jobs -> JobRecord]
           /\ \A k \in Jobs : Alike(ShutDown(jobs, e)[k], jobs[k])
           /\ \A k \in Jobs : ShutDown(jobs, e)[k].st =
                 IF jobs[k].ex = e /\ jobs[k].st = "queued" THEN "cancelled" ELSE jobs[k].st
BY DEF ShutDown, Alike, JobRecord, JobStates

\* All queued jobs are on the executor in use.
LEMMA DropsQueued ==
    ASSUME Types, Workers, NEW j \in Interfaces, NEW e \in Nat, e = ble.exec
    PROVE  Dropped(ShutDown(Cancelled(job, j), e))
<1>1. Cancelled(job, j) \in [Jobs -> JobRecord]
  BY CancelIs DEF Types
<1> DEFINE c == Cancelled(job, j)
           s == ShutDown(c, e)
<1>2. \A k \in Jobs : Alike(c[k], job[k]) /\ c[k].st \in {job[k].st, IF job[k].st = "queued" THEN "cancelled" ELSE job[k].st}
  <2> TAKE k \in Jobs
  <2>0. job \in [Jobs -> JobRecord]
    BY DEF Types
  <2>1. CASE k = j BY <2>0, <2>1, CancelIs
  <2>2. CASE k # j BY <2>0, <2>2, CancelIs DEF Alike
  <2> QED BY <2>1, <2>2
<1>3. /\ s \in [Jobs -> JobRecord] /\ \A k \in Jobs : Alike(s[k], c[k])
      /\ \A k \in Jobs : s[k].st = IF c[k].ex = e /\ c[k].st = "queued" THEN "cancelled" ELSE c[k].st
  BY <1>1, ShutDownIs
<1>4. \A k \in Jobs : job[k].st = "queued" => job[k].ex = e
  BY DEF Workers
<1> HIDE DEF c, s
<1>5. \A k \in Jobs : Alike(s[k], job[k]) /\ c[k].ex = job[k].ex
  BY <1>2, <1>3 DEF Alike
<1>6. \A k \in Jobs : s[k].st = IF job[k].st = "queued" THEN "cancelled" ELSE job[k].st
  BY <1>2, <1>3, <1>4, <1>5
<1> QED BY <1>3, <1>5, <1>6 DEF Dropped, c, s

\* A reset drops what is queued, frees the slot, and degrades the address or takes a new executor.
LEMMA ResetIs ==
    ASSUME Types, Workers, NEW b \in ExecutorRecord, b.exec = ble.exec, NEW n \in Nat, Resets(b, n)
    PROVE  /\ Dropped(ResetJobs(b, n)) /\ ResetBle(b, n) \in ExecutorRecord
           /\ ResetBle(b, n).slot = None
           /\ \/ /\ ResetBle(b, n).exec = b.exec /\ ResetBle(b, n).execs = b.execs
                 /\ ResetBle(b, n).degraded
              \/ /\ ResetBle(b, n).exec = b.execs + 1 /\ ResetBle(b, n).execs = b.execs + 1
                 /\ ~ResetBle(b, n).degraded /\ ~ResetBle(b, n).shut
<1>1. b.slot \in Interfaces /\ b.exec \in Nat
  BY DEF ExecutorRecord
<1>2. Dropped(ResetJobs(b, n))
  BY <1>1, DropsQueued DEF ResetJobs
<1>3. CASE b.orphans + 1 >= OrphanThreshold
  BY <1>2, <1>3, Numbers DEF ResetBle, ExecutorRecord, Interfaces
<1>4. CASE ~(b.orphans + 1 >= OrphanThreshold)
  <2> DEFINE r == [b EXCEPT !.orphans = IF b.exec # None /\ ~b.shut THEN @ + 1 ELSE @,
                   !.exec = b.execs + 1, !.execs = @ + 1, !.slot = None, !.timeouts = 0,
                   !.shut = FALSE]
  <2>1. ResetBle(b, n) = r
    BY <1>4 DEF ResetBle
  <2>2. r \in ExecutorRecord /\ r.slot = None /\ r.exec = b.execs + 1 /\ r.execs = b.execs + 1 /\ ~r.shut
        /\ r.degraded = b.degraded
    <3> DEFINE o == IF b.exec # None /\ ~b.shut THEN b.orphans + 1 ELSE b.orphans
    <3>1. r = [b EXCEPT !.orphans = o, !.exec = b.execs + 1, !.execs = b.execs + 1, !.slot = None,
                        !.timeouts = 0, !.shut = FALSE]
      BY DEF ExecutorRecord
    <3>2. o \in Nat /\ b.execs + 1 \in Nat
      BY DEF ExecutorRecord
    <3> HIDE DEF o
    <3> QED BY <3>1, <3>2, Numbers DEF ExecutorRecord, Interfaces
  <2> HIDE DEF r
  <2> QED BY <1>2, <2>1, <2>2 DEF Resets
<1> QED BY <1>3, <1>4

\* Below the threshold _maybe_reset_ble_executor() does nothing.
LEMMA NoResetIs ==
    ASSUME NEW b, NEW n, ~Resets(b, n)
    PROVE  ResetBle(b, n) = b /\ ResetJobs(b, n) = job
BY DEF ResetBle, ResetJobs

\* The ranges of the fields that name jobs, threads and calls.
LEMMA Domains ==
    ASSUME Types
    PROVE  /\ iface \in Jobs \cup {None} /\ client \in Jobs \cup {None}
           /\ at.job \in Jobs \cup {None} /\ at.client \in Jobs \cup {None}
           /\ ble.slot \in Jobs \cup {None}
           /\ \A k \in Jobs : job[k].iface \in Jobs \cup {None}
           /\ \A t \in Threads : teardown[t].iface \in Jobs \cup {None} /\ teardown[t].call \in Calls \cup {None}
           /\ \A c \in Calls : call[c].by \in Threads
BY DEF Types, Interfaces, AttemptRecord, JobRecord, TeardownRecord, CallRecord, ExecutorRecord

\* A thread that begins to tear an interface down waits for no call yet.
LEMMA StartsHanging ==
    ASSUME Types, Hanging, NEW t \in Threads, NEW i \in Jobs, Starts(t, i), teardown[t].iface = None,
           UNCHANGED <<call, link>>
    PROVE  Hanging'
<1>1. \A c \in Calls : call[c].waiter \in Pending => call[c].by \in Threads \ {t}
  BY Domains DEF Hanging
<1>2. \A c \in Calls : call'[c] = call[c]
  OBVIOUS
<1>3. \A c \in Calls : call[c].iface \in Jobs \cup {None}
  BY DEF Types, CallRecord, Interfaces
<1>4. \A s \in Threads : teardown'[s].call # None => s # t /\ teardown'[s] = teardown[s]
  BY DEF Starts
<1>5. \A s \in Threads : teardown'[s].call # None => teardown[s].call \in Calls
  BY <1>4, Domains
<1>6. \A s \in Threads : teardown'[s].call # None =>
         call'[teardown'[s].call].waiter \in Pending /\ call'[teardown'[s].call].by = s
  BY <1>2, <1>4, <1>5 DEF Hanging
<1>7. \A c \in Calls : call'[c].waiter \in Pending =>
          /\ teardown'[call'[c].by].call = c /\ call'[c].iface # None
          /\ teardown'[call'[c].by].iface = call'[c].iface
          /\ call'[c].st \in {"done", "exited"} => link'[call'[c].iface] = "closed"
  BY <1>1, <1>2, <1>3 DEF Hanging, Starts
<1> QED BY <1>2, <1>6, <1>7 DEF Hanging

\* The jobs are what they were.
SameJobs ==
    /\ job' \in [Jobs -> JobRecord]
    /\ \A k \in Jobs : Alike(job'[k], job[k]) /\ job'[k].st = job[k].st

\* Job j becomes the one that is waited for, on the executor in use or on a new one.
Enqueued(j) ==
    /\ job' \in [Jobs -> JobRecord]
    /\ \A k \in Jobs \ {j} : Alike(job'[k], job[k]) /\ job'[k].st = job[k].st
    /\ job[j].st = "none" /\ job'[j].st = "queued" /\ job'[j].res = "none" /\ ~job'[j].disposer
    /\ job'[j].kind = IF iface = None THEN "create" ELSE "connect"
    /\ job'[j].iface = IF iface = None THEN j ELSE iface
    /\ ble' \in ExecutorRecord /\ ble'.slot = j /\ ~ble'.degraded /\ ~ble'.shut
    /\ ble'.exec # None /\ ble'.exec <= ble'.execs /\ ble.execs <= ble'.execs
    /\ ble'.exec = ble.exec \/ ble'.exec > ble.execs
    /\ job'[j].ex = ble'.exec
    /\ Moves("wait", j, at.client, at.assigned, at.why)
    /\ UNCHANGED <<shuttingDown, lib, iface, client, meshLock, ifaceLock, gen, registered,
                   unresolved, teardown, call, link, main, drops>>

\* The executor record b takes job j; jobs differs from job in nothing but late.
LEMMA SubmittedEnqueues ==
    ASSUME Types, Workers, NEW b \in ExecutorRecord, ~b.degraded, ~b.shut,
           (b.exec = ble.exec /\ b.execs = ble.execs) \/ (b.exec = ble.execs + 1 /\ b.execs = ble.execs + 1),
           NEW jobs \in [Jobs -> JobRecord],
           \A k \in Jobs : Alike(jobs[k], job[k]) /\ jobs[k].st = job[k].st,
           NEW j \in Jobs, jobs[j].st = "none",
           ble' = [GetExecutor(b) EXCEPT !.slot = j],
           job' = [jobs EXCEPT ![j] = [NoJob EXCEPT !.st = "queued", !.ex = GetExecutor(b).exec,
                        !.kind = IF iface = None THEN "create" ELSE "connect",
                        !.iface = IF iface = None THEN j ELSE iface]],
           at' = [at EXCEPT !.pc = "wait", !.job = j],
           UNCHANGED <<shuttingDown, lib, iface, client, meshLock, ifaceLock, gen, registered,
                   unresolved, teardown, call, link, main, drops>>
    PROVE  Enqueued(j)
<1> DEFINE g == GetExecutor(b)
<1>1. ble' = [g EXCEPT !.slot = j]
  OBVIOUS
<1>2. ble \in ExecutorRecord /\ ble.exec <= ble.execs
  BY DEF Types, Workers
<1>3. /\ g \in ExecutorRecord /\ ~g.degraded /\ ~g.shut
      /\ g.exec # None /\ g.exec <= g.execs /\ ble.execs <= g.execs
      /\ g.exec = ble.exec \/ g.exec > ble.execs
  <2>1. CASE b.exec = None
    <3>1. g = [b EXCEPT !.exec = b.execs + 1, !.execs = b.execs + 1, !.shut = FALSE]
      BY <2>1 DEF GetExecutor
    <3>2. b.execs + 1 \in Nat /\ b.execs >= ble.execs
      BY <1>2 DEF ExecutorRecord
    <3>3. g \in ExecutorRecord /\ ~g.degraded /\ ~g.shut /\ g.exec = b.execs + 1 /\ g.execs = b.execs + 1
      BY <3>1, <3>2 DEF ExecutorRecord
    <3>4. b.execs \in Nat /\ ble.execs \in Nat
      BY <1>2 DEF ExecutorRecord
    <3> HIDE DEF g
    <3> QED BY <3>2, <3>3, <3>4 DEF None
  <2>2. CASE b.exec # None
    <3>1. g = b
      BY <2>2 DEF GetExecutor
    <3>2. ble.execs \in Nat /\ ble.exec \in Nat
      BY <1>2 DEF ExecutorRecord
    <3> HIDE DEF g
    <3> QED BY <1>2, <2>2, <3>1, <3>2
  <2> QED BY <2>1, <2>2
<1> HIDE DEF g
<1>4. /\ ble' \in ExecutorRecord /\ ble'.slot = j /\ ble'.exec = g.exec /\ ble'.execs = g.execs
      /\ ble'.shut = g.shut /\ ble'.degraded = g.degraded
  BY <1>1, <1>3 DEF ExecutorRecord, Interfaces
<1> DEFINE n == [NoJob EXCEPT !.st = "queued", !.ex = g.exec,
                        !.kind = IF iface = None THEN "create" ELSE "connect",
                        !.iface = IF iface = None THEN j ELSE iface]
<1>5. /\ n \in JobRecord /\ n.st = "queued" /\ n.res = "none" /\ ~n.disposer /\ n.ex = g.exec
      /\ n.kind = IF iface = None THEN "create" ELSE "connect"
      /\ n.iface = IF iface = None THEN j ELSE iface
  BY <1>3 DEF NoJob, JobRecord, JobStates, Interfaces, ExecutorRecord, Types
<1>6. job' = [jobs EXCEPT ![j] = n]
  BY DEF g
<1> HIDE DEF n
<1>7. job' \in [Jobs -> JobRecord] /\ job'[j] = n /\ \A k \in Jobs \ {j} : job'[k] = jobs[k]
  BY <1>5, <1>6
<1>8. Moves("wait", j, at.client, at.assigned, at.why)
  BY DEF Moves, Types, AttemptRecord, Places, Interfaces
<1> QED BY <1>3, <1>4, <1>5, <1>7, <1>8 DEF Enqueued

\* The attempt ends before its job is submitted; the executor may have been given up.
GivesUp ==
    /\ SameJobs
    /\ \/ ble' = ble
       \/ /\ ble' \in ExecutorRecord /\ ble'.slot = None /\ ble'.degraded
          /\ ble'.exec = ble.exec /\ ble'.execs = ble.execs
    /\ \E why \in Reasons : Fail(at, why)
    /\ ifaceLock' \in {ifaceLock, "free"}
    /\ UNCHANGED <<shuttingDown, lib, iface, client, meshLock, gen, registered, unresolved,
                   teardown, call, link, main, drops>>

\* No job is queued unless the attempt waits for it.
LEMMA NoneQueued ==
    ASSUME Workers, at.pc \notin {"wait", "abandon"}, NEW jobs, Dropped(jobs)
    PROVE  /\ jobs \in [Jobs -> JobRecord]
           /\ \A k \in Jobs : Alike(jobs[k], job[k]) /\ jobs[k].st = job[k].st
BY DEF Workers, Waiting, Dropped

\* One timeout more.
LEMMA RecordedIs ==
    ASSUME NEW b \in ExecutorRecord
    PROVE  /\ Recorded(b) \in ExecutorRecord /\ Recorded(b).timeouts = b.timeouts + 1
           /\ Recorded(b).slot = b.slot /\ Recorded(b).exec = b.exec /\ Recorded(b).execs = b.execs
           /\ Recorded(b).shut = b.shut /\ Recorded(b).degraded = b.degraded
<1>1. b.timeouts + 1 \in Nat
  BY DEF ExecutorRecord
<1> DEFINE n == b.timeouts + 1
<1>2. Recorded(b) = [b EXCEPT !.timeouts = n]
  BY DEF Recorded, ExecutorRecord
<1>3. n \in Nat
  BY <1>1
<1> HIDE DEF n
<1>4. [b EXCEPT !.timeouts = n] \in ExecutorRecord
  BY <1>3 DEF ExecutorRecord
<1> QED BY <1>2, <1>4 DEF ExecutorRecord, n

\* _ensure_ble_worker_available() and submit() enqueue one job or give the attempt up.
LEMMA SubmitCases ==
    ASSUME BleInv, Submit
    PROVE  at.pc = "ensure" /\ (GivesUp \/ \E j \in Jobs : Enqueued(j))
<1>0. Types /\ Workers /\ Watched /\ at.pc = "ensure"
  BY DEF BleInv, Submit, At
<1>1. UNCHANGED <<shuttingDown, lib, iface, client, meshLock, gen, registered, unresolved,
                  teardown, call, link, main, drops>>
  BY DEF Submit, lifecycle
<1>2. ble \in ExecutorRecord /\ job \in [Jobs -> JobRecord]
  BY <1>0 DEF Types
<1>3. CASE ~SlotBusy /\ ~ble.degraded /\ Submitted(ble, job)
  <2>1. ~ble.shut /\ ~ble.degraded
    BY <1>0, <1>3 DEF Workers
  <2>2. PICK j \in Jobs :
          /\ job[j].st = "none" /\ ble' = [GetExecutor(ble) EXCEPT !.slot = j]
          /\ job' = [job EXCEPT ![j] = [NoJob EXCEPT !.st = "queued", !.ex = GetExecutor(ble).exec,
                        !.kind = IF iface = None THEN "create" ELSE "connect",
                        !.iface = IF iface = None THEN j ELSE iface]]
          /\ at' = [at EXCEPT !.pc = "wait", !.job = j] /\ UNCHANGED ifaceLock
    BY <1>3 DEF Submitted
  <2>3. \A k \in Jobs : Alike(job[k], job[k]) /\ job[k].st = job[k].st
    BY DEF Alike
  <2> QED BY <1>0, <1>1, <1>2, <2>1, <2>2, <2>3, SubmittedEnqueues
<1>4. CASE (\E why \in {"degraded", "timeout"} : Fail(at, why)) /\ Leave /\ UNCHANGED <<job, ble>>
  <2>1. \E why \in Reasons : Fail(at, why)
    BY <1>4 DEF Reasons
  <2> QED BY <1>0, <1>1, <1>2, <1>4, <2>1 DEF GivesUp, SameJobs, Alike, Leave
<1> DEFINE r == Recorded(ble)
           b == ResetBle(r, StaleReset)
           jobs == ResetJobs(r, StaleReset)
<1>5. CASE SlotBusy /\ (IF b.degraded THEN Fail(at, "degraded") /\ Leave /\ ble' = b /\ job' = jobs
                        ELSE Submitted(b, jobs))
  <2>1. ~ble.degraded
    BY <1>0, <1>5 DEF Watched, SlotBusy
  <2>2. /\ r \in ExecutorRecord /\ r.timeouts = ble.timeouts + 1 /\ r.exec = ble.exec
        /\ r.execs = ble.execs /\ ~r.degraded
    BY <1>2, <2>1, RecordedIs
  <2>3. StaleReset \in Nat /\ StaleReset >= TimeoutThreshold
    <3>1. r.timeouts \in Nat /\ TimeoutThreshold \in Nat
      BY <2>2, BleAssumption DEF ExecutorRecord
    <3>2. StaleReset = IF r.timeouts > TimeoutThreshold THEN r.timeouts ELSE TimeoutThreshold
      BY DEF StaleReset
    <3> HIDE DEF r
    <3> QED BY <3>1, <3>2
  <2>4. Resets(r, StaleReset)
    BY <2>2, <2>3 DEF Resets
  <2> HIDE DEF r
  <2>5. Dropped(jobs) /\ b \in ExecutorRecord /\ b.slot = None
    BY <1>0, <2>2, <2>3, <2>4, ResetIs
  <2>6. \/ b.exec = ble.exec /\ b.execs = ble.execs /\ b.degraded
        \/ b.exec = ble.execs + 1 /\ b.execs = ble.execs + 1 /\ ~b.degraded /\ ~b.shut
    BY <1>0, <2>2, <2>3, <2>4, ResetIs
  <2> HIDE DEF b, jobs
  <2>7. jobs \in [Jobs -> JobRecord] /\ \A k \in Jobs : Alike(jobs[k], job[k]) /\ jobs[k].st = job[k].st
    BY <1>0, <2>5, NoneQueued
  <2>8. CASE b.degraded
    <3>1. b.exec = ble.exec /\ b.execs = ble.execs
      BY <2>6, <2>8
    <3>2. Fail(at, "degraded") /\ Leave /\ ble' = b /\ job' = jobs
      BY <1>5, <2>8
    <3>3. \E why \in Reasons : Fail(at, why)
      BY <3>2 DEF Reasons
    <3>4. SameJobs
      BY <2>7, <3>2 DEF SameJobs
    <3>5. ifaceLock' \in {ifaceLock, "free"}
      BY <3>2 DEF Leave
    <3>6. ble' \in ExecutorRecord /\ ble'.slot = None /\ ble'.degraded
      BY <2>5, <2>8, <3>2
    <3>7. ble'.exec = ble.exec /\ ble'.execs = ble.execs
      BY <3>1, <3>2
    <3> QED BY <1>0, <1>1, <3>3, <3>4, <3>5, <3>6, <3>7 DEF GivesUp
  <2>9. CASE ~b.degraded
    <3>1. Submitted(b, jobs) /\ ~b.shut
      BY <1>5, <2>6, <2>9
    <3>2. PICK j \in Jobs :
          /\ jobs[j].st = "none" /\ ble' = [GetExecutor(b) EXCEPT !.slot = j]
          /\ job' = [jobs EXCEPT ![j] = [NoJob EXCEPT !.st = "queued", !.ex = GetExecutor(b).exec,
                        !.kind = IF iface = None THEN "create" ELSE "connect",
                        !.iface = IF iface = None THEN j ELSE iface]]
          /\ at' = [at EXCEPT !.pc = "wait", !.job = j] /\ UNCHANGED ifaceLock
      BY <3>1 DEF Submitted
    <3> QED BY <1>0, <1>1, <2>5, <2>6, <2>7, <2>9, <3>1, <3>2, SubmittedEnqueues
  <2> QED BY <2>8, <2>9
<1> HIDE DEF r, b, jobs
<1> QED BY <1>0, <1>3, <1>4, <1>5 DEF Submit, r, b, jobs

\* The degraded state is lifted, or nothing is changed.
Lifted ==
    /\ ble' \in ExecutorRecord /\ ble'.slot = ble.slot /\ ble'.execs = ble.execs
    /\ \/ ble' = ble
       \/ ble'.exec = None /\ ~ble'.shut /\ ~ble'.degraded /\ ble.degraded

\* reset_executor_degraded_state() leaves a usable record, with the executor in use or none.
LEMMA ResetDegradedLifts ==
    ASSUME Types, ble' \in {ble, ResetDegraded(ble)}
    PROVE  Lifted
<1>0. ble \in ExecutorRecord
  BY DEF Types
<1>1. CASE ble' = ble
  BY <1>0, <1>1 DEF Lifted
<1>2. CASE ble' = ResetDegraded(ble) /\ ble.degraded
  <2>1. ble' = [ble EXCEPT !.degraded = FALSE, !.orphans = 0, !.exec = None, !.shut = FALSE]
    BY <1>2 DEF ResetDegraded
  <2>2. ble' \in ExecutorRecord
    BY <1>0, <2>1 DEF ExecutorRecord, None
  <2>3. ble'.slot = ble.slot /\ ble'.execs = ble.execs /\ ble'.exec = None /\ ble'.shut = FALSE /\ ble'.degraded = FALSE
    BY <1>0, <2>1 DEF ExecutorRecord
  <2> QED BY <1>2, <2>2, <2>3 DEF Lifted
<1> QED BY <1>1, <1>2 DEF ResetDegraded

\* The attempt leaves its job; why may have become a shutdown.
LEMMA LeavesJob ==
    ASSUME Types, NEW p \in {"count", "disposing"}, NEW c \in Interfaces, NEW why \in {at.why, "shutdown"},
           at' = [at EXCEPT !.pc = p, !.why = why, !.client = c]
    PROVE  Moves(p, at.job, c, at.assigned, why)
BY DEF Types, Moves, AttemptRecord, Places, Reasons

\* _clear_ble_future() frees the slot of its own job only.
LEMMA ClearedIs ==
    ASSUME NEW b \in ExecutorRecord, NEW j \in Jobs
    PROVE  /\ Cleared(b, j) \in ExecutorRecord
           /\ Cleared(b, j).slot = IF b.slot = j THEN None ELSE b.slot
           /\ Cleared(b, j).exec = b.exec /\ Cleared(b, j).execs = b.execs
           /\ Cleared(b, j).shut = b.shut /\ Cleared(b, j).degraded = b.degraded
<1>1. CASE b.slot = j
  <2>1. Cleared(b, j) = [b EXCEPT !.slot = None, !.timeouts = 0]
    BY <1>1 DEF Cleared
  <2> DEFINE r == [b EXCEPT !.slot = None, !.timeouts = 0]
  <2>2. r \in ExecutorRecord
    BY DEF ExecutorRecord, Interfaces
  <2>3. r.slot = None /\ r.exec = b.exec /\ r.execs = b.execs /\ r.shut = b.shut /\ r.degraded = b.degraded
    BY DEF ExecutorRecord
  <2> HIDE DEF r
  <2> QED BY <1>1, <2>1, <2>2, <2>3 DEF r
<1>2. CASE b.slot # j
  BY <1>2 DEF Cleared
<1> QED BY <1>1, <1>2

\* The executor is replaced, given up, or left as it is.
Replaced ==
    /\ ble' \in ExecutorRecord /\ ble'.slot \in {None, ble.slot}
    /\ ble'.degraded => ble'.slot = None
    /\ ble'.shut => ble'.degraded
    /\ \/ ble'.exec = ble.exec /\ ble'.execs = ble.execs
       \/ ble'.exec = ble.execs + 1 /\ ble'.execs = ble.execs + 1

\* What a timeout that is counted does to the executor and to the jobs.
LEMMA CountReplaces ==
    ASSUME Types, Workers, Watched, at.pc \notin {"wait", "abandon"},
           ble' = ResetBle(Recorded(ble), Recorded(ble).timeouts),
           job' = ResetJobs(Recorded(ble), Recorded(ble).timeouts)
    PROVE  Replaced /\ SameJobs
<1> DEFINE b == Recorded(ble)
           n == b.timeouts
<1>1. ble \in ExecutorRecord /\ job \in [Jobs -> JobRecord]
  BY DEF Types
<1>2. /\ b \in ExecutorRecord /\ n \in Nat /\ b.slot = ble.slot /\ b.exec = ble.exec /\ b.execs = ble.execs
      /\ b.shut = ble.shut /\ b.degraded = ble.degraded
  BY <1>1, RecordedIs DEF ExecutorRecord
<1>3. ble' = ResetBle(b, n) /\ job' = ResetJobs(b, n)
  OBVIOUS
<1> HIDE DEF b, n
<1>4. CASE Resets(b, n)
  <2>1. /\ Dropped(job') /\ ble' \in ExecutorRecord /\ ble'.slot = None
        /\ \/ ble'.exec = ble.exec /\ ble'.execs = ble.execs /\ ble'.degraded
           \/ ble'.exec = ble.execs + 1 /\ ble'.execs = ble.execs + 1 /\ ~ble'.degraded /\ ~ble'.shut
    BY <1>2, <1>3, <1>4, ResetIs
  <2>2. SameJobs
    BY <2>1, NoneQueued DEF SameJobs
  <2> QED BY <2>1, <2>2 DEF Replaced
<1>5. CASE ~Resets(b, n)
  <2>1. ble' = b /\ job' = job
    BY <1>3, <1>5, NoResetIs
  <2>2. (ble.degraded => ble.slot = None) /\ (ble.shut => ble.degraded)
    BY DEF Watched, Workers
  <2>3. SameJobs
    BY <1>1, <2>1 DEF SameJobs, Alike
  <2> QED BY <1>2, <2>1, <2>2, <2>3 DEF Replaced
<1> QED BY <1>4, <1>5

\* While nobody waits for a job, a replaced executor keeps the slot watched,
LEMMA ReplacedWatches ==
    ASSUME Types, Watched, Replaced, SameJobs, at.pc \notin {"wait", "abandon"}
    PROVE  Watched'
<1>1. ble'.slot \in {None, ble.slot} /\ (ble'.degraded => ble'.slot = None)
  BY DEF Replaced
<1>2. \A k \in Jobs : job'[k].st = job[k].st /\ job'[k].timer = job[k].timer
  BY DEF SameJobs, Alike
<1>3. \A k \in Jobs : ~Waiting(k)
  BY DEF Waiting
<1>4. ble.slot \in Jobs \cup {None}
  BY Domains
<1>5. ble'.slot # None => job'[ble'.slot].st # "none"
  BY <1>1, <1>2, <1>4 DEF Watched
<1>6. ASSUME NEW j \in Jobs, ble'.slot = j, job'[j].st \in {"queued", "running"}
      PROVE  job'[j].st = "running" /\ job'[j].timer \in {"armed", "firing"}
  BY <1>1, <1>2, <1>3, <1>6, Numbers DEF Watched
<1> QED BY <1>1, <1>5, <1>6 DEF Watched

\* and what is known of the workers.
LEMMA ReplacedWorks ==
    ASSUME Types, Workers, Replaced, SameJobs, at.pc \notin {"wait", "abandon"}, UNCHANGED iface,
           at'.pc # "wait", at'.pc = "abandon" => at'.why = "shutdown"
    PROVE  Workers'
<1>1. /\ ble.execs \in Nat /\ ble.exec \in Nat /\ ble.exec <= ble.execs
      /\ \A k \in Jobs : job[k].ex \in Nat /\ job[k].ex <= ble.execs
  BY DEF Types, ExecutorRecord, JobRecord, Workers
<1>2. /\ ble'.shut => ble'.degraded
      /\ \/ ble'.exec = ble.exec /\ ble'.execs = ble.execs
         \/ ble'.exec = ble.execs + 1 /\ ble'.execs = ble.execs + 1
  BY DEF Replaced
<1>3. \A k \in Jobs : job'[k].st = job[k].st /\ job'[k].ex = job[k].ex /\ job'[k].disposer = job[k].disposer
  BY DEF SameJobs, Alike
<1>4. \A k \in Jobs : ~Waiting(k)
  BY DEF Waiting
<1>5. \A k \in Jobs : job[k].st # "queued" /\ (job[k].st = "running" => job[k].disposer)
  BY <1>4 DEF Workers
<1>6. ble'.exec <= ble'.execs /\ \A k \in Jobs : job'[k].ex <= ble'.execs
  BY <1>1, <1>2, <1>3
<1>7. ASSUME iface' # None, ble'.exec # None, NEW k \in Jobs, job'[k].ex = ble'.exec
      PROVE  /\ job'[k].st \notin {"dispose", "disposing"}
             /\ job'[k].st \in {"queued", "running", "callbacks"} => ~job'[k].disposer
  <2>1. ble'.exec = ble.exec
    BY <1>1, <1>2, <1>3, <1>7
  <2> QED BY <1>3, <1>7, <2>1 DEF Workers
<1> QED BY <1>2, <1>3, <1>5, <1>6, <1>7 DEF Workers

\* After a rollback the attempt is idle or tries again, and holds nothing.
LEMMA NextTryMoves ==
    ASSUME Types, at' = NextTry
    PROVE  \E pc \in {"idle", "attempt"} : Moves(pc, None, None, FALSE, "none")
<1>1. CASE at' = Idle
  BY <1>1, IdleMoves
<1>2. CASE \E t \in Nat, n \in Nat : at' = [Idle EXCEPT !.pc = "attempt", !.timeouts = t, !.attempts = n]
  <2>1. PICK t \in Nat, n \in Nat : at' = [Idle EXCEPT !.pc = "attempt", !.timeouts = t, !.attempts = n]
    BY <1>2
  <2> QED BY <2>1, Numbers DEF Idle, Moves, AttemptRecord, Places, Reasons, Interfaces
<1>3. at.timeouts \in Nat /\ at.attempts \in Nat
  BY DEF Types, AttemptRecord
<1>4. CASE at' # Idle
  <2> DEFINE t == IF at.why = "timeout" /\ RetryLimit = 0 THEN at.timeouts + 1 ELSE at.timeouts
             n == IF RetryLimit = 0 THEN 0 ELSE at.attempts + 1
  <2>1. t \in Nat /\ n \in Nat
    BY <1>3
  <2>2. at' = [Idle EXCEPT !.pc = "attempt", !.timeouts = t, !.attempts = n]
    BY <1>4 DEF NextTry
  <2> HIDE DEF t, n
  <2> QED BY <1>2, <2>1, <2>2
<1> QED BY <1>1, <1>4

\* A job with nothing left to do.
Ends(j) ==
    /\ job' \in [Jobs -> JobRecord] /\ \A k \in Jobs \ {j} : job'[k] = job[k]
    /\ job'[j].st = "over" /\ job'[j].ex = None /\ ~job'[j].disposer
    /\ job'[j].kind = job[j].kind /\ job'[j].iface = job[j].iface /\ job'[j].res = job[j].res

\* A job that is over has no executor, no disposer and no armed timer.
LEMMA OverEnds ==
    ASSUME Types, NEW j \in Jobs, job' = Over(j)
    PROVE  Ends(j)
<1>1. job \in [Jobs -> JobRecord]
  BY DEF Types
<1>2. \A k \in Jobs \ {j} : job'[k] = job[k]
  BY <1>1 DEF Over
<1>3. /\ job'[j].st = "over" /\ job'[j].ex = None /\ job'[j].late = FALSE /\ job'[j].disposer = FALSE
      /\ job'[j].kind = job[j].kind /\ job'[j].iface = job[j].iface /\ job'[j].res = job[j].res
  BY <1>1 DEF Over, JobRecord
<1>4. job' \in [Jobs -> JobRecord]
  <2> DEFINE t == IF job[j].timer = "armed" THEN "off" ELSE job[j].timer
             n == [job[j] EXCEPT !.st = "over", !.ex = None, !.late = FALSE, !.disposer = FALSE, !.timer = t]
  <2>1. t \in {"off", "armed", "firing"}
    BY <1>1 DEF JobRecord
  <2>2. job' = [job EXCEPT ![j] = n]
    BY <1>1 DEF Over, JobRecord
  <2> HIDE DEF t
  <2>3. n \in JobRecord
    BY <1>1, <2>1 DEF JobRecord, JobStates, None
  <2> HIDE DEF n
  <2> QED BY <1>1, <2>2, <2>3
<1> QED BY <1>2, <1>3, <1>4 DEF Ends

\* A job keeps what it is about, whatever becomes of it.
SameDevices ==
    \A k \in Jobs : job'[k].kind = job[k].kind /\ job'[k].iface = job[k].iface

\* A job that only goes on keeps what is known of the attempt,
LEMMA JobsAttempting ==
    ASSUME Types, Attempting, SameDevices, UNCHANGED <<at, iface, ifaceLock>>,
           \A k \in Jobs : job[k].st # "none" => job'[k].st # "none",
           \A k \in Jobs : job[k].res \in {"ok", "wrong"} => job'[k].res \in {"ok", "wrong"}
    PROVE  Attempting'
<1>1. at.pc \in WithJob => at.job \in Jobs
  BY Domains DEF Attempting
<1> QED BY <1>1 DEF Attempting, WithJob, SameDevices

\* what is known of the interfaces being closed,
LEMMA JobsClosing ==
    ASSUME Types, Attempting, Closing, SameDevices, UNCHANGED <<at, iface, meshLock, main>>,
           Settled \subseteq Settled',
           \A k \in Jobs : job'[k].st = "disposing" => job[k].st = "disposing" \/ job[k].iface \in Settled'
    PROVE  Closing'
<1>1. at.pc = "disposed" => at.job \in Jobs
  BY Domains DEF Attempting, WithJob
<1>2. at.pc = "disposed" => job'[at.job].iface \in Settled'
  BY <1>1 DEF Closing, SameDevices
<1>3. \A k \in Jobs : job'[k].st = "disposing" => job'[k].iface \in Settled'
  BY DEF Closing, SameDevices
<1> QED BY <1>2, <1>3 DEF Closing

\* and the owner of every open link.
LEMMA JobsOwned ==
    ASSUME Types, Attempting, Owned, SameDevices, UNCHANGED <<at, iface>>,
           Settled \subseteq Settled',
           \A i \in Jobs : link'[i] = "open" => link[i] = "open" \/ Held(i) \/ Disposing(i)',
           \A i \in Jobs : link[i] = "open" /\ Disposing(i) => iface = i \/ Disposing(i)' \/ i \in Settled'
    PROVE  Owned'
<1>1. \A i \in Jobs : Held(i) => Held(i)'
  <2>1. at.pc \in {"wait", "abandon", "disposing"} => at.job \in Jobs
    BY Domains DEF Attempting, WithJob
  <2> QED BY <2>1 DEF Held, SameDevices
<1> QED BY <1>1 DEF Owned

\* The jobs go on without one of them being queued or cancelled.
LEMMA JobsWorkers ==
    ASSUME Types, Attempting, Workers, UNCHANGED <<at, iface, ifaceLock>>,
           ble'.exec = ble.exec, ble'.execs = ble.execs, ble'.shut = ble.shut, ble'.degraded = ble.degraded,
           \A k \in Jobs : job'[k].ex = job[k].ex \/ (job'[k].ex = None /\ job'[k].st = "over"),
           \A k \in Jobs : job'[k].st \in {"queued", "running", "cancelled"} => job'[k].st = job[k].st,
           \A k \in Jobs : job[k].st \in {"queued", "cancelled"} => job'[k].st = job[k].st,
           \A k \in Jobs : job'[k].st \in Busy \cup {"queued"} => job'[k].disposer = job[k].disposer,
           \A k \in Jobs : job'[k].st \in Busy => job[k].st \in Busy,
           \A k \in Jobs : job'[k].st \in {"dispose", "disposing"} =>
              job[k].st \in {"dispose", "disposing"} \/ job[k].disposer
    PROVE  Workers'
<1>1. ble.execs \in Nat /\ \A k \in Jobs : job[k].ex \in Nat /\ job[k].ex <= ble.execs
  BY DEF Types, ExecutorRecord, JobRecord, Workers
<1>2. \A k \in Jobs : job'[k].ex <= ble'.execs
  BY <1>1 DEF None
<1>3. \A k \in Jobs : Waiting(k)' <=> Waiting(k)
  BY DEF Waiting
<1>4. \A k \in Jobs : job'[k].st = "queued" =>
         Waiting(k)' /\ job'[k].ex = ble'.exec /\ ble'.exec # None /\ ~ble'.degraded
  BY <1>3 DEF Workers
<1>5. \A k \in Jobs : job'[k].st = "running" => Waiting(k)' \/ job'[k].disposer
  BY <1>3 DEF Workers, Busy
<1>6. ASSUME iface' # None, ble'.exec # None, NEW k \in Jobs, job'[k].ex = ble'.exec
      PROVE  /\ job'[k].st \notin {"dispose", "disposing"}
             /\ job'[k].st \in {"queued", "running", "callbacks"} => ~job'[k].disposer
  <2>1. job[k].ex = ble.exec /\ iface # None /\ ble.exec # None
    BY <1>6
  <2>2. job[k].st \notin {"dispose", "disposing"} /\ (job[k].st \in {"queued", "running", "callbacks"} => ~job[k].disposer)
    BY <2>1 DEF Workers
  <2> QED BY <2>2 DEF Busy
<1>7. ASSUME at'.pc = "wait", ifaceLock' = "connector", ble'.exec # None,
             job'[at'.job].st \notin {"queued", "cancelled"},
             NEW k \in Jobs, job'[k].ex = ble'.exec, job'[k].st \in Busy
      PROVE  k = at'.job /\ ~job'[k].disposer
  <2>1. job[k].ex = ble.exec /\ job[k].st \in Busy /\ job'[k].disposer = job[k].disposer
    BY <1>7
  <2>2. CASE job[at.job].st \notin {"queued", "cancelled"}
    BY <1>7, <2>1, <2>2 DEF Workers
  <2>3. CASE job[at.job].st \in {"queued", "cancelled"}
    <3>1. at.job \in Jobs
      BY <1>7, Domains DEF Attempting, WithJob
    <3> QED BY <1>7, <2>3, <3>1
  <2> QED BY <2>2, <2>3
<1>8. at'.pc = "abandon" /\ ifaceLock' # "connector" /\ at'.why # "shutdown" =>
         job'[at'.job].st \notin {"queued", "cancelled"}
  <2>1. at.pc = "abandon" => at.job \in Jobs
    BY Domains DEF Attempting, WithJob
  <2> QED BY <2>1 DEF Workers
<1>9. ble'.exec <= ble'.execs /\ (ble'.shut => ble'.degraded)
  BY DEF Workers
<1> QED BY <1>2, <1>4, <1>5, <1>6, <1>7, <1>8, <1>9 DEF Workers

\* The queued jobs are cancelled; nothing else that matters is changed.
Drops ==
    /\ job' \in [Jobs -> JobRecord]
    /\ \A k \in Jobs : /\ job'[k].kind = job[k].kind /\ job'[k].ex = job[k].ex
                       /\ job'[k].iface = job[k].iface /\ job'[k].res = job[k].res
                       /\ job'[k].disposer = job[k].disposer
    /\ \A k \in Jobs : job'[k].st = IF job[k].st = "queued" THEN "cancelled" ELSE job[k].st

\* The executor is replaced, taken away or left as it is.
Switched ==
    /\ ble' \in ExecutorRecord
    /\ ble'.degraded => ble'.slot = None
    /\ ble'.shut => ble'.degraded
    /\ \/ ble'.exec \in {ble.exec, None} /\ ble'.execs = ble.execs
       \/ ble'.exec = ble.execs + 1 /\ ble'.execs = ble.execs + 1

\* Cancelling the queued jobs on a switch of the executor keeps what is known of the workers,
LEMMA DropsWorks ==
    ASSUME Types, Attempting, Workers, Switched, Drops, UNCHANGED <<at, ifaceLock>>, iface' \in {iface, None}
    PROVE  Workers'
<1>1. /\ ble.execs \in Nat /\ ble.exec \in Nat /\ ble.exec <= ble.execs
      /\ \A k \in Jobs : job[k].ex \in Nat /\ job[k].ex <= ble.execs
  BY DEF Types, ExecutorRecord, JobRecord, Workers
<1>2. /\ ble'.shut => ble'.degraded
      /\ \/ ble'.exec \in {ble.exec, None} /\ ble'.execs = ble.execs
         \/ ble'.exec = ble.execs + 1 /\ ble'.execs = ble.execs + 1
  BY DEF Switched
<1>3. /\ \A k \in Jobs : job'[k].ex = job[k].ex /\ job'[k].disposer = job[k].disposer
      /\ \A k \in Jobs : job'[k].st = IF job[k].st = "queued" THEN "cancelled" ELSE job[k].st
  BY DEF Drops
<1>4. \A k \in Jobs : Waiting(k)' <=> Waiting(k)
  BY DEF Waiting
<1>5. \A k \in Jobs : job'[k].st # "queued" /\ (job'[k].st = "running" => Waiting(k)' \/ job'[k].disposer)
  BY <1>3, <1>4 DEF Workers
<1>6. ble'.exec <= ble'.execs /\ \A k \in Jobs : job'[k].ex <= ble'.execs
  BY <1>1, <1>2, <1>3 DEF None
<1>7. \A k \in Jobs : ble'.exec # None /\ job'[k].ex = ble'.exec => ble'.exec = ble.exec /\ job[k].ex = ble.exec
  BY <1>1, <1>2, <1>3
<1>8. ASSUME iface' # None, ble'.exec # None, NEW k \in Jobs, job'[k].ex = ble'.exec
      PROVE  /\ job'[k].st \notin {"dispose", "disposing"}
             /\ job'[k].st \in {"queued", "running", "callbacks"} => ~job'[k].disposer
  <2>1. ble.exec # None /\ job[k].ex = ble.exec /\ iface # None
    BY <1>7, <1>8
  <2> QED BY <1>3, <2>1 DEF Workers
<1>9. ASSUME at'.pc = "wait", ifaceLock' = "connector", ble'.exec # None,
             job'[at'.job].st \notin {"queued", "cancelled"},
             NEW k \in Jobs, job'[k].ex = ble'.exec, job'[k].st \in Busy
      PROVE  k = at'.job /\ ~job'[k].disposer
  <2>1. at.job \in Jobs
    BY <1>9, Domains DEF Attempting, WithJob
  <2>2. job[at.job].st \notin {"queued", "cancelled"}
    BY <1>3, <1>9, <2>1
  <2>3. job[k].ex = ble.exec /\ ble.exec # None /\ job[k].st \in Busy
    BY <1>3, <1>7, <1>9 DEF Busy
  <2> QED BY <1>3, <1>9, <2>2, <2>3 DEF Workers
<1>10. at'.pc = "abandon" /\ ifaceLock' # "connector" /\ at'.why # "shutdown" =>
          job'[at'.job].st \notin {"queued", "cancelled"}
  <2>1. at.pc = "abandon" => at.job \in Jobs
    BY Domains DEF Attempting, WithJob
  <2> QED BY <1>3, <2>1 DEF Workers
<1> QED BY <1>2, <1>5, <1>6, <1>8, <1>9, <1>10 DEF Workers

\* of the jobs,
LEMMA DropsKnown ==
    ASSUME Types, JobsKnown, Drops, UNCHANGED <<link, teardown>>, iface' \in {iface, None}
    PROVE  JobsKnown'
<1>1. \A k \in Jobs : job'[k].st # "none" <=> job[k].st # "none"
  BY DEF Drops
<1> QED BY <1>1, Numbers DEF JobsKnown, Drops

\* and of the attempt, the interfaces and the links.
LEMMA DropsDevices ==
    ASSUME Drops
    PROVE  /\ SameDevices
           /\ \A k \in Jobs : job[k].st # "none" <=> job'[k].st # "none"
           /\ \A k \in Jobs : job[k].res \in {"ok", "wrong"} => job'[k].res \in {"ok", "wrong"}
           /\ \A k \in Jobs : job'[k].st = "disposing" <=> job[k].st = "disposing"
           /\ \A i \in Jobs : Disposing(i) => Disposing(i)'
BY DEF Drops, SameDevices, Disposing, Busy

\* The watchdog replaces the executor whatever the count is.
LEMMA WatchdogSwitches ==
    ASSUME Types, Workers, Watched, NEW j \in Jobs, WatchdogResets(j)
    PROVE  Drops /\ Switched /\ ble'.slot = None
<1>1. ble \in ExecutorRecord /\ job \in [Jobs -> JobRecord] /\ TimeoutThreshold \in Nat
  BY BleAssumption DEF Types
<1> DEFINE jobs == ResetJobs(ble, TimeoutThreshold)
<1>2. ble' = ResetBle(ble, TimeoutThreshold) /\ job' = [jobs EXCEPT ![j].timer = "off"]
  BY DEF WatchdogResets
<1>3. Dropped(jobs) /\ Switched /\ ble'.slot = None
  <2>1. CASE Resets(ble, TimeoutThreshold)
    <3>1. /\ Dropped(jobs) /\ ble' \in ExecutorRecord /\ ble'.slot = None
          /\ \/ ble'.exec = ble.exec /\ ble'.execs = ble.execs /\ ble'.degraded
             \/ ble'.exec = ble.execs + 1 /\ ble'.execs = ble.execs + 1 /\ ~ble'.degraded /\ ~ble'.shut
      BY <1>1, <1>2, <2>1, ResetIs
    <3> HIDE DEF jobs
    <3> QED BY <3>1 DEF Switched
  <2>2. CASE ~Resets(ble, TimeoutThreshold)
    <3>1. ble' = ble /\ jobs = job
      BY <1>2, <2>2, NoResetIs
    <3>2. ble.degraded
      BY <1>1, <2>2 DEF Resets
    <3>3. \A k \in Jobs : job[k].st # "queued"
      BY <3>2 DEF Workers
    <3>4. ble.slot = None
      BY <3>2 DEF Watched
    <3> QED BY <1>1, <3>1, <3>2, <3>3, <3>4 DEF Dropped, Alike, Switched
  <2> QED BY <2>1, <2>2
<1> HIDE DEF jobs
<1>4. jobs \in [Jobs -> JobRecord]
  BY <1>3 DEF Dropped
<1>5. job' \in [Jobs -> JobRecord]
  BY <1>2, <1>4 DEF JobRecord
<1>6. \A k \in Jobs : /\ job'[k].kind = jobs[k].kind /\ job'[k].ex = jobs[k].ex /\ job'[k].iface = jobs[k].iface
                      /\ job'[k].res = jobs[k].res /\ job'[k].disposer = jobs[k].disposer /\ job'[k].st = jobs[k].st
  BY <1>2, <1>4 DEF JobRecord
<1> QED BY <1>3, <1>5, <1>6 DEF Drops, Dropped, Alike

\* A job that is still in the way when the link is lost was abandoned, so that it is
\* disposed of already.
LEMMA LostSwitches ==
    ASSUME Types, Workers, Watched, at.pc \notin {"wait", "abandon"}, LostClosed
    PROVE  Drops /\ Switched /\ ble'.slot \in {None, ble.slot} /\ (ble'.slot # None => job' = job)
<1>1. ble \in ExecutorRecord /\ job \in [Jobs -> JobRecord] /\ ble.slot \in Jobs \cup {None}
  BY Domains DEF Types
<1>2. \A k \in Jobs : ~Waiting(k) /\ job[k].st # "queued" /\ (job[k].st = "running" => job[k].disposer)
  BY DEF Waiting, Workers
<1> DEFINE b == IF SlotBusy THEN [ble EXCEPT !.slot = None, !.timeouts = 0, !.exec = None, !.shut = FALSE] ELSE ble
<1>3. ble' = ResetDegraded(b)
  BY DEF LostClosed
<1>4. /\ b \in ExecutorRecord /\ b.slot \in {None, ble.slot} /\ b.exec \in {ble.exec, None}
      /\ b.execs = ble.execs /\ b.degraded = ble.degraded /\ (b.shut => ble.shut)
      /\ SlotBusy => b.slot = None
  <2>1. CASE SlotBusy
    <3> DEFINE r == [ble EXCEPT !.slot = None, !.timeouts = 0, !.exec = None, !.shut = FALSE]
    <3>1. b = r
      BY <2>1
    <3>2. /\ r \in ExecutorRecord /\ r.slot = None /\ r.exec = None /\ r.execs = ble.execs
          /\ r.degraded = ble.degraded /\ r.shut = FALSE
      BY <1>1 DEF ExecutorRecord, Interfaces, None
    <3> HIDE DEF r, b
    <3> QED BY <3>1, <3>2
  <2>2. CASE ~SlotBusy
    BY <1>1, <2>2
  <2> QED BY <2>1, <2>2
<1> HIDE DEF b
<1>5. Switched /\ ble'.slot = b.slot
  <2>1. (ble.degraded => ble.slot = None) /\ (ble.shut => ble.degraded)
    BY DEF Watched, Workers
  <2>2. CASE b.degraded
    <3> DEFINE r == [b EXCEPT !.degraded = FALSE, !.orphans = 0, !.exec = None, !.shut = FALSE]
    <3>1. ble' = r
      BY <1>3, <2>2 DEF ResetDegraded
    <3>2. r \in ExecutorRecord /\ r.slot = b.slot /\ r.exec = None /\ r.execs = b.execs /\ r.degraded = FALSE /\ r.shut = FALSE
      BY <1>4 DEF ExecutorRecord, None
    <3> HIDE DEF r
    <3> QED BY <1>4, <3>1, <3>2 DEF Switched
  <2>3. CASE ~b.degraded
    <3>1. ble' = b
      BY <1>3, <2>3 DEF ResetDegraded
    <3> QED BY <1>4, <2>1, <2>3, <3>1 DEF Switched
  <2> QED BY <2>2, <2>3
<1>6. Drops
  <2>1. CASE SlotBusy
    <3> DEFINE j == ble.slot
               js == [job EXCEPT ![j].disposer = @ \/ job[j].kind = "create"]
               cs == Cancelled(js, j)
               ss == ShutDown(cs, ble.exec)
    <3>1. job' = ss
      BY <2>1 DEF LostClosed
    <3>2. j \in Jobs /\ job[j].st = "running" /\ job[j].disposer = TRUE
      <4>1. j \in Jobs /\ ~Done(j) /\ job[j].st # "none"
        BY <1>1, <2>1 DEF SlotBusy, Watched
      <4>2. job[j].st \in JobStates /\ job[j].disposer \in BOOLEAN
        BY <1>1, <4>1 DEF JobRecord
      <4> QED BY <1>2, <4>1, <4>2 DEF Done, JobStates
    <3>3. js = job
      BY <1>1, <3>2 DEF JobRecord
    <3>4. cs = job
      BY <1>2, <3>2, <3>3 DEF Cancelled
    <3>5. ble.exec \in Nat
      BY <1>1 DEF ExecutorRecord
    <3>6. /\ ShutDown(job, ble.exec) \in [Jobs -> JobRecord]
          /\ \A k \in Jobs : Alike(ShutDown(job, ble.exec)[k], job[k])
          /\ \A k \in Jobs : ShutDown(job, ble.exec)[k].st = job[k].st
      BY <1>1, <1>2, <3>5, ShutDownIs
    <3>7. job' = ShutDown(job, ble.exec)
      BY <3>1, <3>4
    <3> HIDE DEF j, js, cs, ss
    <3> QED BY <1>2, <3>6, <3>7 DEF Drops, Alike
  <2>2. CASE ~SlotBusy
    <3>1. job' = job
      BY <2>2 DEF LostClosed
    <3> QED BY <1>1, <1>2, <3>1 DEF Drops
  <2> QED BY <2>1, <2>2
<1>7. ~SlotBusy => job' = job
  BY DEF LostClosed
<1> QED BY <1>4, <1>5, <1>6, <1>7

\* _shutdown_shared_executors() cancels what is queued and leaves no executor.
LEMMA ShutdownSwitches ==
    ASSUME Types, Workers, ShutdownExecutors
    PROVE  Drops /\ Switched /\ ble'.slot = None
<1>1. ble \in ExecutorRecord /\ ble.slot \in Interfaces /\ ble.exec \in Nat
  BY DEF Types, ExecutorRecord
<1>2. job' = ShutDown(Cancelled(job, ble.slot), ble.exec)
  BY DEF ShutdownExecutors
<1>3. Dropped(job')
  BY <1>1, <1>2, DropsQueued
<1> DEFINE r == [ble EXCEPT !.slot = None, !.exec = None, !.timeouts = 0, !.orphans = 0,
                          !.degraded = FALSE, !.shut = FALSE]
<1>4. ble' = r
  BY DEF ShutdownExecutors
<1>5. r \in ExecutorRecord /\ r.slot = None /\ r.exec = None /\ r.execs = ble.execs /\ r.degraded = FALSE /\ r.shut = FALSE
  BY <1>1 DEF ExecutorRecord, Interfaces, None
<1> HIDE DEF r
<1>6. Switched /\ ble'.slot = None
  BY <1>4, <1>5 DEF Switched
<1> QED BY <1>3, <1>6 DEF Drops, Dropped, Alike

-----------------------------------------------------------------------------
(* The calls of a teardown *)

\* The calls recorded and not resolved are finitely many.
LEMMA OwingFinite ==
    ASSUME NEW g \in Generations
    PROVE  IsFiniteSet(Owing(g)) /\ Cardinality(Owing(g)) \in Nat
<1>1. IsFiniteSet(Calls)
  BY FS_Interval, BleAssumption DEF Calls
<1>2. Owing(g) \subseteq Calls
  BY DEF Owing
<1> QED BY <1>1, <1>2, FS_Subset, FS_CardinalityType

\* A call that owes as much as before leaves the count right.
LEMMA OwesSame ==
    ASSUME Counted, UNCHANGED <<unresolved, main>>, NEW c \in Calls, \A k \in Calls \ {c} : call'[k] = call[k],
           Owes(c)' <=> Owes(c), Owes(c) => call'[c].gen = call[c].gen
    PROVE  Counted'
<1>1. \A g \in Generations : Owing(g)' = Owing(g)
  BY DEF Owing, Owes
<1> QED BY <1>1 DEF Counted

\* A call that is recorded adds one to the count of its generation.
LEMMA OwesMore ==
    ASSUME Types, Counted, main # "done", UNCHANGED main, NEW c \in Calls, \A k \in Calls \ {c} : call'[k] = call[k],
           ~Owes(c), Owes(c)', call'[c].gen = call[c].gen,
           unresolved' = [unresolved EXCEPT ![call[c].gen] = @ + 1]
    PROVE  Counted'
<1>1. call[c].gen \in Generations /\ unresolved \in [Generations -> Nat]
  BY DEF Types, CallRecord
<1>2. SUFFICES ASSUME NEW g \in Generations PROVE unresolved'[g] = Cardinality(Owing(g)')
  BY DEF Counted
<1>3. CASE g # call[c].gen
  <2>1. Owing(g)' = Owing(g)
    BY <1>3 DEF Owing, Owes
  <2> QED BY <1>1, <1>3, <2>1 DEF Counted
<1>4. CASE g = call[c].gen
  <2>1. Owing(g)' = Owing(g) \cup {c} /\ c \notin Owing(g)
    BY <1>4 DEF Owing, Owes
  <2>2. Cardinality(Owing(g)') = Cardinality(Owing(g)) + 1
    BY <2>1, OwingFinite, FS_AddElement
  <2>3. unresolved[g] = Cardinality(Owing(g))
    BY DEF Counted
  <2>4. unresolved'[g] = unresolved[g] + 1
    BY <1>1, <1>4
  <2> QED BY <2>2, <2>3, <2>4
<1> QED BY <1>3, <1>4

\* A call that is resolved takes one away, and the count was not zero.
LEMMA OwesLess ==
    ASSUME Types, Counted, main # "done", UNCHANGED main, NEW c \in Calls, \A k \in Calls \ {c} : call'[k] = call[k],
           Owes(c), ~Owes(c)', unresolved' = Resolved(c)
    PROVE  Counted' /\ unresolved' \in [Generations -> Nat]
<1>1. call[c].gen \in Generations /\ unresolved \in [Generations -> Nat]
  BY DEF Types, CallRecord
<1> DEFINE h == call[c].gen
<1>2. unresolved[h] = Cardinality(Owing(h)) /\ IsFiniteSet(Owing(h)) /\ c \in Owing(h)
  BY <1>1, OwingFinite DEF Counted, Owing, Owes
<1>3. unresolved[h] \in Nat /\ unresolved[h] # 0
  BY <1>1, <1>2, FS_EmptySet
<1>4. unresolved' = [unresolved EXCEPT ![h] = @ - 1]
  BY <1>3 DEF Resolved
<1>5. unresolved' \in [Generations -> Nat]
  BY <1>1, <1>3, <1>4
<1>6. ASSUME NEW g \in Generations PROVE unresolved'[g] = Cardinality(Owing(g)')
  <2>1. CASE g # h
    <3>1. Owing(g)' = Owing(g)
      BY <2>1 DEF Owing, Owes
    <3> QED BY <1>1, <1>4, <2>1, <3>1 DEF Counted
  <2>2. CASE g = h
    <3>1. Owing(g)' = Owing(g) \ {c}
      BY <2>2 DEF Owing, Owes
    <3>2. Cardinality(Owing(g)') = Cardinality(Owing(g)) - 1
      BY <1>2, <2>2, <3>1, FS_RemoveElement
    <3>3. unresolved'[g] = unresolved[g] - 1
      BY <1>1, <1>4, <2>2
    <3> QED BY <1>2, <2>2, <3>2, <3>3
  <2> QED BY <2>1, <2>2
<1> QED BY <1>5, <1>6 DEF Counted

\* A thread goes on to the next call of its teardown, or ends it.
Continues(t) ==
    /\ teardown' \in [Threads -> TeardownRecord] /\ registered' \in [Jobs -> Generations]
    /\ \A s \in Threads \ {t} : teardown'[s] = teardown[s]
    /\ teardown'[t].call = None
    /\ \/ teardown'[t].iface = teardown[t].iface /\ teardown'[t].gen = teardown[t].gen
       \/ teardown'[t].iface = None /\ teardown[t].phase = "close"

\* GoesOn() is such a continuation.
LEMMA GoesOnContinues ==
    ASSUME Types, NEW t \in Threads, teardown[t].iface # None, NEW ok \in BOOLEAN,
           NEW d \in NextCalls(teardown[t], ok), GoesOn(t, d)
    PROVE  Continues(t)
<1>1. teardown \in [Threads -> TeardownRecord] /\ registered \in [Jobs -> Generations] /\ teardown[t].iface \in Jobs
  BY Domains DEF Types
<1>2. /\ d \in TeardownRecord /\ d.call = None
      /\ \/ d.iface = teardown[t].iface /\ d.gen = teardown[t].gen
         \/ d = NoTeardown /\ teardown[t].phase = "close"
  BY <1>1, NextCallsAre
<1>3. teardown' = [teardown EXCEPT ![t] = d]
  BY DEF GoesOn
<1>4. registered' \in [Jobs -> Generations]
  BY <1>1, Numbers DEF GoesOn
<1> QED BY <1>1, <1>2, <1>3, <1>4, NoTeardownTyped DEF Continues

\* Call c changes and no other one does; its thread and its interface stay.
Changes(c) ==
    /\ call' \in [Calls -> CallRecord] /\ \A k \in Calls \ {c} : call'[k] = call[k]
    /\ call'[c].by = call[c].by /\ call'[c].iface = call[c].iface /\ call'[c].gen = call[c].gen

\* A call that is still waited for, by the same thread, keeps Hanging.
LEMMA StillHanging ==
    ASSUME Types, Hanging, NEW c \in Calls, Changes(c), UNCHANGED teardown, call[c].waiter \in Pending <=> call'[c].waiter \in Pending,
           link' \in [Jobs -> {"none", "open", "closed"}], \A k \in Jobs : link'[k] \in {link[k], "closed"},
           call'[c].st = "acting" => call[c].st = "acting",
           call'[c].st \in {"done", "exited"} /\ call[c].waiter \in Pending => link'[call[c].iface] = "closed"
    PROVE  Hanging'
<1>1. \A k \in Calls : call[k].iface \in Jobs \cup {None}
  BY DEF Types, CallRecord, Interfaces
<1>2. \A k \in Calls : call'[k].by = call[k].by /\ call'[k].iface = call[k].iface
  BY DEF Changes
<1>3. \A k \in Calls : call'[k].waiter \in Pending <=> call[k].waiter \in Pending
  BY DEF Changes
<1>4. \A t \in Threads : teardown'[t].call # None =>
          call'[teardown'[t].call].waiter \in Pending /\ call'[teardown'[t].call].by = t
  BY <1>2, <1>3, Domains DEF Hanging
<1>5. ASSUME NEW k \in Calls, call'[k].waiter \in Pending
      PROVE  /\ teardown'[call'[k].by].call = k /\ call'[k].iface # None
             /\ teardown'[call'[k].by].iface = call'[k].iface
             /\ call'[k].st \in {"done", "exited"} => link'[call'[k].iface] = "closed"
  <2>1. call[k].waiter \in Pending
    BY <1>3, <1>5
  <2>2. /\ teardown[call[k].by].call = k /\ call[k].iface # None /\ teardown[call[k].by].iface = call[k].iface
        /\ call[k].st \in {"done", "exited"} => link[call[k].iface] = "closed"
    BY <2>1 DEF Hanging
  <2>3. call'[k].st \in {"done", "exited"} => link'[call'[k].iface] = "closed"
    <3>1. CASE k = c
      BY <1>2, <2>1, <3>1
    <3>2. CASE k # c
      BY <1>1, <1>2, <2>2, <3>2 DEF Changes
    <3> QED BY <3>1, <3>2
  <2> QED BY <1>2, <2>2, <2>3
<1>6. \A k \in Calls : call'[k].st = "acting" => call'[k].iface # None /\ link'[call'[k].iface] # "none"
  BY <1>1, <1>2 DEF Hanging, Changes
<1> QED BY <1>4, <1>5, <1>6 DEF Hanging

\* What a waiter leaves behind that has looked once more whether its call has ended.
Rechecks(c) ==
    /\ call' \in [Calls -> CallRecord] /\ \A k \in Calls \ {c} : call'[k] = call[k]
    /\ call'[c].waiter = "gone" /\ call'[c].st = call[c].st
    /\ call[c].st = "acting" => /\ call'[c].iface = call[c].iface /\ call'[c].gen = call[c].gen
                                /\ call'[c].recorded <=> call'[c].gen > 0
                                /\ call'[c].timedOut /\ ~call'[c].resolved
    /\ call[c].st = "done" => call'[c].timedOut /\ (call'[c].recorded => call'[c].gen > 0)
    /\ call[c].st = "exited" => ~call'[c].recorded
    /\ Counted' /\ unresolved' \in [Generations -> Nat]

\* A call that both threads have left is worth nothing any more.
LEMMA GoneTyped == Gone \in CallRecord /\ Gone.st = "exited" /\ Gone.waiter = "gone" /\ Gone.recorded = FALSE
                   /\ Gone.iface = None /\ Gone.by = MainThread
BY Numbers DEF Gone, NoCall, CallRecord, Interfaces

\* The last look of a waiter resolves its timeout if the helper thread did not: once, not twice.
LEMMA RecheckSees ==
    ASSUME Types, Counted, Shapes, main # "done", NEW c \in Calls, Recheck(c)
    PROVE  Rechecks(c)
<1>1. call \in [Calls -> CallRecord] /\ call[c] \in CallRecord /\ unresolved \in [Generations -> Nat] /\ main' = main
  BY DEF Types, Recheck
<1>2. /\ call[c].waiter = "recheck" /\ call[c].timedOut = TRUE
      /\ call[c].recorded \in BOOLEAN /\ (call[c].recorded <=> call[c].gen > 0)
      /\ call[c].st \in {"acting", "done"} => call[c].resolved = FALSE
      /\ call[c].st \in {"acting", "done", "exited"}
  BY <1>1 DEF Recheck, Shapes, Shape, CallRecord
<1> DEFINE q == call[c].resolved \/ (EndedMeanwhile(c) /\ Owes(c))
           n == IF call[c].st = "exited" THEN Gone ELSE [call[c] EXCEPT !.waiter = "gone", !.resolved = q]
<1>3. call' = [call EXCEPT ![c] = n]
  BY <1>1 DEF Recheck
<1>4. unresolved' = IF EndedMeanwhile(c) THEN Resolved(c) ELSE unresolved
  BY DEF Recheck
<1>5. q \in BOOLEAN
  OBVIOUS
<1>6. CASE call[c].st = "exited"
  <2>1. n = Gone
    BY <1>6
  <2>2. unresolved' = Resolved(c)
    BY <1>4, <1>6 DEF EndedMeanwhile
  <2> HIDE DEF n, q
  <2>3. call'[c] = Gone /\ call' \in [Calls -> CallRecord] /\ \A k \in Calls \ {c} : call'[k] = call[k]
    BY <1>1, <1>3, <2>1, GoneTyped
  <2>4. ~Owes(c)'
    BY <2>3, GoneTyped DEF Owes
  <2>5. Counted' /\ unresolved' \in [Generations -> Nat]
    <3>1. CASE Owes(c)
      BY <1>1, <2>2, <2>3, <2>4, <3>1, OwesLess
    <3>2. CASE ~Owes(c)
      <4>1. unresolved' = unresolved
        BY <2>2, <3>2 DEF Resolved
      <4> QED BY <1>1, <2>3, <2>4, <3>2, <4>1, OwesSame
    <3> QED BY <3>1, <3>2
  <2> QED BY <1>6, <2>3, <2>5, GoneTyped DEF Rechecks
<1>7. CASE call[c].st # "exited"
  <2>1. n = [call[c] EXCEPT !.waiter = "gone", !.resolved = q]
    BY <1>7
  <2>2. q = (call[c].st = "done" /\ call[c].recorded)
    BY <1>2, <1>7 DEF EndedMeanwhile, Owes
  <2> HIDE DEF n, q
  <2>3. /\ n \in CallRecord /\ n.waiter = "gone" /\ n.st = call[c].st /\ n.iface = call[c].iface
        /\ n.gen = call[c].gen /\ n.recorded = call[c].recorded /\ n.timedOut = TRUE /\ n.resolved = q
    BY <1>1, <1>2, <1>5, <2>1 DEF CallRecord
  <2>4. call'[c] = n /\ call' \in [Calls -> CallRecord] /\ \A k \in Calls \ {c} : call'[k] = call[k]
    BY <1>1, <1>3, <2>3
  <2>5. Owes(c) <=> call[c].recorded
    BY <1>2, <1>7 DEF Owes
  <2>6. Counted' /\ unresolved' \in [Generations -> Nat]
    <3>1. CASE call[c].st = "done"
      <4>1. unresolved' = Resolved(c)
        BY <1>4, <3>1 DEF EndedMeanwhile
      <4>2. ~Owes(c)'
        BY <2>2, <2>3, <2>4, <3>1 DEF Owes
      <4>3. CASE Owes(c)
        BY <1>1, <2>4, <4>1, <4>2, <4>3, OwesLess
      <4>4. CASE ~Owes(c)
        <5>1. unresolved' = unresolved
          BY <4>1, <4>4 DEF Resolved
        <5> QED BY <1>1, <2>4, <4>2, <4>4, <5>1, OwesSame
      <4> QED BY <4>3, <4>4
    <3>2. CASE call[c].st = "acting"
      <4>1. unresolved' = unresolved
        BY <1>4, <3>2 DEF EndedMeanwhile
      <4>2. (Owes(c)' <=> Owes(c)) /\ call'[c].gen = call[c].gen
        BY <2>2, <2>3, <2>4, <2>5, <3>2 DEF Owes
      <4> QED BY <1>1, <2>4, <4>1, <4>2, OwesSame
    <3> QED BY <1>2, <1>7, <3>1, <3>2
  <2> QED BY <1>2, <1>7, <2>2, <2>3, <2>4, <2>6 DEF Rechecks
<1> QED BY <1>6, <1>7

\* What a helper thread leaves behind.
Exits(c) ==
    /\ call' \in [Calls -> CallRecord] /\ \A k \in Calls \ {c} : call'[k] = call[k]
    /\ call'[c].waiter = call[c].waiter /\ call'[c].st = "exited"
    /\ call[c].waiter = "gone" => ~call'[c].recorded
    /\ call[c].waiter # "gone" =>
          /\ call'[c].by = call[c].by /\ call'[c].iface = call[c].iface /\ call'[c].gen = call[c].gen
          /\ call'[c].recorded = call[c].recorded /\ call'[c].timedOut = call[c].timedOut
          /\ call[c].waiter \in {"record", "flag"} => ~call'[c].resolved
    /\ Counted' /\ unresolved' \in [Generations -> Nat]

\* A helper thread resolves the timeout that it sees flagged, and no other: once, not twice.
LEMMA HelperLeaves ==
    ASSUME Types, Counted, Shapes, main # "done", NEW c \in Calls, HelperExits(c)
    PROVE  Exits(c)
<1>1. call \in [Calls -> CallRecord] /\ call[c] \in CallRecord /\ unresolved \in [Generations -> Nat] /\ main' = main
  BY DEF Types, HelperExits
<1>2. /\ call[c].st = "done" /\ call[c].waiter \in {"record", "flag", "recheck", "gone"}
      /\ call[c].waiter \in {"record", "flag"} => call[c].timedOut = FALSE /\ call[c].resolved = FALSE
      /\ call[c].waiter \in {"recheck", "gone"} => call[c].timedOut = TRUE
  BY <1>1 DEF HelperExits, Shapes, Shape, CallRecord
<1> DEFINE q == call[c].resolved \/ (call[c].timedOut /\ Owes(c))
           n == IF call[c].waiter = "gone" THEN Gone ELSE [call[c] EXCEPT !.st = "exited", !.resolved = q]
<1>3. call' = [call EXCEPT ![c] = n]
  BY <1>1 DEF HelperExits
<1>4. unresolved' = IF call[c].timedOut THEN Resolved(c) ELSE unresolved
  BY DEF HelperExits
<1>5. q \in BOOLEAN
  BY <1>1 DEF CallRecord
<1>7. /\ n \in CallRecord /\ n.st = "exited" /\ n.waiter = call[c].waiter
      /\ call[c].waiter = "gone" => n.recorded = FALSE
      /\ call[c].waiter # "gone" =>
          /\ n.by = call[c].by /\ n.iface = call[c].iface /\ n.gen = call[c].gen
          /\ n.recorded = call[c].recorded /\ n.timedOut = call[c].timedOut /\ n.resolved = q
  <2>1. CASE call[c].waiter = "gone"
    <3>1. n = Gone
      BY <2>1
    <3> HIDE DEF n, q
    <3> QED BY <2>1, <3>1, GoneTyped
  <2>2. CASE call[c].waiter # "gone"
    <3>1. n = [call[c] EXCEPT !.st = "exited", !.resolved = q]
      BY <2>2
    <3> HIDE DEF n, q
    <3> QED BY <1>1, <1>5, <2>2, <3>1 DEF CallRecord
  <2> QED BY <2>1, <2>2
<1>8. call'[c] = n /\ call' \in [Calls -> CallRecord] /\ \A k \in Calls \ {c} : call'[k] = call[k]
  <2> HIDE DEF n
  <2> QED BY <1>1, <1>3, <1>7
<1>9. call[c].waiter \in {"record", "flag"} => q = FALSE
  BY <1>2
<1>10. Counted' /\ unresolved' \in [Generations -> Nat]
  <2>1. CASE call[c].timedOut = TRUE
    <3>1. unresolved' = Resolved(c)
      BY <1>4, <2>1
    <3>2. Owes(c) => q = TRUE
      BY <2>1
    <3>3. call[c].waiter # "gone" /\ ~Owes(c) => (call[c].recorded = FALSE \/ q = TRUE)
      BY <1>1 DEF Owes, CallRecord
    <3>4. n.recorded = FALSE \/ n.resolved = TRUE
      <4> HIDE DEF n, q
      <4> QED BY <1>7, <3>2, <3>3
    <3>5. ~Owes(c)'
      <4> HIDE DEF n, q
      <4> QED BY <1>8, <3>4 DEF Owes
    <3>6. CASE Owes(c)
      <4> HIDE DEF n, q
      <4> QED BY <1>1, <1>8, <3>1, <3>5, <3>6, OwesLess
    <3>7. CASE ~Owes(c)
      <4>1. unresolved' = unresolved
        BY <3>1, <3>7 DEF Resolved
      <4> HIDE DEF n, q
      <4> QED BY <1>1, <1>8, <3>5, <3>7, <4>1, OwesSame
    <3> QED BY <3>6, <3>7
  <2>2. CASE call[c].timedOut = FALSE
    <3>1. unresolved' = unresolved /\ call[c].waiter \in {"record", "flag"}
      BY <1>2, <1>4, <2>2
    <3>2. n.recorded = call[c].recorded /\ n.resolved = FALSE /\ n.gen = call[c].gen /\ call[c].resolved = FALSE
      <4> HIDE DEF n, q
      <4> QED BY <1>2, <1>7, <1>9, <3>1
    <3>3. (Owes(c)' <=> Owes(c)) /\ call'[c].gen = call[c].gen
      <4> HIDE DEF n, q
      <4> QED BY <1>8, <3>2 DEF Owes
    <3> HIDE DEF n, q
    <3> QED BY <1>1, <1>8, <3>1, <3>3, OwesSame
  <2> QED BY <1>1, <2>1, <2>2 DEF CallRecord
<1> HIDE DEF n, q
<1> QED BY <1>7, <1>8, <1>9, <1>10 DEF Exits

-----------------------------------------------------------------------------
(* One lemma per action, or per alternative of one.  Each names what the    *)
(* step leaves alone (<1>1) and what it does (<1>2 and on), then that no    *)
(* interface stops being closed (<1>s), then one step per conjunct of the   *)
(* invariant (<1>c1 to <1>c13).                                             *)

\* A forced connect begins to close the client there is.
LEMMA BeginForced ==
    ASSUME BleInv, main # "done", NEW force \in BOOLEAN, Begin(force), client # None
    PROVE  BleInv'
<1>0. /\ Types /\ Counted /\ Shapes /\ Watched /\ Attempting /\ Clients
      /\ JobsKnown /\ Workers /\ Alone /\ Hanging /\ Closing /\ Owned
  BY DEF BleInv
<1>1. UNCHANGED <<shuttingDown, lib, iface, client, ifaceLock, job, ble, gen, registered, unresolved,
                  call, link, main, drops>>
  BY DEF Begin, locks, lifecycle
<1>2. Moves("closing", at.job, at.client, at.assigned, at.why)
  <2>1. Goto("closing") /\ "closing" \in Places
    BY DEF Begin, Places
  <2> QED BY <1>0, <2>1, GotoMoves
<1>3. at.pc = "idle" /\ meshLock = "free" /\ main = "running" /\ meshLock' = "connector"
  BY DEF Begin, At
<1>4. iface \in Jobs
  BY <1>0, Domains DEF Clients
<1>5. Starts(ConnectThread, iface)
  <2>1. TearDown(ConnectThread, iface, IfaceGeneration(iface))
    BY <1>4 DEF Begin
  <2>2. IfaceGeneration(iface) \in Generations
    BY <1>0, <1>4, GenerationKnown
  <2> QED BY <1>0, <1>4, <2>1, <2>2, Numbers, TearDownStarts
<1>s. Settled \subseteq Settled'
  BY <1>0, <1>1, <1>3, <1>4, <1>5, StartsSettles, Numbers DEF Alone
<1>c1. Types'
  BY <1>0, <1>1, <1>2, <1>3, <1>4, <1>5 DEF Types, Interfaces, Moves, Starts
<1>c3. Counted'
  BY <1>0, <1>1 DEF Counted, Owing
<1>c4. Shapes'
  BY <1>0, <1>1 DEF Shapes, Shape
<1>c5. Watched'
  BY <1>0, <1>1, <1>2, <1>3 DEF Watched, Waiting, Moves
<1>c6. Attempting'
  BY <1>0, <1>1, <1>2, <1>3, <1>4, <1>5 DEF Attempting, WithJob, Moves, Starts
<1>c7. Clients'
  BY <1>0, <1>1, <1>2, <1>3, <1>4, <1>5 DEF Clients, Unpublished, Moves, Starts
<1>c8. JobsKnown'
  BY <1>0, <1>1, <1>4, <1>5 DEF JobsKnown, Starts
<1>c9. Workers'
  BY <1>0, <1>1, <1>2, <1>3, <1>4, <1>5 DEF Workers, Waiting, Busy, Moves, Starts
<1>c10. Alone'
  BY <1>0, <1>1, <1>2, <1>3, <1>5, Numbers DEF Alone, Moves, Starts
<1>c11. Hanging'
  BY <1>0, <1>1, <1>3, <1>4, <1>5, StartsHanging, Numbers DEF Alone
<1>c12. Closing'
  <2>1. iface \in Settled'
    BY <1>0, <1>1, <1>3, <1>4, <1>5, StartsSettles, Numbers DEF Alone
  <2> QED BY <1>0, <1>1, <1>2, <1>3, <1>4, <1>s, <2>1 DEF Closing, Moves
<1>c13. Owned'
  BY <1>0, <1>1, <1>2, <1>3, <1>4, <1>5, <1>s DEF Owned, Held, Disposing, Busy, Moves, Starts
<1> QED BY <1>c1, <1>c3, <1>c4, <1>c5, <1>c6, <1>c7, <1>c8,
       <1>c9, <1>c10, <1>c11, <1>c12, <1>c13 DEF BleInv

\* A connect without a client begins an attempt.
LEMMA BeginFresh ==
    ASSUME BleInv, main # "done", NEW force \in BOOLEAN, Begin(force), client = None
    PROVE  BleInv'
<1>0. /\ Types /\ Counted /\ Shapes /\ Watched /\ Attempting /\ Clients
      /\ JobsKnown /\ Workers /\ Alone /\ Hanging /\ Closing /\ Owned
  BY DEF BleInv
<1>1. UNCHANGED <<shuttingDown, lib, iface, client, meshLock, ifaceLock, job, ble, gen, registered,
                  unresolved, teardown, call, link, main, drops>>
  BY DEF Begin, locks, lifecycle
<1>2. Moves("attempt", at.job, at.client, at.assigned, at.why)
  <2>1. Goto("attempt") /\ "attempt" \in Places
    BY DEF Begin, Places
  <2> QED BY <1>0, <2>1, GotoMoves
<1>3. at.pc = "idle" /\ meshLock = "free" /\ main = "running"
  BY DEF Begin, At
<1>s. Settled' = Settled
  BY <1>1 DEF Settled
<1>c1. Types'
  BY <1>0, <1>1, <1>2, <1>3 DEF Types, Interfaces, Moves
<1>c3. Counted'
  BY <1>0, <1>1 DEF Counted, Owing
<1>c4. Shapes'
  BY <1>0, <1>1 DEF Shapes, Shape
<1>c5. Watched'
  BY <1>0, <1>1, <1>2, <1>3 DEF Watched, Waiting, Moves
<1>c6. Attempting'
  BY <1>0, <1>1, <1>2, <1>3 DEF Attempting, WithJob, Moves
<1>c7. Clients'
  BY <1>0, <1>1, <1>2, <1>3 DEF Clients, Unpublished, Moves
<1>c8. JobsKnown'
  BY <1>0, <1>1 DEF JobsKnown
<1>c9. Workers'
  BY <1>0, <1>1, <1>2, <1>3 DEF Workers, Waiting, Busy, Moves
<1>c10. Alone'
  BY <1>0, <1>1, <1>2, <1>3 DEF Alone, Moves
<1>c11. Hanging'
  BY <1>0, <1>1 DEF Hanging, Pending
<1>c12. Closing'
  BY <1>0, <1>1, <1>2, <1>3, <1>s DEF Closing, Moves
<1>c13. Owned'
  BY <1>0, <1>1, <1>2, <1>3, <1>s DEF Owned, Held, Disposing, Busy, Moves
<1> QED BY <1>c1, <1>c3, <1>c4, <1>c5, <1>c6, <1>c7, <1>c8,
       <1>c9, <1>c10, <1>c11, <1>c12, <1>c13 DEF BleInv

\* The old client is closed before it is forgotten.
LEMMA KeepsOldClosed ==
    ASSUME BleInv, main # "done", OldClosed
    PROVE  BleInv'
<1>0. /\ Types /\ Counted /\ Shapes /\ Watched /\ Attempting /\ Clients
      /\ JobsKnown /\ Workers /\ Alone /\ Hanging /\ Closing /\ Owned
  BY DEF BleInv
<1>1. UNCHANGED <<shuttingDown, lib, ifaceLock, job, ble, gen, registered, unresolved, teardown, call,
                  link, main, drops>>
  BY DEF OldClosed, locks, lifecycle
<1>2. Moves("attempt", at.job, at.client, at.assigned, at.why)
  <2>1. Goto("attempt") /\ "attempt" \in Places
    BY DEF OldClosed, Places
  <2> QED BY <1>0, <2>1, GotoMoves
<1>3. /\ at.pc = "closing" /\ teardown[ConnectThread].iface = None
      /\ iface' = None /\ client' = None /\ meshLock' = "free"
  BY DEF OldClosed, At, Tearing
<1>s. Settled' = Settled
  BY <1>1 DEF Settled
<1>c1. Types'
  BY <1>0, <1>1, <1>2, <1>3 DEF Types, Interfaces, Moves
<1>c3. Counted'
  BY <1>0, <1>1 DEF Counted, Owing
<1>c4. Shapes'
  BY <1>0, <1>1 DEF Shapes, Shape
<1>c5. Watched'
  BY <1>0, <1>1, <1>2, <1>3 DEF Watched, Waiting, Moves
<1>c6. Attempting'
  BY <1>0, <1>1, <1>2, <1>3 DEF Attempting, WithJob, Moves
<1>c7. Clients'
  BY <1>0, <1>1, <1>2, <1>3 DEF Clients, Unpublished, Moves
<1>c8. JobsKnown'
  BY <1>0, <1>1, <1>3 DEF JobsKnown
<1>c9. Workers'
  BY <1>0, <1>1, <1>2, <1>3 DEF Workers, Waiting, Busy, Moves
<1>c10. Alone'
  BY <1>0, <1>1, <1>2, <1>3 DEF Alone, Clients, Unpublished, Moves
<1>c11. Hanging'
  BY <1>0, <1>1 DEF Hanging, Pending
<1>c12. Closing'
  BY <1>0, <1>1, <1>2, <1>3, <1>s DEF Closing, Clients, Unpublished, Moves
<1>c13. Owned'
  BY <1>0, <1>1, <1>2, <1>3, <1>s DEF Owned, Held, Disposing, Busy, Closing, Moves
<1> QED BY <1>c1, <1>c3, <1>c4, <1>c5, <1>c6, <1>c7, <1>c8,
       <1>c9, <1>c10, <1>c11, <1>c12, <1>c13 DEF BleInv

\* The retry loop ends.
LEMMA AttemptEnds ==
    ASSUME BleInv, main # "done", Attempt, shuttingDown \/ gen >= MaxAttempts + drops
    PROVE  BleInv'
<1>0. /\ Types /\ Counted /\ Shapes /\ Watched /\ Attempting /\ Clients
      /\ JobsKnown /\ Workers /\ Alone /\ Hanging /\ Closing /\ Owned
  BY DEF BleInv
<1>1. UNCHANGED <<shuttingDown, lib, iface, client, meshLock, ifaceLock, job, ble, gen, registered,
                  unresolved, teardown, call, link, main, drops>>
  BY DEF Attempt, locks, lifecycle
<1>2. Moves("idle", None, None, FALSE, "none")
  BY IdleMoves DEF Attempt
<1>3. at.pc = "attempt"
  BY DEF Attempt, At
<1>s. Settled' = Settled
  BY <1>1 DEF Settled
<1>c1. Types'
  BY <1>0, <1>1, <1>2, <1>3 DEF Types, Interfaces, Moves
<1>c3. Counted'
  BY <1>0, <1>1 DEF Counted, Owing
<1>c4. Shapes'
  BY <1>0, <1>1 DEF Shapes, Shape
<1>c5. Watched'
  BY <1>0, <1>1, <1>2, <1>3 DEF Watched, Waiting, Moves
<1>c6. Attempting'
  BY <1>0, <1>1, <1>2, <1>3 DEF Attempting, WithJob, Moves
<1>c7. Clients'
  BY <1>0, <1>1, <1>2, <1>3 DEF Clients, Unpublished, Moves
<1>c8. JobsKnown'
  BY <1>0, <1>1 DEF JobsKnown
<1>c9. Workers'
  BY <1>0, <1>1, <1>2, <1>3 DEF Workers, Waiting, Busy, Moves
<1>c10. Alone'
  BY <1>0, <1>1, <1>2, <1>3 DEF Alone, Moves
<1>c11. Hanging'
  BY <1>0, <1>1 DEF Hanging, Pending
<1>c12. Closing'
  BY <1>0, <1>1, <1>2, <1>3, <1>s DEF Closing, Clients, Unpublished, Moves
<1>c13. Owned'
  BY <1>0, <1>1, <1>2, <1>3, <1>s DEF Owned, Held, Disposing, Busy, Moves
<1> QED BY <1>c1, <1>c3, <1>c4, <1>c5, <1>c6, <1>c7, <1>c8,
       <1>c9, <1>c10, <1>c11, <1>c12, <1>c13 DEF BleInv

\* A new generation and the singleton lock.
LEMMA AttemptStarts ==
    ASSUME BleInv, main # "done", Attempt, ~(shuttingDown \/ gen >= MaxAttempts + drops)
    PROVE  BleInv'
<1>0. /\ Types /\ Counted /\ Shapes /\ Watched /\ Attempting /\ Clients
      /\ JobsKnown /\ Workers /\ Alone /\ Hanging /\ Closing /\ Owned
  BY DEF BleInv
<1>1. UNCHANGED <<shuttingDown, lib, iface, client, meshLock, job, ble, registered, unresolved,
                  teardown, call, link, main, drops>>
  BY DEF Attempt, locks, lifecycle
<1>4. gen < MaxAttempts + drops
  BY <1>0, BleAssumption DEF Types
<1>2. Moves("check", None, None, FALSE, at.why)
  <2>1. gen + 1 \in Generations
    BY <1>0, <1>4, GenerationsAre
  <2>2. at' = [at EXCEPT !.pc = "check", !.gen = gen + 1, !.client = None, !.assigned = FALSE, !.job = None]
    BY DEF Attempt
  <2> QED BY <1>0, <2>1, <2>2 DEF Moves, Types, AttemptRecord, Places, Interfaces
<1>3. at.pc = "attempt" /\ ifaceLock' = "connector" /\ gen' = gen + 1 /\ ~shuttingDown
  BY DEF Attempt, At
<1>6. gen' \in 0..(MaxAttempts + drops) /\ gen' > 0
  BY <1>0, <1>3, <1>4, GenerationsAre DEF Types
<1>s. Settled' = Settled
  BY <1>1 DEF Settled
<1>c1. Types'
  BY <1>0, <1>1, <1>4, <1>2, <1>3, <1>6 DEF Types, Interfaces, Moves
<1>c3. Counted'
  BY <1>0, <1>1 DEF Counted, Owing
<1>c4. Shapes'
  BY <1>0, <1>1 DEF Shapes, Shape
<1>c5. Watched'
  BY <1>0, <1>1, <1>2, <1>3 DEF Watched, Waiting, Moves
<1>c6. Attempting'
  BY <1>0, <1>1, <1>2, <1>3 DEF Attempting, WithJob, Moves
<1>c7. Clients'
  BY <1>0, <1>1, <1>2, <1>3 DEF Clients, Unpublished, Moves
<1>c8. JobsKnown'
  BY <1>0, <1>1 DEF JobsKnown
<1>c9. Workers'
  BY <1>0, <1>1, <1>2, <1>3 DEF Workers, Waiting, Busy, Moves
<1>c10. Alone'
  BY <1>0, <1>1, <1>2, <1>3 DEF Alone, Moves
<1>c11. Hanging'
  BY <1>0, <1>1 DEF Hanging, Pending
<1>c12. Closing'
  BY <1>0, <1>1, <1>2, <1>3, <1>s DEF Closing, Clients, Unpublished, Moves
<1>c13. Owned'
  BY <1>0, <1>1, <1>2, <1>3, <1>s DEF Owned, Held, Disposing, Busy, Moves
<1> QED BY <1>c1, <1>c3, <1>c4, <1>c5, <1>c6, <1>c7, <1>c8,
       <1>c9, <1>c10, <1>c11, <1>c12, <1>c13 DEF BleInv

\* An interface to another device begins to be closed.
LEMMA KeepsDropWrong ==
    ASSUME BleInv, main # "done", DropWrong
    PROVE  BleInv'
<1>0. /\ Types /\ Counted /\ Shapes /\ Watched /\ Attempting /\ Clients
      /\ JobsKnown /\ Workers /\ Alone /\ Hanging /\ Closing /\ Owned
  BY DEF BleInv
<1>1. UNCHANGED <<shuttingDown, lib, iface, client, meshLock, ifaceLock, job, ble, gen, registered,
                  unresolved, call, link, main, drops>>
  BY DEF DropWrong, locks, lifecycle
<1>2. Moves("dropping", at.job, at.client, at.assigned, at.why)
  <2>1. Goto("dropping") /\ "dropping" \in Places
    BY DEF DropWrong, Places
  <2> QED BY <1>0, <2>1, GotoMoves
<1>3. at.pc = "check"
  BY DEF DropWrong, At
<1>4. iface \in Jobs
  BY <1>0, Domains DEF DropWrong
<1>5. Starts(ConnectThread, iface)
  <2>1. TearDown(ConnectThread, iface, IfaceGeneration(iface))
    BY <1>4 DEF DropWrong
  <2>2. IfaceGeneration(iface) \in Generations
    BY <1>0, <1>4, GenerationKnown
  <2> QED BY <1>0, <1>4, <2>1, <2>2, Numbers, TearDownStarts
<1>s. Settled \subseteq Settled'
  BY <1>0, <1>1, <1>3, <1>4, <1>5, StartsSettles, Numbers DEF Alone
<1>c1. Types'
  BY <1>0, <1>1, <1>2, <1>3, <1>4, <1>5 DEF Types, Interfaces, Moves, Starts
<1>c3. Counted'
  BY <1>0, <1>1 DEF Counted, Owing
<1>c4. Shapes'
  BY <1>0, <1>1 DEF Shapes, Shape
<1>c5. Watched'
  BY <1>0, <1>1, <1>2, <1>3 DEF Watched, Waiting, Moves
<1>c6. Attempting'
  BY <1>0, <1>1, <1>2, <1>3, <1>4, <1>5 DEF Attempting, WithJob, Moves, Starts
<1>c7. Clients'
  BY <1>0, <1>1, <1>2, <1>3, <1>4, <1>5 DEF Clients, Unpublished, Moves, Starts
<1>c8. JobsKnown'
  BY <1>0, <1>1, <1>4, <1>5 DEF JobsKnown, Starts
<1>c9. Workers'
  BY <1>0, <1>1, <1>2, <1>3, <1>4, <1>5 DEF Workers, Waiting, Busy, Moves, Starts
<1>c10. Alone'
  BY <1>0, <1>1, <1>2, <1>3, <1>5, Numbers DEF Alone, Moves, Starts
<1>c11. Hanging'
  BY <1>0, <1>1, <1>3, <1>4, <1>5, StartsHanging, Numbers DEF Alone
<1>c12. Closing'
  <2>1. iface \in Settled'
    BY <1>0, <1>1, <1>3, <1>4, <1>5, StartsSettles, Numbers DEF Alone
  <2> QED BY <1>0, <1>1, <1>2, <1>3, <1>4, <1>s, <2>1 DEF Closing, Moves
<1>c13. Owned'
  BY <1>0, <1>1, <1>2, <1>3, <1>4, <1>5, <1>s DEF Owned, Held, Disposing, Busy, Moves, Starts
<1> QED BY <1>c1, <1>c3, <1>c4, <1>c5, <1>c6, <1>c7, <1>c8,
       <1>c9, <1>c10, <1>c11, <1>c12, <1>c13 DEF BleInv

\* It is forgotten after that.
LEMMA KeepsWrongDropped ==
    ASSUME BleInv, main # "done", WrongDropped
    PROVE  BleInv'
<1>0. /\ Types /\ Counted /\ Shapes /\ Watched /\ Attempting /\ Clients
      /\ JobsKnown /\ Workers /\ Alone /\ Hanging /\ Closing /\ Owned
  BY DEF BleInv
<1>1. UNCHANGED <<shuttingDown, lib, client, meshLock, ifaceLock, job, ble, gen, registered,
                  unresolved, teardown, call, link, main, drops>>
  BY DEF WrongDropped, locks, lifecycle
<1>2. Moves("check", at.job, at.client, at.assigned, at.why)
  <2>1. Goto("check") /\ "check" \in Places
    BY DEF WrongDropped, Places
  <2> QED BY <1>0, <2>1, GotoMoves
<1>3. at.pc = "dropping" /\ teardown[ConnectThread].iface = None /\ iface' = None
  BY DEF WrongDropped, At, Tearing
<1>s. Settled' = Settled
  BY <1>1 DEF Settled
<1>c1. Types'
  BY <1>0, <1>1, <1>2, <1>3 DEF Types, Interfaces, Moves
<1>c3. Counted'
  BY <1>0, <1>1 DEF Counted, Owing
<1>c4. Shapes'
  BY <1>0, <1>1 DEF Shapes, Shape
<1>c5. Watched'
  BY <1>0, <1>1, <1>2, <1>3 DEF Watched, Waiting, Moves
<1>c6. Attempting'
  BY <1>0, <1>1, <1>2, <1>3 DEF Attempting, WithJob, Moves
<1>c7. Clients'
  BY <1>0, <1>1, <1>2, <1>3 DEF Clients, Unpublished, Moves
<1>c8. JobsKnown'
  BY <1>0, <1>1, <1>3 DEF JobsKnown
<1>c9. Workers'
  BY <1>0, <1>1, <1>2, <1>3 DEF Workers, Waiting, Busy, Moves
<1>c10. Alone'
  BY <1>0, <1>1, <1>2, <1>3 DEF Alone, Moves
<1>c11. Hanging'
  BY <1>0, <1>1 DEF Hanging, Pending
<1>c12. Closing'
  BY <1>0, <1>1, <1>2, <1>3, <1>s DEF Closing, Clients, Unpublished, Moves
<1>c13. Owned'
  BY <1>0, <1>1, <1>2, <1>3, <1>s DEF Owned, Held, Disposing, Busy, Closing, Moves
<1> QED BY <1>c1, <1>c3, <1>c4, <1>c5, <1>c6, <1>c7, <1>c8,
       <1>c9, <1>c10, <1>c11, <1>c12, <1>c13 DEF BleInv

\* An interface left by an earlier attempt is used again.
LEMMA KeepsReuse ==
    ASSUME BleInv, main # "done", Reuse
    PROVE  BleInv'
<1>0. /\ Types /\ Counted /\ Shapes /\ Watched /\ Attempting /\ Clients
      /\ JobsKnown /\ Workers /\ Alone /\ Hanging /\ Closing /\ Owned
  BY DEF BleInv
<1>1. UNCHANGED <<shuttingDown, lib, iface, client, meshLock, job, ble, gen, unresolved, teardown,
                  call, link, main, drops>>
  BY DEF Reuse, locks, lifecycle
<1>2. Moves("opened", at.job, at.client, at.assigned, at.why)
  <2>1. Goto("opened") /\ "opened" \in Places
    BY DEF Reuse, Places
  <2> QED BY <1>0, <2>1, GotoMoves
<1>3. at.pc = "check" /\ iface # None /\ ifaceLock' = "free"
  BY DEF Reuse, At
<1>4. registered' \in [Jobs -> Generations]
  BY <1>0 DEF Reuse, Types, AttemptRecord
<1>s. Settled' = Settled
  BY <1>1 DEF Settled
<1>c1. Types'
  BY <1>0, <1>1, <1>2, <1>3, <1>4 DEF Types, Interfaces, Moves
<1>c3. Counted'
  BY <1>0, <1>1 DEF Counted, Owing
<1>c4. Shapes'
  BY <1>0, <1>1 DEF Shapes, Shape
<1>c5. Watched'
  BY <1>0, <1>1, <1>2, <1>3 DEF Watched, Waiting, Moves
<1>c6. Attempting'
  BY <1>0, <1>1, <1>2, <1>3 DEF Attempting, WithJob, Moves
<1>c7. Clients'
  BY <1>0, <1>1, <1>2, <1>3 DEF Clients, Unpublished, Moves
<1>c8. JobsKnown'
  BY <1>0, <1>1 DEF JobsKnown
<1>c9. Workers'
  BY <1>0, <1>1, <1>2, <1>3 DEF Workers, Waiting, Busy, Moves
<1>c10. Alone'
  BY <1>0, <1>1, <1>2, <1>3 DEF Alone, Moves
<1>c11. Hanging'
  BY <1>0, <1>1 DEF Hanging, Pending
<1>c12. Closing'
  BY <1>0, <1>1, <1>2, <1>3, <1>s DEF Closing, Moves
<1>c13. Owned'
  BY <1>0, <1>1, <1>2, <1>3, <1>s DEF Owned, Held, Disposing, Busy, Moves
<1> QED BY <1>c1, <1>c3, <1>c4, <1>c5, <1>c6, <1>c7, <1>c8,
       <1>c9, <1>c10, <1>c11, <1>c12, <1>c13 DEF BleInv

\* No interface is constructed: the lock is released.
LEMMA CreateRefused ==
    ASSUME BleInv, main # "done", MayCreate, Unresolved \/ shuttingDown
    PROVE  BleInv'
<1>0. /\ Types /\ Counted /\ Shapes /\ Watched /\ Attempting /\ Clients
      /\ JobsKnown /\ Workers /\ Alone /\ Hanging /\ Closing /\ Owned
  BY DEF BleInv
<1>1. UNCHANGED <<shuttingDown, lib, iface, client, meshLock, job, ble, gen, registered, unresolved,
                  teardown, call, link, main, drops>>
  BY DEF MayCreate, locks, lifecycle
<1>2. \E why \in Reasons : Moves("rollback", at.job, at.client, at.assigned, why)
  <2>1. \E why \in Reasons : Fail(at, why)
    BY DEF MayCreate, Reasons
  <2>2. at \in AttemptRecord
    BY <1>0 DEF Types
  <2> QED BY <2>1, <2>2, FailMoves
<1>3. at.pc = "check" /\ iface = None /\ ifaceLock' = "free"
  BY DEF MayCreate, At
<1>s. Settled' = Settled
  BY <1>1 DEF Settled
<1>c1. Types'
  BY <1>0, <1>1, <1>2, <1>3 DEF Types, Interfaces, Moves
<1>c3. Counted'
  BY <1>0, <1>1 DEF Counted, Owing
<1>c4. Shapes'
  BY <1>0, <1>1 DEF Shapes, Shape
<1>c5. Watched'
  BY <1>0, <1>1, <1>2, <1>3 DEF Watched, Waiting, Moves
<1>c6. Attempting'
  BY <1>0, <1>1, <1>2, <1>3 DEF Attempting, WithJob, Moves
<1>c7. Clients'
  BY <1>0, <1>1, <1>2, <1>3 DEF Clients, Unpublished, Moves
<1>c8. JobsKnown'
  BY <1>0, <1>1 DEF JobsKnown
<1>c9. Workers'
  BY <1>0, <1>1, <1>2, <1>3 DEF Workers, Waiting, Busy, Moves
<1>c10. Alone'
  BY <1>0, <1>1, <1>2, <1>3 DEF Alone, Moves
<1>c11. Hanging'
  BY <1>0, <1>1 DEF Hanging, Pending
<1>c12. Closing'
  BY <1>0, <1>1, <1>2, <1>3, <1>s DEF Closing, Moves
<1>c13. Owned'
  BY <1>0, <1>1, <1>2, <1>3, <1>s DEF Owned, Held, Disposing, Busy, Moves
<1> QED BY <1>c1, <1>c3, <1>c4, <1>c5, <1>c6, <1>c7, <1>c8,
       <1>c9, <1>c10, <1>c11, <1>c12, <1>c13 DEF BleInv

\* The constructor may be submitted.
LEMMA CreateAllowed ==
    ASSUME BleInv, main # "done", MayCreate, ~Unresolved, ~shuttingDown
    PROVE  BleInv'
<1>0. /\ Types /\ Counted /\ Shapes /\ Watched /\ Attempting /\ Clients
      /\ JobsKnown /\ Workers /\ Alone /\ Hanging /\ Closing /\ Owned
  BY DEF BleInv
<1>1. UNCHANGED <<shuttingDown, lib, iface, client, meshLock, ifaceLock, job, ble, gen, registered,
                  unresolved, teardown, call, link, main, drops>>
  BY DEF MayCreate, locks, lifecycle
<1>2. Moves("ensure", at.job, at.client, at.assigned, at.why)
  <2>1. Goto("ensure") /\ "ensure" \in Places
    BY DEF MayCreate, Places
  <2> QED BY <1>0, <2>1, GotoMoves
<1>3. at.pc = "check" /\ iface = None
  BY DEF MayCreate, At
<1>s. Settled' = Settled
  BY <1>1 DEF Settled
<1>c1. Types'
  BY <1>0, <1>1, <1>2, <1>3 DEF Types, Interfaces, Moves
<1>c3. Counted'
  BY <1>0, <1>1 DEF Counted, Owing
<1>c4. Shapes'
  BY <1>0, <1>1 DEF Shapes, Shape
<1>c5. Watched'
  BY <1>0, <1>1, <1>2, <1>3 DEF Watched, Waiting, Moves
<1>c6. Attempting'
  BY <1>0, <1>1, <1>2, <1>3 DEF Attempting, WithJob, Moves
<1>c7. Clients'
  BY <1>0, <1>1, <1>2, <1>3 DEF Clients, Unpublished, Moves
<1>c8. JobsKnown'
  BY <1>0, <1>1 DEF JobsKnown
<1>c9. Workers'
  BY <1>0, <1>1, <1>2, <1>3 DEF Workers, Waiting, Busy, Moves
<1>c10. Alone'
  BY <1>0, <1>1, <1>2, <1>3 DEF Alone, Moves
<1>c11. Hanging'
  BY <1>0, <1>1 DEF Hanging, Pending
<1>c12. Closing'
  BY <1>0, <1>1, <1>2, <1>3, <1>s DEF Closing, Moves
<1>c13. Owned'
  BY <1>0, <1>1, <1>2, <1>3, <1>s DEF Owned, Held, Disposing, Busy, Moves
<1> QED BY <1>c1, <1>c3, <1>c4, <1>c5, <1>c6, <1>c7, <1>c8,
       <1>c9, <1>c10, <1>c11, <1>c12, <1>c13 DEF BleInv

\* Without auto_reconnect the interface is published as it is.
LEMMA ConnectSkipped ==
    ASSUME BleInv, main # "done", MayConnect, ~lib.autoReconnect
    PROVE  BleInv'
<1>0. /\ Types /\ Counted /\ Shapes /\ Watched /\ Attempting /\ Clients
      /\ JobsKnown /\ Workers /\ Alone /\ Hanging /\ Closing /\ Owned
  BY DEF BleInv
<1>1. UNCHANGED <<shuttingDown, lib, iface, client, meshLock, ifaceLock, job, ble, gen, registered,
                  unresolved, teardown, call, link, main, drops>>
  BY DEF MayConnect, locks, lifecycle
<1>2. Moves("publish", at.job, iface, at.assigned, at.why)
  <2>1. at' = [at EXCEPT !.pc = "publish", !.client = iface]
    BY DEF MayConnect
  <2> QED BY <1>0, <2>1 DEF Moves, Types, AttemptRecord, Places
<1>3. at.pc = "opened"
  BY DEF MayConnect, At
<1>s. Settled' = Settled
  BY <1>1 DEF Settled
<1>c1. Types'
  BY <1>0, <1>1, <1>2, <1>3 DEF Types, Interfaces, Moves
<1>c3. Counted'
  BY <1>0, <1>1 DEF Counted, Owing
<1>c4. Shapes'
  BY <1>0, <1>1 DEF Shapes, Shape
<1>c5. Watched'
  BY <1>0, <1>1, <1>2, <1>3 DEF Watched, Waiting, Moves
<1>c6. Attempting'
  BY <1>0, <1>1, <1>2, <1>3 DEF Attempting, WithJob, Moves
<1>c7. Clients'
  BY <1>0, <1>1, <1>2, <1>3 DEF Clients, Unpublished, Attempting, WithJob, Moves
<1>c8. JobsKnown'
  BY <1>0, <1>1 DEF JobsKnown
<1>c9. Workers'
  BY <1>0, <1>1, <1>2, <1>3 DEF Workers, Waiting, Busy, Moves
<1>c10. Alone'
  BY <1>0, <1>1, <1>2, <1>3 DEF Alone, Moves
<1>c11. Hanging'
  BY <1>0, <1>1 DEF Hanging, Pending
<1>c12. Closing'
  BY <1>0, <1>1, <1>2, <1>3, <1>s DEF Closing, Moves
<1>c13. Owned'
  BY <1>0, <1>1, <1>2, <1>3, <1>s DEF Owned, Held, Disposing, Busy, Moves
<1> QED BY <1>c1, <1>c3, <1>c4, <1>c5, <1>c6, <1>c7, <1>c8,
       <1>c9, <1>c10, <1>c11, <1>c12, <1>c13 DEF BleInv

\* connect() is refused: the attempt keeps the interface for its rollback.
LEMMA ConnectRefused ==
    ASSUME BleInv, main # "done", MayConnect, lib.autoReconnect, Unresolved \/ shuttingDown
    PROVE  BleInv'
<1>0. /\ Types /\ Counted /\ Shapes /\ Watched /\ Attempting /\ Clients
      /\ JobsKnown /\ Workers /\ Alone /\ Hanging /\ Closing /\ Owned
  BY DEF BleInv
<1>1. UNCHANGED <<shuttingDown, lib, iface, client, meshLock, ifaceLock, job, ble, gen, registered,
                  unresolved, teardown, call, link, main, drops>>
  BY DEF MayConnect, locks, lifecycle
<1>2. \E why \in Reasons : Moves("rollback", at.job, iface, at.assigned, why)
  <2>0. at \in AttemptRecord /\ [at EXCEPT !.client = iface] \in AttemptRecord
    BY <1>0 DEF Types, AttemptRecord
  <2>1. \E why \in Reasons : Fail([at EXCEPT !.client = iface], why)
    BY <2>0 DEF MayConnect, Reasons
  <2>2. [at EXCEPT !.client = iface].job = at.job /\ [at EXCEPT !.client = iface].client = iface /\ [at EXCEPT !.client = iface].assigned = at.assigned
    BY <2>0 DEF AttemptRecord
  <2> QED BY <2>0, <2>1, <2>2, FailMoves
<1>3. at.pc = "opened"
  BY DEF MayConnect, At
<1>s. Settled' = Settled
  BY <1>1 DEF Settled
<1>c1. Types'
  BY <1>0, <1>1, <1>2, <1>3 DEF Types, Interfaces, Moves
<1>c3. Counted'
  BY <1>0, <1>1 DEF Counted, Owing
<1>c4. Shapes'
  BY <1>0, <1>1 DEF Shapes, Shape
<1>c5. Watched'
  BY <1>0, <1>1, <1>2, <1>3 DEF Watched, Waiting, Moves
<1>c6. Attempting'
  BY <1>0, <1>1, <1>2, <1>3 DEF Attempting, WithJob, Moves
<1>c7. Clients'
  BY <1>0, <1>1, <1>2, <1>3 DEF Clients, Unpublished, Attempting, WithJob, Moves
<1>c8. JobsKnown'
  BY <1>0, <1>1 DEF JobsKnown
<1>c9. Workers'
  BY <1>0, <1>1, <1>2, <1>3 DEF Workers, Waiting, Busy, Moves
<1>c10. Alone'
  BY <1>0, <1>1, <1>2, <1>3 DEF Alone, Moves
<1>c11. Hanging'
  BY <1>0, <1>1 DEF Hanging, Pending
<1>c12. Closing'
  BY <1>0, <1>1, <1>2, <1>3, <1>s DEF Closing, Moves
<1>c13. Owned'
  BY <1>0, <1>1, <1>2, <1>3, <1>s DEF Owned, Held, Disposing, Busy, Moves
<1> QED BY <1>c1, <1>c3, <1>c4, <1>c5, <1>c6, <1>c7, <1>c8,
       <1>c9, <1>c10, <1>c11, <1>c12, <1>c13 DEF BleInv

\* connect() may be submitted.
LEMMA ConnectAllowed ==
    ASSUME BleInv, main # "done", MayConnect, lib.autoReconnect, ~Unresolved, ~shuttingDown
    PROVE  BleInv'
<1>0. /\ Types /\ Counted /\ Shapes /\ Watched /\ Attempting /\ Clients
      /\ JobsKnown /\ Workers /\ Alone /\ Hanging /\ Closing /\ Owned
  BY DEF BleInv
<1>1. UNCHANGED <<shuttingDown, lib, iface, client, meshLock, ifaceLock, job, ble, gen, registered,
                  unresolved, teardown, call, link, main, drops>>
  BY DEF MayConnect, locks, lifecycle
<1>2. Moves("ensure", at.job, at.client, at.assigned, at.why)
  <2>1. Goto("ensure") /\ "ensure" \in Places
    BY DEF MayConnect, Places
  <2> QED BY <1>0, <2>1, GotoMoves
<1>3. at.pc = "opened"
  BY DEF MayConnect, At
<1>s. Settled' = Settled
  BY <1>1 DEF Settled
<1>c1. Types'
  BY <1>0, <1>1, <1>2, <1>3 DEF Types, Interfaces, Moves
<1>c3. Counted'
  BY <1>0, <1>1 DEF Counted, Owing
<1>c4. Shapes'
  BY <1>0, <1>1 DEF Shapes, Shape
<1>c5. Watched'
  BY <1>0, <1>1, <1>2, <1>3 DEF Watched, Waiting, Moves
<1>c6. Attempting'
  BY <1>0, <1>1, <1>2, <1>3 DEF Attempting, WithJob, Moves
<1>c7. Clients'
  BY <1>0, <1>1, <1>2, <1>3 DEF Clients, Unpublished, Moves
<1>c8. JobsKnown'
  BY <1>0, <1>1 DEF JobsKnown
<1>c9. Workers'
  BY <1>0, <1>1, <1>2, <1>3 DEF Workers, Waiting, Busy, Moves
<1>c10. Alone'
  BY <1>0, <1>1, <1>2, <1>3 DEF Alone, Moves
<1>c11. Hanging'
  BY <1>0, <1>1 DEF Hanging, Pending
<1>c12. Closing'
  BY <1>0, <1>1, <1>2, <1>3, <1>s DEF Closing, Moves
<1>c13. Owned'
  BY <1>0, <1>1, <1>2, <1>3, <1>s DEF Owned, Held, Disposing, Busy, Moves
<1> QED BY <1>c1, <1>c3, <1>c4, <1>c5, <1>c6, <1>c7, <1>c8,
       <1>c9, <1>c10, <1>c11, <1>c12, <1>c13 DEF BleInv

\* A job is submitted: whatever executor it gets, no other job is queued.
LEMMA EnqueuedKeeps ==
    ASSUME BleInv, main # "done", NEW j \in Jobs, Enqueued(j), at.pc = "ensure"
    PROVE  BleInv'
<1>0. /\ Types /\ Counted /\ Shapes /\ Watched /\ Attempting /\ Clients
      /\ JobsKnown /\ Workers /\ Alone /\ Hanging /\ Closing /\ Owned
  BY DEF BleInv
<1>1. UNCHANGED <<shuttingDown, lib, iface, client, meshLock, ifaceLock, gen, registered, unresolved,
                  teardown, call, link, main, drops>>
  BY DEF Enqueued, locks, lifecycle
<1>2. Moves("wait", j, at.client, at.assigned, at.why)
  BY DEF Enqueued
<1>s. Settled' = Settled
  BY <1>1 DEF Settled
<1>c1. Types'
  BY <1>0, <1>1, <1>2, Domains, Numbers DEF Types, Interfaces, Moves, Enqueued, Alike
<1>c3. Counted'
  BY <1>0, <1>1 DEF Counted, Owing
<1>c4. Shapes'
  BY <1>0, <1>1 DEF Shapes, Shape
<1>c5. Watched'
  BY <1>0, <1>1, <1>2, Domains, Numbers DEF Watched, Waiting, Moves, Enqueued, Alike
<1>c6. Attempting'
  BY <1>0, <1>1, <1>2, Domains, Numbers DEF Attempting, WithJob, Moves, Enqueued, Alike
<1>c7. Clients'
  BY <1>0, <1>1, <1>2 DEF Clients, Unpublished, Moves
<1>c8. JobsKnown'
  BY <1>0, <1>1, Domains, Numbers DEF JobsKnown, Moves, Enqueued, Alike
<1>c9. Workers'
  BY <1>0, <1>1, <1>2, Domains, Numbers
    DEF Workers, Waiting, Busy, Types, Interfaces, JobRecord, ExecutorRecord, Moves, Enqueued, Alike
<1>c10. Alone'
  BY <1>0, <1>1, <1>2, Domains, Numbers DEF Alone, Moves, Enqueued, Alike
<1>c11. Hanging'
  BY <1>0, <1>1 DEF Hanging, Pending
<1>c12. Closing'
  BY <1>0, <1>1, <1>2, <1>s, Domains, Numbers DEF Closing, Moves, Enqueued, Alike
<1>c13. Owned'
  BY <1>0, <1>1, <1>2, <1>s, Domains, Numbers DEF Owned, Held, Disposing, Busy, Moves, Enqueued, Alike
<1> QED BY <1>c1, <1>c3, <1>c4, <1>c5, <1>c6, <1>c7, <1>c8,
       <1>c9, <1>c10, <1>c11, <1>c12, <1>c13 DEF BleInv

\* The attempt gives up before it submits a job.
LEMMA KeepsGivesUp ==
    ASSUME BleInv, main # "done", GivesUp, at.pc = "ensure"
    PROVE  BleInv'
<1>0. /\ Types /\ Counted /\ Shapes /\ Watched /\ Attempting /\ Clients
      /\ JobsKnown /\ Workers /\ Alone /\ Hanging /\ Closing /\ Owned
  BY DEF BleInv
<1>1. UNCHANGED <<shuttingDown, lib, iface, client, meshLock, gen, registered, unresolved, teardown,
                  call, link, main, drops>>
  BY DEF GivesUp, locks, lifecycle
<1>2. \E why \in Reasons : Moves("rollback", at.job, at.client, at.assigned, why)
  <2>0. at \in AttemptRecord /\ at \in AttemptRecord
    BY <1>0 DEF Types, AttemptRecord
  <2>1. \E why \in Reasons : Fail(at, why)
    BY <2>0 DEF GivesUp, Reasons
  <2>2. at.job = at.job /\ at.client = at.client /\ at.assigned = at.assigned
    BY <2>0 DEF AttemptRecord
  <2> QED BY <2>0, <2>1, <2>2, FailMoves
<1>3. ifaceLock' \in {ifaceLock, "free"} /\ SameJobs
  BY DEF GivesUp
<1>4. ble' \in ExecutorRecord
  BY <1>0 DEF GivesUp, Types
<1>5. \/ ble' = ble
      \/ ble'.slot = None /\ ble'.degraded /\ ble'.exec = ble.exec /\ ble'.execs = ble.execs
  BY DEF GivesUp
<1>s. Settled' = Settled
  BY <1>1 DEF Settled
<1>c1. Types'
  BY <1>0, <1>1, <1>2, <1>3, <1>4, <1>5 DEF Types, Interfaces, Moves, SameJobs, Alike
<1>c3. Counted'
  BY <1>0, <1>1 DEF Counted, Owing
<1>c4. Shapes'
  BY <1>0, <1>1 DEF Shapes, Shape
<1>c5. Watched'
  <2>1. CASE ble' = ble
    BY <1>0, <1>2, <1>3, <2>1, Domains, Numbers DEF Watched, Waiting, Moves, SameJobs, Alike
  <2>2. CASE ble'.slot = None
    BY <2>2, Numbers DEF Watched
  <2> QED BY <1>5, <2>1, <2>2
<1>c6. Attempting'
  BY <1>0, <1>1, <1>2, <1>3 DEF Attempting, WithJob, Moves, SameJobs, Alike
<1>c7. Clients'
  BY <1>0, <1>1, <1>2 DEF Clients, Unpublished, Moves
<1>c8. JobsKnown'
  BY <1>0, <1>1, <1>3 DEF JobsKnown, SameJobs, Alike
<1>c9. Workers'
  BY <1>0, <1>1, <1>2, <1>3, <1>4, <1>5 DEF Workers, Waiting, Busy, Moves, SameJobs, Alike
<1>c10. Alone'
  BY <1>0, <1>1, <1>2, <1>3 DEF Alone, Moves, SameJobs, Alike
<1>c11. Hanging'
  BY <1>0, <1>1 DEF Hanging, Pending
<1>c12. Closing'
  BY <1>0, <1>1, <1>2, <1>3, <1>s DEF Closing, Moves, SameJobs, Alike
<1>c13. Owned'
  BY <1>0, <1>1, <1>2, <1>3, <1>s DEF Owned, Held, Disposing, Busy, Moves, SameJobs, Alike
<1> QED BY <1>c1, <1>c3, <1>c4, <1>c5, <1>c6, <1>c7, <1>c8,
       <1>c9, <1>c10, <1>c11, <1>c12, <1>c13 DEF BleInv

\* The constructed interface becomes the singleton, so that its link changes its owner.
LEMMA KeepsCreated ==
    ASSUME BleInv, main # "done", Created
    PROVE  BleInv'
<1>0. /\ Types /\ Counted /\ Shapes /\ Watched /\ Attempting /\ Clients
      /\ JobsKnown /\ Workers /\ Alone /\ Hanging /\ Closing /\ Owned
  BY DEF BleInv
<1>1. UNCHANGED <<shuttingDown, lib, client, meshLock, job, gen, unresolved, teardown, call, link,
                  main, drops>>
  BY DEF Created, locks, lifecycle
<1>2. Moves("opened", at.job, at.client, at.assigned, at.why)
  <2>1. Goto("opened") /\ "opened" \in Places
    BY DEF Created, Places
  <2> QED BY <1>0, <2>1, GotoMoves
<1>3. /\ at.pc = "wait" /\ job[at.job].kind = "create" /\ Done(at.job) /\ job[at.job].res \in {"ok", "wrong"}
      /\ iface' = at.job /\ ifaceLock' = "free"
  BY DEF Created, At, Waits
<1>4. at.job \in Jobs /\ job[at.job].st \notin {"none", "queued", "running", "cancelled"}
  BY <1>0, <1>3, Domains DEF Attempting, WithJob, Done, JobsKnown
<1>5. Lifted
  BY <1>0, ResetDegradedLifts DEF Created
<1>6. registered' \in [Jobs -> Generations]
  BY <1>0 DEF Created, Types, AttemptRecord
<1>s. Settled' = Settled
  BY <1>1 DEF Settled
<1>c1. Types'
  BY <1>0, <1>1, <1>2, <1>3, <1>4, <1>5, <1>6 DEF Types, Interfaces, Moves, Lifted
<1>c3. Counted'
  BY <1>0, <1>1 DEF Counted, Owing
<1>c4. Shapes'
  BY <1>0, <1>1 DEF Shapes, Shape
<1>c5. Watched'
  <2>1. CASE ble' = ble
    BY <1>0, <1>1, <1>2, <1>3, <1>4, <2>1, Domains, Numbers DEF Watched, Waiting, Moves, Done
  <2>2. CASE ble.degraded
    BY <1>0, <1>5, <2>2, Numbers DEF Watched, Lifted
  <2> QED BY <1>5, <2>1, <2>2 DEF Lifted
<1>c6. Attempting'
  BY <1>0, <1>1, <1>2, <1>3, <1>4 DEF Attempting, WithJob, Moves
<1>c7. Clients'
  BY <1>0, <1>1, <1>2, <1>3, <1>4 DEF Clients, Unpublished, Attempting, WithJob, Moves
<1>c8. JobsKnown'
  BY <1>0, <1>1, <1>3, <1>4 DEF JobsKnown, Attempting, WithJob
<1>c9. Workers'
  <2>1. CASE ble' = ble
    BY <1>0, <1>1, <1>2, <1>3, <1>4, <1>5, <2>1, Domains, Numbers
      DEF Workers, Waiting, Busy, Attempting, WithJob, JobsKnown, Moves
  <2>2. CASE ble'.exec = None /\ ~ble'.shut /\ ~ble'.degraded /\ ble.degraded
    <3>1. ble.execs \in Nat
      BY <1>0 DEF Types, ExecutorRecord
    <3> QED BY <1>0, <1>1, <1>2, <1>3, <1>4, <1>5, <2>2, <3>1, Domains, Numbers
      DEF Workers, Waiting, Lifted, Moves, None
  <2> QED BY <1>5, <2>1, <2>2 DEF Lifted
<1>c10. Alone'
  BY <1>0, <1>1, <1>2, <1>3, <1>4 DEF Alone, Moves
<1>c11. Hanging'
  BY <1>0, <1>1 DEF Hanging, Pending
<1>c12. Closing'
  BY <1>0, <1>1, <1>2, <1>3, <1>4, <1>s DEF Closing, Attempting, WithJob, Clients, Unpublished, Moves
<1>c13. Owned'
  <2>1. job[at.job].iface = at.job /\ iface = None
    BY <1>0, <1>3, <1>4, Numbers DEF JobsKnown, Attempting, WithJob
  <2>2. \A i \in Jobs : Held(i) => iface' = i
    BY <1>3, <2>1 DEF Held
  <2>3. \A i \in Jobs : Disposing(i)' <=> Disposing(i)
    BY <1>1 DEF Disposing
  <2> QED BY <1>0, <1>1, <1>s, <2>1, <2>2, <2>3, Numbers DEF Owned
<1> QED BY <1>c1, <1>c3, <1>c4, <1>c5, <1>c6, <1>c7, <1>c8,
       <1>c9, <1>c10, <1>c11, <1>c12, <1>c13 DEF BleInv

\* connect() returned: the interface is the client to be published.
LEMMA KeepsConnected ==
    ASSUME BleInv, main # "done", Connected
    PROVE  BleInv'
<1>0. /\ Types /\ Counted /\ Shapes /\ Watched /\ Attempting /\ Clients
      /\ JobsKnown /\ Workers /\ Alone /\ Hanging /\ Closing /\ Owned
  BY DEF BleInv
<1>1. UNCHANGED <<shuttingDown, lib, iface, client, meshLock, ifaceLock, job, gen, registered,
                  unresolved, teardown, call, link, main, drops>>
  BY DEF Connected, locks, lifecycle
<1>2. Moves("publish", at.job, iface, at.assigned, at.why)
  <2>1. at' = [at EXCEPT !.pc = "publish", !.client = iface]
    BY DEF Connected
  <2> QED BY <1>0, <2>1 DEF Moves, Types, AttemptRecord, Places
<1>3. at.pc = "wait" /\ job[at.job].kind = "connect" /\ Done(at.job) /\ job[at.job].res = "ok"
  BY DEF Connected, At, Waits
<1>4. at.job \in Jobs /\ job[at.job].st \notin {"none", "queued", "running", "cancelled"}
  BY <1>0, <1>3, Domains DEF Attempting, WithJob, Done, JobsKnown
<1>5. Lifted
  BY <1>0, ResetDegradedLifts DEF Connected
<1>6. iface # None
  BY <1>0, <1>3 DEF Attempting, WithJob
<1>s. Settled' = Settled
  BY <1>1 DEF Settled
<1>c1. Types'
  BY <1>0, <1>1, <1>2, <1>3, <1>4, <1>5, <1>6 DEF Types, Interfaces, Moves, Lifted
<1>c3. Counted'
  BY <1>0, <1>1 DEF Counted, Owing
<1>c4. Shapes'
  BY <1>0, <1>1 DEF Shapes, Shape
<1>c5. Watched'
  <2>1. CASE ble' = ble
    BY <1>0, <1>1, <1>2, <1>3, <1>4, <2>1, Domains, Numbers DEF Watched, Waiting, Moves, Done
  <2>2. CASE ble.degraded
    BY <1>0, <1>5, <2>2, Numbers DEF Watched, Lifted
  <2> QED BY <1>5, <2>1, <2>2 DEF Lifted
<1>c6. Attempting'
  BY <1>0, <1>1, <1>2, <1>3, <1>4, <1>6 DEF Attempting, WithJob, Moves
<1>c7. Clients'
  BY <1>0, <1>1, <1>2, <1>3, <1>4, <1>6 DEF Clients, Unpublished, Moves
<1>c8. JobsKnown'
  BY <1>0, <1>1 DEF JobsKnown
<1>c9. Workers'
  <2>1. CASE ble' = ble
    BY <1>0, <1>1, <1>2, <1>3, <1>4, <1>5, <2>1, Domains, Numbers
      DEF Workers, Waiting, Busy, Attempting, WithJob, JobsKnown, Moves
  <2>2. CASE ble'.exec = None /\ ~ble'.shut /\ ~ble'.degraded /\ ble.degraded
    <3>1. ble.execs \in Nat
      BY <1>0 DEF Types, ExecutorRecord
    <3> QED BY <1>0, <1>1, <1>2, <1>3, <1>4, <1>5, <2>2, <3>1, Domains, Numbers
      DEF Workers, Waiting, Lifted, Moves, None
  <2> QED BY <1>5, <2>1, <2>2 DEF Lifted
<1>c10. Alone'
  BY <1>0, <1>1, <1>2, <1>3, <1>4 DEF Alone, Moves
<1>c11. Hanging'
  BY <1>0, <1>1 DEF Hanging, Pending
<1>c12. Closing'
  BY <1>0, <1>1, <1>2, <1>3, <1>4, <1>6, <1>s DEF Closing, Moves
<1>c13. Owned'
  BY <1>0, <1>1, <1>2, <1>3, <1>4, <1>6, <1>s DEF Owned, Held, Disposing, Busy, Moves
<1> QED BY <1>c1, <1>c3, <1>c4, <1>c5, <1>c6, <1>c7, <1>c8,
       <1>c9, <1>c10, <1>c11, <1>c12, <1>c13 DEF BleInv

\* A TimeoutError of the job is handled like the end of the wait.
LEMMA FailsByTimeout ==
    ASSUME BleInv, main # "done", JobFails, job[at.job].res = "timeout"
    PROVE  BleInv'
<1>0. /\ Types /\ Counted /\ Shapes /\ Watched /\ Attempting /\ Clients
      /\ JobsKnown /\ Workers /\ Alone /\ Hanging /\ Closing /\ Owned
  BY DEF BleInv
<1>1. UNCHANGED <<shuttingDown, lib, iface, client, meshLock, ifaceLock, job, ble, gen, registered,
                  unresolved, teardown, call, link, main, drops>>
  BY DEF JobFails, locks, lifecycle
<1>2. Moves("abandon", at.job, at.client, at.assigned, "timeout")
  <2>1. at' = [at EXCEPT !.pc = "abandon", !.why = "timeout"]
    BY DEF JobFails
  <2> QED BY <1>0, <2>1 DEF Moves, Types, AttemptRecord, Places, Reasons
<1>3. at.pc = "wait" /\ Done(at.job)
  BY DEF JobFails, At, Waits
<1>4. at.job \in Jobs /\ job[at.job].st # "cancelled"
  BY <1>0, <1>3, Domains DEF Attempting, WithJob, Done, JobsKnown
<1>s. Settled' = Settled
  BY <1>1 DEF Settled
<1>c1. Types'
  BY <1>0, <1>1, <1>2, <1>3, <1>4 DEF Types, Interfaces, Moves, Done
<1>c3. Counted'
  BY <1>0, <1>1 DEF Counted, Owing
<1>c4. Shapes'
  BY <1>0, <1>1 DEF Shapes, Shape
<1>c5. Watched'
  BY <1>0, <1>1, <1>2, <1>3, <1>4 DEF Watched, Waiting, Moves, Done
<1>c6. Attempting'
  BY <1>0, <1>1, <1>2, <1>3, <1>4 DEF Attempting, WithJob, Moves, Done
<1>c7. Clients'
  BY <1>0, <1>1, <1>2, <1>3, <1>4 DEF Clients, Unpublished, Moves, Done
<1>c8. JobsKnown'
  BY <1>0, <1>1 DEF JobsKnown
<1>c9. Workers'
  BY <1>0, <1>1, <1>2, <1>3, <1>4 DEF Workers, Waiting, Busy, Moves, Done
<1>c10. Alone'
  BY <1>0, <1>1, <1>2, <1>3, <1>4 DEF Alone, Moves, Done
<1>c11. Hanging'
  BY <1>0, <1>1 DEF Hanging, Pending
<1>c12. Closing'
  BY <1>0, <1>1, <1>2, <1>3, <1>4, <1>s DEF Closing, Moves, Done
<1>c13. Owned'
  BY <1>0, <1>1, <1>2, <1>3, <1>4, <1>s DEF Owned, Held, Disposing, Busy, Moves, Done
<1> QED BY <1>c1, <1>c3, <1>c4, <1>c5, <1>c6, <1>c7, <1>c8,
       <1>c9, <1>c10, <1>c11, <1>c12, <1>c13 DEF BleInv

\* Any other error fails the attempt; a failed constructor made no link.
LEMMA FailsOtherwise ==
    ASSUME BleInv, main # "done", JobFails, job[at.job].res # "timeout"
    PROVE  BleInv'
<1>0. /\ Types /\ Counted /\ Shapes /\ Watched /\ Attempting /\ Clients
      /\ JobsKnown /\ Workers /\ Alone /\ Hanging /\ Closing /\ Owned
  BY DEF BleInv
<1>1. UNCHANGED <<shuttingDown, lib, iface, client, meshLock, job, ble, gen, registered, unresolved,
                  teardown, call, link, main, drops>>
  BY DEF JobFails, locks, lifecycle
<1>2. \E why \in Reasons : Moves("rollback", at.job, at.client, at.assigned, why)
  <2>0. at \in AttemptRecord /\ at \in AttemptRecord
    BY <1>0 DEF Types, AttemptRecord
  <2>1. \E why \in Reasons : Fail(at, why)
    BY <2>0, BleAssumption DEF JobFails, Reasons
  <2>2. at.job = at.job /\ at.client = at.client /\ at.assigned = at.assigned
    BY <2>0 DEF AttemptRecord
  <2> QED BY <2>0, <2>1, <2>2, FailMoves
<1>3. at.pc = "wait" /\ Done(at.job) /\ job[at.job].res \notin {"ok", "wrong"} /\ ifaceLock' \in {ifaceLock, "free"}
  BY BleAssumption DEF JobFails, At, Waits, Leave
<1>4. at.job \in Jobs
  BY <1>0, <1>3, Domains DEF Attempting, WithJob
<1>s. Settled' = Settled
  BY <1>1 DEF Settled
<1>c1. Types'
  BY <1>0, <1>1, <1>2, <1>3, <1>4 DEF Types, Interfaces, Moves, Done
<1>c3. Counted'
  BY <1>0, <1>1 DEF Counted, Owing
<1>c4. Shapes'
  BY <1>0, <1>1 DEF Shapes, Shape
<1>c5. Watched'
  BY <1>0, <1>1, <1>2, <1>3, <1>4 DEF Watched, Waiting, Moves, Done
<1>c6. Attempting'
  BY <1>0, <1>1, <1>2, <1>3, <1>4 DEF Attempting, WithJob, Moves, Done
<1>c7. Clients'
  BY <1>0, <1>1, <1>2, <1>3, <1>4 DEF Clients, Unpublished, Moves, Done
<1>c8. JobsKnown'
  BY <1>0, <1>1 DEF JobsKnown
<1>c9. Workers'
  BY <1>0, <1>1, <1>2, <1>3, <1>4 DEF Workers, Waiting, Busy, Moves, Done
<1>c10. Alone'
  BY <1>0, <1>1, <1>2, <1>3, <1>4 DEF Alone, Moves, Done
<1>c11. Hanging'
  BY <1>0, <1>1 DEF Hanging, Pending
<1>c12. Closing'
  BY <1>0, <1>1, <1>2, <1>3, <1>4, <1>s DEF Closing, Moves, Done
<1>c13. Owned'
  BY <1>0, <1>1, <1>2, <1>3, <1>4, <1>s DEF Owned, Held, Disposing, Busy, JobsKnown, Moves, Done
<1> QED BY <1>c1, <1>c3, <1>c4, <1>c5, <1>c6, <1>c7, <1>c8,
       <1>c9, <1>c10, <1>c11, <1>c12, <1>c13 DEF BleInv

\* The wait is given up.
LEMMA KeepsWaitEnds ==
    ASSUME BleInv, main # "done", WaitEnds
    PROVE  BleInv'
<1>0. /\ Types /\ Counted /\ Shapes /\ Watched /\ Attempting /\ Clients
      /\ JobsKnown /\ Workers /\ Alone /\ Hanging /\ Closing /\ Owned
  BY DEF BleInv
<1>1. UNCHANGED <<shuttingDown, lib, iface, client, meshLock, ifaceLock, ble, gen, registered,
                  unresolved, teardown, call, link, main, drops>>
  BY DEF WaitEnds, locks, lifecycle
<1>2. Moves("abandon", at.job, at.client, at.assigned, IF shuttingDown THEN "shutdown" ELSE "timeout")
  <2>1. at' = [at EXCEPT !.pc = "abandon", !.why = IF shuttingDown THEN "shutdown" ELSE "timeout"]
    BY DEF WaitEnds
  <2> QED BY <1>0, <2>1 DEF Moves, Types, AttemptRecord, Places, Reasons
<1>3. at.pc = "wait" /\ ~Done(at.job)
  BY DEF WaitEnds, At, Waits
<1>4. at.job \in Jobs
  BY <1>0, <1>3, Domains DEF Attempting, WithJob
<1>5. SameJobs
  <2> DEFINE n == ~shuttingDown
  <2>1. job' = [job EXCEPT ![at.job].late = n] /\ n \in BOOLEAN
    BY DEF WaitEnds
  <2>2. job \in [Jobs -> JobRecord]
    BY <1>0 DEF Types
  <2> HIDE DEF n
  <2>3. job' \in [Jobs -> JobRecord]
    BY <1>4, <2>1, <2>2 DEF JobRecord
  <2> QED BY <1>4, <2>1, <2>2, <2>3 DEF SameJobs, Alike, JobRecord
<1>6. ~shuttingDown => \E k \in Jobs : job[k].ex = job[at.job].ex /\ job[k].st \in {"running", "dispose", "disposing"}
  BY DEF WaitEnds
<1>s. Settled' = Settled
  BY <1>1 DEF Settled
<1>c1. Types'
  BY <1>0, <1>1, <1>2, <1>3, <1>4, <1>5, <1>6 DEF Types, Interfaces, Moves, SameJobs, Alike
<1>c3. Counted'
  BY <1>0, <1>1 DEF Counted, Owing
<1>c4. Shapes'
  BY <1>0, <1>1 DEF Shapes, Shape
<1>c5. Watched'
  BY <1>0, <1>1, <1>2, <1>3, <1>4, <1>5, <1>6, Domains, Numbers DEF Watched, Waiting, Moves, SameJobs, Alike
<1>c6. Attempting'
  BY <1>0, <1>1, <1>2, <1>3, <1>4, <1>5, <1>6 DEF Attempting, WithJob, Moves, SameJobs, Alike
<1>c7. Clients'
  BY <1>0, <1>1, <1>2, <1>3, <1>4, <1>6 DEF Clients, Unpublished, Moves
<1>c8. JobsKnown'
  BY <1>0, <1>1, <1>5, <1>6 DEF JobsKnown, SameJobs, Alike
<1>c9. Workers'
  <2>1. ASSUME ~shuttingDown, ifaceLock # "connector" PROVE job[at.job].st # "queued"
    <3>1. iface # None
      BY <1>0, <1>3, <2>1 DEF Attempting
    <3>2. PICK k \in Jobs : job[k].ex = job[at.job].ex /\ job[k].st \in {"running", "dispose", "disposing"}
      BY <1>6, <2>1
    <3>3. SUFFICES ASSUME job[at.job].st = "queued" PROVE FALSE
      OBVIOUS
    <3>4. k # at.job /\ job[k].ex = ble.exec /\ ble.exec # None
      BY <1>0, <1>4, <3>2, <3>3 DEF Workers
    <3>5. job[k].st = "running" /\ ~job[k].disposer
      BY <1>0, <3>1, <3>2, <3>4 DEF Workers
    <3> QED BY <1>0, <3>4, <3>5 DEF Workers, Waiting
  <2>2. job[at.job].st # "cancelled"
    BY <1>3 DEF Done
  <2>3. at'.pc = "abandon" /\ at'.job = at.job /\ (at'.why # "shutdown" => ~shuttingDown)
    BY <1>2 DEF Moves
  <2>4. \A k \in Jobs : job'[k].st = job[k].st /\ job'[k].ex = job[k].ex /\ job'[k].disposer = job[k].disposer
    BY <1>5 DEF SameJobs, Alike
  <2>5. \A k \in Jobs : Waiting(k)' <=> Waiting(k)
    BY <1>3, <2>3 DEF Waiting
  <2> QED BY <1>0, <1>1, <1>4, <2>1, <2>2, <2>3, <2>4, <2>5 DEF Workers
<1>c10. Alone'
  BY <1>0, <1>1, <1>2, <1>3, <1>4, <1>5, <1>6 DEF Alone, Moves, SameJobs, Alike
<1>c11. Hanging'
  BY <1>0, <1>1 DEF Hanging, Pending
<1>c12. Closing'
  BY <1>0, <1>1, <1>2, <1>3, <1>4, <1>5, <1>6, <1>s DEF Closing, Moves, SameJobs, Alike
<1>c13. Owned'
  BY <1>0, <1>1, <1>2, <1>3, <1>4, <1>5, <1>6, <1>s DEF Owned, Held, Disposing, Busy, Moves, SameJobs, Alike
<1> QED BY <1>c1, <1>c3, <1>c4, <1>c5, <1>c6, <1>c7, <1>c8,
       <1>c9, <1>c10, <1>c11, <1>c12, <1>c13 DEF BleInv

\* A connect() that never ran is cancelled by a shutdown, and the attempt keeps the interface.
LEMMA LeavesStopping ==
    ASSUME BleInv, main # "done", AbandonJob, job[at.job].st \in {"queued", "cancelled"},
           job[at.job].kind = "connect", shuttingDown \/ at.why = "shutdown"
    PROVE  BleInv'
<1>0. /\ Types /\ Counted /\ Shapes /\ Watched /\ Attempting /\ Clients
      /\ JobsKnown /\ Workers /\ Alone /\ Hanging /\ Closing /\ Owned
  BY DEF BleInv
<1>1. UNCHANGED <<shuttingDown, lib, iface, client, meshLock, ifaceLock, gen, registered, unresolved,
                  teardown, call, link, main, drops>>
  BY DEF AbandonJob, locks, lifecycle
<1>3. at.pc = "abandon"
  BY DEF AbandonJob, At
<1>4. at.job \in Jobs /\ job[at.job].st # "none"
  BY <1>0, <1>3, Domains DEF Attempting, WithJob
<1>2. Moves("count", at.job, iface, at.assigned, "shutdown")
  <2>0. at \in AttemptRecord /\ iface \in Interfaces
    BY <1>0 DEF Types
  <2>1. at' = [at EXCEPT !.pc = "count", !.why = "shutdown", !.client = iface]
    BY <2>0 DEF AbandonJob, AttemptRecord
  <2> QED BY <1>0, <2>0, <2>1, LeavesJob
<1>5. /\ job' \in [Jobs -> JobRecord] /\ job'[at.job].st = "cancelled" /\ Alike(job'[at.job], job[at.job])
      /\ \A k \in Jobs \ {at.job} : job'[k] = job[k]
  <2>1. job' = Cancelled(job, at.job) /\ job \in [Jobs -> JobRecord] /\ at.job \in Interfaces
    BY <1>0, <1>4 DEF AbandonJob, Types, Interfaces
  <2> QED BY <1>4, <2>1, CancelIs
<1>6. /\ ble' \in ExecutorRecord /\ ble'.slot = (IF ble.slot = at.job THEN None ELSE ble.slot) /\ ble'.exec = ble.exec /\ ble'.execs = ble.execs
      /\ ble'.shut = ble.shut /\ ble'.degraded = ble.degraded
  <2>1. ble' = Cleared(ble, at.job) /\ ble \in ExecutorRecord
    BY <1>0 DEF AbandonJob, Types
  <2> QED BY <1>4, <2>1, ClearedIs
<1>s. Settled' = Settled
  BY <1>1 DEF Settled
<1>c1. Types'
  BY <1>0, <1>1, <1>3, <1>4, <1>2, <1>5, <1>6 DEF Types, Interfaces, Moves, Alike
<1>c3. Counted'
  BY <1>0, <1>1 DEF Counted, Owing
<1>c4. Shapes'
  BY <1>0, <1>1 DEF Shapes, Shape
<1>c5. Watched'
  <2>1. ble'.slot # at.job /\ ble'.slot \in {ble.slot, None}
    BY <1>4, <1>6, Numbers
  <2>2. \A k \in Jobs : ble'.slot = k => ble.slot = k /\ k # at.job /\ job'[k] = job[k]
    BY <1>5, <2>1, Numbers
  <2>3. ble'.slot # None => ble'.slot \in Jobs
    BY <1>0, <2>1, Domains
  <2> QED BY <1>0, <1>2, <1>3, <1>6, <2>1, <2>2, <2>3, Numbers DEF Watched, Waiting, Moves
<1>c6. Attempting'
  BY <1>0, <1>1, <1>3, <1>4, <1>2, <1>5, <1>6 DEF Attempting, WithJob, Moves, Alike
<1>c7. Clients'
  BY <1>0, <1>1, <1>3, <1>4, <1>2, <1>5, <1>6 DEF Clients, Unpublished, Attempting, WithJob, Moves, Alike
<1>c8. JobsKnown'
  BY <1>0, <1>1, <1>4, <1>2, <1>5 DEF JobsKnown, Moves, Alike
<1>c9. Workers'
  BY <1>0, <1>1, <1>3, <1>4, <1>2, <1>5, <1>6 DEF Workers, Waiting, Busy, Moves, Alike
<1>c10. Alone'
  BY <1>0, <1>1, <1>3, <1>4, <1>2, <1>5, <1>6 DEF Alone, Moves, Alike
<1>c11. Hanging'
  BY <1>0, <1>1 DEF Hanging, Pending
<1>c12. Closing'
  BY <1>0, <1>1, <1>3, <1>4, <1>2, <1>5, <1>6, <1>s DEF Closing, Moves, Alike
<1>c13. Owned'
  BY <1>0, <1>1, <1>3, <1>4, <1>2, <1>5, <1>6, <1>s DEF Owned, Held, Disposing, Busy, Moves, Alike
<1> QED BY <1>c1, <1>c3, <1>c4, <1>c5, <1>c6, <1>c7, <1>c8,
       <1>c9, <1>c10, <1>c11, <1>c12, <1>c13 DEF BleInv

\* A constructor that never ran is cancelled.
LEMMA LeavesUnstarted ==
    ASSUME BleInv, main # "done", AbandonJob, job[at.job].st \in {"queued", "cancelled"},
           job[at.job].kind = "create"
    PROVE  BleInv'
<1>0. /\ Types /\ Counted /\ Shapes /\ Watched /\ Attempting /\ Clients
      /\ JobsKnown /\ Workers /\ Alone /\ Hanging /\ Closing /\ Owned
  BY DEF BleInv
<1>1. UNCHANGED <<shuttingDown, lib, client, meshLock, ifaceLock, gen, registered, unresolved,
                  teardown, call, link, main, drops>>
  BY DEF AbandonJob, locks, lifecycle
<1>3. at.pc = "abandon"
  BY DEF AbandonJob, At
<1>4. at.job \in Jobs /\ job[at.job].st # "none"
  BY <1>0, <1>3, Domains DEF Attempting, WithJob
<1>7. iface = None /\ iface' = None
  BY <1>0, <1>3 DEF AbandonJob, Attempting, WithJob
<1>2. Moves("count", at.job, at.client, at.assigned, at.why)
  <2>0. at \in AttemptRecord /\ at.client \in Interfaces
    BY <1>0 DEF Types, AttemptRecord
  <2>1. at' = [at EXCEPT !.pc = "count", !.why = at.why, !.client = at.client]
    BY <2>0 DEF AbandonJob, AttemptRecord
  <2> QED BY <1>0, <2>0, <2>1, LeavesJob
<1>5. /\ job' \in [Jobs -> JobRecord] /\ job'[at.job].st = "cancelled" /\ Alike(job'[at.job], job[at.job])
      /\ \A k \in Jobs \ {at.job} : job'[k] = job[k]
  <2>1. job' = Cancelled(job, at.job) /\ job \in [Jobs -> JobRecord] /\ at.job \in Interfaces
    BY <1>0, <1>4 DEF AbandonJob, Types, Interfaces
  <2> QED BY <1>4, <2>1, CancelIs
<1>6. /\ ble' \in ExecutorRecord /\ ble'.slot = (IF ble.slot = at.job THEN None ELSE ble.slot) /\ ble'.exec = ble.exec /\ ble'.execs = ble.execs
      /\ ble'.shut = ble.shut /\ ble'.degraded = ble.degraded
  <2>1. ble' = Cleared(ble, at.job) /\ ble \in ExecutorRecord
    BY <1>0 DEF AbandonJob, Types
  <2> QED BY <1>4, <2>1, ClearedIs
<1>s. Settled' = Settled
  BY <1>1 DEF Settled
<1>c1. Types'
  BY <1>0, <1>1, <1>3, <1>4, <1>7, <1>2, <1>5, <1>6 DEF Types, Interfaces, Moves, Alike
<1>c3. Counted'
  BY <1>0, <1>1 DEF Counted, Owing
<1>c4. Shapes'
  BY <1>0, <1>1 DEF Shapes, Shape
<1>c5. Watched'
  <2>1. ble'.slot # at.job /\ ble'.slot \in {ble.slot, None}
    BY <1>4, <1>6, Numbers
  <2>2. \A k \in Jobs : ble'.slot = k => ble.slot = k /\ k # at.job /\ job'[k] = job[k]
    BY <1>5, <2>1, Numbers
  <2>3. ble'.slot # None => ble'.slot \in Jobs
    BY <1>0, <2>1, Domains
  <2> QED BY <1>0, <1>2, <1>3, <1>6, <2>1, <2>2, <2>3, Numbers DEF Watched, Waiting, Moves
<1>c6. Attempting'
  BY <1>0, <1>1, <1>3, <1>4, <1>7, <1>2, <1>5, <1>6 DEF Attempting, WithJob, Moves, Alike
<1>c7. Clients'
  BY <1>0, <1>1, <1>3, <1>4, <1>7, <1>2, <1>5, <1>6 DEF Clients, Unpublished, Moves, Alike
<1>c8. JobsKnown'
  BY <1>0, <1>1, <1>4, <1>7, <1>5 DEF JobsKnown, Alike
<1>c9. Workers'
  BY <1>0, <1>1, <1>3, <1>4, <1>7, <1>2, <1>5, <1>6 DEF Workers, Waiting, Busy, Moves, Alike
<1>c10. Alone'
  BY <1>0, <1>1, <1>3, <1>4, <1>2, <1>5, <1>6 DEF Alone, Moves, Alike
<1>c11. Hanging'
  BY <1>0, <1>1 DEF Hanging, Pending
<1>c12. Closing'
  BY <1>0, <1>1, <1>3, <1>4, <1>7, <1>2, <1>5, <1>6, <1>s DEF Closing, Moves, Alike
<1>c13. Owned'
  <2>1. \A i \in Jobs : Held(i) => link[i] # "open"
    BY <1>0, <1>3, <1>4 DEF Held, JobsKnown
  <2>2. \A i \in Jobs : Disposing(i) => Disposing(i)'
    BY <1>4, <1>5 DEF Disposing, Alike, Busy
  <2> QED BY <1>0, <1>1, <1>7, <1>s, <2>1, <2>2, Numbers DEF Owned
<1> QED BY <1>c1, <1>c3, <1>c4, <1>c5, <1>c6, <1>c7, <1>c8,
       <1>c9, <1>c10, <1>c11, <1>c12, <1>c13 DEF BleInv

\* A running job is abandoned with a timer and a disposer, which takes over its link.
LEMMA LeavesRunning ==
    ASSUME BleInv, main # "done", AbandonJob, job[at.job].st = "running"
    PROVE  BleInv'
<1>0. /\ Types /\ Counted /\ Shapes /\ Watched /\ Attempting /\ Clients
      /\ JobsKnown /\ Workers /\ Alone /\ Hanging /\ Closing /\ Owned
  BY DEF BleInv
<1>1. UNCHANGED <<shuttingDown, lib, client, meshLock, ifaceLock, ble, gen, registered, unresolved,
                  teardown, call, link, main, drops>>
  BY DEF AbandonJob, locks, lifecycle, Done
<1>3. at.pc = "abandon"
  BY DEF AbandonJob, At
<1>4. at.job \in Jobs /\ job[at.job].st # "none"
  BY <1>0, <1>3, Domains DEF Attempting, WithJob
<1>2. \E why \in Reasons : Moves("count", at.job, at.client, at.assigned, why)
  <2>0. at \in AttemptRecord /\ at.client \in Interfaces /\ ~Done(at.job)
    BY <1>0, <1>4 DEF Types, AttemptRecord, Done
  <2>1. PICK why \in {at.why, "shutdown"} : at' = [at EXCEPT !.pc = "count", !.why = why, !.client = at.client]
    BY <2>0 DEF AbandonJob, AttemptRecord
  <2>2. why \in Reasons
    BY <2>0 DEF AttemptRecord, Reasons
  <2> QED BY <1>0, <2>0, <2>1, <2>2, LeavesJob
<1>5. /\ job' \in [Jobs -> JobRecord] /\ \A k \in Jobs \ {at.job} : job'[k] = job[k]
      /\ job'[at.job].st = "running" /\ job'[at.job].disposer /\ job'[at.job].timer = "armed"
      /\ job'[at.job].kind = job[at.job].kind /\ job'[at.job].iface = job[at.job].iface
      /\ job'[at.job].ex = job[at.job].ex /\ job'[at.job].res = job[at.job].res
  <2>1. job' = [job EXCEPT ![at.job].timer = "armed", ![at.job].disposer = TRUE] /\ job \in [Jobs -> JobRecord]
    BY <1>0 DEF AbandonJob, Abandoned, Types, Done
  <2>2. job' \in [Jobs -> JobRecord]
    BY <1>4, <2>1 DEF JobRecord
  <2> QED BY <1>4, <2>1, <2>2 DEF JobRecord
<1>6. iface' = None /\ (iface # None => job[at.job].iface = iface)
  BY <1>0, <1>3 DEF AbandonJob, Attempting
<1>s. Settled' = Settled
  BY <1>1 DEF Settled
<1>c1. Types'
  BY <1>0, <1>1, <1>3, <1>4, <1>2, <1>5, <1>6 DEF Types, Interfaces, Moves
<1>c3. Counted'
  BY <1>0, <1>1 DEF Counted, Owing
<1>c4. Shapes'
  BY <1>0, <1>1 DEF Shapes, Shape
<1>c5. Watched'
  <2>1. \A k \in Jobs : ~Waiting(k)'
    BY <1>2 DEF Waiting, Moves
  <2>2. \A k \in Jobs \ {at.job} : ~Waiting(k) /\ job'[k] = job[k]
    BY <1>5 DEF Waiting
  <2>3. ble.slot \in Jobs \cup {None}
    BY <1>0, Domains
  <2> QED BY <1>0, <1>1, <1>4, <1>5, <2>1, <2>2, <2>3 DEF Watched
<1>c6. Attempting'
  BY <1>0, <1>1, <1>3, <1>4, <1>2, <1>5, <1>6 DEF Attempting, WithJob, Moves
<1>c7. Clients'
  BY <1>0, <1>1, <1>3, <1>4, <1>2, <1>5, <1>6 DEF Clients, Unpublished, Moves
<1>c8. JobsKnown'
  BY <1>0, <1>1, <1>4, <1>5, <1>6 DEF JobsKnown
<1>c9. Workers'
  BY <1>0, <1>1, <1>3, <1>4, <1>2, <1>5, <1>6 DEF Workers, Waiting, Busy, Moves
<1>c10. Alone'
  BY <1>0, <1>1, <1>3, <1>4, <1>2, <1>5, <1>6 DEF Alone, Moves
<1>c11. Hanging'
  BY <1>0, <1>1 DEF Hanging, Pending
<1>c12. Closing'
  BY <1>0, <1>1, <1>3, <1>4, <1>2, <1>5, <1>6, <1>s DEF Closing, Attempting, WithJob, Moves
<1>c13. Owned'
  <2>1. \A i \in Jobs : iface = i \/ Held(i) => Disposing(i)'
    BY <1>3, <1>4, <1>5, <1>6, Numbers DEF Disposing, Held, Busy
  <2>2. \A i \in Jobs : Disposing(i) => Disposing(i)'
    BY <1>4, <1>5 DEF Disposing, Busy
  <2> QED BY <1>0, <1>1, <1>s, <2>1, <2>2 DEF Owned
<1> QED BY <1>c1, <1>c3, <1>c4, <1>c5, <1>c6, <1>c7, <1>c8,
       <1>c9, <1>c10, <1>c11, <1>c12, <1>c13 DEF BleInv

\* A job that has ended meanwhile and made an interface is disposed of in this thread.
LEMMA LeavesDone ==
    ASSUME BleInv, main # "done", AbandonJob, Done(at.job), job[at.job].st # "cancelled",
           job[at.job].kind = "connect" \/ job[at.job].res \in {"ok", "wrong"}
    PROVE  BleInv'
<1>0. /\ Types /\ Counted /\ Shapes /\ Watched /\ Attempting /\ Clients
      /\ JobsKnown /\ Workers /\ Alone /\ Hanging /\ Closing /\ Owned
  BY DEF BleInv
<1>1. UNCHANGED <<shuttingDown, lib, client, meshLock, ifaceLock, job, ble, gen, registered,
                  unresolved, teardown, call, link, main, drops>>
  BY DEF AbandonJob, locks, lifecycle, Done
<1>3. at.pc = "abandon"
  BY DEF AbandonJob, At
<1>4. at.job \in Jobs /\ job[at.job].st # "none"
  BY <1>0, <1>3, Domains DEF Attempting, WithJob
<1>2. \E why \in Reasons : Moves("disposing", at.job, at.client, at.assigned, why)
  <2>0. at \in AttemptRecord /\ at.client \in Interfaces
    BY <1>0 DEF Types, AttemptRecord
  <2>1. PICK why \in {at.why, "shutdown"} : at' = [at EXCEPT !.pc = "disposing", !.why = why, !.client = at.client]
    BY <2>0 DEF AbandonJob, AttemptRecord, Done
  <2>2. why \in Reasons
    BY <2>0 DEF AttemptRecord, Reasons
  <2> QED BY <1>0, <2>0, <2>1, <2>2, LeavesJob
<1>6. iface' = None /\ (iface # None => job[at.job].iface = iface)
  BY <1>0, <1>3 DEF AbandonJob, Attempting, Done
<1>s. Settled' = Settled
  BY <1>1 DEF Settled
<1>c1. Types'
  BY <1>0, <1>1, <1>3, <1>4, <1>2, <1>6 DEF Types, Interfaces, Moves, Done
<1>c3. Counted'
  BY <1>0, <1>1 DEF Counted, Owing
<1>c4. Shapes'
  BY <1>0, <1>1 DEF Shapes, Shape
<1>c5. Watched'
  BY <1>0, <1>1, <1>3, <1>4, <1>2, <1>6 DEF Watched, Waiting, Moves, Done
<1>c6. Attempting'
  BY <1>0, <1>1, <1>3, <1>4, <1>2, <1>6 DEF Attempting, WithJob, Moves, Done
<1>c7. Clients'
  BY <1>0, <1>1, <1>3, <1>4, <1>2, <1>6 DEF Clients, Unpublished, Moves, Done
<1>c8. JobsKnown'
  BY <1>0, <1>1, <1>4, <1>6 DEF JobsKnown, Done
<1>c9. Workers'
  BY <1>0, <1>1, <1>3, <1>4, <1>2, <1>6 DEF Workers, Waiting, Busy, Moves, Done
<1>c10. Alone'
  BY <1>0, <1>1, <1>3, <1>4, <1>2, <1>6 DEF Alone, Moves, Done
<1>c11. Hanging'
  BY <1>0, <1>1 DEF Hanging, Pending
<1>c12. Closing'
  BY <1>0, <1>1, <1>3, <1>4, <1>2, <1>6, <1>s DEF Closing, Attempting, WithJob, Moves, Done
<1>c13. Owned'
  BY <1>0, <1>1, <1>3, <1>4, <1>2, <1>6, <1>s DEF Owned, Held, Disposing, Busy, Attempting, WithJob, Moves, Done
<1> QED BY <1>c1, <1>c3, <1>c4, <1>c5, <1>c6, <1>c7, <1>c8,
       <1>c9, <1>c10, <1>c11, <1>c12, <1>c13 DEF BleInv

\* A job that has ended without an interface leaves nothing.
LEMMA LeavesEmpty ==
    ASSUME BleInv, main # "done", AbandonJob, Done(at.job), job[at.job].st # "cancelled",
           job[at.job].kind = "create", job[at.job].res \notin {"ok", "wrong"}
    PROVE  BleInv'
<1>0. /\ Types /\ Counted /\ Shapes /\ Watched /\ Attempting /\ Clients
      /\ JobsKnown /\ Workers /\ Alone /\ Hanging /\ Closing /\ Owned
  BY DEF BleInv
<1>1. UNCHANGED <<shuttingDown, lib, client, meshLock, ifaceLock, job, ble, gen, registered,
                  unresolved, teardown, call, link, main, drops>>
  BY DEF AbandonJob, locks, lifecycle, Done
<1>3. at.pc = "abandon"
  BY DEF AbandonJob, At
<1>4. at.job \in Jobs /\ job[at.job].st # "none"
  BY <1>0, <1>3, Domains DEF Attempting, WithJob
<1>2. Moves("count", at.job, at.client, at.assigned, at.why)
  <2>0. at \in AttemptRecord /\ at.client \in Interfaces
    BY <1>0 DEF Types, AttemptRecord
  <2>1. at' = [at EXCEPT !.pc = "count", !.why = at.why, !.client = at.client]
    BY <2>0 DEF AbandonJob, AttemptRecord
  <2> QED BY <1>0, <2>0, <2>1, LeavesJob
<1>7. iface = None /\ iface' = None
  BY <1>0, <1>3 DEF AbandonJob, Attempting, WithJob
<1>s. Settled' = Settled
  BY <1>1 DEF Settled
<1>c1. Types'
  BY <1>0, <1>1, <1>3, <1>4, <1>2, <1>7 DEF Types, Interfaces, Moves, Done
<1>c3. Counted'
  BY <1>0, <1>1 DEF Counted, Owing
<1>c4. Shapes'
  BY <1>0, <1>1 DEF Shapes, Shape
<1>c5. Watched'
  BY <1>0, <1>1, <1>3, <1>4, <1>2 DEF Watched, Waiting, Moves, Done
<1>c6. Attempting'
  BY <1>0, <1>1, <1>3, <1>4, <1>2, <1>7 DEF Attempting, WithJob, Moves, Done
<1>c7. Clients'
  BY <1>0, <1>1, <1>3, <1>4, <1>2, <1>7 DEF Clients, Unpublished, Moves, Done
<1>c8. JobsKnown'
  BY <1>0, <1>1, <1>4, <1>7 DEF JobsKnown, Done
<1>c9. Workers'
  BY <1>0, <1>1, <1>3, <1>4, <1>2, <1>7 DEF Workers, Waiting, Busy, Moves, Done
<1>c10. Alone'
  BY <1>0, <1>1, <1>3, <1>4, <1>2 DEF Alone, Moves, Done
<1>c11. Hanging'
  BY <1>0, <1>1 DEF Hanging, Pending
<1>c12. Closing'
  BY <1>0, <1>1, <1>3, <1>4, <1>2, <1>7, <1>s DEF Closing, Moves, Done
<1>c13. Owned'
  <2>1. \A i \in Jobs : Held(i) => link[i] # "open"
    BY <1>0, <1>3, <1>4 DEF Held, JobsKnown, Done
  <2>2. \A i \in Jobs : Disposing(i) => Disposing(i)'
    BY <1>1 DEF Disposing
  <2> QED BY <1>0, <1>1, <1>7, <1>s, <2>1, <2>2, Numbers DEF Owned
<1> QED BY <1>c1, <1>c3, <1>c4, <1>c5, <1>c6, <1>c7, <1>c8,
       <1>c9, <1>c10, <1>c11, <1>c12, <1>c13 DEF BleInv

\* _dispose() in the thread of the attempt begins to close the interface.
LEMMA KeepsDisposeInline ==
    ASSUME BleInv, main # "done", DisposeInline
    PROVE  BleInv'
<1>0. /\ Types /\ Counted /\ Shapes /\ Watched /\ Attempting /\ Clients
      /\ JobsKnown /\ Workers /\ Alone /\ Hanging /\ Closing /\ Owned
  BY DEF BleInv
<1>1. UNCHANGED <<shuttingDown, lib, iface, client, meshLock, ifaceLock, job, ble, gen, registered,
                  unresolved, call, link, main, drops>>
  BY DEF DisposeInline, locks, lifecycle
<1>2. Moves("disposed", at.job, at.client, at.assigned, at.why)
  <2>1. Goto("disposed") /\ "disposed" \in Places
    BY DEF DisposeInline, Places
  <2> QED BY <1>0, <2>1, GotoMoves
<1>3. at.pc = "disposing" /\ ifaceLock = "free"
  BY DEF DisposeInline, At
<1>4. at.job \in Jobs /\ job[at.job].iface \in Jobs
  BY <1>0, <1>3, Domains DEF Attempting, WithJob, JobsKnown
<1>5. Starts(ConnectThread, job[at.job].iface)
  <2>1. TearDown(ConnectThread, job[at.job].iface, IfaceGeneration(job[at.job].iface))
    BY <1>4 DEF DisposeInline
  <2>2. IfaceGeneration(job[at.job].iface) \in Generations
    BY <1>0, <1>4, GenerationKnown
  <2> QED BY <1>0, <1>4, <2>1, <2>2, Numbers, TearDownStarts
<1>s. Settled \subseteq Settled'
  BY <1>0, <1>1, <1>3, <1>4, <1>5, StartsSettles, Numbers DEF Alone
<1>c1. Types'
  BY <1>0, <1>1, <1>2, <1>3, <1>4, <1>5 DEF Types, Interfaces, Moves, Starts
<1>c3. Counted'
  BY <1>0, <1>1 DEF Counted, Owing
<1>c4. Shapes'
  BY <1>0, <1>1 DEF Shapes, Shape
<1>c5. Watched'
  BY <1>0, <1>1, <1>2, <1>3, <1>4, <1>5 DEF Watched, Waiting, Moves, Starts
<1>c6. Attempting'
  BY <1>0, <1>1, <1>2, <1>3, <1>4, <1>5 DEF Attempting, WithJob, Moves, Starts
<1>c7. Clients'
  BY <1>0, <1>1, <1>2, <1>3, <1>4, <1>5 DEF Clients, Unpublished, Moves, Starts
<1>c8. JobsKnown'
  <2>0. job[at.job].kind \in {"create", "connect"}
    BY <1>0, <1>4 DEF Types, JobRecord
  <2>1. link[job[at.job].iface] # "none"
    BY <1>0, <1>3, <1>4, <2>0 DEF JobsKnown, Attempting, WithJob
  <2> QED BY <1>0, <1>1, <1>5, <2>1 DEF JobsKnown, Starts
<1>c9. Workers'
  BY <1>0, <1>1, <1>2, <1>3, <1>4, <1>5 DEF Workers, Waiting, Busy, Moves, Starts
<1>c10. Alone'
  BY <1>0, <1>1, <1>2, <1>3, <1>4, <1>5, Numbers DEF Alone, Moves, Starts
<1>c11. Hanging'
  BY <1>0, <1>1, <1>3, <1>4, <1>5, StartsHanging, Numbers DEF Alone
<1>c12. Closing'
  <2>1. job[at.job].iface \in Settled'
    BY <1>0, <1>1, <1>3, <1>4, <1>5, StartsSettles, Numbers DEF Alone
  <2> QED BY <1>0, <1>1, <1>2, <1>3, <1>4, <1>s, <2>1 DEF Closing, Moves
<1>c13. Owned'
  <2>1. job[at.job].iface \in Settled'
    BY <1>0, <1>1, <1>3, <1>4, <1>5, StartsSettles, Numbers DEF Alone
  <2>2. \A i \in Jobs : Held(i) => i \in Settled'
    BY <2>1 DEF Held
  <2>3. \A i \in Jobs : Disposing(i) <=> Disposing(i)'
    BY <1>1 DEF Disposing
  <2> QED BY <1>0, <1>1, <1>s, <2>2, <2>3 DEF Owned
<1> QED BY <1>c1, <1>c3, <1>c4, <1>c5, <1>c6, <1>c7, <1>c8,
       <1>c9, <1>c10, <1>c11, <1>c12, <1>c13 DEF BleInv

\* A creation that timed out goes through the abandoning once more while the relay stops.
LEMMA CountsAgain ==
    ASSUME BleInv, main # "done", CountTimeout, at.why = "timeout", job[at.job].kind = "create", shuttingDown
    PROVE  BleInv'
<1>0. /\ Types /\ Counted /\ Shapes /\ Watched /\ Attempting /\ Clients
      /\ JobsKnown /\ Workers /\ Alone /\ Hanging /\ Closing /\ Owned
  BY DEF BleInv
<1>1. UNCHANGED <<shuttingDown, lib, iface, client, meshLock, ifaceLock, gen, registered, unresolved,
                  teardown, call, link, main, drops>>
  BY DEF CountTimeout, locks, lifecycle
<1>3. /\ at.pc \in {"count", "disposed"}
      /\ at.pc = "disposed" => teardown[ConnectThread].iface = None
  BY DEF CountTimeout, At, Tearing
<1>5. Replaced /\ SameJobs
  <2>1. CASE at.why = "timeout" /\ job[at.job].st # "cancelled"
    BY <1>0, <1>3, <2>1, CountReplaces DEF CountTimeout
  <2>2. CASE ~(at.why = "timeout" /\ job[at.job].st # "cancelled")
    <3>1. ble' = ble /\ job' = job
      BY <2>2 DEF CountTimeout
    <3>2. ble \in ExecutorRecord /\ job \in [Jobs -> JobRecord]
      BY <1>0 DEF Types
    <3>3. (ble.degraded => ble.slot = None) /\ (ble.shut => ble.degraded)
      BY <1>0 DEF Watched, Workers
    <3> QED BY <3>1, <3>2, <3>3 DEF Replaced, SameJobs, Alike
  <2> QED BY <2>1, <2>2
<1>4. at.job \in Jobs
  BY <1>0, <1>3, Domains DEF Attempting, WithJob
<1>2. Moves("abandon", at.job, at.client, at.assigned, "shutdown")
  <2>1. at' = [at EXCEPT !.pc = "abandon", !.why = "shutdown"]
    BY DEF CountTimeout
  <2> QED BY <1>0, <2>1 DEF Moves, Types, AttemptRecord, Places, Reasons
<1>6. at.pc = "count" /\ ifaceLock = "connector"
  BY <1>0, <1>3 DEF Attempting, WithJob
<1>s. Settled' = Settled
  BY <1>1 DEF Settled
<1>c1. Types'
  BY <1>0, <1>1, <1>3, <1>5, <1>4, <1>2, <1>6 DEF Types, Interfaces, Moves, SameJobs, Alike, Replaced
<1>c3. Counted'
  BY <1>0, <1>1 DEF Counted, Owing
<1>c4. Shapes'
  BY <1>0, <1>1 DEF Shapes, Shape
<1>c5. Watched'
  BY <1>0, <1>3, <1>5, ReplacedWatches
<1>c6. Attempting'
  <2>1. at'.pc = "abandon" /\ at'.job = at.job /\ at'.client = at.client
    BY <1>2 DEF Moves
  <2>2. job'[at.job].st = job[at.job].st /\ job'[at.job].kind = job[at.job].kind
    BY <1>4, <1>5 DEF SameJobs, Alike
  <2> QED BY <1>0, <1>1, <1>6, <2>1, <2>2 DEF Attempting, WithJob
<1>c7. Clients'
  BY <1>0, <1>1, <1>3, <1>4, <1>2, <1>6 DEF Clients, Unpublished, Moves
<1>c8. JobsKnown'
  BY <1>0, <1>1, <1>3, <1>5 DEF JobsKnown, SameJobs, Alike, Replaced
<1>c9. Workers'
  <2>1. at'.pc # "wait" /\ (at'.pc = "abandon" => at'.why = "shutdown")
    BY <1>2 DEF Moves
  <2> QED BY <1>0, <1>1, <1>3, <1>5, <2>1, ReplacedWorks
<1>c10. Alone'
  BY <1>0, <1>1, <1>3, <1>5, <1>4, <1>2, <1>6 DEF Alone, Moves, SameJobs, Alike, Replaced
<1>c11. Hanging'
  BY <1>0, <1>1 DEF Hanging, Pending
<1>c12. Closing'
  BY <1>0, <1>1, <1>3, <1>5, <1>4, <1>2, <1>6, <1>s DEF Closing, Moves, SameJobs, Alike, Replaced
<1>c13. Owned'
  BY <1>0, <1>1, <1>3, <1>5, <1>4, <1>2, <1>6, <1>s
    DEF Owned, Held, Disposing, Busy, Moves, SameJobs, Alike, Replaced
<1> QED BY <1>c1, <1>c3, <1>c4, <1>c5, <1>c6, <1>c7, <1>c8,
       <1>c9, <1>c10, <1>c11, <1>c12, <1>c13 DEF BleInv

\* The timeout is counted, the executor may be replaced, and the attempt fails.
LEMMA CountsOnce ==
    ASSUME BleInv, main # "done", CountTimeout,
           ~(at.why = "timeout" /\ job[at.job].kind = "create" /\ shuttingDown)
    PROVE  BleInv'
<1>0. /\ Types /\ Counted /\ Shapes /\ Watched /\ Attempting /\ Clients
      /\ JobsKnown /\ Workers /\ Alone /\ Hanging /\ Closing /\ Owned
  BY DEF BleInv
<1>1. UNCHANGED <<shuttingDown, lib, iface, client, meshLock, gen, registered, unresolved, teardown,
                  call, link, main, drops>>
  BY DEF CountTimeout, locks, lifecycle
<1>3. /\ at.pc \in {"count", "disposed"}
      /\ at.pc = "disposed" => teardown[ConnectThread].iface = None
  BY DEF CountTimeout, At, Tearing
<1>5. Replaced /\ SameJobs
  <2>1. CASE at.why = "timeout" /\ job[at.job].st # "cancelled"
    BY <1>0, <1>3, <2>1, CountReplaces DEF CountTimeout
  <2>2. CASE ~(at.why = "timeout" /\ job[at.job].st # "cancelled")
    <3>1. ble' = ble /\ job' = job
      BY <2>2 DEF CountTimeout
    <3>2. ble \in ExecutorRecord /\ job \in [Jobs -> JobRecord]
      BY <1>0 DEF Types
    <3>3. (ble.degraded => ble.slot = None) /\ (ble.shut => ble.degraded)
      BY <1>0 DEF Watched, Workers
    <3> QED BY <3>1, <3>2, <3>3 DEF Replaced, SameJobs, Alike
  <2> QED BY <2>1, <2>2
<1>4. at.job \in Jobs
  BY <1>0, <1>3, Domains DEF Attempting, WithJob
<1>2. Moves("rollback", at.job, at.client, at.assigned, at.why)
  <2>0. at \in AttemptRecord /\ at.why \in Reasons
    BY <1>0 DEF Types, AttemptRecord
  <2>1. Fail(at, at.why)
    BY DEF CountTimeout
  <2> QED BY <2>0, <2>1, FailMoves
<1>6. ifaceLock' \in {ifaceLock, "free"}
  BY DEF CountTimeout, Leave
<1>s. Settled' = Settled
  BY <1>1 DEF Settled
<1>c1. Types'
  BY <1>0, <1>1, <1>3, <1>5, <1>4, <1>2, <1>6 DEF Types, Interfaces, Moves, SameJobs, Alike, Replaced
<1>c3. Counted'
  BY <1>0, <1>1 DEF Counted, Owing
<1>c4. Shapes'
  BY <1>0, <1>1 DEF Shapes, Shape
<1>c5. Watched'
  BY <1>0, <1>3, <1>5, ReplacedWatches
<1>c6. Attempting'
  BY <1>0, <1>1, <1>3, <1>5, <1>4, <1>2, <1>6 DEF Attempting, WithJob, Moves, SameJobs, Alike, Replaced
<1>c7. Clients'
  BY <1>0, <1>1, <1>3, <1>4, <1>2 DEF Clients, Unpublished, Moves
<1>c8. JobsKnown'
  BY <1>0, <1>1, <1>3, <1>5 DEF JobsKnown, SameJobs, Alike, Replaced
<1>c9. Workers'
  <2>1. at'.pc # "wait" /\ (at'.pc = "abandon" => at'.why = "shutdown")
    BY <1>2 DEF Moves
  <2> QED BY <1>0, <1>1, <1>3, <1>5, <2>1, ReplacedWorks
<1>c10. Alone'
  BY <1>0, <1>1, <1>3, <1>5, <1>4, <1>2 DEF Alone, Moves, SameJobs, Alike, Replaced
<1>c11. Hanging'
  BY <1>0, <1>1 DEF Hanging, Pending
<1>c12. Closing'
  BY <1>0, <1>1, <1>3, <1>5, <1>4, <1>2, <1>s DEF Closing, Moves, SameJobs, Alike, Replaced
<1>c13. Owned'
  BY <1>0, <1>1, <1>3, <1>5, <1>4, <1>2, <1>s DEF Owned, Held, Disposing, Busy, Moves, SameJobs, Alike, Replaced
<1> QED BY <1>c1, <1>c3, <1>c4, <1>c5, <1>c6, <1>c7, <1>c8,
       <1>c9, <1>c10, <1>c11, <1>c12, <1>c13 DEF BleInv

\* A wrong device or a shutdown: the client is closed instead of published.
LEMMA PublishCloses ==
    ASSUME BleInv, main # "done", Publish, Wrong(at.client) \/ shuttingDown
    PROVE  BleInv'
<1>0. /\ Types /\ Counted /\ Shapes /\ Watched /\ Attempting /\ Clients
      /\ JobsKnown /\ Workers /\ Alone /\ Hanging /\ Closing /\ Owned
  BY DEF BleInv
<1>1. UNCHANGED <<shuttingDown, lib, iface, client, ifaceLock, job, ble, gen, registered, unresolved,
                  call, link, main, drops>>
  BY <1>0 DEF Publish, locks, lifecycle, Attempting, At
<1>2. \E pc \in {"refusing", "cancelling"} : Moves(pc, at.job, at.client, at.assigned, at.why)
  <2>1. \E pc \in {"refusing", "cancelling"} : Goto(pc)
    BY DEF Publish
  <2>2. {"refusing", "cancelling"} \subseteq Places
    BY DEF Places
  <2> QED BY <1>0, <2>1, <2>2, GotoMoves
<1>3. at.pc = "publish" /\ meshLock = "free" /\ meshLock' = "connector"
  BY DEF Publish, At
<1>4. iface \in Jobs /\ at.client = iface
  BY <1>0, <1>3, Domains DEF Attempting
<1>5. Starts(ConnectThread, iface)
  <2>1. TearDown(ConnectThread, iface, IfaceGeneration(iface))
    BY <1>4 DEF Publish
  <2>2. IfaceGeneration(iface) \in Generations
    BY <1>0, <1>4, GenerationKnown
  <2> QED BY <1>0, <1>4, <2>1, <2>2, Numbers, TearDownStarts
<1>s. Settled \subseteq Settled'
  BY <1>0, <1>1, <1>3, <1>4, <1>5, StartsSettles, Numbers DEF Alone
<1>c1. Types'
  BY <1>0, <1>1, <1>2, <1>3, <1>4, <1>5 DEF Types, Interfaces, Moves, Starts
<1>c3. Counted'
  BY <1>0, <1>1 DEF Counted, Owing
<1>c4. Shapes'
  BY <1>0, <1>1 DEF Shapes, Shape
<1>c5. Watched'
  BY <1>0, <1>1, <1>2, <1>3, <1>4 DEF Watched, Waiting, Moves
<1>c6. Attempting'
  BY <1>0, <1>1, <1>2, <1>3, <1>4, <1>5 DEF Attempting, WithJob, Moves, Starts
<1>c7. Clients'
  BY <1>0, <1>1, <1>2, <1>3, <1>4, <1>5 DEF Clients, Unpublished, Moves, Starts
<1>c8. JobsKnown'
  BY <1>0, <1>1, <1>4, <1>5 DEF JobsKnown, Starts
<1>c9. Workers'
  BY <1>0, <1>1, <1>2, <1>3, <1>4, <1>5 DEF Workers, Waiting, Busy, Moves, Starts
<1>c10. Alone'
  BY <1>0, <1>1, <1>2, <1>3, <1>4, <1>5, Numbers DEF Alone, Moves, Starts
<1>c11. Hanging'
  BY <1>0, <1>1, <1>3, <1>4, <1>5, StartsHanging, Numbers DEF Alone
<1>c12. Closing'
  <2>1. iface \in Settled'
    BY <1>0, <1>1, <1>3, <1>4, <1>5, StartsSettles, Numbers DEF Alone
  <2> QED BY <1>0, <1>1, <1>2, <1>3, <1>4, <1>s, <2>1 DEF Closing, Moves
<1>c13. Owned'
  BY <1>0, <1>1, <1>2, <1>3, <1>4, <1>5, <1>s DEF Owned, Held, Disposing, Busy, Moves, Starts
<1> QED BY <1>c1, <1>c3, <1>c4, <1>c5, <1>c6, <1>c7, <1>c8,
       <1>c9, <1>c10, <1>c11, <1>c12, <1>c13 DEF BleInv

\* The client is published.
LEMMA PublishAssigns ==
    ASSUME BleInv, main # "done", Publish, ~Wrong(at.client), ~shuttingDown
    PROVE  BleInv'
<1>0. /\ Types /\ Counted /\ Shapes /\ Watched /\ Attempting /\ Clients
      /\ JobsKnown /\ Workers /\ Alone /\ Hanging /\ Closing /\ Owned
  BY DEF BleInv
<1>1. UNCHANGED <<shuttingDown, lib, iface, ifaceLock, job, ble, gen, registered, unresolved, teardown,
                  call, link, main, drops>>
  BY DEF Publish, locks, lifecycle
<1>2. Moves("setup", at.job, at.client, TRUE, at.why)
  <2>1. at' = [at EXCEPT !.pc = "setup", !.assigned = TRUE]
    BY DEF Publish
  <2> QED BY <1>0, <2>1 DEF Moves, Types, AttemptRecord, Places
<1>3. at.pc = "publish" /\ meshLock = "free" /\ meshLock' = "connector" /\ client' = at.client
  BY DEF Publish, At
<1>4. iface \in Jobs /\ at.client = iface
  BY <1>0, <1>3, Domains DEF Attempting
<1>s. Settled' = Settled
  BY <1>1 DEF Settled
<1>c1. Types'
  BY <1>0, <1>1, <1>2, <1>3, <1>4 DEF Types, Interfaces, Moves
<1>c3. Counted'
  BY <1>0, <1>1 DEF Counted, Owing
<1>c4. Shapes'
  BY <1>0, <1>1 DEF Shapes, Shape
<1>c5. Watched'
  BY <1>0, <1>1, <1>2, <1>3, <1>4 DEF Watched, Waiting, Moves
<1>c6. Attempting'
  BY <1>0, <1>1, <1>2, <1>3, <1>4 DEF Attempting, WithJob, Moves
<1>c7. Clients'
  BY <1>0, <1>1, <1>2, <1>3, <1>4, Numbers DEF Clients, Unpublished, Moves
<1>c8. JobsKnown'
  BY <1>0, <1>1 DEF JobsKnown
<1>c9. Workers'
  BY <1>0, <1>1, <1>2, <1>3, <1>4 DEF Workers, Waiting, Busy, Moves
<1>c10. Alone'
  BY <1>0, <1>1, <1>2, <1>3, <1>4 DEF Alone, Moves
<1>c11. Hanging'
  BY <1>0, <1>1 DEF Hanging, Pending
<1>c12. Closing'
  BY <1>0, <1>1, <1>2, <1>3, <1>4, <1>s DEF Closing, Moves
<1>c13. Owned'
  BY <1>0, <1>1, <1>2, <1>3, <1>4, <1>s DEF Owned, Held, Disposing, Busy, Moves
<1> QED BY <1>c1, <1>c3, <1>c4, <1>c5, <1>c6, <1>c7, <1>c8,
       <1>c9, <1>c10, <1>c11, <1>c12, <1>c13 DEF BleInv

\* The refused client is forgotten after it was closed,
LEMMA KeepsRefused ==
    ASSUME BleInv, main # "done", Refused
    PROVE  BleInv'
<1>0. /\ Types /\ Counted /\ Shapes /\ Watched /\ Attempting /\ Clients
      /\ JobsKnown /\ Workers /\ Alone /\ Hanging /\ Closing /\ Owned
  BY DEF BleInv
<1>1. UNCHANGED <<shuttingDown, lib, client, ifaceLock, job, ble, gen, registered, unresolved,
                  teardown, call, link, main, drops>>
  BY DEF Refused, locks, lifecycle
<1>2. \E why \in Reasons : Moves("rollback", at.job, at.client, at.assigned, why)
  <2>0. at \in AttemptRecord /\ at \in AttemptRecord
    BY <1>0 DEF Types, AttemptRecord
  <2>1. \E why \in Reasons : Fail(at, why)
    BY <2>0 DEF Refused, Reasons
  <2>2. at.job = at.job /\ at.client = at.client /\ at.assigned = at.assigned
    BY <2>0 DEF AttemptRecord
  <2> QED BY <2>0, <2>1, <2>2, FailMoves
<1>3. at.pc = "refusing" /\ teardown[ConnectThread].iface = None /\ iface' = None /\ meshLock' = "free"
  BY DEF Refused, At, Tearing
<1>s. Settled' = Settled
  BY <1>1 DEF Settled
<1>c1. Types'
  BY <1>0, <1>1, <1>2, <1>3 DEF Types, Interfaces, Moves
<1>c3. Counted'
  BY <1>0, <1>1 DEF Counted, Owing
<1>c4. Shapes'
  BY <1>0, <1>1 DEF Shapes, Shape
<1>c5. Watched'
  BY <1>0, <1>1, <1>2, <1>3 DEF Watched, Waiting, Moves
<1>c6. Attempting'
  BY <1>0, <1>1, <1>2, <1>3 DEF Attempting, WithJob, Moves
<1>c7. Clients'
  BY <1>0, <1>1, <1>2, <1>3 DEF Clients, Unpublished, Moves
<1>c8. JobsKnown'
  BY <1>0, <1>1, <1>3 DEF JobsKnown
<1>c9. Workers'
  BY <1>0, <1>1, <1>2, <1>3 DEF Workers, Waiting, Busy, Moves
<1>c10. Alone'
  BY <1>0, <1>1, <1>2, <1>3 DEF Alone, Clients, Unpublished, Moves
<1>c11. Hanging'
  BY <1>0, <1>1 DEF Hanging, Pending
<1>c12. Closing'
  BY <1>0, <1>1, <1>2, <1>3, <1>s DEF Closing, Clients, Unpublished, Moves
<1>c13. Owned'
  BY <1>0, <1>1, <1>2, <1>3, <1>s DEF Owned, Held, Disposing, Busy, Closing, Moves
<1> QED BY <1>c1, <1>c3, <1>c4, <1>c5, <1>c6, <1>c7, <1>c8,
       <1>c9, <1>c10, <1>c11, <1>c12, <1>c13 DEF BleInv

\* and so is the one cancelled by the shutdown.
LEMMA KeepsCancelled ==
    ASSUME BleInv, main # "done", CancelledByShutdown
    PROVE  BleInv'
<1>0. /\ Types /\ Counted /\ Shapes /\ Watched /\ Attempting /\ Clients
      /\ JobsKnown /\ Workers /\ Alone /\ Hanging /\ Closing /\ Owned
  BY DEF BleInv
<1>1. UNCHANGED <<shuttingDown, lib, client, ifaceLock, job, ble, gen, registered, unresolved,
                  teardown, call, link, main, drops>>
  BY DEF CancelledByShutdown, locks, lifecycle
<1>2. Moves("idle", None, None, FALSE, "none")
  BY IdleMoves DEF CancelledByShutdown
<1>3. at.pc = "cancelling" /\ teardown[ConnectThread].iface = None /\ iface' = None /\ meshLock' = "free"
  BY DEF CancelledByShutdown, At, Tearing
<1>s. Settled' = Settled
  BY <1>1 DEF Settled
<1>c1. Types'
  BY <1>0, <1>1, <1>2, <1>3 DEF Types, Interfaces, Moves
<1>c3. Counted'
  BY <1>0, <1>1 DEF Counted, Owing
<1>c4. Shapes'
  BY <1>0, <1>1 DEF Shapes, Shape
<1>c5. Watched'
  BY <1>0, <1>1, <1>2, <1>3 DEF Watched, Waiting, Moves
<1>c6. Attempting'
  BY <1>0, <1>1, <1>2, <1>3 DEF Attempting, WithJob, Moves
<1>c7. Clients'
  BY <1>0, <1>1, <1>2, <1>3 DEF Clients, Unpublished, Moves
<1>c8. JobsKnown'
  BY <1>0, <1>1, <1>3 DEF JobsKnown
<1>c9. Workers'
  BY <1>0, <1>1, <1>2, <1>3 DEF Workers, Waiting, Busy, Moves
<1>c10. Alone'
  BY <1>0, <1>1, <1>2, <1>3 DEF Alone, Clients, Unpublished, Moves
<1>c11. Hanging'
  BY <1>0, <1>1 DEF Hanging, Pending
<1>c12. Closing'
  BY <1>0, <1>1, <1>2, <1>3, <1>s DEF Closing, Clients, Unpublished, Moves
<1>c13. Owned'
  BY <1>0, <1>1, <1>2, <1>3, <1>s DEF Owned, Held, Disposing, Busy, Closing, Moves
<1> QED BY <1>c1, <1>c3, <1>c4, <1>c5, <1>c6, <1>c7, <1>c8,
       <1>c9, <1>c10, <1>c11, <1>c12, <1>c13 DEF BleInv

\* The attempt succeeds.
LEMMA SetupEnds ==
    ASSUME BleInv, main # "done", Setup, at' = Idle, meshLock' = "free"
    PROVE  BleInv'
<1>0. /\ Types /\ Counted /\ Shapes /\ Watched /\ Attempting /\ Clients
      /\ JobsKnown /\ Workers /\ Alone /\ Hanging /\ Closing /\ Owned
  BY DEF BleInv
<1>1. UNCHANGED <<shuttingDown, lib, iface, client, ifaceLock, job, ble, gen, registered, unresolved,
                  teardown, call, link, main, drops>>
  BY DEF Setup, locks, lifecycle
<1>2. Moves("idle", None, None, FALSE, "none")
  BY IdleMoves
<1>3. at.pc = "setup" /\ meshLock' = "free"
  BY <1>2 DEF Setup, At, Fail, Moves
<1>s. Settled' = Settled
  BY <1>1 DEF Settled
<1>c1. Types'
  BY <1>0, <1>1, <1>2, <1>3 DEF Types, Interfaces, Moves
<1>c3. Counted'
  BY <1>0, <1>1 DEF Counted, Owing
<1>c4. Shapes'
  BY <1>0, <1>1 DEF Shapes, Shape
<1>c5. Watched'
  BY <1>0, <1>1, <1>2, <1>3 DEF Watched, Waiting, Moves
<1>c6. Attempting'
  BY <1>0, <1>1, <1>2, <1>3 DEF Attempting, WithJob, Moves
<1>c7. Clients'
  BY <1>0, <1>1, <1>2, <1>3 DEF Clients, Unpublished, Moves
<1>c8. JobsKnown'
  BY <1>0, <1>1 DEF JobsKnown
<1>c9. Workers'
  BY <1>0, <1>1, <1>2, <1>3 DEF Workers, Waiting, Busy, Moves
<1>c10. Alone'
  BY <1>0, <1>1, <1>2, <1>3 DEF Alone, Clients, Unpublished, Moves
<1>c11. Hanging'
  BY <1>0, <1>1 DEF Hanging, Pending
<1>c12. Closing'
  BY <1>0, <1>1, <1>2, <1>3, <1>s DEF Closing, Moves
<1>c13. Owned'
  BY <1>0, <1>1, <1>2, <1>3, <1>s DEF Owned, Held, Disposing, Busy, Moves
<1> QED BY <1>c1, <1>c3, <1>c4, <1>c5, <1>c6, <1>c7, <1>c8,
       <1>c9, <1>c10, <1>c11, <1>c12, <1>c13 DEF BleInv

\* The setup fails: the client is rolled back.
LEMMA SetupFails ==
    ASSUME BleInv, main # "done", Setup, \E why \in Reasons : Fail(at, why)
    PROVE  BleInv'
<1>0. /\ Types /\ Counted /\ Shapes /\ Watched /\ Attempting /\ Clients
      /\ JobsKnown /\ Workers /\ Alone /\ Hanging /\ Closing /\ Owned
  BY DEF BleInv
<1>1. UNCHANGED <<shuttingDown, lib, iface, client, ifaceLock, job, ble, gen, registered, unresolved,
                  teardown, call, link, main, drops>>
  BY DEF Setup, locks, lifecycle
<1>2. \E why \in Reasons : Moves("rollback", at.job, at.client, at.assigned, why)
  <2>1. at \in AttemptRecord
    BY <1>0 DEF Types
  <2> QED BY <2>1, FailMoves
<1>3. at.pc = "setup" /\ meshLock' \in {"free", meshLock}
  BY DEF Setup, At
<1>s. Settled' = Settled
  BY <1>1 DEF Settled
<1>c1. Types'
  BY <1>0, <1>1, <1>2, <1>3 DEF Types, Interfaces, Moves
<1>c3. Counted'
  BY <1>0, <1>1 DEF Counted, Owing
<1>c4. Shapes'
  BY <1>0, <1>1 DEF Shapes, Shape
<1>c5. Watched'
  BY <1>0, <1>1, <1>2, <1>3 DEF Watched, Waiting, Moves
<1>c6. Attempting'
  BY <1>0, <1>1, <1>2, <1>3 DEF Attempting, WithJob, Moves
<1>c7. Clients'
  BY <1>0, <1>1, <1>2, <1>3 DEF Clients, Unpublished, Moves
<1>c8. JobsKnown'
  BY <1>0, <1>1 DEF JobsKnown
<1>c9. Workers'
  BY <1>0, <1>1, <1>2, <1>3 DEF Workers, Waiting, Busy, Moves
<1>c10. Alone'
  BY <1>0, <1>1, <1>2, <1>3 DEF Alone, Clients, Unpublished, Moves
<1>c11. Hanging'
  BY <1>0, <1>1 DEF Hanging, Pending
<1>c12. Closing'
  BY <1>0, <1>1, <1>2, <1>3, <1>s DEF Closing, Moves
<1>c13. Owned'
  BY <1>0, <1>1, <1>2, <1>3, <1>s DEF Owned, Held, Disposing, Busy, Moves
<1> QED BY <1>c1, <1>c3, <1>c4, <1>c5, <1>c6, <1>c7, <1>c8,
       <1>c9, <1>c10, <1>c11, <1>c12, <1>c13 DEF BleInv

\* The rollback closes the interface of the attempt,
LEMMA RollbackCloses ==
    ASSUME BleInv, main # "done", Rollback, at.client # None, at.client = iface
    PROVE  BleInv'
<1>0. /\ Types /\ Counted /\ Shapes /\ Watched /\ Attempting /\ Clients
      /\ JobsKnown /\ Workers /\ Alone /\ Hanging /\ Closing /\ Owned
  BY DEF BleInv
<1>1. UNCHANGED <<shuttingDown, lib, iface, client, ifaceLock, job, ble, gen, registered, unresolved,
                  call, link, main, drops>>
  BY DEF Rollback, locks, lifecycle
<1>2. Moves("closed", at.job, at.client, at.assigned, at.why)
  <2>1. Goto("closed") /\ "closed" \in Places
    BY DEF Rollback, Places
  <2> QED BY <1>0, <2>1, GotoMoves
<1>3. at.pc = "rollback" /\ meshLock \in {"free", "connector"} /\ meshLock' = "connector"
  BY DEF Rollback, At
<1>4. iface \in Jobs
  BY <1>0, Domains
<1>5. Starts(ConnectThread, iface)
  <2>1. TearDown(ConnectThread, iface, IfaceGeneration(iface))
    BY <1>4 DEF Rollback
  <2>2. IfaceGeneration(iface) \in Generations
    BY <1>0, <1>4, GenerationKnown
  <2> QED BY <1>0, <1>4, <2>1, <2>2, Numbers, TearDownStarts
<1>s. Settled \subseteq Settled'
  BY <1>0, <1>1, <1>3, <1>4, <1>5, StartsSettles, Numbers DEF Alone
<1>c1. Types'
  BY <1>0, <1>1, <1>2, <1>3, <1>4, <1>5 DEF Types, Interfaces, Moves, Starts
<1>c3. Counted'
  BY <1>0, <1>1 DEF Counted, Owing
<1>c4. Shapes'
  BY <1>0, <1>1 DEF Shapes, Shape
<1>c5. Watched'
  BY <1>0, <1>1, <1>2, <1>3 DEF Watched, Waiting, Moves
<1>c6. Attempting'
  BY <1>0, <1>1, <1>2, <1>3, <1>4, <1>5 DEF Attempting, WithJob, Moves, Starts
<1>c7. Clients'
  BY <1>0, <1>1, <1>2, <1>3, <1>4, <1>5 DEF Clients, Unpublished, Moves, Starts
<1>c8. JobsKnown'
  BY <1>0, <1>1, <1>4, <1>5 DEF JobsKnown, Starts
<1>c9. Workers'
  BY <1>0, <1>1, <1>2, <1>3, <1>4, <1>5 DEF Workers, Waiting, Busy, Moves, Starts
<1>c10. Alone'
  BY <1>0, <1>1, <1>2, <1>3, <1>5, Numbers DEF Alone, Moves, Starts
<1>c11. Hanging'
  BY <1>0, <1>1, <1>3, <1>4, <1>5, StartsHanging, Numbers DEF Alone
<1>c12. Closing'
  <2>1. iface \in Settled'
    BY <1>0, <1>1, <1>3, <1>4, <1>5, StartsSettles, Numbers DEF Alone
  <2> QED BY <1>0, <1>1, <1>2, <1>3, <1>4, <1>s, <2>1 DEF Closing, Moves
<1>c13. Owned'
  BY <1>0, <1>1, <1>2, <1>3, <1>4, <1>5, <1>s DEF Owned, Held, Disposing, Busy, Moves, Starts
<1> QED BY <1>c1, <1>c3, <1>c4, <1>c5, <1>c6, <1>c7, <1>c8,
       <1>c9, <1>c10, <1>c11, <1>c12, <1>c13 DEF BleInv

\* or finds it replaced,
LEMMA RollbackForgets ==
    ASSUME BleInv, main # "done", Rollback, at.client # None, at.assigned, at.client # iface
    PROVE  BleInv'
<1>0. /\ Types /\ Counted /\ Shapes /\ Watched /\ Attempting /\ Clients
      /\ JobsKnown /\ Workers /\ Alone /\ Hanging /\ Closing /\ Owned
  BY DEF BleInv
<1>1. UNCHANGED <<shuttingDown, lib, iface, client, ifaceLock, job, ble, gen, registered, unresolved,
                  teardown, call, link, main, drops>>
  BY <1>0 DEF Rollback, locks, lifecycle, Clients
<1>2. Moves("closed", at.job, at.client, at.assigned, at.why)
  <2>1. Goto("closed") /\ "closed" \in Places
    BY DEF Rollback, Places
  <2> QED BY <1>0, <2>1, GotoMoves
<1>3. at.pc = "rollback" /\ meshLock \in {"free", "connector"} /\ meshLock' = "connector"
  BY DEF Rollback, At
<1>s. Settled' = Settled
  BY <1>1 DEF Settled
<1>c1. Types'
  BY <1>0, <1>1, <1>2, <1>3 DEF Types, Interfaces, Moves
<1>c3. Counted'
  BY <1>0, <1>1 DEF Counted, Owing
<1>c4. Shapes'
  BY <1>0, <1>1 DEF Shapes, Shape
<1>c5. Watched'
  BY <1>0, <1>1, <1>2, <1>3 DEF Watched, Waiting, Moves
<1>c6. Attempting'
  BY <1>0, <1>1, <1>2, <1>3 DEF Attempting, WithJob, Moves
<1>c7. Clients'
  BY <1>0, <1>1, <1>2, <1>3 DEF Clients, Unpublished, Moves
<1>c8. JobsKnown'
  BY <1>0, <1>1 DEF JobsKnown
<1>c9. Workers'
  BY <1>0, <1>1, <1>2, <1>3 DEF Workers, Waiting, Busy, Moves
<1>c10. Alone'
  BY <1>0, <1>1, <1>2, <1>3 DEF Alone, Moves
<1>c11. Hanging'
  BY <1>0, <1>1 DEF Hanging, Pending
<1>c12. Closing'
  BY <1>0, <1>1, <1>2, <1>3, <1>s DEF Closing, Moves
<1>c13. Owned'
  BY <1>0, <1>1, <1>2, <1>3, <1>s DEF Owned, Held, Disposing, Busy, Moves
<1> QED BY <1>c1, <1>c3, <1>c4, <1>c5, <1>c6, <1>c7, <1>c8,
       <1>c9, <1>c10, <1>c11, <1>c12, <1>c13 DEF BleInv

\* or has nothing to roll back.
LEMMA RollbackSkips ==
    ASSUME BleInv, main # "done", Rollback, ~(at.client # None /\ (at.assigned \/ at.client = iface))
    PROVE  BleInv'
<1>0. /\ Types /\ Counted /\ Shapes /\ Watched /\ Attempting /\ Clients
      /\ JobsKnown /\ Workers /\ Alone /\ Hanging /\ Closing /\ Owned
  BY DEF BleInv
<1>1. UNCHANGED <<shuttingDown, lib, iface, client, meshLock, ifaceLock, job, ble, gen, registered,
                  unresolved, teardown, call, link, main, drops>>
  BY DEF Rollback, locks, lifecycle
<1>2. \E pc \in {"idle", "attempt"} : Moves(pc, None, None, FALSE, "none")
  <2>1. at' = NextTry
    BY DEF Rollback
  <2> QED BY <1>0, <2>1, NextTryMoves
<1>3. at.pc = "rollback"
  BY DEF Rollback, At
<1>4. ~at.assigned /\ client = None
  BY <1>0, <1>3, Domains DEF Clients
<1>s. Settled' = Settled
  BY <1>1 DEF Settled
<1>c1. Types'
  BY <1>0, <1>1, <1>2, <1>3, <1>4 DEF Types, Interfaces, Moves
<1>c3. Counted'
  BY <1>0, <1>1 DEF Counted, Owing
<1>c4. Shapes'
  BY <1>0, <1>1 DEF Shapes, Shape
<1>c5. Watched'
  BY <1>0, <1>1, <1>2, <1>3, <1>4 DEF Watched, Waiting, Moves
<1>c6. Attempting'
  BY <1>0, <1>1, <1>2, <1>3, <1>4 DEF Attempting, WithJob, Moves
<1>c7. Clients'
  BY <1>0, <1>1, <1>2, <1>3, <1>4 DEF Clients, Unpublished, Moves
<1>c8. JobsKnown'
  BY <1>0, <1>1 DEF JobsKnown
<1>c9. Workers'
  BY <1>0, <1>1, <1>2, <1>3, <1>4 DEF Workers, Waiting, Busy, Moves
<1>c10. Alone'
  BY <1>0, <1>1, <1>2, <1>3, <1>4 DEF Alone, Clients, Unpublished, Moves
<1>c11. Hanging'
  BY <1>0, <1>1 DEF Hanging, Pending
<1>c12. Closing'
  BY <1>0, <1>1, <1>2, <1>3, <1>4, <1>s DEF Closing, Moves
<1>c13. Owned'
  BY <1>0, <1>1, <1>2, <1>3, <1>4, <1>s DEF Owned, Held, Disposing, Busy, Moves
<1> QED BY <1>c1, <1>c3, <1>c4, <1>c5, <1>c6, <1>c7, <1>c8,
       <1>c9, <1>c10, <1>c11, <1>c12, <1>c13 DEF BleInv

\* What is rolled back is forgotten after it was closed.
LEMMA KeepsRolledBack ==
    ASSUME BleInv, main # "done", RolledBack
    PROVE  BleInv'
<1>0. /\ Types /\ Counted /\ Shapes /\ Watched /\ Attempting /\ Clients
      /\ JobsKnown /\ Workers /\ Alone /\ Hanging /\ Closing /\ Owned
  BY DEF BleInv
<1>1. UNCHANGED <<shuttingDown, lib, ifaceLock, job, ble, gen, registered, unresolved, teardown, call,
                  link, main, drops>>
  BY DEF RolledBack, locks, lifecycle
<1>2. \E pc \in {"idle", "attempt"} : Moves(pc, None, None, FALSE, "none")
  <2>1. at' = NextTry
    BY DEF RolledBack
  <2> QED BY <1>0, <2>1, NextTryMoves
<1>3. at.pc = "closed" /\ teardown[ConnectThread].iface = None /\ meshLock' = "free"
  BY DEF RolledBack, At, Tearing
<1>4. client' = None
  BY <1>0, <1>3 DEF RolledBack, Clients
<1>5. iface' = iface \/ (iface' = None /\ iface \in Settled \cup {None})
  BY <1>0, <1>3 DEF RolledBack, Closing
<1>s. Settled' = Settled
  BY <1>1 DEF Settled
<1>c1. Types'
  BY <1>0, <1>1, <1>2, <1>3, <1>4, <1>5 DEF Types, Interfaces, Moves
<1>c3. Counted'
  BY <1>0, <1>1 DEF Counted, Owing
<1>c4. Shapes'
  BY <1>0, <1>1 DEF Shapes, Shape
<1>c5. Watched'
  BY <1>0, <1>1, <1>2, <1>3 DEF Watched, Waiting, Moves
<1>c6. Attempting'
  BY <1>0, <1>1, <1>2, <1>3, <1>5 DEF Attempting, WithJob, Moves
<1>c7. Clients'
  BY <1>0, <1>1, <1>2, <1>3, <1>4, <1>5 DEF Clients, Unpublished, Moves
<1>c8. JobsKnown'
  BY <1>0, <1>1, <1>3, <1>5 DEF JobsKnown
<1>c9. Workers'
  BY <1>0, <1>1, <1>2, <1>3, <1>5 DEF Workers, Waiting, Busy, Moves
<1>c10. Alone'
  BY <1>0, <1>1, <1>2, <1>3 DEF Alone, Clients, Unpublished, Moves
<1>c11. Hanging'
  BY <1>0, <1>1 DEF Hanging, Pending
<1>c12. Closing'
  BY <1>0, <1>1, <1>2, <1>3, <1>5, <1>s DEF Closing, Moves
<1>c13. Owned'
  BY <1>0, <1>1, <1>2, <1>3, <1>5, <1>s DEF Owned, Held, Disposing, Busy, Closing, Moves
<1> QED BY <1>c1, <1>c3, <1>c4, <1>c5, <1>c6, <1>c7, <1>c8,
       <1>c9, <1>c10, <1>c11, <1>c12, <1>c13 DEF BleInv

\* A worker thread takes the job that is waited for.
LEMMA KeepsStart ==
    ASSUME BleInv, main # "done", NEW j \in Jobs, Start(j)
    PROVE  BleInv'
<1>0. /\ Types /\ Counted /\ Shapes /\ Watched /\ Attempting /\ Clients
      /\ JobsKnown /\ Workers /\ Alone /\ Hanging /\ Closing /\ Owned
  BY DEF BleInv
<1>1. UNCHANGED <<shuttingDown, lib, iface, client, meshLock, ifaceLock, at, ble, gen, registered,
                  unresolved, teardown, call, link, main, drops>>
  BY DEF Start, locks, lifecycle
<1>3. job[j].st = "queued" /\ ~WorkerBusy(job[j].ex)
  BY DEF Start
<1>4. /\ job' \in [Jobs -> JobRecord] /\ \A k \in Jobs \ {j} : job'[k] = job[k]
      /\ job'[j].st = "running" /\ Alike(job'[j], job[j])
  <2>1. job' = [job EXCEPT ![j].st = "running"] /\ job \in [Jobs -> JobRecord]
    BY <1>0 DEF Start, Types
  <2> QED BY <2>1 DEF JobRecord, JobStates, Alike
<1>5. Waiting(j) /\ ~job[j].disposer /\ job[j].ex = ble.exec
  BY <1>0, <1>3 DEF Workers, JobsKnown
<1>6. \A k \in Jobs : job[k].ex = ble.exec => job[k].st \notin Busy
  BY <1>3, <1>5 DEF WorkerBusy, Busy
<1>s. Settled' = Settled
  BY <1>1 DEF Settled
<1>c1. Types'
  BY <1>0, <1>1, <1>3, <1>4, <1>5, <1>6 DEF Types, Interfaces, Alike
<1>c3. Counted'
  BY <1>0, <1>1 DEF Counted, Owing
<1>c4. Shapes'
  BY <1>0, <1>1 DEF Shapes, Shape
<1>c5. Watched'
  <2>1. \A k \in Jobs : Waiting(k)' <=> Waiting(k)
    BY <1>1 DEF Waiting
  <2>2. \A k \in Jobs \ {j} : job'[k] = job[k]
    BY <1>4
  <2>3. ble.slot \in Jobs \cup {None}
    BY <1>0, Domains
  <2> QED BY <1>0, <1>1, <1>4, <1>5, <2>1, <2>2, <2>3 DEF Watched
<1>c6. Attempting'
  BY <1>0, <1>1, <1>3, <1>4, <1>5, <1>6, Domains, Numbers DEF Attempting, WithJob, Alike
<1>c7. Clients'
  BY <1>0, <1>1 DEF Clients, Unpublished
<1>c8. JobsKnown'
  BY <1>0, <1>1, <1>3, <1>4, <1>5, <1>6 DEF JobsKnown, Alike
<1>c9. Workers'
  BY <1>0, <1>1, <1>3, <1>4, <1>5, <1>6 DEF Workers, Waiting, Busy, Alike
<1>c10. Alone'
  BY <1>0, <1>1, <1>3, <1>4, <1>5, <1>6 DEF Alone, Alike
<1>c11. Hanging'
  BY <1>0, <1>1 DEF Hanging, Pending
<1>c12. Closing'
  <2>0. SameDevices
    BY <1>4 DEF SameDevices, Alike, Ends
  <2>1. \A k \in Jobs : job'[k].st = "disposing" => job[k].st = "disposing"
    BY <1>3, <1>4 DEF Ends
  <2> QED BY <1>0, <1>1, <1>s, <2>0, <2>1, JobsClosing
<1>c13. Owned'
  <2>0. SameDevices
    BY <1>4 DEF SameDevices, Alike, Ends
  <2>1. \A i \in Jobs : Disposing(i) => Disposing(i)'
    BY <1>3, <1>4 DEF Alike, Disposing, Busy
  <2> QED BY <1>0, <1>1, <1>s, <2>0, <2>1, JobsOwned
<1> QED BY <1>c1, <1>c3, <1>c4, <1>c5, <1>c6, <1>c7, <1>c8,
       <1>c9, <1>c10, <1>c11, <1>c12, <1>c13 DEF BleInv

\* A job ends: a link that it opened belongs to the attempt or to its disposer.
LEMMA KeepsFinish ==
    ASSUME BleInv, main # "done", NEW j \in Jobs, Finish(j)
    PROVE  BleInv'
<1>0. /\ Types /\ Counted /\ Shapes /\ Watched /\ Attempting /\ Clients
      /\ JobsKnown /\ Workers /\ Alone /\ Hanging /\ Closing /\ Owned
  BY DEF BleInv
<1>1. UNCHANGED <<shuttingDown, lib, iface, client, meshLock, ifaceLock, at, ble, gen, registered,
                  unresolved, teardown, call, main, drops>>
  BY DEF Finish, locks, lifecycle
<1>3. job[j].st = "running"
  BY DEF Finish
<1>4. /\ job' \in [Jobs -> JobRecord] /\ \A k \in Jobs \ {j} : job'[k] = job[k]
      /\ job'[j].st = "callbacks" /\ job'[j].kind = job[j].kind /\ job'[j].ex = job[j].ex
      /\ job'[j].iface = job[j].iface /\ job'[j].disposer = job[j].disposer /\ job'[j].timer = job[j].timer
      /\ link' = IF job[j].kind = "create" /\ job'[j].res \in {"ok", "wrong"} THEN [link EXCEPT ![j] = "open"] ELSE link
  <2>1. job \in [Jobs -> JobRecord]
    BY <1>0 DEF Types
  <2>2. PICK res \in {"ok", "wrong"} \cup Errors :
           /\ job' = [job EXCEPT ![j].st = "callbacks", ![j].res = res]
           /\ link' = IF job[j].kind = "create" /\ res \in {"ok", "wrong"} THEN [link EXCEPT ![j] = "open"] ELSE link
    BY DEF Finish
  <2>3. job' \in [Jobs -> JobRecord] /\ job'[j].res = res
    <3> DEFINE n == [job[j] EXCEPT !.st = "callbacks", !.res = res]
    <3>1. n \in JobRecord /\ n.res = res
      BY <2>1 DEF JobRecord, JobStates
    <3>2. job' = [job EXCEPT ![j] = n]
      BY <2>1, <2>2
    <3> HIDE DEF n
    <3> QED BY <2>1, <3>1, <3>2
  <2> QED BY <2>1, <2>2, <2>3 DEF JobRecord
<1>5. link[j] = "none" /\ link \in [Jobs -> {"none", "open", "closed"}]
  BY <1>0, <1>3 DEF JobsKnown, Types
<1>6. /\ link' \in [Jobs -> {"none", "open", "closed"}] /\ \A k \in Jobs \ {j} : link'[k] = link[k]
      /\ link'[j] = IF job[j].kind = "create" /\ job'[j].res \in {"ok", "wrong"} THEN "open" ELSE "none"
  BY <1>4, <1>5
<1>7. Waiting(j) \/ job[j].disposer
  BY <1>0, <1>3 DEF Workers
<1>s. Settled \subseteq Settled'
  BY <1>0, <1>1, <1>3, <1>4, <1>5, <1>6, <1>7, Numbers DEF Settled, Waiting
<1>c1. Types'
  BY <1>0, <1>1, <1>3, <1>4, <1>5, <1>6, <1>7 DEF Types, Interfaces, Waiting
<1>c3. Counted'
  BY <1>0, <1>1 DEF Counted, Owing
<1>c4. Shapes'
  BY <1>0, <1>1 DEF Shapes, Shape
<1>c5. Watched'
  BY <1>0, <1>1, <1>3, <1>4, <1>6, <1>7, Domains, Numbers DEF Watched, Waiting
<1>c6. Attempting'
  <2>0. SameDevices
    BY <1>4 DEF SameDevices, Alike, Ends
  <2>1. \A k \in Jobs : (job[k].st # "none" => job'[k].st # "none") /\ (job[k].res \in {"ok", "wrong"} => job'[k].res \in {"ok", "wrong"})
    BY <1>0, <1>3, <1>4 DEF JobsKnown, Ends
  <2> QED BY <1>0, <1>1, <2>0, <2>1, JobsAttempting
<1>c7. Clients'
  BY <1>0, <1>1 DEF Clients, Unpublished
<1>c8. JobsKnown'
  BY <1>0, <1>1, <1>3, <1>4, <1>5, <1>6, <1>7 DEF JobsKnown, Waiting
<1>c9. Workers'
  <2>1. /\ \A k \in Jobs : job'[k].ex = job[k].ex \/ (job'[k].ex = None /\ job'[k].st = "over")
        /\ \A k \in Jobs : job'[k].st \in {"queued", "running", "cancelled"} => job'[k].st = job[k].st
        /\ \A k \in Jobs : job[k].st \in {"queued", "cancelled"} => job'[k].st = job[k].st
    BY <1>3, <1>4 DEF Ends
  <2>2. /\ \A k \in Jobs : job'[k].st \in Busy \cup {"queued"} => job'[k].disposer = job[k].disposer
        /\ \A k \in Jobs : job'[k].st \in Busy => job[k].st \in Busy
        /\ \A k \in Jobs : job'[k].st \in {"dispose", "disposing"} =>
              job[k].st \in {"dispose", "disposing"} \/ job[k].disposer
    BY <1>3, <1>4 DEF Busy, Ends
  <2> QED BY <1>0, <1>1, <2>1, <2>2, JobsWorkers
<1>c10. Alone'
  BY <1>0, <1>1, <1>3, <1>4, <1>6, <1>7 DEF Alone, Waiting
<1>c11. Hanging'
  BY <1>0, <1>1, <1>4, <1>5, <1>6 DEF Hanging, Pending, Waiting
<1>c12. Closing'
  <2>0. SameDevices
    BY <1>4 DEF SameDevices, Alike, Ends
  <2>1. \A k \in Jobs : job'[k].st = "disposing" => job[k].st = "disposing"
    BY <1>3, <1>4 DEF Ends
  <2> QED BY <1>0, <1>1, <1>s, <2>0, <2>1, JobsClosing
<1>c13. Owned'
  <2>0. SameDevices
    BY <1>4 DEF SameDevices, Alike, Ends
  <2>1. \A i \in Jobs : Disposing(i) => Disposing(i)'
    BY <1>3, <1>4 DEF Disposing, Busy
  <2>2. link'[j] = "open" => Held(j) \/ Disposing(j)'
    <3>1. link'[j] = "open" => job[j].kind = "create" /\ job[j].iface = j
      BY <1>0, <1>3, <1>6 DEF JobsKnown
    <3> QED BY <1>4, <1>7, <3>1 DEF Held, Disposing, Waiting, Busy
  <2>3. \A i \in Jobs : link'[i] = "open" => link[i] = "open" \/ Held(i) \/ Disposing(i)'
    BY <1>6, <2>2
  <2> QED BY <1>0, <1>1, <1>s, <2>0, <2>1, <2>3, JobsOwned
<1> QED BY <1>c1, <1>c3, <1>c4, <1>c5, <1>c6, <1>c7, <1>c8,
       <1>c9, <1>c10, <1>c11, <1>c12, <1>c13 DEF BleInv

\* The first callback frees the slot; a disposer is left to run.
LEMMA CallbackDisposes ==
    ASSUME BleInv, main # "done", NEW j \in Jobs, Callback(j), job[j].disposer
    PROVE  BleInv'
<1>0. /\ Types /\ Counted /\ Shapes /\ Watched /\ Attempting /\ Clients
      /\ JobsKnown /\ Workers /\ Alone /\ Hanging /\ Closing /\ Owned
  BY DEF BleInv
<1>1. UNCHANGED <<shuttingDown, lib, iface, client, meshLock, ifaceLock, at, gen, registered,
                  unresolved, teardown, call, link, main, drops>>
  BY DEF Callback, locks, lifecycle
<1>3. job[j].st = "callbacks"
  BY DEF Callback
<1>4. /\ job' \in [Jobs -> JobRecord] /\ \A k \in Jobs \ {j} : job'[k] = job[k]
      /\ job'[j].st = "dispose" /\ job'[j].disposer = job[j].disposer /\ job'[j].kind = job[j].kind
      /\ job'[j].iface = job[j].iface /\ job'[j].ex = job[j].ex /\ job'[j].res = job[j].res
  <2> DEFINE t == IF job[j].timer = "armed" THEN "off" ELSE job[j].timer
  <2>1. job \in [Jobs -> JobRecord]
    BY <1>0 DEF Types
  <2>2. t \in {"off", "armed", "firing"}
    BY <2>1 DEF JobRecord
  <2> DEFINE n == [job[j] EXCEPT !.st = "dispose", !.timer = t]
  <2>3. job' = [job EXCEPT ![j] = n]
    BY <2>1 DEF Callback, JobRecord
  <2> HIDE DEF t
  <2>4. /\ n \in JobRecord /\ n.st = "dispose" /\ n.disposer = job[j].disposer /\ n.kind = job[j].kind
        /\ n.iface = job[j].iface /\ n.ex = job[j].ex /\ n.res = job[j].res
    BY <2>1, <2>2 DEF JobRecord, JobStates
  <2> HIDE DEF n
  <2> QED BY <2>1, <2>3, <2>4
<1>6. /\ ble' \in ExecutorRecord /\ ble'.slot = (IF ble.slot = j THEN None ELSE ble.slot) /\ ble'.exec = ble.exec
      /\ ble'.execs = ble.execs /\ ble'.shut = ble.shut /\ ble'.degraded = ble.degraded
  <2>1. ble' = Cleared(ble, j) /\ ble \in ExecutorRecord
    BY <1>0 DEF Callback, Types
  <2> QED BY <2>1, ClearedIs
<1>s. Settled' = Settled
  BY <1>1 DEF Settled
<1>c1. Types'
  BY <1>0, <1>1, <1>3, <1>4, <1>6 DEF Types, Interfaces
<1>c3. Counted'
  BY <1>0, <1>1 DEF Counted, Owing
<1>c4. Shapes'
  BY <1>0, <1>1 DEF Shapes, Shape
<1>c5. Watched'
  <2>0. \A k \in Jobs : Waiting(k)' <=> Waiting(k)
    BY <1>1 DEF Waiting
  <2>1. ble'.slot # j /\ ble'.slot \in {ble.slot, None}
    BY <1>6, Numbers
  <2>2. \A k \in Jobs : ble'.slot = k => ble.slot = k /\ k # j /\ job'[k] = job[k]
    BY <1>4, <2>1, Numbers DEF Ends
  <2>3. ble'.slot # None => ble'.slot \in Jobs
    BY <1>0, <2>1, Domains
  <2> QED BY <1>0, <1>6, <2>0, <2>1, <2>2, <2>3, Numbers DEF Watched
<1>c6. Attempting'
  <2>0. SameDevices
    BY <1>4 DEF SameDevices, Alike, Ends
  <2>1. \A k \in Jobs : (job[k].st # "none" => job'[k].st # "none") /\ (job[k].res \in {"ok", "wrong"} => job'[k].res \in {"ok", "wrong"})
    BY <1>0, <1>3, <1>4 DEF JobsKnown, Ends
  <2> QED BY <1>0, <1>1, <2>0, <2>1, JobsAttempting
<1>c7. Clients'
  BY <1>0, <1>1 DEF Clients, Unpublished
<1>c8. JobsKnown'
  <2>0. SameDevices
    BY <1>4 DEF SameDevices, Alike, Ends
  <2>1. \A k \in Jobs \ {j} : job'[k] = job[k]
    BY <1>4
  <2>2. \A k \in Jobs : job'[k].st # "none" <=> job[k].st # "none"
    BY <1>3, <1>4
  <2>3. \A k \in Jobs : job'[k].res = job[k].res
    BY <1>4
  <2>4. \A k \in Jobs : job'[k].st \in {"none", "queued", "running", "cancelled"} => job'[k] = job[k]
    BY <1>4
  <2>5. \A k \in Jobs : job'[k].st \in {"dispose", "disposing"} => job'[k].disposer
    BY <1>0, <1>4 DEF JobsKnown
  <2> QED BY <1>0, <1>1, <2>0, <2>2, <2>3, <2>4, <2>5 DEF JobsKnown, SameDevices
<1>c9. Workers'
  <2>1. /\ \A k \in Jobs : job'[k].ex = job[k].ex \/ (job'[k].ex = None /\ job'[k].st = "over")
        /\ \A k \in Jobs : job'[k].st \in {"queued", "running", "cancelled"} => job'[k].st = job[k].st
        /\ \A k \in Jobs : job[k].st \in {"queued", "cancelled"} => job'[k].st = job[k].st
    BY <1>3, <1>4 DEF Ends
  <2>2. /\ \A k \in Jobs : job'[k].st \in Busy \cup {"queued"} => job'[k].disposer = job[k].disposer
        /\ \A k \in Jobs : job'[k].st \in Busy => job[k].st \in Busy
        /\ \A k \in Jobs : job'[k].st \in {"dispose", "disposing"} =>
              job[k].st \in {"dispose", "disposing"} \/ job[k].disposer
    BY <1>3, <1>4 DEF Busy, Ends
  <2> QED BY <1>0, <1>1, <1>6, <2>1, <2>2, JobsWorkers
<1>c10. Alone'
  BY <1>0, <1>1, <1>3, <1>4 DEF Alone
<1>c11. Hanging'
  BY <1>0, <1>1 DEF Hanging, Pending
<1>c12. Closing'
  <2>0. SameDevices
    BY <1>4 DEF SameDevices, Alike, Ends
  <2>1. \A k \in Jobs : job'[k].st = "disposing" => job[k].st = "disposing"
    BY <1>3, <1>4 DEF Ends
  <2> QED BY <1>0, <1>1, <1>s, <2>0, <2>1, JobsClosing
<1>c13. Owned'
  <2>0. SameDevices
    BY <1>4 DEF SameDevices, Alike, Ends
  <2>1. \A i \in Jobs : Disposing(i) => Disposing(i)'
    BY <1>3, <1>4 DEF Disposing, Busy
  <2> QED BY <1>0, <1>1, <1>s, <2>0, <2>1, JobsOwned
<1> QED BY <1>c1, <1>c3, <1>c4, <1>c5, <1>c6, <1>c7, <1>c8,
       <1>c9, <1>c10, <1>c11, <1>c12, <1>c13 DEF BleInv

\* Without a disposer the job is over: an attempt waits for it still.
LEMMA CallbackEnds ==
    ASSUME BleInv, main # "done", NEW j \in Jobs, Callback(j), ~job[j].disposer
    PROVE  BleInv'
<1>0. /\ Types /\ Counted /\ Shapes /\ Watched /\ Attempting /\ Clients
      /\ JobsKnown /\ Workers /\ Alone /\ Hanging /\ Closing /\ Owned
  BY DEF BleInv
<1>1. UNCHANGED <<shuttingDown, lib, iface, client, meshLock, ifaceLock, at, gen, registered,
                  unresolved, teardown, call, link, main, drops>>
  BY DEF Callback, locks, lifecycle
<1>3. job[j].st = "callbacks"
  BY DEF Callback
<1>4. Ends(j)
  BY <1>0, OverEnds DEF Callback
<1>6. /\ ble' \in ExecutorRecord /\ ble'.slot = (IF ble.slot = j THEN None ELSE ble.slot) /\ ble'.exec = ble.exec
      /\ ble'.execs = ble.execs /\ ble'.shut = ble.shut /\ ble'.degraded = ble.degraded
  <2>1. ble' = Cleared(ble, j) /\ ble \in ExecutorRecord
    BY <1>0 DEF Callback, Types
  <2> QED BY <2>1, ClearedIs
<1>s. Settled' = Settled
  BY <1>1 DEF Settled
<1>c1. Types'
  BY <1>0, <1>1, <1>3, <1>4, <1>6 DEF Types, Interfaces, Ends
<1>c3. Counted'
  BY <1>0, <1>1 DEF Counted, Owing
<1>c4. Shapes'
  BY <1>0, <1>1 DEF Shapes, Shape
<1>c5. Watched'
  <2>0. \A k \in Jobs : Waiting(k)' <=> Waiting(k)
    BY <1>1 DEF Waiting
  <2>1. ble'.slot # j /\ ble'.slot \in {ble.slot, None}
    BY <1>6, Numbers
  <2>2. \A k \in Jobs : ble'.slot = k => ble.slot = k /\ k # j /\ job'[k] = job[k]
    BY <1>4, <2>1, Numbers DEF Ends
  <2>3. ble'.slot # None => ble'.slot \in Jobs
    BY <1>0, <2>1, Domains
  <2> QED BY <1>0, <1>6, <2>0, <2>1, <2>2, <2>3, Numbers DEF Watched
<1>c6. Attempting'
  <2>0. SameDevices
    BY <1>4 DEF SameDevices, Alike, Ends
  <2>1. \A k \in Jobs : (job[k].st # "none" => job'[k].st # "none") /\ (job[k].res \in {"ok", "wrong"} => job'[k].res \in {"ok", "wrong"})
    BY <1>0, <1>3, <1>4 DEF JobsKnown, Ends
  <2> QED BY <1>0, <1>1, <2>0, <2>1, JobsAttempting
<1>c7. Clients'
  BY <1>0, <1>1 DEF Clients, Unpublished
<1>c8. JobsKnown'
  BY <1>0, <1>1, <1>3, <1>4 DEF JobsKnown, Ends
<1>c9. Workers'
  <2>1. /\ \A k \in Jobs : job'[k].ex = job[k].ex \/ (job'[k].ex = None /\ job'[k].st = "over")
        /\ \A k \in Jobs : job'[k].st \in {"queued", "running", "cancelled"} => job'[k].st = job[k].st
        /\ \A k \in Jobs : job[k].st \in {"queued", "cancelled"} => job'[k].st = job[k].st
    BY <1>3, <1>4 DEF Ends
  <2>2. /\ \A k \in Jobs : job'[k].st \in Busy \cup {"queued"} => job'[k].disposer = job[k].disposer
        /\ \A k \in Jobs : job'[k].st \in Busy => job[k].st \in Busy
        /\ \A k \in Jobs : job'[k].st \in {"dispose", "disposing"} =>
              job[k].st \in {"dispose", "disposing"} \/ job[k].disposer
    BY <1>3, <1>4 DEF Busy, Ends
  <2> QED BY <1>0, <1>1, <1>6, <2>1, <2>2, JobsWorkers
<1>c10. Alone'
  BY <1>0, <1>1, <1>3, <1>4 DEF Alone, Ends
<1>c11. Hanging'
  BY <1>0, <1>1 DEF Hanging, Pending
<1>c12. Closing'
  <2>0. SameDevices
    BY <1>4 DEF SameDevices, Alike, Ends
  <2>1. \A k \in Jobs : job'[k].st = "disposing" => job[k].st = "disposing"
    BY <1>3, <1>4 DEF Ends
  <2> QED BY <1>0, <1>1, <1>s, <2>0, <2>1, JobsClosing
<1>c13. Owned'
  <2>0. SameDevices
    BY <1>4 DEF SameDevices, Alike, Ends
  <2>1. \A i \in Jobs : Disposing(i) /\ link[i] = "open" => iface = i \/ Disposing(i)' \/ i \in Settled'
    BY <1>4 DEF Disposing, Busy, Ends
  <2> QED BY <1>0, <1>1, <1>s, <2>0, <2>1, JobsOwned
<1> QED BY <1>c1, <1>c3, <1>c4, <1>c5, <1>c6, <1>c7, <1>c8,
       <1>c9, <1>c10, <1>c11, <1>c12, <1>c13 DEF BleInv

\* The disposer leaves the interface in use alone.
LEMMA DisposeUsed ==
    ASSUME BleInv, main # "done", NEW j \in Jobs, Dispose(j), job[j].iface = iface
    PROVE  BleInv'
<1>0. /\ Types /\ Counted /\ Shapes /\ Watched /\ Attempting /\ Clients
      /\ JobsKnown /\ Workers /\ Alone /\ Hanging /\ Closing /\ Owned
  BY DEF BleInv
<1>1. UNCHANGED <<shuttingDown, lib, iface, client, meshLock, ifaceLock, at, ble, gen, registered,
                  unresolved, teardown, call, link, main, drops>>
  BY DEF Dispose, locks, lifecycle
<1>3. job[j].st = "dispose"
  BY DEF Dispose
<1>4. Ends(j)
  BY <1>0, OverEnds DEF Dispose
<1>s. Settled' = Settled
  BY <1>1 DEF Settled
<1>c1. Types'
  BY <1>0, <1>1, <1>3, <1>4 DEF Types, Interfaces, Ends
<1>c3. Counted'
  BY <1>0, <1>1 DEF Counted, Owing
<1>c4. Shapes'
  BY <1>0, <1>1 DEF Shapes, Shape
<1>c5. Watched'
  <2>1. \A k \in Jobs : Waiting(k)' <=> Waiting(k)
    BY <1>1 DEF Waiting
  <2>2. \A k \in Jobs \ {j} : job'[k] = job[k]
    BY <1>4 DEF Ends
  <2>3. ble.slot \in Jobs \cup {None}
    BY <1>0, Domains
  <2> QED BY <1>0, <1>1, <1>4, <2>1, <2>2, <2>3 DEF Watched, Ends
<1>c6. Attempting'
  <2>0. SameDevices
    BY <1>4 DEF SameDevices, Alike, Ends
  <2>1. \A k \in Jobs : (job[k].st # "none" => job'[k].st # "none") /\ (job[k].res \in {"ok", "wrong"} => job'[k].res \in {"ok", "wrong"})
    BY <1>0, <1>3, <1>4 DEF JobsKnown, Ends
  <2> QED BY <1>0, <1>1, <2>0, <2>1, JobsAttempting
<1>c7. Clients'
  BY <1>0, <1>1 DEF Clients, Unpublished
<1>c8. JobsKnown'
  BY <1>0, <1>1, <1>3, <1>4 DEF JobsKnown, Ends
<1>c9. Workers'
  <2>1. /\ \A k \in Jobs : job'[k].ex = job[k].ex \/ (job'[k].ex = None /\ job'[k].st = "over")
        /\ \A k \in Jobs : job'[k].st \in {"queued", "running", "cancelled"} => job'[k].st = job[k].st
        /\ \A k \in Jobs : job[k].st \in {"queued", "cancelled"} => job'[k].st = job[k].st
    BY <1>3, <1>4 DEF Ends
  <2>2. /\ \A k \in Jobs : job'[k].st \in Busy \cup {"queued"} => job'[k].disposer = job[k].disposer
        /\ \A k \in Jobs : job'[k].st \in Busy => job[k].st \in Busy
        /\ \A k \in Jobs : job'[k].st \in {"dispose", "disposing"} =>
              job[k].st \in {"dispose", "disposing"} \/ job[k].disposer
    BY <1>3, <1>4 DEF Busy, Ends
  <2> QED BY <1>0, <1>1, <2>1, <2>2, JobsWorkers
<1>c10. Alone'
  BY <1>0, <1>1, <1>3, <1>4 DEF Alone, Ends
<1>c11. Hanging'
  BY <1>0, <1>1 DEF Hanging, Pending
<1>c12. Closing'
  <2>0. SameDevices
    BY <1>4 DEF SameDevices, Alike, Ends
  <2>1. \A k \in Jobs : job'[k].st = "disposing" => job[k].st = "disposing"
    BY <1>3, <1>4 DEF Ends
  <2> QED BY <1>0, <1>1, <1>s, <2>0, <2>1, JobsClosing
<1>c13. Owned'
  <2>0. SameDevices
    BY <1>4 DEF SameDevices, Alike, Ends
  <2>1. \A i \in Jobs : Disposing(i) /\ link[i] = "open" => iface = i \/ Disposing(i)' \/ i \in Settled'
    BY <1>4 DEF Disposing, Busy, Ends
  <2> QED BY <1>0, <1>1, <1>s, <2>0, <2>1, JobsOwned
<1> QED BY <1>c1, <1>c3, <1>c4, <1>c5, <1>c6, <1>c7, <1>c8,
       <1>c9, <1>c10, <1>c11, <1>c12, <1>c13 DEF BleInv

\* The job made nothing to dispose of.
LEMMA DisposeNothing ==
    ASSUME BleInv, main # "done", NEW j \in Jobs, Dispose(j),
           ~(job[j].kind = "connect" \/ job[j].res \in {"ok", "wrong"})
    PROVE  BleInv'
<1>0. /\ Types /\ Counted /\ Shapes /\ Watched /\ Attempting /\ Clients
      /\ JobsKnown /\ Workers /\ Alone /\ Hanging /\ Closing /\ Owned
  BY DEF BleInv
<1>1. UNCHANGED <<shuttingDown, lib, iface, client, meshLock, ifaceLock, at, ble, gen, registered,
                  unresolved, teardown, call, link, main, drops>>
  BY DEF Dispose, locks, lifecycle
<1>3. job[j].st = "dispose"
  BY DEF Dispose
<1>4. Ends(j)
  BY <1>0, OverEnds DEF Dispose
<1>s. Settled' = Settled
  BY <1>1 DEF Settled
<1>c1. Types'
  BY <1>0, <1>1, <1>3, <1>4 DEF Types, Interfaces, Ends
<1>c3. Counted'
  BY <1>0, <1>1 DEF Counted, Owing
<1>c4. Shapes'
  BY <1>0, <1>1 DEF Shapes, Shape
<1>c5. Watched'
  <2>1. \A k \in Jobs : Waiting(k)' <=> Waiting(k)
    BY <1>1 DEF Waiting
  <2>2. \A k \in Jobs \ {j} : job'[k] = job[k]
    BY <1>4 DEF Ends
  <2>3. ble.slot \in Jobs \cup {None}
    BY <1>0, Domains
  <2> QED BY <1>0, <1>1, <1>4, <2>1, <2>2, <2>3 DEF Watched, Ends
<1>c6. Attempting'
  <2>0. SameDevices
    BY <1>4 DEF SameDevices, Alike, Ends
  <2>1. \A k \in Jobs : (job[k].st # "none" => job'[k].st # "none") /\ (job[k].res \in {"ok", "wrong"} => job'[k].res \in {"ok", "wrong"})
    BY <1>0, <1>3, <1>4 DEF JobsKnown, Ends
  <2> QED BY <1>0, <1>1, <2>0, <2>1, JobsAttempting
<1>c7. Clients'
  BY <1>0, <1>1 DEF Clients, Unpublished
<1>c8. JobsKnown'
  BY <1>0, <1>1, <1>3, <1>4 DEF JobsKnown, Ends
<1>c9. Workers'
  <2>1. /\ \A k \in Jobs : job'[k].ex = job[k].ex \/ (job'[k].ex = None /\ job'[k].st = "over")
        /\ \A k \in Jobs : job'[k].st \in {"queued", "running", "cancelled"} => job'[k].st = job[k].st
        /\ \A k \in Jobs : job[k].st \in {"queued", "cancelled"} => job'[k].st = job[k].st
    BY <1>3, <1>4 DEF Ends
  <2>2. /\ \A k \in Jobs : job'[k].st \in Busy \cup {"queued"} => job'[k].disposer = job[k].disposer
        /\ \A k \in Jobs : job'[k].st \in Busy => job[k].st \in Busy
        /\ \A k \in Jobs : job'[k].st \in {"dispose", "disposing"} =>
              job[k].st \in {"dispose", "disposing"} \/ job[k].disposer
    BY <1>3, <1>4 DEF Busy, Ends
  <2> QED BY <1>0, <1>1, <2>1, <2>2, JobsWorkers
<1>c10. Alone'
  BY <1>0, <1>1, <1>3, <1>4 DEF Alone, Ends
<1>c11. Hanging'
  BY <1>0, <1>1 DEF Hanging, Pending
<1>c12. Closing'
  <2>0. SameDevices
    BY <1>4 DEF SameDevices, Alike, Ends
  <2>1. \A k \in Jobs : job'[k].st = "disposing" => job[k].st = "disposing"
    BY <1>3, <1>4 DEF Ends
  <2> QED BY <1>0, <1>1, <1>s, <2>0, <2>1, JobsClosing
<1>c13. Owned'
  <2>2. \A i \in Jobs : job[j].iface = i => link[i] # "open"
    <3>1. job[j].kind = "create"
      BY <1>0 DEF Types, JobRecord
    <3> QED BY <1>0, <1>3, <3>1 DEF JobsKnown
  <2>0. SameDevices
    BY <1>4 DEF SameDevices, Alike, Ends
  <2>1. \A i \in Jobs : Disposing(i) /\ link[i] = "open" => iface = i \/ Disposing(i)' \/ i \in Settled'
    BY <1>4, <2>2 DEF Disposing, Busy, Ends
  <2> QED BY <1>0, <1>1, <1>s, <2>0, <2>1, JobsOwned
<1> QED BY <1>c1, <1>c3, <1>c4, <1>c5, <1>c6, <1>c7, <1>c8,
       <1>c9, <1>c10, <1>c11, <1>c12, <1>c13 DEF BleInv

\* The late interface is closed when its job is over.
LEMMA KeepsDisposed ==
    ASSUME BleInv, main # "done", NEW j \in Jobs, Disposed(j)
    PROVE  BleInv'
<1>0. /\ Types /\ Counted /\ Shapes /\ Watched /\ Attempting /\ Clients
      /\ JobsKnown /\ Workers /\ Alone /\ Hanging /\ Closing /\ Owned
  BY DEF BleInv
<1>1. UNCHANGED <<shuttingDown, lib, iface, client, meshLock, ifaceLock, at, ble, gen, registered,
                  unresolved, teardown, call, link, main, drops>>
  BY DEF Disposed, locks, lifecycle
<1>3. job[j].st = "disposing" /\ teardown[j].iface = None
  BY DEF Disposed, Tearing
<1>4. Ends(j)
  BY <1>0, OverEnds DEF Disposed
<1>s. Settled' = Settled
  BY <1>1 DEF Settled
<1>c1. Types'
  BY <1>0, <1>1, <1>3, <1>4 DEF Types, Interfaces, Ends
<1>c3. Counted'
  BY <1>0, <1>1 DEF Counted, Owing
<1>c4. Shapes'
  BY <1>0, <1>1 DEF Shapes, Shape
<1>c5. Watched'
  <2>1. \A k \in Jobs : Waiting(k)' <=> Waiting(k)
    BY <1>1 DEF Waiting
  <2>2. \A k \in Jobs \ {j} : job'[k] = job[k]
    BY <1>4 DEF Ends
  <2>3. ble.slot \in Jobs \cup {None}
    BY <1>0, Domains
  <2> QED BY <1>0, <1>1, <1>4, <2>1, <2>2, <2>3 DEF Watched, Ends
<1>c6. Attempting'
  <2>0. SameDevices
    BY <1>4 DEF SameDevices, Alike, Ends
  <2>1. \A k \in Jobs : (job[k].st # "none" => job'[k].st # "none") /\ (job[k].res \in {"ok", "wrong"} => job'[k].res \in {"ok", "wrong"})
    BY <1>0, <1>3, <1>4 DEF JobsKnown, Ends
  <2> QED BY <1>0, <1>1, <2>0, <2>1, JobsAttempting
<1>c7. Clients'
  BY <1>0, <1>1 DEF Clients, Unpublished
<1>c8. JobsKnown'
  BY <1>0, <1>1, <1>3, <1>4 DEF JobsKnown, Ends
<1>c9. Workers'
  <2>1. /\ \A k \in Jobs : job'[k].ex = job[k].ex \/ (job'[k].ex = None /\ job'[k].st = "over")
        /\ \A k \in Jobs : job'[k].st \in {"queued", "running", "cancelled"} => job'[k].st = job[k].st
        /\ \A k \in Jobs : job[k].st \in {"queued", "cancelled"} => job'[k].st = job[k].st
    BY <1>3, <1>4 DEF Ends
  <2>2. /\ \A k \in Jobs : job'[k].st \in Busy \cup {"queued"} => job'[k].disposer = job[k].disposer
        /\ \A k \in Jobs : job'[k].st \in Busy => job[k].st \in Busy
        /\ \A k \in Jobs : job'[k].st \in {"dispose", "disposing"} =>
              job[k].st \in {"dispose", "disposing"} \/ job[k].disposer
    BY <1>3, <1>4 DEF Busy, Ends
  <2> QED BY <1>0, <1>1, <2>1, <2>2, JobsWorkers
<1>c10. Alone'
  BY <1>0, <1>1, <1>3, <1>4 DEF Alone, Ends
<1>c11. Hanging'
  BY <1>0, <1>1 DEF Hanging, Pending
<1>c12. Closing'
  <2>0. SameDevices
    BY <1>4 DEF SameDevices, Alike, Ends
  <2>1. \A k \in Jobs : job'[k].st = "disposing" => job[k].st = "disposing"
    BY <1>3, <1>4 DEF Ends
  <2> QED BY <1>0, <1>1, <1>s, <2>0, <2>1, JobsClosing
<1>c13. Owned'
  <2>2. job[j].iface \in Settled
    BY <1>0, <1>3 DEF Closing
  <2>0. SameDevices
    BY <1>4 DEF SameDevices, Alike, Ends
  <2>1. \A i \in Jobs : Disposing(i) /\ link[i] = "open" => iface = i \/ Disposing(i)' \/ i \in Settled'
    BY <1>4, <1>s, <2>2 DEF Disposing, Busy, Ends
  <2> QED BY <1>0, <1>1, <1>s, <2>0, <2>1, JobsOwned
<1> QED BY <1>c1, <1>c3, <1>c4, <1>c5, <1>c6, <1>c7, <1>c8,
       <1>c9, <1>c10, <1>c11, <1>c12, <1>c13 DEF BleInv

\* The disposer begins to close the late interface.
LEMMA DisposeTears ==
    ASSUME BleInv, main # "done", NEW j \in Jobs, Dispose(j),
           job[j].kind = "connect" \/ job[j].res \in {"ok", "wrong"}, job[j].iface # iface
    PROVE  BleInv'
<1>0. /\ Types /\ Counted /\ Shapes /\ Watched /\ Attempting /\ Clients
      /\ JobsKnown /\ Workers /\ Alone /\ Hanging /\ Closing /\ Owned
  BY DEF BleInv
<1>1. UNCHANGED <<shuttingDown, lib, iface, client, meshLock, ifaceLock, at, ble, gen, registered,
                  unresolved, call, link, main, drops>>
  BY DEF Dispose, locks, lifecycle
<1>3. job[j].st = "dispose"
  BY DEF Dispose
<1>4. job[j].iface \in Jobs
  BY <1>0, <1>3, Domains DEF JobsKnown
<1>5. Starts(j, job[j].iface)
  <2>1. TearDown(j, job[j].iface, IfaceGeneration(job[j].iface))
    BY <1>4 DEF Dispose
  <2>2. IfaceGeneration(job[j].iface) \in Generations
    BY <1>0, <1>4, GenerationKnown
  <2> QED BY <1>0, <1>4, <2>1, <2>2, Numbers, TearDownStarts
<1>6. /\ job' \in [Jobs -> JobRecord] /\ \A k \in Jobs \ {j} : job'[k] = job[k]
      /\ job'[j].st = "disposing" /\ Alike(job'[j], job[j])
  <2>1. job' = [job EXCEPT ![j].st = "disposing"] /\ job \in [Jobs -> JobRecord]
    BY <1>0 DEF Dispose, Types
  <2> QED BY <2>1 DEF JobRecord, JobStates, Alike
<1>s. Settled \subseteq Settled'
  BY <1>0, <1>1, <1>3, <1>4, <1>5, StartsSettles, Numbers DEF Alone
<1>c1. Types'
  BY <1>0, <1>1, <1>3, <1>4, <1>5, <1>6 DEF Types, Interfaces, Alike, Starts
<1>c3. Counted'
  BY <1>0, <1>1 DEF Counted, Owing
<1>c4. Shapes'
  BY <1>0, <1>1 DEF Shapes, Shape
<1>c5. Watched'
  <2>1. \A k \in Jobs : Waiting(k)' <=> Waiting(k)
    BY <1>1 DEF Waiting
  <2>2. \A k \in Jobs \ {j} : job'[k] = job[k]
    BY <1>6
  <2>3. ble.slot \in Jobs \cup {None}
    BY <1>0, Domains
  <2> QED BY <1>0, <1>1, <1>6, <2>1, <2>2, <2>3 DEF Watched
<1>c6. Attempting'
  <2>0. SameDevices
    BY <1>6 DEF SameDevices, Alike, Alike
  <2>1. \A k \in Jobs : (job[k].st # "none" => job'[k].st # "none") /\ (job[k].res \in {"ok", "wrong"} => job'[k].res \in {"ok", "wrong"})
    BY <1>0, <1>3, <1>6 DEF Alike, Alike
  <2> QED BY <1>0, <1>1, <2>0, <2>1, JobsAttempting
<1>c7. Clients'
  BY <1>0, <1>1 DEF Clients, Unpublished
<1>c8. JobsKnown'
  <2>1. SameDevices /\ \A k \in Jobs : job'[k].res = job[k].res /\ job'[k].disposer = job[k].disposer
    BY <1>6 DEF SameDevices, Alike
  <2>2. \A k \in Jobs : (job'[k].st # "none" <=> job[k].st # "none") /\ (job'[k].st # job[k].st => k = j)
    BY <1>3, <1>6
  <2>3. \A k \in Jobs : job'[k].st \in {"none", "queued", "running", "cancelled"} => job'[k].st = job[k].st
    BY <1>6
  <2>4. \A k \in Jobs : job'[k].st \in {"dispose", "disposing"} => job[k].st \in {"dispose", "disposing"}
    BY <1>3, <1>6
  <2>5. job[j].kind \in {"create", "connect"}
    BY <1>0 DEF Types, JobRecord
  <2>6. link[job[j].iface] # "none"
    BY <1>0, <1>3, <2>5 DEF JobsKnown
  <2>7. \A t \in Threads : teardown'[t].iface # None => link[teardown'[t].iface] # "none"
    BY <1>0, <1>5, <2>6 DEF JobsKnown, Starts
  <2> QED BY <1>0, <1>1, <2>1, <2>2, <2>3, <2>4, <2>7 DEF JobsKnown, SameDevices
<1>c9. Workers'
  <2>1. /\ \A k \in Jobs : job'[k].ex = job[k].ex \/ (job'[k].ex = None /\ job'[k].st = "over")
        /\ \A k \in Jobs : job'[k].st \in {"queued", "running", "cancelled"} => job'[k].st = job[k].st
        /\ \A k \in Jobs : job[k].st \in {"queued", "cancelled"} => job'[k].st = job[k].st
    BY <1>3, <1>6 DEF Alike
  <2>2. /\ \A k \in Jobs : job'[k].st \in Busy \cup {"queued"} => job'[k].disposer = job[k].disposer
        /\ \A k \in Jobs : job'[k].st \in Busy => job[k].st \in Busy
        /\ \A k \in Jobs : job'[k].st \in {"dispose", "disposing"} =>
              job[k].st \in {"dispose", "disposing"} \/ job[k].disposer
    BY <1>3, <1>6 DEF Busy, Alike
  <2> QED BY <1>0, <1>1, <2>1, <2>2, JobsWorkers
<1>c10. Alone'
  BY <1>0, <1>1, <1>3, <1>4, <1>5, <1>6, Numbers DEF Alone, Alike, Starts
<1>c11. Hanging'
  BY <1>0, <1>1, <1>3, <1>4, <1>5, StartsHanging, Numbers DEF Alone
<1>c12. Closing'
  <2>0. SameDevices
    BY <1>6 DEF SameDevices, Alike, Ends
  <2>1. job[j].iface \in Settled'
    BY <1>0, <1>1, <1>3, <1>4, <1>5, StartsSettles, Numbers DEF Alone
  <2>2. \A k \in Jobs : job'[k].st = "disposing" => job[k].st = "disposing" \/ job[k].iface \in Settled'
    BY <1>6, <2>1
  <2> QED BY <1>0, <1>1, <1>s, <2>0, <2>2, JobsClosing
<1>c13. Owned'
  <2>0. SameDevices
    BY <1>6 DEF SameDevices, Alike, Ends
  <2>1. \A i \in Jobs : Disposing(i) => Disposing(i)'
    BY <1>3, <1>6 DEF Alike, Disposing, Busy
  <2> QED BY <1>0, <1>1, <1>s, <2>0, <2>1, JobsOwned
<1> QED BY <1>c1, <1>c3, <1>c4, <1>c5, <1>c6, <1>c7, <1>c8,
       <1>c9, <1>c10, <1>c11, <1>c12, <1>c13 DEF BleInv

\* A timer that fires either finds its job out of the way or goes on to a reset.
LEMMA KeepsWatchdogFires ==
    ASSUME BleInv, main # "done", NEW j \in Jobs, WatchdogFires(j)
    PROVE  BleInv'
<1>0. /\ Types /\ Counted /\ Shapes /\ Watched /\ Attempting /\ Clients
      /\ JobsKnown /\ Workers /\ Alone /\ Hanging /\ Closing /\ Owned
  BY DEF BleInv
<1>1. UNCHANGED <<shuttingDown, lib, iface, client, meshLock, ifaceLock, at, ble, gen, registered,
                  unresolved, teardown, call, link, main, drops>>
  BY DEF WatchdogFires, locks, lifecycle
<1>3. /\ job' \in [Jobs -> JobRecord] /\ \A k \in Jobs \ {j} : job'[k] = job[k]
      /\ job'[j].timer = IF Done(j) \/ ble.slot # j THEN "off" ELSE "firing"
      /\ job'[j].st = job[j].st /\ job'[j].kind = job[j].kind /\ job'[j].ex = job[j].ex
      /\ job'[j].iface = job[j].iface /\ job'[j].res = job[j].res /\ job'[j].disposer = job[j].disposer
  <2> DEFINE t == IF Done(j) \/ ble.slot # j THEN "off" ELSE "firing"
  <2>1. job' = [job EXCEPT ![j].timer = t] /\ job \in [Jobs -> JobRecord] /\ t \in {"off", "firing"}
    BY <1>0 DEF WatchdogFires, Types
  <2> HIDE DEF t
  <2>2. job' \in [Jobs -> JobRecord]
    BY <2>1 DEF JobRecord
  <2>3. \A k \in Jobs \ {j} : job'[k] = job[k]
    BY <2>1
  <2>4. job'[j] = [job[j] EXCEPT !.timer = t] /\ job[j] \in JobRecord
    BY <2>1
  <2> QED BY <2>2, <2>3, <2>4 DEF JobRecord, t
<1>s. Settled' = Settled
  BY <1>1 DEF Settled
<1>c1. Types'
  BY <1>0, <1>1, <1>3 DEF Types, Interfaces
<1>c3. Counted'
  BY <1>0, <1>1 DEF Counted, Owing
<1>c4. Shapes'
  BY <1>0, <1>1 DEF Shapes, Shape
<1>c5. Watched'
  <2>1. \A k \in Jobs : Waiting(k)' <=> Waiting(k)
    BY <1>1 DEF Waiting
  <2>2. ble.slot \in Jobs \cup {None}
    BY <1>0, Domains
  <2>3. ble.slot # None => job'[ble.slot].st # "none"
    BY <1>0, <1>3, <2>2 DEF Watched
  <2>4. ASSUME NEW k \in Jobs, ble.slot = k, job'[k].st \in {"queued", "running"}, ~Waiting(k)
        PROVE  job'[k].st = "running" /\ job'[k].timer \in {"armed", "firing"}
    BY <1>0, <1>3, <2>4 DEF Watched, Done
  <2> QED BY <1>0, <1>1, <2>1, <2>3, <2>4 DEF Watched
<1>c6. Attempting'
  <2>0. SameDevices
    BY <1>3 DEF SameDevices, Alike, Ends
  <2>1. \A k \in Jobs : (job[k].st # "none" => job'[k].st # "none") /\ (job[k].res \in {"ok", "wrong"} => job'[k].res \in {"ok", "wrong"})
    BY <1>0, <1>3, <1>3 DEF JobsKnown, Ends
  <2> QED BY <1>0, <1>1, <2>0, <2>1, JobsAttempting
<1>c7. Clients'
  BY <1>0, <1>1 DEF Clients, Unpublished
<1>c8. JobsKnown'
  BY <1>0, <1>1, <1>3 DEF JobsKnown
<1>c9. Workers'
  <2>1. /\ \A k \in Jobs : job'[k].ex = job[k].ex \/ (job'[k].ex = None /\ job'[k].st = "over")
        /\ \A k \in Jobs : job'[k].st \in {"queued", "running", "cancelled"} => job'[k].st = job[k].st
        /\ \A k \in Jobs : job[k].st \in {"queued", "cancelled"} => job'[k].st = job[k].st
    BY <1>3 DEF Ends
  <2>2. /\ \A k \in Jobs : job'[k].st \in Busy \cup {"queued"} => job'[k].disposer = job[k].disposer
        /\ \A k \in Jobs : job'[k].st \in Busy => job[k].st \in Busy
        /\ \A k \in Jobs : job'[k].st \in {"dispose", "disposing"} =>
              job[k].st \in {"dispose", "disposing"} \/ job[k].disposer
    BY <1>3 DEF Busy, Ends
  <2> QED BY <1>0, <1>1, <2>1, <2>2, JobsWorkers
<1>c10. Alone'
  BY <1>0, <1>1, <1>3 DEF Alone
<1>c11. Hanging'
  BY <1>0, <1>1 DEF Hanging, Pending
<1>c12. Closing'
  <2>0. SameDevices
    BY <1>3 DEF SameDevices, Alike, Ends
  <2>1. \A k \in Jobs : job'[k].st = "disposing" => job[k].st = "disposing"
    BY <1>3, <1>3 DEF Ends
  <2> QED BY <1>0, <1>1, <1>s, <2>0, <2>1, JobsClosing
<1>c13. Owned'
  <2>0. SameDevices
    BY <1>3 DEF SameDevices, Alike, Ends
  <2>1. \A i \in Jobs : Disposing(i) => Disposing(i)'
    BY <1>3, <1>3 DEF Disposing, Busy
  <2> QED BY <1>0, <1>1, <1>s, <2>0, <2>1, JobsOwned
<1> QED BY <1>c1, <1>c3, <1>c4, <1>c5, <1>c6, <1>c7, <1>c8,
       <1>c9, <1>c10, <1>c11, <1>c12, <1>c13 DEF BleInv

\* The watchdog replaces the executor, whatever the current job is by then.
LEMMA KeepsWatchdogResets ==
    ASSUME BleInv, main # "done", NEW j \in Jobs, WatchdogResets(j)
    PROVE  BleInv'
<1>0. /\ Types /\ Counted /\ Shapes /\ Watched /\ Attempting /\ Clients
      /\ JobsKnown /\ Workers /\ Alone /\ Hanging /\ Closing /\ Owned
  BY DEF BleInv
<1>1. UNCHANGED <<shuttingDown, lib, iface, client, meshLock, ifaceLock, at, gen, registered,
                  unresolved, teardown, call, link, main, drops>>
  BY DEF WatchdogResets, locks, lifecycle
<1>4. Drops
  BY <1>0, WatchdogSwitches
<1>5. Switched /\ ble'.slot = None
  BY <1>0, WatchdogSwitches
<1>s. Settled' = Settled
  BY <1>1 DEF Settled
<1>c1. Types'
  BY <1>0, <1>1, <1>4, <1>5 DEF Types, Interfaces, Drops, Switched
<1>c3. Counted'
  BY <1>0, <1>1 DEF Counted, Owing
<1>c4. Shapes'
  BY <1>0, <1>1 DEF Shapes, Shape
<1>c5. Watched'
  <2>1. \A k \in Jobs : ble'.slot # k
    BY <1>5, Numbers
  <2> QED BY <1>5, <2>1, Numbers DEF Watched, Switched
<1>c6. Attempting'
  BY <1>0, <1>1, <1>4, DropsDevices, JobsAttempting
<1>c7. Clients'
  BY <1>0, <1>1 DEF Clients, Unpublished
<1>c8. JobsKnown'
  BY <1>0, <1>1, <1>4, DropsKnown
<1>c9. Workers'
  BY <1>0, <1>1, <1>4, <1>5, DropsWorks
<1>c10. Alone'
  BY <1>0, <1>1, <1>4, DropsDevices, Numbers DEF Alone
<1>c11. Hanging'
  BY <1>0, <1>1 DEF Hanging, Pending
<1>c12. Closing'
  BY <1>0, <1>1, <1>4, <1>s, DropsDevices, JobsClosing
<1>c13. Owned'
  BY <1>0, <1>1, <1>4, <1>s, DropsDevices, JobsOwned
<1> QED BY <1>c1, <1>c3, <1>c4, <1>c5, <1>c6, <1>c7, <1>c8,
       <1>c9, <1>c10, <1>c11, <1>c12, <1>c13 DEF BleInv

\* The last step of the shutdown.
LEMMA KeepsShutdownExecutors ==
    ASSUME BleInv, main # "done", ShutdownExecutors
    PROVE  BleInv'
<1>0. /\ Types /\ Counted /\ Shapes /\ Watched /\ Attempting /\ Clients
      /\ JobsKnown /\ Workers /\ Alone /\ Hanging /\ Closing /\ Owned
  BY DEF BleInv
<1>1. UNCHANGED <<shuttingDown, lib, iface, client, meshLock, ifaceLock, at, teardown, call, link, drops>>
  BY DEF ShutdownExecutors, locks, lifecycle
<1>3. main = "executors" /\ main' = "done" /\ gen' = 0 /\ registered' = [j \in Jobs |-> 0] /\ unresolved' = [g \in Generations |-> 0]
  BY DEF ShutdownExecutors
<1>4. Drops
  BY <1>0, ShutdownSwitches
<1>5. Switched /\ ble'.slot = None
  BY <1>0, ShutdownSwitches
<1>s. Settled' = Settled
  BY <1>1 DEF Settled
<1>c1. Types'
  <2>1. gen' \in 0..(MaxAttempts + drops)
    BY <1>0, <1>3, BleAssumption DEF Types
  <2>2. registered' \in [Jobs -> Generations] /\ unresolved' \in [Generations -> Nat]
    BY <1>3, Numbers
  <2> QED BY <1>0, <1>1, <1>3, <1>4, <1>5, <2>1, <2>2 DEF Types, Drops, Switched
<1>c3. Counted'
  BY <1>3 DEF Counted
<1>c4. Shapes'
  BY <1>3 DEF Shapes
<1>c5. Watched'
  <2>1. \A k \in Jobs : ble'.slot # k
    BY <1>5, Numbers
  <2> QED BY <1>5, <2>1, Numbers DEF Watched, Switched
<1>c6. Attempting'
  BY <1>0, <1>1, <1>4, DropsDevices, JobsAttempting
<1>c7. Clients'
  BY <1>0, <1>1, <1>3 DEF Clients, Unpublished
<1>c8. JobsKnown'
  BY <1>0, <1>1, <1>4, DropsKnown
<1>c9. Workers'
  BY <1>0, <1>1, <1>4, <1>5, DropsWorks
<1>c10. Alone'
  BY <1>0, <1>1, <1>3, <1>4, DropsDevices, Numbers DEF Alone
<1>c11. Hanging'
  BY <1>0, <1>1 DEF Hanging, Pending
<1>c12. Closing'
  <2>1. \A k \in Jobs : job'[k].st = "disposing" => job[k].st = "disposing"
    BY <1>4, DropsDevices
  <2>2. at.pc = "disposed" => job'[at.job].iface = job[at.job].iface
    BY <1>0, <1>4, Domains, DropsDevices DEF Attempting, WithJob, SameDevices
  <2>3. \A k \in Jobs : job'[k].iface = job[k].iface
    BY <1>4, DropsDevices DEF SameDevices
  <2> QED BY <1>0, <1>1, <1>3, <1>s, <2>1, <2>2, <2>3 DEF Closing
<1>c13. Owned'
  BY <1>0, <1>1, <1>4, <1>s, DropsDevices, JobsOwned
<1> QED BY <1>c1, <1>c3, <1>c4, <1>c5, <1>c6, <1>c7, <1>c8,
       <1>c9, <1>c10, <1>c11, <1>c12, <1>c13 DEF BleInv

\* The shutdown begins.
LEMMA KeepsStop ==
    ASSUME BleInv, main # "done", Stop
    PROVE  BleInv'
<1>0. /\ Types /\ Counted /\ Shapes /\ Watched /\ Attempting /\ Clients
      /\ JobsKnown /\ Workers /\ Alone /\ Hanging /\ Closing /\ Owned
  BY DEF BleInv
<1>1. UNCHANGED <<lib, iface, client, meshLock, ifaceLock, at, job, ble, gen, registered, unresolved,
                  teardown, call, link, drops>>
  BY DEF Stop, locks, lifecycle
<1>3. main = "running" /\ shuttingDown' = TRUE /\ main' = "closing"
  BY <1>0 DEF Stop, Clients
<1>s. Settled' = Settled
  BY <1>1 DEF Settled
<1>c1. Types'
  BY <1>0, <1>1, <1>3 DEF Types, Interfaces
<1>c3. Counted'
  BY <1>0, <1>1, <1>3 DEF Counted, Owing
<1>c4. Shapes'
  BY <1>0, <1>1, <1>3 DEF Shapes, Shape
<1>c5. Watched'
  BY <1>0, <1>1 DEF Watched, Waiting
<1>c6. Attempting'
  BY <1>0, <1>1 DEF Attempting, WithJob
<1>c7. Clients'
  BY <1>0, <1>1, <1>3 DEF Clients, Unpublished
<1>c8. JobsKnown'
  BY <1>0, <1>1 DEF JobsKnown
<1>c9. Workers'
  BY <1>0, <1>1 DEF Workers, Waiting, Busy
<1>c10. Alone'
  BY <1>0, <1>1, <1>3 DEF Alone
<1>c11. Hanging'
  BY <1>0, <1>1 DEF Hanging, Pending
<1>c12. Closing'
  BY <1>0, <1>1, <1>3, <1>s DEF Closing
<1>c13. Owned'
  BY <1>0, <1>1, <1>s DEF Owned, Held, Disposing
<1> QED BY <1>c1, <1>c3, <1>c4, <1>c5, <1>c6, <1>c7, <1>c8,
       <1>c9, <1>c10, <1>c11, <1>c12, <1>c13 DEF BleInv

\* The shutdown finds no client,
LEMMA CloseNothing ==
    ASSUME BleInv, main # "done", CloseClient, client = None
    PROVE  BleInv'
<1>0. /\ Types /\ Counted /\ Shapes /\ Watched /\ Attempting /\ Clients
      /\ JobsKnown /\ Workers /\ Alone /\ Hanging /\ Closing /\ Owned
  BY DEF BleInv
<1>1. UNCHANGED <<shuttingDown, lib, iface, client, meshLock, ifaceLock, at, job, ble, gen, registered,
                  unresolved, teardown, call, link, drops>>
  BY DEF CloseClient, locks, lifecycle
<1>3. main = "closing" /\ main' = "executors"
  BY DEF CloseClient
<1>s. Settled' = Settled
  BY <1>1 DEF Settled
<1>c1. Types'
  BY <1>0, <1>1, <1>3 DEF Types, Interfaces
<1>c3. Counted'
  BY <1>0, <1>1, <1>3 DEF Counted, Owing
<1>c4. Shapes'
  BY <1>0, <1>1, <1>3 DEF Shapes, Shape
<1>c5. Watched'
  BY <1>0, <1>1 DEF Watched, Waiting
<1>c6. Attempting'
  BY <1>0, <1>1 DEF Attempting, WithJob
<1>c7. Clients'
  BY <1>0, <1>1, <1>3 DEF Clients, Unpublished
<1>c8. JobsKnown'
  BY <1>0, <1>1 DEF JobsKnown
<1>c9. Workers'
  BY <1>0, <1>1 DEF Workers, Waiting, Busy
<1>c10. Alone'
  BY <1>0, <1>1, <1>3 DEF Alone
<1>c11. Hanging'
  BY <1>0, <1>1 DEF Hanging, Pending
<1>c12. Closing'
  BY <1>0, <1>1, <1>3, <1>s DEF Closing
<1>c13. Owned'
  BY <1>0, <1>1, <1>s DEF Owned, Held, Disposing
<1> QED BY <1>c1, <1>c3, <1>c4, <1>c5, <1>c6, <1>c7, <1>c8,
       <1>c9, <1>c10, <1>c11, <1>c12, <1>c13 DEF BleInv

\* or begins to close it.
LEMMA CloseTears ==
    ASSUME BleInv, main # "done", CloseClient, client # None
    PROVE  BleInv'
<1>0. /\ Types /\ Counted /\ Shapes /\ Watched /\ Attempting /\ Clients
      /\ JobsKnown /\ Workers /\ Alone /\ Hanging /\ Closing /\ Owned
  BY DEF BleInv
<1>1. UNCHANGED <<shuttingDown, lib, iface, client, meshLock, ifaceLock, at, job, ble, gen, registered,
                  unresolved, call, link, drops>>
  BY <1>0 DEF CloseClient, locks, lifecycle, Clients
<1>3. main = "closing" /\ main' = "waiting"
  BY DEF CloseClient
<1>4. iface \in Jobs /\ client = iface
  BY <1>0, Domains DEF Clients
<1>5. Starts(MainThread, iface)
  <2>1. TearDown(MainThread, iface, IfaceGeneration(iface))
    BY <1>4 DEF CloseClient
  <2>2. IfaceGeneration(iface) \in Generations
    BY <1>0, <1>4, GenerationKnown
  <2> QED BY <1>0, <1>4, <2>1, <2>2, Numbers, TearDownStarts
<1>s. Settled \subseteq Settled'
  BY <1>0, <1>1, <1>3, <1>4, <1>5, StartsSettles, Numbers DEF Alone
<1>c1. Types'
  BY <1>0, <1>1, <1>3, <1>4, <1>5 DEF Types, Interfaces, Starts
<1>c3. Counted'
  BY <1>0, <1>1, <1>3 DEF Counted, Owing
<1>c4. Shapes'
  BY <1>0, <1>1, <1>3 DEF Shapes, Shape
<1>c5. Watched'
  BY <1>0, <1>1 DEF Watched, Waiting
<1>c6. Attempting'
  BY <1>0, <1>1 DEF Attempting, WithJob
<1>c7. Clients'
  BY <1>0, <1>1, <1>3, <1>4, <1>5 DEF Clients, Unpublished, Types, Interfaces, AttemptRecord, Places, Starts
<1>c8. JobsKnown'
  BY <1>0, <1>1, <1>4, <1>5 DEF JobsKnown, Starts
<1>c9. Workers'
  BY <1>0, <1>1 DEF Workers, Waiting, Busy
<1>c10. Alone'
  BY <1>0, <1>1, <1>3, <1>5, Numbers DEF Alone, Starts
<1>c11. Hanging'
  BY <1>0, <1>1, <1>3, <1>4, <1>5, StartsHanging, Numbers DEF Alone
<1>c12. Closing'
  <2>1. iface \in Settled'
    BY <1>0, <1>1, <1>3, <1>4, <1>5, StartsSettles, Numbers DEF Alone
  <2> QED BY <1>0, <1>1, <1>3, <1>4, <1>s, <2>1 DEF Closing
<1>c13. Owned'
  BY <1>0, <1>1, <1>4, <1>5, <1>s DEF Owned, Held, Disposing, Busy, Starts
<1> QED BY <1>c1, <1>c3, <1>c4, <1>c5, <1>c6, <1>c7, <1>c8,
       <1>c9, <1>c10, <1>c11, <1>c12, <1>c13 DEF BleInv

\* The shutdown goes on; somebody still closes the client or it is closed.
LEMMA KeepsClientClosed ==
    ASSUME BleInv, main # "done", ClientClosed
    PROVE  BleInv'
<1>0. /\ Types /\ Counted /\ Shapes /\ Watched /\ Attempting /\ Clients
      /\ JobsKnown /\ Workers /\ Alone /\ Hanging /\ Closing /\ Owned
  BY DEF BleInv
<1>1. UNCHANGED <<shuttingDown, lib, meshLock, ifaceLock, at, job, ble, gen, registered, unresolved,
                  teardown, call, link, drops>>
  BY DEF ClientClosed, locks, lifecycle
<1>3. main = "waiting" /\ main' = "executors" /\ iface' = None /\ client' = None
  BY DEF ClientClosed
<1>4. iface \in Settled \cup {None} /\ at.pc \in {"idle", "closing", "attempt", "setup", "rollback", "closed"}
  BY <1>0, <1>3 DEF Closing, Clients
<1>s. Settled' = Settled
  BY <1>1 DEF Settled
<1>c1. Types'
  BY <1>0, <1>1, <1>3, <1>4 DEF Types, Interfaces
<1>c3. Counted'
  BY <1>0, <1>1, <1>3 DEF Counted, Owing
<1>c4. Shapes'
  BY <1>0, <1>1, <1>3 DEF Shapes, Shape
<1>c5. Watched'
  BY <1>0, <1>1 DEF Watched, Waiting
<1>c6. Attempting'
  BY <1>0, <1>1, <1>3, <1>4 DEF Attempting, WithJob
<1>c7. Clients'
  BY <1>0, <1>1, <1>3, <1>4 DEF Clients, Unpublished
<1>c8. JobsKnown'
  BY <1>0, <1>1, <1>3, <1>4 DEF JobsKnown
<1>c9. Workers'
  BY <1>0, <1>1, <1>3, <1>4 DEF Workers, Waiting, Busy
<1>c10. Alone'
  BY <1>0, <1>1, <1>3, <1>4 DEF Alone
<1>c11. Hanging'
  BY <1>0, <1>1 DEF Hanging, Pending
<1>c12. Closing'
  BY <1>0, <1>1, <1>3, <1>4, <1>s DEF Closing
<1>c13. Owned'
  BY <1>0, <1>1, <1>3, <1>4, <1>s DEF Owned, Held, Disposing, Busy
<1> QED BY <1>c1, <1>c3, <1>c4, <1>c5, <1>c6, <1>c7, <1>c8,
       <1>c9, <1>c10, <1>c11, <1>c12, <1>c13 DEF BleInv

\* A broken link begins to be closed.
LEMMA KeepsLost ==
    ASSUME BleInv, main # "done", Lost
    PROVE  BleInv'
<1>0. /\ Types /\ Counted /\ Shapes /\ Watched /\ Attempting /\ Clients
      /\ JobsKnown /\ Workers /\ Alone /\ Hanging /\ Closing /\ Owned
  BY DEF BleInv
<1>1. UNCHANGED <<shuttingDown, lib, iface, client, ifaceLock, at, job, ble, unresolved, call, link, main>>
  BY DEF Lost, locks, lifecycle
<1>3. /\ meshLock = "free" /\ meshLock' = "lost" /\ drops < MaxDrops /\ drops' = drops + 1
      /\ gen' \in {gen, gen + 1} /\ client # None
  BY DEF Lost
<1>4. iface \in Jobs
  BY <1>0, <1>3, Domains DEF Clients
<1>6. /\ gen + 1 \in Generations /\ gen' \in Generations
      /\ drops' \in 0..MaxDrops /\ gen' \in 0..(MaxAttempts + drops')
  <2>1. gen \in Generations /\ gen \in 0..(MaxAttempts + drops) /\ drops \in 0..MaxDrops
    BY <1>0, GenerationsAre DEF Types
  <2>2. gen \in 0..(MaxAttempts + (drops + 1))
    BY <2>1, BleAssumption
  <2> QED BY <1>0, <1>3, <2>1, <2>2, GenerationsAre
<1>5. Starts(LostThread, iface)
  <2> DEFINE g == IF Addressed(iface) THEN gen + 1 ELSE IfaceGeneration(iface)
  <2>1. TearDown(LostThread, iface, g)
    BY DEF Lost
  <2>2. g \in Generations
    BY <1>0, <1>4, <1>6, GenerationKnown
  <2> HIDE DEF g
  <2> QED BY <1>0, <1>4, <2>1, <2>2, Numbers, TearDownStarts
<1>7. registered' \in [Jobs -> Generations]
  BY <1>0, <1>6 DEF Lost, Types
<1>8. at.pc = "idle" \/ (at.pc = "rollback" /\ at.assigned)
  BY <1>0, <1>3 DEF Clients, Unpublished, Types, AttemptRecord, Places
<1>s. Settled \subseteq Settled'
  BY <1>0, <1>1, <1>3, <1>4, <1>5, StartsSettles, Numbers DEF Alone
<1>c1. Types'
  BY <1>0, <1>1, <1>3, <1>4, <1>6, <1>5, <1>7, <1>8 DEF Types, Interfaces, Starts
<1>c3. Counted'
  BY <1>0, <1>1 DEF Counted, Owing
<1>c4. Shapes'
  BY <1>0, <1>1 DEF Shapes, Shape
<1>c5. Watched'
  BY <1>0, <1>1 DEF Watched, Waiting
<1>c6. Attempting'
  BY <1>0, <1>1 DEF Attempting, WithJob
<1>c7. Clients'
  BY <1>0, <1>1, <1>3, <1>4, <1>5, <1>8 DEF Clients, Unpublished, Starts
<1>c8. JobsKnown'
  BY <1>0, <1>1, <1>4, <1>5 DEF JobsKnown, Starts
<1>c9. Workers'
  BY <1>0, <1>1 DEF Workers, Waiting, Busy
<1>c10. Alone'
  BY <1>0, <1>1, <1>3, <1>5, <1>8, Numbers DEF Alone, Starts
<1>c11. Hanging'
  BY <1>0, <1>1, <1>3, <1>4, <1>5, StartsHanging, Numbers DEF Alone
<1>c12. Closing'
  <2>1. iface \in Settled'
    BY <1>0, <1>1, <1>3, <1>4, <1>5, StartsSettles, Numbers DEF Alone
  <2> QED BY <1>0, <1>1, <1>3, <1>4, <1>s, <2>1 DEF Closing
<1>c13. Owned'
  BY <1>0, <1>1, <1>4, <1>5, <1>8, <1>s DEF Owned, Held, Disposing, Busy, Starts
<1> QED BY <1>c1, <1>c3, <1>c4, <1>c5, <1>c6, <1>c7, <1>c8,
       <1>c9, <1>c10, <1>c11, <1>c12, <1>c13 DEF BleInv

\* What was lost is forgotten after it was closed, with the executor of a job in the way.
LEMMA KeepsLostClosed ==
    ASSUME BleInv, main # "done", LostClosed
    PROVE  BleInv'
<1>0. /\ Types /\ Counted /\ Shapes /\ Watched /\ Attempting /\ Clients
      /\ JobsKnown /\ Workers /\ Alone /\ Hanging /\ Closing /\ Owned
  BY DEF BleInv
<1>1. UNCHANGED <<shuttingDown, lib, ifaceLock, at, gen, registered, unresolved, teardown, call, link,
                  main, drops>>
  BY DEF LostClosed, locks, lifecycle
<1>3. /\ meshLock = "lost" /\ teardown[LostThread].iface = None /\ iface' = None /\ client' = None /\ meshLock' = "free"
  BY DEF LostClosed, Tearing
<1>6. (at.pc = "idle" \/ (at.pc = "rollback" /\ at.assigned)) /\ iface \in Settled \cup {None}
  BY <1>0, <1>3 DEF Clients, Closing
<1>4. Drops
  BY <1>0, <1>6, LostSwitches
<1>5. Switched /\ ble'.slot \in {None, ble.slot} /\ (ble'.slot # None => job' = job)
  BY <1>0, <1>6, LostSwitches
<1>s. Settled' = Settled
  BY <1>1 DEF Settled
<1>c1. Types'
  BY <1>0, <1>1, <1>3, <1>6, <1>4, <1>5 DEF Types, Interfaces, Drops, Switched
<1>c3. Counted'
  BY <1>0, <1>1 DEF Counted, Owing
<1>c4. Shapes'
  BY <1>0, <1>1 DEF Shapes, Shape
<1>c5. Watched'
  <2>1. CASE ble'.slot = None
    BY <1>5, <2>1, Numbers DEF Watched, Switched
  <2>2. CASE ble'.slot = ble.slot /\ job' = job
    BY <1>0, <1>1, <1>5, <2>2 DEF Watched, Switched, Waiting
  <2> QED BY <1>5, <2>1, <2>2
<1>c6. Attempting'
  BY <1>0, <1>1, <1>6 DEF Attempting, WithJob
<1>c7. Clients'
  BY <1>0, <1>1, <1>3, <1>6 DEF Clients, Unpublished
<1>c8. JobsKnown'
  BY <1>0, <1>1, <1>3, <1>4, DropsKnown
<1>c9. Workers'
  BY <1>0, <1>1, <1>3, <1>4, <1>5, DropsWorks
<1>c10. Alone'
  BY <1>0, <1>1, <1>3, <1>4, DropsDevices, Numbers DEF Alone
<1>c11. Hanging'
  BY <1>0, <1>1 DEF Hanging, Pending
<1>c12. Closing'
  <2>1. \A k \in Jobs : job'[k].st = "disposing" => job[k].st = "disposing"
    BY <1>4, DropsDevices
  <2>3. \A k \in Jobs : job'[k].iface = job[k].iface
    BY <1>4, DropsDevices DEF SameDevices
  <2>4. at.client # None => at.client \in Settled
    BY <1>0, <1>6 DEF Closing
  <2> QED BY <1>0, <1>1, <1>3, <1>6, <1>s, <2>1, <2>3, <2>4, Numbers DEF Closing
<1>c13. Owned'
  <2>1. \A i \in Jobs : ~Held(i)
    BY <1>6 DEF Held
  <2>2. \A i \in Jobs : Disposing(i) => Disposing(i)'
    BY <1>4, DropsDevices
  <2> QED BY <1>0, <1>1, <1>6, <1>s, <2>1, <2>2, Numbers DEF Owned
<1> QED BY <1>c1, <1>c3, <1>c4, <1>c5, <1>c6, <1>c7, <1>c8,
       <1>c9, <1>c10, <1>c11, <1>c12, <1>c13 DEF BleInv

\* A library call of a teardown ends in time.
LEMMA KeepsCallEnds ==
    ASSUME BleInv, main # "done", NEW t \in Threads, CallEnds(t)
    PROVE  BleInv'
<1>0. /\ Types /\ Counted /\ Shapes /\ Watched /\ Attempting /\ Clients
      /\ JobsKnown /\ Workers /\ Alone /\ Hanging /\ Closing /\ Owned
  BY DEF BleInv
<1>1. UNCHANGED <<shuttingDown, lib, iface, client, meshLock, ifaceLock, at, job, ble, gen, unresolved,
                  call, main, drops>>
  BY DEF CallEnds, locks, lifecycle
<1>3. teardown[t].iface # None /\ teardown[t].call = None /\ teardown[t].iface \in Jobs
  BY <1>0, Domains DEF CallEnds, Tearing
<1>4. PICK ok \in BOOLEAN :
         /\ \E d \in NextCalls(teardown[t], ok) : GoesOn(t, d)
         /\ ok \/ teardown[t].phase # "close"
         /\ link' = IF ok THEN [link EXCEPT ![teardown[t].iface] = "closed"] ELSE link
  BY DEF CallEnds
<1>5. Continues(t)
  BY <1>0, <1>3, <1>4, GoesOnContinues
<1>6. /\ link' \in [Jobs -> {"none", "open", "closed"}] /\ \A k \in Jobs : link'[k] = link[k] \/ link'[k] = "closed"
      /\ \A k \in Jobs : link'[k] # "none" <=> link[k] # "none"
      /\ teardown'[t].iface = None => link'[teardown[t].iface] = "closed"
  <2>1. link \in [Jobs -> {"none", "open", "closed"}] /\ link[teardown[t].iface] # "none"
    BY <1>0, <1>3 DEF Types, JobsKnown
  <2> QED BY <1>3, <1>4, <1>5, <2>1 DEF Continues
<1>s. Settled \subseteq Settled'
  BY <1>1, <1>5, <1>6 DEF Settled, Continues
<1>c1. Types'
  BY <1>0, <1>1, <1>3, <1>4, <1>5, <1>6 DEF Types, Interfaces, Continues
<1>c3. Counted'
  BY <1>0, <1>1 DEF Counted, Owing
<1>c4. Shapes'
  BY <1>0, <1>1 DEF Shapes, Shape
<1>c5. Watched'
  BY <1>0, <1>1 DEF Watched, Waiting
<1>c6. Attempting'
  BY <1>0, <1>1 DEF Attempting, WithJob
<1>c7. Clients'
  BY <1>0, <1>1 DEF Clients, Unpublished
<1>c8. JobsKnown'
  <2>1. \A s \in Threads : teardown'[s].iface \in {teardown[s].iface, None}
    BY <1>5 DEF Continues
  <2>2. \A s \in Threads : teardown'[s].iface # None => link[teardown'[s].iface] # "none" /\ teardown'[s].iface \in Jobs
    BY <1>0, <2>1, Domains DEF JobsKnown
  <2> QED BY <1>0, <1>1, <1>6, <2>2, Domains DEF JobsKnown
<1>c9. Workers'
  BY <1>0, <1>1 DEF Workers, Waiting, Busy
<1>c10. Alone'
  <2>1. \A s \in Threads : teardown'[s].iface # None => teardown[s].iface # None
    BY <1>3, <1>5 DEF Continues
  <2> QED BY <1>0, <1>1, <2>1, Numbers DEF Alone
<1>c11. Hanging'
  <2>1. \A s \in Threads : teardown'[s].call # None => s # t /\ teardown'[s] = teardown[s]
    BY <1>5 DEF Continues
  <2>2. \A c \in Calls : call[c].waiter \in Pending => call[c].by \in Threads \ {t}
    BY <1>0, <1>3, Domains, Numbers DEF Hanging
  <2>3. \A c \in Calls : call[c].iface \in Jobs \cup {None} /\ call'[c] = call[c]
    BY <1>0, <1>1 DEF Types, CallRecord, Interfaces
  <2>4. \A s \in Threads : teardown'[s].call # None =>
           call'[teardown'[s].call].waiter \in Pending /\ call'[teardown'[s].call].by = s
    BY <1>0, <1>1, <2>1 DEF Hanging
  <2>5. \A c \in Calls : call'[c].waiter \in Pending =>
            /\ teardown'[call'[c].by].call = c /\ call'[c].iface # None
            /\ teardown'[call'[c].by].iface = call'[c].iface
            /\ call'[c].st \in {"done", "exited"} => link'[call'[c].iface] = "closed"
    BY <1>0, <1>5, <1>6, <2>2, <2>3 DEF Hanging, Continues
  <2>6. \A c \in Calls : call'[c].st = "acting" => call'[c].iface # None /\ link'[call'[c].iface] # "none"
    BY <1>0, <1>6, <2>3 DEF Hanging
  <2> QED BY <2>4, <2>5, <2>6 DEF Hanging
<1>c12. Closing'
  BY <1>0, <1>1, <1>s DEF Closing
<1>c13. Owned'
  BY <1>0, <1>1, <1>6, <1>s DEF Owned, Held, Disposing
<1> QED BY <1>c1, <1>c3, <1>c4, <1>c5, <1>c6, <1>c7, <1>c8,
       <1>c9, <1>c10, <1>c11, <1>c12, <1>c13 DEF BleInv

\* A library call does not end in time.
LEMMA KeepsCallTimesOut ==
    ASSUME BleInv, main # "done", NEW t \in Threads, CallTimesOut(t)
    PROVE  BleInv'
<1>0. /\ Types /\ Counted /\ Shapes /\ Watched /\ Attempting /\ Clients
      /\ JobsKnown /\ Workers /\ Alone /\ Hanging /\ Closing /\ Owned
  BY DEF BleInv
<1>1. UNCHANGED <<shuttingDown, lib, iface, client, meshLock, ifaceLock, at, job, ble, gen, registered,
                  unresolved, link, main, drops>>
  BY DEF CallTimesOut, locks, lifecycle
<1>3. teardown[t].iface # None /\ teardown[t].call = None /\ teardown[t].iface \in Jobs
  BY <1>0, Domains DEF CallTimesOut, Tearing
<1>4. PICK c \in Calls :
         /\ call[c].st = "none" /\ teardown' = [teardown EXCEPT ![t].call = c]
         /\ call' = [call EXCEPT ![c] = [NoCall EXCEPT !.st = "acting", !.waiter = "record",
                                          !.by = t, !.iface = teardown[t].iface, !.gen = teardown[t].gen]]
  BY DEF CallTimesOut
<1>5. /\ teardown' \in [Threads -> TeardownRecord] /\ teardown'[t].call = c
      /\ teardown'[t].iface = teardown[t].iface /\ teardown'[t].gen = teardown[t].gen
      /\ \A s \in Threads \ {t} : teardown'[s] = teardown[s]
  <2>1. teardown \in [Threads -> TeardownRecord]
    BY <1>0 DEF Types
  <2>2. teardown' \in [Threads -> TeardownRecord]
    BY <1>4, <2>1 DEF TeardownRecord
  <2> QED BY <1>4, <2>1, <2>2 DEF TeardownRecord
<1>6. /\ call' \in [Calls -> CallRecord] /\ \A k \in Calls \ {c} : call'[k] = call[k]
      /\ call'[c].st = "acting" /\ call'[c].waiter = "record" /\ call'[c].by = t
      /\ call'[c].iface = teardown[t].iface /\ call'[c].gen = teardown[t].gen
      /\ ~call'[c].recorded /\ ~call'[c].timedOut /\ ~call'[c].resolved
  <2> DEFINE n == [NoCall EXCEPT !.st = "acting", !.waiter = "record",
                                          !.by = t, !.iface = teardown[t].iface, !.gen = teardown[t].gen]
  <2>1. call \in [Calls -> CallRecord] /\ teardown[t].iface \in Interfaces /\ teardown[t].gen \in Generations
    BY <1>0 DEF Types, TeardownRecord
  <2>2. /\ n \in CallRecord /\ n.st = "acting" /\ n.waiter = "record" /\ n.by = t /\ n.iface = teardown[t].iface
        /\ n.gen = teardown[t].gen /\ ~n.recorded /\ ~n.timedOut /\ ~n.resolved
    BY <2>1, Numbers DEF CallRecord, NoCall
  <2>3. call' = [call EXCEPT ![c] = n]
    BY <1>4
  <2> HIDE DEF n
  <2> QED BY <2>1, <2>2, <2>3
<1>7. call[c].waiter = "none" /\ ~call[c].recorded
  BY <1>0, <1>4 DEF Shapes, Shape
<1>s. Settled \subseteq Settled'
  BY <1>1, <1>3, <1>4, <1>5, <1>6 DEF Settled
<1>c1. Types'
  BY <1>0, <1>1, <1>3, <1>4, <1>5, <1>6, <1>7 DEF Types, Interfaces
<1>c3. Counted'
  BY <1>0, <1>1, <1>6, <1>7, OwesSame DEF Owes
<1>c4. Shapes'
  BY <1>0, <1>1, <1>4, <1>6, <1>7 DEF Shapes, Shape, Interfaces
<1>c5. Watched'
  BY <1>0, <1>1 DEF Watched, Waiting
<1>c6. Attempting'
  BY <1>0, <1>1 DEF Attempting, WithJob
<1>c7. Clients'
  BY <1>0, <1>1 DEF Clients, Unpublished
<1>c8. JobsKnown'
  BY <1>0, <1>1, <1>3, <1>4, <1>5, <1>6 DEF JobsKnown, Interfaces
<1>c9. Workers'
  BY <1>0, <1>1 DEF Workers, Waiting, Busy
<1>c10. Alone'
  BY <1>0, <1>1, <1>3, <1>4, <1>5, <1>6 DEF Alone, Interfaces
<1>c11. Hanging'
  <2>1. \A s \in Threads : teardown'[s].iface = teardown[s].iface
    BY <1>5
  <2>2. \A s \in Threads : teardown[s].call # None => teardown[s].call \in Calls \ {c}
    BY <1>0, <1>7, Domains DEF Hanging, Pending
  <2>3. \A s \in Threads : teardown'[s].call # None =>
           call'[teardown'[s].call].waiter \in Pending /\ call'[teardown'[s].call].by = s
    BY <1>0, <1>5, <1>6, <2>2 DEF Hanging, Pending
  <2>4. \A k \in Calls : k # c /\ call[k].waiter \in Pending => call[k].by \in Threads \ {t}
    BY <1>0, <1>3, Domains, Numbers DEF Hanging
  <2>5. \A k \in Calls : call'[k].waiter \in Pending =>
            /\ teardown'[call'[k].by].call = k /\ call'[k].iface # None
            /\ teardown'[call'[k].by].iface = call'[k].iface
            /\ call'[k].st \in {"done", "exited"} => link'[call'[k].iface] = "closed"
    BY <1>0, <1>1, <1>3, <1>5, <1>6, <2>4 DEF Hanging
  <2>6. \A k \in Calls : call'[k].st = "acting" => call'[k].iface # None /\ link'[call'[k].iface] # "none"
    BY <1>0, <1>1, <1>3, <1>6 DEF Hanging, JobsKnown
  <2> QED BY <2>3, <2>5, <2>6 DEF Hanging
<1>c12. Closing'
  BY <1>0, <1>1, <1>s DEF Closing
<1>c13. Owned'
  BY <1>0, <1>1, <1>s DEF Owned, Held, Disposing
<1> QED BY <1>c1, <1>c3, <1>c4, <1>c5, <1>c6, <1>c7, <1>c8,
       <1>c9, <1>c10, <1>c11, <1>c12, <1>c13 DEF BleInv

\* The timeout is recorded before it is flagged.
LEMMA KeepsRecord ==
    ASSUME BleInv, main # "done", NEW c \in Calls, RecordTeardownTimeout(c)
    PROVE  BleInv'
<1>0. /\ Types /\ Counted /\ Shapes /\ Watched /\ Attempting /\ Clients
      /\ JobsKnown /\ Workers /\ Alone /\ Hanging /\ Closing /\ Owned
  BY DEF BleInv
<1>1. UNCHANGED <<shuttingDown, lib, iface, client, meshLock, ifaceLock, at, job, ble, gen, registered,
                  teardown, link, main, drops>>
  BY DEF RecordTeardownTimeout, locks, lifecycle
<1>3. /\ call[c].waiter = "record" /\ ~call[c].recorded /\ ~call[c].resolved
      /\ call[c].gen \in Generations /\ call[c].gen \in Nat
  BY <1>0, Numbers DEF RecordTeardownTimeout, Shapes, Shape, Types, CallRecord
<1> DEFINE counts == call[c].gen > 0
<1>4. /\ unresolved' = IF counts THEN [unresolved EXCEPT ![call[c].gen] = @ + 1] ELSE unresolved
      /\ call' = [call EXCEPT ![c].waiter = "flag", ![c].recorded = counts] /\ counts \in BOOLEAN
  BY <1>3 DEF RecordTeardownTimeout
<1>9. counts <=> call[c].gen > 0
  OBVIOUS
<1> HIDE DEF counts
<1>5. Changes(c)
  <2>1. call \in [Calls -> CallRecord]
    BY <1>0 DEF Types
  <2>2. call' \in [Calls -> CallRecord]
    <3> DEFINE n == [call[c] EXCEPT !.waiter = "flag", !.recorded = counts]
    <3>1. n \in CallRecord
      BY <1>4, <2>1 DEF CallRecord
    <3>2. call' = [call EXCEPT ![c] = n]
      BY <2>1, <1>4
    <3> HIDE DEF n
    <3> QED BY <2>1, <3>1, <3>2
  <2> QED BY <1>4, <2>1, <2>2 DEF Changes, CallRecord
<1>6. call'[c].st = call[c].st /\ call'[c].waiter = "flag" /\ call'[c].recorded = counts /\ call'[c].timedOut = call[c].timedOut /\ call'[c].resolved = call[c].resolved
  <2>1. call \in [Calls -> CallRecord]
    BY <1>0 DEF Types
  <2> QED BY <1>4, <2>1 DEF CallRecord
<1>s. Settled \subseteq Settled'
  BY <1>1, <1>5, <1>6 DEF Settled, Changes
<1>c1. Types'
  <2>1. unresolved' \in [Generations -> Nat]
    BY <1>0, <1>3, <1>4 DEF Types
  <2> QED BY <1>0, <1>1, <1>5, <2>1 DEF Types, Changes
<1>c3. Counted'
  <2>1. ~Owes(c) /\ (Owes(c)' <=> counts) /\ call'[c].gen = call[c].gen
    BY <1>3, <1>4, <1>5, <1>6 DEF Owes, Changes
  <2>2. \A k \in Calls \ {c} : call'[k] = call[k]
    BY <1>5 DEF Changes
  <2>3. CASE counts
    BY <1>0, <1>1, <1>4, <2>1, <2>2, <2>3, OwesMore
  <2>4. CASE ~counts
    BY <1>0, <1>1, <1>4, <2>1, <2>2, <2>4, OwesSame
  <2> QED BY <2>3, <2>4
<1>c4. Shapes'
  <2>1. Shape(call'[c])
    BY <1>0, <1>3, <1>4, <1>5, <1>6, <1>9 DEF Shapes, Shape, Changes
  <2> QED BY <1>0, <1>1, <1>5, <2>1 DEF Shapes, Changes
<1>c5. Watched'
  BY <1>0, <1>1 DEF Watched, Waiting
<1>c6. Attempting'
  BY <1>0, <1>1 DEF Attempting, WithJob
<1>c7. Clients'
  BY <1>0, <1>1 DEF Clients, Unpublished
<1>c8. JobsKnown'
  BY <1>0, <1>1 DEF JobsKnown
<1>c9. Workers'
  BY <1>0, <1>1 DEF Workers, Waiting, Busy
<1>c10. Alone'
  BY <1>0, <1>1 DEF Alone
<1>c11. Hanging'
  BY <1>0, <1>1, <1>3, <1>5, <1>6, StillHanging DEF Pending, Types, Hanging
<1>c12. Closing'
  BY <1>0, <1>1, <1>s DEF Closing
<1>c13. Owned'
  BY <1>0, <1>1, <1>s DEF Owned, Held, Disposing
<1> QED BY <1>c1, <1>c3, <1>c4, <1>c5, <1>c6, <1>c7, <1>c8,
       <1>c9, <1>c10, <1>c11, <1>c12, <1>c13 DEF BleInv

\* The timeout is flagged.
LEMMA KeepsFlag ==
    ASSUME BleInv, main # "done", NEW c \in Calls, FlagTimeout(c)
    PROVE  BleInv'
<1>0. /\ Types /\ Counted /\ Shapes /\ Watched /\ Attempting /\ Clients
      /\ JobsKnown /\ Workers /\ Alone /\ Hanging /\ Closing /\ Owned
  BY DEF BleInv
<1>1. UNCHANGED <<shuttingDown, lib, iface, client, meshLock, ifaceLock, at, job, ble, gen, registered,
                  unresolved, teardown, link, main, drops>>
  BY DEF FlagTimeout, locks, lifecycle
<1>3. call[c].waiter = "flag" /\ call' = [call EXCEPT ![c].waiter = "recheck", ![c].timedOut = TRUE]
  BY DEF FlagTimeout
<1>5. Changes(c)
  <2>1. call \in [Calls -> CallRecord]
    BY <1>0 DEF Types
  <2>2. call' \in [Calls -> CallRecord]
    <3> DEFINE n == [call[c] EXCEPT !.waiter = "recheck", !.timedOut = TRUE]
    <3>1. n \in CallRecord
      BY <2>1 DEF CallRecord
    <3>2. call' = [call EXCEPT ![c] = n]
      BY <2>1, <1>3
    <3> HIDE DEF n
    <3> QED BY <2>1, <3>1, <3>2
  <2> QED BY <1>3, <2>1, <2>2 DEF Changes, CallRecord
<1>6. call'[c].st = call[c].st /\ call'[c].waiter = "recheck" /\ call'[c].recorded = call[c].recorded /\ call'[c].timedOut /\ call'[c].resolved = call[c].resolved
  <2>1. call \in [Calls -> CallRecord]
    BY <1>0 DEF Types
  <2> QED BY <1>3, <2>1 DEF CallRecord
<1>s. Settled \subseteq Settled'
  BY <1>1, <1>5, <1>6 DEF Settled, Changes
<1>c1. Types'
  BY <1>0, <1>1, <1>5 DEF Types, Changes
<1>c3. Counted'
  BY <1>0, <1>1, <1>5, <1>6, OwesSame DEF Owes, Changes
<1>c4. Shapes'
  <2>1. Shape(call'[c])
    BY <1>0, <1>3, <1>5, <1>6 DEF Shapes, Shape, Changes
  <2> QED BY <1>0, <1>1, <1>5, <2>1 DEF Shapes, Changes
<1>c5. Watched'
  BY <1>0, <1>1 DEF Watched, Waiting
<1>c6. Attempting'
  BY <1>0, <1>1 DEF Attempting, WithJob
<1>c7. Clients'
  BY <1>0, <1>1 DEF Clients, Unpublished
<1>c8. JobsKnown'
  BY <1>0, <1>1 DEF JobsKnown
<1>c9. Workers'
  BY <1>0, <1>1 DEF Workers, Waiting, Busy
<1>c10. Alone'
  BY <1>0, <1>1 DEF Alone
<1>c11. Hanging'
  <2>1. call[c].waiter \in Pending /\ call'[c].waiter \in Pending
    BY <1>3, <1>6 DEF Pending
  <2>2. link' \in [Jobs -> {"none", "open", "closed"}] /\ \A k \in Jobs : link'[k] = link[k]
    BY <1>0, <1>1 DEF Types
  <2>3. call[c].st \in {"done", "exited"} => link'[call[c].iface] = "closed"
    BY <1>0, <1>1, <2>1 DEF Hanging
  <2> QED BY <1>0, <1>1, <1>5, <1>6, <2>1, <2>2, <2>3, StillHanging
<1>c12. Closing'
  BY <1>0, <1>1, <1>s DEF Closing
<1>c13. Owned'
  BY <1>0, <1>1, <1>s DEF Owned, Held, Disposing
<1> QED BY <1>c1, <1>c3, <1>c4, <1>c5, <1>c6, <1>c7, <1>c8,
       <1>c9, <1>c10, <1>c11, <1>c12, <1>c13 DEF BleInv

\* The helper thread comes back from a late call.
LEMMA KeepsHelperDone ==
    ASSUME BleInv, main # "done", NEW c \in Calls, HelperDone(c)
    PROVE  BleInv'
<1>0. /\ Types /\ Counted /\ Shapes /\ Watched /\ Attempting /\ Clients
      /\ JobsKnown /\ Workers /\ Alone /\ Hanging /\ Closing /\ Owned
  BY DEF BleInv
<1>1. UNCHANGED <<shuttingDown, lib, iface, client, meshLock, ifaceLock, at, job, ble, gen, registered,
                  unresolved, teardown, main, drops>>
  BY DEF HelperDone, locks, lifecycle
<1>3. call[c].st = "acting" /\ call' = [call EXCEPT ![c].st = "done"] /\ link' = [link EXCEPT ![call[c].iface] = "closed"]
  BY DEF HelperDone
<1>4. call[c].iface \in Jobs
  BY <1>0, <1>3 DEF Hanging, Types, CallRecord, Interfaces
<1>5. Changes(c)
  <2>1. call \in [Calls -> CallRecord]
    BY <1>0 DEF Types
  <2>2. call' \in [Calls -> CallRecord]
    <3> DEFINE n == [call[c] EXCEPT !.st = "done"]
    <3>1. n \in CallRecord
      BY <2>1 DEF CallRecord
    <3>2. call' = [call EXCEPT ![c] = n]
      BY <2>1, <1>3
    <3> HIDE DEF n
    <3> QED BY <2>1, <3>1, <3>2
  <2> QED BY <1>3, <2>1, <2>2 DEF Changes, CallRecord
<1>6. call'[c].st = "done" /\ call'[c].waiter = call[c].waiter /\ call'[c].recorded = call[c].recorded /\ call'[c].timedOut = call[c].timedOut /\ call'[c].resolved = call[c].resolved
  <2>1. call \in [Calls -> CallRecord]
    BY <1>0 DEF Types
  <2> QED BY <1>3, <2>1 DEF CallRecord
<1>7. /\ link' \in [Jobs -> {"none", "open", "closed"}] /\ link'[call[c].iface] = "closed"
      /\ \A k \in Jobs : link'[k] \in {link[k], "closed"}
  BY <1>0, <1>3, <1>4 DEF Types
<1>8. link[call[c].iface] # "none"
  BY <1>0, <1>3 DEF Hanging
<1>s. Settled \subseteq Settled'
  BY <1>1, <1>4, <1>5, <1>6, <1>7 DEF Settled, Changes
<1>c1. Types'
  BY <1>0, <1>1, <1>5, <1>7 DEF Types, Changes
<1>c3. Counted'
  BY <1>0, <1>1, <1>5, <1>6, OwesSame DEF Owes, Changes
<1>c4. Shapes'
  <2>1. Shape(call'[c])
    BY <1>0, <1>3, <1>5, <1>6 DEF Shapes, Shape, Changes
  <2> QED BY <1>0, <1>1, <1>5, <2>1 DEF Shapes, Changes
<1>c5. Watched'
  BY <1>0, <1>1 DEF Watched, Waiting
<1>c6. Attempting'
  BY <1>0, <1>1 DEF Attempting, WithJob
<1>c7. Clients'
  BY <1>0, <1>1 DEF Clients, Unpublished
<1>c8. JobsKnown'
  BY <1>0, <1>1, <1>3, <1>7, <1>8 DEF JobsKnown
<1>c9. Workers'
  BY <1>0, <1>1 DEF Workers, Waiting, Busy
<1>c10. Alone'
  BY <1>0, <1>1 DEF Alone
<1>c11. Hanging'
  BY <1>0, <1>1, <1>3, <1>5, <1>6, <1>7, StillHanging DEF Pending, Types, Hanging
<1>c12. Closing'
  BY <1>0, <1>1, <1>s DEF Closing
<1>c13. Owned'
  BY <1>0, <1>1, <1>7, <1>s DEF Owned, Held, Disposing
<1> QED BY <1>c1, <1>c3, <1>c4, <1>c5, <1>c6, <1>c7, <1>c8,
       <1>c9, <1>c10, <1>c11, <1>c12, <1>c13 DEF BleInv

\* The waiter looks once more and goes on: an interface whose last call hangs is still being closed.
LEMMA KeepsRecheck ==
    ASSUME BleInv, main # "done", NEW c \in Calls, Recheck(c)
    PROVE  BleInv'
<1>0. /\ Types /\ Counted /\ Shapes /\ Watched /\ Attempting /\ Clients
      /\ JobsKnown /\ Workers /\ Alone /\ Hanging /\ Closing /\ Owned
  BY DEF BleInv
<1>1. UNCHANGED <<shuttingDown, lib, iface, client, meshLock, ifaceLock, at, job, ble, gen, link, main,
                  drops>>
  BY DEF Recheck, locks, lifecycle
<1>3. call[c].waiter = "recheck"
  BY DEF Recheck
<1>4. /\ call[c].by \in Threads /\ teardown[call[c].by].call = c /\ call[c].iface \in Jobs
      /\ teardown[call[c].by].iface = call[c].iface
      /\ call[c].st \in {"done", "exited"} => link[call[c].iface] = "closed"
  BY <1>0, <1>3, Domains DEF Hanging, Pending, Types, CallRecord, Interfaces
<1>5. Continues(call[c].by)
  <2>1. PICK d \in NextCalls(teardown[call[c].by], FALSE) : GoesOn(call[c].by, d)
    BY DEF Recheck
  <2>2. teardown[call[c].by].iface # None
    BY <1>4, Numbers
  <2> QED BY <1>0, <1>4, <2>1, <2>2, GoesOnContinues
<1>6. Rechecks(c)
  BY <1>0, RecheckSees
<1>s. Settled \subseteq Settled'
  <2>1. call[c].st \in {"acting", "done", "exited"}
    BY <1>0, <1>3 DEF Types, CallRecord, Shapes, Shape
  <2>2. call[c].iface \in Settled'
    BY <1>1, <1>4, <1>6, <2>1 DEF Settled, Rechecks
  <2>3. \A t \in Threads : teardown[t].iface = teardown'[t].iface \/ teardown[t].iface = call[c].iface
    BY <1>4, <1>5 DEF Continues
  <2>4. \A k \in Calls : call[k].st = "acting" => call'[k].st = "acting" /\ call'[k].iface = call[k].iface
    BY <1>6 DEF Rechecks
  <2> QED BY <1>1, <2>2, <2>3, <2>4 DEF Settled
<1>c1. Types'
  <2>1. unresolved' \in [Generations -> Nat]
    BY <1>0, <1>6 DEF Rechecks, Types
  <2> QED BY <1>0, <1>1, <1>5, <1>6, <2>1 DEF Types, Rechecks, Continues
<1>c3. Counted'
  BY <1>6 DEF Rechecks
<1>c4. Shapes'
  <2>0. call[c].st \in {"acting", "done", "exited"}
    BY <1>0, <1>3 DEF Shapes, Shape, Types, CallRecord
  <2>2. ASSUME call[c].st = "acting" PROVE Shape(call'[c])
    BY <1>6, <2>0, <2>2 DEF Shape, Rechecks
  <2>3. ASSUME call[c].st = "done" PROVE Shape(call'[c])
    BY <1>6, <2>0, <2>3 DEF Shape, Rechecks
  <2>4. ASSUME call[c].st = "exited" PROVE Shape(call'[c])
    BY <1>6, <2>0, <2>4 DEF Shape, Rechecks
  <2>1. Shape(call'[c])
    BY <2>0, <2>2, <2>3, <2>4
  <2> QED BY <1>0, <1>1, <1>6, <2>1 DEF Shapes, Rechecks
<1>c5. Watched'
  BY <1>0, <1>1 DEF Watched, Waiting
<1>c6. Attempting'
  BY <1>0, <1>1 DEF Attempting, WithJob
<1>c7. Clients'
  BY <1>0, <1>1 DEF Clients, Unpublished
<1>c8. JobsKnown'
  <2>1. \A s \in Threads : teardown'[s].iface \in {teardown[s].iface, None}
    BY <1>4, <1>5 DEF Continues
  <2> QED BY <1>0, <1>1, <2>1, Domains DEF JobsKnown
<1>c9. Workers'
  BY <1>0, <1>1 DEF Workers, Waiting, Busy
<1>c10. Alone'
  <2>1. \A s \in Threads : teardown'[s].iface # None => teardown[s].iface # None
    BY <1>4, <1>5, Numbers DEF Continues
  <2> QED BY <1>0, <1>1, <2>1, Numbers DEF Alone
<1>c11. Hanging'
  <2>1. \A s \in Threads : teardown'[s].call # None =>
           s # call[c].by /\ teardown'[s] = teardown[s] /\ teardown[s].call \in Calls \ {c}
    BY <1>0, <1>4, <1>5, Domains DEF Continues, Hanging
  <2>2. \A k \in Calls : call'[k].waiter \in Pending => k # c /\ call'[k] = call[k]
    BY <1>6 DEF Rechecks, Pending
  <2>3. \A k \in Calls : call'[k].waiter \in Pending => call[k].by \in Threads \ {call[c].by}
    BY <1>0, <1>4, <2>2, Domains DEF Hanging
  <2>4. \A s \in Threads : teardown'[s].call # None =>
           call'[teardown'[s].call].waiter \in Pending /\ call'[teardown'[s].call].by = s
    BY <1>0, <1>6, <2>1 DEF Hanging, Rechecks
  <2>5. \A k \in Calls : call'[k].waiter \in Pending =>
            /\ teardown'[call'[k].by].call = k /\ call'[k].iface # None
            /\ teardown'[call'[k].by].iface = call'[k].iface
            /\ call'[k].st \in {"done", "exited"} => link'[call'[k].iface] = "closed"
    BY <1>0, <1>1, <1>5, <2>2, <2>3 DEF Hanging, Continues
  <2>6. \A k \in Calls : call'[k].st = "acting" => call'[k].iface # None /\ link'[call'[k].iface] # "none"
    BY <1>0, <1>1, <1>6 DEF Hanging, Rechecks
  <2> QED BY <2>4, <2>5, <2>6 DEF Hanging
<1>c12. Closing'
  BY <1>0, <1>1, <1>s DEF Closing
<1>c13. Owned'
  BY <1>0, <1>1, <1>s DEF Owned, Held, Disposing
<1> QED BY <1>c1, <1>c3, <1>c4, <1>c5, <1>c6, <1>c7, <1>c8,
       <1>c9, <1>c10, <1>c11, <1>c12, <1>c13 DEF BleInv

\* The helper thread ends.
LEMMA KeepsHelperExits ==
    ASSUME BleInv, main # "done", NEW c \in Calls, HelperExits(c)
    PROVE  BleInv'
<1>0. /\ Types /\ Counted /\ Shapes /\ Watched /\ Attempting /\ Clients
      /\ JobsKnown /\ Workers /\ Alone /\ Hanging /\ Closing /\ Owned
  BY DEF BleInv
<1>1. UNCHANGED <<shuttingDown, lib, iface, client, meshLock, ifaceLock, at, job, ble, gen, registered,
                  teardown, link, main, drops>>
  BY DEF HelperExits, locks, lifecycle
<1>3. call[c].st = "done"
  BY DEF HelperExits
<1>6. Exits(c)
  BY <1>0, HelperLeaves
<1>s. Settled \subseteq Settled'
  <2>1. \A k \in Calls : call[k].st = "acting" => call'[k] = call[k]
    BY <1>3, <1>6 DEF Exits
  <2> QED BY <1>1, <2>1 DEF Settled
<1>c1. Types'
  <2>1. unresolved' \in [Generations -> Nat]
    BY <1>0, <1>6 DEF Exits, Types
  <2> QED BY <1>0, <1>1, <1>6, <2>1 DEF Types, Exits
<1>c3. Counted'
  BY <1>6 DEF Exits
<1>c4. Shapes'
  <2>1. Shape(call'[c])
    BY <1>0, <1>3, <1>6 DEF Shapes, Shape, Exits
  <2> QED BY <1>0, <1>1, <1>6, <2>1 DEF Shapes, Exits
<1>c5. Watched'
  BY <1>0, <1>1 DEF Watched, Waiting
<1>c6. Attempting'
  BY <1>0, <1>1 DEF Attempting, WithJob
<1>c7. Clients'
  BY <1>0, <1>1 DEF Clients, Unpublished
<1>c8. JobsKnown'
  BY <1>0, <1>1 DEF JobsKnown
<1>c9. Workers'
  BY <1>0, <1>1 DEF Workers, Waiting, Busy
<1>c10. Alone'
  BY <1>0, <1>1 DEF Alone
<1>c11. Hanging'
  <2>1. \A k \in Calls : call[k].waiter \in Pending =>
           /\ call'[k].waiter \in Pending /\ call'[k].by = call[k].by /\ call'[k].iface = call[k].iface
    BY <1>6 DEF Exits, Pending
  <2>2. \A k \in Calls : call'[k].waiter \in Pending => call[k].waiter \in Pending
    BY <1>6 DEF Exits, Pending
  <2>3. \A s \in Threads : teardown'[s].call # None =>
           call'[teardown'[s].call].waiter \in Pending /\ call'[teardown'[s].call].by = s
    BY <1>0, <1>1, <2>1, Domains DEF Hanging
  <2>4. \A k \in Calls : call[k].waiter \in Pending /\ call'[k].st \in {"done", "exited"} => call[k].st \in {"done", "exited"}
    BY <1>3, <1>6 DEF Exits
  <2>5. \A k \in Calls : call'[k].waiter \in Pending =>
            /\ teardown'[call'[k].by].call = k /\ call'[k].iface # None
            /\ teardown'[call'[k].by].iface = call'[k].iface
            /\ call'[k].st \in {"done", "exited"} => link'[call'[k].iface] = "closed"
    BY <1>0, <1>1, <2>1, <2>2, <2>4 DEF Hanging
  <2>6. \A k \in Calls : call'[k].st = "acting" => call'[k].iface # None /\ link'[call'[k].iface] # "none"
    BY <1>0, <1>1, <1>6 DEF Hanging, Exits
  <2> QED BY <2>3, <2>5, <2>6 DEF Hanging
<1>c12. Closing'
  BY <1>0, <1>1, <1>s DEF Closing
<1>c13. Owned'
  BY <1>0, <1>1, <1>s DEF Owned, Held, Disposing
<1> QED BY <1>c1, <1>c3, <1>c4, <1>c5, <1>c6, <1>c7, <1>c8,
       <1>c9, <1>c10, <1>c11, <1>c12, <1>c13 DEF BleInv

-----------------------------------------------------------------------------
(* The inductive invariant *)

\* The invariant holds at the start.
LEMMA InitHolds == Init => BleInv
<1> SUFFICES ASSUME Init PROVE BleInv
  OBVIOUS
<1>1. /\ NoJob \in JobRecord /\ NoJob.st = "none" /\ NoJob.kind = "create" /\ NoJob.res = "none"
      /\ NoJob.disposer = FALSE /\ NoJob.ex = 0
  BY Numbers DEF NoJob, JobRecord, JobStates, Interfaces, None
<1>2. /\ NoCall \in CallRecord /\ NoCall.st = "none" /\ NoCall.waiter = "none" /\ NoCall.recorded = FALSE
      /\ NoCall.timedOut = FALSE /\ NoCall.resolved = FALSE
  BY Numbers DEF NoCall, CallRecord, Interfaces
<1>3. /\ Idle \in AttemptRecord /\ Idle.pc = "idle" /\ Idle.job = None /\ Idle.client = None
      /\ Idle.assigned = FALSE
  BY Numbers DEF Idle, AttemptRecord, Interfaces, Places, Reasons
<1>4. /\ ble \in ExecutorRecord /\ ble.slot = None /\ ble.exec = None /\ ble.execs = 0
      /\ ble.shut = FALSE /\ ble.degraded = FALSE
  BY Numbers DEF Init, ExecutorRecord, Interfaces, None
<1>5. /\ \A j \in Jobs : job[j] = NoJob /\ link[j] = "none"
      /\ \A t \in Threads : teardown[t] = NoTeardown
      /\ \A c \in Calls : call[c] = NoCall
      /\ \A g \in Generations : unresolved[g] = 0
  BY DEF Init
<1>6. at = Idle /\ iface = None /\ client = None /\ meshLock = "free" /\ ifaceLock = "free" /\ main = "running"
  BY DEF Init
<1>7. Types
  <2>1. 0 \in 0..MaxDrops /\ 0 \in 0..(MaxAttempts + 0)
    BY BleAssumption
  <2>2. lib \in [autoReconnect : BOOLEAN, timeoutArg : BOOLEAN, addressed : BOOLEAN]
    BY BleAssumption DEF Init
  <2> QED BY <1>1, <1>2, <1>3, <1>4, <2>1, <2>2, Numbers, NoTeardownTyped DEF Init, Types, Interfaces
<1>8. Counted
  <2>1. \A g \in Generations : Owing(g) = {}
    BY <1>2, <1>5 DEF Owing
  <2> QED BY <1>5, <2>1, FS_EmptySet DEF Counted
<1>10. Shapes
  BY <1>2, <1>5 DEF Shapes, Shape
<1>11. Watched /\ Workers
  BY <1>1, <1>3, <1>4, <1>5, <1>6, Numbers DEF Watched, Workers, Waiting, None
<1>12. Attempting /\ Clients
  BY <1>3, <1>6 DEF Attempting, Clients, WithJob, Unpublished
<1>13. JobsKnown /\ Alone
  BY <1>1, <1>5, <1>6, Numbers, NoTeardownTyped DEF JobsKnown, Alone
<1>14. Hanging
  BY <1>2, <1>5, NoTeardownTyped DEF Hanging, Pending
<1>15. Closing /\ Owned
  BY <1>1, <1>3, <1>5, <1>6 DEF Closing, Owned
<1> QED BY <1>7, <1>8, <1>10, <1>11, <1>12, <1>13, <1>14, <1>15 DEF BleInv

\* Every way to abandon a job: a connect() that never ran is given up by a shutdown only.
LEMMA KeepsAbandonJob ==
    ASSUME BleInv, main # "done", AbandonJob
    PROVE  BleInv'
<1>1. Types /\ Attempting /\ Workers /\ at.pc = "abandon"
  BY DEF BleInv, AbandonJob, At
<1>2. at.job \in Jobs /\ job[at.job].st # "none" /\ (job[at.job].kind = "create" <=> ifaceLock = "connector")
  BY <1>1, Domains DEF Attempting, WithJob
<1>3. job[at.job].st \in JobStates /\ job[at.job].kind \in {"create", "connect"}
  BY <1>1, <1>2 DEF Types, JobRecord
<1>4. CASE job[at.job].st \in {"queued", "cancelled"}
  <2>1. CASE job[at.job].kind = "create"
    BY <1>4, <2>1, LeavesUnstarted
  <2>2. CASE job[at.job].kind = "connect"
    <3>1. at.why = "shutdown"
      BY <1>1, <1>2, <1>4, <2>2 DEF Workers
    <3> QED BY <1>4, <2>2, <3>1, LeavesStopping
  <2> QED BY <1>3, <2>1, <2>2
<1>5. CASE job[at.job].st = "running"
  BY <1>5, LeavesRunning
<1>6. CASE Done(at.job) /\ job[at.job].st # "cancelled"
  BY <1>3, <1>6, LeavesDone, LeavesEmpty
<1> QED BY <1>2, <1>3, <1>4, <1>5, <1>6 DEF JobStates, Done

\* Every end of the setup.
LEMMA KeepsSetup ==
    ASSUME BleInv, main # "done", Setup
    PROVE  BleInv'
<1>1. (at' = Idle /\ meshLock' = "free") \/ \E why \in Reasons : Fail(at, why)
  BY DEF Setup, Reasons
<1> QED BY <1>1, SetupEnds, SetupFails

\* Every rollback.
LEMMA KeepsRollback ==
    ASSUME BleInv, main # "done", Rollback
    PROVE  BleInv'
<1>1. CASE at.client # None /\ at.client = iface
  BY <1>1, RollbackCloses
<1>2. CASE at.client # None /\ at.client # iface /\ at.assigned
  BY <1>2, RollbackForgets
<1>3. CASE ~(at.client # None /\ (at.assigned \/ at.client = iface))
  BY <1>3, RollbackSkips
<1> QED BY <1>1, <1>2, <1>3

\* Every run of a disposer.
LEMMA KeepsDispose ==
    ASSUME BleInv, main # "done", NEW j \in Jobs, Dispose(j)
    PROVE  BleInv'
<1>1. CASE ~(job[j].kind = "connect" \/ job[j].res \in {"ok", "wrong"})
  BY <1>1, DisposeNothing
<1>2. CASE job[j].iface = iface
  BY <1>2, DisposeUsed
<1>3. CASE job[j].iface # iface /\ (job[j].kind = "connect" \/ job[j].res \in {"ok", "wrong"})
  BY <1>3, DisposeTears
<1> QED BY <1>1, <1>2, <1>3

\* Every submission.
LEMMA KeepsSubmit ==
    ASSUME BleInv, main # "done", Submit
    PROVE  BleInv'
BY SubmitCases, EnqueuedKeeps, KeepsGivesUp

\* Every step of the attempt keeps the invariant.
LEMMA ConnectorKeeps ==
    ASSUME BleInv, main # "done", Connector
    PROVE  BleInv'
<1>1. ASSUME Attempt PROVE BleInv'
  BY <1>1, AttemptEnds, AttemptStarts
<1>2. ASSUME MayCreate PROVE BleInv'
  <2>1. CASE Unresolved \/ shuttingDown
    BY <1>2, <2>1, CreateRefused
  <2>2. CASE ~(Unresolved \/ shuttingDown)
    BY <1>2, <2>2, CreateAllowed
  <2> QED BY <2>1, <2>2
<1>3. ASSUME MayConnect PROVE BleInv'
  <2>1. CASE ~lib.autoReconnect
    BY <1>3, <2>1, ConnectSkipped
  <2>2. CASE lib.autoReconnect /\ (Unresolved \/ shuttingDown)
    BY <1>3, <2>2, ConnectRefused
  <2>3. CASE lib.autoReconnect /\ ~(Unresolved \/ shuttingDown)
    BY <1>3, <2>3, ConnectAllowed
  <2> QED BY <2>1, <2>2, <2>3
<1>4. ASSUME JobFails PROVE BleInv'
  BY <1>4, FailsByTimeout, FailsOtherwise
<1>5. ASSUME CountTimeout PROVE BleInv'
  <2>1. CASE at.why = "timeout" /\ job[at.job].kind = "create" /\ shuttingDown
    BY <1>5, <2>1, CountsAgain
  <2>2. CASE ~(at.why = "timeout" /\ job[at.job].kind = "create" /\ shuttingDown)
    BY <1>5, <2>2, CountsOnce
  <2> QED BY <2>1, <2>2
<1>6. ASSUME Publish PROVE BleInv'
  <2>1. CASE Wrong(at.client) \/ shuttingDown
    BY <1>6, <2>1, PublishCloses
  <2>2. CASE ~(Wrong(at.client) \/ shuttingDown)
    BY <1>6, <2>2, PublishAssigns
  <2> QED BY <2>1, <2>2
<1>7. ASSUME OldClosed \/ DropWrong \/ WrongDropped \/ Reuse PROVE BleInv'
  BY <1>7, KeepsOldClosed, KeepsDropWrong, KeepsWrongDropped, KeepsReuse
<1>8. ASSUME Created \/ Connected \/ WaitEnds \/ DisposeInline PROVE BleInv'
  BY <1>8, KeepsCreated, KeepsConnected, KeepsWaitEnds, KeepsDisposeInline
<1>9. ASSUME Refused \/ CancelledByShutdown \/ RolledBack PROVE BleInv'
  BY <1>9, KeepsRefused, KeepsCancelled, KeepsRolledBack
<1>10. ASSUME Submit \/ AbandonJob \/ Setup \/ Rollback PROVE BleInv'
  BY <1>10, KeepsSubmit, KeepsAbandonJob, KeepsSetup, KeepsRollback
<1> QED BY <1>1, <1>2, <1>3, <1>4, <1>5, <1>6, <1>7, <1>8, <1>9, <1>10 DEF Connector

\* Every step keeps the invariant.
LEMMA NextKeeps ==
    ASSUME BleInv, [Next]_vars
    PROVE  BleInv'
<1>1. CASE UNCHANGED vars
  <2>1. Types' /\ Counted' /\ Shapes'
    BY <1>1 DEF vars, locks, lifecycle, BleInv, Types, Counted, Owing, Shapes, Shape
  <2>2. Watched' /\ Attempting' /\ Clients'
    BY <1>1 DEF vars, locks, lifecycle, BleInv, Watched, Waiting, Attempting, WithJob, Clients, Unpublished
  <2>3. JobsKnown' /\ Workers' /\ Alone'
    BY <1>1 DEF vars, locks, lifecycle, BleInv, JobsKnown, Workers, Waiting, Busy, Alone
  <2>4. Hanging' /\ Closing' /\ Owned'
    BY <1>1 DEF vars, locks, lifecycle, BleInv, Hanging, Pending, Closing, Settled, Owned, Held, Disposing
  <2> QED BY <2>1, <2>2, <2>3, <2>4 DEF BleInv
<1>2. CASE Next
  <2>0. main # "done"
    BY <1>2 DEF Next
  <2>1. ASSUME NEW force \in BOOLEAN, Begin(force) PROVE BleInv'
    BY <2>0, <2>1, BeginForced, BeginFresh
  <2>2. ASSUME Connector PROVE BleInv'
    BY <2>0, <2>2, ConnectorKeeps
  <2>3. ASSUME NEW j \in Jobs, Start(j) \/ Finish(j) PROVE BleInv'
    BY <2>0, <2>3, KeepsStart, KeepsFinish
  <2>4. ASSUME NEW j \in Jobs, Callbacks(j) PROVE BleInv'
    <3>1. CASE Callback(j)
      BY <2>0, <3>1, CallbackDisposes, CallbackEnds
    <3>2. CASE Dispose(j) \/ Disposed(j)
      BY <2>0, <3>2, KeepsDispose, KeepsDisposed
    <3> QED BY <2>4, <3>1, <3>2 DEF Callbacks
  <2>5. ASSUME NEW j \in Jobs, Watchdog(j) PROVE BleInv'
    BY <2>0, <2>5, KeepsWatchdogFires, KeepsWatchdogResets DEF Watchdog
  <2>6. ASSUME NEW t \in Threads, CallEnds(t) \/ CallTimesOut(t) PROVE BleInv'
    BY <2>0, <2>6, KeepsCallEnds, KeepsCallTimesOut
  <2>7. ASSUME NEW c \in Calls, Helper(c) \/ HelperDone(c) PROVE BleInv'
    BY <2>0, <2>7, KeepsRecord, KeepsFlag, KeepsRecheck, KeepsHelperExits, KeepsHelperDone DEF Helper
  <2>8. ASSUME Lost \/ LostClosed \/ Stop PROVE BleInv'
    BY <2>0, <2>8, KeepsLost, KeepsLostClosed, KeepsStop
  <2>9. ASSUME CloseClient \/ ClientClosed \/ ShutdownExecutors PROVE BleInv'
    BY <2>0, <2>9, CloseNothing, CloseTears, KeepsClientClosed, KeepsShutdownExecutors
  <2> QED BY <1>2, <2>1, <2>2, <2>3, <2>4, <2>5, <2>6, <2>7, <2>8, <2>9 DEF Next
<1> QED BY <1>1, <1>2

-----------------------------------------------------------------------------
(* The theorems *)

\* The invariant holds always, for every value of the constants.
THEOREM InvariantHolds == Spec => []BleInv
BY InitHolds, NextKeeps, PTL DEF Spec

\* Whatever hangs, times out or is abandoned: every open link is the singleton's, is held by the
\* attempt, will be disposed of by its late job, or is being closed, except the one whose attempt
\* waits for the meshtastic_iface_lock that it holds itself
\* (_attach_late_ble_interface_disposer(), _rollback_connect_attempt_state()).
THEOREM NoLinkIsStray == Spec => []NoStrayLink
<1>1. BleInv => NoStrayLink
  <2> SUFFICES ASSUME BleInv, NEW i \in Jobs, link[i] = "open"
               PROVE  \/ iface = i \/ client = i
                      \/ HeldByAttempt(i) \/ SelfBlocked(i)
                      \/ \E j \in Jobs : job[j].disposer /\ job[j].iface = i
                                         /\ job[j].st \in {"running", "callbacks", "dispose", "disposing"}
                      \/ \E t \in Threads : teardown[t].iface = i
                      \/ \E c \in Calls : call[c].st = "acting" /\ call[c].iface = i
    BY DEF NoStrayLink
  <2>1. iface = i \/ Held(i) \/ Disposing(i) \/ i \in Settled
    BY DEF BleInv, Owned
  <2>2. CASE Held(i)
    <3>1. at.job # None
      BY <2>2 DEF Held, BleInv, Attempting, WithJob
    <3> QED BY <2>2, <3>1 DEF Held, HeldByAttempt, SelfBlocked, At
  <2>3. CASE Disposing(i)
    BY <2>3 DEF Disposing, Busy
  <2>4. CASE i \in Settled
    BY <2>4 DEF Settled
  <2> QED BY <2>1, <2>2, <2>3, <2>4
<1> QED BY <1>1, InvariantHolds, PTL

\* Once the waiters and the helper threads have settled, the count of every generation is the
\* number of its library calls that still hang (_run_blocking_with_timeout() against
\* _resolve_ble_teardown_timeout()).
THEOREM HangingIsCounted == Spec => []TeardownsCounted
<1>1. BleInv => TeardownsCounted
  <2> SUFFICES ASSUME BleInv, main # "done", NEW g \in Generations \ {0},
                      \A c \in Calls : call[c].waiter \in {"none", "gone"} /\ call[c].st # "done"
               PROVE  unresolved[g] = Cardinality({c \in Calls : call[c].st = "acting" /\ call[c].gen = g})
    BY DEF TeardownsCounted
  <2>1. \A c \in Calls : Shape(call[c]) /\ call[c].st \in {"none", "acting", "exited"}
    BY DEF BleInv, Shapes, Types, CallRecord
  <2>2. \A c \in Calls : (call[c].recorded /\ ~call[c].resolved) <=> (call[c].st = "acting" /\ call[c].gen > 0)
    BY <2>1 DEF Shape
  <2>4. g > 0
    BY Numbers
  <2>3. Owing(g) = {c \in Calls : call[c].st = "acting" /\ call[c].gen = g}
    BY <2>2, <2>4 DEF Owing
  <2> QED BY <2>3 DEF BleInv, Counted
<1> QED BY <1>1, InvariantHolds, PTL

\* A running job that nobody waits for does not keep the slot without a timer that will take it
\* away (_schedule_ble_future_cleanup() against the resets of the executor).
THEOREM SlotsAreWatched == Spec => []SlotIsWatched
<1>1. BleInv => SlotIsWatched
  <2> SUFFICES ASSUME BleInv, NEW j \in Jobs, ble.slot = j, job[j].st = "running", at.job # j \/ at.pc = "idle"
               PROVE  job[j].timer \in {"armed", "firing"}
    BY DEF SlotIsWatched, At
  <2>1. ~Waiting(j)
    BY DEF Waiting
  <2> QED BY <2>1 DEF BleInv, Watched
<1> QED BY <1>1, InvariantHolds, PTL
=============================================================================
