------------------------------ MODULE BleLink ------------------------------
(***************************************************************************)
(* The BLE path of a connection attempt.  The constructor of an interface  *)
(* and its connect() run as jobs of a one-thread executor and may hang, so *)
(* the attempt waits for a bounded time and then abandons the job: it is   *)
(* watched by a timer, it gets a callback that disposes of whatever it     *)
(* still produces, and after repeated timeouts the executor is replaced    *)
(* until too many workers were lost that way.  Disconnecting an interface  *)
(* runs library calls on helper threads that may hang as well; a hung call *)
(* is counted, and no interface is opened while the count is not zero.     *)
(*                                                                         *)
(* There is one address (meshtastic.ble_address), so the dictionaries by   *)
(* address are single values.  An interface is named by the job that       *)
(* constructed it.  connect_meshtastic() runs in one thread at a time (its *)
(* marker is a matter of MeshConnection); the lost-connection callback,    *)
(* the executor threads, the timers, the helper threads and the shutdown   *)
(* of main() run beside it.                                                *)
(***************************************************************************)
EXTENDS Naturals, FiniteSets

CONSTANTS
    MaxJobs,          \* bound: jobs submitted to the BLE executor
    MaxAttempts,      \* bound: turns of the retry loop
    MaxCalls,         \* bound: library calls of a disconnect that hang
    MaxDrops,         \* bound: links that break
    TimeoutThreshold, \* BLE_TIMEOUT_RESET_THRESHOLD
    OrphanThreshold,  \* EXECUTOR_ORPHAN_THRESHOLD
    Retries,          \* tries of a disconnect by its phase; 0: no separate client
    RetryLimit,       \* meshtastic.retries; 0 is INFINITE_RETRIES
    MaxTimeouts,      \* MAX_TIMEOUT_RETRIES_INFINITE
    Libraries,        \* what the installed library offers
    Errors            \* what it raises

ASSUME BleAssumption ==
    /\ MaxJobs \in Nat /\ MaxAttempts \in Nat /\ MaxCalls \in Nat /\ MaxDrops \in Nat
    /\ TimeoutThreshold \in Nat \ {0} /\ OrphanThreshold \in Nat \ {0}
    /\ Retries \in [{"disconnect", "client", "close"} -> Nat]
    /\ RetryLimit \in Nat /\ MaxTimeouts \in Nat
    /\ Libraries \subseteq [autoReconnect : BOOLEAN, timeoutArg : BOOLEAN, addressed : BOOLEAN]
    /\ Errors \subseteq {"timeout", "discovery", "mismatch", "error"}

Jobs == 1..MaxJobs
Calls == 1..MaxCalls
None == 0

\* The worker threads are named by the job they run; the others follow.
ConnectThread == MaxJobs + 1
LostThread == MaxJobs + 2
MainThread == MaxJobs + 3
Threads == 1..(MaxJobs + 3)

VARIABLES
    shuttingDown,  \* shutting_down
    lib,           \* the library: autoReconnect and connect(), calls with a timeout,
                   \* interfaces that show a MAC address
    iface,         \* meshtastic_iface
    client,        \* meshtastic_client
    meshLock,      \* who holds meshtastic_lock
    ifaceLock,     \* who holds meshtastic_iface_lock
    at,            \* the connect attempt: where it stands and its locals
    job,           \* the jobs: the future, its executor and its callbacks
    ble,           \* _ble_future, _ble_executor and their counters
    gen,           \* _ble_generation_by_address
    registered,    \* _ble_iface_generation_by_id
    unresolved,    \* _ble_teardown_unresolved_by_generation
    teardown,      \* the _disconnect_ble_interface() call of each thread
    call,          \* the library calls that did not end in time
    link,          \* what became of each interface
    main,          \* how far the shutdown is
    drops          \* links broken so far

locks == <<meshLock, ifaceLock>>
lifecycle == <<gen, registered, unresolved>>
vars == <<shuttingDown, lib, iface, client, locks, at, job, ble, lifecycle,
          teardown, call, link, main, drops>>

Generations == 0..(MaxAttempts + MaxDrops)

NoJob == [st |-> "none", kind |-> "create", ex |-> None, iface |-> None, res |-> "none",
          disposer |-> FALSE, timer |-> "off", late |-> FALSE]
NoTeardown == [iface |-> None, gen |-> 0, phase |-> "disconnect", tries |-> 0, call |-> None]
NoCall == [st |-> "none", waiter |-> "none", by |-> MainThread, iface |-> None, gen |-> 0,
           recorded |-> FALSE, timedOut |-> FALSE, resolved |-> FALSE]
Gone == [NoCall EXCEPT !.st = "exited", !.waiter = "gone"]
Idle == [pc |-> "idle", gen |-> 0, client |-> None, assigned |-> FALSE, job |-> None,
         why |-> "none", attempts |-> 0, timeouts |-> 0]

Init ==
    /\ shuttingDown = FALSE /\ lib \in Libraries
    /\ iface = None /\ client = None
    /\ meshLock = "free" /\ ifaceLock = "free"
    /\ at = Idle
    /\ job = [j \in Jobs |-> NoJob]
    /\ ble = [slot |-> None, exec |-> None, execs |-> 0, shut |-> FALSE, timeouts |-> 0,
              orphans |-> 0, degraded |-> FALSE]
    /\ gen = 0 /\ registered = [j \in Jobs |-> 0]
    /\ unresolved = [g \in Generations |-> 0]
    /\ teardown = [t \in Threads |-> NoTeardown]
    /\ call = [c \in Calls |-> NoCall]
    /\ link = [j \in Jobs |-> "none"]
    /\ main = "running"
    /\ drops = 0

-----------------------------------------------------------------------------
(* Futures and the executor *)

\* Future.done()
Done(j) == job[j].st \in {"callbacks", "dispose", "disposing", "over", "cancelled"}

\* The worker thread of an executor is inside a job or its callbacks.
WorkerBusy(e) ==
    \E j \in Jobs : job[j].ex = e /\ job[j].st \in {"running", "callbacks", "dispose", "disposing"}

\* Future.cancel(): only a job that has not started can be cancelled.
Cancelled(jobs, j) ==
    IF j # None /\ jobs[j].st = "queued" THEN [jobs EXCEPT ![j].st = "cancelled"] ELSE jobs

\* executor.shutdown(wait=False, cancel_futures=True)
ShutDown(jobs, e) ==
    [j \in Jobs |-> IF jobs[j].ex = e /\ jobs[j].st = "queued"
                    THEN [jobs[j] EXCEPT !.st = "cancelled"] ELSE jobs[j]]

\* _clear_ble_future(): a job that is still the current one gives up its place.
Cleared(b, j) == IF b.slot = j THEN [b EXCEPT !.slot = None, !.timeouts = 0] ELSE b

SlotBusy == ble.slot # None /\ ~Done(ble.slot)

\* _get_ble_executor()
GetExecutor(b) ==
    IF b.exec = None \/ b.shut
    THEN [b EXCEPT !.exec = b.execs + 1, !.execs = b.execs + 1, !.shut = FALSE] ELSE b

\* _maybe_reset_ble_executor(): the last worker that may be lost degrades the
\* address and leaves its executor in place, shut down.
Resets(b, count) == ~b.degraded /\ count >= TimeoutThreshold

ResetBle(b, count) ==
    IF ~Resets(b, count) THEN b
    ELSE IF b.orphans + 1 >= OrphanThreshold
    THEN [b EXCEPT !.degraded = TRUE, !.slot = None, !.timeouts = 0, !.shut = TRUE]
    ELSE [b EXCEPT !.orphans = IF b.exec # None /\ ~b.shut THEN @ + 1 ELSE @,
                   !.exec = b.execs + 1, !.execs = @ + 1, !.slot = None, !.timeouts = 0,
                   !.shut = FALSE]

ResetJobs(b, count) ==
    IF Resets(b, count) THEN ShutDown(Cancelled(job, b.slot), b.exec) ELSE job

\* _record_ble_timeout()
Recorded(b) == [b EXCEPT !.timeouts = @ + 1]

\* reset_executor_degraded_state(ble_address); reset_all does the same for one address.
ResetDegraded(b) ==
    IF b.degraded
    THEN [b EXCEPT !.degraded = FALSE, !.orphans = 0, !.exec = None, !.shut = FALSE]
    ELSE b

-----------------------------------------------------------------------------
(* _disconnect_ble_interface() *)

Tearing(t) == teardown[t].iface # None

\* _validate_ble_connection_address() fails: the interface reached another device.
Wrong(i) == job[i].res = "wrong"

\* _extract_ble_address_from_interface() finds the configured address.
Addressed(i) == lib.addressed /\ ~Wrong(i)

\* _get_ble_iface_generation(): the registered generation, else the latest of the
\* address that the interface shows; without one its hanging calls are not counted.
IfaceGeneration(i) ==
    IF registered[i] # 0 THEN registered[i] ELSE IF Addressed(i) THEN gen ELSE 0

TearDown(t, i, g) ==
    teardown' = [teardown EXCEPT ![t] = [NoTeardown EXCEPT !.iface = i, !.gen = g]]

\* The next library call: a retry of the same one, or a later phase.  A disconnect
\* that succeeded with a timeout argument leaves no client to disconnect.
NextCalls(d, ok) ==
    LET To(phase) == [d EXCEPT !.phase = phase, !.tries = 0, !.call = None] IN
    CASE ~ok /\ d.tries + 1 < Retries[d.phase] -> {[d EXCEPT !.tries = @ + 1, !.call = None]}
      [] d.phase = "disconnect" -> {To("close")} \cup IF Retries["client"] = 0 \/ (ok /\ lib.timeoutArg) THEN {} ELSE {To("client")}
      [] d.phase = "client" -> {To("close")}
      [] OTHER -> {NoTeardown}

\* The thread goes on to call d; _discard_ble_iface_generation() at the end.
GoesOn(t, d) ==
    /\ teardown' = [teardown EXCEPT ![t] = d]
    /\ registered' = IF d = NoTeardown THEN [registered EXCEPT ![teardown[t].iface] = 0]
                     ELSE registered

\* The call ends in time, with or without an error.  A close() that ends has
\* ended the link.
CallEnds(t) ==
    /\ Tearing(t) /\ teardown[t].call = None
    /\ \E ok \in BOOLEAN : \E d \in NextCalls(teardown[t], ok) :
          /\ ok \/ teardown[t].phase # "close"
          /\ GoesOn(t, d)
          /\ link' = IF ok THEN [link EXCEPT ![teardown[t].iface] = "closed"] ELSE link
    /\ UNCHANGED <<shuttingDown, lib, iface, client, locks, at, job, ble, gen, unresolved,
                   call, main, drops>>

\* done_event.wait() gives up while the helper thread is still in the call.
CallTimesOut(t) ==
    /\ Tearing(t) /\ teardown[t].call = None /\ ~lib.timeoutArg
    /\ \E c \in Calls :
          /\ call[c].st = "none" /\ \A k \in 1..(c - 1) : call[k].st # "none"
          /\ call' = [call EXCEPT ![c] = [NoCall EXCEPT !.st = "acting", !.waiter = "record",
                                          !.by = t, !.iface = teardown[t].iface,
                                          !.gen = teardown[t].gen]]
          /\ teardown' = [teardown EXCEPT ![t].call = c]
    /\ UNCHANGED <<shuttingDown, lib, iface, client, locks, at, job, ble, lifecycle, link,
                   main, drops>>

\* _record_ble_teardown_timeout()
RecordTeardownTimeout(c) ==
    /\ call[c].waiter = "record"
    /\ unresolved' = IF call[c].gen > 0 THEN [unresolved EXCEPT ![call[c].gen] = @ + 1]
                     ELSE unresolved
    /\ call' = [call EXCEPT ![c].waiter = "flag", ![c].recorded = call[c].gen > 0]
    /\ UNCHANGED <<shuttingDown, lib, iface, client, locks, at, job, ble, gen, registered,
                   teardown, link, main, drops>>

\* timed_out_event.set()
FlagTimeout(c) ==
    /\ call[c].waiter = "flag"
    /\ call' = [call EXCEPT ![c].waiter = "recheck", ![c].timedOut = TRUE]
    /\ UNCHANGED <<shuttingDown, lib, iface, client, locks, at, job, ble, lifecycle,
                   teardown, link, main, drops>>

\* _resolve_recorded_teardown_timeout_once()
Owes(c) == call[c].recorded /\ ~call[c].resolved

Resolved(c) ==
    IF Owes(c) /\ unresolved[call[c].gen] > 0
    THEN [unresolved EXCEPT ![call[c].gen] = @ - 1] ELSE unresolved

\* A mutant: the waiter trusts the helper thread to resolve its timeout.
NeverRechecks(c) == FALSE

\* done_event.is_set() after the timeout was flagged
EndedMeanwhile(c) == call[c].st \in {"done", "exited"}

\* The waiter looks once more whether the call has ended, and raises TimeoutError.
Recheck(c) ==
    /\ call[c].waiter = "recheck"
    /\ unresolved' = IF EndedMeanwhile(c) THEN Resolved(c) ELSE unresolved
    /\ call' = [call EXCEPT ![c] = IF @.st = "exited" THEN Gone ELSE
                      [@ EXCEPT !.waiter = "gone",
                                !.resolved = call[c].resolved \/ (EndedMeanwhile(c) /\ Owes(c))]]
    /\ \E d \in NextCalls(teardown[call[c].by], FALSE) : GoesOn(call[c].by, d)
    /\ UNCHANGED <<shuttingDown, lib, iface, client, locks, at, job, ble, gen, link, main,
                   drops>>

\* The helper thread comes back: action() ends and done_event is set.
HelperDone(c) ==
    /\ call[c].st = "acting"
    /\ call' = [call EXCEPT ![c].st = "done"]
    /\ link' = [link EXCEPT ![call[c].iface] = "closed"]
    /\ UNCHANGED <<shuttingDown, lib, iface, client, locks, at, job, ble, lifecycle,
                   teardown, main, drops>>

\* ... and resolves the timeout if it sees one flagged.
HelperExits(c) ==
    /\ call[c].st = "done"
    /\ unresolved' = IF call[c].timedOut THEN Resolved(c) ELSE unresolved
    /\ call' = [call EXCEPT ![c] = IF @.waiter = "gone" THEN Gone ELSE
                      [@ EXCEPT !.st = "exited",
                                !.resolved = call[c].resolved \/ (call[c].timedOut /\ Owes(c))]]
    /\ UNCHANGED <<shuttingDown, lib, iface, client, locks, at, job, ble, gen, registered,
                   teardown, link, main, drops>>

\* _get_ble_unresolved_teardown_generations() is not empty.
Unresolved == \E g \in Generations : unresolved[g] > 0
-----------------------------------------------------------------------------
(* The connection attempt *)

At(where) == at.pc = where
Goto(where) == at' = [at EXCEPT !.pc = where]
Fail(a, why) == at' = [a EXCEPT !.pc = "rollback", !.why = why]

\* _connect_meshtastic_impl(): a forced call closes the client there is.
Begin(force) ==
    /\ At("idle") /\ ~shuttingDown /\ meshLock = "free" /\ main = "running"
    /\ client = None \/ force
    /\ gen < MaxAttempts + drops
    /\ IF client # None
       THEN /\ meshLock' = "connector"
            /\ TearDown(ConnectThread, iface, IfaceGeneration(iface))
            /\ Goto("closing")
       ELSE /\ Goto("attempt")
            /\ UNCHANGED <<meshLock, teardown>>
    /\ UNCHANGED <<shuttingDown, lib, iface, client, ifaceLock, job, ble, lifecycle, call,
                   link, main, drops>>

OldClosed ==
    /\ At("closing") /\ ~Tearing(ConnectThread)
    /\ iface' = None /\ client' = None /\ meshLock' = "free"
    /\ Goto("attempt")
    /\ UNCHANGED <<shuttingDown, lib, ifaceLock, job, ble, lifecycle, teardown, call, link,
                   main, drops>>

\* One turn of the retry loop: _advance_ble_generation(), then the singleton lock.
Attempt ==
    /\ At("attempt")
    /\ IF shuttingDown \/ gen >= MaxAttempts + drops
       THEN at' = Idle /\ UNCHANGED <<gen, ifaceLock>>
       ELSE /\ ifaceLock = "free"
            /\ ifaceLock' = "connector"
            /\ gen' = gen + 1
            /\ at' = [at EXCEPT !.pc = "check", !.gen = gen + 1, !.client = None,
                                !.assigned = FALSE, !.job = None]
    /\ UNCHANGED <<shuttingDown, lib, iface, client, meshLock, job, ble, registered,
                   unresolved, teardown, call, link, main, drops>>

\* An interface left by an earlier attempt that reached another device is closed,
DropWrong ==
    /\ At("check") /\ iface # None /\ Wrong(iface)
    /\ TearDown(ConnectThread, iface, IfaceGeneration(iface))
    /\ Goto("dropping")
    /\ UNCHANGED <<shuttingDown, lib, iface, client, locks, job, ble, lifecycle, call, link,
                   main, drops>>

WrongDropped ==
    /\ At("dropping") /\ ~Tearing(ConnectThread)
    /\ iface' = None
    /\ Goto("check")
    /\ UNCHANGED <<shuttingDown, lib, client, locks, job, ble, lifecycle, teardown, call, link,
                   main, drops>>

\* any other one is used again.
Reuse ==
    /\ At("check") /\ iface # None /\ ~Wrong(iface)
    /\ registered' = [registered EXCEPT ![iface] = at.gen]
    /\ ifaceLock' = "free"
    /\ Goto("opened")
    /\ UNCHANGED <<shuttingDown, lib, iface, client, meshLock, job, ble, gen, unresolved,
                   teardown, call, link, main, drops>>

\* No interface is constructed while a teardown hangs or the relay stops.
MayCreate ==
    /\ At("check") /\ iface = None
    /\ IF Unresolved THEN Fail(at, "timeout") /\ ifaceLock' = "free"
       ELSE IF shuttingDown THEN Fail(at, "shutdown") /\ ifaceLock' = "free"
       ELSE Goto("ensure") /\ UNCHANGED ifaceLock
    /\ UNCHANGED <<shuttingDown, lib, iface, client, meshLock, job, ble, lifecycle, teardown,
                   call, link, main, drops>>

\* connect() is explicit for interfaces with auto_reconnect.
MayConnect ==
    /\ At("opened")
    /\ CASE ~lib.autoReconnect -> at' = [at EXCEPT !.pc = "publish", !.client = iface]
         [] lib.autoReconnect /\ Unresolved -> Fail([at EXCEPT !.client = iface], "timeout")
         [] lib.autoReconnect /\ ~Unresolved /\ shuttingDown ->
                Fail([at EXCEPT !.client = iface], "shutdown")
         [] OTHER -> Goto("ensure")
    /\ UNCHANGED <<shuttingDown, lib, iface, client, locks, job, ble, lifecycle, teardown, call,
                   link, main, drops>>

\* The lock is released when the creation block is left with an exception.
Leave == ifaceLock' = IF ifaceLock = "connector" THEN "free" ELSE ifaceLock

\* _ensure_ble_worker_available(): a job that outlived its wait by the grace time
\* is counted as a timeout and its executor is replaced.
StaleReset ==
    LET b == Recorded(ble) IN
    IF b.timeouts > TimeoutThreshold THEN b.timeouts ELSE TimeoutThreshold

\* The constructor or connect() becomes a job of the executor.
Submitted(b0, jobs) ==
    LET b == GetExecutor(b0) IN
    \E j \in Jobs :
       /\ jobs[j].st = "none" /\ \A k \in 1..(j - 1) : jobs[k].st # "none"
       /\ ble' = [b EXCEPT !.slot = j]
       /\ job' = [jobs EXCEPT ![j] = [NoJob EXCEPT !.st = "queued", !.ex = b.exec,
                        !.kind = IF iface = None THEN "create" ELSE "connect",
                        !.iface = IF iface = None THEN j ELSE iface]]
       /\ at' = [at EXCEPT !.pc = "wait", !.job = j]
       /\ UNCHANGED ifaceLock

\* Only this thread submits, so a worker found free is free for the job.
Submit ==
    /\ At("ensure")
    /\ \/ ~SlotBusy /\ ~ble.degraded /\ Submitted(ble, job)
       \/ ~SlotBusy /\ ble.degraded /\ Fail(at, "degraded") /\ Leave /\ UNCHANGED <<job, ble>>
       \/ SlotBusy /\ Fail(at, "timeout") /\ Leave /\ UNCHANGED <<job, ble>>
       \/ /\ SlotBusy /\ job[ble.slot].late
          /\ LET b == ResetBle(Recorded(ble), StaleReset)
                 jobs == ResetJobs(Recorded(ble), StaleReset) IN
             IF b.degraded
             THEN Fail(at, "degraded") /\ Leave /\ ble' = b /\ job' = jobs
             ELSE Submitted(b, jobs)
    /\ UNCHANGED <<shuttingDown, lib, iface, client, meshLock, lifecycle, teardown, call, link,
                   main, drops>>

Waits == At("wait")

\* The constructor returned: the interface becomes the singleton.
Created ==
    LET j == at.job IN
    /\ Waits /\ job[j].kind = "create" /\ Done(j) /\ job[j].res \in {"ok", "wrong"}
    /\ iface' = j
    /\ registered' = [registered EXCEPT ![j] = at.gen]
    /\ ble' = IF lib.autoReconnect THEN ble ELSE ResetDegraded(ble)
    /\ ifaceLock' = "free"
    /\ Goto("opened")
    /\ UNCHANGED <<shuttingDown, lib, client, meshLock, job, gen, unresolved, teardown, call,
                   link, main, drops>>

\* connect() returned.
Connected ==
    LET j == at.job IN
    /\ Waits /\ job[j].kind = "connect" /\ Done(j) /\ job[j].res = "ok"
    /\ ble' = ResetDegraded(ble)
    /\ at' = [at EXCEPT !.pc = "publish", !.client = iface]
    /\ UNCHANGED <<shuttingDown, lib, iface, client, locks, job, lifecycle, teardown, call,
                   link, main, drops>>

\* The job raised, or was cancelled by a reset.  A TimeoutError is handled like the
\* end of the wait; after a failed connect() the interface is kept for the next try.
JobFails ==
    LET j == at.job IN
    /\ Waits /\ Done(j) /\ job[j].res \in Errors \cup {"none"}
    /\ IF job[j].res = "timeout"
       THEN at' = [at EXCEPT !.pc = "abandon", !.why = "timeout"] /\ UNCHANGED ifaceLock
       ELSE Fail(at, IF job[j].res = "none" THEN "error" ELSE job[j].res) /\ Leave
    /\ UNCHANGED <<shuttingDown, lib, iface, client, meshLock, job, ble, lifecycle, teardown,
                   call, link, main, drops>>

\* _wait_for_future_result_with_shutdown() gives up: the time is over, or the relay
\* stops.  An idle worker takes a queued job long before the time is over.
WaitEnds ==
    LET j == at.job IN
    /\ Waits /\ ~Done(j)
    /\ \/ shuttingDown
       \/ \E k \in Jobs : job[k].ex = job[j].ex /\ job[k].st \in {"running", "dispose", "disposing"}
    /\ at' = [at EXCEPT !.pc = "abandon", !.why = IF shuttingDown THEN "shutdown" ELSE "timeout"]
    /\ job' = [job EXCEPT ![j].late = ~shuttingDown]
    /\ UNCHANGED <<shuttingDown, lib, iface, client, locks, ble, lifecycle, teardown, call,
                   link, main, drops>>

\* A mutant: the abandoned job is only watched.
NoDisposer(j) == [job EXCEPT ![j].timer = "armed"]

\* A mutant: the abandoned job is left to itself.
NoWatchdog(j) == [job EXCEPT ![j].disposer = TRUE]

\* _schedule_ble_future_cleanup() and _attach_late_ble_interface_disposer()
Abandoned(j) == [job EXCEPT ![j].timer = "armed", ![j].disposer = TRUE]

\* The attempt leaves the job: cancelled if it never ran, else watched and disposed
\* of.  A callback attached to a future that is done runs at once, in this thread.
AbandonJob ==
    LET j == at.job
        connects == job[j].kind = "connect"
        why == IF connects /\ shuttingDown THEN "shutdown" ELSE at.why
        made == connects \/ job[j].res \in {"ok", "wrong"}
        next == [at EXCEPT !.pc = "count", !.why = why] IN
    /\ At("abandon")
    /\ IF job[j].st \in {"queued", "cancelled"}
       THEN /\ job' = Cancelled(job, j) /\ ble' = Cleared(ble, j)
            /\ IF why = "shutdown" /\ connects
               THEN at' = [next EXCEPT !.client = iface] /\ UNCHANGED iface
               ELSE at' = next /\ iface' = None
       ELSE /\ iface' = None
            /\ job' = IF Done(j) THEN job ELSE Abandoned(j)
            /\ at' = IF Done(j) /\ made THEN [next EXCEPT !.pc = "disposing"] ELSE next
            /\ UNCHANGED ble
    /\ UNCHANGED <<shuttingDown, lib, client, locks, lifecycle, teardown, call, link, main,
                   drops>>

\* _dispose() in the thread of the attempt: it waits for meshtastic_iface_lock,
\* which a creation attempt holds itself.
DisposeInline ==
    /\ At("disposing") /\ ifaceLock = "free"
    /\ TearDown(ConnectThread, job[at.job].iface, IfaceGeneration(job[at.job].iface))
    /\ Goto("disposed")
    /\ UNCHANGED <<shuttingDown, lib, iface, client, locks, job, ble, lifecycle, call, link,
                   main, drops>>

\* _record_ble_timeout() and _maybe_reset_ble_executor() after a timeout.  A creation
\* that timed out while the relay stops goes through the abandoning once more.
CountTimeout ==
    LET j == at.job
        timedOut == at.why = "timeout"
        counts == timedOut /\ job[j].st # "cancelled"
        b == Recorded(ble) IN
    /\ At("count") \/ (At("disposed") /\ ~Tearing(ConnectThread))
    /\ ble' = IF counts THEN ResetBle(b, b.timeouts) ELSE ble
    /\ job' = IF counts THEN ResetJobs(b, b.timeouts) ELSE job
    /\ IF timedOut /\ job[j].kind = "create" /\ shuttingDown
       THEN at' = [at EXCEPT !.pc = "abandon", !.why = "shutdown"] /\ UNCHANGED ifaceLock
       ELSE Fail(at, at.why) /\ Leave
    /\ UNCHANGED <<shuttingDown, lib, iface, client, meshLock, lifecycle, teardown, call, link,
                   main, drops>>

-----------------------------------------------------------------------------
(* Publishing the client, and the rollback of a failed attempt *)

Close(i) == link' = [link EXCEPT ![i] = "closed"]

\* The setup section: a wrong device and a shutdown close the interface again.
Publish ==
    /\ At("publish") /\ meshLock = "free"
    /\ meshLock' = "connector"
    /\ IF Wrong(at.client) \/ shuttingDown
       THEN /\ Goto(IF Wrong(at.client) THEN "refusing" ELSE "cancelling")
            /\ IF at.client = iface
               THEN TearDown(ConnectThread, iface, IfaceGeneration(iface)) /\ UNCHANGED link
               ELSE Close(at.client) /\ UNCHANGED teardown
            /\ UNCHANGED client
       ELSE /\ client' = at.client
            /\ at' = [at EXCEPT !.pc = "setup", !.assigned = TRUE]
            /\ UNCHANGED <<teardown, link>>
    /\ UNCHANGED <<shuttingDown, lib, iface, ifaceLock, job, ble, lifecycle, call, main, drops>>

Refused ==
    /\ At("refusing") /\ ~Tearing(ConnectThread)
    /\ iface' = None /\ meshLock' = "free"
    /\ Fail(at, "refused")
    /\ UNCHANGED <<shuttingDown, lib, client, ifaceLock, job, ble, lifecycle, teardown, call,
                   link, main, drops>>

CancelledByShutdown ==
    /\ At("cancelling") /\ ~Tearing(ConnectThread)
    /\ iface' = None /\ meshLock' = "free" /\ at' = Idle
    /\ UNCHANGED <<shuttingDown, lib, client, ifaceLock, job, ble, lifecycle, teardown, call,
                   link, main, drops>>

\* getMyNodeInfo(), the metadata and the subscriptions.
Setup ==
    /\ At("setup")
    /\ \/ ~shuttingDown /\ at' = Idle /\ meshLock' = "free"
       \/ Fail(at, "error") /\ meshLock' = "free"
       \/ shuttingDown /\ Fail(at, "shutdown") /\ UNCHANGED meshLock
    /\ UNCHANGED <<shuttingDown, lib, iface, client, ifaceLock, job, ble, lifecycle, teardown,
                   call, link, main, drops>>

\* The handlers of the exceptions and _handle_typed_ble_exception_after_rollback().
NextTry ==
    LET ends == shuttingDown \/ at.why \in {"shutdown", "refused", "degraded", "mismatch"}
        timeouts == IF at.why = "timeout" /\ RetryLimit = 0 THEN at.timeouts + 1 ELSE at.timeouts
        exhausted == \/ RetryLimit # 0 /\ at.attempts + 1 > RetryLimit
                     \/ RetryLimit = 0 /\ at.why = "timeout" /\ timeouts > MaxTimeouts IN
    IF ends \/ exhausted THEN Idle
    ELSE [Idle EXCEPT !.pc = "attempt", !.timeouts = timeouts,
                      !.attempts = IF RetryLimit = 0 THEN 0 ELSE at.attempts + 1]

\* _rollback_connect_attempt_state()
Rollback ==
    LET c == at.client IN
    /\ At("rollback")
    /\ IF c # None /\ (at.assigned \/ c = iface)
       THEN /\ meshLock \in {"free", "connector"}
            /\ meshLock' = "connector"
            /\ IF c = iface THEN TearDown(ConnectThread, c, IfaceGeneration(c)) /\ UNCHANGED link
               ELSE UNCHANGED teardown /\ (IF c = client THEN Close(c) ELSE UNCHANGED link)
            /\ Goto("closed")
       ELSE at' = NextTry /\ UNCHANGED <<meshLock, teardown, link>>
    /\ UNCHANGED <<shuttingDown, lib, iface, client, ifaceLock, job, ble, lifecycle, call, main,
                   drops>>

RolledBack ==
    LET c == at.client IN
    /\ At("closed") /\ ~Tearing(ConnectThread)
    /\ iface' = (IF c = iface THEN None ELSE iface)
    /\ client' = (IF c = client THEN None ELSE client)
    /\ meshLock' = "free"
    /\ at' = NextTry
    /\ UNCHANGED <<shuttingDown, lib, ifaceLock, job, ble, lifecycle, teardown, call, link,
                   main, drops>>

-----------------------------------------------------------------------------
(* The worker threads and the timers *)

\* DaemonThreadExecutor._worker() takes the oldest job.
Start(j) ==
    /\ job[j].st = "queued" /\ ~WorkerBusy(job[j].ex)
    /\ \A k \in 1..(j - 1) : job[k].ex = job[j].ex => job[k].st # "queued"
    /\ job' = [job EXCEPT ![j].st = "running"]
    /\ UNCHANGED <<shuttingDown, lib, iface, client, locks, at, ble, lifecycle, teardown, call,
                   link, main, drops>>

\* The constructor or connect() returns or raises: set_result(), set_exception().
Finish(j) ==
    /\ job[j].st = "running"
    /\ \E res \in {"ok", "wrong"} \cup Errors :
          /\ res = "wrong" => job[j].kind = "create"
          /\ job' = [job EXCEPT ![j].st = "callbacks", ![j].res = res]
          /\ link' = IF job[j].kind = "create" /\ res \in {"ok", "wrong"}
                     THEN [link EXCEPT ![j] = "open"] ELSE link
    /\ UNCHANGED <<shuttingDown, lib, iface, client, locks, at, ble, lifecycle, teardown, call,
                   main, drops>>

\* A job with nothing left to do; whether it reached the right device is remembered.
Over(j) == [job EXCEPT ![j].st = "over", ![j].ex = None, ![j].late = FALSE,
                       ![j].disposer = FALSE, ![j].timer = IF @ = "armed" THEN "off" ELSE @]

\* The first callback: _clear_ble_future(); the future is over without a disposer.
Callback(j) ==
    /\ job[j].st = "callbacks"
    /\ ble' = Cleared(ble, j)
    /\ job' = IF job[j].disposer
              THEN [job EXCEPT ![j].st = "dispose", ![j].timer = IF @ = "armed" THEN "off" ELSE @]
              ELSE Over(j)
    /\ UNCHANGED <<shuttingDown, lib, iface, client, locks, at, lifecycle, teardown, call, link,
                   main, drops>>

\* The second one: _dispose() of what the job made, unless it is in use.
Dispose(j) ==
    LET i == job[j].iface
        made == job[j].kind = "connect" \/ job[j].res \in {"ok", "wrong"} IN
    /\ job[j].st = "dispose"
    /\ IF made
       THEN /\ ifaceLock = "free"
            /\ IF i = iface
               THEN job' = Over(j) /\ UNCHANGED teardown
               ELSE /\ job' = [job EXCEPT ![j].st = "disposing"]
                    /\ TearDown(j, i, IfaceGeneration(i))
       ELSE job' = Over(j) /\ UNCHANGED teardown
    /\ UNCHANGED <<shuttingDown, lib, iface, client, locks, at, ble, lifecycle, call, link, main,
                   drops>>

Disposed(j) ==
    /\ job[j].st = "disposing" /\ ~Tearing(j)
    /\ job' = Over(j)
    /\ UNCHANGED <<shuttingDown, lib, iface, client, locks, at, ble, lifecycle, teardown, call,
                   link, main, drops>>

\* The watchdog finds the job it was set for still in the way,
WatchdogFires(j) ==
    /\ job[j].timer = "armed"
    /\ job' = [job EXCEPT ![j].timer = IF Done(j) \/ ble.slot # j THEN "off" ELSE "firing"]
    /\ UNCHANGED <<shuttingDown, lib, iface, client, locks, at, ble, lifecycle, teardown, call,
                   link, main, drops>>

\* and replaces the executor, whatever the current job is by then.
WatchdogResets(j) ==
    /\ job[j].timer = "firing"
    /\ ble' = ResetBle(ble, TimeoutThreshold)
    /\ job' = [ResetJobs(ble, TimeoutThreshold) EXCEPT ![j].timer = "off"]
    /\ UNCHANGED <<shuttingDown, lib, iface, client, locks, at, lifecycle, teardown, call, link,
                   main, drops>>

-----------------------------------------------------------------------------
(* The lost connection and the shutdown *)

\* on_lost_meshtastic_connection() for the current client.
Lost ==
    /\ client # None /\ ~shuttingDown /\ meshLock = "free" /\ drops < MaxDrops
    /\ drops' = drops + 1
    /\ meshLock' = "lost"
    /\ gen' = IF Addressed(iface) THEN gen + 1 ELSE gen
    /\ registered' = IF Addressed(iface) THEN [registered EXCEPT ![iface] = gen + 1] ELSE registered
    /\ TearDown(LostThread, iface, IF Addressed(iface) THEN gen + 1 ELSE IfaceGeneration(iface))
    /\ UNCHANGED <<shuttingDown, lib, iface, client, ifaceLock, at, job, ble, unresolved, call,
                   link, main>>

\* _clear_stale_ble_future_for_reconnect() and _finalize_stale_ble_cleanup() release
\* a job that is still in the way, with a disposer for what a constructor returns;
\* then the degraded state is reset.
LostClosed ==
    LET stale == SlotBusy
        j == ble.slot
        b == IF stale THEN [ble EXCEPT !.slot = None, !.timeouts = 0, !.exec = None,
                                       !.shut = FALSE] ELSE ble IN
    /\ meshLock = "lost" /\ ~Tearing(LostThread)
    /\ iface' = None /\ client' = None /\ meshLock' = "free"
    /\ ble' = ResetDegraded(b)
    /\ job' = IF stale
              THEN ShutDown(Cancelled([job EXCEPT ![j].disposer = @ \/ job[j].kind = "create"], j), ble.exec)
              ELSE job
    /\ UNCHANGED <<shuttingDown, lib, ifaceLock, at, lifecycle, teardown, call, link, main,
                   drops>>

Stop ==
    /\ ~shuttingDown
    /\ shuttingDown' = TRUE /\ main' = "closing"
    /\ UNCHANGED <<lib, iface, client, locks, at, job, ble, lifecycle, teardown, call, link, drops>>

\* _close_meshtastic_client_best_effort() takes no lock, and leaves an interface
\* without a client alone.
CloseClient ==
    /\ main = "closing"
    /\ IF client = None
       THEN main' = "executors" /\ UNCHANGED <<teardown, link>>
       ELSE /\ main' = "waiting"
            /\ IF client = iface
               THEN TearDown(MainThread, iface, IfaceGeneration(iface)) /\ UNCHANGED link
               ELSE Close(client) /\ UNCHANGED teardown
    /\ UNCHANGED <<shuttingDown, lib, iface, client, locks, at, job, ble, lifecycle, call, drops>>

\* It waits for MESHTASTIC_CLOSE_TIMEOUT_SECS and goes on.
ClientClosed ==
    /\ main = "waiting"
    /\ iface' = None /\ client' = None /\ main' = "executors"
    /\ UNCHANGED <<shuttingDown, lib, locks, at, job, ble, lifecycle, teardown, call, link, drops>>

\* _shutdown_shared_executors()
ShutdownExecutors ==
    /\ main = "executors"
    /\ main' = "done"
    /\ ble' = [ble EXCEPT !.slot = None, !.exec = None, !.timeouts = 0, !.orphans = 0,
                          !.degraded = FALSE, !.shut = FALSE]
    /\ job' = ShutDown(Cancelled(job, ble.slot), ble.exec)
    /\ gen' = 0 /\ registered' = [j \in Jobs |-> 0]
    /\ unresolved' = [g \in Generations |-> 0]
    /\ UNCHANGED <<shuttingDown, lib, iface, client, locks, at, teardown, call, link, drops>>

-----------------------------------------------------------------------------
Connector ==
    \/ OldClosed \/ Attempt \/ DropWrong \/ WrongDropped \/ Reuse \/ MayCreate \/ MayConnect
    \/ Submit \/ Created \/ Connected \/ JobFails \/ WaitEnds \/ AbandonJob
    \/ DisposeInline \/ CountTimeout \/ Publish \/ Refused \/ CancelledByShutdown \/ Setup
    \/ Rollback \/ RolledBack

Callbacks(j) == Callback(j) \/ Dispose(j) \/ Disposed(j)
Watchdog(j) == WatchdogFires(j) \/ WatchdogResets(j)
Helper(c) == RecordTeardownTimeout(c) \/ FlagTimeout(c) \/ Recheck(c) \/ HelperExits(c)

\* The process ends with the shutdown of main(); its daemon threads end with it.
Next ==
    /\ main # "done"
    /\ \/ \E force \in BOOLEAN : Begin(force)
       \/ Connector
       \/ \E j \in Jobs : Start(j) \/ Finish(j) \/ Callbacks(j) \/ Watchdog(j)
       \/ \E t \in Threads : CallEnds(t) \/ CallTimesOut(t)
       \/ \E c \in Calls : Helper(c) \/ HelperDone(c)
       \/ Lost \/ LostClosed
       \/ Stop \/ CloseClient \/ ClientClosed \/ ShutdownExecutors

Spec == Init /\ [][Next]_vars

-----------------------------------------------------------------------------
(* _dispose() in the thread of a creation waits for meshtastic_iface_lock, *)
(* which is not reentrant and which the thread holds itself: the attempt   *)
(* stays there, and the interface that came in the last moment stays open. *)
SelfBlocked(i) == At("disposing") /\ ifaceLock = "connector" /\ job[at.job].iface = i

(* What the attempt keeps an eye on while it holds a job or an interface. *)
HeldByAttempt(i) ==
    \/ at.job # None /\ job[at.job].iface = i
          /\ \/ at.pc \in {"wait", "abandon"} /\ (job[at.job].kind = "create" \/ iface = i)
             \/ At("disposing") /\ ifaceLock # "connector"
    \/ at.client = i /\ at.pc \in {"publish", "setup", "refusing", "cancelling", "rollback", "closed"}

\* A link that is open belongs to somebody who will use it or close it: it is the
\* singleton, an attempt still holds it, a job that is not over has its disposer,
\* or somebody is tearing it down (_attach_late_ble_interface_disposer()).  The one
\* exception is a constructor that returns between the end of the wait and the call
\* of _attach_late_ble_interface_disposer(): its attempt blocks itself for ever.
NoStrayLink ==
    \A i \in Jobs : link[i] = "open" =>
       \/ iface = i \/ client = i
       \/ HeldByAttempt(i) \/ SelfBlocked(i)
       \/ \E j \in Jobs : job[j].disposer /\ job[j].iface = i
                          /\ job[j].st \in {"running", "callbacks", "dispose", "disposing"}
       \/ \E t \in Threads : teardown[t].iface = i
       \/ \E c \in Calls : call[c].st = "acting" /\ call[c].iface = i

\* The count that keeps new interfaces from being opened is the number of library
\* calls still hanging: no more, so that nothing blocks the attempts for ever, and
\* no fewer, so that no interface is opened beside one being torn down
\* (_run_blocking_with_timeout() against _resolve_ble_teardown_timeout()).  Calls of
\* generation 0, on a late interface that does not show the address, do not count.
TeardownsCounted ==
    (main # "done" /\ \A c \in Calls : call[c].waiter \in {"none", "gone"} /\ call[c].st # "done") =>
       \A g \in Generations \ {0} :
          unresolved[g] = Cardinality({c \in Calls : call[c].st = "acting" /\ call[c].gen = g})

\* A job nobody waits for does not keep the only worker slot: while it is there, a
\* timer will take the slot away (_schedule_ble_future_cleanup() against the resets).
SlotIsWatched ==
    \A j \in Jobs :
       (ble.slot = j /\ job[j].st = "running" /\ (at.job # j \/ At("idle"))) =>
          job[j].timer \in {"armed", "firing"}

=============================================================================
