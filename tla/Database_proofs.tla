-------------------------- MODULE Database_proofs --------------------------
(***************************************************************************)
(* Theorems about the modules of db_utils.py: first DatabaseManager, for   *)
(* every set of threads and every number of operations and jobs; then      *)
(* MessageMapSchema, for every set of events and every number of           *)
(* interrupted and repeated starts; then NodeNames, for every set of nodes *)
(* and NodeDBs.  They share no state.                                      *)
(***************************************************************************)
EXTENDS DatabaseManager, MessageMapSchema, NodeNames, FiniteSetTheorems, TLAPS

-----------------------------------------------------------------------------
(* DatabaseManager *)

\* _connections_lock and _write_lock are held exactly by the threads in their
\* critical sections.
Holding ==
    \A t \in Threads : /\ connectionsLock = t <=> pc[t] \in {"create", "pragma"}
                       /\ writeLock = t <=> pc[t] \in {"pragma", "txn"}

ActiveThreads == {t \in Threads : Active(t)}

\* _active_sync_count counts the admitted operations.
Counted == active = Cardinality(ActiveThreads)

\* _allow_during_close is set for the operations that were admitted and, on the worker,
\* for the whole of executor_func().
Admitted ==
    /\ \A t \in Users : (allow[t] <=> Active(t)) /\ ~before[t]
    /\ allow[Worker] <=> pc[Worker] # "idle"

\* The worker and the one job that runs.
Serving ==
    /\ serving = 0 <=> pc[Worker] = "idle"
    /\ \A j \in Jobs : job[j].state = "running" <=> serving = j
    /\ Active(Worker) \/ pc[Worker] \in {"idle", "admit"}
    /\ pc[Worker] = "leave" => outcome \in {"ok", "error"}

\* An open connection is one that close() will find, and an operation past
\* _get_connection() has one.
Connected ==
    /\ open \subseteq tracked
    /\ \A t \in Threads : pc[t] \in {"ready", "txn"} => t \in local \cap open

\* The progress of close(): no more submissions, no more jobs, no more operations and
\* connections, in this order.
Sealed == ActiveThreads = {} /\ open = {}

Closing ==
    /\ \A t \in Threads :
         /\ pc[t] \in {"shutdown", "drain", "check", "wait", "reset"} => closing /\ ~accepting
         /\ pc[t] \in {"check", "wait", "reset"} => ExecutorIdle
         /\ pc[t] = "reset" => Sealed
    /\ closed => closing /\ ~accepting /\ ExecutorIdle /\ Sealed

CloseInv == TypeOK /\ Holding /\ Counted /\ Admitted /\ Serving /\ Connected /\ Closing

\* What is known of a job at each stage of it, and of the operation that carries it out.
Truth ==
    /\ \A j \in Jobs :
         /\ job[j].caller \in {"ok", "error"} => job[j].state = job[j].caller
         /\ job[j].caller = "refused" => job[j].state = "new"
         /\ job[j].write /\ job[j].state = "ok" => j \in stored
         /\ j \in stored => \/ job[j].state = "ok"
                            \/ job[j].state = "running" /\ pc[Worker] = "leave" /\ outcome = "ok"
    /\ serving # 0 => (op[Worker] = "write" <=> job[serving].write)
    /\ pc[Worker] = "leave" /\ op[Worker] = "write" /\ outcome = "ok" => serving \in stored

WriteInv == CloseInv /\ Truth
-----------------------------------------------------------------------------
(* The count of admitted operations. *)

\* There are finitely many threads, so the admitted ones can be counted.
LEMMA ActiveFinite == IsFiniteSet(ActiveThreads) /\ Cardinality(ActiveThreads) \in Nat
<1>1. IsFiniteSet(Threads)
  BY FS_AddElement, DatabaseAssumption DEF Threads
<1>2. IsFiniteSet(ActiveThreads)
  BY <1>1, FS_Subset DEF ActiveThreads
<1> QED BY <1>2, FS_CardinalityType

\* The count of close() is zero only when nobody is admitted.
LEMMA NobodyActive == ASSUME Counted, ~(active > 0), active \in Nat PROVE ActiveThreads = {}
<1>1. Cardinality(ActiveThreads) = 0
  BY DEF Counted
<1> QED BY <1>1, ActiveFinite, FS_EmptySet

\* _sync_activity() counts the operation in ...
LEMMA CountedIn ==
    ASSUME Counted, NEW t \in Threads, t \notin ActiveThreads,
           ActiveThreads' = ActiveThreads \cup {t}, active' = active + 1
    PROVE  Counted'
BY ActiveFinite, FS_AddElement DEF Counted

\* ... and out again.
LEMMA CountedOut ==
    ASSUME Counted, NEW t \in Threads, t \in ActiveThreads,
           ActiveThreads' = ActiveThreads \ {t}, active' = active - 1
    PROVE  Counted' /\ active' \in Nat
<1>1. Cardinality(ActiveThreads \ {t}) = Cardinality(ActiveThreads) - 1
  BY ActiveFinite, FS_RemoveElement
<1>2. IsFiniteSet(ActiveThreads \ {t})
  BY ActiveFinite, FS_RemoveElement
<1>3. Cardinality(ActiveThreads \ {t}) \in Nat
  BY <1>2, FS_CardinalityType
<1> QED BY <1>1, <1>3 DEF Counted

\* A flag of one thread is set to a flag.
LEMMA FlagSet ==
    ASSUME NEW f \in [Threads -> BOOLEAN], NEW t \in Threads, NEW b \in BOOLEAN
    PROVE  [f EXCEPT ![t] = b] \in [Threads -> BOOLEAN] /\ f[t] \in BOOLEAN
OBVIOUS

-----------------------------------------------------------------------------
(* close() against everything else. *)

\* The manager as __init__() leaves it.
LEMMA CloseInvInit == Init => CloseInv
<1> SUFFICES ASSUME Init PROVE CloseInv
  OBVIOUS
<1> USE DatabaseAssumption DEF Init, Threads, Jobs
<1>1. TypeOK
  <2>1. job \in [Jobs -> [state : Futures, write : BOOLEAN, caller : Replies]]
    BY DEF Futures, Replies
  <2>2. ops \in 0..MaxOps /\ active \in Nat /\ serving \in Jobs \cup {0}
    OBVIOUS
  <2> QED BY <2>1, <2>2 DEF TypeOK, Stages, Operations
<1>2. ActiveThreads = {}
  BY DEF ActiveThreads, Active
<1>3. Counted
  BY <1>2, FS_EmptySet DEF Counted
<1>4. Holding /\ Admitted /\ Serving /\ Connected /\ Closing
  BY DEF Holding, Admitted, Active, Serving, Connected, Closing
<1> QED BY <1>1, <1>3, <1>4 DEF CloseInv

\* The calls of run_sync(), close() and run_async(), and what becomes of their callers.
LEMMA CloseInvCalls ==
    ASSUME CloseInv,
           \/ \E t \in Users : (\E write \in BOOLEAN : RunSync(t, write)) \/ CallClose(t)
           \/ \E j \in Jobs : (\E write \in BOOLEAN : RunAsync(j, write)) \/ CancelCaller(j)
                              \/ CallerWakes(j)
           \/ Takes
    PROVE  CloseInv'
<1> USE DatabaseAssumption DEF CloseInv, TypeOK, Threads, locks, admission, connections, work,
                               Goto, Starts
<1>a. ASSUME TypeOK', ActiveThreads' = ActiveThreads, active' = active,
             Holding' /\ Admitted' /\ Serving' /\ Connected' /\ Closing'
      PROVE  CloseInv'
  BY <1>a DEF Counted
<1> USE DEF Stages, Operations, Futures, Replies, ActiveThreads, Active, Holding, Admitted, Serving,
            Connected, Closing, Sealed, ExecutorIdle
<1>1. ASSUME NEW t \in Users, NEW write \in BOOLEAN, RunSync(t, write) PROVE CloseInv'
  <2>1. TypeOK' /\ active' = active
    BY <1>1 DEF RunSync
  <2>2. ActiveThreads' = ActiveThreads
    BY <1>1 DEF RunSync
  <2>3. Holding' /\ Admitted' /\ Serving' /\ Connected' /\ Closing'
    BY <1>1, <2>2 DEF RunSync
  <2> QED BY <1>a, <2>1, <2>2, <2>3
<1>2. ASSUME NEW t \in Users, CallClose(t) PROVE CloseInv'
  <2>1. TypeOK' /\ active' = active
    BY <1>2 DEF CallClose
  <2>2. ActiveThreads' = ActiveThreads
    BY <1>2 DEF CallClose
  <2>3. Holding' /\ Admitted' /\ Serving' /\ Connected' /\ Closing'
    BY <1>2, <2>2 DEF CallClose
  <2> QED BY <1>a, <2>1, <2>2, <2>3
<1>3. ASSUME NEW j \in Jobs, NEW write \in BOOLEAN, RunAsync(j, write) PROVE CloseInv'
  <2>1. TypeOK' /\ active' = active
    BY <1>3 DEF RunAsync
  <2>2. ActiveThreads' = ActiveThreads
    BY <1>3 DEF RunAsync
  <2>3. Holding' /\ Admitted' /\ Serving' /\ Connected' /\ Closing'
    BY <1>3, <2>2 DEF RunAsync
  <2> QED BY <1>a, <2>1, <2>2, <2>3
<1>4. ASSUME NEW j \in Jobs, CancelCaller(j) PROVE CloseInv'
  <2>1. AbandonedFuture(j) \in {job[j].state, "cancelled"} \ (IF job[j].state = "running" THEN {"cancelled"} ELSE {})
    BY DEF AbandonedFuture
  <2>2. TypeOK' /\ active' = active
    BY <1>4, <2>1 DEF CancelCaller
  <2>3. ActiveThreads' = ActiveThreads
    BY <1>4 DEF CancelCaller
  <2>4. Holding' /\ Admitted' /\ Serving' /\ Connected' /\ Closing'
    BY <1>4, <2>1, <2>3 DEF CancelCaller
  <2> QED BY <1>a, <2>2, <2>3, <2>4
<1>5. ASSUME NEW j \in Jobs, CallerWakes(j) PROVE CloseInv'
  <2>1. TypeOK' /\ active' = active
    BY <1>5 DEF CallerWakes
  <2>2. ActiveThreads' = ActiveThreads
    BY <1>5 DEF CallerWakes
  <2>3. Holding' /\ Admitted' /\ Serving' /\ Connected' /\ Closing'
    BY <1>5, <2>2 DEF CallerWakes
  <2> QED BY <1>a, <2>1, <2>2, <2>3
<1>6. ASSUME NEW j \in Jobs, WorkerTakes(j) PROVE CloseInv'
  <2>1. TypeOK' /\ active' = active
    BY <1>6 DEF WorkerTakes
  <2>2. ActiveThreads' = ActiveThreads
    BY <1>6 DEF WorkerTakes
  <2>3. Serving'
    <3>1. serving = 0 /\ pc'[Worker] = "admit" /\ serving' = j /\ j # 0
      BY <1>6 DEF WorkerTakes, Jobs
    <3>2. \A i \in Jobs : job'[i].state = IF i = j THEN "running" ELSE job[i].state
      BY <1>6 DEF WorkerTakes
    <3> QED BY <3>1, <3>2 DEF Jobs
  <2>4. Holding' /\ Admitted' /\ Connected' /\ Closing'
    BY <1>6, <2>2 DEF WorkerTakes
  <2> QED BY <1>a, <2>1, <2>2, <2>3, <2>4
<1> QED BY <1>1, <1>2, <1>3, <1>4, <1>5, <1>6 DEF Takes

\* read() and write() on any thread, from _sync_activity() to its end.
LEMMA CloseInvOperations ==
    ASSUME CloseInv, NEW t \in Threads,
           \/ Admit(t) \/ GetConnection(t) \/ LockForPragmas(t)
           \/ \E succeeds \in BOOLEAN : Created(t, succeeds)
           \/ \E result \in {"ok", "error"} : ReadEnds(t, result) \/ WriteEnds(t, result)
           \/ LockForWrite(t) \/ Leave(t)
    PROVE  CloseInv'
<1> USE DatabaseAssumption DEF CloseInv, TypeOK, Threads, locks, admission, connections, work,
                               Goto, Leaves, Returns, Refused
<1>a. ASSUME TypeOK', ActiveThreads' = ActiveThreads, active' = active,
             Holding' /\ Admitted' /\ Serving' /\ Connected' /\ Closing'
      PROVE  CloseInv'
  BY <1>a DEF Counted
<1> USE DEF Stages, Operations, Futures, Replies, ActiveThreads, Active, Holding, Admitted, Serving,
            Connected, Closing, Sealed, ExecutorIdle
<1>1. CASE Admit(t)
  <2>1. CASE Refused(t)
    <3>1. TypeOK' /\ active' = active
      BY <1>1, <2>1 DEF Admit
    <3>2. ActiveThreads' = ActiveThreads
      BY <1>1, <2>1 DEF Admit
    <3>3. Holding' /\ Admitted' /\ Serving' /\ Connected' /\ Closing'
      BY <1>1, <2>1, <3>2 DEF Admit
    <3> QED BY <1>a, <3>1, <3>2, <3>3
  <2>2. CASE ~Refused(t)
    <3>1. TypeOK'
      <4>1. active' \in Nat /\ pc' \in [Threads -> Stages]
        BY <1>1, <2>2 DEF Admit
      <4>2. before' = [before EXCEPT ![t] = allow[t]] /\ allow' = [allow EXCEPT ![t] = TRUE]
        BY <1>1, <2>2 DEF Admit
      <4>3. allow' \in [Threads -> BOOLEAN] /\ before' \in [Threads -> BOOLEAN]
        BY <4>2, FlagSet
      <4> QED BY <1>1, <2>2, <4>1, <4>3 DEF Admit
    <3>2. t \notin ActiveThreads /\ ActiveThreads' = ActiveThreads \cup {t}
      BY <1>1, <2>2 DEF Admit
    <3>3. Counted'
      BY <1>1, <2>2, <3>2, CountedIn DEF Admit
    <3>4. Holding' /\ Admitted' /\ Serving' /\ Connected' /\ Closing'
      BY <1>1, <2>2 DEF Admit
    <3> QED BY <3>1, <3>3, <3>4
  <2> QED BY <2>1, <2>2
<1>2. CASE GetConnection(t)
  <2>1. TypeOK' /\ active' = active
    BY <1>2 DEF GetConnection
  <2>2. ActiveThreads' = ActiveThreads
    BY <1>2 DEF GetConnection
  <2>3. Holding' /\ Admitted' /\ Serving' /\ Connected' /\ Closing'
    BY <1>2, <2>2 DEF GetConnection
  <2> QED BY <1>a, <2>1, <2>2, <2>3
<1>3. CASE LockForPragmas(t)
  <2>1. TypeOK' /\ active' = active
    BY <1>3 DEF LockForPragmas
  <2>2. ActiveThreads' = ActiveThreads
    BY <1>3 DEF LockForPragmas
  <2>3. Holding' /\ Admitted' /\ Serving' /\ Connected' /\ Closing'
    BY <1>3, <2>2 DEF LockForPragmas
  <2> QED BY <1>a, <2>1, <2>2, <2>3
<1>4. ASSUME NEW succeeds \in BOOLEAN, Created(t, succeeds) PROVE CloseInv'
  <2>1. TypeOK' /\ active' = active
    BY <1>4 DEF Created
  <2>2. ActiveThreads' = ActiveThreads
    BY <1>4 DEF Created
  <2>3. Holding' /\ Admitted' /\ Serving' /\ Connected' /\ Closing'
    BY <1>4, <2>2 DEF Created
  <2> QED BY <1>a, <2>1, <2>2, <2>3
<1>5. ASSUME NEW result \in {"ok", "error"}, ReadEnds(t, result) PROVE CloseInv'
  <2>1. TypeOK' /\ active' = active
    BY <1>5 DEF ReadEnds
  <2>2. ActiveThreads' = ActiveThreads
    BY <1>5 DEF ReadEnds
  <2>3. Holding' /\ Admitted' /\ Serving' /\ Connected' /\ Closing'
    BY <1>5, <2>2 DEF ReadEnds
  <2> QED BY <1>a, <2>1, <2>2, <2>3
<1>6. CASE LockForWrite(t)
  <2>1. TypeOK' /\ active' = active
    BY <1>6 DEF LockForWrite
  <2>2. ActiveThreads' = ActiveThreads
    BY <1>6 DEF LockForWrite
  <2>3. Holding' /\ Admitted' /\ Serving' /\ Connected' /\ Closing'
    BY <1>6, <2>2 DEF LockForWrite
  <2> QED BY <1>a, <2>1, <2>2, <2>3
<1>7. ASSUME NEW result \in {"ok", "error"}, WriteEnds(t, result) PROVE CloseInv'
  <2>1. Committed(t) \subseteq Jobs
    BY <1>7 DEF WriteEnds, Committed
  <2>2. TypeOK' /\ active' = active
    BY <1>7, <2>1 DEF WriteEnds
  <2>3. ActiveThreads' = ActiveThreads
    BY <1>7 DEF WriteEnds
  <2>4. Holding' /\ Admitted' /\ Serving' /\ Connected' /\ Closing'
    BY <1>7, <2>3 DEF WriteEnds
  <2> QED BY <1>a, <2>2, <2>3, <2>4
<1>8. CASE Leave(t)
  <2>1. \A u \in Threads \ {t} : \/ pc'[u] = pc[u]
                                 \/ pc[u] = "wait" /\ pc'[u] = "check"
    BY <1>8 DEF Leave, Notified
  <2>2. pc'[t] = "idle" /\ pc' \in [Threads -> Stages]
    BY <1>8 DEF Leave, Notified
  <2>3. t \in ActiveThreads /\ ActiveThreads' = ActiveThreads \ {t}
    BY <1>8, <2>1, <2>2 DEF Leave
  <2>4. Counted' /\ active' \in Nat
    BY <1>8, <2>3, CountedOut DEF Leave
  <2>5. CASE t = Worker
    <3>1. serving \in Jobs /\ job[serving].state = "running" /\ outcome \in {"ok", "error"}
      BY <1>8, <2>5 DEF Leave
    <3>2. /\ serving' = 0 /\ outcome' = "none"
          /\ job' = [job EXCEPT ![serving].state = outcome]
      BY <1>8, <2>5 DEF Leave
    <3>3. TypeOK'
      BY <1>8, <2>2, <2>4, <2>5, <3>1, <3>2 DEF Leave
    <3>4. Serving'
      <4>1. \A j \in Jobs : job'[j].state = IF j = serving THEN outcome ELSE job[j].state
        BY <3>1, <3>2
      <4> QED BY <2>2, <2>5, <3>1, <3>2, <4>1 DEF Jobs
    <3>5. Holding' /\ Admitted' /\ Connected' /\ Closing'
      BY <1>8, <2>1, <2>2, <2>3, <2>5, <3>1, <3>2 DEF Leave
    <3> QED BY <2>4, <3>3, <3>4, <3>5
  <2>6. CASE t # Worker
    <3>1. TypeOK'
      BY <1>8, <2>2, <2>4, <2>6 DEF Leave
    <3>2. Holding' /\ Admitted' /\ Serving' /\ Connected' /\ Closing'
      BY <1>8, <2>1, <2>2, <2>3, <2>6 DEF Leave
    <3> QED BY <2>4, <3>1, <3>2
  <2> QED BY <2>5, <2>6
<1> QED BY <1>1, <1>2, <1>3, <1>4, <1>5, <1>6, <1>7, <1>8

\* close(), from its first critical section to its return.
LEMMA CloseInvClose ==
    ASSUME CloseInv, NEW t \in Threads,
           \/ CloseBegins(t) \/ ShutdownBegins(t) \/ ShutdownEnds(t)
           \/ CloseConnections(t) \/ ResetLocals(t)
    PROVE  CloseInv'
<1> USE DatabaseAssumption DEF CloseInv, TypeOK, Threads, locks, admission, connections, work,
                               Goto, Returns
<1>a. ASSUME TypeOK', ActiveThreads' = ActiveThreads, active' = active,
             Holding' /\ Admitted' /\ Serving' /\ Connected' /\ Closing'
      PROVE  CloseInv'
  BY <1>a DEF Counted
<1>b. CloseConnections(t) /\ ~(active > 0) => ActiveThreads = {}
  BY NobodyActive DEF CloseConnections
<1> USE DEF Stages, Operations, Futures, Replies, ActiveThreads, Active, Holding, Admitted, Serving,
            Connected, Closing, Sealed, ExecutorIdle
<1>1. CASE CloseBegins(t)
  <2>1. TypeOK' /\ active' = active
    BY <1>1 DEF CloseBegins
  <2>2. ActiveThreads' = ActiveThreads
    BY <1>1 DEF CloseBegins
  <2>3. Holding' /\ Admitted' /\ Serving' /\ Connected' /\ Closing'
    BY <1>1, <2>2 DEF CloseBegins
  <2> QED BY <1>a, <2>1, <2>2, <2>3
<1>2. CASE ShutdownBegins(t)
  <2>1. TypeOK' /\ active' = active
    BY <1>2 DEF ShutdownBegins
  <2>2. ActiveThreads' = ActiveThreads
    BY <1>2 DEF ShutdownBegins
  <2>3. Holding' /\ Admitted' /\ Serving' /\ Connected' /\ Closing'
    BY <1>2, <2>2 DEF ShutdownBegins
  <2> QED BY <1>a, <2>1, <2>2, <2>3
<1>3. CASE ShutdownEnds(t)
  <2>1. TypeOK' /\ active' = active
    BY <1>3 DEF ShutdownEnds
  <2>2. ActiveThreads' = ActiveThreads
    BY <1>3 DEF ShutdownEnds
  <2>3. Holding' /\ Admitted' /\ Serving' /\ Connected' /\ Closing'
    BY <1>3, <2>2 DEF ShutdownEnds
  <2> QED BY <1>a, <2>1, <2>2, <2>3
<1>4. CASE ResetLocals(t)
  <2>1. TypeOK' /\ active' = active
    BY <1>4 DEF ResetLocals
  <2>2. ActiveThreads' = ActiveThreads
    BY <1>4 DEF ResetLocals
  <2>3. Holding' /\ Admitted' /\ Serving' /\ Connected' /\ Closing'
    BY <1>4, <2>2 DEF ResetLocals
  <2> QED BY <1>a, <2>1, <2>2, <2>3
<1>5. CASE CloseConnections(t)
  <2>1. TypeOK' /\ active' = active
    BY <1>5 DEF CloseConnections
  <2>2. ActiveThreads' = ActiveThreads
    BY <1>5 DEF CloseConnections
  <2>3. CASE active > 0
    BY <1>5, <1>a, <2>1, <2>2, <2>3 DEF CloseConnections
  <2>4. CASE ~(active > 0)
    <3>1. \A u \in Threads : ~Active(u)
      BY <1>5, <1>b, <2>4
    <3>2. open' = {}
      BY <1>5, <2>4 DEF CloseConnections
    <3>3. Holding' /\ Admitted' /\ Serving' /\ Connected'
      BY <1>5, <2>4, <3>1, <3>2 DEF CloseConnections
    <3>4. Closing'
      BY <1>5, <2>2, <2>4, <3>1, <3>2 DEF CloseConnections
    <3> QED BY <1>a, <2>1, <2>2, <3>3, <3>4
  <2> QED BY <2>3, <2>4
<1> QED BY <1>1, <1>2, <1>3, <1>4, <1>5

\* No step of anybody breaks what close() relies on.
LEMMA CloseInvNext == CloseInv /\ [Next]_vars => CloseInv'
<1> SUFFICES ASSUME CloseInv, [Next]_vars PROVE CloseInv'
  OBVIOUS
<1>1. CASE UNCHANGED vars
  BY <1>1 DEF vars, locks, admission, connections, work, CloseInv, TypeOK, Counted, ActiveThreads,
     Active, Holding, Admitted, Serving, Connected, Closing, Sealed, ExecutorIdle
<1>2. ASSUME NEW t \in Threads, Step(t) PROVE CloseInv'
  BY <1>2, CloseInvOperations, CloseInvClose DEF Step
<1> QED BY <1>1, <1>2, CloseInvCalls DEF Next, Finished

\* close() waits for every operation that _sync_activity() admitted, which keeps its
\* connection to its end, and leaves no connection open, now or later.
THEOREM CloseOrderly == Spec => []CloseIsOrderly
<1>1. CloseInv => CloseIsOrderly
  BY DatabaseAssumption DEF CloseInv, Admitted, Serving, Connected, Closing, Sealed, CloseIsOrderly,
     AdmittedIsServed, CloseLeavesNothing, Threads, Active, TypeOK
<1> QED BY <1>1, CloseInvInit, CloseInvNext, PTL DEF Spec

-----------------------------------------------------------------------------
(* What the callers of run_async() are told. *)

\* No step makes an answer of run_async() untrue.
LEMMA TruthNext == WriteInv /\ [Next]_vars => Truth'
<1> SUFFICES ASSUME WriteInv, [Next]_vars PROVE Truth'
  OBVIOUS
<1> USE DatabaseAssumption DEF WriteInv, CloseInv, TypeOK, Threads, locks, admission, connections,
        work, Goto, Starts, Leaves, Returns, Refused, Serving, Truth
<1>1. ASSUME NEW t \in Users, (\E write \in BOOLEAN : RunSync(t, write)) \/ CallClose(t)
      PROVE  Truth'
  BY <1>1 DEF RunSync, CallClose
<1>2. ASSUME NEW j \in Jobs, NEW write \in BOOLEAN, RunAsync(j, write) PROVE Truth'
  BY <1>2 DEF RunAsync
<1>3. ASSUME NEW j \in Jobs, CancelCaller(j) PROVE Truth'
  BY <1>3 DEF CancelCaller, AbandonedFuture
<1>4. ASSUME NEW j \in Jobs, CallerWakes(j) PROVE Truth'
  BY <1>4 DEF CallerWakes
<1>5. ASSUME NEW j \in Jobs, WorkerTakes(j) PROVE Truth'
  BY <1>5 DEF WorkerTakes
<1>6. ASSUME NEW t \in Threads, Step(t) PROVE Truth'
  <2>1. CASE Admit(t)
    BY <2>1 DEF Admit, Admitted
  <2>2. CASE GetConnection(t) \/ LockForPragmas(t) \/ \E succeeds \in BOOLEAN : Created(t, succeeds)
    BY <2>2 DEF GetConnection, LockForPragmas, Created
  <2>3. CASE \E result \in {"ok", "error"} : ReadEnds(t, result)
    BY <2>3 DEF ReadEnds
  <2>4. CASE LockForWrite(t)
    BY <2>4 DEF LockForWrite
  <2>5. ASSUME NEW result \in {"ok", "error"}, WriteEnds(t, result) PROVE Truth'
    BY <2>5 DEF WriteEnds, Committed
  <2>6. CASE Leave(t)
    BY <2>6 DEF Leave, Notified
  <2>7. CASE \/ CloseBegins(t) \/ ShutdownBegins(t) \/ ShutdownEnds(t)
             \/ CloseConnections(t) \/ ResetLocals(t)
    BY <2>7 DEF CloseBegins, ShutdownBegins, ShutdownEnds, CloseConnections, ResetLocals, Active
  <2> QED BY <1>6, <2>1, <2>2, <2>3, <2>4, <2>5, <2>6, <2>7 DEF Step
<1>7. CASE UNCHANGED vars
  BY <1>7 DEF vars
<1> QED BY <1>1, <1>2, <1>3, <1>4, <1>5, <1>6, <1>7 DEF Next, Takes, Finished

\* Transactions and connection setups exclude each other, and a caller of
\* run_async(write=True) is told of a commit exactly when there was one.
THEOREM WritesTrue == Spec => []WritesAreTrue
<1>1. Init => WriteInv
  BY CloseInvInit, DatabaseAssumption DEF WriteInv, Init, Truth, Threads
<1>2. WriteInv /\ [Next]_vars => WriteInv'
  BY CloseInvNext, TruthNext DEF WriteInv
<1>3. WriteInv => WritesAreTrue
  BY DatabaseAssumption DEF WriteInv, CloseInv, Holding, Truth, WritesAreTrue, WriterAlone, AnswerIsTrue
<1> QED BY <1>1, <1>2, <1>3, PTL DEF Spec
-----------------------------------------------------------------------------
(* MessageMapSchema *)

Holds(db, n, e) == db[n] # Absent /\ db[n].rows[e] # Absent

\* e has a row in some table of db, or no row but r.
HasRow(db, e) == \E n \in Names : Holds(db, n, e)
OnlyRow(db, e, r) == HasRow(db, e) /\ \A n \in Names : Holds(db, n, e) => db[n].rows[e] = r

-----------------------------------------------------------------------------
(* What every state of the database keeps, committed or not. *)

\* No mapping is gone.
Kept(db) == \A e \in Events : HasRow(original, e) => HasRow(db, e)

\* The only row of an event keeps its meshtastic_meshnet value: it is in no table
\* that lacks the column.
Alone(db) ==
    \A e \in Events : \A r \in Rows :
        OnlyRow(original, e, r) /\ r.meshnet =>
            OnlyRow(db, e, r) /\ \A n \in Names : Holds(db, n, e) => db[n].column

\* The row message_map had is in message_map, or the rebuild has been interrupted: it
\* is in message_map_old_temp, which has the column, and no row has taken its place.
InMain(db, e) == Holds(db, "main", e) /\ db["main"].rows[e] = original["main"].rows[e]
InTemp(db, e) ==
    /\ Holds(db, "temp", e) /\ db["temp"].rows[e] = original["main"].rows[e]
    /\ db["temp"].column
    /\ db["main"] # Absent => db["main"].text /\ ~Holds(db, "main", e)

First(db) ==
    \A e \in Events : Holds(original, "main", e) => InMain(db, e) \/ InTemp(db, e)

DataKept(db) == Kept(db) /\ Alone(db) /\ First(db)

-----------------------------------------------------------------------------
(* What the statements before the next one have achieved. *)

\* Every row of table n has one of its event in table `in'.
Copied(n, in) == \A e \in Events : Holds(tables, n, e) => Holds(tables, in, e)

\* A table is dropped only in the transaction that copied its rows.
InTransaction ==
    /\ ~inTxn => disk = tables
    /\ at \in {"create", "done"} => ~inTxn
    /\ at \in {"drop stale", "drop temp", "drop legacy", "copy legacy", "drop copied",
               "merge stale", "drop merged", "drop last"} => inTxn

\* message_map and its columns.
MainTable ==
    /\ at \notin {"create", "scratch"} => Exists("main")
    /\ at \notin {"create", "column", "scratch"} => tables["main"].column
    /\ at \in {"drop temp", "drop legacy", "copy", "copy legacy", "drop copied", "merge stale",
               "drop merged", "drop last", "commit", "done"} => tables["main"].text
    /\ at \in {"drop temp", "legacy", "drop legacy", "set aside", "rename", "copy legacy",
               "drop copied", "merge stale", "drop merged", "drop last", "commit", "done"} =>
          \A e \in Events : Holds(original, "main", e) => InMain(tables, e)

\* The other tables.
OtherTables ==
    /\ at = "drop stale" =>
          \A e \in Events : Holds(tables, "stale", e) =>
              Holds(tables, "temp", e) \/ Holds(tables, "main", e)
    /\ at \in {"temp", "drop temp", "legacy", "drop legacy", "set aside"} => ~Exists("stale")
    /\ at = "drop temp" => Copied("temp", "main")
    /\ at = "legacy" /\ tables["main"].text => ~Exists("temp")
    /\ at \in {"drop legacy", "rename", "merge stale", "drop merged", "drop last", "commit", "done"}
          => ~Exists("temp")
    /\ at \in {"drop legacy", "drop copied", "merge stale", "drop merged", "drop last"}
          => Copied("legacy", "main")
    /\ at = "scratch" => ~Exists("main")
    /\ at \in {"scratch", "copy", "copy legacy", "drop copied"} => Exists("temp")
    /\ at \in {"copy legacy", "drop copied"} => Copied("temp", "main")
    /\ at \in {"merge stale", "drop merged"} => Exists("stale")
    /\ at = "drop merged" => Copied("stale", "main")
    /\ at \in {"commit", "done"} => ~Exists("legacy")

UpgradeInv ==
    UpgradeTypeOK /\ DataKept(disk) /\ DataKept(tables) /\ InTransaction /\ MainTable /\ OtherTables

-----------------------------------------------------------------------------
(* The effect of each kind of statement on the tables. *)

\* A table is a record of its type, and so is its absence told apart.
LEMMA TableFields ==
    ASSUME NEW t \in Tables
    PROVE  /\ t # Absent
           /\ t.text \in BOOLEAN /\ t.column \in BOOLEAN
           /\ \A e \in Events : t.rows[e] = Absent \/ t.rows[e] \in Rows
BY SchemaAssumption DEF Tables

\* A row without its meshtastic_meshnet value, or with it, is a row.
LEMMA RowCopied ==
    ASSUME NEW r \in Rows, NEW b \in BOOLEAN, NEW c \in BOOLEAN
    PROVE  /\ [r EXCEPT !.meshnet = @ /\ b /\ c] \in Rows
           /\ b /\ c => [r EXCEPT !.meshnet = @ /\ b /\ c] = r
BY DEF Rows

\* INSERT OR IGNORE adds the rows of the other table whose event has none.
LEMMA InsertEffect ==
    ASSUME UpgradeTypeOK, NEW into \in Names, NEW from \in Names, into # from,
           Exists(into), Exists(from), Insert(into, from)
    PROVE  /\ tables' \in [Names -> Tables \cup {Absent}]
           /\ \A n \in Names \ {into} : tables'[n] = tables[n]
           /\ tables'[into] # Absent
           /\ tables'[into].text = tables[into].text
           /\ tables'[into].column = tables[into].column
           /\ \A e \in Events :
                 IF Holds(tables, into, e) \/ ~Holds(tables, from, e)
                 THEN tables'[into].rows[e] = tables[into].rows[e]
                 ELSE /\ tables'[into].rows[e] \in Rows
                      /\ tables[into].column /\ tables[from].column =>
                            tables'[into].rows[e] = tables[from].rows[e]
<1> DEFINE Row(e) == [tables[from].rows[e] EXCEPT
                         !.meshnet = @ /\ tables[into].column /\ tables[from].column]
           New == [e \in Events |->
                     IF tables[into].rows[e] # Absent \/ tables[from].rows[e] = Absent
                     THEN tables[into].rows[e] ELSE Row(e)]
<1>1. tables[into] \in Tables /\ tables[from] \in Tables
  BY DEF UpgradeTypeOK, Exists
<1>2. Merged(into, from) = [tables[into] EXCEPT !.rows = New]
  BY <1>1 DEF Merged, Tables
<1>3. \A e \in Events : tables[from].rows[e] # Absent =>
          /\ Row(e) \in Rows
          /\ tables[into].column /\ tables[from].column => Row(e) = tables[from].rows[e]
  BY <1>1, TableFields, RowCopied
<1>4. New \in [Events -> Rows \cup {Absent}]
  BY <1>1, <1>3, TableFields
<1> HIDE DEF New, Row
<1>5. /\ Merged(into, from) \in Tables
      /\ Merged(into, from).text = tables[into].text
      /\ Merged(into, from).column = tables[into].column
      /\ Merged(into, from).rows = New
  BY <1>1, <1>2, <1>4 DEF Tables
<1>6. /\ tables' = [tables EXCEPT ![into] = Merged(into, from)]
      /\ tables \in [Names -> Tables \cup {Absent}]
  BY DEF Insert, UpgradeTypeOK
<1>7. \A e \in Events :
          New[e] = IF tables[into].rows[e] # Absent \/ tables[from].rows[e] = Absent
                   THEN tables[into].rows[e] ELSE Row(e)
  BY DEF New
<1>8. Merged(into, from) # Absent
  BY <1>5, SchemaAssumption
<1> QED
  BY <1>3, <1>5, <1>6, <1>7, <1>8 DEF Exists, Holds

\* A name holds a table or nothing.
LEMMA TableTypes ==
    ASSUME UpgradeTypeOK, NEW n \in Names
    PROVE  Exists(n) => tables[n] \in Tables
BY DEF UpgradeTypeOK, Exists

\* CREATE TABLE makes an empty table with TEXT ids and the column.
LEMMA NewTableFields ==
    /\ NewTable \in Tables /\ NewTable # Absent
    /\ NewTable.text /\ NewTable.column
    /\ \A e \in Events : NewTable.rows[e] = Absent
<1>1. NoRows \in [Events -> Rows \cup {Absent}] /\ \A e \in Events : NoRows[e] = Absent
  BY DEF NoRows
<1>2. NewTable \in Tables
  BY <1>1 DEF NewTable, Tables
<1>3. NewTable.text /\ NewTable.column /\ NewTable.rows = NoRows
  BY DEF NewTable
<1> QED BY <1>1, <1>2, <1>3, SchemaAssumption

\* ALTER TABLE ADD COLUMN leaves the rows as they are.
LEMMA ColumnEffect ==
    ASSUME UpgradeTypeOK, Exists("main"), tables' = [tables EXCEPT !["main"].column = TRUE]
    PROVE  /\ tables' \in [Names -> Tables \cup {Absent}]
           /\ \A n \in Names \ {"main"} : tables'[n] = tables[n]
           /\ tables'["main"] # Absent
           /\ tables'["main"].text = tables["main"].text
           /\ tables'["main"].column
           /\ tables'["main"].rows = tables["main"].rows
<1>1. "main" \in Names BY DEF Names
<1>2. tables["main"] \in Tables BY <1>1, TableTypes
<1>3. [tables["main"] EXCEPT !.column = TRUE] \in Tables BY <1>2 DEF Tables
<1>4. tables' = [tables EXCEPT !["main"] = [tables["main"] EXCEPT !.column = TRUE]]
  OBVIOUS
<1>5. /\ [tables["main"] EXCEPT !.column = TRUE].text = tables["main"].text
      /\ [tables["main"] EXCEPT !.column = TRUE].column
      /\ [tables["main"] EXCEPT !.column = TRUE].rows = tables["main"].rows
  BY <1>2 DEF Tables
<1> QED BY <1>1, <1>3, <1>4, <1>5, SchemaAssumption DEF UpgradeTypeOK

-----------------------------------------------------------------------------
(* Each kind of statement keeps what a database has to keep. *)

\* Rows are merged into a table that has the column if they may have a value, and into
\* message_map only once its own rows are back.
LEMMA InsertKeeps ==
    ASSUME UpgradeTypeOK, NEW into \in Names, NEW from \in Names, into # from,
           Exists(into), Exists(from), Insert(into, from), DataKept(tables),
           tables[from].column => tables[into].column,
           into = "main" /\ from # "temp" =>
              \A e \in Events : Holds(original, "main", e) => InMain(tables, e)
    PROVE  DataKept(tables)'
<1>1. original' = original BY DEF Insert
<1>2. Kept(tables)'
  BY <1>1, InsertEffect DEF DataKept, Kept, HasRow, Holds, Exists
<1>3. Alone(tables)'
  <2> SUFFICES ASSUME NEW e \in Events, NEW r \in Rows, OnlyRow(original, e, r), r.meshnet
               PROVE  /\ OnlyRow(tables', e, r)
                      /\ \A n \in Names : Holds(tables', n, e) => tables'[n].column
    BY <1>1 DEF Alone
  <2>1. HasRow(tables', e)
    BY <1>1, <1>2 DEF Kept, OnlyRow
  <2>2. /\ \A n \in Names : Holds(tables, n, e) => tables[n].rows[e] = r /\ tables[n].column
    BY DEF DataKept, Alone, OnlyRow
  <2>3. \A n \in Names : Holds(tables', n, e) => tables'[n].rows[e] = r /\ tables'[n].column
    BY <2>2, InsertEffect DEF Holds, Exists
  <2> QED BY <2>1, <2>3 DEF OnlyRow
<1>4. First(tables)'
  <2> SUFFICES ASSUME NEW e \in Events, Holds(original, "main", e)
               PROVE  InMain(tables, e)' \/ InTemp(tables, e)'
    BY <1>1 DEF First
  <2>1. CASE InMain(tables, e)
    BY <2>1, <1>1, InsertEffect DEF InMain, Holds, Exists, Names
  <2>2. CASE InTemp(tables, e)
    BY <2>2, <1>1, InsertEffect DEF InMain, InTemp, Holds, Exists, Names
  <2> QED BY <2>1, <2>2 DEF DataKept, First
<1> QED BY <1>2, <1>3, <1>4 DEF DataKept

\* A table that is dropped has its rows in others.
LEMMA DropKeeps ==
    ASSUME UpgradeTypeOK, NEW n \in Names \ {"main"}, Drop(n), DataKept(tables),
           \A e \in Events : Holds(tables, n, e) =>
               \E m \in Names \ {n} : Holds(tables, m, e),
           n = "temp" => \A e \in Events : Holds(original, "main", e) => InMain(tables, e)
    PROVE  /\ DataKept(tables)'
           /\ tables' \in [Names -> Tables \cup {Absent}]
           /\ tables'[n] = Absent
           /\ \A m \in Names \ {n} : tables'[m] = tables[m]
<1>1. original' = original BY DEF Drop, Ddl
<1>2. /\ tables' \in [Names -> Tables \cup {Absent}]
      /\ tables'[n] = Absent
      /\ \A m \in Names \ {n} : tables'[m] = tables[m]
  BY DEF Drop, Ddl, UpgradeTypeOK
<1>3. Kept(tables)'
  BY <1>1, <1>2 DEF DataKept, Kept, HasRow, Holds
<1>4. Alone(tables)'
  BY <1>1, <1>2, <1>3 DEF DataKept, Alone, OnlyRow, Kept, HasRow, Holds
<1>5. First(tables)'
  BY <1>1, <1>2 DEF DataKept, First, InMain, InTemp, Holds, Names
<1> QED BY <1>2, <1>3, <1>4, <1>5 DEF DataKept

\* A table is renamed to a name that is free; message_map only once it has the column,
\* message_map_old_temp only while message_map has its own rows.
LEMMA RenameKeeps ==
    ASSUME UpgradeTypeOK, NEW n \in Names, NEW to \in Names \ {"main"}, n # to,
           Exists(n), ~Exists(to), Rename(n, to), DataKept(tables),
           n = "main" => to = "temp" /\ tables[n].column,
           n = "temp" => \A e \in Events : Holds(original, "main", e) => InMain(tables, e)
    PROVE  /\ DataKept(tables)'
           /\ tables' \in [Names -> Tables \cup {Absent}]
           /\ tables'[n] = Absent /\ tables'[to] = tables[n]
           /\ \A m \in Names \ {n, to} : tables'[m] = tables[m]
<1>1. original' = original BY DEF Rename, Ddl
<1>2. /\ tables' \in [Names -> Tables \cup {Absent}]
      /\ tables'[n] = Absent /\ tables'[to] = tables[n]
      /\ \A m \in Names \ {n, to} : tables'[m] = tables[m]
  BY DEF Rename, Ddl, UpgradeTypeOK
<1>3. Kept(tables)'
  BY <1>1, <1>2 DEF DataKept, Kept, HasRow, Holds, Exists
<1>4. Alone(tables)'
  BY <1>1, <1>2, <1>3 DEF DataKept, Alone, OnlyRow, Kept, HasRow, Holds, Exists
<1>5. First(tables)'
  BY <1>1, <1>2 DEF DataKept, First, InMain, InTemp, Holds, Names, Exists
<1> QED BY <1>2, <1>3, <1>4, <1>5 DEF DataKept

\* An empty message_map takes nothing away.
LEMMA NewMainKeeps ==
    ASSUME UpgradeTypeOK, ~Exists("main"), Ddl([tables EXCEPT !["main"] = NewTable]), DataKept(tables)
    PROVE  /\ DataKept(tables)'
           /\ tables' \in [Names -> Tables \cup {Absent}]
           /\ tables'["main"] = NewTable
           /\ \A m \in Names \ {"main"} : tables'[m] = tables[m]
<1>1. original' = original BY DEF Ddl
<1>2. /\ tables' \in [Names -> Tables \cup {Absent}]
      /\ tables'["main"] = NewTable
      /\ \A m \in Names \ {"main"} : tables'[m] = tables[m]
  BY NewTableFields DEF Ddl, UpgradeTypeOK, Names
<1>3. Kept(tables)'
  BY <1>1, <1>2 DEF DataKept, Kept, HasRow, Holds, Exists
<1>4. Alone(tables)'
  BY <1>1, <1>2, <1>3, NewTableFields DEF DataKept, Alone, OnlyRow, Kept, HasRow, Holds, Exists
<1>5. First(tables)'
  BY <1>1, <1>2, NewTableFields DEF DataKept, First, InMain, InTemp, Holds, Names, Exists
<1> QED BY <1>2, <1>3, <1>4, <1>5 DEF DataKept

\* Neither does the new column.
LEMMA ColumnKeeps ==
    ASSUME UpgradeTypeOK, Exists("main"), Ddl([tables EXCEPT !["main"].column = TRUE]),
           DataKept(tables)
    PROVE  DataKept(tables)'
<1>1. original' = original BY DEF Ddl
<1>2. tables' = [tables EXCEPT !["main"].column = TRUE] BY DEF Ddl
<1>3. Kept(tables)'
  BY <1>1, <1>2, ColumnEffect DEF DataKept, Kept, HasRow, Holds, Exists
<1>4. Alone(tables)'
  BY <1>1, <1>2, <1>3, ColumnEffect DEF DataKept, Alone, OnlyRow, Kept, HasRow, Holds, Exists
<1>5. First(tables)'
  BY <1>1, <1>2, ColumnEffect DEF DataKept, First, InMain, InTemp, Holds, Names, Exists
<1> QED BY <1>3, <1>4, <1>5 DEF DataKept

\* What is committed is what was committed before or what the connection sees.
LEMMA DiskKept ==
    ASSUME DataKept(disk), DataKept(tables)', original' = original, disk' = disk \/ disk' = tables'
    PROVE  DataKept(disk)'
<1>1. CASE disk' = disk
  BY <1>1 DEF DataKept, Kept, Alone, First, InMain, InTemp, OnlyRow, HasRow, Holds
<1>2. CASE disk' = tables'
  BY <1>2 DEF DataKept, Kept, Alone, First, InMain, InTemp, OnlyRow, HasRow, Holds
<1> QED BY <1>1, <1>2

\* A statement that changes no table keeps what the tables keep.
LEMMA SameTables ==
    ASSUME DataKept(tables), original' = original, tables' = tables
    PROVE  DataKept(tables)'
BY DEF DataKept, Kept, Alone, First, InMain, InTemp, OnlyRow, HasRow, Holds

\* A statement that is skipped keeps everything but its place.
LEMMA SkipKeeps ==
    ASSUME UpgradeTypeOK, DataKept(disk), DataKept(tables), Skip, at' \in Statements
    PROVE  UpgradeTypeOK' /\ DataKept(disk)' /\ DataKept(tables)'
<1>1. /\ disk' = disk /\ tables' = tables /\ inTxn' = inTxn /\ crashes' = crashes
      /\ starts' = starts /\ original' = original
  BY DEF Skip
<1>2. UpgradeTypeOK' BY <1>1 DEF UpgradeTypeOK
<1> QED BY <1>1, <1>2, SameTables, DiskKept

\* A merge into message_map leaves its rows and adds the others.
LEMMA IntoMain ==
    ASSUME UpgradeTypeOK, NEW from \in Names \ {"main"}, Exists("main"), Exists(from),
           Insert("main", from)
    PROVE  /\ tables' \in [Names -> Tables \cup {Absent}]
           /\ \A n \in Names \ {"main"} : tables'[n] = tables[n]
           /\ tables'["main"] # Absent
           /\ tables'["main"].text = tables["main"].text
           /\ tables'["main"].column = tables["main"].column
           /\ Copied(from, "main")'
           /\ \A e \in Events :
                 /\ Holds(tables, "main", e) => /\ Holds(tables', "main", e)
                                                /\ tables'["main"].rows[e] = tables["main"].rows[e]
                 /\ ~Holds(tables, "main", e) /\ Holds(tables, from, e)
                    /\ tables["main"].column /\ tables[from].column =>
                       /\ Holds(tables', "main", e)
                       /\ tables'["main"].rows[e] = tables[from].rows[e]
           /\ disk' = disk /\ inTxn' /\ crashes' = crashes /\ starts' = starts
           /\ original' = original
<1>1. "main" \in Names BY DEF Names
<1>2. /\ tables' \in [Names -> Tables \cup {Absent}]
      /\ \A n \in Names \ {"main"} : tables'[n] = tables[n]
      /\ tables'["main"] # Absent
      /\ tables'["main"].text = tables["main"].text
      /\ tables'["main"].column = tables["main"].column
  BY <1>1, InsertEffect
<1>3. \A e \in Events :
          IF Holds(tables, "main", e) \/ ~Holds(tables, from, e)
          THEN tables'["main"].rows[e] = tables["main"].rows[e]
          ELSE /\ tables'["main"].rows[e] \in Rows
               /\ tables["main"].column /\ tables[from].column =>
                     tables'["main"].rows[e] = tables[from].rows[e]
  BY <1>1, InsertEffect
<1>4. \A e \in Events :
          /\ Holds(tables, "main", e) => /\ Holds(tables', "main", e)
                                         /\ tables'["main"].rows[e] = tables["main"].rows[e]
          /\ Holds(tables, from, e) => Holds(tables', "main", e)
          /\ ~Holds(tables, "main", e) /\ Holds(tables, from, e)
             /\ tables["main"].column /\ tables[from].column =>
                tables'["main"].rows[e] = tables[from].rows[e]
  BY <1>2, <1>3, SchemaAssumption DEF Holds
<1>5. Copied(from, "main")'
  BY <1>2, <1>4 DEF Copied, Holds
<1> QED BY <1>2, <1>4, <1>5 DEF Insert

-----------------------------------------------------------------------------
(* The invariant is inductive. *)

\* A database of an older release has everything it has.
LEMMA UpgradeInvInit == UpgradeInit => UpgradeInv
<1> SUFFICES ASSUME UpgradeInit PROVE UpgradeInv OBVIOUS
<1>1. ASSUME NEW n \in Names, original[n] # Absent
      PROVE  /\ original[n] \in Tables
             /\ \A e \in Events : original[n].rows[e] # Absent =>
                   original[n].rows[e] \in Rows
                   /\ original[n].rows[e].meshnet = original[n].column
  <2>1. PICK x \in BOOLEAN, c \in BOOLEAN, held \in SUBSET Events :
            original[n] = [text |-> x, column |-> c,
                           rows |-> [e \in Events |-> IF e \in held
                                                      THEN [from |-> n, meshnet |-> c]
                                                      ELSE Absent]]
    <3>1. original[n] \in OldTables(n) BY DEF UpgradeInit
    <3> DEFINE T(x, c, held) ==
                 [text |-> x, column |-> c,
                  rows |-> [e \in Events |-> IF e \in held THEN [from |-> n, meshnet |-> c]
                                             ELSE Absent]]
    <3>2. original[n] \in {T(x, c, held) : x \in BOOLEAN, c \in BOOLEAN, held \in SUBSET Events}
      BY <1>1, <3>1 DEF OldTables
    <3> HIDE DEF T
    <3>3. \E x \in BOOLEAN, c \in BOOLEAN, held \in SUBSET Events : original[n] = T(x, c, held)
      BY <3>2
    <3> QED BY <3>3 DEF T
  <2> DEFINE R == [e \in Events |-> IF e \in held THEN [from |-> n, meshnet |-> c] ELSE Absent]
  <2>2. R \in [Events -> Rows \cup {Absent}]
    BY DEF Rows
  <2>3. \A e \in Events : R[e] # Absent => R[e] \in Rows /\ R[e].meshnet = c
    BY DEF Rows
  <2> HIDE DEF R
  <2>4. original[n] = [text |-> x, column |-> c, rows |-> R]
    BY <2>1 DEF R
  <2> QED BY <2>2, <2>3, <2>4 DEF Tables
<1>2. original \in [Names -> Tables \cup {Absent}]
  BY <1>1 DEF UpgradeInit
<1>3. UpgradeTypeOK
  <2>1. crashes \in 0..MaxCrashes /\ starts \in 0..MaxStarts BY SchemaAssumption DEF UpgradeInit
  <2> QED BY <1>2, <2>1 DEF UpgradeInit, UpgradeTypeOK, Statements
<1>4. Kept(original) /\ First(original)
  BY DEF Kept, First, InMain
<1>5. Alone(original)
  BY <1>1 DEF Alone, OnlyRow, HasRow, Holds
<1>6. DataKept(disk) /\ DataKept(tables)
  BY <1>4, <1>5 DEF UpgradeInit, DataKept
<1>7. InTransaction /\ MainTable /\ OtherTables
  BY DEF UpgradeInit, InTransaction, MainTable, OtherTables
<1> QED BY <1>3, <1>6, <1>7 DEF UpgradeInv

\* The statements before the rebuild.
LEMMA RecoveryInv ==
    ASSUME UpgradeInv,
           CreateTable \/ AddColumn \/ RecoverStale \/ DropStale \/ MergeTemp \/ DropTemp
           \/ MergeLegacy \/ DropLegacy
    PROVE  UpgradeInv'
<1>a. UpgradeTypeOK /\ DataKept(disk) /\ DataKept(tables) BY DEF UpgradeInv
<1>b. {"main", "temp", "legacy", "stale"} = Names BY DEF Names
<1> USE <1>a, <1>b DEF UpgradeInv, InTransaction, MainTable, OtherTables, Copied, Holds, Exists, InMain,
                 At, Statements
<1>0. ASSUME Skip, at' \in Statements PROVE UpgradeTypeOK' /\ DataKept(disk)' /\ DataKept(tables)'
  BY <1>0, SkipKeeps
<1>1. CASE CreateTable
  <2>1. CASE Exists("main")
    BY <1>0, <1>1, <2>1 DEF CreateTable, Skip
  <2>2. CASE ~Exists("main")
    <3>1. Ddl([tables EXCEPT !["main"] = NewTable]) BY <1>1, <2>2 DEF CreateTable
    <3>2. /\ DataKept(tables)'
          /\ tables' \in [Names -> Tables \cup {Absent}]
          /\ tables'["main"] = NewTable
          /\ \A m \in Names \ {"main"} : tables'[m] = tables[m]
      BY <2>2, <3>1, NewMainKeeps
    <3>3. DataKept(disk)' BY <3>1, <3>2, DiskKept DEF Ddl
    <3>4. UpgradeTypeOK' BY <1>1, <3>1, <3>2 DEF UpgradeTypeOK, Ddl, CreateTable
    <3> QED BY <1>1, <3>1, <3>2, <3>3, <3>4, NewTableFields DEF CreateTable, Ddl
  <2> QED BY <2>1, <2>2
<1>2. CASE AddColumn
  <2>1. CASE tables["main"].column
    BY <1>0, <1>2, <2>1 DEF AddColumn, Skip
  <2>2. CASE ~tables["main"].column
    <3>1. Ddl([tables EXCEPT !["main"].column = TRUE]) BY <1>2, <2>2 DEF AddColumn
    <3>2. DataKept(tables)' BY <1>2, <3>1, ColumnKeeps DEF AddColumn
    <3>3. DataKept(disk)' BY <3>1, <3>2, DiskKept DEF Ddl
    <3>4. UpgradeTypeOK' BY <1>2, <3>1, ColumnEffect DEF UpgradeTypeOK, Ddl, AddColumn
    <3> QED BY <1>2, <3>1, <3>2, <3>3, <3>4, ColumnEffect DEF AddColumn, Ddl
  <2> QED BY <2>1, <2>2
<1>3. CASE RecoverStale
  <2>1. CASE ~Exists("stale")
    BY <1>0, <1>3, <2>1 DEF RecoverStale, Skip
  <2>2. CASE Exists("stale") /\ ~Exists("temp")
    <3>1. Rename("stale", "temp") /\ at = "stale" /\ at' = "temp"
      BY <1>3, <2>2 DEF RecoverStale
    <3>2. /\ DataKept(tables)'
          /\ tables' \in [Names -> Tables \cup {Absent}]
          /\ tables'["stale"] = Absent /\ tables'["temp"] = tables["stale"]
          /\ \A m \in Names \ {"stale", "temp"} : tables'[m] = tables[m]
      BY <2>2, <3>1, RenameKeeps
    <3>3. DataKept(disk)' BY <3>1, <3>2, DiskKept DEF Ddl, Rename
    <3>4. UpgradeTypeOK' BY <3>1, <3>2 DEF UpgradeTypeOK, Ddl, Rename
    <3> QED BY <3>1, <3>2, <3>3, <3>4 DEF Ddl, Rename
  <2>3. CASE Exists("stale") /\ Exists("temp")
    <3>1. Insert(StaleTarget, "stale") /\ at = "stale" /\ at' = "drop stale"
      BY <1>3, <2>3 DEF RecoverStale
    <3>2. /\ StaleTarget \in Names \ {"stale"} /\ Exists(StaleTarget)
          /\ tables["stale"].column => tables[StaleTarget].column
          /\ StaleTarget = "main" =>
                \A e \in Events : Holds(original, "main", e) => InMain(tables, e)
      BY <2>3, <3>1 DEF StaleTarget, DataKept, First, InTemp
    <3>3. DataKept(tables)' BY <2>3, <3>1, <3>2, InsertKeeps
    <3>4. DataKept(disk)' BY <3>1, <3>3, DiskKept DEF Insert
    <3>5. UpgradeTypeOK' BY <2>3, <3>1, <3>2, InsertEffect DEF UpgradeTypeOK, Insert
    <3>6. InTransaction' BY <3>1 DEF Insert
    <3>7. StaleTarget \in {"temp", "main"} BY DEF StaleTarget
    <3>8. MainTable' /\ OtherTables'
      <4>1. original' = original BY <3>1 DEF Insert
      <4>2. /\ \A n \in Names \ {StaleTarget} : tables'[n] = tables[n]
            /\ tables'[StaleTarget] # Absent
            /\ tables'[StaleTarget].column = tables[StaleTarget].column
        BY <2>3, <3>1, <3>2, InsertEffect
      <4>3. \A e \in Events : Holds(tables, "stale", e) => tables'[StaleTarget].rows[e] # Absent
        <5>1. \A e \in Events :
                 IF Holds(tables, StaleTarget, e) \/ ~Holds(tables, "stale", e)
                 THEN tables'[StaleTarget].rows[e] = tables[StaleTarget].rows[e]
                 ELSE tables'[StaleTarget].rows[e] \in Rows
          BY <2>3, <3>1, <3>2, InsertEffect
        <5> QED BY <5>1, SchemaAssumption
      <4> QED BY <2>3, <3>1, <3>2, <3>7, <4>1, <4>2, <4>3
    <3> QED BY <3>3, <3>4, <3>5, <3>6, <3>8
  <2> QED BY <2>1, <2>2, <2>3
<1>4. CASE DropStale
  <2>1. Drop("stale") /\ at = "drop stale" /\ at' = "temp" BY <1>4 DEF DropStale
  <2>2. /\ DataKept(tables)'
        /\ tables' \in [Names -> Tables \cup {Absent}]
        /\ tables'["stale"] = Absent
        /\ \A m \in Names \ {"stale"} : tables'[m] = tables[m]
    BY <2>1, DropKeeps
  <2>3. DataKept(disk)' BY <2>1, <2>2, DiskKept DEF Ddl, Drop
  <2>4. UpgradeTypeOK' BY <2>1, <2>2 DEF UpgradeTypeOK, Ddl, Drop
  <2> QED BY <2>1, <2>2, <2>3, <2>4 DEF Ddl, Drop
<1>5. CASE MergeTemp
  <2>1. CASE Exists("temp") /\ tables["main"].text
    <3>1. Insert("main", "temp") /\ at = "temp" /\ at' = "drop temp"
      BY <1>5, <2>1 DEF MergeTemp
    <3>2. DataKept(tables)' BY <2>1, <3>1, InsertKeeps
    <3>3. DataKept(disk)' BY <3>1, <3>2, DiskKept DEF Insert
    <3>4. UpgradeTypeOK' BY <2>1, <3>1, IntoMain DEF UpgradeTypeOK
    <3>5. \A e \in Events : Holds(original, "main", e) => InMain(tables, e)'
      <4>1. /\ original' = original
            /\ \A e \in Events :
                  /\ Holds(tables, "main", e) => /\ Holds(tables', "main", e)
                                                 /\ tables'["main"].rows[e] = tables["main"].rows[e]
                  /\ ~Holds(tables, "main", e) /\ Holds(tables, "temp", e)
                     /\ tables["main"].column /\ tables["temp"].column =>
                        /\ Holds(tables', "main", e)
                        /\ tables'["main"].rows[e] = tables["temp"].rows[e]
        BY <2>1, <3>1, IntoMain
      <4>2. \A e \in Events : Holds(original, "main", e) => InMain(tables, e) \/ InTemp(tables, e)
        BY DEF DataKept, First
      <4>3. tables["main"].column /\ Exists("main") BY <3>1
      <4> QED BY <4>1, <4>2, <4>3 DEF InTemp
    <3>6. (InTransaction /\ MainTable /\ OtherTables)'
      BY <2>1, <3>1, <3>5, IntoMain
    <3> QED BY <3>2, <3>3, <3>4, <3>6
  <2>2. CASE ~(Exists("temp") /\ tables["main"].text)
    <3>1. \A e \in Events : Holds(original, "main", e) => InMain(tables, e)
      BY <1>5, <2>2 DEF MergeTemp, DataKept, First, InTemp
    <3> QED BY <1>0, <1>5, <2>2, <3>1 DEF MergeTemp, Skip
  <2> QED BY <2>1, <2>2
<1>6. CASE DropTemp
  <2>1. Drop("temp") /\ at = "drop temp" /\ at' = "legacy" BY <1>6 DEF DropTemp
  <2>2. /\ DataKept(tables)'
        /\ tables' \in [Names -> Tables \cup {Absent}]
        /\ tables'["temp"] = Absent
        /\ \A m \in Names \ {"temp"} : tables'[m] = tables[m]
    BY <2>1, DropKeeps
  <2>3. DataKept(disk)' BY <2>1, <2>2, DiskKept DEF Ddl, Drop
  <2>4. UpgradeTypeOK' BY <2>1, <2>2 DEF UpgradeTypeOK, Ddl, Drop
  <2> QED BY <2>1, <2>2, <2>3, <2>4 DEF Ddl, Drop
<1>7. CASE MergeLegacy
  <2>1. CASE Exists("legacy") /\ tables["main"].text
    <3>1. Insert("main", "legacy") /\ at = "legacy" /\ at' = "drop legacy"
      BY <1>7, <2>1 DEF MergeLegacy
    <3>2. DataKept(tables)' BY <2>1, <3>1, InsertKeeps
    <3>3. DataKept(disk)' BY <3>1, <3>2, DiskKept DEF Insert
    <3>4. UpgradeTypeOK' BY <2>1, <3>1, IntoMain DEF UpgradeTypeOK
    <3>5. (InTransaction /\ MainTable /\ OtherTables)'
      BY <2>1, <3>1, IntoMain
    <3> QED BY <3>2, <3>3, <3>4, <3>5
  <2>2. CASE ~(Exists("legacy") /\ tables["main"].text)
    BY <1>0, <1>7, <2>2 DEF MergeLegacy, Skip
  <2> QED BY <2>1, <2>2
<1>8. CASE DropLegacy
  <2>1. Drop("legacy") /\ at = "drop legacy" /\ at' = "commit" BY <1>8 DEF DropLegacy
  <2>2. /\ DataKept(tables)'
        /\ tables' \in [Names -> Tables \cup {Absent}]
        /\ tables'["legacy"] = Absent
        /\ \A m \in Names \ {"legacy"} : tables'[m] = tables[m]
    BY <2>1, DropKeeps
  <2>3. DataKept(disk)' BY <2>1, <2>2, DiskKept DEF Ddl, Drop
  <2>4. UpgradeTypeOK' BY <2>1, <2>2 DEF UpgradeTypeOK, Ddl, Drop
  <2> QED BY <2>1, <2>2, <2>3, <2>4 DEF Ddl, Drop
<1> QED BY <1>1, <1>2, <1>3, <1>4, <1>5, <1>6, <1>7, <1>8

\* The rebuild with TEXT ids and the commit.
LEMMA RebuildInv ==
    ASSUME UpgradeInv,
           SetTempAside \/ RenameMain \/ CreateFromScratch \/ CopyMain \/ CopyLegacy
           \/ DropCopied \/ MergeSetAside \/ DropSetAside \/ DropLastLegacy \/ Commit
    PROVE  UpgradeInv'
<1>a. UpgradeTypeOK /\ DataKept(disk) /\ DataKept(tables) BY DEF UpgradeInv
<1>b. {"main", "temp", "legacy", "stale"} = Names BY DEF Names
<1> USE <1>a, <1>b DEF UpgradeInv, InTransaction, MainTable, OtherTables, Copied, Holds, Exists, InMain,
                 At, Statements
<1>0. ASSUME Skip, at' \in Statements PROVE UpgradeTypeOK' /\ DataKept(disk)' /\ DataKept(tables)'
  BY <1>0, SkipKeeps
<1>1. CASE SetTempAside
  <2>1. CASE Exists("temp")
    <3>1. Rename("temp", "stale") /\ at = "set aside" /\ at' = "rename"
      BY <1>1, <2>1 DEF SetTempAside
    <3>2. /\ DataKept(tables)'
          /\ tables' \in [Names -> Tables \cup {Absent}]
          /\ tables'["temp"] = Absent /\ tables'["stale"] = tables["temp"]
          /\ \A m \in Names \ {"temp", "stale"} : tables'[m] = tables[m]
      BY <2>1, <3>1, RenameKeeps
    <3>3. DataKept(disk)' BY <3>1, <3>2, DiskKept DEF Ddl, Rename
    <3>4. UpgradeTypeOK' BY <3>1, <3>2 DEF UpgradeTypeOK, Ddl, Rename
    <3> QED BY <3>1, <3>2, <3>3, <3>4 DEF Ddl, Rename
  <2>2. CASE ~Exists("temp")
    BY <1>0, <1>1, <2>2 DEF SetTempAside, Skip
  <2> QED BY <2>1, <2>2
<1>2. CASE RenameMain
  <2>1. Rename("main", "temp") /\ at = "rename" /\ at' = "scratch"
    BY <1>2 DEF RenameMain
  <2>2. /\ DataKept(tables)'
        /\ tables' \in [Names -> Tables \cup {Absent}]
        /\ tables'["main"] = Absent /\ tables'["temp"] = tables["main"]
        /\ \A m \in Names \ {"main", "temp"} : tables'[m] = tables[m]
    BY <2>1, RenameKeeps
  <2>3. DataKept(disk)' BY <2>1, <2>2, DiskKept DEF Ddl, Rename
  <2>4. UpgradeTypeOK' BY <2>1, <2>2 DEF UpgradeTypeOK, Ddl, Rename
  <2> QED BY <2>1, <2>2, <2>3, <2>4 DEF Ddl, Rename
<1>3. CASE CreateFromScratch
  <2>1. Ddl([tables EXCEPT !["main"] = NewTable]) /\ at = "scratch" /\ at' = "copy"
    BY <1>3 DEF CreateFromScratch
  <2>2. /\ DataKept(tables)'
        /\ tables' \in [Names -> Tables \cup {Absent}]
        /\ tables'["main"] = NewTable
        /\ \A m \in Names \ {"main"} : tables'[m] = tables[m]
    BY <2>1, NewMainKeeps
  <2>3. DataKept(disk)' BY <2>1, <2>2, DiskKept DEF Ddl
  <2>4. UpgradeTypeOK' BY <2>1, <2>2 DEF UpgradeTypeOK, Ddl
  <2> QED BY <2>1, <2>2, <2>3, <2>4, NewTableFields DEF Ddl
<1>4. CASE CopyMain
  <2>1. Insert("main", "temp") /\ at = "copy" /\ at' = "copy legacy"
    BY <1>4 DEF CopyMain
  <2>2. DataKept(tables)' BY <2>1, InsertKeeps
  <2>3. DataKept(disk)' BY <2>1, <2>2, DiskKept DEF Insert
  <2>4. UpgradeTypeOK' BY <2>1, IntoMain DEF UpgradeTypeOK
  <2>5. \A e \in Events : Holds(original, "main", e) => InMain(tables, e)'
    <3>1. /\ original' = original
          /\ \A e \in Events :
                /\ Holds(tables, "main", e) => /\ Holds(tables', "main", e)
                                               /\ tables'["main"].rows[e] = tables["main"].rows[e]
                /\ ~Holds(tables, "main", e) /\ Holds(tables, "temp", e)
                   /\ tables["main"].column /\ tables["temp"].column =>
                      /\ Holds(tables', "main", e)
                      /\ tables'["main"].rows[e] = tables["temp"].rows[e]
      BY <2>1, IntoMain
    <3>2. \A e \in Events : Holds(original, "main", e) => InMain(tables, e) \/ InTemp(tables, e)
      BY DEF DataKept, First
    <3>3. tables["main"].column /\ Exists("main") BY <2>1
    <3> QED BY <3>1, <3>2, <3>3 DEF InTemp
  <2>6. (InTransaction /\ MainTable /\ OtherTables)'
    BY <2>1, <2>5, IntoMain
  <2> QED BY <2>2, <2>3, <2>4, <2>6
<1>5. CASE CopyLegacy
  <2>1. CASE Exists("legacy")
    <3>1. Insert("main", "legacy") /\ at = "copy legacy" /\ at' = "drop copied"
      BY <1>5, <2>1 DEF CopyLegacy
    <3>2. DataKept(tables)' BY <2>1, <3>1, InsertKeeps
    <3>3. DataKept(disk)' BY <3>1, <3>2, DiskKept DEF Insert
    <3>4. UpgradeTypeOK' BY <2>1, <3>1, IntoMain DEF UpgradeTypeOK
    <3>5. (InTransaction /\ MainTable /\ OtherTables)'
      BY <2>1, <3>1, IntoMain
    <3> QED BY <3>2, <3>3, <3>4, <3>5
  <2>2. CASE ~Exists("legacy")
    BY <1>0, <1>5, <2>2 DEF CopyLegacy, Skip
  <2> QED BY <2>1, <2>2
<1>6. CASE DropCopied
  <2>1. /\ Drop("temp") /\ at = "drop copied"
        /\ at' = IF Exists("stale") THEN "merge stale" ELSE "drop last"
    BY <1>6 DEF DropCopied
  <2>2. /\ DataKept(tables)'
        /\ tables' \in [Names -> Tables \cup {Absent}]
        /\ tables'["temp"] = Absent
        /\ \A m \in Names \ {"temp"} : tables'[m] = tables[m]
    BY <2>1, DropKeeps
  <2>3. DataKept(disk)' BY <2>1, <2>2, DiskKept DEF Ddl, Drop
  <2>4. UpgradeTypeOK' BY <2>1, <2>2 DEF UpgradeTypeOK, Ddl, Drop
  <2> QED BY <2>1, <2>2, <2>3, <2>4 DEF Ddl, Drop
<1>7. CASE MergeSetAside
  <2>1. CASE Insert("main", "stale") /\ at = "merge stale" /\ at' = "drop merged"
    <3>1. DataKept(tables)' BY <2>1, InsertKeeps
    <3>2. DataKept(disk)' BY <2>1, <3>1, DiskKept DEF Insert
    <3>3. UpgradeTypeOK' BY <2>1, IntoMain DEF UpgradeTypeOK
    <3>4. (InTransaction /\ MainTable /\ OtherTables)'
      BY <2>1, IntoMain
    <3> QED BY <3>1, <3>2, <3>3, <3>4
  <2>2. CASE Skip /\ at = "merge stale" /\ at' = "drop last"
    BY <1>0, <2>2 DEF Skip
  <2> QED BY <1>7, <2>1, <2>2 DEF MergeSetAside
<1>8. CASE DropSetAside
  <2>1. Drop("stale") /\ at = "drop merged" /\ at' = "drop last" BY <1>8 DEF DropSetAside
  <2>2. /\ DataKept(tables)'
        /\ tables' \in [Names -> Tables \cup {Absent}]
        /\ tables'["stale"] = Absent
        /\ \A m \in Names \ {"stale"} : tables'[m] = tables[m]
    BY <2>1, DropKeeps
  <2>3. DataKept(disk)' BY <2>1, <2>2, DiskKept DEF Ddl, Drop
  <2>4. UpgradeTypeOK' BY <2>1, <2>2 DEF UpgradeTypeOK, Ddl, Drop
  <2> QED BY <2>1, <2>2, <2>3, <2>4 DEF Ddl, Drop
<1>9. CASE DropLastLegacy
  <2>1. Drop("legacy") /\ at = "drop last" /\ at' = "commit" BY <1>9 DEF DropLastLegacy
  <2>2. /\ DataKept(tables)'
        /\ tables' \in [Names -> Tables \cup {Absent}]
        /\ tables'["legacy"] = Absent
        /\ \A m \in Names \ {"legacy"} : tables'[m] = tables[m]
    BY <2>1, DropKeeps
  <2>3. DataKept(disk)' BY <2>1, <2>2, DiskKept DEF Ddl, Drop
  <2>4. UpgradeTypeOK' BY <2>1, <2>2 DEF UpgradeTypeOK, Ddl, Drop
  <2> QED BY <2>1, <2>2, <2>3, <2>4 DEF Ddl, Drop
<1>10. CASE Commit
  <2>1. /\ at = "commit" /\ at' = "done" /\ disk' = tables /\ tables' = tables /\ ~inTxn'
        /\ crashes' = crashes /\ starts' = starts /\ original' = original
    BY <1>10 DEF Commit
  <2>2. DataKept(tables)'
    BY <2>1 DEF DataKept, Kept, Alone, First, InTemp, OnlyRow, HasRow
  <2>3. DataKept(disk)' BY <2>1, <2>2, DiskKept
  <2>4. UpgradeTypeOK' BY <1>10, <2>1 DEF UpgradeTypeOK, Commit
  <2> QED BY <2>1, <2>2, <2>3, <2>4
<1> QED BY <1>1, <1>2, <1>3, <1>4, <1>5, <1>6, <1>7, <1>8, <1>9, <1>10

\* Every statement, every interruption and every further start keeps the invariant.
LEMMA UpgradeInvNext == UpgradeInv /\ [UpgradeNext]_upgradeVars => UpgradeInv'
<1> SUFFICES ASSUME UpgradeInv, [UpgradeNext]_upgradeVars PROVE UpgradeInv' OBVIOUS
<1> USE DEF UpgradeInv, Statements
<1>1. CASE Upgrade
  BY <1>1, RecoveryInv, RebuildInv DEF Upgrade
<1>2. CASE Crash
  <2>1. UpgradeTypeOK'
    <3>1. crashes \in 0..MaxCrashes /\ crashes < MaxCrashes /\ crashes' = crashes + 1
      BY <1>2 DEF Crash, UpgradeTypeOK
    <3>2. MaxCrashes \in Nat BY SchemaAssumption
    <3>3. crashes' \in 0..MaxCrashes BY <3>1, <3>2
    <3> QED BY <1>2, <3>3 DEF Crash, UpgradeTypeOK
  <2>2. DataKept(disk)' /\ DataKept(tables)'
    BY <1>2 DEF Crash, DataKept, Kept, Alone, First, InMain, InTemp, OnlyRow, HasRow, Holds
  <2> QED BY <1>2, <2>1, <2>2 DEF Crash, InTransaction, MainTable, OtherTables
<1>3. CASE StartAgain
  <2>1. UpgradeTypeOK' BY <1>3, SchemaAssumption DEF StartAgain, UpgradeTypeOK, At
  <2>2. DataKept(tables)' BY <1>3, SameTables DEF StartAgain
  <2>3. DataKept(disk)' BY <1>3, <2>2, DiskKept DEF StartAgain
  <2> QED BY <1>3, <2>1, <2>2, <2>3 DEF StartAgain, At, InTransaction, MainTable, OtherTables
<1>4. CASE UNCHANGED upgradeVars
  <2>1. UpgradeTypeOK' BY <1>4 DEF upgradeVars, UpgradeTypeOK
  <2>2. DataKept(tables)' BY <1>4, SameTables DEF upgradeVars
  <2>3. DataKept(disk)' BY <1>4, <2>2, DiskKept DEF upgradeVars
  <2>4. (InTransaction /\ MainTable /\ OtherTables)'
    BY <1>4 DEF upgradeVars, InTransaction, MainTable, OtherTables, Copied, Holds, Exists, InMain
  <2> QED BY <2>1, <2>2, <2>3, <2>4
<1> QED BY <1>1, <1>2, <1>3, <1>4 DEF UpgradeNext, UpgradeFinished

\* The rows of an event, as the properties name them.
LEMMA RowsAre ==
    ASSUME NEW db, NEW e \in Events
    PROVE  /\ RowsOf(db, e) # {} <=> HasRow(db, e)
           /\ \A r : RowsOf(db, e) = {r} <=> OnlyRow(db, e, r)
BY DEF RowsOf, HasRow, OnlyRow, Holds

\* The invariant says what the properties say.
LEMMA UpgradeInvImplies ==
    ASSUME UpgradeInv
    PROVE  MappingsKept /\ (at = "done" => Upgraded)
<1>1. at = "done" => disk = tables
  BY DEF UpgradeInv, InTransaction
<1>2. NoMappingLost
  <2> SUFFICES ASSUME NEW e \in Events, RowsOf(original, e) # {}
               PROVE  /\ RowsOf(disk, e) # {}
                      /\ at = "done" =>
                            \/ disk["main"].rows[e] # Absent
                            \/ disk["stale"] # Absent /\ disk["stale"].rows[e] # Absent
    BY DEF NoMappingLost
  <2>1. HasRow(disk, e)
    BY RowsAre DEF UpgradeInv, DataKept, Kept
  <2>2. at = "done" => \/ disk["main"].rows[e] # Absent
                       \/ disk["stale"] # Absent /\ disk["stale"].rows[e] # Absent
    BY <1>1, <2>1 DEF HasRow, Holds, Names, UpgradeInv, OtherTables, Exists
  <2> QED BY <2>1, <2>2, RowsAre
<1>3. NewestWins
  BY <1>1 DEF NewestWins, UpgradeInv, MainTable, InMain, Holds
<1>4. MeshnetKept
  <2> SUFFICES ASSUME NEW e \in Events, NEW r \in RowsOf(original, e), r.meshnet,
                      RowsOf(original, e) = {r}
               PROVE  r \in RowsOf(disk, e)
    BY DEF MeshnetKept
  <2>1. OnlyRow(original, e, r) BY RowsAre
  <2>2. r \in Rows
    BY TableFields DEF RowsOf, UpgradeInv, UpgradeTypeOK
  <2>3. OnlyRow(disk, e, r)
    BY <2>1, <2>2 DEF UpgradeInv, DataKept, Alone
  <2> QED BY <2>3, RowsAre
<1>5. at = "done" => Upgraded
  BY <1>1 DEF Upgraded, UpgradeInv, MainTable, OtherTables, Exists
<1> QED BY <1>2, <1>3, <1>4, <1>5 DEF MappingsKept

\* The upgrade keeps every mapping, the newest of an event and its meshnet value,
\* wherever it is cut short (initialize_database()).
THEOREM UpgradeKeepsMappings == UpgradeSpec => []MappingsKept
<1>1. UpgradeInv => MappingsKept BY UpgradeInvImplies
<1> QED BY UpgradeInvInit, UpgradeInvNext, <1>1, PTL DEF UpgradeSpec

\* An upgrade that ends, ends with TEXT ids, the column and no leftover table, whatever
\* an older release or an interrupted upgrade has left (initialize_database()).
THEOREM UpgradeIsWhole == UpgradeSpec => [](at = "done" => Upgraded)
<1>1. UpgradeInv => (at = "done" => Upgraded) BY UpgradeInvImplies
<1> QED BY UpgradeInvInit, UpgradeInvNext, <1>1, PTL DEF UpgradeSpec

-----------------------------------------------------------------------------
(* NodeNames *)

\* Both tables have a row for every node, and only a complete snapshot is pruned to.
Rectangular(t) ==
    /\ t = [f \in Fields |-> t[f]]
    /\ \A f \in Fields : t[f] = [i \in Ids |-> t[f][i]]

NamesInv == Rectangular(table) /\ (txn = "prune" => snap.complete)

\* Every step of the refresh, of the packet handler and of the device keeps it.
LEMMA NamesInvNext ==
    ASSUME NamesInv, [NamesNext]_namesVars
    PROVE  NamesInv'
<1>1. Rectangular(table)'
  <2>1. CASE Prune
    <3> DEFINE rows(f) == [i \in Ids |-> IF i \in snap.ids THEN table[f][i] ELSE None]
    <3>1. table' = [f \in Fields |-> rows(f)] BY <2>1 DEF Prune, Pruned
    <3>2. \A f \in Fields : rows(f) = [i \in Ids |-> rows(f)[i]] OBVIOUS
    <3> HIDE DEF rows
    <3> QED BY <3>1, <3>2 DEF Rectangular
  <2>2. CASE Sync
    <3>1. table' = [f \in Fields |-> Synced(f)] BY <2>2 DEF Sync
    <3>2. ASSUME NEW f \in Fields
          PROVE  Synced(f) = [i \in Ids |-> Synced(f)[i]]
      BY DEF Synced, Pruned
    <3> QED BY <3>1, <3>2 DEF Rectangular
  <2>3. CASE Saves
    <3>1. PICK g \in Fields : SaveName(g) BY <2>3 DEF Saves
    <3> DEFINE row == [table[g] EXCEPT ![handler.id] = handler.names[g]]
    <3>2. row = [i \in Ids |-> row[i]] BY DEF NamesInv, Rectangular
    <3>3. table' = [table EXCEPT ![g] = row] BY <3>1 DEF SaveName
    <3> HIDE DEF row
    <3>4. \A f \in Fields : table'[f] = IF f = g THEN row ELSE table[f]
      BY <3>3 DEF NamesInv, Rectangular
    <3>5. table' = [f \in Fields |-> table'[f]] BY <3>3 DEF NamesInv, Rectangular
    <3> QED BY <3>2, <3>4, <3>5 DEF NamesInv, Rectangular
  <2>4. CASE UNCHANGED table BY <2>4 DEF NamesInv, Rectangular
  <2> QED
    BY <2>1, <2>2, <2>3, <2>4 DEF NamesNext, namesVars, Refresh, RefreshSkips, Match,
       TransactionFails, TaskFails, FindMissing, DeviceChanges
<1>2. (txn = "prune" => snap.complete)'
  <2>1. CASE Refresh BY <2>1, Zenon DEF Refresh
  <2>2. CASE UNCHANGED <<txn, snap>> BY <2>2 DEF NamesInv
  <2>3. CASE txn' # "prune" BY <2>3
  <2> QED
    BY <2>1, <2>2, <2>3 DEF NamesNext, namesVars, RefreshSkips, Prune, Match, Sync,
       TransactionFails, TaskFails, FindMissing, Saves, SaveName, DeviceChanges,
       RefreshReturns
<1> QED BY <1>1, <1>2 DEF NamesInv

\* What a step may do to a stored name.
MayForget(f, i) ==
    table[f][i] # None /\ table'[f][i] = None =>
        /\ snap.complete
        /\ i \notin snap.ids \/ snap.state[i][f] = None

\* Of all the transactions only the pruning and the synchronisation clear a row.
LEMMA StepForgets ==
    ASSUME NamesInv, [NamesNext]_namesVars, NEW f \in Fields, NEW i \in Ids
    PROVE  MayForget(f, i)
<1> USE DEF MayForget
<1>1. CASE UNCHANGED table BY <1>1
<1>2. CASE Prune
  <2>1. table'[f][i] = IF i \in snap.ids THEN table[f][i] ELSE None
    BY <1>2 DEF Prune, Pruned
  <2>2. snap.complete BY <1>2 DEF Prune, NamesInv
  <2> QED BY <2>1, <2>2
<1>3. CASE Sync
  <2>1. table'[f][i] = Synced(f)[i] BY <1>3 DEF Sync
  <2>2. CASE snap.complete BY <2>1, <2>2 DEF Synced, Pruned
  <2>3. CASE ~snap.complete BY <2>1, <2>3 DEF Synced
  <2> QED BY <2>2, <2>3
<1>4. CASE Saves
  <2>1. PICK g \in Fields : SaveName(g) BY <1>4 DEF Saves
  <2>2. table'[f][i] \in {table[f][i], handler.names[g]}
    BY <2>1 DEF SaveName, NamesInv, Rectangular
  <2> QED BY <2>1, <2>2 DEF SaveName
<1> QED
  BY <1>1, <1>2, <1>3, <1>4 DEF NamesNext, namesVars, Refresh, RefreshSkips, Match,
     TransactionFails, TaskFails, FindMissing, DeviceChanges

\* A stored name is deleted only by a refresh whose snapshot of the device is complete
\* and has no such name, for every NodeDB and however the refresh, the packet handler,
\* the device, failures and restarts interleave (sync_name_tables_if_changed()).
THEOREM NamesAreKept == NamesSpec => OnlyTheDeviceForgets
<1>1. NamesInit => NamesInv
  BY DEF NamesInit, NamesInv, Rectangular
<1>2. NamesInv /\ [NamesNext]_namesVars => NamesInv'
  BY NamesInvNext
<1>3. NamesInv /\ [NamesNext]_namesVars =>
        [\A f \in Fields, i \in Ids :
            table[f][i] # None /\ table'[f][i] = None =>
                /\ snap.complete
                /\ i \notin snap.ids \/ snap.state[i][f] = None]_namesVars
  BY StepForgets DEF MayForget
<1> QED BY <1>1, <1>2, <1>3, PTL DEF NamesSpec, OnlyTheDeviceForgets
=============================================================================
