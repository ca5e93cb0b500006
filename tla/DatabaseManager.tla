--------------------------- MODULE DatabaseManager ---------------------------
(***************************************************************************)
(* DatabaseManager of db_runtime.py: a SQLite connection per thread, one   *)
(* writer at a time, a one-thread executor for run_async(), and close(),   *)
(* which may race all of them.  _get_db_manager() calls close() on a       *)
(* manager that other threads still hold whenever the database             *)
(* configuration changes, and _reset_db_manager() does so at any time.     *)
(*                                                                         *)
(* A thread performs one operation at a time, as every caller in           *)
(* db_utils.py does: no operation is started inside another one.  A step   *)
(* is one critical section, or the code between two of them.               *)
(***************************************************************************)
EXTENDS Naturals, FiniteSets

CONSTANTS
    Users,      \* the threads that call run_sync() or close()
    Creator,    \* the thread whose _get_db_manager() constructed the manager
    Worker,     \* the thread of _async_executor (DB_EXECUTOR_MAX_WORKERS = 1)
    NoThread,   \* the holder of a free lock
    MaxOps,     \* bound: calls of run_sync() and close()
    MaxJobs     \* bound: calls of run_async()

ASSUME DatabaseAssumption ==
    /\ IsFiniteSet(Users) /\ Creator \in Users
    /\ Worker \notin Users /\ NoThread \notin Users \cup {Worker}
    /\ MaxOps \in Nat /\ MaxJobs \in Nat

Threads == Users \cup {Worker}
Jobs == 1..MaxJobs    \* numbered in the order they are submitted

VARIABLES
    accepting,  \* _accepting_submissions
    closing,    \* _closing
    executorLock, connectionsLock, writeLock,   \* the thread that holds each
    active,     \* _active_sync_count
    allow,      \* _thread_local._allow_during_close, by thread
    before,     \* previously_admitted, a local of _sync_activity()
    local,      \* the threads with a _thread_local.connection
    tracked,    \* _connections, each named by the thread that created it
    open,       \* the connections that are open
    pc, op,     \* what a thread is doing, and for which operation
    outcome,    \* the result or exception of the worker's operation
    ops,        \* the calls of run_sync() and close() so far
    job,        \* job[j]: the future and the caller of the j-th run_async()
    serving,    \* the job the worker runs, 0 for none
    stored,     \* the write jobs whose transaction was committed
    closed      \* a close() has returned

locks == <<executorLock, connectionsLock, writeLock>>
admission == <<active, allow, before>>
connections == <<local, tracked, open>>
work == <<job, serving, stored>>
vars == <<accepting, closing, locks, admission, connections, pc, op, outcome,
          ops, work, closed>>

Operations == {"none", "read", "write", "close"}
(* "admit" to "leave" are the stages of read() and write(), "shutdown" to  *)
(* "reset" those of close().                                               *)
Stages == {"idle", "admit", "connect", "create", "pragma", "ready", "txn",
           "leave", "begin", "shutdown", "drain", "check", "wait", "reset"}
Futures == {"new", "queued", "running", "ok", "error", "cancelled"}
Replies == {"none", "waiting", "ok", "error", "cancelled", "refused"}

(* One type invariant: every variable has its type.                        *)
TypeOK ==
    /\ accepting \in BOOLEAN /\ closing \in BOOLEAN
    /\ {executorLock, connectionsLock, writeLock} \subseteq Threads \cup {NoThread}
    /\ active \in Nat
    /\ allow \in [Threads -> BOOLEAN] /\ before \in [Threads -> BOOLEAN]
    /\ local \subseteq Threads /\ tracked \subseteq Threads /\ open \subseteq Threads
    /\ pc \in [Threads -> Stages] /\ op \in [Threads -> Operations]
    /\ outcome \in {"none", "ok", "error"}
    /\ ops \in 0..MaxOps /\ closed \in BOOLEAN
    /\ job \in [Jobs -> [state : Futures, write : BOOLEAN, caller : Replies]]
    /\ serving \in Jobs \cup {0} /\ stored \subseteq Jobs

(* __init__() creates the first connection before the manager is published.*)
Init ==
    /\ accepting = TRUE /\ closing = FALSE
    /\ executorLock = NoThread /\ connectionsLock = NoThread /\ writeLock = NoThread
    /\ active = 0
    /\ allow = [t \in Threads |-> FALSE] /\ before = [t \in Threads |-> FALSE]
    /\ local = {Creator} /\ tracked = {Creator} /\ open = {Creator}
    /\ pc = [t \in Threads |-> "idle"] /\ op = [t \in Threads |-> "none"]
    /\ outcome = "none"
    /\ ops = 0 /\ closed = FALSE
    /\ job = [j \in Jobs |-> [state |-> "new", write |-> FALSE, caller |-> "none"]]
    /\ serving = 0 /\ stored = {}

Goto(t, stage) == pc' = [pc EXCEPT ![t] = stage]
Starts(t, kind, stage) ==
    /\ pc[t] = "idle"
    /\ Goto(t, stage) /\ op' = [op EXCEPT ![t] = kind]
Leaves(t, result) ==
    Goto(t, "leave") /\ outcome' = IF t = Worker THEN result ELSE outcome
Returns(t) == Goto(t, "idle") /\ op' = [op EXCEPT ![t] = "none"]

-----------------------------------------------------------------------------
(* run_sync(), close() and run_async() are called.                         *)

RunSync(t, write) ==
    /\ ops < MaxOps /\ ops' = ops + 1
    /\ Starts(t, IF write THEN "write" ELSE "read", "admit")
    /\ UNCHANGED <<accepting, closing, locks, admission, connections, outcome, work,
                   closed>>

CallClose(t) ==
    /\ ops < MaxOps /\ ops' = ops + 1
    /\ Starts(t, "close", "begin")
    /\ UNCHANGED <<accepting, closing, locks, admission, connections, outcome, work,
                   closed>>

(* run_async() up to its await.  The event loop blocks on _executor_lock.  *)
RunAsync(j, write) ==
    /\ job[j].state = "new" /\ job[j].caller = "none"
    /\ \A i \in Jobs : i < j => job[i].caller # "none"
    /\ executorLock = NoThread
    /\ job' = [job EXCEPT ![j] =
                 IF accepting
                 THEN [state |-> "queued", write |-> write, caller |-> "waiting"]
                 ELSE [state |-> "new", write |-> write, caller |-> "refused"]]
    /\ UNCHANGED <<accepting, closing, locks, admission, connections, pc, op,
                   outcome, ops, serving, stored, closed>>

(* The caller of run_async() is cancelled: a read future is cancelled, which *)
(* takes effect while it is queued; a write future runs on.                *)
AbandonedFuture(j) ==
    IF job[j].state = "queued" /\ ~job[j].write THEN "cancelled" ELSE job[j].state

CancelCaller(j) ==
    /\ job[j].caller = "waiting"
    /\ job' = [job EXCEPT ![j].caller = "cancelled", ![j].state = AbandonedFuture(j)]
    /\ UNCHANGED <<accepting, closing, locks, admission, connections, pc, op,
                   outcome, ops, serving, stored, closed>>

(* _signal_done() woke the loop and the caller reads the result.           *)
CallerWakes(j) ==
    /\ job[j].caller = "waiting" /\ job[j].state \in {"ok", "error"}
    /\ job' = [job EXCEPT ![j].caller = job[j].state]
    /\ UNCHANGED <<accepting, closing, locks, admission, connections, pc, op,
                   outcome, ops, serving, stored, closed>>

(* The worker takes the oldest queued job and enters executor_func().      *)
WorkerTakes(j) ==
    /\ job[j].state = "queued"
    /\ \A i \in Jobs : i < j => job[i].state # "queued"
    /\ Starts(Worker, IF job[j].write THEN "write" ELSE "read", "admit")
    /\ allow' = [allow EXCEPT ![Worker] = TRUE]
    /\ job' = [job EXCEPT ![j].state = "running"]
    /\ serving' = j
    /\ UNCHANGED <<accepting, closing, locks, active, before, connections, outcome, ops,
                   stored, closed>>

-----------------------------------------------------------------------------
(* read() and write(), on a user thread or on the worker.                  *)

Refused(t) == closing /\ ~allow[t]

(* Entry of _sync_activity(): count the operation in, or refuse it.        *)
Admit(t) ==
    /\ pc[t] = "admit" /\ connectionsLock = NoThread
    /\ IF Refused(t)
       THEN Returns(t) /\ UNCHANGED admission
       ELSE /\ Goto(t, "connect") /\ UNCHANGED op
            /\ before' = [before EXCEPT ![t] = allow[t]]
            /\ allow' = [allow EXCEPT ![t] = TRUE]
            /\ active' = active + 1
    /\ UNCHANGED <<accepting, closing, locks, connections, outcome, ops, work, closed>>

(* _get_connection(): reuse the connection of this thread, or go on to     *)
(* create one while holding _connections_lock.                             *)
GetConnection(t) ==
    /\ pc[t] = "connect" /\ connectionsLock = NoThread
    /\ IF Refused(t) THEN Leaves(t, "error") /\ UNCHANGED <<connectionsLock, tracked>>
       ELSE IF t \in local \cap open
       THEN Goto(t, "ready") /\ UNCHANGED <<outcome, connectionsLock, tracked>>
       ELSE /\ Goto(t, "create") /\ UNCHANGED outcome
            /\ connectionsLock' = t
            /\ tracked' = tracked \ (local \cap {t})
    /\ UNCHANGED <<accepting, closing, executorLock, writeLock, admission, local,
                   open, op, ops, work, closed>>

(* _create_connection() takes _write_lock for its PRAGMAs.                 *)
LockForPragmas(t) ==
    /\ pc[t] = "create" /\ writeLock = NoThread
    /\ Goto(t, "pragma") /\ writeLock' = t
    /\ UNCHANGED <<accepting, closing, executorLock, connectionsLock, admission,
                   connections, op, outcome, ops, work, closed>>

(* The PRAGMAs succeed and the connection is registered, or they fail and  *)
(* the half-configured connection is closed.                               *)
Created(t, succeeds) ==
    /\ pc[t] = "pragma"
    /\ writeLock' = NoThread /\ connectionsLock' = NoThread
    /\ IF succeeds
       THEN /\ Goto(t, "ready") /\ UNCHANGED outcome
            /\ local' = local \cup {t} /\ tracked' = tracked \cup {t}
            /\ open' = open \cup {t}
       ELSE Leaves(t, "error") /\ UNCHANGED connections
    /\ UNCHANGED <<accepting, closing, executorLock, admission, op, ops, work, closed>>

(* The callable of a read returns or raises.                               *)
ReadEnds(t, result) ==
    /\ pc[t] = "ready" /\ op[t] = "read"
    /\ Leaves(t, result)
    /\ UNCHANGED <<accepting, closing, locks, admission, connections, op, ops, work,
                   closed>>

LockForWrite(t) ==
    /\ pc[t] = "ready" /\ op[t] = "write" /\ writeLock = NoThread
    /\ Goto(t, "txn") /\ writeLock' = t
    /\ UNCHANGED <<accepting, closing, executorLock, connectionsLock, admission,
                   connections, op, outcome, ops, work, closed>>

Committed(t) == IF t = Worker THEN stored \cup {serving} ELSE stored

(* Mutant: an exception in the block is swallowed after the rollback.      *)
WriteEndsQuietly(t, result) ==
    /\ pc[t] = "txn"
    /\ Leaves(t, "ok")
    /\ writeLock' = NoThread
    /\ stored' = IF result = "ok" THEN Committed(t) ELSE stored
    /\ UNCHANGED <<accepting, closing, executorLock, connectionsLock, admission,
                   connections, op, ops, job, serving, closed>>

(* The callable of a write returns and is committed, or it (or the commit) *)
(* raises and is rolled back.                                              *)
WriteEnds(t, result) ==
    /\ pc[t] = "txn"
    /\ Leaves(t, result)
    /\ writeLock' = NoThread
    /\ stored' = IF result = "ok" THEN Committed(t) ELSE stored
    /\ UNCHANGED <<accepting, closing, executorLock, connectionsLock, admission,
                   connections, op, ops, job, serving, closed>>

(* Mutant: the last operation wakes nobody.                                *)
NotifiedNobody == pc

(* The threads that notify_all() wakes in the wait loop of close().        *)
Notified == IF active = 1 THEN [t \in Threads |-> IF pc[t] = "wait" THEN "check" ELSE pc[t]]
            ELSE pc

(* Exit of _sync_activity(), and on the worker the end of executor_func(). *)
Leave(t) ==
    /\ pc[t] = "leave" /\ connectionsLock = NoThread
    /\ active' = active - 1
    /\ pc' = [Notified EXCEPT ![t] = "idle"] /\ op' = [op EXCEPT ![t] = "none"]
    /\ allow' = [allow EXCEPT ![t] = before[t] /\ t # Worker]
    /\ before' = [before EXCEPT ![t] = FALSE]
    /\ IF t = Worker
       THEN /\ job' = [job EXCEPT ![serving].state = outcome]
            /\ serving' = 0 /\ outcome' = "none"
       ELSE UNCHANGED <<job, serving, outcome>>
    /\ UNCHANGED <<accepting, closing, locks, connections, ops, stored, closed>>

-----------------------------------------------------------------------------
(* close()                                                                 *)

(* The first critical section.  Called inside an operation it raises.      *)
CloseBegins(t) ==
    /\ pc[t] = "begin" /\ executorLock = NoThread /\ connectionsLock = NoThread
    /\ IF allow[t] THEN Returns(t) /\ UNCHANGED <<accepting, closing>>
       ELSE Goto(t, "shutdown") /\ UNCHANGED op /\ accepting' = FALSE /\ closing' = TRUE
    /\ UNCHANGED <<locks, admission, connections, outcome, ops, work, closed>>

ShutdownBegins(t) ==
    /\ pc[t] = "shutdown" /\ executorLock = NoThread
    /\ Goto(t, "drain") /\ executorLock' = t
    /\ UNCHANGED <<accepting, closing, connectionsLock, writeLock, admission,
                   connections, op, outcome, ops, work, closed>>

ExecutorIdle == \A j \in Jobs : job[j].state \notin {"queued", "running"}

(* shutdown(wait=True): queued and running jobs finish first.              *)
ShutdownEnds(t) ==
    /\ pc[t] = "drain" /\ ExecutorIdle
    /\ Goto(t, "check") /\ executorLock' = NoThread
    /\ UNCHANGED <<accepting, closing, connectionsLock, writeLock, admission,
                   connections, op, outcome, ops, work, closed>>

(* Mutant: close() does not wait for active operations.                    *)
CloseAtOnce(t) ==
    /\ pc[t] = "check" /\ connectionsLock = NoThread
    /\ open' = open \ tracked /\ tracked' = {} /\ Goto(t, "reset")
    /\ UNCHANGED <<accepting, closing, locks, admission, local, op, outcome, ops, work,
                   closed>>

(* The last critical section: wait while an operation is active, then      *)
(* close every tracked connection.                                         *)
CloseConnections(t) ==
    /\ pc[t] = "check" /\ connectionsLock = NoThread
    /\ IF active > 0
       THEN Goto(t, "wait") /\ UNCHANGED <<open, tracked>>
       ELSE open' = open \ tracked /\ tracked' = {} /\ Goto(t, "reset")
    /\ UNCHANGED <<accepting, closing, locks, admission, local, op, outcome, ops, work,
                   closed>>

(* _thread_local is replaced by a new one: every thread's is empty.        *)
ResetLocals(t) ==
    /\ pc[t] = "reset"
    /\ local' = {} /\ allow' = [u \in Threads |-> FALSE]
    /\ Returns(t) /\ closed' = TRUE
    /\ UNCHANGED <<accepting, closing, locks, active, before, tracked, open, outcome, ops,
                   work>>

-----------------------------------------------------------------------------
(* What one thread does once it is called.                                 *)
Step(t) ==
    \/ Admit(t) \/ GetConnection(t) \/ LockForPragmas(t)
    \/ \E succeeds \in BOOLEAN : Created(t, succeeds)
    \/ \E result \in {"ok", "error"} : ReadEnds(t, result) \/ WriteEnds(t, result)
    \/ LockForWrite(t) \/ Leave(t)
    \/ CloseBegins(t) \/ ShutdownBegins(t) \/ ShutdownEnds(t)
    \/ CloseConnections(t) \/ ResetLocals(t)

Takes == \E j \in Jobs : WorkerTakes(j)

(* Every bound is used up and everybody is idle.                           *)
Finished ==
    /\ \A t \in Threads : pc[t] = "idle"
    /\ ops = MaxOps
    /\ \A j \in Jobs : job[j].caller \notin {"none", "waiting"} /\ job[j].state # "queued"
    /\ UNCHANGED vars

Next ==
    \/ \E t \in Users :
         (\E write \in BOOLEAN : RunSync(t, write)) \/ CallClose(t)
    \/ \E j \in Jobs :
         (\E write \in BOOLEAN : RunAsync(j, write)) \/ CancelCaller(j) \/ CallerWakes(j)
    \/ Takes
    \/ \E t \in Threads : Step(t)
    \/ Finished

Spec == Init /\ [][Next]_vars

(* Threads are scheduled and the callables end; nobody has to call.        *)
Fairness ==
    /\ \A t \in Threads : WF_vars(Step(t))
    /\ WF_vars(Takes)
    /\ \A j \in Jobs : WF_vars(CallerWakes(j))

LiveSpec == Spec /\ Fairness

-----------------------------------------------------------------------------
Active(t) == pc[t] \in {"connect", "create", "pragma", "ready", "txn", "leave"}

(* An operation that _sync_activity() admitted keeps its admission and,    *)
(* once it has a connection, keeps it open to its end: close() waits for   *)
(* it, whenever the flags were set.                                        *)
AdmittedIsServed ==
    \A t \in Threads : Active(t) =>
        /\ allow[t]
        /\ pc[t] \in {"ready", "txn"} => t \in local \cap open \cap tracked

(* Transactions and the PRAGMA setup of new connections exclude each other *)
(* across all threads (_write_lock).                                       *)
WriterAlone ==
    \A t, u \in Threads :
        pc[t] \in {"txn", "pragma"} /\ pc[u] \in {"txn", "pragma"} => t = u

(* Once a close() has returned, no connection is open, and none is opened  *)
(* by a thread that still holds the manager.                               *)
CloseLeavesNothing == closed => open = {}

(* A caller of run_async(write=True) that gets its result knows that the   *)
(* transaction was committed; one that gets an error knows it was not.     *)
AnswerIsTrue ==
    \A j \in Jobs : job[j].write =>
        /\ job[j].caller = "ok" => j \in stored
        /\ job[j].caller \in {"error", "refused"} => j \notin stored

(* No operation and no close() hangs: the three locks, the condition and   *)
(* the executor never wait for each other in a circle.                     *)
NothingHangs == \A t \in Threads : pc[t] # "idle" ~> pc[t] = "idle"

(* A submitted write is executed to its end even if its caller is          *)
(* cancelled or the manager is closed in the meantime.                     *)
WritesSurvive ==
    \A j \in Jobs :
        job[j].state = "queued" /\ job[j].write ~> job[j].state \in {"ok", "error"}

(* close() waits for what was admitted and leaves no connection open,      *)
(* whoever still holds the manager (close(), _sync_activity()).            *)
CloseIsOrderly == AdmittedIsServed /\ CloseLeavesNothing

(* Writers are alone and their callers are told the truth (write(),        *)
(* run_async()).                                                           *)
WritesAreTrue == WriterAlone /\ AnswerIsTrue

(* Every operation, every close() and every submitted write comes to its   *)
(* end (_sync_activity(), close(), run_async()).                           *)
EverythingEnds == NothingHangs /\ WritesSurvive
=============================================================================
