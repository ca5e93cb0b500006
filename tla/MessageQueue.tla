---------------------------- MODULE MessageQueue ----------------------------
(***************************************************************************)
(* The outbound queue of message_queue.py: producers enqueue send          *)
(* operations, one asyncio processor task takes them in order, waits for   *)
(* the Meshtastic connection and for the inter-message delay, and runs     *)
(* each of them on a dedicated one-thread executor.  start() and stop()    *)
(* open and close a generation: a processor task and an executor.  stop()  *)
(* leaves cancellation to a callback on the event loop, the join of the    *)
(* executor to a daemon thread and the failure latch to watchdogs, so four *)
(* threads meet on _running, _stopping, _stop_failed and the two handles.  *)
(*                                                                         *)
(* A step of the event-loop thread is one stretch of code between two      *)
(* awaits, split only where another thread can change what it reads; a     *)
(* step of any other thread is one critical section of _lock.              *)
(***************************************************************************)
EXTENDS Naturals, Sequences, FiniteSets

CONSTANTS
    Msgs,            \* the messages producers try to enqueue, each once
    Mapped,          \* those enqueued with mapping_info
    None,            \* Python's None
    MaxQueue,        \* MAX_QUEUE_SIZE
    MaxGen,          \* bound: how many times start() may succeed
    Delay,           \* _message_delay, in clock ticks
    MaxErrs,         \* bound: connection errors one message may meet
    StopKinds,       \* where stop() is called: "thread", "loop"
    SerialLifecycle, \* TRUE: start() is called only after stop() returned
    WithDrain        \* TRUE: drain() may be called

ASSUME QueueAssumption ==
    /\ Mapped \subseteq Msgs
    /\ None \notin Msgs
    /\ MaxQueue \in Nat \ {0}
    /\ MaxGen \in Nat
    /\ Delay \in Nat
    /\ MaxErrs \in Nat
    /\ StopKinds \subseteq {"thread", "loop"}
    /\ SerialLifecycle \in BOOLEAN /\ WithDrain \in BOOLEAN

Gens == 1..MaxGen

VARIABLES
    queue,          \* _queue, first to send first
    running,        \* _running
    stopping,       \* _stopping
    stopFailed,     \* _stop_failed
    processorTask,  \* _processor_task: a generation's task, 0 for None
    executor,       \* _executor: a generation's executor, 0 for None
    inFlight,       \* _in_flight
    hasCurrent,     \* _has_current
    cool,           \* ticks left until _last_send_mono + _message_delay
    gen,            \* the number of successful start() calls
    pc,             \* pc[g]: where the processor task of g stands
    cur,            \* cur[g]: its current_message
    job,            \* job[g]: what it submitted to an executor
    stop,           \* stop[g]: the stop() call that ends g
    shut,           \* the executors shutdown() was called on
    enq,            \* enq[m]: where the enqueue() call of m stands
    ready,          \* what _should_send_message() answers
    drain,          \* one drain() call
    acc,            \* acc[m]: m is the acc[m]-th message accepted; 0: not
    out,            \* out[m]: what became of the accepted message m
    tx,             \* tx[m]: how often m's send function was run
    errs,           \* errs[m]: how often that ended in a connection error
    count           \* how many messages were accepted

lifecycle == <<running, stopping, stopFailed, processorTask, executor, gen>>
flags     == <<inFlight, hasCurrent>>
history   == <<acc, out, tx, errs, count>>
vars == <<queue, lifecycle, flags, cool, pc, cur, job, stop, shut, enq,
          ready, drain, history>>

AwaitPcs == {"start", "sleep", "ratewait", "sending", "mapping"}
BusyPcs  == {"top", "checked"}
Results  == {"ok", "nil", "connErr", "err"}

StopRecord ==
    [pc      : {"none", "waitTask", "waitExec", "final", "returned"},
     onLoop  : BOOLEAN,
     task    : 0..MaxGen,
     exec    : 0..MaxGen,
     cancel  : {"no", "scheduled", "requested", "over"},
     taskClean : BOOLEAN,
     execClean : BOOLEAN,
     taskWd  : {"off", "armed", "expired", "over"},
     execWd  : {"off", "armed", "expired", "over"},
     fin     : SUBSET {"task", "exec", "stop"}]

NoStop == [pc |-> "none", onLoop |-> FALSE, task |-> 0, exec |-> 0,
           cancel |-> "no", taskClean |-> FALSE, execClean |-> FALSE,
           taskWd |-> "off", execWd |-> "off", fin |-> {}]
JobRecord == [st : {"idle", "queued", "run", "cancelled"} \cup Results,
              ex : 0..MaxGen,
              m  : Msgs \cup {None}]
NoJob == [st |-> "idle", ex |-> 0, m |-> None]

\* Every variable keeps its type.
TypeOK ==
    /\ queue \in Seq(Msgs)
    /\ running \in BOOLEAN /\ stopping \in BOOLEAN /\ stopFailed \in BOOLEAN
    /\ processorTask \in 0..MaxGen /\ executor \in 0..MaxGen
    /\ gen \in 0..MaxGen
    /\ inFlight \in BOOLEAN /\ hasCurrent \in BOOLEAN
    /\ cool \in 0..Delay
    /\ pc \in [Gens -> AwaitPcs \cup BusyPcs \cup {"none", "done"}]
    /\ cur \in [Gens -> Msgs \cup {None}]
    /\ job \in [Gens -> JobRecord]
    /\ stop \in [Gens -> StopRecord]
    /\ shut \subseteq Gens
    /\ enq \in [Msgs -> {"new", "ensured", "waiting", "accepted", "refused", "dropped"}]
    /\ ready \in BOOLEAN
    /\ drain \in [pc : {"idle", "waiting", "true", "false"}, watch : SUBSET Msgs]
    /\ acc \in [Msgs -> Nat]
    /\ out \in [Msgs -> {"pending", "sent", "nil", "failed", "full", "shutdown"}]
    /\ tx \in [Msgs -> Nat] /\ errs \in [Msgs -> Nat]
    /\ count \in Nat

Init ==
    /\ queue = <<>>
    /\ running = FALSE /\ stopping = FALSE /\ stopFailed = FALSE
    /\ processorTask = 0 /\ executor = 0 /\ gen = 0
    /\ inFlight = FALSE /\ hasCurrent = FALSE
    /\ cool = 0
    /\ pc = [g \in Gens |-> "none"]
    /\ cur = [g \in Gens |-> None]
    /\ job = [g \in Gens |-> NoJob]
    /\ stop = [g \in Gens |-> NoStop]
    /\ shut = {}
    /\ enq = [m \in Msgs |-> "new"]
    /\ ready \in BOOLEAN
    /\ drain = [pc |-> "idle", watch |-> {}]
    /\ acc = [m \in Msgs |-> 0]
    /\ out = [m \in Msgs |-> "pending"]
    /\ tx = [m \in Msgs |-> 0] /\ errs = [m \in Msgs |-> 0]
    /\ count = 0

-----------------------------------------------------------------------------
(* Shared helpers. *)

\* The event-loop thread is not inside a stretch of code without an await:
\* processor code, a task callback, stop() called on the loop.
LoopFree ==
    \A g \in Gens : /\ pc[g] \notin BusyPcs
                    /\ "task" \notin stop[g].fin
                    /\ stop[g].onLoop => "stop" \notin stop[g].fin

\* t is None or done(), and so for _processor_task.
Inactive(t) == t # 0 => pc[t] = "done"
TaskInactive == Inactive(processorTask)

\* What _clear_failed_stop_state_if_recovered_locked() asks before it clears, of
\* the handles t and e.
RecoveredWith(t, e) == stopFailed /\ ~running /\ Inactive(t) /\ e = 0
Recovered == RecoveredWith(processorTask, executor)

\* The failed-stop latch, _stopping and _processor_task after that call.
ClearedFailed   == stopFailed /\ ~Recovered
ClearedStopping == stopping /\ ~Recovered
ClearedTask     == IF Recovered THEN 0 ELSE processorTask

\* The messages enqueue() answered True for and that are still on their way.
Pending == {m \in Msgs : enq[m] = "accepted" /\ out[m] = "pending"}

-----------------------------------------------------------------------------
(* start(), reset_failed_stop_state(), ensure_processor_started(). *)

\* A start() that passes the guards; on the event loop it creates the task.
Start(onLoop) ==
    /\ gen < MaxGen
    /\ SerialLifecycle => \A g \in Gens : stop[g].pc \in {"none", "returned"}
    /\ onLoop => LoopFree
    /\ ~ClearedFailed /\ ~running /\ ~ClearedStopping
    /\ stopFailed' = FALSE /\ stopping' = FALSE
    /\ running' = TRUE
    /\ gen' = gen + 1
    /\ executor' = IF executor = 0 THEN gen + 1 ELSE executor
    /\ processorTask' = IF onLoop THEN gen + 1 ELSE ClearedTask
    /\ pc' = IF onLoop THEN [pc EXCEPT ![gen + 1] = "start"] ELSE pc
    /\ UNCHANGED <<queue, flags, cool, cur, job, stop, shut, enq, ready, drain,
                   history>>

\* reset_failed_stop_state(): it refuses while _stopping is set.
ResetFailedStopState ==
    /\ ~stopping
    /\ Recovered
    /\ stopFailed' = FALSE /\ processorTask' = 0
    /\ UNCHANGED <<queue, running, stopping, executor, gen, flags, cool, pc, cur,
                   job, stop, shut, enq, ready, drain, history>>

\* Mutant: it only forgets a finished task.
EnsureForgets(onLoop) ==
    /\ processorTask' = IF TaskInactive THEN 0 ELSE processorTask
    /\ UNCHANGED pc

\* Forget a finished task; create one when the caller runs on the event loop.
EnsureProcessorStarted(onLoop) ==
    LET create == onLoop /\ running /\ ~stopFailed /\ TaskInactive
    IN /\ processorTask' = IF create THEN gen
                           ELSE IF TaskInactive THEN 0 ELSE processorTask
       /\ pc' = IF create THEN [pc EXCEPT ![gen] = "start"] ELSE pc

\* main() calls it once its loop runs, before it ever stops the queue.
EnsureFromMain ==
    /\ LoopFree /\ running
    /\ EnsureProcessorStarted(TRUE)
    /\ UNCHANGED <<queue, running, stopping, stopFailed, executor, gen, flags,
                   cool, cur, job, stop, shut, enq, ready, drain, history>>

-----------------------------------------------------------------------------
(* enqueue(): ensure_processor_started(), then one critical section, and one *)
(* more per retry of a caller that waits for space.                          *)

EnqueueEnsure(m, onLoop) ==
    /\ enq[m] = "new"
    /\ onLoop => LoopFree
    /\ EnsureProcessorStarted(onLoop)
    /\ enq' = [enq EXCEPT ![m] = "ensured"]
    /\ UNCHANGED <<queue, running, stopping, stopFailed, executor, gen, flags,
                   cool, cur, job, stop, shut, ready, drain, history>>

\* The message enters the queue and enqueue() answers True.
Append_(m) ==
    /\ queue' = Append(queue, m)
    /\ count' = count + 1
    /\ acc' = [acc EXCEPT ![m] = count + 1]
    /\ enq' = [enq EXCEPT ![m] = "accepted"]

\* enqueue() answers False, or waits for space.
Answer(m, how) ==
    /\ enq' = [enq EXCEPT ![m] = how]
    /\ UNCHANGED <<queue, count, acc>>

EnqueueLocked(m) ==
    /\ enq[m] = "ensured"
    /\ stopFailed' = ClearedFailed
    /\ stopping' = ClearedStopping
    /\ processorTask' = ClearedTask
    /\ IF ClearedFailed \/ ~running \/ ClearedStopping
       THEN Answer(m, "refused")
       ELSE IF Len(queue) >= MaxQueue
            THEN Answer(m, "waiting") \/ Answer(m, "dropped")
            ELSE Append_(m)
    /\ UNCHANGED <<running, executor, gen, flags, cool, pc, cur, job, stop, shut,
                   ready, drain, out, tx, errs>>

\* The caller with wait=True retries, or its timeout has passed.
EnqueueRetry(m) ==
    /\ enq[m] = "waiting"
    /\ IF ~running \/ stopping
       THEN Answer(m, "refused")
       ELSE IF Len(queue) >= MaxQueue THEN Answer(m, "dropped") ELSE Append_(m)
    /\ UNCHANGED <<lifecycle, flags, cool, pc, cur, job, stop, shut, ready, drain,
                   out, tx, errs>>

-----------------------------------------------------------------------------
(* _process_queue() of generation g. *)

\* task.cancel() was called: the next step of the task is CancelledError.
CancelRequested(g) ==
    \E s \in Gens : stop[s].task = g /\ stop[s].cancel = "requested"

\* The loop may resume the task where it awaits.
Awake(g) == LoopFree /\ ~CancelRequested(g)

\* The head of the while loop, reached from an await or from the end of a round.
AtTop(g) == \/ pc[g] = "top"
            \/ pc[g] \in {"start", "sleep"} /\ Awake(g)

Goto(g, where) == pc' = [pc EXCEPT ![g] = where]

\* The current message leaves the processor with outcome o.
Resolve(g, o) ==
    /\ out' = IF cur[g] = None THEN out ELSE [out EXCEPT ![cur[g]] = o]
    /\ cur' = [cur EXCEPT ![g] = None]

\* `while self._running` ends: the current message goes, the flags stay.
ProcExit(g) ==
    /\ AtTop(g)
    /\ ~running
    /\ Goto(g, "done")
    /\ Resolve(g, "shutdown")
    /\ UNCHANGED <<queue, lifecycle, flags, cool, job, stop, shut, enq, ready,
                   drain, acc, tx, errs, count>>

\* IndexError: nothing to send.
ProcIdle(g) ==
    /\ AtTop(g)
    /\ running /\ cur[g] = None /\ queue = <<>>
    /\ Goto(g, "sleep")
    /\ UNCHANGED <<queue, lifecycle, flags, cool, cur, job, stop, shut, enq,
                   ready, drain, history>>

\* Mutant: _has_current is not set.
TakeUnflagged(g) ==
    /\ AtTop(g)
    /\ running /\ cur[g] = None /\ queue # <<>>
    /\ cur' = [cur EXCEPT ![g] = Head(queue)]
    /\ queue' = Tail(queue)
    /\ Goto(g, IF ready THEN "checked" ELSE "sleep")
    /\ UNCHANGED <<lifecycle, flags, cool, job, stop, shut, enq, ready, drain,
                   history>>

\* popleft(), and the first _should_send_message().
ProcTake(g) ==
    /\ AtTop(g)
    /\ running /\ cur[g] = None /\ queue # <<>>
    /\ cur' = [cur EXCEPT ![g] = Head(queue)]
    /\ queue' = Tail(queue)
    /\ hasCurrent' = TRUE
    /\ Goto(g, IF ready THEN "checked" ELSE "sleep")
    /\ UNCHANGED <<lifecycle, inFlight, cool, job, stop, shut, enq, ready, drain,
                   history>>

\* The same check for a message kept from an earlier round.
ProcKeep(g) ==
    /\ AtTop(g)
    /\ running /\ cur[g] # None
    /\ Goto(g, IF ready THEN "checked" ELSE "sleep")
    /\ UNCHANGED <<queue, lifecycle, flags, cool, cur, job, stop, shut, enq,
                   ready, drain, history>>

\* The delay since the last send has not passed: sleep for the rest of it.
ProcRateLimit(g) ==
    /\ pc[g] = "checked" /\ cool > 0
    /\ Goto(g, "ratewait")
    /\ UNCHANGED <<queue, lifecycle, flags, cool, cur, job, stop, shut, enq,
                   ready, drain, history>>

\* The delay has passed, with or without a wait.
DelayPassed(g) ==
    /\ cool = 0
    /\ pc[g] = "checked" \/ (pc[g] = "ratewait" /\ Awake(g))

\* Mutants: no size check; current_message is kept; the message goes to the back.
RequeueUnchecked(g) ==
    /\ cur' = [cur EXCEPT ![g] = None]
    /\ queue' = <<cur[g]>> \o queue /\ UNCHANGED out

RequeueKeeps(g) ==
    /\ UNCHANGED cur
    /\ IF Len(queue) < MaxQueue
       THEN queue' = <<cur[g]>> \o queue /\ UNCHANGED out
       ELSE out' = [out EXCEPT ![cur[g]] = "full"] /\ UNCHANGED queue

RequeueAtBack(g) ==
    /\ cur' = [cur EXCEPT ![g] = None]
    /\ IF Len(queue) < MaxQueue
       THEN queue' = Append(queue, cur[g]) /\ UNCHANGED out
       ELSE out' = [out EXCEPT ![cur[g]] = "full"] /\ UNCHANGED queue

\* _requeue_message() of the current message: to the front, or dropped.
Requeue(g) ==
    /\ cur' = [cur EXCEPT ![g] = None]
    /\ IF Len(queue) < MaxQueue
       THEN queue' = <<cur[g]>> \o queue /\ UNCHANGED out
       ELSE out' = [out EXCEPT ![cur[g]] = "full"] /\ UNCHANGED queue

\* The connection dropped before the send.
ProcNotReady(g) ==
    /\ DelayPassed(g)
    /\ ~ready
    /\ Requeue(g)
    /\ hasCurrent' = FALSE
    /\ Goto(g, "sleep")
    /\ UNCHANGED <<lifecycle, inFlight, cool, job, stop, shut, enq, ready, drain,
                   acc, tx, errs, count>>

\* run_in_executor() takes the send function.
ProcSubmit(g) ==
    /\ DelayPassed(g)
    /\ ready
    /\ executor # 0 /\ executor \notin shut
    /\ inFlight' = TRUE
    /\ job' = [job EXCEPT ![g] = [st |-> "queued", ex |-> executor,
                                   m |-> cur[g]]]
    /\ Goto(g, "sending")
    /\ UNCHANGED <<queue, lifecycle, hasCurrent, cool, cur, stop, shut, enq, ready,
                   drain, history>>

\* There is no executor, or it was shut down: a RuntimeError that is not a
\* connection error, so the message is given up.
ProcSubmitFails(g) ==
    /\ DelayPassed(g)
    /\ ready
    /\ executor = 0 \/ executor \in shut
    /\ Resolve(g, "failed")
    /\ inFlight' = FALSE /\ hasCurrent' = FALSE
    /\ Goto(g, "top")
    /\ UNCHANGED <<queue, lifecycle, cool, job, stop, shut, enq, ready, drain,
                   acc, tx, errs, count>>

\* The await on the executor returns.
Returned(g, sts) == pc[g] = "sending" /\ Awake(g) /\ job[g].st \in sts

\* A result with an id for a message that wants a mapping: store it first.
ProcStoreMapping(g) ==
    /\ Returned(g, {"ok"})
    /\ cur[g] \in Mapped
    /\ cool' = Delay
    /\ job' = [job EXCEPT ![g] = NoJob]
    /\ Goto(g, "mapping")
    /\ UNCHANGED <<queue, lifecycle, flags, cur, stop, shut, enq, ready, drain,
                   history>>

\* A finished send: no mapping wanted, no result, no id, or an error that is not
\* a connection error, which leaves the last send time alone.
ProcFinish(g) ==
    /\ Returned(g, {"ok", "nil", "err"})
    /\ job[g].st = "ok" => cur[g] \notin Mapped
    /\ cool' = IF job[g].st = "err" THEN cool ELSE Delay
    /\ job' = [job EXCEPT ![g] = NoJob]
    /\ Resolve(g, CASE job[g].st = "ok"  -> "sent"
                    [] job[g].st = "nil" -> "nil"
                    [] OTHER             -> "failed")
    /\ inFlight' = FALSE /\ hasCurrent' = FALSE
    /\ Goto(g, "top")
    /\ UNCHANGED <<queue, lifecycle, stop, shut, enq, ready, drain, acc, tx, errs,
                   count>>

\* _handle_message_mapping() is over; it swallows its errors.
ProcMappingDone(g) ==
    /\ pc[g] = "mapping" /\ Awake(g)
    /\ Resolve(g, "sent")
    /\ inFlight' = FALSE /\ hasCurrent' = FALSE
    /\ Goto(g, "top")
    /\ UNCHANGED <<queue, lifecycle, cool, job, stop, shut, enq, ready, drain,
                   acc, tx, errs, count>>

\* A connection error: requeue and retry later.
ProcConnectionError(g) ==
    /\ Returned(g, {"connErr"})
    /\ Requeue(g)
    /\ job' = [job EXCEPT ![g] = NoJob]
    /\ inFlight' = FALSE /\ hasCurrent' = FALSE
    /\ Goto(g, "sleep")
    /\ UNCHANGED <<lifecycle, cool, stop, shut, enq, ready, drain, acc, tx, errs,
                   count>>

\* CancelledError at an await, from cancel() or from a future cancelled by the
\* executor's shutdown.  A task that never ran leaves the flags alone; a send
\* function that is already running runs on.
ProcCancelled(g) ==
    /\ LoopFree
    /\ \/ pc[g] \in AwaitPcs /\ CancelRequested(g)
       \/ pc[g] = "sending" /\ job[g].st = "cancelled"
    /\ Goto(g, "done")
    /\ Resolve(g, "shutdown")
    /\ job' = IF job[g].st = "run" THEN job ELSE [job EXCEPT ![g] = NoJob]
    /\ inFlight' = (inFlight /\ pc[g] = "start")
    /\ hasCurrent' = (hasCurrent /\ pc[g] = "start")
    /\ UNCHANGED <<queue, lifecycle, cool, stop, shut, enq, ready, drain, acc, tx,
                   errs, count>>

-----------------------------------------------------------------------------
(* The executor's one worker thread. *)

\* It starts the send function g submitted.
JobRun(g) ==
    /\ job[g].st = "queued"
    /\ \A h \in Gens : job[h].st = "run" => job[h].ex # job[g].ex
    /\ job' = [job EXCEPT ![g].st = "run"]
    /\ tx' = [tx EXCEPT ![job[g].m] = @ + 1]
    /\ UNCHANGED <<queue, lifecycle, flags, cool, pc, cur, stop, shut, enq, ready,
                   drain, acc, out, errs, count>>

\* The send function returns r or raises; nobody waits after a cancellation.
JobFinish(g, r) ==
    LET awaited == pc[g] = "sending"
    IN /\ job[g].st = "run"
       /\ awaited /\ r = "connErr" => errs[job[g].m] < MaxErrs
       /\ job' = [job EXCEPT ![g] = IF awaited THEN [@ EXCEPT !.st = r] ELSE NoJob]
       /\ errs' = IF awaited /\ r = "connErr"
                  THEN [errs EXCEPT ![job[g].m] = @ + 1] ELSE errs
       /\ UNCHANGED <<queue, lifecycle, flags, cool, pc, cur, stop, shut, enq,
                      ready, drain, acc, out, tx, count>>

-----------------------------------------------------------------------------
(* stop() of generation s, and the threads and callbacks it leaves behind.   *)
(* stop[s].fin holds those that are about to call _finalize_stop_state().    *)

SetStop(s, r) == stop' = [stop EXCEPT ![s] = r]
OtherThanStop == <<queue, running, processorTask, executor, gen, flags, cool, pc,
                   cur, job, enq, ready, drain, history>>

\* The first critical section, and the scheduling of the cancellation.  A caller
\* on the event loop starts every thread and goes on to its last statement; any
\* other caller waits for the task before it turns to the executor.
StopBegin(onLoop) ==
    /\ running
    /\ (IF onLoop THEN "loop" ELSE "thread") \in StopKinds
    /\ onLoop => LoopFree
    /\ running' = FALSE
    /\ stopping' = TRUE
    /\ SetStop(gen,
         [pc        |-> IF onLoop THEN "final" ELSE "waitTask",
          onLoop    |-> onLoop,
          task      |-> processorTask,
          exec      |-> executor,
          cancel    |-> IF processorTask = 0 THEN "over" ELSE "scheduled",
          taskClean |-> processorTask = 0,
          execClean |-> executor = 0,
          taskWd    |-> IF processorTask = 0 THEN "over" ELSE "armed",
          execWd    |-> IF executor = 0 THEN "over"
                        ELSE IF onLoop THEN "armed" ELSE "off",
          fin       |-> IF onLoop THEN {"stop"} ELSE {}])
    /\ UNCHANGED <<queue, stopFailed, processorTask, executor, gen, flags, cool,
                   pc, cur, job, shut, enq, ready, drain, history>>

\* stop() on a thread, past the task: it starts the shutdown thread.
StopToShutdown(s) ==
    /\ stop[s].pc = "waitTask" /\ stop[s].taskWd = "over"
    /\ SetStop(s, [stop[s] EXCEPT !.pc = "waitExec",
                                  !.execWd = IF @ = "off" THEN "armed" ELSE @])
    /\ UNCHANGED <<OtherThanStop, stopping, stopFailed, shut>>

\* stop() on a thread, past the executor: its last statement is left.
StopToFinal(s) ==
    /\ stop[s].pc = "waitExec" /\ stop[s].execWd = "over"
    /\ SetStop(s, [stop[s] EXCEPT !.pc = "final", !.fin = @ \cup {"stop"}])
    /\ UNCHANGED <<OtherThanStop, stopping, stopFailed, shut>>

\* _cancel_and_cleanup() on the event loop.
RunCancelHandler(s) ==
    /\ LoopFree
    /\ stop[s].cancel = "scheduled"
    /\ SetStop(s, IF pc[stop[s].task] = "done"
                  THEN [stop[s] EXCEPT !.cancel = "over", !.taskClean = TRUE,
                                       !.fin = @ \cup {"task"}]
                  ELSE [stop[s] EXCEPT !.cancel = "requested"])
    /\ UNCHANGED <<OtherThanStop, stopping, stopFailed, shut>>

\* _on_task_done(), the callback of the cancelled task.
OnTaskDone(s) ==
    /\ LoopFree
    /\ stop[s].cancel = "requested" /\ pc[stop[s].task] = "done"
    /\ SetStop(s, [stop[s] EXCEPT !.cancel = "over", !.taskClean = TRUE,
                                  !.fin = @ \cup {"task"}])
    /\ UNCHANGED <<OtherThanStop, stopping, stopFailed, shut>>

\* The shutdown thread: shutdown(wait=True, cancel_futures=True) is called ...
ExecutorShutdown(s) ==
    /\ stop[s].exec # 0 /\ stop[s].execWd # "off"
    /\ stop[s].exec \notin shut
    /\ shut' = shut \cup {stop[s].exec}
    /\ job' = [g \in Gens |->
                 IF job[g].st = "queued" /\ job[g].ex = stop[s].exec
                 THEN [job[g] EXCEPT !.st = "cancelled"] ELSE job[g]]
    /\ UNCHANGED <<queue, lifecycle, flags, cool, pc, cur, stop, enq, ready, drain,
                   history>>

\* Mutant: the shutdown thread does not call _finalize_stop_state().
JoinedSilently(s) ==
    /\ ~stop[s].execClean /\ stop[s].execWd # "off"
    /\ stop[s].exec \in shut
    /\ \A g \in Gens : job[g].st = "run" => job[g].ex # stop[s].exec
    /\ SetStop(s, [stop[s] EXCEPT !.execClean = TRUE])
    /\ UNCHANGED <<OtherThanStop, stopping, stopFailed, shut>>

\* ... and returns once the worker is idle.
ExecutorJoined(s) ==
    /\ ~stop[s].execClean /\ stop[s].execWd # "off"
    /\ stop[s].exec \in shut
    /\ \A g \in Gens : job[g].st = "run" => job[g].ex # stop[s].exec
    /\ SetStop(s, [stop[s] EXCEPT !.execClean = TRUE, !.fin = @ \cup {"exec"}])
    /\ UNCHANGED <<OtherThanStop, stopping, stopFailed, shut>>

\* A wait of TASK_SHUTDOWN_TIMEOUT_SEC ends because the event was set, or it
\* times out and _mark_stop_failed() is on its way.
TaskWaitEnds(s) ==
    /\ stop[s].taskWd = "armed"
    /\ SetStop(s, [stop[s] EXCEPT !.taskWd = IF stop[s].taskClean THEN "over"
                                             ELSE "expired"])
    /\ UNCHANGED <<OtherThanStop, stopping, stopFailed, shut>>

ExecWaitEnds(s) ==
    /\ stop[s].execWd = "armed"
    /\ SetStop(s, [stop[s] EXCEPT !.execWd = IF stop[s].execClean THEN "over"
                                             ELSE "expired"])
    /\ UNCHANGED <<OtherThanStop, stopping, stopFailed, shut>>

\* _mark_stop_failed().
MarkStopFailed(s) ==
    /\ \/ /\ stop[s].taskWd = "expired"
          /\ SetStop(s, [stop[s] EXCEPT !.taskWd = "over"])
       \/ /\ stop[s].execWd = "expired"
          /\ SetStop(s, [stop[s] EXCEPT !.execWd = "over"])
    /\ stopFailed' = TRUE
    /\ UNCHANGED <<OtherThanStop, stopping, shut>>

\* Mutant: the executor's join is not waited for.
TaskCleanupComplete(s) == stop[s].taskClean

\* task_cleanup_complete and executor_cleanup_complete are both set.
CleanupComplete(s) == stop[s].taskClean /\ stop[s].execClean

\* _finalize_stop_state(), called by who.
FinalizeStopState(s, who) ==
    LET clean     == CleanupComplete(s)
        ownTask   == clean /\ stop[s].task # 0 /\ processorTask = stop[s].task
        ownExec   == clean /\ stop[s].exec # 0 /\ executor = stop[s].exec
        task1     == IF ownTask THEN 0 ELSE processorTask
        exec1     == IF ownExec THEN 0 ELSE executor
        recovered == RecoveredWith(task1, exec1)
    IN /\ who \in stop[s].fin
       /\ SetStop(s, [stop[s] EXCEPT !.fin = @ \ {who},
                                     !.pc = IF who = "stop" THEN "returned" ELSE @])
       /\ processorTask' = IF clean /\ recovered THEN 0 ELSE task1
       /\ executor' = exec1
       /\ inFlight' = (inFlight /\ ~ownTask)
       /\ hasCurrent' = (hasCurrent /\ ~ownTask)
       /\ stopping' = (stopping /\ ~(clean /\ (recovered \/ ~stopFailed)))
       /\ stopFailed' = (stopFailed /\ ~(clean /\ recovered))
       /\ UNCHANGED <<queue, running, gen, cool, pc, cur, job, shut, enq, ready,
                      drain, history>>

-----------------------------------------------------------------------------
(* drain() *)

\* What the loop condition and the tests behind it can make of a turn: with work
\* left drain() gives up on a stopped queue, and on a running one when its
\* deadline has passed.
DrainTurn ==
    IF queue = <<>> /\ ~inFlight /\ ~hasCurrent THEN {"true"}
    ELSE IF running THEN {"waiting", "false"} ELSE {"false"}

DrainCall ==
    /\ WithDrain
    /\ LoopFree
    /\ drain.pc = "idle"
    /\ \E turn \in DrainTurn : drain' = [pc |-> turn, watch |-> Pending]
    /\ UNCHANGED <<queue, lifecycle, flags, cool, pc, cur, job, stop, shut, enq,
                   ready, history>>

\* A later turn, after a sleep.
DrainPoll ==
    /\ LoopFree
    /\ drain.pc = "waiting"
    /\ \E turn \in DrainTurn : drain' = [drain EXCEPT !.pc = turn]
    /\ UNCHANGED <<queue, lifecycle, flags, cool, pc, cur, job, stop, shut, enq,
                   ready, history>>

-----------------------------------------------------------------------------
(* The environment: the connection state and the clock. *)

SetReady ==
    /\ ready' = ~ready
    /\ UNCHANGED <<queue, lifecycle, flags, cool, pc, cur, job, stop, shut, enq,
                   drain, history>>

Tick ==
    /\ cool > 0
    /\ cool' = cool - 1
    /\ UNCHANGED <<queue, lifecycle, flags, pc, cur, job, stop, shut, enq, ready,
                   drain, history>>

Processor(g) ==
    \/ ProcExit(g) \/ ProcIdle(g) \/ ProcTake(g) \/ ProcKeep(g)
    \/ ProcRateLimit(g) \/ ProcNotReady(g) \/ ProcSubmit(g) \/ ProcSubmitFails(g)
    \/ ProcStoreMapping(g) \/ ProcFinish(g) \/ ProcMappingDone(g)
    \/ ProcConnectionError(g) \/ ProcCancelled(g)

Worker(g) == JobRun(g) \/ \E r \in Results : JobFinish(g, r)

Stopper(s) ==
    \/ StopToShutdown(s) \/ StopToFinal(s)
    \/ RunCancelHandler(s) \/ OnTaskDone(s)
    \/ ExecutorShutdown(s) \/ ExecutorJoined(s)
    \/ TaskWaitEnds(s) \/ ExecWaitEnds(s) \/ MarkStopFailed(s)
    \/ \E who \in {"task", "exec", "stop"} : FinalizeStopState(s, who)

Enqueue(m) ==
    \/ \E onLoop \in BOOLEAN : EnqueueEnsure(m, onLoop)
    \/ EnqueueLocked(m)
    \/ EnqueueRetry(m)

Next ==
    \/ \E onLoop \in BOOLEAN : Start(onLoop) \/ StopBegin(onLoop)
    \/ ResetFailedStopState
    \/ EnsureFromMain
    \/ \E m \in Msgs : Enqueue(m)
    \/ \E g \in Gens : Processor(g) \/ Worker(g) \/ Stopper(g)
    \/ DrainCall \/ DrainPoll
    \/ SetReady \/ Tick

Spec == Init /\ [][Next]_vars

\* The event loop and the threads run on, and the clock advances; nobody
\* promises that a send function returns within any bound, only that it does.
Fairness ==
    /\ WF_vars(EnsureFromMain)
    /\ \A g \in Gens : WF_vars(Processor(g)) /\ WF_vars(Worker(g)) /\ WF_vars(Stopper(g))
    /\ WF_vars(Tick)

LiveSpec == Spec /\ Fairness

-----------------------------------------------------------------------------
(* Properties *)

\* MAX_QUEUE_SIZE bounds the deque although _requeue_message() puts messages
\* back that enqueue() already made room for, while producers fill that room.
QueueBounded == Len(queue) <= MaxQueue

\* A message enqueue() answered True for is in exactly one place until it is
\* sent, given up or dropped: in the queue or in the hands of one processor;
\* afterwards it is nowhere.  Pops, requeues, retries and cancellations neither
\* lose nor duplicate it.
Conservation ==
    /\ \A i, j \in 1..Len(queue) : queue[i] = queue[j] => i = j
    /\ \A g, h \in Gens : cur[g] = cur[h] /\ cur[g] # None => g = h
    /\ \A i \in 1..Len(queue), g \in Gens : queue[i] # cur[g]
    /\ \A m \in Msgs : m \in Pending <=> \/ \E i \in 1..Len(queue) : queue[i] = m
                                         \/ \E g \in Gens : cur[g] = m

\* What makes Conservation inductive: a processor past its checks holds a message,
\* so does a send function it submitted, and a message that was not accepted has
\* no outcome.
HeldAndFresh ==
    /\ \A g \in Gens : pc[g] \in {"checked", "ratewait", "sending", "mapping"}
                          => cur[g] # None
    /\ \A g \in Gens : job[g].st # "idle" => job[g].m # None
    /\ \A m \in Msgs : enq[m] # "accepted" => out[m] = "pending"

\* One send function at a time: a restarted queue never sends while a send of an
\* earlier generation is still running on its executor.
SingleSender ==
    \A g, h \in Gens : job[g].st = "run" /\ job[h].st = "run" => g = h

\* When the queue runs, nothing of an earlier generation is left: its task is
\* done and its executor is shut down and idle (start() is held back by
\* _stopping and _stop_failed until cleanup is complete).
NoLeftovers ==
    running => \A g \in Gens : g < gen =>
        /\ pc[g] \in {"none", "done"}
        /\ job[g].st = "idle"
        /\ executor # g

\* drain() answers True only when every message accepted before the call was
\* sent, given up or dropped: _has_current and _in_flight cover the time between
\* popleft() and the end of the send.
DrainSound == drain.pc = "true" => drain.watch \cap Pending = {}

\* Every accepted message is dealt with while the queue runs and the connection
\* stays up.
Delivery ==
    <>[](running /\ ready) => \A m \in Msgs : m \in Pending ~> m \notin Pending

\* After stop(), timed out or not, the queue can be started again.
Restartable == ~running ~> (running \/ (~ClearedFailed /\ ~ClearedStopping))

\* The order in which messages were accepted.
AcceptOrder == [i \in 1..count |-> CHOOSE m \in Msgs : acc[m] = i]

Promise == INSTANCE Outbox WITH order <- AcceptOrder

\* The queue is an outbox: across waits for the connection, requeues at the front, drops
\* and retries, messages are transmitted in the order enqueue() accepted them, once but
\* for connection errors, with the delay between them, and settled once
\* (_process_queue(), _requeue_message(), enqueue()).
ImplementsOutbox == Promise!Spec

\* A restart never overlaps with what stop() left behind (stop(), start(),
\* _finalize_stop_cleanup_if_complete()).
CleanRestart == SingleSender /\ NoLeftovers
=============================================================================
