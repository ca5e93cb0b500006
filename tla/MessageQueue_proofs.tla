------------------------ MODULE MessageQueue_proofs ------------------------
(* Theorems about MessageQueue and the promise of Outbox, for every number  *)
(* of messages, queue size, delay, number of connection errors and kind of  *)
(* stop(): first what holds for every number of generations, then what      *)
(* holds for at most one restart.                                           *)
EXTENDS MessageQueue, TLAPS

\* A submitted send function keeps its type when its status changes.
LEMMA JobStatus ==
    ASSUME NEW j \in JobRecord, NEW st \in {"idle", "queued", "run", "cancelled"} \cup Results
    PROVE  [j EXCEPT !.st = st] \in JobRecord
BY DEF JobRecord

\* A new queue, as __init__() leaves it, is well typed.
LEMMA TypeInit == Init => TypeOK
<1> SUFFICES ASSUME Init PROVE TypeOK OBVIOUS
<1>1. NoStop \in StopRecord /\ NoJob \in JobRecord
  BY QueueAssumption DEF NoStop, StopRecord, NoJob, JobRecord
<1>2. stop \in [Gens -> StopRecord] /\ job \in [Gens -> JobRecord]
  BY <1>1 DEF Init
<1>3. queue \in Seq(Msgs) /\ drain \in [pc : {"idle", "waiting", "true", "false"}, watch : SUBSET Msgs]
  BY DEF Init
<1>4. pc \in [Gens -> AwaitPcs \cup BusyPcs \cup {"none", "done"}] /\ cur \in [Gens -> Msgs \cup {None}]
  BY DEF Init
<1>5. /\ enq \in [Msgs -> {"new", "ensured", "waiting", "accepted", "refused", "dropped"}]
      /\ out \in [Msgs -> {"pending", "sent", "nil", "failed", "full", "shutdown"}]
      /\ acc \in [Msgs -> Nat] /\ tx \in [Msgs -> Nat] /\ errs \in [Msgs -> Nat]
  BY DEF Init
<1>6. cool \in 0..Delay /\ gen \in 0..MaxGen /\ processorTask \in 0..MaxGen /\ executor \in 0..MaxGen
  BY QueueAssumption DEF Init
<1> QED BY <1>2, <1>3, <1>4, <1>5, <1>6 DEF Init, TypeOK

\* The new processor task of start() and ensure_processor_started().
LEMMA TypeStart ==
    ASSUME TypeOK, NEW onLoop \in BOOLEAN, Start(onLoop)
    PROVE  TypeOK'
<1>1. gen' \in 0..MaxGen /\ gen + 1 \in Gens
  BY QueueAssumption DEF TypeOK, Start, Gens
<1>2. processorTask' \in 0..MaxGen /\ executor' \in 0..MaxGen
  BY <1>1, QueueAssumption DEF TypeOK, Start, ClearedTask, Gens
<1>3. pc' \in [Gens -> AwaitPcs \cup BusyPcs \cup {"none", "done"}]
  BY <1>1 DEF TypeOK, Start, AwaitPcs
<1> QED BY <1>1, <1>2, <1>3 DEF TypeOK, Start, flags, history

\* So does every step of an enqueue() call.
LEMMA TypeEnqueue ==
    ASSUME TypeOK, NEW m \in Msgs, Enqueue(m)
    PROVE  TypeOK'
<1>1. ASSUME NEW onLoop \in BOOLEAN, EnqueueEnsure(m, onLoop) PROVE TypeOK'
  <2>1. enq' \in [Msgs -> {"new", "ensured", "waiting", "accepted", "refused", "dropped"}]
    BY <1>1 DEF TypeOK, EnqueueEnsure
  <2>2. processorTask' \in 0..MaxGen
    BY <1>1, QueueAssumption DEF TypeOK, EnqueueEnsure, EnsureProcessorStarted
  <2>3. pc' \in [Gens -> AwaitPcs \cup BusyPcs \cup {"none", "done"}]
    BY <1>1 DEF TypeOK, EnqueueEnsure, EnsureProcessorStarted, AwaitPcs
  <2> QED BY <1>1, <2>1, <2>2, <2>3 DEF TypeOK, EnqueueEnsure, flags, history
<1>2. ASSUME Append_(m) \/ \E how \in {"refused", "waiting", "dropped"} : Answer(m, how)
      PROVE  /\ queue' \in Seq(Msgs)
             /\ enq' \in [Msgs -> {"new", "ensured", "waiting", "accepted", "refused", "dropped"}]
             /\ acc' \in [Msgs -> Nat]
             /\ count' \in Nat
  <2>1. CASE Append_(m)
    <3>1. queue' \in Seq(Msgs)
      BY <2>1 DEF TypeOK, Append_
    <3>2. count + 1 \in Nat
      BY DEF TypeOK
    <3> QED BY <2>1, <3>1, <3>2 DEF TypeOK, Append_
  <2>2. CASE \E how \in {"refused", "waiting", "dropped"} : Answer(m, how)
    BY <2>2 DEF TypeOK, Answer
  <2> QED BY <1>2, <2>1, <2>2
<1>3. CASE EnqueueLocked(m)
  <2>1. Append_(m) \/ \E how \in {"refused", "waiting", "dropped"} : Answer(m, how)
    BY <1>3 DEF EnqueueLocked
  <2>2. processorTask' \in 0..MaxGen
    BY <1>3, QueueAssumption DEF TypeOK, EnqueueLocked, ClearedTask
  <2>3. stopFailed' \in BOOLEAN /\ stopping' \in BOOLEAN
    BY <1>3 DEF EnqueueLocked, ClearedFailed, ClearedStopping
  <2> QED BY <1>2, <1>3, <2>1, <2>2, <2>3 DEF TypeOK, EnqueueLocked, flags
<1>4. CASE EnqueueRetry(m)
  <2>1. Append_(m) \/ \E how \in {"refused", "waiting", "dropped"} : Answer(m, how)
    BY <1>4 DEF EnqueueRetry
  <2> QED BY <1>2, <1>4, <2>1 DEF TypeOK, EnqueueRetry, flags, lifecycle
<1> QED BY <1>1, <1>3, <1>4 DEF Enqueue

\* So does every stretch of _process_queue() between two awaits.
LEMMA TypeProcessor ==
    ASSUME TypeOK, HeldAndFresh, NEW g \in Gens, Processor(g)
    PROVE  TypeOK'
<1>a. ASSUME Requeue(g), cur[g] # None
      PROVE  /\ queue' \in Seq(Msgs)
             /\ cur' \in [Gens -> Msgs \cup {None}]
             /\ out' \in [Msgs -> {"pending", "sent", "nil", "failed", "full", "shutdown"}]
  <2>1. cur[g] \in Msgs /\ <<cur[g]>> \o queue \in Seq(Msgs)
    BY <1>a DEF TypeOK
  <2> QED BY <1>a, <2>1 DEF TypeOK, Requeue
<1>b. ASSUME NEW o \in {"sent", "nil", "failed", "shutdown"}, Resolve(g, o)
      PROVE  /\ cur' \in [Gens -> Msgs \cup {None}]
             /\ out' \in [Msgs -> {"pending", "sent", "nil", "failed", "full", "shutdown"}]
  BY <1>b DEF TypeOK, Resolve
<1>c. ASSUME NEW where \in AwaitPcs \cup BusyPcs \cup {"none", "done"}, Goto(g, where)
      PROVE  pc' \in [Gens -> AwaitPcs \cup BusyPcs \cup {"none", "done"}]
  BY <1>c DEF TypeOK, Goto
<1>d. NoJob \in JobRecord
  BY QueueAssumption DEF NoJob, JobRecord
<1>1. CASE ProcExit(g)
  BY <1>1, <1>d, QueueAssumption DEF TypeOK, ProcExit, Resolve, Goto, flags, history, lifecycle, AwaitPcs, BusyPcs
<1>2. CASE ProcIdle(g)
  BY <1>2, <1>d, QueueAssumption DEF TypeOK, ProcIdle, Resolve, Goto, flags, history, lifecycle, AwaitPcs, BusyPcs
<1>3. CASE ProcTake(g)
  <2>1. Head(queue) \in Msgs /\ Tail(queue) \in Seq(Msgs)
    BY <1>3 DEF TypeOK, ProcTake
  <2> QED BY <1>3, <2>1 DEF TypeOK, ProcTake, Goto, history, lifecycle, AwaitPcs, BusyPcs
<1>4. CASE ProcKeep(g)
  BY <1>4, <1>d, QueueAssumption DEF TypeOK, ProcKeep, Resolve, Goto, flags, history, lifecycle, AwaitPcs, BusyPcs
<1>5. CASE ProcRateLimit(g)
  BY <1>5, <1>d, QueueAssumption DEF TypeOK, ProcRateLimit, Resolve, Goto, flags, history, lifecycle, AwaitPcs, BusyPcs
<1>6. CASE ProcNotReady(g)
  <2>1. cur[g] # None
    BY <1>6 DEF ProcNotReady, DelayPassed, HeldAndFresh
  <2> QED BY <1>6, <2>1, <1>a DEF TypeOK, ProcNotReady, Goto, lifecycle, AwaitPcs
<1>7. CASE ProcSubmit(g)
  <2>1. [st |-> "queued", ex |-> executor, m |-> cur[g]] \in JobRecord
    BY DEF TypeOK, JobRecord
  <2> QED BY <1>7, <2>1 DEF TypeOK, ProcSubmit, Goto, history, lifecycle, AwaitPcs
<1>8. CASE ProcSubmitFails(g)
  BY <1>8, <1>d, QueueAssumption DEF TypeOK, ProcSubmitFails, Resolve, Goto, flags, history, lifecycle, AwaitPcs, BusyPcs
<1>9. CASE ProcStoreMapping(g)
  BY <1>9, <1>d, QueueAssumption DEF TypeOK, ProcStoreMapping, Resolve, Goto, flags, history, lifecycle, AwaitPcs, BusyPcs
<1>10. CASE ProcFinish(g)
  <2>1. \E o \in {"sent", "nil", "failed", "shutdown"} : Resolve(g, o)
    BY <1>10 DEF ProcFinish
  <2>2. cool' \in 0..Delay
    BY <1>10, QueueAssumption DEF TypeOK, ProcFinish
  <2> QED BY <1>10, <2>1, <2>2, <1>b, <1>d DEF TypeOK, ProcFinish, Goto, lifecycle, BusyPcs
<1>11. CASE ProcMappingDone(g)
  BY <1>11, <1>d, QueueAssumption DEF TypeOK, ProcMappingDone, Resolve, Goto, flags, history, lifecycle, AwaitPcs, BusyPcs
<1>12. CASE ProcConnectionError(g)
  <2>1. cur[g] # None
    BY <1>12 DEF ProcConnectionError, Returned, HeldAndFresh
  <2> QED BY <1>12, <2>1, <1>a, <1>d DEF TypeOK, ProcConnectionError, Goto, lifecycle, AwaitPcs
<1>13. CASE ProcCancelled(g)
  BY <1>13, <1>d, QueueAssumption DEF TypeOK, ProcCancelled, Resolve, Goto, flags, history, lifecycle, AwaitPcs, BusyPcs
<1> QED BY <1>1, <1>2, <1>3, <1>4, <1>5, <1>6, <1>7, <1>8, <1>9, <1>10, <1>11, <1>12, <1>13 DEF Processor

\* So do the start and the end of a send function on the executor.
LEMMA TypeWorker ==
    ASSUME TypeOK, HeldAndFresh, NEW g \in Gens, Worker(g)
    PROVE  TypeOK'
<1>1. CASE JobRun(g)
  <2>1. job[g].m \in Msgs
    BY <1>1 DEF TypeOK, HeldAndFresh, JobRun, JobRecord
  <2>2. job' \in [Gens -> JobRecord]
    <3>1. job' = [job EXCEPT ![g] = [job[g] EXCEPT !.st = "run"]]
      BY <1>1 DEF JobRun
    <3> QED BY <3>1, JobStatus DEF TypeOK
  <2>3. tx' \in [Msgs -> Nat]
    BY <1>1, <2>1 DEF TypeOK, JobRun
  <2> QED BY <1>1, <2>2, <2>3 DEF TypeOK, JobRun, flags, lifecycle
<1>2. ASSUME NEW r \in Results, JobFinish(g, r) PROVE TypeOK'
  <2>1. job' \in [Gens -> JobRecord]
    <3>1. [job[g] EXCEPT !.st = r] \in JobRecord /\ NoJob \in JobRecord
      <4>1. NoJob \in JobRecord
        BY QueueAssumption DEF JobRecord, NoJob
      <4> QED BY <4>1, JobStatus DEF TypeOK
    <3> QED BY <1>2, <3>1 DEF TypeOK, JobFinish
  <2>2. job[g].m \in Msgs
    BY <1>2 DEF TypeOK, HeldAndFresh, JobFinish, JobRecord
  <2>3. errs' \in [Msgs -> Nat]
    BY <1>2, <2>2 DEF TypeOK, JobFinish
  <2> QED BY <1>2, <2>1, <2>3 DEF TypeOK, JobFinish, flags, lifecycle
<1> QED BY <1>1, <1>2 DEF Worker

\* So does the first critical section of stop().
LEMMA TypeStopBegin ==
    ASSUME TypeOK, NEW onLoop \in BOOLEAN, StopBegin(onLoop)
    PROVE  TypeOK'
<1>1. gen \in Gens => stop' \in [Gens -> StopRecord]
  BY QueueAssumption DEF TypeOK, StopBegin, SetStop, StopRecord
<1>2. gen \notin Gens => stop' = stop
  BY DEF TypeOK, StopBegin, SetStop
<1> QED BY <1>1, <1>2 DEF TypeOK, StopBegin, flags, history

\* So does every later step of stop(), of its threads and of its callbacks.
LEMMA TypeStopper ==
    ASSUME TypeOK, NEW s \in Gens, Stopper(s)
    PROVE  TypeOK'
<1> USE DEF OtherThanStop, flags, history, lifecycle
<1>0. stop[s] \in StopRecord
  BY DEF TypeOK
<1>a. ASSUME NEW r \in StopRecord, SetStop(s, r) PROVE stop' \in [Gens -> StopRecord]
  BY <1>a DEF TypeOK, SetStop
<1>1. CASE StopToShutdown(s)
  <2>1. \E r \in StopRecord : SetStop(s, r)
    BY <1>0, <1>1 DEF StopToShutdown, StopRecord
  <2> QED BY <1>1, <1>a, <2>1 DEF TypeOK, StopToShutdown
<1>2. CASE StopToFinal(s)
  <2>1. \E r \in StopRecord : SetStop(s, r)
    BY <1>0, <1>2 DEF StopToFinal, StopRecord
  <2> QED BY <1>2, <1>a, <2>1 DEF TypeOK, StopToFinal
<1>3. CASE RunCancelHandler(s)
  <2>1. \E r \in StopRecord : SetStop(s, r)
    BY <1>0, <1>3 DEF RunCancelHandler, StopRecord
  <2> QED BY <1>3, <1>a, <2>1 DEF TypeOK, RunCancelHandler
<1>4. CASE OnTaskDone(s)
  <2>1. \E r \in StopRecord : SetStop(s, r)
    BY <1>0, <1>4 DEF OnTaskDone, StopRecord
  <2> QED BY <1>4, <1>a, <2>1 DEF TypeOK, OnTaskDone
<1>5. CASE ExecutorShutdown(s)
  <2>1. stop[s].exec \in Gens
    BY <1>0, <1>5, QueueAssumption DEF ExecutorShutdown, StopRecord, Gens
  <2>2. shut' \subseteq Gens
    BY <1>5, <2>1 DEF TypeOK, ExecutorShutdown
  <2>3. job' \in [Gens -> JobRecord]
    <3>1. \A g \in Gens : [job[g] EXCEPT !.st = "cancelled"] \in JobRecord
      BY JobStatus DEF TypeOK
    <3> QED BY <1>5, <3>1 DEF TypeOK, ExecutorShutdown
  <2> QED BY <1>5, <2>2, <2>3 DEF TypeOK, ExecutorShutdown
<1>6. CASE ExecutorJoined(s)
  <2>1. \E r \in StopRecord : SetStop(s, r)
    BY <1>0, <1>6 DEF ExecutorJoined, StopRecord
  <2> QED BY <1>6, <1>a, <2>1 DEF TypeOK, ExecutorJoined
<1>7. CASE TaskWaitEnds(s)
  <2>1. \E r \in StopRecord : SetStop(s, r)
    BY <1>0, <1>7 DEF TaskWaitEnds, StopRecord
  <2> QED BY <1>7, <1>a, <2>1 DEF TypeOK, TaskWaitEnds
<1>8. CASE ExecWaitEnds(s)
  <2>1. \E r \in StopRecord : SetStop(s, r)
    BY <1>0, <1>8 DEF ExecWaitEnds, StopRecord
  <2> QED BY <1>8, <1>a, <2>1 DEF TypeOK, ExecWaitEnds
<1>9. CASE MarkStopFailed(s)
  <2>1. \E r \in StopRecord : SetStop(s, r)
    BY <1>0, <1>9 DEF MarkStopFailed, StopRecord
  <2> QED BY <1>9, <1>a, <2>1 DEF TypeOK, MarkStopFailed
<1>10. ASSUME NEW who \in {"task", "exec", "stop"}, FinalizeStopState(s, who)
       PROVE  TypeOK'
  <2>1. \E r \in StopRecord : SetStop(s, r)
    BY <1>0, <1>10 DEF FinalizeStopState, StopRecord
  <2>2. processorTask' \in 0..MaxGen /\ executor' \in 0..MaxGen
    BY <1>10, QueueAssumption DEF TypeOK, FinalizeStopState
  <2>3. inFlight' \in BOOLEAN /\ hasCurrent' \in BOOLEAN /\ stopping' \in BOOLEAN /\ stopFailed' \in BOOLEAN
    BY <1>10 DEF FinalizeStopState
  <2> QED BY <1>10, <1>a, <2>1, <2>2, <2>3 DEF TypeOK, FinalizeStopState
<1> QED BY <1>1, <1>2, <1>3, <1>4, <1>5, <1>6, <1>7, <1>8, <1>9, <1>10 DEF Stopper

\* Every step of the system keeps the types.
LEMMA TypeNext == TypeOK /\ HeldAndFresh /\ [Next]_vars => TypeOK'
<1> SUFFICES ASSUME TypeOK, HeldAndFresh, [Next]_vars PROVE TypeOK'
  OBVIOUS
<1>1. CASE ResetFailedStopState
  <2>1. 0 \in 0..MaxGen
    BY QueueAssumption
  <2> QED BY <1>1, <2>1 DEF TypeOK, ResetFailedStopState, flags, history
<1>2. CASE EnsureFromMain
  <2>1. processorTask' \in 0..MaxGen
    BY <1>2, QueueAssumption DEF TypeOK, EnsureFromMain, EnsureProcessorStarted
  <2>2. pc' \in [Gens -> AwaitPcs \cup BusyPcs \cup {"none", "done"}]
    BY <1>2 DEF TypeOK, EnsureFromMain, EnsureProcessorStarted, AwaitPcs
  <2> QED BY <1>2, <2>1, <2>2 DEF TypeOK, EnsureFromMain, flags, history
<1>3. CASE DrainCall
  BY <1>3 DEF TypeOK, DrainCall, DrainTurn, Pending, flags, history, lifecycle
<1>4. CASE DrainPoll
  BY <1>4 DEF TypeOK, DrainPoll, DrainTurn, flags, history, lifecycle
<1>5. CASE SetReady
  BY <1>5 DEF TypeOK, SetReady, flags, history, lifecycle
<1>6. CASE Tick
  BY <1>6, QueueAssumption DEF TypeOK, Tick, flags, history, lifecycle
<1>7. CASE UNCHANGED vars
  BY <1>7 DEF TypeOK, vars, flags, history, lifecycle
<1> QED
  BY <1>1, <1>2, <1>3, <1>4, <1>5, <1>6, <1>7, TypeStart, TypeStopBegin, TypeEnqueue,
     TypeProcessor, TypeWorker, TypeStopper DEF Next

-----------------------------------------------------------------------------
(* Conservation.  Only five transitions move a message: it enters the queue, *)
(* is popped, is put back, is dropped because the queue is full, or leaves   *)
(* the processor with an outcome.  One lemma for each, and one for all the   *)
(* rest.                                                                     *)

QueueInv == TypeOK /\ HeldAndFresh /\ Conservation

\* Nothing moves.
LEMMA ConservationFrame ==
    ASSUME QueueInv, UNCHANGED <<queue, cur, out>>,
           \A m \in Msgs : enq'[m] = "accepted" <=> enq[m] = "accepted"
    PROVE  Conservation'
BY DEF QueueInv, Conservation, Pending

\* enqueue() appends a message that was in no place.
LEMMA ConservationAppend ==
    ASSUME QueueInv, NEW m \in Msgs, enq[m] # "accepted", Append_(m),
           UNCHANGED <<cur, out>>
    PROVE  Conservation'
<1>1. out[m] = "pending" /\ m \notin Pending
  BY DEF QueueInv, HeldAndFresh, Pending
<1>2. /\ \A i \in 1..Len(queue) : queue[i] # m
      /\ \A g \in Gens : cur[g] # m
  BY <1>1 DEF QueueInv, Conservation
<1>3. Pending' = Pending \cup {m}
  BY <1>1 DEF QueueInv, TypeOK, Pending, Append_
<1>4. /\ Len(queue') = Len(queue) + 1
      /\ Len(queue) \in Nat
      /\ \A i \in 1..Len(queue) : queue'[i] = queue[i]
      /\ queue'[Len(queue) + 1] = m
  BY DEF QueueInv, TypeOK, Append_
<1>5. \A i \in 1..Len(queue') : i \in 1..Len(queue) \/ i = Len(queue) + 1
  BY <1>4
<1>6. \A i, j \in 1..Len(queue') : queue'[i] = queue'[j] => i = j
  BY <1>2, <1>4, <1>5 DEF QueueInv, Conservation
<1>7. \A i \in 1..Len(queue'), g \in Gens : queue'[i] # cur'[g]
  BY <1>2, <1>4, <1>5 DEF QueueInv, Conservation
<1>8. \A n \in Msgs : n \in Pending' <=> \/ \E i \in 1..Len(queue') : queue'[i] = n
                                         \/ \E g \in Gens : cur'[g] = n
  <2> TAKE n \in Msgs
  <2>1. (\E i \in 1..Len(queue') : queue'[i] = n)
          <=> (n = m \/ \E i \in 1..Len(queue) : queue[i] = n)
    BY <1>4, <1>5
  <2> QED BY <2>1, <1>3 DEF QueueInv, Conservation
<1> QED BY <1>6, <1>7, <1>8 DEF QueueInv, Conservation

\* The processor pops the head into its hands.
LEMMA ConservationTake ==
    ASSUME QueueInv, NEW g \in Gens, queue # <<>>, cur[g] = None,
           cur' = [cur EXCEPT ![g] = Head(queue)], queue' = Tail(queue),
           UNCHANGED <<enq, out>>
    PROVE  Conservation'
<1>1. /\ Len(queue) \in Nat \ {0}
      /\ Len(queue') = Len(queue) - 1
      /\ \A i \in 1..Len(queue') : queue'[i] = queue[i + 1] /\ i + 1 \in 1..Len(queue)
      /\ Head(queue) = queue[1] /\ 1 \in 1..Len(queue)
      /\ queue[1] \in Msgs
  BY DEF QueueInv, TypeOK
<1>2. cur'[g] = queue[1] /\ \A h \in Gens \ {g} : cur'[h] = cur[h]
  BY <1>1 DEF QueueInv, TypeOK
<1>3. Pending' = Pending
  BY DEF Pending
<1>4. \A i, j \in 1..Len(queue') : queue'[i] = queue'[j] => i = j
  <2> TAKE i, j \in 1..Len(queue')
  <2>1. queue[i + 1] = queue[j + 1] => i + 1 = j + 1
    BY <1>1 DEF QueueInv, Conservation
  <2> QED BY <1>1, <2>1
<1>5. \A i \in 1..Len(queue'), h \in Gens : queue'[i] # cur'[h]
  <2> TAKE i \in 1..Len(queue'), h \in Gens
  <2>1. queue[i + 1] = queue[1] => i + 1 = 1
    BY <1>1 DEF QueueInv, Conservation
  <2>2. queue[i + 1] # cur[h]
    BY <1>1 DEF QueueInv, Conservation
  <2> QED BY <1>1, <1>2, <2>1, <2>2
<1>6. \A h, k \in Gens : cur'[h] = cur'[k] /\ cur'[h] # None => h = k
  BY <1>1, <1>2 DEF QueueInv, Conservation
<1>7. \A n \in Msgs : n \in Pending' <=> \/ \E i \in 1..Len(queue') : queue'[i] = n
                                         \/ \E h \in Gens : cur'[h] = n
  <2> TAKE n \in Msgs
  <2>1. (\E i \in 1..Len(queue) : queue[i] = n)
          <=> (n = queue[1] \/ \E i \in 1..Len(queue') : queue'[i] = n)
    <3>1. \A i \in 1..Len(queue) : i = 1 \/ (i - 1 \in 1..Len(queue') /\ queue'[i - 1] = queue[i])
      <4> TAKE i \in 1..Len(queue)
      <4>1. i # 1 => i - 1 \in 1..Len(queue') /\ (i - 1) + 1 = i
        BY <1>1
      <4> QED BY <1>1, <4>1
    <3>2. \A i \in 1..Len(queue') : \E k \in 1..Len(queue) : queue[k] = queue'[i]
      BY <1>1
    <3> QED BY <1>1, <3>1, <3>2
  <2>2. (\E h \in Gens : cur'[h] = n) <=> (n = queue[1] \/ \E h \in Gens : cur[h] = n)
    BY <1>2, QueueAssumption
  <2> QED BY <1>3, <2>1, <2>2 DEF QueueInv, Conservation
<1> QED BY <1>4, <1>5, <1>6, <1>7 DEF Conservation

\* The current message goes back to the front, or is dropped.
LEMMA ConservationRequeue ==
    ASSUME QueueInv, NEW g \in Gens, cur[g] # None, Requeue(g), UNCHANGED enq
    PROVE  Conservation'
<1>1. cur[g] \in Msgs /\ cur[g] \in Pending
  BY DEF QueueInv, TypeOK, Conservation
<1>2. cur'[g] = None /\ \A h \in Gens \ {g} : cur'[h] = cur[h] /\ cur[h] # cur[g]
  BY DEF QueueInv, TypeOK, Requeue, Conservation
<1>3. Len(queue) \in Nat /\ \A i \in 1..Len(queue) : queue[i] \in Msgs /\ queue[i] # cur[g]
  BY DEF QueueInv, TypeOK, Conservation
<1>4. CASE Len(queue) < MaxQueue
  <2>1. /\ Len(queue') = Len(queue) + 1
        /\ queue'[1] = cur[g]
        /\ \A i \in 1..Len(queue) : queue'[i + 1] = queue[i]
        /\ out' = out
    BY <1>1, <1>4 DEF QueueInv, TypeOK, Requeue
  <2>2. \A i \in 1..Len(queue') : i = 1 \/ (i - 1 \in 1..Len(queue) /\ queue'[i] = queue[i - 1])
    BY <1>3, <2>1
  <2>3. Pending' = Pending
    BY <2>1 DEF Pending
  <2>4. \A i, j \in 1..Len(queue') : queue'[i] = queue'[j] => i = j
    <3> SUFFICES ASSUME NEW i \in 1..Len(queue'), NEW j \in 1..Len(queue'),
                        queue'[i] = queue'[j]
                 PROVE  i = j
      OBVIOUS
    <3>1. CASE i # 1 /\ j # 1
      <4>0. /\ i - 1 \in 1..Len(queue) /\ j - 1 \in 1..Len(queue)
            /\ queue[i - 1] = queue[j - 1]
        BY <2>2, <3>1
      <4>1. i - 1 = j - 1
        BY <4>0 DEF QueueInv, Conservation
      <4>2. i \in Nat /\ j \in Nat
        BY <1>3, <2>1
      <4> QED BY <4>1, <4>2
    <3>2. CASE i = 1 \/ j = 1
      BY <3>2, <2>1, <2>2, <1>3
    <3> QED BY <3>1, <3>2
  <2>5. \A i \in 1..Len(queue'), h \in Gens : queue'[i] # cur'[h]
    BY <1>1, <1>2, <1>3, <2>1, <2>2, QueueAssumption DEF QueueInv, Conservation
  <2>6. \A h, k \in Gens : cur'[h] = cur'[k] /\ cur'[h] # None => h = k
    BY <1>2 DEF QueueInv, Conservation
  <2>7. \A n \in Msgs : n \in Pending' <=> \/ \E i \in 1..Len(queue') : queue'[i] = n
                                           \/ \E h \in Gens : cur'[h] = n
    <3> TAKE n \in Msgs
    <3>1. (\E i \in 1..Len(queue') : queue'[i] = n)
            <=> (n = cur[g] \/ \E i \in 1..Len(queue) : queue[i] = n)
      <4>1. 1 \in 1..Len(queue') /\ \A i \in 1..Len(queue) : i + 1 \in 1..Len(queue')
        BY <1>3, <2>1
      <4> QED BY <2>1, <2>2, <4>1
    <3>2. (n = cur[g] \/ \E h \in Gens : cur'[h] = n) <=> (\E h \in Gens : cur[h] = n)
      BY <1>2, QueueAssumption
    <3> QED BY <2>3, <3>1, <3>2 DEF QueueInv, Conservation
  <2> QED BY <2>4, <2>5, <2>6, <2>7 DEF Conservation
<1>5. CASE ~(Len(queue) < MaxQueue)
  <2>1. queue' = queue /\ out' = [out EXCEPT ![cur[g]] = "full"]
    BY <1>5 DEF Requeue
  <2>2. Pending' = Pending \ {cur[g]}
    BY <1>1, <2>1 DEF QueueInv, TypeOK, Pending
  <2>3. \A n \in Msgs : n \in Pending' <=> \/ \E i \in 1..Len(queue') : queue'[i] = n
                                           \/ \E h \in Gens : cur'[h] = n
    <3> TAKE n \in Msgs
    <3>1. (n = cur[g] \/ \E h \in Gens : cur'[h] = n) <=> (\E h \in Gens : cur[h] = n)
      BY <1>2, QueueAssumption
    <3>2. ~(\E h \in Gens : cur'[h] = cur[g])
      BY <1>1, <1>2, QueueAssumption
    <3> QED BY <1>3, <2>1, <2>2, <3>1, <3>2 DEF QueueInv, Conservation
  <2>4. \A i \in 1..Len(queue'), h \in Gens : queue'[i] # cur'[h]
    BY <1>2, <1>3, <2>1, QueueAssumption DEF QueueInv, Conservation
  <2> QED BY <1>2, <2>1, <2>3, <2>4 DEF QueueInv, Conservation
<1> QED BY <1>4, <1>5

\* The current message, if any, leaves the processor with an outcome.
LEMMA ConservationResolve ==
    ASSUME QueueInv, NEW g \in Gens, NEW o \in {"sent", "nil", "failed", "shutdown"},
           Resolve(g, o), UNCHANGED <<queue, enq>>
    PROVE  Conservation'
<1>1. CASE cur[g] = None
  <2>1. cur' = cur /\ out' = out
    BY <1>1 DEF QueueInv, TypeOK, Resolve
  <2> QED BY <2>1, ConservationFrame
<1>2. CASE cur[g] # None
  <2>1. cur[g] \in Msgs /\ cur[g] \in Pending
    BY <1>2 DEF QueueInv, TypeOK, Conservation
  <2>2. cur'[g] = None /\ \A h \in Gens \ {g} : cur'[h] = cur[h] /\ cur[h] # cur[g]
    BY <1>2 DEF QueueInv, TypeOK, Resolve, Conservation
  <2>3. \A i \in 1..Len(queue) : queue[i] \in Msgs /\ queue[i] # cur[g]
    BY DEF QueueInv, TypeOK, Conservation
  <2>4. Pending' = Pending \ {cur[g]}
    BY <1>2, <2>1 DEF QueueInv, TypeOK, Pending, Resolve
  <2> QED BY <2>1, <2>2, <2>3, <2>4, QueueAssumption DEF QueueInv, Conservation
<1> QED BY <1>1, <1>2

\* Every step of the queue preserves the invariant.
LEMMA QueueInvNext == QueueInv /\ [Next]_vars => QueueInv'
<1> SUFFICES ASSUME QueueInv, [Next]_vars PROVE QueueInv'
  OBVIOUS
<1> USE DEF flags, history, lifecycle
<1>1. TypeOK'
  BY TypeNext DEF QueueInv
<1>2. Conservation'
  <2>a. ASSUME UNCHANGED <<queue, cur, out, enq>> PROVE Conservation'
    BY <2>a, ConservationFrame
  <2>1. ASSUME NEW onLoop \in BOOLEAN, Start(onLoop) \/ StopBegin(onLoop)
        PROVE  Conservation'
    BY <2>1, <2>a DEF Start, StopBegin
  <2>2. CASE ResetFailedStopState \/ EnsureFromMain
    BY <2>2, <2>a DEF ResetFailedStopState, EnsureFromMain
  <2>3. CASE DrainCall \/ DrainPoll \/ SetReady \/ Tick \/ UNCHANGED vars
    BY <2>3, <2>a DEF DrainCall, DrainPoll, SetReady, Tick, vars
  <2>4. ASSUME NEW m \in Msgs, Enqueue(m) PROVE Conservation'
    <3>1. ASSUME NEW onLoop \in BOOLEAN, EnqueueEnsure(m, onLoop) PROVE Conservation'
      <4>1. \A n \in Msgs : enq'[n] = "accepted" <=> enq[n] = "accepted"
        BY <3>1 DEF EnqueueEnsure, QueueInv, TypeOK
      <4> QED BY <3>1, <4>1, ConservationFrame DEF EnqueueEnsure
    <3>2. ASSUME enq[m] # "accepted", UNCHANGED <<cur, out>>,
                 Append_(m) \/ \E how \in {"refused", "waiting", "dropped"} : Answer(m, how)
          PROVE  Conservation'
      <4>1. ASSUME NEW how \in {"refused", "waiting", "dropped"}, Answer(m, how)
            PROVE  Conservation'
        <5>1. \A n \in Msgs : enq'[n] = "accepted" <=> enq[n] = "accepted"
          BY <3>2, <4>1 DEF Answer, QueueInv, TypeOK
        <5> QED BY <3>2, <4>1, <5>1, ConservationFrame DEF Answer
      <4> QED BY <3>2, <4>1, ConservationAppend
    <3>3. CASE EnqueueLocked(m)
      BY <3>2, <3>3 DEF EnqueueLocked
    <3>4. CASE EnqueueRetry(m)
      BY <3>2, <3>4 DEF EnqueueRetry
    <3> QED BY <2>4, <3>1, <3>3, <3>4 DEF Enqueue
  <2>5. ASSUME NEW g \in Gens, Processor(g) PROVE Conservation'
    <3>1. CASE ProcIdle(g) \/ ProcKeep(g) \/ ProcRateLimit(g) \/ ProcSubmit(g) \/ ProcStoreMapping(g)
      BY <3>1, <2>a DEF ProcIdle, ProcKeep, ProcRateLimit, ProcSubmit, ProcStoreMapping
    <3>2. CASE ProcTake(g)
      BY <3>2, ConservationTake DEF ProcTake
    <3>3. CASE ProcNotReady(g)
      <4>1. cur[g] # None
        BY <3>3 DEF ProcNotReady, DelayPassed, QueueInv, HeldAndFresh
      <4> QED BY <3>3, <4>1, ConservationRequeue DEF ProcNotReady
    <3>4. CASE ProcConnectionError(g)
      <4>1. cur[g] # None
        BY <3>4 DEF ProcConnectionError, Returned, QueueInv, HeldAndFresh
      <4> QED BY <3>4, <4>1, ConservationRequeue DEF ProcConnectionError
    <3>5. CASE ProcExit(g)
      BY <3>5, ConservationResolve DEF ProcExit
    <3>6. CASE ProcSubmitFails(g)
      BY <3>6, ConservationResolve DEF ProcSubmitFails
    <3>7. CASE ProcFinish(g)
      <4>1. \E o \in {"sent", "nil", "failed", "shutdown"} : Resolve(g, o)
        BY <3>7 DEF ProcFinish
      <4> QED BY <3>7, <4>1, ConservationResolve DEF ProcFinish
    <3>8. CASE ProcMappingDone(g)
      BY <3>8, ConservationResolve DEF ProcMappingDone
    <3>9. CASE ProcCancelled(g)
      BY <3>9, ConservationResolve DEF ProcCancelled
    <3> QED BY <2>5, <3>1, <3>2, <3>3, <3>4, <3>5, <3>6, <3>7, <3>8, <3>9 DEF Processor
  <2>6. ASSUME NEW g \in Gens, Worker(g) PROVE Conservation'
    BY <2>6, <2>a DEF Worker, JobRun, JobFinish
  <2>7. ASSUME NEW s \in Gens, Stopper(s) PROVE Conservation'
    BY <2>7, <2>a DEF Stopper, StopToShutdown, StopToFinal, RunCancelHandler, OnTaskDone,
       ExecutorShutdown, ExecutorJoined, TaskWaitEnds, ExecWaitEnds, MarkStopFailed,
       FinalizeStopState, OtherThanStop
  <2> QED BY <2>1, <2>2, <2>3, <2>4, <2>5, <2>6, <2>7 DEF Next
<1>3. HeldAndFresh'
  <2>a. ASSUME UNCHANGED <<pc, cur, job, out, enq>> PROVE HeldAndFresh'
    BY <2>a DEF QueueInv, HeldAndFresh
  <2>b. ASSUME UNCHANGED <<cur, job, out>>,
               \A g \in Gens : pc'[g] = pc[g] \/ pc'[g] = "start",
               \A m \in Msgs : enq'[m] = "accepted" \/ enq[m] # "accepted"
        PROVE  HeldAndFresh'
    BY <2>b DEF QueueInv, HeldAndFresh
  <2>1. ASSUME NEW onLoop \in BOOLEAN, Start(onLoop) PROVE HeldAndFresh'
    <3>1. \A g \in Gens : pc'[g] = pc[g] \/ pc'[g] = "start"
      BY <2>1 DEF Start, QueueInv, TypeOK
    <3> QED BY <2>1, <3>1, <2>b DEF Start
  <2>2. ASSUME NEW onLoop \in BOOLEAN, StopBegin(onLoop) PROVE HeldAndFresh'
    BY <2>2, <2>a DEF StopBegin
  <2>3. CASE ResetFailedStopState
    BY <2>3, <2>a DEF ResetFailedStopState
  <2>4. CASE EnsureFromMain
    <3>1. \A g \in Gens : pc'[g] = pc[g] \/ pc'[g] = "start"
      BY <2>4 DEF EnsureFromMain, EnsureProcessorStarted, QueueInv, TypeOK
    <3> QED BY <2>4, <3>1, <2>b DEF EnsureFromMain
  <2>5. CASE DrainCall \/ DrainPoll \/ SetReady \/ Tick \/ UNCHANGED vars
    BY <2>5, <2>a DEF DrainCall, DrainPoll, SetReady, Tick, vars
  <2>6. ASSUME NEW m \in Msgs, Enqueue(m) PROVE HeldAndFresh'
    <3>1. \A n \in Msgs : enq'[n] = "accepted" \/ enq[n] # "accepted"
      BY <2>6 DEF Enqueue, EnqueueEnsure, EnqueueLocked, EnqueueRetry, Answer, Append_,
                  QueueInv, TypeOK
    <3>2. \A g \in Gens : pc'[g] = pc[g] \/ pc'[g] = "start"
      BY <2>6 DEF Enqueue, EnqueueEnsure, EnqueueLocked, EnqueueRetry,
                  EnsureProcessorStarted, QueueInv, TypeOK
    <3>3. UNCHANGED <<cur, job, out>>
      BY <2>6 DEF Enqueue, EnqueueEnsure, EnqueueLocked, EnqueueRetry
    <3> QED BY <3>1, <3>2, <3>3, <2>b
  <2>7. ASSUME NEW g \in Gens, Processor(g) PROVE HeldAndFresh'
    <3>0. cur[g] # None => enq[cur[g]] = "accepted"
      BY DEF QueueInv, TypeOK, Conservation, Pending
    <3>a. ASSUME NEW where, Goto(g, where),
                 where \in {"checked", "ratewait", "sending", "mapping"} => cur'[g] # None,
                 \A h \in Gens \ {g} : cur'[h] = cur[h] /\ job'[h] = job[h],
                 job'[g].st # "idle" => job'[g].m # None,
                 UNCHANGED enq,
                 out' = out \/ \E o : out' = [out EXCEPT ![cur[g]] = o] /\ cur[g] # None
          PROVE  HeldAndFresh'
      <4>1. pc'[g] = where /\ \A h \in Gens \ {g} : pc'[h] = pc[h]
        BY <3>a DEF Goto, QueueInv, TypeOK
      <4>2. \A m \in Msgs : enq'[m] # "accepted" => out'[m] = "pending"
        BY <3>0, <3>a DEF QueueInv, HeldAndFresh, TypeOK
      <4> QED BY <3>a, <4>1, <4>2 DEF QueueInv, HeldAndFresh
    <3>b. ASSUME NEW where \in {"top", "sleep", "done"}, Goto(g, where),
                 job' = job \/ job' = [job EXCEPT ![g] = NoJob], UNCHANGED enq,
                 (Requeue(g) /\ cur[g] # None) \/ \E o : Resolve(g, o)
          PROVE  HeldAndFresh'
      <4>1. \A h \in Gens \ {g} : cur'[h] = cur[h] /\ job'[h] = job[h]
        BY <3>b DEF QueueInv, TypeOK, Requeue, Resolve
      <4>2. job'[g].st # "idle" => job'[g].m # None
        BY <3>b DEF QueueInv, TypeOK, HeldAndFresh, NoJob
      <4>3. out' = out \/ \E o : out' = [out EXCEPT ![cur[g]] = o] /\ cur[g] # None
        BY <3>b DEF Requeue, Resolve
      <4> QED BY <3>a, <3>b, <4>1, <4>2, <4>3
    <3>1. CASE ProcIdle(g)
      BY <3>1, <3>a DEF ProcIdle, QueueInv, HeldAndFresh
    <3>2. CASE ProcTake(g)
      <4>1. Head(queue) \in Msgs /\ Head(queue) # None
        BY <3>2, QueueAssumption DEF ProcTake, QueueInv, TypeOK
      <4>2. cur'[g] # None /\ \A h \in Gens \ {g} : cur'[h] = cur[h]
        BY <3>2, <4>1 DEF ProcTake, QueueInv, TypeOK
      <4> QED BY <3>2, <4>2, <3>a DEF ProcTake, QueueInv, HeldAndFresh
    <3>3. CASE ProcKeep(g)
      BY <3>3, <3>a DEF ProcKeep, QueueInv, HeldAndFresh
    <3>4. CASE ProcRateLimit(g)
      BY <3>4, <3>a DEF ProcRateLimit, QueueInv, HeldAndFresh
    <3>5. CASE ProcSubmit(g)
      <4>1. cur[g] # None
        BY <3>5 DEF ProcSubmit, DelayPassed, QueueInv, HeldAndFresh
      <4>2. job'[g].m = cur[g] /\ \A h \in Gens \ {g} : job'[h] = job[h]
        BY <3>5 DEF ProcSubmit, QueueInv, TypeOK
      <4> QED BY <3>5, <4>1, <4>2, <3>a DEF ProcSubmit
    <3>6. CASE ProcStoreMapping(g)
      <4>1. cur[g] # None
        BY <3>6 DEF ProcStoreMapping, Returned, QueueInv, HeldAndFresh
      <4>2. job'[g] = NoJob /\ \A h \in Gens \ {g} : job'[h] = job[h]
        BY <3>6 DEF ProcStoreMapping, QueueInv, TypeOK
      <4> QED BY <3>6, <4>1, <4>2, <3>a DEF ProcStoreMapping, NoJob
    <3>7. CASE ProcNotReady(g)
      <4>1. cur[g] # None
        BY <3>7 DEF ProcNotReady, DelayPassed, QueueInv, HeldAndFresh
      <4> QED BY <3>7, <4>1, <3>b DEF ProcNotReady
    <3>8. CASE ProcConnectionError(g)
      <4>1. cur[g] # None
        BY <3>8 DEF ProcConnectionError, Returned, QueueInv, HeldAndFresh
      <4> QED BY <3>8, <4>1, <3>b DEF ProcConnectionError
    <3>9. CASE ProcExit(g)
      BY <3>9, <3>b DEF ProcExit
    <3>10. CASE ProcSubmitFails(g)
      BY <3>10, <3>b DEF ProcSubmitFails
    <3>11. CASE ProcFinish(g)
      BY <3>11, <3>b DEF ProcFinish
    <3>12. CASE ProcMappingDone(g)
      BY <3>12, <3>b DEF ProcMappingDone
    <3>13. CASE ProcCancelled(g)
      BY <3>13, <3>b DEF ProcCancelled
    <3> QED BY <2>7, <3>1, <3>2, <3>3, <3>4, <3>5, <3>6, <3>7, <3>8, <3>9, <3>10, <3>11, <3>12,
               <3>13 DEF Processor
  <2>8. ASSUME NEW g \in Gens, Worker(g) PROVE HeldAndFresh'
    <3>1. \A h \in Gens : job'[h].st # "idle" => job'[h].m = job[h].m /\ job[h].st # "idle"
      <4>1. job[g].st = "run" \/ job[g].st = "queued"
        BY <2>8 DEF Worker, JobRun, JobFinish
      <4>2. \E st : job' = [job EXCEPT ![g] = [job[g] EXCEPT !.st = st]] \/ job' = [job EXCEPT ![g] = NoJob]
        BY <2>8 DEF Worker, JobRun, JobFinish
      <4>3. \A h \in Gens \ {g} : job'[h] = job[h]
        BY <4>2 DEF QueueInv, TypeOK
      <4>4. job'[g].st # "idle" => job'[g].m = job[g].m
        BY <4>2 DEF NoJob, QueueInv, TypeOK, JobRecord
      <4> QED BY <4>1, <4>3, <4>4
    <3> QED BY <2>8, <3>1 DEF Worker, JobRun, JobFinish, QueueInv, HeldAndFresh
  <2>9. ASSUME NEW s \in Gens, Stopper(s) PROVE HeldAndFresh'
    <3>1. CASE ExecutorShutdown(s)
      <4>1. \A h \in Gens : job'[h].m = job[h].m /\ (job'[h].st # "idle" => job[h].st # "idle")
        BY <3>1 DEF ExecutorShutdown, QueueInv, TypeOK, JobRecord
      <4> QED BY <3>1, <4>1 DEF ExecutorShutdown, QueueInv, HeldAndFresh
    <3>2. CASE ~ExecutorShutdown(s)
      BY <2>9, <3>2, <2>a DEF Stopper, StopToShutdown, StopToFinal, RunCancelHandler, OnTaskDone,
         ExecutorJoined, TaskWaitEnds, ExecWaitEnds, MarkStopFailed, FinalizeStopState, OtherThanStop
    <3> QED BY <3>1, <3>2
  <2> QED BY <2>1, <2>2, <2>3, <2>4, <2>5, <2>6, <2>7, <2>8, <2>9 DEF Next
<1> QED BY <1>1, <1>2, <1>3 DEF QueueInv

\* A new queue satisfies the invariant.
LEMMA QueueInvInit == Init => QueueInv
<1> SUFFICES ASSUME Init PROVE QueueInv
  OBVIOUS
<1>1. Pending = {} /\ Len(queue) = 0
  BY DEF Init, Pending
<1>2. Conservation
  <2>1. \A g \in Gens : cur[g] = None
    BY DEF Init
  <2>2. 1..Len(queue) = {}
    BY <1>1
  <2> QED BY <1>1, <2>1, <2>2, QueueAssumption DEF Conservation
<1>3. HeldAndFresh
  BY DEF Init, HeldAndFresh, NoJob
<1> QED BY <1>2, <1>3, TypeInit DEF QueueInv

\* A message enqueue() accepted is in exactly one place until it has an outcome,
\* whatever the producers, the connection, the executor and stop() do.
THEOREM MessagesConserved == Spec => [](TypeOK /\ Conservation)
<1>1. Init => QueueInv
  BY QueueInvInit
<1>2. QueueInv /\ [Next]_vars => QueueInv'
  BY QueueInvNext
<1>3. QueueInv => TypeOK /\ Conservation
  BY DEF QueueInv
<1> QED BY <1>1, <1>2, <1>3, PTL DEF Spec

-----------------------------------------------------------------------------
(* The bound on the queue. *)

\* _requeue_message() and enqueue() both leave room for what they add.
LEMMA QueueBoundedNext == QueueInv /\ QueueBounded /\ [Next]_vars => QueueBounded'
<1> SUFFICES ASSUME QueueInv, QueueBounded, [Next]_vars PROVE QueueBounded'
  OBVIOUS
<1> USE DEF flags, history, lifecycle
<1>a. ASSUME UNCHANGED queue PROVE QueueBounded'
  BY <1>a DEF QueueBounded
<1>1. ASSUME NEW m \in Msgs, Enqueue(m) PROVE QueueBounded'
  <2>1. queue' = queue \/ (queue' = Append(queue, m) /\ ~(Len(queue) >= MaxQueue))
    BY <1>1 DEF Enqueue, EnqueueEnsure, EnqueueLocked, EnqueueRetry, Answer, Append_
  <2>2. CASE queue' = Append(queue, m) /\ ~(Len(queue) >= MaxQueue)
    BY <2>2, QueueAssumption DEF QueueInv, TypeOK, QueueBounded
  <2> QED BY <1>a, <2>1, <2>2
<1>2. ASSUME NEW g \in Gens, Processor(g) PROVE QueueBounded'
  <2>1. CASE ProcTake(g)
    BY <2>1, QueueAssumption DEF ProcTake, QueueInv, TypeOK, QueueBounded
  <2>2. ASSUME Requeue(g), cur[g] # None PROVE QueueBounded'
    <3>1. CASE Len(queue) < MaxQueue
      <4>1. cur[g] \in Msgs /\ queue' = <<cur[g]>> \o queue
        BY <2>2, <3>1 DEF Requeue, QueueInv, TypeOK
      <4>2. Len(queue') = Len(queue) + 1
        BY <4>1 DEF QueueInv, TypeOK
      <4> QED BY <3>1, <4>2, QueueAssumption DEF QueueInv, TypeOK, QueueBounded
    <3>2. CASE ~(Len(queue) < MaxQueue)
      BY <2>2, <3>2, <1>a DEF Requeue
    <3> QED BY <3>1, <3>2
  <2>3. CASE ProcNotReady(g)
    BY <2>2, <2>3 DEF ProcNotReady, DelayPassed, QueueInv, HeldAndFresh
  <2>4. CASE ProcConnectionError(g)
    BY <2>2, <2>4 DEF ProcConnectionError, Returned, QueueInv, HeldAndFresh
  <2>5. CASE ~ProcTake(g) /\ ~ProcNotReady(g) /\ ~ProcConnectionError(g)
    BY <1>2, <2>5, <1>a DEF Processor, ProcIdle, ProcKeep, ProcRateLimit, ProcSubmit,
       ProcStoreMapping, ProcExit, ProcSubmitFails, ProcFinish, ProcMappingDone, ProcCancelled
  <2> QED BY <2>1, <2>3, <2>4, <2>5
<1>3. CASE ~(\E m \in Msgs : Enqueue(m)) /\ ~(\E g \in Gens : Processor(g))
  <2>1. UNCHANGED queue
    BY <1>3 DEF Next, Start, StopBegin, ResetFailedStopState, EnsureFromMain, DrainCall,
       DrainPoll, SetReady, Tick, vars, Worker, JobRun, JobFinish, Stopper, StopToShutdown,
       StopToFinal, RunCancelHandler, OnTaskDone, ExecutorShutdown, ExecutorJoined, TaskWaitEnds,
       ExecWaitEnds, MarkStopFailed, FinalizeStopState, OtherThanStop
  <2> QED BY <2>1, <1>a
<1> QED BY <1>1, <1>2, <1>3

\* The deque never outgrows MAX_QUEUE_SIZE, although a message that was taken out
\* is put back after producers had the chance to fill its place.
THEOREM QueueNeverOverflows == Spec => []QueueBounded
<1>1. Init => QueueInv /\ QueueBounded
  <2>1. Init => QueueInv
    BY QueueInvInit
  <2>2. Init => QueueBounded
    BY QueueAssumption DEF Init, QueueBounded
  <2> QED BY <2>1, <2>2
<1>2. QueueInv /\ QueueBounded /\ [Next]_vars => (QueueInv /\ QueueBounded)'
  BY QueueInvNext, QueueBoundedNext
<1> QED BY <1>1, <1>2, PTL DEF Spec

-----------------------------------------------------------------------------
(* One generation after the other *)

Rest(g) == pc[g] \in {"none", "done"}

\* The two handles are those of the current generation.
Handles ==
    /\ processorTask \in {0, gen} /\ executor \in {0, gen}
    /\ running => gen # 0 /\ executor = gen /\ pc[gen] # "done"
    /\ \A g \in Gens : Rest(g) \/ processorTask = g

\* Nothing of a generation that is over is left, and nothing of one to come is there.
Generations ==
    /\ \A g \in Gens : g < gen => Rest(g) /\ job[g].st = "idle"
    /\ \A g \in Gens : g > gen => pc[g] = "none" /\ job[g].st = "idle"

\* A send function runs on the executor of its generation, for the processor that waits
\* for it or for none when that was cancelled.
Sends ==
    /\ \A g \in Gens : job[g].st # "idle" =>
          job[g].ex = g /\ (pc[g] = "sending" \/ (pc[g] = "done" /\ job[g].st = "run"))
    /\ \A g \in Gens : Rest(g) => cur[g] = None
    /\ \A g \in Gens : job[g].st = "cancelled" => g \in shut

\* Each generation but the one that runs is ended by a stop() of its own, and what that
\* stop() has seen cleaned up stays so.
Stops ==
    /\ \A s \in Gens : stop[s].pc # "none" <=> (s < gen \/ (s = gen /\ ~running))
    /\ \A s \in Gens : stop[s].pc = "none" => stop[s] = NoStop
    /\ \A s \in Gens : stop[s].pc # "none" => stop[s].task \in {0, s} /\ stop[s].exec = s
    /\ \A s \in Gens : stop[s].pc # "none" /\ stop[s].task = 0 =>
                          stop[s].taskClean /\ processorTask # s
    /\ \A s \in Gens : stop[s].taskClean => Rest(s)
    /\ \A s \in Gens : stop[s].execClean => s \in shut /\ job[s].st # "run"
    /\ \A s \in Gens : s \in shut => stop[s].pc # "none" /\ job[s].st # "queued"

\* The executor is let go of only after the whole cleanup.
Released == ~running /\ executor = 0 /\ gen # 0 => CleanupComplete(gen)

\* Until a second generation has started nobody but its own stop() clears _stopping.
FirstStop == gen = 1 /\ ~running /\ ~stopping => executor = 0 /\ processorTask = 0

RestartInv == Handles /\ Generations /\ Sends /\ Stops /\ Released /\ FirstStop

\* The invariant depends on nothing else.
LEMMA RestartFrame ==
    ASSUME RestartInv,
           UNCHANGED <<running, stopping, processorTask, executor, gen, pc, cur, job, stop, shut>>
    PROVE  RestartInv'
BY DEF RestartInv, Handles, Generations, Sends, Stops, Released, FirstStop, Rest, CleanupComplete

\* Before the first start() there is nothing.
LEMMA RestartInvInit == Init => RestartInv
BY DEF Init, RestartInv, Handles, Generations, Sends, Stops, Released, FirstStop, Rest,
       NoStop, NoJob, Gens

\* start() finds nothing of the generation before: _stopping, or the failed stop, has
\* kept it back until the cleanup was complete.
LEMMA RestartInvStart ==
    ASSUME QueueInv, RestartInv, MaxGen <= 2, NEW onLoop \in BOOLEAN, Start(onLoop)
    PROVE  RestartInv'
<1> USE DEF RestartInv, QueueInv
<1>1. /\ gen \in Nat /\ gen + 1 \in Gens /\ gen \in {0, 1} /\ gen' = gen + 1
      /\ ~running /\ running' = TRUE /\ stopping' = FALSE
      /\ Gens \subseteq Nat \ {0}
  BY QueueAssumption DEF Start, TypeOK, Gens
<1>2. executor = 0 /\ ClearedTask = 0
  <2>1. CASE gen = 0
    BY <2>1 DEF Handles, ClearedTask
  <2>2. CASE gen = 1
    BY <1>1, <2>2 DEF Start, FirstStop, ClearedStopping, ClearedTask, Recovered, RecoveredWith
  <2> QED BY <1>1, <2>1, <2>2
<1>3. \A g \in Gens : g <= gen => Rest(g) /\ job[g].st = "idle"
  <2> SUFFICES ASSUME NEW g \in Gens, g = gen PROVE Rest(g) /\ job[g].st = "idle"
    BY <1>1 DEF Generations
  <2>1. CleanupComplete(g) BY <1>1, <1>2 DEF Released
  <2>2. Rest(g) /\ job[g].st # "run" /\ job[g].st # "queued"
    BY <2>1 DEF CleanupComplete, Stops
  <2> QED BY <2>2 DEF Sends, Rest
<1>4. /\ executor' = gen + 1 /\ processorTask' \in {0, gen + 1}
      /\ pc' = (IF onLoop THEN [pc EXCEPT ![gen + 1] = "start"] ELSE pc)
      /\ onLoop => processorTask' = gen + 1
      /\ UNCHANGED <<cur, job, stop, shut>>
  BY <1>2 DEF Start
<1>5. \A g \in Gens : pc'[g] = IF onLoop /\ g = gen + 1 THEN "start" ELSE pc[g]
  BY <1>1, <1>4 DEF TypeOK
<1>6. pc[gen + 1] = "none" /\ job[gen + 1].st = "idle" BY <1>1 DEF Generations
<1>7. Handles'
  <2>1. \A g \in Gens : Rest(g)' \/ processorTask' = g
    <3> SUFFICES ASSUME NEW g \in Gens PROVE Rest(g)' \/ processorTask' = g OBVIOUS
    <3>1. g <= gen \/ g = gen + 1 \/ g > gen + 1 BY <1>1
    <3> QED BY <3>1, <1>1, <1>3, <1>4, <1>5, <1>6 DEF Generations, Rest
  <2>2. pc'[gen + 1] # "done" BY <1>1, <1>5, <1>6
  <2> QED BY <1>1, <1>4, <2>1, <2>2 DEF Handles
<1>8. Generations'
  <2>1. ASSUME NEW g \in Gens, g < gen + 1 PROVE Rest(g)' /\ job[g].st = "idle"
    <3>1. g <= gen /\ g # gen + 1 BY <2>1, <1>1
    <3> QED BY <3>1, <1>3, <1>5 DEF Rest
  <2>2. ASSUME NEW g \in Gens, g > gen + 1 PROVE pc'[g] = "none" /\ job[g].st = "idle"
    <3>1. g > gen /\ g # gen + 1 BY <2>2, <1>1
    <3> QED BY <3>1, <1>5 DEF Generations
  <2> QED BY <1>1, <1>4, <2>1, <2>2 DEF Generations
<1>9. Sends' BY <1>4, <1>5, <1>6 DEF Sends, Rest
<1>10. Stops'
  <2>1. \A s \in Gens : (stop[s].pc # "none") <=> (s < gen + 1)
    <3> SUFFICES ASSUME NEW s \in Gens PROVE (stop[s].pc # "none") <=> (s < gen + 1) OBVIOUS
    <3>1. (s < gen \/ s = gen) <=> s < gen + 1 BY <1>1
    <3>2. (stop[s].pc # "none") <=> (s < gen \/ (s = gen /\ ~running)) BY DEF Stops
    <3> QED BY <1>1, <3>1, <3>2
  <2>2. \A s \in Gens : stop[s].taskClean => Rest(s)'
    <3> SUFFICES ASSUME NEW s \in Gens, stop[s].taskClean PROVE Rest(s)' OBVIOUS
    <3>1. stop[s].pc # "none"
      <4>1. stop[s] # NoStop BY DEF NoStop
      <4> QED BY <4>1 DEF Stops
    <3>2. s # gen + 1 BY <1>1, <2>1, <3>1
    <3> QED BY <3>2, <1>5 DEF Stops, Rest
  <2>3. \A s \in Gens : stop[s].pc # "none" => processorTask' # s
    BY <1>1, <1>4, <2>1
  <2> QED BY <1>1, <1>4, <2>1, <2>2, <2>3 DEF Stops
<1>11. Released' /\ FirstStop' BY <1>1 DEF Released, FirstStop
<1> QED BY <1>7, <1>8, <1>9, <1>10, <1>11

\* The first critical section of stop() takes the handles of its generation.
LEMMA RestartInvStopBegin ==
    ASSUME QueueInv, RestartInv, NEW onLoop \in BOOLEAN, StopBegin(onLoop)
    PROVE  RestartInv'
<1> USE DEF RestartInv, QueueInv
<1>1. /\ gen \in Gens /\ running /\ ~running' /\ stopping' /\ executor = gen
      /\ UNCHANGED <<processorTask, executor, gen, pc, cur, job, shut>>
      /\ Gens \subseteq Nat \ {0} /\ gen \in Nat
  BY QueueAssumption DEF StopBegin, Handles, TypeOK, Gens
<1> DEFINE r == [pc        |-> IF onLoop THEN "final" ELSE "waitTask",
                 onLoop    |-> onLoop,
                 task      |-> processorTask,
                 exec      |-> executor,
                 cancel    |-> IF processorTask = 0 THEN "over" ELSE "scheduled",
                 taskClean |-> processorTask = 0,
                 execClean |-> executor = 0,
                 taskWd    |-> IF processorTask = 0 THEN "over" ELSE "armed",
                 execWd    |-> IF executor = 0 THEN "over"
                               ELSE IF onLoop THEN "armed" ELSE "off",
                 fin       |-> IF onLoop THEN {"stop"} ELSE {}]
<1>2. /\ stop' = [stop EXCEPT ![gen] = r]
      /\ r.pc # "none" /\ r.task = processorTask /\ r.exec = executor
      /\ (r.taskClean <=> processorTask = 0)
      /\ (r.execClean <=> executor = 0)
  BY <1>1 DEF StopBegin, SetStop
<1> HIDE DEF r
<1>3. \A s \in Gens : stop'[s] = IF s = gen THEN r ELSE stop[s]
  BY <1>2 DEF TypeOK
<1>4. processorTask = 0 => Rest(gen) BY <1>1 DEF Handles
<1>5. Handles' BY <1>1 DEF Handles, Rest
<1>6. Generations' /\ Sends' BY <1>1 DEF Generations, Sends, Rest
<1>7. Stops'
  <2>1. \A s \in Gens : (stop'[s].pc # "none") <=> (s < gen \/ s = gen)
    BY <1>1, <1>2, <1>3 DEF Stops
  <2>2. \A s \in Gens : stop'[s].pc = "none" => stop'[s] = NoStop
    BY <1>2, <1>3 DEF Stops
  <2>3. \A s \in Gens : stop'[s].pc # "none" => stop'[s].task \in {0, s} /\ stop'[s].exec = s
    BY <1>1, <1>2, <1>3 DEF Stops, Handles
  <2>4. \A s \in Gens : stop'[s].taskClean => Rest(s)
    BY <1>2, <1>3, <1>4 DEF Stops
  <2>5. \A s \in Gens : stop'[s].execClean => s \in shut /\ job[s].st # "run"
    BY <1>1, <1>2, <1>3 DEF Stops
  <2>6. \A s \in Gens : s \in shut => stop'[s].pc # "none" /\ job[s].st # "queued"
    BY <1>2, <1>3 DEF Stops
  <2>7. \A s \in Gens : stop'[s].pc # "none" /\ stop'[s].task = 0 =>
                          stop'[s].taskClean /\ processorTask # s
    <3> SUFFICES ASSUME NEW s \in Gens, stop'[s].pc # "none", stop'[s].task = 0
                 PROVE  stop'[s].taskClean /\ processorTask # s
      OBVIOUS
    <3>1. CASE s = gen
      <4>1. stop'[s] = r BY <3>1, <1>3
      <4>2. processorTask = 0 BY <4>1, <1>2
      <4> QED BY <4>1, <4>2, <1>1, <1>2, <3>1
    <3>2. CASE s # gen
      <4>1. stop'[s] = stop[s] BY <3>2, <1>3
      <4> QED BY <4>1 DEF Stops
    <3> QED BY <3>1, <3>2
  <2> QED BY <1>1, <2>1, <2>2, <2>3, <2>4, <2>5, <2>6, <2>7 DEF Stops, Rest
<1>8. Released' /\ FirstStop' BY <1>1 DEF Released, FirstStop
<1> QED BY <1>5, <1>6, <1>7, <1>8

\* Forgetting a finished task, or creating the task of the generation that runs.
LEMMA RestartInvEnsure ==
    ASSUME QueueInv, RestartInv, NEW onLoop \in BOOLEAN, EnsureProcessorStarted(onLoop),
           UNCHANGED <<running, stopping, executor, gen, cur, job, stop, shut>>
    PROVE  RestartInv'
<1> USE DEF RestartInv, QueueInv
<1>1. gen \in Nat /\ Gens \subseteq Nat \ {0} /\ (gen # 0 => gen \in Gens)
  BY QueueAssumption DEF TypeOK, Gens
<1>2. CASE onLoop /\ running /\ ~stopFailed /\ TaskInactive
  <2>1. processorTask' = gen /\ pc' = [pc EXCEPT ![gen] = "start"]
    BY <1>2 DEF EnsureProcessorStarted
  <2>2. gen \in Gens /\ pc[gen] = "none"
    BY <1>1, <1>2 DEF Handles, TaskInactive, Inactive, Rest
  <2>3. \A g \in Gens : pc'[g] = IF g = gen THEN "start" ELSE pc[g]
    BY <2>1, <2>2 DEF TypeOK
  <2>4. job[gen].st = "idle" BY <2>2 DEF Sends
  <2>5. Handles'
    <3>1. \A g \in Gens : Rest(g)' \/ processorTask' = g
      BY <1>1, <1>2, <2>1, <2>2, <2>3 DEF Handles, Rest, TaskInactive, Inactive
    <3>2. pc'[gen] # "done" BY <2>2, <2>3
    <3> QED BY <2>1, <2>2, <3>1, <3>2, <1>2 DEF Handles
  <2>6. Generations'
    <3>1. \A g \in Gens : (g < gen \/ g > gen) => pc'[g] = pc[g]
      BY <2>3, <1>1
    <3> QED BY <3>1 DEF Generations, Rest
  <2>7. Sends' BY <2>2, <2>3, <2>4, <1>2 DEF Sends, Rest, Handles
  <2>8. Stops'
    <3>1. stop[gen].pc = "none" BY <1>1, <1>2, <2>2 DEF Stops
    <3>2. ~stop[gen].taskClean BY <2>2, <3>1 DEF Stops, NoStop
    <3>3. \A s \in Gens : stop[s].taskClean => Rest(s)' BY <2>3, <3>2 DEF Stops, Rest
    <3>4. \A s \in Gens : stop[s].pc # "none" => processorTask' # s BY <2>1, <3>1
    <3> QED BY <3>3, <3>4 DEF Stops
  <2>9. Released' /\ FirstStop' BY <1>2 DEF Released, FirstStop
  <2> QED BY <2>5, <2>6, <2>7, <2>8, <2>9
<1>3. CASE ~(onLoop /\ running /\ ~stopFailed /\ TaskInactive)
  <2>1. pc' = pc /\ processorTask' = (IF TaskInactive THEN 0 ELSE processorTask)
    BY <1>3 DEF EnsureProcessorStarted
  <2>2. Handles' BY <2>1, <1>1 DEF Handles, Rest, TaskInactive, Inactive
  <2>3. Generations' /\ Sends' /\ Released' /\ FirstStop'
    BY <2>1 DEF Generations, Sends, Released, FirstStop, Rest, CleanupComplete
  <2>4. \A s \in Gens : processorTask # s => processorTask' # s BY <2>1, <1>1
  <2>5. Stops' BY <2>1, <2>4 DEF Stops, Rest
  <2> QED BY <2>2, <2>3, <2>5
<1> QED BY <1>2, <1>3

\* The failed-stop latch is cleared only without a task and an executor.
LEMMA RestartInvClear ==
    ASSUME QueueInv, RestartInv, processorTask' \in {processorTask, ClearedTask},
           stopping' = stopping \/ (stopping' = ClearedStopping /\ processorTask' = ClearedTask),
           UNCHANGED <<running, executor, gen, pc, cur, job, stop, shut>>
    PROVE  RestartInv'
<1> USE DEF RestartInv, QueueInv
<1>1. gen \in Nat /\ Gens \subseteq Nat \ {0}
  BY QueueAssumption DEF TypeOK, Gens
<1>2. Handles' BY <1>1 DEF Handles, Rest, ClearedTask, Recovered, RecoveredWith, Inactive
<1>3. FirstStop' BY DEF FirstStop, ClearedTask, ClearedStopping, Recovered, RecoveredWith
<1>4. Generations' /\ Sends' /\ Released' BY DEF Generations, Sends, Released, Rest, CleanupComplete
<1>5. \A s \in Gens : processorTask # s => processorTask' # s BY <1>1 DEF ClearedTask
<1>6. Stops' BY <1>5 DEF Stops, Rest
<1> QED BY <1>2, <1>3, <1>4, <1>6

\* A step of a processor: its generation is the current one.
LEMMA RestartInvProc ==
    ASSUME QueueInv, RestartInv, NEW g \in Gens, ~Rest(g), NEW w, pc' = [pc EXCEPT ![g] = w],
           w # "none", w = "done" => ~running /\ cur'[g] = None,
           UNCHANGED <<running, stopping, processorTask, executor, gen, stop, shut>>,
           \A h \in Gens \ {g} : cur'[h] = cur[h] /\ job'[h] = job[h],
           \/ job'[g].st = "idle"
           \/ /\ w = "sending" /\ job'[g].st = "queued" /\ job'[g].ex = g /\ g \notin shut
           \/ /\ w = "done" /\ job'[g] = job[g] /\ job[g].st = "run"
           \/ /\ w = pc[g] /\ job'[g] = job[g]
    PROVE  RestartInv'
<1> USE DEF RestartInv, QueueInv
<1>1. gen \in Nat /\ Gens \subseteq Nat \ {0} /\ processorTask = g /\ g = gen
  BY QueueAssumption DEF TypeOK, Gens, Handles
<1>2. \A h \in Gens : pc'[h] = IF h = g THEN w ELSE pc[h] BY DEF TypeOK
<1>3. Handles' BY <1>1, <1>2 DEF Handles, Rest
<1>4. Generations' BY <1>1, <1>2 DEF Generations, Rest
<1>5. Sends' BY <1>1, <1>2 DEF Sends, Rest
<1>6. Stops'
  <2>1. \A h \in Gens : stop[h].taskClean => Rest(h)' BY <1>2 DEF Stops, Rest
  <2>2. \A h \in Gens : stop[h].execClean => job'[h].st # "run" BY DEF Stops
  <2>3. \A h \in Gens : h \in shut => job'[h].st # "queued" BY DEF Stops
  <2> QED BY <2>1, <2>2, <2>3 DEF Stops
<1>7. Released' /\ FirstStop' BY DEF Released, FirstStop, CleanupComplete
<1> QED BY <1>3, <1>4, <1>5, <1>6, <1>7

\* A task is cancelled only by the stop() of its own generation.
LEMMA CancelledIsStopped ==
    ASSUME QueueInv, RestartInv, NEW g \in Gens, ~Rest(g),
           CancelRequested(g) \/ job[g].st = "cancelled"
    PROVE  g = gen /\ ~running
<1> USE DEF RestartInv, QueueInv
<1>1. gen \in Nat /\ Gens \subseteq Nat \ {0} /\ g = gen
  BY QueueAssumption DEF TypeOK, Gens, Handles
<1>2. stop[g].pc # "none"
  <2>1. CASE job[g].st = "cancelled" BY <2>1 DEF Sends, Stops
  <2>2. CASE CancelRequested(g)
    <3>1. PICK s \in Gens : stop[s].task = g /\ stop[s].cancel = "requested"
      BY <2>2 DEF CancelRequested
    <3>2. stop[s] # NoStop BY <3>1 DEF NoStop
    <3>3. stop[s].pc # "none" BY <3>2 DEF Stops
    <3>4. s = g BY <3>1, <3>3, <1>1 DEF Stops
    <3> QED BY <3>3, <3>4
  <2> QED BY <2>1, <2>2
<1>3. g < gen \/ (g = gen /\ ~running) BY <1>2 DEF Stops
<1> QED BY <1>1, <1>3

\* Every stretch of _process_queue() keeps to its generation.
LEMMA RestartInvProcessor ==
    ASSUME QueueInv, RestartInv, NEW g \in Gens, Processor(g)
    PROVE  RestartInv'
<1> USE DEF Goto
<1>r. ~Rest(g)
  BY DEF Processor, ProcExit, ProcIdle, ProcTake, ProcKeep, ProcRateLimit, ProcNotReady, ProcSubmit,
         ProcSubmitFails, ProcStoreMapping, ProcFinish, ProcMappingDone, ProcConnectionError,
         ProcCancelled, AtTop, DelayPassed, Returned, Rest, AwaitPcs
<1>j. pc[g] # "sending" => job[g].st = "idle" BY <1>r DEF RestartInv, Sends, Rest
<1>n. NoJob.st = "idle" BY DEF NoJob
<1>c. cur \in [Gens -> Msgs \cup {None}] /\ job \in [Gens -> JobRecord] BY DEF QueueInv, TypeOK
<1>1. CASE ProcExit(g)
  <2>1. pc[g] # "sending" BY <1>1 DEF ProcExit, AtTop
  <2>2. /\ cur'[g] = None /\ job'[g].st = "idle" /\ ~running /\ pc' = [pc EXCEPT ![g] = "done"]
        /\ \A h \in Gens \ {g} : cur'[h] = cur[h] /\ job'[h] = job[h]
    BY <1>1, <1>j, <2>1, <1>c DEF ProcExit, Resolve
  <2> QED BY <1>1, <1>r, <2>2, RestartInvProc DEF ProcExit, lifecycle
<1>2. CASE ProcIdle(g) \/ ProcKeep(g) \/ ProcTake(g) \/ ProcRateLimit(g)
  <2>1. job[g].st = "idle"
    BY <1>2, <1>j DEF ProcIdle, ProcKeep, ProcTake, ProcRateLimit, AtTop
  <2>2. \E w \in {"sleep", "checked", "ratewait"} : pc' = [pc EXCEPT ![g] = w]
    BY <1>2 DEF ProcIdle, ProcKeep, ProcTake, ProcRateLimit
  <2>3. \A h \in Gens \ {g} : cur'[h] = cur[h] /\ job'[h] = job[h]
    BY <1>2, <1>c DEF ProcIdle, ProcKeep, ProcTake, ProcRateLimit
  <2>4. job' = job /\ UNCHANGED <<running, stopping, processorTask, executor, gen, stop, shut>>
    BY <1>2 DEF ProcIdle, ProcKeep, ProcTake, ProcRateLimit, lifecycle
  <2> QED BY <1>r, <2>1, <2>2, <2>3, <2>4, RestartInvProc
<1>3. CASE ProcNotReady(g) \/ ProcSubmitFails(g) \/ ProcMappingDone(g)
  <2>1. job[g].st = "idle"
    BY <1>3, <1>j DEF ProcNotReady, ProcSubmitFails, ProcMappingDone, DelayPassed
  <2>2. \E w \in {"sleep", "top"} : pc' = [pc EXCEPT ![g] = w]
    BY <1>3 DEF ProcNotReady, ProcSubmitFails, ProcMappingDone
  <2>3. \A h \in Gens \ {g} : cur'[h] = cur[h] /\ job'[h] = job[h]
    BY <1>3, <1>c DEF ProcNotReady, ProcSubmitFails, ProcMappingDone, Requeue, Resolve
  <2>4. job' = job /\ UNCHANGED <<running, stopping, processorTask, executor, gen, stop, shut>>
    BY <1>3 DEF ProcNotReady, ProcSubmitFails, ProcMappingDone, lifecycle
  <2> QED BY <1>r, <2>1, <2>2, <2>3, <2>4, RestartInvProc
<1>4. CASE ProcSubmit(g)
  <2>1. executor = g /\ g \notin shut
    BY <1>4, <1>r DEF ProcSubmit, RestartInv, QueueInv, Handles, TypeOK, Gens
  <2>2. /\ job'[g].st = "queued" /\ job'[g].ex = g /\ pc' = [pc EXCEPT ![g] = "sending"]
        /\ \A h \in Gens \ {g} : cur'[h] = cur[h] /\ job'[h] = job[h]
    BY <1>4, <2>1, <1>c DEF ProcSubmit
  <2> QED BY <1>4, <1>r, <2>1, <2>2, RestartInvProc DEF ProcSubmit, lifecycle
<1>5. CASE ProcStoreMapping(g) \/ ProcFinish(g) \/ ProcConnectionError(g)
  <2>1. \E w \in {"sleep", "top", "mapping"} : pc' = [pc EXCEPT ![g] = w]
    BY <1>5 DEF ProcStoreMapping, ProcFinish, ProcConnectionError
  <2>2. job'[g].st = "idle" /\ \A h \in Gens \ {g} : cur'[h] = cur[h] /\ job'[h] = job[h]
    BY <1>5, <1>n, <1>c DEF ProcStoreMapping, ProcFinish, ProcConnectionError, Requeue, Resolve
  <2>3. UNCHANGED <<running, stopping, processorTask, executor, gen, stop, shut>>
    BY <1>5 DEF ProcStoreMapping, ProcFinish, ProcConnectionError, lifecycle
  <2> QED BY <1>r, <2>1, <2>2, <2>3, RestartInvProc
<1>6. CASE ProcCancelled(g)
  <2>1. ~running BY <1>6, <1>r, CancelledIsStopped DEF ProcCancelled
  <2>2. /\ cur'[g] = None /\ pc' = [pc EXCEPT ![g] = "done"]
        /\ job'[g].st = "idle" \/ (job'[g] = job[g] /\ job[g].st = "run")
        /\ \A h \in Gens \ {g} : cur'[h] = cur[h] /\ job'[h] = job[h]
    BY <1>6, <1>n, <1>c DEF ProcCancelled, Resolve
  <2> QED BY <1>6, <1>r, <2>1, <2>2, RestartInvProc DEF ProcCancelled, lifecycle
<1> QED BY <1>1, <1>2, <1>3, <1>4, <1>5, <1>6 DEF Processor

\* So do the start and the end of a send function.
LEMMA RestartInvWorker ==
    ASSUME QueueInv, RestartInv, NEW g \in Gens, Worker(g)
    PROVE  RestartInv'
<1> USE DEF RestartInv, QueueInv
<1>1. /\ UNCHANGED <<running, stopping, processorTask, executor, gen, pc, cur, stop, shut>>
      /\ \A h \in Gens \ {g} : job'[h] = job[h]
      /\ job[g].st # "idle" /\ (g \in shut => job[g].st = "run")
  BY DEF Worker, JobRun, JobFinish, lifecycle, TypeOK, Stops
<1>2. \/ job'[g].st = "idle"
      \/ /\ job'[g].st \in Results \cup {"run"} /\ job'[g].ex = job[g].ex
         /\ pc[g] = "sending" /\ (job'[g].st = "run" => g \notin shut)
  <2>1. CASE JobRun(g)
    <3>1. job'[g] = [job[g] EXCEPT !.st = "run"] BY <2>1 DEF JobRun, TypeOK
    <3>2. job'[g].st = "run" /\ job'[g].ex = job[g].ex BY <3>1 DEF TypeOK, JobRecord
    <3> QED BY <2>1, <3>2 DEF JobRun, Sends, Stops
  <2>2. ASSUME NEW r \in Results, JobFinish(g, r) PROVE <1>2!1 \/ <1>2!2
    <3>1. CASE pc[g] = "sending"
      <4>1. job'[g] = [job[g] EXCEPT !.st = r] BY <2>2, <3>1 DEF JobFinish, TypeOK
      <4>2. job'[g].st = r /\ job'[g].ex = job[g].ex BY <4>1 DEF TypeOK, JobRecord
      <4> QED BY <4>2, <3>1 DEF Results
    <3>2. CASE pc[g] # "sending" BY <2>2, <3>2 DEF JobFinish, NoJob, TypeOK
    <3> QED BY <3>1, <3>2
  <2> QED BY <2>1, <2>2 DEF Worker
<1>3. job[g].ex = g /\ g = gen
  BY <1>1, QueueAssumption DEF Sends, Generations, TypeOK, Gens
<1>4. Handles' /\ Released' /\ FirstStop'
  BY <1>1 DEF Handles, Released, FirstStop, CleanupComplete, Rest
<1>5. Generations' BY <1>1, <1>3, QueueAssumption DEF Generations, TypeOK, Gens, Rest
<1>6. Sends' BY <1>1, <1>2, <1>3 DEF Sends, Rest, Results
<1>7. Stops' BY <1>1, <1>2, <1>3 DEF Stops, Rest, Results
<1> QED BY <1>4, <1>5, <1>6, <1>7

\* A step of a stop() that only notes what was cleaned up.
LEMMA RestartInvNote ==
    ASSUME QueueInv, RestartInv, NEW s \in Gens, stop[s] # NoStop,
           NEW r, stop' = [stop EXCEPT ![s] = r], r.pc # "none",
           r.task = stop[s].task, r.exec = stop[s].exec,
           r.taskClean => Rest(s), stop[s].taskClean => r.taskClean,
           r.execClean => s \in shut /\ job[s].st # "run", stop[s].execClean => r.execClean,
           UNCHANGED <<running, stopping, processorTask, executor, gen, pc, cur, job, shut>>
    PROVE  RestartInv'
<1> USE DEF RestartInv, QueueInv
<1>1. stop[s].pc # "none" BY DEF Stops
<1>2. \A h \in Gens : stop'[h] = IF h = s THEN r ELSE stop[h] BY DEF TypeOK
<1>3. gen # 0 => gen \in Gens BY QueueAssumption DEF TypeOK, Gens
<1>4. Handles' /\ Generations' /\ Sends' /\ FirstStop'
  BY DEF Handles, Generations, Sends, FirstStop, Rest
<1>5. Released' BY <1>2, <1>3 DEF Released, CleanupComplete
<1>6. Stops' BY <1>1, <1>2 DEF Stops, Rest
<1> QED BY <1>4, <1>5, <1>6

\* The shutdown of the executor cancels what its generation had submitted.
LEMMA RestartInvShutdown ==
    ASSUME QueueInv, RestartInv, NEW s \in Gens, ExecutorShutdown(s)
    PROVE  RestartInv'
<1> USE DEF RestartInv, QueueInv
<1>1. stop[s].pc # "none" /\ stop[s].exec = s
  <2>1. stop[s] # NoStop BY DEF ExecutorShutdown, NoStop
  <2> QED BY <2>1 DEF Stops
<1>2. /\ UNCHANGED <<running, stopping, processorTask, executor, gen, pc, cur, stop>>
      /\ shut' = shut \cup {s}
  BY <1>1 DEF ExecutorShutdown, lifecycle
<1>3. \A g \in Gens : job[g].st = "queued" => job[g].ex = g BY DEF Sends
<1>4. \A g \in Gens : job'[g] = IF g = s /\ job[g].st = "queued"
                               THEN [job[g] EXCEPT !.st = "cancelled"] ELSE job[g]
  BY <1>1, <1>3 DEF ExecutorShutdown
<1>5. \A g \in Gens : job'[g].ex = job[g].ex /\ job'[g].st = IF g = s /\ job[g].st = "queued"
                                                           THEN "cancelled" ELSE job[g].st
  <2> SUFFICES ASSUME NEW g \in Gens
               PROVE  job'[g].ex = job[g].ex /\ job'[g].st = IF g = s /\ job[g].st = "queued"
                                                           THEN "cancelled" ELSE job[g].st
    OBVIOUS
  <2>1. job[g] \in JobRecord BY DEF TypeOK
  <2> QED BY <1>4, <2>1 DEF JobRecord
<1> HIDE <1>4
<1>6. Handles' /\ Released' /\ FirstStop'
  BY <1>2 DEF Handles, Released, FirstStop, CleanupComplete, Rest
<1>7. Generations' BY <1>2, <1>5 DEF Generations, Rest
<1>8. Sends' BY <1>2, <1>5 DEF Sends, Rest
<1>9. Stops' BY <1>1, <1>2, <1>5 DEF Stops, Rest
<1> QED BY <1>6, <1>7, <1>8, <1>9

\* _finalize_stop_state() lets go of the handles of its own generation only, and with two
\* generations it opens the gate for the next start() only when they are gone.
LEMMA RestartInvFinalize ==
    ASSUME QueueInv, RestartInv, NEW s \in Gens, NEW who \in {"task", "exec", "stop"},
           FinalizeStopState(s, who)
    PROVE  RestartInv'
<1> USE DEF RestartInv, QueueInv
<1> DEFINE r == [stop[s] EXCEPT !.fin = @ \ {who}, !.pc = IF who = "stop" THEN "returned" ELSE @]
           clean == CleanupComplete(s)
           ownTask == clean /\ stop[s].task # 0 /\ processorTask = stop[s].task
           ownExec == clean /\ stop[s].exec # 0 /\ executor = stop[s].exec
<1>1. stop[s].pc # "none" /\ stop[s].exec = s /\ stop[s].task \in {0, s}
  <2>1. stop[s] # NoStop BY DEF FinalizeStopState, NoStop
  <2> QED BY <2>1 DEF Stops
<1>2. /\ r.pc # "none" /\ r.task = stop[s].task /\ r.exec = stop[s].exec
      /\ r.taskClean = stop[s].taskClean /\ r.execClean = stop[s].execClean
  <2>1. stop[s] \in StopRecord BY DEF TypeOK
  <2> QED BY <1>1, <2>1 DEF StopRecord
<1>3. stop' = [stop EXCEPT ![s] = r] BY DEF FinalizeStopState, SetStop
<1> HIDE DEF r
<1>4. \A h \in Gens : stop'[h] = IF h = s THEN r ELSE stop[h] BY <1>3 DEF TypeOK
<1>5. UNCHANGED <<running, gen, pc, cur, job, shut>> BY DEF FinalizeStopState
<1>6. executor' = (IF ownExec THEN 0 ELSE executor) BY DEF FinalizeStopState
<1>7. \/ processorTask' = processorTask /\ ~ownTask
      \/ processorTask' = 0 /\ (ownTask \/ Inactive(processorTask))
  BY DEF FinalizeStopState, RecoveredWith
<1>8. (stopping' <=> stopping) \/ clean BY DEF FinalizeStopState, TypeOK
<1>9. /\ gen \in Nat /\ Gens \subseteq Nat \ {0} /\ (gen # 0 => gen \in Gens)
      /\ (s < gen \/ (s = gen /\ ~running))
  BY <1>1, QueueAssumption DEF TypeOK, Gens, Stops
<1>10. clean => Rest(s) BY DEF CleanupComplete, Stops
<1>11. Handles'
  <2>1. processorTask' \in {0, gen} /\ executor' \in {0, gen} BY <1>6, <1>7 DEF Handles
  <2>2. running => executor' = executor BY <1>1, <1>6, <1>9 DEF Handles
  <2>3. \A g \in Gens : Rest(g) \/ processorTask' = g
    BY <1>1, <1>7, <1>9, <1>10 DEF Handles, Rest, Inactive
  <2> QED BY <1>5, <2>1, <2>2, <2>3 DEF Handles, Rest
<1>12. Generations' /\ Sends' BY <1>5 DEF Generations, Sends, Rest
<1>13. Stops'
  <2>1. \A h \in Gens : /\ stop'[h].pc # "none" <=> stop[h].pc # "none"
                        /\ stop'[h].pc = "none" => stop'[h] = stop[h]
                        /\ stop'[h].task = stop[h].task /\ stop'[h].exec = stop[h].exec
                        /\ stop'[h].taskClean = stop[h].taskClean
                        /\ stop'[h].execClean = stop[h].execClean
    BY <1>1, <1>2, <1>4
  <2>2. \A h \in Gens : processorTask # h => processorTask' # h BY <1>7, <1>9
  <2> QED BY <1>5, <2>1, <2>2 DEF Stops, Rest
<1>14. Released'
  <2> SUFFICES ASSUME ~running, executor' = 0, gen # 0 PROVE stop'[gen].taskClean /\ stop'[gen].execClean
    BY <1>5 DEF Released, CleanupComplete
  <2>1. stop[gen].taskClean /\ stop[gen].execClean
    BY <1>1, <1>6, <1>9 DEF Released, Handles, CleanupComplete
  <2> QED BY <1>2, <1>4, <1>9, <2>1
<1>15. FirstStop'
  <2> SUFFICES ASSUME gen = 1, ~running, ~stopping' PROVE executor' = 0 /\ processorTask' = 0
    BY <1>5 DEF FirstStop
  <2>1. CASE ~stopping BY <2>1, <1>6, <1>7 DEF FirstStop
  <2>2. CASE clean
    <3>1. s = gen BY <1>9
    <3>2. executor' = 0 BY <2>2, <3>1, <1>1, <1>6, <1>9 DEF Handles
    <3>3. processorTask' = 0 BY <2>2, <3>1, <1>1, <1>7, <1>9 DEF Handles, Stops
    <3> QED BY <3>2, <3>3
  <2> QED BY <1>8, <2>1, <2>2
<1> QED BY <1>11, <1>12, <1>13, <1>14, <1>15

\* Every other step of a stop() and of what it leaves behind is a note of what was seen.
LEMMA RestartInvStopper ==
    ASSUME QueueInv, RestartInv, NEW s \in Gens, Stopper(s)
    PROVE  RestartInv'
<1> USE DEF SetStop, OtherThanStop
<1>t. stop[s] \in StopRecord BY DEF QueueInv, TypeOK
<1>c. /\ stop[s].pc # "none" => stop[s].task \in {0, s} /\ stop[s].exec = s
      /\ stop[s].pc # "none" /\ stop[s].task = 0 => stop[s].taskClean
      /\ stop[s].pc = "none" => stop[s] = NoStop
      /\ stop[s].taskClean => Rest(s)
      /\ stop[s].execClean => s \in shut /\ job[s].st # "run"
      /\ job[s].st # "idle" => job[s].ex = s
  BY DEF RestartInv, Stops, Sends
<1>d. s # 0 BY QueueAssumption DEF Gens
<1>1. CASE StopToShutdown(s)
  <2> DEFINE r == [stop[s] EXCEPT !.pc = "waitExec", !.execWd = IF @ = "off" THEN "armed" ELSE @]
  <2>1. stop[s] # NoStop BY <1>1 DEF StopToShutdown, NoStop
  <2>2. /\ r.pc # "none" /\ r.task = stop[s].task /\ r.exec = stop[s].exec
        /\ r.taskClean = stop[s].taskClean /\ r.execClean = stop[s].execClean
    BY <1>t DEF StopRecord
  <2>3. stop' = [stop EXCEPT ![s] = r] BY <1>1 DEF StopToShutdown
  <2> HIDE DEF r
  <2>4. UNCHANGED <<running, stopping, processorTask, executor, gen, pc, cur, job, shut>>
    BY <1>1 DEF StopToShutdown
  <2> QED BY <1>c, <2>1, <2>2, <2>3, <2>4, RestartInvNote
<1>2. CASE StopToFinal(s)
  <2> DEFINE r == [stop[s] EXCEPT !.pc = "final", !.fin = @ \cup {"stop"}]
  <2>1. stop[s] # NoStop BY <1>2 DEF StopToFinal, NoStop
  <2>2. /\ r.pc # "none" /\ r.task = stop[s].task /\ r.exec = stop[s].exec
        /\ r.taskClean = stop[s].taskClean /\ r.execClean = stop[s].execClean
    BY <1>t DEF StopRecord
  <2>3. stop' = [stop EXCEPT ![s] = r] BY <1>2 DEF StopToFinal
  <2> HIDE DEF r
  <2>4. UNCHANGED <<running, stopping, processorTask, executor, gen, pc, cur, job, shut>>
    BY <1>2 DEF StopToFinal
  <2> QED BY <1>c, <2>1, <2>2, <2>3, <2>4, RestartInvNote
<1>3. CASE RunCancelHandler(s) \/ OnTaskDone(s)
  <2>1. stop[s] # NoStop BY <1>3 DEF RunCancelHandler, OnTaskDone, NoStop
  <2>2. stop[s].pc # "none" BY <1>c, <2>1
  <2>u. UNCHANGED <<running, stopping, processorTask, executor, gen, pc, cur, job, shut>>
    BY <1>3 DEF RunCancelHandler, OnTaskDone
  <2>3. CASE pc[stop[s].task] = "done"
    <3> DEFINE r == [stop[s] EXCEPT !.cancel = "over", !.taskClean = TRUE, !.fin = @ \cup {"task"}]
    <3>1. /\ r.pc = stop[s].pc /\ r.task = stop[s].task /\ r.exec = stop[s].exec
          /\ r.taskClean /\ r.execClean = stop[s].execClean
      BY <1>t DEF StopRecord
    <3>2. stop' = [stop EXCEPT ![s] = r] BY <1>3, <2>3 DEF RunCancelHandler, OnTaskDone
    <3>3. Rest(s) BY <1>c, <2>2, <2>3 DEF Rest
    <3> HIDE DEF r
    <3> QED BY <1>c, <2>1, <2>2, <2>u, <3>1, <3>2, <3>3, RestartInvNote
  <2>4. CASE pc[stop[s].task] # "done"
    <3> DEFINE r == [stop[s] EXCEPT !.cancel = "requested"]
    <3>1. /\ r.pc = stop[s].pc /\ r.task = stop[s].task /\ r.exec = stop[s].exec
          /\ r.taskClean = stop[s].taskClean /\ r.execClean = stop[s].execClean
      BY <1>t DEF StopRecord
    <3>2. stop' = [stop EXCEPT ![s] = r] BY <1>3, <2>4 DEF RunCancelHandler, OnTaskDone
    <3> HIDE DEF r
    <3> QED BY <1>c, <2>1, <2>2, <2>u, <3>1, <3>2, RestartInvNote
  <2> QED BY <2>3, <2>4
<1>4. CASE ExecutorShutdown(s) BY <1>4, RestartInvShutdown
<1>5. CASE ExecutorJoined(s)
  <2> DEFINE r == [stop[s] EXCEPT !.execClean = TRUE, !.fin = @ \cup {"exec"}]
  <2>1. stop[s] # NoStop BY <1>5 DEF ExecutorJoined, NoStop
  <2>2. stop[s].pc # "none" BY <1>c, <2>1
  <2>3. /\ r.pc = stop[s].pc /\ r.task = stop[s].task /\ r.exec = stop[s].exec
        /\ r.taskClean = stop[s].taskClean /\ r.execClean
    BY <1>t DEF StopRecord
  <2>4. stop' = [stop EXCEPT ![s] = r] BY <1>5 DEF ExecutorJoined
  <2>5. s \in shut /\ job[s].st # "run" BY <1>5, <1>c, <2>2 DEF ExecutorJoined
  <2> HIDE DEF r
  <2>6. UNCHANGED <<running, stopping, processorTask, executor, gen, pc, cur, job, shut>>
    BY <1>5 DEF ExecutorJoined
  <2> QED BY <1>c, <2>1, <2>2, <2>3, <2>4, <2>5, <2>6, RestartInvNote
<1>6. CASE TaskWaitEnds(s) \/ ExecWaitEnds(s) \/ MarkStopFailed(s)
  <2>1. stop[s] # NoStop BY <1>6 DEF TaskWaitEnds, ExecWaitEnds, MarkStopFailed, NoStop
  <2>2. stop[s].pc # "none" BY <1>c, <2>1
  <2>3. \/ \E w : stop' = [stop EXCEPT ![s] = [stop[s] EXCEPT !.taskWd = w]]
        \/ \E w : stop' = [stop EXCEPT ![s] = [stop[s] EXCEPT !.execWd = w]]
    BY <1>6 DEF TaskWaitEnds, ExecWaitEnds, MarkStopFailed
  <2>4. PICK r : /\ stop' = [stop EXCEPT ![s] = r]
                 /\ r.pc = stop[s].pc /\ r.task = stop[s].task /\ r.exec = stop[s].exec
                 /\ r.taskClean = stop[s].taskClean /\ r.execClean = stop[s].execClean
    BY <2>3, <1>t DEF StopRecord
  <2>5. UNCHANGED <<running, stopping, processorTask, executor, gen, pc, cur, job, shut>>
    BY <1>6 DEF TaskWaitEnds, ExecWaitEnds, MarkStopFailed
  <2> QED BY <1>c, <2>1, <2>2, <2>4, <2>5, RestartInvNote
<1>7. ASSUME NEW who \in {"task", "exec", "stop"}, FinalizeStopState(s, who) PROVE RestartInv'
  BY <1>7, RestartInvFinalize
<1> QED BY <1>1, <1>2, <1>3, <1>4, <1>5, <1>6, <1>7 DEF Stopper

\* Every step keeps the generations apart.
LEMMA RestartInvNext ==
    ASSUME QueueInv, RestartInv, MaxGen <= 2, [Next]_vars
    PROVE  RestartInv'
<1>1. ASSUME NEW onLoop \in BOOLEAN, Start(onLoop) PROVE RestartInv' BY <1>1, RestartInvStart
<1>2. ASSUME NEW onLoop \in BOOLEAN, StopBegin(onLoop) PROVE RestartInv' BY <1>2, RestartInvStopBegin
<1>3. CASE ResetFailedStopState
  <2>1. processorTask' = ClearedTask BY <1>3 DEF ResetFailedStopState, ClearedTask
  <2> QED BY <1>3, <2>1, RestartInvClear DEF ResetFailedStopState
<1>4. CASE EnsureFromMain BY <1>4, RestartInvEnsure DEF EnsureFromMain
<1>5. ASSUME NEW m \in Msgs, Enqueue(m) PROVE RestartInv'
  <2>1. ASSUME NEW onLoop \in BOOLEAN, EnqueueEnsure(m, onLoop) PROVE RestartInv'
    BY <2>1, RestartInvEnsure DEF EnqueueEnsure
  <2>2. CASE EnqueueLocked(m) BY <2>2, RestartInvClear DEF EnqueueLocked
  <2>3. CASE EnqueueRetry(m) BY <2>3, RestartFrame DEF EnqueueRetry, lifecycle
  <2> QED BY <1>5, <2>1, <2>2, <2>3 DEF Enqueue
<1>6. ASSUME NEW g \in Gens, Processor(g) \/ Worker(g) \/ Stopper(g) PROVE RestartInv'
  BY <1>6, RestartInvProcessor, RestartInvWorker, RestartInvStopper
<1>7. CASE DrainCall \/ DrainPoll \/ SetReady \/ Tick \/ UNCHANGED vars
  BY <1>7, RestartFrame DEF DrainCall, DrainPoll, SetReady, Tick, vars, lifecycle
<1> QED BY <1>1, <1>2, <1>3, <1>4, <1>5, <1>6, <1>7 DEF Next

\* Two generations never overlap.
LEMMA RestartInvClean == QueueInv /\ RestartInv => CleanRestart
<1> SUFFICES ASSUME QueueInv, RestartInv PROVE CleanRestart OBVIOUS
<1>1. gen \in Nat /\ Gens \subseteq Nat \ {0} BY QueueAssumption DEF QueueInv, TypeOK, Gens
<1>2. \A g \in Gens : job[g].st = "run" => g = gen BY <1>1 DEF RestartInv, Generations
<1>3. SingleSender BY <1>2 DEF SingleSender
<1>4. NoLeftovers BY <1>1 DEF RestartInv, NoLeftovers, Generations, Handles, Rest
<1> QED BY <1>3, <1>4 DEF CleanRestart

\* When a queue that was stopped, on a thread or on the loop, in time or late, is started
\* again, nothing of its first generation is left, and no two send functions ever run at
\* the same time (start(), stop(), _finalize_stop_state() and the failed-stop latch).
THEOREM RestartIsClean ==
    ASSUME MaxGen <= 2
    PROVE  Spec => []CleanRestart
<1>1. Init => QueueInv /\ RestartInv BY QueueInvInit, RestartInvInit
<1>2. QueueInv /\ RestartInv /\ [Next]_vars => (QueueInv /\ RestartInv)'
  BY QueueInvNext, RestartInvNext
<1>3. QueueInv /\ RestartInv => CleanRestart BY RestartInvClean
<1> QED BY <1>1, <1>2, <1>3, PTL DEF Spec

-----------------------------------------------------------------------------
(* drain() *)

\* _has_current covers a message in the hands of a processor.
Flagged == \A g \in Gens : cur[g] # None => hasCurrent

\* drain() watches messages that were accepted.
Watched == \A m \in drain.watch : enq[m] = "accepted"

DrainInv == Flagged /\ Watched /\ DrainSound

\* Only one generation has a message.
LEMMA OneHolder ==
    ASSUME QueueInv, RestartInv, NEW g \in Gens, NEW h \in Gens, ~Rest(g), g # h
    PROVE  cur[h] = None
BY DEF RestartInv, Handles, Sends, QueueInv

\* A processor's step clears the flag only when it lets go of its message.
LEMMA FlaggedProcessor ==
    ASSUME QueueInv, RestartInv, Flagged, NEW g \in Gens, Processor(g)
    PROVE  Flagged'
<1>1. ~Rest(g) /\ cur \in [Gens -> Msgs \cup {None}]
  BY DEF Processor, ProcExit, ProcIdle, ProcTake, ProcKeep, ProcRateLimit, ProcNotReady, ProcSubmit,
         ProcSubmitFails, ProcStoreMapping, ProcFinish, ProcMappingDone, ProcConnectionError,
         ProcCancelled, AtTop, DelayPassed, Returned, Rest, AwaitPcs, QueueInv, TypeOK
<1>2. \A h \in Gens \ {g} : cur[h] = None BY <1>1, OneHolder
<1>3. CASE ProcTake(g) BY <1>3 DEF ProcTake, Flagged
<1>4. CASE ProcIdle(g) \/ ProcKeep(g) \/ ProcRateLimit(g) \/ ProcSubmit(g) \/ ProcStoreMapping(g)
  BY <1>4 DEF ProcIdle, ProcKeep, ProcRateLimit, ProcSubmit, ProcStoreMapping, Flagged, flags
<1>5. CASE \/ ProcExit(g) \/ ProcNotReady(g) \/ ProcSubmitFails(g) \/ ProcFinish(g)
           \/ ProcMappingDone(g) \/ ProcConnectionError(g) \/ ProcCancelled(g)
  <2>1. cur' = [cur EXCEPT ![g] = None]
    BY <1>5 DEF ProcExit, ProcNotReady, ProcSubmitFails, ProcFinish, ProcMappingDone,
                ProcConnectionError, ProcCancelled, Resolve, Requeue
  <2> QED BY <1>1, <1>2, <2>1 DEF Flagged
<1> QED BY <1>3, <1>4, <1>5 DEF Processor

\* So does every step.
LEMMA FlaggedNext ==
    ASSUME QueueInv, RestartInv, Flagged, [Next]_vars
    PROVE  Flagged'
<1>1. ASSUME NEW onLoop \in BOOLEAN, Start(onLoop) \/ StopBegin(onLoop) PROVE Flagged'
  BY <1>1 DEF Start, StopBegin, flags, Flagged
<1>2. CASE ResetFailedStopState \/ EnsureFromMain \/ DrainCall \/ DrainPoll \/ SetReady \/ Tick \/ UNCHANGED vars
  <2>1. UNCHANGED <<cur, hasCurrent>>
    BY <1>2 DEF ResetFailedStopState, EnsureFromMain, DrainCall, DrainPoll, SetReady, Tick, vars, flags
  <2> QED BY <2>1 DEF Flagged
<1>3. ASSUME NEW m \in Msgs, Enqueue(m) PROVE Flagged'
  BY <1>3 DEF Enqueue, EnqueueEnsure, EnqueueLocked, EnqueueRetry, flags, Flagged
<1>4. ASSUME NEW g \in Gens, Processor(g) PROVE Flagged' BY <1>4, FlaggedProcessor
<1>5. ASSUME NEW g \in Gens, Worker(g) PROVE Flagged'
  BY <1>5 DEF Worker, JobRun, JobFinish, flags, Flagged
<1>6. ASSUME NEW s \in Gens, Stopper(s) PROVE Flagged'
  <2>1. CASE \/ StopToShutdown(s) \/ StopToFinal(s) \/ RunCancelHandler(s) \/ OnTaskDone(s)
             \/ ExecutorShutdown(s) \/ ExecutorJoined(s)
             \/ TaskWaitEnds(s) \/ ExecWaitEnds(s) \/ MarkStopFailed(s)
    BY <2>1 DEF StopToShutdown, StopToFinal, RunCancelHandler, OnTaskDone, ExecutorShutdown,
                ExecutorJoined, TaskWaitEnds, ExecWaitEnds, MarkStopFailed, OtherThanStop, flags, Flagged
  <2>2. ASSUME NEW who \in {"task", "exec", "stop"}, FinalizeStopState(s, who) PROVE Flagged'
    <3>1. cur' = cur /\ (hasCurrent' \/ ~hasCurrent \/
             (stop[s].taskClean /\ stop[s].task # 0 /\ processorTask = stop[s].task))
      BY <2>2 DEF FinalizeStopState, CleanupComplete
    <3>2. ASSUME stop[s].taskClean, stop[s].task # 0, processorTask = stop[s].task
          PROVE  \A g \in Gens : cur[g] = None
      <4>1. processorTask = s
        <5>1. stop[s] # NoStop BY <3>2 DEF NoStop
        <5> QED BY <3>2, <5>1 DEF RestartInv, Stops
      <4>2. Rest(s) BY <3>2 DEF RestartInv, Stops
      <4> QED BY <4>1, <4>2 DEF RestartInv, Handles, Sends
    <3> QED BY <3>1, <3>2 DEF Flagged
  <2> QED BY <1>6, <2>1, <2>2 DEF Stopper
<1> QED BY <1>1, <1>2, <1>3, <1>4, <1>5, <1>6 DEF Next

\* A queue that looks idle to drain() has nothing on its way.
LEMMA IdleMeansSettled ==
    ASSUME QueueInv, Flagged, queue = <<>>, ~hasCurrent
    PROVE  Pending = {}
<1> SUFFICES ASSUME NEW m \in Msgs, m \in Pending PROVE FALSE BY DEF Pending
<1>1. \/ \E i \in 1..Len(queue) : queue[i] = m
      \/ \E g \in Gens : cur[g] = m
  BY DEF QueueInv, Conservation
<1>2. \A g \in Gens : cur[g] # m BY QueueAssumption DEF Flagged
<1>3. 1..Len(queue) = {} OBVIOUS
<1> QED BY <1>1, <1>2, <1>3

\* An accepted message is never pending again.
LEMMA SettledStays ==
    ASSUME QueueInv, [Next]_vars, NEW m \in Msgs, enq[m] = "accepted"
    PROVE  enq'[m] = "accepted" /\ (out'[m] = "pending" => out[m] = "pending")
<1> USE DEF QueueInv, TypeOK
<1>1. ASSUME NEW onLoop \in BOOLEAN, Start(onLoop) \/ StopBegin(onLoop) PROVE UNCHANGED <<enq, out>>
  BY <1>1 DEF Start, StopBegin, history
<1>2. CASE ResetFailedStopState \/ EnsureFromMain \/ DrainCall \/ DrainPoll \/ SetReady \/ Tick \/ UNCHANGED vars
  BY <1>2 DEF ResetFailedStopState, EnsureFromMain, DrainCall, DrainPoll, SetReady, Tick, vars, history
<1>3. ASSUME NEW n \in Msgs, Enqueue(n) PROVE enq'[m] = "accepted" /\ out' = out
  BY <1>3 DEF Enqueue, EnqueueEnsure, EnqueueLocked, EnqueueRetry, Append_, Answer, history
<1>4. ASSUME NEW g \in Gens, Processor(g) PROVE enq' = enq /\ (out'[m] = "pending" => out[m] = "pending")
  <2>1. CASE \/ ProcIdle(g) \/ ProcTake(g) \/ ProcKeep(g) \/ ProcRateLimit(g) \/ ProcSubmit(g) \/ ProcStoreMapping(g)
    BY <2>1 DEF ProcIdle, ProcTake, ProcKeep, ProcRateLimit, ProcSubmit, ProcStoreMapping, history
  <2>2. CASE ProcNotReady(g) \/ ProcConnectionError(g)
    BY <2>2 DEF ProcNotReady, ProcConnectionError, Requeue
  <2>3. CASE \/ ProcExit(g) \/ ProcSubmitFails(g) \/ ProcFinish(g) \/ ProcMappingDone(g) \/ ProcCancelled(g)
    <3>1. enq' = enq /\ \E o \in {"shutdown", "failed", "sent", "nil"} : Resolve(g, o)
      BY <2>3 DEF ProcExit, ProcSubmitFails, ProcFinish, ProcMappingDone, ProcCancelled
    <3> QED BY <3>1 DEF Resolve
  <2> QED BY <1>4, <2>1, <2>2, <2>3 DEF Processor
<1>5. ASSUME NEW g \in Gens, Worker(g) PROVE UNCHANGED <<enq, out>> BY <1>5 DEF Worker, JobRun, JobFinish
<1>6. ASSUME NEW s \in Gens, Stopper(s) PROVE UNCHANGED <<enq, out>>
  BY <1>6 DEF Stopper, StopToShutdown, StopToFinal, RunCancelHandler, OnTaskDone, ExecutorShutdown,
              ExecutorJoined, TaskWaitEnds, ExecWaitEnds, MarkStopFailed, FinalizeStopState,
              OtherThanStop, history
<1> QED BY <1>1, <1>2, <1>3, <1>4, <1>5, <1>6 DEF Next

\* Only drain() itself changes what it watches and answers.
LEMMA DrainInvNext ==
    ASSUME QueueInv, RestartInv, DrainInv, [Next]_vars
    PROVE  DrainInv'
<1> USE DEF DrainInv
<1>1. Flagged' BY FlaggedNext
<1>2. CASE drain' = drain
  <2>1. Watched' BY <1>2, SettledStays DEF Watched, QueueInv, TypeOK
  <2>2. DrainSound'
    <3> SUFFICES ASSUME drain.pc = "true", NEW m \in drain.watch, m \in Pending' PROVE FALSE
      BY <1>2 DEF DrainSound
    <3>1. m \in Msgs /\ enq[m] = "accepted" BY DEF Watched, QueueInv, TypeOK
    <3>2. m \in Pending BY <3>1, SettledStays DEF Pending
    <3> QED BY <3>2 DEF DrainSound
  <2> QED BY <1>1, <2>1, <2>2
<1>3. CASE DrainCall \/ DrainPoll
  <2>1. UNCHANGED <<enq, out>> BY <1>3 DEF DrainCall, DrainPoll, history
  <2>2. PICK turn \in DrainTurn : drain'.pc = turn /\ drain'.watch \in {Pending, drain.watch}
    BY <1>3 DEF DrainCall, DrainPoll, QueueInv, TypeOK
  <2>3. Watched' BY <2>1, <2>2 DEF Watched, Pending
  <2>4. turn = "true" => queue = <<>> /\ ~hasCurrent BY DEF DrainTurn
  <2>5. turn = "true" => Pending = {} BY <2>4, IdleMeansSettled
  <2>6. Pending' = Pending BY <2>1 DEF Pending
  <2>7. DrainSound' BY <2>2, <2>5, <2>6 DEF DrainSound
  <2> QED BY <1>1, <2>3, <2>7
<1>4. drain' = drain \/ DrainCall \/ DrainPoll
  <2>1. ASSUME NEW onLoop \in BOOLEAN, Start(onLoop) \/ StopBegin(onLoop) PROVE drain' = drain
    BY <2>1 DEF Start, StopBegin
  <2>2. CASE ResetFailedStopState \/ EnsureFromMain \/ SetReady \/ Tick \/ UNCHANGED vars
    BY <2>2 DEF ResetFailedStopState, EnsureFromMain, SetReady, Tick, vars
  <2>3. ASSUME NEW m \in Msgs, Enqueue(m) PROVE drain' = drain
    BY <2>3 DEF Enqueue, EnqueueEnsure, EnqueueLocked, EnqueueRetry
  <2>4. ASSUME NEW g \in Gens, Processor(g) PROVE drain' = drain
    BY <2>4 DEF Processor, ProcExit, ProcIdle, ProcTake, ProcKeep, ProcRateLimit, ProcNotReady,
         ProcSubmit, ProcSubmitFails, ProcStoreMapping, ProcFinish, ProcMappingDone,
         ProcConnectionError, ProcCancelled
  <2>5. ASSUME NEW g \in Gens, Worker(g) PROVE drain' = drain
    BY <2>5 DEF Worker, JobRun, JobFinish
  <2>6. ASSUME NEW s \in Gens, Stopper(s) PROVE drain' = drain
    BY <2>6 DEF Stopper, StopToShutdown, StopToFinal, RunCancelHandler, OnTaskDone, ExecutorShutdown,
         ExecutorJoined, TaskWaitEnds, ExecWaitEnds, MarkStopFailed, FinalizeStopState, OtherThanStop
  <2> QED BY <2>1, <2>2, <2>3, <2>4, <2>5, <2>6 DEF Next
<1> QED BY <1>2, <1>3, <1>4

\* drain() answers True only when every message accepted before the call is settled, also
\* across a stop() and a restart (drain(), _process_queue(), _finalize_stop_state()).
THEOREM DrainIsSound ==
    ASSUME MaxGen <= 2
    PROVE  Spec => []DrainSound
<1>1. Init => QueueInv /\ RestartInv /\ DrainInv
  <2>1. Init => DrainInv BY DEF Init, DrainInv, Flagged, Watched, DrainSound
  <2> QED BY <2>1, QueueInvInit, RestartInvInit
<1>2. QueueInv /\ RestartInv /\ DrainInv /\ [Next]_vars => (QueueInv /\ RestartInv /\ DrainInv)'
  BY QueueInvNext, RestartInvNext, DrainInvNext
<1> QED BY <1>1, <1>2, PTL DEF Spec, DrainInv

-----------------------------------------------------------------------------
(* The promise of Outbox *)

\* The accepted messages are numbered in their order.
Numbered ==
    /\ \A m \in Msgs : acc[m] \in 0..count /\ (acc[m] # 0 <=> enq[m] = "accepted")
    /\ \A m, n \in Msgs : acc[m] = acc[n] /\ acc[m] # 0 => m = n
    /\ \A i \in 1..count : \E m \in Msgs : acc[m] = i

\* The queue is in that order, behind the message a processor has.
Sorted ==
    /\ \A i, j \in 1..Len(queue) : i < j => acc[queue[i]] < acc[queue[j]]
    /\ \A g \in Gens : cur[g] # None => \A i \in 1..Len(queue) : acc[cur[g]] < acc[queue[i]]

\* The send function of the current message was run and has met no connection error.
Sending(g) == \/ pc[g] = "mapping"
              \/ pc[g] = "sending" /\ job[g].st \in {"run", "ok", "nil", "err"}

\* What generation g has on the air.
AirOf(g) ==
    /\ pc[g] = "sending" => job[g].st # "idle" /\ job[g].m = cur[g]
    /\ job[g].st = "queued" => cool = 0
    /\ cur[g] # None => tx[cur[g]] = IF Sending(g) THEN errs[cur[g]] + 1 ELSE errs[cur[g]]

\* Nothing else is on the air.
Airtime ==
    /\ \A g \in Gens : AirOf(g)
    /\ \A i \in 1..Len(queue) : tx[queue[i]] = errs[queue[i]]
    /\ \A m \in Msgs : enq[m] # "accepted" => tx[m] = errs[m]

PromiseInv == Numbered /\ Sorted /\ Airtime

\* What every step of the queue does: it keeps the invariant and is a step of Outbox.
Kept == PromiseInv' /\ [Promise!Next]_(Promise!vars)

\* The order is the inverse of the numbers.
LEMMA OrderIsInverse ==
    ASSUME Numbered, count \in Nat
    PROVE  /\ DOMAIN AcceptOrder = 1..count
           /\ \A i \in 1..count : AcceptOrder[i] \in Msgs /\ acc[AcceptOrder[i]] = i
           /\ \A m \in Msgs : acc[m] # 0 => acc[m] \in 1..count /\ AcceptOrder[acc[m]] = m
<1>1. DOMAIN AcceptOrder = 1..count BY DEF AcceptOrder
<1>2. \A i \in 1..count : AcceptOrder[i] \in Msgs /\ acc[AcceptOrder[i]] = i
  <2> SUFFICES ASSUME NEW i \in 1..count PROVE AcceptOrder[i] \in Msgs /\ acc[AcceptOrder[i]] = i
    OBVIOUS
  <2>1. \E m \in Msgs : acc[m] = i BY DEF Numbered
  <2>2. AcceptOrder[i] = CHOOSE m \in Msgs : acc[m] = i BY DEF AcceptOrder
  <2> QED BY <2>1, <2>2
<1>3. \A m \in Msgs : acc[m] # 0 => acc[m] \in 1..count BY DEF Numbered
<1>4. \A m \in Msgs : acc[m] # 0 => AcceptOrder[acc[m]] = m
  <2> SUFFICES ASSUME NEW m \in Msgs, acc[m] # 0 PROVE AcceptOrder[acc[m]] = m OBVIOUS
  <2>1. AcceptOrder[acc[m]] \in Msgs /\ acc[AcceptOrder[acc[m]]] = acc[m] BY <1>2, <1>3
  <2> QED BY <2>1 DEF Numbered
<1> QED BY <1>1, <1>2, <1>3, <1>4

\* The numbers depend on nothing else.
LEMMA NumberedFrame ==
    ASSUME Numbered, UNCHANGED <<acc, count>>,
           \A m \in Msgs : enq'[m] = "accepted" <=> enq[m] = "accepted"
    PROVE  Numbered' /\ AcceptOrder' = AcceptOrder
BY DEF Numbered, AcceptOrder

\* A new number for a message that has none: it is appended to the order.
LEMMA NumberedAppend ==
    ASSUME QueueInv, Numbered, NEW m \in Msgs, enq[m] # "accepted", Append_(m)
    PROVE  /\ Numbered'
           /\ AcceptOrder' = Append(AcceptOrder, m)
           /\ \A i \in DOMAIN AcceptOrder : AcceptOrder[i] # m
<1> USE DEF QueueInv
<1>1. count \in Nat /\ count' = count + 1 /\ acc[m] = 0
  BY DEF TypeOK, Append_, Numbered
<1>2. \A n \in Msgs : /\ acc'[n] = IF n = m THEN count + 1 ELSE acc[n]
                      /\ enq'[n] = IF n = m THEN "accepted" ELSE enq[n]
  BY DEF TypeOK, Append_
<1>3. \A n \in Msgs : acc[n] \in 0..count /\ acc[n] # count + 1 BY <1>1 DEF Numbered
<1>4. Numbered'
  <2>1. \A n \in Msgs : acc'[n] \in 0..count' /\ (acc'[n] # 0 <=> enq'[n] = "accepted")
    <3> SUFFICES ASSUME NEW n \in Msgs
                 PROVE  acc'[n] \in 0..count' /\ (acc'[n] # 0 <=> enq'[n] = "accepted")
      OBVIOUS
    <3>1. CASE n = m BY <3>1, <1>1, <1>2
    <3>2. CASE n # m BY <3>2, <1>1, <1>2, <1>3 DEF Numbered
    <3> QED BY <3>1, <3>2
  <2>2. \A n, k \in Msgs : acc'[n] = acc'[k] /\ acc'[n] # 0 => n = k
    BY <1>1, <1>2, <1>3 DEF Numbered
  <2>3. \A i \in 1..count' : \E n \in Msgs : acc'[n] = i
    <3> SUFFICES ASSUME NEW i \in 1..count' PROVE \E n \in Msgs : acc'[n] = i OBVIOUS
    <3>1. CASE i = count + 1 BY <3>1, <1>2
    <3>2. CASE i # count + 1
      <4>1. i \in 1..count BY <3>2, <1>1
      <4>2. PICK n \in Msgs : acc[n] = i BY <4>1 DEF Numbered
      <4>3. n # m BY <4>1, <4>2, <1>1
      <4> QED BY <4>2, <4>3, <1>2
    <3> QED BY <3>1, <3>2
  <2> QED BY <2>1, <2>2, <2>3 DEF Numbered
<1>5. /\ DOMAIN AcceptOrder = 1..count
      /\ \A i \in 1..count : AcceptOrder[i] \in Msgs /\ acc[AcceptOrder[i]] = i
  BY <1>1, OrderIsInverse
<1>6. \A i \in 1..count : AcceptOrder[i] # m BY <1>1, <1>5
<1>7. /\ DOMAIN AcceptOrder' = 1..count + 1
      /\ \A i \in 1..count + 1 : AcceptOrder'[i] = CHOOSE n \in Msgs : acc'[n] = i
      /\ AcceptOrder' = [i \in 1..count + 1 |-> AcceptOrder'[i]]
  BY <1>1 DEF AcceptOrder
<1>8. \A i \in 1..count + 1 : AcceptOrder'[i] = IF i = count + 1 THEN m ELSE AcceptOrder[i]
  <2> SUFFICES ASSUME NEW i \in 1..count + 1
               PROVE  AcceptOrder'[i] = IF i = count + 1 THEN m ELSE AcceptOrder[i]
    OBVIOUS
  <2>1. AcceptOrder'[i] \in Msgs /\ acc'[AcceptOrder'[i]] = i
    <3>1. \E n \in Msgs : acc'[n] = i BY <1>1, <1>4 DEF Numbered
    <3>2. AcceptOrder'[i] = CHOOSE n \in Msgs : acc'[n] = i BY <1>7
    <3> QED BY <3>1, <3>2
  <2>2. \A n, k \in Msgs : acc'[n] = acc'[k] /\ acc'[n] # 0 => n = k BY <1>4 DEF Numbered
  <2>3. CASE i = count + 1
    <3>1. acc'[m] = i BY <2>3, <1>2
    <3>2. i # 0 BY <1>1
    <3> QED BY <2>1, <2>2, <2>3, <3>1, <3>2
  <2>4. CASE i # count + 1
    <3>1. i \in 1..count /\ i # 0 BY <2>4, <1>1
    <3>2. AcceptOrder[i] \in Msgs /\ acc'[AcceptOrder[i]] = i BY <3>1, <1>2, <1>5, <1>6
    <3> QED BY <2>1, <2>2, <2>4, <3>1, <3>2
  <2> QED BY <2>3, <2>4
<1>9. AcceptOrder \in Seq(Msgs) /\ Len(AcceptOrder) = count
  <2>1. AcceptOrder \in [1..count -> Msgs] BY <1>5 DEF AcceptOrder
  <2> QED BY <1>1, <2>1
<1>10. AcceptOrder' = Append(AcceptOrder, m)
  BY <1>1, <1>7, <1>8, <1>9
<1> QED BY <1>4, <1>5, <1>6, <1>10

\* The message a processor has is the first accepted one that is not settled.
LEMMA CurrentInTurn ==
    ASSUME QueueInv, RestartInv, PromiseInv, NEW g \in Gens, cur[g] # None
    PROVE  cur[g] \in Msgs /\ enq[cur[g]] = "accepted" /\ Promise!InTurn(cur[g])
<1> DEFINE m == cur[g]
<1> USE DEF QueueInv, PromiseInv
<1>1. m \in Msgs /\ m \in Pending BY DEF TypeOK, Conservation
<1>2. enq[m] = "accepted" /\ out[m] = "pending" BY <1>1 DEF Pending
<1>3. count \in Nat BY DEF TypeOK
<1>4. acc[m] # 0 BY <1>1, <1>2 DEF Numbered
<1>5. acc[m] \in 1..count /\ AcceptOrder[acc[m]] = m BY <1>1, <1>3, <1>4, OrderIsInverse
<1>6. \A j \in 1..acc[m]-1 : out[AcceptOrder[j]] # "pending"
  <2> SUFFICES ASSUME NEW j \in 1..acc[m]-1, out[AcceptOrder[j]] = "pending" PROVE FALSE OBVIOUS
  <2> DEFINE n == AcceptOrder[j]
  <2>1. j \in 1..count /\ j < acc[m] /\ j # 0 BY <1>3, <1>5
  <2>2. n \in Msgs /\ acc[n] = j BY <1>3, <2>1, OrderIsInverse
  <2> HIDE DEF n
  <2>3. n \in Pending BY <2>1, <2>2 DEF Numbered, Pending, n
  <2>4. CASE \E i \in 1..Len(queue) : queue[i] = n
    <3>1. acc[m] < acc[n] BY <2>4 DEF Sorted
    <3> QED BY <1>3, <1>5, <2>1, <2>2, <3>1
  <2>5. ASSUME NEW h \in Gens, cur[h] = n PROVE FALSE
    <3>1. ~Rest(g) BY DEF RestartInv, Sends
    <3>2. h = g BY <2>2, <2>5, <3>1, OneHolder, QueueAssumption
    <3> QED BY <2>1, <2>2, <2>5, <3>2, <1>3, <1>5
  <2> QED BY <2>2, <2>3, <2>4, <2>5 DEF Conservation
<1>7. DOMAIN AcceptOrder = 1..count BY <1>3, OrderIsInverse
<1> QED BY <1>1, <1>2, <1>5, <1>6, <1>7 DEF Promise!InTurn

\* Steps that change nothing Outbox can see.
LEMMA KeptFrame ==
    ASSUME PromiseInv, UNCHANGED <<queue, cur, acc, count, out, tx, errs, cool, job>>,
           \A m \in Msgs : enq'[m] = "accepted" <=> enq[m] = "accepted",
           \A g \in Gens : pc'[g] = pc[g] \/ {pc[g], pc'[g]} \cap {"sending", "mapping"} = {}
    PROVE  Kept
<1> USE DEF PromiseInv
<1>1. Numbered' /\ AcceptOrder' = AcceptOrder BY NumberedFrame
<1>2. Sorted' BY DEF Sorted
<1>3. \A g \in Gens : (pc'[g] = "sending" => pc[g] = "sending") /\ (Sending(g)' <=> Sending(g))
  BY DEF Sending
<1>4. Airtime' BY <1>3 DEF Airtime, AirOf
<1>5. UNCHANGED Promise!vars BY <1>1 DEF Promise!vars
<1> QED BY <1>1, <1>2, <1>4, <1>5 DEF Kept

\* shutdown() cancels a send function that has not begun.
LEMMA KeptShutdown ==
    ASSUME QueueInv, PromiseInv, NEW s \in Gens, ExecutorShutdown(s)
    PROVE  Kept
<1> USE DEF PromiseInv
<1>1. UNCHANGED <<queue, cur, acc, count, out, tx, errs, cool, pc, enq>>
  BY DEF ExecutorShutdown, history
<1>2. \A g \in Gens : \/ job'[g] = job[g]
                      \/ job[g].st = "queued" /\ job'[g].st = "cancelled" /\ job'[g].m = job[g].m
  <2> SUFFICES ASSUME NEW g \in Gens
               PROVE  \/ job'[g] = job[g]
                      \/ job[g].st = "queued" /\ job'[g].st = "cancelled" /\ job'[g].m = job[g].m
    OBVIOUS
  <2>1. job[g] \in JobRecord BY DEF QueueInv, TypeOK
  <2>2. \/ job'[g] = job[g]
        \/ job[g].st = "queued" /\ job'[g] = [job[g] EXCEPT !.st = "cancelled"]
    BY DEF ExecutorShutdown
  <2> QED BY <2>1, <2>2 DEF JobRecord
<1>3. Numbered' /\ AcceptOrder' = AcceptOrder BY <1>1, NumberedFrame
<1>4. Sorted' BY <1>1 DEF Sorted
<1>5. \A g \in Gens : AirOf(g)'
  <2> SUFFICES ASSUME NEW g \in Gens PROVE AirOf(g)' OBVIOUS
  <2>1. AirOf(g) BY DEF Airtime
  <2>2. Sending(g)' <=> Sending(g) BY <1>1, <1>2 DEF Sending
  <2> QED BY <1>1, <1>2, <2>1, <2>2 DEF AirOf
<1>6. Airtime' BY <1>1, <1>5 DEF Airtime
<1>7. UNCHANGED Promise!vars BY <1>1, <1>3 DEF Promise!vars
<1> QED BY <1>3, <1>4, <1>6, <1>7 DEF Kept

\* enqueue() that answers True: Accept.
LEMMA KeptAppend ==
    ASSUME QueueInv, PromiseInv, NEW m \in Msgs, enq[m] # "accepted", Append_(m),
           UNCHANGED <<cur, out, tx, errs, cool, job, pc>>
    PROVE  Kept
<1> USE DEF QueueInv, PromiseInv
<1>1. /\ Numbered' /\ AcceptOrder' = Append(AcceptOrder, m)
      /\ \A i \in DOMAIN AcceptOrder : AcceptOrder[i] # m
  BY NumberedAppend
<1>2. Promise!Accept(m) BY <1>1 DEF Promise!Accept, Promise!Accepted
<1>3. /\ Len(queue) \in Nat /\ Len(queue') = Len(queue) + 1
      /\ \A i \in 1..Len(queue) : queue'[i] = queue[i] /\ queue[i] \in Msgs
      /\ queue'[Len(queue) + 1] = m
  BY DEF TypeOK, Append_
<1>4. \A i \in 1..Len(queue') : i \in 1..Len(queue) \/ i = Len(queue) + 1 BY <1>3
<1>5. /\ \A n \in Msgs : acc'[n] = IF n = m THEN count + 1 ELSE acc[n]
      /\ \A n \in Msgs : enq'[n] = IF n = m THEN "accepted" ELSE enq[n]
      /\ \A n \in Msgs : acc[n] \in Nat /\ acc[n] < count + 1
      /\ count \in Nat
  BY DEF TypeOK, Append_, Numbered
<1>6. m \notin Pending BY DEF Pending
<1>7. /\ \A i \in 1..Len(queue) : queue[i] # m
      /\ \A g \in Gens : cur[g] # m
  BY <1>6 DEF Conservation
<1>8. Sorted'
  <2>1. \A i, j \in 1..Len(queue') : i < j => acc'[queue'[i]] < acc'[queue'[j]]
    <3> SUFFICES ASSUME NEW i \in 1..Len(queue'), NEW j \in 1..Len(queue'), i < j
                 PROVE  acc'[queue'[i]] < acc'[queue'[j]]
      OBVIOUS
    <3>1. i \in 1..Len(queue) BY <1>3
    <3>2. acc'[queue'[i]] = acc[queue[i]] BY <3>1, <1>3, <1>5, <1>7
    <3>3. CASE j = Len(queue) + 1 BY <3>1, <3>2, <3>3, <1>3, <1>5
    <3>4. CASE j \in 1..Len(queue)
      <4>1. acc'[queue'[j]] = acc[queue[j]] BY <3>4, <1>3, <1>5, <1>7
      <4> QED BY <3>1, <3>2, <3>4, <4>1 DEF Sorted
    <3> QED BY <1>4, <3>3, <3>4
  <2>2. ASSUME NEW g \in Gens, cur[g] # None, NEW i \in 1..Len(queue')
        PROVE  acc'[cur[g]] < acc'[queue'[i]]
    <3>1. cur[g] \in Msgs /\ cur[g] # m BY <2>2, <1>7 DEF TypeOK
    <3>2. acc'[cur[g]] = acc[cur[g]] BY <3>1, <1>5
    <3>3. CASE i = Len(queue) + 1 BY <3>1, <3>2, <3>3, <1>3, <1>5
    <3>4. CASE i \in 1..Len(queue)
      <4>1. acc'[queue'[i]] = acc[queue[i]] BY <3>4, <1>3, <1>5, <1>7
      <4> QED BY <2>2, <3>2, <3>4, <4>1 DEF Sorted
    <3> QED BY <1>4, <3>3, <3>4
  <2> QED BY <2>1, <2>2 DEF Sorted
<1>9. Airtime'
  <2>1. \A g \in Gens : AirOf(g)' BY DEF Airtime, AirOf, Sending
  <2>2. \A i \in 1..Len(queue') : tx[queue'[i]] = errs[queue'[i]]
    BY <1>3, <1>4 DEF Airtime
  <2>3. \A n \in Msgs : enq'[n] # "accepted" => tx[n] = errs[n] BY <1>5 DEF Airtime
  <2> QED BY <2>1, <2>2, <2>3 DEF Airtime
<1> QED BY <1>1, <1>2, <1>8, <1>9 DEF Kept, Promise!Next

\* With a processor of g at work no other generation has anything on the air.
LEMMA OthersRest ==
    ASSUME QueueInv, RestartInv, NEW g \in Gens, ~Rest(g) \/ job[g].st # "idle"
    PROVE  \A h \in Gens \ {g} : cur[h] = None /\ pc[h] # "sending" /\ job[h].st = "idle"
<1> USE DEF QueueInv, RestartInv
<1>1. gen \in Nat /\ Gens \subseteq Nat BY QueueAssumption DEF TypeOK, Gens
<1>2. g = gen BY <1>1 DEF Generations, Rest
<1> SUFFICES ASSUME NEW h \in Gens, h # g
             PROVE  cur[h] = None /\ pc[h] # "sending" /\ job[h].st = "idle"
  OBVIOUS
<1>3. h \in Nat /\ h # gen BY <1>1, <1>2
<1>4. h < gen \/ h > gen BY <1>1, <1>3
<1> QED BY <1>4 DEF Generations, Sends, Rest

\* A step of generation g only has to account for what g has on the air.
LEMMA AirtimeOf ==
    ASSUME QueueInv, RestartInv, NEW g \in Gens, ~Rest(g) \/ job[g].st # "idle",
           \A h \in Gens \ {g} : cur'[h] = cur[h] /\ pc'[h] = pc[h] /\ job'[h] = job[h],
           AirOf(g)',
           \A i \in 1..Len(queue') : tx'[queue'[i]] = errs'[queue'[i]],
           \A m \in Msgs : enq'[m] # "accepted" => tx'[m] = errs'[m]
    PROVE  Airtime'
<1>1. \A h \in Gens \ {g} : cur'[h] = None /\ pc'[h] # "sending" /\ job'[h].st = "idle"
  BY OthersRest
<1>2. \A h \in Gens \ {g} : AirOf(h)' BY <1>1 DEF AirOf
<1> QED BY <1>2 DEF Airtime

\* popleft(): a stutter of Outbox.
LEMMA KeptTake ==
    ASSUME QueueInv, RestartInv, PromiseInv, NEW g \in Gens, ProcTake(g)
    PROVE  Kept
<1> USE DEF QueueInv, PromiseInv
<1>1. /\ pc[g] \in {"top", "start", "sleep"} /\ cur[g] = None /\ queue # <<>>
      /\ UNCHANGED <<enq, acc, count, out, tx, errs, cool, job>>
      /\ queue' = Tail(queue) /\ cur' = [cur EXCEPT ![g] = Head(queue)]
      /\ \E w \in {"checked", "sleep"} : pc' = [pc EXCEPT ![g] = w]
  BY DEF ProcTake, AtTop, history, Goto
<1>2. ~Rest(g) BY <1>1 DEF Rest
<1>3. /\ Len(queue) \in Nat \ {0} /\ Len(queue') = Len(queue) - 1
      /\ \A i \in 1..Len(queue') : queue'[i] = queue[i + 1] /\ i + 1 \in 1..Len(queue)
      /\ Head(queue) = queue[1] /\ 1 \in 1..Len(queue) /\ queue[1] \in Msgs
  BY <1>1 DEF TypeOK
<1>4. /\ cur'[g] = queue[1] /\ pc'[g] \in {"checked", "sleep"}
      /\ \A h \in Gens \ {g} : cur'[h] = cur[h] /\ pc'[h] = pc[h] /\ job'[h] = job[h]
  BY <1>1, <1>3 DEF TypeOK
<1>5. Numbered' /\ AcceptOrder' = AcceptOrder BY <1>1, NumberedFrame
<1>6. Sorted'
  <2>1. \A i, j \in 1..Len(queue') : i < j => acc[queue'[i]] < acc[queue'[j]]
    <3> SUFFICES ASSUME NEW i \in 1..Len(queue'), NEW j \in 1..Len(queue'), i < j
                 PROVE  acc[queue'[i]] < acc[queue'[j]]
      OBVIOUS
    <3>1. i + 1 < j + 1 BY <1>3
    <3> QED BY <1>3, <3>1 DEF Sorted
  <2>2. \A i \in 1..Len(queue') : acc[queue[1]] < acc[queue'[i]]
    <3> SUFFICES ASSUME NEW i \in 1..Len(queue') PROVE acc[queue[1]] < acc[queue'[i]] OBVIOUS
    <3>1. 1 < i + 1 BY <1>3
    <3> QED BY <1>3, <3>1 DEF Sorted
  <2>3. \A h \in Gens \ {g} : cur[h] = None BY <1>2, OneHolder
  <2> QED BY <1>1, <1>4, <2>1, <2>2, <2>3 DEF Sorted
<1>7. Airtime'
  <2>1. AirOf(g)'
    <3>1. tx[queue[1]] = errs[queue[1]] BY <1>3 DEF Airtime
    <3>2. job[g].st = "idle" BY <1>1 DEF RestartInv, Sends
    <3> QED BY <1>1, <1>4, <3>1, <3>2 DEF AirOf, Sending
  <2>2. \A i \in 1..Len(queue') : tx[queue'[i]] = errs[queue'[i]] BY <1>3 DEF Airtime
  <2>3. \A m \in Msgs : enq'[m] # "accepted" => tx'[m] = errs'[m] BY <1>1 DEF Airtime
  <2> QED BY <1>1, <1>2, <1>4, <2>1, <2>2, <2>3, AirtimeOf
<1>8. UNCHANGED Promise!vars BY <1>1, <1>5 DEF Promise!vars
<1> QED BY <1>5, <1>6, <1>7, <1>8 DEF Kept

\* Putting an element in front of a sequence.
LEMMA Prepend ==
    ASSUME NEW S, NEW q \in Seq(S), NEW x \in S
    PROVE  /\ Len(q) \in Nat /\ Len(<<x>> \o q) = Len(q) + 1
           /\ (<<x>> \o q)[1] = x
           /\ \A i \in 1..Len(q) : (<<x>> \o q)[i + 1] = q[i]
OBVIOUS

\* _requeue_message(): a stutter, or Settle with a full queue.
LEMMA KeptRequeue ==
    ASSUME QueueInv, RestartInv, PromiseInv, NEW g \in Gens, ProcNotReady(g) \/ ProcConnectionError(g)
    PROVE  Kept
<1> USE DEF QueueInv, PromiseInv
<1>1. /\ pc[g] \in {"checked", "ratewait", "sending"} /\ cur[g] # None
      /\ pc[g] = "sending" => job[g].st = "connErr"
      /\ Requeue(g) /\ pc' = [pc EXCEPT ![g] = "sleep"]
      /\ job' = job \/ job' = [job EXCEPT ![g] = NoJob]
      /\ UNCHANGED <<enq, acc, count, tx, errs, cool>>
  BY DEF ProcNotReady, ProcConnectionError, DelayPassed, Returned, HeldAndFresh, Goto
<1>2. ~Rest(g) BY <1>1 DEF Rest
<1>3. /\ cur'[g] = None /\ pc'[g] = "sleep" /\ job'[g].st # "queued"
      /\ \A h \in Gens \ {g} : cur'[h] = cur[h] /\ pc'[h] = pc[h] /\ job'[h] = job[h]
  <2>1. job[g].st # "queued" BY <1>1 DEF RestartInv, Sends, Rest
  <2> QED BY <1>1, <2>1 DEF TypeOK, Requeue, NoJob
<1>4. Numbered' /\ AcceptOrder' = AcceptOrder BY <1>1, NumberedFrame
<1>5. cur[g] \in Msgs /\ Promise!InTurn(cur[g]) BY <1>1, CurrentInTurn
<1>6. tx[cur[g]] = errs[cur[g]]
  BY <1>1 DEF Airtime, AirOf, Sending
<1>7. AirOf(g)' BY <1>3 DEF AirOf
<1>8. \A m \in Msgs : enq'[m] # "accepted" => tx'[m] = errs'[m] BY <1>1 DEF Airtime
<1>9. \A h \in Gens : cur'[h] = None BY <1>2, <1>3, OneHolder
<1>10. CASE Len(queue) < MaxQueue
  <2>1. /\ Len(queue) \in Nat /\ Len(queue') = Len(queue) + 1
        /\ queue'[1] = cur[g]
        /\ \A i \in 1..Len(queue) : queue'[i + 1] = queue[i]
        /\ out' = out
    <3>1. queue' = <<cur[g]>> \o queue /\ out' = out BY <1>1, <1>10 DEF Requeue
    <3>2. queue \in Seq(Msgs) BY DEF TypeOK
    <3> QED BY <1>5, <3>1, <3>2, Prepend
  <2>2. \A i \in 1..Len(queue') : i = 1 \/ (i - 1 \in 1..Len(queue) /\ queue'[i] = queue[i - 1])
    BY <2>1
  <2>3. \A i, j \in 1..Len(queue') : i < j => acc[queue'[i]] < acc[queue'[j]]
    <3> SUFFICES ASSUME NEW i \in 1..Len(queue'), NEW j \in 1..Len(queue'), i < j
                 PROVE  acc[queue'[i]] < acc[queue'[j]]
      OBVIOUS
    <3>1. j # 1 /\ i - 1 < j - 1 BY <2>1
    <3>2. j - 1 \in 1..Len(queue) /\ queue'[j] = queue[j - 1] BY <2>2, <3>1
    <3>3. CASE i = 1 BY <1>1, <2>1, <3>2, <3>3 DEF Sorted
    <3>4. CASE i # 1
      <4>1. i - 1 \in 1..Len(queue) /\ queue'[i] = queue[i - 1] BY <2>2, <3>4
      <4> QED BY <3>1, <3>2, <4>1 DEF Sorted
    <3> QED BY <3>3, <3>4
  <2>4. Sorted' BY <1>1, <1>9, <2>3 DEF Sorted
  <2>5. \A i \in 1..Len(queue') : tx'[queue'[i]] = errs'[queue'[i]]
    BY <1>1, <1>6, <2>1, <2>2 DEF Airtime
  <2>6. Airtime' BY <1>2, <1>3, <1>7, <1>8, <2>5, AirtimeOf
  <2>7. UNCHANGED Promise!vars BY <1>1, <1>4, <2>1 DEF Promise!vars
  <2> QED BY <1>4, <2>4, <2>6, <2>7 DEF Kept
<1>11. CASE ~(Len(queue) < MaxQueue)
  <2>1. queue' = queue /\ out' = [out EXCEPT ![cur[g]] = "full"] BY <1>1, <1>11 DEF Requeue
  <2>2. Sorted' BY <1>1, <1>9, <2>1 DEF Sorted
  <2>3. \A i \in 1..Len(queue') : tx'[queue'[i]] = errs'[queue'[i]] BY <1>1, <2>1 DEF Airtime
  <2>4. Airtime' BY <1>2, <1>3, <1>7, <1>8, <2>3, AirtimeOf
  <2>5. ~Promise!OnAir(cur[g]) BY <1>5, <1>6 DEF Promise!OnAir, TypeOK
  <2>6. Promise!Settle(cur[g], "full") BY <1>1, <1>4, <1>5, <2>1, <2>5 DEF Promise!Settle
  <2> QED BY <1>4, <1>5, <2>2, <2>4, <2>6 DEF Kept, Promise!Next
<1> QED BY <1>10, <1>11

\* A message leaves the processor: Settle, or a stutter when there is none.
LEMMA KeptResolve ==
    ASSUME QueueInv, RestartInv, PromiseInv, NEW g \in Gens, ~Rest(g),
           NEW o \in {"sent", "nil", "failed", "shutdown"}, Resolve(g, o),
           o \in {"sent", "nil"} => Sending(g) /\ cur[g] # None,
           cool' \in {cool, Delay}, cur[g] = None => cool' = cool,
           pc'[g] # "sending", job'[g].st # "queued",
           \A h \in Gens \ {g} : pc'[h] = pc[h] /\ job'[h] = job[h],
           UNCHANGED <<queue, enq, acc, count, tx, errs>>
    PROVE  Kept
<1> USE DEF QueueInv, PromiseInv
<1>1. cur' = [cur EXCEPT ![g] = None] /\ (cur[g] # None => out' = [out EXCEPT ![cur[g]] = o])
      /\ (cur[g] = None => out' = out)
  BY DEF Resolve
<1>2. cur'[g] = None /\ \A h \in Gens \ {g} : cur'[h] = cur[h] BY <1>1 DEF TypeOK
<1>3. Numbered' /\ AcceptOrder' = AcceptOrder BY NumberedFrame
<1>4. Sorted' BY <1>2 DEF Sorted
<1>5. Airtime'
  <2>1. AirOf(g)' BY <1>2 DEF AirOf
  <2>2. \A i \in 1..Len(queue') : tx'[queue'[i]] = errs'[queue'[i]] BY DEF Airtime
  <2>3. \A m \in Msgs : enq'[m] # "accepted" => tx'[m] = errs'[m] BY DEF Airtime
  <2> QED BY <1>2, <2>1, <2>2, <2>3, AirtimeOf
<1>6. [Promise!Next]_(Promise!vars)
  <2>1. CASE cur[g] = None BY <2>1, <1>1, <1>3 DEF Promise!vars
  <2>2. CASE cur[g] # None
    <3>1. cur[g] \in Msgs /\ Promise!InTurn(cur[g]) BY <2>2, CurrentInTurn
    <3>2. Sending(g) => Promise!OnAir(cur[g])
      <4>1. AirOf(g) BY DEF Airtime
      <4> QED BY <2>2, <3>1, <4>1 DEF AirOf, Promise!OnAir, TypeOK
    <3>3. Promise!Settle(cur[g], o) BY <2>2, <1>1, <1>3, <3>1, <3>2 DEF Promise!Settle
    <3> QED BY <3>1, <3>3 DEF Promise!Next
  <2> QED BY <2>1, <2>2
<1> QED BY <1>3, <1>4, <1>5, <1>6 DEF Kept

\* run_in_executor() and the storing of a mapping: a stutter, and Return.
LEMMA KeptSend ==
    ASSUME QueueInv, RestartInv, PromiseInv, NEW g \in Gens, ProcSubmit(g) \/ ProcStoreMapping(g)
    PROVE  Kept
<1> USE DEF QueueInv, PromiseInv
<1>1. /\ pc[g] \in {"checked", "ratewait", "sending"} /\ cur[g] # None
      /\ UNCHANGED <<queue, cur, enq, acc, count, out, tx, errs>>
  BY DEF ProcSubmit, ProcStoreMapping, DelayPassed, Returned, HeldAndFresh, history
<1>2. ~Rest(g) BY <1>1 DEF Rest
<1>3. \A h \in Gens \ {g} : cur'[h] = cur[h] /\ pc'[h] = pc[h] /\ job'[h] = job[h]
  BY <1>1 DEF TypeOK, ProcSubmit, ProcStoreMapping, Goto
<1>4. Numbered' /\ AcceptOrder' = AcceptOrder BY <1>1, NumberedFrame
<1>5. Sorted' BY <1>1 DEF Sorted
<1>6. AirOf(g) BY DEF Airtime
<1>7. /\ \A i \in 1..Len(queue') : tx'[queue'[i]] = errs'[queue'[i]]
      /\ \A m \in Msgs : enq'[m] # "accepted" => tx'[m] = errs'[m]
  BY <1>1 DEF Airtime
<1>8. CASE ProcSubmit(g)
  <2>1. /\ cool = 0 /\ cool' = cool /\ pc[g] # "sending" /\ pc[g] # "mapping" /\ pc'[g] = "sending"
        /\ job'[g] = [st |-> "queued", ex |-> executor, m |-> cur[g]]
    BY <1>8 DEF ProcSubmit, DelayPassed, Goto, TypeOK
  <2>2. job'[g].st = "queued" /\ job'[g].m = cur[g] BY <2>1
  <2>3. AirOf(g)' BY <1>1, <1>6, <2>1, <2>2 DEF AirOf, Sending
  <2>4. Airtime' BY <1>2, <1>3, <1>7, <2>3, AirtimeOf
  <2>5. UNCHANGED Promise!vars BY <1>1, <1>4, <2>1 DEF Promise!vars
  <2> QED BY <1>4, <1>5, <2>4, <2>5 DEF Kept
<1>9. CASE ProcStoreMapping(g)
  <2>1. /\ cool' = Delay /\ pc[g] = "sending" /\ job[g].st = "ok" /\ pc'[g] = "mapping"
        /\ job'[g].st = "idle"
    BY <1>9 DEF ProcStoreMapping, Returned, Goto, TypeOK, NoJob
  <2>2. AirOf(g)' BY <1>1, <1>6, <2>1 DEF AirOf, Sending
  <2>3. Airtime' BY <1>2, <1>3, <1>7, <2>2, AirtimeOf
  <2>4. cur[g] \in Msgs /\ Promise!InTurn(cur[g]) BY <1>1, CurrentInTurn
  <2>5. Promise!OnAir(cur[g]) BY <1>1, <1>6, <2>1, <2>4 DEF AirOf, Sending, Promise!OnAir, TypeOK
  <2>6. Promise!Return(cur[g]) BY <1>1, <1>4, <2>1, <2>4, <2>5 DEF Promise!Return
  <2> QED BY <1>4, <1>5, <2>3, <2>4, <2>6 DEF Kept, Promise!Next
<1> QED BY <1>8, <1>9

\* Every stretch of _process_queue().
LEMMA KeptProcessor ==
    ASSUME QueueInv, RestartInv, PromiseInv, NEW g \in Gens, Processor(g)
    PROVE  Kept
<1> USE DEF Goto
<1>r. ~Rest(g)
  BY DEF Processor, ProcExit, ProcIdle, ProcTake, ProcKeep, ProcRateLimit, ProcNotReady, ProcSubmit,
         ProcSubmitFails, ProcStoreMapping, ProcFinish, ProcMappingDone, ProcConnectionError,
         ProcCancelled, AtTop, DelayPassed, Returned, Rest, AwaitPcs
<1>j. pc[g] # "sending" => job[g].st = "idle" BY <1>r DEF RestartInv, Sends, Rest
<1>n. NoJob.st = "idle" BY DEF NoJob
<1>t. pc \in [Gens -> AwaitPcs \cup BusyPcs \cup {"none", "done"}] /\ job \in [Gens -> JobRecord]
  BY DEF QueueInv, TypeOK
<1>h. pc[g] \in {"sending", "mapping"} => cur[g] # None BY DEF QueueInv, HeldAndFresh
<1>1. CASE ProcIdle(g) \/ ProcKeep(g) \/ ProcRateLimit(g)
  <2>1. \A h \in Gens : pc'[h] = pc[h] \/ {pc[h], pc'[h]} \cap {"sending", "mapping"} = {}
    <3>1. pc[g] \in {"top", "start", "sleep", "checked"} /\ pc'[g] \in {"sleep", "checked", "ratewait"}
      BY <1>1, <1>t DEF ProcIdle, ProcKeep, ProcRateLimit, AtTop
    <3>2. \A h \in Gens \ {g} : pc'[h] = pc[h] BY <1>1, <1>t DEF ProcIdle, ProcKeep, ProcRateLimit
    <3> QED BY <3>1, <3>2
  <2>2. UNCHANGED <<queue, cur, enq, acc, count, out, tx, errs, cool, job>>
    BY <1>1 DEF ProcIdle, ProcKeep, ProcRateLimit, history
  <2> QED BY <2>1, <2>2, KeptFrame
<1>2. CASE ProcTake(g) BY <1>2, KeptTake
<1>3. CASE ProcNotReady(g) \/ ProcConnectionError(g) BY <1>3, KeptRequeue
<1>4. CASE ProcSubmit(g) \/ ProcStoreMapping(g) BY <1>4, KeptSend
<1>5. CASE ProcExit(g)
  <2>1. /\ pc[g] # "sending" /\ pc'[g] = "done" /\ Resolve(g, "shutdown")
        /\ \A h \in Gens \ {g} : pc'[h] = pc[h] /\ job'[h] = job[h]
        /\ UNCHANGED <<queue, enq, acc, count, tx, errs, cool, job>>
    BY <1>5, <1>t DEF ProcExit, AtTop
  <2> QED BY <1>r, <1>j, <2>1, KeptResolve
<1>6. CASE ProcSubmitFails(g)
  <2>1. /\ pc[g] # "sending" /\ pc'[g] = "top" /\ Resolve(g, "failed")
        /\ \A h \in Gens \ {g} : pc'[h] = pc[h] /\ job'[h] = job[h]
        /\ UNCHANGED <<queue, enq, acc, count, tx, errs, cool, job>>
    BY <1>6, <1>t DEF ProcSubmitFails, DelayPassed
  <2> QED BY <1>r, <1>j, <2>1, KeptResolve
<1>7. CASE ProcMappingDone(g)
  <2>1. /\ pc[g] = "mapping" /\ pc'[g] = "top" /\ Resolve(g, "sent")
        /\ \A h \in Gens \ {g} : pc'[h] = pc[h] /\ job'[h] = job[h]
        /\ UNCHANGED <<queue, enq, acc, count, tx, errs, cool, job>>
    BY <1>7, <1>t DEF ProcMappingDone
  <2>2. Sending(g) BY <2>1 DEF Sending
  <2> QED BY <1>r, <1>j, <1>h, <2>1, <2>2, KeptResolve
<1>8. CASE ProcFinish(g)
  <2>1. /\ pc[g] = "sending" /\ job[g].st \in {"ok", "nil", "err"}
        /\ pc'[g] = "top" /\ job'[g] = NoJob
        /\ \A h \in Gens \ {g} : pc'[h] = pc[h] /\ job'[h] = job[h]
        /\ UNCHANGED <<queue, enq, acc, count, tx, errs>>
        /\ cool' \in {cool, Delay}
    BY <1>8, <1>t DEF ProcFinish, Returned
  <2>2. PICK o \in {"sent", "nil", "failed"} : Resolve(g, o)
    BY <1>8, <2>1 DEF ProcFinish
  <2>3. Sending(g) BY <2>1 DEF Sending
  <2> QED BY <1>r, <1>n, <1>h, <2>1, <2>2, <2>3, KeptResolve
<1>9. CASE ProcCancelled(g)
  <2>1. /\ pc'[g] = "done" /\ Resolve(g, "shutdown")
        /\ \A h \in Gens \ {g} : pc'[h] = pc[h] /\ job'[h] = job[h]
        /\ UNCHANGED <<queue, enq, acc, count, tx, errs, cool>>
        /\ job'[g].st # "queued"
    BY <1>9, <1>t, <1>n DEF ProcCancelled
  <2> QED BY <1>r, <2>1, KeptResolve
<1> QED BY <1>1, <1>2, <1>3, <1>4, <1>5, <1>6, <1>7, <1>8, <1>9 DEF Processor

\* The worker thread starts a send function, Transmit, or ends one: Fail after a connection
\* error that somebody waits for, a stutter otherwise.
LEMMA KeptWorker ==
    ASSUME QueueInv, RestartInv, PromiseInv, NEW g \in Gens, Worker(g)
    PROVE  Kept
<1> USE DEF QueueInv, PromiseInv
<1>1. /\ job[g].st \in {"queued", "run"}
      /\ UNCHANGED <<queue, cur, enq, acc, count, out, cool, pc>>
      /\ \A h \in Gens \ {g} : cur'[h] = cur[h] /\ pc'[h] = pc[h] /\ job'[h] = job[h]
  BY DEF Worker, JobRun, JobFinish, TypeOK
<1>2. Numbered' /\ AcceptOrder' = AcceptOrder BY <1>1, NumberedFrame
<1>3. Sorted' BY <1>1 DEF Sorted
<1>4. AirOf(g) BY DEF Airtime
<1>5. \/ pc[g] = "sending" /\ job[g].m = cur[g] /\ cur[g] # None
      \/ pc[g] = "done" /\ job[g].st = "run" /\ cur[g] = None
  BY <1>1, <1>4 DEF RestartInv, Sends, Rest, AirOf, HeldAndFresh
<1>6. ASSUME cur[g] # None
      PROVE  /\ cur[g] \in Msgs /\ enq[cur[g]] = "accepted" /\ Promise!InTurn(cur[g])
             /\ \A i \in 1..Len(queue) : queue[i] # cur[g] /\ queue[i] \in Msgs
  <2>1. cur[g] \in Msgs /\ enq[cur[g]] = "accepted" /\ Promise!InTurn(cur[g])
    BY <1>6, CurrentInTurn
  <2>2. queue \in Seq(Msgs) BY DEF TypeOK
  <2>3. \A i \in 1..Len(queue) : queue[i] # cur[g] BY DEF Conservation
  <2> QED BY <2>1, <2>2, <2>3
<1>7. CASE JobRun(g)
  <2>1. /\ pc[g] = "sending" /\ cur[g] # None /\ cur[g] \in Msgs /\ job[g].st = "queued"
        /\ tx' = [tx EXCEPT ![cur[g]] = @ + 1] /\ errs' = errs
    BY <1>5, <1>6, <1>7 DEF JobRun
  <2>2. job'[g].st = "run" /\ job'[g].m = job[g].m
    <3>1. job'[g] = [job[g] EXCEPT !.st = "run"] /\ job[g] \in JobRecord BY <1>7 DEF JobRun, TypeOK
    <3> QED BY <3>1 DEF JobRecord
  <2>3. tx[cur[g]] = errs[cur[g]] /\ cool = 0 BY <1>4, <2>1 DEF AirOf, Sending
  <2>4. \A m \in Msgs : tx'[m] = IF m = cur[g] THEN tx[m] + 1 ELSE tx[m] BY <2>1 DEF TypeOK
  <2>5. AirOf(g)' BY <1>1, <1>5, <2>1, <2>2, <2>3, <2>4 DEF AirOf, Sending
  <2>6. \A i \in 1..Len(queue') : tx'[queue'[i]] = errs'[queue'[i]]
    BY <1>1, <1>6, <2>1, <2>4 DEF Airtime
  <2>7. \A m \in Msgs : enq'[m] # "accepted" => tx'[m] = errs'[m]
    BY <1>1, <1>6, <2>1, <2>4 DEF Airtime
  <2>8. Airtime' BY <1>1, <2>5, <2>6, <2>7, AirtimeOf
  <2>9. ~Promise!OnAir(cur[g]) BY <2>1, <2>3 DEF Promise!OnAir, TypeOK
  <2>10. Promise!Transmit(cur[g]) BY <1>1, <1>2, <1>6, <2>1, <2>3, <2>9 DEF Promise!Transmit
  <2> QED BY <1>2, <1>3, <2>1, <2>8, <2>10 DEF Kept, Promise!Next
<1>8. ASSUME NEW r \in Results, JobFinish(g, r) PROVE Kept
  <2>1. job[g].st = "run" /\ tx' = tx BY <1>8 DEF JobFinish
  <2>2. CASE pc[g] = "done"
    <3>1. errs' = errs /\ job'[g].st = "idle" BY <1>8, <2>2 DEF JobFinish, TypeOK, NoJob
    <3>2. AirOf(g)' BY <1>1, <1>5, <2>2, <3>1 DEF AirOf
    <3>3. /\ \A i \in 1..Len(queue') : tx'[queue'[i]] = errs'[queue'[i]]
          /\ \A m \in Msgs : enq'[m] # "accepted" => tx'[m] = errs'[m]
      BY <1>1, <2>1, <3>1 DEF Airtime
    <3>4. Airtime' BY <1>1, <3>2, <3>3, AirtimeOf
    <3>5. UNCHANGED Promise!vars BY <1>1, <1>2, <2>1, <3>1 DEF Promise!vars
    <3> QED BY <1>2, <1>3, <3>4, <3>5 DEF Kept
  <2>3. CASE pc[g] = "sending"
    <3>1. job'[g].st = r /\ job'[g].m = job[g].m
      <4>1. job'[g] = [job[g] EXCEPT !.st = r] /\ job[g] \in JobRecord BY <1>8, <2>3 DEF JobFinish, TypeOK
      <4> QED BY <4>1 DEF JobRecord
    <3>2. /\ cur[g] \in Msgs /\ cur[g] # None /\ job[g].m = cur[g]
          /\ tx[cur[g]] = errs[cur[g]] + 1 /\ errs[cur[g]] \in Nat
      BY <1>4, <1>5, <1>6, <2>1, <2>3 DEF AirOf, Sending, TypeOK
    <3>3. CASE r = "connErr"
      <4>1. errs' = [errs EXCEPT ![cur[g]] = @ + 1] BY <1>8, <2>3, <3>2, <3>3 DEF JobFinish
      <4>2. \A m \in Msgs : errs'[m] = IF m = cur[g] THEN errs[m] + 1 ELSE errs[m]
        BY <4>1 DEF TypeOK
      <4>3. AirOf(g)' BY <1>1, <2>1, <2>3, <3>1, <3>2, <3>3, <4>2 DEF AirOf, Sending
      <4>4. \A i \in 1..Len(queue') : tx'[queue'[i]] = errs'[queue'[i]]
        BY <1>1, <1>6, <2>1, <3>2, <4>2 DEF Airtime
      <4>5. \A m \in Msgs : enq'[m] # "accepted" => tx'[m] = errs'[m]
        BY <1>1, <1>6, <2>1, <3>2, <4>2 DEF Airtime
      <4>6. Airtime' BY <1>1, <4>3, <4>4, <4>5, AirtimeOf
      <4>7. Promise!OnAir(cur[g]) BY <3>2 DEF Promise!OnAir
      <4>8. Promise!Fail(cur[g]) BY <1>1, <1>2, <1>6, <2>1, <3>2, <4>1, <4>7 DEF Promise!Fail
      <4> QED BY <1>2, <1>3, <3>2, <4>6, <4>8 DEF Kept, Promise!Next
    <3>4. CASE r # "connErr"
      <4>1. errs' = errs BY <1>8, <3>4 DEF JobFinish
      <4>2. AirOf(g)' BY <1>1, <2>1, <2>3, <3>1, <3>2, <3>4, <4>1 DEF AirOf, Sending, Results
      <4>3. /\ \A i \in 1..Len(queue') : tx'[queue'[i]] = errs'[queue'[i]]
            /\ \A m \in Msgs : enq'[m] # "accepted" => tx'[m] = errs'[m]
        BY <1>1, <2>1, <4>1 DEF Airtime
      <4>4. Airtime' BY <1>1, <4>2, <4>3, AirtimeOf
      <4>5. UNCHANGED Promise!vars BY <1>1, <1>2, <2>1, <4>1 DEF Promise!vars
      <4> QED BY <1>2, <1>3, <4>4, <4>5 DEF Kept
    <3> QED BY <3>3, <3>4
  <2> QED BY <1>5, <2>2, <2>3
<1> QED BY <1>7, <1>8 DEF Worker

\* Every step.
LEMMA KeptNext ==
    ASSUME QueueInv, RestartInv, PromiseInv, [Next]_vars
    PROVE  Kept
<1>t. pc \in [Gens -> AwaitPcs \cup BusyPcs \cup {"none", "done"}]
  BY DEF QueueInv, TypeOK
<1>1. ASSUME NEW onLoop \in BOOLEAN, Start(onLoop) PROVE Kept
  <2>1. gen + 1 \in Gens /\ pc[gen + 1] = "none"
    BY <1>1, QueueAssumption DEF Start, QueueInv, RestartInv, Generations, TypeOK, Gens
  <2>2. \A g \in Gens : pc'[g] = pc[g] \/ (pc[g] = "none" /\ pc'[g] = "start")
    BY <1>1, <1>t, <2>1 DEF Start
  <2> QED BY <1>1, <2>2, KeptFrame DEF Start, history
<1>2. ASSUME NEW onLoop \in BOOLEAN, StopBegin(onLoop) PROVE Kept
  BY <1>2, KeptFrame DEF StopBegin, history
<1>3. CASE ResetFailedStopState \/ DrainCall \/ DrainPoll \/ SetReady \/ UNCHANGED vars
  <2>1. UNCHANGED <<queue, cur, acc, count, out, tx, errs, cool, job, enq, pc>>
    BY <1>3 DEF ResetFailedStopState, DrainCall, DrainPoll, SetReady, vars, history
  <2> QED BY <2>1, KeptFrame
<1>e. ASSUME NEW onLoop \in BOOLEAN, EnsureProcessorStarted(onLoop)
      PROVE  \A g \in Gens : pc'[g] = pc[g] \/ {pc[g], pc'[g]} \cap {"sending", "mapping"} = {}
  <2>1. CASE pc' = pc BY <2>1
  <2>2. CASE pc' = [pc EXCEPT ![gen] = "start"] /\ running /\ TaskInactive
    <3>1. \A g \in Gens : g = gen => Rest(g)
      BY <2>2 DEF RestartInv, Handles, TaskInactive, Inactive, Rest
    <3> QED BY <2>2, <3>1, <1>t DEF Rest
  <2> QED BY <1>e, <2>1, <2>2 DEF EnsureProcessorStarted
<1>4. CASE EnsureFromMain BY <1>4, <1>e, KeptFrame DEF EnsureFromMain, history
<1>5. ASSUME NEW m \in Msgs, Enqueue(m) PROVE Kept
  <2>t. enq \in [Msgs -> {"new", "ensured", "waiting", "accepted", "refused", "dropped"}]
    BY DEF QueueInv, TypeOK
  <2>1. ASSUME NEW onLoop \in BOOLEAN, EnqueueEnsure(m, onLoop) PROVE Kept
    <3>1. \A n \in Msgs : enq'[n] = "accepted" <=> enq[n] = "accepted"
      BY <2>1, <2>t DEF EnqueueEnsure
    <3> QED BY <2>1, <3>1, <1>e, KeptFrame DEF EnqueueEnsure, history
  <2>2. CASE EnqueueLocked(m) \/ EnqueueRetry(m)
    <3>1. /\ enq[m] # "accepted" /\ UNCHANGED <<cur, out, tx, errs, cool, job, pc>>
          /\ Append_(m) \/ \E how \in {"refused", "waiting", "dropped"} : Answer(m, how)
      BY <2>2 DEF EnqueueLocked, EnqueueRetry
    <3>2. CASE Append_(m) BY <3>1, <3>2, KeptAppend
    <3>3. ASSUME NEW how \in {"refused", "waiting", "dropped"}, Answer(m, how) PROVE Kept
      <4>1. \A n \in Msgs : enq'[n] = "accepted" <=> enq[n] = "accepted"
        BY <3>1, <3>3, <2>t DEF Answer
      <4> QED BY <3>1, <3>3, <4>1, KeptFrame DEF Answer
    <3> QED BY <3>1, <3>2, <3>3
  <2> QED BY <1>5, <2>1, <2>2 DEF Enqueue
<1>6. ASSUME NEW g \in Gens, Processor(g) \/ Worker(g) PROVE Kept
  BY <1>6, KeptProcessor, KeptWorker
<1>7. ASSUME NEW s \in Gens, Stopper(s) PROVE Kept
  <2>1. CASE ExecutorShutdown(s) BY <2>1, KeptShutdown
  <2>2. CASE ~ExecutorShutdown(s)
    <3>1. UNCHANGED <<queue, cur, acc, count, out, tx, errs, cool, job, enq, pc>>
      BY <1>7, <2>2 DEF Stopper, StopToShutdown, StopToFinal, RunCancelHandler, OnTaskDone,
           ExecutorJoined, TaskWaitEnds, ExecWaitEnds, MarkStopFailed, FinalizeStopState,
           OtherThanStop, history
    <3> QED BY <3>1, KeptFrame
  <2> QED BY <2>1, <2>2
<1>8. CASE Tick
  <2>1. UNCHANGED <<queue, cur, acc, count, out, tx, errs, job, enq, pc>> /\ cool > 0 /\ cool' = cool - 1
    BY <1>8 DEF Tick, history
  <2>2. Numbered' /\ AcceptOrder' = AcceptOrder BY <2>1, NumberedFrame DEF PromiseInv
  <2>3. Sorted' BY <2>1 DEF Sorted, PromiseInv
  <2>4. \A g \in Gens : job[g].st # "queued"
    BY <2>1 DEF PromiseInv, Airtime, AirOf, QueueInv, TypeOK
  <2>5. Airtime' BY <2>1, <2>4 DEF PromiseInv, Airtime, AirOf, Sending
  <2>6. Promise!Tick BY <2>1, <2>2 DEF Promise!Tick
  <2> QED BY <2>2, <2>3, <2>5, <2>6 DEF Kept, PromiseInv, Promise!Next
<1> QED BY <1>1, <1>2, <1>3, <1>4, <1>5, <1>6, <1>7, <1>8 DEF Next

\* MessageQueue implements Outbox, across restarts too: whatever the producers, the
\* connection, the executor and stop() do, messages are transmitted in the order enqueue()
\* accepted them, one at a time, once but for connection errors, with the delay between
\* them, and are settled once.
THEOREM QueueImplementsOutbox ==
    ASSUME MaxGen <= 2
    PROVE  Spec => ImplementsOutbox
<1>1. Init => QueueInv /\ RestartInv /\ PromiseInv /\ Promise!Init
  <2> SUFFICES ASSUME Init PROVE PromiseInv /\ Promise!Init BY QueueInvInit, RestartInvInit
  <2>1. Numbered BY DEF Init, Numbered
  <2>2. Sorted BY DEF Init, Sorted
  <2>3. Airtime BY DEF Init, Airtime, AirOf, Sending, NoJob
  <2>4. AcceptOrder = <<>> BY DEF Init, AcceptOrder
  <2> QED BY <2>1, <2>2, <2>3, <2>4 DEF PromiseInv, Promise!Init, Init
<1>2. QueueInv /\ RestartInv /\ PromiseInv /\ [Next]_vars
        => (QueueInv /\ RestartInv /\ PromiseInv)' /\ [Promise!Next]_(Promise!vars)
  BY QueueInvNext, RestartInvNext, KeptNext DEF Kept
<1> QED BY <1>1, <1>2, PTL DEF Spec, ImplementsOutbox, Promise!Spec
=============================================================================
