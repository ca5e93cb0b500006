------------------------- MODULE Application_proofs -------------------------
(***************************************************************************)
(* Theorems about the application itself.  First RelayLifecycle, the life  *)
(* of main(), for every configuration and any number of connects and       *)
(* syncs; then Migration, the move of its files into MMRELAY_HOME, for     *)
(* every layout of the files, every list of legacy roots and every number  *)
(* of runs, failures and crashes.  They share no state.                    *)
(***************************************************************************)
EXTENDS RelayLifecycle, Migration, WellFoundedInduction, TLAPS

-----------------------------------------------------------------------------
(* RelayLifecycle *)

MainPcs == {"config", "database", "plugins", "queue", "mesh", "connecting", "matrix", "rooms", "health",
            "serve", "loop", "drain", "write", "recheck", "unwrite", "wait", "backoff", "down", "ended"}
Steps == {"heartbeat", "unready", "refresh", "health", "reconnect", "plugins", "plugins_wait", "queue",
          "queue_wait", "matrix", "mesh", "wipe"}
States == {"off", "on", "stopping", "failed", "returned", "over", "crashed", "check", "touch", "pause",
           "left"}
ConnPcs == {"idle", "scheduled", "reset", "signal", "publish", "arm", "clear", "schedule", "start_failed",
            "finish", "rollback", "rollback_signal", "retry"}

MainRecord == [pc : MainPcs, todo : Seq(Steps), exc : {"none", "error", "interrupt"}, exit : {0, 1},
               kept : BOOLEAN, late : BOOLEAN]
ConnRecord == [pc : ConnPcs, pending : BOOLEAN, armed : Nat, ok : BOOLEAN]
DrainRecord == [deadline : Nat, window : {"open", "due", "passed"}, expiry : Nat, event : BOOLEAN,
                applied : BOOLEAN]

\* The types the argument needs.
Types ==
    /\ config \in [wipe : BOOLEAN, continuous : BOOLEAN, heartbeat : BOOLEAN]
    /\ main \in MainRecord
    /\ stop \in BOOLEAN /\ asked \in BOOLEAN /\ fatal \in BOOLEAN
    /\ svc \in [Services -> States]
    /\ file \in BOOLEAN /\ published \in BOOLEAN /\ rows \in BOOLEAN /\ storing \in BOOLEAN
    /\ client \in BOOLEAN /\ connects \in Nat /\ conn \in ConnRecord
    /\ drain \in DrainRecord /\ timer \in [Drains -> {"none", "waiting", "signal", "again"}] /\ packet \in BOOLEAN

\* Why the relay stops is known: somebody asked, the health task died, or main() raised.
Reasons ==
    /\ stop => asked \/ fatal \/ main.exc = "error"
    /\ main.exc = "interrupt" => asked
    /\ main.pc \notin {"down", "ended"} => main.exc = "none"
    /\ main.pc = "down" => stop
    /\ ZeroMeansAsked

\* main() has its first connection.
PastConnect ==
    main.pc \in {"matrix", "rooms", "health", "serve", "loop", "drain", "write", "recheck", "unwrite",
                 "wait", "backoff"}

\* The startup drain is over for good.
Over == drain.deadline = None /\ drain.applied /\ conn.armed = None

\* The thread that connects: what it armed, and what it knows of the drain.
Arming ==
    /\ conn.pc # "idle" \/ client => connects # 0
    /\ conn.pc \in {"clear", "schedule", "start_failed"} => drain.applied /\ conn.armed # None
    /\ conn.pc = "finish" => drain.applied
    /\ conn.pc \in {"publish", "signal"} /\ ~conn.pending => drain.applied
    /\ conn.pc \in {"signal", "start_failed"} => drain.deadline = None
    /\ conn.pc \in {"reset", "signal", "publish", "arm", "idle", "scheduled"} => conn.armed = None
    /\ conn.pc = "rollback_signal" => conn.armed # None
    /\ conn.pc \in {"rollback_signal", "retry"} /\ conn.armed # None => ~drain.applied
    /\ conn.pc \notin {"idle", "scheduled"} => ~conn.ok
    /\ conn.ok => drain.applied /\ conn.armed = None

\* A drain that nobody is about to end is announced by nobody.
Draining ==
    /\ drain.deadline # None => drain.applied
    /\ conn.armed # None /\ drain.deadline # None => drain.window = "open"
    /\ drain.event /\ drain.applied /\ (conn.armed = None \/ conn.pc \in {"schedule", "finish"})
         => drain.deadline = None
    /\ packet \/ (\E d \in Drains : timer[d] = "signal") => Over

\* main() past its first connect finds the drain armed once and for all.
Announcing ==
    /\ PastConnect => drain.applied /\ conn.armed = None
    /\ published \/ main.pc \in {"write", "recheck"} => Over
    /\ svc["heartbeat"] # "off" => published
    /\ file => published \/ main.pc \in {"recheck", "unwrite"} \/ main.kept

ReadyInv == Types /\ Reasons /\ Arming /\ Draining /\ Announcing

-----------------------------------------------------------------------------
\* The steps of the shutdown that main() still has before it.
Left == {main.todo[i] : i \in 1..Len(main.todo)}

\* What a step of the shutdown has achieved when it is done, whatever goes on meanwhile.
Done(task) ==
    CASE task = "heartbeat"  -> svc["heartbeat"] = "off"
      [] task = "unready"    -> (file => main.kept) /\ svc["heartbeat"] = "off"
      [] task = "refresh"    -> svc["refresh"] = "off"
      [] task = "health"     -> svc["health"] = "off"
      [] task = "plugins"    -> svc["plugins"] \in {"off", "stopping"}
      [] task = "queue"      -> svc["queue"] \in {"off", "stopping"}
      [] task = "matrix"     -> svc["matrix"] \in {"off", "stopping", "left"}
      [] task = "mesh"       -> ~client /\ (stop \/ conn.pc = "idle")
      [] task = "wipe"       -> main.exc = "none" /\ main.exit = 0 /\ config.wipe
                                  => \/ svc["queue"] = "off" /\ svc["matrix"] = "off" /\ ~storing /\ ~rows
                                     \/ main.late
      [] OTHER               -> TRUE

StepNames == {"heartbeat", "unready", "refresh", "health", "plugins", "queue", "matrix", "mesh",
              "wipe"}

\* The steps that are not left are done; those that need another one come after it.
TakenDown ==
    /\ main.pc \in {"down", "ended"} => svc["sync"] = "off" /\ \A s \in StepNames \ Left : Done(s)
    /\ main.pc # "down" => main.todo = <<>>
    /\ \A i, j \in 1..Len(main.todo) : main.todo[i] = "heartbeat" /\ main.todo[j] = "unready" => i < j

\* What main() has brought up by when.
BroughtUp ==
    /\ main.pc \in {"config", "database"} => \A s \in Services : svc[s] = "off"
    /\ main.pc \in {"config", "database", "plugins", "queue", "mesh"} => ~client /\ conn.pc = "idle"
    /\ main.pc \in {"config", "database", "plugins", "queue", "mesh", "connecting", "matrix", "rooms",
                    "health", "serve"} => svc["refresh"] = "off" /\ ~published /\ syncs = 0
    /\ svc["matrix"] = "left" => main.pc \in {"down", "ended"} /\ main.exc # "none" /\ syncs = 0
    /\ svc["sync"] # "off" => main.pc \in {"drain", "write", "recheck", "unwrite", "wait"}
    /\ main.pc \notin {"down", "ended"} => svc["queue"] \in {"on", "off"}
    /\ main.pc # "ended" => main.exit = 0

CleanInv == ReadyInv /\ TakenDown /\ BroughtUp

-----------------------------------------------------------------------------
\* The connect, its timers, the packets and the writers of the message map: they run
\* beside main().
Beside ==
    \/ Connect \/ Timers \/ MapSent \/ MapRelayed \/ StoreRow \/ LinkLost \/ PacketEndsDrain
    \/ PacketSignals

\* What runs beside main() leaves it and its services alone.
LEMMA BesideFrame ==
    ASSUME Beside
    PROVE  UNCHANGED <<config, main, stop, asked, fatal, svc, syncs, file, published>>
<1>1. CASE Connect
  BY <1>1 DEF Connect, Reconnect, AttemptFails, ResetSession, SignalFromConnect, PublishClient, ArmDrain,
              ClearEvent, ScheduleTimer, FinishConnect, RollbackConnect, RollbackSignal, RetryConnect,
              life, ready
<1>2. CASE Timers BY <1>2 DEF Timers, TimePasses, TimerFires, TimerGoesOn, life, ready
<1>3. CASE MapSent \/ MapRelayed \/ StoreRow \/ LinkLost \/ PacketEndsDrain \/ PacketSignals
  BY <1>3 DEF MapSent, MapRelayed, StoreRow, LinkLost, PacketEndsDrain, PacketSignals, life, ready
<1> QED BY <1>1, <1>2, <1>3 DEF Beside

\* main() goes on to pc, takes a step of the shutdown, or starts one of the two ways down.
Stays(place) ==
    /\ main' \in MainRecord /\ main'.pc = place /\ main'.todo = main.todo
    /\ main'.exc = main.exc /\ main'.exit = main.exit /\ main'.kept = main.kept /\ main'.late = main.late
Stepped(task) ==
    /\ main.pc = "down" /\ main.todo # <<>> /\ Head(main.todo) = task
    /\ main' \in MainRecord /\ main'.pc = "down" /\ main'.todo = Tail(main.todo)
    /\ main'.exc = main.exc /\ main'.exit = main.exit
TurnsDown(plan, exc) ==
    /\ main' \in MainRecord /\ main'.pc = "down" /\ main'.todo = plan
    /\ main'.exc = exc /\ main'.exit = main.exit /\ main'.kept = main.kept
    /\ stop' = TRUE

\* A service changes its state.
Sets(s, v) ==
    svc' \in [Services -> States] /\ svc'[s] = v /\ \A x \in Services \ {s} : svc'[x] = svc[x]

\* The plans of the two ways down are sequences of steps.
LEMMA PlanTypes == ShutdownSteps \in Seq(Steps) /\ RollbackSteps \in Seq(Steps)
<1>1. ShutdownSteps \in Seq(Steps) BY DEF ShutdownSteps, Steps
<1>2. /\ <<"health", "reconnect", "unready", "plugins", "plugins_wait", "queue", "queue_wait", "matrix", "mesh">>
           \in Seq(Steps)
      /\ <<"health", "reconnect", "unready", "plugins", "plugins_wait", "matrix", "mesh">> \in Seq(Steps)
  BY DEF Steps
<1>3. RollbackSteps \in Seq(Steps) BY <1>2 DEF RollbackSteps
<1> QED BY <1>1, <1>3

\* main() goes on.
LEMMA ToFields ==
    ASSUME Types, NEW place \in MainPcs, To(place)
    PROVE  Stays(place)
<1> DEFINE r == [main EXCEPT !.pc = place]
<1>1. /\ r \in MainRecord /\ r.pc = place /\ r.todo = main.todo
      /\ r.exc = main.exc /\ r.exit = main.exit /\ r.kept = main.kept /\ r.late = main.late
  BY DEF Types, MainRecord
<1>2. main' = r BY DEF To
<1> HIDE DEF r
<1> QED BY <1>1, <1>2 DEF Stays

\* main() takes a step of the shutdown.
LEMMA NextFields ==
    ASSUME Types, NEW task, Head1(task), Next1
    PROVE  Stepped(task) /\ main'.kept = main.kept /\ main'.late = main.late
<1> DEFINE n == Tail(main.todo)
           r == [main EXCEPT !.todo = n]
<1>1. main.pc = "down" /\ main.todo # <<>> /\ Head(main.todo) = task BY DEF Head1
<1>2. main' = r BY DEF Next1
<1>3. n \in Seq(Steps) BY <1>1 DEF Types, MainRecord
<1> HIDE DEF n
<1>4. /\ r \in MainRecord /\ r.pc = main.pc /\ r.todo = n
      /\ r.exc = main.exc /\ r.exit = main.exit /\ r.kept = main.kept /\ r.late = main.late
  BY <1>3 DEF Types, MainRecord
<1> HIDE DEF r
<1> QED BY <1>1, <1>2, <1>4 DEF Stepped, n

\* A startup step raised: the plan of the rollback.
LEMMA RollBackFields ==
    ASSUME Types, NEW exc \in {"error", "interrupt"}, RollBack(exc)
    PROVE  TurnsDown(RollbackSteps, exc)
<1> DEFINE n == RollbackSteps
           r == [main EXCEPT !.pc = "down", !.todo = n, !.exc = exc]
<1>1. n \in Seq(Steps) BY PlanTypes
<1>2. main' = r /\ stop' = TRUE BY DEF RollBack
<1> HIDE DEF n
<1>3. /\ r \in MainRecord /\ r.pc = "down" /\ r.todo = n /\ r.exc = exc /\ r.exit = main.exit
      /\ r.kept = main.kept
  BY <1>1 DEF Types, MainRecord, MainPcs
<1> HIDE DEF r
<1> QED BY <1>2, <1>3 DEF TurnsDown, n

\* The loop is left: the plan of the shutdown.
LEMMA ShutDownFields ==
    ASSUME Types, NEW exc \in {"none", "error"}, ShutDown(exc)
    PROVE  TurnsDown(ShutdownSteps, exc)
<1> DEFINE n == ShutdownSteps
           r == [main EXCEPT !.pc = "down", !.todo = n, !.exc = exc]
<1>1. n \in Seq(Steps) BY PlanTypes
<1>2. main' = r /\ stop' = TRUE BY DEF ShutDown
<1> HIDE DEF n
<1>3. /\ r \in MainRecord /\ r.pc = "down" /\ r.todo = n /\ r.exc = exc /\ r.exit = main.exit
      /\ r.kept = main.kept
  BY <1>1 DEF Types, MainRecord, MainPcs
<1> HIDE DEF r
<1> QED BY <1>2, <1>3 DEF TurnsDown, n

\* A service changes its state.
LEMMA SetsFields ==
    ASSUME Types, NEW s \in Services, NEW v \in States, svc' = [svc EXCEPT ![s] = v]
    PROVE  Sets(s, v)
BY DEF Types, Sets

-----------------------------------------------------------------------------
\* What is done stays done while main() stays where it is.
LEMMA DownKept ==
    ASSUME Types, TakenDown, main'.pc = main.pc, main'.todo = main.todo,
           main.pc \in {"down", "ended"} => svc'["sync"] = "off",
           main.pc \in {"down", "ended"} => \A s \in StepNames : Done(s) => Done(s)'
    PROVE  TakenDown'
<1>1. Left' = Left BY DEF Left
<1> QED BY <1>1 DEF TakenDown

\* Before the shutdown nothing has to be done.
LEMMA DownAhead ==
    ASSUME TakenDown, main.pc # "down", main'.pc \notin {"down", "ended"}, main'.todo = main.todo
    PROVE  TakenDown'
BY DEF TakenDown

\* A step of the shutdown is taken: it is done, and what was done stays done.
LEMMA DownStep ==
    ASSUME Types, TakenDown, NEW task, Stepped(task), svc'["sync"] = svc["sync"],
           \A s \in StepNames : Done(s) => Done(s)', task \in StepNames => Done(task)'
    PROVE  TakenDown'
<1>1. /\ main.todo \in Seq(Steps) /\ main.todo # <<>> /\ main.todo[1] = task
      /\ Len(main.todo) \in Nat /\ Len(main'.todo) = Len(main.todo) - 1
      /\ \A i \in 1..Len(main'.todo) : main'.todo[i] = main.todo[i + 1]
  BY DEF Stepped, Types, MainRecord
<1>2. \A i \in 1..Len(main'.todo) : i \in Nat /\ i + 1 \in 1..Len(main.todo) BY <1>1
<1>3. Left \subseteq Left' \cup {task}
  <2> SUFFICES ASSUME NEW i \in 1..Len(main.todo) PROVE main.todo[i] \in Left' \cup {task} BY DEF Left
  <2>1. CASE i = 1 BY <1>1, <2>1
  <2>2. CASE i # 1
    <3>1. i - 1 \in 1..Len(main'.todo) /\ (i - 1) + 1 = i BY <1>1, <2>2
    <3>2. main'.todo[i - 1] = main.todo[i] BY <1>1, <3>1
    <3> QED BY <3>1, <3>2 DEF Left
  <2> QED BY <2>1, <2>2
<1>4. svc'["sync"] = "off" /\ \A s \in StepNames \ Left' : Done(s)'
  BY <1>3 DEF TakenDown, Stepped
<1>5. \A i, j \in 1..Len(main'.todo) : main'.todo[i] = "heartbeat" /\ main'.todo[j] = "unready" => i < j
  <2> SUFFICES ASSUME NEW i \in 1..Len(main'.todo), NEW j \in 1..Len(main'.todo)
               PROVE  main'.todo[i] = "heartbeat" /\ main'.todo[j] = "unready" => i < j
    OBVIOUS
  <2>1. i \in Nat /\ j \in Nat /\ i + 1 \in 1..Len(main.todo) /\ j + 1 \in 1..Len(main.todo) BY <1>2
  <2>2. main'.todo[i] = main.todo[i + 1] /\ main'.todo[j] = main.todo[j + 1] BY <1>1
  <2>3. main.todo[i + 1] = "heartbeat" /\ main.todo[j + 1] = "unready" => i + 1 < j + 1
    BY <2>1 DEF TakenDown
  <2>4. i + 1 < j + 1 => i < j BY <2>1
  <2> QED BY <2>2, <2>3, <2>4
<1> QED BY <1>4, <1>5 DEF TakenDown, Stepped

\* When the file is removed, the heartbeat that touches it has ended.
LEMMA DownOrder ==
    ASSUME Types, TakenDown, Stepped("unready")
    PROVE  svc["heartbeat"] = "off"
<1>1. /\ main.todo \in Seq(Steps) /\ main.todo # <<>> /\ main.todo[1] = "unready" /\ main.pc = "down"
      /\ Len(main.todo) \in Nat /\ 1 \in 1..Len(main.todo)
  BY DEF Stepped, Types, MainRecord
<1>2. "heartbeat" \notin Left
  <2> SUFFICES ASSUME NEW i \in 1..Len(main.todo), main.todo[i] = "heartbeat" PROVE FALSE BY DEF Left
  <2>1. i < 1 BY <1>1 DEF TakenDown
  <2>2. i \in Nat /\ 1 <= i BY <1>1
  <2> QED BY <2>1, <2>2
<1>3. Done("heartbeat") BY <1>1, <1>2 DEF TakenDown, StepNames
<1> QED BY <1>3 DEF Done

\* The plan of the shutdown has every step, those that need another one after it.
LEMMA ShutdownPlan ==
    /\ Len(ShutdownSteps) = 12
    /\ StepNames \subseteq {ShutdownSteps[i] : i \in 1..12}
    /\ \A i \in 1..12 : /\ ShutdownSteps[i] = "heartbeat" => i = 1
                        /\ ShutdownSteps[i] = "unready" => i = 2
<1>1. /\ Len(ShutdownSteps) = 12
      /\ ShutdownSteps[1] = "heartbeat" /\ ShutdownSteps[2] = "unready" /\ ShutdownSteps[3] = "refresh"
      /\ ShutdownSteps[4] = "health" /\ ShutdownSteps[5] = "reconnect" /\ ShutdownSteps[6] = "plugins"
      /\ ShutdownSteps[7] = "plugins_wait" /\ ShutdownSteps[8] = "queue" /\ ShutdownSteps[9] = "queue_wait"
      /\ ShutdownSteps[10] = "matrix" /\ ShutdownSteps[11] = "mesh" /\ ShutdownSteps[12] = "wipe"
  BY DEF ShutdownSteps
<1>2. /\ 1 \in 1..12 /\ 2 \in 1..12 /\ 3 \in 1..12 /\ 4 \in 1..12 /\ 6 \in 1..12 /\ 8 \in 1..12
      /\ 9 \in 1..12 /\ 10 \in 1..12 /\ 11 \in 1..12 /\ 12 \in 1..12
  OBVIOUS
<1>3. StepNames \subseteq {ShutdownSteps[i] : i \in 1..12} BY <1>1, <1>2 DEF StepNames
<1>4. \A i \in 1..12 : /\ ShutdownSteps[i] = "heartbeat" => i = 1
                       /\ ShutdownSteps[i] = "unready" => i = 2
  <2> SUFFICES ASSUME NEW i \in 1..12
               PROVE  /\ ShutdownSteps[i] = "heartbeat" => i = 1
                      /\ ShutdownSteps[i] = "unready" => i = 2
    OBVIOUS
  <2>1. \/ i = 1 \/ i = 2 \/ i = 3 \/ i = 4 \/ i = 5 \/ i = 6 \/ i = 7 \/ i = 8 \/ i = 9 \/ i = 10 \/ i = 11
        \/ i = 12
    OBVIOUS
  <2> QED BY <1>1, <2>1
<1> QED BY <1>1, <1>3, <1>4

\* The plan of the rollback leaves out what was not brought up, and the wipe.
LEMMA RollbackPlan ==
    LET n == Len(RollbackSteps)
    IN  /\ n \in {7, 9}
        /\ \A i \in 1..n : RollbackSteps[i] \notin {"heartbeat", "wipe"}
        /\ {"unready", "health", "plugins", "matrix", "mesh"} \subseteq {RollbackSteps[i] : i \in 1..n}
        /\ svc["queue"] = "on" => "queue" \in {RollbackSteps[i] : i \in 1..n}
<1>1. CASE svc["queue"] = "on"
  <2> DEFINE S == <<"health", "reconnect", "unready", "plugins", "plugins_wait", "queue", "queue_wait",
                    "matrix", "mesh">>
  <2>1. RollbackSteps = S BY <1>1 DEF RollbackSteps
  <2>2. /\ Len(S) = 9 /\ S[1] = "health" /\ S[2] = "reconnect" /\ S[3] = "unready" /\ S[4] = "plugins"
        /\ S[5] = "plugins_wait" /\ S[6] = "queue" /\ S[7] = "queue_wait" /\ S[8] = "matrix" /\ S[9] = "mesh"
    OBVIOUS
  <2>3. /\ 1 \in 1..9 /\ 3 \in 1..9 /\ 4 \in 1..9 /\ 6 \in 1..9 /\ 7 \in 1..9 /\ 8 \in 1..9 /\ 9 \in 1..9
        /\ \A i \in 1..9 : \/ i = 1 \/ i = 2 \/ i = 3 \/ i = 4 \/ i = 5 \/ i = 6 \/ i = 7 \/ i = 8 \/ i = 9
    OBVIOUS
  <2> HIDE DEF S
  <2>4. \A i \in 1..9 : S[i] \notin {"heartbeat", "wipe"} BY <2>2, <2>3
  <2>5. {"unready", "health", "plugins", "matrix", "mesh", "queue"} \subseteq {S[i] : i \in 1..9}
    BY <2>2, <2>3
  <2> QED BY <2>1, <2>2, <2>4, <2>5
<1>2. CASE svc["queue"] # "on"
  <2> DEFINE S == <<"health", "reconnect", "unready", "plugins", "plugins_wait", "matrix", "mesh">>
  <2>1. RollbackSteps = S BY <1>2 DEF RollbackSteps
  <2>2. /\ Len(S) = 7 /\ S[1] = "health" /\ S[2] = "reconnect" /\ S[3] = "unready" /\ S[4] = "plugins"
        /\ S[5] = "plugins_wait" /\ S[6] = "matrix" /\ S[7] = "mesh"
    OBVIOUS
  <2>3. /\ 1 \in 1..7 /\ 3 \in 1..7 /\ 4 \in 1..7 /\ 6 \in 1..7 /\ 7 \in 1..7
        /\ \A i \in 1..7 : \/ i = 1 \/ i = 2 \/ i = 3 \/ i = 4 \/ i = 5 \/ i = 6 \/ i = 7
    OBVIOUS
  <2> HIDE DEF S
  <2>4. \A i \in 1..7 : S[i] \notin {"heartbeat", "wipe"} BY <2>2, <2>3
  <2>5. {"unready", "health", "plugins", "matrix", "mesh"} \subseteq {S[i] : i \in 1..7} BY <2>2, <2>3
  <2> QED BY <1>2, <2>1, <2>2, <2>4, <2>5
<1> QED BY <1>1, <1>2

\* At the start of the shutdown everything is still to be done.
LEMMA DownByShutdown ==
    ASSUME NEW exc, TurnsDown(ShutdownSteps, exc), svc'["sync"] = "off"
    PROVE  TakenDown'
<1>1. Left' = {ShutdownSteps[i] : i \in 1..12} BY ShutdownPlan DEF Left, TurnsDown
<1>2. StepNames \ Left' = {} BY <1>1, ShutdownPlan
<1>3. \A i, j \in 1..Len(main'.todo) : main'.todo[i] = "heartbeat" /\ main'.todo[j] = "unready" => i < j
  BY ShutdownPlan DEF TurnsDown
<1> QED BY <1>2, <1>3 DEF TakenDown, TurnsDown

\* At the start of the rollback what is not in its plan was never brought up.
LEMMA DownByRollback ==
    ASSUME NEW exc, exc # "none", TurnsDown(RollbackSteps, exc),
           \A s \in Services \ {"matrix"} : svc'[s] = svc[s], svc["sync"] = "off",
           svc["heartbeat"] = "off", svc["refresh"] = "off", svc["queue"] \in {"on", "off"}
    PROVE  TakenDown'
<1>1. /\ Left' = {RollbackSteps[i] : i \in 1..Len(RollbackSteps)}
      /\ main'.todo = RollbackSteps /\ main'.pc = "down" /\ main'.exc = exc
  BY DEF Left, TurnsDown
<1>2. /\ {"unready", "health", "plugins", "matrix", "mesh"} \subseteq Left'
      /\ svc["queue"] = "on" => "queue" \in Left'
  BY <1>1, RollbackPlan
<1>3. \A s \in StepNames \ Left' : Done(s)'
  <2> SUFFICES ASSUME NEW s \in StepNames, s \notin Left' PROVE Done(s)' OBVIOUS
  <2>1. \/ s \in {"heartbeat", "refresh", "wipe"} \/ (s = "queue" /\ svc["queue"] = "off")
    BY <1>2 DEF StepNames
  <2> QED BY <1>1, <2>1 DEF Done, Services
<1>4. \A i \in 1..Len(main'.todo) : main'.todo[i] \notin {"heartbeat", "wipe"} BY <1>1, RollbackPlan
<1> QED BY <1>1, <1>3, <1>4 DEF TakenDown, Services

-----------------------------------------------------------------------------
\* main() ends.
Ends(e) ==
    /\ main' \in MainRecord /\ main'.pc = "ended" /\ main'.todo = main.todo
    /\ main'.exc = main.exc /\ main'.exit = e /\ main'.kept = main.kept /\ main'.late = main.late

\* main() ends with an exit code.
LEMMA EndsFields ==
    ASSUME Types, NEW e \in {0, 1}, main' = [main EXCEPT !.pc = "ended", !.exit = e]
    PROVE  Ends(e)
<1> DEFINE r == [main EXCEPT !.pc = "ended", !.exit = e]
<1>1. /\ r \in MainRecord /\ r.pc = "ended" /\ r.todo = main.todo
      /\ r.exc = main.exc /\ r.exit = e /\ r.kept = main.kept /\ r.late = main.late
  BY DEF Types, MainRecord, MainPcs
<1> HIDE DEF r
<1> QED BY <1>1 DEF Ends, r

\* Nothing is up yet: there is nothing to take down.
LEMMA DownAtOnce ==
    ASSUME CleanInv, main.pc \in {"config", "database"}, Ends(1), svc' = svc, file' = file, client' = client,
           conn' = conn
    PROVE  TakenDown'
<1>1. /\ main.todo = <<>> /\ main'.todo = <<>> BY DEF CleanInv, TakenDown, Ends
<1>2. file => main.kept BY DEF CleanInv, ReadyInv, Announcing, BroughtUp
<1>3. svc'["sync"] = "off" /\ \A s \in StepNames : Done(s)'
  BY <1>2 DEF CleanInv, BroughtUp, Ends, Services, StepNames, Done
<1> QED BY <1>1, <1>3 DEF TakenDown, Ends

\* run_main() reads the configuration.
LEMMA InvReadConfig ==
    ASSUME CleanInv, ReadConfig
    PROVE  CleanInv'
<1> USE DEF CleanInv, ReadyInv
<1>1. main.pc = "config"
      /\ UNCHANGED <<config, stop, asked, fatal, svc, syncs, file, published, rows, storing, client, connects,
                     conn, drain, timer, packet>>
  BY DEF ReadConfig, ready, mesh, drains, map
<1>2. Stays("database") \/ Ends(1) BY ToFields, EndsFields DEF ReadConfig, MainPcs
<1>3. Types' BY <1>1, <1>2 DEF Types, Stays, Ends
<1>4. Reasons' BY <1>1, <1>2 DEF Reasons, ZeroMeansAsked, Stays, Ends
<1>5. Arming' /\ Draining' BY <1>1, <1>2 DEF Arming, Draining, Over, Stays, Ends
<1>6. Announcing' BY <1>1, <1>2 DEF Announcing, PastConnect, Over, Services, Stays, Ends
<1>7. TakenDown'
  <2>1. CASE Stays("database") BY <1>1, <2>1, DownAhead DEF Stays
  <2>2. CASE Ends(1) BY <1>1, <2>2, DownAtOnce
  <2> QED BY <1>2, <2>1, <2>2
<1>8. BroughtUp' BY <1>1, <1>2 DEF BroughtUp, Services, Stays, Ends
<1> QED BY <1>3, <1>4, <1>5, <1>6, <1>7, <1>8

\* The database is opened and wiped.
LEMMA InvOpenDatabase ==
    ASSUME CleanInv, OpenDatabase
    PROVE  CleanInv'
<1> USE DEF CleanInv, ReadyInv
<1>1. main.pc = "database"
      /\ UNCHANGED <<config, stop, asked, fatal, svc, syncs, file, published, storing, client, connects, conn,
                     drain, timer, packet>>
  BY DEF OpenDatabase, ready, mesh, drains
<1>2. rows' \in BOOLEAN BY DEF OpenDatabase, Types
<1>3. Stays("plugins") \/ Ends(1) BY ToFields, EndsFields DEF OpenDatabase, MainPcs
<1>4. Types' BY <1>1, <1>2, <1>3 DEF Types, Stays, Ends
<1>5. Reasons' BY <1>1, <1>2, <1>3 DEF Reasons, ZeroMeansAsked, Stays, Ends
<1>6. Arming' /\ Draining' BY <1>1, <1>2, <1>3 DEF Arming, Draining, Over, Stays, Ends
<1>7. Announcing' BY <1>1, <1>2, <1>3 DEF Announcing, PastConnect, Over, Services, Stays, Ends
<1>8. TakenDown'
  <2>1. CASE Stays("plugins") BY <1>1, <2>1, DownAhead DEF Stays
  <2>2. CASE Ends(1) BY <1>1, <2>2, DownAtOnce
  <2> QED BY <1>3, <2>1, <2>2
<1>9. BroughtUp' BY <1>1, <1>2, <1>3 DEF BroughtUp, Services, Stays, Ends
<1> QED BY <1>4, <1>5, <1>6, <1>7, <1>8, <1>9

\* A startup step raises, or is interrupted: nothing of the later ones is up.
LEMMA DownFromStartup ==
    ASSUME CleanInv, main.pc \in {"plugins", "queue", "connecting", "matrix", "rooms", "health"},
           \A s \in Services \ {"matrix"} : svc'[s] = svc[s],
           NEW exc \in {"error", "interrupt"}, TurnsDown(RollbackSteps, exc)
    PROVE  TakenDown'
BY DownByRollback DEF CleanInv, ReadyInv, Announcing, BroughtUp

\* A startup step brings a service up, or raises.
LEMMA InvStarts ==
    ASSUME CleanInv, NEW place, NEW service, NEW next, Starts(place, service, next),
           \/ place = "plugins" /\ service = "plugins" /\ next = "queue"
           \/ place = "queue" /\ service = "queue" /\ next = "mesh"
           \/ place = "rooms" /\ service = "health" /\ next = "health"
    PROVE  CleanInv'
<1> USE DEF CleanInv, ReadyInv
<1>1. main.pc = place
      /\ UNCHANGED <<config, asked, fatal, syncs, file, published, rows, storing, client, connects, conn, drain,
                     timer, packet>>
  BY DEF Starts, ready, mesh, drains, map
<1>2. service \in Services /\ "on" \in States /\ next \in MainPcs BY DEF Services, States, MainPcs
<1>3. \/ Stays(next) /\ Sets(service, "on") /\ stop' = stop
      \/ TurnsDown(RollbackSteps, "error") /\ svc' = svc
  BY <1>2, ToFields, SetsFields, RollBackFields DEF Starts
<1>4. Types'
  <2>1. main' \in MainRecord BY <1>1, <1>2, <1>3 DEF Types, Stays, TurnsDown
  <2>2. stop' \in BOOLEAN BY <1>1, <1>2, <1>3 DEF Types, Stays, TurnsDown
  <2>3. svc' \in [Services -> States] BY <1>1, <1>2, <1>3 DEF Types, Sets
  <2> QED BY <1>1, <2>1, <2>2, <2>3 DEF Types
<1>5. Reasons' BY <1>1, <1>2, <1>3 DEF Reasons, ZeroMeansAsked, Stays, TurnsDown, Sets
<1>6. Arming' /\ Draining' BY <1>1, <1>2, <1>3 DEF Arming, Draining, Over, Stays, TurnsDown, Sets
<1>7. Announcing' BY <1>1, <1>2, <1>3 DEF Announcing, PastConnect, Over, Services, Stays, TurnsDown, Sets
<1>8. TakenDown'
  <2>1. CASE Stays(next) BY <1>1, <2>1, DownAhead DEF Stays
  <2>2. CASE TurnsDown(RollbackSteps, "error") /\ svc' = svc BY <1>1, <2>2, DownFromStartup
  <2> QED BY <1>3, <2>1, <2>2
<1>9. BroughtUp' BY <1>1, <1>2, <1>3 DEF BroughtUp, Services, Stays, TurnsDown, Sets
<1> QED BY <1>4, <1>5, <1>6, <1>7, <1>8, <1>9

\* A login that did not end well leaves everything else alone.
LEMMA LoginEndsFields ==
    ASSUME Types, LoginEnds
    PROVE  /\ svc' \in [Services -> States] /\ \A s \in Services \ {"matrix"} : svc'[s] = svc[s]
           /\ svc'["matrix"] = svc["matrix"] \/ svc'["matrix"] = "left"
<1>1. "matrix" \in Services /\ "left" \in States BY DEF Services, States
<1>2. svc' = svc \/ Sets("matrix", "left") BY <1>1, SetsFields DEF LoginEnds
<1> QED BY <1>1, <1>2 DEF Types, Sets

\* main() has a Matrix client, or connect_matrix() fails.
LEMMA InvStartMatrix ==
    ASSUME CleanInv, StartMatrix
    PROVE  CleanInv'
<1> USE DEF CleanInv, ReadyInv
<1>1. main.pc = "matrix"
      /\ UNCHANGED <<config, asked, fatal, syncs, file, published, rows, storing, client, connects, conn, drain,
                     timer, packet>>
  BY DEF StartMatrix, ready, mesh, drains, map
<1>2. /\ svc' \in [Services -> States] /\ \A s \in Services \ {"matrix"} : svc'[s] = svc[s]
      /\ \/ Stays("rooms") /\ svc'["matrix"] = "on" /\ stop' = stop
         \/ TurnsDown(RollbackSteps, "error") /\ svc'["matrix"] \in {svc["matrix"], "left"}
  <2>1. CASE To("rooms") /\ svc' = [svc EXCEPT !["matrix"] = "on"] /\ UNCHANGED stop
    BY <2>1, ToFields, SetsFields DEF Sets, Services, States, MainPcs
  <2>2. CASE RollBack("error") /\ LoginEnds BY <2>2, RollBackFields, LoginEndsFields
  <2> QED BY <2>1, <2>2 DEF StartMatrix
<1>3. Types'
  <2>1. main' \in MainRecord /\ stop' \in BOOLEAN BY <1>2 DEF Types, Stays, TurnsDown
  <2> QED BY <1>1, <1>2, <2>1 DEF Types
<1>4. Reasons' BY <1>1, <1>2 DEF Reasons, ZeroMeansAsked, Stays, TurnsDown
<1>5. Arming' /\ Draining' BY <1>1, <1>2 DEF Arming, Draining, Over
<1>6. Announcing' BY <1>1, <1>2 DEF Announcing, PastConnect, Over, Services, Stays, TurnsDown
<1>7. TakenDown'
  <2>1. CASE Stays("rooms") BY <1>1, <2>1, DownAhead DEF Stays
  <2>2. CASE TurnsDown(RollbackSteps, "error") BY <1>1, <1>2, <2>2, DownFromStartup
  <2> QED BY <1>2, <2>1, <2>2
<1>8. BroughtUp' BY <1>1, <1>2 DEF BroughtUp, Services, Stays, TurnsDown
<1> QED BY <1>3, <1>4, <1>5, <1>6, <1>7, <1>8

\* main() starts the first connect.
LEMMA InvStartConnect ==
    ASSUME CleanInv, StartConnect
    PROVE  CleanInv'
<1> USE DEF CleanInv, ReadyInv
<1>1. /\ main.pc = "mesh" /\ connects' = connects + 1
      /\ UNCHANGED <<config, stop, asked, fatal, svc, syncs, file, published, rows, storing, client, drain,
                     timer, packet>>
  BY DEF StartConnect, ready, mesh, drains, map
<1>2. /\ conn' \in ConnRecord /\ conn'.pc = "reset" /\ conn'.pending = FALSE /\ conn'.armed = None
      /\ conn'.ok = FALSE
  BY DEF StartConnect, ConnRecord, ConnPcs, None
<1>3. Stays("connecting") BY ToFields DEF StartConnect, MainPcs
<1>4. connects' \in Nat /\ connects' # 0 BY <1>1 DEF Types
<1>5. Types' BY <1>1, <1>2, <1>3, <1>4 DEF Types, Stays
<1>6. Reasons' BY <1>1, <1>2, <1>3, <1>4 DEF Reasons, ZeroMeansAsked, Stays
<1>7. Arming' /\ Draining' BY <1>1, <1>2, <1>3, <1>4 DEF Arming, Draining, Over, BroughtUp
<1>8. Announcing' BY <1>1, <1>2, <1>3, <1>4 DEF Announcing, PastConnect, Over, Services, Stays
<1>9. TakenDown' BY <1>1, <1>3, DownAhead DEF Stays
<1>10. BroughtUp' BY <1>1, <1>2, <1>3, <1>4 DEF BroughtUp, Services, Stays
<1> QED BY <1>5, <1>6, <1>7, <1>8, <1>9, <1>10

\* main() has the answer of its first connect.
LEMMA InvConnected ==
    ASSUME CleanInv, Connected
    PROVE  CleanInv'
<1> USE DEF CleanInv, ReadyInv
<1>1. main.pc = "connecting" /\ conn.pc = "idle"
      /\ UNCHANGED <<config, asked, fatal, svc, syncs, file, published, rows, storing, client, connects, conn,
                     drain, timer, packet>>
  BY DEF Connected, ready, mesh, drains, map
<1>2. \/ Stays("matrix") /\ stop' = stop /\ conn.ok
      \/ TurnsDown(RollbackSteps, "error")
  BY ToFields, RollBackFields DEF Connected, MainPcs
<1>3. Types'
  <2>1. main' \in MainRecord BY <1>1, <1>2 DEF Types, Stays, TurnsDown
  <2>2. stop' \in BOOLEAN BY <1>1, <1>2 DEF Types, Stays, TurnsDown
  <2> QED BY <1>1, <2>1, <2>2 DEF Types
<1>4. Reasons' BY <1>1, <1>2 DEF Reasons, ZeroMeansAsked, Stays, TurnsDown
<1>5. Arming' /\ Draining' BY <1>1, <1>2 DEF Arming, Draining, Over, Stays, TurnsDown
<1>6. Announcing' BY <1>1, <1>2 DEF Announcing, PastConnect, Over, Services, Stays, TurnsDown, Arming
<1>7. TakenDown'
  <2>1. CASE Stays("matrix") BY <1>1, <2>1, DownAhead DEF Stays
  <2>2. CASE TurnsDown(RollbackSteps, "error") BY <1>1, <2>2, DownFromStartup
  <2> QED BY <1>2, <2>1, <2>2
<1>8. BroughtUp' BY <1>1, <1>2 DEF BroughtUp, Services, Stays, TurnsDown
<1> QED BY <1>3, <1>4, <1>5, <1>6, <1>7, <1>8

\* main() looks whether the health task is already over.
LEMMA InvCheckHealth ==
    ASSUME CleanInv, CheckHealth
    PROVE  CleanInv'
<1> USE DEF CleanInv, ReadyInv
<1>1. main.pc = "health"
      /\ UNCHANGED <<config, asked, svc, syncs, file, published, rows, storing, client, connects, conn, drain,
                     timer, packet>>
  BY DEF CheckHealth, ready, mesh, drains, map
<1>2. fatal' \in BOOLEAN /\ (fatal => fatal') BY DEF CheckHealth, Types
<1>3. \/ Stays("serve") /\ stop' = stop
      \/ TurnsDown(RollbackSteps, "error")
  BY ToFields, RollBackFields DEF CheckHealth, MainPcs
<1>4. Types'
  <2>1. main' \in MainRecord BY <1>1, <1>2, <1>3 DEF Types, Stays, TurnsDown
  <2>2. stop' \in BOOLEAN /\ fatal' \in BOOLEAN BY <1>1, <1>2, <1>3 DEF Types, Stays, TurnsDown
  <2> QED BY <1>1, <2>1, <2>2 DEF Types
<1>5. Reasons' BY <1>1, <1>2, <1>3 DEF Reasons, ZeroMeansAsked, Stays, TurnsDown
<1>6. Arming' /\ Draining' BY <1>1, <1>2, <1>3 DEF Arming, Draining, Over, Stays, TurnsDown
<1>7. Announcing' BY <1>1, <1>2, <1>3 DEF Announcing, PastConnect, Over, Services, Stays, TurnsDown
<1>8. TakenDown'
  <2>1. CASE Stays("serve") BY <1>1, <2>1, DownAhead DEF Stays
  <2>2. CASE TurnsDown(RollbackSteps, "error") BY <1>1, <2>2, DownFromStartup
  <2> QED BY <1>3, <2>1, <2>2
<1>9. BroughtUp' BY <1>1, <1>2, <1>3 DEF BroughtUp, Services, Stays, TurnsDown
<1> QED BY <1>4, <1>5, <1>6, <1>7, <1>8, <1>9

\* Ctrl-C cancels the startup.
LEMMA InvInterrupt ==
    ASSUME CleanInv, Interrupt
    PROVE  CleanInv'
<1> USE DEF CleanInv, ReadyInv
<1>1. /\ main.pc \in {"connecting", "matrix", "rooms"} /\ asked' = TRUE
      /\ UNCHANGED <<config, fatal, syncs, file, published, rows, storing, client, connects, conn, drain, timer,
                     packet>>
  BY DEF Interrupt, ready, mesh, drains, map
<1>2. TurnsDown(RollbackSteps, "interrupt") BY RollBackFields DEF Interrupt
<1>3. /\ svc' \in [Services -> States] /\ \A s \in Services \ {"matrix"} : svc'[s] = svc[s]
      /\ svc'["matrix"] = svc["matrix"] \/ svc'["matrix"] = "left"
  BY LoginEndsFields DEF Interrupt, Types
<1>4. Types' BY <1>1, <1>2, <1>3 DEF Types, TurnsDown
<1>5. Reasons' BY <1>1, <1>2 DEF Reasons, ZeroMeansAsked, TurnsDown
<1>6. Arming' /\ Draining' BY <1>1, <1>2 DEF Arming, Draining, Over, TurnsDown
<1>7. Announcing' BY <1>1, <1>2, <1>3 DEF Announcing, PastConnect, Over, Services, TurnsDown
<1>8. TakenDown' BY <1>1, <1>2, <1>3, DownFromStartup
<1>9. BroughtUp' BY <1>1, <1>2, <1>3 DEF BroughtUp, Services, TurnsDown
<1> QED BY <1>4, <1>5, <1>6, <1>7, <1>8, <1>9

\* A signal asks the relay to stop.
LEMMA InvSignal ==
    ASSUME CleanInv, Signal
    PROVE  CleanInv'
<1> USE DEF CleanInv, ReadyInv
<1>1. /\ main' = main /\ stop' = TRUE /\ asked' = TRUE /\ main.pc \notin {"down", "ended"}
      /\ UNCHANGED <<config, fatal, svc, syncs, file, published, rows, storing, client, connects, conn, drain,
                     timer, packet>>
  BY DEF Signal, ready, mesh, drains, map
<1>2. Types' BY <1>1 DEF Types
<1>3. Reasons' BY <1>1 DEF Reasons, ZeroMeansAsked
<1>4. Arming' /\ Draining' BY <1>1 DEF Arming, Draining, Over
<1>5. Announcing' BY <1>1 DEF Announcing, PastConnect, Over, Services
<1>6. TakenDown' BY <1>1, DownAhead
<1>7. BroughtUp' BY <1>1 DEF BroughtUp, Services
<1> QED BY <1>2, <1>3, <1>4, <1>5, <1>6, <1>7

\* The health task is over.
LEMMA InvHealthEnds ==
    ASSUME CleanInv, HealthEnds
    PROVE  CleanInv'
<1> USE DEF CleanInv, ReadyInv
<1>1. /\ main' = main /\ svc["health"] = "on"
      /\ UNCHANGED <<config, stop, asked, fatal, syncs, file, published, rows, storing, client, connects, conn,
                     drain, timer, packet>>
  BY DEF HealthEnds, ready, mesh, drains, map
<1>2. Sets("health", "failed") \/ Sets("health", "returned") BY SetsFields DEF HealthEnds, Services, States
<1>3. Types' BY <1>1, <1>2 DEF Types, Sets
<1>4. Reasons' BY <1>1, <1>2 DEF Reasons, ZeroMeansAsked, Sets
<1>5. Arming' /\ Draining' BY <1>1, <1>2 DEF Arming, Draining, Over, Sets
<1>6. Announcing' BY <1>1, <1>2 DEF Announcing, PastConnect, Over, Services, Sets
<1>7. TakenDown'
  <2>1. svc'["sync"] = svc["sync"] /\ \A s \in StepNames : Done(s) => Done(s)'
    BY <1>1, <1>2 DEF Sets, Done, StepNames, Services
  <2> QED BY <1>1, <2>1, DownKept DEF TakenDown
<1>8. BroughtUp' BY <1>1, <1>2 DEF BroughtUp, Services, Sets
<1> QED BY <1>3, <1>4, <1>5, <1>6, <1>7, <1>8

\* The callback of the health task.
LEMMA InvOnHealthDone ==
    ASSUME CleanInv, OnHealthDone
    PROVE  CleanInv'
<1> USE DEF CleanInv, ReadyInv
<1>1. /\ main' = main /\ svc["health"] \in {"failed", "returned"}
      /\ UNCHANGED <<config, asked, syncs, file, published, rows, storing, client, connects, conn, drain, timer,
                     packet>>
  BY DEF OnHealthDone, ready, mesh, drains, map
<1>2. Sets("health", "over") BY SetsFields DEF OnHealthDone, Services, States
<1>3. /\ stop' \in BOOLEAN /\ fatal' \in BOOLEAN /\ (stop => stop') /\ (fatal => fatal')
      /\ stop' => stop \/ fatal'
  BY DEF OnHealthDone, Types
<1>4. Types' BY <1>1, <1>2, <1>3 DEF Types, Sets
<1>5. Reasons' BY <1>1, <1>2, <1>3 DEF Reasons, ZeroMeansAsked, Sets
<1>6. Arming' /\ Draining' BY <1>1, <1>2, <1>3 DEF Arming, Draining, Over, Sets
<1>7. Announcing' BY <1>1, <1>2, <1>3 DEF Announcing, PastConnect, Over, Services, Sets
<1>8. TakenDown'
  <2>1. svc'["sync"] = svc["sync"] /\ \A s \in StepNames : Done(s) => Done(s)'
    BY <1>1, <1>2, <1>3 DEF Sets, Done, StepNames, Services
  <2> QED BY <1>1, <2>1, DownKept DEF TakenDown
<1>9. BroughtUp' BY <1>1, <1>2, <1>3 DEF BroughtUp, Services, Sets
<1> QED BY <1>4, <1>5, <1>6, <1>7, <1>8, <1>9

\* The node-name refresh starts with the loop.
LEMMA InvServe ==
    ASSUME CleanInv, Serve
    PROVE  CleanInv'
<1> USE DEF CleanInv, ReadyInv
<1>1. main.pc = "serve"
      /\ UNCHANGED <<config, stop, asked, fatal, syncs, file, published, rows, storing, client, connects, conn,
                     drain, timer, packet>>
  BY DEF Serve, ready, mesh, drains, map
<1>2. Stays("loop") BY ToFields DEF Serve, MainPcs
<1>3. svc' = svc \/ Sets("refresh", "on") BY SetsFields DEF Serve, Services, States
<1>4. Types'
  <2>1. main' \in MainRecord BY <1>1, <1>2, <1>3 DEF Types, Stays
  <2>2. stop' \in BOOLEAN BY <1>1, <1>2, <1>3 DEF Types, Stays
  <2>3. svc' \in [Services -> States] BY <1>1, <1>2, <1>3 DEF Types, Sets
  <2> QED BY <1>1, <2>1, <2>2, <2>3 DEF Types
<1>5. Reasons' BY <1>1, <1>2, <1>3 DEF Reasons, ZeroMeansAsked, Stays, Sets
<1>6. Arming' /\ Draining' BY <1>1, <1>2, <1>3 DEF Arming, Draining, Over, Stays, Sets
<1>7. Announcing' BY <1>1, <1>2, <1>3 DEF Announcing, PastConnect, Over, Services, Stays, Sets
<1>8. TakenDown' BY <1>1, <1>2, DownAhead DEF Stays
<1>9. BroughtUp' BY <1>1, <1>2, <1>3 DEF BroughtUp, Services, Stays, Sets
<1> QED BY <1>4, <1>5, <1>6, <1>7, <1>8, <1>9

\* The head of the sync loop.
LEMMA InvStartSync ==
    ASSUME CleanInv, StartSync
    PROVE  CleanInv'
<1> USE DEF CleanInv, ReadyInv
<1>1. main.pc = "loop"
      /\ UNCHANGED <<config, asked, fatal, file, published, rows, storing, client, connects, conn, drain, timer,
                     packet>>
  BY DEF StartSync, ready, mesh, drains, map
<1>2. \/ TurnsDown(ShutdownSteps, "none") /\ svc' = svc /\ stop
      \/ (Stays("wait") \/ Stays("drain")) /\ Sets("sync", "on") /\ stop' = stop
  BY ToFields, ShutDownFields, SetsFields DEF StartSync, MainPcs, Services, States
<1>3. Types'
  <2>1. main' \in MainRecord BY <1>1, <1>2 DEF Types, Stays, TurnsDown
  <2>2. stop' \in BOOLEAN BY <1>1, <1>2 DEF Types, Stays, TurnsDown
  <2>3. svc' \in [Services -> States] BY <1>1, <1>2 DEF Types, Sets
  <2> QED BY <1>1, <2>1, <2>2, <2>3 DEF Types
<1>4. Reasons' BY <1>1, <1>2 DEF Reasons, ZeroMeansAsked, Stays, TurnsDown, Sets
<1>5. Arming' /\ Draining' BY <1>1, <1>2 DEF Arming, Draining, Over, Stays, TurnsDown, Sets
<1>6. Announcing' BY <1>1, <1>2 DEF Announcing, PastConnect, Over, Services, Stays, TurnsDown, Sets
<1>7. TakenDown'
  <2>1. CASE Stays("wait") \/ Stays("drain") BY <1>1, <2>1, DownAhead DEF Stays
  <2>2. CASE TurnsDown(ShutdownSteps, "none") /\ svc' = svc BY <1>1, <2>2, DownByShutdown DEF BroughtUp
  <2> QED BY <1>2, <2>1, <2>2
<1>8. BroughtUp' BY <1>1, <1>2 DEF BroughtUp, Services, Stays, TurnsDown, Sets
<1> QED BY <1>3, <1>4, <1>5, <1>6, <1>7, <1>8

\* The sync task is over.
LEMMA InvSyncEnds ==
    ASSUME CleanInv, SyncEnds
    PROVE  CleanInv'
<1> USE DEF CleanInv, ReadyInv
<1>1. /\ main' = main /\ svc["sync"] = "on"
      /\ UNCHANGED <<config, stop, asked, fatal, syncs, file, published, rows, storing, client, connects, conn,
                     drain, timer, packet>>
  BY DEF SyncEnds, ready, mesh, drains, map
<1>2. Sets("sync", "returned") \/ Sets("sync", "crashed") BY SetsFields DEF SyncEnds, Services, States
<1>3. main.pc \notin {"down", "ended"} BY <1>1 DEF BroughtUp
<1>4. Types' BY <1>1, <1>2, <1>3 DEF Types, Sets
<1>5. Reasons' BY <1>1, <1>2, <1>3 DEF Reasons, ZeroMeansAsked, Sets
<1>6. Arming' /\ Draining' BY <1>1, <1>2, <1>3 DEF Arming, Draining, Over, Sets
<1>7. Announcing' BY <1>1, <1>2, <1>3 DEF Announcing, PastConnect, Over, Services, Sets
<1>8. TakenDown' BY <1>1, <1>3, DownAhead
<1>9. BroughtUp' BY <1>1, <1>2, <1>3 DEF BroughtUp, Services, Sets
<1> QED BY <1>4, <1>5, <1>6, <1>7, <1>8, <1>9

\* The wait for the startup drain is over.
LEMMA InvDrainWaited ==
    ASSUME CleanInv, DrainWaited
    PROVE  CleanInv'
<1> USE DEF CleanInv, ReadyInv
<1>1. /\ main.pc = "drain" /\ (drain.event \/ stop \/ SyncDone)
      /\ UNCHANGED <<config, stop, asked, fatal, svc, syncs, file, published, rows, storing, client, connects,
                     conn, drain, timer, packet>>
  BY DEF DrainWaited, ready, mesh, drains, map
<1>2. Stays("wait") \/ (Stays("write") /\ drain.event) BY <1>1, ToFields DEF DrainWaited, MainPcs
<1>3. Types' BY <1>1, <1>2 DEF Types, Stays
<1>4. Reasons' BY <1>1, <1>2 DEF Reasons, ZeroMeansAsked, Stays
<1>5. Arming' /\ Draining' BY <1>1, <1>2 DEF Arming, Draining, Over, Stays
<1>6. Announcing' BY <1>1, <1>2 DEF Announcing, PastConnect, Over, Services, Stays, Draining
<1>7. TakenDown' BY <1>1, <1>2, DownAhead DEF Stays
<1>8. BroughtUp' BY <1>1, <1>2 DEF BroughtUp, Services, Stays
<1> QED BY <1>3, <1>4, <1>5, <1>6, <1>7, <1>8

\* The readiness file is written.
LEMMA InvWriteReady ==
    ASSUME CleanInv, WriteReady
    PROVE  CleanInv'
<1> USE DEF CleanInv, ReadyInv
<1>1. /\ main.pc = "write" /\ file' \in {TRUE, file}
      /\ UNCHANGED <<config, stop, asked, fatal, svc, syncs, published, rows, storing, client, connects, conn,
                     drain, timer, packet>>
  BY DEF WriteReady, ready, mesh, drains, map
<1>2. Stays("recheck") BY ToFields DEF WriteReady, MainPcs
<1>3. Types'
  <2>1. file' \in BOOLEAN BY <1>1 DEF Types
  <2> QED BY <2>1, <1>1, <1>2 DEF Types, Stays
<1>4. Reasons' BY <1>1, <1>2 DEF Reasons, ZeroMeansAsked, Stays
<1>5. Arming' /\ Draining' BY <1>1, <1>2 DEF Arming, Draining, Over, Stays
<1>6. Announcing' BY <1>1, <1>2 DEF Announcing, PastConnect, Over, Services, Stays
<1>7. TakenDown' BY <1>1, <1>2, DownAhead DEF Stays
<1>8. BroughtUp' BY <1>1, <1>2 DEF BroughtUp, Services, Stays
<1> QED BY <1>3, <1>4, <1>5, <1>6, <1>7, <1>8

\* Only a relay that still runs is announced.
LEMMA InvRecheck ==
    ASSUME CleanInv, Recheck
    PROVE  CleanInv'
<1> USE DEF CleanInv, ReadyInv
<1>1. main.pc = "recheck"
      /\ UNCHANGED <<config, stop, asked, fatal, syncs, file, rows, storing, client, connects, conn, drain,
                     timer, packet>>
  BY DEF Recheck, ready, mesh, drains, map
<1>2. \/ Stays("unwrite") /\ svc' = svc /\ published' = published
      \/ Stays("wait") /\ published' = TRUE /\ (svc' = svc \/ Sets("heartbeat", "check"))
  BY ToFields, SetsFields DEF Recheck, MainPcs, Services, States
<1>3. Types'
  <2>1. main' \in MainRecord BY <1>1, <1>2 DEF Types, Stays
  <2>2. stop' \in BOOLEAN /\ published' \in BOOLEAN BY <1>1, <1>2 DEF Types, Stays
  <2>3. svc' \in [Services -> States] BY <1>1, <1>2 DEF Types, Sets
  <2> QED BY <1>1, <2>1, <2>2, <2>3 DEF Types
<1>4. Reasons' BY <1>1, <1>2 DEF Reasons, ZeroMeansAsked, Stays, Sets
<1>5. Arming' /\ Draining' BY <1>1, <1>2 DEF Arming, Draining, Over, Stays, Sets
<1>6. Announcing' BY <1>1, <1>2 DEF Announcing, PastConnect, Over, Services, Stays, Sets
<1>7. TakenDown' BY <1>1, <1>2, DownAhead DEF Stays
<1>8. BroughtUp' BY <1>1, <1>2 DEF BroughtUp, Services, Stays, Sets
<1> QED BY <1>3, <1>4, <1>5, <1>6, <1>7, <1>8

\* The readiness file is taken back.
LEMMA InvUnwriteReady ==
    ASSUME CleanInv, UnwriteReady
    PROVE  CleanInv'
<1> USE DEF CleanInv, ReadyInv
<1>1. main.pc = "unwrite"
      /\ UNCHANGED <<config, stop, asked, fatal, svc, syncs, published, rows, storing, client, connects, conn,
                     drain, timer, packet>>
  BY DEF UnwriteReady, ready, mesh, drains, map
<1>2. /\ main' \in MainRecord /\ main'.pc = "wait" /\ main'.todo = main.todo /\ main'.exc = main.exc
      /\ main'.exit = main.exit /\ file' \in BOOLEAN /\ (file' => main'.kept)
  <2> DEFINE m == [main EXCEPT !.pc = "wait"]
             r == [m EXCEPT !.kept = FALSE]
             k == [m EXCEPT !.kept = TRUE]
  <2>1. /\ r \in MainRecord /\ r.pc = "wait" /\ r.todo = main.todo /\ r.exc = main.exc /\ r.exit = main.exit
    BY DEF Types, MainRecord, MainPcs
  <2>2. /\ k \in MainRecord /\ k.pc = "wait" /\ k.todo = main.todo /\ k.exc = main.exc /\ k.exit = main.exit
        /\ k.kept = TRUE
    BY DEF Types, MainRecord, MainPcs
  <2>3. (main' = r /\ file' = FALSE) \/ (main' = k /\ file' = TRUE) BY DEF UnwriteReady, Removed
  <2> HIDE DEF m, r, k
  <2> QED BY <2>1, <2>2, <2>3
<1>3. Types' BY <1>1, <1>2 DEF Types
<1>4. Reasons' BY <1>1, <1>2 DEF Reasons, ZeroMeansAsked
<1>5. Arming' /\ Draining' BY <1>1, <1>2 DEF Arming, Draining, Over
<1>6. Announcing' BY <1>1, <1>2 DEF Announcing, PastConnect, Over, Services
<1>7. TakenDown' BY <1>1, <1>2, DownAhead
<1>8. BroughtUp' BY <1>1, <1>2 DEF BroughtUp, Services
<1> QED BY <1>3, <1>4, <1>5, <1>6, <1>7, <1>8

\* The sync task is over, or the event is set.
LEMMA InvWaitSync ==
    ASSUME CleanInv, WaitSync
    PROVE  CleanInv'
<1> USE DEF CleanInv, ReadyInv
<1>1. main.pc = "wait"
      /\ UNCHANGED <<config, asked, fatal, syncs, file, published, rows, storing, client, connects, conn, drain,
                     timer, packet>>
  BY DEF WaitSync, ready, mesh, drains, map
<1>2. \/ TurnsDown(ShutdownSteps, "none") /\ stop
      \/ TurnsDown(ShutdownSteps, "error")
      \/ Stays("backoff") /\ stop' = stop
  BY ToFields, ShutDownFields DEF WaitSync, MainPcs
<1>3. Sets("sync", "off") BY SetsFields DEF WaitSync, Services, States
<1>4. Types'
  <2>1. main' \in MainRecord BY <1>1, <1>2, <1>3 DEF Types, Stays, TurnsDown
  <2>2. stop' \in BOOLEAN BY <1>1, <1>2, <1>3 DEF Types, Stays, TurnsDown
  <2>3. svc' \in [Services -> States] BY <1>1, <1>2, <1>3 DEF Types, Sets
  <2> QED BY <1>1, <2>1, <2>2, <2>3 DEF Types
<1>5. Reasons' BY <1>1, <1>2, <1>3 DEF Reasons, ZeroMeansAsked, Stays, TurnsDown, Sets
<1>6. Arming' /\ Draining' BY <1>1, <1>2, <1>3 DEF Arming, Draining, Over, Stays, TurnsDown, Sets
<1>7. Announcing' BY <1>1, <1>2, <1>3 DEF Announcing, PastConnect, Over, Services, Stays, TurnsDown, Sets
<1>8. TakenDown'
  <2>1. CASE Stays("backoff") BY <1>1, <2>1, DownAhead DEF Stays
  <2>2. CASE \E exc : TurnsDown(ShutdownSteps, exc) BY <1>3, <2>2, DownByShutdown DEF Sets
  <2> QED BY <1>2, <2>1, <2>2
<1>9. BroughtUp' BY <1>1, <1>2, <1>3 DEF BroughtUp, Services, Stays, TurnsDown, Sets
<1> QED BY <1>4, <1>5, <1>6, <1>7, <1>8, <1>9

\* The pause before the next sync.
LEMMA InvBackoff ==
    ASSUME CleanInv, Backoff
    PROVE  CleanInv'
<1> USE DEF CleanInv, ReadyInv
<1>1. main.pc = "backoff"
      /\ UNCHANGED <<config, stop, asked, fatal, svc, syncs, file, published, rows, storing, client, connects,
                     conn, drain, timer, packet>>
  BY DEF Backoff, ready, mesh, drains, map
<1>2. Stays("loop") BY ToFields DEF Backoff, MainPcs
<1>3. Types' BY <1>1, <1>2 DEF Types, Stays
<1>4. Reasons' BY <1>1, <1>2 DEF Reasons, ZeroMeansAsked, Stays
<1>5. Arming' /\ Draining' BY <1>1, <1>2 DEF Arming, Draining, Over, Stays
<1>6. Announcing' BY <1>1, <1>2 DEF Announcing, PastConnect, Over, Services, Stays
<1>7. TakenDown' BY <1>1, <1>2, DownAhead DEF Stays
<1>8. BroughtUp' BY <1>1, <1>2 DEF BroughtUp, Services, Stays
<1> QED BY <1>3, <1>4, <1>5, <1>6, <1>7, <1>8

\* The heartbeat touches the file.
LEMMA InvHeartbeat ==
    ASSUME CleanInv, Heartbeat
    PROVE  CleanInv'
<1> USE DEF CleanInv, ReadyInv
<1>1. /\ main' = main /\ svc["heartbeat"] \in {"check", "touch", "pause"} /\ file' \in {TRUE, file}
      /\ UNCHANGED <<config, stop, asked, fatal, syncs, published, rows, storing, client, connects, conn, drain,
                     timer, packet>>
  BY DEF Heartbeat, ready, mesh, drains, map
<1>2. \E v \in States : Sets("heartbeat", v)
  <2> "heartbeat" \in Services BY DEF Services
  <2>1. CASE svc["heartbeat"] = "check"
    <3> DEFINE v == IF stop THEN "over" ELSE "touch"
    <3>1. v \in States /\ svc' = [svc EXCEPT !["heartbeat"] = v] BY <2>1 DEF Heartbeat, States
    <3> QED BY <3>1, SetsFields
  <2>2. CASE svc["heartbeat"] # "check" BY <2>2, SetsFields DEF Heartbeat, States
  <2> QED BY <2>1, <2>2
<1>3. Types'
  <2>1. file' \in BOOLEAN BY <1>1 DEF Types
  <2> QED BY <2>1, <1>1, <1>2 DEF Types, Sets
<1>4. Reasons' BY <1>1, <1>2 DEF Reasons, ZeroMeansAsked, Sets
<1>5. Arming' /\ Draining' BY <1>1, <1>2 DEF Arming, Draining, Over, Sets
<1>6. Announcing' BY <1>1, <1>2 DEF Announcing, PastConnect, Over, Services, Sets
<1>7. TakenDown'
  <2>1. svc'["sync"] = svc["sync"] /\ \A s \in StepNames : Done(s) => Done(s)'
    BY <1>1, <1>2 DEF Sets, Done, StepNames, Services
  <2> QED BY <1>1, <2>1, DownKept DEF TakenDown
<1>8. BroughtUp' BY <1>1, <1>2 DEF BroughtUp, Services, Sets
<1> QED BY <1>3, <1>4, <1>5, <1>6, <1>7, <1>8

\* A thread of the shutdown ends.
LEMMA InvStops ==
    ASSUME CleanInv, NEW task \in {"plugins", "queue"}, Stops(task)
    PROVE  CleanInv'
<1> USE DEF CleanInv, ReadyInv
<1>1. /\ main' = main /\ svc[task] = "stopping"
      /\ UNCHANGED <<config, stop, asked, fatal, syncs, file, published, rows, storing, client, connects, conn,
                     drain, timer, packet>>
  BY DEF Stops, ready, mesh, drains, map
<1>2. Sets(task, "off") BY SetsFields DEF Stops, Services, States
<1>3. Types' BY <1>1, <1>2 DEF Types, Sets
<1>4. Reasons' BY <1>1, <1>2 DEF Reasons, ZeroMeansAsked, Sets
<1>5. Arming' /\ Draining' BY <1>1, <1>2 DEF Arming, Draining, Over, Sets
<1>6. Announcing' BY <1>1, <1>2 DEF Announcing, PastConnect, Over, Services, Sets
<1>7. TakenDown'
  <2>1. svc'["sync"] = svc["sync"] /\ \A s \in StepNames : Done(s) => Done(s)'
    BY <1>1, <1>2 DEF Sets, Done, StepNames, Services
  <2> QED BY <1>1, <2>1, DownKept DEF TakenDown
<1>8. BroughtUp' BY <1>1, <1>2 DEF BroughtUp, Services, Sets
<1> QED BY <1>3, <1>4, <1>5, <1>6, <1>7, <1>8

\* A background task is waited for.
LEMMA InvAwaitTask ==
    ASSUME CleanInv, NEW task \in {"heartbeat", "refresh", "health"}, AwaitTask(task, task)
    PROVE  CleanInv'
<1> USE DEF CleanInv, ReadyInv
<1>1. UNCHANGED <<config, stop, asked, fatal, syncs, file, published, rows, storing, client, connects, conn,
                  drain, timer, packet>>
  BY DEF AwaitTask, ready, mesh, drains, map
<1>2. Stepped(task) /\ main'.kept = main.kept /\ main'.late = main.late BY NextFields DEF AwaitTask
<1>3. Sets(task, "off") BY SetsFields DEF AwaitTask, Services, States
<1>4. Types' BY <1>1, <1>2, <1>3 DEF Types, Stepped, Sets
<1>5. Reasons' BY <1>1, <1>2, <1>3 DEF Reasons, ZeroMeansAsked, Stepped, Sets
<1>6. Arming' /\ Draining' BY <1>1, <1>2, <1>3 DEF Arming, Draining, Over, Stepped, Sets
<1>7. Announcing' BY <1>1, <1>2, <1>3 DEF Announcing, PastConnect, Over, Services, Stepped, Sets
<1>8. TakenDown'
  <2>1. \A s \in StepNames : Done(s) => Done(s)' BY <1>1, <1>2, <1>3 DEF Stepped, Sets, Done, StepNames, Services
  <2>2. task \in StepNames => Done(task)'
    BY <1>1, <1>2, <1>3 DEF Stepped, Sets, Done, StepNames, Services
  <2>3. svc'["sync"] = svc["sync"] BY <1>1, <1>2, <1>3 DEF Sets, Services
  <2> QED BY <1>1, <1>2, <2>1, <2>2, <2>3, DownStep
<1>9. BroughtUp' BY <1>1, <1>2, <1>3 DEF BroughtUp, Services, Stepped, Sets
<1> QED BY <1>4, <1>5, <1>6, <1>7, <1>8, <1>9

\* The readiness file is removed.
LEMMA InvRemoveReady ==
    ASSUME CleanInv, RemoveReady
    PROVE  CleanInv'
<1> USE DEF CleanInv, ReadyInv
<1>1. UNCHANGED <<config, stop, asked, fatal, svc, syncs, published, rows, storing, client, connects, conn, drain,
                  timer, packet>>
  BY DEF RemoveReady, ready, mesh, drains, map
<1>2. Stepped("unready") /\ file' \in BOOLEAN /\ (file' => main'.kept) /\ main'.late = main.late
  <2> DEFINE n == Tail(main.todo)
             m == [main EXCEPT !.todo = n]
             r == [m EXCEPT !.kept = FALSE]
             k == [m EXCEPT !.kept = TRUE]
  <2>1. main.pc = "down" /\ main.todo # <<>> /\ Head(main.todo) = "unready" BY DEF RemoveReady, Head1
  <2>2. (main' = r /\ file' = FALSE) \/ (main' = k /\ file' = TRUE) BY DEF RemoveReady, Removed
  <2>3. n \in Seq(Steps) BY <2>1 DEF Types, MainRecord
  <2> HIDE DEF n
  <2>4. /\ r \in MainRecord /\ r.pc = main.pc /\ r.todo = n /\ r.exc = main.exc /\ r.exit = main.exit
        /\ r.late = main.late
    BY <2>3 DEF Types, MainRecord
  <2>5. /\ k \in MainRecord /\ k.pc = main.pc /\ k.todo = n /\ k.exc = main.exc /\ k.exit = main.exit
        /\ k.late = main.late /\ k.kept = TRUE
    BY <2>3 DEF Types, MainRecord
  <2> HIDE DEF m, r, k
  <2> QED BY <2>1, <2>2, <2>4, <2>5 DEF Stepped, n
<1>3. Types' BY <1>1, <1>2 DEF Types, Stepped
<1>4. Reasons' BY <1>1, <1>2 DEF Reasons, ZeroMeansAsked, Stepped
<1>5. Arming' /\ Draining' BY <1>1, <1>2 DEF Arming, Draining, Over, Stepped
<1>6. Announcing' BY <1>1, <1>2 DEF Announcing, PastConnect, Over, Services, Stepped
<1>7. TakenDown'
  <2>1. \A s \in StepNames : Done(s) => Done(s)' BY <1>1, <1>2 DEF Stepped, Sets, Done, StepNames, Services
  <2>2. "unready" \in StepNames => Done("unready")'
    BY <1>1, <1>2, DownOrder DEF Stepped, Sets, Done, StepNames, Services
  <2>3. svc'["sync"] = svc["sync"] BY <1>1, <1>2 DEF Sets, Services
  <2> QED BY <1>1, <1>2, <2>1, <2>2, <2>3, DownStep
<1>8. BroughtUp' BY <1>1, <1>2 DEF BroughtUp, Services, Stepped
<1> QED BY <1>3, <1>4, <1>5, <1>6, <1>7, <1>8

\* A reconnect that still waits is cancelled.
LEMMA InvStopReconnect ==
    ASSUME CleanInv, StopReconnect
    PROVE  CleanInv'
<1> USE DEF CleanInv, ReadyInv
<1>1. UNCHANGED <<config, stop, asked, fatal, svc, syncs, file, published, rows, storing, client, connects,
                  drain, timer, packet>>
  BY DEF StopReconnect, ready, mesh, drains, map
<1>2. Stepped("reconnect") /\ main'.kept = main.kept /\ main'.late = main.late BY NextFields DEF StopReconnect
<1>3. /\ conn' \in ConnRecord /\ conn'.pending = conn.pending /\ conn'.armed = conn.armed /\ conn'.ok = conn.ok
      /\ conn' = conn \/ (conn.pc = "scheduled" /\ conn'.pc = "idle")
  BY DEF StopReconnect, Types, ConnRecord, ConnPcs
<1>4. Types' BY <1>1, <1>2, <1>3 DEF Types, Stepped
<1>5. Reasons' BY <1>1, <1>2, <1>3 DEF Reasons, ZeroMeansAsked, Stepped
<1>6. Arming' /\ Draining' BY <1>1, <1>2, <1>3 DEF Arming, Draining, Over, Stepped
<1>7. Announcing' BY <1>1, <1>2, <1>3 DEF Announcing, PastConnect, Over, Services, Stepped
<1>8. TakenDown'
  <2>1. \A s \in StepNames : Done(s) => Done(s)' BY <1>1, <1>2, <1>3 DEF Stepped, Sets, Done, StepNames, Services
  <2>2. "reconnect" \in StepNames => Done("reconnect")'
    BY <1>1, <1>2, <1>3 DEF Stepped, Sets, Done, StepNames, Services
  <2>3. svc'["sync"] = svc["sync"] BY <1>1, <1>2, <1>3 DEF Sets, Services
  <2> QED BY <1>1, <1>2, <2>1, <2>2, <2>3, DownStep
<1>9. BroughtUp' BY <1>1, <1>2, <1>3 DEF BroughtUp, Services, Stepped
<1> QED BY <1>4, <1>5, <1>6, <1>7, <1>8, <1>9

\* A blocking step of the shutdown starts its thread.
LEMMA InvStartStep ==
    ASSUME CleanInv, NEW task \in {"plugins", "queue"}, StartStep(task)
    PROVE  CleanInv'
<1> USE DEF CleanInv, ReadyInv
<1>1. UNCHANGED <<config, stop, asked, fatal, syncs, file, published, rows, storing, client, connects, conn,
                  drain, timer, packet>>
  BY DEF StartStep, ready, mesh, drains, map
<1>2. Stepped(task) /\ main'.kept = main.kept /\ main'.late = main.late BY NextFields DEF StartStep
<1>3. Sets(task, IF svc[task] = "off" THEN "off" ELSE "stopping") BY SetsFields DEF StartStep, Services, States
<1>4. Types' BY <1>1, <1>2, <1>3 DEF Types, Stepped, Sets
<1>5. Reasons' BY <1>1, <1>2, <1>3 DEF Reasons, ZeroMeansAsked, Stepped, Sets
<1>6. Arming' /\ Draining' BY <1>1, <1>2, <1>3 DEF Arming, Draining, Over, Stepped, Sets
<1>7. Announcing' BY <1>1, <1>2, <1>3 DEF Announcing, PastConnect, Over, Services, Stepped, Sets
<1>8. TakenDown'
  <2>1. \A s \in StepNames : Done(s) => Done(s)' BY <1>1, <1>2, <1>3 DEF Stepped, Sets, Done, StepNames, Services
  <2>2. task \in StepNames => Done(task)'
    BY <1>1, <1>2, <1>3 DEF Stepped, Sets, Done, StepNames, Services
  <2>3. svc'["sync"] = svc["sync"] BY <1>1, <1>2, <1>3 DEF Sets, Services
  <2> QED BY <1>1, <1>2, <2>1, <2>2, <2>3, DownStep
<1>9. BroughtUp' BY <1>1, <1>2, <1>3 DEF BroughtUp, Services, Stepped, Sets
<1> QED BY <1>4, <1>5, <1>6, <1>7, <1>8, <1>9

\* The wait for such a thread is over.
LEMMA InvEndStep ==
    ASSUME CleanInv, NEW wait \in {"plugins_wait", "queue_wait"}, EndStep(wait)
    PROVE  CleanInv'
<1> USE DEF CleanInv, ReadyInv
<1>1. UNCHANGED <<config, stop, asked, fatal, svc, syncs, file, published, rows, storing, client, connects,
                  conn, drain, timer, packet>>
  BY DEF EndStep, ready, mesh, drains, map
<1>2. Stepped(wait) /\ main'.kept = main.kept /\ main'.late = main.late BY NextFields DEF EndStep
<1>3. Types' BY <1>1, <1>2 DEF Types, Stepped
<1>4. Reasons' BY <1>1, <1>2 DEF Reasons, ZeroMeansAsked, Stepped
<1>5. Arming' /\ Draining' BY <1>1, <1>2 DEF Arming, Draining, Over, Stepped
<1>6. Announcing' BY <1>1, <1>2 DEF Announcing, PastConnect, Over, Services, Stepped
<1>7. TakenDown'
  <2>1. \A s \in StepNames : Done(s) => Done(s)' BY <1>1, <1>2 DEF Stepped, Sets, Done, StepNames, Services
  <2>2. wait \notin StepNames BY DEF StepNames
  <2>3. svc'["sync"] = svc["sync"] BY <1>1, <1>2 DEF Sets, Services
  <2> QED BY <1>1, <1>2, <2>1, <2>2, <2>3, DownStep
<1>8. BroughtUp' BY <1>1, <1>2 DEF BroughtUp, Services, Stepped
<1> QED BY <1>3, <1>4, <1>5, <1>6, <1>7, <1>8

\* The Matrix client is closed.
LEMMA InvCloseMatrix ==
    ASSUME CleanInv, CloseMatrix
    PROVE  CleanInv'
<1> USE DEF CleanInv, ReadyInv
<1>1. UNCHANGED <<config, stop, asked, fatal, syncs, file, published, rows, storing, client, connects, conn,
                  drain, timer, packet>>
  BY DEF CloseMatrix, ready, mesh, drains, map
<1>2. Stepped("matrix") /\ main'.kept = main.kept /\ main'.late = main.late BY NextFields DEF CloseMatrix
<1>3. \E v \in {"off", "stopping", "left"} : /\ Sets("matrix", v) /\ (v = "left" => svc["matrix"] = "left")
                                            /\ (svc["matrix"] = "off" => v = "off")
  <2> "matrix" \in Services /\ {"off", "stopping", "left"} \subseteq States BY DEF Services, States
  <2>1. CASE svc' = [svc EXCEPT !["matrix"] = IF @ = "left" THEN @ ELSE "off"]
    <3> DEFINE v == IF svc["matrix"] = "left" THEN "left" ELSE "off"
    <3>1. v \in {"off", "stopping", "left"} /\ svc' = [svc EXCEPT !["matrix"] = v] BY <2>1
    <3> QED BY <3>1, SetsFields
  <2>2. CASE svc["matrix"] = "on" /\ svc' = [svc EXCEPT !["matrix"] = "stopping"] BY <2>2, SetsFields
  <2> QED BY <2>1, <2>2 DEF CloseMatrix
<1>4. Types' BY <1>1, <1>2, <1>3 DEF Types, Stepped, Sets
<1>5. Reasons' BY <1>1, <1>2, <1>3 DEF Reasons, ZeroMeansAsked, Stepped, Sets
<1>6. Arming' /\ Draining' BY <1>1, <1>2, <1>3 DEF Arming, Draining, Over, Stepped, Sets
<1>7. Announcing' BY <1>1, <1>2, <1>3 DEF Announcing, PastConnect, Over, Services, Stepped, Sets
<1>8. TakenDown'
  <2>1. \A s \in StepNames : Done(s) => Done(s)' BY <1>1, <1>2, <1>3 DEF Stepped, Sets, Done, StepNames, Services
  <2>2. "matrix" \in StepNames => Done("matrix")'
    BY <1>1, <1>2, <1>3 DEF Stepped, Sets, Done, StepNames, Services
  <2>3. svc'["sync"] = svc["sync"] BY <1>1, <1>2, <1>3 DEF Sets, Services
  <2> QED BY <1>1, <1>2, <2>1, <2>2, <2>3, DownStep
<1>9. BroughtUp' BY <1>1, <1>2, <1>3 DEF BroughtUp, Services, Stepped, Sets
<1> QED BY <1>4, <1>5, <1>6, <1>7, <1>8, <1>9

\* The connection to the mesh node is closed.
LEMMA InvCloseMesh ==
    ASSUME CleanInv, CloseMesh
    PROVE  CleanInv'
<1> USE DEF CleanInv, ReadyInv
<1>1. /\ client' = FALSE
      /\ UNCHANGED <<config, stop, asked, fatal, svc, syncs, file, published, rows, storing, connects, conn,
                     drain, timer, packet>>
  BY DEF CloseMesh, ready, mesh, drains, map
<1>2. Stepped("mesh") /\ main'.kept = main.kept /\ main'.late = main.late BY NextFields DEF CloseMesh
<1>3. stop BY <1>2 DEF Stepped, Reasons
<1>4. Types' BY <1>1, <1>2, <1>3 DEF Types, Stepped
<1>5. Reasons' BY <1>1, <1>2, <1>3 DEF Reasons, ZeroMeansAsked, Stepped
<1>6. Arming' /\ Draining' BY <1>1, <1>2, <1>3 DEF Arming, Draining, Over, Stepped
<1>7. Announcing' BY <1>1, <1>2, <1>3 DEF Announcing, PastConnect, Over, Services, Stepped
<1>8. TakenDown'
  <2>1. \A s \in StepNames : Done(s) => Done(s)' BY <1>1, <1>2, <1>3 DEF Stepped, Sets, Done, StepNames, Services
  <2>2. "mesh" \in StepNames => Done("mesh")'
    BY <1>1, <1>2, <1>3 DEF Stepped, Sets, Done, StepNames, Services
  <2>3. svc'["sync"] = svc["sync"] BY <1>1, <1>2, <1>3 DEF Sets, Services
  <2> QED BY <1>1, <1>2, <2>1, <2>2, <2>3, DownStep
<1>9. BroughtUp' BY <1>1, <1>2, <1>3 DEF BroughtUp, Services, Stepped
<1> QED BY <1>4, <1>5, <1>6, <1>7, <1>8, <1>9

\* The message map is wiped at the end.
LEMMA InvWipeAtEnd ==
    ASSUME CleanInv, WipeAtEnd
    PROVE  CleanInv'
<1> USE DEF CleanInv, ReadyInv
<1>1. UNCHANGED <<config, stop, asked, fatal, svc, syncs, file, published, storing, client, connects, conn, drain,
                  timer, packet>>
  BY DEF WipeAtEnd, ready, mesh, drains
<1>2. /\ Stepped("wipe") /\ main'.kept = main.kept
      /\ main'.late \/ (~storing /\ svc["queue"] = "off" /\ svc["matrix"] = "off")
  <2> DEFINE n == Tail(main.todo)
             l == storing \/ svc["queue"] # "off" \/ svc["matrix"] # "off"
             r == [main EXCEPT !.todo = n, !.late = l]
  <2>1. main.pc = "down" /\ main.todo # <<>> /\ Head(main.todo) = "wipe" BY DEF WipeAtEnd, Head1
  <2>2. main' = r BY DEF WipeAtEnd
  <2>3. n \in Seq(Steps) /\ l \in BOOLEAN BY <2>1 DEF Types, MainRecord
  <2>4. l \/ (~storing /\ svc["queue"] = "off" /\ svc["matrix"] = "off") OBVIOUS
  <2> HIDE DEF n, l
  <2>5. /\ r \in MainRecord /\ r.pc = main.pc /\ r.todo = n
        /\ r.exc = main.exc /\ r.exit = main.exit /\ r.kept = main.kept /\ r.late = l
    BY <2>3 DEF Types, MainRecord
  <2> HIDE DEF r
  <2> QED BY <2>1, <2>2, <2>4, <2>5 DEF Stepped, n
<1>3. rows' \in BOOLEAN /\ (rows' => rows) /\ (config.wipe => ~rows') BY DEF WipeAtEnd, Types
<1>4. Types' BY <1>1, <1>2, <1>3 DEF Types, Stepped
<1>5. Reasons' BY <1>1, <1>2, <1>3 DEF Reasons, ZeroMeansAsked, Stepped
<1>6. Arming' /\ Draining' BY <1>1, <1>2, <1>3 DEF Arming, Draining, Over, Stepped
<1>7. Announcing' BY <1>1, <1>2, <1>3 DEF Announcing, PastConnect, Over, Services, Stepped
<1>8. TakenDown'
  <2>1. Done("wipe")' BY <1>1, <1>2, <1>3 DEF Stepped, Done
  <2>2. \A s \in StepNames : Done(s) => Done(s)' BY <1>1, <1>2, <1>3, <2>1 DEF Stepped, Done, StepNames, Services
  <2>3. svc'["sync"] = svc["sync"] BY <1>1, <1>2, <1>3 DEF Sets, Services
  <2> QED BY <1>1, <1>2, <2>1, <2>2, <2>3, DownStep
<1>9. BroughtUp' BY <1>1, <1>2, <1>3 DEF BroughtUp, Services, Stepped
<1> QED BY <1>4, <1>5, <1>6, <1>7, <1>8, <1>9

\* main() has taken everything down.
LEMMA InvExit ==
    ASSUME CleanInv, Exit
    PROVE  CleanInv'
<1> USE DEF CleanInv, ReadyInv
<1>1. /\ main.pc = "down" /\ main.todo = <<>>
      /\ UNCHANGED <<config, stop, asked, fatal, svc, syncs, file, published, rows, storing, client, connects,
                     conn, drain, timer, packet>>
  BY DEF Exit, ready, mesh, drains, map
<1>2. \/ Ends(1)
      \/ Ends(0) /\ main.exc # "error" /\ ~(fatal /\ main.exc = "none")
  BY EndsFields DEF Exit
<1>3. main.exit = 0 BY <1>1 DEF BroughtUp
<1>4. Types' BY <1>1, <1>2, <1>3 DEF Types, Ends
<1>5. Reasons' BY <1>1, <1>2, <1>3 DEF Reasons, ZeroMeansAsked, Ends, Types, MainRecord
<1>6. Arming' /\ Draining' BY <1>1, <1>2, <1>3 DEF Arming, Draining, Over, Ends
<1>7. Announcing' BY <1>1, <1>2, <1>3 DEF Announcing, PastConnect, Over, Services, Ends
<1>8. TakenDown'
  <2>1. main'.todo = main.todo /\ main'.pc = "ended" /\ Left' = Left BY <1>2 DEF Ends, Left
  <2>2. \A s \in StepNames : Done(s) => Done(s)' BY <1>1, <1>2, <1>3 DEF Ends, Done, StepNames
  <2> QED BY <1>1, <2>1, <2>2 DEF TakenDown
<1>9. BroughtUp' BY <1>1, <1>2, <1>3 DEF BroughtUp, Services, Ends
<1> QED BY <1>4, <1>5, <1>6, <1>7, <1>8, <1>9

-----------------------------------------------------------------------------
\* The connecting thread goes on to pc, or starts afresh.
LEMMA ToConnFields ==
    ASSUME Types, NEW place \in ConnPcs, ToConn(place)
    PROVE  /\ conn' \in ConnRecord /\ conn'.pc = place /\ conn'.pending = conn.pending
           /\ conn'.armed = conn.armed /\ conn'.ok = conn.ok
<1> DEFINE r == [conn EXCEPT !.pc = place]
<1>1. /\ r \in ConnRecord /\ r.pc = place /\ r.pending = conn.pending /\ r.armed = conn.armed /\ r.ok = conn.ok
  BY DEF Types, ConnRecord
<1>2. conn' = r BY DEF ToConn
<1> HIDE DEF r
<1> QED BY <1>1, <1>2

\* The timer of a drain that is given up is cancelled, unless it is already at work.
LEMMA CancelledFields ==
    ASSUME Types, NEW d \in Nat
    PROVE  /\ Cancelled(d) \in [Drains -> {"none", "waiting", "signal", "again"}]
           /\ \A e \in Drains : Cancelled(d)[e] = "signal" => timer[e] = "signal"
BY DEF Types, Cancelled, None

\* The queue has a row to store.
LEMMA InvMapSent ==
    ASSUME CleanInv, MapSent
    PROVE  CleanInv'
<1> USE DEF CleanInv, ReadyInv, None
<1>1. UNCHANGED <<config, main, stop, asked, fatal, svc, syncs, file, published>> BY BesideFrame DEF Beside
<1>2. /\ svc["queue"] # "off" /\ storing' = TRUE /\ rows' = rows
      /\ UNCHANGED <<client, connects, conn, drain, timer, packet>>
  BY DEF MapSent, mesh, drains
<1>3. Types' BY <1>1, <1>2 DEF Types
<1>4. Reasons' BY <1>1 DEF Reasons, ZeroMeansAsked
<1>5. Arming' BY <1>1, <1>2 DEF Arming
<1>6. Draining' BY <1>1, <1>2 DEF Draining, Over, Arming
<1>7. Announcing' BY <1>1, <1>2 DEF Announcing, PastConnect, Over
<1>8. TakenDown'
  <2>1. svc'["sync"] = svc["sync"] /\ \A s \in StepNames : Done(s) => Done(s)' BY <1>1, <1>2 DEF Done, StepNames
  <2> QED BY <1>1, <2>1, DownKept DEF TakenDown
<1>9. BroughtUp' BY <1>1, <1>2 DEF BroughtUp
<1> QED BY <1>3, <1>4, <1>5, <1>6, <1>7, <1>8, <1>9

\* matrix_relay() has a row to store.
LEMMA InvMapRelayed ==
    ASSUME CleanInv, MapRelayed
    PROVE  CleanInv'
<1> USE DEF CleanInv, ReadyInv, None
<1>1. UNCHANGED <<config, main, stop, asked, fatal, svc, syncs, file, published>> BY BesideFrame DEF Beside
<1>2. /\ svc["matrix"] # "off" /\ storing' = TRUE /\ rows' = rows
      /\ UNCHANGED <<client, connects, conn, drain, timer, packet>>
  BY DEF MapRelayed, mesh, drains
<1>3. Types' BY <1>1, <1>2 DEF Types
<1>4. Reasons' BY <1>1 DEF Reasons, ZeroMeansAsked
<1>5. Arming' BY <1>1, <1>2 DEF Arming
<1>6. Draining' BY <1>1, <1>2 DEF Draining, Over, Arming
<1>7. Announcing' BY <1>1, <1>2 DEF Announcing, PastConnect, Over
<1>8. TakenDown'
  <2>1. svc'["sync"] = svc["sync"] /\ \A s \in StepNames : Done(s) => Done(s)' BY <1>1, <1>2 DEF Done, StepNames
  <2> QED BY <1>1, <2>1, DownKept DEF TakenDown
<1>9. BroughtUp' BY <1>1, <1>2 DEF BroughtUp
<1> QED BY <1>3, <1>4, <1>5, <1>6, <1>7, <1>8, <1>9

\* The worker commits the row.
LEMMA InvStoreRow ==
    ASSUME CleanInv, StoreRow
    PROVE  CleanInv'
<1> USE DEF CleanInv, ReadyInv, None
<1>1. UNCHANGED <<config, main, stop, asked, fatal, svc, syncs, file, published>> BY BesideFrame DEF Beside
<1>2. /\ storing /\ storing' = FALSE /\ rows' = TRUE
      /\ UNCHANGED <<client, connects, conn, drain, timer, packet>>
  BY DEF StoreRow, mesh, drains
<1>3. Types' BY <1>1, <1>2 DEF Types
<1>4. Reasons' BY <1>1 DEF Reasons, ZeroMeansAsked
<1>5. Arming' BY <1>1, <1>2 DEF Arming
<1>6. Draining' BY <1>1, <1>2 DEF Draining, Over, Arming
<1>7. Announcing' BY <1>1, <1>2 DEF Announcing, PastConnect, Over
<1>8. TakenDown'
  <2>1. svc'["sync"] = svc["sync"] /\ \A s \in StepNames : Done(s) => Done(s)' BY <1>1, <1>2 DEF Done, StepNames
  <2> QED BY <1>1, <2>1, DownKept DEF TakenDown
<1>9. BroughtUp' BY <1>1, <1>2 DEF BroughtUp
<1> QED BY <1>3, <1>4, <1>5, <1>6, <1>7, <1>8, <1>9

\* The link is lost.
LEMMA InvLinkLost ==
    ASSUME CleanInv, LinkLost
    PROVE  CleanInv'
<1> USE DEF CleanInv, ReadyInv, None
<1>1. UNCHANGED <<config, main, stop, asked, fatal, svc, syncs, file, published>>
  BY BesideFrame DEF Beside, Connect, Timers
<1>2. /\ client /\ conn.pc = "idle" /\ client' = FALSE /\ main.pc # "connecting" /\ ~stop
      /\ UNCHANGED <<rows, storing, connects, drain, timer, packet>>
  BY DEF LinkLost, drains, map
<1>3. /\ conn' \in ConnRecord /\ conn'.pc = "scheduled" /\ conn'.pending = conn.pending
      /\ conn'.armed = conn.armed /\ conn'.ok = conn.ok
  BY DEF LinkLost, Types, ConnRecord, ConnPcs
<1>4. Types' BY <1>1, <1>2, <1>3 DEF Types
<1>5. Reasons' BY <1>1 DEF Reasons, ZeroMeansAsked
<1>6. Arming' BY <1>1, <1>2, <1>3 DEF Arming
<1>7. Draining' BY <1>1, <1>2, <1>3 DEF Draining, Over, Arming
<1>8. Announcing' BY <1>1, <1>2, <1>3 DEF Announcing, PastConnect, Over
<1>9. TakenDown'
  <2>1. svc'["sync"] = svc["sync"] /\ \A s \in StepNames : Done(s) => Done(s)'
    BY <1>1, <1>2, <1>3 DEF Done, StepNames
  <2> QED BY <1>1, <2>1, DownKept DEF TakenDown
<1>10. BroughtUp' BY <1>1, <1>2, <1>3 DEF BroughtUp
<1> QED BY <1>4, <1>5, <1>6, <1>7, <1>8, <1>9, <1>10

\* reconnect() starts an attempt, or sees the shutdown.
LEMMA InvReconnect ==
    ASSUME CleanInv, Reconnect
    PROVE  CleanInv'
<1> USE DEF CleanInv, ReadyInv, None
<1>1. UNCHANGED <<config, main, stop, asked, fatal, svc, syncs, file, published>>
  BY BesideFrame DEF Beside, Connect, Timers
<1>2. conn.pc = "scheduled" /\ UNCHANGED <<rows, storing, client, drain, timer, packet>>
  BY DEF Reconnect, drains, map
<1>3. \/ /\ conn' \in ConnRecord /\ conn'.pc = "idle" /\ conn'.pending = conn.pending
         /\ conn'.armed = conn.armed /\ conn'.ok = conn.ok /\ connects' = connects
      \/ /\ conn' \in ConnRecord /\ conn'.pc = "reset" /\ conn'.pending = FALSE /\ conn'.armed = None
         /\ conn'.ok = FALSE /\ connects' = connects + 1
  <2>1. CASE stop /\ ToConn("idle") /\ UNCHANGED connects BY <2>1, ToConnFields DEF ConnPcs
  <2>2. CASE /\ connects' = connects + 1
             /\ conn' = [pc |-> "reset", pending |-> FALSE, armed |-> None, ok |-> FALSE]
    BY <2>2 DEF ConnPcs, ConnRecord
  <2> QED BY <2>1, <2>2 DEF Reconnect
<1>4. connects' \in Nat /\ connects' # 0 BY <1>2, <1>3 DEF Types, Arming
<1>5. Types' BY <1>1, <1>2, <1>3, <1>4 DEF Types
<1>6. Reasons' BY <1>1 DEF Reasons, ZeroMeansAsked
<1>7. Arming' BY <1>1, <1>2, <1>3, <1>4 DEF Arming
<1>8. Draining' BY <1>1, <1>2, <1>3, <1>4 DEF Draining, Over, Arming
<1>9. Announcing' BY <1>1, <1>2, <1>3, <1>4 DEF Announcing, PastConnect, Over
<1>10. TakenDown'
  <2>1. svc'["sync"] = svc["sync"] /\ \A s \in StepNames : Done(s) => Done(s)'
    BY <1>1, <1>2, <1>3, <1>4 DEF Done, StepNames
  <2> QED BY <1>1, <2>1, DownKept DEF TakenDown
<1>11. BroughtUp' BY <1>1, <1>2, <1>3, <1>4 DEF BroughtUp
<1> QED BY <1>5, <1>6, <1>7, <1>8, <1>9, <1>10, <1>11

\* An attempt to connect fails.
LEMMA InvAttemptFails ==
    ASSUME CleanInv, AttemptFails
    PROVE  CleanInv'
<1> USE DEF CleanInv, ReadyInv, None
<1>1. UNCHANGED <<config, main, stop, asked, fatal, svc, syncs, file, published>>
  BY BesideFrame DEF Beside, Connect, Timers
<1>2. conn.pc \in {"reset", "publish", "arm", "finish"}
      /\ UNCHANGED <<rows, storing, client, connects, drain, timer, packet>>
  BY DEF AttemptFails, drains, map
<1>3. /\ conn' \in ConnRecord /\ conn'.pc = "rollback" /\ conn'.pending = conn.pending
      /\ conn'.armed = conn.armed /\ conn'.ok = conn.ok
  BY ToConnFields DEF AttemptFails, ConnPcs
<1>4. Types' BY <1>1, <1>2, <1>3 DEF Types
<1>5. Reasons' BY <1>1 DEF Reasons, ZeroMeansAsked
<1>6. Arming' BY <1>1, <1>2, <1>3 DEF Arming
<1>7. Draining' BY <1>1, <1>2, <1>3 DEF Draining, Over, Arming
<1>8. Announcing' BY <1>1, <1>2, <1>3 DEF Announcing, PastConnect, Over
<1>9. TakenDown'
  <2>1. svc'["sync"] = svc["sync"] /\ \A s \in StepNames : Done(s) => Done(s)'
    BY <1>1, <1>2, <1>3 DEF Done, StepNames
  <2> QED BY <1>1, <2>1, DownKept DEF TakenDown
<1>10. BroughtUp' BY <1>1, <1>2, <1>3 DEF BroughtUp
<1> QED BY <1>4, <1>5, <1>6, <1>7, <1>8, <1>9, <1>10

\* The session is reset: a drain that is not active ends.
LEMMA InvResetSession ==
    ASSUME CleanInv, ResetSession
    PROVE  CleanInv'
<1> USE DEF CleanInv, ReadyInv, None
<1>1. UNCHANGED <<config, main, stop, asked, fatal, svc, syncs, file, published>>
  BY BesideFrame DEF Beside, Connect, Timers
<1>2. conn.pc = "reset" /\ UNCHANGED <<rows, storing, client, connects, timer, packet>>
  BY DEF ResetSession, map
<1>3. /\ conn' \in ConnRecord /\ conn'.pc \in {"signal", "publish"} /\ conn'.armed = conn.armed
      /\ conn'.ok = conn.ok
      /\ (conn'.pending <=> ~drain.applied) /\ (conn'.pc = "signal" => ~Active)
  BY DEF ResetSession, Types, ConnRecord, ConnPcs, DrainRecord
<1>4. /\ drain' \in DrainRecord /\ (drain'.deadline = drain.deadline \/ drain'.deadline = None)
      /\ drain'.window = drain.window /\ drain'.event = drain.event /\ drain'.applied = drain.applied
      /\ conn'.pc = "signal" => drain'.deadline = None
  BY <1>3 DEF ResetSession, Types, DrainRecord
<1>5. Types' BY <1>1, <1>2, <1>3, <1>4 DEF Types
<1>6. Reasons' BY <1>1 DEF Reasons, ZeroMeansAsked
<1>7. Arming' BY <1>1, <1>2, <1>3, <1>4 DEF Arming
<1>8. Draining' BY <1>1, <1>2, <1>3, <1>4 DEF Draining, Over, Arming
<1>9. Announcing' BY <1>1, <1>2, <1>3, <1>4 DEF Announcing, PastConnect, Over
<1>10. TakenDown'
  <2>1. svc'["sync"] = svc["sync"] /\ \A s \in StepNames : Done(s) => Done(s)'
    BY <1>1, <1>2, <1>3, <1>4 DEF Done, StepNames
  <2> QED BY <1>1, <2>1, DownKept DEF TakenDown
<1>11. BroughtUp' BY <1>1, <1>2, <1>3, <1>4 DEF BroughtUp
<1> QED BY <1>5, <1>6, <1>7, <1>8, <1>9, <1>10, <1>11

\* The connecting thread signals the end of the drain.
LEMMA InvSignalFromConnect ==
    ASSUME CleanInv, SignalFromConnect
    PROVE  CleanInv'
<1> USE DEF CleanInv, ReadyInv, None
<1>1. UNCHANGED <<config, main, stop, asked, fatal, svc, syncs, file, published>>
  BY BesideFrame DEF Beside, Connect, Timers
<1>2. conn.pc \in {"signal", "start_failed"} /\ UNCHANGED <<rows, storing, client, connects, timer, packet>>
  BY DEF SignalFromConnect, map
<1>3. /\ conn' \in ConnRecord /\ conn'.pending = conn.pending /\ conn'.armed = conn.armed /\ conn'.ok = conn.ok
      /\ conn'.pc = (IF conn.pc = "signal" THEN "publish" ELSE "finish")
  BY ToConnFields DEF SignalFromConnect, ConnPcs
<1>4. /\ drain' \in DrainRecord /\ drain'.deadline = drain.deadline
      /\ drain'.window = drain.window /\ drain'.event = TRUE /\ drain'.applied = drain.applied
  BY DEF SignalFromConnect, Types, DrainRecord
<1>5. Types' BY <1>1, <1>2, <1>3, <1>4 DEF Types
<1>6. Reasons' BY <1>1 DEF Reasons, ZeroMeansAsked
<1>7. Arming' BY <1>1, <1>2, <1>3, <1>4 DEF Arming
<1>8. Draining' BY <1>1, <1>2, <1>3, <1>4 DEF Draining, Over, Arming
<1>9. Announcing' BY <1>1, <1>2, <1>3, <1>4 DEF Announcing, PastConnect, Over
<1>10. TakenDown'
  <2>1. svc'["sync"] = svc["sync"] /\ \A s \in StepNames : Done(s) => Done(s)'
    BY <1>1, <1>2, <1>3, <1>4 DEF Done, StepNames
  <2> QED BY <1>1, <2>1, DownKept DEF TakenDown
<1>11. BroughtUp' BY <1>1, <1>2, <1>3, <1>4 DEF BroughtUp
<1> QED BY <1>5, <1>6, <1>7, <1>8, <1>9, <1>10, <1>11

\* The client is set, unless the relay stops.
LEMMA InvPublishClient ==
    ASSUME CleanInv, PublishClient
    PROVE  CleanInv'
<1> USE DEF CleanInv, ReadyInv, None
<1>1. UNCHANGED <<config, main, stop, asked, fatal, svc, syncs, file, published>>
  BY BesideFrame DEF Beside, Connect, Timers
<1>2. /\ conn.pc = "publish" /\ client' \in BOOLEAN /\ (client' <=> ~stop)
      /\ UNCHANGED <<rows, storing, connects, drain, timer, packet>>
  BY DEF PublishClient, drains, Types, map
<1>3. /\ conn' \in ConnRecord /\ conn'.pending = conn.pending /\ conn'.armed = conn.armed /\ conn'.ok = conn.ok
      /\ conn'.pc \in {"rollback", "arm", "finish"} /\ (conn'.pc = "finish" => ~conn.pending)
  BY ToConnFields DEF PublishClient, ConnPcs
<1>4. Types' BY <1>1, <1>2, <1>3 DEF Types
<1>5. Reasons' BY <1>1 DEF Reasons, ZeroMeansAsked
<1>6. Arming' BY <1>1, <1>2, <1>3 DEF Arming
<1>7. Draining' BY <1>1, <1>2, <1>3 DEF Draining, Over, Arming
<1>8. Announcing' BY <1>1, <1>2, <1>3 DEF Announcing, PastConnect, Over
<1>9. TakenDown'
  <2>1. svc'["sync"] = svc["sync"] /\ \A s \in StepNames : Done(s) => Done(s)'
    BY <1>1, <1>2, <1>3 DEF Done, StepNames
  <2> QED BY <1>1, <2>1, DownKept DEF TakenDown
<1>10. BroughtUp' BY <1>1, <1>2, <1>3 DEF BroughtUp
<1> QED BY <1>4, <1>5, <1>6, <1>7, <1>8, <1>9, <1>10

\* The drain is armed once.
LEMMA InvArmDrain ==
    ASSUME CleanInv, ArmDrain
    PROVE  CleanInv'
<1> USE DEF CleanInv, ReadyInv, None
<1>1. UNCHANGED <<config, main, stop, asked, fatal, svc, syncs, file, published>>
  BY BesideFrame DEF Beside, Connect, Timers
<1>2. conn.pc = "arm" /\ UNCHANGED <<rows, storing, client, connects, timer, packet>>
  BY DEF ArmDrain, map
<1>3. connects # 0 /\ connects \in Nat BY <1>2 DEF Arming, Types
<1>4. \/ /\ conn' \in ConnRecord /\ conn'.pending = conn.pending /\ conn'.armed = conn.armed /\ conn'.ok = conn.ok
         /\ conn'.pc \in {"rollback", "finish"} /\ (conn'.pc = "finish" => drain.applied) /\ drain' = drain
      \/ /\ conn' \in ConnRecord /\ conn'.pending = conn.pending /\ conn'.armed = connects /\ conn'.ok = conn.ok
         /\ conn'.pc = "clear" /\ ~drain.applied
         /\ drain' \in DrainRecord /\ drain'.deadline = connects /\ drain'.window = "open"
         /\ drain'.event = drain.event /\ drain'.applied = TRUE
  <2>1. CASE stop \/ drain.applied BY <2>1, ToConnFields DEF ArmDrain, ConnPcs
  <2>2. CASE ~stop /\ ~drain.applied
    <3> DEFINE r == [conn EXCEPT !.pc = "clear", !.armed = connects]
               e == [drain EXCEPT !.deadline = connects, !.window = "open", !.applied = TRUE]
    <3>1. conn' = r /\ drain' = e BY <2>2 DEF ArmDrain
    <3>2. r \in ConnRecord /\ r.pending = conn.pending /\ r.armed = connects /\ r.ok = conn.ok /\ r.pc = "clear"
      BY <1>3 DEF Types, ConnRecord, ConnPcs
    <3>3. /\ e \in DrainRecord /\ e.deadline = connects /\ e.window = "open" /\ e.event = drain.event
          /\ e.applied = TRUE
      BY <1>3 DEF Types, DrainRecord
    <3> HIDE DEF r, e
    <3> QED BY <2>2, <3>1, <3>2, <3>3
  <2> QED BY <2>1, <2>2 DEF Types, DrainRecord
<1>5. Types' BY <1>1, <1>2, <1>3, <1>4 DEF Types
<1>6. Reasons' BY <1>1 DEF Reasons, ZeroMeansAsked
<1>7. Arming' BY <1>1, <1>2, <1>3, <1>4 DEF Arming
<1>8. Draining' BY <1>1, <1>2, <1>3, <1>4 DEF Draining, Over, Arming
<1>9. Announcing' BY <1>1, <1>2, <1>3, <1>4 DEF Announcing, PastConnect, Over
<1>10. TakenDown'
  <2>1. svc'["sync"] = svc["sync"] /\ \A s \in StepNames : Done(s) => Done(s)'
    BY <1>1, <1>2, <1>3, <1>4 DEF Done, StepNames
  <2> QED BY <1>1, <2>1, DownKept DEF TakenDown
<1>11. BroughtUp' BY <1>1, <1>2, <1>3, <1>4 DEF BroughtUp
<1> QED BY <1>5, <1>6, <1>7, <1>8, <1>9, <1>10, <1>11

\* The event is cleared.
LEMMA InvClearEvent ==
    ASSUME CleanInv, ClearEvent
    PROVE  CleanInv'
<1> USE DEF CleanInv, ReadyInv, None
<1>1. UNCHANGED <<config, main, stop, asked, fatal, svc, syncs, file, published>>
  BY BesideFrame DEF Beside, Connect, Timers
<1>2. conn.pc = "clear" /\ UNCHANGED <<rows, storing, client, connects, timer, packet>>
  BY DEF ClearEvent, map
<1>3. /\ conn' \in ConnRecord /\ conn'.pending = conn.pending /\ conn'.armed = conn.armed /\ conn'.ok = conn.ok
      /\ conn'.pc = "schedule"
  BY ToConnFields DEF ClearEvent, ConnPcs
<1>4. /\ drain' \in DrainRecord /\ drain'.deadline = drain.deadline
      /\ drain'.window = drain.window /\ drain'.event = FALSE /\ drain'.applied = drain.applied
  BY DEF ClearEvent, Types, DrainRecord
<1>5. Types' BY <1>1, <1>2, <1>3, <1>4 DEF Types
<1>6. Reasons' BY <1>1 DEF Reasons, ZeroMeansAsked
<1>7. Arming' BY <1>1, <1>2, <1>3, <1>4 DEF Arming
<1>8. Draining' BY <1>1, <1>2, <1>3, <1>4 DEF Draining, Over, Arming
<1>9. Announcing' BY <1>1, <1>2, <1>3, <1>4 DEF Announcing, PastConnect, Over
<1>10. TakenDown'
  <2>1. svc'["sync"] = svc["sync"] /\ \A s \in StepNames : Done(s) => Done(s)'
    BY <1>1, <1>2, <1>3, <1>4 DEF Done, StepNames
  <2> QED BY <1>1, <2>1, DownKept DEF TakenDown
<1>11. BroughtUp' BY <1>1, <1>2, <1>3, <1>4 DEF BroughtUp
<1> QED BY <1>5, <1>6, <1>7, <1>8, <1>9, <1>10, <1>11

\* The timer of the drain is started, or does not start.
LEMMA InvScheduleTimer ==
    ASSUME CleanInv, ScheduleTimer
    PROVE  CleanInv'
<1> USE DEF CleanInv, ReadyInv, None
<1>1. UNCHANGED <<config, main, stop, asked, fatal, svc, syncs, file, published>>
  BY BesideFrame DEF Beside, Connect, Timers
<1>2. conn.pc = "schedule" /\ UNCHANGED <<rows, storing, client, connects, packet>>
  BY DEF ScheduleTimer, map
<1>3. /\ conn' \in ConnRecord /\ conn'.pending = conn.pending /\ conn'.armed = conn.armed /\ conn'.ok = conn.ok
      /\ conn'.pc \in {"finish", "start_failed"}
  BY ToConnFields DEF ScheduleTimer, ConnPcs
<1>4. /\ drain' \in DrainRecord
      /\ drain'.deadline = drain.deadline \/ drain'.deadline = None
      /\ conn'.pc = "start_failed" => drain'.deadline = None
      /\ drain'.window = drain.window /\ drain'.event = drain.event /\ drain'.applied = drain.applied
  <2> DEFINE r == [drain EXCEPT !.expiry = conn.armed]
             e == [drain EXCEPT !.expiry = None, !.deadline = None]
  <2>1. /\ r \in DrainRecord /\ r.deadline = drain.deadline /\ r.window = drain.window
        /\ r.event = drain.event /\ r.applied = drain.applied
    BY DEF Types, DrainRecord, ConnRecord
  <2>2. /\ e \in DrainRecord /\ e.deadline = None /\ e.window = drain.window
        /\ e.event = drain.event /\ e.applied = drain.applied
    BY DEF Types, DrainRecord
  <2>3. (drain' = r /\ ToConn("finish")) \/ drain' = e BY DEF ScheduleTimer
  <2>4. ToConn("finish") => conn'.pc = "finish" BY ToConnFields DEF ConnPcs
  <2> HIDE DEF r, e
  <2> QED BY <2>1, <2>2, <2>3, <2>4
<1>5. /\ timer' \in [Drains -> {"none", "waiting", "signal", "again"}]
      /\ \A e \in Drains : timer'[e] = "signal" => timer[e] = "signal"
  <2> DEFINE c == Cancelled(drain.expiry)
  <2>1. /\ c \in [Drains -> {"none", "waiting", "signal", "again"}]
        /\ \A e \in Drains : c[e] = "signal" => timer[e] = "signal"
    BY CancelledFields DEF Types, DrainRecord
  <2>2. timer' = c \/ timer' = [c EXCEPT ![conn.armed] = "waiting"] BY DEF ScheduleTimer
  <2> HIDE DEF c
  <2> QED BY <2>1, <2>2
<1>6. Types' BY <1>1, <1>2, <1>3, <1>4, <1>5 DEF Types
<1>7. Reasons' BY <1>1 DEF Reasons, ZeroMeansAsked
<1>8. Arming' BY <1>1, <1>2, <1>3, <1>4, <1>5 DEF Arming
<1>9. Draining' BY <1>1, <1>2, <1>3, <1>4, <1>5 DEF Draining, Over, Arming
<1>10. Announcing' BY <1>1, <1>2, <1>3, <1>4, <1>5 DEF Announcing, PastConnect, Over
<1>11. TakenDown'
  <2>1. svc'["sync"] = svc["sync"] /\ \A s \in StepNames : Done(s) => Done(s)'
    BY <1>1, <1>2, <1>3, <1>4, <1>5 DEF Done, StepNames
  <2> QED BY <1>1, <2>1, DownKept DEF TakenDown
<1>12. BroughtUp' BY <1>1, <1>2, <1>3, <1>4, <1>5 DEF BroughtUp
<1> QED BY <1>6, <1>7, <1>8, <1>9, <1>10, <1>11, <1>12

\* The connect is done, unless the relay stops.
LEMMA InvFinishConnect ==
    ASSUME CleanInv, FinishConnect
    PROVE  CleanInv'
<1> USE DEF CleanInv, ReadyInv, None
<1>1. UNCHANGED <<config, main, stop, asked, fatal, svc, syncs, file, published>>
  BY BesideFrame DEF Beside, Connect, Timers
<1>2. conn.pc = "finish" /\ UNCHANGED <<rows, storing, client, connects, drain, timer, packet>>
  BY DEF FinishConnect, drains, map
<1>3. /\ conn' \in ConnRecord /\ conn'.pending = conn.pending
      /\ \/ conn'.pc = "rollback" /\ conn'.ok = FALSE /\ conn'.armed = conn.armed /\ stop
         \/ conn'.pc = "idle" /\ conn'.ok = TRUE /\ conn'.armed = None /\ ~stop
  BY DEF FinishConnect, Types, ConnRecord, ConnPcs
<1>4. Types' BY <1>1, <1>2, <1>3 DEF Types
<1>5. Reasons' BY <1>1 DEF Reasons, ZeroMeansAsked
<1>6. Arming' BY <1>1, <1>2, <1>3 DEF Arming
<1>7. Draining' BY <1>1, <1>2, <1>3 DEF Draining, Over, Arming
<1>8. Announcing' BY <1>1, <1>2, <1>3 DEF Announcing, PastConnect, Over
<1>9. TakenDown'
  <2>1. svc'["sync"] = svc["sync"] /\ \A s \in StepNames : Done(s) => Done(s)'
    BY <1>1, <1>2, <1>3 DEF Done, StepNames
  <2> QED BY <1>1, <2>1, DownKept DEF TakenDown
<1>10. BroughtUp' BY <1>1, <1>2, <1>3 DEF BroughtUp
<1> QED BY <1>4, <1>5, <1>6, <1>7, <1>8, <1>9, <1>10

\* What the attempt has armed is disarmed.
LEMMA InvRollbackConnect ==
    ASSUME CleanInv, RollbackConnect
    PROVE  CleanInv'
<1> USE DEF CleanInv, ReadyInv, None
<1>1. UNCHANGED <<config, main, stop, asked, fatal, svc, syncs, file, published>>
  BY BesideFrame DEF Beside, Connect, Timers
<1>2. conn.pc = "rollback" /\ client' = FALSE /\ UNCHANGED <<rows, storing, connects, timer, packet>>
  BY DEF RollbackConnect, map
<1>3. /\ conn' \in ConnRecord /\ conn'.pending = conn.pending /\ conn'.armed = conn.armed /\ conn'.ok = conn.ok
      /\ \/ conn'.pc = "retry" /\ conn.armed = None
         \/ conn'.pc = "rollback_signal" /\ conn.armed # None
  BY ToConnFields DEF RollbackConnect, ConnPcs
<1>4. \/ conn.armed = None /\ drain' = drain /\ drain' \in DrainRecord
      \/ /\ conn.armed # None /\ drain' \in DrainRecord /\ drain'.deadline = None /\ drain'.applied = FALSE
         /\ drain'.event = drain.event
  <2> DEFINE e == [drain EXCEPT !.expiry = None, !.deadline = None, !.applied = FALSE]
  <2>1. e \in DrainRecord /\ e.deadline = None /\ e.applied = FALSE /\ e.event = drain.event
    BY DEF Types, DrainRecord
  <2>2. (conn.armed = None /\ drain' = drain) \/ (conn.armed # None /\ drain' = e) BY DEF RollbackConnect
  <2> HIDE DEF e
  <2> QED BY <2>1, <2>2 DEF Types
<1>5. Types' BY <1>1, <1>2, <1>3, <1>4 DEF Types
<1>6. Reasons' BY <1>1 DEF Reasons, ZeroMeansAsked
<1>7. Arming' BY <1>1, <1>2, <1>3, <1>4 DEF Arming
<1>8. Draining' BY <1>1, <1>2, <1>3, <1>4 DEF Draining, Over, Arming
<1>9. Announcing' BY <1>1, <1>2, <1>3, <1>4 DEF Announcing, PastConnect, Over
<1>10. TakenDown'
  <2>1. svc'["sync"] = svc["sync"] /\ \A s \in StepNames : Done(s) => Done(s)'
    BY <1>1, <1>2, <1>3, <1>4 DEF Done, StepNames
  <2> QED BY <1>1, <2>1, DownKept DEF TakenDown
<1>11. BroughtUp' BY <1>1, <1>2, <1>3, <1>4 DEF BroughtUp
<1> QED BY <1>5, <1>6, <1>7, <1>8, <1>9, <1>10, <1>11

\* The event of a disarmed drain is set, its timer cancelled.
LEMMA InvRollbackSignal ==
    ASSUME CleanInv, RollbackSignal
    PROVE  CleanInv'
<1> USE DEF CleanInv, ReadyInv, None
<1>1. UNCHANGED <<config, main, stop, asked, fatal, svc, syncs, file, published>>
  BY BesideFrame DEF Beside, Connect, Timers
<1>2. conn.pc = "rollback_signal" /\ UNCHANGED <<rows, storing, client, connects, packet>>
  BY DEF RollbackSignal, map
<1>3. /\ conn' \in ConnRecord /\ conn'.pending = conn.pending /\ conn'.armed = conn.armed /\ conn'.ok = conn.ok
      /\ conn'.pc = "retry"
  BY ToConnFields DEF RollbackSignal, ConnPcs
<1>4. /\ drain' \in DrainRecord /\ drain'.deadline = drain.deadline
      /\ drain'.window = drain.window /\ drain'.event = TRUE /\ drain'.applied = drain.applied
  BY DEF RollbackSignal, Types, DrainRecord
<1>5. /\ timer' \in [Drains -> {"none", "waiting", "signal", "again"}]
      /\ \A e \in Drains : timer'[e] = "signal" => timer[e] = "signal"
  BY CancelledFields DEF RollbackSignal, Types, ConnRecord
<1>6. Types' BY <1>1, <1>2, <1>3, <1>4, <1>5 DEF Types
<1>7. Reasons' BY <1>1 DEF Reasons, ZeroMeansAsked
<1>8. Arming' BY <1>1, <1>2, <1>3, <1>4, <1>5 DEF Arming
<1>9. Draining' BY <1>1, <1>2, <1>3, <1>4, <1>5 DEF Draining, Over, Arming
<1>10. Announcing' BY <1>1, <1>2, <1>3, <1>4, <1>5 DEF Announcing, PastConnect, Over
<1>11. TakenDown'
  <2>1. svc'["sync"] = svc["sync"] /\ \A s \in StepNames : Done(s) => Done(s)'
    BY <1>1, <1>2, <1>3, <1>4, <1>5 DEF Done, StepNames
  <2> QED BY <1>1, <2>1, DownKept DEF TakenDown
<1>12. BroughtUp' BY <1>1, <1>2, <1>3, <1>4, <1>5 DEF BroughtUp
<1> QED BY <1>6, <1>7, <1>8, <1>9, <1>10, <1>11, <1>12

\* Another attempt, or the end of the connect.
LEMMA InvRetryConnect ==
    ASSUME CleanInv, RetryConnect
    PROVE  CleanInv'
<1> USE DEF CleanInv, ReadyInv, None
<1>1. UNCHANGED <<config, main, stop, asked, fatal, svc, syncs, file, published>>
  BY BesideFrame DEF Beside, Connect, Timers
<1>2. conn.pc = "retry" /\ UNCHANGED <<rows, storing, client, drain, timer, packet>>
  BY DEF RetryConnect, drains, map
<1>3. /\ conn' \in ConnRecord /\ conn'.armed = None /\ conn'.ok = FALSE
      /\ \/ conn'.pc = "reset" /\ ~stop /\ connects' = connects + 1
         \/ conn'.pc = "idle" /\ connects' = connects
  <2> DEFINE r == [conn EXCEPT !.pc = "idle", !.ok = FALSE, !.armed = None]
             f == [pc |-> "reset", pending |-> FALSE, armed |-> None, ok |-> FALSE]
  <2>1. r \in ConnRecord /\ r.pc = "idle" /\ r.ok = FALSE /\ r.armed = None BY DEF Types, ConnRecord, ConnPcs
  <2>2. f \in ConnRecord /\ f.pc = "reset" /\ f.ok = FALSE /\ f.armed = None BY DEF ConnRecord, ConnPcs
  <2>3. (conn' = f /\ ~stop /\ connects' = connects + 1) \/ (conn' = r /\ connects' = connects)
    BY DEF RetryConnect
  <2> HIDE DEF r, f
  <2> QED BY <2>1, <2>2, <2>3
<1>4. connects' \in Nat /\ connects' # 0 BY <1>2, <1>3 DEF Types, Arming
<1>5. Types' BY <1>1, <1>2, <1>3, <1>4 DEF Types
<1>6. Reasons' BY <1>1 DEF Reasons, ZeroMeansAsked
<1>7. Arming' BY <1>1, <1>2, <1>3, <1>4 DEF Arming
<1>8. Draining' BY <1>1, <1>2, <1>3, <1>4 DEF Draining, Over, Arming
<1>9. Announcing' BY <1>1, <1>2, <1>3, <1>4 DEF Announcing, PastConnect, Over
<1>10. TakenDown'
  <2>1. svc'["sync"] = svc["sync"] /\ \A s \in StepNames : Done(s) => Done(s)'
    BY <1>1, <1>2, <1>3, <1>4 DEF Done, StepNames
  <2> QED BY <1>1, <2>1, DownKept DEF TakenDown
<1>11. BroughtUp' BY <1>1, <1>2, <1>3, <1>4 DEF BroughtUp
<1> QED BY <1>5, <1>6, <1>7, <1>8, <1>9, <1>10, <1>11

\* The drain's time passes.
LEMMA InvTimePasses ==
    ASSUME CleanInv, TimePasses
    PROVE  CleanInv'
<1> USE DEF CleanInv, ReadyInv, None
<1>1. UNCHANGED <<config, main, stop, asked, fatal, svc, syncs, file, published>>
  BY BesideFrame DEF Beside, Connect, Timers
<1>2. /\ drain.deadline # None /\ conn.armed = None
      /\ UNCHANGED <<rows, storing, client, connects, conn, timer, packet>>
  BY DEF TimePasses, mesh, map
<1>3. /\ drain' \in DrainRecord /\ drain'.deadline = drain.deadline
      /\ drain'.event = drain.event /\ drain'.applied = drain.applied
  BY DEF TimePasses, Types, DrainRecord
<1>4. Types' BY <1>1, <1>2, <1>3 DEF Types
<1>5. Reasons' BY <1>1 DEF Reasons, ZeroMeansAsked
<1>6. Arming' BY <1>1, <1>2, <1>3 DEF Arming
<1>7. Draining' BY <1>1, <1>2, <1>3 DEF Draining, Over, Arming
<1>8. Announcing' BY <1>1, <1>2, <1>3 DEF Announcing, PastConnect, Over
<1>9. TakenDown'
  <2>1. svc'["sync"] = svc["sync"] /\ \A s \in StepNames : Done(s) => Done(s)'
    BY <1>1, <1>2, <1>3 DEF Done, StepNames
  <2> QED BY <1>1, <2>1, DownKept DEF TakenDown
<1>10. BroughtUp' BY <1>1, <1>2, <1>3 DEF BroughtUp
<1> QED BY <1>4, <1>5, <1>6, <1>7, <1>8, <1>9, <1>10

\* A timer wakes: the drain is over, or the timer has to go on, or is not wanted any more.
LEMMA InvTimerFires ==
    ASSUME CleanInv, NEW d \in Drains, TimerFires(d)
    PROVE  CleanInv'
<1> USE DEF CleanInv, ReadyInv, None
<1>1. UNCHANGED <<config, main, stop, asked, fatal, svc, syncs, file, published>>
  BY BesideFrame DEF Beside, Connect, Timers
<1>2. UNCHANGED <<rows, storing, client, connects, conn, packet>>
  BY DEF TimerFires, mesh, map
<1>3. d \in Nat /\ d # None BY LifeAssumption DEF Drains
<1>4. /\ drain' \in DrainRecord /\ drain'.window = drain.window /\ drain'.event = drain.event
      /\ drain'.applied = drain.applied
      /\ \/ drain'.deadline = drain.deadline /\ timer'[d] # "signal"
         \/ drain'.deadline = None /\ drain.deadline = d /\ drain.window = "passed"
  <2> DEFINE over == drain.deadline = d /\ drain.window = "passed"
             r == [drain EXCEPT !.expiry = IF @ = d THEN None ELSE @,
                                !.deadline = IF over THEN None ELSE @]
  <2>1. /\ r \in DrainRecord /\ r.window = drain.window /\ r.event = drain.event /\ r.applied = drain.applied
        /\ r.deadline = (IF over THEN None ELSE drain.deadline)
    BY DEF Types, DrainRecord
  <2>2. drain' = r BY DEF TimerFires
  <2>3. ~over => timer'[d] # "signal" BY DEF TimerFires, Types
  <2> HIDE DEF r
  <2> QED BY <2>1, <2>2, <2>3
<1>5. /\ timer' \in [Drains -> {"none", "waiting", "signal", "again"}]
      /\ \A e \in Drains \ {d} : timer'[e] = timer[e]
  BY DEF TimerFires, Types
<1>6. Types' BY <1>1, <1>2, <1>3, <1>4, <1>5 DEF Types
<1>7. Reasons' BY <1>1 DEF Reasons, ZeroMeansAsked
<1>8. Arming' BY <1>1, <1>2, <1>3, <1>4, <1>5 DEF Arming
<1>9. Draining' BY <1>1, <1>2, <1>3, <1>4, <1>5 DEF Draining, Over, Arming
<1>10. Announcing' BY <1>1, <1>2, <1>3, <1>4, <1>5 DEF Announcing, PastConnect, Over
<1>11. TakenDown'
  <2>1. svc'["sync"] = svc["sync"] /\ \A s \in StepNames : Done(s) => Done(s)'
    BY <1>1, <1>2, <1>3, <1>4, <1>5 DEF Done, StepNames
  <2> QED BY <1>1, <2>1, DownKept DEF TakenDown
<1>12. BroughtUp' BY <1>1, <1>2, <1>3, <1>4, <1>5 DEF BroughtUp
<1> QED BY <1>6, <1>7, <1>8, <1>9, <1>10, <1>11, <1>12

\* A timer signals the end of the drain, or starts again.
LEMMA InvTimerGoesOn ==
    ASSUME CleanInv, NEW d \in Drains, TimerGoesOn(d)
    PROVE  CleanInv'
<1> USE DEF CleanInv, ReadyInv, None
<1>1. UNCHANGED <<config, main, stop, asked, fatal, svc, syncs, file, published>>
  BY BesideFrame DEF Beside, Connect, Timers
<1>2. UNCHANGED <<rows, storing, client, connects, conn, packet>>
  BY DEF TimerGoesOn, mesh, map
<1>3. d \in Nat BY LifeAssumption DEF Drains
<1>4. /\ drain' \in DrainRecord /\ drain'.deadline = drain.deadline /\ drain'.window = drain.window
      /\ drain'.applied = drain.applied
      /\ drain'.event = drain.event \/ timer[d] = "signal"
  BY <1>3 DEF TimerGoesOn, Types, DrainRecord
<1>5. /\ timer' \in [Drains -> {"none", "waiting", "signal", "again"}]
      /\ \A e \in Drains : timer'[e] = "signal" => timer[e] = "signal"
  <2> DEFINE c == Cancelled(drain.expiry)
  <2>1. /\ c \in [Drains -> {"none", "waiting", "signal", "again"}]
        /\ \A e \in Drains : c[e] = "signal" => timer[e] = "signal"
    BY CancelledFields DEF Types, DrainRecord
  <2>2. timer' = [timer EXCEPT ![d] = "none"] \/ timer' = [c EXCEPT ![d] = "waiting"] BY DEF TimerGoesOn
  <2> HIDE DEF c
  <2> QED BY <2>1, <2>2 DEF Types
<1>6. Types' BY <1>1, <1>2, <1>3, <1>4, <1>5 DEF Types
<1>7. Reasons' BY <1>1 DEF Reasons, ZeroMeansAsked
<1>8. Arming' BY <1>1, <1>2, <1>3, <1>4, <1>5 DEF Arming
<1>9. Draining' BY <1>1, <1>2, <1>3, <1>4, <1>5 DEF Draining, Over, Arming
<1>10. Announcing' BY <1>1, <1>2, <1>3, <1>4, <1>5 DEF Announcing, PastConnect, Over
<1>11. TakenDown'
  <2>1. svc'["sync"] = svc["sync"] /\ \A s \in StepNames : Done(s) => Done(s)'
    BY <1>1, <1>2, <1>3, <1>4, <1>5 DEF Done, StepNames
  <2> QED BY <1>1, <2>1, DownKept DEF TakenDown
<1>12. BroughtUp' BY <1>1, <1>2, <1>3, <1>4, <1>5 DEF BroughtUp
<1> QED BY <1>6, <1>7, <1>8, <1>9, <1>10, <1>11, <1>12

\* A packet finds the deadline passed and ends the drain.
LEMMA InvPacketEndsDrain ==
    ASSUME CleanInv, PacketEndsDrain
    PROVE  CleanInv'
<1> USE DEF CleanInv, ReadyInv, None
<1>1. UNCHANGED <<config, main, stop, asked, fatal, svc, syncs, file, published>>
  BY BesideFrame DEF Beside, Connect, Timers
<1>2. /\ drain.deadline # None /\ drain.window = "passed" /\ packet' = TRUE
      /\ UNCHANGED <<rows, storing, client, connects, conn, timer>>
  BY DEF PacketEndsDrain, mesh, map
<1>3. /\ drain' \in DrainRecord /\ drain'.deadline = None /\ drain'.window = drain.window
      /\ drain'.event = drain.event /\ drain'.applied = drain.applied
  <2> DEFINE e == [drain EXCEPT !.deadline = None, !.expiry = None]
  <2>1. /\ e \in DrainRecord /\ e.deadline = None /\ e.window = drain.window
        /\ e.event = drain.event /\ e.applied = drain.applied
    BY DEF Types, DrainRecord
  <2>2. drain' = e BY DEF PacketEndsDrain
  <2> HIDE DEF e
  <2> QED BY <2>1, <2>2
<1>4. Types' BY <1>1, <1>2, <1>3 DEF Types
<1>5. Reasons' BY <1>1 DEF Reasons, ZeroMeansAsked
<1>6. Arming' BY <1>1, <1>2, <1>3 DEF Arming
<1>7. Draining' BY <1>1, <1>2, <1>3 DEF Draining, Over, Arming
<1>8. Announcing' BY <1>1, <1>2, <1>3 DEF Announcing, PastConnect, Over
<1>9. TakenDown'
  <2>1. svc'["sync"] = svc["sync"] /\ \A s \in StepNames : Done(s) => Done(s)'
    BY <1>1, <1>2, <1>3 DEF Done, StepNames
  <2> QED BY <1>1, <2>1, DownKept DEF TakenDown
<1>10. BroughtUp' BY <1>1, <1>2, <1>3 DEF BroughtUp
<1> QED BY <1>4, <1>5, <1>6, <1>7, <1>8, <1>9, <1>10

\* The packet handler signals it.
LEMMA InvPacketSignals ==
    ASSUME CleanInv, PacketSignals
    PROVE  CleanInv'
<1> USE DEF CleanInv, ReadyInv, None
<1>1. UNCHANGED <<config, main, stop, asked, fatal, svc, syncs, file, published>>
  BY BesideFrame DEF Beside, Connect, Timers
<1>2. packet /\ packet' = FALSE /\ UNCHANGED <<rows, storing, client, connects, conn, timer>>
  BY DEF PacketSignals, mesh, map
<1>3. /\ drain' \in DrainRecord /\ drain'.deadline = drain.deadline /\ drain'.window = drain.window
      /\ drain'.event = TRUE /\ drain'.applied = drain.applied
  BY DEF PacketSignals, Types, DrainRecord
<1>4. Types' BY <1>1, <1>2, <1>3 DEF Types
<1>5. Reasons' BY <1>1 DEF Reasons, ZeroMeansAsked
<1>6. Arming' BY <1>1, <1>2, <1>3 DEF Arming
<1>7. Draining' BY <1>1, <1>2, <1>3 DEF Draining, Over, Arming
<1>8. Announcing' BY <1>1, <1>2, <1>3 DEF Announcing, PastConnect, Over
<1>9. TakenDown'
  <2>1. svc'["sync"] = svc["sync"] /\ \A s \in StepNames : Done(s) => Done(s)'
    BY <1>1, <1>2, <1>3 DEF Done, StepNames
  <2> QED BY <1>1, <2>1, DownKept DEF TakenDown
<1>10. BroughtUp' BY <1>1, <1>2, <1>3 DEF BroughtUp
<1> QED BY <1>4, <1>5, <1>6, <1>7, <1>8, <1>9, <1>10

-----------------------------------------------------------------------------
\* The process starts with nothing up and nothing announced.
LEMMA InitClean == Init => CleanInv
<1> SUFFICES ASSUME Init PROVE CleanInv OBVIOUS
<1> USE DEF Init, None
<1>1. /\ main \in MainRecord /\ main.pc = "config" /\ main.todo = <<>> /\ main.exc = "none" /\ main.exit = 0
      /\ main.kept = FALSE
  BY DEF MainRecord, MainPcs
<1>2. /\ conn \in ConnRecord /\ conn.pc = "idle" /\ conn.armed = None /\ conn.ok = FALSE
  BY DEF ConnRecord, ConnPcs
<1>3. drain \in DrainRecord /\ drain.deadline = None /\ drain.applied = FALSE BY DEF DrainRecord
<1>4. Types BY <1>1, <1>2, <1>3, LifeAssumption DEF Types, States
<1>5. Reasons BY <1>1 DEF Reasons, ZeroMeansAsked
<1>6. Arming BY <1>2 DEF Arming
<1>7. Draining BY <1>3 DEF Draining
<1>8. Announcing BY <1>1 DEF Announcing, PastConnect, Services
<1>9. TakenDown BY <1>1 DEF TakenDown
<1>10. BroughtUp BY <1>1, <1>2 DEF BroughtUp, Services
<1> QED BY <1>4, <1>5, <1>6, <1>7, <1>8, <1>9, <1>10 DEF CleanInv, ReadyInv

\* A step that changes nothing keeps everything.
LEMMA CleanStutters == CleanInv /\ UNCHANGED vars => CleanInv'
<1> SUFFICES ASSUME CleanInv, UNCHANGED vars PROVE CleanInv' OBVIOUS
<1>1. UNCHANGED <<config, main, stop, asked, fatal, svc, syncs, file, published, rows, storing, client,
                  connects, conn, drain, timer, packet>>
  BY DEF vars, life, ready, mesh, drains, map
<1> QED
  BY <1>1 DEF CleanInv, ReadyInv, Types, Reasons, ZeroMeansAsked, Arming, Draining, Announcing, PastConnect, Over,
              TakenDown, BroughtUp, Done, Left

\* Every step keeps the invariant.
LEMMA CleanStep == CleanInv /\ [Next]_vars => CleanInv'
<1> SUFFICES ASSUME CleanInv, [Next]_vars PROVE CleanInv' OBVIOUS
<1>1. CASE Bring
  <2>1. CASE LoadPlugins \/ StartQueue \/ StartHealth
    BY <2>1, InvStarts DEF LoadPlugins, StartQueue, StartHealth
  <2> QED
    BY <1>1, <2>1, InvReadConfig, InvOpenDatabase, InvStartConnect, InvConnected, InvStartMatrix, InvCheckHealth
    DEF Bring
<1>2. CASE Loop
  BY <1>2, InvServe, InvStartSync, InvDrainWaited, InvWriteReady, InvRecheck, InvUnwriteReady, InvWaitSync,
     InvBackoff DEF Loop
<1>3. CASE Down
  <2>1. CASE AwaitTask("heartbeat", "heartbeat") \/ AwaitTask("refresh", "refresh") \/ AwaitTask("health", "health")
    BY <2>1, InvAwaitTask
  <2>2. CASE StartStep("plugins") \/ StartStep("queue") BY <2>2, InvStartStep
  <2>3. CASE EndStep("plugins_wait") \/ EndStep("queue_wait") BY <2>3, InvEndStep
  <2> QED
    BY <1>3, <2>1, <2>2, <2>3, InvRemoveReady, InvStopReconnect, InvCloseMatrix, InvCloseMesh, InvWipeAtEnd,
       InvExit DEF Down
<1>4. CASE Connect
  BY <1>4, InvReconnect, InvAttemptFails, InvResetSession, InvSignalFromConnect, InvPublishClient, InvArmDrain,
     InvClearEvent, InvScheduleTimer, InvFinishConnect, InvRollbackConnect, InvRollbackSignal, InvRetryConnect
     DEF Connect
<1>5. CASE Timers BY <1>5, InvTimePasses, InvTimerFires, InvTimerGoesOn DEF Timers
<1>6. CASE Stops("plugins") \/ Stops("queue") BY <1>6, InvStops
<1>7. CASE UNCHANGED vars BY <1>7, CleanStutters
<1> QED
  BY <1>1, <1>2, <1>3, <1>4, <1>5, <1>6, <1>7, InvInterrupt, InvSignal, InvHealthEnds, InvOnHealthDone, InvSyncEnds,
     InvHeartbeat, InvMapSent, InvMapRelayed, InvStoreRow, InvLinkLost, InvPacketEndsDrain, InvPacketSignals DEF Next

\* The inductive invariant of the life of the process.
THEOREM LifeIsSound == Spec => []CleanInv
BY InitClean, CleanStep, PTL DEF Spec

\* main.py:1071-1107: the readiness file stands only for an announced relay whose startup
\* drain is over, whatever the order of connects, timers, packets and signals.
THEOREM ReadyIsReady == Spec => []ReadyMeansReady
<1>1. CleanInv => ReadyMeansReady
  BY DEF CleanInv, ReadyInv, Announcing, Over, ReadyMeansReady
<1> QED BY <1>1, LifeIsSound, PTL

\* main.py:803-829 and 1364-1373: exit code 0 is only for a relay somebody asked to stop.
THEOREM ZeroIsAsked == Spec => []ZeroMeansAsked
<1>1. CleanInv => ZeroMeansAsked BY DEF CleanInv, ReadyInv, Reasons
<1> QED BY <1>1, LifeIsSound, PTL

\* main.py:853-883 and 1195-1239: however main() ends, what it brought up is taken down or
\* told to stop, but for the client of a login that did not end well; the readiness file is
\* gone unless it could not be removed, and the message map is empty when it has to be,
\* unless one of its writers outlived the wipe.
THEOREM EndIsAlwaysClean == Spec => []EndIsClean
<1>1. ASSUME CleanInv, main.pc = "ended" PROVE EndIsClean
  <2>1. Left = {} BY <1>1 DEF CleanInv, TakenDown, Left
  <2>2. svc["sync"] = "off" /\ \A s \in StepNames : Done(s) BY <1>1, <2>1 DEF CleanInv, TakenDown
  <2>3. /\ Done("heartbeat") /\ Done("unready") /\ Done("refresh") /\ Done("health") /\ Done("plugins")
        /\ Done("queue") /\ Done("matrix") /\ Done("mesh") /\ Done("wipe")
    BY <2>2 DEF StepNames
  <2> QED BY <1>1, <2>2, <2>3 DEF Done, EndIsClean, Services, CleanInv, BroughtUp
<1>2. CleanInv => EndIsClean BY <1>1 DEF EndIsClean
<1> QED BY <1>2, LifeIsSound, PTL

-----------------------------------------------------------------------------
(* Migration *)

Things == Items \cup {Dir}

\* What MMRELAY_HOME held before the first migration.
Own(S) == {x \in S : x.from = "dest"}

\* The snapshots of u's destination have x in the part that belongs to v.
InBackup(u, v, x) == \E s \in backups[u] : v \in DOMAIN s /\ x \in s[v]

Working == {"select", "service", "failed"} \cup Operations
Replacing == Operations \ {"backup"}

HomeTypes ==
    /\ fs \in [Units -> [Places -> SUBSET Things]]
    /\ backups = [u \in Units |-> backups[u]]
    /\ \A u \in Units : \A s \in backups[u] : s \in [Nest(u) -> SUBSET Things]
    /\ roots \in Seq({"r1", "r2"})
    /\ scan \in Seq({"r1", "r2", "home"})
    /\ lock \in BOOLEAN /\ rolled \in BOOLEAN
    /\ pc \in Phases /\ step \in 0..8
    /\ pc \in {"select"} \cup Operations => step \in 1..7
    /\ pc = "service" => step = 8
    /\ pc = "failed" => step \in 1..8
    /\ pc = "rollback" => step \in 0..7
    /\ pc \in Operations => \E k \in 1..Len(StepsOf(Cur)) : StepsOf(Cur)[k] = pc
    /\ mode \in {"plain", "force", "dry"}
    /\ picked \in Sources \cup {Nowhere}
    /\ pc \in Operations /\ (Cur # "gpx" \/ pc \in {"backup", "stage"}) => picked # Nowhere
    /\ results \in [Units -> NoOps \cup {"none", "dry_run", "move"}]
    /\ outcome \in {"none", "success", "failed", "refused"}
    /\ runs \in Nat /\ faults \in Nat
    /\ home0 \in [Units -> SUBSET Things]
    /\ lock => pc # "idle"

\* Nothing of MMRELAY_HOME gets into the sources or the staging directory.
Apart == \A u \in Units : \A p \in Sources \cup {"stage"} : Own(fs[u][p]) = {}

\* No legacy root has plugins any more.
NoMorePlugins == \A i \in 1..Len(roots) : fs["plugins"][roots[i]] = {}

Backed(u) == \A v \in Nest(u) : \A x \in Own(fs[v].dest) : InBackup(u, v, x)

\* What the backups of gpxtracker keep is also in one of the plugins directory.
TracksBacked ==
    \A s \in backups["gpx"] : \A x \in Own(s["gpx"]) : InBackup("plugins", "gpx", x)

\* The destination of u may be overwritten or removed.
MayReplace(u) == Backed(u) /\ (u = "plugins" => TracksBacked)

\* Every artifact but the tracks is at its destination or in a backup of its own.
\* The backups of the tracks go with the plugins directory, so they count only once
\* there is nothing left that could replace that directory.
Kept ==
    /\ \A u \in Units \ {"gpx"} : \A x \in Own(orig[u]) : x \in fs[u].dest \/ InBackup(u, u, x)
    /\ \A x \in Own(orig["gpx"]) :
         \/ x \in fs["gpx"].dest
         \/ InBackup("plugins", "gpx", x)
         \/ NoMorePlugins /\ InBackup("gpx", "gpx", x)
    /\ NoMorePlugins \/ TracksBacked

\* The steps that are completed, and the mode and the roots of the run.
Behind ==
    /\ pc \in Working => \A i \in 1..7 : results[Order[i]] # "none" => i < step
    /\ pc \in Working /\ step > 6 => results["plugins"] # "none"
    /\ pc \in Working => scan = IF roots = <<>> THEN <<"home">> ELSE roots
    /\ pc \in Operations => mode # "dry"

\* The destinations that the rollback or the next operation may replace.
Replaceable ==
    /\ pc \in Working => \A u \in Units : results[u] = "move" => MayReplace(u)
    /\ pc = "rollback" => \A i \in 1..step : results[Order[i]] = "move" => MayReplace(Order[i])
    /\ pc \in Replacing => MayReplace(Cur)

\* Once the plugins step is over, there are no plugins to move, or the tracks are backed
\* up with the plugins directory, or nothing has been replaced without --force.
Tracks ==
    /\ pc \in Operations /\ Cur = "plugins" => TracksBacked
    /\ pc \in Working /\ results["plugins"] \in NoOps \ {"skip_force_required"} => NoMorePlugins
    /\ pc \in Working /\ results["plugins"] = "skip_force_required" => mode # "force"
    /\ pc \in Working /\ results["plugins"] = "dry_run" => mode = "dry"
    /\ pc \in Operations /\ Cur = "gpx" =>
         NoMorePlugins \/ \A x \in Own(fs["gpx"].dest) : InBackup("plugins", "gpx", x)

KeptInv == HomeTypes /\ Apart /\ Kept /\ Behind /\ Replaceable /\ Tracks
-----------------------------------------------------------------------------
(* The artifacts and their operations *)

FileSystems == [Units -> [Places -> SUBSET Things]]

\* The seven artifacts by name.
LEMMA OrderIs ==
    /\ Len(Order) = 7
    /\ Order[1] = "credentials" /\ Order[2] = "config" /\ Order[3] = "database"
    /\ Order[4] = "logs" /\ Order[5] = "store" /\ Order[6] = "plugins" /\ Order[7] = "gpx"
BY DEF Order

\* The units by name.
LEMMA UnitsAre ==
    Units = {"credentials", "config", "database", "logs", "store", "plugins", "gpx"}
<1>1. 1..Len(Order) = {1, 2, 3, 4, 5, 6, 7} BY OrderIs
<1> QED BY <1>1, OrderIs DEF Units

\* Each artifact comes once in the order of the steps.
LEMMA OrderInjective ==
    /\ \A i \in 1..7 : Order[i] \in Units
    /\ \A i, j \in 1..7 : Order[i] = Order[j] => i = j
<1>1. \A i \in 1..7 : i = 1 \/ i = 2 \/ i = 3 \/ i = 4 \/ i = 5 \/ i = 6 \/ i = 7 OBVIOUS
<1> QED BY <1>1, OrderIs, UnitsAre

\* What lies inside each unit.
LEMMA NestIs ==
    /\ \A u \in Units : u \in Nest(u) /\ Nest(u) \subseteq Units
    /\ \A u \in Units : \A v \in Nest(u) : v = u \/ (u = "plugins" /\ v = "gpx")
BY UnitsAre DEF Nest

\* A step whose operation is not its last one has a next operation, which is not the
\* backup any more.
LEMMA NextOperation ==
    ASSUME HomeTypes, pc \in Operations, pc # "drop"
    PROVE  /\ Following \in Replacing /\ Following # pc
           /\ \E k \in 1..Len(StepsOf(Cur)) : StepsOf(Cur)[k] = Following
           /\ Cur = "gpx" /\ Following = "stage" => pc = "backup"
<1> DEFINE s == StepsOf(Cur)
<1>1. Cur \in Units
  BY OrderInjective DEF HomeTypes, Cur
<1>2. PICK k \in 1..Len(s) : s[k] = pc
  BY DEF HomeTypes
<1>3. \A i \in 1..Len(s) : s[i] = s[k] => i = k
  BY <1>1, UnitsAre DEF StepsOf, CredentialsSteps, ConfigSteps, DatabaseSteps, LogsSteps,
     StoreSteps, PluginsSteps, GpxSteps
<1>4. 1 + k \in 1..Len(s) /\ s[1 + k] \in Replacing
  BY <1>1, <1>2, UnitsAre DEF StepsOf, CredentialsSteps, ConfigSteps, DatabaseSteps, LogsSteps,
     StoreSteps, PluginsSteps, GpxSteps, Replacing, Operations
<1>5. (CHOOSE i \in 1..Len(s) : s[i] = pc) = k
  BY <1>2, <1>3
<1>6. Following = s[1 + k]
  BY <1>4, <1>5 DEF Following
<1>7. Cur = "gpx" /\ s[1 + k] = "stage" => s[k] = "backup"
  BY <1>4 DEF StepsOf, GpxSteps
<1> QED BY <1>2, <1>3, <1>4, <1>6, <1>7
-----------------------------------------------------------------------------
(* What a file operation may do *)

\* A file operation of the running step, complete or not, takes from the sources, stages
\* nothing of MMRELAY_HOME and brings nothing of it back.
Effect(F) ==
    /\ F \in FileSystems
    /\ \A v \in Units \ Nest(Cur) : F[v] = fs[v]
    /\ \A v \in Units, p \in Sources : F[v][p] \subseteq fs[v][p]
    /\ \A v \in Units : Own(F[v].stage) = {}
    /\ \A v \in Units : Own(F[v].dest) \subseteq fs[v].dest

\* The facts of the invariant that the file operations depend on.
LEMMA Running ==
    ASSUME HomeTypes, Apart, pc \in Operations
    PROVE  /\ fs \in FileSystems /\ Cur \in Units /\ Cur \in Nest(Cur)
           /\ picked # Nowhere => picked \in Sources
           /\ Cur # "gpx" \/ pc \in {"backup", "stage"} => picked \in Sources
           /\ \A v \in Units : \A p \in Sources \cup {"stage"} : Own(fs[v][p]) = {}
           /\ Places = {"r1", "r2", "home", "user", "stage", "dest"}
           /\ Effect(fs)
<1>1. fs \in FileSystems /\ Cur \in Units
  BY OrderInjective DEF HomeTypes, Cur, FileSystems
<1>2. \A v \in Units : Own(fs[v].dest) \subseteq fs[v].dest
  BY DEF Own
<1> QED BY <1>1, <1>2, NestIs DEF HomeTypes, Apart, Effect, Sources, Places

\* Putting something into one place.
LEMMA PutIs ==
    ASSUME NEW f \in FileSystems, NEW u \in Units, NEW p \in Places, NEW S \in SUBSET Things
    PROVE  /\ Put(f, u, p, S) \in FileSystems
           /\ Put(f, u, p, S)[u][p] = S
           /\ \A v \in Units, q \in Places : v # u \/ q # p => Put(f, u, p, S)[v][q] = f[v][q]
           /\ \A v \in Units \ {u} : Put(f, u, p, S)[v] = f[v]
BY DEF Put, FileSystems

\* Filling the destination and the staging path of one unit together.
LEMMA PutBothIs ==
    ASSUME NEW f \in FileSystems, NEW u \in Units, NEW D \in SUBSET Things, NEW S \in SUBSET Things,
           NEW F, F = Put(Put(f, u, "dest", D), u, "stage", S)
    PROVE  /\ F \in FileSystems
           /\ F[u].dest = D /\ F[u].stage = S
           /\ \A p \in Sources : F[u][p] = f[u][p]
           /\ \A v \in Units \ {u} : F[v] = f[v]
<1> DEFINE G == Put(f, u, "dest", D)
<1>1. "dest" \in Places /\ "stage" \in Places /\ "dest" # "stage"
      /\ \A p \in Sources : p \in Places /\ p # "dest" /\ p # "stage"
  BY DEF Places, Sources
<1>2. /\ G \in FileSystems /\ G[u].dest = D
      /\ \A q \in Places : q # "dest" => G[u][q] = f[u][q]
      /\ \A v \in Units \ {u} : G[v] = f[v]
  BY <1>1, PutIs
<1>3. F = Put(G, u, "stage", S)
  OBVIOUS
<1> HIDE DEF G
<1> DEFINE H == Put(G, u, "stage", S)
<1>4. /\ H \in FileSystems /\ H[u].stage = S
      /\ \A q \in Places : q # "stage" => H[u][q] = G[u][q]
      /\ \A v \in Units \ {u} : H[v] = G[v]
  BY <1>1, <1>2, PutIs
<1> HIDE DEF H
<1>5. F = H
  BY <1>3 DEF H
<1> QED BY <1>1, <1>2, <1>4, <1>5

\* What belongs to MMRELAY_HOME in the parts of a set.
LEMMA OwnIs ==
    /\ \A S, T : S \subseteq T => Own(S) \subseteq Own(T)
    /\ \A S, T : Own(S \cup T) = Own(S) \cup Own(T)
    /\ \A S : Own(S) \subseteq S
    /\ Own({}) = {} /\ Own({Dir}) = {}
BY DEF Own, Dir

\* What is taken from a set, and what a step takes from its source.
LEMMA TakenIs ==
    ASSUME NEW u, NEW S
    PROVE  /\ Taken(u, S) \subseteq S /\ Dir \notin Taken(u, S)
           /\ Taken(u, S) \subseteq Content(S) /\ Content(Taken(u, S)) = Taken(u, S)
           /\ u \notin {"logs", "plugins", "gpx"} => Taken(u, S) = Content(S)
           /\ Taken(u, S \ Taken(u, S)) = {}
BY DEF Taken, Takes, Content

\* The same for the running step.
LEMMA MovedIs ==
    /\ Moved \subseteq fs[Cur][picked] /\ Taken(Cur, fs[Cur][picked]) \subseteq Moved
    /\ Cur # "store" => Moved = Taken(Cur, fs[Cur][picked])
    /\ Cur = "store" => Moved = fs[Cur][picked]
BY TakenIs DEF Moved

\* An interrupted move leaves every item at one of its two places or at both.
LEMMA TornMoveIs ==
    ASSUME fs \in FileSystems, NEW u \in Units, NEW a \in Places, NEW b \in Places, a # b,
           NEW all \in SUBSET fs[u][a], NEW F \in TornMove(u, a, b, all)
    PROVE  /\ F \in FileSystems
           /\ F[u][a] \subseteq fs[u][a]
           /\ F[u][b] \subseteq fs[u][b] \cup fs[u][a]
           /\ \A v \in Units, q \in Places : v # u \/ q \notin {a, b} => F[v][q] = fs[v][q]
           /\ \A v \in Units \ {u} : F[v] = fs[v]
<1>0. all \in SUBSET Things /\ fs[u][a] \in SUBSET Things /\ fs[u][b] \in SUBSET Things
  BY DEF FileSystems
<1>1. CASE F \in {Put(fs, u, b, fs[u][b] \cup come) : come \in SUBSET all}
  <2>1. PICK come \in SUBSET all : F = Put(fs, u, b, fs[u][b] \cup come)
    BY <1>1
  <2> QED BY <1>0, <2>1, PutIs
<1>2. CASE F \in {Put(Put(fs, u, a, fs[u][a] \ gone), u, b, fs[u][b] \cup all) : gone \in SUBSET all}
  <2>1. PICK gone \in SUBSET all : F = Put(Put(fs, u, a, fs[u][a] \ gone), u, b, fs[u][b] \cup all)
    BY <1>2
  <2> DEFINE G == Put(fs, u, a, fs[u][a] \ gone)
  <2>2. /\ G \in FileSystems /\ G[u][a] = fs[u][a] \ gone
        /\ \A v \in Units, q \in Places : v # u \/ q # a => G[v][q] = fs[v][q]
        /\ \A v \in Units \ {u} : G[v] = fs[v]
    BY <1>0, PutIs
  <2> HIDE DEF G
  <2>3. F = Put(G, u, b, fs[u][b] \cup all)
    BY <2>1 DEF G
  <2> QED BY <1>0, <2>2, <2>3, PutIs
<1> QED BY <1>1, <1>2 DEF TornMove

\* An interrupted move into the staging directory or out of it is such an operation.
LEMMA TornMoveEffect ==
    ASSUME HomeTypes, Apart, pc \in Operations, NEW a \in Sources \cup {"stage"},
           NEW b \in {"stage", "dest"}, a # b, NEW all \in SUBSET fs[Cur][a],
           NEW F \in TornMove(Cur, a, b, all)
    PROVE  Effect(F)
<1>1. /\ F \in FileSystems
      /\ F[Cur][a] \subseteq fs[Cur][a]
      /\ F[Cur][b] \subseteq fs[Cur][b] \cup fs[Cur][a]
      /\ \A v \in Units, q \in Places : v # Cur \/ q \notin {a, b} => F[v][q] = fs[v][q]
      /\ \A v \in Units \ {Cur} : F[v] = fs[v]
  <2>1. a \in Places /\ b \in Places
    BY DEF Places
  <2> QED BY <2>1, Running, TornMoveIs
<1>2. Own(F[Cur].stage) = {} /\ Own(F[Cur].dest) \subseteq fs[Cur].dest
  <2>1. Own(F[Cur][b]) \subseteq Own(fs[Cur][b]) \cup Own(fs[Cur][a])
    BY <1>1 DEF Own
  <2>2. Own(fs[Cur][a]) = {} /\ Own(fs[Cur].stage) = {} /\ Own(F[Cur][a]) = {}
    BY <1>1, OwnIs, Running
  <2>3. b = "stage" => F[Cur].dest = fs[Cur].dest
    BY <1>1, Running DEF Sources
  <2>4. b = "dest" => F[Cur].stage \subseteq fs[Cur].stage
    BY <1>1, Running DEF Sources
  <2>5. b = "stage" => Own(F[Cur].stage) = {} /\ Own(F[Cur].dest) \subseteq fs[Cur].dest
    BY <2>1, <2>2, <2>3 DEF Own
  <2>6. b = "dest" => Own(F[Cur].stage) = {} /\ Own(F[Cur].dest) \subseteq fs[Cur].dest
    BY <2>1, <2>2, <2>4 DEF Own
  <2> QED BY <2>5, <2>6
<1>3. \A p \in Sources : F[Cur][p] \subseteq fs[Cur][p]
  BY <1>1, Running DEF Sources
<1>4. \A v \in Units \ Nest(Cur) : F[v] = fs[v]
  BY <1>1, Running
<1>5. \A v \in Units \ {Cur} : /\ Own(F[v].stage) = {} /\ Own(F[v].dest) \subseteq fs[v].dest
                               /\ \A p \in Sources : F[v][p] \subseteq fs[v][p]
  <2> TAKE v \in Units \ {Cur}
  <2>1. F[v] = fs[v]
    BY <1>1
  <2>2. Own(fs[v].stage) = {}
    BY Running
  <2>3. Own(fs[v].dest) \subseteq fs[v].dest
    BY OwnIs
  <2> QED BY <2>1, <2>2, <2>3
<1> QED BY <1>1, <1>2, <1>3, <1>4, <1>5 DEF Effect

\* An operation on the places of the running step only.
LEMMA LocalEffect ==
    ASSUME HomeTypes, Apart, pc \in Operations, NEW F \in FileSystems,
           \A v \in Units \ {Cur} : F[v] = fs[v],
           \A p \in Sources : F[Cur][p] \subseteq fs[Cur][p],
           Own(F[Cur].stage) = {}, Own(F[Cur].dest) \subseteq fs[Cur].dest
    PROVE  Effect(F)
<1>1. \A v \in Units \ {Cur} : /\ Own(F[v].stage) = {} /\ Own(F[v].dest) \subseteq fs[v].dest
                               /\ \A p \in Sources : F[v][p] \subseteq fs[v][p]
  BY OwnIs, Running
<1> QED BY <1>1, Running DEF Effect

\* Removing a destination, or part of it.
LEMMA RemovedIs ==
    ASSUME fs \in FileSystems, NEW u \in Units, NEW keep
    PROVE  /\ RemovedDest(u, keep) \in FileSystems
           /\ \A v \in Units \ Nest(u) : RemovedDest(u, keep)[v] = fs[v]
           /\ \A v \in Units, p \in Places \ {"dest"} : RemovedDest(u, keep)[v][p] = fs[v][p]
           /\ \A v \in Nest(u) : RemovedDest(u, keep)[v].dest = fs[v].dest \cap keep
<1> DEFINE part(v) == [fs[v] EXCEPT !.dest = @ \cap keep]
<1>1. \A v \in Units : /\ fs[v] \in [Places -> SUBSET Things]
                        /\ part(v) \in [Places -> SUBSET Things]
                        /\ part(v).dest = fs[v].dest \cap keep
                        /\ \A p \in Places \ {"dest"} : part(v)[p] = fs[v][p]
  BY DEF FileSystems, Places
<1> HIDE DEF part
<1>2. RemovedDest(u, keep) = [v \in Units |-> IF v \in Nest(u) THEN part(v) ELSE fs[v]]
  BY DEF RemovedDest, part
<1> QED BY <1>1, <1>2, NestIs DEF FileSystems

\* Removing a destination with what lies inside it.
LEMMA RemovedEffect ==
    ASSUME HomeTypes, Apart, pc \in Operations, NEW keep
    PROVE  Effect(RemovedDest(Cur, keep))
<1> DEFINE F == RemovedDest(Cur, keep)
<1>1. /\ F \in FileSystems
      /\ \A v \in Units \ Nest(Cur) : F[v] = fs[v]
      /\ \A v \in Units, p \in Places \ {"dest"} : F[v][p] = fs[v][p]
      /\ \A v \in Nest(Cur) : F[v].dest = fs[v].dest \cap keep
  BY RemovedIs, Running
<1> HIDE DEF F
<1>2. \A v \in Units, p \in Sources : F[v][p] \subseteq fs[v][p]
  BY <1>1 DEF Places, Sources
<1>3. \A v \in Units : Own(F[v].stage) = {}
  BY <1>1, Running DEF Places
<1>4. \A v \in Units : Own(F[v].dest) \subseteq fs[v].dest
  BY <1>1 DEF Own
<1>5. Effect(F)
  BY <1>1, <1>2, <1>3, <1>4 DEF Effect
<1> QED BY <1>5 DEF F

\* The file-by-file replacement of the database.
LEMMA SwapEffect ==
    ASSUME HomeTypes, Apart, pc \in Operations, Cur = "database", NEW N, NEW M
    PROVE  Effect(DbSwapped(N, M))
<1> DEFINE F == DbSwapped(N, M)
<1>1. /\ F \in FileSystems
      /\ \A v \in Units \ {Cur} : F[v] = fs[v]
      /\ \A p \in Sources : F[Cur][p] = fs[Cur][p]
      /\ F[Cur].stage \subseteq fs[Cur].stage
      /\ F[Cur].dest \subseteq fs[Cur].dest \cup fs[Cur].stage
  <2> DEFINE D == {x \in fs["database"].dest : x.name \notin N \cup M}
                  \cup {x \in fs["database"].stage : x.name \in N}
             S == {x \in fs["database"].stage : x.name \notin N}
  <2>1. F = Put(Put(fs, Cur, "dest", D), Cur, "stage", S)
    BY Running DEF DbSwapped, FileSystems, Put
  <2>2. /\ D \in SUBSET Things /\ S \in SUBSET Things
        /\ S \subseteq fs[Cur].stage /\ D \subseteq fs[Cur].dest \cup fs[Cur].stage
    BY Running DEF FileSystems, Places
  <2> HIDE DEF F, D, S
  <2> QED BY <2>1, <2>2, PutBothIs, Running
<1> HIDE DEF F
<1>2. Own(F[Cur].stage) = {} /\ Own(F[Cur].dest) \subseteq fs[Cur].dest
  BY <1>1, Running DEF Own
<1>3. Effect(F)
  BY <1>1, <1>2, LocalEffect
<1> QED BY <1>3 DEF F

\* Its copy into the staging directory.
LEMMA CopyEffect ==
    ASSUME HomeTypes, Apart, pc \in Operations, Cur = "database", NEW N
    PROVE  Effect(DbStaged(N))
<1> DEFINE F == DbStaged(N)
           S == {x \in fs["database"].stage : x.name \notin N}
                \cup {x \in fs["database"][picked] : x.name \in N}
<1>1. picked \in Places /\ "stage" \in Places /\ picked \in Sources
  BY Running DEF Places
<1>2. S \in SUBSET Things /\ S \subseteq fs[Cur].stage \cup fs[Cur][picked]
  BY <1>1, Running DEF FileSystems
<1>3. /\ F \in FileSystems /\ F[Cur].stage = S
      /\ \A v \in Units, q \in Places : v # Cur \/ q # "stage" => F[v][q] = fs[v][q]
      /\ \A v \in Units \ {Cur} : F[v] = fs[v]
  <2> HIDE DEF S
  <2>1. F = Put(fs, "database", "stage", S)
    BY DEF DbStaged, S
  <2> QED BY <1>1, <1>2, <2>1, PutIs, Running
<1>4. Own(F[Cur].stage) = {}
  BY <1>1, <1>2, <1>3, Running DEF Own
<1> HIDE DEF F, S
<1>5. Own(F[Cur].dest) \subseteq fs[Cur].dest /\ \A p \in Sources : F[Cur][p] \subseteq fs[Cur][p]
  BY <1>3, Running DEF Own, Sources
<1>6. Effect(F)
  BY <1>3, <1>4, <1>5, LocalEffect
<1> QED BY <1>6 DEF F

\* Its end: the sources go, as far as they can be deleted, and foreign sidecars too.
LEMMA DropEffect ==
    ASSUME HomeTypes, Apart, pc \in Operations, Cur = "database", NEW left \in SUBSET fs["database"][picked]
    PROVE  Effect(DbDropped(left))
<1> DEFINE F == DbDropped(left)
<1>0. picked \in Sources /\ fs[Cur][picked] \in SUBSET Things
  BY Running DEF FileSystems, Places
<1>1. /\ F \in FileSystems
      /\ \A v \in Units \ {Cur} : F[v] = fs[v]
      /\ \A p \in Sources : F[Cur][p] \subseteq fs[Cur][p]
      /\ F[Cur].stage = fs[Cur].stage
      /\ F[Cur].dest \subseteq fs[Cur].dest
  BY <1>0, Running DEF DbDropped, FileSystems, Sources
<1> HIDE DEF F
<1>2. Own(F[Cur].stage) = {} /\ Own(F[Cur].dest) \subseteq fs[Cur].dest
  BY <1>1, Running DEF Own
<1>3. Effect(F)
  BY <1>1, <1>2, LocalEffect
<1> QED BY <1>3 DEF F

\* Every state in which an operation can be interrupted.
LEMMA TornEffect ==
    ASSUME HomeTypes, Apart, pc \in Operations, NEW F \in Torn
    PROVE  Effect(F)
<1>1. CASE pc = "clear"
  <2>1. PICK S \in SUBSET fs[Cur].stage : F = Put(fs, Cur, "stage", S)
    BY <1>1 DEF Torn
  <2>2. S \in SUBSET Things /\ "stage" \in Places
    BY Running DEF FileSystems, Places
  <2>3. /\ F \in FileSystems /\ F[Cur].stage = S
        /\ \A v \in Units, q \in Places : v # Cur \/ q # "stage" => F[v][q] = fs[v][q]
        /\ \A v \in Units \ {Cur} : F[v] = fs[v]
    BY <2>1, <2>2, PutIs, Running
  <2>4. Own(F[Cur].stage) = {} /\ Own(F[Cur].dest) \subseteq fs[Cur].dest
    BY <2>3, Running DEF Own
  <2>5. \A p \in Sources : F[Cur][p] \subseteq fs[Cur][p]
    BY <2>3, Running DEF Sources
  <2> QED BY <2>3, <2>4, <2>5, LocalEffect
<1>2. CASE pc = "stage" /\ Cur = "database"
  <2>1. PICK N \in SUBSET DbNames : F = DbStaged(N)
    BY <1>2 DEF Torn
  <2> QED BY <1>2, <2>1, CopyEffect
<1>3. CASE pc = "stage" /\ Cur # "database"
  <2>1. F \in TornMove(Cur, picked, "stage", Moved)
    BY <1>3 DEF Torn
  <2>2. picked \in Sources /\ picked # "stage"
    BY <1>3, Running DEF Sources
  <2>3. Moved \in SUBSET fs[Cur][picked]
    BY MovedIs
  <2> QED BY <2>1, <2>2, <2>3, TornMoveEffect
<1>4. CASE pc = "remove"
  <2>1. PICK keep \in SUBSET UNION {fs[v].dest : v \in Nest(Cur)} : F = RemovedDest(Cur, keep)
    BY <1>4 DEF Torn
  <2> QED BY <2>1, RemovedEffect
<1>5. CASE pc = "place" /\ Cur = "database"
  <2>1. \E N, M \in SUBSET DbNames : F = DbSwapped(N, M)
    BY <1>5 DEF Torn
  <2> QED BY <1>5, <2>1, SwapEffect
<1>6. CASE pc = "place" /\ Cur \in {"logs", "store", "plugins", "gpx"} /\ picked # Nowhere
  <2>1. F \in TornMove(Cur, "stage", "dest", fs[Cur].stage)
    BY <1>6 DEF Torn
  <2> QED BY <2>1, TornMoveEffect
<1>7. CASE pc = "drop" /\ Cur = "database"
  <2>1. PICK left \in SUBSET fs["database"][picked] : F = DbDropped(left)
    BY <1>7 DEF Torn
  <2> QED BY <1>7, <2>1, DropEffect
<1>8. CASE F = fs
  BY <1>8, Running
<1> QED BY <1>1, <1>2, <1>3, <1>4, <1>5, <1>6, <1>7, <1>8 DEF Torn
\* An operation that puts something into the staging directory and takes from its source.
LEMMA StagingEffect ==
    ASSUME HomeTypes, Apart, pc \in Operations, picked \in Sources,
           NEW S \in SUBSET Things, NEW R \in SUBSET Things,
           S \subseteq fs[Cur].stage \cup fs[Cur][picked] \cup {Dir}, R \subseteq fs[Cur][picked]
    PROVE  Effect(Put(Put(fs, Cur, "stage", S), Cur, picked, R))
<1> DEFINE G == Put(fs, Cur, "stage", S)
           F == Put(G, Cur, picked, R)
<1>0. "stage" \in Places /\ picked \in Places /\ picked # "stage"
  BY DEF Places, Sources
<1>1. /\ G \in FileSystems /\ G[Cur].stage = S
      /\ \A v \in Units, q \in Places : v # Cur \/ q # "stage" => G[v][q] = fs[v][q]
      /\ \A v \in Units \ {Cur} : G[v] = fs[v]
  BY <1>0, PutIs, Running
<1> HIDE DEF G
<1>2. /\ F \in FileSystems /\ F[Cur][picked] = R
      /\ \A v \in Units, q \in Places : v # Cur \/ q # picked => F[v][q] = G[v][q]
      /\ \A v \in Units \ {Cur} : F[v] = G[v]
  BY <1>0, <1>1, PutIs, Running
<1> HIDE DEF F
<1>3. F[Cur].stage = S /\ F[Cur].dest = fs[Cur].dest
  BY <1>0, <1>1, <1>2, Running DEF Sources
<1>4. \A p \in Sources : F[Cur][p] \subseteq fs[Cur][p]
  BY <1>0, <1>1, <1>2, Running DEF Sources
<1>5. Own(S) = {}
  BY Running DEF Own, Dir
<1>6. Own(F[Cur].stage) = {} /\ Own(F[Cur].dest) \subseteq fs[Cur].dest
  BY <1>3, <1>5 DEF Own
<1>7. Effect(F)
  BY <1>1, <1>2, <1>4, <1>6, LocalEffect
<1> QED BY <1>7 DEF F, G

\* Clearing the destination before a forced copy.
LEMMA ClearEffect ==
    ASSUME HomeTypes, Apart, pc \in Operations
    PROVE  Effect(Put(fs, Cur, "stage", {}))
<1> DEFINE F == Put(fs, Cur, "stage", {})
<1>1. /\ F \in FileSystems /\ F[Cur].stage = {}
      /\ \A v \in Units, q \in Places : v # Cur \/ q # "stage" => F[v][q] = fs[v][q]
      /\ \A v \in Units \ {Cur} : F[v] = fs[v]
  BY PutIs, Running
<1> HIDE DEF F
<1>2. Own(F[Cur].stage) = {} /\ Own(F[Cur].dest) \subseteq fs[Cur].dest
  BY <1>1, Running DEF Own
<1>3. \A p \in Sources : F[Cur][p] \subseteq fs[Cur][p]
  BY <1>1, Running DEF Sources
<1>4. Effect(F)
  BY <1>1, <1>2, <1>3, LocalEffect
<1> QED BY <1>4 DEF F

\* Moving a source into the staging directory.
LEMMA MoveToStageEffect ==
    ASSUME HomeTypes, Apart, MoveToStage
    PROVE  Effect(fs')
<1>0. pc \in Operations /\ picked \in Sources /\ picked \in Places /\ Cur \in Units
  BY Running DEF MoveToStage, Operations, Places
<1>1. fs[Cur][picked] \in SUBSET Things /\ fs[Cur].stage \in SUBSET Things
  BY <1>0, Running DEF FileSystems
<1> DEFINE S == fs[Cur].stage \cup Moved
           R == fs[Cur][picked] \ Moved
<1>2. fs' = Put(Put(fs, Cur, "stage", S), Cur, picked, R)
  BY DEF MoveToStage
<1>3. S \in SUBSET Things /\ R \in SUBSET Things /\ R \subseteq fs[Cur][picked]
      /\ S \subseteq fs[Cur].stage \cup fs[Cur][picked]
  BY <1>1, MovedIs
<1> HIDE DEF S, R
<1> QED BY <1>0, <1>2, <1>3, StagingEffect

\* Two steps at once: the plugins that are moved, and the directory they are in.
LEMMA TwoPuts ==
    ASSUME HomeTypes, Apart, pc \in Operations, Cur = "plugins", picked \in Sources,
           NEW S \in SUBSET Things, NEW R \in SUBSET Things
    PROVE  [fs EXCEPT !["plugins"].stage = S, !["plugins"][picked] = R]
             = Put(Put(fs, Cur, "stage", S), Cur, picked, R)
BY Running DEF Put, FileSystems, Sources

\* Staging the plugins directory.
LEMMA StagePluginsEffect ==
    ASSUME HomeTypes, Apart, StagePlugins \/ StagePluginsCollide
    PROVE  Effect(fs')
<1>0. pc \in Operations /\ picked \in Sources /\ picked \in Places /\ Cur = "plugins"
  BY Running DEF StagePlugins, StagePluginsCollide, Operations, Places
<1>1. fs[Cur][picked] \in SUBSET Things /\ fs[Cur].stage \in SUBSET Things /\ Dir \in Things
  BY <1>0, Running DEF FileSystems, Things
<1>2. CASE StagePlugins
  <2> DEFINE S == {x \in fs[Cur].stage : x.name \notin NamesOf(Staged)} \cup Taken("plugins", fs[Cur][picked]) \cup {Dir}
             R == fs[Cur][picked] \ Taken("plugins", fs[Cur][picked])
  <2>1. S \in SUBSET Things /\ R \in SUBSET Things /\ R \subseteq fs[Cur][picked]
        /\ S \subseteq fs[Cur].stage \cup fs[Cur][picked] \cup {Dir}
    BY <1>1, TakenIs
  <2>2. TierMoved = [fs EXCEPT !["plugins"].stage = S, !["plugins"][picked] = R]
    BY <1>0, Running DEF TierMoved, FileSystems, Sources
  <2> HIDE DEF S, R
  <2>3. fs' = TierMoved
    BY <1>2 DEF StagePlugins
  <2>4. fs' = Put(Put(fs, Cur, "stage", S), Cur, picked, R)
    BY <1>0, <2>1, <2>2, <2>3, TwoPuts
  <2> QED BY <1>0, <2>1, <2>4, StagingEffect
<1>3. CASE StagePluginsCollide
  <2> DEFINE S == fs[Cur].stage \cup (Taken("plugins", fs[Cur][picked]) \ Staged) \cup {Dir}
             R == fs[Cur][picked] \ (Taken("plugins", fs[Cur][picked]) \ Staged)
  <2>1. S \in SUBSET Things /\ R \in SUBSET Things /\ R \subseteq fs[Cur][picked]
        /\ S \subseteq fs[Cur].stage \cup fs[Cur][picked] \cup {Dir}
    BY <1>1, TakenIs
  <2>2. fs' = [fs EXCEPT !["plugins"].stage = S, !["plugins"][picked] = R]
    BY <1>0, <1>3, Running DEF StagePluginsCollide, FileSystems, Sources
  <2> HIDE DEF S, R
  <2>4. fs' = Put(Put(fs, Cur, "stage", S), Cur, picked, R)
    BY <1>0, <2>1, <2>2, TwoPuts
  <2> QED BY <1>0, <2>1, <2>4, StagingEffect
<1> QED BY <1>2, <1>3

\* Moving what is staged into its destination.
LEMMA PlaceEffect ==
    ASSUME HomeTypes, Apart, Place
    PROVE  Effect(fs')
<1>0. pc \in Operations /\ Cur \in Units /\ fs \in FileSystems
  BY Running DEF Place, Operations
<1>1. CASE Cur \in {"credentials", "config"}
  <2>1. fs' = [fs EXCEPT ![Cur].dest = fs[Cur].stage, ![Cur].stage = {}]
    BY <1>0, <1>1, Running DEF Place, Sources, Nowhere
  <2>2. /\ fs' \in FileSystems /\ \A v \in Units \ {Cur} : fs'[v] = fs[v]
        /\ \A p \in Sources : fs'[Cur][p] = fs[Cur][p]
        /\ fs'[Cur].stage = {} /\ fs'[Cur].dest = fs[Cur].stage
    <3>1. fs[Cur].stage \in SUBSET Things /\ {} \in SUBSET Things
      BY <1>0 DEF FileSystems, Places
    <3>2. fs' = Put(Put(fs, Cur, "dest", fs[Cur].stage), Cur, "stage", {})
      BY <2>1 DEF Put
    <3> QED BY <1>0, <3>1, <3>2, PutBothIs
  <2>3. Own(fs'[Cur].stage) = {} /\ Own(fs'[Cur].dest) \subseteq fs[Cur].dest
    BY <1>0, <2>2, OwnIs, Running
  <2> QED BY <1>0, <2>2, <2>3, LocalEffect
<1>2. CASE Cur = "database"
  <2>1. fs' = DbSwapped(DbNames, {})
    BY <1>0, <1>2, Running DEF Place, Sources, Nowhere
  <2> QED BY <1>0, <1>2, <2>1, SwapEffect
<1>3. CASE Cur \notin {"credentials", "config", "database"} /\ picked = Nowhere
  <2>1. fs' = fs
    BY <1>3 DEF Place
  <2> QED BY <1>0, <2>1, Running
<1>4. CASE Cur \notin {"credentials", "config", "database"} /\ picked # Nowhere
  <2>1. fs' = [fs EXCEPT ![Cur].dest = @ \cup fs[Cur].stage \cup {Dir}, ![Cur].stage = {}]
    BY <1>4 DEF Place
  <2>2. /\ fs' \in FileSystems /\ \A v \in Units \ {Cur} : fs'[v] = fs[v]
        /\ \A p \in Sources : fs'[Cur][p] = fs[Cur][p]
        /\ fs'[Cur].stage = {} /\ fs'[Cur].dest = fs[Cur].dest \cup fs[Cur].stage \cup {Dir}
    <3> DEFINE D == fs[Cur].dest \cup fs[Cur].stage \cup {Dir}
    <3>1. D \in SUBSET Things /\ {} \in SUBSET Things
      BY <1>0 DEF FileSystems, Places, Things, Dir
    <3>2. fs' = Put(Put(fs, Cur, "dest", D), Cur, "stage", {})
      BY <1>0, <2>1 DEF FileSystems, Places, Put
    <3> HIDE DEF D
    <3>3. /\ fs' \in FileSystems /\ fs'[Cur].dest = D /\ fs'[Cur].stage = {}
          /\ \A p \in Sources : fs'[Cur][p] = fs[Cur][p]
          /\ \A v \in Units \ {Cur} : fs'[v] = fs[v]
      BY <1>0, <3>1, <3>2, PutBothIs
    <3> QED BY <3>3 DEF D
  <2>3. Own(fs[Cur].stage) = {}
    BY <1>0, Running
  <2>4. Own(fs'[Cur].stage) = {} /\ Own(fs'[Cur].dest) \subseteq fs[Cur].dest
    BY <2>2, <2>3 DEF Own, Dir
  <2> QED BY <1>0, <2>2, <2>4, LocalEffect
<1> QED BY <1>1, <1>2, <1>3, <1>4

\* Emptying the staging path after an operation.
LEMMA ThenUnstaged ==
    ASSUME HomeTypes, Apart, pc \in Operations, NEW F, Effect(F)
    PROVE  Effect(Put(F, Cur, "stage", {}))
<1> DEFINE G == Put(F, Cur, "stage", {})
<1>1. /\ G \in FileSystems /\ G[Cur].stage = {}
      /\ \A v \in Units, q \in Places : v # Cur \/ q # "stage" => G[v][q] = F[v][q]
      /\ \A v \in Units \ {Cur} : G[v] = F[v]
  BY PutIs, Running DEF Effect
<1> HIDE DEF G
<1>2. \A v \in Units : Own(G[v].stage) = {} /\ Own(G[v].dest) \subseteq fs[v].dest
  BY <1>1, OwnIs, Running DEF Effect
<1>3. \A v \in Units, p \in Sources : G[v][p] \subseteq fs[v][p]
  BY <1>1, Running DEF Effect, Sources
<1>4. Effect(G)
  BY <1>1, <1>2, <1>3, Running DEF Effect
<1> QED BY <1>4 DEF G

\* Emptying the source.
LEMMA SourceGone ==
    ASSUME HomeTypes, Apart, pc \in Operations, picked \in Sources
    PROVE  Effect(Put(fs, Cur, picked, {}))
<1> DEFINE G == Put(fs, Cur, picked, {})
<1>1. /\ G \in FileSystems /\ G[Cur][picked] = {}
      /\ \A v \in Units, q \in Places : v # Cur \/ q # picked => G[v][q] = fs[v][q]
      /\ \A v \in Units \ {Cur} : G[v] = fs[v]
  BY PutIs, Running DEF Places
<1> HIDE DEF G
<1>2. Own(G[Cur].stage) = {} /\ Own(G[Cur].dest) \subseteq fs[Cur].dest
  BY <1>1, OwnIs, Running DEF Sources
<1>3. \A p \in Sources : G[Cur][p] \subseteq fs[Cur][p]
  BY <1>1, Running DEF Sources
<1>4. Effect(G)
  BY <1>1, <1>2, <1>3, LocalEffect
<1> QED BY <1>4 DEF G

\* Dropping the source and the staging path of a step.
LEMMA DropActionEffect ==
    ASSUME HomeTypes, Apart, Drop
    PROVE  Effect(fs')
<1>0. pc \in Operations /\ Cur \in Units /\ Effect(fs)
  BY Running DEF Drop, Operations
<1>1. CASE Cur = "database"
  <2>1. PICK left \in SUBSET fs[Cur][picked] : fs' = Put(DbDropped(left), Cur, "stage", {})
    BY <1>1 DEF Drop
  <2> QED BY <1>0, <1>1, <2>1, DropEffect, ThenUnstaged
<1>2. CASE Cur = "plugins" \/ (Cur = "logs" /\ Content(fs[Cur][picked]) = {})
  <2>1. fs' = Put(Put(fs, Cur, picked, {}), Cur, "stage", {})
    BY <1>2 DEF Drop
  <2>2. picked \in Sources
    BY <1>0, <1>2, Running
  <2> QED BY <1>0, <2>1, <2>2, SourceGone, ThenUnstaged
<1>3. CASE Cur \notin {"database", "plugins"} /\ ~(Cur = "logs" /\ Content(fs[Cur][picked]) = {})
  <2>1. fs' = Put(fs, Cur, "stage", {})
    BY <1>3 DEF Drop
  <2> QED BY <1>0, <2>1, ThenUnstaged
<1> QED BY <1>1, <1>2, <1>3
-----------------------------------------------------------------------------
(* Nothing of MMRELAY_HOME is lost *)

\* The snapshots of all artifacts stay, and the new ones are parts of the destinations.
Grows ==
    /\ backups' = [u \in Units |-> backups'[u]]
    /\ \A u \in Units : backups[u] \subseteq backups'[u]
    /\ \A u \in Units : \A s \in backups'[u] \ backups[u] :
         /\ u = Cur /\ pc = "backup"
         /\ s \in [Nest(u) -> SUBSET Things] /\ \A v \in Nest(u) : s[v] \subseteq fs[v].dest

\* With the plugins directory the backups of the tracks are gone.
Erased ==
    /\ Cur = "plugins" /\ backups' = [backups EXCEPT !["gpx"] = {}]
    /\ fs'["gpx"].dest = {}

\* What is in a backup stays there, unless it is a track.
LEMMA BackupsGrow ==
    ASSUME Grows, NEW u \in Units, NEW v, NEW x, InBackup(u, v, x)
    PROVE  InBackup(u, v, x)'
BY DEF Grows, InBackup

\* Losing the plugins directory takes no backup but those of the tracks.
LEMMA BackupsErased ==
    ASSUME HomeTypes, Erased, NEW u \in Units \ {"gpx"}, NEW v, NEW x, InBackup(u, v, x)
    PROVE  InBackup(u, v, x)'
BY DEF HomeTypes, Erased, InBackup

\* Sources only lose.
LEMMA RootsStayEmpty ==
    ASSUME HomeTypes, Effect(fs'), roots' = roots, NoMorePlugins
    PROVE  NoMorePlugins'
<1>1. \A i \in 1..Len(roots) : roots[i] \in Sources
  BY DEF HomeTypes, Sources
<1>2. "plugins" \in Units
  BY UnitsAre
<1> QED BY <1>1, <1>2 DEF NoMorePlugins, Effect

\* A destination that may be replaced still may be when backups were added.
LEMMA StillReplaceable ==
    ASSUME HomeTypes, Grows, Effect(fs'), NEW u \in Units, MayReplace(u)
    PROVE  MayReplace(u)'
<1>1. Backed(u)'
  <2> SUFFICES ASSUME NEW v \in Nest(u), NEW x \in Own(fs'[v].dest)
               PROVE  InBackup(u, v, x)'
    BY DEF Backed
  <2>1. x \in Own(fs[v].dest)
    BY NestIs DEF Effect, Own
  <2>2. InBackup(u, v, x)
    BY <2>1 DEF MayReplace, Backed
  <2> QED BY <2>2, BackupsGrow
<1>2. ASSUME u = "plugins" PROVE TracksBacked'
  <2> SUFFICES ASSUME NEW s \in backups'["gpx"], NEW x \in Own(s["gpx"])
               PROVE  InBackup("plugins", "gpx", x)'
    BY DEF TracksBacked
  <2>0. "gpx" \in Units /\ "gpx" \in Nest("plugins") /\ "gpx" \in Nest("gpx")
    BY UnitsAre DEF Nest
  <2>1. InBackup("plugins", "gpx", x)
    <3>1. CASE s \in backups["gpx"]
      BY <1>2, <3>1 DEF MayReplace, TracksBacked
    <3>2. CASE s \notin backups["gpx"]
      <4>1. x \in Own(fs["gpx"].dest)
        BY <2>0, <3>2 DEF Grows, Own
      <4> QED BY <1>2, <2>0, <4>1 DEF MayReplace, Backed
    <3> QED BY <3>1, <3>2
  <2> QED BY <1>2, <2>1, BackupsGrow
<1> QED BY <1>1, <1>2 DEF MayReplace

\* ... or when the plugins directory was removed.
LEMMA ReplaceableErased ==
    ASSUME HomeTypes, Erased, Effect(fs'), NEW u \in Units \ {"gpx"}, MayReplace(u)
    PROVE  MayReplace(u)'
<1>1. Backed(u)'
  <2> SUFFICES ASSUME NEW v \in Nest(u), NEW x \in Own(fs'[v].dest)
               PROVE  InBackup(u, v, x)'
    BY DEF Backed
  <2>1. x \in Own(fs[v].dest)
    BY NestIs DEF Effect, Own
  <2>2. InBackup(u, v, x)
    BY <2>1 DEF MayReplace, Backed
  <2> QED BY <2>2, BackupsErased
<1>2. TracksBacked'
  <2>1. backups'["gpx"] = {}
    BY UnitsAre DEF Erased, HomeTypes
  <2> QED BY <2>1 DEF TracksBacked
<1> QED BY <1>1, <1>2 DEF MayReplace

\* Nothing is lost when the running step may replace its destination, or does not touch
\* it yet.
LEMMA OperationKeeps ==
    ASSUME HomeTypes, Apart, Kept, Tracks, pc \in Operations, Effect(fs'), Grows,
           roots' = roots, orig' = orig,
           MayReplace(Cur) \/ fs' = fs
    PROVE  Kept' /\ Apart'
<1>0. /\ Cur \in Units /\ "gpx" \in Units /\ "plugins" \in Units
      /\ "gpx" \in Nest("plugins") /\ "gpx" \in Nest("gpx") /\ Cur \in Nest(Cur)
  BY UnitsAre, Running DEF Nest
<1>1. Apart'
  <2>1. \A u \in Units : Own(fs'[u].stage) = {}
    BY DEF Effect
  <2>2. \A u \in Units, p \in Sources : Own(fs'[u][p]) = {}
    BY DEF Effect, Apart, Own
  <2> QED BY <2>1, <2>2 DEF Apart
<1>2. \A v \in Units : \A x \in Own(fs[v].dest) :
          x \in fs'[v].dest \/ (MayReplace(Cur) /\ v \in Nest(Cur) /\ InBackup(Cur, v, x))
  BY DEF Effect, MayReplace, Backed, Own
<1>3. \A u \in Units \ {"gpx"} : \A x \in Own(orig'[u]) : x \in fs'[u].dest \/ InBackup(u, u, x)'
  <2> SUFFICES ASSUME NEW u \in Units \ {"gpx"}, NEW x \in Own(orig[u])
               PROVE  x \in fs'[u].dest \/ InBackup(u, u, x)'
    OBVIOUS
  <2>1. x \in fs[u].dest \/ InBackup(u, u, x)
    BY DEF Kept
  <2>2. x \in fs[u].dest => x \in Own(fs[u].dest)
    BY DEF Own
  <2>3. u \in Nest(Cur) => u = Cur
    BY <1>0, NestIs
  <2> QED BY <1>0, <1>2, <2>1, <2>2, <2>3, BackupsGrow
<1>4. NoMorePlugins' \/ TracksBacked'
  <2>1. CASE NoMorePlugins
    BY <2>1, RootsStayEmpty
  <2>2. CASE ~NoMorePlugins
    <3> SUFFICES ASSUME NEW s \in backups'["gpx"], NEW x \in Own(s["gpx"])
                 PROVE  InBackup("plugins", "gpx", x)'
      BY DEF TracksBacked
    <3>1. CASE s \in backups["gpx"]
      BY <1>0, <2>2, <3>1, BackupsGrow DEF Kept, TracksBacked
    <3>2. CASE s \notin backups["gpx"]
      <4>1. x \in Own(fs["gpx"].dest) /\ Cur = "gpx"
        BY <1>0, <3>2 DEF Grows, Own
      <4> QED BY <1>0, <2>2, <4>1, BackupsGrow DEF Tracks
    <3> QED BY <3>1, <3>2
  <2> QED BY <2>1, <2>2
<1>5. ASSUME NEW x \in Own(orig'["gpx"])
      PROVE  \/ x \in fs'["gpx"].dest
             \/ InBackup("plugins", "gpx", x)'
             \/ NoMorePlugins' /\ InBackup("gpx", "gpx", x)'
  <2>1. \/ x \in fs["gpx"].dest \/ InBackup("plugins", "gpx", x)
        \/ NoMorePlugins /\ InBackup("gpx", "gpx", x)
    BY <1>5 DEF Kept
  <2>2. x \in fs["gpx"].dest => x \in Own(fs["gpx"].dest)
    BY <1>5 DEF Own
  <2>3. "gpx" \in Nest(Cur) => Cur = "gpx" \/ Cur = "plugins"
    BY <1>0, NestIs
  <2>4. InBackup("gpx", "gpx", x)' => InBackup("plugins", "gpx", x)' \/ NoMorePlugins'
    <3>1. x.from = "dest"
      BY <1>5 DEF Own
    <3> QED BY <1>4, <3>1 DEF TracksBacked, InBackup, Own
  <2> QED BY <1>0, <1>2, <2>1, <2>2, <2>3, <2>4, BackupsGrow, RootsStayEmpty
<1> QED BY <1>1, <1>3, <1>4, <1>5 DEF Kept

\* The same for the removal of the plugins directory.
LEMMA RemovalKeeps ==
    ASSUME HomeTypes, Apart, Kept, pc \in Operations, Effect(fs'), Erased,
           roots' = roots, orig' = orig, MayReplace(Cur)
    PROVE  Kept' /\ Apart'
<1>0. /\ Cur \in Units /\ "gpx" \in Units /\ "plugins" \in Units /\ Cur = "plugins"
      /\ "gpx" \in Nest("plugins") /\ Cur \in Nest(Cur) /\ backups'["gpx"] = {}
  BY UnitsAre, Running DEF Nest, Erased, HomeTypes
<1>1. Apart'
  <2>1. \A u \in Units : Own(fs'[u].stage) = {}
    BY DEF Effect
  <2>2. \A u \in Units, p \in Sources : Own(fs'[u][p]) = {}
    BY DEF Effect, Apart, Own
  <2> QED BY <2>1, <2>2 DEF Apart
<1>2. \A v \in Units : \A x \in Own(fs[v].dest) :
          x \in fs'[v].dest \/ (v \in Nest(Cur) /\ InBackup(Cur, v, x))
  BY DEF Effect, MayReplace, Backed, Own
<1>3. \A u \in Units \ {"gpx"} : \A x \in Own(orig'[u]) : x \in fs'[u].dest \/ InBackup(u, u, x)'
  <2> SUFFICES ASSUME NEW u \in Units \ {"gpx"}, NEW x \in Own(orig[u])
               PROVE  x \in fs'[u].dest \/ InBackup(u, u, x)'
    OBVIOUS
  <2>1. x \in fs[u].dest \/ InBackup(u, u, x)
    BY DEF Kept
  <2>2. x \in fs[u].dest => x \in Own(fs[u].dest)
    BY DEF Own
  <2>3. u \in Nest(Cur) => u = Cur
    BY <1>0, NestIs
  <2> QED BY <1>0, <1>2, <2>1, <2>2, <2>3, BackupsErased
<1>4. TracksBacked'
  BY <1>0 DEF TracksBacked
<1>5. ASSUME NEW x \in Own(orig'["gpx"]) PROVE InBackup("plugins", "gpx", x)'
  <2>1. \/ x \in fs["gpx"].dest \/ InBackup("plugins", "gpx", x)
        \/ InBackup("gpx", "gpx", x)
    BY <1>5 DEF Kept
  <2>2. x \in fs["gpx"].dest => InBackup("plugins", "gpx", x)
    BY <1>0, <1>5 DEF Own, MayReplace, Backed
  <2>3. InBackup("gpx", "gpx", x) => InBackup("plugins", "gpx", x)
    <3>1. x.from = "dest"
      BY <1>5 DEF Own
    <3> QED BY <1>0, <3>1 DEF MayReplace, TracksBacked, InBackup, Own
  <2> QED BY <1>0, <2>1, <2>2, <2>3, BackupsErased
<1> QED BY <1>1, <1>3, <1>4, <1>5 DEF Kept
-----------------------------------------------------------------------------
(* One lemma for each kind of step *)

\* The types after an operation that goes on with the next one or fails.
LEMMA OperationTypes ==
    ASSUME HomeTypes, pc \in Operations, fs' \in FileSystems,
           backups' = [u \in Units |-> backups'[u]],
           \A u \in Units : \A s \in backups'[u] : s \in [Nest(u) -> SUBSET Things],
           (pc # "drop" /\ pc' = Following) \/ pc' = "failed",
           picked' = picked \/ (pc = "stage" /\ Cur = "gpx" /\ picked' = Nowhere),
           faults' \in Nat, UNCHANGED <<step, results, rolled, outcome, control>>
    PROVE  HomeTypes' /\ Cur' = Cur /\ pc' \in Replacing \cup {"failed"}
<1>1. Cur' = Cur
  BY DEF Cur
<1>2. StepsOf(Cur)' = StepsOf(Cur)
  BY <1>1 DEF StepsOf, CredentialsSteps, ConfigSteps, DatabaseSteps, LogsSteps,
     StoreSteps, PluginsSteps, GpxSteps
<1>3. step \in 1..7 /\ Cur \in Units
  BY OrderInjective DEF HomeTypes, Cur
<1>4. CASE pc # "drop" /\ pc' = Following
  <2>1. pc' \in Replacing /\ pc' # pc /\ \E k \in 1..Len(StepsOf(Cur)) : StepsOf(Cur)[k] = pc'
    BY <1>4, NextOperation
  <2>2. pc' \in Operations /\ pc' \in Phases /\ pc' \notin {"idle", "select", "service", "failed", "rollback", "backup"}
    BY <2>1 DEF Replacing, Operations, Phases
  <2>3. Cur # "gpx" \/ pc' \in {"backup", "stage"} => picked' # Nowhere
    BY <1>4, <2>1, <2>2, NextOperation DEF HomeTypes
  <2> QED BY <1>1, <1>2, <1>3, <2>1, <2>2, <2>3 DEF HomeTypes, control, FileSystems
<1>5. CASE pc' = "failed"
  <2>1. pc' \notin Operations /\ pc' \in Phases
    BY <1>5 DEF Operations, Phases
  <2> QED BY <1>1, <1>3, <1>5, <2>1 DEF HomeTypes, control, FileSystems
<1> QED BY <1>4, <1>5
\* An operation that does not remove the plugins directory preserves the invariant.
LEMMA OperationGoesOn ==
    ASSUME KeptInv, pc \in Operations, Effect(fs'), Grows,
           MayReplace(Cur) \/ fs' = fs,
           (pc # "drop" /\ pc' = Following /\ MayReplace(Cur)') \/ pc' = "failed",
           picked' = picked \/ (pc = "stage" /\ Cur = "gpx" /\ picked' = Nowhere),
           faults' \in Nat, UNCHANGED <<step, results, rolled, outcome, control>>
    PROVE  KeptInv'
<1>0. HomeTypes /\ Apart /\ Kept /\ Behind /\ Replaceable /\ Tracks
  BY DEF KeptInv
<1>1. \A u \in Units : \A s \in backups'[u] : s \in [Nest(u) -> SUBSET Things]
  BY <1>0 DEF Grows, HomeTypes
<1>2. HomeTypes' /\ Cur' = Cur /\ pc' \in Replacing \cup {"failed"}
  BY <1>0, <1>1, OperationTypes DEF Grows, Effect
<1>3. Kept' /\ Apart'
  BY <1>0, OperationKeeps DEF control
<1>4. pc \in Working /\ pc' \in Working /\ pc' # "rollback" /\ (pc' # "failed" => MayReplace(Cur)')
  BY <1>2 DEF Working, Replacing, Operations
<1>5. Behind'
  BY <1>0, <1>4 DEF Behind, control
<1>6. Replaceable'
  <2>1. \A u \in Units : results[u] = "move" => MayReplace(u)'
    BY <1>0, <1>4, StillReplaceable DEF Replaceable
  <2> QED BY <1>2, <1>4, <2>1 DEF Replaceable, Replacing, Operations
<1>7. Tracks'
  <2>0. "gpx" \in Units /\ "plugins" \in Units
    BY UnitsAre
  <2>1. NoMorePlugins => NoMorePlugins'
    BY <1>0, RootsStayEmpty DEF control
  <2>2. pc' # "failed" /\ Cur = "plugins" => TracksBacked'
    BY <1>2, <1>4 DEF MayReplace
  <2>3. ASSUME Cur = "gpx"
        PROVE  NoMorePlugins' \/ \A x \in Own(fs'["gpx"].dest) : InBackup("plugins", "gpx", x)'
    <3>1. Own(fs'["gpx"].dest) \subseteq Own(fs["gpx"].dest)
      BY <2>0 DEF Effect, Own
    <3>2. NoMorePlugins \/ \A x \in Own(fs["gpx"].dest) : InBackup("plugins", "gpx", x)
      BY <1>0, <2>3 DEF Tracks
    <3> QED BY <2>0, <2>1, <3>1, <3>2, BackupsGrow
  <2>4. pc' \in Operations => pc' # "failed"
    BY DEF Operations
  <2> QED BY <1>0, <1>2, <1>4, <2>1, <2>2, <2>3, <2>4 DEF Tracks, control
<1> QED BY <1>2, <1>3, <1>5, <1>6, <1>7 DEF KeptInv

\* An operation that leaves the backups alone.
LEMMA SameBackups ==
    ASSUME HomeTypes, backups' = backups
    PROVE  Grows
BY DEF HomeTypes, Grows

\* Clear keeps the invariant.
LEMMA ClearKeeps == KeptInv /\ Clear => KeptInv'
<1> SUFFICES ASSUME KeptInv, Clear PROVE KeptInv' OBVIOUS
<1>1. pc \in Operations /\ pc \in Replacing /\ pc # "drop" /\ HomeTypes /\ Apart /\ MayReplace(Cur)
  BY DEF Clear, Operations, Replacing, KeptInv, Replaceable
<1>2. Effect(fs') /\ Grows
  BY <1>1, ClearEffect, SameBackups DEF Clear
<1>3. MayReplace(Cur)'
  <2>1. Cur \in Units /\ Cur' = Cur
    BY <1>1, Running DEF Clear, Cur
  <2> QED BY <1>1, <1>2, <2>1, StillReplaceable
<1> QED BY <1>1, <1>2, <1>3, OperationGoesOn DEF Clear, HomeTypes

\* MoveToStage keeps the invariant.
LEMMA MoveToStageKeeps == KeptInv /\ MoveToStage => KeptInv'
<1> SUFFICES ASSUME KeptInv, MoveToStage PROVE KeptInv' OBVIOUS
<1>1. pc \in Operations /\ pc \in Replacing /\ pc # "drop" /\ HomeTypes /\ Apart /\ MayReplace(Cur)
  BY DEF MoveToStage, Operations, Replacing, KeptInv, Replaceable
<1>2. Effect(fs') /\ Grows
  BY <1>1, MoveToStageEffect, SameBackups DEF MoveToStage
<1>3. MayReplace(Cur)'
  <2>1. Cur \in Units /\ Cur' = Cur
    BY <1>1, Running DEF MoveToStage, Cur
  <2> QED BY <1>1, <1>2, <2>1, StillReplaceable
<1> QED BY <1>1, <1>2, <1>3, OperationGoesOn DEF MoveToStage, HomeTypes

\* CopyDatabase keeps the invariant.
LEMMA CopyDatabaseKeeps == KeptInv /\ CopyDatabase => KeptInv'
<1> SUFFICES ASSUME KeptInv, CopyDatabase PROVE KeptInv' OBVIOUS
<1>1. pc \in Operations /\ pc \in Replacing /\ pc # "drop" /\ HomeTypes /\ Apart /\ MayReplace(Cur)
  BY DEF CopyDatabase, Operations, Replacing, KeptInv, Replaceable
<1>2. Effect(fs') /\ Grows
  BY <1>1, CopyEffect, SameBackups DEF CopyDatabase
<1>3. MayReplace(Cur)'
  <2>1. Cur \in Units /\ Cur' = Cur
    BY <1>1, Running DEF CopyDatabase, Cur
  <2> QED BY <1>1, <1>2, <2>1, StillReplaceable
<1> QED BY <1>1, <1>2, <1>3, OperationGoesOn DEF CopyDatabase, HomeTypes

\* VerifyDatabase keeps the invariant.
LEMMA VerifyDatabaseKeeps == KeptInv /\ VerifyDatabase => KeptInv'
<1> SUFFICES ASSUME KeptInv, VerifyDatabase PROVE KeptInv' OBVIOUS
<1>1. pc \in Operations /\ pc \in Replacing /\ pc # "drop" /\ HomeTypes /\ Apart /\ MayReplace(Cur)
  BY DEF VerifyDatabase, Operations, Replacing, KeptInv, Replaceable
<1>2. Effect(fs') /\ Grows
  BY <1>1, Running, SameBackups DEF VerifyDatabase
<1>3. MayReplace(Cur)'
  <2>1. Cur \in Units /\ Cur' = Cur
    BY <1>1, Running DEF VerifyDatabase, Cur
  <2> QED BY <1>1, <1>2, <2>1, StillReplaceable
<1> QED BY <1>1, <1>2, <1>3, OperationGoesOn DEF VerifyDatabase, HomeTypes

\* StagePlugins keeps the invariant.
LEMMA StagePluginsKeeps == KeptInv /\ StagePlugins => KeptInv'
<1> SUFFICES ASSUME KeptInv, StagePlugins PROVE KeptInv' OBVIOUS
<1>1. pc \in Operations /\ pc \in Replacing /\ pc # "drop" /\ HomeTypes /\ Apart /\ MayReplace(Cur)
  BY DEF StagePlugins, Operations, Replacing, KeptInv, Replaceable
<1>2. Effect(fs') /\ Grows
  BY <1>1, StagePluginsEffect, SameBackups DEF StagePlugins
<1>3. MayReplace(Cur)'
  <2>1. Cur \in Units /\ Cur' = Cur
    BY <1>1, Running DEF StagePlugins, Cur
  <2> QED BY <1>1, <1>2, <2>1, StillReplaceable
<1> QED BY <1>1, <1>2, <1>3, OperationGoesOn DEF StagePlugins, HomeTypes

\* Place keeps the invariant.
LEMMA PlaceKeeps == KeptInv /\ Place => KeptInv'
<1> SUFFICES ASSUME KeptInv, Place PROVE KeptInv' OBVIOUS
<1>1. pc \in Operations /\ pc \in Replacing /\ pc # "drop" /\ HomeTypes /\ Apart /\ MayReplace(Cur)
  BY DEF Place, Operations, Replacing, KeptInv, Replaceable
<1>2. Effect(fs') /\ Grows
  BY <1>1, PlaceEffect, SameBackups DEF Place
<1>3. MayReplace(Cur)'
  <2>1. Cur \in Units /\ Cur' = Cur
    BY <1>1, Running DEF Place, Cur
  <2> QED BY <1>1, <1>2, <2>1, StillReplaceable
<1> QED BY <1>1, <1>2, <1>3, OperationGoesOn DEF Place, HomeTypes

\* A name clash in the plugins directory keeps the invariant.
LEMMA CollideKeeps == KeptInv /\ StagePluginsCollide => KeptInv'
<1> SUFFICES ASSUME KeptInv, StagePluginsCollide PROVE KeptInv' OBVIOUS
<1>1. pc \in Operations /\ pc \in Replacing /\ HomeTypes /\ Apart /\ MayReplace(Cur)
  BY DEF StagePluginsCollide, Operations, Replacing, KeptInv, Replaceable
<1>2. Effect(fs') /\ Grows
  BY <1>1, StagePluginsEffect, SameBackups DEF StagePluginsCollide
<1> QED BY <1>1, <1>2, OperationGoesOn DEF StagePluginsCollide, HomeTypes

\* After the backup the destination may be replaced.
LEMMA BackupKeeps == KeptInv /\ Backup => KeptInv'
<1> SUFFICES ASSUME KeptInv, Backup PROVE KeptInv' OBVIOUS
<1>1. pc \in Operations /\ pc = "backup" /\ pc # "drop" /\ HomeTypes /\ Apart /\ Tracks /\ fs' = fs
  BY DEF Backup, Operations, KeptInv
<1>2. Cur \in Units /\ Cur' = Cur /\ Nest(Cur) \subseteq Units /\ Effect(fs)
  BY <1>1, Running, NestIs DEF Backup, Cur
<1> DEFINE snap == [v \in Nest(Cur) |-> fs[v].dest]
<1>3. snap \in [Nest(Cur) -> SUBSET Things] /\ \A v \in Nest(Cur) : snap[v] = fs[v].dest
  BY <1>1, <1>2, Running DEF FileSystems
<1>4. \/ backups' = backups /\ \A v \in Nest(Cur) : fs[v].dest = {}
      \/ backups' = [backups EXCEPT ![Cur] = @ \cup {snap}]
  BY DEF Backup
<1> HIDE DEF snap
<1>5. Grows
  <2>1. CASE backups' = backups
    BY <1>1, <2>1, SameBackups
  <2>2. CASE backups' = [backups EXCEPT ![Cur] = @ \cup {snap}]
    <3>1. /\ backups' = [u \in Units |-> backups'[u]]
          /\ \A u \in Units : backups'[u] = IF u = Cur THEN backups[u] \cup {snap} ELSE backups[u]
      BY <1>1, <1>2, <2>2 DEF HomeTypes
    <3> QED BY <1>1, <1>3, <3>1 DEF Grows
  <2> QED BY <1>4, <2>1, <2>2
<1>6. MayReplace(Cur)'
  <2>1. \A v \in Nest(Cur) : \A x \in Own(fs[v].dest) : InBackup(Cur, v, x)'
    <3>1. CASE \A v \in Nest(Cur) : fs[v].dest = {}
      BY <3>1 DEF Own
    <3>2. CASE backups' = [backups EXCEPT ![Cur] = @ \cup {snap}]
      <4>1. snap \in backups'[Cur]
        BY <1>1, <1>2, <3>2 DEF HomeTypes
      <4> QED BY <1>2, <1>3, <4>1 DEF InBackup, Own
    <3> QED BY <1>4, <3>1, <3>2
  <2>2. ASSUME Cur = "plugins" PROVE TracksBacked'
    <3>1. TracksBacked
      BY <1>1, <2>2 DEF Tracks
    <3>2. \A s \in backups'["gpx"] : s \in backups["gpx"]
      BY <2>2, <1>5, UnitsAre DEF Grows
    <3> QED BY <1>2, <1>5, <2>2, <3>1, <3>2, BackupsGrow DEF TracksBacked
  <2>3. (Backed(Cur) /\ (Cur = "plugins" => TracksBacked))'
    BY <1>1, <1>2, <2>1, <2>2 DEF Backed
  <2> QED BY <2>3 DEF MayReplace
<1> QED BY <1>1, <1>2, <1>5, <1>6, OperationGoesOn DEF Backup, HomeTypes

\* An interrupted operation.
LEMMA TornKeeps ==
    ASSUME KeptInv, fs' \in Torn, backups' \in TornBackups
    PROVE  /\ pc \in Operations => Effect(fs') /\ Grows /\ (MayReplace(Cur) \/ fs' = fs)
           /\ pc \notin Operations => fs' = fs /\ backups' = backups
<1>0. HomeTypes /\ Apart /\ Replaceable
  BY DEF KeptInv
<1>1. CASE pc \notin Operations
  BY <1>1 DEF Torn, TornBackups, Operations
<1>2. CASE pc \in Operations
  <2>1. Effect(fs') /\ Cur \in Units /\ Nest(Cur) \subseteq Units
    BY <1>0, <1>2, TornEffect, Running, NestIs
  <2>2. CASE pc = "backup"
    <3>1. fs' = fs
      BY <2>2 DEF Torn
    <3>2. PICK part : backups' = [backups EXCEPT ![Cur] = @ \cup {[v \in Nest(Cur) |-> fs[v].dest \cap part]}]
      BY <2>2 DEF TornBackups
    <3> DEFINE snap == [v \in Nest(Cur) |-> fs[v].dest \cap part]
    <3>3. snap \in [Nest(Cur) -> SUBSET Things] /\ \A v \in Nest(Cur) : snap[v] \subseteq fs[v].dest
      BY <1>0, <1>2, <2>1, Running DEF FileSystems
    <3> HIDE DEF snap
    <3>4. /\ backups' = [u \in Units |-> backups'[u]]
          /\ \A u \in Units : backups'[u] = IF u = Cur THEN backups[u] \cup {snap} ELSE backups[u]
      BY <1>0, <2>1, <3>2 DEF HomeTypes, snap
    <3>5. Grows
      BY <2>2, <3>3, <3>4 DEF Grows
    <3> QED BY <2>1, <3>1, <3>5, <1>2
  <2>3. CASE pc # "backup"
    <3>1. backups' = backups /\ MayReplace(Cur)
      BY <1>0, <1>2, <2>3 DEF TornBackups, Replaceable, Replacing
    <3> QED BY <1>0, <1>2, <2>1, <3>1, SameBackups
  <2> QED BY <2>2, <2>3
<1> QED BY <1>1, <1>2
\* _finalize_move() of a directory.
LEMMA RemoveOldKeeps == KeptInv /\ RemoveOld => KeptInv'
<1> SUFFICES ASSUME KeptInv, RemoveOld PROVE KeptInv' OBVIOUS
<1>1. pc \in Operations /\ pc \in Replacing /\ pc # "drop" /\ pc = "remove" /\ MayReplace(Cur)
  BY DEF RemoveOld, Operations, Replacing, KeptInv, Replaceable
<1>0. HomeTypes /\ Apart /\ Kept /\ Behind /\ Replaceable /\ Tracks
  BY DEF KeptInv
<1>2. Effect(fs') /\ Cur \in Units /\ Cur' = Cur
  BY <1>0, <1>1, RemovedEffect, Running DEF RemoveOld, Cur
<1>3. CASE Cur # "plugins"
  <2>1. Grows
    BY <1>0, <1>3, SameBackups DEF RemoveOld, WithoutNested
  <2>2. MayReplace(Cur)'
    BY <1>0, <1>1, <1>2, <2>1, StillReplaceable
  <2> QED BY <1>0, <1>1, <1>2, <2>1, <2>2, OperationGoesOn DEF RemoveOld, HomeTypes
<1>4. CASE Cur = "plugins"
  <2>0. "gpx" \in Units /\ "plugins" \in Units /\ "gpx" \in Nest("plugins") /\ fs \in FileSystems
    BY <1>0, <1>1, UnitsAre, Running DEF Nest
  <2>1. Erased
    <3>1. fs'["gpx"].dest = {}
      BY <1>4, <2>0, RemovedIs DEF RemoveOld
    <3> QED BY <1>4, <3>1 DEF RemoveOld, WithoutNested, Erased
  <2>2. /\ backups' = [u \in Units |-> backups'[u]]
        /\ \A u \in Units : \A s \in backups'[u] : s \in [Nest(u) -> SUBSET Things]
    BY <1>0, <2>0, <2>1 DEF Erased, HomeTypes
  <2>3. HomeTypes' /\ pc' \in Replacing
    <3>1. Following \in Replacing
      BY <1>0, <1>1, NextOperation
    <3> QED BY <1>0, <1>1, <1>2, <2>2, <3>1, OperationTypes DEF RemoveOld, HomeTypes, Effect
  <2>4. Kept' /\ Apart'
    BY <1>0, <1>1, <1>2, <2>1, RemovalKeeps DEF RemoveOld, control
  <2>5. pc \in Working /\ pc' \in Working /\ pc' \in Operations /\ pc' # "rollback"
    BY <1>1, <2>3 DEF Working, Replacing, Operations
  <2>6. Behind'
    BY <1>0, <1>1, <2>5 DEF Behind, RemoveOld, control
  <2>7. Replaceable'
    <3>0. step = 6
      BY <1>0, <1>1, <1>4, OrderIs, OrderInjective DEF Cur, HomeTypes
    <3>1. results["gpx"] = "none"
      <4>1. results[Order[7]] # "none" => 7 < step
        BY <1>0, <2>5 DEF Behind
      <4> QED BY <3>0, <4>1, OrderIs
    <3>2. \A u \in Units : results[u] = "move" => MayReplace(u)'
      BY <1>0, <1>2, <2>1, <2>5, <3>1, ReplaceableErased DEF Replaceable
    <3>3. MayReplace(Cur)'
      BY <1>0, <1>1, <1>2, <1>4, <2>0, <2>1, ReplaceableErased
    <3> QED BY <1>2, <2>5, <3>2, <3>3 DEF Replaceable, RemoveOld
  <2>8. Tracks'
    <3>0. backups'["gpx"] = {}
      BY <1>0, <2>0, <2>1 DEF Erased, HomeTypes
    <3>1. TracksBacked'
      BY <3>0 DEF TracksBacked
    <3>2. NoMorePlugins => NoMorePlugins'
      BY <1>0, <1>2, RootsStayEmpty DEF RemoveOld, control
    <3> QED BY <1>0, <1>2, <1>4, <2>5, <3>1, <3>2 DEF Tracks, RemoveOld, control
  <2> QED BY <2>3, <2>4, <2>6, <2>7, <2>8 DEF KeptInv
<1> QED BY <1>3, <1>4

\* The running step is completed with an action.
LEMMA AdvanceBehind ==
    ASSUME HomeTypes, Behind, pc \in {"select"} \cup Operations, NEW action, action # "none",
           Advance(Cur, action), UNCHANGED control
    PROVE  /\ Behind' /\ pc' \in {"select", "service"} /\ step' = step + 1
           /\ \A v \in Units : results'[v] = IF v = Cur THEN action ELSE results[v]
           /\ results' = [v \in Units |-> results'[v]]
<1>1. step \in 1..7 /\ Cur \in Units /\ pc \in Working /\ "plugins" \in Units
  BY OrderInjective, UnitsAre DEF HomeTypes, Cur, Working
<1>2. pc' \in {"select", "service"} /\ step' = step + 1 /\ pc' \notin Operations
  BY DEF Advance, Operations
<1>3. /\ \A v \in Units : results'[v] = IF v = Cur THEN action ELSE results[v]
      /\ results' = [v \in Units |-> results'[v]]
  BY <1>1 DEF Advance, HomeTypes
<1>4. \A i \in 1..7 : results'[Order[i]] # "none" => i < step'
  <2> SUFFICES ASSUME NEW i \in 1..7, results'[Order[i]] # "none" PROVE i < step'
    OBVIOUS
  <2>1. CASE Order[i] = Cur
    BY <1>1, <1>2, <2>1, OrderInjective DEF Cur
  <2>2. CASE Order[i] # Cur
    <3>1. results[Order[i]] # "none"
      BY <1>3, <2>2, OrderInjective
    <3> QED BY <1>1, <1>2, <3>1 DEF Behind
  <2> QED BY <2>1, <2>2
<1>5. step' > 6 => results'["plugins"] # "none"
  <2>1. CASE step = 6
    BY <1>1, <1>3, <2>1, OrderIs DEF Cur
  <2>2. CASE step = 7
    <3>1. Cur # "plugins"
      BY <2>2, OrderIs DEF Cur
    <3> QED BY <1>1, <1>3, <2>2, <3>1 DEF Behind
  <2> QED BY <1>1, <1>2, <2>1, <2>2
<1>6. scan' = IF roots' = <<>> THEN <<"home">> ELSE roots'
  BY <1>1 DEF Behind, control
<1>7. Behind'
  BY <1>2, <1>4, <1>5, <1>6 DEF Behind
<1> QED BY <1>2, <1>3, <1>7

\* The types after a completed step.
LEMMA AdvanceTypes ==
    ASSUME HomeTypes, pc \in {"select"} \cup Operations, fs' \in FileSystems, backups' = backups,
           NEW action \in NoOps \cup {"dry_run", "move"},
           Advance(Cur, action), UNCHANGED <<rolled, outcome, faults, control>>
    PROVE  HomeTypes'
<1>1. step \in 1..7 /\ Cur \in Units
  BY OrderInjective DEF HomeTypes, Cur
<1>2. results' \in [Units -> NoOps \cup {"none", "dry_run", "move"}]
  BY <1>1 DEF Advance, HomeTypes
<1>3. /\ pc' \in Phases /\ pc' \notin Operations /\ pc' \notin {"failed", "rollback", "idle"}
      /\ step' \in 0..8 /\ (pc' = "select" => step' \in 1..7) /\ (pc' = "service" => step' = 8)
  BY <1>1, OrderIs DEF Advance, Phases, Operations
<1> QED BY <1>2, <1>3 DEF HomeTypes, control, Advance, FileSystems

\* The end of a step.
LEMMA DropKeeps == KeptInv /\ Drop => KeptInv'
<1> SUFFICES ASSUME KeptInv, Drop PROVE KeptInv' OBVIOUS
<1>0. HomeTypes /\ Apart /\ Kept /\ Behind /\ Replaceable /\ Tracks
  BY DEF KeptInv
<1>1. pc \in Operations /\ pc \in Replacing /\ MayReplace(Cur) /\ Advance(Cur, "move") /\ pc \in Working
  BY DEF Drop, Operations, Replacing, KeptInv, Replaceable, Working
<1>2. Effect(fs') /\ Grows /\ Cur \in Units
  BY <1>0, <1>1, DropActionEffect, SameBackups, Running DEF Drop
<1>3. HomeTypes'
  BY <1>0, <1>1, <1>2, AdvanceTypes DEF Drop, Effect
<1>4. Kept' /\ Apart'
  BY <1>0, <1>1, <1>2, OperationKeeps DEF Drop, control
<1>5. /\ Behind' /\ pc' \in {"select", "service"}
      /\ \A v \in Units : results'[v] = IF v = Cur THEN "move" ELSE results[v]
  BY <1>0, <1>1, AdvanceBehind DEF Drop
<1>6. pc' \notin Operations /\ pc' \notin Replacing /\ pc' # "rollback" /\ "plugins" \in Units
  BY <1>5, UnitsAre DEF Operations, Replacing
<1>7. Replaceable'
  <2>1. \A u \in Units : results'[u] = "move" => MayReplace(u)
    BY <1>0, <1>1, <1>5 DEF Replaceable
  <2>2. \A u \in Units : results'[u] = "move" => MayReplace(u)'
    BY <1>0, <1>2, <2>1, StillReplaceable
  <2> QED BY <1>6, <2>2 DEF Replaceable
<1>8. Tracks'
  <2>1. NoMorePlugins => NoMorePlugins'
    BY <1>0, <1>2, RootsStayEmpty DEF Drop, control
  <2>2. results'["plugins"] = results["plugins"] \/ results'["plugins"] = "move"
    BY <1>5, <1>6
  <2>3. "move" \notin NoOps /\ mode' = mode
    BY DEF NoOps, Drop, control
  <2> QED BY <1>0, <1>1, <1>6, <2>1, <2>2, <2>3 DEF Tracks
<1> QED BY <1>3, <1>4, <1>5, <1>7, <1>8 DEF KeptInv

\* The files, the backups and the history are as before: nothing is lost.
LEMMA NothingTouched ==
    ASSUME UNCHANGED <<fs, backups, roots, orig>>
    PROVE  /\ Apart => Apart'
           /\ Kept => Kept'
           /\ NoMorePlugins' = NoMorePlugins
           /\ TracksBacked' = TracksBacked
           /\ \A u : MayReplace(u)' = MayReplace(u)
           /\ \A u, v, x : InBackup(u, v, x)' = InBackup(u, v, x)
BY DEF Apart, Kept, NoMorePlugins, TracksBacked, MayReplace, Backed, InBackup

\* A file operation fails.
LEMMA FailsKeeps == KeptInv /\ Fails => KeptInv'
<1> SUFFICES ASSUME KeptInv, Fails PROVE KeptInv' OBVIOUS
<1>0. HomeTypes /\ Apart /\ Kept /\ Behind /\ Replaceable /\ Tracks
  BY DEF KeptInv
<1>1. faults' \in Nat /\ pc' = "failed"
  BY <1>0 DEF Fails, HomeTypes
<1>2. CASE pc \in Operations
  <2>1. Effect(fs') /\ Grows /\ (MayReplace(Cur) \/ fs' = fs)
    BY <1>2, TornKeeps DEF Fails
  <2> QED BY <1>1, <1>2, <2>1, OperationGoesOn DEF Fails
<1>3. CASE pc = "service"
  <2>1. fs' = fs /\ backups' = backups /\ pc \notin Operations
    BY <1>3, TornKeeps DEF Fails, Operations
  <2>2. UNCHANGED <<fs, backups, roots, orig>>
    BY <2>1 DEF Fails, control
  <2>3. pc' \in Phases /\ pc' \notin Operations /\ pc' \notin Replacing /\ pc' \in Working /\ pc \in Working
    BY <1>1, <1>3 DEF Phases, Operations, Replacing, Working
  <2>4. HomeTypes'
    BY <1>0, <1>1, <1>3, <2>1, <2>3 DEF HomeTypes, Fails, control
  <2>5. Apart' /\ Kept'
    BY <1>0, <2>2, NothingTouched
  <2>6. Behind'
    BY <1>0, <2>3 DEF Behind, Fails, control
  <2>7. Replaceable'
    BY <1>0, <1>1, <2>2, <2>3, NothingTouched DEF Replaceable, Fails
  <2>8. Tracks'
    BY <1>0, <2>2, <2>3, NothingTouched DEF Tracks, Fails, control
  <2> QED BY <2>4, <2>5, <2>6, <2>7, <2>8 DEF KeptInv
<1> QED BY <1>2, <1>3 DEF Fails

\* The process is killed: what it was doing is cut short.
LEMMA CrashKeeps == KeptInv /\ Crash => KeptInv'
<1> SUFFICES ASSUME KeptInv, Crash PROVE KeptInv' OBVIOUS
<1>0. HomeTypes /\ Apart /\ Kept /\ Tracks
  BY DEF KeptInv
<1>1. /\ pc' \in Phases /\ pc' = "dead" /\ pc' \notin Operations /\ pc' \notin Replacing
      /\ pc' \notin Working
  BY DEF Crash, Phases, Operations, Replacing, Working
<1>2. Behind' /\ Replaceable' /\ Tracks'
  BY <1>1 DEF Behind, Replaceable, Tracks
<1>3. CASE pc \in Operations
  <2>1. Effect(fs') /\ Grows /\ (MayReplace(Cur) \/ fs' = fs)
    BY <1>3, TornKeeps DEF Crash
  <2>2. Kept' /\ Apart'
    BY <1>0, <1>3, <2>1, OperationKeeps DEF Crash
  <2>3. /\ fs' \in FileSystems /\ backups' = [u \in Units |-> backups'[u]]
        /\ \A u \in Units : \A s \in backups'[u] : s \in [Nest(u) -> SUBSET Things]
    BY <1>0, <2>1 DEF Effect, Grows, HomeTypes
  <2>4. HomeTypes'
    BY <1>0, <1>1, <2>3 DEF HomeTypes, Crash, FileSystems
  <2> QED BY <1>2, <2>2, <2>4 DEF KeptInv
<1>4. CASE pc \notin Operations
  <2>1. UNCHANGED <<fs, backups, roots, orig>>
    BY <1>4, TornKeeps DEF Crash
  <2>2. HomeTypes'
    BY <1>0, <1>1, <2>1 DEF HomeTypes, Crash
  <2> QED BY <1>0, <1>2, <2>1, <2>2, NothingTouched DEF KeptInv
<1> QED BY <1>3, <1>4
\* A migration starts.
LEMMA BeginKeeps == ASSUME NEW m \in Modes PROVE KeptInv /\ Begin(m) => KeptInv'
<1> SUFFICES ASSUME KeptInv, Begin(m) PROVE KeptInv' OBVIOUS
<1>0. HomeTypes /\ Apart /\ Kept
  BY DEF KeptInv
<1>1. pc' = "select" /\ step' = 1 /\ UNCHANGED <<fs, backups, roots, orig, picked, faults>>
  BY DEF Begin
<1>2. pc' \in Phases /\ pc' \notin Operations /\ pc' \notin Replacing
  BY <1>1 DEF Phases, Operations, Replacing
<1>3. \A u \in Units : results'[u] = "none"
  BY DEF Begin
<1>4. HomeTypes'
  <2>1. /\ results' \in [Units -> NoOps \cup {"none", "dry_run", "move"}]
        /\ home0' \in [Units -> SUBSET Things] /\ mode' \in {"plain", "force", "dry"}
    BY <1>0, MigrationAssumption DEF Begin, HomeTypes, Places
  <2>2. scan' \in Seq({"r1", "r2", "home"}) /\ runs' \in Nat
    <3>1. roots \in Seq({"r1", "r2", "home"})
      BY <1>0 DEF HomeTypes
    <3>2. <<"home">> \in Seq({"r1", "r2", "home"})
      OBVIOUS
    <3>3. scan' = <<"home">> \/ scan' = roots
      BY DEF Begin
    <3>4. runs' \in Nat
      BY <1>0 DEF Begin, HomeTypes
    <3> QED BY <3>1, <3>2, <3>3, <3>4
  <2>3. lock' \in BOOLEAN /\ rolled' \in BOOLEAN /\ outcome' \in {"none", "success", "failed", "refused"}
    BY <1>0 DEF Begin, HomeTypes
  <2> QED BY <1>0, <1>1, <1>2, <2>1, <2>2, <2>3 DEF HomeTypes
<1>5. Apart' /\ Kept'
  BY <1>0, <1>1, NothingTouched
<1>6. Behind'
  <2>1. \A i \in 1..7 : results'[Order[i]] = "none"
    BY <1>3, OrderInjective
  <2>2. scan' = IF roots' = <<>> THEN <<"home">> ELSE roots'
    BY DEF Begin
  <2> QED BY <1>1, <1>2, <2>1, <2>2 DEF Behind
<1>7. Replaceable' /\ Tracks'
  BY <1>1, <1>2, <1>3, UnitsAre DEF Replaceable, Tracks, NoOps
<1> QED BY <1>4, <1>5, <1>6, <1>7 DEF KeptInv

\* Steps that touch no file and no step: a refused run, the unit file, the lock file.
LEMMA IdleKeeps ==
    ASSUME KeptInv, Declines \/ Service \/ RemoveLock \/ Release \/ UNCHANGED migrationVars
    PROVE  KeptInv'
<1>0. HomeTypes /\ Apart /\ Kept /\ Behind /\ Replaceable /\ Tracks
  BY DEF KeptInv
<1>1. UNCHANGED <<fs, backups, roots, orig>>
  BY DEF Declines, Service, RemoveLock, Release, migrationVars, control
<1>2. CASE UNCHANGED migrationVars
  <2>1. Cur' = Cur
    BY <1>2 DEF migrationVars, Cur
  <2>2. StepsOf(Cur)' = StepsOf(Cur)
    BY <2>1 DEF StepsOf, CredentialsSteps, ConfigSteps, DatabaseSteps, LogsSteps, StoreSteps,
       PluginsSteps, GpxSteps
  <2>3. HomeTypes'
    BY <1>0, <1>2, <2>1, <2>2 DEF HomeTypes, migrationVars
  <2>4. Behind'
    BY <1>0, <1>2 DEF Behind, migrationVars
  <2>5. Replaceable'
    BY <1>0, <1>1, <1>2, <2>1, NothingTouched DEF Replaceable, migrationVars
  <2>6. Tracks'
    BY <1>0, <1>1, <1>2, <2>1, NothingTouched DEF Tracks, migrationVars
  <2> QED BY <1>0, <1>1, <2>3, <2>4, <2>5, <2>6, NothingTouched DEF KeptInv
<1>3. CASE Declines \/ Service \/ RemoveLock \/ Release
  <2>1. /\ pc' \in Phases /\ pc' \notin Operations /\ pc' \notin Replacing /\ pc' \notin Working
        /\ pc' \notin {"select", "service", "failed", "rollback"}
    BY <1>3 DEF Declines, Service, RemoveLock, Release, Phases, Operations, Replacing, Working
  <2>2. HomeTypes'
    <3>1. CASE Declines
      BY <1>0, <2>1, <3>1 DEF HomeTypes, Declines
    <3>2. CASE Service
      BY <1>0, <2>1, <3>2 DEF HomeTypes, Service, control
    <3>3. CASE RemoveLock
      BY <1>0, <2>1, <3>3 DEF HomeTypes, RemoveLock
    <3>4. CASE Release
      <4>1. lock' \in BOOLEAN /\ (lock' => pc' # "idle") /\ step' \in 0..8
        BY <1>0, <3>4 DEF Release, HomeTypes
      <4> QED BY <1>0, <2>1, <3>4, <4>1 DEF HomeTypes, Release
    <3> QED BY <1>3, <3>1, <3>2, <3>3, <3>4
  <2>3. Behind' /\ Replaceable' /\ Tracks'
    BY <2>1 DEF Behind, Replaceable, Tracks
  <2> QED BY <1>0, <1>1, <2>2, <2>3, NothingTouched DEF KeptInv
<1> QED BY <1>2, <1>3

\* The rollback may replace whatever the completed steps have replaced.
LEMMA HandleKeeps == KeptInv /\ Handle => KeptInv'
<1> SUFFICES ASSUME KeptInv, Handle PROVE KeptInv' OBVIOUS
<1>0. HomeTypes /\ Apart /\ Kept /\ Replaceable
  BY DEF KeptInv
<1>1. UNCHANGED <<fs, backups, roots, orig, results>> /\ pc = "failed" /\ pc \in Working
  BY DEF Handle, control, Working
<1>2. /\ pc' \in {"rollback", "release"} /\ pc' \in Phases /\ pc' \notin Operations
      /\ pc' \notin Replacing /\ pc' \notin Working /\ step' \in 0..7
  BY <1>0 DEF Handle, Phases, Operations, Replacing, Working, HomeTypes
<1>3. HomeTypes'
  BY <1>0, <1>2 DEF HomeTypes, Handle, control
<1>4. Replaceable'
  <2>1. \A i \in 1..7 : results[Order[i]] = "move" => MayReplace(Order[i])'
    BY <1>0, <1>1, OrderInjective, NothingTouched DEF Replaceable
  <2> QED BY <1>1, <1>2, <2>1 DEF Replaceable
<1>5. Behind' /\ Tracks'
  BY <1>2 DEF Behind, Tracks
<1> QED BY <1>0, <1>1, <1>3, <1>4, <1>5, NothingTouched DEF KeptInv

\* The staging directory is emptied.
LEMMA RollbackEndsKeeps == KeptInv /\ RollbackEnds => KeptInv'
<1> SUFFICES ASSUME KeptInv, RollbackEnds PROVE KeptInv' OBVIOUS
<1>0. HomeTypes /\ Apart /\ Kept /\ fs \in FileSystems
  BY DEF KeptInv, HomeTypes, FileSystems
<1>1. /\ pc' = "release" /\ pc' \in Phases /\ pc' \notin Operations
      /\ pc' \notin Replacing /\ pc' \notin Working /\ step' = 1
  BY DEF RollbackEnds, Phases, Operations, Replacing, Working
<1>2. /\ fs' \in FileSystems
      /\ \A u \in Units : \A p \in Places \ {"stage"} : fs'[u][p] = fs[u][p]
      /\ \A u \in Units : fs'[u].stage = {} \/ fs'[u].stage = fs[u].stage
  BY <1>0 DEF RollbackEnds, FileSystems, Places
<1>3. HomeTypes'
  <2>1. fs' \in [Units -> [Places -> SUBSET Things]] /\ step' \in 0..8
    BY <1>1, <1>2 DEF FileSystems
  <2>2. UNCHANGED <<backups, picked, results, rolled, outcome, faults, roots, lock, mode, scan, runs, home0>>
    BY DEF RollbackEnds, control
  <2> QED BY <1>0, <1>1, <2>1, <2>2 DEF HomeTypes
<1>4. Behind' /\ Replaceable' /\ Tracks'
  BY <1>1 DEF Behind, Replaceable, Tracks
<1>5. Apart'
  <2>1. \A u \in Units : Own(fs'[u].stage) = {}
    BY <1>0, <1>2, OwnIs DEF Apart
  <2>2. \A u \in Units, p \in Sources : Own(fs'[u][p]) = {}
    BY <1>0, <1>2 DEF Apart, Sources, Places
  <2> QED BY <2>1, <2>2 DEF Apart
<1>6. Kept'
  <2>1. \A u \in Units : fs'[u].dest = fs[u].dest
    BY <1>2 DEF Places
  <2>2. backups' = backups /\ roots' = roots /\ orig' = orig
    BY DEF RollbackEnds, control
  <2>3. NoMorePlugins' = NoMorePlugins
    <3>1. \A i \in 1..Len(roots) : roots[i] \in Places \ {"stage"}
      BY <1>0 DEF HomeTypes, Places, Sources
    <3>2. "plugins" \in Units
      BY UnitsAre
    <3> QED BY <1>2, <2>2, <3>1, <3>2 DEF NoMorePlugins
  <2>4. TracksBacked' = TracksBacked /\ \A u, v, x : InBackup(u, v, x)' = InBackup(u, v, x)
    BY <2>2 DEF TracksBacked, InBackup
  <2>5. "gpx" \in Units
    BY UnitsAre
  <2> QED BY <1>0, <2>1, <2>2, <2>3, <2>4, <2>5 DEF Kept
<1> QED BY <1>3, <1>4, <1>5, <1>6 DEF KeptInv
\* One artifact is put back, or its destination is lost in the attempt.
LEMMA UndoKeeps ==
    ASSUME HomeTypes, Apart, Kept, Cur \in Units, MayReplace(Cur), fs' \in FileSystems,
           \A v \in Units \ Nest(Cur) : fs'[v] = fs[v],
           \A v \in Units : \A p \in Sources \cup {"stage"} : fs'[v][p] = fs[v][p],
           backups' = backups \/ (Cur = "plugins" /\ backups' = [backups EXCEPT !["gpx"] = {}]),
           roots' = roots, orig' = orig
    PROVE  /\ Apart' /\ Kept'
           /\ \A u \in Units \ {"gpx"} : \A v, x : InBackup(u, v, x) => InBackup(u, v, x)'
<1>0. /\ "gpx" \in Units /\ "plugins" \in Units /\ "gpx" \in Nest("plugins") /\ Cur \in Nest(Cur)
      /\ "gpx" \in Nest("gpx")
  BY UnitsAre, NestIs DEF Nest
<1>1. Apart'
  BY DEF Apart
<1>2. NoMorePlugins' = NoMorePlugins
  <2>1. \A i \in 1..Len(roots) : roots[i] \in Sources
    BY DEF HomeTypes, Sources
  <2>2. \A i \in 1..Len(roots) : fs'["plugins"][roots[i]] = fs["plugins"][roots[i]]
    BY <1>0, <2>1
  <2> QED BY <2>2 DEF NoMorePlugins
<1>3. \A u \in Units \ {"gpx"} : backups'[u] = backups[u]
  BY DEF HomeTypes
<1>4. \A u \in Units \ {"gpx"} : \A v, x : InBackup(u, v, x) => InBackup(u, v, x)'
  BY <1>3 DEF InBackup
<1>5. backups'["gpx"] = backups["gpx"] \/ (Cur = "plugins" /\ backups'["gpx"] = {})
  BY <1>0 DEF HomeTypes
<1>6. NoMorePlugins' \/ TracksBacked'
  BY <1>0, <1>2, <1>4, <1>5 DEF Kept, TracksBacked
<1>7. \A u \in Units \ {"gpx"} : \A x \in Own(orig'[u]) : x \in fs'[u].dest \/ InBackup(u, u, x)'
  <2> SUFFICES ASSUME NEW u \in Units \ {"gpx"}, NEW x \in Own(orig[u])
               PROVE  x \in fs'[u].dest \/ InBackup(u, u, x)'
    OBVIOUS
  <2>1. x \in fs[u].dest \/ InBackup(u, u, x)
    BY DEF Kept
  <2>2. x \in fs[u].dest => x \in Own(fs[u].dest)
    BY DEF Own
  <2>3. CASE u \in Nest(Cur)
    <3>1. u = Cur
      BY <2>3, NestIs
    <3> QED BY <1>0, <1>4, <2>1, <2>2, <3>1 DEF MayReplace, Backed
  <2>4. CASE u \notin Nest(Cur)
    BY <1>4, <2>1, <2>4
  <2> QED BY <2>3, <2>4
<1>8. ASSUME NEW x \in Own(orig'["gpx"])
      PROVE  \/ x \in fs'["gpx"].dest
             \/ InBackup("plugins", "gpx", x)'
             \/ NoMorePlugins' /\ InBackup("gpx", "gpx", x)'
  <2>0. x.from = "dest"
    BY <1>8 DEF Own
  <2>1. \/ x \in fs["gpx"].dest \/ InBackup("plugins", "gpx", x)
        \/ NoMorePlugins /\ InBackup("gpx", "gpx", x)
    BY <1>8 DEF Kept
  <2>2. CASE InBackup("plugins", "gpx", x)
    BY <1>0, <1>4, <2>2
  <2>3. CASE NoMorePlugins /\ InBackup("gpx", "gpx", x)
    <3>1. CASE backups'["gpx"] = backups["gpx"]
      BY <1>2, <2>3, <3>1 DEF InBackup
    <3>2. CASE Cur = "plugins"
      <4>1. InBackup("plugins", "gpx", x)
        BY <2>0, <2>3, <3>2 DEF MayReplace, TracksBacked, InBackup, Own
      <4> QED BY <1>0, <1>4, <4>1
    <3> QED BY <1>5, <3>1, <3>2
  <2>4. CASE x \in fs["gpx"].dest
    <3>0. x \in Own(fs["gpx"].dest)
      BY <2>0, <2>4 DEF Own
    <3>1. CASE "gpx" \notin Nest(Cur)
      BY <1>0, <2>4, <3>1
    <3>2. CASE Cur = "plugins"
      BY <1>0, <1>4, <3>0, <3>2 DEF MayReplace, Backed
    <3>3. CASE Cur = "gpx"
      <4>1. InBackup("gpx", "gpx", x)
        BY <1>0, <3>0, <3>3 DEF MayReplace, Backed
      <4>2. backups'["gpx"] = backups["gpx"]
        BY <1>5, <3>3
      <4>3. CASE NoMorePlugins
        BY <1>2, <4>1, <4>2, <4>3 DEF InBackup
      <4>4. CASE TracksBacked
        <5>1. InBackup("plugins", "gpx", x)
          BY <2>0, <4>1, <4>4 DEF TracksBacked, InBackup, Own
        <5> QED BY <1>0, <1>4, <5>1
      <4> QED BY <4>3, <4>4 DEF Kept
    <3> QED BY <1>0, <3>1, <3>2, <3>3, NestIs
  <2> QED BY <2>1, <2>2, <2>3, <2>4
<1> QED BY <1>1, <1>4, <1>6, <1>7, <1>8 DEF Kept

\* What comes later in the rollback is still backed up.
LEMMA UndoReplaceable ==
    ASSUME HomeTypes, Replaceable, pc = "rollback", step >= 1, Cur \in Units,
           \A v \in Units \ Nest(Cur) : fs'[v] = fs[v],
           backups' = backups \/ (Cur = "plugins" /\ backups' = [backups EXCEPT !["gpx"] = {}]),
           Cur = "gpx" => \/ fs'["gpx"].dest = {} \/ fs'["gpx"].dest = fs["gpx"].dest
                          \/ \E s \in backups["gpx"] : fs'["gpx"].dest = s["gpx"],
           \A u \in Units \ {"gpx"} : \A v, x : InBackup(u, v, x) => InBackup(u, v, x)'
    PROVE  \A i \in 1..step - 1 : results[Order[i]] = "move" => MayReplace(Order[i])'
<1> SUFFICES ASSUME NEW i \in 1..step - 1, results[Order[i]] = "move" PROVE MayReplace(Order[i])'
  OBVIOUS
<1> DEFINE u == Order[i]
<1>0. /\ i \in 1..7 /\ step \in 1..7 /\ i < step /\ u \in Units /\ u # Cur /\ u # "gpx"
      /\ "gpx" \in Units /\ "gpx" \in Nest("plugins")
  <2>1. i \in 1..7 /\ step \in 1..7 /\ i < step /\ i # 7
    BY DEF HomeTypes
  <2>2. u # "gpx"
    BY <2>1, OrderIs, OrderInjective
  <2> QED BY <2>1, <2>2, OrderInjective, UnitsAre DEF Cur, Nest
<1>1. MayReplace(u)
  BY <1>0 DEF Replaceable
<1> HIDE DEF u
<1>2. Backed(u)'
  <2> SUFFICES ASSUME NEW v \in Nest(u), NEW x \in Own(fs'[v].dest)
               PROVE  InBackup(u, v, x)'
    BY DEF Backed
  <2>1. CASE v \notin Nest(Cur)
    <3>1. x \in Own(fs[v].dest)
      BY <1>0, <2>1, NestIs
    <3> QED BY <1>0, <1>1, <3>1 DEF MayReplace, Backed
  <2>2. CASE v \in Nest(Cur)
    <3>1. u = "plugins" /\ v = "gpx" /\ Cur = "gpx"
      BY <1>0, <2>2, NestIs
    <3>2. InBackup("plugins", "gpx", x)
      <4>1. CASE fs'["gpx"].dest = {}
        BY <3>1, <4>1 DEF Own
      <4>2. CASE fs'["gpx"].dest = fs["gpx"].dest
        BY <1>0, <1>1, <3>1, <4>2 DEF MayReplace, Backed
      <4>3. CASE \E s \in backups["gpx"] : fs'["gpx"].dest = s["gpx"]
        BY <1>1, <3>1, <4>3 DEF MayReplace, TracksBacked
      <4> QED BY <3>1, <4>1, <4>2, <4>3
    <3> QED BY <1>0, <3>1, <3>2
  <2> QED BY <2>1, <2>2
<1>3. ASSUME u = "plugins" PROVE TracksBacked'
  <2>1. backups' = backups
    BY <1>0, <1>3
  <2> QED BY <1>1, <1>3, <2>1 DEF MayReplace, TracksBacked, InBackup
<1> QED BY <1>2, <1>3 DEF MayReplace, u
\* Putting the destination of an artifact back from a snapshot.
LEMMA RestoredIs ==
    ASSUME fs \in FileSystems, NEW u \in Units, NEW s \in [Nest(u) -> SUBSET Things]
    PROVE  /\ Restored(u, s) \in FileSystems
           /\ \A v \in Units \ Nest(u) : Restored(u, s)[v] = fs[v]
           /\ \A v \in Units, p \in Places \ {"dest"} : Restored(u, s)[v][p] = fs[v][p]
           /\ \A v \in Nest(u) : Restored(u, s)[v].dest = s[v]
<1> DEFINE part(v) == [fs[v] EXCEPT !.dest = s[v]]
<1>1. \A v \in Units : /\ fs[v] \in [Places -> SUBSET Things]
                        /\ v \in Nest(u) => part(v) \in [Places -> SUBSET Things]
                        /\ part(v).dest = s[v]
                        /\ \A p \in Places \ {"dest"} : part(v)[p] = fs[v][p]
  BY DEF FileSystems, Places
<1> HIDE DEF part
<1>2. Restored(u, s) = [v \in Units |-> IF v \in Nest(u) THEN part(v) ELSE fs[v]]
  BY DEF Restored, part
<1> QED BY <1>1, <1>2, NestIs DEF FileSystems

\* Putting the database back.
LEMMA DbRestoredIs ==
    ASSUME HomeTypes
    PROVE  /\ DbRestored \in FileSystems
           /\ \A v \in Units \ {"database"} : DbRestored[v] = fs[v]
           /\ \A v \in Units, p \in Places \ {"dest"} : DbRestored[v][p] = fs[v][p]
<1> DEFINE saved == home0["database"]
           mixed == {x \in fs["database"].dest : x.name \notin NamesOf(saved)} \cup saved
<1>1. /\ fs \in FileSystems /\ "database" \in Units /\ "dest" \in Places
      /\ saved \in SUBSET Things /\ mixed \in SUBSET Things
  BY UnitsAre DEF HomeTypes, FileSystems, Places
<1>2. \/ DbRestored = fs \/ DbRestored = Put(fs, "database", "dest", saved)
      \/ DbRestored = Put(fs, "database", "dest", mixed)
  BY DEF DbRestored
<1> HIDE DEF saved, mixed
<1>3. CASE DbRestored = fs
  BY <1>1, <1>3
<1>4. CASE DbRestored = Put(fs, "database", "dest", saved)
  BY <1>1, <1>4, PutIs
<1>5. CASE DbRestored = Put(fs, "database", "dest", mixed)
  BY <1>1, <1>5, PutIs
<1> QED BY <1>2, <1>3, <1>4, <1>5

\* The rollback of one step, whether it works or not.
LEMMA RollbackStepKeeps == KeptInv /\ (RollbackStep \/ RollbackStepFails) => KeptInv'
<1> SUFFICES ASSUME KeptInv, RollbackStep \/ RollbackStepFails PROVE KeptInv' OBVIOUS
<1>0. HomeTypes /\ Apart /\ Kept /\ Replaceable /\ fs \in FileSystems
  BY DEF KeptInv, HomeTypes, FileSystems
<1>1. /\ pc = "rollback" /\ pc' = pc /\ step \in 1..7 /\ step' = step - 1 /\ step' \in 0..7
      /\ UNCHANGED <<roots, orig, results, picked, outcome, lock, mode, scan, runs, home0>>
  BY <1>0 DEF RollbackStep, RollbackStepFails, control, HomeTypes
<1>2. /\ Cur \in Units /\ Nest(Cur) \subseteq Units /\ "gpx" \in Units /\ Cur \in Nest(Cur)
      /\ \A p \in Sources \cup {"stage"} : p \in Places \ {"dest"}
  BY <1>1, OrderInjective, NestIs, UnitsAre DEF Cur, Sources, Places
<1>3. results[Cur] = "move" => MayReplace(Cur)
  BY <1>0, <1>1 DEF Replaceable, Cur
<1>4. CASE UNCHANGED <<fs, backups>>
  <2>1. UNCHANGED <<fs, backups, roots, orig>>
    BY <1>1, <1>4
  <2>2. \A i \in 1..step' : results'[Order[i]] = "move" => MayReplace(Order[i])'
    BY <1>0, <1>1, <2>1, NothingTouched DEF Replaceable
  <2>3. HomeTypes'
    <3>0. rolled' \in BOOLEAN
      BY <1>0 DEF RollbackStep, RollbackStepFails, HomeTypes
    <3>1. faults' \in Nat
      BY <1>0 DEF RollbackStep, RollbackStepFails, HomeTypes
    <3>2. pc' \notin Operations
      BY <1>1 DEF Operations
    <3> QED BY <1>0, <1>1, <1>4, <3>0, <3>1, <3>2 DEF HomeTypes
  <2>4. pc' \notin Operations /\ pc' \notin Replacing /\ pc' \notin Working
    BY <1>1 DEF Operations, Replacing, Working
  <2>5. Behind' /\ Replaceable' /\ Tracks'
    BY <2>2, <2>4 DEF Behind, Replaceable, Tracks
  <2> QED BY <1>0, <2>1, <2>3, <2>5, NothingTouched DEF KeptInv
<1>5. CASE /\ MayReplace(Cur) /\ fs' \in FileSystems
           /\ \A v \in Units \ Nest(Cur) : fs'[v] = fs[v]
           /\ \A v \in Units : \A p \in Sources \cup {"stage"} : fs'[v][p] = fs[v][p]
           /\ backups' = backups \/ (Cur = "plugins" /\ backups' = [backups EXCEPT !["gpx"] = {}])
           /\ Cur = "gpx" => \/ fs'["gpx"].dest = {} \/ fs'["gpx"].dest = fs["gpx"].dest
                             \/ \E s \in backups["gpx"] : fs'["gpx"].dest = s["gpx"]
  <2>1. /\ Apart' /\ Kept'
        /\ \A u \in Units \ {"gpx"} : \A v, x : InBackup(u, v, x) => InBackup(u, v, x)'
    BY <1>0, <1>1, <1>2, <1>5, UndoKeeps
  <2>2. \A i \in 1..step' : results'[Order[i]] = "move" => MayReplace(Order[i])'
    BY <1>0, <1>1, <1>2, <1>5, <2>1, UndoReplaceable
  <2>3. HomeTypes'
    <3>0. rolled' \in BOOLEAN
      BY <1>0 DEF RollbackStep, RollbackStepFails, HomeTypes
    <3>1. faults' \in Nat
      BY <1>0 DEF RollbackStep, RollbackStepFails, HomeTypes
    <3>2. pc' \notin Operations
      BY <1>1 DEF Operations
    <3>3. /\ backups' = [u \in Units |-> backups'[u]]
          /\ \A u \in Units : \A s \in backups'[u] : s \in [Nest(u) -> SUBSET Things]
      BY <1>0, <1>2, <1>5 DEF HomeTypes
    <3>4. fs' \in [Units -> [Places -> SUBSET Things]]
      BY <1>5 DEF FileSystems
    <3> QED BY <1>0, <1>1, <3>0, <3>1, <3>2, <3>3, <3>4 DEF HomeTypes
  <2>4. pc' \notin Operations /\ pc' \notin Replacing /\ pc' \notin Working
    BY <1>1 DEF Operations, Replacing, Working
  <2>5. Behind' /\ Replaceable' /\ Tracks'
    BY <2>2, <2>4 DEF Behind, Replaceable, Tracks
  <2> QED BY <2>1, <2>3, <2>5 DEF KeptInv
<1>6. CASE RollbackStepFails
  <2>1. fs' = RemovedDest(Cur, {}) /\ backups' = WithoutNested(Cur) /\ MayReplace(Cur)
    BY <1>3, <1>6 DEF RollbackStepFails
  <2>2. /\ fs' \in FileSystems /\ \A v \in Units \ Nest(Cur) : fs'[v] = fs[v]
        /\ \A v \in Units, p \in Places \ {"dest"} : fs'[v][p] = fs[v][p]
        /\ \A v \in Nest(Cur) : fs'[v].dest = {}
    BY <1>0, <1>2, <2>1, RemovedIs
  <2> QED BY <1>2, <1>5, <2>1, <2>2 DEF WithoutNested
<1>7. CASE RollbackStep
  <2>1. CASE results[Cur] # "move" \/ (Cur # "database" /\ backups[Cur] = {})
    BY <1>4, <1>7, <2>1 DEF RollbackStep, Undo
  <2>2. CASE results[Cur] = "move" /\ Cur = "database"
    <3>1. fs' = DbRestored /\ backups' = backups
      BY <1>7, <2>2 DEF RollbackStep, Undo, WithoutNested
    <3> QED BY <1>0, <1>2, <1>3, <1>5, <2>2, <3>1, DbRestoredIs
  <2>3. CASE results[Cur] = "move" /\ Cur # "database" /\ backups[Cur] # {}
    <3>1. PICK s \in backups[Cur] : fs' = Restored(Cur, s)
      BY <1>7, <2>3 DEF RollbackStep, Undo
    <3>2. backups' = WithoutNested(Cur)
      BY <1>7, <2>3 DEF RollbackStep
    <3>3. s \in [Nest(Cur) -> SUBSET Things]
      BY <1>0, <1>2 DEF HomeTypes
    <3>4. /\ fs' \in FileSystems /\ \A v \in Units \ Nest(Cur) : fs'[v] = fs[v]
          /\ \A v \in Units, p \in Places \ {"dest"} : fs'[v][p] = fs[v][p]
          /\ \A v \in Nest(Cur) : fs'[v].dest = s[v]
      BY <1>0, <1>2, <3>1, <3>3, RestoredIs
    <3> QED BY <1>2, <1>3, <1>5, <2>3, <3>2, <3>4 DEF WithoutNested
  <2> QED BY <2>1, <2>2, <2>3
<1> QED BY <1>6, <1>7
-----------------------------------------------------------------------------
(* The search for something to move *)

NatLess == OpToRel(<, Nat)

\* The order of the naturals as a relation.
LEMMA NatLessWellFounded == IsWellFoundedOn(NatLess, Nat)
BY NatLessThanWellFounded, Zenon DEF NatLess

\* A set of indices that is not empty has a least one.
LEMMA LeastIndex ==
    ASSUME NEW S \in SUBSET Nat, S # {}
    PROVE  \E i \in S : \A j \in S : i <= j
<1>1. PICK i \in S : \A j \in S : ~(<<j, i>> \in NatLess)
  BY NatLessWellFounded, WFMin
<1>2. NatLess = {ss \in Nat \X Nat : ss[1] < ss[2]}
  BY Zenon DEF NatLess, OpToRel
<1>3. \A j \in S : ~(j < i)
  BY <1>1, <1>2
<1> QED BY <1>3

\* The first place that has something: one of the list and allowed, or none has.
LEMMA FirstOfIs ==
    ASSUME NEW u \in Units, NEW places \in Seq(Sources), NEW allowed \in SUBSET Sources
    PROVE  /\ FirstOf(u, places, allowed) = Nowhere =>
                \A i \in 1..Len(places) : places[i] \in allowed => fs[u][places[i]] = {}
           /\ FirstOf(u, places, allowed) # Nowhere =>
                \E i \in 1..Len(places) :
                   /\ FirstOf(u, places, allowed) = places[i] /\ places[i] \in allowed
                   /\ fs[u][places[i]] # {}
<1> DEFINE found == {i \in 1..Len(places) : places[i] \in allowed /\ fs[u][places[i]] # {}}
<1>0. Len(places) \in Nat /\ Nowhere \notin allowed
  BY DEF Nowhere, Sources
<1>1. CASE found = {}
  BY <1>1 DEF FirstOf
<1>2. CASE found # {}
  <2>1. found \in SUBSET Nat
    BY <1>0
  <2> DEFINE k == CHOOSE i \in found : \A j \in found : i <= j
  <2>2. k \in found
    BY <1>2, <2>1, LeastIndex
  <2>3. FirstOf(u, places, allowed) = places[k]
    BY <1>2 DEF FirstOf
  <2> HIDE DEF k
  <2> QED BY <1>0, <2>2, <2>3
<1> QED BY <1>1, <1>2

\* What the search of a step returns.
LEMMA FindIs ==
    ASSUME HomeTypes, pc = "select", NEW p \in Find(Cur)
    PROVE  p \in Sources \cup {Nowhere}
<1>0. Cur \in Units /\ LegacyOnly \in SUBSET Sources /\ Sources \in SUBSET Sources
  BY OrderInjective DEF HomeTypes, Cur, LegacyOnly
<1>1. scan \in Seq({"r1", "r2", "home"}) /\ scan \in Seq(Sources) /\ \A i \in 1..Len(scan) : scan[i] \in Sources
  BY DEF HomeTypes, Sources
<1>2. WithHome \in Seq(Sources)
  BY <1>1 DEF WithHome, Sources
<1>3. Append(WithHome, "user") \in Seq(Sources) /\ <<"r1">> \in Seq(Sources)
  BY <1>2 DEF Sources
<1>4. CASE Cur = "database"
  <2>1. p \in FindDatabase
    BY <1>4 DEF Find
  <2> QED BY <1>1, <2>1 DEF FindDatabase
<1>5. CASE Cur # "database"
  <2>1. \/ p = FirstOf("credentials", Append(WithHome, "user"), Sources)
        \/ p = FirstOf("config", scan, LegacyOnly)
        \/ p = FirstOf("logs", scan, LegacyOnly)
        \/ p = FirstOf("store", WithHome, Sources)
        \/ p = FirstOf("plugins", scan, LegacyOnly)
        \/ p = FirstOf("gpx", <<"r1">>, Sources)
    BY <1>0, <1>5, UnitsAre DEF Find, FindCredentials, FindConfig, FindLogs, FindStore, FindPlugins, FindGpx
  <2>2. \A u \in Units, places \in Seq(Sources), allowed \in SUBSET Sources :
            FirstOf(u, places, allowed) \in Sources \cup {Nowhere}
    BY FirstOfIs
  <2>3. \A u \in Units, places \in Seq(Sources) :
           /\ FirstOf(u, places, Sources) \in Sources \cup {Nowhere}
           /\ FirstOf(u, places, LegacyOnly) \in Sources \cup {Nowhere}
    BY <1>0, <2>2
  <2>4. \A u \in Units : /\ FirstOf(u, scan, LegacyOnly) \in Sources \cup {Nowhere}
                         /\ FirstOf(u, WithHome, Sources) \in Sources \cup {Nowhere}
    BY <1>1, <1>2, <2>3
  <2>5. FirstOf("credentials", Append(WithHome, "user"), Sources) \in Sources \cup {Nowhere}
    BY <1>3, <2>3, UnitsAre
  <2>6. FirstOf("gpx", <<"r1">>, Sources) \in Sources \cup {Nowhere}
    BY <1>3, <2>3, UnitsAre
  <2> QED BY <2>1, <2>4, <2>5, <2>6, UnitsAre
<1> QED BY <1>4, <1>5

\* Plugins are moved only when a legacy root has some, and passed over only when none has.
LEMMA PluginsFound ==
    ASSUME HomeTypes, Behind, pc = "select", Cur = "plugins", NEW p \in Find(Cur)
    PROVE  /\ p = Nowhere => NoMorePlugins
           /\ Action(Cur, p) = "move" => ~NoMorePlugins
           /\ Action(Cur, p) = "already_at_target" => NoMorePlugins
<1>1. /\ roots \in Seq({"r1", "r2"}) /\ Len(scan) \in Nat /\ pc \in Working
      /\ scan = IF roots = <<>> THEN <<"home">> ELSE roots
  BY DEF HomeTypes, Behind, Working
<1>2. p = FirstOf("plugins", scan, LegacyOnly)
  BY DEF Find, FindPlugins
<1>3. \/ p = Nowhere /\ \A i \in 1..Len(scan) : scan[i] \in LegacyOnly => fs["plugins"][scan[i]] = {}
      \/ \E i \in 1..Len(scan) : p = scan[i] /\ scan[i] \in LegacyOnly /\ fs["plugins"][scan[i]] # {}
  <2>1. LegacyOnly \in SUBSET Sources /\ scan \in Seq(Sources) /\ "plugins" \in Units
    BY UnitsAre DEF LegacyOnly, Sources, HomeTypes
  <2>2. /\ FirstOf("plugins", scan, LegacyOnly) = Nowhere =>
             \A i \in 1..Len(scan) : scan[i] \in LegacyOnly => fs["plugins"][scan[i]] = {}
        /\ FirstOf("plugins", scan, LegacyOnly) # Nowhere =>
             \E i \in 1..Len(scan) :
                /\ FirstOf("plugins", scan, LegacyOnly) = scan[i] /\ scan[i] \in LegacyOnly
                /\ fs["plugins"][scan[i]] # {}
    BY <2>1, FirstOfIs
  <2> QED BY <1>2, <2>2
<1>4. CASE roots = <<>>
  <2>1. NoMorePlugins
    BY <1>4 DEF NoMorePlugins
  <2>2. scan = <<"home">> /\ Len(scan) = 1 /\ \A i \in 1..Len(scan) : scan[i] = "home"
    BY <1>1, <1>4
  <2>3. p = Nowhere
    BY <1>3, <2>2 DEF LegacyOnly
  <2>4. Action(Cur, p) # "move"
    BY <2>3 DEF Action
  <2> QED BY <2>1, <2>4
<1>5. CASE roots # <<>>
  <2>1. scan = roots /\ \A i \in 1..Len(roots) : roots[i] \in LegacyOnly
    BY <1>1, <1>5 DEF LegacyOnly, Sources
  <2>2. p = Nowhere => NoMorePlugins
    <3>1. \A i \in 1..Len(scan) : scan[i] # Nowhere
      BY <2>1 DEF LegacyOnly, Sources, Nowhere
    <3> QED BY <1>3, <2>1, <3>1 DEF NoMorePlugins
  <2>3. p # Nowhere => ~NoMorePlugins
    BY <1>3, <2>1 DEF NoMorePlugins
  <2>4. Action(Cur, p) = "move" => p # Nowhere
    BY DEF Action
  <2>5. Action(Cur, p) # "already_at_target"
    <3>1. Len(roots) >= 1 => roots[1] # "home"
      BY <1>1
    <3>2. roots # <<"home">>
      BY <3>1
    <3> QED BY <2>1, <3>2 DEF Action, AtTarget
  <2> QED BY <2>2, <2>3, <2>4, <2>5
<1> QED BY <1>4, <1>5
\* The tracks are moved after the plugins were, or are not there to be moved, or nothing
\* is at the destination of the tracks.
LEMMA TracksMayMove ==
    ASSUME KeptInv, pc = "select", Cur = "gpx", NEW p, Action(Cur, p) = "move"
    PROVE  NoMorePlugins \/ \A x \in Own(fs["gpx"].dest) : InBackup("plugins", "gpx", x)
<1>0. HomeTypes /\ Behind /\ Replaceable /\ Tracks
  BY DEF KeptInv
<1>1. /\ pc \in Working /\ step \in 1..7 /\ "plugins" \in Units /\ "gpx" \in Units
      /\ "gpx" \in Nest("plugins")
  BY <1>0, UnitsAre DEF HomeTypes, Working, Nest
<1>2. step = 7
  BY <1>1, OrderIs, OrderInjective DEF Cur
<1>3. results["plugins"] # "none"
  BY <1>0, <1>1, <1>2 DEF Behind
<1>4. /\ mode # "dry"
      /\ TargetPresent("gpx") => mode = "force"
  BY DEF Action
<1>5. results["plugins"] \in (NoOps \ {"skip_force_required"}) \cup {"skip_force_required", "dry_run", "move"}
  BY <1>0, <1>1, <1>3 DEF HomeTypes
<1>6. CASE results["plugins"] \in NoOps \ {"skip_force_required"}
  BY <1>0, <1>1, <1>6 DEF Tracks
<1>7. CASE results["plugins"] = "dry_run"
  BY <1>0, <1>1, <1>4, <1>7 DEF Tracks
<1>8. CASE results["plugins"] = "skip_force_required"
  <2>1. Content(fs["gpx"].dest) = {}
    BY <1>0, <1>1, <1>4, <1>8 DEF Tracks, TargetPresent, Present
  <2> QED BY <2>1 DEF Content, Own, Dir
<1>9. CASE results["plugins"] = "move"
  BY <1>0, <1>1, <1>9 DEF Replaceable, MayReplace, Backed
<1> QED BY <1>5, <1>6, <1>7, <1>8, <1>9

\* The search of a step and its early returns.
LEMMA SelectKeeps == KeptInv /\ Select => KeptInv'
<1> SUFFICES ASSUME KeptInv, Select PROVE KeptInv' OBVIOUS
<1>0. HomeTypes /\ Apart /\ Kept /\ Behind /\ Replaceable /\ Tracks
  BY DEF KeptInv
<1>1. /\ pc = "select" /\ pc \in Working /\ step \in 1..7 /\ Cur \in Units
      /\ "plugins" \in Units
      /\ UNCHANGED <<fs, backups, roots, orig>>
      /\ UNCHANGED <<rolled, outcome, faults, control>>
  BY <1>0, OrderInjective, UnitsAre DEF Select, HomeTypes, Working, Cur, control
<1>2. PICK p \in Find(Cur) :
          IF Action(Cur, p) = "move"
          THEN pc' = "backup" /\ picked' = p /\ UNCHANGED <<step, results>>
          ELSE Advance(Cur, Action(Cur, p))
  BY DEF Select
<1>3. p \in Sources \cup {Nowhere}
  BY <1>0, <1>1, FindIs
<1>4. Apart' /\ Kept'
  BY <1>0, <1>1, NothingTouched
<1>5. Action(Cur, p) \in NoOps \cup {"dry_run", "move"} /\ (Action(Cur, p) = "move" => p # Nowhere /\ mode # "dry")
  BY DEF Action, NoOps
<1>6. CASE Action(Cur, p) = "move"
  <2>1. pc' = "backup" /\ picked' = p /\ step' = step /\ results' = results
    BY <1>2, <1>6
  <2>2. /\ pc' \in Operations /\ pc' \in Phases /\ pc' \in Working /\ pc' \notin Replacing
        /\ pc' \notin {"idle", "service", "failed", "rollback"}
    BY <2>1 DEF Operations, Phases, Working, Replacing
  <2>3. Cur' = Cur
    BY <2>1 DEF Cur
  <2>4. \E k \in 1..Len(StepsOf(Cur')) : StepsOf(Cur')[k] = pc'
    BY <1>1, <2>1, <2>3, UnitsAre DEF StepsOf, CredentialsSteps, ConfigSteps, DatabaseSteps, LogsSteps,
       StoreSteps, PluginsSteps, GpxSteps
  <2>5. HomeTypes'
    BY <1>0, <1>1, <1>3, <1>5, <1>6, <2>1, <2>2, <2>4 DEF HomeTypes, control
  <2>6. Behind'
    BY <1>0, <1>1, <1>5, <1>6, <2>1, <2>2 DEF Behind, control
  <2>7. Replaceable'
    BY <1>0, <1>1, <2>1, <2>2, NothingTouched DEF Replaceable
  <2>8. Tracks'
    <3>1. Cur = "plugins" => TracksBacked
      BY <1>0, <1>1, <1>6, PluginsFound DEF Kept
    <3>2. Cur = "gpx" => NoMorePlugins \/ \A x \in Own(fs["gpx"].dest) : InBackup("plugins", "gpx", x)
      BY <1>1, <1>6, TracksMayMove
    <3>3. mode' = mode /\ fs' = fs
      BY <1>1 DEF control
    <3> QED BY <1>0, <1>1, <2>1, <2>2, <2>3, <3>1, <3>2, <3>3, NothingTouched DEF Tracks
  <2> QED BY <1>4, <2>5, <2>6, <2>7, <2>8 DEF KeptInv
<1>7. CASE Action(Cur, p) # "move"
  <2>0. Advance(Cur, Action(Cur, p))
    BY <1>2, <1>7
  <2> DEFINE a == Action(Cur, p)
  <2>1. a \in NoOps \cup {"dry_run"} /\ a # "none" /\ a # "move" /\ a \in NoOps \cup {"dry_run", "move"}
    BY <1>5, <1>7 DEF NoOps
  <2>2. a \in NoOps \ {"skip_force_required"} => p = Nowhere \/ a = "already_at_target"
    BY DEF Action, NoOps
  <2>3. (a = "skip_force_required" => mode # "force") /\ (a = "dry_run" => mode = "dry")
    BY DEF Action
  <2>4. Advance(Cur, a)
    BY <2>0
  <2>5. Cur = "plugins" /\ a \in NoOps \ {"skip_force_required"} => NoMorePlugins
    BY <1>0, <1>1, <2>2, PluginsFound
  <2> HIDE DEF a
  <2>6. HomeTypes'
    <3>1. fs' \in FileSystems /\ backups' = backups
      BY <1>0, <1>1 DEF HomeTypes, FileSystems
    <3> QED BY <1>0, <1>1, <2>1, <2>4, <3>1, AdvanceTypes
  <2>7. /\ Behind' /\ pc' \in {"select", "service"}
        /\ \A v \in Units : results'[v] = IF v = Cur THEN a ELSE results[v]
    BY <1>0, <1>1, <2>1, <2>4, AdvanceBehind
  <2>8. pc' \notin Operations /\ pc' \notin Replacing /\ pc' # "rollback"
    BY <2>7 DEF Operations, Replacing
  <2>9. Replaceable'
    BY <1>0, <1>1, <2>1, <2>7, <2>8, NothingTouched DEF Replaceable
  <2>10. Tracks'
    <3>1. mode' = mode
      BY <1>1 DEF control
    <3>2. "dry_run" \notin NoOps
      BY DEF NoOps
    <3>3. results'["plugins"] = IF Cur = "plugins" THEN a ELSE results["plugins"]
      BY <1>1, <2>7
    <3> QED BY <1>0, <1>1, <2>3, <2>5, <2>8, <3>1, <3>2, <3>3, NothingTouched DEF Tracks
  <2> QED BY <1>4, <2>6, <2>7, <2>9, <2>10 DEF KeptInv
<1> QED BY <1>6, <1>7
-----------------------------------------------------------------------------
(* The theorems *)

\* Before the first run nothing has been touched.
LEMMA InitKept == MigrationInit => KeptInv
<1> SUFFICES ASSUME MigrationInit PROVE KeptInv OBVIOUS
<1>0. fs \in FileSystems /\ "gpx" \in Units /\ "plugins" \in Units
  BY MigrationAssumption, UnitsAre DEF MigrationInit, FileSystems, Things
<1>1. pc = "idle" /\ pc \in Phases /\ pc \notin Operations /\ pc \notin Replacing /\ pc \notin Working
  BY DEF MigrationInit, Phases, Operations, Replacing, Working
<1>2. HomeTypes
  <2>1. backups = [u \in Units |-> {}] /\ \A u \in Units : backups[u] = {}
    BY DEF MigrationInit
  <2>2. roots \in Seq({"r1", "r2"}) /\ scan \in Seq({"r1", "r2", "home"})
    BY MigrationAssumption DEF MigrationInit
  <2>3. results \in [Units -> NoOps \cup {"none", "dry_run", "move"}]
    BY DEF MigrationInit
  <2>4. home0 \in [Units -> SUBSET Things]
    BY <1>0 DEF MigrationInit, FileSystems, Places
  <2>5. lock = FALSE /\ rolled = TRUE /\ outcome = "none" /\ runs = 0 /\ faults = 0 /\ step = 1
        /\ mode = "plain" /\ picked = Nowhere
    BY DEF MigrationInit
  <2>6. lock \in BOOLEAN /\ rolled \in BOOLEAN /\ ~lock
    BY <2>5
  <2>7. backups = [u \in Units |-> backups[u]]
    BY <2>1
  <2> QED BY <1>0, <1>1, <2>1, <2>2, <2>3, <2>4, <2>5, <2>6, <2>7 DEF HomeTypes, FileSystems
<1>3. \A u \in Units, p \in Places : \A x \in fs[u][p] : x # Dir => x.from = p
  BY MigrationAssumption DEF MigrationInit, Content
<1>4. Apart
  BY <1>3 DEF Apart, Own, Dir, Places, Sources
<1>5. Kept
  <2>1. \A u \in Units : \A x \in Own(orig[u]) : x \in fs[u].dest
    <3> SUFFICES ASSUME NEW u \in Units, NEW x \in orig[u], x.from = "dest" PROVE x \in fs[u].dest
      BY DEF Own
    <3>1. PICK p \in Places : x \in Content(fs[u][p])
      BY DEF MigrationInit
    <3> QED BY <1>3, <3>1 DEF Content
  <2>2. TracksBacked
    <3>1. backups["gpx"] = {}
      BY <1>0 DEF MigrationInit
    <3> QED BY <3>1 DEF TracksBacked
  <2> QED BY <1>0, <2>1, <2>2 DEF Kept
<1>6. Behind /\ Replaceable /\ Tracks
  BY <1>1 DEF Behind, Replaceable, Tracks
<1> QED BY <1>2, <1>4, <1>5, <1>6 DEF KeptInv

\* No step of a migration, of a rollback or of a failure loses what is kept.
LEMMA NextKeeps == KeptInv /\ [MigrationNext]_migrationVars => KeptInv'
<1> SUFFICES ASSUME KeptInv, [MigrationNext]_migrationVars PROVE KeptInv' OBVIOUS
<1>1. ASSUME NEW m \in Modes, Begin(m) PROVE KeptInv'
  BY <1>1, BeginKeeps
<1>2. CASE Declines \/ Service \/ RemoveLock \/ Release \/ UNCHANGED migrationVars
  BY <1>2, IdleKeeps
<1>3. CASE Finished
  BY <1>3, IdleKeeps DEF Finished
<1>4. CASE Select
  BY <1>4, SelectKeeps
<1>5. CASE Backup \/ Clear \/ MoveToStage \/ CopyDatabase \/ VerifyDatabase
  BY <1>5, BackupKeeps, ClearKeeps, MoveToStageKeeps, CopyDatabaseKeeps, VerifyDatabaseKeeps
<1>6. CASE StagePlugins \/ StagePluginsCollide \/ RemoveOld \/ Place \/ Drop
  BY <1>6, StagePluginsKeeps, CollideKeeps, RemoveOldKeeps, PlaceKeeps, DropKeeps
<1>7. CASE Fails \/ Crash
  BY <1>7, FailsKeeps, CrashKeeps
<1>8. CASE Handle \/ RollbackStep \/ RollbackStepFails \/ RollbackEnds
  BY <1>8, HandleKeeps, RollbackStepKeeps, RollbackEndsKeeps
<1> QED BY <1>1, <1>2, <1>3, <1>4, <1>5, <1>6, <1>7, <1>8 DEF MigrationNext

\* The files, the backups and the state of perform_migration() keep their types, and a
\* lock file without a running migration is left by a killed one only.
THEOREM MigrationTypes == MigrationSpec => []MigrationTypeOK
<1>1. KeptInv => MigrationTypeOK
  <2> SUFFICES ASSUME KeptInv PROVE MigrationTypeOK OBVIOUS
  <2>0. HomeTypes
    BY DEF KeptInv
  <2>1. \A u \in Units : \A s \in backups[u] : \A v \in DOMAIN s : s[v] \subseteq Items \cup {Dir}
    BY <2>0 DEF HomeTypes, Things
  <2>2. step \in 0..Len(Order) + 1
    BY <2>0, OrderIs DEF HomeTypes
  <2> QED BY <2>0, <2>1, <2>2 DEF HomeTypes, MigrationTypeOK, Things
<1> QED BY <1>1, InitKept, NextKeeps, PTL DEF MigrationSpec

\* Backup before overwrite (perform_migration(), rollback_migration()): for every layout
\* of the files and every list of legacy roots, through any number of runs, failing or
\* interrupted operations, crashes and rollbacks, what MMRELAY_HOME held before the first
\* migration is at its destination or in a backup.
THEOREM HomeIsKept == MigrationSpec => []HomeKept
<1>1. KeptInv => HomeKept
  <2> SUFFICES ASSUME KeptInv, NEW u \in Units, NEW x \in orig[u], x.from = "dest"
               PROVE  x \in fs[u].dest \/ Saved(u, x)
    BY DEF HomeKept
  <2>0. Kept /\ x \in Own(orig[u]) /\ "gpx" \in Units /\ "plugins" \in Units
    BY UnitsAre DEF KeptInv, Own
  <2>1. CASE u # "gpx"
    <3>1. x \in fs[u].dest \/ InBackup(u, u, x)
      BY <2>0, <2>1 DEF Kept
    <3> QED BY <3>1 DEF InBackup, Saved
  <2>2. CASE u = "gpx"
    <3>1. x \in fs["gpx"].dest \/ InBackup("plugins", "gpx", x) \/ InBackup("gpx", "gpx", x)
      BY <2>0, <2>2 DEF Kept
    <3> QED BY <2>0, <2>2, <3>1 DEF InBackup, Saved
  <2> QED BY <2>1, <2>2
<1> QED BY <1>1, InitKept, NextKeeps, PTL DEF MigrationSpec
-----------------------------------------------------------------------------
(* The first run can be undone *)

\* The one backup of u is its destination as it was at the start of the run; an empty
\* destination has none.
Exact(u) ==
    \/ backups[u] = {} /\ \A v \in Nest(u) : home0[v] = {}
    \/ backups[u] = {[v \in Nest(u) |-> home0[v]]}

Untouched(u) == fs[u].dest = home0[u] /\ backups[u] = {}

\* The tracks were replaced with the plugins directory and come back with it.
Overrun(u) == u = "gpx" /\ results["plugins"] = "move"

\* Nothing has happened yet to the destination of step i.
Pending(i) == \/ pc \in {"select", "service", "backup"} /\ i >= step
              \/ i > step /\ ~(step = 6 /\ i = 7)

Undoable(u) == IF results[u] = "move" THEN Exact(u) ELSE fs[u].dest = home0[u]

BackIn(u) == Content(home0[u]) \subseteq fs[u].dest

Fresh == runs = 0 => pc = "idle" /\ \A u \in Units : backups[u] = {}

DryMovesNothing == pc \in Working /\ mode = "dry" => \A u \in Units : results[u] # "move"

\* During the run the steps to come find their destinations as they were, and the
\* completed ones can be undone.
Ahead ==
    runs = 1 /\ pc \in Working =>
        \A i \in 1..7 : ~Overrun(Order[i]) =>
            /\ Pending(i) => Untouched(Order[i])
            /\ i < step => Undoable(Order[i])
            /\ i = step /\ pc \in Replacing => Exact(Order[i])

\* During the rollback the steps that it has not come to can still be undone, and the
\* others are.
Undone ==
    runs = 1 /\ pc = "rollback" =>
        \A i \in 1..7 : results[Order[i]] # "none" =>
            /\ i <= step /\ ~Overrun(Order[i]) => Undoable(Order[i])
            /\ i > step /\ rolled /\ ~(step >= 6 /\ Overrun(Order[i])) => BackIn(Order[i])

FirstRun == Fresh /\ DryMovesNothing /\ Ahead /\ Undone /\ RollbackRestores

\* Where the steps of the plugins and the tracks are.
LEMMA NestOrder ==
    /\ \A i, j \in 1..7 : Order[j] \in Nest(Order[i]) => j = i \/ (i = 6 /\ j = 7)
    /\ \A i \in 1..7 : Order[i] = "gpx" => i = 7
    /\ \A i \in 1..7 : Order[i] = "plugins" => i = 6
    /\ \A i \in 1..7 : Order[i] \in Nest(Order[i])
BY OrderIs, OrderInjective, NestIs

\* An operation of a step: the destinations and the backups of the other steps stay.
LEMMA StepLocal ==
    ASSUME KeptInv, FirstRun, pc \in Operations, pc' \in Replacing \cup {"failed"},
           Effect(fs'), UNCHANGED <<step, results, outcome, runs, home0, mode>>,
           \A u \in Units \ Nest(Cur) : backups'[u] = backups[u],
           pc' \in Replacing /\ runs = 1 /\ ~Overrun(Cur) => Exact(Cur)'
    PROVE  FirstRun'
<1>0. HomeTypes /\ Behind /\ Ahead /\ DryMovesNothing /\ Fresh
  BY DEF KeptInv, FirstRun
<1>1. step \in 1..7 /\ pc \in Working /\ pc' \in Working /\ pc # "idle" /\ pc' \notin {"select", "service", "backup", "rollback", "release"}
  BY <1>0 DEF HomeTypes, Working, Replacing, Operations
<1>2. runs # 0
  BY <1>0, <1>1 DEF Fresh
<1>3. Fresh' /\ DryMovesNothing' /\ Undone' /\ RollbackRestores'
  BY <1>0, <1>1, <1>2 DEF Fresh, DryMovesNothing, Undone, RollbackRestores
<1>4. Ahead'
  <2> SUFFICES ASSUME runs = 1, NEW i \in 1..7, ~Overrun(Order[i])
               PROVE  /\ Pending(i)' => Untouched(Order[i])'
                      /\ i < step => Undoable(Order[i])'
                      /\ i = step /\ pc' \in Replacing => Exact(Order[i])'
    BY DEF Ahead, Overrun
  <2>1. ASSUME i # step, ~(step = 6 /\ i = 7)
        PROVE  fs'[Order[i]] = fs[Order[i]] /\ backups'[Order[i]] = backups[Order[i]]
    <3>1. Order[i] \in Units \ Nest(Cur)
      BY <1>1, <2>1, NestOrder, OrderInjective DEF Cur
    <3> QED BY <3>1 DEF Effect
  <2>2. Pending(i)' => i > step /\ ~(step = 6 /\ i = 7)
    BY <1>1 DEF Pending
  <2>3. Pending(i)' => Untouched(Order[i])'
    <3>1. Pending(i)' => Pending(i)
      BY <2>2 DEF Pending
    <3> QED BY <1>0, <1>1, <2>1, <2>2, <3>1 DEF Ahead, Untouched
  <2>4. i < step => Undoable(Order[i])'
    BY <1>0, <1>1, <2>1 DEF Ahead, Undoable, Exact
  <2>5. i = step => Order[i] = Cur /\ Order[i] = Cur'
    BY DEF Cur
  <2>6. i = step /\ pc' \in Replacing => Exact(Order[i])'
    BY <2>5
  <2> QED BY <2>3, <2>4, <2>6
<1> QED BY <1>3, <1>4 DEF FirstRun
\* An operation after the backup.
LEMMA OperationUndoable ==
    ASSUME KeptInv, FirstRun, pc \in Replacing, pc' \in Replacing \cup {"failed"},
           Effect(fs'), UNCHANGED <<step, results, outcome, runs, home0, mode>>,
           backups' = backups \/ backups' = WithoutNested(Cur)
    PROVE  FirstRun'
<1>0. HomeTypes /\ Ahead /\ pc \in Operations /\ pc \in Working
  BY DEF KeptInv, FirstRun, Replacing, Operations, Working
<1>1. step \in 1..7 /\ Cur \in Units /\ Cur = Order[step] /\ Cur' = Cur
  BY <1>0, OrderInjective DEF HomeTypes, Cur
<1>2. \A u \in Units \ {"gpx"} : backups'[u] = backups[u]
  BY <1>0 DEF HomeTypes, WithoutNested
<1>3. Cur = "gpx" => backups' = backups
  BY DEF WithoutNested
<1>4. Cur # "plugins" => backups' = backups
  BY DEF WithoutNested
<1>5. \A u \in Units \ Nest(Cur) : backups'[u] = backups[u]
  BY <1>2, <1>4, NestIs, UnitsAre DEF Nest
<1>6. backups'[Cur] = backups[Cur]
  BY <1>1, <1>2, <1>3
<1>7. runs = 1 /\ ~Overrun(Cur) => Exact(Cur)
  BY <1>0, <1>1 DEF Ahead
<1>8. runs = 1 /\ ~Overrun(Cur) => Exact(Cur)'
  BY <1>1, <1>6, <1>7 DEF Exact
<1> QED BY <1>0, <1>5, <1>8, StepLocal

\* The backup is exact: nothing has happened to the destination before.
LEMMA BackupUndoable == KeptInv /\ FirstRun /\ Backup => FirstRun'
<1> SUFFICES ASSUME KeptInv, FirstRun, Backup PROVE FirstRun' OBVIOUS
<1>0. HomeTypes /\ Apart /\ Behind /\ Ahead /\ pc \in Operations /\ pc \in Working /\ pc # "drop" /\ pc = "backup"
  BY DEF KeptInv, FirstRun, Backup, Operations, Working
<1>1. /\ step \in 1..7 /\ Cur \in Units /\ Cur = Order[step] /\ Cur' = Cur /\ fs' = fs
      /\ Cur \in Nest(Cur) /\ Nest(Cur) \subseteq Units
      /\ UNCHANGED <<step, results, outcome, runs, home0, mode>>
  BY <1>0, OrderInjective, NestIs DEF HomeTypes, Cur, Backup, control
<1>2. pc' \in Replacing /\ Effect(fs')
  BY <1>0, <1>1, NextOperation, Running DEF Backup
<1>3. \A u \in Units \ {Cur} : backups'[u] = backups[u]
  BY <1>0, <1>1 DEF Backup, HomeTypes
<1>4. ASSUME runs = 1, ~Overrun(Cur) PROVE Exact(Cur)'
  <2>1. \A v \in Nest(Cur) : Untouched(v)
    <3> SUFFICES ASSUME NEW v \in Nest(Cur) PROVE Untouched(v)
      OBVIOUS
    <3>1. PICK j \in 1..7 : v = Order[j] /\ j >= step
      <4>1. v = Cur \/ (Cur = "plugins" /\ v = "gpx")
        BY <1>1, NestIs
      <4>2. Cur = "plugins" => step = 6
        BY <1>1, NestOrder
      <4> QED BY <1>1, <4>1, <4>2, OrderIs
    <3>2. Pending(j)
      BY <1>0, <3>1 DEF Pending
    <3>3. ~Overrun(v)
      <4>1. CASE v = Cur
        BY <1>4, <4>1
      <4>2. CASE v # Cur
        <5>1. Cur = "plugins" /\ step = 6
          BY <1>1, <4>2, NestIs, NestOrder
        <5>2. results[Order[6]] = "none"
          BY <1>0, <5>1 DEF Behind
        <5> QED BY <5>2, OrderIs DEF Overrun
      <4> QED BY <4>1, <4>2
    <3> QED BY <1>0, <1>4, <3>1, <3>2, <3>3 DEF Ahead
  <2>2. \A v \in Nest(Cur) : fs[v].dest = home0[v]
    BY <2>1 DEF Untouched
  <2>3. backups[Cur] = {}
    BY <1>1, <2>1 DEF Untouched
  <2>4. [v \in Nest(Cur) |-> fs[v].dest] = [v \in Nest(Cur) |-> home0[v]]
    BY <2>2
  <2>5. CASE \A v \in Nest(Cur) : fs[v].dest = {}
    <3>1. backups' = backups
      BY <2>5 DEF Backup
    <3> QED BY <1>1, <2>2, <2>3, <2>5, <3>1 DEF Exact
  <2>6. CASE ~\A v \in Nest(Cur) : fs[v].dest = {}
    <3>1. backups' = [backups EXCEPT ![Cur] = @ \cup {[v \in Nest(Cur) |-> fs[v].dest]}]
      BY <2>6 DEF Backup
    <3>2. backups'[Cur] = {[v \in Nest(Cur) |-> home0[v]]}
      BY <1>0, <1>1, <2>3, <2>4, <3>1 DEF HomeTypes
    <3> QED BY <1>1, <3>2 DEF Exact
  <2> QED BY <2>5, <2>6
<1> QED BY <1>0, <1>1, <1>2, <1>3, <1>4, StepLocal

\* A failing operation, of a step or of the unit file.
LEMMA FailsUndoable == KeptInv /\ FirstRun /\ Fails => FirstRun'
<1> SUFFICES ASSUME KeptInv, FirstRun, Fails PROVE FirstRun' OBVIOUS
<1>0. HomeTypes /\ Behind /\ Ahead /\ DryMovesNothing /\ Fresh
  BY DEF KeptInv, FirstRun
<1>1. /\ pc' = "failed" /\ pc' \in Working /\ pc' \notin Replacing
      /\ UNCHANGED <<step, results, rolled, outcome, runs, home0, mode>>
  BY DEF Fails, control, Working, Replacing, Operations
<1>2. CASE pc \in Operations
  <2>1. Effect(fs') /\ Grows
    BY <1>2, TornKeeps DEF Fails
  <2>2. Cur \in Units /\ Cur \in Nest(Cur)
    BY <1>0, <1>2, OrderInjective, NestIs DEF HomeTypes, Cur
  <2>3. \A u \in Units \ Nest(Cur) : backups'[u] = backups[u]
    BY <2>1, <2>2 DEF Grows
  <2> QED BY <1>1, <1>2, <2>1, <2>3, StepLocal
<1>3. CASE pc = "service"
  <2>1. fs' = fs /\ backups' = backups /\ pc \in Working /\ step = 8 /\ pc # "idle"
    BY <1>0, <1>3, TornKeeps DEF Fails, Operations, Working, HomeTypes
  <2>2. Fresh' /\ DryMovesNothing' /\ Undone' /\ RollbackRestores'
    BY <1>0, <1>1, <2>1 DEF Fresh, DryMovesNothing, Undone, RollbackRestores
  <2>3. Ahead'
    <3> SUFFICES ASSUME runs = 1, NEW i \in 1..7, ~Overrun(Order[i])
                 PROVE  /\ Pending(i)' => Untouched(Order[i])'
                        /\ i < step => Undoable(Order[i])'
      BY <1>1 DEF Ahead, Overrun
    <3>1. i < step /\ ~Pending(i)'
      BY <1>1, <2>1 DEF Pending
    <3> QED BY <1>0, <1>1, <2>1, <3>1 DEF Ahead, Undoable, Exact
  <2> QED BY <2>2, <2>3 DEF FirstRun
<1> QED BY <1>2, <1>3 DEF Fails
\* A completed step: one that moved something can be undone, one that did not has left
\* its destination alone.
LEMMA AdvanceUndoable ==
    ASSUME KeptInv, FirstRun, pc \in {"select"} \cup Operations, Effect(fs'), backups' = backups,
           NEW action, action # "none", Advance(Cur, action), UNCHANGED <<outcome, control>>,
           IF action = "move" THEN pc \in Replacing ELSE pc = "select" /\ fs' = fs
    PROVE  FirstRun'
<1>0. HomeTypes /\ Behind /\ Ahead /\ DryMovesNothing /\ Fresh
  BY DEF KeptInv, FirstRun
<1>1. /\ step \in 1..7 /\ pc \in Working /\ Cur \in Units /\ Cur = Order[step] /\ pc # "idle"
      /\ UNCHANGED <<runs, home0, mode>> /\ "plugins" \in Units
  BY <1>0, OrderInjective, UnitsAre DEF HomeTypes, Working, Cur, Operations, control
<1>2. /\ pc' \in {"select", "service"} /\ step' = step + 1
      /\ \A v \in Units : results'[v] = IF v = Cur THEN action ELSE results[v]
  BY <1>0, AdvanceBehind
<1>3. pc' \in Working /\ pc' \notin Replacing /\ runs # 0
  BY <1>0, <1>1, <1>2 DEF Working, Replacing, Operations, Fresh
<1>4. Fresh' /\ Undone' /\ RollbackRestores'
  BY <1>1, <1>2, <1>3 DEF Fresh, Undone, RollbackRestores
<1>5. DryMovesNothing'
  <2>1. action = "move" => mode # "dry"
    BY <1>0 DEF Behind, Replacing
  <2> QED BY <1>0, <1>1, <1>2, <2>1 DEF DryMovesNothing
<1>6. Ahead'
  <2> SUFFICES ASSUME runs = 1, NEW i \in 1..7, ~Overrun(Order[i])'
               PROVE  /\ Pending(i)' => Untouched(Order[i])'
                      /\ i < step' => Undoable(Order[i])'
    BY <1>1, <1>3 DEF Ahead
  <2>1. ~Overrun(Order[i])
    <3>1. CASE Order[i] # "gpx"
      BY <3>1 DEF Overrun
    <3>2. CASE Order[i] = "gpx" /\ Cur = "plugins"
      <4>1. step = 6
        BY <1>1, <3>2, NestOrder
      <4>2. results[Order[6]] = "none"
        BY <1>0, <1>1, <4>1 DEF Behind
      <4> QED BY <4>2, OrderIs DEF Overrun
    <3>3. CASE Order[i] = "gpx" /\ Cur # "plugins"
      BY <1>1, <1>2, <3>3 DEF Overrun
    <3> QED BY <3>1, <3>2, <3>3
  <2>2. Pending(i)' => i > step
    BY <1>1, <1>2 DEF Pending
  <2>3. i = 7 /\ step = 6 => action # "move"
    BY <1>1, <1>2, OrderIs DEF Overrun
  <2>4. i # step => Order[i] # Cur
    BY <1>1, OrderInjective
  <2>5. i # step /\ ~(step = 6 /\ i = 7) => fs'[Order[i]] = fs[Order[i]]
    <3>1. i # step /\ ~(step = 6 /\ i = 7) => Order[i] \in Units \ Nest(Cur)
      BY <1>1, NestOrder, OrderInjective
    <3> QED BY <3>1 DEF Effect
  <2>6. Pending(i)' => Untouched(Order[i])'
    <3>1. CASE step = 6 /\ i = 7
      <4>1. fs' = fs /\ pc = "select" /\ Pending(i)
        BY <2>3, <3>1 DEF Pending
      <4> QED BY <1>0, <1>1, <2>1, <4>1 DEF Ahead, Untouched
    <3>2. CASE ~(step = 6 /\ i = 7)
      <4>1. Pending(i)' => Pending(i)
        BY <2>2, <3>2 DEF Pending
      <4> QED BY <1>0, <1>1, <2>1, <2>2, <2>5, <3>2, <4>1 DEF Ahead, Untouched
    <3> QED BY <3>1, <3>2
  <2>7. ASSUME i < step' PROVE Undoable(Order[i])'
    <3>1. CASE i = step
      <4>1. results'[Order[i]] = action
        BY <1>1, <1>2, <3>1
      <4>2. CASE action = "move"
        <5>1. Exact(Order[i])
          BY <1>0, <1>1, <2>1, <3>1, <4>2 DEF Ahead
        <5> QED BY <1>1, <4>1, <4>2, <5>1 DEF Undoable, Exact
      <4>3. CASE action # "move"
        <5>1. fs' = fs /\ Pending(i)
          BY <3>1, <4>3 DEF Pending
        <5>2. Untouched(Order[i])
          BY <1>0, <1>1, <2>1, <5>1 DEF Ahead
        <5> QED BY <1>1, <4>1, <4>3, <5>1, <5>2 DEF Undoable, Untouched
      <4> QED BY <4>2, <4>3
    <3>2. CASE i # step
      <4>1. i < step /\ results'[Order[i]] = results[Order[i]]
        BY <1>1, <1>2, <2>4, <2>7, <3>2, OrderInjective
      <4>2. Undoable(Order[i])
        BY <1>0, <1>1, <2>1, <4>1 DEF Ahead
      <4> QED BY <1>1, <2>5, <4>1, <4>2 DEF Undoable, Exact
    <3> QED BY <3>1, <3>2
  <2> QED BY <2>6, <2>7
<1> QED BY <1>4, <1>5, <1>6 DEF FirstRun

\* The search of a step.
LEMMA SelectUndoable == KeptInv /\ FirstRun /\ Select => FirstRun'
<1> SUFFICES ASSUME KeptInv, FirstRun, Select PROVE FirstRun' OBVIOUS
<1>0. HomeTypes /\ Behind /\ Ahead /\ DryMovesNothing /\ Fresh
  BY DEF KeptInv, FirstRun
<1>1. /\ pc = "select" /\ pc \in Working /\ UNCHANGED <<fs, backups, outcome, runs, home0, mode>>
      /\ UNCHANGED <<outcome, control>>
  BY DEF Select, Working, control
<1>2. PICK p \in Find(Cur) :
          IF Action(Cur, p) = "move"
          THEN pc' = "backup" /\ picked' = p /\ UNCHANGED <<step, results>>
          ELSE Advance(Cur, Action(Cur, p))
  BY DEF Select
<1>3. CASE Action(Cur, p) = "move"
  <2>1. pc' = "backup" /\ pc' \in Working /\ pc' \notin Replacing /\ UNCHANGED <<step, results>>
    BY <1>2, <1>3 DEF Working, Replacing, Operations
  <2>2. runs # 0
    BY <1>0, <1>1 DEF Fresh
  <2>3. Fresh' /\ DryMovesNothing' /\ Undone' /\ RollbackRestores'
    BY <1>0, <1>1, <2>1, <2>2 DEF Fresh, DryMovesNothing, Undone, RollbackRestores
  <2>4. Ahead'
    <3> SUFFICES ASSUME runs = 1, NEW i \in 1..7, ~Overrun(Order[i])
                 PROVE  /\ Pending(i)' => Untouched(Order[i])'
                        /\ i < step => Undoable(Order[i])'
      BY <1>1, <2>1 DEF Ahead, Overrun
    <3>1. Pending(i)' => Pending(i)
      BY <1>1, <2>1 DEF Pending
    <3> QED BY <1>0, <1>1, <2>1, <3>1 DEF Ahead, Untouched, Undoable, Exact
  <2> QED BY <2>3, <2>4 DEF FirstRun
<1>4. CASE Action(Cur, p) # "move"
  <2>1. Action(Cur, p) # "none"
    BY DEF Action
  <2>2. Advance(Cur, Action(Cur, p))
    BY <1>2, <1>4
  <2>3. Effect(fs')
    <3>1. fs' \in FileSystems /\ \A v \in Units : Own(fs'[v].stage) = {}
      BY <1>1 DEF KeptInv, HomeTypes, Apart, FileSystems
    <3>2. \A v \in Units : Own(fs[v].dest) \subseteq fs[v].dest
      BY DEF Own
    <3> QED BY <1>1, <3>1, <3>2 DEF Effect
  <2> QED BY <1>1, <1>4, <2>1, <2>2, <2>3, AdvanceUndoable
<1> QED BY <1>3, <1>4

\* A run starts.
LEMMA BeginUndoable == ASSUME NEW m \in Modes PROVE KeptInv /\ FirstRun /\ Begin(m) => FirstRun'
<1> SUFFICES ASSUME KeptInv, FirstRun, Begin(m) PROVE FirstRun' OBVIOUS
<1>0. HomeTypes /\ Fresh
  BY DEF KeptInv, FirstRun
<1>1. /\ pc' = "select" /\ step' = 1 /\ runs' = runs + 1 /\ runs \in Nat /\ pc' \notin Replacing
      /\ \A u \in Units : results'[u] = "none" /\ home0'[u] = fs[u].dest
      /\ UNCHANGED <<fs, backups>>
  BY <1>0 DEF Begin, HomeTypes, Replacing, Operations
<1>2. Fresh' /\ Undone' /\ RollbackRestores' /\ DryMovesNothing'
  BY <1>1 DEF Fresh, Undone, RollbackRestores, DryMovesNothing
<1>3. Ahead'
  <2> SUFFICES ASSUME runs' = 1, NEW i \in 1..7
               PROVE  Untouched(Order[i])' /\ ~(i < step')
    BY <1>1 DEF Ahead
  <2>1. runs = 0
    BY <1>1
  <2> QED BY <1>0, <1>1, <2>1, OrderInjective DEF Fresh, Untouched
<1> QED BY <1>2, <1>3 DEF FirstRun
\* The steps that touch neither a destination nor a backup, and the end of the process.
LEMMA IdleUndoable ==
    ASSUME KeptInv, FirstRun,
           \/ Declines \/ Service \/ RemoveLock \/ Release \/ Crash \/ UNCHANGED migrationVars
    PROVE  FirstRun'
<1>0. HomeTypes /\ Fresh
  BY DEF KeptInv, FirstRun
<1>1. CASE UNCHANGED migrationVars
  <2>1. Fresh' /\ DryMovesNothing' /\ Ahead'
    BY <1>1 DEF FirstRun, migrationVars, Fresh, DryMovesNothing, Ahead, Overrun, Pending, Untouched, Undoable, Exact
  <2>2. Undone' /\ RollbackRestores'
    BY <1>1 DEF FirstRun, migrationVars, Undone, RollbackRestores, Overrun, Undoable, Exact, BackIn, Completed
  <2> QED BY <2>1, <2>2 DEF FirstRun
<1>2. CASE Declines \/ Service \/ RemoveLock \/ Release \/ Crash
  <2>1. pc' \notin Working /\ pc' # "rollback"
    BY <1>2, <1>0 DEF Declines, Service, RemoveLock, Release, Crash, Working, Operations
  <2>2. pc' = "release" => outcome' # "failed"
    BY <1>2 DEF Declines, Service, RemoveLock, Release, Crash
  <2>3. Fresh'
    <3>1. Service \/ Release \/ Crash \/ RemoveLock => runs' = runs /\ pc # "idle"
      BY DEF Service, Release, Crash, RemoveLock, control
    <3>2. Declines => runs' # 0
      BY <1>0 DEF Declines, HomeTypes
    <3> QED BY <1>0, <1>2, <3>1, <3>2 DEF Fresh
  <2>4. DryMovesNothing' /\ Ahead' /\ Undone' /\ RollbackRestores'
    BY <2>1, <2>2 DEF DryMovesNothing, Ahead, Undone, RollbackRestores
  <2> QED BY <2>3, <2>4 DEF FirstRun
<1> QED BY <1>1, <1>2

\* The decision to roll back.
LEMMA HandleUndoable == KeptInv /\ FirstRun /\ Handle => FirstRun'
<1> SUFFICES ASSUME KeptInv, FirstRun, Handle PROVE FirstRun' OBVIOUS
<1>0. HomeTypes /\ Behind /\ Ahead /\ DryMovesNothing /\ Fresh
  BY DEF KeptInv, FirstRun
<1>1. /\ pc = "failed" /\ pc \in Working /\ pc' \in {"rollback", "release"} /\ pc' \notin Working
      /\ step \in 1..8 /\ step' = step - 1
      /\ UNCHANGED <<fs, backups, results, rolled, runs, home0, mode>>
  BY <1>0 DEF Handle, control, Working, Operations, HomeTypes
<1>2. \A i \in 1..7 : results[Order[i]] # "none" => i < step
  BY <1>0, <1>1 DEF Behind
<1>3. \A i \in 1..7 : runs = 1 /\ ~Overrun(Order[i]) /\ i < step => Undoable(Order[i])
  BY <1>0, <1>1 DEF Ahead
<1>4. Fresh' /\ DryMovesNothing' /\ Ahead'
  BY <1>0, <1>1 DEF Fresh, DryMovesNothing, Ahead
<1>5. Undone'
  <2> SUFFICES ASSUME runs = 1, NEW i \in 1..7, results[Order[i]] # "none"
               PROVE  /\ ~Overrun(Order[i]) => Undoable(Order[i])'
                      /\ ~(i > step')
    BY <1>1 DEF Undone, Overrun
  <2>1. i < step
    BY <1>2
  <2> QED BY <1>1, <1>3, <2>1 DEF Undoable, Exact
<1>6. RollbackRestores'
  <2> SUFFICES ASSUME pc' = "release", runs = 1, NEW u \in Units, results[u] # "none"
               PROVE  Content(home0[u]) \subseteq fs[u].dest
    BY <1>1 DEF RollbackRestores, Completed
  <2>1. mode = "dry"
    BY <1>1 DEF Handle, Completed
  <2>2. results[u] # "move" /\ results["plugins"] # "move"
    BY <1>0, <1>1, <2>1, UnitsAre DEF DryMovesNothing
  <2>3. PICK i \in 1..7 : u = Order[i]
    BY OrderIs DEF Units
  <2>4. Undoable(u)
    BY <1>2, <1>3, <2>2, <2>3 DEF Overrun
  <2> QED BY <2>2, <2>4 DEF Undoable, Content
<1> QED BY <1>4, <1>5, <1>6 DEF FirstRun

\* The database that was restored has every file of the backup.
LEMMA DbRestoredBack ==
    ASSUME HomeTypes
    PROVE  home0["database"] \subseteq DbRestored["database"].dest
<1> DEFINE saved == home0["database"]
           mixed == {x \in fs["database"].dest : x.name \notin NamesOf(saved)} \cup saved
<1>1. /\ fs \in FileSystems /\ "database" \in Units /\ "dest" \in Places
      /\ saved \in SUBSET Things /\ mixed \in SUBSET Things /\ saved \subseteq mixed
  BY UnitsAre DEF HomeTypes, FileSystems, Places
<1>2. \/ DbRestored = fs /\ saved = {}
      \/ DbRestored = Put(fs, "database", "dest", saved)
      \/ DbRestored = Put(fs, "database", "dest", mixed)
  BY DEF DbRestored
<1>3. \A S \in SUBSET Things : Put(fs, "database", "dest", S)["database"].dest = S
  BY <1>1, PutIs
<1> HIDE DEF saved, mixed
<1>4. saved \subseteq DbRestored["database"].dest
  BY <1>1, <1>2, <1>3
<1> QED BY <1>4 DEF saved

\* A step is put back.
LEMMA UndoIsBack ==
    ASSUME HomeTypes, pc = "rollback", step >= 1, fs' \in Undo(Cur), Undoable(Cur), results[Cur] # "none",
           Cur \in Units
    PROVE  /\ Content(home0[Cur]) \subseteq fs'[Cur].dest
           /\ results[Cur] = "move" /\ Cur = "plugins" => Content(home0["gpx"]) \subseteq fs'["gpx"].dest
           /\ \A v \in Units \ Nest(Cur) : fs'[v] = fs[v]
           /\ results[Cur] # "move" => fs' = fs
<1>0. fs \in FileSystems /\ Cur \in Nest(Cur) /\ Nest(Cur) \subseteq Units
  BY NestIs DEF HomeTypes, FileSystems
<1>1. CASE results[Cur] # "move"
  BY <1>1 DEF Undo, Undoable, Content
<1>2. CASE results[Cur] = "move" /\ Cur = "database"
  <2>1. fs' = DbRestored
    BY <1>2 DEF Undo
  <2> QED BY <1>0, <1>2, <2>1, DbRestoredIs, DbRestoredBack DEF Content
<1>3. CASE results[Cur] = "move" /\ Cur # "database"
  <2>1. Exact(Cur)
    BY <1>3 DEF Undoable
  <2>2. CASE backups[Cur] = {} /\ \A v \in Nest(Cur) : home0[v] = {}
    <3>1. fs' = fs
      BY <1>3, <2>2 DEF Undo
    <3>2. Cur = "plugins" => "gpx" \in Nest(Cur)
      BY DEF Nest
    <3> QED BY <1>0, <2>2, <3>1, <3>2 DEF Content
  <2>3. CASE backups[Cur] = {[v \in Nest(Cur) |-> home0[v]]}
    <3> DEFINE s == [v \in Nest(Cur) |-> home0[v]]
    <3>1. s \in [Nest(Cur) -> SUBSET Things] /\ \A v \in Nest(Cur) : s[v] = home0[v]
      BY <1>0 DEF HomeTypes
    <3>2. fs' = Restored(Cur, s)
      BY <1>3, <2>3 DEF Undo
    <3> HIDE DEF s
    <3>3. /\ \A v \in Nest(Cur) : fs'[v].dest = home0[v]
          /\ \A v \in Units \ Nest(Cur) : fs'[v] = fs[v]
      BY <1>0, <3>1, <3>2, RestoredIs
    <3>4. Cur = "plugins" => "gpx" \in Nest(Cur)
      BY DEF Nest
    <3> QED BY <1>0, <1>3, <3>3, <3>4 DEF Content
  <2> QED BY <2>1, <2>2, <2>3 DEF Exact
<1> QED BY <1>1, <1>2, <1>3
\* Putting a step back touches no other step.
LEMMA UndoLocal ==
    ASSUME HomeTypes, Cur \in Units, fs' \in Undo(Cur)
    PROVE  /\ \A v \in Units \ Nest(Cur) : fs'[v] = fs[v]
           /\ results[Cur] # "move" => fs' = fs
<1>0. fs \in FileSystems /\ Cur \in Nest(Cur)
  BY NestIs DEF HomeTypes, FileSystems
<1>1. CASE fs' = fs
  BY <1>1
<1>2. CASE results[Cur] = "move" /\ Cur = "database"
  <2>1. fs' = DbRestored
    BY <1>2 DEF Undo
  <2> QED BY <1>0, <1>2, <2>1, DbRestoredIs
<1>3. CASE results[Cur] = "move" /\ Cur # "database" /\ backups[Cur] # {}
  <2>1. PICK s \in backups[Cur] : fs' = Restored(Cur, s)
    BY <1>3 DEF Undo
  <2>2. s \in [Nest(Cur) -> SUBSET Things]
    BY DEF HomeTypes
  <2> QED BY <1>0, <1>3, <2>1, <2>2, RestoredIs
<1> QED BY <1>1, <1>2, <1>3 DEF Undo

\* The rollback of one step.
LEMMA RollbackStepUndoable == KeptInv /\ FirstRun /\ (RollbackStep \/ RollbackStepFails) => FirstRun'
<1> SUFFICES ASSUME KeptInv, FirstRun, RollbackStep \/ RollbackStepFails PROVE FirstRun' OBVIOUS
<1>0. HomeTypes /\ Undone /\ Fresh
  BY DEF KeptInv, FirstRun
<1>1. /\ pc = "rollback" /\ pc' = pc /\ step \in 1..7 /\ step' = step - 1 /\ pc' \notin Working
      /\ UNCHANGED <<results, runs, home0>>
  BY <1>0 DEF RollbackStep, RollbackStepFails, control, HomeTypes, Working, Operations
<1>2. /\ Cur \in Units /\ Cur = Order[step] /\ fs \in FileSystems
  BY <1>0, <1>1, OrderInjective DEF Cur, HomeTypes, FileSystems
<1>3. \A v \in Units \ Nest(Cur) : fs'[v] = fs[v]
  <2>1. CASE RollbackStep
    BY <1>0, <1>2, <2>1, UndoLocal DEF RollbackStep
  <2>2. CASE RollbackStepFails
    BY <1>2, <2>2, RemovedIs DEF RollbackStepFails
  <2> QED BY <2>1, <2>2
<1>4. \A u \in Units \ {"gpx"} : backups'[u] = backups[u]
  BY <1>0 DEF RollbackStep, RollbackStepFails, WithoutNested, HomeTypes
<1>5. Fresh' /\ DryMovesNothing' /\ Ahead' /\ RollbackRestores'
  BY <1>0, <1>1 DEF Fresh, DryMovesNothing, Ahead, RollbackRestores
<1>6. Undone'
  <2> SUFFICES ASSUME runs = 1, NEW i \in 1..7, results[Order[i]] # "none"
               PROVE  /\ i <= step' /\ ~Overrun(Order[i]) => Undoable(Order[i])'
                      /\ i > step' /\ rolled' /\ ~(step' >= 6 /\ Overrun(Order[i])) => BackIn(Order[i])'
    BY <1>1 DEF Undone, Overrun
  <2>0. Order[i] \in Units
    BY OrderInjective
  <2>1. ASSUME i <= step', ~Overrun(Order[i]) PROVE Undoable(Order[i])'
    <3>1. i < step /\ i # 7
      BY <1>1, <2>1
    <3>2. Order[i] \notin Nest(Cur) /\ Order[i] # "gpx"
      BY <1>1, <1>2, <3>1, NestOrder
    <3>3. fs'[Order[i]] = fs[Order[i]] /\ backups'[Order[i]] = backups[Order[i]]
      BY <1>3, <1>4, <2>0, <3>2
    <3>4. Undoable(Order[i])
      BY <1>0, <1>1, <2>1, <3>1 DEF Undone
    <3> QED BY <1>1, <3>3, <3>4 DEF Undoable, Exact
  <2>2. ASSUME i > step', rolled', ~(step' >= 6 /\ Overrun(Order[i])) PROVE BackIn(Order[i])'
    <3>1. RollbackStep /\ rolled
      BY <2>2 DEF RollbackStep, RollbackStepFails
    <3>2. fs' \in Undo(Cur)
      BY <3>1 DEF RollbackStep
    <3>3. CASE i = step
      <4>1. ~Overrun(Order[i])
        BY <1>1, <2>2, <3>3, NestOrder DEF Overrun
      <4>2. Undoable(Cur)
        BY <1>0, <1>1, <1>2, <3>3, <4>1 DEF Undone
      <4> QED BY <1>0, <1>1, <1>2, <3>2, <3>3, <4>2, UndoIsBack DEF BackIn
    <3>4. CASE i # step /\ ~(step = 6 /\ i = 7)
      <4>1. i > step /\ Order[i] \notin Nest(Cur)
        BY <1>1, <1>2, <2>2, <3>4, NestOrder
      <4>2. ~(step >= 6 /\ Overrun(Order[i]))
        BY <1>1, <3>4, <4>1, NestOrder DEF Overrun
      <4>3. BackIn(Order[i])
        BY <1>0, <1>1, <3>1, <4>1, <4>2 DEF Undone
      <4> QED BY <1>1, <1>3, <2>0, <4>1, <4>3 DEF BackIn
    <3>5. CASE step = 6 /\ i = 7
      <4>1. Cur = "plugins" /\ Order[i] = "gpx"
        BY <1>2, <3>5, OrderIs
      <4>2. CASE results[Cur] = "move"
        <5>0. Cur = Order[6] /\ ~Overrun(Order[6]) /\ results[Order[6]] # "none"
          BY <1>2, <3>5, <4>1, <4>2 DEF Overrun
        <5>1. Undoable(Cur)
          BY <1>0, <1>1, <3>5, <5>0 DEF Undone
        <5> QED BY <1>0, <1>1, <1>2, <3>2, <4>1, <4>2, <5>1, UndoIsBack DEF BackIn
      <4>3. CASE results[Cur] # "move"
        <5>1. fs' = fs
          BY <1>0, <1>2, <3>2, <4>3, UndoLocal
        <5>2. BackIn(Order[i])
          BY <1>0, <1>1, <3>1, <3>5, <4>1, <4>3 DEF Undone, Overrun
        <5> QED BY <1>1, <5>1, <5>2 DEF BackIn
      <4> QED BY <4>2, <4>3
    <3> QED BY <3>3, <3>4, <3>5
  <2> QED BY <2>1, <2>2
<1> QED BY <1>5, <1>6 DEF FirstRun

\* The end of the rollback.
LEMMA RollbackEndsUndoable == KeptInv /\ FirstRun /\ RollbackEnds => FirstRun'
<1> SUFFICES ASSUME KeptInv, FirstRun, RollbackEnds PROVE FirstRun' OBVIOUS
<1>0. HomeTypes /\ Undone /\ Fresh /\ fs \in FileSystems
  BY DEF KeptInv, FirstRun, HomeTypes, FileSystems
<1>1. /\ pc = "rollback" /\ step = 0 /\ pc' = "release" /\ pc' \notin Working
      /\ UNCHANGED <<results, rolled, runs, home0>>
  BY DEF RollbackEnds, control, Working, Operations
<1>2. Fresh' /\ DryMovesNothing' /\ Ahead' /\ Undone'
  BY <1>0, <1>1 DEF Fresh, DryMovesNothing, Ahead, Undone
<1>3. \A u \in Units : fs'[u].dest = fs[u].dest
  BY <1>0 DEF RollbackEnds, FileSystems, Places
<1>4. RollbackRestores'
  <2> SUFFICES ASSUME runs = 1, rolled, NEW u \in Units, results[u] # "none"
               PROVE  Content(home0[u]) \subseteq fs'[u].dest
    BY <1>1 DEF RollbackRestores, Completed
  <2>1. PICK i \in 1..7 : u = Order[i]
    BY OrderIs DEF Units
  <2>2. BackIn(u)
    BY <1>0, <1>1, <2>1 DEF Undone
  <2> QED BY <1>3, <2>2 DEF BackIn
<1> QED BY <1>2, <1>4 DEF FirstRun

\* Every step keeps the first run undoable.
LEMMA NextUndoable == KeptInv /\ FirstRun /\ [MigrationNext]_migrationVars => FirstRun'
<1> SUFFICES ASSUME KeptInv, FirstRun, [MigrationNext]_migrationVars PROVE FirstRun' OBVIOUS
<1>0. HomeTypes /\ Apart
  BY DEF KeptInv
<1>1. ASSUME NEW m \in Modes, Begin(m) PROVE FirstRun'
  BY <1>1, BeginUndoable
<1>2. CASE Declines \/ Service \/ RemoveLock \/ Release \/ Crash \/ UNCHANGED migrationVars
  BY <1>2, IdleUndoable
<1>3. CASE Finished
  BY <1>3, IdleUndoable DEF Finished
<1>4. CASE Select \/ Backup \/ Fails \/ Handle
  BY <1>4, SelectUndoable, BackupUndoable, FailsUndoable, HandleUndoable
<1>5. CASE Clear \/ MoveToStage \/ CopyDatabase \/ VerifyDatabase \/ StagePlugins \/ RemoveOld \/ Place
  <2>1. pc \in Replacing /\ pc \in Operations /\ pc # "drop"
    BY <1>5 DEF Clear, MoveToStage, CopyDatabase, VerifyDatabase, StagePlugins, RemoveOld, Place,
       Replacing, Operations
  <2>2. /\ pc' \in Replacing /\ UNCHANGED <<step, results, outcome, runs, home0, mode>>
        /\ backups' = backups \/ backups' = WithoutNested(Cur)
    BY <1>0, <1>5, <2>1, NextOperation DEF Clear, MoveToStage, CopyDatabase, VerifyDatabase,
       StagePlugins, RemoveOld, Place, control
  <2>3. Effect(fs')
    <3>1. CASE Clear
      BY <1>0, <2>1, <3>1, ClearEffect DEF Clear
    <3>2. CASE MoveToStage \/ StagePlugins \/ Place
      BY <1>0, <3>2, MoveToStageEffect, StagePluginsEffect, PlaceEffect
    <3>3. CASE CopyDatabase
      BY <1>0, <2>1, <3>3, CopyEffect DEF CopyDatabase
    <3>4. CASE VerifyDatabase
      BY <1>0, <2>1, <3>4, Running DEF VerifyDatabase
    <3>5. CASE RemoveOld
      BY <1>0, <2>1, <3>5, RemovedEffect DEF RemoveOld
    <3> QED BY <1>5, <3>1, <3>2, <3>3, <3>4, <3>5
  <2> QED BY <2>1, <2>2, <2>3, OperationUndoable
<1>6. CASE StagePluginsCollide
  <2>1. /\ pc \in Replacing /\ pc' = "failed" /\ backups' = backups
        /\ UNCHANGED <<step, results, outcome, runs, home0, mode>>
    BY <1>6 DEF StagePluginsCollide, Replacing, Operations, control
  <2> QED BY <1>0, <1>6, <2>1, StagePluginsEffect, OperationUndoable
<1>7. CASE Drop
  <2>1. pc \in Operations /\ pc \in Replacing /\ Advance(Cur, "move") /\ backups' = backups
        /\ UNCHANGED <<outcome, control>>
    BY <1>7 DEF Drop, Operations, Replacing
  <2> QED BY <1>0, <1>7, <2>1, DropActionEffect, AdvanceUndoable
<1>8. CASE RollbackStep \/ RollbackStepFails \/ RollbackEnds
  BY <1>8, RollbackStepUndoable, RollbackEndsUndoable
<1> QED BY <1>1, <1>2, <1>3, <1>4, <1>5, <1>6, <1>7, <1>8 DEF MigrationNext

\* Before the first run there is nothing to undo.
LEMMA InitUndoable == MigrationInit => FirstRun
<1> SUFFICES ASSUME MigrationInit PROVE FirstRun OBVIOUS
<1>1. pc = "idle" /\ pc \notin Working /\ runs = 0 /\ \A u \in Units : backups[u] = {}
  BY DEF MigrationInit, Working, Operations
<1> QED BY <1>1 DEF FirstRun, Fresh, DryMovesNothing, Ahead, Undone, RollbackRestores

\* rollback_migration(): whichever operation of the first run failed, for every layout of
\* the files, a rollback that reports success has put back what the destinations of the
\* completed steps held before the run; the tracks come back with the plugins directory.
THEOREM RollbackPutsBack == MigrationSpec => []RollbackRestores
<1>1. KeptInv /\ FirstRun /\ [MigrationNext]_migrationVars => (KeptInv /\ FirstRun)'
  BY NextKeeps, NextUndoable
<1>2. FirstRun => RollbackRestores
  BY DEF FirstRun
<1> QED BY <1>1, <1>2, InitKept, InitUndoable, PTL DEF MigrationSpec
-----------------------------------------------------------------------------
(* A success is true *)

Unmoved == {"backup", "clear", "stage"}
InStage == {"verify", "remove", "place"}

\* No run has failed, and no lock is left.
Undisturbed == pc \notin {"failed", "rollback", "dead"} /\ (mode = "dry" => ~lock)

\* What exists in a legacy location has something that is moved, or it is what an earlier
\* run has left of the logs.
Usable(u, p) ==
    \/ Taken(u, fs[u][p]) # {}
    \/ u = "logs" /\ Content(fs[u][p]) # {} /\ Content(fs["logs"].dest) # {}

\* The directories from which the running step has taken its data are about to go, or the
\* data is about to arrive.
SourcesWhole ==
    /\ \A u \in {"credentials", "config", "database"}, p \in Sources : Dir \notin fs[u][p]
    /\ \A u \in Units \ {"gpx"}, p \in Sources :
         \/ fs[u][p] # {} => Usable(u, p)
         \/ /\ pc \in {"remove", "place", "drop"} /\ u = Cur /\ p = picked
            /\ u \in {"logs", "plugins"}

\* A database has its main file, or there is one at the destination.
MainFound ==
    \/ "main" \in NamesOf(fs["database"].dest)
    \/ \A p \in Sources : fs["database"][p] # {} => "main" \in NamesOf(fs["database"][p])

StagesEmpty ==
    \A u \in Units : fs[u].stage = {} \/ (pc \in InStage \cup {"drop"} /\ u = Cur)

\* Logs are added to the ones that are there.
LogsThere == Cur = "logs" /\ Content(fs["logs"].dest) # {}

\* Where the data of the running step is.
OnTheWay ==
    /\ pc \in Operations /\ Cur = "database" => HasData("database", fs["database"][picked])
    /\ pc \in Operations /\ Cur # "gpx" =>
         /\ pc \in Unmoved => HasData(Cur, Taken(Cur, fs[Cur][picked])) \/ LogsThere
         /\ pc \in InStage => HasData(Cur, fs[Cur].stage) \/ LogsThere
         /\ pc = "drop" => HasData(Cur, fs[Cur].dest)

\* verify_migration() finds legacy data of u.
LegacyLeft(u) ==
    \/ u # "gpx" /\ \E i \in 1..Len(roots) : HasData(u, fs[u][roots[i]])
    \/ u \in {"credentials", "store"} /\ fs[u]["home"] # {}

Settled(u) == LegacyLeft(u) => u = "config" \/ TargetPresent(u)

Succeeded == mode # "dry" /\ pc \in {"release", "idle"} /\ outcome = "success"

\* The completed steps of a run, and all steps after its success.
StepsSettled ==
    /\ pc = "release" => outcome = "success"
    /\ mode # "dry" /\ pc \in Working => \A i \in 1..7 : i < step => Settled(Order[i])
    /\ Succeeded => \A u \in Units : Settled(u)

\* As long as nothing has failed.
Calm == Undisturbed /\ SourcesWhole /\ MainFound /\ StagesEmpty /\ OnTheWay /\ StepsSettled

\* What p held of u at first, as far as it is moved.
Held(u, p) == {x \in orig[u] : x.from = p /\ Takes(u, x)}

\* The roots are known in which something was.
Listed ==
    \A u \in Units : \A x \in orig[u] : x.from \in {"r1", "r2"} =>
        /\ roots # <<>>
        /\ IF u = "gpx" THEN x.from = "r1" ELSE \E i \in 1..Len(roots) : roots[i] = x.from

\* The sources of u are as they were.
Original(u) ==
    \A p \in Sources :
        Content(fs[u][p]) = {x \in orig[u] : x.from = p} /\ (fs[u][p] # {} => Held(u, p) # {})

Waits(i) == i > step \/ (i = step /\ pc \in {"select"} \cup Unmoved)

\* The first run has found u, and what it moved has come as a whole.
Delivered(u) ==
    /\ (\E x \in orig[u] : x.from \in {"r1", "r2"}) => Present(u)
    /\ results[u] = "move" => \E p \in Sources : Held(u, p) # {} /\ Held(u, p) \subseteq fs[u].dest

StartsOriginal == runs = 0 => \A u \in Units : Original(u) /\ results[u] = "none"

WaitsOriginal == runs = 1 /\ pc \in Working => \A i \in 1..7 : Waits(i) => Original(Order[i])

\* Everything that was picked is on its way.
WholeOnTheWay ==
    runs = 1 /\ pc \in Operations =>
        /\ picked \in Sources /\ Held(Cur, picked) # {}
        /\ pc \in InStage => Held(Cur, picked) \subseteq fs[Cur].stage
        /\ pc = "drop" => Held(Cur, picked) \subseteq fs[Cur].dest
        /\ Cur = "database" => Held(Cur, picked) \subseteq fs[Cur][picked]

StepsDelivered ==
    runs = 1 =>
        /\ mode # "dry" /\ pc \in Working => \A i \in 1..7 : i < step => Delivered(Order[i])
        /\ Succeeded => \A u \in Units : Delivered(u)

Whole == Listed /\ StartsOriginal /\ WaitsOriginal /\ WholeOnTheWay /\ StepsDelivered

SuccessInv == faults = 0 => Calm /\ Whole

\* Which operations follow each other.
LEMMA FollowingIs ==
    ASSUME HomeTypes, pc \in Operations, pc # "drop"
    PROVE  /\ pc \in {"backup", "clear"} => Following \in {"clear", "stage"}
           /\ pc = "stage" => Following \in InStage
           /\ pc = "stage" /\ Cur # "database" => Following \in {"remove", "place"}
           /\ pc \in {"verify", "remove"} => Following = "place"
           /\ pc = "place" => Following = "drop"
           /\ pc = "verify" => Cur = "database"
           /\ pc = "remove" => Cur \in {"store", "plugins"}
<1> DEFINE s == StepsOf(Cur)
<1>1. Cur \in Units
  BY OrderInjective DEF HomeTypes, Cur
<1>2. PICK k \in 1..Len(s) : s[k] = pc
  BY DEF HomeTypes
<1>3. \A i \in 1..Len(s) : s[i] = s[k] => i = k
  BY <1>1, UnitsAre DEF StepsOf, CredentialsSteps, ConfigSteps, DatabaseSteps, LogsSteps,
     StoreSteps, PluginsSteps, GpxSteps
<1>4. (CHOOSE i \in 1..Len(s) : s[i] = pc) = k
  BY <1>2, <1>3
<1>5. Following = s[1 + k]
  BY <1>4 DEF Following
<1>6. /\ s[k] \in {"backup", "clear"} => s[1 + k] \in {"clear", "stage"}
      /\ s[k] = "stage" => s[1 + k] \in InStage
      /\ s[k] = "stage" /\ Cur # "database" => s[1 + k] \in {"remove", "place"}
      /\ s[k] \in {"verify", "remove"} => s[1 + k] = "place"
      /\ s[k] = "place" => s[1 + k] = "drop"
      /\ s[k] = "verify" => Cur = "database"
      /\ s[k] = "remove" => Cur \in {"store", "plugins"}
  BY <1>1, UnitsAre DEF StepsOf, CredentialsSteps, ConfigSteps, DatabaseSteps, LogsSteps,
     StoreSteps, PluginsSteps, GpxSteps, InStage
<1> QED BY <1>2, <1>5, <1>6

\* What an operation that succeeds does to the data of the running step: it leaves the
\* other steps alone and takes what was picked, as a whole, one place further.
Carries ==
    /\ \A v \in Units \ {Cur}, p \in Places \ {"dest"} : fs'[v][p] = fs[v][p]
    /\ \A v \in Units \ Nest(Cur) : fs'[v] = fs[v]
    /\ \A p \in Sources :
         \/ fs'[Cur][p] = fs[Cur][p]
         \/ /\ pc = "stage" /\ p = picked /\ Cur # "database"
            /\ fs'[Cur][p] = {} \/ Cur \in {"logs", "plugins", "gpx"}
    /\ pc \in {"backup", "clear"} => fs'[Cur].stage \subseteq fs[Cur].stage
    /\ pc = "stage" => Taken(Cur, fs[Cur][picked]) \subseteq fs'[Cur].stage
    /\ pc \in {"verify", "remove"} => fs'[Cur].stage = fs[Cur].stage
    /\ pc = "place" /\ picked # Nowhere =>
         \A x \in fs[Cur].stage : (Cur = "database" => x.name \in DbNames) => x \in fs'[Cur].dest
    /\ pc \notin {"remove", "place"} => fs'[Cur].dest = fs[Cur].dest
    /\ Cur \in {"logs", "gpx"} => fs[Cur].dest \subseteq fs'[Cur].dest
    /\ pc' = Following
    /\ picked' = picked \/ (pc = "stage" /\ Cur = "gpx" /\ Taken(Cur, fs[Cur][picked]) = {})
    /\ UNCHANGED <<step, results, outcome, faults, roots, lock, mode, runs, orig>>

\* An operation that leaves the files alone.
LEMMA SameCarries ==
    ASSUME HomeTypes, pc \in {"backup", "verify"}, fs' = fs, pc' = Following, picked' = picked,
           UNCHANGED <<step, results, outcome, faults, control>>
    PROVE  Carries
BY DEF Carries, control

\* Clear carries.
LEMMA ClearCarries ==
    ASSUME HomeTypes, Apart, Clear
    PROVE  Carries
<1>1. pc \in Operations /\ pc = "clear" /\ Cur \in Units /\ fs \in FileSystems
  BY Running DEF Clear, Operations
<1>2. /\ fs'[Cur].stage = {}
      /\ \A v \in Units, q \in Places : v # Cur \/ q # "stage" => fs'[v][q] = fs[v][q]
      /\ \A v \in Units \ {Cur} : fs'[v] = fs[v]
  <2>1. fs' = Put(fs, Cur, "stage", {}) /\ "stage" \in Places /\ {} \in SUBSET Things
    BY DEF Clear, Places
  <2> QED BY <1>1, <2>1, PutIs
<1>3. \A v \in Units \ Nest(Cur) : fs'[v] = fs[v]
  BY <1>1, <1>2, NestIs
<1>4. fs'[Cur].dest = fs[Cur].dest /\ \A p \in Sources : fs'[Cur][p] = fs[Cur][p]
  BY <1>1, <1>2 DEF Places, Sources
<1> QED BY <1>1, <1>2, <1>3, <1>4 DEF Carries, Clear, control

\* Replacing the contents of the staging path and of a source.
LEMMA StagedIs ==
    ASSUME fs \in FileSystems, NEW u \in Units, NEW p \in Sources, NEW S \in SUBSET Things,
           NEW R \in SUBSET Things, fs' = Put(Put(fs, u, "stage", S), u, p, R)
    PROVE  /\ fs'[u].stage = S /\ fs'[u][p] = R
           /\ \A v \in Units, q \in Places : v # u \/ q \notin {"stage", p} => fs'[v][q] = fs[v][q]
           /\ \A v \in Units \ {u} : fs'[v] = fs[v]
<1> DEFINE G == Put(fs, u, "stage", S)
<1>1. "stage" \in Places /\ p \in Places /\ p # "stage"
  BY DEF Places, Sources
<1>2. /\ G \in FileSystems /\ G[u].stage = S
      /\ \A v \in Units, q \in Places : v # u \/ q # "stage" => G[v][q] = fs[v][q]
      /\ \A v \in Units \ {u} : G[v] = fs[v]
  BY <1>1, PutIs
<1> HIDE DEF G
<1>3. fs' = Put(G, u, p, R)
  BY DEF G
<1>4. /\ fs'[u][p] = R
      /\ \A v \in Units, q \in Places : v # u \/ q # p => fs'[v][q] = G[v][q]
      /\ \A v \in Units \ {u} : fs'[v] = G[v]
  BY <1>1, <1>2, <1>3, PutIs
<1> QED BY <1>1, <1>2, <1>4

\* Staging carries, as soon as all the content is staged.
LEMMA StagingCarries ==
    ASSUME HomeTypes, Apart, pc = "stage", Cur # "database", picked \in Sources, pc' = Following,
           NEW S \in SUBSET Things, NEW R \in SUBSET Things,
           fs' = Put(Put(fs, Cur, "stage", S), Cur, picked, R),
           Taken(Cur, fs[Cur][picked]) \subseteq S,
           R = {} \/ Cur \in {"logs", "plugins", "gpx"},
           picked' = picked \/ (Cur = "gpx" /\ Taken(Cur, fs[Cur][picked]) = {}),
           UNCHANGED <<step, results, outcome, faults, control>>
    PROVE  Carries
<1>1. pc \in Operations /\ Cur \in Units /\ fs \in FileSystems
  BY Running DEF Operations
<1>2. /\ fs'[Cur].stage = S /\ fs'[Cur][picked] = R
      /\ \A v \in Units, q \in Places : v # Cur \/ q \notin {"stage", picked} => fs'[v][q] = fs[v][q]
      /\ \A v \in Units \ {Cur} : fs'[v] = fs[v]
  BY <1>1, StagedIs
<1>3. \A v \in Units \ Nest(Cur) : fs'[v] = fs[v]
  BY <1>1, <1>2, NestIs
<1>4. fs'[Cur].dest = fs[Cur].dest /\ \A p \in Sources : p # picked => fs'[Cur][p] = fs[Cur][p]
  BY <1>1, <1>2 DEF Places, Sources
<1> QED BY <1>1, <1>2, <1>3, <1>4 DEF Carries, control

\* MoveToStage carries: only directories leave anything behind.
LEMMA MoveToStageCarries ==
    ASSUME HomeTypes, Apart, SourcesWhole, MoveToStage
    PROVE  Carries
<1>0. /\ pc = "stage" /\ pc \in Operations /\ picked \in Sources /\ picked \in Places /\ Cur \in Units
      /\ Cur # "database" /\ Cur \in {"credentials", "config", "store", "logs", "gpx"}
  BY Running DEF MoveToStage, Operations, Places
<1>1. fs[Cur][picked] \in SUBSET Things /\ fs[Cur].stage \in SUBSET Things
  BY <1>0, Running DEF FileSystems
<1>2. picked' = picked \/ (Cur = "gpx" /\ Taken(Cur, fs[Cur][picked]) = {})
  BY MovedIs DEF MoveToStage
<1> DEFINE S == fs[Cur].stage \cup Moved
           R == fs[Cur][picked] \ Moved
<1>3. fs' = Put(Put(fs, Cur, "stage", S), Cur, picked, R)
  BY DEF MoveToStage
<1>4. S \in SUBSET Things /\ R \in SUBSET Things /\ Taken(Cur, fs[Cur][picked]) \subseteq S
  BY <1>1, MovedIs
<1>5. R = {} \/ Cur \in {"logs", "plugins", "gpx"}
  <2>1. Cur \in {"credentials", "config"} => Dir \notin fs[Cur][picked]
    BY <1>0 DEF SourcesWhole
  <2>2. Cur \in {"credentials", "config"} => Moved = Content(fs[Cur][picked])
    BY MovedIs, TakenIs
  <2> QED BY <1>0, <2>1, <2>2, MovedIs DEF Content
<1> HIDE DEF S, R
<1> QED BY <1>0, <1>2, <1>3, <1>4, <1>5, StagingCarries DEF MoveToStage

\* The plugins are staged as a whole.
LEMMA StagePluginsCarries ==
    ASSUME HomeTypes, Apart, StagePlugins
    PROVE  Carries
<1>0. pc = "stage" /\ pc \in Operations /\ picked \in Sources /\ picked \in Places /\ Cur = "plugins"
  BY Running DEF StagePlugins, Operations, Places
<1>1. fs[Cur][picked] \in SUBSET Things /\ fs[Cur].stage \in SUBSET Things /\ Dir \in Things
  BY <1>0, Running DEF FileSystems, Things
<1> DEFINE S == {x \in fs[Cur].stage : x.name \notin NamesOf(Staged)} \cup Taken("plugins", fs[Cur][picked]) \cup {Dir}
           R == fs[Cur][picked] \ Taken("plugins", fs[Cur][picked])
<1>2. S \in SUBSET Things /\ R \in SUBSET Things /\ Taken(Cur, fs[Cur][picked]) \subseteq S
  BY <1>0, <1>1, TakenIs
<1>3. TierMoved = [fs EXCEPT !["plugins"].stage = S, !["plugins"][picked] = R]
  BY <1>0, Running DEF TierMoved, FileSystems, Sources
<1> HIDE DEF S, R
<1>4. fs' = TierMoved
  BY DEF StagePlugins
<1>5. fs' = Put(Put(fs, Cur, "stage", S), Cur, picked, R)
  BY <1>0, <1>2, <1>3, <1>4, TwoPuts
<1> QED BY <1>0, <1>2, <1>5, StagingCarries DEF StagePlugins

\* The database is copied as a whole.
LEMMA CopyCarries ==
    ASSUME HomeTypes, Apart, CopyDatabase
    PROVE  Carries
<1>0. pc = "stage" /\ pc \in Operations /\ picked \in Sources /\ picked \in Places /\ Cur = "database" /\ Cur \in Units
      /\ fs \in FileSystems
  BY Running DEF CopyDatabase, Operations, Places
<1> DEFINE S == {x \in fs["database"].stage : x.name \notin DbNames}
                \cup {x \in fs["database"][picked] : x.name \in DbNames}
<1>1. S \in SUBSET Things /\ "stage" \in Places
  BY <1>0 DEF FileSystems, Places
<1>2. Taken(Cur, fs[Cur][picked]) \subseteq S
  BY <1>0, TakenIs DEF DbNames, NamesOf, Content
<1>3. fs' = Put(fs, "database", "stage", S)
  BY DEF CopyDatabase, DbStaged
<1> HIDE DEF S
<1>4. /\ fs'[Cur].stage = S
      /\ \A v \in Units, q \in Places : v # Cur \/ q # "stage" => fs'[v][q] = fs[v][q]
      /\ \A v \in Units \ {Cur} : fs'[v] = fs[v]
  BY <1>0, <1>1, <1>3, PutIs
<1>5. \A v \in Units \ Nest(Cur) : fs'[v] = fs[v]
  BY <1>0, <1>4, NestIs
<1>6. fs'[Cur].dest = fs[Cur].dest /\ \A p \in Sources : fs'[Cur][p] = fs[Cur][p]
  BY <1>0, <1>4 DEF Places, Sources
<1> QED BY <1>0, <1>2, <1>4, <1>5, <1>6 DEF Carries, CopyDatabase, control

\* Removing the old directory carries: only destinations are touched.
LEMMA RemoveCarries ==
    ASSUME HomeTypes, Apart, RemoveOld
    PROVE  Carries
<1>0. pc = "remove" /\ pc \in Operations /\ Cur \in Units /\ fs \in FileSystems
  BY Running DEF RemoveOld, Operations
<1>1. Cur \in {"store", "plugins"}
  BY <1>0, FollowingIs
<1>2. /\ \A v \in Units \ Nest(Cur) : fs'[v] = fs[v]
      /\ \A v \in Units, p \in Places \ {"dest"} : fs'[v][p] = fs[v][p]
  BY <1>0, RemovedIs DEF RemoveOld
<1>3. fs'[Cur].stage = fs[Cur].stage /\ \A p \in Sources : fs'[Cur][p] = fs[Cur][p]
  BY <1>0, <1>2 DEF Places, Sources
<1> QED BY <1>0, <1>1, <1>2, <1>3 DEF Carries, RemoveOld, control

\* Placing carries everything that is staged.
LEMMA PlaceCarries ==
    ASSUME HomeTypes, Apart, Place
    PROVE  Carries
<1>0. pc = "place" /\ pc \in Operations /\ Cur \in Units /\ fs \in FileSystems
  BY Running DEF Place, Operations
<1>1. Cur = "gpx" \/ picked # Nowhere
  BY <1>0 DEF HomeTypes
<1>2. CASE Cur = "gpx" /\ picked = Nowhere
  <2>1. fs' = fs
    BY <1>2 DEF Place
  <2> QED BY <1>0, <1>2, <2>1 DEF Carries, Place, control
<1>3. CASE ~(Cur = "gpx" /\ picked = Nowhere)
  <2>1. \E D \in SUBSET Things, S \in SUBSET Things :
          /\ fs' = Put(Put(fs, Cur, "dest", D), Cur, "stage", S)
          /\ \A x \in fs[Cur].stage : (Cur = "database" => x.name \in DbNames) => x \in D
          /\ Cur \in {"logs", "gpx"} => fs[Cur].dest \subseteq D
    <3>0. /\ fs[Cur].stage \in SUBSET Things /\ fs[Cur].dest \in SUBSET Things
          /\ {} \in SUBSET Things /\ Dir \in Things
      BY <1>0 DEF FileSystems, Places, Things
    <3>1. CASE Cur \in {"credentials", "config"}
      <4>1. fs' = [fs EXCEPT ![Cur].dest = fs[Cur].stage, ![Cur].stage = {}]
        BY <1>0, <3>1, Running DEF Place, Sources, Nowhere
      <4>2. fs' = Put(Put(fs, Cur, "dest", fs[Cur].stage), Cur, "stage", {})
        BY <4>1 DEF Put
      <4> QED BY <3>0, <3>1, <4>2
    <3>2. CASE Cur = "database"
      <4> DEFINE D == {x \in fs["database"].dest : x.name \notin DbNames \cup {}}
                      \cup {x \in fs["database"].stage : x.name \in DbNames}
                 S == {x \in fs["database"].stage : x.name \notin DbNames}
      <4>1. fs' = DbSwapped(DbNames, {})
        BY <1>0, <3>2, Running DEF Place, Sources, Nowhere
      <4>2. fs' = Put(Put(fs, Cur, "dest", D), Cur, "stage", S)
        BY <1>0, <3>2, <4>1 DEF DbSwapped, FileSystems, Put
      <4>3. D \in SUBSET Things /\ S \in SUBSET Things
            /\ \A x \in fs[Cur].stage : x.name \in DbNames => x \in D
        BY <3>0, <3>2
      <4> HIDE DEF D, S
      <4> QED BY <3>2, <4>2, <4>3
    <3>3. CASE Cur \notin {"credentials", "config", "database"}
      <4> DEFINE D == fs[Cur].dest \cup fs[Cur].stage \cup {Dir}
      <4>1. fs' = [fs EXCEPT ![Cur].dest = @ \cup fs[Cur].stage \cup {Dir}, ![Cur].stage = {}]
        BY <1>1, <1>3, <3>3 DEF Place
      <4>2. fs' = Put(Put(fs, Cur, "dest", D), Cur, "stage", {})
        BY <1>0, <4>1 DEF FileSystems, Places, Put
      <4>3. D \in SUBSET Things /\ fs[Cur].stage \subseteq D /\ fs[Cur].dest \subseteq D
        BY <3>0
      <4> HIDE DEF D
      <4> QED BY <3>0, <4>2, <4>3
    <3> QED BY <3>1, <3>2, <3>3
  <2>2. PICK D \in SUBSET Things, S \in SUBSET Things :
          /\ fs' = Put(Put(fs, Cur, "dest", D), Cur, "stage", S)
          /\ \A x \in fs[Cur].stage : (Cur = "database" => x.name \in DbNames) => x \in D
          /\ Cur \in {"logs", "gpx"} => fs[Cur].dest \subseteq D
    BY <2>1
  <2>3. /\ fs'[Cur].dest = D /\ \A p \in Sources : fs'[Cur][p] = fs[Cur][p]
        /\ \A v \in Units \ {Cur} : fs'[v] = fs[v]
    BY <1>0, <2>2, PutBothIs
  <2>4. \A v \in Units \ Nest(Cur) : fs'[v] = fs[v]
    BY <1>0, <2>3, NestIs
  <2> QED BY <1>0, <2>2, <2>3, <2>4 DEF Carries, Place, control
<1> QED BY <1>2, <1>3

\* Following an operation of a step that succeeds.
LEMMA CarriedPlaces ==
    ASSUME HomeTypes, pc \in Operations, pc # "drop", Carries
    PROVE  /\ Cur' = Cur /\ Cur \in Units /\ step \in 1..7 /\ Cur = Order[step]
           /\ pc' \in Replacing /\ pc' \in Operations /\ pc' \in Working /\ pc \in Working
           /\ pc' \notin {"failed", "rollback", "dead", "release", "idle", "select", "service", "backup"}
           /\ pc \in {"backup", "clear"} => pc' \in {"clear", "stage"}
           /\ pc = "stage" => pc' \in InStage
           /\ pc = "stage" /\ Cur # "database" => pc' \in {"remove", "place"}
           /\ pc \in {"verify", "remove"} => pc' = "place"
           /\ pc = "place" => pc' = "drop"
           /\ pc \in {"backup", "clear", "stage", "verify", "remove", "place"}
           /\ pc = "remove" => Cur \in {"store", "plugins"}
           /\ Cur # "gpx" => picked' = picked /\ picked \in Sources
           /\ fs \in FileSystems /\ Places = {"r1", "r2", "home", "user", "stage", "dest"}
<1>1. Cur' = Cur /\ Cur \in Units /\ step \in 1..7 /\ Cur = Order[step]
  BY OrderInjective DEF HomeTypes, Cur, Carries
<1>2. pc' = Following
  BY DEF Carries
<1>3. pc' \in Replacing
  BY <1>2, NextOperation
<1>4. /\ pc \in {"backup", "clear"} => pc' \in {"clear", "stage"}
      /\ pc = "stage" => pc' \in InStage
      /\ pc = "stage" /\ Cur # "database" => pc' \in {"remove", "place"}
      /\ pc \in {"verify", "remove"} => pc' = "place"
      /\ pc = "place" => pc' = "drop"
      /\ pc = "remove" => Cur \in {"store", "plugins"}
  BY <1>2, FollowingIs
<1>5. Cur # "gpx" => picked' = picked /\ picked \in Sources
  BY DEF Carries, HomeTypes
<1> QED BY <1>1, <1>3, <1>4, <1>5 DEF Replacing, Operations, Working, HomeTypes, FileSystems, Places, Sources

\* What was settled or delivered stays so while another step runs.
LEMMA SettledStays ==
    ASSUME NEW u \in Units, fs'[u] = fs[u], roots' = roots, Settled(u),
           u = "plugins" => (fs["gpx"].dest # {} => fs'["gpx"].dest # {})
    PROVE  Settled(u)'
<1>1. LegacyLeft(u)' => LegacyLeft(u)
  BY DEF LegacyLeft
<1>2. TargetPresent(u) => TargetPresent(u)'
  <2>1. Nest(u) \ {u} = IF u = "plugins" THEN {"gpx"} ELSE {}
    BY DEF Nest
  <2> QED BY <2>1 DEF TargetPresent, Present
<1> QED BY <1>1, <1>2 DEF Settled

\* The same for Delivered.
LEMMA DeliveredStays ==
    ASSUME NEW u \in Units, fs'[u] = fs[u], orig' = orig, results'[u] = results[u], Delivered(u),
           u = "plugins" => (fs["gpx"].dest # {} => fs'["gpx"].dest # {})
    PROVE  Delivered(u)'
<1>1. Present(u) => Present(u)'
  <2>1. Nest(u) \ {u} = IF u = "plugins" THEN {"gpx"} ELSE {}
    BY DEF Nest
  <2> QED BY <2>1 DEF Present
<1> QED BY <1>1 DEF Delivered, Held

\* The completed steps while another one runs.
LEMMA BehindStays ==
    ASSUME HomeTypes, pc \in Operations, Carries, NEW i \in 1..7, i < step
    PROVE  /\ Order[i] \in Units /\ fs'[Order[i]] = fs[Order[i]]
           /\ Order[i] = "plugins" => (fs["gpx"].dest # {} => fs'["gpx"].dest # {})
<1>1. step \in 1..7 /\ Cur = Order[step] /\ Order[i] \in Units
  BY OrderInjective DEF HomeTypes, Cur
<1>2. Order[i] \notin Nest(Cur)
  BY <1>1, NestOrder
<1>3. Order[i] = "plugins" => Cur = "gpx"
  BY <1>1, NestOrder, OrderIs
<1> QED BY <1>1, <1>2, <1>3 DEF Carries

\* An operation that carries keeps the undisturbed run on its way.
LEMMA CarriesCalm ==
    ASSUME KeptInv, Calm, pc \in Operations, pc # "drop", Carries
    PROVE  Calm'
<1>0. HomeTypes /\ Undisturbed /\ SourcesWhole /\ MainFound /\ StagesEmpty /\ OnTheWay /\ StepsSettled
  BY DEF KeptInv, Calm
<1>1. /\ Cur' = Cur /\ Cur \in Units /\ step \in 1..7 /\ Cur = Order[step]
      /\ pc' \in Replacing /\ pc' \in Operations /\ pc' \in Working /\ pc \in Working
      /\ pc' \notin {"failed", "rollback", "dead", "release", "idle", "select", "service", "backup"}
      /\ pc \in {"backup", "clear"} => pc' \in {"clear", "stage"}
      /\ pc = "stage" => pc' \in InStage
      /\ pc = "stage" /\ Cur # "database" => pc' \in {"remove", "place"}
      /\ pc \in {"verify", "remove"} => pc' = "place"
      /\ pc = "place" => pc' = "drop"
      /\ pc \in {"backup", "clear", "stage", "verify", "remove", "place"}
      /\ pc = "remove" => Cur \in {"store", "plugins"}
      /\ Cur # "gpx" => picked' = picked /\ picked \in Sources
      /\ fs \in FileSystems /\ Places = {"r1", "r2", "home", "user", "stage", "dest"}
  BY <1>0, CarriedPlaces
<1>2. UNCHANGED <<step, results, outcome, faults, roots, lock, mode, runs, orig>>
  BY DEF Carries
<1>3. Undisturbed'
  BY <1>0, <1>1, <1>2 DEF Undisturbed
<1>4. \A v \in Units \ {Cur}, p \in Sources \cup {"stage"} : fs'[v][p] = fs[v][p]
  BY DEF Carries, Sources, Places
<1>5. \A p \in Sources :
         \/ fs'[Cur][p] = fs[Cur][p]
         \/ /\ pc = "stage" /\ p = picked /\ Cur # "database"
            /\ fs'[Cur][p] = {} \/ Cur \in {"logs", "plugins", "gpx"}
  BY DEF Carries
<1>11. Content(fs["logs"].dest) # {} => Content(fs'["logs"].dest) # {}
  <2>1. CASE Cur = "logs"
    BY <2>1 DEF Carries, Content
  <2>2. CASE Cur # "logs"
    <3>1. "logs" \in Units \ Nest(Cur)
      BY <1>1, <2>2, NestIs, UnitsAre
    <3> QED BY <3>1 DEF Carries
  <2> QED BY <2>1, <2>2
<1>12. LogsThere => LogsThere'
  BY <1>1, <1>11 DEF LogsThere
<1>6. SourcesWhole'
  <2>1. ASSUME NEW u \in {"credentials", "config", "database"}, NEW p \in Sources
        PROVE  Dir \notin fs'[u][p]
    <3>1. u \in Units
      BY UnitsAre
    <3> QED BY <1>0, <1>4, <1>5, <3>1 DEF SourcesWhole
  <2>2. ASSUME NEW u \in Units \ {"gpx"}, NEW p \in Sources
        PROVE  \/ fs'[u][p] # {} => Usable(u, p)'
               \/ /\ pc' \in {"remove", "place", "drop"} /\ u = Cur' /\ p = picked'
                  /\ u \in {"logs", "plugins"}
    <3>1. \/ fs[u][p] # {} => Usable(u, p)
          \/ /\ pc \in {"remove", "place", "drop"} /\ u = Cur /\ p = picked
             /\ u \in {"logs", "plugins"}
      BY <1>0 DEF SourcesWhole
    <3>2. CASE fs'[u][p] = fs[u][p]
      <4>1. Usable(u, p) => Usable(u, p)'
        BY <1>11, <3>2 DEF Usable
      <4> QED BY <1>1, <3>1, <3>2, <4>1
    <3>3. CASE fs'[u][p] # fs[u][p]
      <4>1. /\ u = Cur /\ pc = "stage" /\ p = picked /\ Cur # "database"
            /\ fs'[u][p] = {} \/ Cur \in {"logs", "plugins", "gpx"}
        BY <1>4, <1>5, <3>3
      <4> QED BY <1>1, <4>1
    <3> QED BY <3>2, <3>3
  <2> QED BY <2>1, <2>2 DEF SourcesWhole
<1>7. MainFound'
  <2>1. CASE Cur # "database"
    <3>1. "database" \in Units \ Nest(Cur)
      BY <1>1, <2>1, NestIs, UnitsAre
    <3>2. fs'["database"] = fs["database"]
      BY <3>1 DEF Carries
    <3> QED BY <1>0, <3>2 DEF MainFound
  <2>2. CASE Cur = "database"
    <3>1. \A p \in Sources : fs'["database"][p] = fs["database"][p]
      BY <1>5, <2>2
    <3>2. CASE pc # "place"
      <4>1. fs'["database"].dest = fs["database"].dest
        BY <1>1, <2>2, <3>2 DEF Carries
      <4> QED BY <1>0, <3>1, <4>1 DEF MainFound
    <3>3. CASE pc = "place"
      <4>1. "main" \in NamesOf(fs[Cur].stage) /\ "main" \in DbNames
        BY <1>0, <2>2, <3>3 DEF OnTheWay, HasData, InStage, DbNames, LogsThere
      <4>2. \A x \in fs[Cur].stage : x.name \in DbNames => x \in fs'[Cur].dest
        BY <1>1, <2>2, <3>3 DEF Carries, Sources, Nowhere
      <4>3. "main" \in NamesOf(fs'["database"].dest)
        BY <2>2, <4>1, <4>2 DEF NamesOf, Content
      <4> QED BY <4>3 DEF MainFound
    <3> QED BY <3>2, <3>3
  <2> QED BY <2>1, <2>2
<1>8. StagesEmpty'
  <2> SUFFICES ASSUME NEW u \in Units
               PROVE  fs'[u].stage = {} \/ (pc' \in InStage \cup {"drop"} /\ u = Cur)
    BY <1>1 DEF StagesEmpty
  <2>1. CASE u # Cur
    BY <1>0, <1>4, <2>1 DEF StagesEmpty
  <2>2. CASE u = Cur /\ pc \in {"backup", "clear"}
    BY <1>0, <2>2 DEF StagesEmpty, InStage, Carries
  <2>3. CASE u = Cur /\ pc \notin {"backup", "clear"}
    BY <1>1, <2>3 DEF InStage
  <2> QED BY <2>1, <2>2, <2>3
<1>9. OnTheWay'
  <2>1. Cur = "database" => HasData("database", fs'["database"][picked'])
    BY <1>0, <1>1, <1>5 DEF OnTheWay
  <2>2. ASSUME Cur # "gpx", pc' \in Unmoved PROVE HasData(Cur, Taken(Cur, fs'[Cur][picked'])) \/ LogsThere'
    <3>1. pc \in {"backup", "clear"} /\ pc \in Unmoved
      BY <1>1, <2>2 DEF Unmoved, InStage
    <3>2. fs'[Cur][picked'] = fs[Cur][picked]
      BY <1>1, <1>5, <2>2, <3>1
    <3> QED BY <1>0, <1>12, <2>2, <3>1, <3>2 DEF OnTheWay
  <2>3. ASSUME Cur # "gpx", pc' \in InStage PROVE HasData(Cur, fs'[Cur].stage) \/ LogsThere'
    <3>1. CASE pc = "stage"
      <4>1. Taken(Cur, fs[Cur][picked]) \subseteq fs'[Cur].stage
        BY <3>1 DEF Carries
      <4>2. HasData(Cur, Taken(Cur, fs[Cur][picked])) \/ LogsThere
        BY <1>0, <2>3, <3>1 DEF OnTheWay, Unmoved
      <4>3. HasData(Cur, Taken(Cur, fs[Cur][picked])) => HasData(Cur, fs'[Cur].stage)
        BY <4>1 DEF HasData, NamesOf, Content
      <4> QED BY <1>12, <4>2, <4>3
    <3>2. CASE pc # "stage"
      <4>1. pc \in {"verify", "remove"} /\ pc \in InStage
        BY <1>1, <2>3, <3>2 DEF InStage
      <4>2. fs'[Cur].stage = fs[Cur].stage
        BY <4>1 DEF Carries
      <4> QED BY <1>0, <1>12, <2>3, <4>1, <4>2 DEF OnTheWay
    <3> QED BY <3>1, <3>2
  <2>4. ASSUME Cur # "gpx", pc' = "drop" PROVE HasData(Cur, fs'[Cur].dest)
    <3>1. pc = "place" /\ pc \in InStage /\ picked # Nowhere
      BY <1>1, <2>4 DEF InStage, Sources, Nowhere
    <3>2. HasData(Cur, fs[Cur].stage) \/ LogsThere
      BY <1>0, <2>4, <3>1 DEF OnTheWay
    <3>3. Cur = "database" => "main" \in DbNames
      BY <1>0 DEF OnTheWay, HasData, DbNames
    <3>4. \A x \in fs[Cur].stage : (Cur = "database" => x.name \in DbNames) => x \in fs'[Cur].dest
      BY <3>1 DEF Carries
    <3>5. HasData(Cur, fs[Cur].stage) => HasData(Cur, fs'[Cur].dest)
      BY <3>3, <3>4 DEF HasData, NamesOf, Content
    <3>6. LogsThere => HasData(Cur, fs'[Cur].dest)
      BY <1>11 DEF LogsThere, HasData
    <3> QED BY <3>2, <3>5, <3>6
  <2> QED BY <1>1, <2>1, <2>2, <2>3, <2>4 DEF OnTheWay
<1>10. StepsSettled'
  <2>1. ASSUME mode # "dry", NEW i \in 1..7, i < step PROVE Settled(Order[i])'
    <3>1. Settled(Order[i])
      BY <1>0, <1>1, <2>1 DEF StepsSettled
    <3> QED BY <1>0, <1>2, <2>1, <3>1, BehindStays, SettledStays
  <2> QED BY <1>1, <1>2, <2>1 DEF StepsSettled, Succeeded
<1> QED BY <1>3, <1>6, <1>7, <1>8, <1>9, <1>10 DEF Calm

\* As long as the sources are as they were, what is taken from one is what it held.
LEMMA HeldIsTaken ==
    ASSUME NEW u \in Units, Original(u), NEW p \in Sources
    PROVE  Taken(u, fs[u][p]) = Held(u, p)
BY DEF Original, Held, Taken

\* It keeps the first run whole.
LEMMA CarriesWhole ==
    ASSUME KeptInv, FirstRun, Calm, Whole, pc \in Operations, pc # "drop", Carries
    PROVE  Whole'
<1>0. HomeTypes /\ Fresh /\ SourcesWhole /\ Listed /\ WaitsOriginal /\ WholeOnTheWay /\ StepsDelivered
  BY DEF KeptInv, FirstRun, Calm, Whole
<1>1. /\ Cur' = Cur /\ Cur \in Units /\ step \in 1..7 /\ Cur = Order[step]
      /\ pc' \in Replacing /\ pc' \in Operations /\ pc' \in Working /\ pc \in Working
      /\ pc' \notin {"failed", "rollback", "dead", "release", "idle", "select", "service", "backup"}
      /\ pc \in {"backup", "clear"} => pc' \in {"clear", "stage"}
      /\ pc = "stage" => pc' \in InStage
      /\ pc = "stage" /\ Cur # "database" => pc' \in {"remove", "place"}
      /\ pc \in {"verify", "remove"} => pc' = "place"
      /\ pc = "place" => pc' = "drop"
      /\ pc \in {"backup", "clear", "stage", "verify", "remove", "place"}
      /\ pc = "remove" => Cur \in {"store", "plugins"}
      /\ Cur # "gpx" => picked' = picked /\ picked \in Sources
      /\ fs \in FileSystems /\ Places = {"r1", "r2", "home", "user", "stage", "dest"}
  BY <1>0, CarriedPlaces
<1>2. UNCHANGED <<step, results, outcome, faults, roots, lock, mode, runs, orig>>
  BY DEF Carries
<1>3. Listed'
  BY <1>0, <1>2 DEF Listed
<1>4. StartsOriginal'
  BY <1>0, <1>1, <1>2 DEF StartsOriginal, Fresh, Operations
<1>5. WaitsOriginal'
  <2> SUFFICES ASSUME runs = 1, NEW i \in 1..7, Waits(i)' PROVE Original(Order[i])'
    BY <1>2 DEF WaitsOriginal
  <2>1. Waits(i) /\ (i = step => pc \in {"backup", "clear"})
    BY <1>1, <1>2 DEF Waits, Unmoved, InStage
  <2>2. Original(Order[i])
    BY <1>0, <1>1, <2>1 DEF WaitsOriginal
  <2>3. \A p \in Sources : fs'[Order[i]][p] = fs[Order[i]][p]
    <3>1. CASE Order[i] # Cur
      BY <3>1, OrderInjective DEF Carries, Sources, Places
    <3>2. CASE Order[i] = Cur
      <4>1. pc # "stage"
        BY <1>1, <2>1, <3>2, OrderInjective
      <4> QED BY <3>2, <4>1 DEF Carries
    <3> QED BY <3>1, <3>2
  <2> QED BY <1>2, <2>2, <2>3 DEF Original, Held
<1>6. WholeOnTheWay'
  <2> SUFFICES ASSUME runs = 1
               PROVE  /\ picked' \in Sources /\ Held(Cur, picked') # {}
                      /\ pc' \in InStage => Held(Cur, picked') \subseteq fs'[Cur].stage
                      /\ pc' = "drop" => Held(Cur, picked') \subseteq fs'[Cur].dest
                      /\ Cur = "database" => Held(Cur, picked') \subseteq fs'[Cur][picked']
    BY <1>1, <1>2 DEF WholeOnTheWay, Held
  <2>0. /\ picked \in Sources /\ Held(Cur, picked) # {}
        /\ pc \in InStage => Held(Cur, picked) \subseteq fs[Cur].stage
        /\ Cur = "database" => Held(Cur, picked) \subseteq fs[Cur][picked]
    BY <1>0 DEF WholeOnTheWay
  <2>1. pc = "stage" => Taken(Cur, fs[Cur][picked]) = Held(Cur, picked)
    <3>1. pc = "stage" => Original(Cur)
      BY <1>0, <1>1 DEF WaitsOriginal, Waits, Unmoved
    <3> QED BY <1>1, <2>0, <3>1, HeldIsTaken
  <2>2. picked' = picked
    <3>1. CASE Cur = "gpx" /\ Taken(Cur, fs[Cur][picked]) = {} /\ picked' # picked
      <4>1. pc = "stage"
        BY <1>1, <3>1 DEF Carries
      <4> QED BY <2>0, <2>1, <3>1, <4>1
    <3> QED BY <3>1 DEF Carries
  <2>3. ASSUME pc' \in InStage PROVE Held(Cur, picked) \subseteq fs'[Cur].stage
    <3>1. CASE pc = "stage"
      BY <2>1, <3>1 DEF Carries
    <3>2. CASE pc # "stage"
      <4>1. pc \in {"verify", "remove"} /\ pc \in InStage
        BY <1>1, <2>3, <3>2 DEF InStage
      <4> QED BY <2>0, <4>1 DEF Carries
    <3> QED BY <3>1, <3>2
  <2>4. ASSUME pc' = "drop" PROVE Held(Cur, picked) \subseteq fs'[Cur].dest
    <3>1. pc = "place" /\ pc \in InStage /\ picked # Nowhere
      BY <1>1, <2>0, <2>4 DEF InStage, Sources, Nowhere
    <3>2. Cur = "database" => \A x \in Held(Cur, picked) : x.name \in DbNames
      <4>1. \A x \in Held(Cur, picked) : x # Dir
        BY <2>0 DEF Held, Dir, Sources
      <4> QED BY <2>0, <4>1 DEF DbNames, NamesOf, Content
    <3>3. \A x \in fs[Cur].stage : (Cur = "database" => x.name \in DbNames) => x \in fs'[Cur].dest
      BY <3>1 DEF Carries
    <3> QED BY <2>0, <3>1, <3>2, <3>3
  <2>5. Cur = "database" => fs'[Cur][picked] = fs[Cur][picked]
    BY <2>0 DEF Carries
  <2> QED BY <2>0, <2>2, <2>3, <2>4, <2>5
<1>7. StepsDelivered'
  <2>1. ASSUME runs = 1, mode # "dry", NEW i \in 1..7, i < step PROVE Delivered(Order[i])'
    <3>1. Delivered(Order[i])
      BY <1>0, <1>1, <2>1 DEF StepsDelivered
    <3>2. results'[Order[i]] = results[Order[i]]
      BY <1>2
    <3> QED BY <1>0, <1>2, <2>1, <3>1, <3>2, BehindStays, DeliveredStays
  <2> QED BY <1>1, <1>2, <2>1 DEF StepsDelivered, Succeeded
<1> QED BY <1>3, <1>4, <1>5, <1>6, <1>7 DEF Whole

\* What the end of a step leaves behind.
LEMMA DropLeaves ==
    ASSUME HomeTypes, Apart, Drop
    PROVE  /\ \A v \in Units \ {Cur} : fs'[v] = fs[v]
           /\ fs'[Cur].stage = {}
           /\ \A p \in Sources :
                \/ fs'[Cur][p] = fs[Cur][p] /\ ~(p = picked /\ Cur = "plugins")
                                            /\ ~(p = picked /\ Cur = "logs" /\ Content(fs[Cur][p]) = {})
                \/ fs'[Cur][p] = {}
                \/ Cur = "database" /\ fs'[Cur][p] \subseteq fs[Cur][p]
           /\ \A x \in fs[Cur].dest : (Cur = "database" => x.name \in DbNames) => x \in fs'[Cur].dest
<1>0. pc \in Operations /\ pc = "drop" /\ Cur \in Units /\ fs \in FileSystems /\ "stage" \in Places /\ {} \in SUBSET Things
      /\ Sources \subseteq Places /\ "stage" \notin Sources /\ "dest" \notin Sources /\ "dest" \in Places
  BY Running DEF Drop, Operations, Places, Sources
<1>1. CASE Cur = "database"
  <2>1. PICK left \in SUBSET fs[Cur][picked] : fs' = Put(DbDropped(left), Cur, "stage", {})
    BY <1>1 DEF Drop
  <2>2. picked \in Sources
    BY <1>0, <1>1, Running
  <2> DEFINE G == DbDropped(left)
  <2>3. /\ G \in FileSystems
        /\ \A v \in Units \ {Cur} : G[v] = fs[v]
        /\ \A p \in Sources : G[Cur][p] \subseteq fs[Cur][p]
        /\ G[Cur].dest = {x \in fs[Cur].dest : x.name \in DbNames}
    BY <1>0, <1>1, <2>2 DEF DbDropped, FileSystems, Sources
  <2> HIDE DEF G
  <2>4. /\ fs'[Cur].stage = {}
        /\ \A v \in Units, q \in Places : v # Cur \/ q # "stage" => fs'[v][q] = G[v][q]
        /\ \A v \in Units \ {Cur} : fs'[v] = G[v]
    BY <1>0, <2>1, <2>3, PutIs DEF G
  <2> QED BY <1>0, <1>1, <2>3, <2>4
<1>2. CASE Cur = "plugins" \/ (Cur = "logs" /\ Content(fs[Cur][picked]) = {})
  <2>1. fs' = Put(Put(fs, Cur, picked, {}), Cur, "stage", {})
    BY <1>2 DEF Drop
  <2>2. picked \in Sources /\ picked \in Places
    BY <1>0, <1>2, Running
  <2> DEFINE G == Put(fs, Cur, picked, {})
  <2>3. /\ G \in FileSystems /\ G[Cur][picked] = {}
        /\ \A v \in Units, q \in Places : v # Cur \/ q # picked => G[v][q] = fs[v][q]
        /\ \A v \in Units \ {Cur} : G[v] = fs[v]
    BY <1>0, <2>2, PutIs
  <2> HIDE DEF G
  <2>4. /\ fs'[Cur].stage = {}
        /\ \A v \in Units, q \in Places : v # Cur \/ q # "stage" => fs'[v][q] = G[v][q]
        /\ \A v \in Units \ {Cur} : fs'[v] = G[v]
    BY <1>0, <2>1, <2>3, PutIs DEF G
  <2>5. fs'[Cur].dest = fs[Cur].dest
    <3>1. fs'[Cur].dest = G[Cur].dest
      BY <1>0, <2>4
    <3>2. G[Cur].dest = fs[Cur].dest
      BY <1>0, <2>2, <2>3
    <3> QED BY <3>1, <3>2
  <2>6. ASSUME NEW p \in Sources PROVE fs'[Cur][p] = IF p = picked THEN {} ELSE fs[Cur][p]
    <3>1. p \in Places /\ p # "stage"
      BY <1>0
    <3>2. fs'[Cur][p] = G[Cur][p]
      BY <1>0, <2>4, <3>1
    <3>3. p # picked => G[Cur][p] = fs[Cur][p]
      BY <1>0, <2>3, <3>1
    <3> QED BY <2>3, <3>2, <3>3
  <2> QED BY <1>0, <2>3, <2>4, <2>5, <2>6
<1>3. CASE Cur \notin {"database", "plugins"} /\ ~(Cur = "logs" /\ Content(fs[Cur][picked]) = {})
  <2>1. fs' = Put(fs, Cur, "stage", {})
    BY <1>3 DEF Drop
  <2>2. /\ fs'[Cur].stage = {}
        /\ \A v \in Units, q \in Places : v # Cur \/ q # "stage" => fs'[v][q] = fs[v][q]
        /\ \A v \in Units \ {Cur} : fs'[v] = fs[v]
    BY <1>0, <2>1, PutIs
  <2>3. fs'[Cur].dest = fs[Cur].dest /\ \A p \in Sources : fs'[Cur][p] = fs[Cur][p]
    BY <1>0, <2>2
  <2> QED BY <1>3, <2>2, <2>3
<1> QED BY <1>1, <1>2, <1>3

\* Presence, as the two properties name it.
LEMMA TargetIsPresent ==
    ASSUME NEW u \in Units, TargetPresent(u)
    PROVE  Present(u)
BY DEF TargetPresent, Present, NamesOf

\* The steps after the end of one: it is the last of the completed ones.
LEMMA AdvanceSettles ==
    ASSUME KeptInv, Calm, pc \in {"select", "drop"}, NEW action, action # "none", Advance(Cur, action),
           \A v \in Units \ {Cur} : fs'[v] = fs[v],
           Cur = "gpx" => (fs["gpx"].dest # {} => fs'["gpx"].dest # {}),
           UNCHANGED <<outcome, control>>,
           mode # "dry" => \A u \in Units : u = Cur => Settled(u)'
    PROVE  StepsSettled'
<1>0. HomeTypes /\ Behind /\ StepsSettled /\ pc \in Working /\ pc \in {"select"} \cup Operations
  BY DEF KeptInv, Calm, Working, Operations
<1>1. /\ step \in 1..7 /\ Cur = Order[step] /\ step' = step + 1 /\ pc' \in {"select", "service"}
      /\ UNCHANGED <<roots, mode>> /\ "plugins" \in Units /\ "gpx" \in Units
  BY <1>0, UnitsAre, AdvanceBehind DEF HomeTypes, Cur, control
<1>2. ASSUME mode # "dry", NEW i \in 1..7, i < step' PROVE Settled(Order[i])'
  <2>1. CASE i = step
    BY <1>1, <1>2, <2>1, OrderInjective
  <2>2. CASE i # step
    <3>1. i < step /\ Order[i] # Cur /\ Order[i] \in Units
      BY <1>1, <1>2, <2>2, OrderInjective
    <3>2. Settled(Order[i]) /\ fs'[Order[i]] = fs[Order[i]]
      BY <1>0, <1>2, <3>1 DEF StepsSettled
    <3>3. Order[i] = "plugins" => (fs["gpx"].dest # {} => fs'["gpx"].dest # {})
      BY <1>1, <3>1
    <3> QED BY <1>1, <3>1, <3>2, <3>3, SettledStays
  <2> QED BY <2>1, <2>2
<1> QED BY <1>1, <1>2 DEF StepsSettled, Succeeded

\* The end of a step keeps the undisturbed run on its way.
LEMMA DropCalm ==
    ASSUME KeptInv, Calm, Drop
    PROVE  Calm'
<1>0. /\ HomeTypes /\ Apart /\ Undisturbed /\ SourcesWhole /\ MainFound /\ StagesEmpty /\ OnTheWay
      /\ StepsSettled
  BY DEF KeptInv, Calm
<1>1. /\ pc = "drop" /\ pc \in Operations /\ Cur \in Units /\ Advance(Cur, "move") /\ fs \in FileSystems
      /\ pc' \in {"select", "service"} /\ pc' \notin Operations /\ pc' \notin InStage
      /\ Cur # "gpx" => picked \in Sources
      /\ UNCHANGED <<outcome, control>> /\ UNCHANGED <<roots, lock, mode>>
  BY <1>0, Running DEF Drop, Operations, Advance, InStage, control
<1>2. /\ \A v \in Units \ {Cur} : fs'[v] = fs[v]
      /\ fs'[Cur].stage = {}
      /\ \A p \in Sources :
           \/ fs'[Cur][p] = fs[Cur][p] /\ ~(p = picked /\ Cur = "plugins")
                                       /\ ~(p = picked /\ Cur = "logs" /\ Content(fs[Cur][p]) = {})
           \/ fs'[Cur][p] = {}
           \/ Cur = "database" /\ fs'[Cur][p] \subseteq fs[Cur][p]
      /\ \A x \in fs[Cur].dest : (Cur = "database" => x.name \in DbNames) => x \in fs'[Cur].dest
  BY <1>0, DropLeaves
<1>3. Undisturbed'
  BY <1>0, <1>1 DEF Undisturbed
<1>5. Cur # "gpx" => HasData(Cur, fs'[Cur].dest)
  <2>1. Cur # "gpx" => HasData(Cur, fs[Cur].dest)
    BY <1>0, <1>1 DEF OnTheWay
  <2>2. Cur = "database" => "main" \in DbNames
    BY <1>0, <1>1 DEF OnTheWay, HasData, DbNames
  <2> QED BY <1>2, <2>1, <2>2 DEF HasData, NamesOf, Content
<1>4. SourcesWhole'
  <2>1. ASSUME NEW u \in {"credentials", "config", "database"}, NEW p \in Sources
        PROVE  Dir \notin fs'[u][p]
    <3>1. u \in Units
      BY UnitsAre
    <3>2. fs'[u][p] \subseteq fs[u][p]
      BY <1>2, <3>1
    <3> QED BY <1>0, <3>2 DEF SourcesWhole
  <2>2. ASSUME NEW u \in Units \ {"gpx"}, NEW p \in Sources, fs'[u][p] # {}
        PROVE  Usable(u, p)'
    <3>1. \/ fs[u][p] # {} => Usable(u, p)
          \/ u = Cur /\ p = picked /\ u \in {"logs", "plugins"}
      BY <1>0 DEF SourcesWhole
    <3>2. CASE u # Cur
      <4>1. fs'[u] = fs[u] /\ Usable(u, p)
        BY <1>2, <2>2, <3>1, <3>2
      <4> QED BY <4>1 DEF Usable
    <3>3. CASE u = Cur /\ Cur = "database"
      <4>1. Dir \notin fs'[u][p]
        BY <2>1, <3>3
      <4>2. Taken(u, fs'[u][p]) = Content(fs'[u][p])
        BY <3>3, TakenIs
      <4> QED BY <2>2, <4>1, <4>2 DEF Content, Usable
    <3>4. CASE u = Cur /\ Cur # "database"
      <4>1. /\ fs'[u][p] = fs[u][p] /\ ~(p = picked /\ Cur = "plugins")
            /\ ~(p = picked /\ Cur = "logs" /\ Content(fs[Cur][p]) = {})
        BY <1>2, <2>2, <3>4
      <4>2. u = "logs" => Content(fs'["logs"].dest) # {}
        BY <1>5, <3>4 DEF HasData
      <4>3. CASE Usable(u, p)
        BY <4>1, <4>2, <4>3 DEF Usable
      <4>4. CASE ~Usable(u, p)
        <5>1. u = "logs" /\ Content(fs'[u][p]) # {}
          BY <2>2, <3>1, <3>4, <4>1, <4>4
        <5> QED BY <4>2, <5>1 DEF Usable
      <4> QED BY <4>3, <4>4
    <3> QED BY <3>2, <3>3, <3>4
  <2> QED BY <2>1, <2>2 DEF SourcesWhole
<1>6. MainFound'
  <2>1. CASE Cur = "database"
    BY <1>5, <2>1 DEF MainFound, HasData
  <2>2. CASE Cur # "database"
    <3>1. fs'["database"] = fs["database"]
      BY <1>2, <2>2, UnitsAre
    <3> QED BY <1>0, <3>1 DEF MainFound
  <2> QED BY <2>1, <2>2
<1>7. StagesEmpty'
  BY <1>0, <1>2 DEF StagesEmpty
<1>8. OnTheWay'
  BY <1>1 DEF OnTheWay
<1>9. StepsSettled'
  <2>1. ASSUME NEW u \in Units, u = Cur PROVE Settled(u)'
    <3>1. CASE u = "gpx"
      BY <3>1 DEF Settled, LegacyLeft
    <3>2. CASE u # "gpx"
      <4>1. HasData(u, fs'[u].dest)
        BY <1>5, <2>1, <3>2
      <4>2. TargetPresent(u)'
        BY <4>1 DEF HasData, TargetPresent, Present
      <4> QED BY <4>2 DEF Settled
    <3> QED BY <3>1, <3>2
  <2>2. Cur = "gpx" => (fs["gpx"].dest # {} => fs'["gpx"].dest # {})
    BY <1>2
  <2> QED BY <1>1, <1>2, <2>1, <2>2, AdvanceSettles
<1> QED BY <1>3, <1>4, <1>6, <1>7, <1>8, <1>9 DEF Calm

\* The steps that the first run has delivered after the end of one.
LEMMA AdvanceDelivers ==
    ASSUME KeptInv, FirstRun, Whole, pc \in {"select", "drop"}, NEW action, action # "none", Advance(Cur, action),
           \A v \in Units \ {Cur} : fs'[v] = fs[v],
           Cur = "gpx" => (fs["gpx"].dest # {} => fs'["gpx"].dest # {}),
           UNCHANGED <<outcome, control>>,
           mode # "dry" /\ runs = 1 => \A u \in Units : u = Cur => Delivered(u)'
    PROVE  Whole'
<1>0. /\ HomeTypes /\ Behind /\ Fresh /\ Listed /\ WaitsOriginal /\ StepsDelivered
      /\ pc \in Working /\ pc \in {"select"} \cup Operations /\ pc # "idle"
  BY DEF KeptInv, FirstRun, Whole, Working, Operations
<1>1. /\ step \in 1..7 /\ Cur = Order[step] /\ step' = step + 1 /\ pc' \in {"select", "service"}
      /\ UNCHANGED <<roots, mode, orig, runs>> /\ pc' \notin Operations
      /\ \A v \in Units : results'[v] = IF v = Cur THEN action ELSE results[v]
  BY <1>0, AdvanceBehind DEF HomeTypes, Cur, control, Operations
<1>2. Listed' /\ StartsOriginal' /\ WholeOnTheWay'
  BY <1>0, <1>1 DEF Listed, StartsOriginal, Fresh, WholeOnTheWay
<1>3. WaitsOriginal'
  <2> SUFFICES ASSUME runs = 1, NEW i \in 1..7, Waits(i)' PROVE Original(Order[i])'
    BY <1>1 DEF WaitsOriginal
  <2>1. i > step
    BY <1>1 DEF Waits
  <2>2. Waits(i) /\ Order[i] # Cur /\ Order[i] \in Units
    BY <1>1, <2>1, OrderInjective DEF Waits
  <2>3. Original(Order[i]) /\ fs'[Order[i]] = fs[Order[i]]
    BY <1>0, <2>2 DEF WaitsOriginal
  <2> QED BY <1>1, <2>3 DEF Original, Held
<1>4. ASSUME mode # "dry", runs = 1, NEW i \in 1..7, i < step' PROVE Delivered(Order[i])'
  <2>1. CASE i = step
    BY <1>1, <1>4, <2>1, OrderInjective
  <2>2. CASE i # step
    <3>1. i < step /\ Order[i] # Cur /\ Order[i] \in Units
      BY <1>1, <1>4, <2>2, OrderInjective
    <3>2. Delivered(Order[i]) /\ fs'[Order[i]] = fs[Order[i]] /\ results'[Order[i]] = results[Order[i]]
      BY <1>0, <1>1, <1>4, <3>1 DEF StepsDelivered
    <3>3. Order[i] = "plugins" => (fs["gpx"].dest # {} => fs'["gpx"].dest # {})
      BY <3>1, UnitsAre
    <3> QED BY <1>1, <3>1, <3>2, <3>3, DeliveredStays
  <2> QED BY <2>1, <2>2
<1>5. StepsDelivered'
  BY <1>1, <1>4 DEF StepsDelivered, Succeeded
<1> QED BY <1>2, <1>3, <1>5 DEF Whole

\* The end of a step delivers what was picked.
LEMMA DropWhole ==
    ASSUME KeptInv, FirstRun, Calm, Whole, Drop
    PROVE  Whole'
<1>0. HomeTypes /\ Apart /\ Behind /\ WholeOnTheWay
  BY DEF KeptInv, Whole
<1>1. /\ pc = "drop" /\ pc \in Operations /\ Cur \in Units /\ Advance(Cur, "move")
      /\ UNCHANGED <<outcome, control>> /\ orig' = orig
  BY <1>0, Running DEF Drop, Operations, control
<1>2. /\ \A v \in Units \ {Cur} : fs'[v] = fs[v]
      /\ \A x \in fs[Cur].dest : (Cur = "database" => x.name \in DbNames) => x \in fs'[Cur].dest
  BY <1>0, DropLeaves
<1>3. ASSUME runs = 1, NEW u \in Units, u = Cur PROVE Delivered(u)'
  <2>1. /\ picked \in Sources /\ Held(u, picked) # {} /\ Held(u, picked) \subseteq fs[u].dest
        /\ u = "database" => Held(u, picked) \subseteq fs[u][picked]
    BY <1>0, <1>1, <1>3 DEF WholeOnTheWay
  <2>2. \A x \in Held(u, picked) : x # Dir
    BY <2>1 DEF Held, Dir, Sources
  <2>3. u = "database" => \A x \in Held(u, picked) : x.name \in DbNames
    BY <2>1, <2>2 DEF DbNames, NamesOf, Content
  <2>4. Held(u, picked) \subseteq fs'[u].dest
    BY <1>2, <1>3, <2>1, <2>3
  <2>5. Present(u)'
    <3>1. Content(fs'[u].dest) # {}
      BY <2>1, <2>2, <2>4 DEF Content
    <3> QED BY <3>1 DEF Present
  <2>6. \E p \in Sources : Held(u, p)' # {} /\ Held(u, p)' \subseteq fs'[u].dest
    BY <1>1, <2>1, <2>4 DEF Held
  <2> QED BY <2>5, <2>6 DEF Delivered
<1>4. Cur = "gpx" => (fs["gpx"].dest # {} => fs'["gpx"].dest # {})
  BY <1>2
<1> QED BY <1>1, <1>2, <1>3, <1>4, AdvanceDelivers

\* The search finds what there is: an empty result means that the legacy roots and, where
\* they are looked at, the old locations have nothing.
LEMMA FoundIs ==
    ASSUME HomeTypes, Behind, pc = "select", NEW p \in Find(Cur)
    PROVE  /\ p # Nowhere =>
                p \in Sources /\ IF Cur = "database" THEN "main" \in NamesOf(fs["database"][p]) ELSE fs[Cur][p] # {}
           /\ p = Nowhere =>
                /\ Cur \notin {"database", "gpx"} => \A i \in 1..Len(roots) : fs[Cur][roots[i]] = {}
                /\ Cur \in {"credentials", "store"} => fs[Cur]["home"] = {}
                /\ Cur = "database" => \A i \in 1..Len(roots) : "main" \notin NamesOf(fs["database"][roots[i]])
                /\ Cur = "gpx" => fs["gpx"]["r1"] = {}
<1>0. Cur \in Units /\ LegacyOnly \in SUBSET Sources /\ Sources \in SUBSET Sources
  BY OrderInjective DEF HomeTypes, Cur, LegacyOnly
<1>1. /\ scan \in Seq(Sources) /\ Len(scan) \in Nat /\ \A i \in 1..Len(scan) : scan[i] \in Sources
      /\ roots \in Seq({"r1", "r2"}) /\ Len(roots) \in Nat
      /\ \A i \in 1..Len(roots) : roots[i] \in {"r1", "r2"} /\ roots[i] \in LegacyOnly
      /\ Nowhere \notin Sources
  BY DEF HomeTypes, Sources, LegacyOnly, Nowhere
<1>2. \A i \in 1..Len(roots) : scan = roots
  BY DEF Behind, Working
<1>3. \A i \in 1..Len(roots) : i \in 1..Len(scan) /\ scan[i] = roots[i]
  BY <1>2
<1>4. /\ WithHome \in Seq(Sources) /\ Len(WithHome) \in Nat
      /\ \A i \in 1..Len(roots) : \E j \in 1..Len(WithHome) : WithHome[j] = roots[i]
      /\ \E j \in 1..Len(WithHome) : WithHome[j] = "home"
  <2>1. CASE \E i \in 1..Len(scan) : scan[i] = "home"
    BY <1>1, <1>3, <2>1 DEF WithHome
  <2>2. CASE ~\E i \in 1..Len(scan) : scan[i] = "home"
    <3>1. WithHome = Append(scan, "home")
      BY <2>2 DEF WithHome
    <3>2. /\ Append(scan, "home") \in Seq(Sources) /\ Len(Append(scan, "home")) = Len(scan) + 1
          /\ Append(scan, "home")[Len(scan) + 1] = "home"
          /\ \A i \in 1..Len(scan) : Append(scan, "home")[i] = scan[i]
      BY <1>1 DEF Sources
    <3>3. Len(scan) + 1 \in 1..Len(Append(scan, "home")) /\ \A i \in 1..Len(scan) : i \in 1..Len(Append(scan, "home"))
      BY <1>1, <3>2
    <3> QED BY <1>1, <1>3, <3>1, <3>2, <3>3
  <2> QED BY <2>1, <2>2
<1>5. /\ Append(WithHome, "user") \in Seq(Sources) /\ Len(Append(WithHome, "user")) = Len(WithHome) + 1
      /\ \A i \in 1..Len(WithHome) : i \in 1..Len(Append(WithHome, "user")) /\ Append(WithHome, "user")[i] = WithHome[i]
  BY <1>4 DEF Sources
<1>6. ASSUME \A j \in 1..Len(WithHome) : WithHome[j] \in Sources => fs[Cur][WithHome[j]] = {}
       PROVE  (\A i \in 1..Len(roots) : fs[Cur][roots[i]] = {}) /\ fs[Cur]["home"] = {}
  <2>1. "home" \in Sources /\ \A i \in 1..Len(roots) : roots[i] \in Sources
    BY <1>1 DEF LegacyOnly, Sources
  <2>2. ASSUME NEW i \in 1..Len(roots) PROVE fs[Cur][roots[i]] = {}
    <3>1. PICK j \in 1..Len(WithHome) : WithHome[j] = roots[i]
      BY <1>4
    <3>2. WithHome[j] \in Sources
      BY <2>1, <3>1
    <3>3. fs[Cur][WithHome[j]] = {}
      BY <1>6, <3>2
    <3> QED BY <3>1, <3>3
  <2>3. fs[Cur]["home"] = {}
    <3>1. PICK j \in 1..Len(WithHome) : WithHome[j] = "home"
      BY <1>4
    <3>2. WithHome[j] \in Sources
      BY <2>1, <3>1
    <3>3. fs[Cur][WithHome[j]] = {}
      BY <1>6, <3>2
    <3> QED BY <3>1, <3>3
  <2> QED BY <2>2, <2>3
<1>7. CASE Cur = "database"
  <2>1. p \in FindDatabase
    BY <1>7 DEF Find
  <2> DEFINE groups == {scan[i] : i \in {j \in 1..Len(scan) : "main" \in NamesOf(fs["database"][scan[j]])}}
  <2>2. CASE groups = {}
    <3>1. p = Nowhere
      BY <2>1, <2>2 DEF FindDatabase
    <3>2. \A j \in 1..Len(scan) : "main" \notin NamesOf(fs["database"][scan[j]])
      BY <2>2
    <3> QED BY <1>3, <1>7, <3>1, <3>2
  <2>3. CASE groups # {}
    <3>1. p \in groups
      BY <2>1, <2>3 DEF FindDatabase
    <3> QED BY <1>1, <1>7, <3>1
  <2> QED BY <2>2, <2>3
<1>8. CASE Cur \in {"config", "logs", "plugins"}
  <2>1. p = FirstOf(Cur, scan, LegacyOnly)
    BY <1>8 DEF Find, FindConfig, FindLogs, FindPlugins
  <2>4. scan \in Seq(Sources)
    BY <1>1
  <2>2. /\ p = Nowhere => \A i \in 1..Len(scan) : scan[i] \in LegacyOnly => fs[Cur][scan[i]] = {}
        /\ p # Nowhere => \E i \in 1..Len(scan) : p = scan[i] /\ scan[i] \in LegacyOnly /\ fs[Cur][scan[i]] # {}
    BY <1>0, <2>1, <2>4, FirstOfIs
  <2>3. p = Nowhere => \A i \in 1..Len(roots) : fs[Cur][roots[i]] = {}
    BY <1>1, <1>3, <2>2
  <2> QED BY <1>1, <1>8, <2>2, <2>3
<1>9. CASE Cur = "store"
  <2> DEFINE places == WithHome
  <2>1. p = FirstOf(Cur, places, Sources)
    BY <1>9 DEF Find, FindStore
  <2>2. places \in Seq(Sources)
    BY <1>4
  <2> HIDE DEF places
  <2>3. /\ p = Nowhere => \A i \in 1..Len(places) : places[i] \in Sources => fs[Cur][places[i]] = {}
        /\ p # Nowhere => \E i \in 1..Len(places) : p = places[i] /\ places[i] \in Sources /\ fs[Cur][places[i]] # {}
    BY <1>0, <2>1, <2>2, FirstOfIs
  <2>4. p = Nowhere => (\A i \in 1..Len(roots) : fs[Cur][roots[i]] = {}) /\ fs[Cur]["home"] = {}
    BY <1>6, <2>3 DEF places
  <2> QED BY <1>9, <2>3, <2>4
<1>10. CASE Cur = "credentials"
  <2> DEFINE places == Append(WithHome, "user")
  <2>1. p = FirstOf(Cur, places, Sources)
    BY <1>10 DEF Find, FindCredentials
  <2>2. places \in Seq(Sources)
    BY <1>5
  <2>3. \A i \in 1..Len(WithHome) : i \in 1..Len(places) /\ places[i] = WithHome[i]
    BY <1>5
  <2> HIDE DEF places
  <2>4. /\ p = Nowhere => \A i \in 1..Len(places) : places[i] \in Sources => fs[Cur][places[i]] = {}
        /\ p # Nowhere => \E i \in 1..Len(places) : p = places[i] /\ places[i] \in Sources /\ fs[Cur][places[i]] # {}
    BY <1>0, <2>1, <2>2, FirstOfIs
  <2>5. p = Nowhere => \A i \in 1..Len(WithHome) : WithHome[i] \in Sources => fs[Cur][WithHome[i]] = {}
    BY <2>3, <2>4
  <2>6. p = Nowhere => (\A i \in 1..Len(roots) : fs[Cur][roots[i]] = {}) /\ fs[Cur]["home"] = {}
    BY <1>6, <2>5
  <2> QED BY <1>10, <2>4, <2>6
<1>11. CASE Cur = "gpx"
  <2>1. p = FirstOf(Cur, <<"r1">>, Sources)
    BY <1>11 DEF Find, FindGpx
  <2>2. <<"r1">> \in Seq(Sources) /\ 1 \in 1..Len(<<"r1">>) /\ <<"r1">>[1] = "r1" /\ "r1" \in Sources
    BY DEF Sources
  <2> DEFINE places == <<"r1">>
  <2> HIDE DEF places
  <2>3. /\ p = Nowhere => \A i \in 1..Len(places) : places[i] \in Sources => fs[Cur][places[i]] = {}
        /\ p # Nowhere => \E i \in 1..Len(places) : p = places[i] /\ places[i] \in Sources /\ fs[Cur][places[i]] # {}
    BY <1>0, <2>1, <2>2, FirstOfIs DEF places
  <2>4. p = Nowhere => fs[Cur]["r1"] = {}
    BY <2>2, <2>3 DEF places
  <2> QED BY <1>11, <2>3, <2>4
<1> QED BY <1>0, <1>7, <1>8, <1>9, <1>10, <1>11, UnitsAre

\* A step that moves nothing, and is not a dry run, finds nothing or finds its target
\* present.
LEMMA PassedOver ==
    ASSUME NEW p, Action(Cur, p) # "move", mode # "dry"
    PROVE  TargetPresent(Cur) \/ p = Nowhere
BY DEF Action, AtTarget

\* A step that is passed over is settled.
LEMMA PassedSettles ==
    ASSUME KeptInv, Calm, pc = "select", NEW p \in Find(Cur), Action(Cur, p) # "move", mode # "dry"
    PROVE  /\ Settled(Cur)
           /\ Cur # "gpx" /\ (\E i \in 1..Len(roots) : Content(fs[Cur][roots[i]]) # {}) => TargetPresent(Cur)
<1>0. HomeTypes /\ Behind /\ MainFound
  BY DEF KeptInv, Calm
<1>1. TargetPresent(Cur) \/ p = Nowhere
  BY PassedOver
<1>2. ASSUME p = Nowhere, ~TargetPresent(Cur)
      PROVE  ~LegacyLeft(Cur)
  <2>1. /\ Cur \notin {"database", "gpx"} => \A i \in 1..Len(roots) : fs[Cur][roots[i]] = {}
        /\ Cur \in {"credentials", "store"} => fs[Cur]["home"] = {}
        /\ Cur = "database" => \A i \in 1..Len(roots) : "main" \notin NamesOf(fs["database"][roots[i]])
    BY <1>0, <1>2, FoundIs
  <2>2. Content({}) = {}
    BY DEF Content
  <2>3. Cur # "gpx" => \A i \in 1..Len(roots) : ~HasData(Cur, fs[Cur][roots[i]])
    BY <2>1, <2>2 DEF HasData
  <2> QED BY <2>1, <2>3 DEF LegacyLeft
<1>3. ASSUME Cur # "gpx", ~TargetPresent(Cur), NEW i \in 1..Len(roots), Content(fs[Cur][roots[i]]) # {}
      PROVE  LegacyLeft(Cur)
  <2>1. roots[i] \in Sources /\ fs[Cur][roots[i]] # {}
    BY <1>0, <1>3 DEF HomeTypes, Sources, Content
  <2>2. HasData(Cur, fs[Cur][roots[i]])
    BY <1>0, <1>3, <2>1 DEF MainFound, TargetPresent, HasData
  <2> QED BY <1>3, <2>2 DEF LegacyLeft
<1> QED BY <1>1, <1>2, <1>3 DEF Settled

\* The search of a step keeps the undisturbed run on its way.
LEMMA SelectCalm ==
    ASSUME KeptInv, Calm, Select
    PROVE  Calm'
<1>0. /\ HomeTypes /\ Behind /\ Undisturbed /\ SourcesWhole /\ MainFound /\ StagesEmpty /\ OnTheWay
      /\ StepsSettled
  BY DEF KeptInv, Calm
<1>1. /\ pc = "select" /\ pc \in Working /\ UNCHANGED <<fs, outcome, faults, lock, mode, roots>>
      /\ UNCHANGED <<outcome, control>> /\ Cur \in Units
  BY <1>0, OrderInjective DEF Select, Working, control, HomeTypes, Cur
<1>2. PICK p \in Find(Cur) :
          IF Action(Cur, p) = "move"
          THEN pc' = "backup" /\ picked' = p /\ UNCHANGED <<step, results>>
          ELSE Advance(Cur, Action(Cur, p))
  BY DEF Select
<1>3. pc' \in {"backup", "select", "service"} /\ MainFound' /\ Undisturbed'
  BY <1>0, <1>1, <1>2 DEF Advance, MainFound, Undisturbed
<1>4. SourcesWhole' /\ StagesEmpty'
  BY <1>0, <1>1, <1>3 DEF SourcesWhole, Usable, StagesEmpty, InStage
<1>5. CASE Action(Cur, p) = "move"
  <2>1. pc' = "backup" /\ picked' = p /\ step' = step /\ Cur' = Cur /\ pc' \in Working /\ pc' \in Unmoved
        /\ pc' \notin InStage /\ pc' # "drop"
    BY <1>2, <1>5 DEF Cur, Working, Operations, Unmoved, InStage
  <2>2. p # Nowhere
    BY <1>5 DEF Action
  <2>3. p \in Sources /\ IF Cur = "database" THEN "main" \in NamesOf(fs["database"][p]) ELSE fs[Cur][p] # {}
    BY <1>0, <1>1, <2>2, FoundIs
  <2>4. Cur \notin {"gpx", "database"} => HasData(Cur, Taken(Cur, fs[Cur][p])) \/ LogsThere
    <3>1. Cur \notin {"gpx", "database"} => Usable(Cur, p)
      BY <1>0, <1>1, <2>3 DEF SourcesWhole
    <3> QED BY <3>1, TakenIs DEF Usable, HasData, LogsThere
  <2>11. Cur = "database" => HasData(Cur, fs[Cur][p]) /\ HasData(Cur, Taken(Cur, fs[Cur][p]))
    <3>1. Cur = "database" => Taken(Cur, fs[Cur][p]) = Content(fs[Cur][p])
      BY TakenIs
    <3> QED BY <2>3, <3>1 DEF HasData, NamesOf, Content
  <2>12. LogsThere => LogsThere'
    BY <1>1, <2>1 DEF LogsThere
  <2>5. OnTheWay'
    BY <1>1, <2>1, <2>4, <2>11, <2>12 DEF OnTheWay
  <2>6. ASSUME mode # "dry", NEW i \in 1..7, i < step PROVE Settled(Order[i])'
    <3>1. Settled(Order[i])
      BY <1>0, <1>1, <2>6 DEF StepsSettled
    <3> QED BY <1>1, <3>1, OrderInjective, SettledStays
  <2>7. StepsSettled'
    BY <1>1, <2>1, <2>6 DEF StepsSettled, Succeeded
  <2> QED BY <1>3, <1>4, <2>5, <2>7 DEF Calm
<1>6. CASE Action(Cur, p) # "move"
  <2>1. Action(Cur, p) # "none" /\ Advance(Cur, Action(Cur, p))
    BY <1>2, <1>6 DEF Action
  <2>2. pc' \in {"select", "service"} /\ pc' \notin Operations
    BY <2>1 DEF Advance, Operations
  <2>3. OnTheWay'
    BY <2>2 DEF OnTheWay
  <2>4. ASSUME mode # "dry", NEW u \in Units, u = Cur PROVE Settled(u)'
    <3>1. Settled(u)
      BY <1>1, <1>6, <2>4, PassedSettles
    <3> QED BY <1>1, <3>1, SettledStays
  <2>5. StepsSettled'
    BY <1>1, <2>1, <2>4, AdvanceSettles
  <2> QED BY <1>3, <1>4, <2>3, <2>5 DEF Calm
<1> QED BY <1>5, <1>6

\* The search of the first run finds what was there.
LEMMA SelectWhole ==
    ASSUME KeptInv, FirstRun, Calm, Whole, Select
    PROVE  Whole'
<1>0. HomeTypes /\ Behind /\ Fresh /\ Listed /\ StartsOriginal /\ WaitsOriginal /\ StepsDelivered
  BY DEF KeptInv, FirstRun, Whole
<1>1. /\ pc = "select" /\ pc \in Working /\ UNCHANGED <<fs, outcome, mode, roots, runs, orig>>
      /\ UNCHANGED <<outcome, control>> /\ Cur \in Units /\ step \in 1..7 /\ Cur = Order[step]
  BY <1>0, OrderInjective DEF Select, Working, control, HomeTypes, Cur
<1>2. PICK p \in Find(Cur) :
          IF Action(Cur, p) = "move"
          THEN pc' = "backup" /\ picked' = p /\ UNCHANGED <<step, results>>
          ELSE Advance(Cur, Action(Cur, p))
  BY DEF Select
<1>3. runs = 1 => Original(Cur)
  BY <1>0, <1>1 DEF WaitsOriginal, Waits
<1>4. CASE Action(Cur, p) = "move"
  <2>1. /\ pc' = "backup" /\ picked' = p /\ UNCHANGED <<step, results>> /\ Cur' = Cur /\ pc' \in Working
        /\ pc' \in Unmoved /\ pc' \notin InStage /\ pc' # "drop"
    BY <1>2, <1>4 DEF Cur, Working, Operations, Unmoved, InStage
  <2>2. p # Nowhere
    BY <1>4 DEF Action
  <2>3. p \in Sources /\ IF Cur = "database" THEN "main" \in NamesOf(fs["database"][p]) ELSE fs[Cur][p] # {}
    BY <1>0, <1>1, <2>2, FoundIs
  <2>4. fs[Cur][p] # {}
    BY <2>3 DEF NamesOf, Content
  <2>5. runs = 1 => Held(Cur, p) # {} /\ Held(Cur, p) \subseteq fs[Cur][p]
    BY <1>3, <2>3, <2>4 DEF Original, Held, Content
  <2>6. WholeOnTheWay'
    BY <1>1, <2>1, <2>3, <2>5 DEF WholeOnTheWay, Held
  <2>7. WaitsOriginal'
    <3> SUFFICES ASSUME runs = 1, NEW i \in 1..7, Waits(i)' PROVE Original(Order[i])'
      BY <1>1 DEF WaitsOriginal
    <3>1. Waits(i)
      BY <1>1, <2>1 DEF Waits
    <3> QED BY <1>0, <1>1, <3>1 DEF WaitsOriginal, Original, Held
  <2>8. Listed' /\ StartsOriginal'
    BY <1>0, <1>1 DEF Listed, StartsOriginal, Fresh
  <2>9. ASSUME runs = 1, mode # "dry", NEW i \in 1..7, i < step PROVE Delivered(Order[i])'
    <3>1. Delivered(Order[i]) /\ Order[i] \in Units /\ results'[Order[i]] = results[Order[i]]
      BY <1>0, <1>1, <2>1, <2>9, OrderInjective DEF StepsDelivered
    <3> QED BY <1>1, <3>1, DeliveredStays
  <2>10. StepsDelivered'
    BY <1>1, <2>1, <2>9 DEF StepsDelivered, Succeeded
  <2> QED BY <2>6, <2>7, <2>8, <2>10 DEF Whole
<1>5. CASE Action(Cur, p) # "move"
  <2>1. Action(Cur, p) # "none" /\ Advance(Cur, Action(Cur, p))
    BY <1>2, <1>5 DEF Action
  <2>2. ASSUME mode # "dry", runs = 1, NEW u \in Units, u = Cur PROVE Delivered(u)'
    <3>1. results'[u] # "move"
      BY <1>0, <1>1, <1>5, <2>1, <2>2, AdvanceBehind
    <3>2. ASSUME NEW x \in orig[u], x.from \in {"r1", "r2"} PROVE Present(u)
      <4>1. x.from \in Sources /\ Content(fs[u][x.from]) # {}
        BY <1>3, <2>2, <3>2 DEF Original, Sources
      <4>2. CASE u = "gpx"
        <5>1. x.from = "r1"
          BY <1>0, <3>2, <4>2 DEF Listed
        <5>2. p # Nowhere
          BY <1>0, <1>1, <2>2, <4>1, <4>2, <5>1, FoundIs DEF Content
        <5> QED BY <1>5, <2>2, <5>2, PassedOver, TargetIsPresent
      <4>3. CASE u # "gpx"
        <5>1. \E i \in 1..Len(roots) : roots[i] = x.from
          BY <1>0, <3>2, <4>3 DEF Listed
        <5>2. TargetPresent(u)
          BY <1>1, <1>5, <2>2, <4>1, <4>3, <5>1, PassedSettles
        <5> QED BY <5>2, TargetIsPresent
      <4> QED BY <4>2, <4>3
    <3>3. Present(u) => Present(u)'
      BY <1>1 DEF Present
    <3> QED BY <1>1, <3>1, <3>2, <3>3 DEF Delivered
  <2> QED BY <1>1, <2>1, <2>2, AdvanceDelivers
<1> QED BY <1>4, <1>5

\* Between two operations nothing moves.
LEMMA RestingStays ==
    ASSUME Calm, Whole, pc \notin Operations, pc' \notin Operations, UNCHANGED <<fs, roots, orig>>
    PROVE  SourcesWhole' /\ MainFound' /\ StagesEmpty' /\ OnTheWay' /\ Listed' /\ WholeOnTheWay'
<1>0. SourcesWhole /\ MainFound /\ StagesEmpty /\ Listed
  BY DEF Calm, Whole
<1>1. pc \notin {"remove", "place", "drop"} /\ pc \notin InStage \cup {"drop"}
  BY DEF Operations, InStage
<1>2. SourcesWhole'
  BY <1>0, <1>1 DEF SourcesWhole, Usable
<1>3. MainFound' /\ StagesEmpty'
  BY <1>0, <1>1 DEF MainFound, StagesEmpty
<1>4. Listed'
  BY <1>0 DEF Listed
<1>5. OnTheWay' /\ WholeOnTheWay'
  BY DEF OnTheWay, WholeOnTheWay
<1> QED BY <1>2, <1>3, <1>4, <1>5

\* A run begins with the sources as the one before has left them.
LEMMA BeginSucceeds ==
    ASSUME KeptInv, Calm, Whole, NEW m \in Modes, Begin(m)
    PROVE  Calm' /\ Whole'
<1>0. HomeTypes /\ Undisturbed /\ StartsOriginal
  BY DEF KeptInv, Calm, Whole
<1>1. /\ pc = "idle" /\ ~lock /\ pc \notin Operations
      /\ pc' = "select" /\ pc' \notin Operations /\ step' = 1 /\ mode' = m /\ runs' = runs + 1
      /\ runs \in Nat /\ lock' = (lock \/ m # "dry") /\ UNCHANGED <<fs, roots, orig>>
  BY <1>0 DEF Begin, Undisturbed, HomeTypes, Operations
<1>2. SourcesWhole' /\ MainFound' /\ StagesEmpty' /\ OnTheWay' /\ Listed' /\ WholeOnTheWay'
  BY <1>1, RestingStays
<1>3. Undisturbed'
  BY <1>1 DEF Undisturbed
<1>4. StepsSettled' /\ StepsDelivered' /\ StartsOriginal'
  BY <1>1 DEF StepsSettled, StepsDelivered, Succeeded, StartsOriginal
<1>5. WaitsOriginal'
  <2> SUFFICES ASSUME runs' = 1, NEW i \in 1..7 PROVE Original(Order[i])'
    BY DEF WaitsOriginal
  <2>1. Original(Order[i])
    BY <1>0, <1>1, OrderInjective DEF StartsOriginal
  <2> QED BY <1>1, <2>1 DEF Original, Held
<1> QED BY <1>2, <1>3, <1>4, <1>5 DEF Calm, Whole

\* Without legacy roots and data there is nothing to migrate.
LEMMA DeclinesSucceeds ==
    ASSUME KeptInv, Calm, Whole, Declines
    PROVE  Calm' /\ Whole'
<1>0. HomeTypes /\ Undisturbed /\ StartsOriginal /\ Listed
  BY DEF KeptInv, Calm, Whole
<1>1. /\ pc = "idle" /\ ~lock /\ pc \notin Operations /\ pc \notin Working
      /\ pc' = pc /\ mode' = "plain" /\ runs' = runs + 1 /\ runs \in Nat
      /\ outcome' = IF roots = <<>> /\ ~is_migration_needed THEN "success" ELSE "refused"
      /\ UNCHANGED <<fs, roots, orig, lock, results>>
  BY <1>0 DEF Declines, Undisturbed, HomeTypes, Operations, Working
<1>2. SourcesWhole' /\ MainFound' /\ StagesEmpty' /\ OnTheWay' /\ Listed' /\ WholeOnTheWay'
  BY <1>1, RestingStays
<1>3. Undisturbed' /\ StartsOriginal' /\ WaitsOriginal'
  BY <1>1 DEF Undisturbed, StartsOriginal, WaitsOriginal
<1>4. ASSUME outcome' = "success", NEW u \in Units PROVE Settled(u)'
  <2>1. roots = <<>> /\ LegacyFound = {} /\ Len(roots) = 0
    BY <1>1, <1>4 DEF is_migration_needed
  <2>2. u \in {"credentials", "store"} => fs[u]["home"] = {}
    BY <2>1 DEF LegacyFound
  <2>3. ~LegacyLeft(u)'
    BY <1>1, <2>1, <2>2 DEF LegacyLeft
  <2> QED BY <2>3 DEF Settled
<1>5. ASSUME outcome' = "success", runs' = 1, NEW u \in Units PROVE Delivered(u)'
  <2>1. results[u] = "none" /\ ~\E x \in orig[u] : x.from \in {"r1", "r2"}
    BY <1>0, <1>1, <1>5 DEF StartsOriginal, Listed
  <2> QED BY <1>1, <2>1 DEF Delivered
<1>6. StepsSettled' /\ StepsDelivered'
  BY <1>1, <1>4, <1>5 DEF StepsSettled, StepsDelivered, Succeeded
<1> QED BY <1>2, <1>3, <1>6 DEF Calm, Whole

\* After the last step all of them are settled.
LEMMA ServiceSucceeds ==
    ASSUME KeptInv, FirstRun, Calm, Whole, Service
    PROVE  Calm' /\ Whole'
<1>0. HomeTypes /\ Fresh /\ Undisturbed /\ StartsOriginal /\ StepsSettled /\ StepsDelivered
  BY DEF KeptInv, FirstRun, Calm, Whole
<1>1. /\ pc = "service" /\ pc' = "release" /\ outcome' = "success" /\ step = 8
      /\ pc \in Working /\ pc \notin Operations /\ pc' \notin Operations /\ pc' \notin Working
      /\ UNCHANGED <<fs, roots, orig, lock, results, mode, runs, step>>
  BY <1>0 DEF Service, HomeTypes, Operations, Working, control
<1>2. SourcesWhole' /\ MainFound' /\ StagesEmpty' /\ OnTheWay' /\ Listed' /\ WholeOnTheWay'
  BY <1>1, RestingStays
<1>3. Undisturbed' /\ StartsOriginal' /\ WaitsOriginal'
  BY <1>0, <1>1 DEF Undisturbed, StartsOriginal, WaitsOriginal, Fresh
<1>4. \A u \in Units : \E i \in 1..7 : u = Order[i] /\ i < step
  BY <1>1, OrderIs, UnitsAre
<1>5. ASSUME mode # "dry", NEW u \in Units PROVE Settled(u)'
  <2>1. Settled(u)
    BY <1>0, <1>1, <1>4, <1>5 DEF StepsSettled
  <2> QED BY <1>1, <2>1, SettledStays
<1>6. ASSUME mode # "dry", runs = 1, NEW u \in Units PROVE Delivered(u)'
  <2>1. Delivered(u)
    BY <1>0, <1>1, <1>4, <1>6 DEF StepsDelivered
  <2> QED BY <1>1, <2>1, DeliveredStays
<1>7. StepsSettled' /\ StepsDelivered'
  BY <1>1, <1>5, <1>6 DEF StepsSettled, StepsDelivered, Succeeded
<1> QED BY <1>2, <1>3, <1>7 DEF Calm, Whole

\* The lock goes and the success stays.
LEMMA ReleaseSucceeds ==
    ASSUME KeptInv, FirstRun, Calm, Whole, Release
    PROVE  Calm' /\ Whole'
<1>0. HomeTypes /\ Fresh /\ Undisturbed /\ StartsOriginal /\ StepsSettled /\ StepsDelivered
  BY DEF KeptInv, FirstRun, Calm, Whole
<1>1. /\ pc = "release" /\ pc' = "idle" /\ ~lock' /\ pc \notin Operations /\ pc' \notin Operations
      /\ pc' \notin Working /\ UNCHANGED <<fs, roots, orig, results, mode, runs, outcome>>
  <2>1. pc = "release" /\ ~lock' /\ UNCHANGED <<fs, roots, orig, results, mode, runs, outcome>>
    BY <1>0 DEF Release, Undisturbed
  <2>2. pc' = "idle"
    BY <2>1 DEF Release
  <2> QED BY <2>1, <2>2 DEF Operations, Working
<1>2. SourcesWhole' /\ MainFound' /\ StagesEmpty' /\ OnTheWay' /\ Listed' /\ WholeOnTheWay'
  BY <1>1, RestingStays
<1>3. Undisturbed' /\ StartsOriginal' /\ WaitsOriginal'
  BY <1>0, <1>1 DEF Undisturbed, StartsOriginal, WaitsOriginal, Fresh
<1>4. Succeeded' => Succeeded
  BY <1>1 DEF Succeeded
<1>5. ASSUME Succeeded, NEW u \in Units PROVE Settled(u)'
  <2>1. Settled(u)
    BY <1>0, <1>5 DEF StepsSettled
  <2> QED BY <1>1, <2>1, SettledStays
<1>6. ASSUME Succeeded, runs = 1, NEW u \in Units PROVE Delivered(u)'
  <2>1. Delivered(u)
    BY <1>0, <1>6 DEF StepsDelivered
  <2> QED BY <1>1, <2>1, DeliveredStays
<1>7. StepsSettled' /\ StepsDelivered'
  BY <1>1, <1>4, <1>5, <1>6 DEF StepsSettled, StepsDelivered
<1> QED BY <1>2, <1>3, <1>7 DEF Calm, Whole

\* Nothing happens.
LEMMA SuccessStutters ==
    ASSUME Calm, Whole, UNCHANGED migrationVars
    PROVE  Calm' /\ Whole'
<1>1. UNCHANGED <<fs, roots, pc, step, mode, lock, picked, results, outcome, runs, orig>>
  BY DEF migrationVars
<1>2. UNCHANGED Cur /\ \A u \in Units : Settled(u)' = Settled(u) /\ Delivered(u)' = Delivered(u)
                                        /\ Original(u)' = Original(u)
  BY <1>1 DEF Cur, Settled, LegacyLeft, TargetPresent, Present, Delivered, Held, Original
<1>3. Undisturbed' /\ SourcesWhole' /\ MainFound' /\ StagesEmpty' /\ OnTheWay'
  BY <1>1, <1>2 DEF Calm, Undisturbed, SourcesWhole, Usable, MainFound, StagesEmpty, OnTheWay, LogsThere
<1>4. StepsSettled'
  BY <1>1, <1>2, OrderInjective DEF Calm, StepsSettled, Succeeded
<1>5. Listed' /\ StartsOriginal' /\ WholeOnTheWay'
  BY <1>1, <1>2 DEF Whole, Listed, StartsOriginal, WholeOnTheWay, Held
<1>6. WaitsOriginal' /\ StepsDelivered'
  BY <1>1, <1>2, OrderInjective DEF Whole, WaitsOriginal, Waits, StepsDelivered, Succeeded
<1> QED BY <1>3, <1>4, <1>5, <1>6 DEF Calm, Whole

\* Every installation that Regular describes starts undisturbed and whole.
LEMMA InitSucceeds ==
    ASSUME Regular, MigrationInit
    PROVE  SuccessInv
<1>0. /\ pc = "idle" /\ pc \notin Operations /\ pc \notin Working /\ mode = "plain" /\ outcome = "none"
      /\ runs = 0 /\ lock = FALSE /\ fs \in Layouts /\ \A u \in Units : results[u] = "none"
  BY DEF MigrationInit, Operations, Working
<1>1. \A u \in Units, p \in Places : \A x \in Content(fs[u][p]) : x.from = p
  BY <1>0, MigrationAssumption
<1>2. /\ \A u \in {"credentials", "config", "database"}, p \in Sources : Dir \notin fs[u][p]
      /\ \A u \in Units, p \in Sources : fs[u][p] # {} => Taken(u, fs[u][p]) # {}
      /\ \A p \in Sources : fs["database"][p] # {} => "main" \in NamesOf(fs["database"][p])
      /\ fs["gpx"]["r2"] = {}
      /\ fs["gpx"]["r1"] # {} => \E u \in Units \ {"gpx"}, p \in {"r1", "r2"} : fs[u][p] # {}
  BY <1>0 DEF Regular
<1>3. \A u \in Units : \A x \in orig[u] : \E p \in Places : x \in Content(fs[u][p]) /\ x.from = p
  BY <1>1 DEF MigrationInit
<1>4. Undisturbed /\ SourcesWhole /\ MainFound /\ OnTheWay
  BY <1>0, <1>2 DEF Undisturbed, SourcesWhole, Usable, MainFound, OnTheWay
<1>5. StagesEmpty
  BY <1>0, MigrationAssumption DEF StagesEmpty
<1>6. StepsSettled /\ WaitsOriginal /\ WholeOnTheWay /\ StepsDelivered
  BY <1>0 DEF StepsSettled, Succeeded, WaitsOriginal, WholeOnTheWay, StepsDelivered
<1>7. Listed
  <2>1. \A u \in Units \ {"gpx"} : \A p \in {"r1", "r2"} :
            fs[u][p] # {} => \E i \in 1..Len(roots) : roots[i] = p
    BY DEF MigrationInit
  <2>2. roots \in Seq({"r1", "r2"}) /\ \A i \in 1..Len(roots) : roots # <<>>
    BY MigrationAssumption DEF MigrationInit
  <2> SUFFICES ASSUME NEW u \in Units, NEW x \in orig[u], x.from \in {"r1", "r2"}
               PROVE  /\ roots # <<>>
                      /\ IF u = "gpx" THEN x.from = "r1" ELSE \E i \in 1..Len(roots) : roots[i] = x.from
    BY DEF Listed
  <2>3. fs[u][x.from] # {}
    BY <1>3 DEF Content
  <2>4. CASE u # "gpx"
    BY <2>1, <2>2, <2>3, <2>4
  <2>5. CASE u = "gpx"
    <3>1. x.from = "r1" /\ fs["gpx"]["r1"] # {}
      BY <1>2, <2>3, <2>5
    <3>2. PICK v \in Units \ {"gpx"}, p \in {"r1", "r2"} : fs[v][p] # {}
      BY <1>2, <3>1
    <3> QED BY <2>1, <2>2, <2>5, <3>1, <3>2
  <2> QED BY <2>4, <2>5
<1>8. StartsOriginal
  <2> SUFFICES ASSUME NEW u \in Units, NEW p \in Sources
               PROVE  Content(fs[u][p]) = {x \in orig[u] : x.from = p} /\ (fs[u][p] # {} => Held(u, p) # {})
    BY <1>0 DEF StartsOriginal, Original
  <2>1. p \in Places /\ orig[u] = UNION {Content(fs[u][q]) : q \in Places}
    BY DEF MigrationInit, Places
  <2>2. Content(fs[u][p]) \subseteq {x \in orig[u] : x.from = p}
    BY <1>1, <2>1
  <2>3. {x \in orig[u] : x.from = p} \subseteq Content(fs[u][p])
    BY <1>3
  <2>4. Taken(u, fs[u][p]) \subseteq Held(u, p)
    BY <2>2 DEF Held, Taken
  <2> QED BY <1>2, <2>2, <2>3, <2>4
<1> QED BY <1>4, <1>5, <1>6, <1>7, <1>8 DEF SuccessInv, Calm, Whole

\* No step of an undisturbed migration makes its success untrue.
LEMMA NextSucceeds ==
    ASSUME KeptInv, FirstRun, SuccessInv, [MigrationNext]_migrationVars
    PROVE  SuccessInv'
<1> SUFFICES ASSUME faults' = 0 PROVE Calm' /\ Whole'
  BY DEF SuccessInv
<1>0. HomeTypes /\ Apart /\ faults \in Nat
  BY DEF KeptInv, HomeTypes
<1>1. CASE Fails \/ Crash \/ RollbackStepFails
  BY <1>0, <1>1 DEF Fails, Crash, RollbackStepFails
<1>2. faults = 0 \/ Fails \/ Crash \/ RollbackStepFails
  BY DEF MigrationNext, Begin, Declines, Select, Backup, Clear, MoveToStage, CopyDatabase, VerifyDatabase,
     StagePlugins, StagePluginsCollide, RemoveOld, Place, Drop, Service, RemoveLock, Handle, RollbackStep,
     RollbackEnds, Release, Finished, migrationVars
<1>3. CASE faults = 0
  <2>0. Calm /\ Whole /\ Undisturbed /\ SourcesWhole /\ StagesEmpty
    BY <1>3 DEF SuccessInv, Calm
  <2>1. ASSUME NEW m \in Modes, Begin(m) PROVE Calm' /\ Whole'
    BY <2>0, <2>1, BeginSucceeds
  <2>2. CASE Declines \/ Service \/ Release \/ UNCHANGED migrationVars
    BY <2>0, <2>2, DeclinesSucceeds, ServiceSucceeds, ReleaseSucceeds, SuccessStutters
  <2>3. CASE Finished
    BY <2>0, <2>3, SuccessStutters DEF Finished
  <2>4. CASE Select \/ Drop
    BY <2>0, <2>4, SelectCalm, SelectWhole, DropCalm, DropWhole
  <2>5. CASE Backup \/ Clear \/ MoveToStage \/ CopyDatabase \/ VerifyDatabase \/ StagePlugins \/ RemoveOld \/ Place
    <3>1. pc \in Operations /\ pc # "drop"
      BY <2>5 DEF Backup, Clear, MoveToStage, CopyDatabase, VerifyDatabase, StagePlugins, RemoveOld, Place, Operations
    <3>2. Backup \/ VerifyDatabase => Carries
      BY <1>0, SameCarries DEF Backup, VerifyDatabase
    <3>3. Carries
      BY <1>0, <2>0, <2>5, <3>2, ClearCarries, MoveToStageCarries, CopyCarries, StagePluginsCarries, RemoveCarries, PlaceCarries
    <3> QED BY <2>0, <3>1, <3>3, CarriesCalm, CarriesWhole
  <2>6. CASE StagePluginsCollide
    <3>1. pc = "stage" /\ Cur = "plugins" /\ Staged # {} /\ "plugins" \in Units
      BY <2>6, UnitsAre DEF StagePluginsCollide
    <3>2. fs["plugins"].stage = {}
      BY <2>0, <3>1 DEF StagesEmpty, InStage
    <3>3. Staged = {}
      BY <3>2 DEF Staged, NamesOf, Content
    <3> QED BY <3>1, <3>3
  <2>7. CASE RemoveLock \/ Handle \/ RollbackStep \/ RollbackEnds
    BY <2>0, <2>7 DEF Undisturbed, RemoveLock, Handle, RollbackStep, RollbackEnds
  <2> QED BY <1>1, <2>1, <2>2, <2>3, <2>4, <2>5, <2>6, <2>7 DEF MigrationNext
<1> QED BY <1>1, <1>2, <1>3

\* What the invariant says of a success.
LEMMA SuccessFollows == SuccessInv => SuccessIsTrue
<1> SUFFICES ASSUME SuccessInv, pc = "idle", outcome = "success", mode # "dry", faults = 0
             PROVE  /\ MigrationNeeded \subseteq {"config"}
                    /\ runs = 1 => \A u \in Units :
                         /\ fs[u].stage = {}
                         /\ (\E x \in orig[u] : x.from \in {"r1", "r2"}) => Present(u)
                         /\ results[u] = "move" =>
                               \E p \in Sources : Held(u, p) # {} /\ Held(u, p) \subseteq fs[u].dest
  BY DEF SuccessIsTrue, SuccessIsComplete, SuccessIsVerified, Held
<1>1. Succeeded /\ StagesEmpty /\ StepsSettled /\ StepsDelivered
  BY DEF SuccessInv, Calm, Whole, Succeeded
<1>2. \A u \in LegacyFound : u \in Units /\ LegacyLeft(u)
  BY UnitsAre DEF LegacyFound, LegacyLeft
<1>3. MigrationNeeded \subseteq {"config"}
  BY <1>1, <1>2 DEF MigrationNeeded, StepsSettled, Settled
<1>4. \A u \in Units : fs[u].stage = {}
  BY <1>1 DEF StagesEmpty, InStage
<1>5. runs = 1 => \A u \in Units : Delivered(u)
  BY <1>1 DEF StepsDelivered
<1> QED BY <1>3, <1>4, <1>5 DEF Delivered

\* perform_migration() and verify_migration(): for every regular installation and every
\* list of legacy roots, a success that no failure or crash preceded is a success: the
\* first run has found every artifact of the legacy roots, has moved what it picked as a
\* whole and has left nothing staged, and after any run only a config.yaml can still be
\* said to need a migration.
THEOREM SuccessIsHonest == ASSUME Regular PROVE MigrationSpec => []SuccessIsTrue
<1>1. MigrationInit => SuccessInv
  BY InitSucceeds
<1>2. MigrationInit => FirstRun
  BY InitUndoable
<1>3. KeptInv /\ FirstRun /\ SuccessInv /\ [MigrationNext]_migrationVars => (KeptInv /\ FirstRun /\ SuccessInv)'
  BY NextKeeps, NextUndoable, NextSucceeds
<1> QED BY <1>1, <1>2, <1>3, InitKept, SuccessFollows, PTL DEF MigrationSpec
=============================================================================
