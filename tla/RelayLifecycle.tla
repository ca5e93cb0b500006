--------------------------- MODULE RelayLifecycle ---------------------------
(***************************************************************************)
(* The life of the process in main.py: main() brings the services up one   *)
(* after the other and takes them down again in reverse when one fails or  *)
(* Ctrl-C cancels it; then it runs the Matrix sync until a signal or the   *)
(* death of the health task, and shuts down step by step.                  *)
(*                                                                         *)
(* The readiness file tells the container that the relay works.  It may    *)
(* appear only once the startup drain is over: the first connect to the    *)
(* mesh node arms a window in which packets are dropped, and a timer, a    *)
(* packet or a reconnect ends it and sets the event main() waits for.      *)
(*                                                                         *)
(* The connect itself is here only as far as the drain goes                *)
(* (MeshConnection has the rest), Matrix as one client and one sync task.  *)
(* A drain is named by the connect that armed it.                          *)
(***************************************************************************)
EXTENDS Naturals, Sequences

CONSTANTS
    Configs,      \* configurations: wipe_on_restart, a health check that must not end by
                  \* itself, a heartbeat interval above zero
    MaxConnects,  \* bound: attempts to connect to the mesh node
    MaxSyncs      \* bound: Matrix sync tasks started

ASSUME LifeAssumption ==
    /\ Configs \subseteq [wipe : BOOLEAN, continuous : BOOLEAN, heartbeat : BOOLEAN]
    /\ MaxConnects \in Nat \ {0} /\ MaxSyncs \in Nat \ {0}

None == 0
Drains == 1..MaxConnects

VARIABLES
    config,     \* what the configuration asks for
    main,       \* where main() is, what it still has to take down, how it ends
    stop,       \* shutdown_event and meshtastic_utils.shutting_down
    asked,      \* history: a signal or Ctrl-C arrived
    fatal,      \* fatal_exception
    svc,        \* plugins, message queue, Matrix client and the background tasks
    syncs,      \* sync tasks started
    file,       \* the readiness file exists
    published,  \* startup_ready_published
    rows,       \* message_map has rows
    storing,    \* a message was sent, in either direction, and its row is not stored yet
    client,     \* meshtastic_client is set
    connects,   \* connect attempts so far
    conn,       \* the thread in connect_meshtastic()
    drain,      \* the startup drain
    timer,      \* the threads of the drain timers, by the drain each is for
    packet      \* a packet handler that is about to signal the end of the drain

life == <<config, main, stop, asked, fatal, svc, syncs>>
ready == <<file, published>>
mesh == <<client, connects, conn>>
drains == <<drain, timer, packet>>
map == <<rows, storing>>
vars == <<life, ready, map, mesh, drains>>

Services == {"plugins", "queue", "matrix", "health", "refresh", "sync", "heartbeat"}

TypeOK ==
    /\ stop \in BOOLEAN /\ asked \in BOOLEAN /\ fatal \in BOOLEAN
    /\ DOMAIN svc = Services /\ syncs \in 0..MaxSyncs
    /\ file \in BOOLEAN /\ published \in BOOLEAN /\ rows \in BOOLEAN /\ storing \in BOOLEAN
    /\ client \in BOOLEAN /\ connects \in 0..MaxConnects
    /\ drain \in [deadline : 0..MaxConnects, window : {"open", "due", "passed"},
                  expiry : 0..MaxConnects, event : BOOLEAN, applied : BOOLEAN]
    /\ timer \in [Drains -> {"none", "waiting", "signal", "again"}]
    /\ packet \in BOOLEAN

Init ==
    /\ config \in Configs
    /\ main = [pc |-> "config", todo |-> <<>>, exc |-> "none", exit |-> 0, kept |-> FALSE,
             late |-> FALSE]
    /\ stop = FALSE /\ asked = FALSE /\ fatal = FALSE
    /\ svc = [s \in Services |-> "off"] /\ syncs = 0
    /\ file = FALSE /\ published = FALSE /\ rows = TRUE /\ storing = FALSE
    /\ client = FALSE /\ connects = 0
    /\ conn = [pc |-> "idle", pending |-> FALSE, armed |-> None, ok |-> FALSE]
    /\ drain = [deadline |-> None, window |-> "open", expiry |-> None, event |-> TRUE,
                applied |-> FALSE]
    /\ timer = [d \in Drains |-> "none"] /\ packet = FALSE

To(pc) == main' = [main EXCEPT !.pc = pc]

-----------------------------------------------------------------------------
(* Taking down *)

\* A mutant: the file goes before the heartbeat that touches it has ended.
ShutdownStepsEarly ==
    <<"unready", "heartbeat", "refresh", "health", "reconnect", "plugins", "plugins_wait", "queue",
      "queue_wait", "matrix", "mesh", "wipe">>

\* The finally block of main(), in its order.
ShutdownSteps ==
    <<"heartbeat", "unready", "refresh", "health", "reconnect", "plugins", "plugins_wait", "queue",
      "queue_wait", "matrix", "mesh", "wipe">>

\* The except block around the startup.  The plugins are marked for cleanup before they
\* load, the queue once it has started.
RollbackSteps ==
    IF svc["queue"] = "on"
    THEN <<"health", "reconnect", "unready", "plugins", "plugins_wait", "queue", "queue_wait",
           "matrix", "mesh">>
    ELSE <<"health", "reconnect", "unready", "plugins", "plugins_wait", "matrix", "mesh">>

\* A startup step raised, or Ctrl-C cancelled main().
RollBack(exc) ==
    /\ main' = [main EXCEPT !.pc = "down", !.todo = RollbackSteps, !.exc = exc]
    /\ stop' = TRUE

\* The loop is left, by the event or by an exception.
ShutDown(exc) ==
    /\ main' = [main EXCEPT !.pc = "down", !.todo = ShutdownSteps, !.exc = exc]
    /\ stop' = TRUE

Head1(step) == main.pc = "down" /\ main.todo # <<>> /\ Head(main.todo) = step
Next1 == main' = [main EXCEPT !.todo = Tail(@)]

\* A background task gets five seconds, is then cancelled and gets one more.  The
\* heartbeat ends by itself in that time: its one blocking call is the touch of a file.
AwaitTask(step, task) ==
    /\ Head1(step) /\ Next1
    /\ step = "heartbeat" => svc[task] \in {"off", "over"}
    /\ svc' = [svc EXCEPT ![task] = "off"]
    /\ UNCHANGED <<config, stop, asked, fatal, syncs, ready, map, mesh, drains>>

\* _remove_ready_file(): an error is only logged, and the file stays.
Removed(m) ==
    \/ file' = FALSE /\ main' = [m EXCEPT !.kept = FALSE]
    \/ file /\ file' = TRUE /\ main' = [m EXCEPT !.kept = TRUE]

RemoveReady ==
    /\ Head1("unready") /\ Removed([main EXCEPT !.todo = Tail(@)])
    /\ UNCHANGED <<config, stop, asked, fatal, svc, syncs, published, map, mesh, drains>>

\* _cleanup_meshtastic_reconnect_state(): a reconnect that still waits is cancelled, a
\* thread inside connect_meshtastic() finds the shutdown flag itself.
StopReconnect ==
    /\ Head1("reconnect") /\ Next1
    /\ conn' = IF conn.pc = "scheduled" THEN [conn EXCEPT !.pc = "idle"] ELSE conn
    /\ UNCHANGED <<config, stop, asked, fatal, svc, syncs, ready, map, client, connects, drains>>

\* _run_blocking_shutdown_step() starts a thread ...
StartStep(step) ==
    /\ Head1(step) /\ Next1
    /\ svc' = [svc EXCEPT ![step] = IF @ = "off" THEN @ ELSE "stopping"]
    /\ UNCHANGED <<config, stop, asked, fatal, syncs, ready, map, mesh, drains>>

\* ... and waits for it, but not longer than its timeout; the thread goes on.
EndStep(wait) ==
    /\ Head1(wait)
    /\ Next1
    /\ UNCHANGED <<config, stop, asked, fatal, svc, syncs, ready, map, mesh, drains>>

\* The thread: shutdown_plugins() or stop_message_queue() returns.
Stops(step) ==
    /\ svc[step] = "stopping"
    /\ svc' = [svc EXCEPT ![step] = "off"]
    /\ UNCHANGED <<config, main, stop, asked, fatal, syncs, ready, map, mesh, drains>>

\* _close_matrix_client_best_effort(): a close() that fails or takes too long does not
\* keep main(), and a client that it does not know of stays.
CloseMatrix ==
    /\ Head1("matrix") /\ Next1
    /\ \/ svc' = [svc EXCEPT !["matrix"] = IF @ = "left" THEN @ ELSE "off"]
       \/ svc["matrix"] = "on" /\ svc' = [svc EXCEPT !["matrix"] = "stopping"]
    /\ UNCHANGED <<config, stop, asked, fatal, syncs, ready, map, mesh, drains>>

\* _close_meshtastic_client_best_effort() and shutdown_shared_executors()
CloseMesh ==
    /\ Head1("mesh") /\ Next1
    /\ client' = FALSE
    /\ UNCHANGED <<config, stop, asked, fatal, svc, syncs, ready, map, connects, conn, drains>>

\* wipe_message_map() at the end of a shutdown; a writer may outlive it.
WipeAtEnd ==
    /\ Head1("wipe")
    /\ main' = [main EXCEPT !.todo = Tail(@),
                            !.late = storing \/ svc["queue"] # "off" \/ svc["matrix"] # "off"]
    /\ rows' = (rows /\ ~config.wipe)
    /\ UNCHANGED <<config, stop, asked, fatal, svc, syncs, ready, storing, mesh, drains>>

\* main() raises or returns, run_main() turns that into the exit code.
Exit ==
    /\ main.pc = "down" /\ main.todo = <<>>
    /\ main' = [main EXCEPT !.pc = "ended",
                            !.exit = IF main.exc = "error" \/ (fatal /\ main.exc = "none")
                                     THEN 1 ELSE 0]
    /\ UNCHANGED <<config, stop, asked, fatal, svc, syncs, ready, map, mesh, drains>>

-----------------------------------------------------------------------------
(* Bringing up *)

\* run_main(): with a section missing the relay does not start.
ReadConfig ==
    /\ main.pc = "config"
    /\ \/ To("database")
       \/ main' = [main EXCEPT !.pc = "ended", !.exit = 1]
    /\ UNCHANGED <<config, stop, asked, fatal, svc, syncs, ready, map, mesh, drains>>

\* initialize_database() and wipe_message_map(); nothing is up yet when they raise.
OpenDatabase ==
    /\ main.pc = "database"
    /\ \/ To("plugins") /\ rows' = (rows /\ ~config.wipe)
       \/ main' = [main EXCEPT !.pc = "ended", !.exit = 1] /\ UNCHANGED rows
    /\ UNCHANGED <<config, stop, asked, fatal, svc, syncs, ready, storing, mesh, drains>>

\* A startup step: it brings a service up, or raises.
Starts(pc, service, next) ==
    /\ main.pc = pc
    /\ \/ To(next) /\ svc' = [svc EXCEPT ![service] = "on"] /\ UNCHANGED stop
       \/ RollBack("error") /\ UNCHANGED svc
    /\ UNCHANGED <<config, asked, fatal, syncs, ready, map, mesh, drains>>

LoadPlugins == Starts("plugins", "plugins", "queue")
StartQueue == Starts("queue", "queue", "mesh")

\* The connect runs in a thread.
StartConnect ==
    /\ main.pc = "mesh" /\ To("connecting")
    /\ conn' = [pc |-> "reset", pending |-> FALSE, armed |-> None, ok |-> FALSE]
    /\ connects' = connects + 1
    /\ UNCHANGED <<config, stop, asked, fatal, svc, syncs, ready, map, client, drains>>

Connected ==
    /\ main.pc = "connecting" /\ conn.pc = "idle"
    /\ IF conn.ok THEN To("matrix") /\ UNCHANGED stop ELSE RollBack("error")
    /\ UNCHANGED <<config, asked, fatal, svc, syncs, ready, map, mesh, drains>>

\* connect_matrix() fails or is cancelled.  It may leave a client open that main()
\* never got (MatrixSession has the ways).
LoginEnds == svc' = svc \/ svc' = [svc EXCEPT !["matrix"] = "left"]

StartMatrix ==
    /\ main.pc = "matrix"
    /\ \/ To("rooms") /\ svc' = [svc EXCEPT !["matrix"] = "on"] /\ UNCHANGED stop
       \/ RollBack("error") /\ LoginEnds
    /\ UNCHANGED <<config, asked, fatal, syncs, ready, map, mesh, drains>>

\* join_matrix_room() for each room, the callbacks, the signal handlers, and the
\* health task.
StartHealth == Starts("rooms", "health", "health")

\* After one turn of the loop the health task may already be over.
CheckHealth ==
    /\ main.pc = "health"
    /\ LET dead == svc["health"] = "failed" \/ (svc["health"] = "returned" /\ config.continuous)
       IN  /\ fatal' = (fatal \/ dead)
           /\ IF fatal' THEN RollBack("error") ELSE To("serve") /\ UNCHANGED stop
    /\ UNCHANGED <<config, asked, svc, syncs, ready, map, mesh, drains>>

\* Ctrl-C before the handlers are installed cancels main() where it waits.  A plugin
\* load cannot be cancelled and is left out (see the README).
Interrupt ==
    /\ main.pc \in {"connecting", "matrix", "rooms"}
    /\ RollBack("interrupt") /\ asked' = TRUE
    /\ IF main.pc = "matrix" THEN LoginEnds ELSE UNCHANGED svc
    /\ UNCHANGED <<config, fatal, syncs, ready, map, mesh, drains>>

-----------------------------------------------------------------------------
(* Serving *)

\* SIGINT, SIGTERM or SIGHUP once the handlers are installed.
Signal ==
    /\ main.pc \in {"health", "serve", "loop", "drain", "write", "recheck", "unwrite", "wait",
                    "backoff"}
    /\ ~stop
    /\ stop' = TRUE /\ asked' = TRUE
    /\ UNCHANGED <<config, main, fatal, svc, syncs, ready, map, mesh, drains>>

\* check_connection() raises, or returns; it returns at once when it has nothing to do.
HealthEnds ==
    /\ svc["health"] = "on"
    /\ \E how \in {"failed", "returned"} : svc' = [svc EXCEPT !["health"] = how]
    /\ UNCHANGED <<config, main, stop, asked, fatal, syncs, ready, map, mesh, drains>>

\* A mutant: the relay stops but forgets why.
OnHealthDoneQuietly ==
    /\ svc["health"] \in {"failed", "returned"}
    /\ svc' = [svc EXCEPT !["health"] = "over"]
    /\ stop' = (stop \/ svc["health"] = "failed" \/ config.continuous)
    /\ UNCHANGED <<config, main, asked, fatal, syncs, ready, map, mesh, drains>>

\* _on_check_connection_done()
OnHealthDone ==
    /\ svc["health"] \in {"failed", "returned"}
    /\ svc' = [svc EXCEPT !["health"] = "over"]
    /\ LET dead == ~stop /\ (svc["health"] = "failed" \/ config.continuous)
       IN  stop' = (stop \/ dead) /\ fatal' = (fatal \/ dead)
    /\ UNCHANGED <<config, main, asked, syncs, ready, map, mesh, drains>>

\* The node-name refresh task starts with the loop.
Serve ==
    /\ main.pc = "serve" /\ To("loop")
    /\ svc' = IF stop THEN svc ELSE [svc EXCEPT !["refresh"] = "on"]
    /\ UNCHANGED <<config, stop, asked, fatal, syncs, ready, map, mesh, drains>>

\* The head of the sync loop.
StartSync ==
    /\ main.pc = "loop"
    /\ IF stop
       THEN ShutDown("none") /\ UNCHANGED <<svc, syncs>>
       ELSE /\ To(IF published THEN "wait" ELSE "drain")
            /\ syncs < MaxSyncs /\ syncs' = syncs + 1
            /\ svc' = [svc EXCEPT !["sync"] = "on"]
            /\ UNCHANGED stop
    /\ UNCHANGED <<config, asked, fatal, ready, map, mesh, drains>>

\* sync_forever() returns or fails with an error the loop knows, or with another one.
SyncEnds ==
    /\ svc["sync"] = "on" /\ syncs < MaxSyncs
    /\ \E how \in {"returned", "crashed"} : svc' = [svc EXCEPT !["sync"] = how]
    /\ UNCHANGED <<config, main, stop, asked, fatal, syncs, ready, map, mesh, drains>>

SyncDone == svc["sync"] # "on"

\* _wait_for_startup_drain_completion() and the tests after it
DrainWaited ==
    /\ main.pc = "drain"
    /\ drain.event \/ stop \/ SyncDone
    /\ To(IF stop \/ SyncDone THEN "wait" ELSE "write")
    /\ UNCHANGED <<config, stop, asked, fatal, svc, syncs, ready, map, mesh, drains>>

\* _write_ready_file() in a thread; a failed write is only logged.
WriteReady ==
    /\ main.pc = "write" /\ To("recheck")
    /\ file' \in {TRUE, file}
    /\ UNCHANGED <<config, stop, asked, fatal, svc, syncs, published, map, mesh, drains>>

\* Only a relay that still runs is announced.
Recheck ==
    /\ main.pc = "recheck"
    /\ IF stop \/ SyncDone
       THEN To("unwrite") /\ UNCHANGED <<svc, published>>
       ELSE /\ To("wait") /\ published' = TRUE
            /\ svc' = IF config.heartbeat THEN [svc EXCEPT !["heartbeat"] = "check"] ELSE svc
    /\ UNCHANGED <<config, stop, asked, fatal, syncs, file, map, mesh, drains>>

UnwriteReady ==
    /\ main.pc = "unwrite" /\ Removed([main EXCEPT !.pc = "wait"])
    /\ UNCHANGED <<config, stop, asked, fatal, svc, syncs, published, map, mesh, drains>>

\* A mutant: the loop waits for the sync task alone.
WaitSyncOnly ==
    /\ main.pc = "wait" /\ SyncDone
    /\ IF stop THEN ShutDown("none")
       ELSE IF svc["sync"] = "crashed" THEN ShutDown("error") ELSE To("backoff") /\ UNCHANGED stop
    /\ svc' = [svc EXCEPT !["sync"] = "off"]
    /\ UNCHANGED <<config, asked, fatal, syncs, ready, map, mesh, drains>>

\* The sync task or the event: the task left over is cancelled with a bounded wait, a
\* known error is retried after a pause, another one ends main().
WaitSync ==
    /\ main.pc = "wait" /\ (SyncDone \/ stop)
    /\ IF stop THEN ShutDown("none")
       ELSE IF svc["sync"] = "crashed" THEN ShutDown("error") ELSE To("backoff") /\ UNCHANGED stop
    /\ svc' = [svc EXCEPT !["sync"] = "off"]
    /\ UNCHANGED <<config, asked, fatal, syncs, ready, map, mesh, drains>>

\* Five seconds, or the event.
Backoff ==
    /\ main.pc = "backoff" /\ To("loop")
    /\ UNCHANGED <<config, stop, asked, fatal, svc, syncs, ready, map, mesh, drains>>

\* _ready_heartbeat(): the test of the event, the touch in a thread, the pause.
Heartbeat ==
    /\ \/ /\ svc["heartbeat"] = "check"
          /\ svc' = [svc EXCEPT !["heartbeat"] = IF stop THEN "over" ELSE "touch"]
          /\ UNCHANGED file
       \/ /\ svc["heartbeat"] = "touch" /\ file' \in {TRUE, file}
          /\ svc' = [svc EXCEPT !["heartbeat"] = "pause"]
       \/ /\ svc["heartbeat"] = "pause"
          /\ svc' = [svc EXCEPT !["heartbeat"] = "check"]
          /\ UNCHANGED file
    /\ UNCHANGED <<config, main, stop, asked, fatal, syncs, published, map, mesh, drains>>

\* _handle_message_mapping() of a message that the queue sent to the mesh.  The rows
\* are followed with wipe_on_restart only, and up to the first one after a wipe.
MapSent ==
    /\ config.wipe /\ ~rows /\ svc["queue"] \in {"on", "stopping"}
    /\ storing' = TRUE
    /\ UNCHANGED <<life, ready, rows, mesh, drains>>

\* matrix_relay() of a packet whose event the Matrix server has taken
MapRelayed ==
    /\ config.wipe /\ ~rows /\ svc["matrix"] \in {"on", "stopping"}
    /\ storing' = TRUE
    /\ UNCHANGED <<life, ready, rows, mesh, drains>>

\* async_store_message_map(): the worker commits, whatever became of who waits for it.
StoreRow ==
    /\ storing /\ storing' = FALSE
    /\ rows' = TRUE
    /\ UNCHANGED <<life, ready, mesh, drains>>

-----------------------------------------------------------------------------
(* The connect and the startup drain *)

ToConn(pc) == conn' = [conn EXCEPT !.pc = pc]
Cancelled(d) == IF d # None /\ timer[d] = "waiting" THEN [timer EXCEPT ![d] = "none"] ELSE timer
Active == drain.deadline # None /\ drain.window # "passed"

\* The link is lost: on_lost_meshtastic_connection() schedules reconnect().  The race of
\* this callback with the connect that is ending is in MeshConnection.
LinkLost ==
    /\ client /\ conn.pc = "idle" /\ ~stop /\ connects < MaxConnects
    /\ main.pc # "connecting"
    /\ client' = FALSE /\ conn' = [conn EXCEPT !.pc = "scheduled"]
    /\ UNCHANGED <<life, ready, map, connects, drains>>

\* reconnect() starts an attempt, or sees the shutdown.
Reconnect ==
    /\ conn.pc = "scheduled"
    /\ \/ /\ stop /\ ToConn("idle") /\ UNCHANGED connects
       \/ /\ ~stop /\ connects' = connects + 1
          /\ conn' = [pc |-> "reset", pending |-> FALSE, armed |-> None, ok |-> FALSE]
    /\ UNCHANGED <<life, ready, map, client, drains>>

\* The node cannot be reached, or a call of the setup raises.
AttemptFails ==
    /\ conn.pc \in {"reset", "publish", "arm", "finish"} /\ connects < MaxConnects
    /\ ToConn("rollback")
    /\ UNCHANGED <<life, ready, map, client, connects, drains>>

\* The session is reset under its lock.  The first connect leaves the drain to be armed;
\* a later one keeps a drain that is active and ends any other.
ResetSession ==
    /\ conn.pc = "reset"
    /\ conn' = [conn EXCEPT !.pc = IF drain.applied /\ ~Active THEN "signal" ELSE "publish",
                            !.pending = ~drain.applied]
    /\ drain' = IF drain.applied /\ Active THEN drain ELSE [drain EXCEPT !.deadline = None]
    /\ UNCHANGED <<life, ready, map, client, connects, timer, packet>>

\* _signal_startup_drain_complete() of the thread that connects
SignalFromConnect ==
    /\ conn.pc \in {"signal", "start_failed"}
    /\ drain' = [drain EXCEPT !.event = TRUE]
    /\ ToConn(IF conn.pc = "signal" THEN "publish" ELSE "finish")
    /\ UNCHANGED <<life, ready, map, client, connects, timer, packet>>

\* The client is set, unless the relay stops.
PublishClient ==
    /\ conn.pc = "publish"
    /\ client' = ~stop
    /\ ToConn(IF stop THEN "rollback" ELSE IF conn.pending THEN "arm" ELSE "finish")
    /\ UNCHANGED <<life, ready, map, connects, drains>>

\* A mutant: that a drain was armed is not remembered.
ArmDrainAgain ==
    /\ conn.pc = "arm"
    /\ IF stop THEN ToConn("rollback") /\ UNCHANGED drain
       ELSE /\ conn' = [conn EXCEPT !.pc = "clear", !.armed = connects]
            /\ drain' = [drain EXCEPT !.deadline = connects, !.window = "open"]
    /\ UNCHANGED <<life, ready, map, client, connects, timer, packet>>

\* The drain is armed once in the life of the process.
ArmDrain ==
    /\ conn.pc = "arm"
    /\ IF stop THEN ToConn("rollback") /\ UNCHANGED drain
       ELSE IF drain.applied THEN ToConn("finish") /\ UNCHANGED drain
       ELSE /\ conn' = [conn EXCEPT !.pc = "clear", !.armed = connects]
            /\ drain' = [drain EXCEPT !.deadline = connects, !.window = "open", !.applied = TRUE]
    /\ UNCHANGED <<life, ready, map, client, connects, timer, packet>>

\* The event is cleared after the lock is released.
ClearEvent ==
    /\ conn.pc = "clear" /\ ToConn("schedule")
    /\ drain' = [drain EXCEPT !.event = FALSE]
    /\ UNCHANGED <<life, ready, map, client, connects, timer, packet>>

\* _schedule_startup_drain_deadline_cleanup(); when the thread does not start, the
\* drain ends at once.
ScheduleTimer ==
    /\ conn.pc = "schedule"
    /\ \/ /\ ToConn("finish")
          /\ timer' = [Cancelled(drain.expiry) EXCEPT ![conn.armed] = "waiting"]
          /\ drain' = [drain EXCEPT !.expiry = conn.armed]
       \/ /\ ToConn("start_failed")
          /\ timer' = Cancelled(drain.expiry)
          /\ drain' = [drain EXCEPT !.expiry = None, !.deadline = None]
    /\ UNCHANGED <<life, ready, map, client, connects, packet>>

\* The callbacks are subscribed and the client is returned, unless the relay stops.
FinishConnect ==
    /\ conn.pc = "finish"
    /\ conn' = [conn EXCEPT !.pc = IF stop THEN "rollback" ELSE "idle", !.ok = ~stop,
                            !.armed = IF stop THEN @ ELSE None]
    /\ UNCHANGED <<life, ready, map, client, connects, drains>>

\* _rollback_connect_attempt_state(): what this attempt armed is disarmed under the
\* lock ...
RollbackConnect ==
    /\ conn.pc = "rollback"
    /\ client' = FALSE
    /\ IF conn.armed = None THEN ToConn("retry") /\ UNCHANGED drain
       ELSE /\ ToConn("rollback_signal")
            /\ drain' = [drain EXCEPT !.expiry = None, !.deadline = None, !.applied = FALSE]
    /\ UNCHANGED <<life, ready, map, connects, timer, packet>>

\* ... and the event set and the timer cancelled after it.
RollbackSignal ==
    /\ conn.pc = "rollback_signal" /\ ToConn("retry")
    /\ drain' = [drain EXCEPT !.event = TRUE]
    /\ timer' = Cancelled(conn.armed)
    /\ UNCHANGED <<life, ready, map, client, connects, packet>>

\* The loop of connect_meshtastic(): another attempt, or the end.  reconnect() goes on
\* until the relay stops; main() takes a None for an answer.
RetryConnect ==
    /\ conn.pc = "retry"
    /\ \/ /\ ~stop /\ connects < MaxConnects
          /\ connects' = connects + 1
          /\ conn' = [pc |-> "reset", pending |-> FALSE, armed |-> None, ok |-> FALSE]
       \/ /\ stop \/ main.pc = "connecting"
          /\ conn' = [conn EXCEPT !.pc = "idle", !.ok = FALSE, !.armed = None]
          /\ UNCHANGED connects
    /\ UNCHANGED <<life, ready, map, client, drains>>

\* STARTUP_PACKET_DRAIN_SECS pass.  They are 15 seconds: not over before the connect
\* that armed the drain has returned.  A timer may wake just before its deadline.
TimePasses ==
    /\ drain.deadline # None /\ drain.window # "passed"
    /\ conn.armed = None
    /\ drain' = [drain EXCEPT !.window = IF @ = "open" THEN "due" ELSE "passed"]
    /\ UNCHANGED <<life, ready, map, mesh, timer, packet>>

\* _cleanup() of the timer, under the lock
TimerFires(d) ==
    /\ timer[d] = "waiting" /\ (drain.deadline = d => drain.window # "open")
    /\ LET over == drain.deadline = d /\ drain.window = "passed"
       IN  /\ drain' = [drain EXCEPT !.expiry = IF @ = d THEN None ELSE @,
                                     !.deadline = IF over THEN None ELSE @]
           /\ timer' = [timer EXCEPT ![d] = IF over THEN "signal"
                                            ELSE IF drain.deadline = d THEN "again" ELSE "none"]
    /\ UNCHANGED <<life, ready, map, mesh, packet>>

\* A mutant: the window ends without a word.
TimerGoesOnQuietly(d) ==
    /\ timer[d] = "signal"
    /\ timer' = [timer EXCEPT ![d] = "none"]
    /\ UNCHANGED <<life, ready, map, mesh, drain, packet>>

\* _cleanup() after the lock: the event, or another timer for the same deadline.
TimerGoesOn(d) ==
    /\ \/ /\ timer[d] = "signal"
          /\ timer' = [timer EXCEPT ![d] = "none"]
          /\ drain' = [drain EXCEPT !.event = TRUE]
       \/ /\ timer[d] = "again"
          /\ timer' = [Cancelled(drain.expiry) EXCEPT ![d] = "waiting"]
          /\ drain' = [drain EXCEPT !.expiry = d]
    /\ UNCHANGED <<life, ready, map, mesh, packet>>

\* on_meshtastic_message() finds a deadline that has passed and no timer for it.
PacketEndsDrain ==
    /\ ~packet /\ client
    /\ drain.deadline # None /\ drain.window = "passed"
    /\ drain.expiry # None => timer[drain.expiry] # "waiting"
    /\ drain' = [drain EXCEPT !.deadline = None, !.expiry = None]
    /\ packet' = TRUE
    /\ UNCHANGED <<life, ready, map, mesh, timer>>

PacketSignals ==
    /\ packet /\ packet' = FALSE
    /\ drain' = [drain EXCEPT !.event = TRUE]
    /\ UNCHANGED <<life, ready, map, mesh, timer>>

-----------------------------------------------------------------------------
Bring == \/ ReadConfig \/ OpenDatabase \/ LoadPlugins \/ StartQueue \/ StartConnect \/ Connected
         \/ StartMatrix \/ StartHealth \/ CheckHealth
Loop == \/ Serve \/ StartSync \/ DrainWaited \/ WriteReady \/ Recheck \/ UnwriteReady \/ WaitSync
        \/ Backoff
Down == \/ AwaitTask("heartbeat", "heartbeat") \/ RemoveReady \/ AwaitTask("refresh", "refresh")
        \/ AwaitTask("health", "health") \/ StopReconnect
        \/ StartStep("plugins") \/ EndStep("plugins_wait")
        \/ StartStep("queue") \/ EndStep("queue_wait")
        \/ CloseMatrix \/ CloseMesh \/ WipeAtEnd \/ Exit
Connect == \/ Reconnect \/ AttemptFails \/ ResetSession \/ SignalFromConnect \/ PublishClient
           \/ ArmDrain \/ ClearEvent \/ ScheduleTimer \/ FinishConnect \/ RollbackConnect
           \/ RollbackSignal \/ RetryConnect
Timers == TimePasses \/ \E d \in Drains : TimerFires(d) \/ TimerGoesOn(d)

Next ==
    \/ Bring \/ Loop \/ Down \/ Connect \/ Timers
    \/ Interrupt \/ Signal \/ HealthEnds \/ OnHealthDone \/ SyncEnds \/ Heartbeat
    \/ MapSent \/ MapRelayed \/ StoreRow
    \/ Stops("plugins") \/ Stops("queue") \/ LinkLost \/ PacketEndsDrain \/ PacketSignals

Spec == Init /\ [][Next]_vars

\* Every await of main() is bounded or its thread ends: its tasks and threads run on.
\* Signals, failures, lost links and packets need not come.
FairSpec ==
    Spec /\ WF_vars(Bring \/ Loop \/ Down) /\ WF_vars(Connect) /\ WF_vars(OnHealthDone)
         /\ WF_vars(Heartbeat) /\ WF_vars(TimePasses) /\ WF_vars(PacketSignals)
         /\ \A d \in Drains : WF_vars(TimerFires(d)) /\ WF_vars(TimerGoesOn(d))

-----------------------------------------------------------------------------
(* Properties *)

\* main.py:1071-1107: the readiness file is there only for a relay that was announced
\* while its sync ran and nobody stopped it, and by then the startup drain is over for
\* good: no later connect arms it again.  Only a file that could not be removed stays.
ReadyMeansReady ==
    /\ file => published \/ main.pc \in {"recheck", "unwrite"} \/ main.kept
    /\ published => drain.deadline = None

\* main.py:853-883 and 1195-1239: when main() has ended, however it did, no readiness
\* file is left that could be removed, none is touched again, no service runs that
\* nobody asked to stop, but for the client of a login that did not end well, and with
\* wipe_on_restart the message map is empty unless one of its writers was still at work.
EndIsClean ==
    main.pc = "ended" =>
        /\ file => main.kept
        /\ \A s \in Services : \/ svc[s] \in {"off", "stopping"}
                               \/ s = "matrix" /\ svc[s] = "left" /\ main.exc # "none" /\ syncs = 0
        /\ client => conn.pc # "idle"
        /\ main.exc = "none" /\ config.wipe /\ main.exit = 0 => ~rows \/ main.late

\* main.py:803-829 and 1364-1373: the process reports success only when somebody
\* asked it to stop.
ZeroMeansAsked == main.pc = "ended" /\ main.exit = 0 => asked

\* main.py:492-514: once told to stop, or failed, main() ends.
StopEnds == stop ~> main.pc = "ended"

\* main.py:228-250 and events.py:211-270: a relay that serves is announced, unless it
\* is stopped.
BecomesReady == main.pc = "serve" ~> published \/ stop
=============================================================================
