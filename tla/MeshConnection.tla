--------------------------- MODULE MeshConnection ---------------------------
(***************************************************************************)
(* The life of the Meshtastic connection: connect_meshtastic(), called by  *)
(* main(), by reconnect() and by whoever wants to send to the mesh (Matrix *)
(* handlers, plugins), each on a worker thread;                            *)
(* on_lost_meshtastic_connection(), called by the reader thread of an      *)
(* interface or by the health check; and the shutdown of main(), which     *)
(* cancels the coroutine but cannot cancel its worker thread.  They share  *)
(* meshtastic_client, _relay_active_client_id, reconnecting and            *)
(* shutting_down, and only some of the accesses hold meshtastic_lock.      *)
(*                                                                         *)
(* A step is one stretch of code that no other thread can tell apart from  *)
(* an atomic one: a critical section, or the code between two reads of     *)
(* shutting_down inside one.                                               *)
(***************************************************************************)
EXTENDS Naturals, FiniteSets

CONSTANTS
    MaxIfaces,    \* bound: interfaces the transport opens
    MaxFails,     \* bound: connection attempts that fail
    MaxDrops,     \* bound: links that break, and probes that fail on a working one
    MaxSends,     \* bound: calls by Matrix handlers and plugins
    RetryLimit,   \* meshtastic.retries; 0 is INFINITE_RETRIES
    MaxTimeouts,  \* MAX_TIMEOUT_RETRIES_INFINITE
    HealthCheck,  \* requires_continuous_health_monitor()
    Stops         \* TRUE: the relay may be shut down

ASSUME ConnectionAssumption ==
    /\ MaxIfaces \in Nat /\ MaxFails \in Nat /\ MaxDrops \in Nat
    /\ MaxSends \in Nat
    /\ RetryLimit \in Nat /\ MaxTimeouts \in Nat
    /\ HealthCheck \in BOOLEAN /\ Stops \in BOOLEAN

Ifaces == 1..MaxIfaces
Callers == {"main", "reconnect", "send"}

VARIABLES
    shuttingDown,   \* shutting_down
    reconnecting,   \* reconnecting
    client,         \* meshtastic_client: an interface, 0 for None
    activeId,       \* _relay_active_client_id, 0 for None
    subscribed,     \* subscribed_to_messages, subscribed_to_connection_lost
    tearingDown,    \* _callbacks_tearing_down
    inProgress,     \* _connect_attempt_in_progress
    lock,           \* the caller whose setup holds meshtastic_lock, or "free"
    conn,           \* conn[c]: the connect_meshtastic() call of c
    coro,           \* the reconnect() coroutine
    cancelled,      \* reconnect_task was cancelled
    health,         \* the check_connection() task
    main,           \* where main() stands
    link,           \* link[i]: what became of interface i
    events,         \* the interfaces whose reader thread is in the callback
    fails, drops,   \* how often the environment failed so far
    sends           \* the calls by Matrix handlers and plugins so far

shared == <<client, activeId>>
callbacks == <<subscribed, tearingDown>>
faults == <<fails, drops, sends>>
vars == <<shuttingDown, reconnecting, shared, callbacks, inProgress, lock, conn,
          coro, cancelled, health, main, link, events, faults>>

SetupPcs == {"locked", "publish", "nodeinfo", "metadata", "arm", "subscribe"}
ConnPcs == {"idle", "enter", "begin", "section", "attempt", "opening", "acquire", "rollback",
            "exit", "returned"} \cup SetupPcs
Failures == {"none", "refused", "timeout", "error", "shutdown"}

\* Every variable keeps its type.
TypeOK ==
    /\ shuttingDown \in BOOLEAN /\ reconnecting \in BOOLEAN
    /\ client \in 0..MaxIfaces /\ activeId \in 0..MaxIfaces
    /\ subscribed \in BOOLEAN /\ tearingDown \in BOOLEAN
    /\ inProgress \in BOOLEAN
    /\ lock \in Callers \cup {"free"}
    /\ conn \in [Callers -> [pc : ConnPcs, iface : 0..MaxIfaces, why : Failures,
                             attempts : 0..MaxFails, timeouts : 0..MaxTimeouts,
                             res : 0..MaxIfaces]]
    /\ coro \in {"off", "scheduled", "sleep", "waiting"}
    /\ cancelled \in BOOLEAN
    /\ health \in [pc : {"idle", "probing", "calling"}, iface : 0..MaxIfaces]
    /\ main \in {"connecting", "running", "cancelling", "unsubscribing",
                 "closing", "clearing", "done"}
    /\ link \in [Ifaces -> {"none", "open", "lost", "closed"}]
    /\ events \subseteq Ifaces
    /\ fails \in 0..MaxFails /\ drops \in 0..MaxDrops /\ sends \in 0..MaxSends

NoCall == [pc |-> "idle", iface |-> 0, why |-> "none", attempts |-> 0,
           timeouts |-> 0, res |-> 0]

Init ==
    /\ shuttingDown = FALSE /\ reconnecting = FALSE
    /\ client = 0 /\ activeId = 0
    /\ subscribed = FALSE /\ tearingDown = FALSE
    /\ inProgress = FALSE /\ lock = "free"
    /\ conn = [c \in Callers |-> IF c = "main" THEN [NoCall EXCEPT !.pc = "enter"]
                                 ELSE NoCall]
    /\ coro = "off" /\ cancelled = FALSE
    /\ health = [pc |-> "idle", iface |-> 0]
    /\ main = "connecting"
    /\ link = [i \in Ifaces |-> "none"]
    /\ events = {}
    /\ fails = 0 /\ drops = 0 /\ sends = 0

-----------------------------------------------------------------------------
(* connect_meshtastic(); the call of reconnect() has force_connect set.  *)

Forced(c) == c = "reconnect"

At(c, where) == conn[c].pc = where
Goto(c, where) == conn' = [conn EXCEPT ![c].pc = where]

\* The interfaces after close() or _disconnect_ble_interface() of i.
Closed(i) == IF i = 0 THEN link ELSE [link EXCEPT ![i] = "closed"]

\* The wrapper takes the marker.
Enter(c) ==
    /\ At(c, "enter")
    /\ ~inProgress
    /\ inProgress' = TRUE
    /\ Goto(c, "begin")
    /\ UNCHANGED <<shuttingDown, reconnecting, shared, callbacks, lock, coro,
                   cancelled, health, main, link, events, faults>>

\* It waited for another attempt until its deadline or the shutdown.
WaitGivesUp(c) ==
    /\ At(c, "enter")
    /\ inProgress
    /\ conn' = [conn EXCEPT ![c].pc = "returned", ![c].res = 0]
    /\ UNCHANGED <<shuttingDown, reconnecting, shared, callbacks, inProgress, lock,
                   coro, cancelled, health, main, link, events, faults>>

\* The call returns r and gives the marker back.
Return(c, r) ==
    /\ conn' = [conn EXCEPT ![c] = [NoCall EXCEPT !.pc = "returned", !.res = r]]
    /\ inProgress' = FALSE

\* The early returns of the implementation, read without the lock.
Begin(c) ==
    /\ At(c, "begin")
    /\ IF shuttingDown \/ (reconnecting /\ ~Forced(c))
       THEN Return(c, 0)
       ELSE Goto(c, "section") /\ UNCHANGED inProgress
    /\ UNCHANGED <<shuttingDown, reconnecting, shared, callbacks, lock, coro,
                   cancelled, health, main, link, events, faults>>

\* The first critical section: the current client is good enough, or a forced
\* call closes the previous connection.
Section(c) ==
    /\ At(c, "section")
    /\ lock = "free"
    /\ IF client # 0 /\ ~Forced(c)
       THEN Return(c, client) /\ UNCHANGED <<shared, link>>
       ELSE /\ Goto(c, "attempt")
            /\ link' = Closed(client)
            /\ client' = 0
            /\ activeId' = IF client # 0 THEN 0 ELSE activeId
            /\ UNCHANGED inProgress
    /\ UNCHANGED <<shuttingDown, reconnecting, callbacks, lock, coro, cancelled,
                   health, main, events, faults>>

\* The head of the retry loop.
LoopHead(c) ==
    /\ At(c, "attempt")
    /\ Goto(c, IF shuttingDown THEN "exit" ELSE "opening")
    /\ UNCHANGED <<shuttingDown, reconnecting, shared, callbacks, inProgress, lock,
                   coro, cancelled, health, main, link, events, faults>>

\* The transport opens an interface.
Opened(c, i) ==
    /\ At(c, "opening")
    /\ link[i] = "none" /\ \A j \in Ifaces : j < i => link[j] # "none"
    /\ link' = [link EXCEPT ![i] = "open"]
    /\ conn' = [conn EXCEPT ![c].pc = "acquire", ![c].iface = i]
    /\ UNCHANGED <<shuttingDown, reconnecting, shared, callbacks, inProgress, lock,
                   coro, cancelled, health, main, events, faults>>

\* Opening raises, or a setup call does and the critical section is left.
Fails(c, why) ==
    /\ conn[c].pc \in {"opening", "nodeinfo", "metadata"}
    /\ IF why = "shutdown" THEN shuttingDown /\ At(c, "opening") /\ UNCHANGED fails
                           ELSE fails < MaxFails /\ fails' = fails + 1
    /\ conn' = [conn EXCEPT ![c].pc = "rollback", ![c].why = why]
    /\ lock' = IF lock = c THEN "free" ELSE lock
    /\ UNCHANGED <<shuttingDown, reconnecting, shared, callbacks, inProgress, coro,
                   cancelled, health, main, link, events, drops, sends>>

\* Whether the handler of the failure tries again.
Retries(c) ==
    LET n == conn[c].attempts + 1
    IN /\ conn[c].why \in {"timeout", "error"} /\ ~shuttingDown
       /\ IF RetryLimit = 0
          THEN conn[c].why = "timeout" => conn[c].timeouts + 1 <= MaxTimeouts
          ELSE n <= RetryLimit

\* Mutant: the client is taken back but not closed.
RollbackKeepsOpen(c) ==
    /\ link' = link
    /\ client' = IF conn[c].iface # 0 /\ client = conn[c].iface THEN 0 ELSE client
    /\ activeId' = IF conn[c].iface # 0 /\ client = conn[c].iface THEN 0 ELSE activeId

\* _rollback_connect_attempt_state(): the client it published is closed, unless
\* somebody else took it away meanwhile.
RollbackState(c) ==
    IF conn[c].iface # 0 /\ client = conn[c].iface
    THEN link' = Closed(client) /\ client' = 0 /\ activeId' = 0
    ELSE UNCHANGED <<link, shared>>

\* The handler of a failed attempt: roll back, then retry, give up or, on
\* shutdown, leave the loop.
Rollback(c) ==
    LET why == conn[c].why
    IN /\ At(c, "rollback")
       /\ lock = "free"
       /\ RollbackState(c)
       /\ IF Retries(c)
          THEN /\ conn' = [conn EXCEPT ![c].pc = "attempt", ![c].why = "none",
                                      ![c].iface = 0, ![c].attempts = @ + 1,
                                      ![c].timeouts = IF why = "timeout" /\ RetryLimit = 0
                                                      THEN @ + 1 ELSE @]
               /\ UNCHANGED inProgress
          ELSE IF why # "refused" /\ shuttingDown
               THEN Goto(c, "exit") /\ UNCHANGED inProgress
               ELSE Return(c, 0)
       /\ UNCHANGED <<shuttingDown, reconnecting, callbacks, lock, coro, cancelled,
                      health, main, events, faults>>

\* The setup takes the lock and resets the timing state.
Acquire(c) ==
    /\ At(c, "acquire")
    /\ lock = "free"
    /\ lock' = c
    /\ Goto(c, "locked")
    /\ UNCHANGED <<shuttingDown, reconnecting, shared, callbacks, inProgress, coro,
                   cancelled, health, main, link, events, faults>>

\* Shutdown is seen before the client is published: close it and return.
CheckBeforePublish(c) ==
    /\ At(c, "locked")
    /\ IF shuttingDown
       THEN Return(c, 0) /\ link' = Closed(conn[c].iface) /\ lock' = "free"
       ELSE Goto(c, "publish") /\ UNCHANGED <<link, lock, inProgress>>
    /\ UNCHANGED <<shuttingDown, reconnecting, shared, callbacks, coro, cancelled,
                   health, main, events, faults>>

\* The client is published, whatever shutting_down has become since.
Publish(c) ==
    /\ At(c, "publish")
    /\ client' = conn[c].iface
    /\ activeId' = conn[c].iface
    /\ Goto(c, "nodeinfo")
    /\ UNCHANGED <<shuttingDown, reconnecting, callbacks, inProgress, lock, coro,
                   cancelled, health, main, link, events, faults>>

NextSetup == [nodeinfo |-> "metadata", metadata |-> "arm", arm |-> "subscribe"]

\* Mutant: the setup steps do not look at shutting_down.
SetupBlindly(c) ==
    /\ conn[c].pc \in DOMAIN NextSetup
    /\ Goto(c, NextSetup[conn[c].pc])
    /\ UNCHANGED <<shuttingDown, reconnecting, shared, callbacks, inProgress, lock,
                   coro, cancelled, health, main, link, events, faults>>

\* getMyNodeInfo(), the metadata or the arming of the startup drain is done;
\* a shutdown seen after it rolls the client back.
SetupStep(c) ==
    /\ conn[c].pc \in DOMAIN NextSetup
    /\ IF shuttingDown
       THEN RollbackState(c) /\ Return(c, 0) /\ lock' = "free"
       ELSE Goto(c, NextSetup[conn[c].pc]) /\ UNCHANGED <<link, shared, lock, inProgress>>
    /\ UNCHANGED <<shuttingDown, reconnecting, callbacks, coro, cancelled, health,
                   main, events, faults>>

\* ensure_meshtastic_callbacks_subscribed(), and the end of the critical section.
Subscribe(c) ==
    /\ At(c, "subscribe")
    /\ subscribed' = TRUE /\ tearingDown' = FALSE
    /\ lock' = "free"
    /\ Goto(c, "exit")
    /\ UNCHANGED <<shuttingDown, reconnecting, shared, inProgress, coro, cancelled,
                   health, main, link, events, faults>>

\* The loop is left: what meshtastic_client holds by now is returned.
Exit(c) ==
    /\ At(c, "exit")
    /\ Return(c, client)
    /\ UNCHANGED <<shuttingDown, reconnecting, shared, callbacks, lock, coro,
                   cancelled, health, main, link, events, faults>>

\* A Matrix handler or a plugin asks for the client ...
Send ==
    /\ main = "running"
    /\ conn["send"].pc = "idle" /\ sends < MaxSends
    /\ sends' = sends + 1
    /\ Goto("send", "enter")
    /\ UNCHANGED <<shuttingDown, reconnecting, shared, callbacks, inProgress, lock,
                   coro, cancelled, health, main, link, events, fails, drops>>

\* ... and has it, or None.
Sent ==
    /\ At("send", "returned")
    /\ conn' = [conn EXCEPT !["send"] = NoCall]
    /\ UNCHANGED <<shuttingDown, reconnecting, shared, callbacks, inProgress, lock,
                   coro, cancelled, health, main, link, events, faults>>

-----------------------------------------------------------------------------
(* on_lost_meshtastic_connection(), the health check and reconnect(). *)

\* A link breaks; its reader thread calls the callback if it is subscribed.
LinkLost(i) ==
    /\ link[i] = "open" /\ drops < MaxDrops
    /\ drops' = drops + 1
    /\ link' = [link EXCEPT ![i] = "lost"]
    /\ events' = IF subscribed THEN events \cup {i} ELSE events
    /\ UNCHANGED <<shuttingDown, reconnecting, shared, callbacks, inProgress, lock,
                   conn, coro, cancelled, health, main, fails, sends>>

\* Mutant: the interface of the event is not compared.
HandlesAnyInterface(i) ==
    /\ ~shuttingDown
    /\ client = 0 => ~(tearingDown \/ subscribed)
    /\ ~reconnecting

\* An event of interface i is acted on: the guards of the handler.
Handles(i) ==
    /\ ~shuttingDown
    /\ client = 0 => ~(tearingDown \/ subscribed)
    /\ client # 0 => i = (IF activeId # 0 THEN activeId ELSE client)
    /\ ~reconnecting

\* The critical section of on_lost_meshtastic_connection(interface=i).
HandleLost(i) ==
    /\ lock = "free"
    /\ IF Handles(i)
       THEN /\ link' = Closed(client)
            /\ client' = 0 /\ activeId' = 0
            /\ reconnecting' = TRUE
            /\ coro' = "scheduled"
       ELSE UNCHANGED <<link, shared, reconnecting, coro>>

\* Called by the reader thread.
OnLost(i) ==
    /\ i \in events
    /\ HandleLost(i)
    /\ events' = events \ {i}
    /\ UNCHANGED <<shuttingDown, callbacks, inProgress, lock, conn, cancelled,
                   health, main, faults>>

\* check_connection() submits a probe of the current client.
HealthProbe ==
    /\ HealthCheck
    /\ main = "running" /\ ~shuttingDown
    /\ health.pc = "idle"
    /\ client # 0 /\ ~reconnecting
    /\ health' = [pc |-> "probing", iface |-> client]
    /\ UNCHANGED <<shuttingDown, reconnecting, shared, callbacks, inProgress, lock,
                   conn, coro, cancelled, main, link, events, faults>>

\* Whether a failed probe is reported: the client is still the one probed.
Reported == ~reconnecting /\ client = health.iface

HealthIdle == [pc |-> "idle", iface |-> 0]

\* The answer of a working link comes, or there was nothing to ask.
HealthPasses ==
    /\ health.pc = "probing" /\ link[health.iface] = "open"
    /\ health' = HealthIdle
    /\ UNCHANGED <<shuttingDown, reconnecting, shared, callbacks, inProgress, lock,
                   conn, coro, cancelled, main, link, events, faults>>

\* The probe raises or its time is up, which a working link may meet too, or the
\* executor is degraded and nothing was asked.
HealthFails ==
    /\ health.pc = "probing"
    /\ IF link[health.iface] = "open" THEN drops < MaxDrops /\ drops' = drops + 1
                                      ELSE UNCHANGED drops
    /\ health' = IF Reported THEN [health EXCEPT !.pc = "calling"] ELSE HealthIdle
    /\ UNCHANGED <<shuttingDown, reconnecting, shared, callbacks, inProgress, lock,
                   conn, coro, cancelled, main, link, events, fails, sends>>

\* The thread that calls the handler for the health check.
HealthLost ==
    /\ health.pc = "calling"
    /\ HandleLost(health.iface)
    /\ health' = HealthIdle
    /\ UNCHANGED <<shuttingDown, callbacks, inProgress, lock, conn, cancelled, main,
                   events, faults>>

\* The coroutine ends: its finally clause.
CoroEnds ==
    /\ coro' = "off"
    /\ reconnecting' = FALSE

\* The head of its loop, and the backoff.
CoroLoop ==
    /\ coro = "scheduled" /\ ~cancelled
    /\ IF shuttingDown THEN CoroEnds ELSE coro' = "sleep" /\ UNCHANGED reconnecting
    /\ UNCHANGED <<shuttingDown, shared, callbacks, inProgress, lock, conn,
                   cancelled, health, main, link, events, faults>>

\* The backoff of at least DEFAULT_BACKOFF_TIME is over: connect on a worker
\* thread.  main() has long resumed from its own call by then.
CoroConnect ==
    /\ coro = "sleep" /\ ~cancelled
    /\ main # "connecting"
    /\ IF shuttingDown
       THEN CoroEnds /\ UNCHANGED conn
       ELSE /\ coro' = "waiting"
            /\ conn' = [conn EXCEPT !["reconnect"] = [NoCall EXCEPT !.pc = "enter"]]
            /\ UNCHANGED reconnecting
    /\ UNCHANGED <<shuttingDown, shared, callbacks, inProgress, lock, cancelled,
                   health, main, link, events, faults>>

\* Mutant: a call without a client ends the coroutine too.
CoroGivesUp ==
    /\ coro = "waiting" /\ ~cancelled
    /\ At("reconnect", "returned")
    /\ CoroEnds
    /\ conn' = [conn EXCEPT !["reconnect"] = NoCall]
    /\ UNCHANGED <<shuttingDown, shared, callbacks, inProgress, lock, cancelled,
                   health, main, link, events, faults>>

\* The worker thread returned: done with a client, back off without one.
CoroResult ==
    /\ coro = "waiting" /\ ~cancelled
    /\ At("reconnect", "returned")
    /\ IF conn["reconnect"].res # 0 \/ shuttingDown
       THEN CoroEnds
       ELSE coro' = "sleep" /\ UNCHANGED reconnecting
    /\ conn' = [conn EXCEPT !["reconnect"] = NoCall]
    /\ UNCHANGED <<shuttingDown, shared, callbacks, inProgress, lock, cancelled,
                   health, main, link, events, faults>>

\* CancelledError; a coroutine that never ran has no finally clause to run.
CoroCancelled ==
    /\ cancelled /\ coro # "off"
    /\ coro' = "off"
    /\ reconnecting' = (reconnecting /\ coro = "scheduled")
    /\ UNCHANGED <<shuttingDown, shared, callbacks, inProgress, lock, conn,
                   cancelled, health, main, link, events, faults>>

-----------------------------------------------------------------------------
(* main(): startup and shutdown. *)

\* `meshtastic_client = await to_thread(connect_meshtastic)`, without the lock;
\* no client is a ConnectionError and rolls the startup back.
MainConnected ==
    /\ main = "connecting"
    /\ At("main", "returned")
    /\ client' = conn["main"].res
    /\ conn' = [conn EXCEPT !["main"] = NoCall]
    /\ main' = IF conn["main"].res # 0 THEN "running" ELSE "cancelling"
    /\ shuttingDown' = (conn["main"].res = 0)
    /\ UNCHANGED <<reconnecting, activeId, callbacks, inProgress, lock, coro,
                   cancelled, health, link, events, faults>>

\* A signal, a fatal error, or the cancellation of main() while it connects.
Shutdown ==
    /\ Stops
    /\ main \in {"connecting", "running"}
    /\ main' = "cancelling"
    /\ shuttingDown' = TRUE
    /\ health' = IF health.pc = "probing" THEN HealthIdle ELSE health
    /\ UNCHANGED <<reconnecting, shared, callbacks, inProgress, lock, conn, coro,
                   cancelled, link, events, faults>>

\* _cleanup_meshtastic_reconnect_state(): cancel the coroutine, unsubscribe.
CancelReconnect ==
    /\ main = "cancelling"
    /\ cancelled' = (coro # "off")
    /\ main' = "unsubscribing"
    /\ UNCHANGED <<shuttingDown, reconnecting, shared, callbacks, inProgress, lock,
                   conn, coro, health, link, events, faults>>

Unsubscribe ==
    /\ main = "unsubscribing"
    /\ tearingDown' = TRUE /\ subscribed' = FALSE
    /\ main' = "closing"
    /\ UNCHANGED <<shuttingDown, reconnecting, shared, inProgress, lock, conn, coro,
                   cancelled, health, link, events, faults>>

\* _close_meshtastic_client_best_effort(), without the lock.
CloseClient ==
    /\ main = "closing"
    /\ link' = Closed(client)
    /\ main' = IF client = 0 THEN "done" ELSE "clearing"
    /\ UNCHANGED <<shuttingDown, reconnecting, shared, callbacks, inProgress, lock,
                   conn, coro, cancelled, health, events, faults>>

ClearClient ==
    /\ main = "clearing"
    /\ client' = 0
    /\ main' = "done"
    /\ UNCHANGED <<shuttingDown, reconnecting, activeId, callbacks, inProgress, lock,
                   conn, coro, cancelled, health, link, events, faults>>

Connect(c) ==
    \/ Enter(c) \/ WaitGivesUp(c) \/ Begin(c) \/ Section(c) \/ LoopHead(c)
    \/ \E i \in Ifaces : Opened(c, i)
    \/ \E why \in Failures \ {"none"} : Fails(c, why)
    \/ Rollback(c) \/ Acquire(c) \/ CheckBeforePublish(c) \/ Publish(c)
    \/ SetupStep(c) \/ Subscribe(c) \/ Exit(c)

Coroutine == CoroLoop \/ CoroConnect \/ CoroResult \/ CoroCancelled

Health == HealthProbe \/ HealthPasses \/ HealthFails \/ HealthLost

Main == MainConnected \/ CancelReconnect \/ Unsubscribe \/ CloseClient \/ ClearClient

\* The relay is down and its threads are gone.
Finished ==
    /\ main = "done" /\ coro = "off" /\ health.pc # "calling" /\ events = {}
    /\ \A c \in Callers : conn[c].pc \in {"idle", "returned"}
    /\ UNCHANGED vars

Next ==
    \/ \E c \in Callers : Connect(c)
    \/ \E i \in Ifaces : LinkLost(i) \/ OnLost(i)
    \/ Send \/ Sent
    \/ Health \/ Coroutine \/ Main \/ Shutdown \/ Finished

Spec == Init /\ [][Next]_vars

\* Threads and the event loop run on; an interface is opened again and again
\* until it opens.
Fairness ==
    /\ \A c \in Callers : WF_vars(Connect(c))
    /\ \A i \in Ifaces : WF_vars(OnLost(i))
    /\ WF_vars(Sent) /\ WF_vars(Health) /\ WF_vars(Coroutine) /\ WF_vars(Main)

LiveSpec == Spec /\ Fairness

-----------------------------------------------------------------------------
(* Properties *)

InSetup(c, i) == conn[c].iface = i /\ conn[c].pc \in SetupPcs \cup {"acquire"}

\* An interface that was opened and not closed is the current client or in the
\* hands of the call that opened it: failed setups, lost links, forced
\* reconnects, late worker threads and shutdown leave none behind.
NoLeakedInterface ==
    \A i \in Ifaces : link[i] \in {"open", "lost"} =>
        client = i \/ \E c \in Callers : InSetup(c, i)

\* connect_meshtastic() never opens a second interface to the radio while
\* another one is not closed yet, whoever calls it.
OneConnection == Cardinality({i \in Ifaces : link[i] \in {"open", "lost"}}) <= 1

\* When the message queue may send, what it sends to is the interface whose
\* packets and connection-lost events the callbacks accept.
ReadyClientIsActive == ~shuttingDown /\ ~reconnecting /\ client # 0 => client = activeId

\* on_lost_meshtastic_connection() starts reconnect() only when none is running.
OneReconnect == [][coro' = "scheduled" => coro \in {"off", "scheduled"}]_vars

\* The health check gives up the client on a failed probe of it.
HealthCondemns == health.pc = "calling" /\ health.iface = client /\ health' = HealthIdle

\* reconnect() is started only for a client whose link is broken, or of which itself
\* a health probe has failed: events of earlier interfaces, and probes of them that
\* fail late, do not touch a working one.
OnlyBrokenLinksReconnect ==
    [][coro = "off" /\ coro' = "scheduled" =>
          client # 0 /\ (link[client] # "open" \/ HealthCondemns)]_vars

\* A broken link is noticed and replaced, unless the relay shuts down: again and
\* again there is a client with a working link and no reconnect under way.
Recovers ==
    []<>(shuttingDown \/ (client # 0 /\ link[client] = "open" /\ ~reconnecting))

\* After shutdown every interface ends up closed, those included that a worker
\* thread opens after main() closed the client.
ShutdownClosesAll ==
    shuttingDown ~> [](client = 0 /\ \A i \in Ifaces : link[i] \in {"none", "closed"})

\* One interface to the radio, which is the client or is being set up, and whose
\* packets are the ones accepted (connect_meshtastic(), _rollback_connect_attempt_state()).
OneInterface == NoLeakedInterface /\ OneConnection /\ ReadyClientIsActive

\* One reconnect at a time, and only of a broken link or of the client whose own probe
\* failed (on_lost_meshtastic_connection(), _execute_health_probe()).
ReconnectsOnce == OneReconnect /\ OnlyBrokenLinksReconnect
=============================================================================
