----------------------- MODULE MeshConnection_proofs -----------------------
(* Theorems about MeshConnection, for every number of interfaces, failures,  *)
(* broken links, senders and retries, with and without the health check.     *)
EXTENDS MeshConnection, FiniteSetTheorems, TLAPS

IfaceIds == 0..MaxIfaces
CallRecord == [pc : ConnPcs, iface : IfaceIds, why : Failures, attempts : Nat, timeouts : Nat,
               res : IfaceIds]

\* The types the argument needs; it does not depend on how often a call retries.
Types ==
    /\ shuttingDown \in BOOLEAN /\ reconnecting \in BOOLEAN
    /\ subscribed \in BOOLEAN /\ tearingDown \in BOOLEAN /\ cancelled \in BOOLEAN
    /\ client \in IfaceIds /\ activeId \in IfaceIds
    /\ conn \in [Callers -> CallRecord]
    /\ coro \in {"off", "scheduled", "sleep", "waiting"}
    /\ health \in [pc : {"idle", "probing", "calling"}, iface : IfaceIds]
    /\ link \in [Ifaces -> {"none", "open", "lost", "closed"}]
    /\ events \subseteq Ifaces

\* Inside connect_meshtastic(), past the marker.
Inside(c) == conn[c].pc \notin {"idle", "enter", "returned"}

\* The previous connection is closed, the new one is not published.
Between(c) == conn[c].pc \in {"attempt", "opening", "acquire", "locked", "publish"}

\* The new client is published and may have to be taken back.
SettingUp(c) == conn[c].pc \in {"nodeinfo", "metadata", "arm", "subscribe"}

\* The marker lets one call in at a time.
Marker ==
    /\ \A c \in Callers : Inside(c) => inProgress
    /\ \A c, d \in Callers : Inside(c) /\ Inside(d) => c = d

\* Where main() and the coroutine stand, and which calls they have made.
Phases ==
    /\ shuttingDown <=> main \notin {"connecting", "running"}
    /\ main = "connecting" => conn["send"].pc = "idle" /\ conn["reconnect"].pc = "idle"
    /\ main = "connecting" => coro # "waiting"
    /\ cancelled => shuttingDown /\ main # "cancelling"
    /\ ~cancelled /\ coro # "waiting" => conn["reconnect"].pc = "idle"
    /\ coro # "off" => reconnecting
    /\ reconnecting /\ ~shuttingDown => coro # "off"

\* The client while a call replaces it.
Clients ==
    /\ \A c \in Callers : Between(c) => client = 0
    /\ \A c \in Callers : conn[c].pc \in {"acquire", "locked", "publish"} \/ SettingUp(c)
                             => conn[c].iface \in Ifaces
    /\ \A c \in Callers : SettingUp(c) => \/ client = conn[c].iface
                                          \/ client = 0 /\ link[conn[c].iface] = "closed"
    /\ \A c \in Callers : conn[c].pc = "rollback" => client \in {0, conn[c].iface}
    /\ main = "clearing" => /\ client # 0 => link[client] = "closed"
                            /\ \A c \in Callers : Between(c) => conn[c].pc = "attempt"

\* Whatever is named as an interface was opened.
Known ==
    /\ client # 0 => link[client] # "none"
    /\ \A c \in Callers : conn[c].res # 0 => link[conn[c].res] # "none"
    /\ \A c \in Callers : conn[c].pc \in {"acquire", "locked", "publish"} \/ SettingUp(c)
                             => link[conn[c].iface] # "none"
    /\ health.pc # "idle" => health.iface \in Ifaces /\ link[health.iface] # "none"

\* The first call of main(): what it returns is the client, or the client is already
\* lost again and a reconnect is on its way.
FirstCall ==
    main = "connecting" =>
        /\ conn["main"].pc \in {"enter", "begin", "section"} => client = 0
        /\ conn["main"].pc = "exit" => subscribed
        /\ conn["main"].pc = "returned" =>
              /\ client = conn["main"].res \/ (client = 0 /\ reconnecting)
              /\ conn["main"].res # 0 => subscribed

\* main() has put a lost client back: nobody gets past that before reconnect() replaces it.
Stale ==
    /\ activeId = 0 /\ client # 0 /\ reconnecting
    /\ coro # "off" /\ main = "running"
    /\ conn["reconnect"].pc \in {"idle", "enter", "begin", "section", "returned"}
    /\ conn["reconnect"].pc = "returned" => conn["reconnect"].res = 0
    /\ conn["send"].pc \in {"idle", "enter", "begin", "returned"}
    /\ conn["main"].pc = "idle"

Accepted == ~shuttingDown => client = activeId \/ Stale

\* An event is about a link that is broken, a failed probe about one that was opened.
Broken ==
    /\ \A i \in events : link[i] \in {"lost", "closed"}
    /\ events # {} => subscribed \/ tearingDown
    /\ main = "running" => subscribed
    /\ health.pc # "idle" => main # "connecting"

ConnInv ==
    /\ Types /\ Marker /\ Phases /\ Clients /\ Known /\ FirstCall /\ Accepted /\ Broken
    /\ NoLeakedInterface

-----------------------------------------------------------------------------
\* Interfaces are numbered from one; 0 is no interface.
LEMMA Ids ==
    /\ Ifaces \subseteq IfaceIds /\ 0 \in IfaceIds /\ 0 \notin Ifaces
    /\ \A i \in IfaceIds : i # 0 => i \in Ifaces
BY ConnectionAssumption DEF Ifaces, IfaceIds

\* A call moves on: the others stay where they are.
LEMMA GotoFields ==
    ASSUME conn \in [Callers -> CallRecord], NEW c \in Callers, NEW w \in ConnPcs, Goto(c, w)
    PROVE  /\ conn' \in [Callers -> CallRecord]
           /\ conn'[c].pc = w /\ conn'[c].iface = conn[c].iface /\ conn'[c].res = conn[c].res
           /\ conn'[c].why = conn[c].why
           /\ \A d \in Callers \ {c} : conn'[d] = conn[d]
<1> DEFINE r == [conn[c] EXCEPT !.pc = w]
<1>1. conn' = [conn EXCEPT ![c] = r] BY DEF Goto
<1>2. /\ r \in CallRecord /\ r.pc = w /\ r.iface = conn[c].iface /\ r.res = conn[c].res
      /\ r.why = conn[c].why
  BY DEF CallRecord
<1> HIDE DEF r
<1> QED BY <1>1, <1>2

\* A call returns.
LEMMA ReturnFields ==
    ASSUME conn \in [Callers -> CallRecord], NEW c \in Callers, NEW i \in IfaceIds, Return(c, i)
    PROVE  /\ conn' \in [Callers -> CallRecord]
           /\ conn'[c].pc = "returned" /\ conn'[c].res = i
           /\ inProgress' = FALSE
           /\ \A d \in Callers \ {c} : conn'[d] = conn[d]
<1> DEFINE r == [NoCall EXCEPT !.pc = "returned", !.res = i]
<1>1. conn' = [conn EXCEPT ![c] = r] /\ inProgress' = FALSE BY DEF Return
<1>2. r \in CallRecord /\ r.pc = "returned" /\ r.res = i
  BY Ids DEF CallRecord, NoCall, ConnPcs, Failures
<1> HIDE DEF r
<1> QED BY <1>1, <1>2

\* The marker, taken and given back.
LEMMA MarkerStep ==
    ASSUME Marker, NEW c \in Callers, \A d \in Callers \ {c} : conn'[d] = conn[d],
           \/ Inside(c) /\ inProgress' = inProgress
           \/ Inside(c) /\ conn'[c].pc = "returned"
           \/ conn'[c].pc \in {"idle", "enter", "returned"} /\ inProgress' = inProgress
           \/ ~inProgress /\ inProgress'
    PROVE  Marker'
BY DEF Marker, Inside

\* The call of c takes the marker, or gives up waiting for it.
LEMMA InvEnter ==
    ASSUME ConnInv, NEW c \in Callers, Enter(c) \/ WaitGivesUp(c)
    PROVE  ConnInv'
<1> USE DEF ConnInv
<1>1. /\ conn[c].pc = "enter"
      /\ UNCHANGED <<shuttingDown, reconnecting, client, activeId, subscribed, tearingDown, coro, cancelled,
                     health, main, link, events>>
  BY DEF Enter, WaitGivesUp, At, shared, callbacks
<1>2. /\ conn' \in [Callers -> CallRecord]
      /\ \A d \in Callers \ {c} : conn'[d] = conn[d]
      /\ \/ conn'[c].pc = "begin" /\ conn'[c].res = conn[c].res /\ ~inProgress /\ inProgress'
         \/ conn'[c].pc = "returned" /\ conn'[c].res = 0 /\ inProgress' = inProgress
  <2>1. CASE Enter(c) BY <2>1, GotoFields DEF Enter, Types, ConnPcs
  <2>2. CASE WaitGivesUp(c)
    <3> DEFINE r == [conn[c] EXCEPT !.pc = "returned", !.res = 0]
    <3>1. conn' = [conn EXCEPT ![c] = r] BY <2>2 DEF WaitGivesUp
    <3>2. r \in CallRecord /\ r.pc = "returned" /\ r.res = 0 BY Ids DEF CallRecord, ConnPcs, Types
    <3> HIDE DEF r
    <3> QED BY <2>2, <3>1, <3>2 DEF Types, WaitGivesUp
  <2> QED BY <2>1, <2>2
<1>3. Types' BY <1>1, <1>2 DEF Types
<1>4. Marker' BY <1>2, MarkerStep
<1>5. Phases' BY <1>1, <1>2 DEF Phases, Callers
<1>6. Clients' BY <1>1, <1>2 DEF Clients, Between, SettingUp
<1>7. FirstCall' BY <1>1, <1>2 DEF FirstCall, Callers
<1>8. Accepted' BY <1>1, <1>2 DEF Accepted, Stale, Callers
<1>9. Broken' BY <1>1 DEF Broken
<1>10. NoLeakedInterface' BY <1>1, <1>2 DEF NoLeakedInterface, InSetup, SetupPcs
<1>11. Known' BY <1>1, <1>2 DEF Known, SettingUp
<1> QED BY <1>3, <1>4, <1>5, <1>6, <1>7, <1>8, <1>9, <1>10, <1>11

\* The early returns, before the lock.
LEMMA InvBegin ==
    ASSUME ConnInv, NEW c \in Callers, Begin(c)
    PROVE  ConnInv'
<1> USE DEF ConnInv
<1>1. /\ conn[c].pc = "begin"
      /\ UNCHANGED <<shuttingDown, reconnecting, client, activeId, subscribed, tearingDown, coro, cancelled,
                     health, main, link, events>>
  BY DEF Begin, At, shared, callbacks
<1>2. /\ conn' \in [Callers -> CallRecord]
      /\ \A d \in Callers \ {c} : conn'[d] = conn[d]
      /\ \/ conn'[c].pc = "returned" /\ conn'[c].res = 0 /\ (shuttingDown \/ (reconnecting /\ c # "reconnect"))
         \/ /\ conn'[c].pc = "section" /\ conn'[c].res = conn[c].res /\ inProgress' = inProgress
            /\ ~shuttingDown /\ (reconnecting => c = "reconnect")
  BY GotoFields, ReturnFields, Ids DEF Begin, Types, ConnPcs, Forced
<1>3. Types' BY <1>1, <1>2 DEF Types
<1>4. Marker' BY <1>1, <1>2, MarkerStep DEF Inside
<1>5. Phases' BY <1>1, <1>2 DEF Phases, Callers
<1>6. Clients' BY <1>1, <1>2 DEF Clients, Between, SettingUp, Callers
<1>7. FirstCall' BY <1>1, <1>2 DEF FirstCall, Callers
<1>8. Accepted' BY <1>1, <1>2 DEF Accepted, Stale, Callers
<1>9. Broken' BY <1>1, <1>2 DEF Broken
<1>10. NoLeakedInterface' BY <1>1, <1>2 DEF NoLeakedInterface, InSetup, SetupPcs
<1>11. Known' BY <1>1, <1>2 DEF Known, SettingUp
<1> QED BY <1>3, <1>4, <1>5, <1>6, <1>7, <1>8, <1>9, <1>10, <1>11

\* The head of the retry loop.
LEMMA InvLoopHead ==
    ASSUME ConnInv, NEW c \in Callers, LoopHead(c)
    PROVE  ConnInv'
<1> USE DEF ConnInv
<1>1. /\ conn[c].pc = "attempt"
      /\ UNCHANGED <<shuttingDown, reconnecting, client, activeId, subscribed, tearingDown, inProgress, coro,
                     cancelled, health, main, link, events>>
  BY DEF LoopHead, At, shared, callbacks
<1>2. /\ conn' \in [Callers -> CallRecord]
      /\ \A d \in Callers \ {c} : conn'[d] = conn[d]
      /\ conn'[c].iface = conn[c].iface /\ conn'[c].res = conn[c].res
      /\ \/ conn'[c].pc = "exit" /\ shuttingDown
         \/ conn'[c].pc = "opening" /\ ~shuttingDown
  BY GotoFields DEF LoopHead, Types, ConnPcs
<1>3. Types' BY <1>1, <1>2 DEF Types
<1>4. Marker' BY <1>1, <1>2, MarkerStep DEF Inside
<1>5. Phases' BY <1>1, <1>2 DEF Phases, Callers
<1>6. Clients' BY <1>1, <1>2 DEF Clients, Between, SettingUp, Callers, Phases
<1>7. FirstCall' BY <1>1, <1>2 DEF FirstCall, Callers, Phases
<1>8. Accepted' BY <1>1, <1>2 DEF Accepted, Stale, Callers
<1>9. Broken' BY <1>1, <1>2 DEF Broken
<1>10. NoLeakedInterface' BY <1>1, <1>2 DEF NoLeakedInterface, InSetup, SetupPcs
<1>11. Known' BY <1>1, <1>2 DEF Known, SettingUp
<1> QED BY <1>3, <1>4, <1>5, <1>6, <1>7, <1>8, <1>9, <1>10, <1>11

\* The setup takes the lock.
LEMMA InvAcquire ==
    ASSUME ConnInv, NEW c \in Callers, Acquire(c)
    PROVE  ConnInv'
<1> USE DEF ConnInv
<1>1. /\ conn[c].pc = "acquire"
      /\ UNCHANGED <<shuttingDown, reconnecting, client, activeId, subscribed, tearingDown, inProgress, coro,
                     cancelled, health, main, link, events>>
  BY DEF Acquire, At, shared, callbacks
<1>2. /\ conn' \in [Callers -> CallRecord]
      /\ \A d \in Callers \ {c} : conn'[d] = conn[d]
      /\ conn'[c].iface = conn[c].iface /\ conn'[c].res = conn[c].res /\ conn'[c].pc = "locked"
  BY GotoFields DEF Acquire, Types, ConnPcs, SetupPcs
<1>3. Types' BY <1>1, <1>2 DEF Types
<1>4. Marker' BY <1>1, <1>2, MarkerStep DEF Inside
<1>5. Phases' BY <1>1, <1>2 DEF Phases, Callers
<1>6. Clients' BY <1>1, <1>2 DEF Clients, Between, SettingUp, Callers
<1>7. FirstCall' BY <1>1, <1>2 DEF FirstCall, Callers
<1>8. Accepted' BY <1>1, <1>2 DEF Accepted, Stale, Callers
<1>9. Broken' BY <1>1, <1>2 DEF Broken
<1>10. NoLeakedInterface' BY <1>1, <1>2 DEF NoLeakedInterface, InSetup, SetupPcs
<1>11. Known' BY <1>1, <1>2 DEF Known, SettingUp
<1> QED BY <1>3, <1>4, <1>5, <1>6, <1>7, <1>8, <1>9, <1>10, <1>11

\* The callbacks are subscribed.
LEMMA InvSubscribe ==
    ASSUME ConnInv, NEW c \in Callers, Subscribe(c)
    PROVE  ConnInv'
<1> USE DEF ConnInv
<1>1. /\ conn[c].pc = "subscribe" /\ subscribed' = TRUE /\ tearingDown' = FALSE
      /\ UNCHANGED <<shuttingDown, reconnecting, client, activeId, inProgress, coro,
                     cancelled, health, main, link, events>>
  BY DEF Subscribe, At, shared
<1>2. /\ conn' \in [Callers -> CallRecord]
      /\ \A d \in Callers \ {c} : conn'[d] = conn[d]
      /\ conn'[c].iface = conn[c].iface /\ conn'[c].res = conn[c].res /\ conn'[c].pc = "exit"
  BY GotoFields DEF Subscribe, Types, ConnPcs
<1>3. Types' BY <1>1, <1>2 DEF Types
<1>4. Marker' BY <1>1, <1>2, MarkerStep DEF Inside
<1>5. Phases' BY <1>1, <1>2 DEF Phases, Callers
<1>6. Clients' BY <1>1, <1>2 DEF Clients, Between, SettingUp, Callers
<1>7. FirstCall' BY <1>1, <1>2 DEF FirstCall, Callers
<1>8. Accepted' BY <1>1, <1>2 DEF Accepted, Stale, Callers
<1>9. Broken' BY <1>1, <1>2 DEF Broken
<1>10. NoLeakedInterface' BY <1>1, <1>2 DEF NoLeakedInterface, InSetup, SetupPcs, Clients, SettingUp
<1>11. Known' BY <1>1, <1>2 DEF Known, SettingUp
<1> QED BY <1>3, <1>4, <1>5, <1>6, <1>7, <1>8, <1>9, <1>10, <1>11

\* The loop is left and the client returned.
LEMMA InvExit ==
    ASSUME ConnInv, NEW c \in Callers, Exit(c)
    PROVE  ConnInv'
<1> USE DEF ConnInv
<1>1. /\ conn[c].pc = "exit"
      /\ UNCHANGED <<shuttingDown, reconnecting, client, activeId, subscribed, tearingDown, coro,
                     cancelled, health, main, link, events>>
  BY DEF Exit, At, shared, callbacks
<1>2. /\ conn' \in [Callers -> CallRecord]
      /\ \A d \in Callers \ {c} : conn'[d] = conn[d]
      /\ conn'[c].res = client /\ conn'[c].pc = "returned"
  BY ReturnFields DEF Exit, Types
<1>3. Types' BY <1>1, <1>2 DEF Types
<1>4. Marker' BY <1>1, <1>2, MarkerStep DEF Inside
<1>5. Phases' BY <1>1, <1>2 DEF Phases, Callers
<1>6. Clients' BY <1>1, <1>2 DEF Clients, Between, SettingUp, Callers
<1>7. FirstCall' BY <1>1, <1>2 DEF FirstCall, Callers
<1>8. Accepted' BY <1>1, <1>2 DEF Accepted, Stale, Callers
<1>9. Broken' BY <1>1, <1>2 DEF Broken
<1>10. NoLeakedInterface' BY <1>1, <1>2 DEF NoLeakedInterface, InSetup, SetupPcs
<1>11. Known' BY <1>1, <1>2 DEF Known, SettingUp
<1> QED BY <1>3, <1>4, <1>5, <1>6, <1>7, <1>8, <1>9, <1>10, <1>11

\* The first critical section.
LEMMA InvSection ==
    ASSUME ConnInv, NEW c \in Callers, Section(c)
    PROVE  ConnInv'
<1> USE DEF ConnInv
<1>1. /\ conn[c].pc = "section"
      /\ UNCHANGED <<shuttingDown, reconnecting, subscribed, tearingDown, coro,
                     cancelled, health, main, events>>
  BY DEF Section, At, callbacks
<1>2. /\ conn' \in [Callers -> CallRecord]
      /\ \A d \in Callers \ {c} : conn'[d] = conn[d]
      /\ \/ /\ conn'[c].pc = "returned" /\ conn'[c].res = client /\ client # 0 /\ c # "reconnect"
            /\ UNCHANGED <<client, activeId, link>>
         \/ /\ conn'[c].pc = "attempt" /\ conn'[c].res = conn[c].res /\ inProgress' = inProgress
            /\ client = 0 \/ c = "reconnect"
            /\ client' = 0 /\ activeId' = (IF client # 0 THEN 0 ELSE activeId)
            /\ link' = Closed(client)
  BY GotoFields, ReturnFields DEF Section, Types, ConnPcs, Forced, shared
<1>3. /\ link' \in [Ifaces -> {"none", "open", "lost", "closed"}]
      /\ \A i \in Ifaces : link'[i] = link[i] \/ (i = client /\ link'[i] = "closed" /\ client' = 0)
      /\ client # 0 /\ client' = 0 => link'[client] = "closed"
  BY <1>2, Ids DEF Closed, Types
<1>4. Types' BY <1>1, <1>2, <1>3, Ids DEF Types
<1>5. Marker' BY <1>1, <1>2, <1>3, Ids, MarkerStep DEF Inside
<1>6. Phases' BY <1>1, <1>2, <1>3, Ids DEF Phases, Callers
<1>7. Clients' BY <1>1, <1>2, <1>3, Ids DEF Clients, Between, SettingUp, Callers, Marker, Inside, Types
<1>8. FirstCall' BY <1>1, <1>2, <1>3, Ids DEF FirstCall, Callers, Types, Phases
<1>9. Accepted' BY <1>1, <1>2, <1>3, Ids DEF Accepted, Stale, Callers
<1>10. Broken' BY <1>1, <1>2, <1>3, Ids DEF Broken, Types, Known
<1>11. NoLeakedInterface' BY <1>1, <1>2, <1>3, Ids DEF NoLeakedInterface, InSetup, SetupPcs, Types
<1>12. Known' BY <1>1, <1>2, <1>3, Ids DEF Known, SettingUp, Types, CallRecord, Clients
<1> QED BY <1>4, <1>5, <1>6, <1>7, <1>8, <1>9, <1>10, <1>11, <1>12

\* An interface opens.
LEMMA InvOpened ==
    ASSUME ConnInv, NEW c \in Callers, NEW i \in Ifaces, Opened(c, i)
    PROVE  ConnInv'
<1> USE DEF ConnInv
<1>1. /\ conn[c].pc = "opening" /\ link[i] = "none"
      /\ link' = [link EXCEPT ![i] = "open"]
      /\ UNCHANGED <<shuttingDown, reconnecting, client, activeId, subscribed, tearingDown, inProgress, coro,
                     cancelled, health, main, events>>
  BY DEF Opened, At, callbacks, shared
<1>2. /\ conn' \in [Callers -> CallRecord]
      /\ \A d \in Callers \ {c} : conn'[d] = conn[d]
      /\ conn'[c].pc = "acquire" /\ conn'[c].iface = i /\ conn'[c].res = conn[c].res
  <2> DEFINE r == [conn[c] EXCEPT !.pc = "acquire", !.iface = i]
  <2>1. conn' = [conn EXCEPT ![c] = r] BY DEF Opened
  <2>2. r \in CallRecord /\ r.pc = "acquire" /\ r.iface = i /\ r.res = conn[c].res
    BY Ids DEF CallRecord, ConnPcs, Types
  <2> HIDE DEF r
  <2> QED BY <2>1, <2>2 DEF Types
<1>3. /\ link' \in [Ifaces -> {"none", "open", "lost", "closed"}]
      /\ link'[i] = "open" /\ \A j \in Ifaces \ {i} : link'[j] = link[j]
  BY <1>1 DEF Types
<1>4. Types' BY <1>1, <1>2, <1>3, Ids DEF Types
<1>5. Marker' BY <1>1, <1>2, <1>3, Ids, MarkerStep DEF Inside
<1>6. Phases' BY <1>1, <1>2, <1>3, Ids DEF Phases, Callers
<1>7. Clients' BY <1>1, <1>2, <1>3, Ids DEF Clients, Between, SettingUp, Callers, Types
<1>8. FirstCall' BY <1>1, <1>2, <1>3, Ids DEF FirstCall, Callers
<1>9. Accepted' BY <1>1, <1>2, <1>3, Ids DEF Accepted, Stale, Callers
<1>10. Broken' BY <1>1, <1>2, <1>3, Ids DEF Broken, Types, Known
<1>11. NoLeakedInterface' BY <1>1, <1>2, <1>3, Ids DEF NoLeakedInterface, InSetup, SetupPcs
<1>12. Known' BY <1>1, <1>2, <1>3, Ids DEF Known, SettingUp, Types, CallRecord
<1> QED BY <1>4, <1>5, <1>6, <1>7, <1>8, <1>9, <1>10, <1>11, <1>12

\* An attempt fails, before or in the setup.
LEMMA InvFails ==
    ASSUME ConnInv, NEW c \in Callers, NEW why \in Failures, Fails(c, why)
    PROVE  ConnInv'
<1> USE DEF ConnInv
<1>1. /\ conn[c].pc \in {"opening", "nodeinfo", "metadata"}
      /\ UNCHANGED <<shuttingDown, reconnecting, client, activeId, subscribed, tearingDown, inProgress, coro,
                     cancelled, health, main, link, events>>
  BY DEF Fails, shared, callbacks
<1>2. /\ conn' \in [Callers -> CallRecord]
      /\ \A d \in Callers \ {c} : conn'[d] = conn[d]
      /\ conn'[c].pc = "rollback" /\ conn'[c].iface = conn[c].iface /\ conn'[c].res = conn[c].res
  <2> DEFINE r == [conn[c] EXCEPT !.pc = "rollback", !.why = why]
  <2>1. conn' = [conn EXCEPT ![c] = r] BY DEF Fails
  <2>2. r \in CallRecord /\ r.pc = "rollback" /\ r.iface = conn[c].iface /\ r.res = conn[c].res
    BY DEF CallRecord, ConnPcs, Types
  <2> HIDE DEF r
  <2> QED BY <2>1, <2>2 DEF Types
<1>3. Types' BY <1>1, <1>2 DEF Types
<1>4. Marker' BY <1>1, <1>2, MarkerStep DEF Inside
<1>5. Phases' BY <1>1, <1>2 DEF Phases, Callers
<1>6. Clients' BY <1>1, <1>2 DEF Clients, Between, SettingUp, Callers
<1>7. FirstCall' BY <1>1, <1>2 DEF FirstCall, Callers
<1>8. Accepted' BY <1>1, <1>2 DEF Accepted, Stale, Callers
<1>9. Broken' BY <1>1, <1>2 DEF Broken
<1>10. NoLeakedInterface' BY <1>1, <1>2 DEF NoLeakedInterface, InSetup, SetupPcs, Clients, SettingUp
<1>11. Known' BY <1>1, <1>2 DEF Known, SettingUp
<1> QED BY <1>3, <1>4, <1>5, <1>6, <1>7, <1>8, <1>9, <1>10, <1>11

\* Taking back the published client closes it; nothing else is closed.
LEMMA RollbackCloses ==
    ASSUME Types, NEW c \in Callers, RollbackState(c)
    PROVE  /\ client' \in IfaceIds /\ activeId' \in IfaceIds
           /\ link' \in [Ifaces -> {"none", "open", "lost", "closed"}]
           /\ \A i \in Ifaces : link'[i] = link[i] \/ (i = client /\ link'[i] = "closed")
           /\ \/ client' = client /\ activeId' = activeId /\ link' = link /\ (client = 0 \/ client # conn[c].iface)
              \/ client # 0 /\ client' = 0 /\ activeId' = 0 /\ link'[client] = "closed"
BY Ids DEF Types, RollbackState, Closed, shared

\* The handler of a failed attempt.
LEMMA InvRollback ==
    ASSUME ConnInv, NEW c \in Callers, Rollback(c)
    PROVE  ConnInv'
<1> USE DEF ConnInv
<1>1. /\ conn[c].pc = "rollback" /\ RollbackState(c)
      /\ UNCHANGED <<shuttingDown, reconnecting, subscribed, tearingDown, coro, cancelled, health, main, events>>
  BY DEF Rollback, At, callbacks
<1>2. /\ conn' \in [Callers -> CallRecord]
      /\ \A d \in Callers \ {c} : conn'[d] = conn[d]
      /\ \/ conn'[c].pc = "attempt" /\ conn'[c].res = conn[c].res /\ inProgress' = inProgress
         \/ conn'[c].pc = "exit" /\ shuttingDown /\ conn'[c].res = conn[c].res /\ inProgress' = inProgress
         \/ conn'[c].pc = "returned" /\ conn'[c].res = 0
  <2>1. CASE Retries(c)
    <3> DEFINE n == conn[c].attempts + 1
               t == IF conn[c].why = "timeout" /\ RetryLimit = 0 THEN conn[c].timeouts + 1 ELSE conn[c].timeouts
               r == [conn[c] EXCEPT !.pc = "attempt", !.why = "none", !.iface = 0, !.attempts = n,
                                    !.timeouts = t]
    <3>0. n \in Nat /\ t \in Nat BY DEF Types, CallRecord
    <3>1. conn' = [conn EXCEPT ![c] = r] /\ inProgress' = inProgress BY <2>1 DEF Rollback
    <3> HIDE DEF n, t
    <3>2. r \in CallRecord /\ r.pc = "attempt" /\ r.res = conn[c].res
      BY <3>0, Ids DEF CallRecord, ConnPcs, Types, Failures
    <3> HIDE DEF r
    <3> QED BY <3>1, <3>2 DEF Types
  <2>2. CASE ~Retries(c)
    BY <2>2, GotoFields, ReturnFields, Ids DEF Rollback, Types, ConnPcs
  <2> QED BY <2>1, <2>2
<1>3. /\ client' = 0 /\ activeId' \in IfaceIds
      /\ link' \in [Ifaces -> {"none", "open", "lost", "closed"}]
      /\ \A i \in Ifaces : link'[i] = link[i] \/ (i = client /\ link'[i] = "closed")
      /\ client # 0 => activeId' = 0 /\ link'[client] = "closed"
      /\ client = 0 => activeId' = activeId
  <2>1. client \in {0, conn[c].iface} BY <1>1 DEF Clients
  <2> QED BY <1>1, <2>1, RollbackCloses
<1>4. Types' BY <1>1, <1>2, <1>3, Ids DEF Types
<1>5. Marker' BY <1>1, <1>2, <1>3, Ids, MarkerStep DEF Inside
<1>6. Phases' BY <1>1, <1>2, <1>3, Ids DEF Phases, Callers
<1>7. Clients' BY <1>1, <1>2, <1>3, Ids DEF Clients, Between, SettingUp, Callers, Types, Marker, Inside
<1>8. FirstCall' BY <1>1, <1>2, <1>3, Ids DEF FirstCall, Callers, Phases, Types
<1>9. Accepted' BY <1>1, <1>2, <1>3, Ids DEF Accepted, Stale, Callers
<1>10. Broken' BY <1>1, <1>2, <1>3, Ids DEF Broken, Types, Known
<1>11. NoLeakedInterface' BY <1>1, <1>2, <1>3, Ids DEF NoLeakedInterface, InSetup, SetupPcs, Types
<1>12. Known' BY <1>1, <1>2, <1>3, Ids DEF Known, SettingUp, Types, CallRecord, Clients
<1> QED BY <1>4, <1>5, <1>6, <1>7, <1>8, <1>9, <1>10, <1>11, <1>12

\* Shutdown is looked at before the client is published.
LEMMA InvCheckBeforePublish ==
    ASSUME ConnInv, NEW c \in Callers, CheckBeforePublish(c)
    PROVE  ConnInv'
<1> USE DEF ConnInv
<1>1. /\ conn[c].pc = "locked" /\ conn[c].iface \in Ifaces
      /\ UNCHANGED <<shuttingDown, reconnecting, client, activeId, subscribed, tearingDown, coro, cancelled,
                     health, main, events>>
  BY DEF CheckBeforePublish, At, callbacks, shared, Clients
<1>2. /\ conn' \in [Callers -> CallRecord]
      /\ \A d \in Callers \ {c} : conn'[d] = conn[d]
      /\ \/ conn'[c].pc = "returned" /\ conn'[c].res = 0 /\ shuttingDown
            /\ link' = [link EXCEPT ![conn[c].iface] = "closed"]
         \/ /\ conn'[c].pc = "publish" /\ conn'[c].res = conn[c].res /\ conn'[c].iface = conn[c].iface
            /\ inProgress' = inProgress /\ link' = link
  BY <1>1, GotoFields, ReturnFields, Ids DEF CheckBeforePublish, Types, ConnPcs, SetupPcs, Closed
<1>3. /\ link' \in [Ifaces -> {"none", "open", "lost", "closed"}]
      /\ \A i \in Ifaces : link'[i] = link[i] \/ (i = conn[c].iface /\ link'[i] = "closed" /\ conn'[c].pc = "returned")
  BY <1>1, <1>2 DEF Types
<1>4. Types' BY <1>1, <1>2, <1>3, Ids DEF Types
<1>5. Marker' BY <1>1, <1>2, <1>3, Ids, MarkerStep DEF Inside
<1>6. Phases' BY <1>1, <1>2, <1>3, Ids DEF Phases, Callers
<1>7. Clients' BY <1>1, <1>2, <1>3, Ids DEF Clients, Between, SettingUp, Callers, Types, Marker, Inside
<1>8. FirstCall' BY <1>1, <1>2, <1>3, Ids DEF FirstCall, Callers, Phases
<1>9. Accepted' BY <1>1, <1>2, <1>3, Ids DEF Accepted, Stale, Callers
<1>10. Broken' BY <1>1, <1>2, <1>3, Ids DEF Broken, Types, Known
<1>11. NoLeakedInterface' BY <1>1, <1>2, <1>3, Ids DEF NoLeakedInterface, InSetup, SetupPcs, Types
<1>12. Known' BY <1>1, <1>2, <1>3, Ids DEF Known, SettingUp, Types, CallRecord, Clients
<1> QED BY <1>4, <1>5, <1>6, <1>7, <1>8, <1>9, <1>10, <1>11, <1>12

\* The client is published.
LEMMA InvPublish ==
    ASSUME ConnInv, NEW c \in Callers, Publish(c)
    PROVE  ConnInv'
<1> USE DEF ConnInv
<1>1. /\ conn[c].pc = "publish" /\ conn[c].iface \in Ifaces /\ client' = conn[c].iface /\ activeId' = conn[c].iface
      /\ UNCHANGED <<shuttingDown, reconnecting, subscribed, tearingDown, inProgress, coro, cancelled,
                     health, main, link, events>>
  BY DEF Publish, At, callbacks, Clients
<1>2. /\ conn' \in [Callers -> CallRecord]
      /\ \A d \in Callers \ {c} : conn'[d] = conn[d]
      /\ conn'[c].pc = "nodeinfo" /\ conn'[c].res = conn[c].res /\ conn'[c].iface = conn[c].iface
  BY GotoFields DEF Publish, Types, ConnPcs, SetupPcs
<1>3. client = 0 /\ \A d \in Callers \ {c} : ~Inside(d) BY <1>1 DEF Clients, Between, Marker, Inside
<1>4. Types' BY <1>1, <1>2, <1>3, Ids DEF Types
<1>5. Marker' BY <1>1, <1>2, <1>3, Ids, MarkerStep DEF Inside
<1>6. Phases' BY <1>1, <1>2, <1>3, Ids DEF Phases, Callers
<1>7. Clients' BY <1>1, <1>2, <1>3, Ids DEF Clients, Between, SettingUp, Callers, Inside
<1>8. FirstCall' BY <1>1, <1>2, <1>3, Ids DEF FirstCall, Callers, Phases
<1>9. Accepted' BY <1>1, <1>2, <1>3, Ids DEF Accepted, Stale, Callers
<1>10. Broken' BY <1>1, <1>2, <1>3, Ids DEF Broken
<1>11. NoLeakedInterface' BY <1>1, <1>2, <1>3, Ids DEF NoLeakedInterface, InSetup, SetupPcs
<1>12. Known' BY <1>1, <1>2, <1>3, Ids DEF Known, SettingUp
<1> QED BY <1>4, <1>5, <1>6, <1>7, <1>8, <1>9, <1>10, <1>11, <1>12

\* A step of the setup; a shutdown seen after it takes the client back.
LEMMA InvSetupStep ==
    ASSUME ConnInv, NEW c \in Callers, SetupStep(c)
    PROVE  ConnInv'
<1> USE DEF ConnInv
<1>1. /\ conn[c].pc \in {"nodeinfo", "metadata", "arm"}
      /\ UNCHANGED <<shuttingDown, reconnecting, subscribed, tearingDown, coro, cancelled,
                     health, main, events>>
  BY DEF SetupStep, callbacks, NextSetup
<1>2. /\ conn' \in [Callers -> CallRecord]
      /\ \A d \in Callers \ {c} : conn'[d] = conn[d]
      /\ \/ conn'[c].pc = "returned" /\ conn'[c].res = 0 /\ shuttingDown /\ RollbackState(c)
         \/ /\ conn'[c].pc \in {"metadata", "arm", "subscribe"}
            /\ conn'[c].res = conn[c].res /\ conn'[c].iface = conn[c].iface
            /\ UNCHANGED <<inProgress, link, client, activeId>>
  <2>1. CASE shuttingDown BY <2>1, ReturnFields, Ids DEF SetupStep, Types
  <2>2. CASE ~shuttingDown
    <3>1. NextSetup[conn[c].pc] \in {"metadata", "arm", "subscribe"} BY <1>1 DEF NextSetup
    <3>2. Goto(c, NextSetup[conn[c].pc]) /\ UNCHANGED <<inProgress, link, client, activeId>>
      BY <2>2 DEF SetupStep, shared
    <3> QED BY <3>1, <3>2, GotoFields DEF Types, ConnPcs, SetupPcs
  <2> QED BY <2>1, <2>2
<1>3. /\ client' \in IfaceIds /\ activeId' \in IfaceIds
      /\ link' \in [Ifaces -> {"none", "open", "lost", "closed"}]
      /\ \A i \in Ifaces : link'[i] = link[i] \/ (i = client /\ link'[i] = "closed")
      /\ \/ /\ client' = client /\ activeId' = activeId /\ link' = link
            /\ conn'[c].pc = "returned" => client = 0
         \/ /\ client # 0 /\ client' = 0 /\ activeId' = 0 /\ link'[client] = "closed"
            /\ conn'[c].pc = "returned" /\ shuttingDown
  <2>1. client \in {0, conn[c].iface} BY <1>1 DEF Clients, SettingUp
  <2> QED BY <1>1, <1>2, <2>1, RollbackCloses DEF Types
<1>4. \A d \in Callers \ {c} : ~Inside(d) BY <1>1 DEF Marker, Inside
<1>5. Types' BY <1>1, <1>2, <1>3, <1>4, Ids DEF Types
<1>6. Marker' BY <1>1, <1>2, <1>3, <1>4, Ids, MarkerStep DEF Inside
<1>7. Phases' BY <1>1, <1>2, <1>3, <1>4, Ids DEF Phases, Callers
<1>8. Clients' BY <1>1, <1>2, <1>3, <1>4, Ids DEF Clients, Between, SettingUp, Callers, Inside
<1>9. FirstCall' BY <1>1, <1>2, <1>3, <1>4, Ids DEF FirstCall, Callers, Phases, Types
<1>10. Accepted' BY <1>1, <1>2, <1>3, <1>4, Ids DEF Accepted, Stale, Callers
<1>11. Broken' BY <1>1, <1>2, <1>3, <1>4, Ids DEF Broken, Types, Known
<1>12. NoLeakedInterface' BY <1>1, <1>2, <1>3, <1>4, Ids DEF NoLeakedInterface, InSetup, SetupPcs, Types, Clients, SettingUp
<1>13. Known' BY <1>1, <1>2, <1>3, <1>4, Ids DEF Known, SettingUp, Types, CallRecord, Clients
<1> QED BY <1>5, <1>6, <1>7, <1>8, <1>9, <1>10, <1>11, <1>12, <1>13

\* A sender calls, and is answered.
LEMMA InvSend ==
    ASSUME ConnInv, Send \/ Sent
    PROVE  ConnInv'
<1> USE DEF ConnInv
<1>1. UNCHANGED <<shuttingDown, reconnecting, client, activeId, subscribed, tearingDown, inProgress, coro, cancelled,
                  health, main, link, events>>
  BY DEF Send, Sent, shared, callbacks
<1>2. /\ conn' \in [Callers -> CallRecord]
      /\ \A d \in Callers \ {"send"} : conn'[d] = conn[d]
      /\ \/ /\ conn["send"].pc = "idle" /\ conn'["send"].pc = "enter" /\ main = "running"
            /\ conn'["send"].res = conn["send"].res
         \/ conn["send"].pc = "returned" /\ conn'["send"].pc = "idle" /\ conn'["send"].res = 0
  <2>1. CASE Send BY <2>1, GotoFields DEF Send, Types, ConnPcs, Callers
  <2>2. CASE Sent BY <2>2, Ids DEF Sent, At, Types, NoCall, CallRecord, ConnPcs, Failures, Callers
  <2> QED BY <2>1, <2>2
<1>3. "send" \in Callers BY DEF Callers
<1>4. Types' BY <1>1, <1>2, <1>3 DEF Types
<1>5. Marker' BY <1>1, <1>2, <1>3, MarkerStep DEF Inside
<1>6. Phases' BY <1>1, <1>2, <1>3 DEF Phases, Callers
<1>7. Clients' BY <1>1, <1>2, <1>3 DEF Clients, Between, SettingUp, Callers
<1>8. FirstCall' BY <1>1, <1>2, <1>3 DEF FirstCall, Callers
<1>9. Accepted' BY <1>1, <1>2, <1>3 DEF Accepted, Stale, Callers
<1>10. Broken' BY <1>1, <1>2, <1>3 DEF Broken
<1>11. NoLeakedInterface' BY <1>1, <1>2, <1>3 DEF NoLeakedInterface, InSetup, SetupPcs
<1>12. Known' BY <1>1, <1>2, <1>3 DEF Known, SettingUp
<1> QED BY <1>4, <1>5, <1>6, <1>7, <1>8, <1>9, <1>10, <1>11, <1>12

\* A link breaks.
LEMMA InvLinkLost ==
    ASSUME ConnInv, NEW i \in Ifaces, LinkLost(i)
    PROVE  ConnInv'
<1> USE DEF ConnInv
<1>1. /\ link[i] = "open" /\ link' = [link EXCEPT ![i] = "lost"]
      /\ events' = (IF subscribed THEN events \cup {i} ELSE events)
      /\ UNCHANGED <<shuttingDown, reconnecting, client, activeId, subscribed, tearingDown, inProgress, conn, coro,
                     cancelled, health, main>>
  BY DEF LinkLost, shared, callbacks
<1>2. /\ link' \in [Ifaces -> {"none", "open", "lost", "closed"}]
      /\ link'[i] = "lost" /\ \A j \in Ifaces \ {i} : link'[j] = link[j]
  BY <1>1 DEF Types
<1>3. Types' BY <1>1, <1>2, Ids DEF Types
<1>4. Marker' BY <1>1, <1>2, Ids DEF Marker, Inside
<1>5. Phases' BY <1>1, <1>2, Ids DEF Phases, Callers
<1>6. Clients' BY <1>1, <1>2, Ids DEF Clients, Between, SettingUp, Callers, Types
<1>7. FirstCall' BY <1>1, <1>2, Ids DEF FirstCall, Callers
<1>8. Accepted' BY <1>1, <1>2, Ids DEF Accepted, Stale, Callers
<1>9. Broken' BY <1>1, <1>2, Ids DEF Broken, Types, Known
<1>10. NoLeakedInterface' BY <1>1, <1>2, Ids DEF NoLeakedInterface, InSetup, SetupPcs
<1>11. Known' BY <1>1, <1>2, Ids DEF Known, SettingUp, Types, CallRecord
<1> QED BY <1>3, <1>4, <1>5, <1>6, <1>7, <1>8, <1>9, <1>10, <1>11

\* An event is acted on only when it is about the current client, and no reconnect is under
\* way.
LEMMA HandledIsClient ==
    ASSUME ConnInv, NEW i \in Ifaces, Handles(i), subscribed \/ tearingDown \/ shuttingDown
    PROVE  /\ ~shuttingDown /\ ~reconnecting /\ coro = "off"
           /\ client = i /\ activeId = i
BY Ids DEF ConnInv, Types, Handles, Phases, Accepted, Stale

\* What on_lost_meshtastic_connection() does to the connection.
LEMMA LostFields ==
    ASSUME ConnInv, NEW i \in Ifaces, HandleLost(i), subscribed \/ tearingDown \/ shuttingDown
    PROVE  /\ link' \in [Ifaces -> {"none", "open", "lost", "closed"}]
           /\ \A j \in Ifaces : link'[j] = link[j] \/ (j = client /\ link'[j] = "closed")
           /\ \/ UNCHANGED <<client, activeId, link, reconnecting, coro>>
              \/ /\ ~shuttingDown /\ ~reconnecting /\ coro = "off"
                 /\ client = i /\ activeId = i
                 /\ client' = 0 /\ activeId' = 0 /\ reconnecting' = TRUE /\ coro' = "scheduled"
                 /\ link'[client] = "closed"
<1>1. CASE Handles(i)
  BY <1>1, HandledIsClient, Ids DEF HandleLost, ConnInv, Types, Closed
<1>2. CASE ~Handles(i)
  BY <1>2 DEF HandleLost, ConnInv, Types, shared
<1> QED BY <1>1, <1>2

\* The callback of the reader thread and the call of the health check.
LEMMA LostCalls ==
    ASSUME ConnInv, (\E i \in Ifaces : OnLost(i)) \/ HealthLost
    PROVE  \E i \in Ifaces : /\ subscribed \/ tearingDown \/ shuttingDown
                             /\ HandleLost(i)
                             /\ \/ link[i] # "open" /\ events' = events \ {i} /\ health' = health
                                \/ /\ events' = events /\ health' = HealthIdle
                                   /\ health.pc = "calling" /\ health.iface = i
                             /\ UNCHANGED <<shuttingDown, subscribed, tearingDown, inProgress, conn, cancelled, main>>
<1>1. ASSUME NEW i \in Ifaces, OnLost(i)
      PROVE  /\ link[i] # "open" /\ (subscribed \/ tearingDown \/ shuttingDown)
             /\ HandleLost(i) /\ events' = events \ {i} /\ health' = health
             /\ UNCHANGED <<shuttingDown, subscribed, tearingDown, inProgress, conn, cancelled, main>>
  BY <1>1 DEF OnLost, callbacks, ConnInv, Broken
<1>2. CASE HealthLost
  <2>1. /\ health.iface \in Ifaces /\ health.pc = "calling" /\ HandleLost(health.iface)
        /\ events' = events /\ health' = HealthIdle
        /\ UNCHANGED <<shuttingDown, subscribed, tearingDown, inProgress, conn, cancelled, main>>
    BY <1>2 DEF HealthLost, callbacks, ConnInv, Broken, Known
  <2>2. subscribed \/ shuttingDown BY <1>2 DEF HealthLost, ConnInv, Broken, Phases
  <2> QED BY <2>1, <2>2
<1> QED BY <1>1, <1>2

\* A lost link is handled.
LEMMA InvLost ==
    ASSUME ConnInv, (\E i \in Ifaces : OnLost(i)) \/ HealthLost
    PROVE  ConnInv'
<1> USE DEF ConnInv
<1>1. PICK i \in Ifaces :
         /\ subscribed \/ tearingDown \/ shuttingDown
         /\ HandleLost(i)
         /\ \/ events' = events \ {i} /\ health' = health
            \/ events' = events /\ health' = HealthIdle
         /\ UNCHANGED <<shuttingDown, subscribed, tearingDown, inProgress, conn, cancelled, main>>
  BY LostCalls
<1>2. /\ link' \in [Ifaces -> {"none", "open", "lost", "closed"}]
      /\ \A j \in Ifaces : link'[j] = link[j] \/ (j = client /\ link'[j] = "closed")
      /\ \/ UNCHANGED <<client, activeId, link, reconnecting, coro>>
         \/ /\ ~shuttingDown /\ ~reconnecting /\ coro = "off"
            /\ client = i /\ activeId = i
            /\ client' = 0 /\ activeId' = 0 /\ reconnecting' = TRUE /\ coro' = "scheduled"
            /\ link'[client] = "closed"
  BY <1>1, LostFields
<1>3. health' \in [pc : {"idle", "probing", "calling"}, iface : IfaceIds] /\ events' \subseteq Ifaces
  BY <1>1, Ids DEF Types, HealthIdle
<1> USE DEF HealthIdle
<1>4. Types' BY <1>1, <1>2, <1>3, Ids DEF Types
<1>5. Marker' BY <1>1, <1>2, <1>3, Ids DEF Marker, Inside
<1>6. Phases' BY <1>1, <1>2, <1>3, Ids DEF Phases, Callers
<1>7. Clients' BY <1>1, <1>2, <1>3, Ids DEF Clients, Between, SettingUp, Callers, Types
<1>8. FirstCall' BY <1>1, <1>2, <1>3, Ids DEF FirstCall, Callers, Phases
<1>9. Accepted' BY <1>1, <1>2, <1>3, Ids DEF Accepted, Stale, Callers
<1>10. Broken' BY <1>1, <1>2, <1>3, Ids DEF Broken, Types, Known
<1>11. NoLeakedInterface' BY <1>1, <1>2, <1>3, Ids DEF NoLeakedInterface, InSetup, SetupPcs, Types
<1>12. Known' BY <1>1, <1>2, <1>3, Ids DEF Known, SettingUp, Types, CallRecord, Clients
<1> QED BY <1>4, <1>5, <1>6, <1>7, <1>8, <1>9, <1>10, <1>11, <1>12

\* The health check probes the client and learns the answer.
LEMMA InvHealth ==
    ASSUME ConnInv, HealthProbe \/ HealthPasses \/ HealthFails
    PROVE  ConnInv'
<1> USE DEF ConnInv
<1>1. UNCHANGED <<shuttingDown, reconnecting, client, activeId, subscribed, tearingDown, inProgress, conn, coro,
                  cancelled, main, link, events>>
  BY DEF HealthProbe, HealthPasses, HealthFails, shared, callbacks
<1>2. /\ health' \in [pc : {"idle", "probing", "calling"}, iface : IfaceIds]
      /\ \/ health'.pc = "probing" /\ health'.iface = client /\ client # 0 /\ main = "running"
         \/ health'.pc = "idle"
         \/ health'.pc = "calling" /\ health'.iface = health.iface /\ health.pc = "probing"
  <2>1. CASE HealthProbe BY <2>1 DEF HealthProbe, Types
  <2>2. CASE HealthPasses BY <2>2, Ids DEF HealthPasses, HealthIdle, Types
  <2>3. CASE HealthFails BY <2>3, Ids DEF HealthFails, HealthIdle, Types
  <2> QED BY <2>1, <2>2, <2>3
<1>3. Types' BY <1>1, <1>2, Ids DEF Types
<1>4. Marker' BY <1>1, <1>2, Ids DEF Marker, Inside
<1>5. Phases' BY <1>1, <1>2, Ids DEF Phases, Callers
<1>6. Clients' BY <1>1, <1>2, Ids DEF Clients, Between, SettingUp, Callers
<1>7. FirstCall' BY <1>1, <1>2, Ids DEF FirstCall, Callers
<1>8. Accepted' BY <1>1, <1>2, Ids DEF Accepted, Stale, Callers
<1>9. Broken' BY <1>1, <1>2, Ids DEF Broken
<1>10. NoLeakedInterface' BY <1>1, <1>2, Ids DEF NoLeakedInterface, InSetup, SetupPcs
<1>11. Known' BY <1>1, <1>2, Ids DEF Known, SettingUp, Types
<1> QED BY <1>3, <1>4, <1>5, <1>6, <1>7, <1>8, <1>9, <1>10, <1>11

\* The head of the loop of reconnect(), and its cancellation.
LEMMA InvCoroLoop ==
    ASSUME ConnInv, CoroLoop \/ CoroCancelled
    PROVE  ConnInv'
<1> USE DEF ConnInv
<1>1. UNCHANGED <<shuttingDown, client, activeId, subscribed, tearingDown, inProgress, conn, cancelled, health,
                  main, link, events>>
  BY DEF CoroLoop, CoroCancelled, shared, callbacks
<1>2. \/ /\ coro = "scheduled" /\ coro' = "sleep" /\ reconnecting' = reconnecting
      \/ /\ coro = "scheduled" /\ shuttingDown /\ ~cancelled /\ coro' = "off" /\ reconnecting' = FALSE
      \/ /\ cancelled /\ coro' = "off" /\ reconnecting' \in BOOLEAN
  BY DEF CoroLoop, CoroCancelled, CoroEnds, Types
<1>3. Types' BY <1>1, <1>2 DEF Types
<1>4. Marker' BY <1>1, <1>2 DEF Marker, Inside
<1>5. Phases' BY <1>1, <1>2 DEF Phases, Callers
<1>6. Clients' BY <1>1, <1>2 DEF Clients, Between, SettingUp, Callers
<1>7. FirstCall' BY <1>1, <1>2 DEF FirstCall, Callers, Phases
<1>8. Accepted' BY <1>1, <1>2 DEF Accepted, Stale, Callers, Phases
<1>9. Broken' BY <1>1, <1>2 DEF Broken
<1>10. NoLeakedInterface' BY <1>1, <1>2 DEF NoLeakedInterface, InSetup, SetupPcs
<1>11. Known' BY <1>1, <1>2 DEF Known, SettingUp
<1> QED BY <1>3, <1>4, <1>5, <1>6, <1>7, <1>8, <1>9, <1>10, <1>11

\* reconnect() calls connect_meshtastic().
LEMMA InvCoroConnect ==
    ASSUME ConnInv, CoroConnect
    PROVE  ConnInv'
<1> USE DEF ConnInv
<1>1. /\ coro = "sleep" /\ ~cancelled /\ main # "connecting"
      /\ UNCHANGED <<shuttingDown, client, activeId, subscribed, tearingDown, inProgress, cancelled, health,
                     main, link, events>>
  BY DEF CoroConnect, shared, callbacks
<1>2. conn["reconnect"].pc = "idle" /\ "reconnect" \in Callers BY <1>1 DEF Phases, Callers
<1>3. \/ conn' = conn /\ shuttingDown /\ coro' = "off" /\ reconnecting' = FALSE
      \/ /\ conn' \in [Callers -> CallRecord]
         /\ \A d \in Callers \ {"reconnect"} : conn'[d] = conn[d]
         /\ conn'["reconnect"].pc = "enter" /\ conn'["reconnect"].res = 0
         /\ coro' = "waiting" /\ reconnecting' = reconnecting
  <2>1. CASE shuttingDown BY <2>1 DEF CoroConnect, CoroEnds
  <2>2. CASE ~shuttingDown
    <3> DEFINE r == [NoCall EXCEPT !.pc = "enter"]
    <3>1. conn' = [conn EXCEPT !["reconnect"] = r] /\ coro' = "waiting" /\ reconnecting' = reconnecting
      BY <2>2 DEF CoroConnect
    <3>2. r \in CallRecord /\ r.pc = "enter" /\ r.res = 0
      BY Ids DEF NoCall, CallRecord, ConnPcs, Failures
    <3> HIDE DEF r
    <3> QED BY <3>1, <3>2, <1>2 DEF Types
  <2> QED BY <2>1, <2>2
<1>4. Types' BY <1>1, <1>2, <1>3 DEF Types
<1>5. Marker' BY <1>1, <1>2, <1>3, MarkerStep DEF Inside, Marker
<1>6. Phases' BY <1>1, <1>2, <1>3 DEF Phases, Callers, Types
<1>7. Clients' BY <1>1, <1>2, <1>3 DEF Clients, Between, SettingUp, Callers
<1>8. FirstCall' BY <1>1, <1>2, <1>3 DEF FirstCall, Callers
<1>9. Accepted' BY <1>1, <1>2, <1>3 DEF Accepted, Stale, Callers, Phases
<1>10. Broken' BY <1>1, <1>2, <1>3 DEF Broken
<1>11. NoLeakedInterface' BY <1>1, <1>2, <1>3 DEF NoLeakedInterface, InSetup, SetupPcs
<1>12. Known' BY <1>1, <1>2, <1>3 DEF Known, SettingUp
<1> QED BY <1>4, <1>5, <1>6, <1>7, <1>8, <1>9, <1>10, <1>11, <1>12

\* reconnect() has the answer of its call.
LEMMA InvCoroResult ==
    ASSUME ConnInv, CoroResult
    PROVE  ConnInv'
<1> USE DEF ConnInv
<1>1. /\ coro = "waiting" /\ ~cancelled /\ conn["reconnect"].pc = "returned" /\ "reconnect" \in Callers
      /\ UNCHANGED <<shuttingDown, client, activeId, subscribed, tearingDown, inProgress, cancelled, health,
                     main, link, events>>
  BY DEF CoroResult, shared, callbacks, At, Callers
<1>2. /\ conn' \in [Callers -> CallRecord]
      /\ \A d \in Callers \ {"reconnect"} : conn'[d] = conn[d]
      /\ conn'["reconnect"].pc = "idle" /\ conn'["reconnect"].res = 0
  BY Ids DEF CoroResult, Callers, Types, NoCall, CallRecord, ConnPcs, Failures
<1>3. \/ (conn["reconnect"].res # 0 \/ shuttingDown) /\ coro' = "off" /\ reconnecting' = FALSE
      \/ coro' = "sleep" /\ reconnecting' = reconnecting
  BY DEF CoroResult, CoroEnds
<1>4. Types' BY <1>1, <1>2, <1>3 DEF Types
<1>5. Marker' BY <1>1, <1>2, <1>3, MarkerStep DEF Inside
<1>6. Phases' BY <1>1, <1>2, <1>3 DEF Phases, Callers
<1>7. Clients' BY <1>1, <1>2, <1>3 DEF Clients, Between, SettingUp, Callers
<1>8. FirstCall' BY <1>1, <1>2, <1>3 DEF FirstCall, Callers, Phases
<1>9. Accepted' BY <1>1, <1>2, <1>3 DEF Accepted, Stale, Callers
<1>10. Broken' BY <1>1, <1>2, <1>3 DEF Broken
<1>11. NoLeakedInterface' BY <1>1, <1>2, <1>3 DEF NoLeakedInterface, InSetup, SetupPcs
<1>12. Known' BY <1>1, <1>2, <1>3 DEF Known, SettingUp
<1> QED BY <1>4, <1>5, <1>6, <1>7, <1>8, <1>9, <1>10, <1>11, <1>12

\* main() takes what its call returned.
LEMMA InvMainConnected ==
    ASSUME ConnInv, MainConnected
    PROVE  ConnInv'
<1> USE DEF ConnInv
<1>1. /\ main = "connecting" /\ conn["main"].pc = "returned" /\ "main" \in Callers
      /\ client' = conn["main"].res /\ conn["main"].res \in IfaceIds
      /\ main' = (IF conn["main"].res # 0 THEN "running" ELSE "cancelling")
      /\ shuttingDown' = (conn["main"].res = 0)
      /\ UNCHANGED <<reconnecting, activeId, subscribed, tearingDown, inProgress, coro, cancelled, health, link, events>>
  BY DEF MainConnected, shared, callbacks, At, Callers, Types, CallRecord
<1>2. /\ conn' \in [Callers -> CallRecord]
      /\ \A d \in Callers \ {"main"} : conn'[d] = conn[d]
      /\ conn'["main"].pc = "idle" /\ conn'["main"].res = 0
  BY Ids DEF MainConnected, Types, NoCall, CallRecord, ConnPcs, Failures, Callers
<1>3. /\ client = conn["main"].res \/ (client = 0 /\ reconnecting)
      /\ conn["main"].res # 0 => subscribed
      /\ conn["send"].pc = "idle" /\ conn["reconnect"].pc = "idle" /\ ~shuttingDown
      /\ client = activeId
  BY <1>1 DEF FirstCall, Phases, Accepted, Stale
<1>4. Types' BY <1>1, <1>2, <1>3, Ids DEF Types
<1>5. Marker' BY <1>1, <1>2, <1>3, Ids, MarkerStep DEF Inside
<1>6. Phases' BY <1>1, <1>2, <1>3, Ids DEF Phases, Callers
<1>7. Clients' BY <1>1, <1>2, <1>3, Ids DEF Clients, Between, SettingUp, Callers
<1>8. FirstCall' BY <1>1, <1>2, <1>3, Ids DEF FirstCall, Callers
<1>9. Accepted' BY <1>1, <1>2, <1>3, Ids DEF Accepted, Stale, Callers, Phases
<1>10. Broken' BY <1>1, <1>2, <1>3, Ids DEF Broken
<1>11. NoLeakedInterface' BY <1>1, <1>2, <1>3, Ids DEF NoLeakedInterface, InSetup, SetupPcs
<1>12. Known' BY <1>1, <1>2, <1>3, Ids DEF Known, SettingUp
<1> QED BY <1>4, <1>5, <1>6, <1>7, <1>8, <1>9, <1>10, <1>11, <1>12

\* The relay is told to shut down.
LEMMA InvShutdown ==
    ASSUME ConnInv, Shutdown
    PROVE  ConnInv'
<1> USE DEF ConnInv
<1>1. /\ UNCHANGED <<reconnecting, client, activeId, subscribed, tearingDown, inProgress, conn, coro, cancelled, link, events>>
      /\ main \in {"connecting", "running"} /\ main' = "cancelling" /\ shuttingDown' = TRUE
      /\ health' \in [pc : {"idle", "probing", "calling"}, iface : IfaceIds]
      /\ health' = health \/ health'.pc = "idle"
  BY Ids DEF Shutdown, shared, callbacks, Types, HealthIdle
<1>2. Types' BY <1>1 DEF Types
<1>3. Marker' BY <1>1 DEF Marker, Inside
<1>4. Phases' BY <1>1 DEF Phases, Callers
<1>5. Clients' BY <1>1 DEF Clients, Between, SettingUp, Callers
<1>6. FirstCall' BY <1>1 DEF FirstCall, Callers
<1>7. Accepted' BY <1>1 DEF Accepted, Stale, Callers
<1>8. Broken' BY <1>1 DEF Broken
<1>9. NoLeakedInterface' BY <1>1 DEF NoLeakedInterface, InSetup, SetupPcs
<1>10. Known' BY <1>1 DEF Known, SettingUp
<1> QED BY <1>2, <1>3, <1>4, <1>5, <1>6, <1>7, <1>8, <1>9, <1>10

\* main() cancels reconnect().
LEMMA InvCancelReconnect ==
    ASSUME ConnInv, CancelReconnect
    PROVE  ConnInv'
<1> USE DEF ConnInv
<1>1. /\ UNCHANGED <<reconnecting, client, activeId, subscribed, tearingDown, inProgress, conn, coro, link, events,
                     shuttingDown, health>>
      /\ main = "cancelling" /\ main' = "unsubscribing"
  BY DEF CancelReconnect, shared, callbacks
<1>2. cancelled' = (coro # "off") BY Zenon DEF CancelReconnect
<1>3. shuttingDown /\ ~cancelled BY <1>1 DEF Phases
<1>4. cancelled' \in BOOLEAN /\ (cancelled' <=> coro # "off") BY <1>2, Zenon
<1>5. Types' BY <1>1, <1>3, <1>4 DEF Types
<1>6. Marker' BY <1>1, <1>3, <1>4 DEF Marker, Inside
<1>7. Phases' BY <1>1, <1>3, <1>4 DEF Phases, Callers
<1>8. Clients' BY <1>1, <1>3, <1>4 DEF Clients, Between, SettingUp, Callers
<1>9. FirstCall' BY <1>1, <1>3, <1>4 DEF FirstCall, Callers
<1>10. Accepted' BY <1>1, <1>3, <1>4 DEF Accepted, Stale, Callers
<1>11. Broken' BY <1>1, <1>3, <1>4 DEF Broken
<1>12. NoLeakedInterface' BY <1>1, <1>3, <1>4 DEF NoLeakedInterface, InSetup, SetupPcs
<1>13. Known' BY <1>1, <1>3, <1>4 DEF Known, SettingUp
<1> QED BY <1>5, <1>6, <1>7, <1>8, <1>9, <1>10, <1>11, <1>12, <1>13

\* main() unsubscribes the callbacks, closes the client and forgets it.
LEMMA InvClose ==
    ASSUME ConnInv, Unsubscribe \/ CloseClient \/ ClearClient
    PROVE  ConnInv'
<1> USE DEF ConnInv
<1>1. /\ UNCHANGED <<shuttingDown, reconnecting, activeId, inProgress, conn, coro, cancelled, health, events>>
      /\ main \in {"unsubscribing", "closing", "clearing"} /\ main' \in {"closing", "clearing", "done"}
  BY DEF Unsubscribe, CloseClient, ClearClient, shared, callbacks
<1>2. /\ link' \in [Ifaces -> {"none", "open", "lost", "closed"}]
      /\ \A i \in Ifaces : link'[i] = link[i] \/ (i = client /\ link'[i] = "closed")
      /\ \/ /\ subscribed' = FALSE /\ tearingDown' = TRUE /\ main' = "closing" /\ UNCHANGED <<client, link>>
         \/ /\ UNCHANGED <<subscribed, tearingDown, client>>
            /\ client # 0 => link'[client] = "closed"
            /\ main' = "clearing" => client # 0
         \/ /\ UNCHANGED <<subscribed, tearingDown, link>>
            /\ client' = 0 /\ main = "clearing" /\ main' = "done"
  BY Ids DEF Unsubscribe, CloseClient, ClearClient, Closed, Types, shared, callbacks
<1>3. shuttingDown BY <1>1 DEF Phases
<1>4. Types' BY <1>1, <1>2, <1>3, Ids DEF Types
<1>5. Marker' BY <1>1, <1>2, <1>3, Ids DEF Marker, Inside
<1>6. Phases' BY <1>1, <1>2, <1>3, Ids DEF Phases, Callers
<1>7. Clients' BY <1>1, <1>2, <1>3, Ids DEF Clients, Between, SettingUp, Callers, Types
<1>8. FirstCall' BY <1>1, <1>2, <1>3, Ids DEF FirstCall, Callers
<1>9. Accepted' BY <1>1, <1>2, <1>3, Ids DEF Accepted, Stale, Callers
<1>10. Broken' BY <1>1, <1>2, <1>3, Ids DEF Broken, Types, Known
<1>11. NoLeakedInterface' BY <1>1, <1>2, <1>3, Ids DEF NoLeakedInterface, InSetup, SetupPcs, Types, Clients
<1>12. Known' BY <1>1, <1>2, <1>3, Ids DEF Known, SettingUp, Types, CallRecord, Clients
<1> QED BY <1>4, <1>5, <1>6, <1>7, <1>8, <1>9, <1>10, <1>11, <1>12

-----------------------------------------------------------------------------
\* At the start there is no connection.
LEMMA InitConnInv == Init => ConnInv
<1> SUFFICES ASSUME Init PROVE ConnInv OBVIOUS
<1>1. /\ conn \in [Callers -> CallRecord]
      /\ \A c \in Callers : conn[c].pc \in {"idle", "enter"} /\ conn[c].res = 0
      /\ conn["main"].pc = "enter" /\ conn["send"].pc = "idle" /\ conn["reconnect"].pc = "idle"
  <2> DEFINE r == [NoCall EXCEPT !.pc = "enter"]
  <2>1. /\ r \in CallRecord /\ r.pc = "enter" /\ r.res = 0
        /\ NoCall \in CallRecord /\ NoCall.pc = "idle" /\ NoCall.res = 0
    BY Ids DEF NoCall, CallRecord, ConnPcs, Failures
  <2>2. conn = [c \in Callers |-> IF c = "main" THEN r ELSE NoCall] BY DEF Init
  <2> HIDE DEF r
  <2> QED BY <2>1, <2>2 DEF Callers
<1>2. /\ shuttingDown = FALSE /\ reconnecting = FALSE /\ client = 0 /\ activeId = 0
      /\ subscribed = FALSE /\ tearingDown = FALSE /\ coro = "off" /\ cancelled = FALSE
      /\ health = [pc |-> "idle", iface |-> 0] /\ main = "connecting"
      /\ link = [i \in Ifaces |-> "none"] /\ events = {}
  BY DEF Init
<1>3. Types BY <1>1, <1>2, Ids DEF Types
<1>4. Marker BY <1>1 DEF Marker, Inside
<1>5. Phases BY <1>1, <1>2 DEF Phases
<1>6. Clients BY <1>1, <1>2 DEF Clients, Between, SettingUp
<1>7. Known BY <1>1, <1>2 DEF Known, SettingUp
<1>8. FirstCall BY <1>1, <1>2 DEF FirstCall
<1>9. Accepted /\ Broken /\ NoLeakedInterface BY <1>1, <1>2 DEF Accepted, Broken, NoLeakedInterface
<1> QED BY <1>3, <1>4, <1>5, <1>6, <1>7, <1>8, <1>9 DEF ConnInv

\* Every step of a call of connect_meshtastic() preserves the invariant.
LEMMA InvConnect ==
    ASSUME ConnInv, NEW c \in Callers, Connect(c)
    PROVE  ConnInv'
<1>1. CASE Enter(c) \/ WaitGivesUp(c) BY <1>1, InvEnter
<1>2. CASE Begin(c) BY <1>2, InvBegin
<1>3. CASE Section(c) BY <1>3, InvSection
<1>4. CASE LoopHead(c) BY <1>4, InvLoopHead
<1>5. CASE \E i \in Ifaces : Opened(c, i) BY <1>5, InvOpened
<1>6. CASE \E why \in Failures \ {"none"} : Fails(c, why) BY <1>6, InvFails
<1>7. CASE Rollback(c) BY <1>7, InvRollback
<1>8. CASE Acquire(c) BY <1>8, InvAcquire
<1>9. CASE CheckBeforePublish(c) BY <1>9, InvCheckBeforePublish
<1>10. CASE Publish(c) BY <1>10, InvPublish
<1>11. CASE SetupStep(c) BY <1>11, InvSetupStep
<1>12. CASE Subscribe(c) BY <1>12, InvSubscribe
<1>13. CASE Exit(c) BY <1>13, InvExit
<1> QED BY <1>1, <1>2, <1>3, <1>4, <1>5, <1>6, <1>7, <1>8, <1>9, <1>10, <1>11, <1>12, <1>13 DEF Connect

\* Every step preserves the invariant.
LEMMA InvNext == ConnInv /\ [Next]_vars => ConnInv'
<1> SUFFICES ASSUME ConnInv, [Next]_vars PROVE ConnInv' OBVIOUS
<1>1. CASE \E c \in Callers : Connect(c) BY <1>1, InvConnect
<1>2. CASE \E i \in Ifaces : LinkLost(i) BY <1>2, InvLinkLost
<1>3. CASE (\E i \in Ifaces : OnLost(i)) \/ HealthLost BY <1>3, InvLost
<1>4. CASE Send \/ Sent BY <1>4, InvSend
<1>5. CASE HealthProbe \/ HealthPasses \/ HealthFails BY <1>5, InvHealth
<1>6. CASE CoroLoop \/ CoroCancelled BY <1>6, InvCoroLoop
<1>7. CASE CoroConnect BY <1>7, InvCoroConnect
<1>8. CASE CoroResult BY <1>8, InvCoroResult
<1>9. CASE MainConnected BY <1>9, InvMainConnected
<1>10. CASE Shutdown BY <1>10, InvShutdown
<1>11. CASE CancelReconnect BY <1>11, InvCancelReconnect
<1>12. CASE Unsubscribe \/ CloseClient \/ ClearClient BY <1>12, InvClose
<1>13. CASE UNCHANGED vars
  <2>1. UNCHANGED <<shuttingDown, reconnecting, client, activeId, subscribed, tearingDown, inProgress, conn, coro,
                    cancelled, health, main, link, events>>
    BY <1>13 DEF vars, shared, callbacks
  <2>2. Types' /\ Marker' /\ Phases' BY <2>1 DEF ConnInv, Types, Marker, Inside, Phases
  <2>3. Clients' /\ Known' BY <2>1 DEF ConnInv, Clients, Known, Between, SettingUp
  <2>4. FirstCall' /\ Accepted' BY <2>1 DEF ConnInv, FirstCall, Accepted, Stale
  <2>5. Broken' /\ NoLeakedInterface' BY <2>1 DEF ConnInv, Broken, NoLeakedInterface, InSetup
  <2> QED BY <2>2, <2>3, <2>4, <2>5 DEF ConnInv
<1> QED
  BY <1>1, <1>2, <1>3, <1>4, <1>5, <1>6, <1>7, <1>8, <1>9, <1>10, <1>11, <1>12, <1>13
  DEF Next, Health, Coroutine, Main, Finished

\* Two interfaces that are not closed are the same one: the client, or the one in setup.
LEMMA LinkIsUnique ==
    ASSUME ConnInv, NEW i \in Ifaces, NEW j \in Ifaces, link[i] \in {"open", "lost"}, link[j] \in {"open", "lost"}
    PROVE  i = j
<1>1. ASSUME NEW k \in Ifaces, link[k] \in {"open", "lost"}, NEW c \in Callers, InSetup(c, k)
      PROVE  Inside(c) /\ conn[c].iface = k /\ client \in {0, k}
  BY <1>1, Ids DEF ConnInv, InSetup, SetupPcs, Inside, Clients, Between, SettingUp
<1>2. CASE client = i /\ client = j BY <1>2
<1>3. CASE client = i /\ \E c \in Callers : InSetup(c, j) BY <1>1, <1>3, Ids
<1>4. CASE client = j /\ \E c \in Callers : InSetup(c, i) BY <1>1, <1>4, Ids
<1>5. CASE (\E c \in Callers : InSetup(c, i)) /\ \E c \in Callers : InSetup(c, j)
  BY <1>1, <1>5 DEF ConnInv, Marker
<1> QED BY <1>2, <1>3, <1>4, <1>5 DEF ConnInv, NoLeakedInterface

\* What connect_meshtastic(), its rollback, on_lost_meshtastic_connection() and the shutdown
\* promise together follows from the invariant.
LEMMA ConnInvIsOneInterface == ConnInv => OneInterface
<1> SUFFICES ASSUME ConnInv PROVE OneInterface OBVIOUS
<1>1. OneConnection
  <2> DEFINE S == {i \in Ifaces : link[i] \in {"open", "lost"}}
  <2>1. \A i, j \in S : i = j BY LinkIsUnique
  <2>2. CASE S = {} BY <2>2, FS_EmptySet DEF OneConnection
  <2>3. CASE S # {}
    <3>1. PICK i \in S : TRUE BY <2>3
    <3>2. S = {i} BY <2>1, <3>1
    <3>3. Cardinality(S) = 1 BY <3>2, FS_Singleton
    <3> QED BY <3>3 DEF OneConnection
  <2> QED BY <2>2, <2>3
<1>2. ReadyClientIsActive BY DEF ConnInv, Accepted, Stale, ReadyClientIsActive
<1> QED BY <1>1, <1>2 DEF ConnInv, OneInterface

\* Whatever calls of connect_meshtastic(), broken links, health checks and the shutdown do in
\* whatever order: one interface to the radio at a time, which is the client or is being set
\* up, and whose packets are the ones accepted while the relay may send.
THEOREM OneInterfaceAlways == Spec => []OneInterface
<1>1. Init => ConnInv BY InitConnInv
<1>2. ConnInv /\ [Next]_vars => ConnInv' BY InvNext
<1>3. ConnInv => OneInterface BY ConnInvIsOneInterface
<1> QED BY <1>1, <1>2, <1>3, PTL DEF Spec

\* A step that schedules reconnect() is a handled loss.
LEMMA OnlyLossesReconnect ==
    ASSUME ConnInv, [Next]_vars
    PROVE  \/ coro' # "scheduled" \/ coro' = coro
           \/ coro = "off" /\ client # 0 /\ (link[client] # "open" \/ HealthCondemns)
<1>1. CASE (\E i \in Ifaces : OnLost(i)) \/ HealthLost
  <2>1. PICK i \in Ifaces : /\ subscribed \/ tearingDown \/ shuttingDown
                            /\ HandleLost(i)
                            /\ \/ link[i] # "open"
                               \/ health.pc = "calling" /\ health.iface = i /\ health' = HealthIdle
    BY <1>1, LostCalls
  <2>2. coro' = coro \/ (coro = "off" /\ client = i) BY <2>1, LostFields
  <2> QED BY <2>1, <2>2, Ids DEF HealthCondemns
<1>2. CASE \E c \in Callers : Connect(c)
  BY <1>2 DEF Connect, Enter, WaitGivesUp, Begin, Section, LoopHead, Opened, Fails, Rollback, Acquire,
             CheckBeforePublish, Publish, SetupStep, Subscribe, Exit
<1>3. CASE (\E i \in Ifaces : LinkLost(i)) \/ Send \/ Sent \/ HealthProbe \/ HealthPasses \/ HealthFails
  BY <1>3 DEF LinkLost, Send, Sent, HealthProbe, HealthPasses, HealthFails
<1>4. CASE Coroutine BY <1>4 DEF Coroutine, CoroLoop, CoroConnect, CoroResult, CoroCancelled, CoroEnds
<1>5. CASE Main \/ Shutdown
  BY <1>5 DEF Main, MainConnected, CancelReconnect, Unsubscribe, CloseClient, ClearClient, Shutdown
<1>6. CASE UNCHANGED vars BY <1>6 DEF vars
<1> QED BY <1>1, <1>2, <1>3, <1>4, <1>5, <1>6 DEF Next, Health, Finished

\* on_lost_meshtastic_connection() starts reconnect() only when none is running, and only for
\* a client whose link is broken or whose own probe failed: events of earlier interfaces and
\* late failures of their probes start none.
THEOREM ReconnectsAreSound == Spec => ReconnectsOnce
<1>1. Init => ConnInv BY InitConnInv
<1>2. ConnInv /\ [Next]_vars => ConnInv' BY InvNext
<1>3. ConnInv /\ [Next]_vars => (coro' = "scheduled" => coro \in {"off", "scheduled"}) BY OnlyLossesReconnect
<1>4. ConnInv /\ [Next]_vars => (coro = "off" /\ coro' = "scheduled" =>
                                    client # 0 /\ (link[client] # "open" \/ HealthCondemns))
  BY OnlyLossesReconnect
<1> QED BY <1>1, <1>2, <1>3, <1>4, PTL DEF Spec, ReconnectsOnce, OneReconnect, OnlyBrokenLinksReconnect
=============================================================================
