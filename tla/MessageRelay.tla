---------------------------- MODULE MessageRelay ----------------------------
(***************************************************************************)
(* The two directions of the relay over one message map, for several       *)
(* relays that share Matrix rooms: on_meshtastic_message() with packet     *)
(* routing and plugins, matrix_relay() with its retries, on_room_message() *)
(* with reactions, replies, remote meshnets, commands and detection        *)
(* packets, and the store, lookup and pruning of message_map.              *)
(*                                                                         *)
(* Each relay serves a radio mesh of its own and a bot of its own.  What   *)
(* people say is an utterance; a packet (radio) and an event (Matrix) are  *)
(* copies of one.  Texts, names and prefixes are left out.                 *)
(***************************************************************************)
EXTENDS Integers, Sequences, FiniteSets, SequencesExt

CONSTANTS
  Relays,         \* relay instances; each is also the name of its meshnet
  Deployments,    \* sets of relays that may run side by side
  Rooms,          \* Matrix rooms
  RoomChannel,    \* RoomChannel[r][room]: meshtastic_channel of the room in r's matrix_rooms
  Configs,        \* Configs[n]: configurations a relay may have when n relays run
  MeshTexts,      \* MeshTexts[n]: the n-th utterance, sent by a radio node: [port, to, ch]
  RoomTexts,      \* RoomTexts[n]: the n-th utterance, written in a room (its command shape)
  MaxSaid,        \* bound: MaxSaid[n] utterances when n relays run
  MaxCopies,      \* bound: packets, and events
  MaxRetries      \* retries of _send_matrix_message_with_retry()

Unmapped == -1        \* the room is not configured, or has no usable channel
NoMesh == "no mesh"   \* an event without meshtastic_meshnet
User == "user"        \* a person in the room
None == 0             \* no packet, no event, no utterance

\* What a configuration says, and what a radio node sends.
Config ==
  [interactions : STRING, reactions : BOOLEAN, replies : BOOLEAN, broadcast : BOOLEAN,
   detection : BOOLEAN, encrypted : STRING, chat : SUBSET STRING, disabled : SUBSET STRING,
   keep : Int, mention : BOOLEAN, meshRelay : BOOLEAN]

MeshText == [port : STRING, to : {"all", "relay", "node"}, ch : Int]

ASSUME RelayAssumption ==
  /\ MaxCopies \in Nat /\ MaxRetries \in Nat
  /\ NoMesh \notin Relays /\ User \notin Relays
  /\ IsFiniteSet(Rooms) /\ Rooms \cap Relays = {}
  /\ RoomChannel \in [Relays -> [Rooms -> Int]]
  /\ \A d \in Deployments : LET n == Cardinality(d) IN
       /\ d \subseteq Relays
       /\ MaxSaid[n] \in Nat /\ Configs[n] \subseteq Config
       /\ \A i \in 1..MaxSaid[n] : MeshTexts[i] \subseteq MeshText /\ RoomTexts[i] \subseteq STRING

VARIABLES
  said,       \* the utterances: where, and which utterance they answer
  packets,    \* every packet on the air, by packet id
  events,     \* every event in a room, by event id, in sync order
  inbox,      \* inbox[r]: packets the radio handed to the pubsub callback
  seen,       \* seen[r]: events the sync loop of r has handed to on_room_message()
  tasks,      \* matrix_relay() coroutines that are running
  queue,      \* queue[r]: messages waiting in the message queue of r
  sending,    \* sending[r]: the sent message whose mapping is being stored
  map,        \* map[r]: rows of message_map by rowid
  cfg,        \* cfg[r]: the configuration of r
  running,    \* the relays of this deployment
  dropped,    \* utterances a relay took and gave up, or a plugin took
  missed      \* packets that came while their relay was not ready for them

vars == <<said, packets, events, inbox, seen, tasks, queue, sending, map, cfg, running, dropped, missed>>

-----------------------------------------------------------------------------
(* Configuration.                                                          *)

\* get_interaction_settings(): the new section if there is one, the legacy switch
\* for reactions only, and everything off for a section of the wrong type.
get_interaction_settings(c) ==
  CASE c.interactions = "section" -> [reactions |-> c.reactions, replies |-> c.replies]
    [] c.interactions = "legacy"  -> [reactions |-> c.reactions, replies |-> FALSE]
    [] OTHER                      -> [reactions |-> FALSE, replies |-> FALSE]

Reactions(r) == get_interaction_settings(cfg[r]).reactions
Replies(r) == get_interaction_settings(cfg[r]).replies

message_storage_enabled(r) == Reactions(r) \/ Replies(r)

\* A value that is not an integer falls back to the default; zero keeps everything.
MsgsToKeep(r) == cfg[r].keep

\* What happens to an encrypted packet; anything but the two words is the default.
get_encrypted_action(c) == IF c.encrypted = "drop" THEN "drop" ELSE "plugin_only"

\* chat_portnums and disabled_portnums, unknown entries dropped.
get_packet_routing_overrides(c) ==
  [chat |-> c.chat \ {"unknown"}, disabled |-> c.disabled \ {"unknown"}]

(* Order matters: encryption, then disabled ports, then chat ports, and the *)
(* detection sensor switch guards both ways a detection packet may relay.   *)
classify_packet(c, port) ==
  LET o == get_packet_routing_overrides(c)
  IN  IF port = "encrypted"          THEN get_encrypted_action(c)
      ELSE IF port \in o.disabled   THEN "drop"
      ELSE IF port = "detection"    THEN IF c.detection THEN "relay" ELSE "plugin_only"
      ELSE IF port \in o.chat \cup {"text"} THEN "relay"
      ELSE "plugin_only"

\* A room whose channel is no number is skipped.
normalize_room_channel(r, room) == RoomChannel[r][room]

RoomsOf(r, ch) == {room \in Rooms : normalize_room_channel(r, room) = ch /\ ch # Unmapped}

-----------------------------------------------------------------------------
(* message_map: a sequence of rows in rowid order.                         *)

Row(p, e, room) == [pkt |-> p, ev |-> e, room |-> room]

\* Mutant: the newest row counts, whatever packet it is of.
NewestRow(r, p) ==
  IF map[r] = << >> THEN Row(None, None, None) ELSE map[r][Len(map[r])]

\* The first row in rowid order: one packet may have a row for each of its rooms.
get_message_map_by_meshtastic_id(r, p) ==
  LET rows == {i \in DOMAIN map[r] : map[r][i].pkt = p}
  IN  IF rows = {} THEN Row(None, None, None) ELSE map[r][Min(rows)]

get_message_map_by_matrix_event_id(r, e) ==
  LET rows == {i \in DOMAIN map[r] : map[r][i].ev = e}
  IN  IF rows = {} THEN Row(None, None, None) ELSE map[r][Min(rows)]

\* An upsert by event id: a known event keeps its rowid.
store_message_map_core(rows, row) ==
  IF \E i \in DOMAIN rows : rows[i].ev = row.ev
  THEN [i \in DOMAIN rows |-> IF rows[i].ev = row.ev THEN row ELSE rows[i]]
  ELSE Append(rows, row)

\* Mutant: pruning keeps one row too many.
OneMore(rows, keep) ==
  IF Len(rows) > keep + 1 THEN SubSeq(rows, Len(rows) - keep + 1, Len(rows)) ELSE rows

\* Deletes the oldest rows beyond the number to keep.
prune_message_map_core(rows, keep) ==
  IF Len(rows) > keep THEN SubSeq(rows, Len(rows) - keep + 1, Len(rows)) ELSE rows

Pruned(r, rows) == IF MsgsToKeep(r) > 0 THEN prune_message_map_core(rows, MsgsToKeep(r)) ELSE rows

-----------------------------------------------------------------------------
Packet(mesh, of, ch, port, to, reply, emoji) ==
  [mesh |-> mesh, of |-> of, ch |-> ch, port |-> port, to |-> to, reply |-> reply, emoji |-> emoji]

Event(room, by, of, mesh, port, reply, meshReply, emote, suppress, text) ==
  [room |-> room, by |-> by, of |-> of, mesh |-> mesh, port |-> port, reply |-> reply,
   meshReply |-> meshReply, emote |-> emote, suppress |-> suppress, text |-> text]

NoSend == [ev |-> None, pkt |-> None, stage |-> "none"]

Init ==
  /\ said = << >> /\ packets = << >> /\ events = << >>
  /\ inbox = [r \in Relays |-> << >>]
  /\ seen = [r \in Relays |-> 0]
  /\ tasks = {}
  /\ queue = [r \in Relays |-> << >>]
  /\ sending = [r \in Relays |-> NoSend]
  /\ map = [r \in Relays |-> << >>]
  /\ running \in Deployments
  /\ cfg \in [running -> Configs[Cardinality(running)]]
  /\ dropped = {} /\ missed = {}

-----------------------------------------------------------------------------
(* A node of r's mesh sends a text, a reply or a tapback.  The relay's own  *)
(* transmissions are not handed back to it by the radio.                    *)
MeshSays(r, m, kind, q) ==
  /\ Len(packets) < MaxCopies
  /\ (q = None) <=> (kind = "text")
  /\ q # None => packets[q].mesh = r
  /\ said' = Append(said, [on |-> r, kind |-> kind, answers |-> IF q = None THEN None ELSE packets[q].of])
  /\ packets' = Append(packets, Packet(r, Len(said'), m.ch, m.port, m.to, q, kind = "reaction"))
  /\ inbox' = [inbox EXCEPT ![r] = Append(@, Len(packets'))]
  /\ UNCHANGED <<events, seen, tasks, queue, sending, map, cfg, running, dropped, missed>>

\* A person writes in a room: a message, a rich reply or a reaction.
RoomSays(room, text, kind, e) ==
  /\ Len(events) < MaxCopies
  /\ (e = None) <=> (kind = "text")
  /\ e # None => events[e].room = room
  /\ said' = Append(said, [on |-> room, kind |-> kind, answers |-> IF e = None THEN None ELSE events[e].of])
  /\ events' = Append(events, Event(room, User, Len(said'), NoMesh, IF kind = "reaction" THEN "annotation" ELSE "none",
                                    e, None, FALSE, FALSE, text))
  /\ UNCHANGED <<packets, inbox, seen, tasks, queue, sending, map, cfg, running, dropped, missed>>

-----------------------------------------------------------------------------
(* Meshtastic to Matrix.                                                   *)

Task(r, p, room, ev) == [r |-> r, pkt |-> p, room |-> room, ev |-> ev, sent |-> None, tries |-> 0, stage |-> "send"]

\* The content matrix_relay() builds: the meshnet, the packet's port and the links.
Content(r, p, room, reply, emote) ==
  Event(room, r, packets[p].of, r, packets[p].port, reply,
        IF packets[p].reply # None /\ (reply # None \/ emote) THEN packets[p].reply ELSE None,
        emote, FALSE, "plain")

IsTapback(p) == packets[p].port = "text" /\ packets[p].reply # None /\ packets[p].emoji

\* The early returns before a packet may use the message map.
Ignored(r, p) ==
  \/ classify_packet(cfg[r], packets[p].port) = "drop"
  \/ IsTapback(p) /\ ~Reactions(r)
  \/ packets[p].to = "node"

\* A tapback whose original is known becomes an emote in the original's room.
RelaysReaction(r, p) ==
  /\ classify_packet(cfg[r], packets[p].port) = "relay" /\ IsTapback(p) /\ Reactions(r)
  /\ get_message_map_by_meshtastic_id(r, packets[p].reply).ev # None

\* A reply whose original is known becomes a rich reply in the original's room.
RelaysReply(r, p) ==
  /\ classify_packet(cfg[r], packets[p].port) = "relay" /\ packets[p].port = "text"
  /\ packets[p].reply # None /\ ~packets[p].emoji /\ Replies(r)
  /\ get_message_map_by_meshtastic_id(r, packets[p].reply).ev # None

ReactionTask(r, p) ==
  LET orig == get_message_map_by_meshtastic_id(r, packets[p].reply)
  IN  Task(r, p, orig.room, Content(r, p, orig.room, None, TRUE))

ReplyTask(r, p) ==
  LET orig == get_message_map_by_meshtastic_id(r, packets[p].reply)
  IN  Task(r, p, orig.room, Content(r, p, orig.room, orig.ev, FALSE))

\* Mutant: a direct message is not kept on the mesh.
DirectIsRelayed(r, p) ==
  \/ classify_packet(cfg[r], packets[p].port) # "relay"
  \/ RoomsOf(r, packets[p].ch) = {}

\* Mutant: channel 0 counts as no channel.
ZeroIsNoChannel(r, p) ==
  \/ packets[p].to = "relay"
  \/ classify_packet(cfg[r], packets[p].port) # "relay"
  \/ packets[p].ch = 0

\* Direct messages, plugin-only ports and channels without a room stay on the mesh.
StaysOnMesh(r, p) ==
  \/ packets[p].to = "relay"
  \/ classify_packet(cfg[r], packets[p].port) # "relay"
  \/ RoomsOf(r, packets[p].ch) = {}

HasText(p) == packets[p].port # "encrypted"

(* Plugins see the packet in order until one takes it.  One that raises is  *)
(* skipped, one that times out counts as having taken it.                   *)
PluginsTake(outcomes) ==
  \E i \in DOMAIN outcomes : outcomes[i] \in {"handled", "timeout"}

\* mesh_relay publishes the packet with the suppress marker in the channel's first room.
MeshRelayTakes(r, p) == cfg[r].meshRelay /\ RoomsOf(r, packets[p].ch) # {} /\ packets[p].port # "encrypted"

MeshRelayEvent(r, p) ==
  Event(CHOOSE room \in RoomsOf(r, packets[p].ch) : TRUE, r, packets[p].of, NoMesh, "none", None, None,
        FALSE, TRUE, "plain")

(* on_meshtastic_message() returns without a trace while the relay shuts    *)
(* down, has no interface or another one than the packet's, drains the      *)
(* backlog of its start, or has no event loop, no node number or no rooms   *)
(* yet.  MeshConnection and RelayLifecycle say when; here it may be at any  *)
(* time.                                                                    *)
NotReady(r) ==
  /\ inbox[r] # << >>
  /\ inbox' = [inbox EXCEPT ![r] = Tail(@)]
  /\ missed' = missed \cup {Head(inbox[r])}
  /\ UNCHANGED <<said, packets, events, seen, tasks, queue, sending, map, cfg, running, dropped>>

(* on_meshtastic_message(): the pubsub callback for one packet.            *)
OnMeshtasticMessage(r, outcomes) ==
  LET p == Head(inbox[r])
      newTasks == IF RelaysReaction(r, p) THEN {ReactionTask(r, p)}
                  ELSE IF RelaysReply(r, p) THEN {ReplyTask(r, p)}
                  ELSE IF ~HasText(p) \/ StaysOnMesh(r, p) \/ MeshRelayTakes(r, p) \/ PluginsTake(outcomes)
                  THEN {}
                  ELSE {Task(r, p, room, Content(r, p, room, None, FALSE)) : room \in RoomsOf(r, packets[p].ch)}
      plugins == ~Ignored(r, p) /\ ~RelaysReaction(r, p) /\ ~RelaysReply(r, p)
  IN  /\ inbox[r] # << >>
      /\ plugins \/ outcomes = <<"declined">>
      /\ plugins /\ MeshRelayTakes(r, p) => Len(events) < MaxCopies /\ outcomes = <<"declined">>
      /\ inbox' = [inbox EXCEPT ![r] = Tail(@)]
      /\ tasks' = IF Ignored(r, p) THEN tasks ELSE tasks \cup newTasks
      /\ events' = IF plugins /\ MeshRelayTakes(r, p) THEN Append(events, MeshRelayEvent(r, p)) ELSE events
      /\ dropped' = IF plugins /\ (MeshRelayTakes(r, p) \/ PluginsTake(outcomes))
                    THEN dropped \cup {packets[p].of} ELSE dropped
      /\ UNCHANGED <<said, packets, seen, queue, sending, map, cfg, running, missed>>

-----------------------------------------------------------------------------
(* matrix_relay(): one coroutine per packet and room.                      *)

Update(t, u) == tasks' = (tasks \ {t}) \cup {u}

\* Mutant: a repeated send has a new transaction id.
FreshTransaction(t) == Len(events) + 1

\* The server makes an event for a transaction id once and answers with its id.
TransactionEvent(t) == IF t.sent = None THEN Len(events) + 1 ELSE t.sent

Accept(t) ==
  /\ t.stage = "send" /\ t \in tasks
  /\ Len(events) < MaxCopies
  /\ events' = IF TransactionEvent(t) > Len(events) THEN Append(events, t.ev) ELSE events

\* The response arrives: the mapping is stored unless it is an emote or storage is off.
SendAnswered(t) ==
  /\ Accept(t)
  /\ IF message_storage_enabled(t.r) /\ ~t.ev.emote
     THEN Update(t, [t EXCEPT !.sent = TransactionEvent(t), !.stage = "store"])
     ELSE tasks' = tasks \ {t}
  /\ UNCHANGED <<said, packets, inbox, seen, queue, sending, map, cfg, running, dropped, missed>>

\* The next attempt, or giving up after the last one.
Retry(t, sent) ==
  IF t.tries < MaxRetries
  THEN /\ Update(t, [t EXCEPT !.sent = sent, !.tries = @ + 1])
       /\ dropped' = dropped
  ELSE /\ tasks' = tasks \ {t}
       /\ dropped' = dropped \cup {t.ev.of}

\* The server took the message and the answer is late or lost.
SendTimesOut(t) ==
  /\ Accept(t)
  /\ Retry(t, TransactionEvent(t))
  /\ UNCHANGED <<said, packets, inbox, seen, queue, sending, map, cfg, running, missed>>

\* The request never reached the server, or was refused.
SendFails(t) ==
  /\ t \in tasks /\ t.stage = "send"
  /\ Retry(t, t.sent)
  /\ UNCHANGED <<said, packets, events, inbox, seen, queue, sending, map, cfg, running, missed>>

\* No Matrix client after three attempts, or an encrypted room without E2EE.
GivesUp(t) ==
  /\ t \in tasks /\ t.stage = "send" /\ t.tries = 0
  /\ tasks' = tasks \ {t}
  /\ dropped' = dropped \cup {t.ev.of}
  /\ UNCHANGED <<said, packets, events, inbox, seen, queue, sending, map, cfg, running, missed>>

\* async_store_message_map(): a transaction of its own.
StoreInbound(t) ==
  /\ t \in tasks /\ t.stage = "store"
  /\ map' = [map EXCEPT ![t.r] = store_message_map_core(@, Row(t.pkt, t.sent, t.room))]
  /\ Update(t, [t EXCEPT !.stage = "prune"])
  /\ UNCHANGED <<said, packets, events, inbox, seen, queue, sending, cfg, running, dropped, missed>>

\* async_prune_message_map(): another transaction; others may store in between.
PruneInbound(t) ==
  /\ t \in tasks /\ t.stage = "prune"
  /\ map' = [map EXCEPT ![t.r] = Pruned(t.r, @)]
  /\ tasks' = tasks \ {t}
  /\ UNCHANGED <<said, packets, events, inbox, seen, queue, sending, cfg, running, dropped, missed>>

-----------------------------------------------------------------------------
(* Matrix to Meshtastic.                                                   *)

Message(e, reply, port, mapped) == [ev |-> e, reply |-> reply, port |-> port, mapped |-> mapped]

\* Events on_room_message() returns from before it looks at the message map.
IgnoredEvent(r, e) ==
  \/ events[e].by = r
  \/ RoomChannel[r][events[e].room] = Unmapped
  \/ events[e].suppress

IsReaction(e) == events[e].port = "annotation" \/ (events[e].emote /\ events[e].meshReply # None)

\* An emote another relay made from a tapback on its mesh.
IsRemoteReaction(r, e) ==
  events[e].mesh \notin {NoMesh, r} /\ events[e].meshReply # None /\ events[e].emote

RemoteReaction(e) == Message(e, None, "text", FALSE)

ReactionTarget(r, e) == get_message_map_by_matrix_event_id(r, events[e].reply).pkt

LocalReaction(r, e) == Message(e, ReactionTarget(r, e), "text", FALSE)

\* handle_matrix_reply(): only a reply to an event in the map is sent as a reply.
ReplyTarget(r, e) == get_message_map_by_matrix_event_id(r, events[e].reply).pkt

CanReply(r, e) ==
  /\ ~IsReaction(e) /\ events[e].reply # None /\ Replies(r)
  /\ ReplyTarget(r, e) # None

ReplyMessage(r, e) == Message(e, ReplyTarget(r, e), "text", message_storage_enabled(r))

\* A message of this relay's own meshnet, from another bot, is not sent back to it.
OwnMeshnet(r, e) == events[e].mesh = r

\* A command with its bang; the bot's id or display name may stand before it.
match_bang_command(text) == text = "bang"
consume_mxid_mention_prefix(text) == IF text = "mxid_bang" THEN "bang" ELSE "plain"
consume_display_name_prefix(text) == IF text = "name_bang" THEN "bang" ELSE "plain"

\* The display name counts only when a mention is required, and then one is required.
parse_matrix_message_command(text, require_mention) ==
  \/ match_bang_command(consume_mxid_mention_prefix(text))
  \/ IF require_mention THEN match_bang_command(consume_display_name_prefix(text))
     ELSE match_bang_command(text)

\* Some plugin takes the message, or it is a command of one that did not.
PluginTakesEvent(r, e, handled) ==
  handled \/ parse_matrix_message_command(events[e].text, cfg[r].mention)

OrdinaryMessage(r, e) == Message(e, None, "text", message_storage_enabled(r))

DetectionMessage(e) == Message(e, None, "detection", FALSE)

\* handle_detection_sensor_packet(): only with both switches on.
SendsDetection(r) == cfg[r].broadcast /\ cfg[r].detection

\* queue_message(): the message waits behind the ones already accepted.
Enqueue(r, m) == queue' = [queue EXCEPT ![r] = Append(@, m)]

\* A reply that could not be queued is not handled: on_room_message() goes on with it.
ReplyHandled(r, e, replied) == CanReply(r, e) /\ cfg[r].broadcast /\ replied

(* on_room_message() for the next event.  replied, ok: connect_meshtastic() *)
(* returned an interface and the queue took the reply, or the message;      *)
(* handled: a plugin took it.                                               *)
OnRoomMessage(r, replied, ok, handled) ==
  LET e == seen[r] + 1
      send(m) == IF ok /\ cfg[r].broadcast THEN Enqueue(r, m) ELSE queue' = queue
  IN  /\ e <= Len(events)
      /\ seen' = [seen EXCEPT ![r] = e]
      /\ replied => ~IgnoredEvent(r, e) /\ CanReply(r, e)
      /\ IF IgnoredEvent(r, e) \/ (IsReaction(e) /\ ~Reactions(r))
         THEN queue' = queue /\ ~handled
         ELSE IF IsReaction(e) /\ IsRemoteReaction(r, e)
         THEN send(RemoteReaction(e)) /\ ~handled
         ELSE IF IsReaction(e) /\ events[e].reply # None
         THEN /\ ~handled
              /\ IF ReactionTarget(r, e) = None THEN queue' = queue ELSE send(LocalReaction(r, e))
         ELSE IF ReplyHandled(r, e, replied)
         THEN Enqueue(r, ReplyMessage(r, e)) /\ ~handled /\ ok
         ELSE IF OwnMeshnet(r, e)
         THEN queue' = queue /\ ~handled
         ELSE IF PluginTakesEvent(r, e, handled) \/ (events[e].port = "detection" /\ ~SendsDetection(r))
         THEN queue' = queue
         ELSE send(IF events[e].port = "detection" THEN DetectionMessage(e) ELSE OrdinaryMessage(r, e))
      /\ UNCHANGED <<said, packets, events, inbox, tasks, sending, map, cfg, running, dropped, missed>>

(* The queue's processor sends one message and stores its mapping before    *)
(* the next one (MessageQueue has the details).                             *)
Transmit(r) ==
  LET m == Head(queue[r])
  IN  /\ queue[r] # << >> /\ sending[r] = NoSend
      /\ Len(packets) < MaxCopies
      /\ packets' = Append(packets, Packet(r, events[m.ev].of, RoomChannel[r][events[m.ev].room],
                                           m.port, "all", m.reply, FALSE))
      /\ queue' = [queue EXCEPT ![r] = Tail(@)]
      /\ sending' = [sending EXCEPT ![r] = IF m.mapped
                                           THEN [ev |-> m.ev, pkt |-> Len(packets'), stage |-> "store"]
                                           ELSE NoSend]
      /\ UNCHANGED <<said, events, inbox, seen, tasks, map, cfg, running, dropped, missed>>

StoreOutbound(r) ==
  /\ sending[r].stage = "store"
  /\ map' = [map EXCEPT ![r] = store_message_map_core(@, Row(sending[r].pkt, sending[r].ev,
                                                              events[sending[r].ev].room))]
  /\ sending' = [sending EXCEPT ![r].stage = "prune"]
  /\ UNCHANGED <<said, packets, events, inbox, seen, tasks, queue, cfg, running, dropped, missed>>

PruneOutbound(r) ==
  /\ sending[r].stage = "prune"
  /\ map' = [map EXCEPT ![r] = Pruned(r, @)]
  /\ sending' = [sending EXCEPT ![r] = NoSend]
  /\ UNCHANGED <<said, packets, events, inbox, seen, tasks, queue, cfg, running, dropped, missed>>

-----------------------------------------------------------------------------
Outcomes == {<<"declined">>, <<"raises", "handled">>, <<"timeout", "declined">>}

Speak ==
  /\ Len(said) < MaxSaid[Cardinality(running)]
  /\ \/ \E r \in running : \E m \in MeshTexts[Len(said) + 1] :
          \/ MeshSays(r, m, "text", None)
          \/ \E kind \in {"reply", "reaction"}, q \in DOMAIN packets : MeshSays(r, m, kind, q)
     \/ \E room \in Rooms : \E text \in RoomTexts[Len(said) + 1] :
          \/ RoomSays(room, text, "text", None)
          \/ \E kind \in {"reply", "reaction"}, e \in DOMAIN events : RoomSays(room, text, kind, e)

Relay(r) ==
  \/ \E o \in Outcomes : OnMeshtasticMessage(r, o)
  \/ NotReady(r)
  \/ \E replied, ok, handled \in BOOLEAN : OnRoomMessage(r, replied, ok, handled)
  \/ Transmit(r)
  \/ StoreOutbound(r)
  \/ PruneOutbound(r)

Relaying ==
  \E t \in tasks : SendAnswered(t) \/ SendTimesOut(t) \/ SendFails(t) \/ GivesUp(t) \/ StoreInbound(t) \/ PruneInbound(t)

Next == Speak \/ (\E r \in running : Relay(r)) \/ Relaying

Spec == Init /\ [][Next]_vars

-----------------------------------------------------------------------------
EventsOf(u, room) == {e \in DOMAIN events : events[e].of = u /\ events[e].room = room}
PacketsOf(u, r) == {p \in DOMAIN packets : packets[p].of = u /\ packets[p].mesh = r}

(* Nothing goes round: an utterance appears at most once on each mesh and  *)
(* at most once in each room, its own included, although relays read each  *)
(* other's events and a send may be repeated after its answer was lost.    *)
NoEcho ==
  \A u \in DOMAIN said :
    /\ \A room \in Rooms : Cardinality(EventsOf(u, room)) <= 1
    /\ \A r \in Relays : Cardinality(PacketsOf(u, r)) <= 1

(* A relayed reply or reaction hangs on a copy of the very message it       *)
(* answers, in the same room or on the same mesh: message_map never links   *)
(* to something else, whatever is stored, pruned or replied to meanwhile.   *)
ThreadsKept ==
  /\ \A e \in DOMAIN events : events[e].reply # None =>
       /\ events[events[e].reply].of = said[events[e].of].answers
       /\ events[events[e].reply].room = events[e].room
  /\ \A p \in DOMAIN packets : packets[p].reply # None =>
       /\ packets[packets[p].reply].of = said[packets[p].of].answers
       /\ packets[packets[p].reply].mesh = packets[p].mesh

(* What may leave a mesh: nothing encrypted, disabled or addressed to        *)
(* another node; and unless the event answers a mapped message, only public *)
(* text of a mapped channel.                                                *)
OnlyPublicLeaves ==
  \A e \in DOMAIN events : events[e].by \in Relays /\ ~events[e].suppress =>
    \E p \in PacketsOf(events[e].of, events[e].by) :
      /\ packets[p].to # "node"
      /\ packets[p].port \in ({"text", "detection"} \cup cfg[events[e].by].chat) \ cfg[events[e].by].disabled
      /\ packets[p].port = "detection" => cfg[events[e].by].detection
      /\ events[e].reply = None /\ ~events[e].emote =>
           packets[p].to = "all" /\ RoomChannel[events[e].by][events[e].room] = packets[p].ch

Pruning(r) == Cardinality({t \in tasks : t.r = r /\ t.stage = "prune"})
                + IF sending[r].stage = "prune" THEN 1 ELSE 0

(* The map stays within msgs_to_keep but for the rows whose pruning is      *)
(* still to come, and a row is unique by event and never half written.      *)
MapBounded ==
  \A r \in running :
    /\ MsgsToKeep(r) > 0 => Len(map[r]) <= MsgsToKeep(r) + Pruning(r)
    /\ \A i, j \in DOMAIN map[r] : map[r][i].ev = map[r][j].ev => i = j
    /\ \A i \in DOMAIN map[r] : /\ packets[map[r][i].pkt].of = events[map[r][i].ev].of
                                /\ packets[map[r][i].pkt].mesh = r

PublicText(p) ==
  /\ said[packets[p].of].on = packets[p].mesh
  /\ packets[p].port = "text" /\ packets[p].to = "all" /\ packets[p].reply = None
  /\ "text" \notin cfg[packets[p].mesh].disabled

(* Every public text of a mapped channel that finds its relay ready is in    *)
(* every room of the channel once the relay has nothing left to do for it,  *)
(* unless a plugin took it or all attempts to send it failed.  What comes   *)
(* while the relay drains, reconnects, starts or stops is missed.           *)
NothingForgotten ==
  \A r \in running : \A p \in DOMAIN packets :
    /\ packets[p].mesh = r /\ PublicText(p)
    /\ p \notin ToSet(inbox[r]) \cup missed /\ \A t \in tasks : t.pkt # p
    => \/ packets[p].of \in dropped
       \/ \A room \in RoomsOf(r, packets[p].ch) : EventsOf(packets[p].of, room) # {}
=============================================================================
