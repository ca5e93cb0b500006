------------------------ MODULE MessageRelay_proofs ------------------------
(* Theorems about MessageRelay for every set of relays, rooms, channels,    *)
(* configurations, texts and bounds.  What a thing promises (a packet, an   *)
(* event, a row of message_map, a coroutine, a queued message) is stated    *)
(* over the histories it refers to, which only grow.                        *)
EXTENDS MessageRelay, FiniteSetTheorems, WellFoundedInduction, TLAPS

\* The strings, with the literals of the model named for the provers.
Word == STRING \cup {"text", "detection", "none", "annotation", "plain"}

Uttered == [on : Relays \cup Rooms, kind : {"text", "reply", "reaction"}, answers : Nat]
PacketRecord ==
  [mesh : Relays, of : Nat, ch : Int, port : Word, to : {"all", "relay", "node"}, reply : Nat, emoji : BOOLEAN]
EventRecord ==
  [room : Rooms, by : Relays \cup {User}, of : Nat, mesh : Relays \cup {NoMesh}, port : Word, reply : Nat,
   meshReply : Nat, emote : BOOLEAN, suppress : BOOLEAN, text : Word]
TaskRecord ==
  [r : Relays, pkt : Nat, room : Rooms, ev : EventRecord, sent : Nat, tries : Nat, stage : {"send", "store", "prune"}]
MessageRecord == [ev : Nat, reply : Nat, port : Word, mapped : BOOLEAN]
SendRecord == [ev : Nat, pkt : Nat, stage : {"none", "store", "prune"}]
RowRecord == [pkt : Nat, ev : Nat, room : Rooms]

TypeOK ==
  /\ said \in Seq(Uttered) /\ packets \in Seq(PacketRecord) /\ events \in Seq(EventRecord)
  /\ inbox \in [Relays -> Seq(Nat)]
  /\ seen \in [Relays -> Nat]
  /\ tasks \in SUBSET TaskRecord /\ \A t \in tasks : t.r \in running
  /\ queue \in [Relays -> Seq(MessageRecord)]
  /\ sending \in [Relays -> SendRecord]
  /\ map \in [Relays -> Seq(RowRecord)]
  /\ running \in Deployments /\ cfg \in [running -> Config]

-----------------------------------------------------------------------------
(* S, P and E stand for said, packets and events.                          *)

\* A room the relay serves.
Serves(r, room) == RoomChannel[r][room] # Unmapped

\* A packet is of an utterance, and a reply is to a packet of what it answers.
PacketGood(S, P, v) ==
  /\ v.of \in DOMAIN S
  /\ v.reply # None => /\ v.reply \in DOMAIN P
                       /\ P[v.reply].of = S[v.of].answers
                       /\ P[v.reply].mesh = v.mesh

\* So is an event.  A person says it in the room; a relay, about its own mesh and
\* in a room it serves.
EventGood(S, E, v) ==
  /\ v.of \in DOMAIN S
  /\ v.reply # None => /\ v.reply \in DOMAIN E
                       /\ E[v.reply].of = S[v.of].answers
                       /\ E[v.reply].room = v.room
  /\ v.by = User => S[v.of].on = v.room
  /\ v.by # User => S[v.of].on = v.by /\ Serves(v.by, v.room)

\* A row links a packet of the relay's mesh and an event of the same utterance.
RowGood(P, E, r, row) ==
  /\ row.pkt \in DOMAIN P /\ row.ev \in DOMAIN E
  /\ P[row.pkt].mesh = r /\ P[row.pkt].of = E[row.ev].of
  /\ E[row.ev].room = row.room /\ Serves(r, row.room)

\* A packet the radio hands to the relay was sent by another node of the mesh.
Heard(S, P, r, p) ==
  /\ p \in DOMAIN P /\ P[p].mesh = r
  /\ P[p].of \in DOMAIN S /\ S[P[p].of].on = r

\* A coroutine carries such a packet's utterance to one room, and knows the event
\* that the server has made for it.
TaskGood(S, P, E, t) ==
  /\ Heard(S, P, t.r, t.pkt)
  /\ EventGood(S, E, t.ev)
  /\ t.ev.of = P[t.pkt].of /\ t.ev.by = t.r /\ t.ev.room = t.room /\ ~t.ev.suppress
  /\ t.sent # None => t.sent \in DOMAIN E /\ E[t.sent] = t.ev
  /\ t.stage # "send" => t.sent # None

\* A queued message is of an event of someone else, in a room the relay serves.
MessageGood(S, P, E, r, m) ==
  /\ m.ev \in DOMAIN E /\ E[m.ev].by # r /\ Serves(r, E[m.ev].room)
  /\ m.reply # None => /\ m.reply \in DOMAIN P
                       /\ P[m.reply].of = S[E[m.ev].of].answers
                       /\ P[m.reply].mesh = r

\* So is the one whose mapping is to be stored.
SendGood(P, E, r, s) ==
  s.stage # "none" => RowGood(P, E, r, Row(s.pkt, s.ev, E[s.ev].room))

Linked ==
  /\ \A p \in DOMAIN packets : PacketGood(said, packets, packets[p])
  /\ \A e \in DOMAIN events : EventGood(said, events, events[e])
  /\ \A r \in Relays : \A i \in DOMAIN map[r] : RowGood(packets, events, r, map[r][i])
  /\ \A r \in Relays : \A i \in DOMAIN inbox[r] : Heard(said, packets, r, inbox[r][i])
  /\ \A t \in tasks : TaskGood(said, packets, events, t)
  /\ \A r \in Relays : \A i \in DOMAIN queue[r] : MessageGood(said, packets, events, r, queue[r][i])
  /\ \A r \in Relays : SendGood(packets, events, r, sending[r])

\* Rows are unique by event.
RowsDiffer ==
  \A r \in Relays : \A i, j \in DOMAIN map[r] : map[r][i].ev = map[r][j].ev => i = j

-----------------------------------------------------------------------------
\* When matrix_relay() may make the event v of a packet.
Public(P, c, r, p, v) ==
  /\ P[p].to # "node"
  /\ P[p].port \in ({"text", "detection"} \cup c.chat) \ c.disabled
  /\ P[p].port = "detection" => c.detection
  /\ v.reply = None /\ ~v.emote => P[p].to = "all" /\ RoomChannel[r][v.room] = P[p].ch

TasksPublic == \A t \in tasks : Public(packets, cfg[t.r], t.r, t.pkt, t.ev)

\* A packet that waits has left no trace yet; a coroutine that has not sent has
\* left none in its room, and there is one for an utterance and a room.
Fresh ==
  /\ IsFiniteSet(tasks)
  /\ \A r \in Relays : \A i, j \in DOMAIN inbox[r] :
       packets[inbox[r][i]].of = packets[inbox[r][j]].of => i = j
  /\ \A r \in Relays : \A i \in DOMAIN inbox[r] :
       /\ \A e \in DOMAIN events : events[e].of # packets[inbox[r][i]].of
       /\ \A t \in tasks : t.ev.of # packets[inbox[r][i]].of
  /\ \A t, u \in tasks : t.ev.of = u.ev.of /\ t.room = u.room => t = u
  /\ \A t \in tasks : t.sent = None =>
       \A e \in DOMAIN events : events[e].of = t.ev.of => events[e].room # t.room
  /\ \A e, f \in DOMAIN events : events[e].of = events[f].of /\ events[e].room = events[f].room => e = f

\* An utterance u was given up, or a copy of it is in each of the rooms, or a
\* coroutine for its packet p is under way to it.
Settled(D, E, T, u, p, rooms) ==
  \/ u \in D
  \/ \A room \in rooms : \/ \E e \in DOMAIN E : E[e].of = u /\ E[e].room = room
                         \/ \E t \in T : t.pkt = p /\ t.room = room

\* So it is with every public text that the relay has taken.
OnItsWay ==
  \A r \in running : \A p \in DOMAIN packets :
    packets[p].mesh = r /\ PublicText(p) /\ (\A i \in DOMAIN inbox[r] : inbox[r][i] # p) /\ p \notin missed
    => Settled(dropped, events, tasks, packets[p].of, p, RoomsOf(r, packets[p].ch))

\* No relay bridges one of its channels into two rooms that another relay serves too.
OneSharedRoom ==
  \A q, r \in Relays : \A x, y \in Rooms :
    q # r /\ Serves(q, x) /\ Serves(r, x) /\ Serves(r, y) /\ RoomChannel[q][x] = RoomChannel[q][y] => x = y

\* The copies of a mesh's utterance are in rooms of one channel of its relay.
Spread ==
  \A u \in DOMAIN said : said[u].on \in Relays =>
    \E c \in Int : /\ \A t \in tasks : t.ev.of = u => RoomChannel[said[u].on][t.room] = c
                   /\ \A e \in DOMAIN events : events[e].of = u => RoomChannel[said[u].on][events[e].room] = c

\* An event of someone else, in a room r serves.
Foreign(E, r, e) == E[e].by # r /\ Serves(r, E[e].room)

\* The packet v was said on its mesh, or is of a foreign event among the first n, which
\* are read, and no message of the queue q is of its utterance.
Carried(S, E, n, q, v) ==
  \/ S[v.of].on = v.mesh
  \/ /\ \E e \in 1..n : E[e].of = v.of /\ Foreign(E, v.mesh, e)
     /\ \A i \in DOMAIN q : E[q[i].ev].of # v.of

\* Every event is read once, so its utterance waits or is on the mesh once.
Once ==
  /\ \A r \in Relays : seen[r] <= Len(events)
  /\ \A r \in Relays : \A i \in DOMAIN queue[r] : queue[r][i].ev <= seen[r]
  /\ \A r \in Relays : \A i, j \in DOMAIN queue[r] : queue[r][i].ev = queue[r][j].ev => i = j
  /\ \A p \in DOMAIN packets :
       Carried(said, events, seen[packets[p].mesh], queue[packets[p].mesh], packets[p])
  /\ \A p, q \in DOMAIN packets :
       packets[p].of = packets[q].of /\ packets[p].mesh = packets[q].mesh => p = q

-----------------------------------------------------------------------------
(* Sequences.                                                              *)

\* Histories only grow.
Grown(s, t) == \A i \in DOMAIN s : i \in DOMAIN t /\ t[i] = s[i]

\* Append adds one element at the end.
LEMMA AppendIs ==
    ASSUME NEW T, NEW s \in Seq(T), NEW x \in T
    PROVE  /\ Append(s, x) \in Seq(T) /\ Len(Append(s, x)) = Len(s) + 1
           /\ DOMAIN s = 1..Len(s) /\ DOMAIN Append(s, x) = 1..(Len(s) + 1)
           /\ \A i \in 1..Len(s) : Append(s, x)[i] = s[i]
           /\ Append(s, x)[Len(s) + 1] = x
           /\ Len(s) \in Nat
OBVIOUS

\* So a history grows by it.
LEMMA AppendGrows ==
    ASSUME NEW T, NEW s \in Seq(T), NEW x \in T
    PROVE  Grown(s, Append(s, x))
BY AppendIs DEF Grown

\* Taking the first element off a sequence.
LEMMA TailIs ==
    ASSUME NEW T, NEW s \in Seq(T), s # << >>
    PROVE  /\ Head(s) \in T /\ Head(s) = s[1] /\ 1 \in DOMAIN s
           /\ Tail(s) \in Seq(T) /\ Len(Tail(s)) = Len(s) - 1
           /\ DOMAIN s = 1..Len(s) /\ DOMAIN Tail(s) = 1..(Len(s) - 1)
           /\ \A i \in DOMAIN Tail(s) : i + 1 \in DOMAIN s /\ Tail(s)[i] = s[i + 1]
<1>1. Len(s) \in Nat /\ Len(s) > 0
  OBVIOUS
<1> QED BY <1>1

\* The order of the naturals as a relation.
NatLess == OpToRel(<, Nat)

\* It is well founded.
LEMMA NatLessWellFounded == IsWellFoundedOn(NatLess, Nat)
BY NatLessThanWellFounded, Zenon DEF NatLess

\* A set of row numbers that is not empty has a least one.
LEMMA MinIs ==
    ASSUME NEW S \in SUBSET Nat, S # {}
    PROVE  Min(S) \in S
<1>1. PICK i \in S : \A j \in S : ~(<<j, i>> \in NatLess)
  BY NatLessWellFounded, WFMin
<1>2. NatLess = {ss \in Nat \X Nat : ss[1] < ss[2]}
  BY Zenon DEF NatLess, OpToRel
<1>3. \A j \in S : ~(j < i)
  BY <1>1, <1>2
<1>4. \A j \in S : i <= j
  BY <1>3
<1> QED BY <1>4 DEF Min

-----------------------------------------------------------------------------
(* The message map.                                                        *)

\* What a lookup by packet finds is a row of the packet.
LEMMA FoundByPacket ==
    ASSUME TypeOK, NEW r \in Relays, NEW p, get_message_map_by_meshtastic_id(r, p).ev # None
    PROVE  \E i \in DOMAIN map[r] : /\ map[r][i].pkt = p
                                    /\ get_message_map_by_meshtastic_id(r, p) = map[r][i]
<1> DEFINE rows == {i \in DOMAIN map[r] : map[r][i].pkt = p}
<1>1. rows \in SUBSET Nat
  BY DEF TypeOK
<1>2. rows # {}
  <2> SUFFICES ASSUME rows = {} PROVE FALSE OBVIOUS
  <2>1. get_message_map_by_meshtastic_id(r, p) = Row(None, None, None)
    BY DEF get_message_map_by_meshtastic_id
  <2> QED BY <2>1 DEF Row
<1>3. Min(rows) \in rows
  BY <1>1, <1>2, MinIs
<1>4. get_message_map_by_meshtastic_id(r, p) = map[r][Min(rows)]
  BY <1>2 DEF get_message_map_by_meshtastic_id
<1> HIDE DEF get_message_map_by_meshtastic_id
<1> QED BY <1>3, <1>4

\* What a lookup by event finds is a row of the event.
LEMMA FoundByEvent ==
    ASSUME TypeOK, NEW r \in Relays, NEW e, get_message_map_by_matrix_event_id(r, e).pkt # None
    PROVE  \E i \in DOMAIN map[r] : /\ map[r][i].ev = e
                                    /\ get_message_map_by_matrix_event_id(r, e) = map[r][i]
<1> DEFINE rows == {i \in DOMAIN map[r] : map[r][i].ev = e}
<1>1. rows \in SUBSET Nat
  BY DEF TypeOK
<1>2. rows # {}
  <2> SUFFICES ASSUME rows = {} PROVE FALSE OBVIOUS
  <2>1. get_message_map_by_matrix_event_id(r, e) = Row(None, None, None)
    BY DEF get_message_map_by_matrix_event_id
  <2> QED BY <2>1 DEF Row
<1>3. Min(rows) \in rows
  BY <1>1, <1>2, MinIs
<1>4. get_message_map_by_matrix_event_id(r, e) = map[r][Min(rows)]
  BY <1>2 DEF get_message_map_by_matrix_event_id
<1> QED BY <1>3, <1>4

\* Storing keeps the rows unique by event and adds at most one.
LEMMA StoreIs ==
    ASSUME NEW rows \in Seq(RowRecord), NEW row \in RowRecord,
           \A i, j \in DOMAIN rows : rows[i].ev = rows[j].ev => i = j
    PROVE  LET new == store_message_map_core(rows, row)
           IN  /\ new \in Seq(RowRecord) /\ Len(new) <= Len(rows) + 1
               /\ \A i \in DOMAIN new : new[i] = row \/ \E j \in DOMAIN rows : new[i] = rows[j]
               /\ \A i, j \in DOMAIN new : new[i].ev = new[j].ev => i = j
<1> DEFINE new == store_message_map_core(rows, row)
           changed == [i \in DOMAIN rows |-> IF rows[i].ev = row.ev THEN row ELSE rows[i]]
<1>1. CASE \E i \in DOMAIN rows : rows[i].ev = row.ev
  <2>1. new = changed
    BY <1>1 DEF store_message_map_core
  <2>2. changed \in Seq(RowRecord) /\ Len(changed) = Len(rows) /\ DOMAIN changed = DOMAIN rows
    OBVIOUS
  <2>3. \A i \in DOMAIN rows : changed[i].ev = rows[i].ev /\ (changed[i] = row \/ changed[i] = rows[i])
    OBVIOUS
  <2> HIDE DEF new, changed
  <2>4. \A i, j \in DOMAIN new : new[i].ev = new[j].ev => i = j
    BY <2>1, <2>2, <2>3
  <2>5. \A i \in DOMAIN new : new[i] = row \/ \E j \in DOMAIN rows : new[i] = rows[j]
    BY <2>1, <2>2, <2>3
  <2>6. new \in Seq(RowRecord) /\ Len(new) <= Len(rows) + 1
    BY <2>1, <2>2
  <2> QED BY <2>4, <2>5, <2>6 DEF new
<1>2. CASE \A i \in DOMAIN rows : rows[i].ev # row.ev
  <2>1. new = Append(rows, row)
    BY <1>2 DEF store_message_map_core
  <2> HIDE DEF new
  <2>2. /\ new \in Seq(RowRecord) /\ Len(new) = Len(rows) + 1 /\ DOMAIN new = 1..(Len(rows) + 1)
        /\ DOMAIN rows = 1..Len(rows) /\ Len(rows) \in Nat
        /\ \A i \in DOMAIN rows : new[i] = rows[i]
        /\ new[Len(rows) + 1] = row
    BY <2>1, AppendIs
  <2>3. \A i \in DOMAIN new : i \in DOMAIN rows \/ i = Len(rows) + 1
    BY <2>2
  <2>4. \A i \in DOMAIN new : new[i] = row \/ \E j \in DOMAIN rows : new[i] = rows[j]
    BY <2>2, <2>3
  <2>5. ASSUME NEW i \in DOMAIN new, NEW j \in DOMAIN new, new[i].ev = new[j].ev PROVE i = j
    <3>1. CASE i \in DOMAIN rows /\ j \in DOMAIN rows
      BY <2>2, <2>5, <3>1
    <3>2. CASE i = Len(rows) + 1 /\ j \in DOMAIN rows
      BY <1>2, <2>2, <2>5, <3>2
    <3>3. CASE i \in DOMAIN rows /\ j = Len(rows) + 1
      BY <1>2, <2>2, <2>5, <3>3
    <3> QED BY <2>3, <3>1, <3>2, <3>3
  <2> QED BY <2>2, <2>4, <2>5 DEF new
<1> QED BY <1>1, <1>2

\* Pruning keeps rows of the map, unique as they were, and no more than allowed.
LEMMA PrunedIs ==
    ASSUME TypeOK, NEW r \in running, NEW rows \in Seq(RowRecord),
           \A i, j \in DOMAIN rows : rows[i].ev = rows[j].ev => i = j
    PROVE  LET new == Pruned(r, rows)
           IN  /\ new \in Seq(RowRecord)
               /\ MsgsToKeep(r) > 0 => Len(new) <= MsgsToKeep(r)
               /\ \A i \in DOMAIN new : \E j \in DOMAIN rows : new[i] = rows[j]
               /\ \A i, j \in DOMAIN new : new[i].ev = new[j].ev => i = j
<1> DEFINE new == Pruned(r, rows)
           keep == MsgsToKeep(r)
           first == Len(rows) - keep + 1
<1>1. keep \in Int
  BY DEF TypeOK, Config, MsgsToKeep
<1>2. CASE ~(keep > 0 /\ Len(rows) > keep)
  <2>1. new = rows
    BY <1>2 DEF Pruned, prune_message_map_core
  <2> HIDE DEF new, keep
  <2>2. keep > 0 => Len(new) <= keep
    BY <1>1, <1>2, <2>1
  <2> QED BY <2>1, <2>2 DEF new, keep
<1>3. CASE keep > 0 /\ Len(rows) > keep
  <2>1. new = SubSeq(rows, first, Len(rows))
    BY <1>3 DEF Pruned, prune_message_map_core
  <2> HIDE DEF new, keep
  <2>2. /\ first \in 1..Len(rows) /\ Len(rows) \in Nat /\ DOMAIN rows = 1..Len(rows)
        /\ Len(rows) - first + 1 = keep
    BY <1>1, <1>3
  <2> HIDE DEF first
  <2>3. /\ new \in Seq(RowRecord) /\ Len(new) = keep /\ DOMAIN new = 1..keep
        /\ \A i \in 1..keep : new[i] = rows[first + i - 1]
    BY <1>1, <2>1, <2>2
  <2>4. \A i \in DOMAIN new : first + i - 1 \in DOMAIN rows /\ new[i] = rows[first + i - 1]
    BY <1>1, <2>2, <2>3
  <2>5. \A i, j \in DOMAIN new : new[i].ev = new[j].ev => i = j
    BY <1>1, <2>2, <2>3, <2>4
  <2> QED BY <1>1, <2>3, <2>4, <2>5 DEF new, keep
<1> QED BY <1>2, <1>3

-----------------------------------------------------------------------------
(* What is said of a thing stays true while the histories grow.            *)

\* Of a packet.
LEMMA PacketStays ==
    ASSUME NEW S, NEW S2, NEW P, NEW P2, NEW v, Grown(S, S2), Grown(P, P2), PacketGood(S, P, v)
    PROVE  PacketGood(S2, P2, v)
BY DEF Grown, PacketGood

\* Of an event.
LEMMA EventStays ==
    ASSUME NEW S, NEW S2, NEW E, NEW E2, NEW v, Grown(S, S2), Grown(E, E2), EventGood(S, E, v)
    PROVE  EventGood(S2, E2, v)
BY DEF Grown, EventGood

\* Of a row.
LEMMA RowStays ==
    ASSUME NEW P, NEW P2, NEW E, NEW E2, NEW r, NEW row, Grown(P, P2), Grown(E, E2), RowGood(P, E, r, row)
    PROVE  RowGood(P2, E2, r, row)
BY DEF Grown, RowGood

\* Of a packet in the inbox.
LEMMA HeardStays ==
    ASSUME NEW S, NEW S2, NEW P, NEW P2, NEW r, NEW p, Grown(S, S2), Grown(P, P2), Heard(S, P, r, p)
    PROVE  Heard(S2, P2, r, p)
BY DEF Grown, Heard

\* Of a coroutine.
LEMMA TaskStays ==
    ASSUME NEW S, NEW S2, NEW P, NEW P2, NEW E, NEW E2, NEW t,
           Grown(S, S2), Grown(P, P2), Grown(E, E2), TaskGood(S, P, E, t)
    PROVE  TaskGood(S2, P2, E2, t)
<1>1. Heard(S2, P2, t.r, t.pkt) /\ EventGood(S2, E2, t.ev)
  BY HeardStays, EventStays DEF TaskGood
<1>2. P2[t.pkt] = P[t.pkt]
  BY DEF TaskGood, Heard, Grown
<1>3. t.sent # None => t.sent \in DOMAIN E2 /\ E2[t.sent] = t.ev
  BY DEF TaskGood, Grown
<1> QED BY <1>1, <1>2, <1>3 DEF TaskGood

\* Of a queued message.
LEMMA MessageStays ==
    ASSUME NEW S, NEW S2, NEW P, NEW P2, NEW E, NEW E2, NEW r, NEW m,
           Grown(S, S2), Grown(P, P2), Grown(E, E2), E[m.ev].of \in DOMAIN S,
           MessageGood(S, P, E, r, m)
    PROVE  MessageGood(S2, P2, E2, r, m)
<1>1. E2[m.ev] = E[m.ev] /\ m.ev \in DOMAIN E2
  BY DEF Grown, MessageGood
<1>2. S2[E[m.ev].of] = S[E[m.ev].of]
  BY DEF Grown
<1> QED BY <1>1, <1>2 DEF Grown, MessageGood

\* Of a mapping to be stored.
LEMMA SendStays ==
    ASSUME NEW P, NEW P2, NEW E, NEW E2, NEW r, NEW s, Grown(P, P2), Grown(E, E2), SendGood(P, E, r, s)
    PROVE  SendGood(P2, E2, r, s)
<1> SUFFICES ASSUME s.stage # "none" PROVE SendGood(P2, E2, r, s)
  BY DEF SendGood
<1>1. RowGood(P, E, r, Row(s.pkt, s.ev, E[s.ev].room))
  BY DEF SendGood
<1>2. E2[s.ev] = E[s.ev]
  BY <1>1 DEF RowGood, Row, Grown
<1> QED BY <1>1, <1>2, RowStays DEF SendGood

\* A step that only adds good things keeps every link.
LEMMA LinkedStep ==
    ASSUME Linked, Grown(said, said'), Grown(packets, packets'), Grown(events, events'),
           \A p \in DOMAIN packets' : p \in DOMAIN packets \/ PacketGood(said', packets', packets'[p]),
           \A e \in DOMAIN events' : e \in DOMAIN events \/ EventGood(said', events', events'[e]),
           \A r \in Relays : \A i \in DOMAIN map'[r] :
             (\E j \in DOMAIN map[r] : map'[r][i] = map[r][j]) \/ RowGood(packets', events', r, map'[r][i]),
           \A r \in Relays : \A i \in DOMAIN inbox'[r] :
             (\E j \in DOMAIN inbox[r] : inbox'[r][i] = inbox[r][j]) \/ Heard(said', packets', r, inbox'[r][i]),
           \A t \in tasks' : t \in tasks \/ TaskGood(said', packets', events', t),
           \A r \in Relays : \A i \in DOMAIN queue'[r] :
             \/ \E j \in DOMAIN queue[r] : queue'[r][i] = queue[r][j]
             \/ MessageGood(said', packets', events', r, queue'[r][i]),
           \A r \in Relays : sending'[r] = sending[r] \/ SendGood(packets', events', r, sending'[r])
    PROVE  Linked'
<1>1. ASSUME NEW p \in DOMAIN packets' PROVE PacketGood(said', packets', packets'[p])
  <2>1. CASE p \in DOMAIN packets
    <3>1. packets'[p] = packets[p] /\ PacketGood(said, packets, packets[p])
      BY <2>1 DEF Grown, Linked
    <3> QED BY <3>1, PacketStays
  <2> QED BY <2>1
<1>2. ASSUME NEW e \in DOMAIN events' PROVE EventGood(said', events', events'[e])
  <2>1. CASE e \in DOMAIN events
    <3>1. events'[e] = events[e] /\ EventGood(said, events, events[e])
      BY <2>1 DEF Grown, Linked
    <3> QED BY <3>1, EventStays
  <2> QED BY <2>1
<1>3. ASSUME NEW r \in Relays, NEW i \in DOMAIN map'[r] PROVE RowGood(packets', events', r, map'[r][i])
  <2>1. CASE \E j \in DOMAIN map[r] : map'[r][i] = map[r][j]
    <3>1. RowGood(packets, events, r, map'[r][i])
      BY <2>1 DEF Linked
    <3> QED BY <3>1, RowStays
  <2> QED BY <2>1
<1>4. ASSUME NEW r \in Relays, NEW i \in DOMAIN inbox'[r] PROVE Heard(said', packets', r, inbox'[r][i])
  <2>1. CASE \E j \in DOMAIN inbox[r] : inbox'[r][i] = inbox[r][j]
    <3>1. Heard(said, packets, r, inbox'[r][i])
      BY <2>1 DEF Linked
    <3> QED BY <3>1, HeardStays
  <2> QED BY <2>1
<1>5. ASSUME NEW t \in tasks' PROVE TaskGood(said', packets', events', t)
  <2>1. CASE t \in tasks
    <3>1. TaskGood(said, packets, events, t)
      BY <2>1 DEF Linked
    <3> QED BY <3>1, TaskStays
  <2> QED BY <2>1
<1>6. ASSUME NEW r \in Relays, NEW i \in DOMAIN queue'[r]
      PROVE  MessageGood(said', packets', events', r, queue'[r][i])
  <2>1. CASE \E j \in DOMAIN queue[r] : queue'[r][i] = queue[r][j]
    <3>1. MessageGood(said, packets, events, r, queue'[r][i])
      BY <2>1 DEF Linked
    <3>2. events[queue'[r][i].ev].of \in DOMAIN said
      BY <3>1 DEF MessageGood, EventGood, Linked
    <3> QED BY <3>1, <3>2, MessageStays
  <2> QED BY <2>1
<1>7. ASSUME NEW r \in Relays PROVE SendGood(packets', events', r, sending'[r])
  <2>1. CASE sending'[r] = sending[r]
    <3>1. SendGood(packets, events, r, sending'[r])
      BY <2>1 DEF Linked
    <3> QED BY <3>1, SendStays
  <2> QED BY <2>1
<1> QED BY <1>1, <1>2, <1>3, <1>4, <1>5, <1>6, <1>7 DEF Linked

-----------------------------------------------------------------------------
(* Elements of the histories.                                              *)

\* Every element has its type.
LEMMA Members ==
    ASSUME TypeOK
    PROVE  /\ \A u \in DOMAIN said : said[u] \in Uttered
           /\ \A p \in DOMAIN packets : packets[p] \in PacketRecord /\ p \in Nat /\ p # None
           /\ \A e \in DOMAIN events : events[e] \in EventRecord /\ e \in Nat /\ e # None
           /\ Len(said) \in Nat /\ Len(packets) \in Nat /\ Len(events) \in Nat
           /\ DOMAIN said = 1..Len(said) /\ DOMAIN packets = 1..Len(packets) /\ DOMAIN events = 1..Len(events)
BY DEF TypeOK, None

-----------------------------------------------------------------------------
(* A node of a mesh, or a person in a room, says something.                *)

\* The texts of the model are well formed.
LEMMA TextsAre ==
    ASSUME TypeOK, Len(said) < MaxSaid[Cardinality(running)]
    PROVE  /\ MeshTexts[Len(said) + 1] \subseteq MeshText
           /\ RoomTexts[Len(said) + 1] \subseteq STRING
<1>1. Len(said) + 1 \in 1..MaxSaid[Cardinality(running)]
  BY RelayAssumption DEF TypeOK
<1> QED BY <1>1, RelayAssumption DEF TypeOK

\* What MeshSays does: one utterance, one packet of it, one entry in the inbox.
LEMMA MeshSaysEffect ==
    ASSUME TypeOK, Linked, NEW r \in running, NEW m \in MeshText, NEW kind \in {"text", "reply", "reaction"},
           NEW q \in DOMAIN packets \cup {None}, MeshSays(r, m, kind, q)
    PROVE  \E s \in Uttered, v \in PacketRecord :
             /\ said' = Append(said, s) /\ s.on = r
             /\ packets' = Append(packets, v)
             /\ v.mesh = r /\ v.of = Len(said) + 1
             /\ v.reply # None => /\ v.reply \in DOMAIN packets
                                  /\ packets[v.reply].of = s.answers /\ packets[v.reply].mesh = r
             /\ inbox' = [inbox EXCEPT ![r] = Append(@, Len(packets) + 1)]
             /\ UNCHANGED <<events, seen, tasks, queue, sending, map, cfg, running, dropped, missed>>
<1> DEFINE a == IF q = None THEN None ELSE packets[q].of
           s == [on |-> r, kind |-> kind, answers |-> a]
           v == Packet(r, Len(said) + 1, m.ch, m.port, m.to, q, kind = "reaction")
<1>0. r \in Relays
  BY RelayAssumption DEF TypeOK
<1>1. s \in Uttered
  <2>1. a \in Nat
    BY Members DEF PacketRecord, None
  <2> HIDE DEF a
  <2> QED BY <1>0, <2>1 DEF Uttered
<1>2. v \in PacketRecord
  <2>1. q \in Nat /\ Len(said) + 1 \in Nat
    BY Members DEF None
  <2> QED BY <1>0, <2>1 DEF Packet, PacketRecord, MeshText, Word
<1>3. said' = Append(said, s)
  BY DEF MeshSays
<1>4. Len(said') = Len(said) + 1 /\ packets' = Append(packets, v)
  BY <1>1, <1>3, AppendIs DEF MeshSays, TypeOK
<1>5. Len(packets') = Len(packets) + 1
  BY <1>2, <1>4, AppendIs DEF TypeOK
<1>6. inbox' = [inbox EXCEPT ![r] = Append(@, Len(packets) + 1)]
  BY <1>5 DEF MeshSays
<1>7. v.reply # None => /\ v.reply \in DOMAIN packets
                        /\ packets[v.reply].of = s.answers /\ packets[v.reply].mesh = r
  BY DEF MeshSays, Packet
<1>8. v.mesh = r /\ v.of = Len(said) + 1 /\ s.on = r
  BY DEF Packet
<1>9. UNCHANGED <<events, seen, tasks, queue, sending, map, cfg, running, dropped, missed>>
  BY DEF MeshSays
<1> HIDE DEF s, v
<1> QED BY <1>1, <1>2, <1>3, <1>4, <1>6, <1>7, <1>8, <1>9

\* What RoomSays does: one utterance, one event of it.
LEMMA RoomSaysEffect ==
    ASSUME TypeOK, Linked, NEW room \in Rooms, NEW text \in STRING, NEW kind \in {"text", "reply", "reaction"},
           NEW e \in DOMAIN events \cup {None}, RoomSays(room, text, kind, e)
    PROVE  \E s \in Uttered, v \in EventRecord :
             /\ said' = Append(said, s) /\ s.on = room
             /\ events' = Append(events, v)
             /\ v.by = User /\ v.room = room /\ v.of = Len(said) + 1
             /\ v.reply # None => /\ v.reply \in DOMAIN events
                                  /\ events[v.reply].of = s.answers /\ events[v.reply].room = room
             /\ UNCHANGED <<packets, inbox, seen, tasks, queue, sending, map, cfg, running, dropped, missed>>
<1> DEFINE a == IF e = None THEN None ELSE events[e].of
           s == [on |-> room, kind |-> kind, answers |-> a]
           port == IF kind = "reaction" THEN "annotation" ELSE "none"
           v == Event(room, User, Len(said) + 1, NoMesh, port, e, None, FALSE, FALSE, text)
<1>1. s \in Uttered
  <2>1. a \in Nat
    BY Members DEF EventRecord, None
  <2> HIDE DEF a
  <2> QED BY <2>1 DEF Uttered
<1>2. v \in EventRecord
  <2>1. e \in Nat /\ None \in Nat /\ Len(said) + 1 \in Nat
    BY Members DEF None
  <2>2. port \in Word /\ text \in Word
    BY DEF Word
  <2> HIDE DEF port
  <2> QED BY <2>1, <2>2 DEF Event, EventRecord
<1>3. said' = Append(said, s)
  BY DEF RoomSays
<1>4. Len(said') = Len(said) + 1 /\ events' = Append(events, v)
  <2>1. Len(said') = Len(said) + 1
    BY <1>1, <1>3, AppendIs DEF TypeOK
  <2> QED BY <2>1 DEF RoomSays
<1>5. v.reply # None => /\ v.reply \in DOMAIN events
                        /\ events[v.reply].of = s.answers /\ events[v.reply].room = room
  BY DEF RoomSays, Event
<1>6. v.by = User /\ v.room = room /\ v.of = Len(said) + 1 /\ s.on = room
  BY DEF Event
<1>7. UNCHANGED <<packets, inbox, seen, tasks, queue, sending, map, cfg, running, dropped, missed>>
  BY DEF RoomSays
<1> HIDE DEF s, v
<1> QED BY <1>1, <1>2, <1>3, <1>4, <1>5, <1>6, <1>7

\* An utterance on a mesh keeps the types and the links.
LEMMA MeshSaysLinks ==
    ASSUME TypeOK, Linked, RowsDiffer, NEW r \in running, NEW m \in MeshText,
           NEW kind \in {"text", "reply", "reaction"},
           NEW q \in DOMAIN packets \cup {None}, MeshSays(r, m, kind, q)
    PROVE  TypeOK' /\ Linked' /\ RowsDiffer'
<1>0. r \in Relays
  BY RelayAssumption DEF TypeOK
<1>1. PICK s \in Uttered, v \in PacketRecord :
        /\ said' = Append(said, s) /\ s.on = r
        /\ packets' = Append(packets, v)
        /\ v.mesh = r /\ v.of = Len(said) + 1
        /\ v.reply # None => /\ v.reply \in DOMAIN packets
                             /\ packets[v.reply].of = s.answers /\ packets[v.reply].mesh = r
        /\ inbox' = [inbox EXCEPT ![r] = Append(@, Len(packets) + 1)]
        /\ UNCHANGED <<events, seen, tasks, queue, sending, map, cfg, running, dropped, missed>>
  BY MeshSaysEffect
<1>2. /\ said' \in Seq(Uttered) /\ Grown(said, said')
      /\ DOMAIN said = 1..Len(said) /\ DOMAIN said' = 1..(Len(said) + 1) /\ Len(said) \in Nat
      /\ said'[Len(said) + 1] = s
  BY <1>1, AppendIs, AppendGrows DEF TypeOK
<1>3. /\ packets' \in Seq(PacketRecord) /\ Grown(packets, packets')
      /\ DOMAIN packets = 1..Len(packets) /\ DOMAIN packets' = 1..(Len(packets) + 1) /\ Len(packets) \in Nat
      /\ packets'[Len(packets) + 1] = v
  BY <1>1, AppendIs, AppendGrows DEF TypeOK
<1>4. inbox[r] \in Seq(Nat) /\ Len(packets) + 1 \in Nat
  BY <1>0, <1>3 DEF TypeOK
<1>5. /\ Append(inbox[r], Len(packets) + 1) \in Seq(Nat)
      /\ \A i \in DOMAIN Append(inbox[r], Len(packets) + 1) :
           \/ \E j \in DOMAIN inbox[r] : Append(inbox[r], Len(packets) + 1)[i] = inbox[r][j]
           \/ Append(inbox[r], Len(packets) + 1)[i] = Len(packets) + 1
  BY <1>4, AppendIs
<1>6. /\ inbox' \in [Relays -> Seq(Nat)] /\ inbox'[r] = Append(inbox[r], Len(packets) + 1)
      /\ \A x \in Relays : x # r => inbox'[x] = inbox[x]
  BY <1>0, <1>1, <1>5 DEF TypeOK
<1>7. TypeOK'
  BY <1>1, <1>2, <1>3, <1>6 DEF TypeOK
<1>8. Heard(said', packets', r, Len(packets) + 1)
  BY <1>1, <1>2, <1>3 DEF Heard
<1>9. \A x \in Relays : \A i \in DOMAIN inbox'[x] :
        (\E j \in DOMAIN inbox[x] : inbox'[x][i] = inbox[x][j]) \/ Heard(said', packets', x, inbox'[x][i])
  BY <1>5, <1>6, <1>8
<1>10. PacketGood(said', packets', v)
  BY <1>1, <1>2, <1>3 DEF PacketGood, Grown
<1>11. \A p \in DOMAIN packets' : p \in DOMAIN packets \/ PacketGood(said', packets', packets'[p])
  BY <1>3, <1>10
<1>12. Grown(events, events')
  BY <1>1 DEF Grown
<1>13. Linked'
  <2>1. /\ \A e \in DOMAIN events' : e \in DOMAIN events
        /\ \A x \in Relays : \A i \in DOMAIN map'[x] : \E j \in DOMAIN map[x] : map'[x][i] = map[x][j]
        /\ \A t \in tasks' : t \in tasks
        /\ \A x \in Relays : \A i \in DOMAIN queue'[x] : \E j \in DOMAIN queue[x] : queue'[x][i] = queue[x][j]
        /\ \A x \in Relays : sending'[x] = sending[x]
    BY <1>1
  <2> QED BY <1>2, <1>3, <1>9, <1>11, <1>12, <2>1, LinkedStep
<1>14. RowsDiffer'
  BY <1>1 DEF RowsDiffer
<1> QED BY <1>7, <1>13, <1>14

\* So does one in a room.
LEMMA RoomSaysLinks ==
    ASSUME TypeOK, Linked, RowsDiffer, NEW room \in Rooms, NEW text \in STRING,
           NEW kind \in {"text", "reply", "reaction"},
           NEW e \in DOMAIN events \cup {None}, RoomSays(room, text, kind, e)
    PROVE  TypeOK' /\ Linked' /\ RowsDiffer'
<1>1. PICK s \in Uttered, v \in EventRecord :
        /\ said' = Append(said, s) /\ s.on = room
        /\ events' = Append(events, v)
        /\ v.by = User /\ v.room = room /\ v.of = Len(said) + 1
        /\ v.reply # None => /\ v.reply \in DOMAIN events
                             /\ events[v.reply].of = s.answers /\ events[v.reply].room = room
        /\ UNCHANGED <<packets, inbox, seen, tasks, queue, sending, map, cfg, running, dropped, missed>>
  BY RoomSaysEffect
<1>2. /\ said' \in Seq(Uttered) /\ Grown(said, said')
      /\ DOMAIN said = 1..Len(said) /\ DOMAIN said' = 1..(Len(said) + 1) /\ Len(said) \in Nat
      /\ said'[Len(said) + 1] = s
  BY <1>1, AppendIs, AppendGrows DEF TypeOK
<1>3. /\ events' \in Seq(EventRecord) /\ Grown(events, events')
      /\ DOMAIN events = 1..Len(events) /\ DOMAIN events' = 1..(Len(events) + 1) /\ Len(events) \in Nat
      /\ events'[Len(events) + 1] = v
  BY <1>1, AppendIs, AppendGrows DEF TypeOK
<1>4. TypeOK'
  BY <1>1, <1>2, <1>3 DEF TypeOK
<1>5. EventGood(said', events', v)
  BY <1>1, <1>2, <1>3 DEF EventGood, Grown
<1>6. \A x \in DOMAIN events' : x \in DOMAIN events \/ EventGood(said', events', events'[x])
  BY <1>3, <1>5
<1>7. Grown(packets, packets')
  BY <1>1 DEF Grown
<1>8. Linked'
  <2>1. /\ \A p \in DOMAIN packets' : p \in DOMAIN packets
        /\ \A x \in Relays : \A i \in DOMAIN map'[x] : \E j \in DOMAIN map[x] : map'[x][i] = map[x][j]
        /\ \A x \in Relays : \A i \in DOMAIN inbox'[x] : \E j \in DOMAIN inbox[x] : inbox'[x][i] = inbox[x][j]
        /\ \A t \in tasks' : t \in tasks
        /\ \A x \in Relays : \A i \in DOMAIN queue'[x] : \E j \in DOMAIN queue[x] : queue'[x][i] = queue[x][j]
        /\ \A x \in Relays : sending'[x] = sending[x]
    BY <1>1
  <2> QED BY <1>2, <1>3, <1>6, <1>7, <2>1, LinkedStep
<1>9. RowsDiffer'
  BY <1>1 DEF RowsDiffer
<1> QED BY <1>4, <1>8, <1>9

-----------------------------------------------------------------------------
(* Meshtastic to Matrix.                                                   *)

\* What matrix_relay() takes over from the packet.
LEMMA TakenOver ==
    ASSUME TypeOK, NEW p \in DOMAIN packets
    PROVE  /\ packets[p].of \in Nat /\ packets[p].port \in Word /\ packets[p].reply \in Nat
           /\ "plain" \in Word /\ None \in Nat
BY Members DEF PacketRecord, Word, None

\* The coroutine of matrix_relay().
LEMMA TaskIs ==
    ASSUME NEW r \in Relays, NEW p \in Nat, NEW room \in Rooms, NEW v \in EventRecord
    PROVE  LET t == Task(r, p, room, v)
           IN  /\ t \in TaskRecord
               /\ t.r = r /\ t.pkt = p /\ t.room = room /\ t.ev = v
               /\ t.sent = None /\ t.tries = 0 /\ t.stage = "send"
BY DEF Task, TaskRecord, None

\* A packet that may be relayed.
LEMMA ClassifiedRelay ==
    ASSUME NEW c \in Config, NEW port, classify_packet(c, port) = "relay"
    PROVE  /\ port \in ({"text", "detection"} \cup c.chat) \ c.disabled
           /\ port = "detection" => c.detection
<1> DEFINE chat == c.chat \ {"unknown"}
           disabled == c.disabled \ {"unknown"}
<1>1. classify_packet(c, port) =
        IF port = "encrypted" THEN get_encrypted_action(c)
        ELSE IF port \in disabled THEN "drop"
        ELSE IF port = "detection" THEN IF c.detection THEN "relay" ELSE "plugin_only"
        ELSE IF port \in chat \cup {"text"} THEN "relay"
        ELSE "plugin_only"
  BY DEF classify_packet, get_packet_routing_overrides
<1>2. get_encrypted_action(c) # "relay"
  BY DEF get_encrypted_action
<1>3. port # "encrypted" /\ port \notin disabled
  BY <1>1, <1>2
<1>4. (port = "detection" /\ c.detection) \/ (port # "detection" /\ port \in chat \cup {"text"})
  BY <1>1, <1>3
<1> QED BY <1>3, <1>4

\* A text that is not disabled may be relayed.
LEMMA TextIsRelayed ==
    ASSUME NEW c \in Config, "text" \notin c.disabled
    PROVE  classify_packet(c, "text") = "relay"
BY DEF classify_packet, get_packet_routing_overrides

\* What a coroutine for the packet p of r starts with.
Started(r, p, t) ==
  /\ t \in TaskRecord /\ t.r = r /\ t.pkt = p
  /\ t.sent = None /\ t.stage = "send"
  /\ TaskGood(said, packets, events, t)
  /\ Public(packets, cfg[r], r, p, t.ev)

\* A reply or a reaction to a mapped packet is relayed into the room of the mapping.
LEMMA AnswerStarts ==
    ASSUME TypeOK, Linked, NEW r \in running, NEW p, Heard(said, packets, r, p),
           NEW reply \in Nat, NEW emote \in BOOLEAN, reply # None \/ emote,
           packets[p].reply # None,
           LET orig == get_message_map_by_meshtastic_id(r, packets[p].reply)
           IN  orig.ev # None /\ reply \in {None, orig.ev},
           classify_packet(cfg[r], packets[p].port) = "relay", packets[p].to # "node"
    PROVE  LET orig == get_message_map_by_meshtastic_id(r, packets[p].reply)
           IN  Started(r, p, Task(r, p, orig.room, Content(r, p, orig.room, reply, emote)))
<1> DEFINE orig == get_message_map_by_meshtastic_id(r, packets[p].reply)
           v == Content(r, p, orig.room, reply, emote)
           t == Task(r, p, orig.room, v)
<1>0. r \in Relays /\ p \in DOMAIN packets /\ p \in Nat /\ cfg[r] \in Config
  BY RelayAssumption, Members DEF TypeOK, Heard
<1>1. PICK i \in DOMAIN map[r] : map[r][i].pkt = packets[p].reply /\ orig = map[r][i]
  BY <1>0, FoundByPacket
<1> HIDE DEF orig
<1>2. orig \in RowRecord /\ RowGood(packets, events, r, orig)
  BY <1>0, <1>1 DEF TypeOK, Linked
<1>3. orig.room \in Rooms
  BY <1>2 DEF RowRecord
<1>4. /\ v \in EventRecord /\ v.of = packets[p].of /\ v.by = r /\ v.room = orig.room /\ v.reply = reply
      /\ v.suppress = FALSE /\ v.emote = emote
  <2> DEFINE link == IF packets[p].reply # None /\ (reply # None \/ emote) THEN packets[p].reply ELSE None
  <2>1. link \in Nat
    BY <1>0, TakenOver
  <2>2. v = Event(orig.room, r, packets[p].of, r, packets[p].port, reply, link, emote, FALSE, "plain")
    BY DEF Content
  <2> HIDE DEF link
  <2> QED BY <1>0, <1>3, <2>1, <2>2, TakenOver DEF Event, EventRecord
<1> HIDE DEF v
<1>5. /\ t \in TaskRecord /\ t.r = r /\ t.pkt = p /\ t.room = orig.room /\ t.ev = v
      /\ t.sent = None /\ t.stage = "send"
  BY <1>0, <1>3, <1>4, TaskIs
<1> HIDE DEF t
<1>6. packets[packets[p].reply].of = said[packets[p].of].answers
  BY <1>0 DEF Linked, PacketGood
<1>7. r # User /\ said[packets[p].of].on = r /\ packets[p].of \in DOMAIN said
  BY <1>0, RelayAssumption DEF Heard
<1>8. v.reply # None => /\ v.reply \in DOMAIN events
                        /\ events[v.reply].of = said[v.of].answers /\ events[v.reply].room = v.room
  <2>1. /\ orig.ev \in DOMAIN events /\ events[orig.ev].room = orig.room
        /\ events[orig.ev].of = packets[orig.pkt].of /\ orig.pkt = packets[p].reply
    BY <1>1, <1>2 DEF RowGood
  <2>2. reply \in {None, orig.ev}
    BY DEF orig
  <2> QED BY <1>4, <1>6, <2>1, <2>2
<1>9. EventGood(said, events, v)
  BY <1>2, <1>4, <1>7, <1>8 DEF EventGood, RowGood
<1>10. TaskGood(said, packets, events, t)
  BY <1>4, <1>5, <1>9 DEF TaskGood
<1>11. Public(packets, cfg[r], r, p, t.ev)
  BY <1>0, <1>4, <1>5, ClassifiedRelay DEF Public
<1> QED BY <1>5, <1>10, <1>11 DEF Started, t, v, orig

\* A public text is relayed into every room of its channel.
LEMMA TextStarts ==
    ASSUME TypeOK, Linked, NEW r \in running, NEW p, Heard(said, packets, r, p),
           ~StaysOnMesh(r, p), packets[p].to # "node", NEW room \in RoomsOf(r, packets[p].ch)
    PROVE  LET t == Task(r, p, room, Content(r, p, room, None, FALSE))
           IN  Started(r, p, t) /\ t.room = room
<1> DEFINE v == Content(r, p, room, None, FALSE)
           t == Task(r, p, room, v)
<1>0. r \in Relays /\ p \in DOMAIN packets /\ p \in Nat /\ cfg[r] \in Config
  BY RelayAssumption, Members DEF TypeOK, Heard
<1>1. room \in Rooms /\ RoomChannel[r][room] = packets[p].ch /\ Serves(r, room)
  BY DEF RoomsOf, normalize_room_channel, Serves
<1>2. /\ v \in EventRecord /\ v.of = packets[p].of /\ v.by = r /\ v.room = room /\ v.reply = None
      /\ v.suppress = FALSE
  <2>1. v = Event(room, r, packets[p].of, r, packets[p].port, None, None, FALSE, FALSE, "plain")
    BY DEF Content
  <2> HIDE DEF v
  <2> QED BY <1>0, <1>1, <2>1, TakenOver DEF Event, EventRecord
<1> HIDE DEF v
<1>3. /\ t \in TaskRecord /\ t.r = r /\ t.pkt = p /\ t.room = room /\ t.ev = v
      /\ t.sent = None /\ t.stage = "send"
  BY <1>0, <1>1, <1>2, TaskIs
<1> HIDE DEF t
<1>4. r # User /\ said[packets[p].of].on = r /\ packets[p].of \in DOMAIN said
  BY <1>0, RelayAssumption DEF Heard
<1>5. EventGood(said, events, v)
  BY <1>1, <1>2, <1>4 DEF EventGood
<1>6. TaskGood(said, packets, events, t)
  BY <1>2, <1>3, <1>5 DEF TaskGood
<1>7. classify_packet(cfg[r], packets[p].port) = "relay" /\ packets[p].to # "relay"
  BY DEF StaysOnMesh
<1>8. packets[p].to = "all"
  BY <1>0, <1>7, Members DEF PacketRecord
<1>9. Public(packets, cfg[r], r, p, t.ev)
  BY <1>0, <1>1, <1>2, <1>3, <1>7, <1>8, ClassifiedRelay DEF Public
<1> QED BY <1>3, <1>6, <1>9 DEF Started, t, v

\* A public text is not ignored: what is left is to find its rooms.
LEMMA PublicTextIs ==
    ASSUME TypeOK, NEW r \in running, NEW p, Heard(said, packets, r, p), PublicText(p)
    PROVE  /\ packets[p].port = "text" /\ packets[p].to = "all" /\ packets[p].reply = None
           /\ classify_packet(cfg[r], packets[p].port) = "relay"
           /\ ~Ignored(r, p) /\ ~RelaysReaction(r, p) /\ ~RelaysReply(r, p) /\ HasText(p)
           /\ StaysOnMesh(r, p) => RoomsOf(r, packets[p].ch) = {}
<1>1. packets[p].port = "text" /\ packets[p].to = "all" /\ packets[p].reply = None
  BY DEF PublicText
<1>2. "text" \notin cfg[r].disabled /\ cfg[r] \in Config
  BY DEF PublicText, Heard, TypeOK
<1>3. classify_packet(cfg[r], packets[p].port) = "relay"
  BY <1>1, <1>2, TextIsRelayed
<1> QED BY <1>1, <1>3 DEF Ignored, IsTapback, RelaysReaction, RelaysReply, HasText, StaysOnMesh

\* What the callback does with the packet p: the coroutines it starts, the event of
\* mesh_relay and what a plugin takes.
Handles(r, p, new) ==
  /\ tasks' = tasks \cup new
  /\ \A t \in new : Started(r, p, t)
  /\ \A t, u \in new : t.room = u.room => t = u
  /\ \A t, u \in new : RoomChannel[r][t.room] = RoomChannel[r][u.room]
  /\ IsFiniteSet(new)
  /\ \/ events' = events
     \/ /\ new = {}
        /\ \E v \in EventRecord : /\ events' = Append(events, v) /\ EventGood(said, events, v)
                                  /\ v.of = packets[p].of /\ v.by = r /\ v.suppress
  /\ dropped \subseteq dropped' /\ missed \subseteq missed'
  /\ PublicText(p) => \/ packets[p].of \in dropped' \/ p \in missed'
                      \/ \A room \in RoomsOf(r, packets[p].ch) : \E t \in new : t.room = room

\* The callback takes a packet, ready for it or not.
Hears(r) == NotReady(r) \/ \E o : OnMeshtasticMessage(r, o)

\* A relay that is ready takes one packet from the inbox and handles it.
LEMMA ReadyEffect ==
    ASSUME TypeOK, Linked, NEW r \in running, NEW o, OnMeshtasticMessage(r, o)
    PROVE  /\ inbox[r] # << >> /\ Heard(said, packets, r, Head(inbox[r]))
           /\ inbox' = [inbox EXCEPT ![r] = Tail(@)]
           /\ UNCHANGED <<said, packets, seen, queue, sending, map, cfg, running>>
           /\ \E new : Handles(r, Head(inbox[r]), new)
<1> DEFINE p == Head(inbox[r])
           ordinary == {Task(r, p, room, Content(r, p, room, None, FALSE)) : room \in RoomsOf(r, packets[p].ch)}
           newTasks == IF RelaysReaction(r, p) THEN {ReactionTask(r, p)}
                       ELSE IF RelaysReply(r, p) THEN {ReplyTask(r, p)}
                       ELSE IF ~HasText(p) \/ StaysOnMesh(r, p) \/ MeshRelayTakes(r, p) \/ PluginsTake(o)
                       THEN {} ELSE ordinary
           plugins == ~Ignored(r, p) /\ ~RelaysReaction(r, p) /\ ~RelaysReply(r, p)
<1>1. /\ inbox[r] # << >> /\ inbox' = [inbox EXCEPT ![r] = Tail(@)]
      /\ UNCHANGED <<said, packets, seen, queue, sending, map, cfg, running>>
  BY DEF OnMeshtasticMessage
<1>2. /\ tasks' = IF Ignored(r, p) THEN tasks ELSE tasks \cup newTasks
      /\ events' = IF plugins /\ MeshRelayTakes(r, p) THEN Append(events, MeshRelayEvent(r, p)) ELSE events
      /\ dropped' = IF plugins /\ (MeshRelayTakes(r, p) \/ PluginsTake(o))
                    THEN dropped \cup {packets[p].of} ELSE dropped
  BY DEF OnMeshtasticMessage
<1>3. r \in Relays /\ Heard(said, packets, r, p) /\ cfg[r] \in Config
  <2>1. r \in Relays
    BY RelayAssumption DEF TypeOK
  <2>2. inbox[r] \in Seq(Nat)
    BY <2>1 DEF TypeOK
  <2>3. 1 \in DOMAIN inbox[r] /\ p = inbox[r][1]
    BY <1>1, <2>2, TailIs
  <2> QED BY <2>1, <2>3 DEF Linked, TypeOK
<1> HIDE DEF p
<1>4. p \in DOMAIN packets /\ packets[p].of \in DOMAIN said /\ said[packets[p].of].on = r
  BY <1>3 DEF Heard
<1>5. dropped \subseteq dropped' /\ missed \subseteq missed'
  BY <1>2 DEF OnMeshtasticMessage
<1>6. CASE Ignored(r, p)
  <2>1. tasks' = tasks \cup {} /\ events' = events
    BY <1>2, <1>6
  <2>2. ~PublicText(p)
    BY <1>3, <1>6, PublicTextIs
  <2>3. Handles(r, p, {})
    BY <1>5, <2>1, <2>2, FS_EmptySet DEF Handles
  <2> QED BY <1>1, <1>3, <2>3 DEF p
<1>7. CASE ~Ignored(r, p) /\ RelaysReaction(r, p)
  <2>1. tasks' = tasks \cup {ReactionTask(r, p)} /\ events' = events
    BY <1>2, <1>7
  <2>2. ~PublicText(p)
    BY <1>3, <1>7, PublicTextIs
  <2>3. /\ packets[p].reply # None /\ packets[p].to # "node"
        /\ classify_packet(cfg[r], packets[p].port) = "relay"
        /\ get_message_map_by_meshtastic_id(r, packets[p].reply).ev # None
    BY <1>7 DEF RelaysReaction, IsTapback, Ignored
  <2>4. None \in Nat
    BY DEF None
  <2>5. Started(r, p, ReactionTask(r, p))
    BY <1>3, <2>3, <2>4, AnswerStarts DEF ReactionTask
  <2>6. Handles(r, p, {ReactionTask(r, p)})
    BY <1>5, <2>1, <2>2, <2>5, FS_Singleton DEF Handles
  <2> QED BY <1>1, <1>3, <2>6 DEF p
<1>8. CASE ~Ignored(r, p) /\ ~RelaysReaction(r, p) /\ RelaysReply(r, p)
  <2>1. tasks' = tasks \cup {ReplyTask(r, p)} /\ events' = events
    BY <1>2, <1>8
  <2>2. ~PublicText(p)
    BY <1>3, <1>8, PublicTextIs
  <2>3. /\ packets[p].reply # None /\ packets[p].to # "node"
        /\ classify_packet(cfg[r], packets[p].port) = "relay"
        /\ get_message_map_by_meshtastic_id(r, packets[p].reply).ev # None
    BY <1>8 DEF RelaysReply, Ignored
  <2>4. get_message_map_by_meshtastic_id(r, packets[p].reply).ev \in Nat
    <3>1. PICK i \in DOMAIN map[r] : get_message_map_by_meshtastic_id(r, packets[p].reply) = map[r][i]
      BY <1>3, <2>3, FoundByPacket
    <3>2. map[r][i] \in RowRecord
      BY <1>3 DEF TypeOK
    <3> QED BY <3>1, <3>2 DEF RowRecord
  <2>5. Started(r, p, ReplyTask(r, p))
    BY <1>3, <2>3, <2>4, AnswerStarts DEF ReplyTask
  <2>6. Handles(r, p, {ReplyTask(r, p)})
    BY <1>5, <2>1, <2>2, <2>5, FS_Singleton DEF Handles
  <2> QED BY <1>1, <1>3, <2>6 DEF p
<1>9. CASE plugins /\ MeshRelayTakes(r, p)
  <2>1. tasks' = tasks \cup {} /\ events' = Append(events, MeshRelayEvent(r, p)) /\ packets[p].of \in dropped'
    BY <1>2, <1>9
  <2> DEFINE v == MeshRelayEvent(r, p)
             room == CHOOSE room \in RoomsOf(r, packets[p].ch) : TRUE
  <2>2. room \in Rooms /\ Serves(r, room)
    <3>1. room \in RoomsOf(r, packets[p].ch)
      BY <1>9 DEF MeshRelayTakes
    <3> HIDE DEF room
    <3> QED BY <3>1 DEF RoomsOf, normalize_room_channel, Serves
  <2>3. v = Event(room, r, packets[p].of, NoMesh, "none", None, None, FALSE, TRUE, "plain")
    BY DEF MeshRelayEvent
  <2> HIDE DEF v, room
  <2>4. /\ v \in EventRecord /\ v.of = packets[p].of /\ v.by = r /\ v.suppress
        /\ v.reply = None /\ v.room = room
    <3>1. "none" \in Word
      BY DEF Word
    <3> QED BY <1>3, <1>4, <2>2, <2>3, <3>1, TakenOver DEF Event, EventRecord
  <2>5. EventGood(said, events, v)
    BY <1>3, <1>4, <2>2, <2>4, RelayAssumption DEF EventGood
  <2>6. Handles(r, p, {})
    BY <1>5, <2>1, <2>4, <2>5, FS_EmptySet DEF Handles, v
  <2> QED BY <1>1, <1>3, <2>6 DEF p
<1>10. CASE plugins /\ ~MeshRelayTakes(r, p) /\ (~HasText(p) \/ StaysOnMesh(r, p) \/ PluginsTake(o))
  <2>1. tasks' = tasks \cup {} /\ events' = events
    BY <1>2, <1>10
  <2>2. PublicText(p) => packets[p].of \in dropped' \/ RoomsOf(r, packets[p].ch) = {}
    BY <1>2, <1>3, <1>10, PublicTextIs
  <2>3. Handles(r, p, {})
    BY <1>5, <2>1, <2>2, FS_EmptySet DEF Handles
  <2> QED BY <1>1, <1>3, <2>3 DEF p
<1>11. CASE plugins /\ ~MeshRelayTakes(r, p) /\ HasText(p) /\ ~StaysOnMesh(r, p) /\ ~PluginsTake(o)
  <2>1. tasks' = tasks \cup ordinary /\ events' = events
    BY <1>2, <1>11
  <2> DEFINE T(room) == Task(r, p, room, Content(r, p, room, None, FALSE))
             f == [room \in RoomsOf(r, packets[p].ch) |-> T(room)]
  <2>2. \A room \in RoomsOf(r, packets[p].ch) : Started(r, p, T(room)) /\ T(room).room = room
    BY <1>3, <1>11, TextStarts DEF Ignored
  <2>3. IsFiniteSet(ordinary)
    <3>1. IsFiniteSet(RoomsOf(r, packets[p].ch))
      BY RelayAssumption, FS_Subset DEF RoomsOf
    <3>2. f \in Surjection(RoomsOf(r, packets[p].ch), ordinary)
      BY DEF Surjection
    <3> QED BY <3>1, <3>2, FS_Surjection
  <2>4. \A t \in ordinary : \E room \in RoomsOf(r, packets[p].ch) : t = T(room)
    OBVIOUS
  <2>5. \A room \in RoomsOf(r, packets[p].ch) : T(room) \in ordinary
    OBVIOUS
  <2> HIDE DEF T, ordinary
  <2>6. /\ \A t \in ordinary : Started(r, p, t)
        /\ \A t, u \in ordinary : t.room = u.room => t = u
        /\ \A room \in RoomsOf(r, packets[p].ch) : \E t \in ordinary : t.room = room
    BY <2>2, <2>4, <2>5
  <2>7. \A t, u \in ordinary : RoomChannel[r][t.room] = RoomChannel[r][u.room]
    BY <2>2, <2>4 DEF RoomsOf, normalize_room_channel
  <2>8. Handles(r, p, ordinary)
    BY <1>5, <2>1, <2>3, <2>6, <2>7 DEF Handles
  <2> QED BY <1>1, <1>3, <2>8 DEF p
<1> QED BY <1>6, <1>7, <1>8, <1>9, <1>10, <1>11

\* One that is not ready handles none of it.
LEMMA OnMeshtasticEffect ==
    ASSUME TypeOK, Linked, NEW r \in running, Hears(r)
    PROVE  /\ inbox[r] # << >> /\ Heard(said, packets, r, Head(inbox[r]))
           /\ inbox' = [inbox EXCEPT ![r] = Tail(@)]
           /\ UNCHANGED <<said, packets, seen, queue, sending, map, cfg, running>>
           /\ \E new : Handles(r, Head(inbox[r]), new)
<1>1. CASE NotReady(r)
  <2>1. /\ inbox[r] # << >> /\ inbox' = [inbox EXCEPT ![r] = Tail(@)]
        /\ UNCHANGED <<said, packets, seen, queue, sending, map, cfg, running>>
    BY <1>1 DEF NotReady
  <2>2. r \in Relays /\ inbox[r] \in Seq(Nat)
    BY RelayAssumption DEF TypeOK
  <2>3. 1 \in DOMAIN inbox[r] /\ Head(inbox[r]) = inbox[r][1]
    BY <2>1, <2>2, TailIs
  <2>4. Heard(said, packets, r, Head(inbox[r]))
    BY <2>2, <2>3 DEF Linked
  <2>5. tasks' = tasks \cup {} /\ events' = events /\ dropped' = dropped /\ missed' = missed \cup {Head(inbox[r])}
    BY <1>1 DEF NotReady
  <2>6. Handles(r, Head(inbox[r]), {})
    BY <2>5, FS_EmptySet DEF Handles
  <2> QED BY <2>1, <2>4, <2>6
<1>2. CASE \E o : OnMeshtasticMessage(r, o)
  <2>1. PICK o : OnMeshtasticMessage(r, o)
    BY <1>2
  <2> QED BY <2>1, ReadyEffect
<1> QED BY <1>1, <1>2 DEF Hears

\* on_meshtastic_message() keeps the types and the links.
LEMMA OnMeshtasticLinks ==
    ASSUME TypeOK, Linked, RowsDiffer, NEW r \in running, Hears(r)
    PROVE  TypeOK' /\ Linked' /\ RowsDiffer'
<1> DEFINE p == Head(inbox[r])
<1>1. /\ inbox[r] # << >> /\ Heard(said, packets, r, p)
      /\ inbox' = [inbox EXCEPT ![r] = Tail(@)]
      /\ UNCHANGED <<said, packets, seen, queue, sending, map, cfg, running>>
  BY OnMeshtasticEffect
<1>2. PICK new : Handles(r, p, new)
  BY OnMeshtasticEffect
<1> HIDE DEF p
<1>3. r \in Relays /\ inbox[r] \in Seq(Nat)
  BY RelayAssumption DEF TypeOK
<1>4. /\ inbox' \in [Relays -> Seq(Nat)]
      /\ \A x \in Relays : \A i \in DOMAIN inbox'[x] : \E j \in DOMAIN inbox[x] : inbox'[x][i] = inbox[x][j]
  <2>1. /\ Tail(inbox[r]) \in Seq(Nat)
        /\ \A i \in DOMAIN Tail(inbox[r]) : \E j \in DOMAIN inbox[r] : Tail(inbox[r])[i] = inbox[r][j]
    BY <1>1, <1>3, TailIs
  <2>2. inbox'[r] = Tail(inbox[r]) /\ \A x \in Relays : x # r => inbox'[x] = inbox[x]
    BY <1>1, <1>3 DEF TypeOK
  <2> QED BY <1>1, <1>3, <2>1, <2>2 DEF TypeOK
<1>5. /\ events' \in Seq(EventRecord) /\ Grown(events, events')
      /\ \A e \in DOMAIN events' : e \in DOMAIN events \/ EventGood(said', events', events'[e])
  <2>1. CASE events' = events
    BY <2>1 DEF TypeOK, Grown
  <2>2. CASE events' # events
    <3>1. PICK v \in EventRecord : events' = Append(events, v) /\ EventGood(said, events, v)
      BY <1>2, <2>2 DEF Handles
    <3>2. /\ events' \in Seq(EventRecord) /\ Grown(events, events')
          /\ DOMAIN events = 1..Len(events) /\ DOMAIN events' = 1..(Len(events) + 1) /\ Len(events) \in Nat
          /\ events'[Len(events) + 1] = v
      BY <3>1, AppendIs, AppendGrows DEF TypeOK
    <3>3. Grown(said, said')
      BY <1>1 DEF Grown
    <3>4. EventGood(said', events', v)
      BY <3>1, <3>2, <3>3, EventStays
    <3> QED BY <3>2, <3>4
  <2> QED BY <2>1, <2>2
<1>6. Grown(said, said') /\ Grown(packets, packets')
  BY <1>1 DEF Grown
<1>7. \A t \in tasks' : t \in tasks \/ (t \in TaskRecord /\ t.r = r /\ TaskGood(said', packets', events', t))
  <2>1. \A t \in new : t \in TaskRecord /\ t.r = r /\ TaskGood(said, packets, events, t)
    BY <1>2 DEF Handles, Started
  <2>2. \A t \in new : TaskGood(said', packets', events', t)
    BY <1>5, <1>6, <2>1, TaskStays
  <2> QED BY <1>2, <2>1, <2>2 DEF Handles
<1>8. TypeOK'
  <2>1. tasks' \in SUBSET TaskRecord /\ \A t \in tasks' : t.r \in running'
    BY <1>1, <1>7 DEF TypeOK
  <2> QED BY <1>1, <1>4, <1>5, <2>1 DEF TypeOK
<1>9. Linked'
  <2>1. /\ \A x \in DOMAIN packets' : x \in DOMAIN packets
        /\ \A x \in Relays : \A i \in DOMAIN map'[x] : \E j \in DOMAIN map[x] : map'[x][i] = map[x][j]
        /\ \A x \in Relays : \A i \in DOMAIN queue'[x] : \E j \in DOMAIN queue[x] : queue'[x][i] = queue[x][j]
        /\ \A x \in Relays : sending'[x] = sending[x]
    BY <1>1
  <2> QED BY <1>4, <1>5, <1>6, <1>7, <2>1, LinkedStep
<1>10. RowsDiffer'
  BY <1>1 DEF RowsDiffer
<1> QED BY <1>8, <1>9, <1>10

-----------------------------------------------------------------------------
(* The map changes by one row, or loses old rows.                          *)

Stores(r, row) == map' = [map EXCEPT ![r] = store_message_map_core(@, row)]

\* Storing a good row.
LEMMA MapStored ==
    ASSUME TypeOK, RowsDiffer, NEW r \in Relays, NEW row \in RowRecord, Stores(r, row)
    PROVE  /\ map' \in [Relays -> Seq(RowRecord)] /\ RowsDiffer'
           /\ \A x \in Relays : \A i \in DOMAIN map'[x] :
                (\E j \in DOMAIN map[x] : map'[x][i] = map[x][j]) \/ (x = r /\ map'[x][i] = row)
           /\ Len(map'[r]) <= Len(map[r]) + 1
           /\ \A x \in Relays : x # r => map'[x] = map[x]
<1> DEFINE new == store_message_map_core(map[r], row)
<1>1. map[r] \in Seq(RowRecord) /\ \A i, j \in DOMAIN map[r] : map[r][i].ev = map[r][j].ev => i = j
  BY DEF TypeOK, RowsDiffer
<1>2. /\ new \in Seq(RowRecord) /\ Len(new) <= Len(map[r]) + 1
      /\ \A i \in DOMAIN new : new[i] = row \/ \E j \in DOMAIN map[r] : new[i] = map[r][j]
      /\ \A i, j \in DOMAIN new : new[i].ev = new[j].ev => i = j
  BY <1>1, StoreIs
<1> HIDE DEF new
<1>3. map'[r] = new /\ \A x \in Relays : x # r => map'[x] = map[x]
  BY DEF TypeOK, new, Stores
<1>4. map' = [map EXCEPT ![r] = new]
  BY DEF new, Stores
<1>5. map' \in [Relays -> Seq(RowRecord)]
  BY <1>2, <1>4 DEF TypeOK
<1>6. RowsDiffer'
  BY <1>2, <1>3 DEF RowsDiffer
<1> QED BY <1>2, <1>3, <1>5, <1>6

\* Pruning.
LEMMA MapPruned ==
    ASSUME TypeOK, RowsDiffer, NEW r \in running, map' = [map EXCEPT ![r] = Pruned(r, @)]
    PROVE  /\ map' \in [Relays -> Seq(RowRecord)] /\ RowsDiffer'
           /\ \A x \in Relays : \A i \in DOMAIN map'[x] : \E j \in DOMAIN map[x] : map'[x][i] = map[x][j]
           /\ MsgsToKeep(r) > 0 => Len(map'[r]) <= MsgsToKeep(r)
           /\ \A x \in Relays : x # r => map'[x] = map[x]
<1> DEFINE new == Pruned(r, map[r])
<1>0. r \in Relays
  BY RelayAssumption DEF TypeOK
<1>1. map[r] \in Seq(RowRecord) /\ \A i, j \in DOMAIN map[r] : map[r][i].ev = map[r][j].ev => i = j
  BY <1>0 DEF TypeOK, RowsDiffer
<1>2. /\ new \in Seq(RowRecord) /\ (MsgsToKeep(r) > 0 => Len(new) <= MsgsToKeep(r))
      /\ \A i \in DOMAIN new : \E j \in DOMAIN map[r] : new[i] = map[r][j]
      /\ \A i, j \in DOMAIN new : new[i].ev = new[j].ev => i = j
  BY <1>1, PrunedIs
<1> HIDE DEF new
<1>3. map'[r] = new /\ \A x \in Relays : x # r => map'[x] = map[x]
  BY <1>0 DEF TypeOK, new
<1>4. map' = [map EXCEPT ![r] = new]
  BY DEF new
<1>5. map' \in [Relays -> Seq(RowRecord)]
  BY <1>2, <1>4 DEF TypeOK
<1>6. RowsDiffer'
  BY <1>2, <1>3 DEF RowsDiffer
<1> QED BY <1>2, <1>3, <1>5, <1>6

-----------------------------------------------------------------------------
(* A step of a coroutine.                                                  *)

\* u is the coroutine t after a step: it still carries its event, and knows the
\* event of the server unless nothing has reached it.
Follows(t, u) ==
  /\ u \in TaskRecord
  /\ u.r = t.r /\ u.pkt = t.pkt /\ u.room = t.room /\ u.ev = t.ev
  /\ u.sent # None => u.sent \in DOMAIN events' /\ events'[u.sent] = u.ev
  /\ u.stage # "send" => u.sent # None
  /\ u.sent = None => t.sent = None /\ events' = events

\* The server makes the event of t at most once, and t ends only when the event is
\* there or the message is given up.
Runs(t) ==
  /\ \/ events' = events
     \/ t.sent = None /\ events' = Append(events, t.ev)
  /\ \/ /\ tasks' = tasks \ {t}
        /\ t.ev.of \in dropped' \/ \E e \in DOMAIN events' : events'[e] = t.ev
     \/ \E u : Follows(t, u) /\ tasks' = (tasks \ {t}) \cup {u}
  /\ dropped \subseteq dropped' /\ missed \subseteq missed'
  /\ UNCHANGED <<said, packets, inbox, seen, queue, sending, cfg, running, missed>>

\* A send that reached the server.
LEMMA AcceptIs ==
    ASSUME TypeOK, Linked, NEW t \in tasks, Accept(t)
    PROVE  /\ TransactionEvent(t) \in DOMAIN events' /\ events'[TransactionEvent(t)] = t.ev
           /\ TransactionEvent(t) \in Nat /\ TransactionEvent(t) # None
           /\ \/ events' = events
              \/ t.sent = None /\ events' = Append(events, t.ev)
           /\ t.stage = "send"
<1>1. t \in TaskRecord /\ t.ev \in EventRecord /\ t.sent \in Nat /\ TaskGood(said, packets, events, t)
  BY DEF TypeOK, TaskRecord, Linked
<1>2. events \in Seq(EventRecord) /\ Len(events) \in Nat
  BY DEF TypeOK
<1>3. CASE t.sent = None
  <2>1. TransactionEvent(t) = Len(events) + 1
    BY <1>3 DEF TransactionEvent
  <2>2. events' = Append(events, t.ev)
    BY <1>2, <2>1 DEF Accept
  <2>3. /\ DOMAIN events' = 1..(Len(events) + 1) /\ events'[Len(events) + 1] = t.ev
    BY <1>1, <1>2, <2>2, AppendIs
  <2> QED BY <1>2, <1>3, <2>1, <2>2, <2>3 DEF Accept, None
<1>4. CASE t.sent # None
  <2>1. TransactionEvent(t) = t.sent
    BY <1>4 DEF TransactionEvent
  <2>2. t.sent \in DOMAIN events /\ events[t.sent] = t.ev
    BY <1>1, <1>4 DEF TaskGood
  <2>3. t.sent <= Len(events)
    BY <1>2, <2>2
  <2>4. events' = events
    BY <1>1, <1>2, <2>1, <2>3 DEF Accept
  <2> QED BY <1>1, <1>4, <2>1, <2>2, <2>4 DEF Accept
<1> QED BY <1>3, <1>4

\* The coroutine keeps what it carries.
LEMMA TaskTypes ==
    ASSUME TypeOK, Linked, NEW t \in tasks
    PROVE  /\ t \in TaskRecord /\ TaskGood(said, packets, events, t) /\ t.r \in running
           /\ t.r \in Relays /\ t.pkt \in Nat /\ t.room \in Rooms /\ t.ev \in EventRecord
           /\ t.sent \in Nat /\ t.tries \in Nat /\ t.stage \in {"send", "store", "prune"}
BY DEF TypeOK, TaskRecord, Linked

\* The answer arrived.
LEMMA AnsweredRuns ==
    ASSUME TypeOK, Linked, NEW t \in tasks, SendAnswered(t)
    PROVE  Runs(t) /\ map' = map
<1> DEFINE n == TransactionEvent(t)
           u == [t EXCEPT !.sent = n, !.stage = "store"]
<1>1. /\ n \in DOMAIN events' /\ events'[n] = t.ev /\ n \in Nat /\ n # None
      /\ events' = events \/ (t.sent = None /\ events' = Append(events, t.ev))
  BY AcceptIs DEF SendAnswered
<1>2. \/ tasks' = tasks \ {t}
      \/ tasks' = (tasks \ {t}) \cup {u}
  BY DEF SendAnswered, Update
<1>3. Follows(t, u)
  <2>1. /\ u \in TaskRecord /\ u.sent = n /\ u.stage = "store"
        /\ u.r = t.r /\ u.pkt = t.pkt /\ u.room = t.room /\ u.ev = t.ev
    <3> HIDE DEF n
    <3> QED BY <1>1, TaskTypes DEF TaskRecord
  <2> HIDE DEF u
  <2> QED BY <1>1, <2>1 DEF Follows
<1>4. map' = map /\ dropped' = dropped /\ UNCHANGED <<said, packets, inbox, seen, queue, sending, cfg, running, missed>>
  BY DEF SendAnswered
<1> HIDE DEF n, u
<1> QED BY <1>1, <1>2, <1>3, <1>4 DEF Runs

\* Another attempt, or none.
LEMMA RetryRuns ==
    ASSUME TypeOK, Linked, NEW t \in tasks, t.stage = "send", NEW n \in Nat, Retry(t, n),
           events' = events \/ (t.sent = None /\ events' = Append(events, t.ev)),
           n # None => n \in DOMAIN events' /\ events'[n] = t.ev,
           n = None => t.sent = None /\ events' = events,
           UNCHANGED <<said, packets, inbox, seen, queue, sending, cfg, running, missed>>
    PROVE  Runs(t)
<1> DEFINE k == t.tries + 1
           u == [t EXCEPT !.sent = n, !.tries = k]
<1>1. \/ tasks' = tasks \ {t} /\ dropped' = dropped \cup {t.ev.of}
      \/ tasks' = (tasks \ {t}) \cup {u} /\ dropped' = dropped
  BY DEF Retry, Update
<1>2. Follows(t, u)
  <2>1. /\ u \in TaskRecord /\ u.sent = n /\ u.stage = "send"
        /\ u.r = t.r /\ u.pkt = t.pkt /\ u.room = t.room /\ u.ev = t.ev
    <3>1. k \in Nat
      BY TaskTypes
    <3> HIDE DEF k
    <3> QED BY <3>1, TaskTypes DEF TaskRecord
  <2> HIDE DEF u
  <2> QED BY <2>1 DEF Follows
<1> HIDE DEF u
<1> QED BY <1>1, <1>2 DEF Runs

\* The answer is late or lost.
LEMMA TimesOutRuns ==
    ASSUME TypeOK, Linked, NEW t \in tasks, SendTimesOut(t)
    PROVE  Runs(t) /\ map' = map
<1> DEFINE n == TransactionEvent(t)
<1>1. /\ n \in DOMAIN events' /\ events'[n] = t.ev /\ n \in Nat /\ n # None /\ t.stage = "send"
      /\ events' = events \/ (t.sent = None /\ events' = Append(events, t.ev))
  BY AcceptIs DEF SendTimesOut
<1>2. Retry(t, n) /\ map' = map /\ UNCHANGED <<said, packets, inbox, seen, queue, sending, cfg, running, missed>>
  BY DEF SendTimesOut
<1> HIDE DEF n
<1> QED BY <1>1, <1>2, RetryRuns

\* The request never arrived.
LEMMA FailsRuns ==
    ASSUME TypeOK, Linked, NEW t \in tasks, SendFails(t)
    PROVE  Runs(t) /\ map' = map
<1>1. /\ t.stage = "send" /\ Retry(t, t.sent) /\ map' = map /\ events' = events
      /\ UNCHANGED <<said, packets, inbox, seen, queue, sending, cfg, running, missed>>
  BY DEF SendFails
<1>2. t.sent \in Nat /\ (t.sent # None => t.sent \in DOMAIN events' /\ events'[t.sent] = t.ev)
  BY <1>1, TaskTypes DEF TaskGood
<1> QED BY <1>1, <1>2, RetryRuns

\* No client, or no encryption.
LEMMA GivesUpRuns ==
    ASSUME TypeOK, Linked, NEW t \in tasks, GivesUp(t)
    PROVE  Runs(t) /\ map' = map
BY DEF GivesUp, Runs

\* Storing the mapping.
LEMMA StoreRuns ==
    ASSUME TypeOK, Linked, NEW t \in tasks, StoreInbound(t)
    PROVE  /\ Runs(t) /\ events' = events
           /\ Stores(t.r, Row(t.pkt, t.sent, t.room))
           /\ tasks' = (tasks \ {t}) \cup {[t EXCEPT !.stage = "prune"]}
           /\ t.stage = "store"
           /\ Row(t.pkt, t.sent, t.room) \in RowRecord
           /\ RowGood(packets, events, t.r, Row(t.pkt, t.sent, t.room))
<1> DEFINE u == [t EXCEPT !.stage = "prune"]
<1>1. /\ events' = events /\ t.stage = "store" /\ dropped' = dropped
      /\ Stores(t.r, Row(t.pkt, t.sent, t.room))
      /\ tasks' = (tasks \ {t}) \cup {u}
      /\ UNCHANGED <<said, packets, inbox, seen, queue, sending, cfg, running, missed>>
  BY DEF StoreInbound, Update, Stores
<1>2. /\ t.sent # None /\ t.sent \in DOMAIN events /\ events[t.sent] = t.ev
      /\ t.ev.of = packets[t.pkt].of /\ t.ev.room = t.room /\ t.ev.by = t.r
      /\ EventGood(said, events, t.ev) /\ Heard(said, packets, t.r, t.pkt)
  BY <1>1, TaskTypes DEF TaskGood
<1>3. Follows(t, u)
  <2>1. /\ u \in TaskRecord /\ u.sent = t.sent /\ u.stage = "prune"
        /\ u.r = t.r /\ u.pkt = t.pkt /\ u.room = t.room /\ u.ev = t.ev
    BY TaskTypes DEF TaskRecord
  <2> HIDE DEF u
  <2> QED BY <1>1, <1>2, <2>1 DEF Follows
<1>4. Row(t.pkt, t.sent, t.room) \in RowRecord
  BY TaskTypes DEF Row, RowRecord
<1>5. t.r # User
  BY TaskTypes, RelayAssumption
<1>6. RowGood(packets, events, t.r, Row(t.pkt, t.sent, t.room))
  BY <1>2, <1>5 DEF RowGood, Row, EventGood, Heard
<1>7. Runs(t)
  BY <1>1, <1>3 DEF Runs
<1> QED BY <1>1, <1>4, <1>6, <1>7

\* Pruning after it.
LEMMA PruneRuns ==
    ASSUME TypeOK, Linked, NEW t \in tasks, PruneInbound(t)
    PROVE  /\ Runs(t) /\ events' = events
           /\ map' = [map EXCEPT ![t.r] = Pruned(t.r, @)]
           /\ tasks' = tasks \ {t} /\ t.stage = "prune"
<1>1. /\ events' = events /\ t.stage = "prune" /\ dropped' = dropped
      /\ map' = [map EXCEPT ![t.r] = Pruned(t.r, @)]
      /\ tasks' = tasks \ {t}
      /\ UNCHANGED <<said, packets, inbox, seen, queue, sending, cfg, running, missed>>
  BY DEF PruneInbound
<1>2. t.sent \in DOMAIN events /\ events[t.sent] = t.ev
  BY <1>1, TaskTypes DEF TaskGood
<1> QED BY <1>1, <1>2 DEF Runs

\* What a step of a coroutine does to the histories and to the other coroutines.
LEMMA RunsEffect ==
    ASSUME TypeOK, Linked, NEW t \in tasks, Runs(t)
    PROVE  /\ events' \in Seq(EventRecord) /\ Grown(events, events')
           /\ Grown(said, said') /\ Grown(packets, packets')
           /\ \A e \in DOMAIN events' :
                \/ e \in DOMAIN events
                \/ /\ EventGood(said', events', events'[e])
                   /\ events'[e] = t.ev /\ e = Len(events) + 1 /\ t.sent = None
           /\ tasks' \in SUBSET TaskRecord
           /\ \A u \in tasks' : u.r \in running' /\ (u \in tasks \/ TaskGood(said', packets', events', u))
<1>1. Grown(said, said') /\ Grown(packets, packets')
  BY DEF Runs, Grown
<1>2. /\ events' \in Seq(EventRecord) /\ Grown(events, events')
      /\ \A e \in DOMAIN events' :
           e \in DOMAIN events \/ (events'[e] = t.ev /\ e = Len(events) + 1 /\ t.sent = None)
  <2>1. CASE events' = events
    BY <2>1 DEF TypeOK, Grown
  <2>2. CASE t.sent = None /\ events' = Append(events, t.ev)
    <3>1. t.ev \in EventRecord /\ events \in Seq(EventRecord)
      BY TaskTypes DEF TypeOK
    <3>2. /\ events' \in Seq(EventRecord) /\ Grown(events, events')
          /\ DOMAIN events = 1..Len(events) /\ DOMAIN events' = 1..(Len(events) + 1) /\ Len(events) \in Nat
          /\ events'[Len(events) + 1] = t.ev
      BY <2>2, <3>1, AppendIs, AppendGrows
    <3>3. \A e \in DOMAIN events' : e \in DOMAIN events \/ e = Len(events) + 1
      BY <3>2
    <3> QED BY <2>2, <3>2, <3>3
  <2> QED BY <2>1, <2>2 DEF Runs
<1>3. EventGood(said', events', t.ev)
  BY <1>1, <1>2, TaskTypes, EventStays DEF TaskGood
<1>4. ASSUME NEW u \in tasks', u \notin tasks
      PROVE  u \in TaskRecord /\ u.r \in running' /\ TaskGood(said', packets', events', u)
  <2>1. Follows(t, u)
    BY <1>4 DEF Runs
  <2>2. TaskGood(said', packets', events', t)
    BY <1>1, <1>2, TaskTypes, TaskStays
  <2> QED BY <2>1, <2>2, TaskTypes DEF Follows, TaskGood, Runs
<1>5. \A u \in tasks' : u \in tasks => u \in TaskRecord /\ u.r \in running'
  BY DEF TypeOK, Runs
<1> QED BY <1>1, <1>2, <1>3, <1>4, <1>5

\* A step of a coroutine keeps the types and the links.
LEMMA RunsLinks ==
    ASSUME TypeOK, Linked, NEW t \in tasks, Runs(t), RowsDiffer',
           map' \in [Relays -> Seq(RowRecord)],
           \A r \in Relays : \A i \in DOMAIN map'[r] :
             (\E j \in DOMAIN map[r] : map'[r][i] = map[r][j]) \/ RowGood(packets', events', r, map'[r][i])
    PROVE  TypeOK' /\ Linked' /\ RowsDiffer'
<1>1. UNCHANGED <<said, packets, inbox, seen, queue, sending, cfg, running>>
  BY DEF Runs
<1>2. TypeOK'
  BY <1>1, RunsEffect DEF TypeOK
<1>3. /\ \A p \in DOMAIN packets' : p \in DOMAIN packets
      /\ \A x \in Relays : \A i \in DOMAIN inbox'[x] : \E j \in DOMAIN inbox[x] : inbox'[x][i] = inbox[x][j]
      /\ \A x \in Relays : \A i \in DOMAIN queue'[x] : \E j \in DOMAIN queue[x] : queue'[x][i] = queue[x][j]
      /\ \A x \in Relays : sending'[x] = sending[x]
  BY <1>1
<1>4. /\ Grown(said, said') /\ Grown(packets, packets') /\ Grown(events, events')
      /\ \A e \in DOMAIN events' : e \in DOMAIN events \/ EventGood(said', events', events'[e])
      /\ \A u \in tasks' : u \in tasks \/ TaskGood(said', packets', events', u)
  BY RunsEffect
<1>5. Linked'
  BY <1>3, <1>4, LinkedStep
<1> QED BY <1>2, <1>5

-----------------------------------------------------------------------------
(* Matrix to Meshtastic.                                                   *)

\* A message about the event e that r does not ignore, with the packet of what it
\* answers if it has one.
LEMMA MessageIsGood ==
    ASSUME TypeOK, Linked, NEW r \in Relays, NEW e \in DOMAIN events, ~IgnoredEvent(r, e),
           NEW m, m.ev = e,
           \/ m.reply = None
           \/ m.reply = get_message_map_by_matrix_event_id(r, events[e].reply).pkt
    PROVE  MessageGood(said, packets, events, r, m)
<1>1. events[e].by # r /\ Serves(r, events[e].room)
  BY DEF IgnoredEvent, Serves
<1>2. CASE m.reply = None
  BY <1>1, <1>2 DEF MessageGood
<1>3. CASE m.reply # None
  <2> DEFINE row == get_message_map_by_matrix_event_id(r, events[e].reply)
  <2>1. m.reply = row.pkt /\ row.pkt # None
    BY <1>3
  <2>2. PICK i \in DOMAIN map[r] : map[r][i].ev = events[e].reply /\ row = map[r][i]
    BY <2>1, FoundByEvent
  <2> HIDE DEF row
  <2>3. RowGood(packets, events, r, row)
    BY <2>2 DEF Linked
  <2>4. events[e].reply # None
    BY <2>2, <2>3, Members DEF RowGood
  <2>5. events[events[e].reply].of = said[events[e].of].answers
    BY <2>4 DEF Linked, EventGood
  <2> QED BY <1>1, <2>1, <2>2, <2>3, <2>5 DEF MessageGood, RowGood
<1> QED BY <1>2, <1>3

\* The packet of a row found by its event.
LEMMA TargetIs ==
    ASSUME TypeOK, NEW r \in Relays, NEW e
    PROVE  get_message_map_by_matrix_event_id(r, e).pkt \in Nat
<1>1. CASE get_message_map_by_matrix_event_id(r, e).pkt = None
  BY <1>1 DEF None
<1>2. CASE get_message_map_by_matrix_event_id(r, e).pkt # None
  <2>1. PICK i \in DOMAIN map[r] : get_message_map_by_matrix_event_id(r, e) = map[r][i]
    BY <1>2, FoundByEvent
  <2>2. map[r][i] \in RowRecord
    BY DEF TypeOK
  <2> QED BY <2>1, <2>2 DEF RowRecord
<1> QED BY <1>1, <1>2

\* The messages on_room_message() may queue.
LEMMA MessagesAre ==
    ASSUME TypeOK, Linked, NEW r \in Relays, NEW e \in DOMAIN events, ~IgnoredEvent(r, e),
           NEW m \in {RemoteReaction(e), LocalReaction(r, e), ReplyMessage(r, e), DetectionMessage(e),
                      OrdinaryMessage(r, e)}
    PROVE  m \in MessageRecord /\ m.ev = e /\ MessageGood(said, packets, events, r, m)
<1> DEFINE target == get_message_map_by_matrix_event_id(r, events[e].reply).pkt
<1>1. e \in Nat /\ None \in Nat /\ target \in Nat /\ "text" \in Word /\ "detection" \in Word
  BY Members, TargetIs DEF Word, None
<1>2. \/ m = Message(e, None, "text", FALSE) \/ m = Message(e, target, "text", FALSE)
      \/ m = Message(e, target, "text", message_storage_enabled(r)) \/ m = Message(e, None, "detection", FALSE)
      \/ m = Message(e, None, "text", message_storage_enabled(r))
  BY Zenon DEF RemoteReaction, LocalReaction, ReplyMessage, DetectionMessage, OrdinaryMessage, ReactionTarget, ReplyTarget
<1>3. message_storage_enabled(r) \in BOOLEAN
  BY DEF message_storage_enabled
<1> HIDE DEF target
<1>4. \E reply \in {None, target}, port \in Word, b \in BOOLEAN :
        m = [ev |-> e, reply |-> reply, port |-> port, mapped |-> b]
  BY <1>1, <1>2, <1>3, Zenon DEF Message
<1>5. PICK reply \in {None, target}, port \in Word, b \in BOOLEAN :
        m = [ev |-> e, reply |-> reply, port |-> port, mapped |-> b]
  BY <1>4
<1>6. m \in MessageRecord /\ m.ev = e /\ m.reply = reply
  BY <1>1, <1>5 DEF MessageRecord
<1> QED BY <1>6, MessageIsGood DEF target

\* What on_room_message() does: it reads the next event, and queues at most one
\* message about it, unless the event is its own or in a room it does not serve.
LEMMA OnRoomEffect ==
    ASSUME TypeOK, Linked, NEW r \in running, NEW replied \in BOOLEAN, NEW ok \in BOOLEAN, NEW handled \in BOOLEAN,
           OnRoomMessage(r, replied, ok, handled)
    PROVE  /\ seen[r] + 1 \in DOMAIN events
           /\ seen' = [seen EXCEPT ![r] = seen[r] + 1]
           /\ \/ queue' = queue
              \/ \E m \in MessageRecord : /\ queue' = [queue EXCEPT ![r] = Append(@, m)]
                                          /\ m.ev = seen[r] + 1
                                          /\ MessageGood(said, packets, events, r, m)
           /\ UNCHANGED <<said, packets, events, inbox, tasks, sending, map, cfg, running, dropped, missed>>
<1> DEFINE e == seen[r] + 1
           M == {RemoteReaction(e), LocalReaction(r, e), ReplyMessage(r, e), DetectionMessage(e),
                 OrdinaryMessage(r, e)}
<1>1. r \in Relays /\ seen[r] \in Nat
  BY RelayAssumption DEF TypeOK
<1>2. /\ e <= Len(events) /\ seen' = [seen EXCEPT ![r] = e]
      /\ UNCHANGED <<said, packets, events, inbox, tasks, sending, map, cfg, running, dropped, missed>>
  BY DEF OnRoomMessage
<1>3. e \in DOMAIN events
  BY <1>1, <1>2, Members
<1>4. queue' = queue \/ (~IgnoredEvent(r, e) /\ \E m \in M : queue' = [queue EXCEPT ![r] = Append(@, m)])
  BY DEF OnRoomMessage, Enqueue
<1> HIDE DEF e
<1>5. queue' # queue => \E m \in MessageRecord : /\ queue' = [queue EXCEPT ![r] = Append(@, m)]
                                                /\ m.ev = e
                                                /\ MessageGood(said, packets, events, r, m)
  BY <1>1, <1>3, <1>4, MessagesAre
<1> QED BY <1>2, <1>3, <1>5 DEF e

\* on_room_message() keeps the types and the links.
LEMMA OnRoomLinks ==
    ASSUME TypeOK, Linked, RowsDiffer, NEW r \in running,
           NEW replied \in BOOLEAN, NEW ok \in BOOLEAN, NEW handled \in BOOLEAN,
           OnRoomMessage(r, replied, ok, handled)
    PROVE  TypeOK' /\ Linked' /\ RowsDiffer'
<1>1. /\ seen[r] + 1 \in DOMAIN events
      /\ seen' = [seen EXCEPT ![r] = seen[r] + 1]
      /\ \/ queue' = queue
         \/ \E m \in MessageRecord : /\ queue' = [queue EXCEPT ![r] = Append(@, m)]
                                     /\ m.ev = seen[r] + 1
                                     /\ MessageGood(said, packets, events, r, m)
      /\ UNCHANGED <<said, packets, events, inbox, tasks, sending, map, cfg, running, dropped, missed>>
  BY OnRoomEffect
<1>2. r \in Relays /\ queue[r] \in Seq(MessageRecord)
  BY RelayAssumption DEF TypeOK
<1>3. /\ queue' \in [Relays -> Seq(MessageRecord)]
      /\ \A x \in Relays : \A i \in DOMAIN queue'[x] :
           (\E j \in DOMAIN queue[x] : queue'[x][i] = queue[x][j])
             \/ MessageGood(said', packets', events', x, queue'[x][i])
  <2>1. CASE queue' = queue
    BY <2>1 DEF TypeOK
  <2>2. CASE queue' # queue
    <3>1. PICK m \in MessageRecord : /\ queue' = [queue EXCEPT ![r] = Append(@, m)]
                                     /\ MessageGood(said, packets, events, r, m)
      BY <1>1, <2>2
    <3>2. /\ Append(queue[r], m) \in Seq(MessageRecord)
          /\ \A i \in DOMAIN Append(queue[r], m) :
               (\E j \in DOMAIN queue[r] : Append(queue[r], m)[i] = queue[r][j]) \/ Append(queue[r], m)[i] = m
      BY <1>2, AppendIs
    <3>3. queue'[r] = Append(queue[r], m) /\ \A x \in Relays : x # r => queue'[x] = queue[x]
      BY <1>2, <3>1 DEF TypeOK
    <3>4. MessageGood(said', packets', events', r, m)
      BY <1>1, <3>1
    <3>5. queue' \in [Relays -> Seq(MessageRecord)]
      BY <1>2, <3>1, <3>2 DEF TypeOK
    <3> QED BY <3>2, <3>3, <3>4, <3>5
  <2> QED BY <2>1, <2>2
<1>4. seen' \in [Relays -> Nat]
  BY <1>1, <1>2 DEF TypeOK
<1>5. TypeOK'
  BY <1>1, <1>3, <1>4 DEF TypeOK
<1>6. Grown(said, said') /\ Grown(packets, packets') /\ Grown(events, events')
  BY <1>1 DEF Grown
<1>7. Linked'
  <2>1. /\ \A p \in DOMAIN packets' : p \in DOMAIN packets
        /\ \A e \in DOMAIN events' : e \in DOMAIN events
        /\ \A x \in Relays : \A i \in DOMAIN map'[x] : \E j \in DOMAIN map[x] : map'[x][i] = map[x][j]
        /\ \A x \in Relays : \A i \in DOMAIN inbox'[x] : \E j \in DOMAIN inbox[x] : inbox'[x][i] = inbox[x][j]
        /\ \A t \in tasks' : t \in tasks
        /\ \A x \in Relays : sending'[x] = sending[x]
    BY <1>1
  <2> QED BY <1>3, <1>6, <2>1, LinkedStep
<1>8. RowsDiffer'
  BY <1>1 DEF RowsDiffer
<1> QED BY <1>5, <1>7, <1>8

\* What a transmission does: a packet of the event's utterance, and its mapping to be
\* stored if the message asks for it.
LEMMA TransmitEffect ==
    ASSUME TypeOK, Linked, NEW r \in running, Transmit(r)
    PROVE  /\ queue[r] # << >> /\ Head(queue[r]) = queue[r][1] /\ 1 \in DOMAIN queue[r]
           /\ queue' = [queue EXCEPT ![r] = Tail(@)]
           /\ MessageGood(said, packets, events, r, Head(queue[r]))
           /\ \E v \in PacketRecord :
                /\ packets' = Append(packets, v)
                /\ v.mesh = r /\ v.of = events[Head(queue[r]).ev].of /\ v.reply = Head(queue[r]).reply
           /\ sending[r] = NoSend
           /\ \/ sending' = [sending EXCEPT ![r] = NoSend]
              \/ sending' = [sending EXCEPT ![r] = [ev |-> Head(queue[r]).ev, pkt |-> Len(packets) + 1, stage |-> "store"]]
           /\ UNCHANGED <<said, events, inbox, seen, tasks, map, cfg, running, dropped, missed>>
<1> DEFINE m == Head(queue[r])
           v == Packet(r, events[m.ev].of, RoomChannel[r][events[m.ev].room], m.port, "all", m.reply, FALSE)
<1>1. r \in Relays /\ queue[r] \in Seq(MessageRecord)
  BY RelayAssumption DEF TypeOK
<1>2. /\ queue[r] # << >> /\ queue' = [queue EXCEPT ![r] = Tail(@)]
      /\ packets' = Append(packets, v) /\ sending[r] = NoSend
      /\ UNCHANGED <<said, events, inbox, seen, tasks, map, cfg, running, dropped, missed>>
  BY DEF Transmit
<1>3. \/ sending' = [sending EXCEPT ![r] = NoSend]
      \/ sending' = [sending EXCEPT ![r] = [ev |-> m.ev, pkt |-> Len(packets'), stage |-> "store"]]
  BY DEF Transmit
<1>4. m \in MessageRecord /\ m = queue[r][1] /\ 1 \in DOMAIN queue[r]
  BY <1>1, <1>2, TailIs
<1> HIDE DEF m
<1>5. MessageGood(said, packets, events, r, m)
  BY <1>1, <1>4 DEF Linked
<1>6. events[m.ev] \in EventRecord
  BY <1>5, Members DEF MessageGood
<1>7. events[m.ev].of \in Nat /\ RoomChannel[r][events[m.ev].room] \in Int /\ m.port \in Word /\ m.reply \in Nat
  BY <1>1, <1>4, <1>6, RelayAssumption DEF EventRecord, MessageRecord
<1>8. v \in PacketRecord /\ v.mesh = r /\ v.of = events[m.ev].of /\ v.reply = m.reply
  BY <1>1, <1>7 DEF Packet, PacketRecord
<1> HIDE DEF v
<1>9. Len(packets') = Len(packets) + 1
  BY <1>2, <1>8, AppendIs DEF TypeOK
<1> QED BY <1>2, <1>3, <1>4, <1>5, <1>8, <1>9 DEF m

\* A transmission keeps the types and the links.
LEMMA TransmitLinks ==
    ASSUME TypeOK, Linked, RowsDiffer, NEW r \in running, Transmit(r)
    PROVE  TypeOK' /\ Linked' /\ RowsDiffer'
<1> DEFINE m == Head(queue[r])
           s == [ev |-> m.ev, pkt |-> Len(packets) + 1, stage |-> "store"]
<1>1. r \in Relays /\ queue[r] \in Seq(MessageRecord)
  BY RelayAssumption DEF TypeOK
<1>2. /\ queue[r] # << >> /\ queue' = [queue EXCEPT ![r] = Tail(@)]
      /\ MessageGood(said, packets, events, r, m)
      /\ \/ sending' = [sending EXCEPT ![r] = NoSend]
         \/ sending' = [sending EXCEPT ![r] = s]
      /\ UNCHANGED <<said, events, inbox, seen, tasks, map, cfg, running, dropped, missed>>
  BY TransmitEffect
<1>3. PICK v \in PacketRecord : /\ packets' = Append(packets, v)
                                /\ v.mesh = r /\ v.of = events[m.ev].of /\ v.reply = m.reply
  BY TransmitEffect
<1>a. m.ev \in DOMAIN events /\ m.ev \in Nat /\ events[m.ev].of \in DOMAIN said
  BY <1>2, Members DEF MessageGood, Linked, EventGood
<1> HIDE DEF m
<1>4. /\ packets' \in Seq(PacketRecord) /\ Grown(packets, packets')
      /\ DOMAIN packets = 1..Len(packets) /\ DOMAIN packets' = 1..(Len(packets) + 1) /\ Len(packets) \in Nat
      /\ packets'[Len(packets) + 1] = v
  BY <1>3, AppendIs, AppendGrows DEF TypeOK
<1>5. PacketGood(said', packets', v)
  <2>1. PacketGood(said, packets, v)
    BY <1>2, <1>3, <1>a DEF MessageGood, PacketGood
  <2>2. Grown(said, said')
    BY <1>2 DEF Grown
  <2> QED BY <1>4, <2>1, <2>2, PacketStays
<1>6. \A p \in DOMAIN packets' : p \in DOMAIN packets \/ PacketGood(said', packets', packets'[p])
  BY <1>4, <1>5
<1>7. /\ queue' \in [Relays -> Seq(MessageRecord)]
      /\ \A x \in Relays : \A i \in DOMAIN queue'[x] : \E j \in DOMAIN queue[x] : queue'[x][i] = queue[x][j]
  <2>1. /\ Tail(queue[r]) \in Seq(MessageRecord)
        /\ \A i \in DOMAIN Tail(queue[r]) : \E j \in DOMAIN queue[r] : Tail(queue[r])[i] = queue[r][j]
    BY <1>1, <1>2, TailIs
  <2>2. queue'[r] = Tail(queue[r]) /\ \A x \in Relays : x # r => queue'[x] = queue[x]
    BY <1>1, <1>2 DEF TypeOK
  <2> QED BY <1>1, <1>2, <2>1, <2>2 DEF TypeOK
<1>8. s \in SendRecord /\ NoSend \in SendRecord /\ NoSend.stage = "none"
  BY <1>4, <1>a DEF SendRecord, NoSend, None
<1>9. SendGood(packets', events', r, s)
  <2>1. /\ Row(s.pkt, s.ev, events'[s.ev].room).pkt = Len(packets) + 1
        /\ Row(s.pkt, s.ev, events'[s.ev].room).ev = m.ev
        /\ Row(s.pkt, s.ev, events'[s.ev].room).room = events[m.ev].room
    BY <1>2 DEF Row
  <2> QED BY <1>2, <1>3, <1>4, <2>1 DEF SendGood, RowGood, MessageGood
<1>10. /\ sending' \in [Relays -> SendRecord]
       /\ \A x \in Relays : sending'[x] = sending[x] \/ SendGood(packets', events', x, sending'[x])
  <2> HIDE DEF s
  <2>1. CASE sending' = [sending EXCEPT ![r] = NoSend]
    BY <1>1, <1>8, <2>1 DEF TypeOK, SendGood
  <2>2. CASE sending' = [sending EXCEPT ![r] = s]
    BY <1>1, <1>8, <1>9, <2>2 DEF TypeOK
  <2> QED BY <1>2, <2>1, <2>2
<1>11. TypeOK'
  BY <1>2, <1>4, <1>7, <1>10 DEF TypeOK
<1>12. Linked'
  <2>1. /\ \A e \in DOMAIN events' : e \in DOMAIN events
        /\ \A x \in Relays : \A i \in DOMAIN map'[x] : \E j \in DOMAIN map[x] : map'[x][i] = map[x][j]
        /\ \A x \in Relays : \A i \in DOMAIN inbox'[x] : \E j \in DOMAIN inbox[x] : inbox'[x][i] = inbox[x][j]
        /\ \A t \in tasks' : t \in tasks
    BY <1>2
  <2>2. Grown(said, said') /\ Grown(events, events')
    BY <1>2 DEF Grown
  <2> QED BY <1>4, <1>6, <1>7, <1>10, <2>1, <2>2, LinkedStep
<1>13. RowsDiffer'
  BY <1>2 DEF RowsDiffer
<1> QED BY <1>11, <1>12, <1>13

\* What storing the mapping of a transmission does.
LEMMA StoreOutboundEffect ==
    ASSUME TypeOK, Linked, NEW r \in running, StoreOutbound(r)
    PROVE  LET row == Row(sending[r].pkt, sending[r].ev, events[sending[r].ev].room)
           IN  /\ row \in RowRecord /\ RowGood(packets, events, r, row)
               /\ Stores(r, row)
               /\ sending[r].stage = "store" /\ sending' = [sending EXCEPT ![r].stage = "prune"]
               /\ sending'[r] \in SendRecord /\ sending'[r].stage = "prune" /\ SendGood(packets, events, r, sending'[r])
               /\ sending' \in [Relays -> SendRecord] /\ \A x \in Relays : x # r => sending'[x] = sending[x]
               /\ UNCHANGED <<said, packets, events, inbox, seen, tasks, queue, cfg, running, dropped, missed>>
<1> DEFINE s == sending[r]
           row == Row(s.pkt, s.ev, events[s.ev].room)
           n == [s EXCEPT !.stage = "prune"]
<1>1. r \in Relays /\ s \in SendRecord
  BY RelayAssumption DEF TypeOK
<1>2. /\ s.stage = "store" /\ Stores(r, row)
      /\ sending' = [sending EXCEPT ![r].stage = "prune"]
      /\ UNCHANGED <<said, packets, events, inbox, seen, tasks, queue, cfg, running, dropped, missed>>
  BY DEF StoreOutbound, Stores
<1>3. RowGood(packets, events, r, row)
  BY <1>1, <1>2 DEF Linked, SendGood
<1>4. row \in RowRecord
  <2>1. events[s.ev] \in EventRecord
    BY <1>3, Members DEF RowGood, Row
  <2> QED BY <1>1, <2>1 DEF Row, RowRecord, SendRecord, EventRecord
<1>5. sending'[r] = n /\ \A x \in Relays : x # r => sending'[x] = sending[x]
  BY <1>1, <1>2 DEF TypeOK
<1>6. n \in SendRecord /\ n.stage = "prune" /\ n.pkt = s.pkt /\ n.ev = s.ev
  BY <1>1 DEF SendRecord
<1>7. sending' \in [Relays -> SendRecord]
  <2>1. sending' = [sending EXCEPT ![r] = n]
    BY <1>1, <1>2 DEF TypeOK
  <2> HIDE DEF n
  <2> QED BY <1>1, <1>6, <2>1 DEF TypeOK
<1> HIDE DEF n
<1>8. SendGood(packets, events, r, n)
  BY <1>3, <1>6 DEF SendGood
<1> QED BY <1>2, <1>3, <1>4, <1>5, <1>6, <1>7, <1>8

\* Storing the mapping of a transmission keeps the types and the links.
LEMMA StoreOutboundLinks ==
    ASSUME TypeOK, Linked, RowsDiffer, NEW r \in running, StoreOutbound(r)
    PROVE  TypeOK' /\ Linked' /\ RowsDiffer'
<1> DEFINE row == Row(sending[r].pkt, sending[r].ev, events[sending[r].ev].room)
<1>1. /\ row \in RowRecord /\ RowGood(packets, events, r, row) /\ r \in Relays
      /\ Stores(r, row)
      /\ SendGood(packets, events, r, sending'[r])
      /\ sending' \in [Relays -> SendRecord] /\ \A x \in Relays : x # r => sending'[x] = sending[x]
      /\ UNCHANGED <<said, packets, events, inbox, seen, tasks, queue, cfg, running, dropped, missed>>
  BY StoreOutboundEffect, RelayAssumption DEF TypeOK
<1> HIDE DEF row
<1>2. /\ map' \in [Relays -> Seq(RowRecord)] /\ RowsDiffer'
      /\ \A x \in Relays : \A i \in DOMAIN map'[x] :
           (\E j \in DOMAIN map[x] : map'[x][i] = map[x][j]) \/ (x = r /\ map'[x][i] = row)
  BY <1>1, MapStored
<1>3. TypeOK'
  BY <1>1, <1>2 DEF TypeOK
<1>4. Linked'
  <2>1. /\ \A p \in DOMAIN packets' : p \in DOMAIN packets
        /\ \A e \in DOMAIN events' : e \in DOMAIN events
        /\ \A x \in Relays : \A i \in DOMAIN inbox'[x] : \E j \in DOMAIN inbox[x] : inbox'[x][i] = inbox[x][j]
        /\ \A t \in tasks' : t \in tasks
        /\ \A x \in Relays : \A i \in DOMAIN queue'[x] : \E j \in DOMAIN queue[x] : queue'[x][i] = queue[x][j]
    BY <1>1
  <2>2. Grown(said, said') /\ Grown(packets, packets') /\ Grown(events, events')
    BY <1>1 DEF Grown
  <2>3. \A x \in Relays : sending'[x] = sending[x] \/ SendGood(packets', events', x, sending'[x])
    BY <1>1
  <2>4. RowGood(packets', events', r, row)
    BY <1>1
  <2>5. \A x \in Relays : \A i \in DOMAIN map'[x] :
          (\E j \in DOMAIN map[x] : map'[x][i] = map[x][j]) \/ RowGood(packets', events', x, map'[x][i])
    BY <1>2, <2>4
  <2> QED BY <2>1, <2>2, <2>3, <2>5, LinkedStep
<1> QED BY <1>2, <1>3, <1>4

\* So does pruning after it.
LEMMA PruneOutboundLinks ==
    ASSUME TypeOK, Linked, RowsDiffer, NEW r \in running, PruneOutbound(r)
    PROVE  TypeOK' /\ Linked' /\ RowsDiffer'
<1>1. /\ map' = [map EXCEPT ![r] = Pruned(r, @)]
      /\ sending' = [sending EXCEPT ![r] = NoSend]
      /\ UNCHANGED <<said, packets, events, inbox, seen, tasks, queue, cfg, running, dropped, missed>>
  BY DEF PruneOutbound
<1>2. /\ map' \in [Relays -> Seq(RowRecord)] /\ RowsDiffer'
      /\ \A x \in Relays : \A i \in DOMAIN map'[x] : \E j \in DOMAIN map[x] : map'[x][i] = map[x][j]
  BY <1>1, MapPruned
<1>3. r \in Relays /\ NoSend \in SendRecord /\ NoSend.stage = "none"
  BY RelayAssumption DEF TypeOK, NoSend, SendRecord, None
<1>4. /\ sending' \in [Relays -> SendRecord]
      /\ \A x \in Relays : sending'[x] = sending[x] \/ SendGood(packets', events', x, sending'[x])
  BY <1>1, <1>3 DEF TypeOK, SendGood
<1>5. TypeOK'
  BY <1>1, <1>2, <1>4 DEF TypeOK
<1>6. Linked'
  <2>1. /\ \A p \in DOMAIN packets' : p \in DOMAIN packets
        /\ \A e \in DOMAIN events' : e \in DOMAIN events
        /\ \A x \in Relays : \A i \in DOMAIN inbox'[x] : \E j \in DOMAIN inbox[x] : inbox'[x][i] = inbox[x][j]
        /\ \A t \in tasks' : t \in tasks
        /\ \A x \in Relays : \A i \in DOMAIN queue'[x] : \E j \in DOMAIN queue[x] : queue'[x][i] = queue[x][j]
    BY <1>1
  <2>2. Grown(said, said') /\ Grown(packets, packets') /\ Grown(events, events')
    BY <1>1 DEF Grown
  <2> QED BY <1>2, <1>4, <2>1, <2>2, LinkedStep
<1> QED BY <1>2, <1>5, <1>6

\* And every step of a coroutine.
LEMMA TaskLinks ==
    ASSUME TypeOK, Linked, RowsDiffer, NEW t \in tasks,
           \/ SendAnswered(t) \/ SendTimesOut(t) \/ SendFails(t) \/ GivesUp(t)
           \/ StoreInbound(t) \/ PruneInbound(t)
    PROVE  Runs(t) /\ TypeOK' /\ Linked' /\ RowsDiffer'
<1>1. CASE SendAnswered(t) \/ SendTimesOut(t) \/ SendFails(t) \/ GivesUp(t)
  <2>1. Runs(t) /\ map' = map
    BY <1>1, AnsweredRuns, TimesOutRuns, FailsRuns, GivesUpRuns
  <2>2. map' \in [Relays -> Seq(RowRecord)] /\ RowsDiffer'
    BY <2>1 DEF TypeOK, RowsDiffer
  <2> QED BY <2>1, <2>2, RunsLinks
<1>2. CASE StoreInbound(t)
  <2> DEFINE row == Row(t.pkt, t.sent, t.room)
  <2>1. /\ Runs(t) /\ Stores(t.r, row)
        /\ row \in RowRecord /\ RowGood(packets, events, t.r, row) /\ events' = events /\ packets' = packets
        /\ t.r \in Relays
    BY <1>2, StoreRuns, TaskTypes DEF Runs
  <2> HIDE DEF row
  <2>2. /\ map' \in [Relays -> Seq(RowRecord)] /\ RowsDiffer'
        /\ \A x \in Relays : \A i \in DOMAIN map'[x] :
             (\E j \in DOMAIN map[x] : map'[x][i] = map[x][j]) \/ (x = t.r /\ map'[x][i] = row)
    BY <2>1, MapStored
  <2>3. \A x \in Relays : \A i \in DOMAIN map'[x] :
          (\E j \in DOMAIN map[x] : map'[x][i] = map[x][j]) \/ RowGood(packets', events', x, map'[x][i])
    BY <2>1, <2>2
  <2> QED BY <2>1, <2>2, <2>3, RunsLinks
<1>3. CASE PruneInbound(t)
  <2>1. Runs(t) /\ map' = [map EXCEPT ![t.r] = Pruned(t.r, @)] /\ t.r \in running
    BY <1>3, PruneRuns, TaskTypes
  <2>2. /\ map' \in [Relays -> Seq(RowRecord)] /\ RowsDiffer'
        /\ \A x \in Relays : \A i \in DOMAIN map'[x] : \E j \in DOMAIN map[x] : map'[x][i] = map[x][j]
    BY <2>1, MapPruned
  <2> QED BY <2>1, <2>2, RunsLinks
<1> QED BY <1>1, <1>2, <1>3

-----------------------------------------------------------------------------
(* What leaves a mesh.                                                     *)

\* An event a relay made of a packet.
MadeOfPublic(P, C, v) ==
  v.by # User /\ ~v.suppress =>
    \E p \in DOMAIN P : P[p].of = v.of /\ P[p].mesh = v.by /\ Public(P, C[v.by], v.by, p, v)

Leaves ==
  /\ TasksPublic
  /\ \A e \in DOMAIN events : MadeOfPublic(packets, cfg, events[e])

\* What is public stays public.
LEMMA PublicStays ==
    ASSUME NEW P, NEW P2, Grown(P, P2), NEW c, NEW r, NEW p \in DOMAIN P, NEW v, Public(P, c, r, p, v)
    PROVE  Public(P2, c, r, p, v)
BY DEF Grown, Public

\* A step that only makes events of public packets.
LEMMA LeavesStep ==
    ASSUME Linked, Leaves, Grown(packets, packets'), cfg' = cfg,
           \A e \in DOMAIN events' : (e \in DOMAIN events /\ events'[e] = events[e]) \/ MadeOfPublic(packets, cfg, events'[e]),
           \A t \in tasks' : \/ \E u \in tasks : t.r = u.r /\ t.pkt = u.pkt /\ t.ev = u.ev
                             \/ t.pkt \in DOMAIN packets /\ Public(packets, cfg[t.r], t.r, t.pkt, t.ev)
    PROVE  Leaves'
<1>1. ASSUME NEW t \in tasks' PROVE Public(packets', cfg'[t.r], t.r, t.pkt, t.ev)
  <2>1. t.pkt \in DOMAIN packets /\ Public(packets, cfg[t.r], t.r, t.pkt, t.ev)
    <3>1. CASE \E u \in tasks : t.r = u.r /\ t.pkt = u.pkt /\ t.ev = u.ev
      BY <3>1 DEF Leaves, TasksPublic, Linked, TaskGood, Heard
    <3> QED BY <3>1
  <2> QED BY <2>1, PublicStays
<1>2. ASSUME NEW e \in DOMAIN events' PROVE MadeOfPublic(packets', cfg', events'[e])
  <2>1. MadeOfPublic(packets, cfg, events'[e])
    BY DEF Leaves
  <2> DEFINE v == events'[e]
  <2> SUFFICES ASSUME v.by # User, ~v.suppress
               PROVE  \E p \in DOMAIN packets' : /\ packets'[p].of = v.of /\ packets'[p].mesh = v.by
                                                 /\ Public(packets', cfg'[v.by], v.by, p, v)
    BY DEF MadeOfPublic
  <2>2. PICK p \in DOMAIN packets : packets[p].of = v.of /\ packets[p].mesh = v.by
                                    /\ Public(packets, cfg[v.by], v.by, p, v)
    BY <2>1 DEF MadeOfPublic
  <2>3. p \in DOMAIN packets' /\ packets'[p] = packets[p]
    BY DEF Grown
  <2>4. Public(packets', cfg'[v.by], v.by, p, v)
    BY <2>2, PublicStays
  <2> QED BY <2>2, <2>3, <2>4
<1> QED BY <1>1, <1>2 DEF Leaves, TasksPublic

\* An utterance in a room is no relay's.
LEMMA RoomSaysLeaves ==
    ASSUME TypeOK, Linked, Leaves, NEW room \in Rooms, NEW text \in STRING,
           NEW kind \in {"text", "reply", "reaction"},
           NEW e \in DOMAIN events \cup {None}, RoomSays(room, text, kind, e)
    PROVE  Leaves'
<1>1. PICK s \in Uttered, v \in EventRecord :
        /\ events' = Append(events, v) /\ v.by = User
        /\ UNCHANGED <<packets, tasks, cfg>>
  BY RoomSaysEffect
<1>2. /\ DOMAIN events = 1..Len(events) /\ DOMAIN events' = 1..(Len(events) + 1) /\ Len(events) \in Nat
      /\ events'[Len(events) + 1] = v /\ \A x \in DOMAIN events : events'[x] = events[x]
  BY <1>1, AppendIs DEF TypeOK
<1>3. \A x \in DOMAIN events' : (x \in DOMAIN events /\ events'[x] = events[x]) \/ MadeOfPublic(packets, cfg, events'[x])
  BY <1>1, <1>2 DEF MadeOfPublic
<1>4. Grown(packets, packets')
  BY <1>1 DEF Grown
<1> QED BY <1>1, <1>3, <1>4, LeavesStep

\* on_meshtastic_message() starts coroutines for public packets only.
LEMMA OnMeshtasticLeaves ==
    ASSUME TypeOK, Linked, Leaves, NEW r \in running, Hears(r)
    PROVE  Leaves'
<1> DEFINE p == Head(inbox[r])
<1>1. /\ Heard(said, packets, r, p)
      /\ UNCHANGED <<said, packets, seen, queue, sending, map, cfg, running>>
  BY OnMeshtasticEffect
<1>2. PICK new : Handles(r, p, new)
  BY OnMeshtasticEffect
<1> HIDE DEF p
<1>3. \A t \in tasks' : t \in tasks \/ (t.pkt \in DOMAIN packets /\ Public(packets, cfg[t.r], t.r, t.pkt, t.ev))
  BY <1>1, <1>2 DEF Handles, Started, Heard
<1>4. \A e \in DOMAIN events' : (e \in DOMAIN events /\ events'[e] = events[e]) \/ MadeOfPublic(packets, cfg, events'[e])
  <2>1. CASE events' # events
    <3>1. PICK v \in EventRecord : events' = Append(events, v) /\ v.suppress
      BY <1>2, <2>1 DEF Handles
    <3>2. /\ DOMAIN events = 1..Len(events) /\ DOMAIN events' = 1..(Len(events) + 1) /\ Len(events) \in Nat
          /\ events'[Len(events) + 1] = v /\ \A x \in DOMAIN events : events'[x] = events[x]
      BY <3>1, AppendIs DEF TypeOK
    <3>3. MadeOfPublic(packets, cfg, v)
      BY <3>1 DEF MadeOfPublic
    <3> QED BY <3>2, <3>3
  <2> QED BY <2>1
<1>5. Grown(packets, packets')
  BY <1>1 DEF Grown
<1> QED BY <1>1, <1>3, <1>4, <1>5, LeavesStep

\* A coroutine makes its event of its packet.
LEMMA RunsLeaves ==
    ASSUME TypeOK, Linked, Leaves, NEW t \in tasks, Runs(t)
    PROVE  Leaves'
<1>1. MadeOfPublic(packets, cfg, t.ev)
  <2>1. Public(packets, cfg[t.r], t.r, t.pkt, t.ev)
    BY DEF Leaves, TasksPublic
  <2> QED BY <2>1, TaskTypes DEF TaskGood, Heard, MadeOfPublic
<1>2. \A e \in DOMAIN events' : (e \in DOMAIN events /\ events'[e] = events[e]) \/ MadeOfPublic(packets, cfg, events'[e])
  BY <1>1, RunsEffect DEF Grown
<1>3. \A u \in tasks' : \E w \in tasks : u.r = w.r /\ u.pkt = w.pkt /\ u.ev = w.ev
  BY DEF Runs, Follows
<1>4. Grown(packets, packets') /\ cfg' = cfg
  BY RunsEffect DEF Runs
<1> QED BY <1>2, <1>3, <1>4, LeavesStep

-----------------------------------------------------------------------------
(* Every copy is made once.                                                *)

\* What waits in an inbox is a packet of the mesh.
LEMMA InInbox ==
    ASSUME TypeOK, Linked, NEW r \in Relays, NEW i \in DOMAIN inbox[r]
    PROVE  /\ inbox[r][i] \in DOMAIN packets
           /\ packets[inbox[r][i]].of \in DOMAIN said /\ said[packets[inbox[r][i]].of].on = r
BY DEF Linked, Heard

\* Events and coroutines are of something said.
LEMMA OfSaid ==
    ASSUME TypeOK, Linked
    PROVE  /\ \A e \in DOMAIN events : events[e].of \in DOMAIN said
           /\ \A t \in tasks : t.ev.of \in DOMAIN said
BY DEF Linked, EventGood, TaskGood

\* A step that touches neither inboxes nor events nor coroutines.
LEMMA FreshFrame ==
    ASSUME TypeOK, Linked, Fresh, Grown(packets, packets'), UNCHANGED <<events, inbox, tasks>>
    PROVE  Fresh'
<1>1. \A r \in Relays : \A i \in DOMAIN inbox[r] : packets'[inbox[r][i]] = packets[inbox[r][i]]
  BY InInbox DEF Grown
<1>2. IsFiniteSet(tasks)'
  BY DEF Fresh
<1>3. \A r \in Relays : \A i, j \in DOMAIN inbox'[r] :
        packets'[inbox'[r][i]].of = packets'[inbox'[r][j]].of => i = j
  BY <1>1 DEF Fresh
<1>4. \A r \in Relays : \A i \in DOMAIN inbox'[r] :
        /\ \A e \in DOMAIN events' : events'[e].of # packets'[inbox'[r][i]].of
        /\ \A t \in tasks' : t.ev.of # packets'[inbox'[r][i]].of
  BY <1>1 DEF Fresh
<1> QED BY <1>2, <1>3, <1>4 DEF Fresh

\* A new packet is of a new utterance.
LEMMA MeshSaysFresh ==
    ASSUME TypeOK, Linked, Fresh, NEW r \in running, NEW m \in MeshText,
           NEW kind \in {"text", "reply", "reaction"},
           NEW q \in DOMAIN packets \cup {None}, MeshSays(r, m, kind, q)
    PROVE  Fresh'
<1>0. r \in Relays
  BY RelayAssumption DEF TypeOK
<1>1. PICK s \in Uttered, v \in PacketRecord :
        /\ packets' = Append(packets, v) /\ v.of = Len(said) + 1
        /\ inbox' = [inbox EXCEPT ![r] = Append(@, Len(packets) + 1)]
        /\ UNCHANGED <<events, tasks>>
  BY MeshSaysEffect
<1>2. /\ DOMAIN packets = 1..Len(packets) /\ Len(packets) \in Nat /\ packets'[Len(packets) + 1] = v
      /\ \A p \in DOMAIN packets : packets'[p] = packets[p]
  BY <1>1, AppendIs DEF TypeOK
<1>3. Len(said) + 1 \notin DOMAIN said
  BY Members
<1>4. /\ inbox'[r] = Append(inbox[r], Len(packets) + 1)
      /\ \A x \in Relays : x # r => inbox'[x] = inbox[x]
  BY <1>0, <1>1 DEF TypeOK
<1>5. inbox[r] \in Seq(Nat) /\ Len(packets) + 1 \in Nat
  BY <1>0, <1>2 DEF TypeOK
<1>6. /\ DOMAIN inbox[r] = 1..Len(inbox[r]) /\ DOMAIN inbox'[r] = 1..(Len(inbox[r]) + 1) /\ Len(inbox[r]) \in Nat
      /\ \A i \in DOMAIN inbox[r] : inbox'[r][i] = inbox[r][i]
      /\ inbox'[r][Len(inbox[r]) + 1] = Len(packets) + 1
  BY <1>4, <1>5, AppendIs
<1>7. \A x \in Relays : \A i \in DOMAIN inbox'[x] :
        \/ /\ i \in DOMAIN inbox[x] /\ inbox'[x][i] = inbox[x][i]
           /\ packets'[inbox'[x][i]].of = packets[inbox[x][i]].of
           /\ packets'[inbox'[x][i]].of \in DOMAIN said
        \/ /\ x = r /\ i = Len(inbox[r]) + 1
           /\ packets'[inbox'[x][i]].of = Len(said) + 1
  <2> TAKE x \in Relays
  <2> TAKE i \in DOMAIN inbox'[x]
  <2>1. CASE i \in DOMAIN inbox[x]
    <3>1. inbox'[x][i] = inbox[x][i]
      BY <1>4, <1>6, <2>1
    <3> QED BY <1>2, <2>1, <3>1, InInbox
  <2>2. CASE i \notin DOMAIN inbox[x]
    <3>1. x = r /\ i = Len(inbox[r]) + 1
      BY <1>4, <1>6, <2>2
    <3> QED BY <1>1, <1>2, <1>6, <3>1
  <2> QED BY <2>1, <2>2
<1>8. IsFiniteSet(tasks)'
  BY <1>1 DEF Fresh
<1>9. ASSUME NEW x \in Relays, NEW i \in DOMAIN inbox'[x], NEW j \in DOMAIN inbox'[x],
             packets'[inbox'[x][i]].of = packets'[inbox'[x][j]].of
      PROVE  i = j
  BY <1>3, <1>7, <1>9 DEF Fresh
<1>10. ASSUME NEW x \in Relays, NEW i \in DOMAIN inbox'[x]
       PROVE  /\ \A e \in DOMAIN events' : events'[e].of # packets'[inbox'[x][i]].of
              /\ \A t \in tasks' : t.ev.of # packets'[inbox'[x][i]].of
  <2>1. CASE i \in DOMAIN inbox[x] /\ packets'[inbox'[x][i]].of = packets[inbox[x][i]].of
    BY <1>1, <2>1 DEF Fresh
  <2>2. CASE packets'[inbox'[x][i]].of = Len(said) + 1
    BY <1>1, <1>3, <2>2, OfSaid
  <2> QED BY <1>7, <2>1, <2>2
<1> QED BY <1>1, <1>8, <1>9, <1>10 DEF Fresh

\* A new event is of a new utterance.
LEMMA RoomSaysFresh ==
    ASSUME TypeOK, Linked, Fresh, NEW room \in Rooms, NEW text \in STRING,
           NEW kind \in {"text", "reply", "reaction"},
           NEW x \in DOMAIN events \cup {None}, RoomSays(room, text, kind, x)
    PROVE  Fresh'
<1>1. PICK s \in Uttered, v \in EventRecord :
        /\ events' = Append(events, v) /\ v.of = Len(said) + 1
        /\ UNCHANGED <<packets, inbox, tasks>>
  BY RoomSaysEffect
<1>2. /\ DOMAIN events = 1..Len(events) /\ DOMAIN events' = 1..(Len(events) + 1) /\ Len(events) \in Nat
      /\ events'[Len(events) + 1] = v
      /\ \A e \in DOMAIN events : events'[e] = events[e]
  BY <1>1, AppendIs DEF TypeOK
<1>3. Len(said) + 1 \notin DOMAIN said
  BY Members
<1>4. \A e \in DOMAIN events' : \/ e \in DOMAIN events /\ events'[e] = events[e] /\ events'[e].of \in DOMAIN said
                                \/ e = Len(events) + 1 /\ events'[e].of = Len(said) + 1
  BY <1>1, <1>2, OfSaid
<1>5. IsFiniteSet(tasks)'
  BY <1>1 DEF Fresh
<1>6. ASSUME NEW r \in Relays, NEW i \in DOMAIN inbox'[r]
      PROVE  /\ \A e \in DOMAIN events' : events'[e].of # packets'[inbox'[r][i]].of
             /\ \A t \in tasks' : t.ev.of # packets'[inbox'[r][i]].of
  BY <1>1, <1>3, <1>4, InInbox DEF Fresh
<1>7. ASSUME NEW t \in tasks', t.sent = None, NEW e \in DOMAIN events', events'[e].of = t.ev.of
      PROVE  events'[e].room # t.room
  BY <1>1, <1>3, <1>4, <1>7, OfSaid DEF Fresh
<1>8. ASSUME NEW e \in DOMAIN events', NEW f \in DOMAIN events',
             events'[e].of = events'[f].of, events'[e].room = events'[f].room
      PROVE  e = f
  BY <1>3, <1>4, <1>8 DEF Fresh
<1> QED BY <1>1, <1>5, <1>6, <1>7, <1>8 DEF Fresh

\* The packet on_meshtastic_message() takes has left no trace, and no other one that
\* waits is of its utterance.
LEMMA TakenIsFresh ==
    ASSUME TypeOK, Linked, Fresh, NEW r \in Relays, inbox[r] # << >>,
           inbox' = [inbox EXCEPT ![r] = Tail(@)]
    PROVE  LET u == packets[Head(inbox[r])].of
           IN  /\ \A e \in DOMAIN events : events[e].of # u
               /\ \A t \in tasks : t.ev.of # u
               /\ \A x \in Relays : \A i \in DOMAIN inbox'[x] :
                    /\ packets[inbox'[x][i]].of # u
                    /\ \E j \in DOMAIN inbox[x] : /\ inbox'[x][i] = inbox[x][j]
                                                  /\ j = IF x = r THEN i + 1 ELSE i
<1> DEFINE u == packets[Head(inbox[r])].of
<1>1. /\ Head(inbox[r]) = inbox[r][1] /\ 1 \in DOMAIN inbox[r]
      /\ DOMAIN inbox[r] = 1..Len(inbox[r])
      /\ \A i \in DOMAIN Tail(inbox[r]) : i + 1 \in DOMAIN inbox[r] /\ Tail(inbox[r])[i] = inbox[r][i + 1]
      /\ DOMAIN Tail(inbox[r]) = 1..(Len(inbox[r]) - 1) /\ Len(inbox[r]) \in Nat
  BY TailIs DEF TypeOK
<1>2. inbox'[r] = Tail(inbox[r]) /\ \A x \in Relays : x # r => inbox'[x] = inbox[x]
  BY DEF TypeOK
<1>3. u = packets[inbox[r][1]].of /\ said[u].on = r
  BY <1>1, InInbox
<1> HIDE DEF u
<1>4. (\A e \in DOMAIN events : events[e].of # u) /\ (\A t \in tasks : t.ev.of # u)
  BY <1>1, <1>3 DEF Fresh
<1>5. ASSUME NEW x \in Relays, NEW i \in DOMAIN inbox'[x]
      PROVE  /\ packets[inbox'[x][i]].of # u
             /\ \E j \in DOMAIN inbox[x] : /\ inbox'[x][i] = inbox[x][j]
                                           /\ j = IF x = r THEN i + 1 ELSE i
  <2>1. CASE x = r
    <3>1. i \in DOMAIN Tail(inbox[r]) /\ inbox'[r][i] = Tail(inbox[r])[i]
      BY <1>2, <2>1
    <3>2. i + 1 \in DOMAIN inbox[r] /\ inbox'[r][i] = inbox[r][i + 1] /\ i + 1 # 1
      BY <1>1, <3>1
    <3>3. packets[inbox[r][i + 1]].of # u
      BY <1>1, <1>3, <3>2 DEF Fresh
    <3> QED BY <2>1, <3>2, <3>3
  <2>2. CASE x # r
    <3>1. inbox'[x] = inbox[x]
      BY <1>2, <2>2
    <3>2. said[packets[inbox[x][i]].of].on = x
      BY <3>1, InInbox
    <3> QED BY <1>3, <2>2, <3>1, <3>2
  <2> QED BY <2>1, <2>2
<1> QED BY <1>4, <1>5 DEF u

\* on_meshtastic_message() makes one coroutine for each room, or one event.
LEMMA OnMeshtasticFresh ==
    ASSUME TypeOK, Linked, Fresh, NEW r \in running, Hears(r)
    PROVE  Fresh'
<1> DEFINE p == Head(inbox[r])
           u == packets[p].of
<1>1. /\ r \in Relays /\ inbox[r] # << >> /\ inbox' = [inbox EXCEPT ![r] = Tail(@)]
      /\ packets' = packets
  BY OnMeshtasticEffect, RelayAssumption DEF TypeOK
<1>2. PICK new : Handles(r, p, new)
  BY OnMeshtasticEffect
<1>3. /\ \A e \in DOMAIN events : events[e].of # u
      /\ \A t \in tasks : t.ev.of # u
      /\ \A x \in Relays : \A i \in DOMAIN inbox'[x] :
           /\ packets[inbox'[x][i]].of # u
           /\ \E j \in DOMAIN inbox[x] : /\ inbox'[x][i] = inbox[x][j]
                                         /\ j = IF x = r THEN i + 1 ELSE i
  BY <1>1, TakenIsFresh
<1>4. tasks' = tasks \cup new /\ \A t \in new : t.ev.of = u /\ t.sent = None
  BY <1>2 DEF Handles, Started, TaskGood
<1>5. \A t, w \in new : t.room = w.room => t = w
  BY <1>2 DEF Handles
<1> HIDE DEF p, u
<1>6. \/ events' = events
      \/ /\ new = {} /\ DOMAIN events = 1..Len(events) /\ DOMAIN events' = 1..(Len(events) + 1)
         /\ Len(events) \in Nat
         /\ events'[Len(events) + 1].of = u /\ \A e \in DOMAIN events : events'[e] = events[e]
  <2>1. CASE events' # events
    <3>1. new = {} /\ \E v \in EventRecord : events' = Append(events, v) /\ v.of = u
      BY <1>2, <2>1 DEF Handles, u
    <3> QED BY <3>1, AppendIs DEF TypeOK
  <2> QED BY <2>1
<1>7. \A e \in DOMAIN events' : \/ e \in DOMAIN events /\ events'[e] = events[e]
                                \/ new = {} /\ e = Len(events) + 1 /\ events'[e].of = u
  BY <1>6
<1>8. IsFiniteSet(tasks)'
  <2>1. IsFiniteSet(new) /\ IsFiniteSet(tasks)
    BY <1>2 DEF Fresh, Handles
  <2> QED BY <1>4, <2>1, FS_Union, Zenon
<1>9. ASSUME NEW x \in Relays, NEW i \in DOMAIN inbox'[x], NEW j \in DOMAIN inbox'[x],
             packets'[inbox'[x][i]].of = packets'[inbox'[x][j]].of
      PROVE  i = j
  <2>1. i \in Int /\ j \in Int
    <3>1. inbox'[x] \in Seq(Nat)
      <4>1. Tail(inbox[r]) \in Seq(Nat)
        BY <1>1, TailIs DEF TypeOK
      <4>2. x = r => inbox'[x] = Tail(inbox[r])
        BY <1>1 DEF TypeOK
      <4>3. x # r => inbox'[x] = inbox[x] /\ inbox[x] \in Seq(Nat)
        BY <1>1 DEF TypeOK
      <4> QED BY <4>1, <4>2, <4>3
    <3> QED BY <3>1
  <2> DEFINE a == IF x = r THEN i + 1 ELSE i
             b == IF x = r THEN j + 1 ELSE j
  <2>2. a \in DOMAIN inbox[x] /\ b \in DOMAIN inbox[x] /\ inbox'[x][i] = inbox[x][a] /\ inbox'[x][j] = inbox[x][b]
    BY <1>3
  <2> HIDE DEF a, b
  <2>3. a = b
    BY <1>1, <1>9, <2>2 DEF Fresh
  <2> QED BY <2>1, <2>3 DEF a, b
<1>10. ASSUME NEW x \in Relays, NEW i \in DOMAIN inbox'[x]
       PROVE  /\ \A e \in DOMAIN events' : events'[e].of # packets'[inbox'[x][i]].of
              /\ \A t \in tasks' : t.ev.of # packets'[inbox'[x][i]].of
  <2>1. PICK j \in DOMAIN inbox[x] : inbox'[x][i] = inbox[x][j]
    BY <1>3
  <2>2. /\ \A e \in DOMAIN events : events[e].of # packets[inbox[x][j]].of
        /\ \A t \in tasks : t.ev.of # packets[inbox[x][j]].of
        /\ packets[inbox[x][j]].of # u
    BY <1>3, <2>1 DEF Fresh
  <2> QED BY <1>1, <1>4, <1>7, <2>1, <2>2
<1>11. ASSUME NEW t \in tasks', NEW w \in tasks', t.ev.of = w.ev.of, t.room = w.room
       PROVE  t = w
  <2>1. (t \in tasks /\ w \in tasks) \/ (t \in new /\ w \in new)
    BY <1>3, <1>4, <1>11
  <2> QED BY <1>5, <1>11, <2>1 DEF Fresh
<1>12. ASSUME NEW t \in tasks', t.sent = None, NEW e \in DOMAIN events', events'[e].of = t.ev.of
       PROVE  events'[e].room # t.room
  <2>1. t \in tasks /\ e \in DOMAIN events /\ events'[e] = events[e]
    BY <1>3, <1>4, <1>7, <1>12
  <2> QED BY <1>12, <2>1 DEF Fresh
<1>13. ASSUME NEW e \in DOMAIN events', NEW f \in DOMAIN events',
              events'[e].of = events'[f].of, events'[e].room = events'[f].room
       PROVE  e = f
  BY <1>3, <1>7, <1>13 DEF Fresh
<1> QED BY <1>8, <1>9, <1>10, <1>11, <1>12, <1>13 DEF Fresh

\* A coroutine makes its event only if the server has not.
LEMMA RunsFresh ==
    ASSUME TypeOK, Linked, Fresh, NEW t \in tasks, Runs(t)
    PROVE  Fresh'
<1>1. inbox' = inbox /\ packets' = packets
  BY DEF Runs
<1>2. t.ev.room = t.room
  BY TaskTypes DEF TaskGood
<1>3. \A e \in DOMAIN events' : \/ e \in DOMAIN events /\ events'[e] = events[e]
                                \/ events'[e] = t.ev /\ e = Len(events) + 1 /\ t.sent = None /\ events' # events
  BY RunsEffect DEF Grown
<1>4. \A w \in tasks' : \/ w \in tasks /\ w # t
                        \/ /\ tasks' = (tasks \ {t}) \cup {w}
                           /\ w.ev = t.ev /\ w.room = t.room
                           /\ w.sent = None => t.sent = None /\ events' = events
  BY DEF Runs, Follows
<1>5. IsFiniteSet(tasks)'
  <2>1. IsFiniteSet(tasks \ {t})
    BY FS_RemoveElement DEF Fresh
  <2>2. \A w : IsFiniteSet((tasks \ {t}) \cup {w})
    BY <2>1, FS_AddElement
  <2> QED BY <2>1, <2>2 DEF Runs
<1>6. ASSUME NEW r \in Relays, NEW i \in DOMAIN inbox'[r]
      PROVE  /\ \A e \in DOMAIN events' : events'[e].of # packets'[inbox'[r][i]].of
             /\ \A w \in tasks' : w.ev.of # packets'[inbox'[r][i]].of
  BY <1>1, <1>3, <1>4 DEF Fresh
<1>7. ASSUME NEW w \in tasks', NEW z \in tasks', w.ev.of = z.ev.of, w.room = z.room
      PROVE  w = z
  <2>1. CASE w \in tasks /\ w # t /\ z \in tasks /\ z # t
    BY <1>7, <2>1 DEF Fresh
  <2>2. CASE w \in tasks /\ w # t /\ tasks' = (tasks \ {t}) \cup {z} /\ z.ev = t.ev /\ z.room = t.room
    BY <1>7, <2>2 DEF Fresh
  <2>3. CASE z \in tasks /\ z # t /\ tasks' = (tasks \ {t}) \cup {w} /\ w.ev = t.ev /\ w.room = t.room
    BY <1>7, <2>3 DEF Fresh
  <2>4. CASE tasks' = (tasks \ {t}) \cup {w} /\ tasks' = (tasks \ {t}) \cup {z} /\ z.ev = t.ev /\ z.room = t.room
    <3>1. z = w \/ (z \in tasks /\ z # t)
      BY <2>4
    <3> QED BY <2>3, <2>4, <3>1, <1>4, <2>1
  <2> QED BY <1>4, <2>1, <2>2, <2>3, <2>4
<1>8. ASSUME NEW w \in tasks', w.sent = None, NEW e \in DOMAIN events', events'[e].of = w.ev.of
      PROVE  events'[e].room # w.room
  <2>1. CASE w \in tasks /\ w # t
    BY <1>2, <1>3, <1>8, <2>1 DEF Fresh
  <2>2. CASE w.ev = t.ev /\ w.room = t.room /\ t.sent = None /\ events' = events
    BY <1>8, <2>2 DEF Fresh
  <2> QED BY <1>4, <1>8, <2>1, <2>2
<1>9. ASSUME NEW e \in DOMAIN events', NEW f \in DOMAIN events',
             events'[e].of = events'[f].of, events'[e].room = events'[f].room
      PROVE  e = f
  BY <1>2, <1>3, <1>9 DEF Fresh
<1> QED BY <1>1, <1>5, <1>6, <1>7, <1>8, <1>9 DEF Fresh

-----------------------------------------------------------------------------
(* The size of the map.                                                    *)

MapKept == \A r \in running : MsgsToKeep(r) > 0 => Len(map[r]) <= MsgsToKeep(r) + Pruning(r)

\* The coroutines of r that are about to prune.
ToPrune(r) == {t \in tasks : t.r = r /\ t.stage = "prune"}

\* They can be counted.
LEMMA PruningIs ==
    ASSUME TypeOK, Fresh, NEW r \in running
    PROVE  /\ IsFiniteSet(ToPrune(r)) /\ Cardinality(ToPrune(r)) \in Nat
           /\ Pruning(r) = Cardinality(ToPrune(r)) + (IF sending[r].stage = "prune" THEN 1 ELSE 0)
           /\ Pruning(r) \in Nat
           /\ MsgsToKeep(r) \in Int /\ Len(map[r]) \in Nat
<1>1. ToPrune(r) \subseteq tasks /\ IsFiniteSet(tasks)
  BY DEF ToPrune, Fresh
<1>2. IsFiniteSet(ToPrune(r))
  BY <1>1, FS_Subset
<1>3. Cardinality(ToPrune(r)) \in Nat
  BY <1>2, FS_CardinalityType
<1>4. Pruning(r) = Cardinality(ToPrune(r)) + (IF sending[r].stage = "prune" THEN 1 ELSE 0)
  BY DEF Pruning, ToPrune
<1>5. r \in Relays /\ map[r] \in Seq(RowRecord)
  BY RelayAssumption DEF TypeOK
<1>6. MsgsToKeep(r) \in Int
  BY DEF TypeOK, MsgsToKeep, Config
<1> QED BY <1>2, <1>3, <1>4, <1>5, <1>6

\* So they can after a step.
LEMMA PruningCounted == TypeOK /\ Fresh => \A r \in running : Pruning(r) \in Nat /\ Len(map[r]) \in Nat
BY PruningIs

\* So they can after a step.
LEMMA PruningCountedNext == (TypeOK /\ Fresh => \A r \in running : Pruning(r) \in Nat /\ Len(map[r]) \in Nat)'
BY PruningCounted, PTL

\* A map that grows only with the prunings to come, or was just pruned.
LEMMA KeptStep ==
    ASSUME TypeOK, Fresh, MapKept, TypeOK', Fresh', UNCHANGED <<cfg, running>>,
           NEW r \in running, MsgsToKeep(r) > 0,
           \/ Len(map'[r]) <= MsgsToKeep(r)
           \/ map'[r] = map[r] /\ Pruning(r)' = Pruning(r)
           \/ Len(map'[r]) <= Len(map[r]) + 1 /\ Pruning(r)' = Pruning(r) + 1
    PROVE  Len(map'[r]) <= MsgsToKeep(r) + Pruning(r)'
<1>1. Pruning(r) \in Nat /\ MsgsToKeep(r) \in Int /\ Len(map[r]) \in Nat
  BY PruningIs
<1>2. Pruning(r)' \in Nat /\ Len(map'[r]) \in Nat
  <2>1. (TypeOK /\ Fresh => \A x \in running : Pruning(x) \in Nat /\ Len(map[x]) \in Nat)'
    BY PruningCountedNext
  <2> QED BY <2>1
<1>3. Len(map[r]) <= MsgsToKeep(r) + Pruning(r)
  BY DEF MapKept
<1>4. PICK a \in Nat, b \in Nat, m \in Nat, n \in Nat, k \in Int :
        a = Pruning(r) /\ b = Pruning(r)' /\ m = Len(map[r]) /\ n = Len(map'[r]) /\ k = MsgsToKeep(r)
  BY <1>1, <1>2, Zenon
<1>5. m <= k + a /\ k > 0 /\ (n <= k \/ (n = m /\ b = a) \/ (n <= m + 1 /\ b = a + 1))
  BY <1>3, <1>4, Zenon
<1>6. n <= k + b
  BY <1>5
<1> QED BY <1>4, <1>6, Zenon

\* A step that leaves the maps and the prunings to come as they are.
LEMMA MapKeptFrame ==
    ASSUME TypeOK, Fresh, MapKept, TypeOK', Fresh', UNCHANGED <<cfg, running, map>>,
           \A r \in running : {t \in tasks' : t.r = r /\ t.stage = "prune"} = ToPrune(r),
           \A r \in running : sending'[r].stage = "prune" <=> sending[r].stage = "prune"
    PROVE  MapKept'
<1> SUFFICES ASSUME NEW r \in running, MsgsToKeep(r) > 0
             PROVE  Len(map'[r]) <= MsgsToKeep(r) + Pruning(r)'
  BY DEF MapKept, MsgsToKeep
<1>1. Pruning(r)' = Pruning(r)
  BY DEF Pruning, ToPrune
<1> QED BY <1>1, KeptStep

\* A coroutine that sends is not one that prunes, nor is what becomes of it.
LEMMA SendingKeepsMap ==
    ASSUME TypeOK, Linked, Fresh, MapKept, TypeOK', Fresh', NEW t \in tasks,
           SendAnswered(t) \/ SendTimesOut(t) \/ SendFails(t) \/ GivesUp(t)
    PROVE  MapKept'
<1>1. t.stage = "send" /\ UNCHANGED <<sending, map, cfg, running>>
  BY DEF SendAnswered, SendTimesOut, SendFails, GivesUp, Accept
<1>2. t \in TaskRecord
  BY TaskTypes
<1>3. \/ tasks' = tasks \ {t}
      \/ \E u : u.stage \in {"send", "store"} /\ tasks' = (tasks \ {t}) \cup {u}
  <2>1. CASE SendAnswered(t)
    <3> DEFINE n == TransactionEvent(t)
               u == [t EXCEPT !.sent = n, !.stage = "store"]
    <3>1. tasks' = tasks \ {t} \/ tasks' = (tasks \ {t}) \cup {u}
      BY <2>1 DEF SendAnswered, Update
    <3>2. u.stage = "store"
      <4> HIDE DEF n
      <4> QED BY <1>2 DEF TaskRecord
    <3> HIDE DEF u
    <3> QED BY <3>1, <3>2
  <2>2. ASSUME NEW n, Retry(t, n)
        PROVE  \/ tasks' = tasks \ {t}
               \/ \E u : u.stage \in {"send", "store"} /\ tasks' = (tasks \ {t}) \cup {u}
    <3> DEFINE k == t.tries + 1
               u == [t EXCEPT !.sent = n, !.tries = k]
    <3>1. tasks' = tasks \ {t} \/ tasks' = (tasks \ {t}) \cup {u}
      BY <2>2 DEF Retry, Update
    <3>2. u.stage = "send"
      <4> HIDE DEF k
      <4> QED BY <1>1, <1>2 DEF TaskRecord
    <3> HIDE DEF u
    <3> QED BY <3>1, <3>2
  <2> QED BY <2>1, <2>2 DEF SendTimesOut, SendFails, GivesUp
<1>4. \A r \in running : {u \in tasks' : u.r = r /\ u.stage = "prune"} = ToPrune(r)
  BY <1>1, <1>3 DEF ToPrune
<1> QED BY <1>1, <1>4, MapKeptFrame

\* Storing the mapping of an inbound message: pruning comes next.
LEMMA StoreInboundKeepsMap ==
    ASSUME TypeOK, Linked, RowsDiffer, Fresh, MapKept, TypeOK', Fresh', NEW t \in tasks, StoreInbound(t)
    PROVE  MapKept'
<1> DEFINE row == Row(t.pkt, t.sent, t.room)
           u == [t EXCEPT !.stage = "prune"]
<1>1. /\ Runs(t) /\ Stores(t.r, row) /\ row \in RowRecord /\ t.stage = "store"
      /\ tasks' = (tasks \ {t}) \cup {u}
  BY StoreRuns
<1>2. /\ t \in TaskRecord /\ t.r \in Relays /\ t.r \in running
  BY TaskTypes
<1>3. u.r = t.r /\ u.stage = "prune" /\ u.ev = t.ev /\ u.room = t.room
  BY <1>2 DEF TaskRecord
<1> HIDE DEF row, u
<1>4. u \notin tasks
  BY <1>1, <1>3 DEF Fresh
<1>5. UNCHANGED <<sending, cfg, running>>
  BY <1>1 DEF Runs
<1>6. Len(map'[t.r]) <= Len(map[t.r]) + 1 /\ \A x \in Relays : x # t.r => map'[x] = map[x]
  BY <1>1, <1>2, MapStored
<1> SUFFICES ASSUME NEW r \in running, MsgsToKeep(r) > 0
             PROVE  Len(map'[r]) <= MsgsToKeep(r) + Pruning(r)'
  BY <1>5 DEF MapKept, MsgsToKeep
<1>7. r \in Relays /\ Pruning(r) \in Nat /\ Len(map[r]) \in Nat /\ IsFiniteSet(ToPrune(r))
      /\ Cardinality(ToPrune(r)) \in Nat
  BY PruningIs, RelayAssumption DEF TypeOK
<1>8. CASE r = t.r
  <2>1. ToPrune(r)' = ToPrune(r) \cup {u} /\ u \notin ToPrune(r)
    BY <1>1, <1>3, <1>4, <1>8 DEF ToPrune
  <2>2. Cardinality(ToPrune(r) \cup {u}) = Cardinality(ToPrune(r)) + 1
    BY <1>7, <2>1, FS_AddElement
  <2>3. Cardinality(ToPrune(r)') = Cardinality(ToPrune(r)) + 1
    BY <2>1, <2>2, Zenon
  <2>4. Pruning(r)' = Pruning(r) + 1
    BY <1>5, <1>7, <2>3 DEF Pruning, ToPrune
  <2> QED BY <1>5, <1>6, <1>8, <2>4, KeptStep
<1>9. CASE r # t.r
  <2>1. ToPrune(r)' = ToPrune(r)
    BY <1>1, <1>3, <1>9 DEF ToPrune
  <2>2. Pruning(r)' = Pruning(r)
    BY <1>5, <2>1 DEF Pruning, ToPrune
  <2> QED BY <1>5, <1>6, <1>7, <1>9, <2>2, KeptStep
<1> QED BY <1>8, <1>9

\* The pruning itself.
LEMMA PruneInboundKeepsMap ==
    ASSUME TypeOK, Linked, RowsDiffer, Fresh, MapKept, TypeOK', Fresh', NEW t \in tasks, PruneInbound(t)
    PROVE  MapKept'
<1>1. Runs(t) /\ map' = [map EXCEPT ![t.r] = Pruned(t.r, @)] /\ tasks' = tasks \ {t} /\ t.r \in running
  BY PruneRuns, TaskTypes
<1>2. /\ MsgsToKeep(t.r) > 0 => Len(map'[t.r]) <= MsgsToKeep(t.r)
      /\ \A x \in Relays : x # t.r => map'[x] = map[x]
  BY <1>1, MapPruned
<1>3. UNCHANGED <<sending, cfg, running>>
  BY <1>1 DEF Runs
<1> SUFFICES ASSUME NEW r \in running, MsgsToKeep(r) > 0
             PROVE  Len(map'[r]) <= MsgsToKeep(r) + Pruning(r)'
  BY <1>3 DEF MapKept, MsgsToKeep
<1>4. CASE r = t.r
  BY <1>2, <1>3, <1>4, KeptStep
<1>5. CASE r # t.r
  <2>1. ToPrune(r)' = ToPrune(r)
    BY <1>1, <1>5 DEF ToPrune
  <2>2. Pruning(r)' = Pruning(r)
    BY <1>3, <2>1 DEF Pruning, ToPrune
  <2>3. map'[r] = map[r]
    BY <1>2, <1>5, RelayAssumption DEF TypeOK
  <2> QED BY <1>3, <2>2, <2>3, KeptStep
<1> QED BY <1>4, <1>5

\* Storing the mapping of a transmission.
LEMMA StoreOutboundKeepsMap ==
    ASSUME TypeOK, Linked, RowsDiffer, Fresh, MapKept, TypeOK', Fresh', NEW q \in running, StoreOutbound(q)
    PROVE  MapKept'
<1> DEFINE row == Row(sending[q].pkt, sending[q].ev, events[sending[q].ev].room)
<1>1. /\ row \in RowRecord /\ q \in Relays /\ Stores(q, row)
      /\ sending[q].stage = "store" /\ sending'[q].stage = "prune"
      /\ \A x \in Relays : x # q => sending'[x] = sending[x]
      /\ UNCHANGED <<tasks, cfg, running>>
  BY StoreOutboundEffect, RelayAssumption DEF TypeOK
<1> HIDE DEF row
<1>2. Len(map'[q]) <= Len(map[q]) + 1 /\ \A x \in Relays : x # q => map'[x] = map[x]
  BY <1>1, MapStored
<1> SUFFICES ASSUME NEW r \in running, MsgsToKeep(r) > 0
             PROVE  Len(map'[r]) <= MsgsToKeep(r) + Pruning(r)'
  BY <1>1 DEF MapKept, MsgsToKeep
<1>3. r \in Relays /\ Pruning(r) \in Nat /\ Len(map[r]) \in Nat /\ Cardinality(ToPrune(r)) \in Nat
  BY PruningIs, RelayAssumption DEF TypeOK
<1>4. CASE r = q
  <2>1. Pruning(r)' = Cardinality(ToPrune(r)) + 1 /\ Pruning(r) = Cardinality(ToPrune(r)) + 0
    BY <1>1, <1>4 DEF Pruning, ToPrune
  <2>2. Pruning(r)' = Pruning(r) + 1
    BY <1>3, <2>1
  <2> QED BY <1>1, <1>2, <1>4, <2>2, KeptStep
<1>5. CASE r # q
  <2>1. Pruning(r)' = Pruning(r)
    BY <1>1, <1>3, <1>5 DEF Pruning
  <2> QED BY <1>1, <1>2, <1>3, <1>5, <2>1, KeptStep
<1> QED BY <1>4, <1>5

\* Pruning after it.
LEMMA PruneOutboundKeepsMap ==
    ASSUME TypeOK, Linked, RowsDiffer, Fresh, MapKept, TypeOK', Fresh', NEW q \in running, PruneOutbound(q)
    PROVE  MapKept'
<1>1. /\ map' = [map EXCEPT ![q] = Pruned(q, @)]
      /\ sending' = [sending EXCEPT ![q] = NoSend]
      /\ UNCHANGED <<tasks, cfg, running>>
  BY DEF PruneOutbound
<1>2. /\ MsgsToKeep(q) > 0 => Len(map'[q]) <= MsgsToKeep(q)
      /\ \A x \in Relays : x # q => map'[x] = map[x]
  BY <1>1, MapPruned
<1> SUFFICES ASSUME NEW r \in running, MsgsToKeep(r) > 0
             PROVE  Len(map'[r]) <= MsgsToKeep(r) + Pruning(r)'
  BY <1>1 DEF MapKept, MsgsToKeep
<1>3. CASE r = q
  BY <1>1, <1>2, <1>3, KeptStep
<1>4. CASE r # q
  <2>1. r \in Relays /\ Len(map[r]) \in Nat /\ Pruning(r) \in Nat
    BY PruningIs, RelayAssumption DEF TypeOK
  <2>2. sending'[r] = sending[r]
    BY <1>1, <1>4, <2>1 DEF TypeOK
  <2>3. Pruning(r)' = Pruning(r)
    BY <1>1, <2>2 DEF Pruning
  <2> QED BY <1>1, <1>2, <1>4, <2>1, <2>3, KeptStep
<1> QED BY <1>3, <1>4

\* A transmission starts only when the mapping before it is stored and pruned.
LEMMA TransmitKeepsMap ==
    ASSUME TypeOK, Linked, Fresh, MapKept, TypeOK', Fresh', NEW q \in running, Transmit(q)
    PROVE  MapKept'
<1> DEFINE s == [ev |-> Head(queue[q]).ev, pkt |-> Len(packets) + 1, stage |-> "store"]
<1>1. /\ sending[q] = NoSend
      /\ sending' = [sending EXCEPT ![q] = NoSend] \/ sending' = [sending EXCEPT ![q] = s]
      /\ UNCHANGED <<tasks, map, cfg, running>> /\ q \in Relays
  BY TransmitEffect, RelayAssumption DEF TypeOK
<1>2. s.stage = "store" /\ NoSend.stage = "none"
  BY DEF NoSend
<1> HIDE DEF s
<1>3. ASSUME NEW r \in running PROVE sending'[r].stage = "prune" <=> sending[r].stage = "prune"
  <2>1. r \in Relays
    BY RelayAssumption DEF TypeOK
  <2>2. CASE r = q
    BY <1>1, <1>2, <2>1, <2>2 DEF TypeOK
  <2>3. CASE r # q
    BY <1>1, <2>1, <2>3 DEF TypeOK
  <2> QED BY <2>2, <2>3
<1>4. \A r \in running : {t \in tasks' : t.r = r /\ t.stage = "prune"} = ToPrune(r)
  BY <1>1 DEF ToPrune
<1> QED BY <1>1, <1>3, <1>4, MapKeptFrame

\* on_meshtastic_message() starts coroutines that send.
LEMMA OnMeshtasticKeepsMap ==
    ASSUME TypeOK, Linked, Fresh, MapKept, TypeOK', Fresh', NEW q \in running, Hears(q)
    PROVE  MapKept'
<1>1. UNCHANGED <<sending, map, cfg, running>>
  BY OnMeshtasticEffect
<1>2. PICK new : Handles(q, Head(inbox[q]), new)
  BY OnMeshtasticEffect
<1>3. tasks' = tasks \cup new /\ \A t \in new : t.stage = "send"
  BY <1>2 DEF Handles, Started
<1>4. \A r \in running : {t \in tasks' : t.r = r /\ t.stage = "prune"} = ToPrune(r)
  BY <1>3 DEF ToPrune
<1> QED BY <1>1, <1>4, MapKeptFrame

-----------------------------------------------------------------------------
(* Nothing is forgotten.                                                   *)

\* What is settled stays so while coroutines end only with their event made or given up.
LEMMA SettledStays ==
    ASSUME NEW D, NEW E, NEW T, NEW u, NEW p, NEW rooms, Settled(D, E, T, u, p, rooms),
           NEW D2, NEW E2, NEW T2, D \subseteq D2, Grown(E, E2),
           \A t \in T : t.pkt = p => \/ \E w \in T2 : w.pkt = t.pkt /\ w.room = t.room
                                     \/ u \in D2
                                     \/ \E e \in DOMAIN E2 : E2[e].of = u /\ E2[e].room = t.room
    PROVE  Settled(D2, E2, T2, u, p, rooms)
<1> SUFFICES ASSUME u \notin D2, NEW room \in rooms
             PROVE  \/ \E e \in DOMAIN E2 : E2[e].of = u /\ E2[e].room = room
                    \/ \E t \in T2 : t.pkt = p /\ t.room = room
  BY DEF Settled
<1>1. \/ \E e \in DOMAIN E : E[e].of = u /\ E[e].room = room
      \/ \E t \in T : t.pkt = p /\ t.room = room
  BY DEF Settled
<1>2. CASE \E e \in DOMAIN E : E[e].of = u /\ E[e].room = room
  BY <1>2 DEF Grown
<1>3. CASE \E t \in T : t.pkt = p /\ t.room = room
  BY <1>3
<1> QED BY <1>1, <1>2, <1>3

\* A step that takes only settled packets from the inboxes and ends only coroutines
\* that are through.
LEMMA OnItsWayStep ==
    ASSUME TypeOK, Linked, OnItsWay, UNCHANGED <<cfg, running>>, dropped \subseteq dropped' /\ missed \subseteq missed',
           Grown(said, said'), Grown(packets, packets'), Grown(events, events'),
           \A p \in DOMAIN packets' :
             \/ p \in DOMAIN packets
             \/ \E i \in DOMAIN inbox'[packets'[p].mesh] : inbox'[packets'[p].mesh][i] = p
             \/ said'[packets'[p].of].on # packets'[p].mesh,
           \A r \in running : \A i \in DOMAIN inbox[r] :
             \/ \E j \in DOMAIN inbox'[r] : inbox'[r][j] = inbox[r][i]
             \/ PublicText(inbox[r][i]) /\ inbox[r][i] \notin missed' =>
                  Settled(dropped', events', tasks', packets[inbox[r][i]].of, inbox[r][i],
                          RoomsOf(r, packets[inbox[r][i]].ch)),
           \A t \in tasks : \/ \E w \in tasks' : w.pkt = t.pkt /\ w.room = t.room
                            \/ t.ev.of \in dropped'
                            \/ \E e \in DOMAIN events' : events'[e].of = t.ev.of /\ events'[e].room = t.room
    PROVE  OnItsWay'
<1> SUFFICES ASSUME NEW r \in running', NEW p \in DOMAIN packets', packets'[p].mesh = r, PublicText(p)',
                    (\A i \in DOMAIN inbox'[r] : inbox'[r][i] # p) /\ p \notin missed'
             PROVE  Settled(dropped', events', tasks', packets'[p].of, p, RoomsOf(r, packets'[p].ch))
  BY DEF OnItsWay
<1>1. said'[packets'[p].of].on = packets'[p].mesh
  BY DEF PublicText
<1>2. p \in DOMAIN packets /\ packets'[p] = packets[p] /\ r \in running
  BY <1>1 DEF Grown
<1>3. said'[packets[p].of] = said[packets[p].of]
  BY <1>2 DEF Linked, PacketGood, Grown
<1>4. PublicText(p)
  BY <1>2, <1>3 DEF PublicText
<1>5. CASE \E i \in DOMAIN inbox[r] : inbox[r][i] = p
  BY <1>2, <1>4, <1>5
<1>6. CASE \A i \in DOMAIN inbox[r] : inbox[r][i] # p
  <2>1. Settled(dropped, events, tasks, packets[p].of, p, RoomsOf(r, packets[p].ch))
    BY <1>2, <1>4, <1>6 DEF OnItsWay
  <2>2. \A t \in tasks : t.pkt = p => t.ev.of = packets[p].of
    BY DEF Linked, TaskGood
  <2>3. \A t \in tasks : t.pkt = p => \/ \E w \in tasks' : w.pkt = t.pkt /\ w.room = t.room
                                      \/ packets[p].of \in dropped'
                                      \/ \E e \in DOMAIN events' : events'[e].of = packets[p].of /\ events'[e].room = t.room
    BY <2>2
  <2>4. Settled(dropped', events', tasks', packets[p].of, p, RoomsOf(r, packets[p].ch))
    BY <2>1, <2>3, SettledStays
  <2> QED BY <1>2, <2>4
<1> QED BY <1>5, <1>6

\* A new packet of the mesh waits in the inbox.
LEMMA MeshSaysWay ==
    ASSUME TypeOK, Linked, OnItsWay, NEW r \in running, NEW m \in MeshText,
           NEW kind \in {"text", "reply", "reaction"},
           NEW q \in DOMAIN packets \cup {None}, MeshSays(r, m, kind, q)
    PROVE  OnItsWay'
<1>0. r \in Relays
  BY RelayAssumption DEF TypeOK
<1>1. PICK s \in Uttered, v \in PacketRecord :
        /\ said' = Append(said, s) /\ packets' = Append(packets, v) /\ v.mesh = r
        /\ inbox' = [inbox EXCEPT ![r] = Append(@, Len(packets) + 1)]
        /\ UNCHANGED <<events, tasks, cfg, running, dropped, missed>>
  BY MeshSaysEffect
<1>2. /\ DOMAIN packets = 1..Len(packets) /\ DOMAIN packets' = 1..(Len(packets) + 1) /\ Len(packets) \in Nat
      /\ packets'[Len(packets) + 1] = v
      /\ Grown(packets, packets') /\ Grown(said, said') /\ Grown(events, events')
  BY <1>1, AppendIs, AppendGrows DEF TypeOK, Grown
<1>3. inbox[r] \in Seq(Nat) /\ Len(packets) + 1 \in Nat
  BY <1>0, <1>2 DEF TypeOK
<1>4. /\ \A i \in DOMAIN inbox[r] : i \in DOMAIN Append(inbox[r], Len(packets) + 1)
                                    /\ Append(inbox[r], Len(packets) + 1)[i] = inbox[r][i]
      /\ \E i \in DOMAIN Append(inbox[r], Len(packets) + 1) : Append(inbox[r], Len(packets) + 1)[i] = Len(packets) + 1
  <2>1. /\ Len(inbox[r]) + 1 \in DOMAIN Append(inbox[r], Len(packets) + 1)
        /\ Append(inbox[r], Len(packets) + 1)[Len(inbox[r]) + 1] = Len(packets) + 1
    BY <1>3, AppendIs
  <2> QED BY <1>3, <2>1, AppendIs
<1>5. inbox'[r] = Append(inbox[r], Len(packets) + 1) /\ \A x \in Relays : x # r => inbox'[x] = inbox[x]
  BY <1>0, <1>1 DEF TypeOK
<1>6. \A p \in DOMAIN packets' : \/ p \in DOMAIN packets
                                 \/ \E i \in DOMAIN inbox'[packets'[p].mesh] : inbox'[packets'[p].mesh][i] = p
  <2> SUFFICES ASSUME NEW p \in DOMAIN packets', p \notin DOMAIN packets
               PROVE  \E i \in DOMAIN inbox'[packets'[p].mesh] : inbox'[packets'[p].mesh][i] = p
    OBVIOUS
  <2>1. p = Len(packets) + 1 /\ packets'[p].mesh = r
    BY <1>1, <1>2
  <2> QED BY <1>4, <1>5, <2>1
<1>7. \A x \in running : \A i \in DOMAIN inbox[x] : \E j \in DOMAIN inbox'[x] : inbox'[x][j] = inbox[x][i]
  <2> SUFFICES ASSUME NEW x \in running, NEW i \in DOMAIN inbox[x]
               PROVE  i \in DOMAIN inbox'[x] /\ inbox'[x][i] = inbox[x][i]
    OBVIOUS
  <2>1. x \in Relays
    BY RelayAssumption DEF TypeOK
  <2> QED BY <1>4, <1>5, <2>1
<1>8. UNCHANGED <<cfg, running>> /\ dropped \subseteq dropped' /\ missed \subseteq missed' /\ tasks' = tasks
  BY <1>1
<1>9. \A t \in tasks : \E w \in tasks' : w.pkt = t.pkt /\ w.room = t.room
  BY <1>8
<1> QED BY <1>2, <1>6, <1>7, <1>8, <1>9, OnItsWayStep

\* An utterance in a room changes nothing for the packets.
LEMMA RoomSaysWay ==
    ASSUME TypeOK, Linked, OnItsWay, NEW room \in Rooms, NEW text \in STRING,
           NEW kind \in {"text", "reply", "reaction"},
           NEW x \in DOMAIN events \cup {None}, RoomSays(room, text, kind, x)
    PROVE  OnItsWay'
<1>1. PICK s \in Uttered, v \in EventRecord :
        /\ said' = Append(said, s) /\ events' = Append(events, v)
        /\ UNCHANGED <<packets, inbox, tasks, cfg, running, dropped, missed>>
  BY RoomSaysEffect
<1>2. Grown(packets, packets') /\ Grown(said, said') /\ Grown(events, events')
  BY <1>1, AppendGrows DEF TypeOK, Grown
<1> QED BY <1>1, <1>2, OnItsWayStep

\* on_meshtastic_message() settles the packet it takes.
LEMMA OnMeshtasticWay ==
    ASSUME TypeOK, Linked, OnItsWay, NEW r \in running, Hears(r)
    PROVE  OnItsWay'
<1> DEFINE p == Head(inbox[r])
<1>1. /\ r \in Relays /\ inbox[r] # << >> /\ inbox' = [inbox EXCEPT ![r] = Tail(@)]
      /\ UNCHANGED <<said, packets, cfg, running>>
  BY OnMeshtasticEffect, RelayAssumption DEF TypeOK
<1>2. PICK new : Handles(r, p, new)
  BY OnMeshtasticEffect
<1>3. /\ p = inbox[r][1] /\ DOMAIN inbox[r] = 1..Len(inbox[r]) /\ Len(inbox[r]) \in Nat
      /\ DOMAIN Tail(inbox[r]) = 1..(Len(inbox[r]) - 1)
      /\ \A i \in DOMAIN Tail(inbox[r]) : Tail(inbox[r])[i] = inbox[r][i + 1]
  BY <1>1, TailIs DEF TypeOK
<1>4. inbox'[r] = Tail(inbox[r]) /\ \A x \in Relays : x # r => inbox'[x] = inbox[x]
  BY <1>1 DEF TypeOK
<1> HIDE DEF p
<1>5. Grown(events, events')
  <2>1. CASE events' # events
    <3>1. PICK v \in EventRecord : events' = Append(events, v)
      BY <1>2, <2>1 DEF Handles
    <3> QED BY <3>1, AppendGrows DEF TypeOK
  <2> QED BY <2>1 DEF Grown
<1>6. Grown(said, said') /\ Grown(packets, packets') /\ dropped \subseteq dropped' /\ missed \subseteq missed' /\ tasks' = tasks \cup new
  BY <1>1, <1>2 DEF Grown, Handles
<1>7. PublicText(p) /\ p \notin missed' => Settled(dropped', events', tasks', packets[p].of, p, RoomsOf(r, packets[p].ch))
  <2>1. \A t \in new : t.pkt = p
    BY <1>2 DEF Handles, Started
  <2>2. PublicText(p) => \/ packets[p].of \in dropped' \/ p \in missed'
                         \/ \A room \in RoomsOf(r, packets[p].ch) : \E t \in new : t.room = room
    BY <1>2 DEF Handles
  <2> QED BY <1>6, <2>1, <2>2 DEF Settled
<1>8. ASSUME NEW x \in running, NEW i \in DOMAIN inbox[x]
      PROVE  (\E j \in DOMAIN inbox'[x] : inbox'[x][j] = inbox[x][i]) \/ (x = r /\ inbox[x][i] = p)
  <2>1. CASE x # r
    BY <1>4, <2>1, RelayAssumption DEF TypeOK
  <2>2. CASE x = r /\ i = 1
    BY <1>3, <2>2
  <2>3. CASE x = r /\ i # 1
    <3>1. i - 1 \in DOMAIN Tail(inbox[r]) /\ (i - 1) + 1 = i
      BY <1>3, <2>3
    <3>2. Tail(inbox[r])[i - 1] = inbox[r][i]
      BY <1>3, <3>1
    <3> QED BY <1>4, <2>3, <3>1, <3>2
  <2> QED BY <2>1, <2>2, <2>3
<1>9. \A x \in running : \A i \in DOMAIN inbox[x] :
        \/ \E j \in DOMAIN inbox'[x] : inbox'[x][j] = inbox[x][i]
        \/ PublicText(inbox[x][i]) /\ inbox[x][i] \notin missed' =>
             Settled(dropped', events', tasks', packets[inbox[x][i]].of, inbox[x][i],
                     RoomsOf(x, packets[inbox[x][i]].ch))
  BY <1>7, <1>8
<1> QED BY <1>1, <1>5, <1>6, <1>9, OnItsWayStep

\* A coroutine ends with its event made, or given up.
LEMMA RunsWay ==
    ASSUME TypeOK, Linked, OnItsWay, NEW t \in tasks, Runs(t)
    PROVE  OnItsWay'
<1>1. UNCHANGED <<said, packets, inbox, cfg, running>> /\ dropped \subseteq dropped' /\ missed \subseteq missed'
  BY DEF Runs
<1>2. Grown(events, events') /\ Grown(said, said') /\ Grown(packets, packets')
  BY RunsEffect
<1>3. ASSUME NEW u \in tasks
      PROVE  \/ \E w \in tasks' : w.pkt = u.pkt /\ w.room = u.room
             \/ u.ev.of \in dropped'
             \/ \E e \in DOMAIN events' : events'[e].of = u.ev.of /\ events'[e].room = u.room
  <2>1. CASE u # t
    BY <2>1 DEF Runs
  <2>2. CASE u = t
    BY <2>2, TaskTypes DEF Runs, Follows, TaskGood
  <2> QED BY <2>1, <2>2
<1> QED BY <1>1, <1>2, <1>3, OnItsWayStep

\* What a relay transmits was not said on its mesh.
LEMMA TransmittedIsForeign ==
    ASSUME TypeOK, Linked, NEW r \in Relays, NEW m, MessageGood(said, packets, events, r, m)
    PROVE  said[events[m.ev].of].on # r
<1>1. m.ev \in DOMAIN events /\ events[m.ev].by # r /\ events[m.ev] \in EventRecord
  BY Members DEF MessageGood
<1>2. EventGood(said, events, events[m.ev])
  BY <1>1 DEF Linked
<1>3. CASE events[m.ev].by = User
  <2>1. said[events[m.ev].of].on \in Rooms
    BY <1>1, <1>2, <1>3 DEF EventGood, EventRecord
  <2> QED BY <2>1, RelayAssumption
<1>4. CASE events[m.ev].by # User
  BY <1>1, <1>2, <1>4 DEF EventGood
<1> QED BY <1>3, <1>4

\* So it is no public text of the mesh.
LEMMA TransmitWay ==
    ASSUME TypeOK, Linked, OnItsWay, NEW r \in running, Transmit(r)
    PROVE  OnItsWay'
<1> DEFINE m == Head(queue[r])
<1>1. /\ r \in Relays /\ MessageGood(said, packets, events, r, m)
      /\ UNCHANGED <<said, events, inbox, tasks, cfg, running, dropped, missed>>
  BY TransmitEffect, RelayAssumption DEF TypeOK
<1>2. PICK v \in PacketRecord : packets' = Append(packets, v) /\ v.mesh = r /\ v.of = events[m.ev].of
  BY TransmitEffect
<1> HIDE DEF m
<1>3. said'[v.of].on # v.mesh
  BY <1>1, <1>2, TransmittedIsForeign
<1>4. /\ DOMAIN packets = 1..Len(packets) /\ DOMAIN packets' = 1..(Len(packets) + 1) /\ Len(packets) \in Nat
      /\ packets'[Len(packets) + 1] = v
      /\ Grown(packets, packets') /\ Grown(said, said') /\ Grown(events, events')
  BY <1>1, <1>2, AppendIs, AppendGrows DEF TypeOK, Grown
<1>5. \A p \in DOMAIN packets' : p \in DOMAIN packets \/ said'[packets'[p].of].on # packets'[p].mesh
  BY <1>3, <1>4
<1> QED BY <1>1, <1>4, <1>5, OnItsWayStep

\* A step that touches none of these.
LEMMA WayFrame ==
    ASSUME TypeOK, Linked, OnItsWay,
           UNCHANGED <<said, packets, events, inbox, tasks, cfg, running, dropped, missed>>
    PROVE  OnItsWay'
<1>1. Grown(said, said') /\ Grown(packets, packets') /\ Grown(events, events')
  BY DEF Grown
<1> QED BY <1>1, OnItsWayStep

-----------------------------------------------------------------------------
(* The inductive invariant.                                                *)

RelayInv == TypeOK /\ Linked /\ RowsDiffer /\ Leaves /\ Fresh /\ MapKept /\ OnItsWay

\* At the start nothing has been said.
LEMMA InitRelay == Init => RelayInv
<1> SUFFICES ASSUME Init PROVE RelayInv OBVIOUS
<1>1. /\ said = << >> /\ packets = << >> /\ events = << >> /\ tasks = {}
      /\ \A r \in Relays : inbox[r] = << >> /\ queue[r] = << >> /\ map[r] = << >> /\ sending[r] = NoSend
      /\ running \in Deployments
  BY DEF Init
<1>2. NoSend \in SendRecord /\ NoSend.stage = "none"
  BY DEF NoSend, SendRecord, None
<1>3. cfg \in [running -> Config]
  BY <1>1, RelayAssumption DEF Init
<1>4. /\ inbox \in [Relays -> Seq(Nat)] /\ seen \in [Relays -> Nat]
      /\ queue \in [Relays -> Seq(MessageRecord)] /\ map \in [Relays -> Seq(RowRecord)]
      /\ sending \in [Relays -> SendRecord]
  BY <1>2 DEF Init
<1>5. TypeOK
  BY <1>1, <1>3, <1>4 DEF TypeOK
<1>6. Linked
  BY <1>1, <1>2 DEF Linked, SendGood
<1>7. RowsDiffer /\ Leaves /\ OnItsWay
  BY <1>1 DEF RowsDiffer, Leaves, TasksPublic, OnItsWay
<1>8. Fresh
  BY <1>1, FS_EmptySet DEF Fresh
<1>9. MapKept
  <2> SUFFICES ASSUME NEW r \in running, MsgsToKeep(r) > 0
               PROVE  Len(map[r]) <= MsgsToKeep(r) + Pruning(r)
    BY DEF MapKept
  <2>1. Len(map[r]) = 0
    BY <1>1, RelayAssumption
  <2>2. Pruning(r) \in Nat /\ MsgsToKeep(r) \in Int
    BY <1>5, <1>8, PruningIs
  <2> QED BY <2>1, <2>2
<1> QED BY <1>5, <1>6, <1>7, <1>8, <1>9 DEF RelayInv

\* A step that neither speaks nor starts or runs a coroutine says nothing new in a room.
LEMMA LeavesFrame ==
    ASSUME Linked, Leaves, Grown(packets, packets'), UNCHANGED <<events, tasks, cfg>>
    PROVE  Leaves'
BY LeavesStep

\* Nothing happens.
LEMMA RelayStutters == RelayInv /\ UNCHANGED vars => RelayInv'
<1> SUFFICES ASSUME RelayInv, UNCHANGED vars PROVE RelayInv' OBVIOUS
<1>1. UNCHANGED <<said, packets, events, inbox, seen, tasks, queue, sending, map, cfg, running, dropped, missed>>
  BY DEF vars
<1>2. Grown(packets, packets')
  BY <1>1 DEF Grown
<1>3. TypeOK'
  BY <1>1 DEF RelayInv, TypeOK
<1>4. Linked'
  BY <1>1 DEF RelayInv, Linked
<1>5. RowsDiffer'
  BY <1>1 DEF RelayInv, RowsDiffer
<1>6. Leaves'
  BY <1>1, <1>2, LeavesFrame DEF RelayInv
<1>7. Fresh'
  BY <1>1, <1>2, FreshFrame DEF RelayInv
<1>8. MapKept'
  BY <1>1 DEF RelayInv, MapKept, MsgsToKeep, Pruning
<1>9. OnItsWay'
  BY <1>1, WayFrame DEF RelayInv
<1> QED BY <1>3, <1>4, <1>5, <1>6, <1>7, <1>8, <1>9 DEF RelayInv

\* Somebody says something.
LEMMA SpeakKeeps == RelayInv /\ Speak => RelayInv'
<1> SUFFICES ASSUME RelayInv, Speak PROVE RelayInv' OBVIOUS
<1>1. TypeOK /\ Linked /\ RowsDiffer /\ Leaves /\ Fresh /\ MapKept /\ OnItsWay
  BY DEF RelayInv
<1>2. MeshTexts[Len(said) + 1] \subseteq MeshText /\ RoomTexts[Len(said) + 1] \subseteq STRING
  BY <1>1, TextsAre DEF Speak
<1>3. ASSUME NEW r \in running, NEW m \in MeshText, NEW kind \in {"text", "reply", "reaction"},
             NEW q \in DOMAIN packets \cup {None}, MeshSays(r, m, kind, q)
      PROVE  RelayInv'
  <2>1. TypeOK' /\ Linked' /\ RowsDiffer'
    BY <1>1, <1>3, MeshSaysLinks
  <2>2. UNCHANGED <<events, tasks, sending, map, cfg, running>>
    BY <1>3 DEF MeshSays
  <2>3. Grown(packets, packets')
    <3>1. PICK v \in PacketRecord : packets' = Append(packets, v)
      BY <1>1, <1>3, MeshSaysEffect
    <3> QED BY <1>1, <3>1, AppendGrows DEF TypeOK
  <2>4. Leaves'
    BY <1>1, <2>2, <2>3, LeavesFrame
  <2>5. Fresh'
    BY <1>1, <1>3, MeshSaysFresh
  <2>6. MapKept'
    BY <1>1, <2>2 DEF MapKept, MsgsToKeep, Pruning
  <2>7. OnItsWay'
    BY <1>1, <1>3, MeshSaysWay
  <2> QED BY <2>1, <2>4, <2>5, <2>6, <2>7 DEF RelayInv
<1>4. ASSUME NEW room \in Rooms, NEW text \in STRING, NEW kind \in {"text", "reply", "reaction"},
             NEW e \in DOMAIN events \cup {None}, RoomSays(room, text, kind, e)
      PROVE  RelayInv'
  <2>1. TypeOK' /\ Linked' /\ RowsDiffer'
    BY <1>1, <1>4, RoomSaysLinks
  <2>2. UNCHANGED <<tasks, sending, map, cfg, running>>
    BY <1>4 DEF RoomSays
  <2>3. Leaves'
    BY <1>1, <1>4, RoomSaysLeaves
  <2>4. Fresh'
    BY <1>1, <1>4, RoomSaysFresh
  <2>5. MapKept'
    BY <1>1, <2>2 DEF MapKept, MsgsToKeep, Pruning
  <2>6. OnItsWay'
    BY <1>1, <1>4, RoomSaysWay
  <2> QED BY <2>1, <2>3, <2>4, <2>5, <2>6 DEF RelayInv
<1>5. \/ \E r \in running : \E m \in MeshTexts[Len(said) + 1] :
           \E kind \in {"text", "reply", "reaction"}, q \in DOMAIN packets \cup {None} : MeshSays(r, m, kind, q)
      \/ \E room \in Rooms : \E text \in RoomTexts[Len(said) + 1] :
           \E kind \in {"text", "reply", "reaction"}, e \in DOMAIN events \cup {None} : RoomSays(room, text, kind, e)
  BY Zenon DEF Speak
<1> QED BY <1>2, <1>3, <1>4, <1>5

\* The relay r handles a packet or an event, or its queue makes a step.
LEMMA RelayKeeps ==
    ASSUME RelayInv, NEW r \in running, Relay(r)
    PROVE  RelayInv'
<1>1. TypeOK /\ Linked /\ RowsDiffer /\ Leaves /\ Fresh /\ MapKept /\ OnItsWay
  BY DEF RelayInv
<1>2. ASSUME Hears(r) PROVE RelayInv'
  <2>1. TypeOK' /\ Linked' /\ RowsDiffer'
    BY <1>1, <1>2, OnMeshtasticLinks
  <2>2. Leaves' /\ Fresh' /\ OnItsWay'
    BY <1>1, <1>2, OnMeshtasticLeaves, OnMeshtasticFresh, OnMeshtasticWay
  <2>3. MapKept'
    BY <1>1, <1>2, <2>1, <2>2, OnMeshtasticKeepsMap
  <2> QED BY <2>1, <2>2, <2>3 DEF RelayInv
<1>3. ASSUME NEW replied \in BOOLEAN, NEW ok \in BOOLEAN, NEW handled \in BOOLEAN,
             OnRoomMessage(r, replied, ok, handled)
      PROVE  RelayInv'
  <2>1. TypeOK' /\ Linked' /\ RowsDiffer'
    BY <1>1, <1>3, OnRoomLinks
  <2>2. UNCHANGED <<said, packets, events, inbox, tasks, sending, map, cfg, running, dropped, missed>>
    BY <1>3 DEF OnRoomMessage
  <2>3. Grown(packets, packets')
    BY <2>2 DEF Grown
  <2>4. Leaves' /\ Fresh' /\ OnItsWay'
    BY <1>1, <2>2, <2>3, LeavesFrame, FreshFrame, WayFrame
  <2>5. MapKept'
    BY <1>1, <2>2 DEF MapKept, MsgsToKeep, Pruning
  <2> QED BY <2>1, <2>4, <2>5 DEF RelayInv
<1>4. ASSUME Transmit(r) PROVE RelayInv'
  <2>1. TypeOK' /\ Linked' /\ RowsDiffer'
    BY <1>1, <1>4, TransmitLinks
  <2>2. UNCHANGED <<events, inbox, tasks, cfg>>
    BY <1>4 DEF Transmit
  <2>3. Grown(packets, packets')
    <3>1. PICK v \in PacketRecord : packets' = Append(packets, v)
      BY <1>1, <1>4, TransmitEffect
    <3> QED BY <1>1, <3>1, AppendGrows DEF TypeOK
  <2>4. Leaves' /\ Fresh' /\ OnItsWay'
    BY <1>1, <1>4, <2>2, <2>3, LeavesFrame, FreshFrame, TransmitWay
  <2>5. MapKept'
    BY <1>1, <1>4, <2>1, <2>4, TransmitKeepsMap
  <2> QED BY <2>1, <2>4, <2>5 DEF RelayInv
<1>5. ASSUME StoreOutbound(r) \/ PruneOutbound(r) PROVE RelayInv'
  <2>1. TypeOK' /\ Linked' /\ RowsDiffer'
    BY <1>1, <1>5, StoreOutboundLinks, PruneOutboundLinks
  <2>2. UNCHANGED <<said, packets, events, inbox, tasks, cfg, running, dropped, missed>>
    BY <1>5 DEF StoreOutbound, PruneOutbound
  <2>3. Grown(packets, packets')
    BY <2>2 DEF Grown
  <2>4. Leaves' /\ Fresh' /\ OnItsWay'
    BY <1>1, <2>2, <2>3, LeavesFrame, FreshFrame, WayFrame
  <2>5. MapKept'
    BY <1>1, <1>5, <2>1, <2>4, StoreOutboundKeepsMap, PruneOutboundKeepsMap
  <2> QED BY <2>1, <2>4, <2>5 DEF RelayInv
<1> QED BY <1>2, <1>3, <1>4, <1>5 DEF Relay, Hears

\* A coroutine makes a step.
LEMMA RelayingKeeps == RelayInv /\ Relaying => RelayInv'
<1> SUFFICES ASSUME RelayInv, NEW t \in tasks,
                    \/ SendAnswered(t) \/ SendTimesOut(t) \/ SendFails(t) \/ GivesUp(t)
                    \/ StoreInbound(t) \/ PruneInbound(t)
             PROVE  RelayInv'
  BY DEF Relaying
<1>1. TypeOK /\ Linked /\ RowsDiffer /\ Leaves /\ Fresh /\ MapKept /\ OnItsWay
  BY DEF RelayInv
<1>2. Runs(t) /\ TypeOK' /\ Linked' /\ RowsDiffer'
  BY <1>1, TaskLinks
<1>3. Leaves' /\ Fresh' /\ OnItsWay'
  BY <1>1, <1>2, RunsLeaves, RunsFresh, RunsWay
<1>4. MapKept'
  BY <1>1, <1>2, <1>3, SendingKeepsMap, StoreInboundKeepsMap, PruneInboundKeepsMap
<1> QED BY <1>2, <1>3, <1>4 DEF RelayInv

\* Every step keeps the invariant.
LEMMA RelayInductive == RelayInv /\ [Next]_vars => RelayInv'
BY RelayStutters, SpeakKeeps, RelayKeeps, RelayingKeeps DEF Next

\* So it always holds.
LEMMA RelayInvariant == Spec => []RelayInv
BY InitRelay, RelayInductive, PTL DEF Spec

-----------------------------------------------------------------------------
(* The theorems.                                                           *)

\* Packets, events, rows, coroutines and queued messages are what the code makes
\* them: every relayed copy is built of well-typed parts.
THEOREM RelayTypes == Spec => []TypeOK
<1>1. RelayInv => TypeOK
  BY DEF RelayInv
<1> QED BY <1>1, RelayInvariant, PTL

\* Every relayed reply or reaction hangs on a copy of the very message it answers,
\* in the same room or on the same mesh, whatever is stored, pruned or repeated.
THEOREM ThreadsAreKept == Spec => []ThreadsKept
<1>1. RelayInv => ThreadsKept
  BY DEF RelayInv, Linked, EventGood, PacketGood, ThreadsKept
<1> QED BY <1>1, RelayInvariant, PTL

\* classify_packet() and the early returns of on_meshtastic_message() let nothing
\* encrypted, disabled or addressed to another node leave a mesh.
THEOREM OnlyPublicIsRelayed == Spec => []OnlyPublicLeaves
<1>1. RelayInv => OnlyPublicLeaves
  <2> SUFFICES ASSUME RelayInv, NEW e \in DOMAIN events, events[e].by \in Relays, ~events[e].suppress
               PROVE  \E p \in PacketsOf(events[e].of, events[e].by) :
                        Public(packets, cfg[events[e].by], events[e].by, p, events[e])
    BY DEF OnlyPublicLeaves, Public
  <2>1. events[e].by # User
    BY RelayAssumption
  <2>2. MadeOfPublic(packets, cfg, events[e])
    BY DEF RelayInv, Leaves
  <2> QED BY <2>1, <2>2 DEF MadeOfPublic, PacketsOf
<1> QED BY <1>1, RelayInvariant, PTL

\* message_map stays within msgs_to_keep but for the prunings under way, its rows
\* are unique by event, and each links a packet and an event of one utterance,
\* although coroutines store and prune in transactions of their own.
THEOREM MapIsBounded == Spec => []MapBounded
<1>1. RelayInv => MapBounded
  <2> SUFFICES ASSUME RelayInv, NEW r \in running PROVE
        /\ MsgsToKeep(r) > 0 => Len(map[r]) <= MsgsToKeep(r) + Pruning(r)
        /\ \A i, j \in DOMAIN map[r] : map[r][i].ev = map[r][j].ev => i = j
        /\ \A i \in DOMAIN map[r] : /\ packets[map[r][i].pkt].of = events[map[r][i].ev].of
                                    /\ packets[map[r][i].pkt].mesh = r
    BY DEF MapBounded
  <2>1. r \in Relays
    BY RelayAssumption DEF RelayInv, TypeOK
  <2>2. MsgsToKeep(r) > 0 => Len(map[r]) <= MsgsToKeep(r) + Pruning(r)
    BY DEF RelayInv, MapKept
  <2>3. \A i, j \in DOMAIN map[r] : map[r][i].ev = map[r][j].ev => i = j
    BY <2>1 DEF RelayInv, RowsDiffer
  <2>4. \A i \in DOMAIN map[r] : RowGood(packets, events, r, map[r][i])
    BY <2>1 DEF RelayInv, Linked
  <2> QED BY <2>2, <2>3, <2>4 DEF RowGood
<1> QED BY <1>1, RelayInvariant, PTL

\* A public text that found the relay ready, and that it is through with, is in every
\* room of its channel, unless a plugin took it or every attempt to send it failed.
THEOREM NothingIsForgotten == Spec => []NothingForgotten
<1>1. RelayInv => NothingForgotten
  <2> SUFFICES ASSUME RelayInv, NEW r \in running, NEW p \in DOMAIN packets, packets[p].mesh = r, PublicText(p),
                      p \notin ToSet(inbox[r]), p \notin missed, \A t \in tasks : t.pkt # p
               PROVE  \/ packets[p].of \in dropped
                      \/ \A room \in RoomsOf(r, packets[p].ch) : EventsOf(packets[p].of, room) # {}
    BY DEF NothingForgotten
  <2>1. \A i \in DOMAIN inbox[r] : inbox[r][i] # p
    BY DEF ToSet
  <2>2. Settled(dropped, events, tasks, packets[p].of, p, RoomsOf(r, packets[p].ch))
    BY <2>1 DEF RelayInv, OnItsWay
  <2> QED BY <2>2 DEF Settled, EventsOf
<1> QED BY <1>1, RelayInvariant, PTL

-----------------------------------------------------------------------------
(* Nothing goes round.                                                     *)

\* A step that makes copies only where there are some, or of new utterances.
LEMMA SpreadStep ==
    ASSUME Spread, Grown(said, said'),
           \A u \in DOMAIN said' :
             \/ u \in DOMAIN said
             \/ said'[u].on \notin Relays
             \/ (\A t \in tasks' : t.ev.of # u) /\ (\A e \in DOMAIN events' : events'[e].of # u),
           \A t \in tasks' : \E w \in tasks : w.ev.of = t.ev.of /\ w.room = t.room,
           \A e \in DOMAIN events' :
             \/ e \in DOMAIN events /\ events'[e] = events[e]
             \/ events'[e].of \notin DOMAIN said
             \/ \E w \in tasks : w.ev.of = events'[e].of /\ w.room = events'[e].room
    PROVE  Spread'
<1> SUFFICES ASSUME NEW u \in DOMAIN said', said'[u].on \in Relays
             PROVE  \E c \in Int : /\ \A t \in tasks' : t.ev.of = u => RoomChannel[said'[u].on][t.room] = c
                                   /\ \A e \in DOMAIN events' : events'[e].of = u => RoomChannel[said'[u].on][events'[e].room] = c
  BY DEF Spread
<1>1. CASE u \in DOMAIN said
  <2>1. said'[u] = said[u]
    BY <1>1 DEF Grown
  <2>2. PICK c \in Int : /\ \A t \in tasks : t.ev.of = u => RoomChannel[said[u].on][t.room] = c
                         /\ \A e \in DOMAIN events : events[e].of = u => RoomChannel[said[u].on][events[e].room] = c
    BY <1>1, <2>1 DEF Spread
  <2>3. \A t \in tasks' : t.ev.of = u => RoomChannel[said[u].on][t.room] = c
    BY <2>2
  <2>4. \A e \in DOMAIN events' : events'[e].of = u => RoomChannel[said[u].on][events'[e].room] = c
    BY <1>1, <2>2
  <2> QED BY <2>1, <2>3, <2>4
<1>2. CASE u \notin DOMAIN said
  <2>1. (\A t \in tasks' : t.ev.of # u) /\ (\A e \in DOMAIN events' : events'[e].of # u)
    BY <1>2
  <2> QED BY <2>1
<1> QED BY <1>1, <1>2

\* on_meshtastic_message() starts coroutines for the rooms of one channel, or for one room.
LEMMA OnMeshtasticSpreads ==
    ASSUME TypeOK, Linked, Fresh, Spread, NEW r \in running, Hears(r)
    PROVE  Spread'
<1> DEFINE p == Head(inbox[r])
           v == packets[p].of
<1>1. /\ r \in Relays /\ inbox[r] # << >> /\ inbox' = [inbox EXCEPT ![r] = Tail(@)]
      /\ said' = said /\ Heard(said, packets, r, p)
  BY OnMeshtasticEffect, RelayAssumption DEF TypeOK
<1>2. PICK new : Handles(r, p, new)
  BY OnMeshtasticEffect
<1>3. /\ \A e \in DOMAIN events : events[e].of # v
      /\ \A t \in tasks : t.ev.of # v
  BY <1>1, TakenIsFresh
<1>4. /\ tasks' = tasks \cup new
      /\ \A t \in new : t \in TaskRecord /\ t.ev.of = v /\ RoomChannel[r][t.room] \in Int
  BY <1>1, <1>2, RelayAssumption DEF Handles, Started, TaskGood, TaskRecord
<1>5. \A t, w \in new : RoomChannel[r][t.room] = RoomChannel[r][w.room]
  BY <1>2 DEF Handles
<1>6. said[v].on = r
  BY <1>1 DEF Heard
<1>7. \/ events' = events
      \/ /\ new = {} /\ DOMAIN events = 1..Len(events) /\ DOMAIN events' = 1..(Len(events) + 1)
         /\ Len(events) \in Nat /\ events'[Len(events) + 1] \in EventRecord
         /\ events'[Len(events) + 1].of = v /\ \A e \in DOMAIN events : events'[e] = events[e]
  <2>1. CASE events' # events
    <3>1. new = {} /\ \E ev \in EventRecord : events' = Append(events, ev) /\ ev.of = v
      BY <1>2, <2>1 DEF Handles
    <3> HIDE DEF v
    <3> QED BY <3>1, AppendIs DEF TypeOK
  <2> QED BY <2>1
<1> HIDE DEF p, v
<1>0. said' = said
  BY <1>1
<1> SUFFICES ASSUME NEW u \in DOMAIN said, said[u].on \in Relays
             PROVE  \E c \in Int : /\ \A t \in tasks' : t.ev.of = u => RoomChannel[said[u].on][t.room] = c
                                   /\ \A e \in DOMAIN events' : events'[e].of = u => RoomChannel[said[u].on][events'[e].room] = c
  BY <1>0 DEF Spread
<1>8. CASE u # v
  <2>1. PICK c \in Int : /\ \A t \in tasks : t.ev.of = u => RoomChannel[said[u].on][t.room] = c
                         /\ \A e \in DOMAIN events : events[e].of = u => RoomChannel[said[u].on][events[e].room] = c
    BY DEF Spread
  <2>2. \A t \in tasks' : t.ev.of = u => RoomChannel[said[u].on][t.room] = c
    BY <1>4, <1>8, <2>1
  <2>3. \A e \in DOMAIN events' : events'[e].of = u => RoomChannel[said[u].on][events'[e].room] = c
    BY <1>7, <1>8, <2>1
  <2> QED BY <2>2, <2>3
<1>9. CASE u = v /\ events' = events
  <2>1. \A e \in DOMAIN events' : events'[e].of # u
    BY <1>3, <1>9
  <2>2. CASE new = {}
    BY <1>3, <1>4, <1>9, <2>1, <2>2
  <2>3. CASE new # {}
    <3>1. PICK w \in new : TRUE
      BY <2>3
    <3>2. RoomChannel[r][w.room] \in Int /\ \A t \in tasks' : t.ev.of = u => RoomChannel[r][t.room] = RoomChannel[r][w.room]
      BY <1>3, <1>4, <1>5, <1>9
    <3> QED BY <1>6, <1>9, <2>1, <3>2
  <2> QED BY <2>2, <2>3
<1>10. CASE u = v /\ events' # events
  <2> DEFINE n == Len(events) + 1
             c == RoomChannel[r][events'[n].room]
  <2>1. \A t \in tasks' : t.ev.of # u
    BY <1>3, <1>4, <1>7, <1>10
  <2>2. \A e \in DOMAIN events' : events'[e].of = u => e = n
    BY <1>3, <1>7, <1>10
  <2>3. c \in Int
    BY <1>1, <1>7, <1>10, RelayAssumption DEF EventRecord
  <2>4. \A e \in DOMAIN events' : events'[e].of = u => RoomChannel[r][events'[e].room] = c
    BY <2>2
  <2> HIDE DEF c, n
  <2> QED BY <1>6, <1>10, <2>1, <2>3, <2>4
<1> QED BY <1>8, <1>9, <1>10

\* A coroutine makes its event where it is under way to.
LEMMA RunsSpreads ==
    ASSUME TypeOK, Linked, Spread, NEW t \in tasks, Runs(t)
    PROVE  Spread'
<1>1. said' = said /\ Grown(said, said') /\ Grown(events, events')
  BY RunsEffect DEF Runs
<1>2. \A u \in tasks' : \E w \in tasks : w.ev.of = u.ev.of /\ w.room = u.room
  BY DEF Runs, Follows
<1>3. t.ev.room = t.room
  BY TaskTypes DEF TaskGood
<1>4. \A e \in DOMAIN events' : \/ e \in DOMAIN events /\ events'[e] = events[e]
                                \/ \E w \in tasks : w.ev.of = events'[e].of /\ w.room = events'[e].room
  BY <1>1, <1>3, RunsEffect DEF Grown
<1> QED BY <1>1, <1>2, <1>4, SpreadStep

\* A new utterance has no copy but its own.
LEMMA MeshSaysSpreads ==
    ASSUME TypeOK, Linked, Spread, NEW r \in running, NEW m \in MeshText,
           NEW kind \in {"text", "reply", "reaction"},
           NEW q \in DOMAIN packets \cup {None}, MeshSays(r, m, kind, q)
    PROVE  Spread'
<1>1. PICK s \in Uttered : said' = Append(said, s) /\ UNCHANGED <<events, tasks>>
  BY MeshSaysEffect
<1>2. Grown(said, said')
  BY <1>1, AppendGrows DEF TypeOK
<1>3. /\ \A t \in tasks' : t.ev.of \in DOMAIN said
      /\ \A e \in DOMAIN events' : events'[e].of \in DOMAIN said
  BY <1>1, OfSaid
<1>4. \A t \in tasks' : \E w \in tasks : w.ev.of = t.ev.of /\ w.room = t.room
  BY <1>1
<1> QED BY <1>1, <1>2, <1>3, <1>4, SpreadStep

\* So it is in a room.
LEMMA RoomSaysSpreads ==
    ASSUME TypeOK, Linked, Spread, NEW room \in Rooms, NEW text \in STRING,
           NEW kind \in {"text", "reply", "reaction"},
           NEW x \in DOMAIN events \cup {None}, RoomSays(room, text, kind, x)
    PROVE  Spread'
<1>1. PICK s \in Uttered, v \in EventRecord :
        /\ said' = Append(said, s) /\ s.on = room
        /\ events' = Append(events, v) /\ v.of = Len(said) + 1
        /\ tasks' = tasks
  BY RoomSaysEffect
<1>2. /\ DOMAIN said = 1..Len(said) /\ DOMAIN said' = 1..(Len(said) + 1) /\ Len(said) \in Nat
      /\ said'[Len(said) + 1] = s /\ Grown(said, said')
  BY <1>1, AppendIs, AppendGrows DEF TypeOK
<1>3. /\ DOMAIN events = 1..Len(events) /\ DOMAIN events' = 1..(Len(events) + 1) /\ Len(events) \in Nat
      /\ events'[Len(events) + 1] = v /\ \A e \in DOMAIN events : events'[e] = events[e]
  BY <1>1, AppendIs DEF TypeOK
<1>4. \A u \in DOMAIN said' : u \in DOMAIN said \/ said'[u].on \notin Relays
  BY <1>1, <1>2, RelayAssumption
<1>5. \A e \in DOMAIN events' : (e \in DOMAIN events /\ events'[e] = events[e]) \/ events'[e].of \notin DOMAIN said
  BY <1>1, <1>2, <1>3
<1>6. \A t \in tasks' : \E w \in tasks : w.ev.of = t.ev.of /\ w.room = t.room
  BY <1>1
<1> QED BY <1>2, <1>4, <1>5, <1>6, SpreadStep

\* A relay never meets two events of one utterance that are not its own.
LEMMA ForeignIsOne ==
    ASSUME OneSharedRoom, TypeOK, Linked, Fresh, Spread, NEW r \in Relays,
           NEW e \in DOMAIN events, NEW f \in DOMAIN events, events[e].of = events[f].of,
           Foreign(events, r, e), Foreign(events, r, f)
    PROVE  e = f
<1> DEFINE u == events[e].of
<1>1. /\ events[e] \in EventRecord /\ events[f] \in EventRecord
      /\ EventGood(said, events, events[e]) /\ EventGood(said, events, events[f])
  BY Members DEF Linked
<1>2. u \in DOMAIN said /\ events[e].room \in Rooms /\ events[f].room \in Rooms
  BY <1>1 DEF EventGood, EventRecord
<1>3. CASE said[u].on \in Rooms
  <2>1. events[e].by = User /\ events[f].by = User
    BY <1>1, <1>3, RelayAssumption DEF EventGood, EventRecord
  <2>2. events[e].room = said[u].on /\ events[f].room = said[u].on
    BY <1>1, <2>1 DEF EventGood
  <2> QED BY <2>2 DEF Fresh
<1>4. CASE said[u].on \notin Rooms
  <2> DEFINE q == said[u].on
  <2>1. /\ events[e].by = q /\ events[f].by = q /\ q \in Relays
        /\ Serves(q, events[e].room) /\ Serves(q, events[f].room)
    BY <1>1, <1>2, <1>4 DEF EventGood, EventRecord
  <2>2. q # r /\ Serves(r, events[e].room) /\ Serves(r, events[f].room)
    BY <2>1 DEF Foreign
  <2>3. RoomChannel[q][events[e].room] = RoomChannel[q][events[f].room]
    BY <1>2, <2>1 DEF Spread
  <2> HIDE DEF q
  <2>4. events[e].room = events[f].room
    BY <1>2, <2>1, <2>2, <2>3 DEF OneSharedRoom
  <2> QED BY <2>4 DEF Fresh
<1> QED BY <1>3, <1>4

\* A queued message is of a foreign event that was read.
LEMMA QueuedIs ==
    ASSUME TypeOK, Linked, Once, NEW r \in Relays, NEW i \in DOMAIN queue[r]
    PROVE  /\ queue[r][i].ev \in DOMAIN events /\ queue[r][i].ev \in 1..seen[r] /\ Foreign(events, r, queue[r][i].ev)
<1>1. MessageGood(said, packets, events, r, queue[r][i])
  BY DEF Linked
<1>2. queue[r][i].ev \in DOMAIN events /\ Foreign(events, r, queue[r][i].ev)
  BY <1>1 DEF MessageGood, Foreign
<1>3. queue[r][i].ev \in Nat /\ queue[r][i].ev # 0 /\ queue[r][i].ev <= seen[r] /\ seen[r] \in Nat
  BY <1>2, Members DEF Once, TypeOK, None
<1> QED BY <1>2, <1>3

\* Events that were read are there.
LEMMA ReadIs ==
    ASSUME TypeOK, Once, NEW r \in Relays, NEW e \in 1..seen[r]
    PROVE  e \in DOMAIN events
<1>1. seen[r] \in Nat /\ seen[r] <= Len(events) /\ DOMAIN events = 1..Len(events) /\ Len(events) \in Nat
  BY Members DEF Once, TypeOK
<1> QED BY <1>1

\* A step that neither reads nor queues nor transmits.
LEMMA OnceStep ==
    ASSUME TypeOK, Linked, Once, TypeOK', UNCHANGED <<packets, seen, queue>>,
           Grown(said, said'), Grown(events, events')
    PROVE  Once'
<1>1. ASSUME NEW r \in Relays PROVE seen[r] <= Len(events')
  <2>1. seen[r] \in Nat /\ seen[r] <= Len(events) /\ DOMAIN events = 1..Len(events) /\ Len(events) \in Nat
    BY Members DEF Once, TypeOK
  <2>2. DOMAIN events' = 1..Len(events') /\ Len(events') \in Nat
    BY DEF TypeOK
  <2>3. seen[r] = 0 \/ seen[r] \in DOMAIN events'
    BY <2>1 DEF Grown
  <2> QED BY <2>1, <2>2, <2>3
<1>2. ASSUME NEW p \in DOMAIN packets
      PROVE  Carried(said', events', seen[packets[p].mesh], queue[packets[p].mesh], packets[p])
  <2> DEFINE r == packets[p].mesh
  <2>1. r \in Relays /\ packets[p].of \in DOMAIN said
    BY Members DEF PacketRecord, Linked, PacketGood
  <2>2. said'[packets[p].of] = said[packets[p].of]
    BY <2>1 DEF Grown
  <2>3. \A i \in DOMAIN queue[r] : events'[queue[r][i].ev] = events[queue[r][i].ev]
    BY <2>1, QueuedIs DEF Grown
  <2>4. \A e \in 1..seen[r] : events'[e] = events[e]
    BY <2>1, ReadIs DEF Grown
  <2>5. Carried(said, events, seen[r], queue[r], packets[p])
    BY DEF Once
  <2> QED BY <2>2, <2>3, <2>4, <2>5 DEF Carried, Foreign
<1> QED BY <1>1, <1>2 DEF Once

\* A new packet of the mesh is of a new utterance.
LEMMA MeshSaysOnce ==
    ASSUME TypeOK, Linked, Once, NEW r \in running, NEW m \in MeshText,
           NEW kind \in {"text", "reply", "reaction"},
           NEW q \in DOMAIN packets \cup {None}, MeshSays(r, m, kind, q)
    PROVE  Once'
<1>1. PICK s \in Uttered, v \in PacketRecord :
        /\ said' = Append(said, s) /\ s.on = r
        /\ packets' = Append(packets, v) /\ v.mesh = r /\ v.of = Len(said) + 1
        /\ UNCHANGED <<events, seen, queue>>
  BY MeshSaysEffect
<1>2. /\ DOMAIN said = 1..Len(said) /\ Len(said) \in Nat /\ said'[Len(said) + 1] = s
      /\ \A u \in DOMAIN said : said'[u] = said[u]
  BY <1>1, AppendIs DEF TypeOK
<1>3. /\ DOMAIN packets = 1..Len(packets) /\ DOMAIN packets' = 1..(Len(packets) + 1) /\ Len(packets) \in Nat
      /\ packets'[Len(packets) + 1] = v /\ \A p \in DOMAIN packets : packets'[p] = packets[p]
  BY <1>1, AppendIs DEF TypeOK
<1>4. \A p \in DOMAIN packets : packets[p].of \in DOMAIN said
  BY DEF Linked, PacketGood
<1>5. \A p \in DOMAIN packets' : \/ p \in DOMAIN packets /\ packets'[p] = packets[p]
                                 \/ p = Len(packets) + 1 /\ packets'[p] = v
  BY <1>3
<1>6. Len(said) + 1 \notin DOMAIN said
  BY <1>2
<1>7. ASSUME NEW p \in DOMAIN packets'
      PROVE  Carried(said', events, seen[packets'[p].mesh], queue[packets'[p].mesh], packets'[p])
  <2>1. CASE p \in DOMAIN packets /\ packets'[p] = packets[p]
    <3>1. Carried(said, events, seen[packets[p].mesh], queue[packets[p].mesh], packets[p])
      BY <2>1 DEF Once
    <3>2. said'[packets[p].of] = said[packets[p].of]
      BY <1>2, <1>4, <2>1
    <3> QED BY <2>1, <3>1, <3>2 DEF Carried
  <2>2. CASE packets'[p] = v
    BY <1>1, <1>2, <2>2 DEF Carried
  <2> QED BY <1>5, <2>1, <2>2
<1>8. ASSUME NEW p \in DOMAIN packets', NEW x \in DOMAIN packets',
             packets'[p].of = packets'[x].of, packets'[p].mesh = packets'[x].mesh
      PROVE  p = x
  BY <1>1, <1>4, <1>5, <1>6, <1>8 DEF Once
<1> QED BY <1>1, <1>7, <1>8 DEF Once

\* on_room_message() reads the next event, which is not of an utterance that is
\* queued or on the mesh already.
LEMMA OnRoomOnce ==
    ASSUME OneSharedRoom, TypeOK, Linked, Fresh, Spread, Once, NEW r \in running,
           NEW replied \in BOOLEAN, NEW ok \in BOOLEAN, NEW handled \in BOOLEAN,
           OnRoomMessage(r, replied, ok, handled)
    PROVE  Once'
<1> DEFINE n == seen[r] + 1
<1>1. /\ n \in DOMAIN events
      /\ seen' = [seen EXCEPT ![r] = n]
      /\ \/ queue' = queue
         \/ \E m \in MessageRecord : /\ queue' = [queue EXCEPT ![r] = Append(@, m)]
                                     /\ m.ev = n
                                     /\ MessageGood(said, packets, events, r, m)
      /\ UNCHANGED <<said, packets, events>>
  BY OnRoomEffect
<1>2. r \in Relays /\ queue[r] \in Seq(MessageRecord) /\ seen[r] \in Nat
  BY RelayAssumption DEF TypeOK
<1>3. seen'[r] = n /\ \A x \in Relays : x # r => seen'[x] = seen[x]
  BY <1>1, <1>2 DEF TypeOK
<1>4. /\ \A x \in Relays : x # r => queue'[x] = queue[x]
      /\ \A i \in DOMAIN queue'[r] : \/ i \in DOMAIN queue[r] /\ queue'[r][i] = queue[r][i]
                                     \/ /\ i = Len(queue[r]) + 1 /\ queue'[r][i].ev = n
                                        /\ Foreign(events, r, n) /\ queue' # queue
  <2>1. CASE queue' = queue
    BY <1>2, <2>1
  <2>2. CASE queue' # queue
    <3>1. PICK m \in MessageRecord : /\ queue' = [queue EXCEPT ![r] = Append(@, m)]
                                     /\ m.ev = n
                                     /\ MessageGood(said, packets, events, r, m)
      BY <1>1, <2>2
    <3>2. queue'[r] = Append(queue[r], m) /\ \A x \in Relays : x # r => queue'[x] = queue[x]
      BY <1>2, <3>1 DEF TypeOK
    <3>3. /\ DOMAIN queue'[r] = 1..(Len(queue[r]) + 1) /\ DOMAIN queue[r] = 1..Len(queue[r]) /\ Len(queue[r]) \in Nat
          /\ \A i \in DOMAIN queue[r] : queue'[r][i] = queue[r][i]
          /\ queue'[r][Len(queue[r]) + 1] = m
      BY <1>2, <3>2, AppendIs
    <3>4. Foreign(events, r, n)
      BY <3>1 DEF MessageGood, Foreign
    <3>5. \A i \in DOMAIN queue'[r] : i \in DOMAIN queue[r] \/ i = Len(queue[r]) + 1
      BY <3>3
    <3> QED BY <2>2, <3>1, <3>2, <3>3, <3>4, <3>5
  <2> QED BY <2>1, <2>2
<1>5. \A x \in Relays : seen[x] \in Nat /\ seen'[x] \in Nat /\ seen[x] <= seen'[x] /\ seen'[x] <= Len(events')
  <2> SUFFICES ASSUME NEW x \in Relays PROVE seen[x] \in Nat /\ seen'[x] \in Nat /\ seen[x] <= seen'[x] /\ seen'[x] <= Len(events')
    OBVIOUS
  <2>1. seen[x] \in Nat /\ seen[x] <= Len(events) /\ n <= Len(events)
    BY <1>1, Members DEF Once, TypeOK
  <2> QED BY <1>1, <1>2, <1>3, <2>1
<1>6. ASSUME NEW x \in Relays, NEW i \in DOMAIN queue'[x] PROVE queue'[x][i].ev <= seen'[x]
  <2>1. CASE i \in DOMAIN queue[x] /\ queue'[x][i] = queue[x][i]
    <3>1. queue[x][i].ev \in 1..seen[x]
      BY <2>1, QueuedIs
    <3>2. seen[x] \in Nat /\ seen'[x] \in Nat /\ seen[x] <= seen'[x]
      BY <1>5
    <3> QED BY <2>1, <3>1, <3>2
  <2>2. CASE x = r /\ queue'[x][i].ev = n
    BY <1>2, <1>3, <2>2
  <2> QED BY <1>4, <2>1, <2>2
<1>7. \A i \in DOMAIN queue[r] : queue[r][i].ev # n
  BY <1>2, QueuedIs
<1>8. ASSUME NEW x \in Relays, NEW i \in DOMAIN queue'[x], NEW j \in DOMAIN queue'[x],
             queue'[x][i].ev = queue'[x][j].ev
      PROVE  i = j
  <2>1. CASE x # r
    BY <1>4, <1>8, <2>1 DEF Once
  <2>2. CASE x = r
    BY <1>2, <1>4, <1>7, <1>8, <2>2 DEF Once
  <2> QED BY <2>1, <2>2
<1>9. ASSUME NEW p \in DOMAIN packets
      PROVE  Carried(said, events, seen'[packets[p].mesh], queue'[packets[p].mesh], packets[p])
  <2> DEFINE x == packets[p].mesh
  <2> SUFFICES ASSUME said[packets[p].of].on # x
               PROVE  /\ \E e \in 1..seen'[x] : events[e].of = packets[p].of /\ Foreign(events, x, e)
                      /\ \A i \in DOMAIN queue'[x] : events[queue'[x][i].ev].of # packets[p].of
    BY DEF Carried
  <2>1. x \in Relays
    BY Members DEF PacketRecord
  <2>0. Carried(said, events, seen[x], queue[x], packets[p])
    BY DEF Once
  <2>2. PICK e \in 1..seen[x] : events[e].of = packets[p].of /\ Foreign(events, x, e)
    BY <2>0 DEF Carried
  <2>3. \A i \in DOMAIN queue[x] : events[queue[x][i].ev].of # packets[p].of
    BY <2>0 DEF Carried
  <2>4. e \in DOMAIN events /\ e \in 1..seen'[x]
    BY <1>1, <1>2, <1>3, <1>5, <2>1, <2>2, ReadIs
  <2> HIDE DEF x
  <2>5. ASSUME NEW i \in DOMAIN queue'[x] PROVE events[queue'[x][i].ev].of # packets[p].of
    <3>1. CASE i \in DOMAIN queue[x] /\ queue'[x][i] = queue[x][i]
      BY <2>3, <3>1
    <3>2. CASE x = r /\ queue'[x][i].ev = n /\ Foreign(events, r, n)
      <4>1. n # e
        BY <1>2, <2>2, <3>2
      <4>2. events[n].of # events[e].of
        BY <1>1, <1>2, <2>2, <2>4, <3>2, <4>1, ForeignIsOne
      <4> QED BY <2>2, <3>2, <4>2
    <3> QED BY <1>4, <2>1, <3>1, <3>2
  <2> QED BY <2>2, <2>4, <2>5
<1> HIDE DEF n
<1>10. \A p, q \in DOMAIN packets' :
         packets'[p].of = packets'[q].of /\ packets'[p].mesh = packets'[q].mesh => p = q
  BY <1>1 DEF Once
<1> QED BY <1>1, <1>5, <1>6, <1>8, <1>9, <1>10 DEF Once

\* The message that is transmitted was the only one of its utterance, and no packet
\* of the mesh was.
LEMMA TransmitOnce ==
    ASSUME OneSharedRoom, TypeOK, Linked, Fresh, Spread, Once, NEW r \in running, Transmit(r)
    PROVE  Once'
<1> DEFINE m == Head(queue[r])
<1>1. /\ queue[r] # << >> /\ m = queue[r][1] /\ 1 \in DOMAIN queue[r]
      /\ queue' = [queue EXCEPT ![r] = Tail(@)]
      /\ MessageGood(said, packets, events, r, m)
      /\ UNCHANGED <<said, events, seen>>
  BY TransmitEffect
<1>2. PICK v \in PacketRecord : packets' = Append(packets, v) /\ v.mesh = r /\ v.of = events[m.ev].of
  BY TransmitEffect
<1>3. r \in Relays /\ queue[r] \in Seq(MessageRecord)
  BY RelayAssumption DEF TypeOK
<1>4. said[v.of].on # r
  BY <1>1, <1>2, <1>3, TransmittedIsForeign
<1>5. m.ev \in DOMAIN events /\ m.ev \in 1..seen[r] /\ Foreign(events, r, m.ev)
  BY <1>1, <1>3, QueuedIs
<1> HIDE DEF m
<1>6. /\ DOMAIN queue[r] = 1..Len(queue[r]) /\ DOMAIN Tail(queue[r]) = 1..(Len(queue[r]) - 1)
      /\ Len(queue[r]) \in Nat
      /\ \A i \in DOMAIN Tail(queue[r]) : i + 1 \in DOMAIN queue[r] /\ Tail(queue[r])[i] = queue[r][i + 1]
  BY <1>1, <1>3, TailIs
<1>7. queue'[r] = Tail(queue[r]) /\ \A x \in Relays : x # r => queue'[x] = queue[x]
  BY <1>1, <1>3 DEF TypeOK
<1>8. \A i \in DOMAIN queue'[r] : /\ i \in Int /\ i + 1 # 1
                                  /\ i + 1 \in DOMAIN queue[r] /\ queue'[r][i] = queue[r][i + 1]
  BY <1>6, <1>7
<1>9. \A x \in Relays : \A i \in DOMAIN queue'[x] : \E j \in DOMAIN queue[x] : queue'[x][i] = queue[x][j]
  BY <1>7, <1>8
<1>10. \A x \in Relays : \A i \in DOMAIN queue'[x] : queue'[x][i].ev <= seen[x]
  BY <1>9 DEF Once
<1>11. ASSUME NEW x \in Relays, NEW i \in DOMAIN queue'[x], NEW j \in DOMAIN queue'[x],
              queue'[x][i].ev = queue'[x][j].ev
       PROVE  i = j
  <2>1. CASE x # r
    BY <1>7, <1>11, <2>1 DEF Once
  <2>2. CASE x = r
    <3>1. i + 1 = j + 1
      BY <1>3, <1>8, <1>11, <2>2 DEF Once
    <3> QED BY <1>8, <2>2, <3>1
  <2> QED BY <2>1, <2>2
<1>12. ASSUME NEW i \in DOMAIN queue'[r] PROVE events[queue'[r][i].ev].of # v.of
  <2>1. i + 1 \in DOMAIN queue[r] /\ queue'[r][i] = queue[r][i + 1] /\ i + 1 # 1
    BY <1>8
  <2>2. queue[r][i + 1].ev # m.ev
    BY <1>1, <1>3, <2>1 DEF Once
  <2>3. queue[r][i + 1].ev \in DOMAIN events /\ Foreign(events, r, queue[r][i + 1].ev)
    BY <1>3, <2>1, QueuedIs
  <2>4. events[queue[r][i + 1].ev].of # events[m.ev].of
    BY <1>3, <1>5, <2>2, <2>3, ForeignIsOne
  <2> QED BY <1>2, <2>1, <2>4
<1>13. Carried(said, events, seen[r], queue'[r], v)
  BY <1>2, <1>5, <1>12 DEF Carried
<1>14. /\ DOMAIN packets = 1..Len(packets) /\ DOMAIN packets' = 1..(Len(packets) + 1) /\ Len(packets) \in Nat
       /\ packets'[Len(packets) + 1] = v /\ \A p \in DOMAIN packets : packets'[p] = packets[p]
  BY <1>2, AppendIs DEF TypeOK
<1>15. \A p \in DOMAIN packets' : \/ p \in DOMAIN packets /\ packets'[p] = packets[p]
                                  \/ p = Len(packets) + 1 /\ packets'[p] = v
  BY <1>14
<1>16. ASSUME NEW p \in DOMAIN packets'
       PROVE  Carried(said, events, seen[packets'[p].mesh], queue'[packets'[p].mesh], packets'[p])
  <2>1. CASE p \in DOMAIN packets /\ packets'[p] = packets[p]
    <3> DEFINE x == packets[p].mesh
    <3>1. Carried(said, events, seen[x], queue[x], packets[p]) /\ x \in Relays
      BY <2>1, Members DEF Once, PacketRecord
    <3>2. \A i \in DOMAIN queue'[x] : \E j \in DOMAIN queue[x] : queue'[x][i] = queue[x][j]
      BY <1>9, <3>1
    <3> HIDE DEF x
    <3>3. Carried(said, events, seen[x], queue'[x], packets[p])
      BY <3>1, <3>2 DEF Carried
    <3> QED BY <2>1, <3>3 DEF x
  <2>2. CASE packets'[p] = v
    BY <1>2, <1>13, <2>2
  <2> QED BY <1>15, <2>1, <2>2
<1>17. \A p \in DOMAIN packets : packets[p].mesh = r => packets[p].of # v.of
  <2> SUFFICES ASSUME NEW p \in DOMAIN packets, packets[p].mesh = r, packets[p].of = v.of PROVE FALSE
    OBVIOUS
  <2>1. Carried(said, events, seen[r], queue[r], packets[p])
    BY DEF Once
  <2> QED BY <1>1, <1>2, <1>4, <2>1 DEF Carried
<1>18. ASSUME NEW p \in DOMAIN packets', NEW x \in DOMAIN packets',
              packets'[p].of = packets'[x].of, packets'[p].mesh = packets'[x].mesh
       PROVE  p = x
  BY <1>2, <1>15, <1>17, <1>18 DEF Once
<1> QED BY <1>1, <1>10, <1>11, <1>16, <1>18 DEF Once

-----------------------------------------------------------------------------
(* The invariant with the hypothesis on the deployment.                    *)

EchoInv == RelayInv /\ Spread /\ Once

\* At the start there is nothing to go round.
LEMMA InitEcho == Init => EchoInv
<1> SUFFICES ASSUME Init PROVE Spread /\ Once
  BY InitRelay DEF EchoInv
<1>1. /\ said = << >> /\ packets = << >> /\ events = << >>
      /\ \A r \in Relays : queue[r] = << >> /\ seen[r] = 0
  BY DEF Init
<1> QED BY <1>1 DEF Spread, Once

\* A step that makes no copy.
LEMMA SpreadFrame ==
    ASSUME Spread, UNCHANGED <<said, events, tasks>>
    PROVE  Spread'
BY DEF Spread

\* Somebody says something.
LEMMA SpeakOnce == EchoInv /\ RelayInv' /\ Speak => Spread' /\ Once'
<1> SUFFICES ASSUME EchoInv, RelayInv', Speak PROVE Spread' /\ Once' OBVIOUS
<1>1. TypeOK /\ Linked /\ Spread /\ Once /\ TypeOK'
  BY DEF EchoInv, RelayInv
<1>2. MeshTexts[Len(said) + 1] \subseteq MeshText /\ RoomTexts[Len(said) + 1] \subseteq STRING
  BY <1>1, TextsAre DEF Speak
<1>3. ASSUME NEW r \in running, NEW m \in MeshText, NEW kind \in {"text", "reply", "reaction"},
             NEW q \in DOMAIN packets \cup {None}, MeshSays(r, m, kind, q)
      PROVE  Spread' /\ Once'
  BY <1>1, <1>3, MeshSaysSpreads, MeshSaysOnce
<1>4. ASSUME NEW room \in Rooms, NEW text \in STRING, NEW kind \in {"text", "reply", "reaction"},
             NEW e \in DOMAIN events \cup {None}, RoomSays(room, text, kind, e)
      PROVE  Spread' /\ Once'
  <2>1. PICK s \in Uttered, v \in EventRecord :
          said' = Append(said, s) /\ events' = Append(events, v) /\ UNCHANGED <<packets, seen, queue>>
    BY <1>1, <1>4, RoomSaysEffect
  <2>2. Grown(said, said') /\ Grown(events, events')
    BY <1>1, <2>1, AppendGrows DEF TypeOK
  <2> QED BY <1>1, <1>4, <2>1, <2>2, RoomSaysSpreads, OnceStep
<1>5. \/ \E r \in running : \E m \in MeshTexts[Len(said) + 1] :
           \E kind \in {"text", "reply", "reaction"}, q \in DOMAIN packets \cup {None} : MeshSays(r, m, kind, q)
      \/ \E room \in Rooms : \E text \in RoomTexts[Len(said) + 1] :
           \E kind \in {"text", "reply", "reaction"}, e \in DOMAIN events \cup {None} : RoomSays(room, text, kind, e)
  BY Zenon DEF Speak
<1> QED BY <1>2, <1>3, <1>4, <1>5

\* A relay makes a step.
LEMMA RelayOnce ==
    ASSUME OneSharedRoom, EchoInv, RelayInv', NEW r \in running, Relay(r)
    PROVE  Spread' /\ Once'
<1>1. TypeOK /\ Linked /\ Fresh /\ Spread /\ Once /\ TypeOK'
  BY DEF EchoInv, RelayInv
<1>2. ASSUME Hears(r) PROVE Spread' /\ Once'
  <2>1. UNCHANGED <<said, packets, seen, queue>> /\ \E new : Handles(r, Head(inbox[r]), new)
    BY <1>1, <1>2, OnMeshtasticEffect
  <2>2. Grown(events, events')
    <3>1. CASE events' # events
      <4>1. PICK v \in EventRecord : events' = Append(events, v)
        BY <2>1, <3>1 DEF Handles
      <4> QED BY <1>1, <4>1, AppendGrows DEF TypeOK
    <3> QED BY <3>1 DEF Grown
  <2>3. Grown(said, said')
    BY <2>1 DEF Grown
  <2> QED BY <1>1, <1>2, <2>1, <2>2, <2>3, OnMeshtasticSpreads, OnceStep
<1>3. ASSUME NEW replied \in BOOLEAN, NEW ok \in BOOLEAN, NEW handled \in BOOLEAN,
             OnRoomMessage(r, replied, ok, handled)
      PROVE  Spread' /\ Once'
  <2>1. UNCHANGED <<said, events, tasks>>
    BY <1>3 DEF OnRoomMessage
  <2> QED BY <1>1, <1>3, <2>1, SpreadFrame, OnRoomOnce
<1>4. ASSUME Transmit(r) PROVE Spread' /\ Once'
  <2>1. UNCHANGED <<said, events, tasks>>
    BY <1>4 DEF Transmit
  <2> QED BY <1>1, <1>4, <2>1, SpreadFrame, TransmitOnce
<1>5. ASSUME StoreOutbound(r) \/ PruneOutbound(r) PROVE Spread' /\ Once'
  <2>1. UNCHANGED <<said, packets, events, seen, tasks, queue>>
    BY <1>5 DEF StoreOutbound, PruneOutbound
  <2>2. Grown(said, said') /\ Grown(events, events')
    BY <2>1 DEF Grown
  <2> QED BY <1>1, <2>1, <2>2, SpreadFrame, OnceStep
<1> QED BY <1>2, <1>3, <1>4, <1>5 DEF Relay, Hears

\* A coroutine makes a step.
LEMMA RelayingOnce == EchoInv /\ RelayInv' /\ Relaying => Spread' /\ Once'
<1> SUFFICES ASSUME EchoInv, RelayInv', NEW t \in tasks,
                    \/ SendAnswered(t) \/ SendTimesOut(t) \/ SendFails(t) \/ GivesUp(t)
                    \/ StoreInbound(t) \/ PruneInbound(t)
             PROVE  Spread' /\ Once'
  BY DEF Relaying
<1>1. TypeOK /\ Linked /\ RowsDiffer /\ Spread /\ Once /\ TypeOK'
  BY DEF EchoInv, RelayInv
<1>2. Runs(t)
  BY <1>1, TaskLinks
<1>3. UNCHANGED <<packets, seen, queue>> /\ Grown(said, said') /\ Grown(events, events')
  BY <1>1, <1>2, RunsEffect DEF Runs
<1> QED BY <1>1, <1>2, <1>3, RunsSpreads, OnceStep

\* Every step keeps the invariant.
LEMMA EchoInductive ==
    ASSUME OneSharedRoom
    PROVE  EchoInv /\ [Next]_vars => EchoInv'
<1> SUFFICES ASSUME EchoInv, [Next]_vars PROVE EchoInv' OBVIOUS
<1>1. RelayInv'
  BY RelayInductive DEF EchoInv
<1>2. CASE UNCHANGED vars
  <2>1. TypeOK /\ Linked /\ Spread /\ Once /\ TypeOK'
    BY <1>1 DEF EchoInv, RelayInv
  <2>2. UNCHANGED <<said, packets, events, seen, tasks, queue>>
    BY <1>2 DEF vars
  <2>3. Grown(said, said') /\ Grown(events, events')
    BY <2>2 DEF Grown
  <2> QED BY <1>1, <2>1, <2>2, <2>3, SpreadFrame, OnceStep DEF EchoInv
<1>3. CASE Next
  BY <1>1, <1>3, SpeakOnce, RelayOnce, RelayingOnce DEF Next, EchoInv
<1> QED BY <1>2, <1>3

\* A set without two different elements.
LEMMA AtMostOne ==
    ASSUME NEW S, \A x, y \in S : x = y
    PROVE  Cardinality(S) <= 1
<1>1. CASE S = {}
  BY <1>1, FS_EmptySet
<1>2. CASE S # {}
  <2>1. PICK x \in S : TRUE
    BY <1>2
  <2>2. S = {x}
    BY <2>1
  <2> QED BY <2>2, FS_Singleton
<1> QED BY <1>1, <1>2

\* In every deployment an utterance is at most once in a room.
OncePerRoom == \A u \in DOMAIN said, room \in Rooms : Cardinality(EventsOf(u, room)) <= 1

\* matrix_relay() repeats a send with the same transaction id and on_room_message()
\* never answers with an event: no room sees an utterance twice.
THEOREM NoRoomSeesTwice == Spec => []OncePerRoom
<1>1. RelayInv => OncePerRoom
  <2> SUFFICES ASSUME RelayInv, NEW u \in DOMAIN said, NEW room \in Rooms PROVE Cardinality(EventsOf(u, room)) <= 1
    BY DEF OncePerRoom
  <2>1. \A x, y \in EventsOf(u, room) : x = y
    BY DEF RelayInv, Fresh, EventsOf
  <2> QED BY <2>1, AtMostOne
<1> QED BY <1>1, RelayInvariant, PTL

\* Where no relay bridges one channel into two rooms that another one serves too,
\* nothing goes round: an utterance is at most once in each room and at most once on
\* each mesh, although relays read each other's events and sends are repeated.
THEOREM NothingEchoes ==
    ASSUME OneSharedRoom
    PROVE  Spec => []NoEcho
<1>1. EchoInv /\ [Next]_vars => EchoInv'
  BY EchoInductive
<1>2. EchoInv => NoEcho
  <2> SUFFICES ASSUME EchoInv, NEW u \in DOMAIN said
               PROVE  /\ \A room \in Rooms : Cardinality(EventsOf(u, room)) <= 1
                      /\ \A r \in Relays : Cardinality(PacketsOf(u, r)) <= 1
    BY DEF NoEcho
  <2>1. \A room \in Rooms : \A x, y \in EventsOf(u, room) : x = y
    BY DEF EchoInv, RelayInv, Fresh, EventsOf
  <2>2. \A r \in Relays : \A x, y \in PacketsOf(u, r) : x = y
    BY DEF EchoInv, Once, PacketsOf
  <2> QED BY <2>1, <2>2, AtMostOne
<1> QED BY <1>1, <1>2, InitEcho, PTL DEF Spec
=============================================================================
