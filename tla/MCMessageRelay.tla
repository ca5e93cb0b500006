--------------------------- MODULE MCMessageRelay ---------------------------
(* Two meshes, A and B, share one room.  Channel 1 has no room.            *)
EXTENDS MessageRelay

Text(port, to, ch) == [port |-> port, to |-> to, ch |-> ch]

MCRoomChannel == [r \in Relays |-> [room \in Rooms |-> 0]]

MCMaxSaid == <<3, 2>>

MCMeshTexts ==
  <<{Text("text", "all", 0), Text("text", "relay", 0), Text("text", "all", 1), Text("text", "node", 0),
     Text("detection", "all", 0), Text("encrypted", "all", 0), Text("other", "all", 0)},
    {Text("text", "all", 0), Text("text", "relay", 0)},
    {Text("text", "all", 0)}>>

MCRoomTexts == <<{"plain", "name_bang"}, {"plain"}, {"plain"}>>

Base == [interactions |-> "section", reactions |-> TRUE, replies |-> TRUE, broadcast |-> TRUE,
         detection |-> TRUE, encrypted |-> "drop", chat |-> {}, disabled |-> {}, keep |-> 2,
         mention |-> FALSE, meshRelay |-> FALSE]

Legacy == [Base EXCEPT !.interactions = "legacy", !.detection = FALSE, !.encrypted = "bad",
                      !.chat = {"other", "detection", "unknown"}, !.mention = TRUE, !.keep = 0]

\* A relay that runs alone may also have the mesh_relay plugin, which takes every text.
MCConfigs == <<{Base, Legacy, [Base EXCEPT !.meshRelay = TRUE]}, {Base, Legacy}>>
=============================================================================
