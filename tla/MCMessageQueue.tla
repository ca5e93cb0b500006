--------------------------- MODULE MCMessageQueue ---------------------------
(* Instances of MessageQueue for TLC. *)
EXTENDS MessageQueue, TLC

(* Messages without mapping_info are interchangeable.                       *)
MsgSymmetry == Permutations(Msgs)

=============================================================================
