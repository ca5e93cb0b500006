------------------------- MODULE MCMessageMapSchema -------------------------
(* Instances of MessageMapSchema for TLC. *)
EXTENDS MessageMapSchema, TLC

=============================================================================
