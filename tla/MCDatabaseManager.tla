------------------------- MODULE MCDatabaseManager -------------------------
(* Instances of DatabaseManager for TLC. *)
EXTENDS DatabaseManager, TLC

=============================================================================
