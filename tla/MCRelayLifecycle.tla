-------------------------- MODULE MCRelayLifecycle --------------------------
(* Two connects: one that is rolled back after it armed the drain and its     *)
(* successor, or a connect and a reconnect; two sync tasks, the first of      *)
(* which may fail.  One configuration wipes the message map, the other has    *)
(* the heartbeat and a health check that must not end.                        *)
EXTENDS RelayLifecycle

MCConfigs == {[wipe |-> b, continuous |-> ~b, heartbeat |-> ~b] : b \in BOOLEAN}
=============================================================================
