------------------------------ MODULE MCBleLink ------------------------------
(* Each library call of a disconnect is tried once.  Calls that take a timeout *)
(* end by themselves, so only the library with connect() hangs there; a late   *)
(* interface without the configured address is one that reached another device *)
(* with the first library, and any one with the second.                        *)
EXTENDS BleLink

MCRetries == [phase \in {"disconnect", "client", "close"} |-> IF phase = "client" THEN 0 ELSE 1]

MCLibraries == {[autoReconnect |-> TRUE, timeoutArg |-> FALSE, addressed |-> TRUE],
                [autoReconnect |-> FALSE, timeoutArg |-> TRUE, addressed |-> FALSE]}
=============================================================================
