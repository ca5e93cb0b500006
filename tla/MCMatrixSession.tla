--------------------------- MODULE MCMatrixSession ---------------------------
(* One room, one login besides the first session, one identity made elsewhere *)
(* and one restart.  The configurations: an access token without encryption,  *)
(* and a password with it.                                                    *)
EXTENDS MatrixSession

MCConfigs == {[token |-> TRUE, password |-> FALSE, e2ee |-> FALSE],
              [token |-> FALSE, password |-> TRUE, e2ee |-> TRUE]}
=============================================================================
