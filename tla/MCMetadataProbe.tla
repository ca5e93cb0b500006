--------------------------- MODULE MCMetadataProbe ---------------------------
(* Three probes and two clients: a probe that hangs, its replacement, and one *)
(* that finds the executor degraded.                                          *)
EXTENDS MetadataProbe
=============================================================================
