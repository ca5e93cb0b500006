-------------------------- MODULE MCMeshConnection --------------------------
(* Instances of MeshConnection for TLC. *)
EXTENDS MeshConnection, TLC

=============================================================================
