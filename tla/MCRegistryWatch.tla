--------------------------- MODULE MCRegistryWatch ---------------------------
(* Instances of RegistryWatch for TLC. *)
EXTENDS RegistryWatch
=============================================================================
