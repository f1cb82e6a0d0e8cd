------------------------- MODULE MCRegistrySession -------------------------
(* Instances of RegistrySession for TLC.                                   *)
EXTENDS RegistrySession
=============================================================================
