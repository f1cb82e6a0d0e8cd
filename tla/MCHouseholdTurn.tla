-------------------------- MODULE MCHouseholdTurn --------------------------
(* Instances of HouseholdTurn for TLC: one routine of the owner's, which   *)
(* turns a remote on and then a light.                                     *)
EXTENDS HouseholdTurn

CONSTANTS remoteOn, lightOn

MCRoutines == {<<remoteOn, lightOn>>}

=============================================================================
