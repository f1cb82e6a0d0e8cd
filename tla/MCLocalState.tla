---------------------------- MODULE MCLocalState ----------------------------
(* Instances of LocalState for TLC: tokens named for their issuers.        *)
EXTENDS LocalState

CONSTANTS home, cabin, homeToken, homeToken2, cabinToken

MCIssuer == [t \in Tokens |-> IF t = cabinToken THEN cabin ELSE home]
=============================================================================
