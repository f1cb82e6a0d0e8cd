-------------------------- MODULE MCControlRuntime --------------------------
(* Instances of ControlRuntime for TLC: tokens named for their issuers.    *)
EXTENDS ControlRuntime

CONSTANTS home, cabin, homeToken, homeToken2, cabinToken

MCIssuer == [t \in Tokens |-> IF t = cabinToken THEN cabin ELSE home]

=============================================================================
