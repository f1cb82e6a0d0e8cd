------------------------ MODULE MCRuntimeEnvironment ------------------------
(* Instances of RuntimeEnvironment for TLC: the first interpreter and the  *)
(* first operator have one provider, the others another.                   *)
EXTENDS RuntimeEnvironment

CONSTANTS i1, o1, mine, other

MCProviderOf == [t \in Threads |-> IF t \in {i1, o1} THEN mine ELSE other]
=============================================================================
