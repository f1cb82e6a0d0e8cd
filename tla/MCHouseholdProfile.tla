------------------------- MODULE MCHouseholdProfile -------------------------
(* Instances of HouseholdProfile for TLC.                                  *)
EXTENDS HouseholdProfile, TLC

\* Nothing tells one writer from another, and the run checks only safety.
Interchangeable == Permutations(Writers)
=============================================================================
