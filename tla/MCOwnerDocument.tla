-------------------------- MODULE MCOwnerDocument --------------------------
(* Instances of OwnerDocument for TLC.                                     *)
EXTENDS OwnerDocument, TLC

\* Nothing tells one writer from another, and the run checks only safety.
Interchangeable == Permutations(Writers)
=============================================================================
