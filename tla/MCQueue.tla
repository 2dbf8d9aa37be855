------------------------------- MODULE MCQueue -------------------------------
(***************************************************************************)
(* Instances of Queue for TLC.                                             *)
(***************************************************************************)
EXTENDS Queue, TLC

\* Addresses are interchangeable.
Symmetric == Permutations(Entry)
=============================================================================
