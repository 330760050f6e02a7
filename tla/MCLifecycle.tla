---------------------------- MODULE MCLifecycle ----------------------------
(* Lifecycle with two commands at a time, for TLC.                         *)
EXTENDS Lifecycle, TLC

Symmetry == Permutations(Callers) \cup Permutations(Profiles)
=============================================================================
