--------------------------- MODULE MCSystemProxy ---------------------------
(* SystemProxy on small instances, one per kind of operating system.       *)
EXTENDS SystemProxy, TLC

Symmetry == Permutations(Callers)
=============================================================================
