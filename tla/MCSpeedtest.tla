---------------------------- MODULE MCSpeedtest ----------------------------
(* Speedtest with two overlapping jobs, for TLC.                           *)
EXTENDS Speedtest, TLC

Symmetry == Permutations(Jobs) \cup Permutations(Profiles)
=============================================================================
