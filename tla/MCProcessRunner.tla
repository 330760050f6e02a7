-------------------------- MODULE MCProcessRunner --------------------------
(* ProcessRunner on two children and two pids, for TLC.                    *)
EXTENDS ProcessRunner, TLC
=============================================================================
