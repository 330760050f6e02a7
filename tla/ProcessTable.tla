---------------------------- MODULE ProcessTable ----------------------------
(***************************************************************************)
(* What a process runner promises to the core supervisor: the abstract     *)
(* specification of the ProcessRunner trait of voya-platform.              *)
(*                                                                         *)
(* A process that was spawned is `managed' until one of two things takes   *)
(* it over, never both: the runner notices that it ended and raises an     *)
(* exit notice, or a stop call ends it silently.  ProcessRunner implements *)
(* this specification; Supervisor is built on its actions.                 *)
(***************************************************************************)
EXTENDS FiniteSets

CONSTANTS
    Proc,           \* identities of operating-system processes, never reused
    StopMayFail,    \* killing a running process can be refused by the system
    WaitMayFail     \* polling a process can fail (ProcessError::Wait)

VARIABLES
    fresh,          \* processes not spawned yet
    live,           \* processes the operating system is running
    managed,        \* processes whose end the runner still watches
    notices         \* processes whose end the runner has announced

vars == <<fresh, live, managed, notices>>

Init ==
    /\ fresh = Proc
    /\ live = {}
    /\ managed = {}
    /\ notices = {}

Spawn(p) ==
    /\ p \in fresh
    /\ fresh' = fresh \ {p}
    /\ live' = live \cup {p}
    /\ managed' = managed \cup {p}
    /\ UNCHANGED notices

\* The process ends by itself, or somebody else kills it.
Exit(p) ==
    /\ p \in live
    /\ live' = live \ {p}
    /\ UNCHANGED <<fresh, managed, notices>>

\* The runner finds the process ended (or cannot poll it) and announces it.
Reap(p) ==
    /\ p \in managed
    /\ p \in live => WaitMayFail
    /\ managed' = managed \ {p}
    /\ notices' = notices \cup {p}
    /\ UNCHANGED <<fresh, live>>

\* A stop call ends the process; its end is never announced.
Stop(p) ==
    /\ p \in managed
    /\ managed' = managed \ {p}
    /\ live' = live \ {p}
    /\ UNCHANGED <<fresh, notices>>

\* A stop call fails: the runner lets go of a process that still runs.
StopFails(p) ==
    /\ StopMayFail
    /\ p \in managed \cap live
    /\ managed' = managed \ {p}
    /\ UNCHANGED <<fresh, live, notices>>

Next ==
    \E p \in Proc :
        Spawn(p) \/ Exit(p) \/ Reap(p) \/ Stop(p) \/ StopFails(p)

Spec == Init /\ [][Next]_vars

TypeOK ==
    /\ fresh \subseteq Proc
    /\ live \subseteq Proc
    /\ managed \subseteq Proc
    /\ notices \subseteq Proc
=============================================================================
