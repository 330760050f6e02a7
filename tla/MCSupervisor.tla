---------------------------- MODULE MCSupervisor ----------------------------
(* Supervisor on small instances, one per kind of operating system.        *)
EXTENDS Supervisor, TLC

Request(profile, pre, tun) ==
    [profile |-> profile, pre |-> pre, tun |-> tun, config |-> TRUE,
     sudo |-> TRUE, restart |-> TRUE]

\* Linux: an elevated TUN pair that restarts on crash, and a plain core that
\* does not.
LinuxRequests ==
    {Request("a", TRUE, TRUE),
     [Request("b", FALSE, FALSE) EXCEPT !.restart = FALSE]}

\* Windows: a pair in a job, a service tunnel, and one without a config path.
WindowsRequests ==
    {Request("a", TRUE, FALSE), Request("b", FALSE, TRUE),
     [Request("c", FALSE, TRUE) EXCEPT !.config = FALSE]}

Symmetry == Permutations(Proc) \cup Permutations(Clients)
=============================================================================
