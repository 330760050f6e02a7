---------------------------- MODULE TunnelService ----------------------------
(***************************************************************************)
(* The Windows tunnel service: bin/voyavpn-tunnel-service.rs.               *)
(*                                                                         *)
(* The service manager starts the process with the path of a configuration  *)
(* and sends it controls on a thread of its own; the service reports states  *)
(* and runs sing-box as its child.  A report may fail: then the service ends  *)
(* where it is.  The child is not killed when its handle is dropped.         *)
(***************************************************************************)
EXTENDS Naturals, FiniteSets

CONSTANT
    Configs         \* start arguments: [folder, file, inside, exe, checks]

VARIABLES
    config,         \* the configuration of this start
    servicePc,      \* "new", "pending", "run", "stopping", "ended"
    reported,       \* the last state the service manager was told
    stopRequested,  \* stop_tx has sent
    accepts,        \* controls_accepted has STOP and SHUTDOWN
    child           \* "none", "runs", "exited", "killed"

serviceVars == <<config, servicePc, reported, stopRequested, accepts, child>>

ServiceInit ==
    /\ config \in Configs
    /\ servicePc = "new"
    /\ reported = "none"
    /\ stopRequested = FALSE
    /\ accepts = FALSE
    /\ child = "none"

\* service_config_from_args: a path whose folder is binConfigs.
ConfigFromArgs(c) == c.folder = "binConfigs"

\* app_dir_from_config_path, is_path_inside, find_sing_box and check_config: the
\* file is there, inside the folder with links resolved, sing-box is installed
\* and accepts it.
Mut_PlanIsValid(c) == c.folder = "binConfigs" /\ c.file /\ c.exe
PlanIsValid(c) == c.folder = "binConfigs" /\ c.file /\ c.inside /\ c.exe /\ c.checks

\* set_service_status accepts a stop only while it says Running.
Reports(state) ==
    /\ reported' = state
    /\ accepts' = (state = "Running")

\* run_windows_service registers its handler and reports StartPending.
TunnelStarts ==
    /\ servicePc = "new"
    /\ \/ ConfigFromArgs(config) /\ Reports("StartPending") /\ servicePc' = "pending"
       \/ UNCHANGED <<reported, accepts>> /\ servicePc' = "ended"
    /\ UNCHANGED <<config, stopRequested, child>>

\* RuntimePlan::validate, spawn and the report that it runs.
TunnelRuns ==
    /\ servicePc = "pending"
    /\ \/ /\ PlanIsValid(config)
          /\ child' = "runs"
          /\ \/ Reports("Running") /\ servicePc' = "run"
             \/ UNCHANGED <<reported, accepts>> /\ servicePc' = "ended"
       \/ servicePc' = "ended" /\ UNCHANGED <<reported, accepts, child>>
    /\ UNCHANGED <<config, stopRequested>>

\* wait_for_child_or_stop; the result decides nothing but what is returned.
TunnelNoticesEnd ==
    /\ servicePc = "run"
    /\ stopRequested \/ child # "runs"
    /\ \/ Reports("StopPending") /\ servicePc' = "stopping"
       \/ UNCHANGED <<reported, accepts>> /\ servicePc' = "ended"
    /\ UNCHANGED <<config, stopRequested, child>>

\* stop_child, then the last report.
Mut_StopChild == IF child = "runs" /\ ~stopRequested THEN "killed" ELSE child
StopChild == IF child = "runs" THEN "killed" ELSE child
TunnelStops ==
    /\ servicePc = "stopping"
    /\ child' = StopChild
    /\ servicePc' = "ended"
    /\ Reports("Stopped") \/ UNCHANGED <<reported, accepts>>
    /\ UNCHANGED <<config, stopRequested>>

\* The manager sends a stop when the service accepts one; a shutdown may reach
\* the handler in any state.
ControlArrives(kind) ==
    /\ kind = "stop" => accepts
    /\ servicePc \in {"pending", "run", "stopping"}
    /\ stopRequested' = TRUE
    /\ UNCHANGED <<config, servicePc, reported, accepts, child>>

\* run_foreground and the service alike: sing-box ends by itself.
ChildExits ==
    /\ child = "runs"
    /\ child' = "exited"
    /\ UNCHANGED <<config, servicePc, reported, stopRequested, accepts>>

ServiceNext ==
    \/ TunnelStarts \/ TunnelRuns \/ TunnelNoticesEnd \/ TunnelStops
    \/ \E kind \in {"stop", "shutdown"} : ControlArrives(kind)
    \/ ChildExits

ServiceSpec == ServiceInit /\ [][ServiceNext]_serviceVars

\* A sing-box with the rights of the service runs no configuration from
\* elsewhere and none it refused; while the service runs one the manager can
\* stop it; and what was reported as stopped runs no more.
ServiceGuardsItsCore ==
    /\ child # "none" => config.inside /\ config.checks
    /\ (servicePc = "run" /\ child = "runs") => accepts
    /\ reported = "Stopped" => child \in {"exited", "killed"}
=============================================================================
