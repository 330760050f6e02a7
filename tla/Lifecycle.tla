------------------------------ MODULE Lifecycle ------------------------------
(***************************************************************************)
(* The commands of the desktop shell that change the configuration or the   *)
(* running core: ipc/commands/{runtime,lifecycle,sysproxy,tun,app}.rs, the  *)
(* configuration coordinator (config_mutation.rs), the settings' side       *)
(* effects (settings_save.rs), the runtime manager (voya-app runtime.rs)    *)
(* and the handler of native TUN exits (lib.rs).                           *)
(*                                                                         *)
(* A command is an async function on a multi-threaded runtime: every await  *)
(* and every call into the outside world is a step, and any number of       *)
(* commands are in progress at once.  Only the mutation lock orders them,   *)
(* and it is not held while the core restarts.  The core is the supervisor  *)
(* as its callers see it: a start or a stop is one step (Supervisor models  *)
(* what happens inside it), and so is an apply of the proxy (SystemProxy).  *)
(***************************************************************************)
EXTENDS Naturals

CONSTANTS
    Callers,        \* commands in progress at the same time
    Profiles,       \* profile ids
    NoCaller, None, \* nobody; no plan, or no configuration
    NativeTun,      \* TUN runs in a native provider, not in a process
    Faults,         \* what may fail, a subset of AllFaults
    MaxCommands     \* bound: commands in a behaviour

\* "commit": begin, validation and commit; "effect": an OS registration;
\* "proxy": an apply or restore; "prepare": profile lookup and generation;
\* "missing": the core's executable; "stop", "spawn": the supervisor's start
\* and stop; "crash": the core or the provider.
AllFaults == {"commit", "effect", "proxy", "prepare", "missing", "stop",
              "spawn", "crash"}

ASSUME LifecycleAssumption ==
    /\ Profiles # {}
    /\ NoCaller \notin Callers
    /\ Faults \subseteq AllFaults
    /\ NativeTun \in BOOLEAN
    /\ MaxCommands \in Nat

VARIABLES
    shared,     \* SharedAppConfig
    stored,     \* the configuration in the database
    lock,       \* the holder of mutation_lock
    registered, \* the OS runs the application at login
    proxied,    \* the OS proxy points at the application
    files,      \* what the main and the pre configuration files hold
    core,       \* the supervisor's running core
    shown,      \* the core state the window was told last
    sink,       \* the task of TauriSupervisorEventSink::native_tun_exited
    call,       \* [Callers -> the command in progress]
    budget,     \* commands left
    \* History, read by no action:
    overlap,        \* two commands, or a command and the sink, overlapped
    survived,       \* the running core outlived a connect that failed
    silent,         \* a restart after a crash failed
    uncompensated,  \* a side effect was not undone, or undone too late
    stopped         \* a disconnect succeeded and nobody connected since

settings == <<shared, stored, lock, registered>>
runtime == <<files, core>>
outside == <<proxied, shown>>
history == <<overlap, survived, silent, uncompensated, stopped>>
vars == <<settings, runtime, outside, sink, call, budget, history>>

\* AppConfig: the active profile, TUN, the proxy mode and one setting that is
\* registered with the OS (autostart stands for the hotkeys, too).
Configs == [profile : Profiles, tun : BOOLEAN, proxy : BOOLEAN,
            auto : BOOLEAN]

\* What a configuration file is generated from.
Plans == [profile : Profiles, tun : BOOLEAN]

Plan(config) == [profile |-> config.profile, tun |-> config.tun]

\* A process TUN runs in a pre-socks core of its own.
HasPre(plan) == plan.tun /\ ~NativeTun

PreOf(plan) == IF HasPre(plan) THEN plan ELSE None

IsNative(plan) == plan.tun /\ NativeTun

NoFiles == [main |-> None, pre |-> None]

Down == [up |-> FALSE, request |-> None, main |-> None, pre |-> None]

\* The operations, and the fields of the configuration each one writes.
Fields == [setTun |-> {"tun"}, setMode |-> {"proxy"},
           setProfile |-> {"profile"},
           saveSettings |-> {"tun", "proxy", "auto"}]

Changes == DOMAIN Fields

Operations == Changes \cup {"connect", "disconnect"}

Draft(op, base, target) ==
    [f \in DOMAIN base |-> IF f \in Fields[op] THEN target[f] ELSE base[f]]

\* Steps with the mutation lock, and without it.
LockedSteps == {"effect", "applyDraft", "commit", "publish"}

ConnectSteps == {"check", "recheck", "write", "writePre", "start", "cleanup",
                 "started", "applyProxy", "failed", "restoreNative"}

DisconnectSteps == {"stop", "removeFiles", "restore", "stopped",
                    "stopFailed"}

Steps == LockedSteps \cup ConnectSteps \cup DisconnectSteps
            \cup {"begin", "undo", "refresh"}

\* target: the arguments of a change; config, original: the local variables.
Calls == [pc : {"idle"} \cup Steps, op : Operations,
          target : Configs \cup {None}, config : Configs \cup {None},
          original : Configs \cup {None}, missing : BOOLEAN]

NoCall == [pc |-> "idle", op |-> "connect", target |-> None, config |-> None,
           original |-> None, missing |-> FALSE]

\* The lock is held at the locked steps only, and a step finds the local
\* variables that it reads.
CallShape(c) ==
    LET k == call[c] IN
    /\ lock = c <=> k.pc \in LockedSteps
    /\ k.pc = "begin" => k.target \in Configs
    /\ k.pc \in LockedSteps \cup {"undo"} => {k.config, k.original} \subseteq Configs
    /\ k.pc \in LockedSteps \cup {"begin", "undo"} => k.op \in Changes
    /\ k.pc \in ConnectSteps => k.config \in Configs

TypeOK ==
    /\ {shared, stored} \subseteq Configs
    /\ lock \in Callers \cup {NoCaller}
    /\ {registered, proxied} \subseteq BOOLEAN
    /\ files \in [main : Plans \cup {None}, pre : Plans \cup {None}]
    /\ core \in [up : BOOLEAN, request : Plans \cup {None},
                 main : Plans \cup {None}, pre : Plans \cup {None}]
    /\ shown \in {"connecting", "connected", "disconnecting", "disconnected"}
    /\ sink \in {"idle", "emit", "restore"}
    /\ call \in [Callers -> Calls]
    /\ \A c \in Callers : CallShape(c)
    /\ budget \in Nat
    /\ {overlap, survived, silent, uncompensated, stopped} \subseteq BOOLEAN

\* A fresh start of the application: nothing runs, nothing is registered.
Init ==
    /\ shared \in {k \in Configs : ~k.auto}
    /\ stored = shared
    /\ lock = NoCaller
    /\ registered = shared.auto
    /\ proxied = FALSE
    /\ files = NoFiles
    /\ core = Down
    /\ shown = "disconnected"
    /\ sink = "idle"
    /\ call = [c \in Callers |-> NoCall]
    /\ budget = MaxCommands
    /\ overlap = FALSE
    /\ survived = FALSE
    /\ silent = FALSE
    /\ uncompensated = FALSE
    /\ stopped = FALSE

-----------------------------------------------------------------------------
(* Helpers.                                                                *)

Fault(kind) == kind \in Faults

Busy(c) == call[c].pc # "idle"

Resting == sink = "idle" /\ \A c \in Callers : ~Busy(c)

Goto(c, pc) == call' = [call EXCEPT ![c].pc = pc]

Return(c) == call' = [call EXCEPT ![c] = NoCall]

\* runtime_system_proxy_config: a native TUN forces the proxy off, a process
\* TUN without a proxy mode falls back to the local proxy.
ProxyFor(config) ==
    IF config.tun THEN ~NativeTun ELSE config.proxy

\* apply_system_proxy; one that fails leaves either setting.
Apply(config) ==
    \/ proxied' = ProxyFor(config)
    \/ Fault("proxy") /\ proxied' \in BOOLEAN

\* restore_system_proxy.
RestoreProxy ==
    \/ proxied' = FALSE
    \/ Fault("proxy") /\ UNCHANGED proxied

StatusState == IF core.up THEN "connected" ELSE "disconnected"

-----------------------------------------------------------------------------
(* Commands arrive.                                                        *)

\* connect_active_profile and restart_core are the same code: they read the
\* configuration and announce that they connect.
Connect(c) ==
    /\ call' = [call EXCEPT ![c] = [NoCall EXCEPT !.pc = "write",
                                                  !.config = shared]]
    /\ shown' = "connecting"
    /\ stopped' = FALSE

Disconnect(c) ==
    /\ call' = [call EXCEPT ![c] = [NoCall EXCEPT !.pc = "stop",
                                                  !.op = "disconnect"]]
    /\ shown' = "disconnecting"
    /\ UNCHANGED stopped

Change(c, op, target) ==
    /\ \A f \in DOMAIN target \ Fields[op] : target[f] = shared[f]
    /\ call' = [call EXCEPT ![c] = [NoCall EXCEPT !.pc = "begin", !.op = op,
                                                  !.target = target]]
    /\ UNCHANGED <<shown, stopped>>

Receive(c) ==
    /\ ~Busy(c)
    /\ budget > 0
    /\ budget' = budget - 1
    /\ \/ Connect(c)
       \/ Disconnect(c)
       \/ \E op \in Changes, target \in Configs : Change(c, op, target)
    /\ overlap' = (overlap \/ ~Resting)
    /\ UNCHANGED <<settings, proxied, runtime, sink, survived, silent,
                   uncompensated>>

-----------------------------------------------------------------------------
(* Changing the configuration.                                             *)

\* Variant: the shared configuration is edited in place.
Mut_BeginInPlace(c) ==
    LET op == call[c].op IN
    /\ call[c].pc = "begin"
    /\ lock = NoCaller
    /\ lock' = c
    /\ shared' = Draft(op, shared, call[c].target)
    /\ call' = [call EXCEPT
          ![c].pc = CASE op = "setMode" -> "applyDraft"
                      [] op = "saveSettings" -> "effect"
                      [] OTHER -> "commit",
          ![c].config = Draft(op, shared, call[c].target),
          ![c].original = shared]
    /\ UNCHANGED <<stored, registered, outside, runtime, sink, budget, history>>

\* Variant: no lock is taken.
Mut_BeginUnlocked(c) ==
    LET op == call[c].op IN
    /\ call[c].pc = "begin"
    /\ lock' = c
    /\ call' = [call EXCEPT
          ![c].pc = CASE op = "setMode" -> "applyDraft"
                      [] op = "saveSettings" -> "effect"
                      [] OTHER -> "commit",
          ![c].config = Draft(op, shared, call[c].target),
          ![c].original = shared]
    /\ UNCHANGED <<shared, stored, registered, outside, runtime, sink, budget,
                   history>>

\* begin: lock, copy the shared configuration, open a unit of work; then the
\* command edits its copy.  A database error or a refused value releases the
\* lock.
Begin(c) ==
    LET op == call[c].op IN
    /\ call[c].pc = "begin"
    /\ lock = NoCaller
    /\ lock' = c
    /\ call' = [call EXCEPT
          ![c].pc = CASE op = "setMode" -> "applyDraft"
                      [] op = "saveSettings" -> "effect"
                      [] OTHER -> "commit",
          ![c].config = Draft(op, shared, call[c].target),
          ![c].original = shared]
    /\ uncompensated' = (uncompensated
          \/ \E d \in Callers : call[d].pc = "undo" /\ call[d].op = "saveSettings")
    /\ UNCHANGED <<shared, stored, registered, outside, runtime, sink, budget,
                   overlap, survived, silent, stopped>>

BeginFails(c) ==
    /\ Fault("commit")
    /\ call[c].pc = "begin"
    /\ lock = NoCaller
    /\ Return(c)
    /\ UNCHANGED <<settings, outside, runtime, sink, budget, history>>

TouchesEffect(c) == call[c].config.auto # call[c].original.auto

\* apply_settings_side_effects: one that fails is undone at once, under the
\* lock, and the command gives up.
ApplyEffect(c) ==
    /\ call[c].pc = "effect"
    /\ registered' = IF TouchesEffect(c) THEN call[c].config.auto
                                         ELSE registered
    /\ Goto(c, "commit")
    /\ UNCHANGED <<shared, stored, lock, outside, runtime, sink, budget,
                   history>>

EffectFails(c) ==
    /\ Fault("effect")
    /\ call[c].pc = "effect"
    /\ TouchesEffect(c)
    /\ \/ registered' = call[c].original.auto /\ UNCHANGED uncompensated
       \/ registered' = call[c].config.auto /\ uncompensated' = TRUE
    /\ lock' = NoCaller
    /\ Return(c)
    /\ UNCHANGED <<shared, stored, outside, runtime, sink, budget, overlap,
                   survived, silent, stopped>>

\* set_system_proxy_mode applies the new mode before it is stored.
ApplyDraft(c) ==
    /\ call[c].pc = "applyDraft"
    /\ proxied' = ProxyFor(call[c].config)
    /\ Goto(c, "commit")
    /\ UNCHANGED <<settings, shown, runtime, sink, budget, history>>

DraftFails(c) ==
    /\ Fault("proxy")
    /\ call[c].pc = "applyDraft"
    /\ proxied' \in BOOLEAN
    /\ lock' = NoCaller
    /\ Return(c)
    /\ UNCHANGED <<shared, stored, registered, shown, runtime, sink, budget,
                   history>>

\* commit: the database first, then the shared copy.
Commit(c) ==
    /\ call[c].pc = "commit"
    /\ stored' = call[c].config
    /\ Goto(c, "publish")
    /\ UNCHANGED <<shared, lock, registered, outside, runtime, sink, budget,
                   history>>

\* Variant: a failed commit keeps the lock.
Mut_CommitFailsLocked(c) ==
    /\ Fault("commit")
    /\ call[c].pc = "commit"
    /\ IF call[c].op \in {"setMode", "saveSettings"} THEN Goto(c, "undo")
                                                    ELSE Return(c)
    /\ UNCHANGED <<settings, outside, runtime, sink, budget, history>>

\* Variant: a failed commit is not compensated.
Mut_CommitFailsQuietly(c) ==
    /\ Fault("commit")
    /\ call[c].pc = "commit"
    /\ lock' = NoCaller
    /\ Return(c)
    /\ UNCHANGED <<shared, stored, registered, outside, runtime, sink, budget,
                   history>>

\* The guard is consumed by a failed commit as well: the lock is free before
\* the compensation runs.
CommitFails(c) ==
    /\ Fault("commit")
    /\ call[c].pc = "commit"
    /\ lock' = NoCaller
    /\ IF call[c].op \in {"setMode", "saveSettings"} THEN Goto(c, "undo")
                                                    ELSE Return(c)
    /\ UNCHANGED <<shared, stored, registered, outside, runtime, sink, budget,
                   history>>

\* Variant: a settings save that changes TUN reapplies the proxy only.
Mut_Afterwards(c) ==
    CASE call[c].op = "setTun" -> "check"
      [] call[c].op = "saveSettings" -> "recheck"
      [] OTHER -> "idle"

\* saved_config_requires_runtime_restart and settings_runtime_action.
Afterwards(c) ==
    LET k == call[c].config  o == call[c].original IN
    CASE call[c].op = "setTun" -> "check"
      [] call[c].op = "saveSettings" /\ k.tun # o.tun -> "check"
      [] call[c].op = "saveSettings" /\ k.tun = o.tun /\ k.proxy # o.proxy
            -> "recheck"
      [] OTHER -> "idle"

Publish(c) ==
    /\ call[c].pc = "publish"
    /\ shared' = call[c].config
    /\ lock' = NoCaller
    /\ IF Afterwards(c) = "idle" THEN Return(c) ELSE Goto(c, Afterwards(c))
    /\ UNCHANGED <<stored, registered, outside, runtime, sink, budget,
                   history>>

\* commit_with_compensation, compensate_settings_side_effects.
Undo(c) ==
    /\ call[c].pc = "undo"
    /\ IF call[c].op = "setMode"
       THEN Apply(call[c].original) /\ UNCHANGED <<registered, uncompensated>>
       ELSE /\ UNCHANGED proxied
            /\ \/ /\ registered' = IF TouchesEffect(c)
                                    THEN call[c].original.auto
                                    ELSE registered
                  /\ UNCHANGED uncompensated
               \/ /\ Fault("effect") /\ TouchesEffect(c)
                  /\ uncompensated' = TRUE
                  /\ UNCHANGED registered
    /\ Return(c)
    /\ UNCHANGED <<shared, stored, lock, shown, runtime, sink, budget,
                   overlap, survived, silent, stopped>>

-----------------------------------------------------------------------------
(* RuntimeManager::connect, after a command or a change.                   *)

\* restart_if_connected_after_config_change asks for the status first.
Check(c) ==
    /\ call[c].pc = "check"
    /\ IF core.up
       THEN shown' = "connecting" /\ Goto(c, "write")
       ELSE UNCHANGED shown /\ Return(c)
    /\ UNCHANGED <<settings, proxied, runtime, sink, budget, history>>

\* apply_system_proxy_if_connected_after_config_change.
Recheck(c) ==
    /\ call[c].pc = "recheck"
    /\ IF core.up THEN Goto(c, "applyProxy") ELSE Return(c)
    /\ UNCHANGED <<settings, outside, runtime, sink, budget, history>>

\* A connect that fails leaves the running core alone, if there is one.
Fail(c, pc, missing) ==
    /\ call' = [call EXCEPT ![c].pc = pc, ![c].missing = missing]
    /\ survived' = core.up
    /\ UNCHANGED <<overlap, silent, uncompensated, stopped>>

WriteMain(c) ==
    /\ call[c].pc = "write"
    /\ files' = [files EXCEPT !.main = Plan(call[c].config)]
    /\ Goto(c, "writePre")
    /\ UNCHANGED <<settings, outside, core, sink, budget, history>>

\* The profile is gone, or its configuration is invalid.
PrepareFails(c) ==
    /\ Fault("prepare")
    /\ call[c].pc = "write"
    /\ Fail(c, "failed", FALSE)
    /\ UNCHANGED <<settings, outside, runtime, sink, budget>>

\* Variant: a pre configuration that exists is not written again.
Mut_WritePre(c) ==
    /\ call[c].pc = "writePre"
    /\ files' = [files EXCEPT !.pre = IF @ = None THEN PreOf(Plan(call[c].config))
                                                 ELSE @]
    /\ Goto(c, "start")
    /\ UNCHANGED <<settings, outside, core, sink, budget, history>>

\* The main process can be described; write or remove the pre configuration.
WritePre(c) ==
    /\ call[c].pc = "writePre"
    /\ files' = [files EXCEPT !.pre = PreOf(Plan(call[c].config))]
    /\ Goto(c, "start")
    /\ UNCHANGED <<settings, outside, core, sink, budget, history>>

\* No executable: the main configuration has been replaced already.
CoreMissing(c) ==
    /\ Fault("missing")
    /\ call[c].pc = "writePre"
    /\ Fail(c, "failed", TRUE)
    /\ UNCHANGED <<settings, outside, runtime, sink, budget>>

\* The supervisor stops what runs and starts the request, whose processes
\* read the files as they are now.
Start(c) ==
    LET request == Plan(call[c].config) IN
    /\ call[c].pc = "start"
    /\ core' = [up |-> TRUE, request |-> request, main |-> files.main,
                pre |-> IF HasPre(request) THEN files.pre ELSE None]
    /\ Goto(c, "started")
    /\ survived' = FALSE
    /\ silent' = FALSE
    /\ UNCHANGED <<settings, outside, files, sink, budget, overlap,
                   uncompensated, stopped>>

\* The old core cannot be stopped, or the new one cannot be started.
StartStopFails(c) ==
    /\ Fault("stop")
    /\ call[c].pc = "start"
    /\ core.up
    /\ Fail(c, "cleanup", FALSE)
    /\ UNCHANGED <<settings, outside, runtime, sink, budget>>

StartSpawnFails(c) ==
    /\ Fault("spawn")
    /\ call[c].pc = "start"
    /\ core' = Down
    /\ Goto(c, "cleanup")
    /\ survived' = FALSE
    /\ silent' = FALSE
    /\ UNCHANGED <<settings, outside, files, sink, budget, overlap,
                   uncompensated, stopped>>

Cleanup(c) ==
    /\ call[c].pc = "cleanup"
    /\ files' = NoFiles
    /\ Goto(c, "failed")
    /\ UNCHANGED <<settings, outside, core, sink, budget, history>>

Started(c) ==
    /\ call[c].pc = "started"
    /\ shown' = "connected"
    /\ Goto(c, "applyProxy")
    /\ UNCHANGED <<settings, proxied, runtime, sink, budget, history>>

\* A proxy that cannot be applied is a warning.  The answer of a connect
\* carries the snapshot of the start to the window.
ApplyProxy(c) ==
    /\ call[c].pc = "applyProxy"
    /\ Apply(call[c].config)
    /\ shown' = IF call[c].op = "connect" THEN "connected" ELSE shown
    /\ Return(c)
    /\ UNCHANGED <<settings, runtime, sink, budget, history>>

Failed(c) ==
    /\ call[c].pc = "failed"
    /\ shown' = "disconnected"
    /\ Goto(c, "restoreNative")
    /\ UNCHANGED <<settings, proxied, runtime, sink, budget, history>>

\* restore_system_proxy_after_native_tun_failure; then only a command of the
\* window refreshes what it shows.
RestoreNative(c) ==
    /\ call[c].pc = "restoreNative"
    /\ IF IsNative(Plan(call[c].config)) THEN RestoreProxy
                                        ELSE UNCHANGED proxied
    /\ IF call[c].op = "connect" THEN Goto(c, "refresh") ELSE Return(c)
    /\ UNCHANGED <<settings, shown, runtime, sink, budget, history>>

\* refreshRuntimeState of the home screen.
Refresh(c) ==
    /\ call[c].pc = "refresh"
    /\ shown' = StatusState
    /\ Return(c)
    /\ UNCHANGED <<settings, proxied, runtime, sink, budget, history>>

\* switchActiveAndApply opens the missing-core dialog instead.
SkipRefresh(c) ==
    /\ call[c].pc = "refresh"
    /\ call[c].missing
    /\ Return(c)
    /\ UNCHANGED <<settings, outside, runtime, sink, budget, history>>

-----------------------------------------------------------------------------
(* disconnect_core.                                                        *)

OthersConnecting(c) ==
    \E d \in Callers \ {c} : Busy(d) /\ call[d].op = "connect"

Stop(c) ==
    /\ call[c].pc = "stop"
    /\ core' = Down
    /\ Goto(c, "removeFiles")
    /\ survived' = FALSE
    /\ silent' = FALSE
    /\ stopped' = ~OthersConnecting(c)
    /\ UNCHANGED <<settings, outside, files, sink, budget, overlap,
                   uncompensated>>

StopFails(c) ==
    /\ Fault("stop")
    /\ call[c].pc = "stop"
    /\ core.up
    /\ Goto(c, "stopFailed")
    /\ UNCHANGED <<settings, outside, runtime, sink, budget, history>>

RemoveFiles(c) ==
    /\ call[c].pc = "removeFiles"
    /\ files' = NoFiles
    /\ Goto(c, "restore")
    /\ UNCHANGED <<settings, outside, core, sink, budget, history>>

Restore(c) ==
    /\ call[c].pc = "restore"
    /\ RestoreProxy
    /\ Goto(c, "stopped")
    /\ UNCHANGED <<settings, shown, runtime, sink, budget, history>>

Stopped(c) ==
    /\ call[c].pc = "stopped"
    /\ shown' = "disconnected"
    /\ Return(c)
    /\ UNCHANGED <<settings, proxied, runtime, sink, budget, history>>

\* Variant: the window is not told that the stop failed.
Mut_StopFailed(c) ==
    /\ call[c].pc = "stopFailed"
    /\ shown' = "disconnected"
    /\ Return(c)
    /\ UNCHANGED <<settings, proxied, runtime, sink, budget, history>>

StopFailed(c) ==
    /\ call[c].pc = "stopFailed"
    /\ shown' = StatusState
    /\ Goto(c, "refresh")
    /\ UNCHANGED <<settings, proxied, runtime, sink, budget, history>>

-----------------------------------------------------------------------------
(* The core ends by itself.                                                *)

\* The supervisor starts the same request again, from the files as they are
\* now; nobody is told, and nobody is told of a restart that fails.
CoreCrashes ==
    /\ Fault("crash")
    /\ core.up
    /\ ~IsNative(core.request)
    /\ \/ /\ core' = [core EXCEPT !.main = files.main,
                          !.pre = IF HasPre(core.request) THEN files.pre
                                                           ELSE None]
          /\ UNCHANGED silent
       \/ /\ Fault("spawn")
          /\ core' = Down
          /\ silent' = TRUE
    /\ UNCHANGED <<settings, outside, files, sink, call, budget, overlap,
                   survived, uncompensated, stopped>>

\* Bound: one exit is handled before the provider dies again.
ProviderExits ==
    /\ Fault("crash")
    /\ core.up
    /\ IsNative(core.request)
    /\ sink = "idle"
    /\ core' = Down
    /\ sink' = "emit"
    /\ overlap' = (overlap \/ ~Resting)
    /\ UNCHANGED <<settings, outside, files, call, budget, survived, silent,
                   uncompensated, stopped>>

\* native_tun_exited: what it does depends on the configuration of now, not
\* on the one that ran.
SinkEmits ==
    /\ sink = "emit"
    /\ shown' = "disconnected"
    /\ sink' = IF IsNative(Plan(shared)) THEN "restore" ELSE "idle"
    /\ UNCHANGED <<settings, proxied, runtime, call, budget, history>>

SinkRestores ==
    /\ sink = "restore"
    /\ RestoreProxy
    /\ sink' = "idle"
    /\ UNCHANGED <<settings, shown, runtime, call, budget, history>>

-----------------------------------------------------------------------------
ChangeStep(c) ==
    \/ Begin(c) \/ BeginFails(c) \/ ApplyEffect(c) \/ EffectFails(c)
    \/ ApplyDraft(c) \/ DraftFails(c) \/ Commit(c) \/ CommitFails(c)
    \/ Publish(c) \/ Undo(c)

ConnectStep(c) ==
    \/ Check(c) \/ Recheck(c) \/ WriteMain(c) \/ PrepareFails(c)
    \/ WritePre(c) \/ CoreMissing(c) \/ Start(c) \/ StartStopFails(c)
    \/ StartSpawnFails(c) \/ Cleanup(c) \/ Started(c) \/ ApplyProxy(c)
    \/ Failed(c) \/ RestoreNative(c) \/ Refresh(c) \/ SkipRefresh(c)

DisconnectStep(c) ==
    \/ Stop(c) \/ StopFails(c) \/ RemoveFiles(c) \/ Restore(c)
    \/ Stopped(c) \/ StopFailed(c)

CallStep(c) == ChangeStep(c) \/ ConnectStep(c) \/ DisconnectStep(c)

SinkStep == SinkEmits \/ SinkRestores

Next ==
    \/ \E c \in Callers : Receive(c) \/ CallStep(c)
    \/ CoreCrashes \/ ProviderExits \/ SinkStep

Spec == Init /\ [][Next]_vars

\* The async runtime polls every task, and the mutation lock is fair.
Fairness == WF_vars(SinkStep) /\ \A c \in Callers : WF_vars(CallStep(c))

FairSpec == Spec /\ Fairness

-----------------------------------------------------------------------------
(* Properties.                                                             *)

\* The running configuration and the one a restart of the application would
\* load are the same whenever no change is in progress, whatever failed
\* (ConfigMutationGuard::commit).
SharedIsStored == lock = NoCaller => shared = stored

\* A change that becomes visible alters only the fields of the command that
\* makes it, relative to what is visible at that moment: of two changes in
\* progress none overwrites the other's (ConfigMutationCoordinator::begin
\* reads its copy under the lock).
NoLostUpdate ==
    [][ \A f \in {"profile", "tun", "proxy", "auto"} :
            shared'[f] # shared[f] =>
                \E c \in Callers : /\ lock = c
                                   /\ f \in Fields[call[c].op]
                                   /\ shared'[f] = call[c].target[f] ]_vars

\* What is registered with the OS is what is stored: a settings save that
\* fails at any step takes its registration back.  Left out are a
\* compensation that fails itself, and one that comes after another change
\* began (save_app_settings compensates without the lock).
RegisteredIsStored ==
    /\ lock = NoCaller
    /\ ~uncompensated
    /\ \A c \in Callers : call[c].pc # "undo"
    => registered = stored.auto

\* One command at a time: the running core runs the configuration it was
\* started for, also after it crashed and was started again from the files,
\* unless it outlived a connect that failed (RuntimeManager::connect writes
\* the files before the old core is stopped).
RunsItsRequest ==
    Resting /\ ~overlap /\ ~survived /\ core.up =>
        core.main = core.request /\ core.pre = PreOf(core.request)

\* One command at a time: the window shows what is the case, unless a restart
\* after a crash failed or the core outlived a connect that failed.
WindowIsRight ==
    Resting /\ ~overlap /\ ~silent /\ ~survived => shown = StatusState

\* One command at a time: saving the TUN setting, on either screen, takes
\* effect in the session that runs.
TunSettingTakesEffect ==
    Resting /\ ~overlap /\ ~survived /\ core.up =>
        core.request.tun = shared.tun

\* A command returns, whatever fails: the lock is handed on and no command
\* waits for another that waits for it.
CommandsReturn == \A c \in Callers : Busy(c) ~> ~Busy(c)

\* The release checklist: a disconnect stops the core, and it stays down until
\* a connect.  A change of the TUN setting that saw the core up before the
\* disconnect starts it again after it.
DisconnectStops == stopped => ~core.up

=============================================================================
