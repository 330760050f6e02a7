----------------------------- MODULE ProxyRuntime -----------------------------
(***************************************************************************)
(* The live view of the running core: voya-app proxy_runtime.rs, the        *)
(* commands of ipc/commands/proxy.rs and the Clash client of voya-net.      *)
(*                                                                         *)
(* A monitor is two tasks, one for each websocket resource, that share a    *)
(* shutdown channel.  Stopping it aborts the tasks; a task that is being    *)
(* polled at that moment goes on until its next await.  The traffic mode    *)
(* is saved under the mutation lock and sent to the core without it; a core *)
(* that starts, and the settings window that saves, tell no core.           *)
(***************************************************************************)
EXTENDS Naturals, FiniteSets, Sequences

CONSTANTS
    Modes,          \* Rule, Global, Direct; ModeUnchanged is not sent
    ModeUnchanged,
    Setters,        \* calls of proxy_set_traffic_mode
    NoSetter,       \* the settings window
    NoCore,         \* the mode of no core
    MaxMonitors,    \* bound: monitors started
    MaxAttempt      \* bound: failed connects in a row that are told apart

ASSUME ProxyRuntimeBounds == MaxMonitors \in Nat /\ MaxAttempt \in Nat
ASSUME NoSetterIsNone == NoSetter \notin Setters

Resources == {"traffic", "connections"}
MonitorIds == 1 .. MaxMonitors
NoMonitor == 0

VARIABLES
    statePort,  \* the port of singbox_state_port2; 0 is none
    monitor,    \* the handle of the controller: [id, port]
    started,    \* monitors started so far
    stream,     \* [MonitorIds -> [Resources -> the task]]
    savedMode,  \* proxy_ui_item.traffic_mode
    coreMode,   \* the mode of the running core, or NoCore
    setter,     \* [Setters -> the call of proxy_set_traffic_mode]
    savedBy,    \* history: who changed the saved mode last
    overlap,    \* history: another call was on its way when it was committed
    newCore     \* history: a core started since the mode was committed or sent

monitorVars == <<statePort, monitor, started, stream>>
modeVars == <<savedMode, coreMode, setter, savedBy, overlap, newCore>>
proxyRuntimeVars == <<monitorVars, modeVars>>

NoTask == [pc |-> "done", aborted |-> FALSE, attempt |-> 0]
NewTask == [pc |-> "connecting", aborted |-> FALSE, attempt |-> 0]
NoHandle == [id |-> NoMonitor, port |-> 0]

ProxyRuntimeInit ==
    /\ statePort = 1
    /\ monitor = NoHandle
    /\ started = 0
    /\ stream = [m \in MonitorIds |-> [r \in Resources |-> NoTask]]
    /\ savedMode = ModeUnchanged
    /\ coreMode = NoCore
    /\ setter = [s \in Setters |-> [pc |-> "new", mode |-> ModeUnchanged]]
    /\ savedBy = NoSetter
    /\ overlap = FALSE
    /\ newCore = FALSE

-----------------------------------------------------------------------------
(* The monitor.                                                             *)

\* inbound_port: the state port is the local port plus its offset, and one
\* more while the TUN is enabled, cut to the range of a port.
StatePort(local, tun) ==
    LET port == local + 5 + (IF tun THEN 1 ELSE 0)
    IN  IF port > 65535 THEN 65535 ELSE port

\* shutdown.send(true), then abort: a task at an await is dropped there, one
\* that is polled goes on until it awaits.
Aborted(task) ==
    IF task.pc = "route" THEN [task EXCEPT !.aborted = TRUE]
    ELSE [task EXCEPT !.pc = "done"]

StopHandle ==
    IF monitor.id = NoMonitor THEN stream
    ELSE [stream EXCEPT ![monitor.id] =
             [r \in Resources |-> Aborted(stream[monitor.id][r])]]

\* A configuration change moves the port; the monitor is not told.
ChangeStatePort ==
    /\ statePort' \in {0, 1, 2} \ {statePort}
    /\ UNCHANGED <<monitor, started, stream, modeVars>>

StartWithoutPort ==
    /\ statePort = 0
    /\ stream' = StopHandle
    /\ monitor' = NoHandle
    /\ UNCHANGED <<statePort, started, modeVars>>

StartMonitor ==
    /\ statePort # 0
    /\ monitor.port # statePort
    /\ started < MaxMonitors
    /\ stream' = [StopHandle EXCEPT ![started + 1] =
                     [r \in Resources |-> NewTask]]
    /\ monitor' = [id |-> started + 1, port |-> statePort]
    /\ started' = started + 1
    /\ UNCHANGED <<statePort, modeVars>>

\* proxy_stop_monitor, and the exit of the application.
StopMonitor ==
    /\ monitor # NoHandle
    /\ stream' = StopHandle
    /\ monitor' = NoHandle
    /\ UNCHANGED <<statePort, started, modeVars>>

Reconnect(attempt) == IF attempt < MaxAttempt THEN attempt + 1 ELSE MaxAttempt

\* A connect that fails ends its task.
Mut_TaskSteps(t) ==
    IF t.pc = "connecting"
    THEN {[t EXCEPT !.pc = "open"], [t EXCEPT !.pc = "done"]}
    ELSE CASE t.pc = "open" -> {[t EXCEPT !.pc = "route"]}
           [] t.pc = "route" -> {[t EXCEPT !.pc = "open"]}
           [] OTHER -> {}

\* What a task does next.  A connect has a timeout and is not interrupted by
\* a shutdown; the selects are, in an order of their own.
TaskSteps(t) ==
    CASE t.pc = "connecting" ->
            {[t EXCEPT !.pc = "open"],
             [t EXCEPT !.pc = "sleep", !.attempt = Reconnect(t.attempt)]}
      [] t.pc = "open" ->
            {[t EXCEPT !.pc = "route", !.attempt = 0],
             [t EXCEPT !.pc = "sleep", !.attempt = Reconnect(t.attempt)]}
      [] t.pc = "sleep" -> {[t EXCEPT !.pc = "connecting"]}
      [] t.pc = "route" ->
            IF t.aborted THEN {t, [t EXCEPT !.pc = "done"]}
            ELSE {[t EXCEPT !.pc = "open"]}
      [] OTHER -> {}

MonitorStep(m, r) ==
    /\ \E t \in TaskSteps(stream[m][r]) : stream' = [stream EXCEPT ![m][r] = t]
    /\ UNCHANGED <<statePort, monitor, started, modeVars>>

\* sleep_or_shutdown waits for the delay of the attempt: the initial delay is
\* doubled per attempt up to the maximum, plus a jitter of at most a quarter.
ReconnectDelays(attempt, initial, max) ==
    LET shift == IF attempt > 16 THEN 16 ELSE attempt
        scaled == initial * 2 ^ shift
        base == IF scaled > max THEN max ELSE scaled
    IN  base .. base + base \div 4

-----------------------------------------------------------------------------
(* proxy_set_traffic_mode.                                                  *)

\* A call whose request may still reach the core.
OnItsWay(s) == setter[s].pc \in {"send", "lost"}

\* A commit that changes the mode; history only.
SavedAnew(s, mode) ==
    IF mode = savedMode THEN UNCHANGED <<savedBy, overlap, newCore>>
    ELSE savedBy' = s /\ overlap' = (\E o \in Setters : OnItsWay(o)) /\ newCore' = FALSE

\* The change is looked for after the mode was stored.
Mut_CommitMode(s, mode) ==
    /\ setter[s].pc = "new"
    /\ savedMode' = mode
    /\ setter' = [setter EXCEPT ![s] = [pc |-> "ok", mode |-> mode]]
    /\ SavedAnew(s, mode)
    /\ UNCHANGED <<monitorVars, coreMode>>

\* The commit: the calls are serialised by the mutation lock.  What is saved
\* already is not sent, whatever the core knows of it.
CommitMode(s, mode) ==
    /\ setter[s].pc = "new"
    /\ savedMode' = mode
    /\ LET send == mode # savedMode /\ mode # ModeUnchanged
       IN  setter' = [setter EXCEPT ![s] = [pc |-> IF send THEN "send" ELSE "ok",
                                            mode |-> mode]]
    /\ SavedAnew(s, mode)
    /\ UNCHANGED <<monitorVars, coreMode>>

CommitModeFails(s) ==
    /\ setter[s].pc = "new"
    /\ setter' = [setter EXCEPT ![s].pc = "failed"]
    /\ UNCHANGED <<monitorVars, savedMode, coreMode, savedBy, overlap, newCore>>

SendMode(s) ==
    /\ setter[s].pc = "send" /\ coreMode # NoCore
    /\ coreMode' = setter[s].mode
    /\ setter' = [setter EXCEPT ![s].pc = "ok"]
    /\ newCore' = FALSE
    /\ UNCHANGED <<monitorVars, savedMode, savedBy, overlap>>

\* The command reports "Proxy mode saved; runtime update failed", though the
\* request it gave up may be on its way to a core that runs.
SendModeFails(s) ==
    /\ setter[s].pc = "send"
    /\ \E pc \in {"warned"} \cup (IF coreMode # NoCore THEN {"lost"} ELSE {}) :
          setter' = [setter EXCEPT ![s].pc = pc]
    /\ UNCHANGED <<monitorVars, savedMode, coreMode, savedBy, overlap, newCore>>

\* The core.
LateUpdate(s) ==
    /\ setter[s].pc = "lost"
    /\ coreMode' = setter[s].mode
    /\ setter' = [setter EXCEPT ![s].pc = "warned"]
    /\ UNCHANGED <<monitorVars, savedMode, savedBy, overlap, newCore>>

\* A core starts, after a stop, a crash or a change: its configuration has no
\* mode, it takes its own default, or the last one of its cache file.
ModeOfNewCore(mode) ==
    /\ coreMode = NoCore
    /\ coreMode' = mode
    /\ newCore' = TRUE
    /\ UNCHANGED <<monitorVars, savedMode, setter, savedBy, overlap>>

\* proxy_reload_config: the mode after it is the core's affair as well.
ReloadCore(mode) ==
    /\ coreMode # NoCore
    /\ coreMode' = mode
    /\ newCore' = TRUE
    /\ UNCHANGED <<monitorVars, savedMode, setter, savedBy, overlap>>

\* The core ends, and with it what was on its way to it.
CoreEnds ==
    /\ coreMode # NoCore
    /\ coreMode' = NoCore
    /\ setter' = [s \in Setters |->
                     [setter[s] EXCEPT !.pc = IF @ = "lost" THEN "warned" ELSE @]]
    /\ UNCHANGED <<monitorVars, savedMode, savedBy, overlap, newCore>>

\* save_app_settings stores the mode among the rest and sends nothing.
SaveSettingsMode(mode) ==
    /\ mode # savedMode
    /\ savedMode' = mode
    /\ savedBy' = NoSetter
    /\ UNCHANGED <<monitorVars, coreMode, setter, overlap, newCore>>

MonitorNext ==
    \/ ChangeStatePort
    \/ StartWithoutPort
    \/ StartMonitor
    \/ StopMonitor
    \/ \E m \in MonitorIds, r \in Resources : MonitorStep(m, r)

ModeNext ==
    \/ \E s \in Setters :
        \/ \E mode \in Modes \cup {ModeUnchanged} : CommitMode(s, mode)
        \/ CommitModeFails(s)
        \/ SendMode(s) \/ SendModeFails(s) \/ LateUpdate(s)
    \/ \E mode \in Modes : ModeOfNewCore(mode) \/ ReloadCore(mode)
    \/ CoreEnds
    \/ \E mode \in Modes \cup {ModeUnchanged} : SaveSettingsMode(mode)

\* The two share no state.
ProxyRuntimeNext == MonitorNext \/ ModeNext

ProxyRuntimeSpec == ProxyRuntimeInit /\ [][ProxyRuntimeNext]_proxyRuntimeVars

-----------------------------------------------------------------------------
(* The snapshot of the groups: build_proxy_groups_snapshot.  A proxy is      *)
(* [type, all, now, delay]; proxies and provider are functions from names.   *)

Selectable == {"selector", "urltest", "fallback", "loadbalance"}
NotTestable == Selectable \cup {"direct", "reject", "compatible", "pass"}

\* A name of the core itself wins over one of a file or http provider.
FindProxy(name, proxies, provider) ==
    IF name \in DOMAIN proxies THEN {proxies[name]}
    ELSE IF name \in DOMAIN provider /\ provider[name].vehicle \in {"file", "http"}
         THEN {provider[name]}
    ELSE {}

Node(name, proxy, active) ==
    [name |-> name, delay |-> proxy.delay, active |-> active,
     testable |-> proxy.type \notin NotTestable]

\* sorting 0: by delay, the unknown (0) last; any other order is the core's.
NodesSorted(nodes, sorting) ==
    IF sorting # 0 THEN nodes
    ELSE LET key(n) == IF n.delay > 0 THEN n.delay ELSE 1000000
             place(i) == Cardinality({j \in 1 .. Len(nodes) :
                            \/ key(nodes[j]) < key(nodes[i])
                            \/ key(nodes[j]) = key(nodes[i]) /\ j < i}) + 1
         IN  [k \in 1 .. Len(nodes) |->
                 nodes[CHOOSE i \in 1 .. Len(nodes) : place(i) = k]]

GroupNodes(group, proxies, provider, sorting) ==
    LET known == SelectSeq(group.all,
                     LAMBDA n : FindProxy(n, proxies, provider) # {})
        node(n) == Node(n, CHOOSE p \in FindProxy(n, proxies, provider) : TRUE,
                        group.now = n)
    IN  NodesSorted([i \in DOMAIN known |-> node(known[i])], sorting)

\* select_node: the answer to a request to select a node of a group.
SelectNode(name, node, proxies) ==
    IF name \notin DOMAIN proxies THEN "GroupNotFound"
    ELSE IF proxies[name].type # "selector" THEN "GroupNotSelector"
    ELSE IF node \notin {proxies[name].all[i] : i \in DOMAIN proxies[name].all}
         THEN "NodeNotFound"
    ELSE "selected"

\* test_delay: with no name given, every proxy that is testable.
DelayTests(names, proxies) ==
    IF names # {} THEN names
    ELSE {n \in DOMAIN proxies : proxies[n].type \notin NotTestable}

-----------------------------------------------------------------------------
(* Properties.                                                              *)

\* The tasks of the handle run: no failure of the socket ends one, or the
\* next start would find the port unchanged and answer that it runs.  Any
\* other task is over, or in the poll in which it was aborted.
MonitorIsAlive ==
    \A m \in MonitorIds, r \in Resources :
        IF m = monitor.id
        THEN stream[m][r].pc # "done" /\ ~stream[m][r].aborted
        ELSE stream[m][r].pc = "done" \/ stream[m][r].aborted

\* proxy_set_traffic_mode: a call that changed the saved mode and returned with
\* no warning has put the core in it, until the next change: whatever other calls
\* failed, gave up or were late, and though the core stopped, unless another call
\* was on its way when this one committed, or a core has started since.
SavedModeIsApplied ==
    (/\ savedBy \in Setters /\ setter[savedBy].pc = "ok" /\ savedMode # ModeUnchanged
     /\ ~overlap /\ ~newCore)
    => coreMode \in {savedMode, NoCore}

\* A group shows each of its members it knows once, in order of delay with the
\* unmeasured last, whatever names the core lists; a node is selected only in a
\* selector that has it; and the delay of a reconnect keeps its bounds.
Delays == {0, 30, 200}
SnapshotIsRight ==
    /\ \A da, db, dc \in Delays, now \in {"a", "b", "c", "gone"}, sorting \in {0, 2},
          vehicle \in {"http", "inline"} :
          LET proxies == [a |-> [type |-> "vmess", delay |-> da, all |-> <<>>],
                          b |-> [type |-> "direct", delay |-> db, all |-> <<>>]]
              provider == [b |-> [type |-> "vmess", delay |-> 1, vehicle |-> "http"],
                           c |-> [type |-> "vmess", delay |-> dc, vehicle |-> vehicle]]
              group == [all |-> <<"c", "gone", "b", "a">>, now |-> now]
              nodes == GroupNodes(group, proxies, provider, sorting)
              names == {nodes[i].name : i \in DOMAIN nodes}
          IN  /\ names = {"a", "b"} \cup (IF vehicle = "http" THEN {"c"} ELSE {})
              /\ Len(nodes) = Cardinality(names)
              /\ \A i \in DOMAIN nodes :
                    /\ nodes[i].active <=> nodes[i].name = now
                    /\ nodes[i].name = "b" => nodes[i].delay = db /\ ~nodes[i].testable
              /\ sorting = 0 => \A i, j \in DOMAIN nodes :
                    (i < j /\ nodes[j].delay > 0) =>
                        nodes[i].delay > 0 /\ nodes[i].delay <= nodes[j].delay
    /\ LET known == [g |-> [type |-> "selector", all |-> <<"a">>],
                     u |-> [type |-> "urltest", all |-> <<"a">>],
                     a |-> [type |-> "vmess", all |-> <<>>]]
        IN  /\ \A n, m \in {"g", "u", "a", "x"} :
                  SelectNode(n, m, known) = "selected" <=> (n = "g" /\ m = "a")
            /\ DelayTests({}, known) = {"a"}
    /\ \A attempt \in 0 .. 20 : \A d \in ReconnectDelays(attempt, 1, 10) :
          d \in 1 .. 12 /\ (attempt > 3 => d >= 10)
    /\ \A local \in {1, 10808, 65529, 65535}, tun \in BOOLEAN :
          StatePort(local, tun) \in local .. 65535

\* The monitor and the traffic mode, after whatever step (proxy_runtime.rs).
MonitorAndModeAreRight == [][MonitorIsAlive' /\ SavedModeIsApplied']_proxyRuntimeVars
=============================================================================
