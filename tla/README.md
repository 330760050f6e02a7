# VoyaVPN: a TLA+ verification project

VoyaVPN is a desktop VPN client: a Tauri shell (`src/apps/desktop/src-tauri`)
and a React frontend over Rust crates that store profiles, generate a sing-box
configuration, run sing-box as a child process, inside a native TUN provider or
under a Windows service, and point the operating system's proxy settings at it.
This directory holds TLA+ models of it, the TLC runs that check them, and proofs
that TLAPS checks.

All paths below are relative to `src/`.

## 1. Inventory

| Part | Code | State it keeps | Who drives it |
| --- | --- | --- | --- |
| Process runner | `crates/voya-platform/src/process.rs` | table pid -> child control; one reaper thread and one channel per child | supervisor, speedtest, elevation, system proxy |
| Core supervisor | `crates/voya-app/src/supervisor.rs`, `supervisor/actor.rs` | the running core (main, pre-socks, native tunnel, elevated handles, Windows job, last request); native generation; mailbox | shell commands, statistics, exit notices, health watchers |
| Elevation | `crates/voya-app/src/elevation.rs`, `crates/voya-platform/src/{elevation,privilege}.rs` | the grant; the installed launcher | TUN commands, exit |
| Native TUN | `crates/voya-platform/src/tun.rs`, `tun/macos.rs` | the provider, outside the process | supervisor |
| Tunnel service | `bin/voyavpn-tunnel-service.rs` of the shell | its reported state, the stop channel, its child | the Windows service manager |
| System proxy | `crates/voya-app/src/sysproxy.rs`, `crates/voya-platform/src/sysproxy.rs`, `sysproxy/backend.rs` | OS settings, dirty marker file, PAC server | shell commands, startup, exit |
| Configuration | `crates/voya-app/src/config_mutation.rs`, `settings_save.rs`, `services.rs` | the shared configuration, one mutation lock, one unit of work, the settings document | every command that changes something |
| Runtime manager and shell commands | `crates/voya-app/src/runtime.rs`, `apps/desktop/src-tauri/src/ipc/commands/*.rs` | the core's configuration files; what the window was told | the frontend |
| Proxy monitor, traffic mode | `crates/voya-app/src/proxy_runtime.rs`, `crates/voya-net/src/clash.rs` | the handle of the monitor, its two tasks, the snapshot; the saved mode | the frontend |
| Statistics | `crates/voya-app/src/statistics.rs` | session with the core, bounded channel, pending sums, rows per profile | startup, the supervisor's status, a timer |
| Speedtest, UDP test | `crates/voya-app/src/speedtest*`, `crates/voya-udptest` | the current job, its cancellation, probe cores; one SOCKS5 association | the frontend |
| Profiles, subscriptions | `crates/voya-app/src/{profiles,subscriptions}` | rows, order, active profile, prepared updates | the frontend |
| Groups, routings, DNS, presets | `crates/voya-app/src/{groups,routing,dns,presets}*` | rows, rules, active routing | the frontend |
| Configuration generator | `crates/voya-core/src/{context*,singbox*}` | none: what it generates from rows and settings | runtime manager, speedtest, exports |
| Share links | `crates/voya-core/src/fmt` | none | imports, exports |
| Downloads, rule sets | `crates/voya-net/src/{download,ruleset,subscription}.rs` | staging directories, the files in use | subscriptions, update commands |
| Core binaries | `crates/voya-platform/src/coreinfo.rs` | the copied executable and its files | startup, connect, speedtest, install command |

How they interact. A shell command runs on a multi-threaded async runtime; any
number of commands are in progress at once. Changes of the configuration are
serialised by the mutation lock, reads of it are not, and what is downloaded is
downloaded without it and applied under it. The supervisor is one task with a
mailbox of 16 slots: commands, exit notices of reaper threads and reports of
health watchers arrive there in any order and are handled one at a time. The
system proxy manager, the file updates and the copies of the packaged core have
no lock at all.

What is hard: exit notices that arrive after the process they are about was
stopped or its pid was given away; a stop or a start of which one step fails;
health reports of a session that is over; a proxy setting that outlives the
program; two commands that each did half of what they do; a download applied to
a subscription that is no longer the one it was made for; samples of a core that
was replaced; a generated configuration that names what it does not contain; and
the first matching rule being another than the one the user wrote.

Correctness, per part:

- runner: a stop that returns Ok leaves no process; an end is announced once and
  never for a child that a stop took over; a stop always returns; nothing
  survives the runner's drop.
- supervisor: no core and no tunnel escapes it; sessions do not overlap; what
  runs is what was ordered last; a dead core is noticed; commands are answered.
- tunnel service: it runs nothing it did not check, can be stopped while it is
  served, and has no child when it says it stopped.
- system proxy: settings that point at the application are marked; the next
  start restores them; an Ok means that it was done.
- configuration: memory and database agree; no update is lost; a failed save
  takes its side effects back; a running core follows what is saved.
- shell commands: what runs is what was asked for; the window shows what is the
  case; every command returns.
- monitor and mode: one monitor at a time writes the snapshot; a call that changed
  the saved mode and had no warning has put the core in it.
- statistics: every sample is charged once or dropped where the code drops it,
  on the day and the profile it belongs to, and to the right core but for one.
- speedtest: one job goes on; a probe core ends with its test; nobody in the
  selection is forgotten; no job is stuck. UDP test: a time is reported only when
  the second request was answered rightly, and is one an answer took.
- profiles and subscriptions: no name of what is gone; an update replaces what it
  brought and nothing else; an import counts every link; order is kept.
- routings: one is active, the built-in one is imported once, a moved rule lands
  where it should.
- generator: groups are resolved without cycles and end in servers; everything
  that is referenced exists once; traffic goes where the rules say.
- share links: what is exported and imported is what it was.
- downloads and core files: whole or not at all.

## 2. Modules and the code they model

`PROJECT.json` maps every definition to the lines it stands for.

| Module | Models | Uses |
| --- | --- | --- |
| `ProcessTable` | the promise of the `ProcessRunner` trait | |
| `ProcessRunner` | `StdProcessRunner` | implements `ProcessTable` (`KeepsPromise`) |
| `Supervisor` | supervisor, kill script, native TUN, watchers | acts on `ProcessTable` |
| `TunnelService` | the Windows service that hosts sing-box | |
| `SystemProxy` | proxy manager, backends, startup and exit | |
| `Lifecycle` | commands, configuration, runtime manager, native-exit sink | the supervisor and the proxy as single steps |
| `AppSettings` | what a window shows and saves, how it is kept, what restarts the core | the core as the items it was generated from |
| `ProxyRuntime` | proxy monitor, Clash client, traffic mode | |
| `Statistics` | statistics service, aggregator, rows | |
| `Speedtest`, `UdpTest` | jobs and probe cores; one UDP test | |
| `Profiles`, `Imports` | profile and subscription managers; texts that are imported | |
| `Routings` | routing manager and templates | |
| `Rows`, `Catalogue` | some rows of a table; profiles, subscriptions and routings together | `Catalogue` extends `Profiles` and `Routings`, which use `Rows` |
| `ConfigContext` | registration of profiles and groups | uses `Rows` |
| `GroupValidation` | validation of groups | extends `ConfigContext` |
| `GroupOutbounds` | outbounds of groups and chains | extends `GroupValidation` |
| `SingboxConfig` | inbounds, DNS, routing, rule sets | extends `GroupOutbounds` |
| `LeafOutbounds` | the outbound of one profile | |
| `ShareLinks` | links, documents, bundles | |
| `Downloads` | downloads and the update of files | |
| `CoreFiles` | the packaged core and its copies | |
| `MC*` | small instances for TLC | `MCServices` composes fifteen of them, see section 3 |
| `ProcessRunnerProofs`, `SupervisorProofs`, `SystemProxyProofs`, `LifecycleProofs`, `SpeedtestProofs` | theorems about the module they are named for | |
| `ServicesProofs` | theorems about `TunnelService`, `Statistics`, `AppSettings`, `ProxyRuntime`, `UdpTest`, `LeafOutbounds`, `SingboxConfig` | |
| `FilesProofs` | theorems about `Downloads` and `CoreFiles` | |
| `CatalogueProofs` | theorems about `ConfigContext`, `Profiles` and `Routings` | |

**`ProcessTable` and `ProcessRunner`.** `ProcessTable` has four sets: processes
not spawned, live, managed and announced. A managed process either has its end
announced (`Reap`) or is taken over by a stop (`Stop`, `StopFails`), never both.
`ProcessRunner` is the code: `table` is the map of controls, `reaper[c]` the
program counter of the thread `spawn_reaper` starts, `inbox[c]` the channel,
`caller[s]` a `stop` call. `StopRemove` takes the control out of the table,
`StopSend` sends, `ReaperStop` serves; `ReaperEnded` and `ReaperRemove` are the
two halves of finding the child gone. Children and pids are separate, because
`remove_child_control` works by pid and the system reuses pids. The refinement
maps `live` to the children that run, `managed` to those with a reaper that no
stop has taken over, and so on. The supervisor is built on the promise, not on
the runner, which keeps its state space small and is justified by the
refinement.

**`Supervisor`.** One task handles one message at a time, but its handlers call
into a world that moves. So a handler is a sequence of steps, one per external
call (`StopNative`, `SudoKill`, `SudoWait`, `StopMain`, `StopPre`, `Prepare`,
`StartNative`, `SpawnMain`, `AssignMain`, `SpawnPre`, `AssignPre`, `Commit`), and
`actor` records which is next, for what goal (`stop`, `start`, `cleanup`, native
exit) and with which core in hand. `running` and `generation` are the actor's
fields. The environment crashes cores (`Crash`), reaps them, takes the tunnel
down, changes the grant and runs the watchers. `mishap`, `halfStopped`,
`crashed`, `died`, `events` and `wanted` are history variables.

**`SystemProxy`.** Settings and marker survive the application, the PAC server
does not. `job[c]` walks through one apply: write the marker, plan, start the
PAC server, one step per registry command or script line, the status of the
script, remove the marker. `Launch` is the startup order of `lib.rs` (recover,
then the persisted mode), `Exit` the two calls of `shutdown_for_exit`, `Crash`
may come between any two steps. The Windows backend stops
at the first command that fails; the macOS and Linux backends are scripts that
go on, and their status is that of the last line or test.

**`Lifecycle`.** `call[c]` is a command at an `await` or an external call. Those
that change something (`setTun`, `setMode`, `saveSettings`, ...) take the lock in
`Begin`, work on a copy, commit to the database and then to memory, release the
lock and only then restart or reapply (`Afterwards`). `Connect` and `Disconnect`
do not take the lock. `files` is what the core's configuration files hold, which
a restart after a crash reads again. `sink` is the task that handles the exit of
a native provider. `overlap`, `survived`, `silent`, `uncompensated` and
`stopped` are history variables that state when a property is promised.

**`Speedtest`.** `active` is `active_cancel`; `job[j]` is a call of
`run_with_callback` with its flag; `session` holds the
`ProcessSpeedtestCoreSession` values, whose drop ends the process; `tests` are
`run_item` calls; `row[p]` says which job's "Speedtesting" mark the row of `p`
still has. The three kinds of actions of a job (TCP connect one by one; latency
and UDP in pages behind one core; downloads and mixed tests with a core each,
several at a time) are modelled by `TestDirect`, `Launch` + `TestThrough` on a
page, and `Launch` + `TestThrough` on a single profile.

**`AppSettings`.** A configuration is its items, each the record that
`AppConfig` has; fields that are only copied are the item's `rest`. `SettingsFrom`
and `ConfigsFrom` are the two conversions, `ValidSettings` and `RestartItems` the
checks of a save. `window` holds what a window read, so a save may be of settings
that are out of date. `coreItems` is what the running core was generated from,
`coreIsOld` that a restart failed.

**`ProxyRuntime`.** `stream[m]` are the two websocket tasks of monitor `m`,
each at an await: connecting, reading, in a backoff, or aborted while it is
polled. A call that sets the mode commits it under the lock (`CommitMode`) and
then sends it without (`SendMode`), if that changed what is saved; other calls'
steps may come between, and a request that was given up may still arrive
(`LateUpdate`). The settings window saves the mode and sends nothing
(`SaveSettingsMode`). The core starts, ends and reads its configuration again, and
no configuration it is given has a mode, so it then has one of its own
(`ModeOfNewCore`, `ReloadCore`). `savedBy`, `overlap` and `newCore` are history: who
changed the saved mode, whether another call was on its way then, and whether a core
has started since. They say when the saved mode is the core's.

**`Statistics`.** `service` is the session (which core it belongs to and where it
is), `channel` and `pending` the samples under way, `stat` the rows. The
environment replaces the core, switches profiles and the setting, and ends the
day. `taken`, `lost` and `charged` say what happened to every sample.

**`Profiles`, `Imports`.** A command is one step because it is one transaction
under the lock. An update of subscriptions is two: `PrepareUpdate` reads and
downloads, `ApplyUpdate` compares the subscription with what it read and imports.
A profile's `key` stands for what `profile_items_match` compares. `Imports` is
what `ImportFromText` starts from: kinds of lines, filter, duplicates, counts, and
the form in which values are stored.

**`Routings`.** Operators on a transaction; `CommitRoutings` is the foreign key
that may refuse it. Templates are prepared without the lock and applied under it.

**`ConfigContext`, `GroupValidation`, `GroupOutbounds`, `SingboxConfig`.** The
depth-first walk over a group's members is a machine whose `stack` holds the
frames; each step handles one member, so that what is visited, cut and kept is
there to check. The reference for both walks is a least fixpoint, written as an
intersection (`UsableWith`, `BelowWith`): what traffic can leave through, and what
is below a group. What is generated from its result is operators: tags as sequences, outbounds as
records with the tag they detour through, rules as records of what they match.
`Verdict` and `DnsVerdict` evaluate the generated rules on a connection and on a
name; the reference (`Written`, with `Accepts` for one rule) says where the
user's own list sends it.

**`LeafOutbounds`, `ShareLinks`.** Pure functions of a profile, checked over
products of every field the code branches on. A text is a word and how often it
is percent-encoded, and some of the profiles that are shared hold texts that are
escapes of others themselves, so that a missing or a double decoding shows.
`Arrives` says which fields the code decodes once too often, and that a hysteria2
link has the first pin only; all others come back as they were.

**`Downloads`, `CoreFiles`.** The first half of `Downloads` is one transfer
(redirects, limits, proxy and direct attempts), the second the staging and
copying of files by two callers, one file at a time, with failures and crashes.
`CoreFiles` is the same for the packaged core: a copy creates the file, fills it
and may be cut in between.

**`TunnelService`, `UdpTest`.** The service's own steps, the controls on the
manager's thread and the end of its child; the UDP test's association, its two
requests, of which the second is always sent and decides, the answers in flight,
late ones among them, and its deadline, and the packets themselves.

## 3. What TLC checks

Sizes are distinct states.

| Run | Instance | States | Shows |
| --- | --- | --- | --- |
| `runner` | 2 children, 2 pids, 2 stop callers and the drop; kills and polls may fail | 53 k | every stop reaches its child while that can be reached and an Ok means that it is dead, the drop leaves no child, one announcement and none after a stop; the runner implements `ProcessTable`; stops return and ends are announced |
| `supervisor_linux` | 3 processes, 2 clients, 2 commands, mailbox of 2; an elevated pair and a plain core; every call may fail | 301 k | no stray core, one session at a time, orders are followed, a dead core that is tracked did crash and its notice is under way, the kill script knows its targets |
| `supervisor_tunnel` | Windows: 2 processes, 2 clients, 2 commands, mailbox of 1; a pair in a job, a service tunnel, a tunnel without a config path | 205 k | no stray tunnel, a native exit is reported once and only when real; commands are answered, crashes and provider deaths are handled |
| `supervisor_orphan` | one elevated pair; only the grant changes | violation | see the findings |
| `lifecycle_linux` | two commands at a time, 3 in all, 2 profiles, process TUN; every fault | 2.2 M | memory and database agree, no update is lost, registrations are taken back, the core runs what it was started for |
| `lifecycle_native` | two commands at a time, 2 in all, native TUN; every fault | 188 k | the TUN setting takes effect, the window is right, commands return |
| `lifecycle_disconnect` | two commands at a time, 3 in all, nothing fails | violation | see the findings |
| `speedtest` | two jobs, 3 profiles, pages of 2, two tests at a time; rows and cores may fail | 1.8 M | one job goes on, probes are reaped, everyone gets a result, no job is stuck |
| `services` | fifteen parts, one per behaviour, see below | 573 k | the properties of the other modules |
| `proxy_race` | two callers, 4 operations, crashes, nothing else fails | violation | see the findings |
| `proxy_gnome` | Linux without the KDE tools, one caller, nothing fails | violation | see the findings |
| `group_subscription` | two groups, one with a subscription | violation | see the findings |

### The run `services`

The modules it composes share no state, so a product of them would show nothing
that each of them does not. `MCServices` puts their variables side by side; the
first step of a behaviour sets `part`, chooses an initial state of that part
where there are several, and all further steps are the part's own.

| Part | Instance | Property |
| --- | --- | --- |
| `proxy` | Windows, one caller, 4 operations; every command, the marker file and the commit may fail; crashes | `ProxiedHasMarker`, `RestartRestores`, `OkMeansApplied`: a proxied system is marked, the next start recovers first, an Ok is true |
| `monitor`, `mode` | 2 monitors of 2 tasks, one failed connect told apart; 2 callers, 2 modes, a core that starts, reloads and ends, settings that are saved | `MonitorAndModeAreRight`: the current monitor's tasks run and no others do, a call that changed the mode and had no warning has put the core in it, unless another was on its way or a core has started since; `NothingIsLost`: the snapshot shows the groups as they are |
| `statistics` | 2 profiles, 2 cores, 2 samples, 2 days, a channel of 1 | `StatisticsAreRight`: conservation of traffic, today's sum is of its date, at most one sample of another core |
| `udp` | 3 answers, 3 ticks; targets, hosts and packets | `TimesAreOfRightAnswers`: a time is reported exactly when what was read for the second request is right, and is one an answer took or one was late; `NothingIsLost`: packets and targets are read back |
| `profiles` | 3 profile ids, 2 subscriptions, 2 keys, 2 rows; texts to import | `CatalogueHolds`: nothing dangles; `NothingIsLost`: an update replaces what it brought, an import counts every link, moves and sorts keep order |
| `routings` | 2 routings, 3 rules, templates with and without the built-in | `CatalogueHolds`: one is active, the built-in is there once; `NothingIsLost`: a moved rule goes where it should and the others keep their order |
| `settings` | each item changed or not, values that are refused among them; 2 changes; a window that read older settings | `SettingsAreKept`: what is stored is the configuration, a running core was generated from it |
| `graph` | 2,672 catalogs of 3 groups: nested, cyclic, with missing and unusable members | `GroupsAreResolved`: the map of proxies has no cycle, no usable server is missing in it, validation finds the cycles; `ConfigurationIsRight`: every path through a group is generated once |
| `configuration` | small groups under 926 settings, 18 connections | `ConfigurationIsRight`: what is named exists, listeners do not collide, a connection goes where the first rule that takes it says |
| `outbound` | 3,630 profiles: every protocol with every transport, TLS and mux it branches on | `ConfigurationIsRight`: a server is verified as its profile says, TLS is not lost, what sing-box refuses together is never written together |
| `share` | 5,280 profiles of every protocol, with reserved characters, texts that hold escapes and two pins; bundles, documents | `NothingIsLost`: what comes back is what was shared but for what `Arrives` names, twice over |
| `downloads` | 2 tasks, 2 files, 2 versions; any step may fail or be killed | `UpdatesAreAllOrNothing`: an update that fails before its commit changes nothing, one that succeeds alone installs what it checked; `NothingIsLost`: a transfer is whole |
| `core` | 4 copiers, 2 packages, two crashes, the user's own files | `CoreFilesAreRight`: what is started is whole and executable, the user's files are kept |
| `service` | 32 configurations: inside the folder or not, checked or not | `ServiceGuardsItsCore` |

A property whose name is that of a module's is defined there; the others collect
at the end of `MCServices` what belongs together. Facts about values alone are
the same in every state; the properties that hold them evaluate them in the step
that chooses their part.

### Bounds

`MaxCommands`, `MaxOperations`, `Proc`, `Children` and `Jobs` bound the
length of a behaviour, and so do `MaxSamples`, `MaxRows`, `MaxServed`,
`MaxPackage`, `MaxCuts`, `MaxTime`, `MaxRoutings` and `MaxSettingsChanges`; each
action that needs one of them says so in its guard. They are enough for the cases the
properties are about: two children that share a pid and two stops of the same
one; a session, the restart that replaces it and a late notice of the first; a
mailbox that is full with a single message; two commands of which each is at any
of its awaits while the other takes any step, and a third after both; a page
that is full and one that is not, and a concurrency that is lower than the number
of profiles. Three processes on Linux are a pair and half of its successor. In
`services`, two monitors are one and its successor; two samples fill the channel
and block the sender; two rows are one that is replaced and one that stays; two
tasks over two files can interleave between any two copies; three groups are
enough for a cycle that does not contain its start, a group with two parents, and
chains inside groups inside chains.

Symmetry is used only in runs without temporal properties that need fairness,
and only over sets no action tells apart. `CHECK_DEADLOCK FALSE` is set because
all of these systems may stop: commands are bounded, a dropped runner and a closed
application have nothing left to do, and what is generated is generated. What must
go on is stated as liveness or, in `Speedtest`, as `NoJobIsStuck`.

Types: the modules of the machines in the first six rows of section 5's table state `TypeOK`,
which is proved there for every instance; the runs check what depends on it.

## 4. Fairness

Only steps of the program's own threads and tasks are fair, never those of the
environment (crashes, clients that call, the user, failures).

- `ProcessRunner`: reaper threads, callers in `stop` and the drop. They are OS
  threads, and the reaper polls with a timeout.
- `Supervisor`: the actor task; a reaper that finds its child ended and the task
  it spawns to send the notice; a client's send; the health watchers, which poll
  on a timer, and their send; and a provider that was told to stop. Tokio polls
  every task that was woken, and its bounded channel serves waiting senders in
  order, so a send is not overtaken forever.
- `Lifecycle`: each command and the sink task. The mutation lock is a Tokio
  mutex, which is fair to its waiters.
- `SystemProxy`, `Speedtest` and the other parts of `services`: none; their
  properties are safety properties. A monitor reconnects for ever and a download
  may take as long as the network lets it, so the code promises no end there.

## 5. What TLAPS proves

Theorems hold for every value of the constants that satisfies the module's
ASSUME: any number of processes, clients, commands, jobs and profiles, any
mailbox size, any combination of faults.

| Theorem | Property |
| --- | --- |
| `ProcessRunnerProofs!RunnerTypeCorrect`, `RunnerAnnouncesOnce`, `RunnerKeepsPromise` | `TypeOK`, `AnnouncedOnceNeverForStopped`, `KeepsPromise` |
| `ProcessRunnerProofs!RunnerStopsReachTheirChild`, `RunnerDropStopsEveryChild` | `StopsReachTheirChild`, `DropStopsEveryChild` |
| `SupervisorProofs!SupervisorTypeCorrect`, `SudoTargetsKnown` | `TypeOK`, `SudoTargetsAreTracked` |
| `SupervisorProofs!NoCoreEscapes`, `NoTunnelEscapes`, `SessionsDoNotOverlap`, `OrdersAreFollowed` | `NoStrayCore`, `NoStrayTunnel`, `OneSessionAtATime`, `SessionFollowsOrders` |
| `SupervisorProofs!CrashesNoticed`, `NativeExitsReported` | `CrashesAreNoticed`, `NativeExitsAreReported` |
| `SystemProxyProofs!ProxyTypeCorrect`, `MarkerPromise`, `RestartPromise`, `OkPromise` | `TypeOK`, `ProxiedHasMarker`, `RestartRestores`, `OkMeansApplied` |
| `LifecycleProofs!TypeCorrect`, `SharedStored`, `NoneLost`, `RegisteredStored` | `TypeOK`, `SharedIsStored`, `NoLostUpdate`, `RegisteredIsStored` |
| `LifecycleProofs!RequestsRun`, `TunTakesEffect`, `WindowRight` | `RunsItsRequest`, `TunSettingTakesEffect`, `WindowIsRight` |
| `SpeedtestProofs!TypeCorrect`, `OneJobTheorem`, `ReapedTheorem`, `ResultTheorem` | `TypeOK`, `OneJobGoesOn`, `ProbesAreReaped`, `EveryoneGetsAResult` |
| `ServicesProofs!ServiceGuards`, `StatisticsHold`, `SettingsHold` | `ServiceGuardsItsCore`, `StatisticsAreRight`, `SettingsAreKept` |
| `ServicesProofs!MonitorAndModeHold`, `TimesAreRight` | `MonitorAndModeAreRight`, `TimesAreOfRightAnswers` |
| `ServicesProofs!OutboundHolds`, `TrafficHolds` | `OutboundFitsItsProfile`, `TrafficGoesWhereWritten` (two parts of `ConfigurationIsRight`) |
| `FilesProofs!UpdatesHold`, `CoreFilesHold` | `UpdatesAreAllOrNothing`, `CoreFilesAreRight` |
| `CatalogueProofs!GroupsHold` | `GroupsAreResolved` (`ProxiesAreClosedAndAcyclic`, `NoServerIsMissing`, `ValidationFindsCycles`) |
| `CatalogueProofs!CatalogueIsRight` | `CatalogueHolds` and `[][UpdateReplaces]_profilesVars` (from `NamesHold`, `RoutingIsActive` and `BuiltinComesOnce`) |
| `CatalogueProofs!RulesMove`, `ServicesProofs!PacketsHold` | `MovesOneRule` of any list of rules, `PacketIsRead` of any address, port and data (parts of `NothingIsLost`) |

What is assumed of the constants is what the program has by construction: ids and
pids are not the values that mean none, an update has a file, bounds are numbers,
what is imported is finite (`ProfilesBounds`), so are the groups, and an id is that
of one profile (`ContextBounds`), and there are enough generated ids
(`RoutingsBounds`; in `Profiles` the guard `HasIdsFor` says the same of an import).
Flags are Booleans, lists are lists and no region is called `elsewhere`
(`OutboundBounds`, `SettingsBounds`).

The arguments.

- Runner: `ReaperInv` relates a reaper's program counter to what the system says
  of its child, to the announcements and to the stop so far: neither happens
  before the reaper is done, an announcement happens once, and only where no stop
  did. With it every step maps to a step of `ProcessTable` or to a stutter. That a
  stop reaches its child needs the rest of the runner: `PidInv` (the table is
  right about pids), `CallInv` (a call holds a control of the pid it was asked to
  stop, and a `Stop` in a channel is of a call that still waits for it) and
  `DropInv` (the drop begins when nobody borrows the runner).
- Supervisor: the types alone are not inductive, because a handler's record is
  only meaningful at some of its program counters; `Shape` says which. On top,
  `ProcessInv` and `TunnelInv` say, for each step of a handler, which processes
  may be alive and who holds their handles, unless a mishap dropped them;
  `WantedInv` follows the request in force from the client through the handler
  into `running`. None of the three is inductive without `Shape`, and
  `SessionFollowsOrders` needs the handler's request while a crash restart is
  under way. `NoticeInv` follows the end of a process from its reaper to the
  mailbox, for the running core and for the one a start has spawned so far, since
  no notice is taken before the start is over. `ReportInv` says that an exit counts
  only from the watcher of the session, which is of the last generation, and that
  what was reported is in order and older than the session.
- Proxy: `Phases` excludes operations in a closed application. `MarkerInv`
  says of each step of an apply what it owes to the marker. It is inductive only
  for one caller (`Sole`), which `proxy_race` shows to be necessary, and where
  a failed command stops the apply or no command fails (`Reliable`): a script
  whose lines fail and whose status is success removes the marker too early. Under
  the same conditions `AppliedInv` says of each step of an apply which of the
  settings are already as requested.
- Lifecycle: `ConfigInv` says what the lock holder's copy, the memory and the
  database have to do with each other at each locked step; `RegInv` adds who
  owes a compensation. Most steps do not touch the configuration; the lemma
  `StepKinds` sorts them out once. What runs and what the window shows is promised
  for one command at a time: `SoloInv` says of the one command in progress what
  the files and the core have to do with its copy at each of its steps
  (`SoloHere`), and between commands that they are settled, until a start fails
  over a core that survives or a restart after a crash fails silently.
- Speedtest: sessions and tests exist only in a job's main loop
  (`SessionShape`, `TestsRun`); a process has a session (`Owned`); a row that is
  marked has somewhere its result is to come from (`Owed`): its job is still
  marking, the profile is on the list, in a session or in a test, or the job is
  excused.
- Tunnel service: `GuardInv` says what each step has behind it. A child exists
  only for a configuration that was checked, and `accepts` is another word for
  the state that was reported last, which no control can change.
- Statistics: `SessionInv`. Cores are numbered as they start, so a session that
  took a sample of another core is older than the one that runs, and the check
  before its next read ends it. `TrafficInv` counts: what was taken is in hand, in
  the channel, pending, lost or charged. The sums over days and profiles are folds
  over a function, and the lemmas about them say what changing one value does.
- Settings: `FollowInv` needs the shape of the configuration besides the
  property, because a step replaces one item of it. `RestartFollows` and
  `NoRestartNeeded` are the two cases of a save: what the generator reads and
  what restarts the core differ by items no running core was generated from.
  `StoredInv` adds that whatever a window shows was once shared: saving it again
  gives a configuration the database reads back.
- Monitor and mode: `MonitorInv` says that a task of an old monitor is over or in
  its last poll; `ModeInv` that the call that changed the saved mode still has it,
  and that no other is on its way where none was when it committed. A call that
  comes later and changes nothing sends nothing, so nothing else can reach the core.
- UDP test: `UdpInv` says that what was read was read for the requests before the
  one that is waited for, once each, and that an answer counts with less than it
  took only if it was late. The best time is then one that an answer took.
- Downloads: `StagedInv` (what is copied was staged), `AloneInv` (what a call that
  copies alone has copied is still there) and `UndisturbedInv` (a half file is
  below somebody's hands).
- Core files: `CoreInv`. The startup leaves the core of its package in place, and
  after it a copy brings none unless one was cut off (`SeedInv`); half a file is
  being written, again unless a copy was cut off (`WholeInv`); and `DoneInv` names what makes a started core executable. The
  proof showed the property to need its second exception: after two cuts, a copy
  that found the core missing may leave one that was marked unmarked.
- Groups: the walk is a machine, so that it has an invariant. `WalkInv` says that
  a group is on the stack once; that what was registered since the walk began is
  what it visited and has left; and that a frame keeps only such groups. A
  registered group then names groups registered earlier in the walk, or by a later
  walk, and the order of registration excludes a cycle. `KeptInv` says what the walk
  owes to its result: of each group on the stack, a child that is usable without
  the groups above it is still to be walked or kept, and what was visited is usable
  without the root. The second is what makes it sound to keep a group that was
  visited from another place, where other groups were above; the first is inductive
  because a group without a usable child is not usable, wherever it stands
  (`UsableNeedsAChild`). Validation needs no invariant: what its walk finds from a
  group below a path is a group of the path, or one below itself, that is reachable
  (`ComesBack`). That is a solution of its recursion, and the only one, since the
  groups that are not on the path get fewer (`FindsIsRight`).
- Outbounds: `OutInv`. What is built fits the profile (`BuiltFits`, which follows
  TLS, transport, plugin and multiplexing through `build_outbound`) and is free;
  a detour comes before the interface, and only what has none is bound to one.
- Traffic: the rules are passed one after the other, so what a list does is what
  its parts do (`PassedBoth`), and the proof follows `gen_routing` part by part.
  The list that is written for one rule of the user takes exactly the connections
  the rule accepts and leaves the others where they are (`RulesToWin`), whatever
  it is split into for names, addresses, exclusions and processes; put together
  they take what the first rule accepts (`UserRulesTake`). With IPIfNonMatch the
  rules with addresses are asked again, and a rule that only accepts a connection
  since its address is known is one of them, so that asking those is as good as
  asking all (`FirstAgain`). Fixed rules leave alone what is not for them
  (`BeforeEnds`). DNS is the same with a first rule that takes a name:
  what is written for a rule answers only its own names (`OtherNames`), and all of
  them in the same way (`OwnNames`). The proof showed the property to
  need an exception: what the core itself sends to an address that is multicast is
  rejected with a TUN, in every mode, because that rule comes first.
- Routings: `RoutingsInv`. After each command there is an active routing in the
  table or no routing at all. `ensure_active_routing` trusts the stored one, so
  the shape of what a deletion leaves has to be known, and an import needs as many
  new ids as it has routings. `BuiltinInv` adds that an import which is prepared
  holds the built-in template or nothing of it, and that ids are given once, so
  that built-in routings can be counted by their ids: no command makes a routing
  built in, and the template is applied only when there is none of it.
- Moving a rule: where it lands (`Landing`) is in the list without the rule, which
  keeps the order of the others (`RemovedAt`, `InsertedAt`); `IsInjective` says that
  no rule is in the list twice, so that its place can be told.
- Packets: `PacketShape` says which byte is where. Reading a packet of that shape
  finds the parts at those places (`HeadIsRead`), and what ends before its data
  ends before the last byte that is read (`CutIsRefused`).
- Profiles: `ProfilesInv`. The table gives each id once, its profiles are of
  subscriptions that are there, and one is active whenever there is any. It is
  inductive only with what an update has in hand: content for a subscription that
  was enabled, which `IsCurrent` compares with the subscription as it is now. An
  import goes through its profiles one by one (`AccInv`): what it is to remove is
  of keys it has met, so a key it has not met is either in the table or finds a new
  id. The measure for that, `Room`, is the number of keys not yet in the table
  and of ids in it: a new profile leaves it as it is, and a removed one takes an id
  for every key it takes (`RoomStays`). What an update brings is the invariant
  `BroughtInv` of the same walk: profiles of other keys are as they were, of each
  key that came one stays and is imported, and an active profile that was there
  still is active; the deletion at the end then leaves just that (`ImportReplaces`).

Facts about numbers and finite sets that call for induction are proved by the
least counterexample: a set of numbers that is not empty has a least element
(`LeastIndex`). In this way what the recursive functions of the models compute is
proved for every length (`RowsInIsRight`, the sums of `Statistics`).

Only model-checked: liveness and everything that speaks of ENABLED
(`NoJobIsStuck`), which this prover does not have; of `ConfigurationIsRight`
the parts about groups and chains (`GroupOutboundsAreRight`) and that everything
that is referenced exists once (`ConfigurationIsClosed`), whose tags are made with
`ToString` along a recursion: the prover knows nothing of `ToString`, not even that
two numbers give two texts; and `NothingIsLost` but for `UpdateReplaces`,
`MovesOneRule` and `PacketsAreRead`: its other parts are about texts and about
orders that `SetToSortSeq` and `SelectSeq` make, of which the prover has no
definition.

## 6. Findings

Five runs end with a counterexample to something the repository says of itself.

- `supervisor_orphan` / `NoOrphan`: `cleanup_partial_start`
  (`supervisor/actor.rs:188`) drops the handles of a partial core whose stop
  failed. When the elevation grant is revoked between the spawns of an elevated
  pair, a root process is left that nothing tracks. The release checklist
  (`docs/release/os-smoke-matrix.md:71`) rules that out.
- `proxy_race` / `RestartRestores`: `apply_config` takes no lock
  (`sysproxy.rs:84`). A restore that overlaps an apply removes the marker of the
  proxy the apply then sets; after a crash the next start recovers nothing.
  `docs/adr/0004-platform-boundaries.md:39` asks for it.
- `proxy_gnome` / `RestoreClearsMarker`: on a desktop without `kwriteconfig` the
  script of the Linux backend exits with the status of a failed test
  (`sysproxy/backend.rs:337`), so that every restore is reported as failed and
  keeps the marker, against the test at `sysproxy.rs:427`.
- `lifecycle_disconnect` / `DisconnectStops`: a change of the TUN setting asks
  whether the core runs and then restarts it (`commands/lifecycle.rs:289`); a
  disconnect between the two is undone. The checklist
  (`docs/release/os-smoke-matrix.md:68`) says that disconnect stops the core.
- `group_subscription` / `GroupUsesItsSubscription`: `resolve_node`
  (`context.rs:396`) returns the stored group, while the members it takes from
  its subscription are added only to the copy in the map of proxies; the
  outbounds of the active profile and of a rule are generated from the former
  (`singbox/outbounds.rs:44`). The test at `context.rs:805-818` asserts those
  members as children of the group; no server is generated for them.

### Disputed

A newer package never replaces a core in `bin/sing_box`, and neither does it one
whose copy was interrupted: what is there counts as installed
(`coreinfo.rs:399`). The documents disagree. `docs/release/packaging.md:132` says of
the bundled core that it is "updated by shipping a new application package", and
line 176 that "Proxy core updates are delivered by application package releases";
line 364 says that it is copied "only when `bin/sing_box/` is missing", and the test
at `coreinfo.rs:748` asserts that. `CoreFilesAreRight` states what the code, line
364 and the test say, so that the first two are false of an installation that is
updated.

### Observed while modelling

What the models follow and no text of the repository contradicts. Each is what
the code does, and the properties are stated so that they hold with it.

Settings and core files
- Saving the settings while a subscription is shown forgets which
  (`settings_save.rs:285`), and because the two configurations then differ a
  running core is restarted although nothing it was generated from changed
  (`settings_save.rs:108`). A start of the application forgets it too.
- The source address of rule sets (`singbox/experimental.rs:53`) is not among
  the items that restart the core.
- An update of geo files or rule sets that overlaps another, or fails in the
  middle of its copies, leaves files of both.

Groups, rules and DNS
- A chain of three or more hops with two groups among them is cloned wrongly
  (`singbox/outbounds.rs:189-206`), a chain that ends in (a group with) a chain
  has duplicate tags, and a group none of whose members can be built leaves a
  tag that does not exist. `OrdinaryGroup` excludes these.
- Saving a profile (`ipc/commands/profiles.rs:33-59`) accepts a group without
  the validation that the group commands do.
- A rule with exclusions that are all `ext:` entries generates a rule without a
  target (`singbox/routing.rs:311-313`); one with exclusions only is dropped; one
  whose lists are comments falls back to its port.
- The server for names no rule takes is chosen by the last rule, even when that
  is disabled or has no matcher (`singbox/dns.rs:362-390`).

Links and subscriptions
- Query values are percent-decoded twice (`fmt/uri.rs:17-33`, `52-54`), all but the
  server name: a text that holds an escape itself comes back as another. Logins,
  and what vmess, Shadowsocks and SOCKS links carry, are decoded once.
- A hysteria2 link has only the first certificate pin (`fmt/hysteria2.rs:62-67`);
  the profile in `fmt/tests.rs:536-538` has two.
- A v2ray-plugin with a host turns TLS on at import (`shadowsocks.rs:190-199`);
  the object form of vmess links has no REALITY keys; a user name with a colon
  is split elsewhere when naive and socks links come back.
- SIP008 servers without method or password are imported, links without them are
  refused.
- Certificate fingerprints are imported and not written to the outbound
  (`singbox/outbounds.rs:620-685`).
- The filter of a subscription is matched with remarks before they are trimmed
  (`subscriptions/manager.rs:186`).

Traffic mode
- A core that starts, restarts or reloads is not told the saved mode: its
  configuration has none (`singbox/experimental.rs:5-9`) and a start sends none
  (`runtime.rs:90-148`).
- Saving the settings changes the mode without sending it (`settings_save.rs:353`,
  `commands/app.rs:24-90`); a core that runs is restarted for it, and again has a
  mode of its own.
- Choosing the mode that is saved sends nothing (`commands/proxy.rs:118-123`), so
  that after either of these, and after "Proxy mode saved; runtime update failed",
  the user has to choose another mode first.

Service, UDP test
- A status report of the tunnel service that fails after the spawn (lines 129,
  132) ends the service without ending sing-box.
- A UDP test always sends its second request (`voya-udptest/src/lib.rs:196-221`; the
  `continue` in line 218 is at the end of the loop's body): an error or a wrong
  answer there fails the test although the first answer was right.
- The best time of a UDP test may be that of a first response that was not verified
  (lines 213-224); a late answer to the first request is taken for one to the
  second, and counts from there; an IPv6 target without brackets is split at its
  last colon.

Known and left out of the hazards that have properties: two speed tests that
overlap may choose the same ports (`speedtest.rs:500`); a superseded job may write
its result over the mark of its successor (`speedtest.rs:668`); the exit of a
provider is handled with the configuration of now (`lib.rs:345`); a failed
restart restores the proxy of a native TUN only
(`ipc/commands/support.rs:251`).

## 7. Limits of the models

- The actor's `Drop` runs only when the runtime shuts down: `CoreSupervisor::spawn`
  gives the task a sender of its own channel, so the mailbox never closes. That
  end is not modelled.
- The kill script's target counts as gone when its pid was reaped; a pid of a
  zombie makes the script give up. Its shell text is not modelled.
- Starting the Windows service while it is still stopping fails; a failed status
  query ends a watcher. Both are in the model; other service states are in
  `TunnelService`, on the other side of the service manager.
- A script of the Linux proxy backend that outlives a crash of the application
  is not modelled: a crash ends what it was doing.
- In `Lifecycle` a start or stop of the core and an apply of the proxy are single
  steps, so what goes wrong inside them is the matter of the other modules.
  Autostart stands for the hotkeys too. The restart flag is always set, as it is
  in the program. Exit and the PAC server are left to `SystemProxy`. In
  `AppSettings` a command is one step, so overlaps are the matter of `Lifecycle`.
- In `Speedtest` ports are left out; a stop that fails in a session's drop is
  logged and forgotten by the code, and what is left then is the matter of
  `ProcessRunner`. The rows keep only the mark, not the values.
- Data is abstract everywhere: profiles, requests and processes are values with
  no more structure than guards and generators read. A text is a word and how
  often it is encoded; JSON, base64 and line splitting are not modelled beyond
  that. Where the code sorts or compares many fields, a model has one key.
- sing-box itself is what the configuration means in `SingboxConfig` (`Verdict`,
  `DnsVerdict`): the first rule all of whose fields match decides.
- Names, limits and delays that only matter to the eye or to the network
  (timeouts of HTTP, the sizes of buffers, intervals of polling) are left out.

## 8. Not modelled

- The database engine, its migrations and connection settings: a repository call
  is one transaction and one step.
- Data contracts and generated code: field-by-field maps.
- The React views, for which the shell's commands are the boundary.
- Exports, QR codes and redaction: text and images without state.
- Build, packaging and release scripts, the Swift provider and the bridge library
  on macOS, and platform calls of autostart, hotkeys and elevation that are a
  single registry write, file or system call.
- The trust store and HTTP, WebSocket and TLS themselves.
- The DNS manager, which stores one item, and queries that change nothing.

`PROJECT.json` lists every part with its reason.

## 9. What is left to prove

The models cover the parts of section 1. Open are, in order of use:
`GroupOutboundsAreRight` (the paths through the servers of a group, by the order of
registration that `GroupsAreResolved` gives; it needs the fact that `ToString` tells
numbers apart as an assumption), `ConfigurationIsClosed` on top of it, the
parts of `NothingIsLost` that need a theory of sorted lists, and what one fetch of
`Downloads` takes.
