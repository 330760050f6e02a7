----------------------------- MODULE Supervisor -----------------------------
(***************************************************************************)
(* The core supervisor of voya-app: supervisor.rs and supervisor/actor.rs. *)
(*                                                                         *)
(* One task owns the running core and handles commands from a bounded      *)
(* mailbox one at a time.  A handler is synchronous, but every call it     *)
(* makes into the process runner, the elevation launcher, the Windows job  *)
(* and the native TUN controller takes real time while processes crash,    *)
(* reaper threads announce exits, health watchers poll the provider and    *)
(* the elevation grant changes.  A handler is therefore a sequence of      *)
(* steps, one per external call, and actor.pc says which is next.          *)
(*                                                                         *)
(* The process runner is its promise, ProcessTable.                        *)
(***************************************************************************)
EXTENDS Naturals, Sequences, FiniteSets

CONSTANTS
    Proc,               \* process identities
    Clients,            \* tasks that send commands and await the reply
    Requests,           \* the start requests clients send
    NoProc, NoClient, NoRequest,
    TargetOs,           \* "linux", "macos", "windows" or "other"
    MailboxSize,        \* capacity of the command channel
    MaxCommands,        \* bound: commands clients send in a behaviour
    SpawnMayFail,       \* runner.spawn, create_job, job.assign
    SudoMayFail,        \* the elevated kill script, the grant
    NativeMayFail,      \* controller.start and .stop, a false status
    StopMayFail,        \* runner.stop
    WaitMayFail         \* try_wait in a reaper

ASSUME SupervisorAssumption ==
    /\ NoProc \notin Proc
    /\ NoClient \notin Clients
    /\ NoRequest \notin Requests
    /\ TargetOs \in {"linux", "macos", "windows", "other"}
    /\ MailboxSize \in Nat \ {0}
    /\ MaxCommands \in Nat
    /\ {SpawnMayFail, SudoMayFail, NativeMayFail, StopMayFail, WaitMayFail}
           \subseteq BOOLEAN

\* A start request: does it have a pre-socks core, TUN, every config path,
\* cores that may need sudo, and the restart-on-crash flag?  `profile' tells
\* requests of different profiles apart.
ASSUME RequestsAssumption ==
    \A r \in Requests :
        /\ DOMAIN r = {"profile", "pre", "tun", "config", "sudo", "restart"}
        /\ {r.pre, r.tun, r.config, r.sudo, r.restart} \subseteq BOOLEAN

VARIABLES
    fresh, live, managed, notices,  \* the process table, see ProcessTable
    undelivered,    \* exit notices whose task has not reached the mailbox
    tunnel,         \* the native TUN provider: "down", "up", "stopping"
    granted,        \* ElevationState
    mailbox,        \* the mpsc channel
    client,         \* [Clients -> call in progress and last reply]
    budget,         \* commands clients may still send
    running,        \* SupervisorActor.running
    generation,     \* SupervisorActor.native_tun_generation
    watchers,       \* generations with a polling health watcher
    alarms,         \* generations whose watcher is sending NativeTunExited
    actor,          \* the handler in progress
    \* History, read by no action:
    crashed,        \* processes that ended although nobody stopped them
    died,           \* generations whose provider went down by itself or
                    \* whose status query failed
    events,         \* generations reported to the event sink, in order
    wanted,         \* the request that the orders so far leave in force
    halfStopped,    \* the last stop of the running core failed midway
    mishap          \* handles were dropped before their processes ended

table == <<fresh, live, managed, notices, undelivered>>
world == <<tunnel, granted, watchers, alarms>>
calls == <<mailbox, client, budget>>
core == <<running, generation, actor>>
history == <<crashed, died, events, wanted, halfStopped, mishap>>
vars == <<table, world, calls, core, history>>

Table == INSTANCE ProcessTable

Roles == {"main", "pre"}
NoGen == 0

\* RunningCore; an absent native_tun has generation NoGen, an absent job no
\* members.
CoreStates ==
    [main : Proc \cup {NoProc}, pre : Proc \cup {NoProc}, native : Nat,
     elevated : SUBSET Proc, job : SUBSET Proc,
     request : Requests \cup {NoRequest}]

EmptyCore == [main |-> NoProc, pre |-> NoProc, native |-> NoGen,
              elevated |-> {}, job |-> {}, request |-> NoRequest]

Handles(c) == {c.main, c.pre} \ {NoProc}

Connected(c) == c.main # NoProc \/ c.native # NoGen

Commands ==
         [type : {"start", "restart"}, request : Requests, from : Clients]
    \cup [type : {"stop", "status"}, from : Clients]
    \cup [type : {"exited"}, proc : Proc]
    \cup [type : {"nativeExited"}, generation : Nat]

Replies == {"none", "ok", "err", "connected", "disconnected"}

StopSteps == {"stopNative", "sudoKill", "sudoWait", "stopMain", "stopPre",
              "stopEnd"}

StartSteps == {"prepare", "startNative", "spawnMain", "assignMain",
               "spawnPre", "assignPre", "commit"}

ActorStates ==
    [pc : {"idle"} \cup StopSteps \cup StartSteps,
     goal : {"stop", "start", "cleanup", "nativeExit"},
     core : CoreStates,             \* being torn down, or partially started
     toKill : SUBSET Proc,          \* elevated handles not yet killed
     failed : BOOLEAN,              \* first_error is set
     request : Requests \cup {NoRequest},
     from : Clients \cup {NoClient}]

Idle == [pc |-> "idle", goal |-> "stop", core |-> EmptyCore, toKill |-> {},
         failed |-> FALSE, request |-> NoRequest, from |-> NoClient]

TypeOK ==
    /\ Table!TypeOK
    /\ undelivered \subseteq Proc
    /\ tunnel \in {"down", "up", "stopping"}
    /\ granted \in BOOLEAN
    /\ mailbox \in Seq(Commands)
    /\ client \in [Clients -> [pc : {"idle", "sending", "waiting"},
                               command : Commands \cup {NoRequest},
                               reply : Replies]]
    /\ budget \in Nat
    /\ running \in CoreStates
    /\ generation \in Nat
    /\ watchers \subseteq Nat
    /\ alarms \subseteq Nat
    /\ actor \in ActorStates
    /\ crashed \subseteq Proc
    /\ died \subseteq Nat
    /\ events \in Seq(Nat)
    /\ wanted \in Requests \cup {NoRequest}
    /\ halfStopped \in BOOLEAN
    /\ mishap \in BOOLEAN

Init ==
    /\ Table!Init
    /\ undelivered = {}
    /\ tunnel = "down"
    /\ granted \in BOOLEAN
    /\ mailbox = <<>>
    /\ client = [c \in Clients |-> [pc |-> "idle", command |-> NoRequest,
                                    reply |-> "none"]]
    /\ budget = MaxCommands
    /\ running = EmptyCore
    /\ generation = NoGen
    /\ watchers = {}
    /\ alarms = {}
    /\ actor = Idle
    /\ crashed = {}
    /\ died = {}
    /\ events = <<>>
    /\ wanted = NoRequest
    /\ halfStopped = FALSE
    /\ mishap = FALSE

-----------------------------------------------------------------------------
(* The request's backend: tun_backend(), process_uses_unix_sudo().         *)

IsNative(r) == r.tun /\ TargetOs \in {"macos", "windows"}

UsesSudo(r) == r.sudo /\ r.tun /\ TargetOs = "linux"

UsesJob == TargetOs = "windows"

-----------------------------------------------------------------------------
(* The environment: processes, reapers, provider, grant.                   *)

Crash(p) ==
    /\ Table!Exit(p)
    /\ crashed' = crashed \cup {p}
    /\ UNCHANGED <<undelivered, world, calls, core, died, events, wanted,
                   halfStopped, mishap>>

\* A reaper announces an exit; the handler spawns a task for the send.
Reap(p) ==
    /\ Table!Reap(p)
    /\ undelivered' = undelivered \cup {p}
    /\ mishap' = (mishap \/ p \in live)
    /\ UNCHANGED <<world, calls, core, crashed, died, events, wanted,
                   halfStopped>>

TunnelDies ==
    /\ tunnel = "up"
    /\ tunnel' = "down"
    /\ died' = died \cup {generation}
    /\ UNCHANGED <<table, granted, watchers, alarms, calls, core, crashed,
                   events, wanted, halfStopped, mishap>>

\* Both native backends only ask for a stop; the provider follows later.
TunnelStops ==
    /\ tunnel = "stopping"
    /\ tunnel' = "down"
    /\ UNCHANGED <<table, granted, watchers, alarms, calls, core, history>>

\* ElevationManager grants or revokes while a handler may be running.
SetGrant(g) ==
    /\ SudoMayFail
    /\ granted' = g
    /\ UNCHANGED <<table, tunnel, watchers, alarms, calls, core, history>>

\* Variant: the watcher returns without a message.
Mut_WatcherSees(g) ==
    /\ g \in watchers
    /\ tunnel = "down" \/ NativeMayFail
    /\ watchers' = watchers \ {g}
    /\ died' = IF tunnel = "down" THEN died ELSE died \cup {g}
    /\ UNCHANGED <<table, tunnel, granted, alarms, calls, core, crashed,
                   events, wanted, halfStopped, mishap>>

\* A watcher reads a terminal provider state (a failed status query is one)
\* and leaves its loop to send NativeTunExited.
WatcherSees(g) ==
    /\ g \in watchers
    /\ tunnel = "down" \/ NativeMayFail
    /\ watchers' = watchers \ {g}
    /\ alarms' = alarms \cup {g}
    /\ died' = IF tunnel = "down" THEN died ELSE died \cup {g}
    /\ UNCHANGED <<table, tunnel, granted, calls, core, crashed, events, wanted,
                   halfStopped, mishap>>

-----------------------------------------------------------------------------
(* The mailbox: senders wait for a free slot.                              *)

HasRoom == Len(mailbox) < MailboxSize

ClientCommands(c) ==
         [type : {"start", "restart"}, request : Requests, from : {c}]
    \cup [type : {"stop", "status"}, from : {c}]

Call(c, m) ==
    /\ client[c].pc = "idle"
    /\ budget > 0
    /\ budget' = budget - 1
    /\ client' = [client EXCEPT ![c].pc = "sending", ![c].command = m]
    /\ UNCHANGED <<table, world, mailbox, core, history>>

Send(c) ==
    /\ client[c].pc = "sending"
    /\ HasRoom
    /\ mailbox' = Append(mailbox, client[c].command)
    /\ client' = [client EXCEPT ![c].pc = "waiting"]
    /\ UNCHANGED <<table, world, budget, core, history>>

\* Variant: try_send, a full mailbox loses the notice.
Mut_SendExitedTry(p) ==
    /\ p \in undelivered
    /\ mailbox' = IF HasRoom
                  THEN Append(mailbox, [type |-> "exited", proc |-> p])
                  ELSE mailbox
    /\ undelivered' = undelivered \ {p}
    /\ UNCHANGED <<fresh, live, managed, notices, world, client, budget, core,
                   history>>

SendExited(p) ==
    /\ p \in undelivered
    /\ HasRoom
    /\ mailbox' = Append(mailbox, [type |-> "exited", proc |-> p])
    /\ undelivered' = undelivered \ {p}
    /\ UNCHANGED <<fresh, live, managed, notices, world, client, budget, core,
                   history>>

SendNativeExited(g) ==
    /\ g \in alarms
    /\ HasRoom
    /\ mailbox' = Append(mailbox, [type |-> "nativeExited", generation |-> g])
    /\ alarms' = alarms \ {g}
    /\ UNCHANGED <<table, tunnel, granted, watchers, client, budget, core,
                   history>>

-----------------------------------------------------------------------------
(* SupervisorActor::handle.                                                *)

\* Answer the caller, if there is one, and finish the handler.
Answer(c, reply) ==
    client' = [d \in Clients |->
                  IF d = c THEN [pc |-> "idle", command |-> NoRequest,
                                 reply |-> reply]
                           ELSE client[d]]

Finish(reply) ==
    /\ Answer(actor.from, reply)
    /\ actor' = Idle

\* Take the next command.
Receive(m) ==
    /\ actor.pc = "idle"
    /\ mailbox # <<>>
    /\ m = Head(mailbox)
    /\ mailbox' = Tail(mailbox)

\* Variant: mem::replace is forgotten.
Mut_BeginStop(goal, request, from) ==
    /\ actor' = [pc |-> "stopNative", goal |-> goal, core |-> running,
                 toKill |-> running.elevated, failed |-> FALSE,
                 request |-> request, from |-> from]
    /\ running' = running

\* stop() and stop_running() begin by emptying `running'.
BeginStop(goal, request, from) ==
    /\ actor' = [pc |-> "stopNative", goal |-> goal, core |-> running,
                 toKill |-> running.elevated, failed |-> FALSE,
                 request |-> request, from |-> from]
    /\ running' = EmptyCore

\* start() stops first; a restart stops, then starts, and the stop within that
\* start finds nothing to stop.
HandleStart(m) ==
    /\ Receive(m)
    /\ m.type \in {"start", "restart"}
    /\ BeginStop("start", m.request, m.from)
    /\ UNCHANGED <<table, world, client, budget, generation, history>>

HandleStop(m) ==
    /\ Receive(m)
    /\ m.type = "stop"
    /\ BeginStop("stop", NoRequest, m.from)
    /\ UNCHANGED <<table, world, client, budget, generation, history>>

HandleStatus(m) ==
    /\ Receive(m)
    /\ m.type = "status"
    /\ Answer(m.from, IF Connected(running) THEN "connected"
                                            ELSE "disconnected")
    /\ UNCHANGED <<table, world, budget, core, history>>

\* Variant: only the pre-socks core is looked at.
Mut_HandleExited(m) ==
    /\ Receive(m)
    /\ m.type = "exited"
    /\ IF m.proc = running.pre
       THEN BeginStop("start", running.request, NoClient)
       ELSE UNCHANGED <<running, actor>>
    /\ UNCHANGED <<table, world, client, budget, generation, history>>

\* process_exited: a notice for a process that is not running is ignored.
HandleExited(m) ==
    /\ Receive(m)
    /\ m.type = "exited"
    /\ IF m.proc \in Handles(running)
       THEN IF running.request.restart
            THEN BeginStop("start", running.request, NoClient)
            ELSE BeginStop("stop", NoRequest, NoClient)
       ELSE UNCHANGED <<running, actor>>
    /\ UNCHANGED <<table, world, client, budget, generation, history>>

\* Variant: the generation is not compared.
Mut_HandleNativeExited(m) ==
    /\ Receive(m)
    /\ m.type = "nativeExited"
    /\ IF running.native # NoGen
       THEN BeginStop("nativeExit", NoRequest, NoClient)
       ELSE UNCHANGED <<running, actor>>
    /\ UNCHANGED <<table, world, client, budget, generation, history>>

\* native_tun_exited: only the generation that runs now counts.
HandleNativeExited(m) ==
    /\ Receive(m)
    /\ m.type = "nativeExited"
    /\ IF running.native # NoGen /\ running.native = m.generation
       THEN BeginStop("nativeExit", NoRequest, NoClient)
       ELSE UNCHANGED <<running, actor>>
    /\ UNCHANGED <<table, world, client, budget, generation, history>>

-----------------------------------------------------------------------------
(* stop_running.                                                           *)

Goto(pc) == actor' = [actor EXCEPT !.pc = pc]

\* A recorded error does not keep the later stops from being tried.
GotoFailing(pc, fails) ==
    actor' = [actor EXCEPT !.pc = pc, !.failed = @ \/ fails]

\* Variant: the provider is not asked to stop.
Mut_StopNative ==
    /\ actor.pc = "stopNative"
    /\ Goto("sudoKill")
    /\ UNCHANGED <<table, world, calls, running, generation, history>>

\* A stop of a provider that is not up may be refused (sc stop does).
StopNative ==
    /\ actor.pc = "stopNative"
    /\ \/ /\ actor.core.native = NoGen
          /\ Goto("sudoKill")
          /\ UNCHANGED tunnel
       \/ /\ actor.core.native # NoGen
          /\ tunnel' = IF tunnel = "up" THEN "stopping" ELSE tunnel
          /\ Goto("sudoKill")
       \/ /\ actor.core.native # NoGen
          /\ NativeMayFail \/ tunnel # "up"
          /\ GotoFailing("sudoKill", TRUE)
          /\ UNCHANGED tunnel
    /\ UNCHANGED <<table, granted, watchers, alarms, calls, running,
                   generation, history>>

\* Main is pushed on `elevated' before pre.
NextToKill ==
    IF actor.core.main \in actor.toKill THEN actor.core.main ELSE actor.core.pre

\* sudo_kill: the grant, then the launcher's kill verb.  An ended and reaped
\* pid is a success, an unreaped one is refused (its process tree holds no
\* core), a running one gets its signals.
SudoKill ==
    LET p == NextToKill IN
    /\ actor.pc = "sudoKill"
    /\ actor.toKill # {}
    /\ \/ /\ granted /\ p \in live
          /\ live' = live \ {p}
          /\ Goto("sudoWait")
       \/ /\ granted /\ p \notin live /\ p \notin managed
          /\ actor' = [actor EXCEPT !.toKill = @ \ {p}]
          /\ UNCHANGED live
       \/ /\ ~granted \/ SudoMayFail \/ (p \notin live /\ p \in managed)
          /\ GotoFailing("stopEnd", TRUE)
          /\ UNCHANGED live
    /\ UNCHANGED <<fresh, managed, notices, undelivered, world, calls,
                   running, generation, history>>

\* The script waits until the pid is gone, that is until the reaper, which
\* will announce the exit, has waited for it.
SudoWait ==
    LET p == NextToKill IN
    /\ actor.pc = "sudoWait"
    /\ \/ /\ p \notin managed
          /\ actor' = [actor EXCEPT !.pc = "sudoKill", !.toKill = @ \ {p}]
       \/ /\ SudoMayFail
          /\ GotoFailing("stopEnd", TRUE)
    /\ UNCHANGED <<table, world, calls, running, generation, history>>

SudoKilledAll ==
    /\ actor.pc = "sudoKill"
    /\ actor.toKill = {}
    /\ Goto("stopMain")
    /\ UNCHANGED <<table, world, calls, running, generation, history>>

\* runner.stop: a handle the runner no longer manages is a success.
RunnerStop(p, next) ==
    \/ /\ p \notin managed
       /\ Goto(next)
       /\ UNCHANGED <<fresh, live, managed, notices, mishap>>
    \/ /\ Table!Stop(p)
       /\ Goto(next)
       /\ UNCHANGED mishap
    \/ /\ Table!StopFails(p)
       /\ GotoFailing(next, TRUE)
       /\ mishap' = TRUE

StopMain ==
    /\ actor.pc = "stopMain"
    /\ RunnerStop(actor.core.main, "stopPre")
    /\ UNCHANGED <<undelivered, world, calls, running, generation, crashed,
                   died, events, wanted, halfStopped>>

StopPre ==
    /\ actor.pc = "stopPre"
    /\ RunnerStop(actor.core.pre, "stopEnd")
    /\ UNCHANGED <<undelivered, world, calls, running, generation, crashed,
                   died, events, wanted, halfStopped>>

\* Dropping a RunningCore closes its job, which kills every member.
DropJob ==
    /\ live' = live \ actor.core.job
    /\ UNCHANGED <<fresh, managed, notices, undelivered>>

\* stop() restores `running' when a stop failed.
StopEndRestore ==
    /\ actor.pc = "stopEnd"
    /\ actor.goal \in {"stop", "start"}
    /\ actor.failed
    /\ running' = actor.core
    /\ halfStopped' = TRUE
    /\ Finish("err")
    /\ UNCHANGED <<table, world, mailbox, budget, generation, crashed, died,
                   events, wanted, mishap>>

\* Variant: a successful stop restores the running core too.
Mut_StopEndStopped ==
    /\ actor.pc = "stopEnd"
    /\ actor.goal = "stop"
    /\ ~actor.failed
    /\ DropJob
    /\ running' = actor.core
    /\ wanted' = NoRequest
    /\ Finish("ok")
    /\ UNCHANGED <<world, mailbox, budget, generation, crashed, died, events,
                   halfStopped, mishap>>

StopEndStopped ==
    /\ actor.pc = "stopEnd"
    /\ actor.goal = "stop"
    /\ ~actor.failed
    /\ DropJob
    /\ wanted' = NoRequest
    /\ Finish("ok")
    /\ UNCHANGED <<world, mailbox, budget, running, generation, crashed, died,
                   events, halfStopped, mishap>>

\* Variant: start goes on after a failed stop.
Mut_StopEndStart ==
    /\ actor.pc = "stopEnd"
    /\ actor.goal = "start"
    /\ DropJob
    /\ actor' = [actor EXCEPT !.pc = "prepare", !.core = EmptyCore,
                              !.toKill = {}]
    /\ UNCHANGED <<world, calls, running, generation, history>>

StopEndStart ==
    /\ actor.pc = "stopEnd"
    /\ actor.goal = "start"
    /\ ~actor.failed
    /\ DropJob
    /\ actor' = [actor EXCEPT !.pc = "prepare", !.core = EmptyCore,
                              !.toKill = {}]
    /\ UNCHANGED <<world, calls, running, generation, history>>

\* cleanup_partial_start: an error either way; the handles are dropped.
StopEndCleanup ==
    /\ actor.pc = "stopEnd"
    /\ actor.goal = "cleanup"
    /\ DropJob
    /\ mishap' = (mishap \/ actor.failed)
    /\ wanted' = NoRequest
    /\ Finish("err")
    /\ UNCHANGED <<world, mailbox, budget, running, generation, crashed, died,
                   events, halfStopped>>

\* Variant: a failed stop restores the running core.
Mut_StopEndNativeExit ==
    /\ actor.pc = "stopEnd"
    /\ actor.goal = "nativeExit"
    /\ DropJob
    /\ events' = Append(events, actor.core.native)
    /\ running' = IF actor.failed THEN actor.core ELSE running
    /\ wanted' = NoRequest
    /\ Finish("ok")
    /\ UNCHANGED <<world, mailbox, budget, generation, crashed, died,
                   halfStopped, mishap>>

\* native_tun_exited: a failed stop is logged, the event sink is told.
StopEndNativeExit ==
    /\ actor.pc = "stopEnd"
    /\ actor.goal = "nativeExit"
    /\ DropJob
    /\ events' = Append(events, actor.core.native)
    /\ mishap' = (mishap \/ actor.failed)
    /\ wanted' = NoRequest
    /\ Finish("ok")
    /\ UNCHANGED <<world, mailbox, budget, running, generation, crashed, died,
                   halfStopped>>

-----------------------------------------------------------------------------
(* start.                                                                  *)

\* Variant: the reply of a failed start is forgotten.
Mut_FailStart ==
    /\ wanted' = NoRequest
    /\ actor' = Idle
    /\ UNCHANGED <<table, world, calls, running, generation, crashed, died,
                   events, halfStopped, mishap>>

\* An error before anything was spawned.
FailStart ==
    /\ wanted' = NoRequest
    /\ Finish("err")
    /\ UNCHANGED <<table, world, mailbox, budget, running, generation,
                   crashed, died, events, halfStopped, mishap>>

\* Choose the backend; a native one needs the config paths, Windows a job.
Prepare ==
    LET r == actor.request IN
    /\ actor.pc = "prepare"
    /\ \/ /\ IF IsNative(r) THEN ~r.config ELSE UsesJob /\ SpawnMayFail
          /\ FailStart
       \/ /\ IsNative(r) /\ r.config
          /\ Goto("startNative")
          /\ UNCHANGED <<table, world, calls, running, generation, history>>
       \/ /\ ~IsNative(r)
          /\ actor' = [actor EXCEPT !.pc = "spawnMain",
                                    !.core = [EmptyCore EXCEPT !.request = r]]
          /\ UNCHANGED <<table, world, calls, running, generation, history>>

\* start_native_tun; sc start is refused until the service is down.
StartNativeFails ==
    /\ actor.pc = "startNative"
    /\ NativeMayFail \/ (TargetOs = "windows" /\ tunnel # "down")
    /\ FailStart

StartNative ==
    /\ actor.pc = "startNative"
    /\ TargetOs = "windows" => tunnel = "down"
    /\ tunnel' = "up"
    /\ generation' = generation + 1
    /\ running' = [EmptyCore EXCEPT !.native = generation + 1,
                                    !.request = actor.request]
    /\ watchers' = watchers \cup {generation + 1}
    /\ wanted' = actor.request
    /\ halfStopped' = FALSE
    /\ Finish("ok")
    /\ UNCHANGED <<table, granted, alarms, mailbox, budget, crashed, died,
                   events, mishap>>

\* Variant: a partial start is dropped, not stopped.
Mut_BeginCleanup ==
    /\ wanted' = NoRequest
    /\ Finish("err")
    /\ UNCHANGED <<table, world, mailbox, budget, running, generation,
                   crashed, died, events, halfStopped, mishap>>

\* cleanup_partial_start runs stop_running on the partial core.
BeginCleanup ==
    /\ actor' = [actor EXCEPT !.pc = "stopNative", !.goal = "cleanup",
                              !.toKill = actor.core.elevated, !.failed = FALSE]
    /\ UNCHANGED <<table, world, calls, running, generation, history>>

\* spawn_process is refused without the grant, and once Proc is used up.
SpawnCanFail(r) ==
    SpawnMayFail \/ fresh = {} \/ (UsesSudo(r) /\ ~granted)

\* Variant: the handle of the pre-socks core is pushed on `elevated' only.
Mut_SpawnRole(p, role, next) ==
    LET r == actor.request IN
    /\ UsesSudo(r) => granted
    /\ Table!Spawn(p)
    /\ actor' = [actor EXCEPT
          !.pc = next,
          !.core.main = IF role = "main" THEN p ELSE @,
          !.core.elevated = IF UsesSudo(r) THEN @ \cup {p} ELSE @]
    /\ UNCHANGED <<undelivered, world, calls, running, generation, history>>

SpawnRole(p, role, next) ==
    LET r == actor.request IN
    /\ UsesSudo(r) => granted
    /\ Table!Spawn(p)
    /\ actor' = [actor EXCEPT
          !.pc = next,
          !.core.main = IF role = "main" THEN p ELSE @,
          !.core.pre = IF role = "pre" THEN p ELSE @,
          !.core.elevated = IF UsesSudo(r) THEN @ \cup {p} ELSE @]
    /\ UNCHANGED <<undelivered, world, calls, running, generation, history>>

SpawnMain ==
    /\ actor.pc = "spawnMain"
    /\ \/ \E p \in Proc : SpawnRole(p, "main", "assignMain")
       \/ SpawnCanFail(actor.request) /\ FailStart

Assign(p, next) ==
    /\ actor' = [actor EXCEPT !.pc = next,
                              !.core.job = IF UsesJob THEN @ \cup {p} ELSE @]
    /\ UNCHANGED <<table, world, calls, running, generation, history>>

AssignMain ==
    /\ actor.pc = "assignMain"
    /\ \/ Assign(actor.core.main, "spawnPre")
       \/ UsesJob /\ SpawnMayFail /\ BeginCleanup

SpawnPre ==
    /\ actor.pc = "spawnPre"
    /\ \/ /\ ~actor.request.pre
          /\ Goto("commit")
          /\ UNCHANGED <<table, world, calls, running, generation, history>>
       \/ /\ actor.request.pre
          /\ \E p \in Proc : SpawnRole(p, "pre", "assignPre")
       \/ actor.request.pre /\ SpawnCanFail(actor.request) /\ BeginCleanup

AssignPre ==
    /\ actor.pc = "assignPre"
    /\ \/ Assign(actor.core.pre, "commit")
       \/ UsesJob /\ SpawnMayFail /\ BeginCleanup

\* Only a complete start becomes `running'.  An order of a client decides what
\* is wanted; a restart after a crash must not.
Commit ==
    /\ actor.pc = "commit"
    /\ running' = actor.core
    /\ wanted' = IF actor.from = NoClient THEN wanted ELSE actor.request
    /\ halfStopped' = FALSE
    /\ Finish("ok")
    /\ UNCHANGED <<table, world, mailbox, budget, generation, crashed, died,
                   events, mishap>>

-----------------------------------------------------------------------------
Receiving(m) ==
    \/ HandleStart(m) \/ HandleStop(m) \/ HandleStatus(m)
    \/ HandleExited(m) \/ HandleNativeExited(m)

Stopping ==
    \/ StopNative \/ SudoKill \/ SudoWait \/ SudoKilledAll
    \/ StopMain \/ StopPre
    \/ StopEndRestore \/ StopEndStopped \/ StopEndStart
    \/ StopEndCleanup \/ StopEndNativeExit

Starting ==
    \/ Prepare \/ StartNative \/ StartNativeFails
    \/ SpawnMain \/ AssignMain \/ SpawnPre \/ AssignPre \/ Commit

ActorStep ==
    \/ mailbox # <<>> /\ Receiving(Head(mailbox))
    \/ Stopping
    \/ Starting

Environment ==
    \/ \E p \in Proc : Crash(p) \/ Reap(p)
    \/ TunnelDies \/ TunnelStops
    \/ \E g \in BOOLEAN : SetGrant(g)
    \/ \E g \in watchers : WatcherSees(g)

Delivery ==
    \/ \E c \in Clients : Send(c)
    \/ \E p \in Proc : SendExited(p)
    \/ \E g \in alarms : SendNativeExited(g)

Next ==
    \/ ActorStep
    \/ Environment
    \/ Delivery
    \/ \E c \in Clients : \E m \in ClientCommands(c) : Call(c, m)

Spec == Init /\ [][Next]_vars

\* The actor task runs, reaper threads poll, tasks waiting for a mailbox slot
\* get one, a stopping provider stops, watchers poll.  Nothing crashes, fails
\* or changes the grant by fairness, and clients need not call.
Generations == 1 .. MaxCommands

Fairness ==
    /\ WF_vars(ActorStep)
    /\ \A p \in Proc : WF_vars(Reap(p)) /\ WF_vars(SendExited(p))
    /\ \A c \in Clients : WF_vars(Send(c))
    /\ \A g \in Generations : WF_vars(WatcherSees(g))
    /\ \A g \in Generations : WF_vars(SendNativeExited(g))
    /\ WF_vars(TunnelStops)

FairSpec == Spec /\ Fairness

-----------------------------------------------------------------------------
(* Properties.                                                             *)

Owned == Handles(running) \cup Handles(actor.core)

\* No core process escapes the supervisor: unless a cleanup whose stop failed
\* dropped its handles (cleanup_partial_start, native_tun_exited, a failed
\* kill in the runner), every running process belongs to the running core or
\* to the one the handler at work is starting or stopping.
NoStrayCore == ~mishap => live \subseteq Owned

\* The release checklist says more: no stop leaves an orphan, whatever fails.
\* A cleanup that cannot use the elevated kill script drops its handles.
NoOrphan == live \subseteq Owned

\* The same for the native provider: a tunnel that is up belongs to the
\* generation the supervisor runs or is stopping.
NoStrayTunnel ==
    ~mishap /\ tunnel = "up" =>
        generation \in {running.native, actor.core.native}

\* At most one session at a time: while a handler starts processes nothing of
\* the previous session is running any more.
OneSessionAtATime ==
    ~mishap /\ actor.pc \in {"prepare", "startNative", "spawnMain"}
        => live = {} /\ tunnel # "up"

\* What runs is what was ordered last: a restart after a crash never brings
\* back an older request, nor a core that a completed stop ended.
SessionFollowsOrders ==
    actor.pc = "idle" /\ Connected(running) => running.request = wanted

\* The notice of a core that was stopped on purpose is not mistaken for a
\* crash: a tracked process that is dead crashed, or its stop failed midway.
DeadTrackedCoreCrashed ==
    actor.pc = "idle" => \A p \in Handles(running) :
        p \in live \/ p \in crashed \/ halfStopped

\* A dead tracked process is about to be noticed: its reaper still watches it
\* or its notice is on the way, so Connected does not stay false forever.  A
\* notice is consumed early only by a handler whose stop then failed.
DeadTrackedCoreIsNoticed ==
    actor.pc = "idle" => \A p \in Handles(running) :
        \/ p \in live
        \/ p \in managed
        \/ p \in undelivered
        \/ \E i \in 1 .. Len(mailbox) :
              mailbox[i].type = "exited" /\ mailbox[i].proc = p
        \/ halfStopped

\* No crash is invented and none is missed, in whichever order notices, stops
\* and starts come.
CrashesAreNoticed == DeadTrackedCoreCrashed /\ DeadTrackedCoreIsNoticed

\* sudo_kill always finds its target (UnknownSudoKillTarget is unreachable):
\* only tracked handles are elevated, also in a partial core.
SudoTargetsAreTracked ==
    /\ running.elevated \subseteq Handles(running)
    /\ actor.toKill \subseteq Handles(actor.core)

\* The event sink hears of a generation at most once, in order, and never of
\* one that still runs: a late watcher of an old session is harmless.
NativeExitReportedOnce ==
    /\ \A i, j \in 1 .. Len(events) : i < j => events[i] < events[j]
    /\ \A i \in 1 .. Len(events) : events[i] # running.native

\* An exit is reported only for a provider that went down by itself (or whose
\* status query failed): a stop or a restart is not an exit.
OnlyRealExitsReported ==
    \A i \in 1 .. Len(events) : events[i] \in died

\* The exits of providers that are reported are the exits that happened.
NativeExitsAreReported == NativeExitReportedOnce /\ OnlyRealExitsReported

\* Liveness: every command is answered, though handlers, notices and watchers
\* compete for the mailbox.
CommandsAreAnswered ==
    \A c \in Clients : client[c].pc # "idle" ~> client[c].pc = "idle"

\* Liveness: a dead main process does not stay the running one.
CrashIsHandled ==
    \A p \in Proc :
        running.main = p /\ p \notin live ~> running.main # p

\* Liveness: a session whose provider is down ends.
ProviderDeathIsHandled ==
    \A g \in Generations :
        running.native = g /\ tunnel = "down" ~> running.native # g

\* Liveness: neither kind of session stays up with a dead process.
DeathsAreHandled == CrashIsHandled /\ ProviderDeathIsHandled

=============================================================================
