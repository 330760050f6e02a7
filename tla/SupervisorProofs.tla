-------------------------- MODULE SupervisorProofs --------------------------
(***************************************************************************)
(* Theorems about Supervisor, for any set of processes, clients and        *)
(* requests, any mailbox and any operating system, with every external     *)
(* call free to fail: typing and the shape of its actor, then its          *)
(* sessions.  No core process and no tunnel escapes it, a new session      *)
(* starts only after the old one has ended, what runs is what was ordered, *)
(* no crash of a core is missed or invented, and an exit of a provider is  *)
(* reported once.                                                          *)
(***************************************************************************)
EXTENDS Supervisor, TLAPS

USE DEF NoGen

-----------------------------------------------------------------------------
(* Typing.                                                                 *)

LEMMA EmptyCoreTyped == EmptyCore \in CoreStates
  BY DEF EmptyCore, CoreStates

LEMMA IdleTyped == Idle \in ActorStates
  BY EmptyCoreTyped DEF Idle, ActorStates

LEMMA InitTyped == Init => TypeOK
<1> SUFFICES ASSUME Init PROVE TypeOK
  OBVIOUS
<1>1. Table!TypeOK
  BY DEF Init, Table!Init, Table!TypeOK
<1>2. client \in [Clients -> [pc : {"idle", "sending", "waiting"},
                              command : Commands \cup {NoRequest},
                              reply : Replies]]
  BY DEF Init, Replies
<1>3. budget \in Nat
  BY SupervisorAssumption DEF Init
<1>4. mailbox \in Seq(Commands) /\ events \in Seq(Nat)
  BY DEF Init
<1> QED
  BY <1>1, <1>2, <1>3, <1>4, EmptyCoreTyped, IdleTyped DEF Init, TypeOK

\* The typing of the handler in progress and of the caller it answers.
LEMMA GotoTyped ==
    ASSUME TypeOK, NEW pc \in {"idle"} \cup StopSteps \cup StartSteps
    PROVE  [actor EXCEPT !.pc = pc] \in ActorStates
  BY DEF TypeOK, ActorStates

LEMMA GotoFailingTyped ==
    ASSUME TypeOK, NEW pc \in StopSteps, NEW fails \in BOOLEAN
    PROVE  [actor EXCEPT !.pc = pc, !.failed = @ \/ fails] \in ActorStates
<1>1. actor.failed \in BOOLEAN
  BY DEF TypeOK, ActorStates
<1>2. (actor.failed \/ fails) \in BOOLEAN
  OBVIOUS
<1> QED
  BY <1>1, <1>2 DEF TypeOK, ActorStates

LEMMA AnswerTyped ==
    ASSUME TypeOK, NEW c, NEW reply \in Replies, Answer(c, reply)
    PROVE  client' \in [Clients -> [pc : {"idle", "sending", "waiting"},
                                    command : Commands \cup {NoRequest},
                                    reply : Replies]]
  BY DEF TypeOK, Answer

LEMMA CoreTyped ==
    ASSUME TypeOK
    PROVE  /\ actor.core \in CoreStates
           /\ actor.request \in Requests \cup {NoRequest}
           /\ actor.toKill \in SUBSET Proc
           /\ actor.failed \in BOOLEAN
           /\ running.elevated \in SUBSET Proc
           /\ running.request \in Requests \cup {NoRequest}
           /\ running.native \in Nat
           /\ actor.core.main \in Proc \cup {NoProc}
           /\ actor.core.pre \in Proc \cup {NoProc}
           /\ actor.core.native \in Nat
           /\ actor.core.elevated \in SUBSET Proc
           /\ actor.core.job \in SUBSET Proc
  BY DEF TypeOK, ActorStates, CoreStates

LEMMA BeginStopTyped ==
    ASSUME TypeOK, NEW goal \in {"stop", "start", "cleanup", "nativeExit"},
           NEW request \in Requests \cup {NoRequest},
           NEW from \in Clients \cup {NoClient},
           BeginStop(goal, request, from)
    PROVE  actor' \in ActorStates /\ running' \in CoreStates
  BY CoreTyped, EmptyCoreTyped DEF TypeOK, BeginStop, ActorStates, StopSteps

LEMMA HeadTyped ==
    ASSUME TypeOK, mailbox # <<>>
    PROVE  Head(mailbox) \in Commands /\ Tail(mailbox) \in Seq(Commands)
  BY DEF TypeOK

LEMMA CommandTyped ==
    ASSUME NEW m \in Commands
    PROVE  /\ m.type \in {"start", "restart"} =>
                 m.request \in Requests /\ m.from \in Clients
           /\ m.type \in {"stop", "status"} => m.from \in Clients
  BY DEF Commands

\* Clients send orders, never the notices of an exit.
LEMMA OrderTyped ==
    ASSUME NEW c \in Clients, NEW m \in ClientCommands(c)
    PROVE  m \in Commands /\ m.type # "exited" /\ m.type # "nativeExited"
  BY DEF ClientCommands, Commands

LEMMA ReceivingTyped ==
    ASSUME TypeOK, mailbox # <<>>, Receiving(Head(mailbox))
    PROVE  TypeOK'
<1> DEFINE m == Head(mailbox)
<1>1. m \in Commands /\ Tail(mailbox) \in Seq(Commands)
  BY HeadTyped
<1>2. CASE HandleStart(m)
  <2>1. actor' \in ActorStates /\ running' \in CoreStates
    BY <1>1, <1>2, CommandTyped, BeginStopTyped DEF HandleStart
  <2> QED
    BY <1>1, <1>2, <2>1 DEF HandleStart, Receive, TypeOK, table, world,
        history, Table!TypeOK
<1>3. CASE HandleStop(m)
  <2>1. actor' \in ActorStates /\ running' \in CoreStates
    BY <1>1, <1>3, CommandTyped, BeginStopTyped DEF HandleStop
  <2> QED
    BY <1>1, <1>3, <2>1 DEF HandleStop, Receive, TypeOK, table, world,
        history, Table!TypeOK
<1>4. CASE HandleStatus(m)
  <2>1. \E reply \in Replies : Answer(m.from, reply)
    BY <1>4 DEF HandleStatus, Replies
  <2> QED
    BY <1>1, <1>4, <2>1, AnswerTyped DEF HandleStatus, Receive, TypeOK, table,
        world, core, history, Table!TypeOK
<1>5. CASE HandleExited(m)
  <2>1. actor' \in ActorStates /\ running' \in CoreStates
    BY <1>5, CoreTyped, BeginStopTyped DEF HandleExited, TypeOK
  <2> QED
    BY <1>1, <1>5, <2>1 DEF HandleExited, Receive, TypeOK, table, world,
        history, Table!TypeOK
<1>6. CASE HandleNativeExited(m)
  <2>1. actor' \in ActorStates /\ running' \in CoreStates
    BY <1>6, BeginStopTyped DEF HandleNativeExited, TypeOK
  <2> QED
    BY <1>1, <1>6, <2>1 DEF HandleNativeExited, Receive, TypeOK, table, world,
        history, Table!TypeOK
<1> QED
  BY <1>2, <1>3, <1>4, <1>5, <1>6 DEF Receiving

LEMMA TableStepTyped ==
    ASSUME TypeOK, NEW p \in Proc,
           \/ Table!Spawn(p) \/ Table!Exit(p) \/ Table!Reap(p)
           \/ Table!Stop(p) \/ Table!StopFails(p)
    PROVE  Table!TypeOK'
  BY DEF TypeOK, Table!TypeOK, Table!Spawn, Table!Exit, Table!Reap,
         Table!Stop, Table!StopFails

LEMMA RunnerStopTyped ==
    ASSUME TypeOK, NEW p \in Proc \cup {NoProc}, NEW next \in StopSteps,
           RunnerStop(p, next)
    PROVE  actor' \in ActorStates /\ Table!TypeOK' /\ mishap' \in BOOLEAN
<1>1. CASE p \notin managed /\ Goto(next)
           /\ UNCHANGED <<fresh, live, managed, notices, mishap>>
  BY <1>1, GotoTyped DEF Goto, TypeOK, Table!TypeOK
<1>2. CASE Table!Stop(p) /\ Goto(next) /\ UNCHANGED mishap
  <2>1. p \in Proc
    BY <1>2 DEF Table!Stop, TypeOK, Table!TypeOK
  <2> QED
    BY <1>2, <2>1, GotoTyped, TableStepTyped DEF Goto, TypeOK
<1>3. CASE Table!StopFails(p) /\ GotoFailing(next, TRUE) /\ mishap' = TRUE
  <2>1. p \in Proc
    BY <1>3 DEF Table!StopFails, TypeOK, Table!TypeOK
  <2> QED
    BY <1>3, <2>1, GotoFailingTyped, TableStepTyped DEF GotoFailing
<1> QED
  BY <1>1, <1>2, <1>3 DEF RunnerStop

LEMMA StoppingTyped ==
    ASSUME TypeOK, Stopping
    PROVE  TypeOK'
<1> USE CoreTyped DEF TypeOK, Table!TypeOK, Replies
<1>1. CASE StopNative
  <2>1. actor' \in ActorStates
    <3>1. CASE Goto("sudoKill")
      BY <3>1, GotoTyped DEF Goto, StopSteps
    <3>2. CASE GotoFailing("sudoKill", TRUE)
      BY <3>2, GotoFailingTyped DEF GotoFailing, StopSteps
    <3> QED
      BY <1>1, <3>1, <3>2 DEF StopNative
  <2>2. tunnel' \in {"down", "up", "stopping"}
    BY <1>1 DEF StopNative
  <2> QED
    BY <1>1, <2>1, <2>2 DEF StopNative, table, calls, history
<1>2. CASE SudoKill
  <2>1. actor' \in ActorStates
    <3>1. CASE Goto("sudoWait")
      BY <3>1, GotoTyped DEF Goto, StopSteps
    <3>2. CASE GotoFailing("stopEnd", TRUE)
      BY <3>2, GotoFailingTyped DEF GotoFailing, StopSteps
    <3>3. CASE actor' = [actor EXCEPT !.toKill = @ \ {NextToKill}]
      BY <3>3 DEF ActorStates
    <3> QED
      BY <1>2, <3>1, <3>2, <3>3 DEF SudoKill
  <2> QED
    BY <1>2, <2>1 DEF SudoKill, world, calls, history
<1>3. CASE SudoWait
  <2>1. actor' \in ActorStates
    <3>1. CASE GotoFailing("stopEnd", TRUE)
      BY <3>1, GotoFailingTyped DEF GotoFailing, StopSteps
    <3>2. CASE actor' = [actor EXCEPT !.pc = "sudoKill",
                                      !.toKill = @ \ {NextToKill}]
      BY <3>2 DEF ActorStates, StopSteps
    <3> QED
      BY <1>3, <3>1, <3>2 DEF SudoWait
  <2> QED
    BY <1>3, <2>1 DEF SudoWait, table, world, calls, history
<1>4. CASE SudoKilledAll
  BY <1>4, GotoTyped
  DEF SudoKilledAll, Goto, StopSteps, table, world, calls, history
<1>5. CASE StopMain
  <2>1. actor' \in ActorStates /\ Table!TypeOK' /\ mishap' \in BOOLEAN
    BY <1>5, RunnerStopTyped DEF StopMain, StopSteps
  <2> QED
    BY <1>5, <2>1 DEF StopMain, world, calls
<1>6. CASE StopPre
  <2>1. actor' \in ActorStates /\ Table!TypeOK' /\ mishap' \in BOOLEAN
    BY <1>6, RunnerStopTyped DEF StopPre, StopSteps
  <2> QED
    BY <1>6, <2>1 DEF StopPre, world, calls
<1>7. CASE StopEndRestore
  BY <1>7, AnswerTyped, IdleTyped
  DEF StopEndRestore, Finish, table, world
<1>8. CASE StopEndStopped
  BY <1>8, AnswerTyped, IdleTyped
  DEF StopEndStopped, Finish, DropJob, world
<1>9. CASE StopEndStart
  <2>1. actor' \in ActorStates
    BY <1>9, EmptyCoreTyped DEF StopEndStart, ActorStates, StartSteps
  <2> QED
    BY <1>9, <2>1 DEF StopEndStart, DropJob, world, calls, history
<1>10. CASE StopEndCleanup
  BY <1>10, AnswerTyped, IdleTyped
  DEF StopEndCleanup, Finish, DropJob, world
<1>11. CASE StopEndNativeExit
  BY <1>11, AnswerTyped, IdleTyped
  DEF StopEndNativeExit, Finish, DropJob, world
<1> QED
  BY <1>1, <1>2, <1>3, <1>4, <1>5, <1>6, <1>7, <1>8, <1>9, <1>10, <1>11
  DEF Stopping

LEMMA FailStartTyped ==
    ASSUME TypeOK, FailStart
    PROVE  TypeOK'
  BY AnswerTyped, IdleTyped
  DEF FailStart, Finish, TypeOK, Replies, table, world, Table!TypeOK

LEMMA BeginCleanupTyped ==
    ASSUME TypeOK, BeginCleanup
    PROVE  TypeOK'
<1>1. actor' \in ActorStates
  BY CoreTyped DEF BeginCleanup, TypeOK, ActorStates, StopSteps
<1> QED
  BY <1>1 DEF BeginCleanup, TypeOK, table, world, calls, history, Table!TypeOK

\* A step of start that only moves the handler on.
LEMMA StartMoveTyped ==
    ASSUME TypeOK, actor' \in ActorStates,
           UNCHANGED <<table, world, calls, running, generation, history>>
    PROVE  TypeOK'
  BY DEF TypeOK, table, world, calls, history, Table!TypeOK

LEMMA SpawnRoleTyped ==
    ASSUME TypeOK, NEW p \in Proc, NEW role \in Roles, NEW next \in StartSteps,
           SpawnRole(p, role, next)
    PROVE  TypeOK'
<1>1. Table!TypeOK'
  BY TableStepTyped DEF SpawnRole
<1>2. actor' \in ActorStates
  <2> DEFINE elevated == IF UsesSudo(actor.request)
                         THEN actor.core.elevated \cup {p}
                         ELSE actor.core.elevated
             main == IF role = "main" THEN p ELSE actor.core.main
             pre == IF role = "pre" THEN p ELSE actor.core.pre
  <2>1. elevated \in SUBSET Proc
    BY CoreTyped
  <2>2. main \in Proc \cup {NoProc} /\ pre \in Proc \cup {NoProc}
    BY CoreTyped
  <2>3. actor' = [actor EXCEPT !.pc = next, !.core.main = main,
                               !.core.pre = pre, !.core.elevated = elevated]
    BY DEF SpawnRole
  <2> HIDE DEF elevated, main, pre
  <2>4. [actor.core EXCEPT !.main = main, !.pre = pre, !.elevated = elevated]
            \in CoreStates
    BY <2>1, <2>2, CoreTyped DEF CoreStates
  <2> QED
    BY <2>3, <2>4 DEF TypeOK, ActorStates
<1> QED
  BY <1>1, <1>2 DEF SpawnRole, TypeOK, world, calls, history

LEMMA AssignTyped ==
    ASSUME TypeOK, NEW p \in Proc, NEW next \in StartSteps, Assign(p, next)
    PROVE  TypeOK'
<1> DEFINE job == IF UsesJob THEN actor.core.job \cup {p} ELSE actor.core.job
<1>1. job \in SUBSET Proc
  BY CoreTyped
<1>2. actor' = [actor EXCEPT !.pc = next, !.core.job = job]
  BY DEF Assign
<1> HIDE DEF job
<1>3. [actor.core EXCEPT !.job = job] \in CoreStates
  BY <1>1, CoreTyped DEF CoreStates
<1>4. actor' \in ActorStates
  BY <1>2, <1>3 DEF TypeOK, ActorStates
<1> QED
  BY <1>4, StartMoveTyped DEF Assign

-----------------------------------------------------------------------------
(* The shape of the running core and of the one a handler works on.        *)

\* A pre-socks core has a main core beside it; a native session has no
\* processes; only tracked handles are elevated.
CoreShape(c) ==
    /\ c.main = NoProc => c.pre = NoProc
    /\ c.native # NoGen => c.main = NoProc /\ c.native <= generation
    /\ c.elevated \subseteq Handles(c)

ActorShape ==
    /\ CoreShape(running)
    /\ CoreShape(actor.core)
    /\ actor.toKill \subseteq Handles(actor.core)
    /\ actor.pc = "idle" => actor = Idle
    /\ actor.pc # "idle" => running = EmptyCore
    /\ actor.pc \in {"prepare", "startNative"} => actor.core = EmptyCore
    /\ actor.pc = "spawnMain" => actor.core.main = NoProc
    /\ actor.pc \in {"assignMain", "spawnPre"} =>
           actor.core.main \in Proc /\ actor.core.pre = NoProc
    /\ actor.pc = "assignPre" =>
           actor.core.main \in Proc /\ actor.core.pre \in Proc
    /\ actor.pc = "commit" => actor.core.main \in Proc
    /\ actor.pc \in StartSteps => actor.core.native = NoGen

ClientShape ==
    \A c \in Clients :
        client[c].pc = "sending" => client[c].command \in ClientCommands(c)

Shape == ActorShape /\ ClientShape

LEMMA StartingTyped ==
    ASSUME TypeOK, Shape, Starting
    PROVE  TypeOK'
<1> USE CoreTyped
<1>1. CASE Prepare
  <2>1. CASE FailStart
    BY <2>1, FailStartTyped
  <2>2. CASE Goto("startNative")
             /\ UNCHANGED <<table, world, calls, running, generation, history>>
    BY <2>2, GotoTyped, StartMoveTyped DEF Goto, StartSteps
  <2>3. CASE /\ actor' = [actor EXCEPT !.pc = "spawnMain",
                    !.core = [EmptyCore EXCEPT !.request = actor.request]]
             /\ UNCHANGED <<table, world, calls, running, generation, history>>
    <3>1. actor' \in ActorStates
      BY <2>3 DEF TypeOK, ActorStates, CoreStates, EmptyCore, StartSteps
    <3> QED
      BY <2>3, <3>1, StartMoveTyped
  <2> QED
    BY <1>1, <2>1, <2>2, <2>3 DEF Prepare
<1>2. CASE StartNative
  <2> DEFINE g == generation + 1
  <2>1. g \in Nat
    BY DEF TypeOK
  <2>2. /\ running' = [EmptyCore EXCEPT !.native = g, !.request = actor.request]
        /\ generation' = g /\ watchers' = watchers \cup {g}
        /\ tunnel' = "up" /\ wanted' = actor.request /\ halfStopped' = FALSE
        /\ Answer(actor.from, "ok") /\ actor' = Idle
        /\ UNCHANGED <<table, granted, alarms, mailbox, budget, crashed, died,
                       events, mishap>>
    BY <1>2 DEF StartNative, Finish
  <2> HIDE DEF g
  <2>3. running' \in CoreStates
    BY <2>1, <2>2 DEF CoreStates, EmptyCore
  <2> QED
    BY <2>1, <2>2, <2>3, AnswerTyped, IdleTyped
    DEF TypeOK, Replies, table, Table!TypeOK
<1>3. CASE StartNativeFails
  BY <1>3, FailStartTyped DEF StartNativeFails
<1>4. CASE SpawnMain
  BY <1>4, FailStartTyped, SpawnRoleTyped DEF SpawnMain, StartSteps, Roles
<1>5. CASE AssignMain
  <2>1. actor.core.main \in Proc
    BY <1>5 DEF AssignMain, Shape, ActorShape
  <2> QED
    BY <1>5, <2>1, AssignTyped, BeginCleanupTyped DEF AssignMain, StartSteps
<1>6. CASE SpawnPre
  <2>1. CASE Goto("commit")
             /\ UNCHANGED <<table, world, calls, running, generation, history>>
    BY <2>1, GotoTyped, StartMoveTyped DEF Goto, StartSteps
  <2>2. CASE \E p \in Proc : SpawnRole(p, "pre", "assignPre")
    BY <2>2, SpawnRoleTyped DEF StartSteps, Roles
  <2>3. CASE BeginCleanup
    BY <2>3, BeginCleanupTyped
  <2> QED
    BY <1>6, <2>1, <2>2, <2>3 DEF SpawnPre
<1>7. CASE AssignPre
  <2>1. actor.core.pre \in Proc
    BY <1>7 DEF AssignPre, Shape, ActorShape
  <2> QED
    BY <1>7, <2>1, AssignTyped, BeginCleanupTyped DEF AssignPre, StartSteps
<1>8. CASE Commit
  <2>1. running' \in CoreStates
    BY <1>8 DEF Commit
  <2>2. wanted' \in Requests \cup {NoRequest}
    BY <1>8 DEF Commit, TypeOK
  <2> QED
    BY <1>8, <2>1, <2>2, AnswerTyped, IdleTyped
    DEF Commit, Finish, TypeOK, Replies, table, world, Table!TypeOK
<1> QED
  BY <1>1, <1>2, <1>3, <1>4, <1>5, <1>6, <1>7, <1>8 DEF Starting

LEMMA EnvironmentTyped ==
    ASSUME TypeOK, Environment
    PROVE  TypeOK'
<1>1. ASSUME NEW p \in Proc, Crash(p) PROVE TypeOK'
  BY <1>1, TableStepTyped DEF Crash, TypeOK, world, calls, core
<1>2. ASSUME NEW p \in Proc, Reap(p) PROVE TypeOK'
  BY <1>2, TableStepTyped DEF Reap, TypeOK, world, calls, core
<1>3. CASE TunnelDies
  BY <1>3 DEF TunnelDies, TypeOK, table, calls, core, Table!TypeOK
<1>4. CASE TunnelStops
  BY <1>4 DEF TunnelStops, TypeOK, table, calls, core, history, Table!TypeOK
<1>5. ASSUME NEW g \in BOOLEAN, SetGrant(g) PROVE TypeOK'
  BY <1>5 DEF SetGrant, TypeOK, table, calls, core, history, Table!TypeOK
<1>6. ASSUME NEW g \in watchers, WatcherSees(g) PROVE TypeOK'
  BY <1>6 DEF WatcherSees, TypeOK, table, calls, core, Table!TypeOK
<1> QED
  BY <1>1, <1>2, <1>3, <1>4, <1>5, <1>6 DEF Environment

LEMMA DeliveryTyped ==
    ASSUME TypeOK, Shape, Delivery
    PROVE  TypeOK'
<1>1. ASSUME NEW c \in Clients, Send(c) PROVE TypeOK'
  <2>1. client[c].command \in Commands
    BY <1>1, OrderTyped DEF Send, Shape, ClientShape
  <2>2. mailbox' \in Seq(Commands)
    BY <1>1, <2>1 DEF Send, TypeOK
  <2>3. client' \in [Clients -> [pc : {"idle", "sending", "waiting"},
                                command : Commands \cup {NoRequest},
                                reply : Replies]]
    BY <1>1 DEF Send, TypeOK
  <2>4. UNCHANGED <<table, world, budget, core, history>>
    BY <1>1 DEF Send
  <2> QED
    BY <2>2, <2>3, <2>4
    DEF TypeOK, table, world, core, history, Table!TypeOK
<1>2. ASSUME NEW p \in Proc, SendExited(p) PROVE TypeOK'
  <2>1. [type |-> "exited", proc |-> p] \in Commands
    BY DEF Commands
  <2> QED
    BY <1>2, <2>1 DEF SendExited, TypeOK, world, core, history, Table!TypeOK
<1>3. ASSUME NEW g \in alarms, SendNativeExited(g) PROVE TypeOK'
  <2>1. [type |-> "nativeExited", generation |-> g] \in Commands
    BY DEF Commands, TypeOK
  <2> QED
    BY <1>3, <2>1
    DEF SendNativeExited, TypeOK, table, core, history, Table!TypeOK
<1> QED
  BY <1>1, <1>2, <1>3 DEF Delivery

LEMMA CallTyped ==
    ASSUME TypeOK, NEW c \in Clients, NEW m \in ClientCommands(c), Call(c, m)
    PROVE  TypeOK'
<1>1. m \in Commands
  BY OrderTyped
<1>2. client' \in [Clients -> [pc : {"idle", "sending", "waiting"},
                              command : Commands \cup {NoRequest},
                              reply : Replies]]
  BY <1>1 DEF Call, TypeOK
<1>3. budget' \in Nat
  BY DEF Call, TypeOK
<1> QED
  BY <1>2, <1>3 DEF Call, TypeOK, table, world, core, history, Table!TypeOK

LEMMA TypeStep ==
    ASSUME TypeOK, Shape, [Next]_vars
    PROVE  TypeOK'
<1>1. CASE ActorStep
  BY <1>1, ReceivingTyped, StoppingTyped, StartingTyped DEF ActorStep
<1>2. CASE UNCHANGED vars
  BY <1>2 DEF vars, TypeOK, table, world, calls, core, history, Table!TypeOK
<1> QED
  BY <1>1, <1>2, EnvironmentTyped, DeliveryTyped, CallTyped DEF Next

LEMMA InitShape == Init => Shape
  BY DEF Init, Shape, ActorShape, ClientShape, CoreShape, Idle, EmptyCore,
         Handles, StartSteps

\* Steps that leave the supervisor's own variables alone.
LEMMA ActorShapeUnchanged ==
    ASSUME ActorShape, UNCHANGED core
    PROVE  ActorShape'
  BY DEF core, ActorShape, CoreShape, Handles

LEMMA BeginStopShape ==
    ASSUME TypeOK, ActorShape, actor.pc = "idle", UNCHANGED generation,
           NEW goal, NEW request, NEW from, BeginStop(goal, request, from)
    PROVE  ActorShape'
  BY CoreTyped DEF BeginStop, ActorShape, CoreShape, Handles, EmptyCore,
                   StartSteps

LEMMA ReceivingShape ==
    ASSUME TypeOK, ActorShape, NEW m, Receiving(m)
    PROVE  ActorShape'
<1>1. CASE HandleStart(m)
  BY <1>1, BeginStopShape DEF HandleStart, Receive
<1>2. CASE HandleStop(m)
  BY <1>2, BeginStopShape DEF HandleStop, Receive
<1>3. CASE HandleStatus(m)
  BY <1>3, ActorShapeUnchanged DEF HandleStatus
<1>4. CASE HandleExited(m)
  BY <1>4, BeginStopShape, ActorShapeUnchanged DEF HandleExited, Receive, core
<1>5. CASE HandleNativeExited(m)
  BY <1>5, BeginStopShape, ActorShapeUnchanged
  DEF HandleNativeExited, Receive, core
<1> QED
  BY <1>1, <1>2, <1>3, <1>4, <1>5 DEF Receiving

\* A step of stop_running that stays in it keeps the core it works on.
LEMMA StopMoveShape ==
    ASSUME TypeOK, ActorShape, actor.pc \in StopSteps,
           NEW pc \in StopSteps, NEW toKill \in SUBSET actor.toKill, NEW failed,
           actor' = [actor EXCEPT !.pc = pc, !.toKill = toKill,
                                  !.failed = failed],
           UNCHANGED <<running, generation>>
    PROVE  ActorShape'
<1>1. actor'.core = actor.core /\ actor'.toKill = toKill /\ actor'.pc = pc
  BY DEF TypeOK, ActorStates
<1>2. pc # "idle" /\ pc \notin StartSteps
  BY DEF StopSteps, StartSteps
<1>3. actor.pc # "idle"
  BY DEF StopSteps
<1> QED
  BY <1>1, <1>2, <1>3 DEF ActorShape, CoreShape, Handles, StartSteps

LEMMA GotoShape ==
    ASSUME TypeOK, ActorShape, actor.pc \in StopSteps, NEW pc \in StopSteps,
           UNCHANGED <<running, generation>>,
           Goto(pc) \/ GotoFailing(pc, TRUE)
    PROVE  ActorShape'
<1> DEFINE f == actor'.failed
<1>1. actor' = [actor EXCEPT !.pc = pc, !.toKill = actor.toKill, !.failed = f]
  BY DEF Goto, GotoFailing, TypeOK, ActorStates
<1> HIDE DEF f
<1> QED
  BY <1>1, StopMoveShape

\* A handler that ends leaves an empty actor.
LEMMA FinishShape ==
    ASSUME ActorShape, actor' = Idle, CoreShape(running)'
    PROVE  ActorShape'
  BY DEF ActorShape, CoreShape, Idle, EmptyCore, Handles, StartSteps

LEMMA StoppingShape ==
    ASSUME TypeOK, ActorShape, Stopping
    PROVE  ActorShape'
<1> USE CoreTyped
<1>1. CASE StopNative
  BY <1>1, GotoShape DEF StopNative, StopSteps
<1>2. CASE SudoKill
  <2>1. CASE actor' = [actor EXCEPT !.toKill = @ \ {NextToKill}]
    <3>1. actor' = [actor EXCEPT !.pc = actor.pc,
                                 !.toKill = actor.toKill \ {NextToKill},
                                 !.failed = actor.failed]
      BY <2>1 DEF TypeOK, ActorStates
    <3> QED
      BY <1>2, <3>1, StopMoveShape DEF SudoKill, StopSteps
  <2> QED
    BY <1>2, <2>1, GotoShape DEF SudoKill, StopSteps
<1>3. CASE SudoWait
  <2>1. CASE actor' = [actor EXCEPT !.pc = "sudoKill",
                                    !.toKill = @ \ {NextToKill}]
    <3>1. actor' = [actor EXCEPT !.pc = "sudoKill",
                                 !.toKill = actor.toKill \ {NextToKill},
                                 !.failed = actor.failed]
      BY <2>1 DEF TypeOK, ActorStates
    <3> QED
      BY <1>3, <3>1, StopMoveShape DEF SudoWait, StopSteps
  <2> QED
    BY <1>3, <2>1, GotoShape DEF SudoWait, StopSteps
<1>4. CASE SudoKilledAll
  BY <1>4, GotoShape DEF SudoKilledAll, StopSteps
<1>5. CASE StopMain
  BY <1>5, GotoShape DEF StopMain, RunnerStop, StopSteps
<1>6. CASE StopPre
  BY <1>6, GotoShape DEF StopPre, RunnerStop, StopSteps
<1>7. CASE StopEndRestore
  <2>1. CoreShape(running)'
    BY <1>7 DEF StopEndRestore, ActorShape, CoreShape, Handles
  <2> QED
    BY <1>7, <2>1, FinishShape DEF StopEndRestore, Finish
<1>8. CASE StopEndStart
  <2>1. actor'.pc = "prepare" /\ actor'.core = EmptyCore
        /\ actor'.toKill = {} /\ UNCHANGED <<running, generation>>
    BY <1>8 DEF StopEndStart, TypeOK, ActorStates
  <2> QED
    BY <1>8, <2>1
    DEF StopEndStart, ActorShape, CoreShape, EmptyCore, Handles, StartSteps
<1>9. CASE StopEndStopped \/ StopEndCleanup \/ StopEndNativeExit
  <2>1. CoreShape(running)'
    BY <1>9 DEF StopEndStopped, StopEndCleanup, StopEndNativeExit, ActorShape,
                CoreShape, Handles
  <2> QED
    BY <1>9, <2>1, FinishShape
    DEF StopEndStopped, StopEndCleanup, StopEndNativeExit, Finish
<1> QED
  BY <1>1, <1>2, <1>3, <1>4, <1>5, <1>6, <1>7, <1>8, <1>9 DEF Stopping

LEMMA StartingShape ==
    ASSUME TypeOK, ActorShape, Starting
    PROVE  ActorShape'
<1> USE CoreTyped
<1>1. ASSUME FailStart, actor.pc # "idle" PROVE ActorShape'
  <2>1. CoreShape(running)'
    BY <1>1 DEF FailStart, ActorShape, CoreShape, Handles
  <2> QED
    BY <1>1, <2>1, FinishShape DEF FailStart, Finish
<1>2. ASSUME BeginCleanup, actor.pc \in StartSteps PROVE ActorShape'
  <2>1. /\ actor'.pc = "stopNative" /\ actor'.core = actor.core
        /\ actor'.toKill = actor.core.elevated
        /\ UNCHANGED <<running, generation>>
    BY <1>2 DEF BeginCleanup, TypeOK, ActorStates
  <2> QED
    BY <1>2, <2>1 DEF ActorShape, CoreShape, Handles, StartSteps
<1>3. CASE Prepare
  <2>1. CASE actor' = [actor EXCEPT !.pc = "spawnMain",
                    !.core = [EmptyCore EXCEPT !.request = actor.request]]
             /\ UNCHANGED <<table, world, calls, running, generation, history>>
    <3>1. /\ actor'.pc = "spawnMain" /\ actor'.toKill = actor.toKill
          /\ actor'.core = [EmptyCore EXCEPT !.request = actor.request]
      BY <2>1 DEF TypeOK, ActorStates
    <3> QED
      BY <1>3, <2>1, <3>1
      DEF Prepare, ActorShape, CoreShape, Handles, EmptyCore, StartSteps
  <2>2. CASE Goto("startNative")
             /\ UNCHANGED <<table, world, calls, running, generation, history>>
    <3>1. /\ actor'.pc = "startNative" /\ actor'.toKill = actor.toKill
          /\ actor'.core = actor.core
      BY <2>2 DEF Goto, TypeOK, ActorStates
    <3> QED
      BY <1>3, <2>2, <3>1
      DEF Prepare, ActorShape, CoreShape, Handles, StartSteps
  <2> QED
    BY <1>1, <1>3, <2>1, <2>2 DEF Prepare
<1>4. CASE StartNative
  <2>1. CoreShape(running)'
    <3> DEFINE g == generation + 1
    <3>1. g \in Nat /\ g <= g /\ generation' = g
      BY <1>4 DEF TypeOK, StartNative
    <3>2. running' = [EmptyCore EXCEPT !.native = g, !.request = actor.request]
      BY <1>4 DEF StartNative
    <3> HIDE DEF g
    <3> QED
      BY <3>1, <3>2 DEF CoreShape, EmptyCore, Handles
  <2> QED
    BY <1>4, <2>1, FinishShape DEF StartNative, Finish
<1>5. CASE StartNativeFails
  BY <1>1, <1>5 DEF StartNativeFails
<1>6. ASSUME NEW p \in Proc, SpawnRole(p, "main", "assignMain"),
             actor.pc = "spawnMain"
      PROVE  ActorShape'
  <2> DEFINE elevated == IF UsesSudo(actor.request)
                         THEN actor.core.elevated \cup {p}
                         ELSE actor.core.elevated
  <2>1. /\ actor'.pc = "assignMain" /\ actor'.toKill = actor.toKill
        /\ actor'.core = [actor.core EXCEPT !.main = p, !.elevated = elevated]
        /\ UNCHANGED <<running, generation>>
    BY <1>6 DEF SpawnRole, TypeOK, ActorStates, CoreStates
  <2>2. elevated \subseteq actor.core.elevated \cup {p}
    OBVIOUS
  <2> HIDE DEF elevated
  <2>3. /\ actor'.core.main = p /\ actor'.core.pre = actor.core.pre
        /\ actor'.core.elevated = elevated
        /\ actor'.core.native = actor.core.native
    BY <2>1 DEF TypeOK, ActorStates, CoreStates
  <2> QED
    BY <1>6, <2>1, <2>2, <2>3, SupervisorAssumption
    DEF ActorShape, CoreShape, Handles, StartSteps
<1>7. ASSUME NEW p \in Proc, SpawnRole(p, "pre", "assignPre"),
             actor.pc = "spawnPre"
      PROVE  ActorShape'
  <2> DEFINE elevated == IF UsesSudo(actor.request)
                         THEN actor.core.elevated \cup {p}
                         ELSE actor.core.elevated
  <2>1. /\ actor'.pc = "assignPre" /\ actor'.toKill = actor.toKill
        /\ actor'.core = [actor.core EXCEPT !.pre = p, !.elevated = elevated]
        /\ UNCHANGED <<running, generation>>
    BY <1>7 DEF SpawnRole, TypeOK, ActorStates, CoreStates
  <2>2. elevated \subseteq actor.core.elevated \cup {p}
    OBVIOUS
  <2> HIDE DEF elevated
  <2>3. /\ actor'.core.main = actor.core.main /\ actor'.core.pre = p
        /\ actor'.core.elevated = elevated
        /\ actor'.core.native = actor.core.native
    BY <2>1 DEF TypeOK, ActorStates, CoreStates
  <2> QED
    BY <1>7, <2>1, <2>2, <2>3, SupervisorAssumption
    DEF ActorShape, CoreShape, Handles, StartSteps
<1>8. CASE SpawnMain
  BY <1>1, <1>6, <1>8 DEF SpawnMain
<1>9. ASSUME NEW next, Assign(NoProc, next) \/ \E p \in Proc : Assign(p, next),
             \/ actor.pc = "assignMain" /\ next = "spawnPre"
             \/ actor.pc = "assignPre" /\ next = "commit"
      PROVE  ActorShape'
  <2>1. PICK p : Assign(p, next)
    BY <1>9
  <2> DEFINE job == IF UsesJob THEN actor.core.job \cup {p} ELSE actor.core.job
  <2>2. /\ actor' = [actor EXCEPT !.pc = next, !.core.job = job]
        /\ UNCHANGED <<running, generation>>
    BY <2>1 DEF Assign
  <2> HIDE DEF job
  <2>3. /\ actor'.pc = next /\ actor'.toKill = actor.toKill
        /\ actor'.core = [actor.core EXCEPT !.job = job]
    BY <2>2 DEF TypeOK, ActorStates
  <2>4. /\ actor'.core.main = actor.core.main
        /\ actor'.core.pre = actor.core.pre
        /\ actor'.core.elevated = actor.core.elevated
        /\ actor'.core.native = actor.core.native
    BY <2>3 DEF TypeOK, ActorStates, CoreStates
  <2> QED
    BY <1>9, <2>2, <2>3, <2>4 DEF ActorShape, CoreShape, Handles, StartSteps
<1>10. CASE AssignMain
  BY <1>2, <1>9, <1>10 DEF AssignMain, StartSteps
<1>11. CASE SpawnPre
  <2>1. CASE Goto("commit")
             /\ UNCHANGED <<table, world, calls, running, generation, history>>
    <3>1. /\ actor'.pc = "commit" /\ actor'.toKill = actor.toKill
          /\ actor'.core = actor.core
      BY <2>1 DEF Goto, TypeOK, ActorStates
    <3> QED
      BY <1>11, <2>1, <3>1
      DEF SpawnPre, ActorShape, CoreShape, Handles, StartSteps
  <2> QED
    BY <1>2, <1>7, <1>11, <2>1 DEF SpawnPre, StartSteps
<1>12. CASE AssignPre
  BY <1>2, <1>9, <1>12 DEF AssignPre, StartSteps
<1>13. CASE Commit
  <2>1. CoreShape(running)'
    BY <1>13 DEF Commit, ActorShape, CoreShape, Handles
  <2> QED
    BY <1>13, <2>1, FinishShape DEF Commit, Finish
<1> QED
  BY <1>3, <1>4, <1>5, <1>8, <1>10, <1>11, <1>12, <1>13 DEF Starting

LEMMA ClientShapeStep ==
    ASSUME TypeOK, ClientShape, [Next]_vars
    PROVE  ClientShape'
<1>1. ASSUME NEW c, NEW reply, Answer(c, reply) PROVE ClientShape'
  BY <1>1 DEF Answer, ClientShape
<1>2. ASSUME NEW c \in Clients, NEW m \in ClientCommands(c), Call(c, m)
      PROVE  ClientShape'
  BY <1>2 DEF Call, ClientShape, TypeOK
<1>3. ASSUME NEW c \in Clients, Send(c) PROVE ClientShape'
  BY <1>3 DEF Send, ClientShape, TypeOK
<1>4. CASE UNCHANGED client
  BY <1>4 DEF ClientShape
<1>5. CASE ActorStep
  <2>1. UNCHANGED client \/ \E c, reply : Answer(c, reply)
    <3>1. CASE Receiving(Head(mailbox))
      BY <3>1 DEF Receiving, HandleStart, HandleStop, HandleStatus,
                  HandleExited, HandleNativeExited
    <3>2. CASE Stopping
      BY <3>2 DEF Stopping, StopNative, SudoKill, SudoWait, SudoKilledAll,
                  StopMain, StopPre, StopEndRestore, StopEndStopped,
                  StopEndStart, StopEndCleanup, StopEndNativeExit, Finish,
                  calls
    <3>3. CASE Starting
      BY <3>3 DEF Starting, Prepare, StartNative, StartNativeFails, SpawnMain,
                  AssignMain, SpawnPre, AssignPre, Commit, FailStart,
                  SpawnRole, Assign, BeginCleanup, Finish, calls
    <3> QED
      BY <1>5, <3>1, <3>2, <3>3 DEF ActorStep
  <2> QED
    BY <1>1, <1>4, <2>1
<1> QED
  BY <1>2, <1>3, <1>4, <1>5
  DEF Next, Environment, Delivery, Crash, Reap, TunnelDies, TunnelStops,
      SetGrant, WatcherSees, SendExited, SendNativeExited, vars, calls

LEMMA ShapeStep ==
    ASSUME TypeOK, Shape, [Next]_vars
    PROVE  Shape'
<1>1. ActorShape'
  <2>1. CASE ActorStep
    BY <2>1, ReceivingShape, StoppingShape, StartingShape DEF ActorStep, Shape
  <2>2. CASE UNCHANGED core
    BY <2>2, ActorShapeUnchanged DEF Shape
  <2> QED
    BY <2>1, <2>2
    DEF Next, Environment, Delivery, Crash, Reap, TunnelDies, TunnelStops,
        SetGrant, WatcherSees, Send, SendExited, SendNativeExited, Call,
        vars, core
<1> QED
  BY <1>1, ClientShapeStep DEF Shape

-----------------------------------------------------------------------------
IInv == TypeOK /\ Shape

LEMMA IInvInvariant == Spec => []IInv
<1>1. Init => IInv
  BY InitTyped, InitShape DEF IInv
<1>2. IInv /\ [Next]_vars => IInv'
  BY TypeStep, ShapeStep DEF IInv
<1> QED
  BY <1>1, <1>2, PTL DEF Spec

\* Type correctness of the supervisor.
THEOREM SupervisorTypeCorrect == Spec => []TypeOK
<1>1. IInv => TypeOK
  BY DEF IInv
<1> QED
  BY IInvInvariant, <1>1, PTL

\* sudo_kill finds the target of every handle it is asked to kill, in the
\* running core and in a partially started one.
THEOREM SudoTargetsKnown == Spec => []SudoTargetsAreTracked
<1>1. IInv => SudoTargetsAreTracked
  BY DEF IInv, Shape, ActorShape, CoreShape, SudoTargetsAreTracked
<1> QED
  BY IInvInvariant, <1>1, PTL

-----------------------------------------------------------------------------
(* The strengthening.                                                      *)

\* The processes: while no handle was dropped the runner manages whatever
\* runs, and the steps of stop_running leave nothing behind.
ProcessInv ==
    /\ live \subseteq managed
    /\ live \subseteq Owned
    /\ actor.pc = "stopPre" => actor.core.main \notin live
    /\ actor.pc = "stopEnd" /\ ~actor.failed =>
           actor.core.main \notin live /\ actor.core.pre \notin live

\* The tunnel: it belongs to the generation a core tracks, until the provider
\* has been asked to stop.
TunnelInv ==
    tunnel = "up" =>
        /\ generation # NoGen
        /\ generation \in {running.native, actor.core.native}
        /\ ~(/\ actor.pc \in StopSteps \ {"stopNative"}
             /\ ~actor.failed
             /\ actor.core.native # NoGen)

SessionInv == ~mishap => ProcessInv /\ TunnelInv

\* The orders: a restart after a crash carries the request that is wanted.
WantedInv ==
    /\ actor.pc = "idle" /\ Connected(running) => running.request = wanted
    /\ /\ actor.pc \in StopSteps
       /\ actor.goal # "cleanup"
       /\ Connected(actor.core)
       => actor.core.request = wanted
    /\ actor.pc # "idle" /\ actor.goal = "start" /\ actor.from = NoClient
           => actor.request = wanted
    /\ actor.pc \in StartSteps => actor.goal = "start"
    /\ actor.pc \in {"spawnMain", "assignMain", "spawnPre", "assignPre",
                     "commit"}
           => actor.core.request = actor.request

-----------------------------------------------------------------------------
(* What the steps do to the handler in progress.                           *)

LEMMA MoveFacts ==
    ASSUME TypeOK, NEW pc, Goto(pc) \/ GotoFailing(pc, TRUE)
    PROVE  /\ actor'.pc = pc
           /\ actor'.core = actor.core
           /\ actor'.goal = actor.goal
           /\ actor'.request = actor.request
           /\ actor'.from = actor.from
           /\ Goto(pc) => actor'.failed = actor.failed
           /\ GotoFailing(pc, TRUE) => actor'.failed = TRUE
  BY DEF Goto, GotoFailing, TypeOK, ActorStates

LEMMA IdleFacts ==
    /\ Idle.pc = "idle" /\ Idle.core = EmptyCore
    /\ EmptyCore.main = NoProc /\ EmptyCore.pre = NoProc
    /\ EmptyCore.native = NoGen
    /\ Handles(EmptyCore) = {}
    /\ ~Connected(EmptyCore)
  BY DEF Idle, EmptyCore, Handles, Connected

\* NoProc is no process, so it never runs.
LEMMA NoProcFacts ==
    ASSUME TypeOK
    PROVE  /\ NoProc \notin live /\ NoProc \notin managed
           /\ live \subseteq Proc /\ managed \subseteq Proc
  BY SupervisorAssumption DEF TypeOK, Table!TypeOK

-----------------------------------------------------------------------------
(* Steps of the environment and of the senders.                            *)

LEMMA SessionUnchanged ==
    ASSUME ProcessInv, TunnelInv,
           UNCHANGED <<managed, core>>,
           live' \subseteq live,
           tunnel' = tunnel \/ tunnel' # "up"
    PROVE  ProcessInv' /\ TunnelInv'
  BY DEF ProcessInv, TunnelInv, Owned, Handles, core

LEMMA SessionEnvironment ==
    ASSUME TypeOK, ProcessInv, TunnelInv, Environment \/ Delivery, ~mishap'
    PROVE  ProcessInv' /\ TunnelInv'
<1>1. ASSUME NEW p \in Proc, Crash(p) PROVE ProcessInv' /\ TunnelInv'
  BY <1>1, SessionUnchanged DEF Crash, Table!Exit, world
<1>2. ASSUME NEW p \in Proc, Reap(p) PROVE ProcessInv' /\ TunnelInv'
  <2>1. p \notin live
    BY <1>2 DEF Reap
  <2> QED
    BY <1>2, <2>1
    DEF Reap, Table!Reap, ProcessInv, TunnelInv, Owned, Handles, world, core
<1>3. CASE TunnelDies
  BY <1>3, SessionUnchanged DEF TunnelDies, table
<1>4. CASE TunnelStops
  BY <1>4, SessionUnchanged DEF TunnelStops, table
<1>5. ASSUME NEW g \in BOOLEAN, SetGrant(g) PROVE ProcessInv' /\ TunnelInv'
  BY <1>5, SessionUnchanged DEF SetGrant, table
<1>6. ASSUME NEW g \in watchers, WatcherSees(g)
      PROVE  ProcessInv' /\ TunnelInv'
  BY <1>6, SessionUnchanged DEF WatcherSees, table
<1>7. CASE Delivery
  BY <1>7, SessionUnchanged
  DEF Delivery, Send, SendExited, SendNativeExited, table, world
<1> QED
  BY <1>1, <1>2, <1>3, <1>4, <1>5, <1>6, <1>7 DEF Environment

LEMMA SessionCall ==
    ASSUME ProcessInv, TunnelInv, NEW c, NEW m, Call(c, m)
    PROVE  ProcessInv' /\ TunnelInv'
  BY SessionUnchanged DEF Call, table, world

-----------------------------------------------------------------------------
(* Steps of the actor.                                                     *)

LEMMA SessionReceiving ==
    ASSUME TypeOK, Shape, ProcessInv, TunnelInv, NEW m, Receiving(m)
    PROVE  ProcessInv' /\ TunnelInv'
<1>1. ASSUME NEW goal, NEW request, NEW from, BeginStop(goal, request, from),
             actor.pc = "idle", UNCHANGED <<table, world, generation>>
      PROVE  ProcessInv' /\ TunnelInv'
  BY <1>1, IdleFacts
  DEF BeginStop, ProcessInv, TunnelInv, Owned, Handles, Shape, ActorShape,
      table, world
<1>2. CASE UNCHANGED <<table, world, core>>
  BY <1>2, SessionUnchanged DEF table, world
<1> QED
  BY <1>1, <1>2 DEF Receiving, HandleStart, HandleStop, HandleStatus,
     HandleExited, HandleNativeExited, Receive, core

\* runner.stop leaves nothing of p running, or drops it.
LEMMA RunnerStopFacts ==
    ASSUME TypeOK, ProcessInv, NEW p \in Proc \cup {NoProc}, NEW next,
           RunnerStop(p, next), ~mishap'
    PROVE  /\ p \notin live'
           /\ live' \subseteq live
           /\ live' \subseteq managed'
           /\ actor'.pc = next
           /\ actor'.core = actor.core
           /\ actor'.failed = actor.failed
<1>1. CASE p \notin managed /\ Goto(next)
           /\ UNCHANGED <<fresh, live, managed, notices, mishap>>
  BY <1>1, MoveFacts DEF ProcessInv
<1>2. CASE Table!Stop(p) /\ Goto(next) /\ UNCHANGED mishap
  BY <1>2, MoveFacts DEF ProcessInv, Table!Stop
<1> QED
  BY <1>1, <1>2 DEF RunnerStop

\* A step within stop_running that keeps the core it works on.
LEMMA SessionStopping ==
    ASSUME TypeOK, Shape, ProcessInv, TunnelInv, ~mishap', Stopping
    PROVE  ProcessInv' /\ TunnelInv'
<1> USE CoreTyped, NoProcFacts, IdleFacts
<1>1. CASE StopNative
  <2>1. /\ actor'.pc = "sudoKill" /\ actor'.core = actor.core
        /\ \/ actor.core.native = NoGen /\ UNCHANGED tunnel
           \/ tunnel' # "up"
           \/ actor'.failed
        /\ tunnel' = "up" => tunnel = "up"
        /\ UNCHANGED <<running, generation, live, managed>>
    BY <1>1, MoveFacts DEF StopNative, table
  <2> QED
    BY <2>1 DEF ProcessInv, TunnelInv, Owned, Handles
<1>2. CASE SudoKill \/ SudoWait \/ SudoKilledAll
  <2>1. /\ actor'.core = actor.core
        /\ actor'.pc \in {"sudoKill", "sudoWait", "stopMain", "stopEnd"}
        /\ actor'.failed = actor.failed \/ actor'.failed = TRUE
        /\ actor'.pc = "stopEnd" => actor'.failed = TRUE
        /\ live' \subseteq live
        /\ UNCHANGED <<managed, tunnel, running, generation>>
        /\ actor.pc \in StopSteps \ {"stopNative"}
    <3>1. CASE SudoKill
      <4>1. CASE actor' = [actor EXCEPT !.toKill = @ \ {NextToKill}]
        <5>1. /\ actor'.core = actor.core /\ actor'.pc = actor.pc
              /\ actor'.failed = actor.failed
          BY <4>1 DEF TypeOK, ActorStates
        <5> QED
          BY <3>1, <5>1 DEF SudoKill, world, StopSteps
      <4>2. CASE Goto("sudoWait")
        <5>1. /\ actor'.core = actor.core /\ actor'.pc = "sudoWait"
              /\ actor'.failed = actor.failed
          BY <4>2, MoveFacts
        <5> QED
          BY <3>1, <5>1 DEF SudoKill, world, StopSteps
      <4>3. CASE GotoFailing("stopEnd", TRUE)
        <5>1. /\ actor'.core = actor.core /\ actor'.pc = "stopEnd"
              /\ actor'.failed = TRUE
          BY <4>3, MoveFacts
        <5> QED
          BY <3>1, <5>1 DEF SudoKill, world, StopSteps
      <4> QED
        BY <3>1, <4>1, <4>2, <4>3 DEF SudoKill
    <3>2. CASE SudoWait
      <4>1. CASE actor' = [actor EXCEPT !.pc = "sudoKill",
                                        !.toKill = @ \ {NextToKill}]
        <5>1. /\ actor'.core = actor.core /\ actor'.pc = "sudoKill"
              /\ actor'.failed = actor.failed
          BY <4>1 DEF TypeOK, ActorStates
        <5> QED
          BY <3>2, <5>1 DEF SudoWait, world, table, StopSteps
      <4> QED
        BY <3>2, <4>1, MoveFacts DEF SudoWait, world, table, StopSteps
    <3>3. CASE SudoKilledAll
      <4>1. /\ actor'.core = actor.core /\ actor'.pc = "stopMain"
            /\ actor'.failed = actor.failed
        BY <3>3, MoveFacts DEF SudoKilledAll
      <4> QED
        BY <3>3, <4>1 DEF SudoKilledAll, world, table, StopSteps
    <3> QED
      BY <1>2, <3>1, <3>2, <3>3
  <2> QED
    BY <2>1 DEF ProcessInv, TunnelInv, Owned, Handles
<1>3. CASE StopMain
  <2>1. /\ actor.core.main \notin live' /\ live' \subseteq live
        /\ live' \subseteq managed'
        /\ actor'.pc = "stopPre" /\ actor'.core = actor.core
        /\ actor'.failed = actor.failed
        /\ UNCHANGED <<tunnel, running, generation>>
        /\ actor.pc \in StopSteps \ {"stopNative"}
    BY <1>3, RunnerStopFacts DEF StopMain, world, StopSteps
  <2> QED
    BY <2>1 DEF ProcessInv, TunnelInv, Owned, Handles
<1>4. CASE StopPre
  <2>1. /\ actor.core.pre \notin live' /\ live' \subseteq live
        /\ live' \subseteq managed'
        /\ actor'.pc = "stopEnd" /\ actor'.core = actor.core
        /\ actor'.failed = actor.failed
        /\ UNCHANGED <<tunnel, running, generation>>
        /\ actor.pc \in StopSteps \ {"stopNative"}
        /\ actor.pc = "stopPre"
    BY <1>4, RunnerStopFacts DEF StopPre, world, StopSteps
  <2> QED
    BY <2>1 DEF ProcessInv, TunnelInv, Owned, Handles
<1>5. CASE StopEndRestore
  BY <1>5 DEF StopEndRestore, Finish, ProcessInv, TunnelInv, Owned, Handles,
              Shape, ActorShape, table, world
\* A stop that succeeded leaves nothing of its core behind.
<1>6. ASSUME actor.pc = "stopEnd", ~actor.failed
      PROVE  live = {} /\ tunnel # "up"
  <2>1. running = EmptyCore
    BY <1>6 DEF Shape, ActorShape
  <2> QED
    BY <1>6, <2>1 DEF ProcessInv, TunnelInv, Owned, Handles, StopSteps
<1>7. CASE StopEndStopped
  BY <1>6, <1>7 DEF StopEndStopped, Finish, DropJob, ProcessInv, TunnelInv,
                    world
<1>8. CASE StopEndStart
  <2>1. actor'.pc = "prepare"
    BY <1>8 DEF StopEndStart, TypeOK, ActorStates
  <2> QED
    BY <1>6, <1>8, <2>1 DEF StopEndStart, DropJob, ProcessInv, TunnelInv, world
<1>9. CASE StopEndCleanup \/ StopEndNativeExit
  <2>1. ~actor.failed
    BY <1>9 DEF StopEndCleanup, StopEndNativeExit
  <2> QED
    BY <1>6, <1>9, <2>1
    DEF StopEndCleanup, StopEndNativeExit, Finish, DropJob, ProcessInv,
        TunnelInv, world
<1> QED
  BY <1>1, <1>2, <1>3, <1>4, <1>5, <1>6, <1>7, <1>8, <1>9 DEF Stopping

\* Nothing runs before the first spawn of a start.
LEMMA NothingRunsBeforeSpawn ==
    ASSUME TypeOK, Shape, ProcessInv, TunnelInv,
           actor.pc \in {"prepare", "startNative", "spawnMain"}
    PROVE  live = {} /\ tunnel # "up"
<1>1. running = EmptyCore /\ actor.core.main = NoProc
  BY IdleFacts DEF Shape, ActorShape
<1>2. actor.core.pre = NoProc /\ actor.core.native = NoGen
  BY <1>1 DEF Shape, ActorShape, CoreShape, StartSteps
<1> QED
  BY <1>1, <1>2, IdleFacts DEF ProcessInv, TunnelInv, Owned, Handles

LEMMA SessionFailStart ==
    ASSUME TypeOK, Shape, ProcessInv, TunnelInv, FailStart,
           actor.pc \in {"prepare", "startNative", "spawnMain"}
    PROVE  ProcessInv' /\ TunnelInv'
  BY NothingRunsBeforeSpawn, IdleFacts
  DEF FailStart, Finish, ProcessInv, TunnelInv, table, world

LEMMA SessionBeginCleanup ==
    ASSUME TypeOK, ProcessInv, TunnelInv, BeginCleanup,
           actor.pc \in StartSteps
    PROVE  ProcessInv' /\ TunnelInv'
<1>1. actor'.pc = "stopNative" /\ actor'.core = actor.core
  BY DEF BeginCleanup, TypeOK, ActorStates
<1> QED
  BY <1>1 DEF BeginCleanup, ProcessInv, TunnelInv, Owned, Handles, table,
              world

\* A step of start that moves on with the same handles.
LEMMA SessionStartMove ==
    ASSUME ProcessInv, TunnelInv,
           Handles(actor.core)' = Handles(actor.core),
           actor'.core.native = actor.core.native,
           actor'.pc \in StartSteps,
           UNCHANGED <<table, world, running, generation>>
    PROVE  ProcessInv' /\ TunnelInv'
<1>1. actor'.pc \notin StopSteps
  BY DEF StartSteps, StopSteps
<1> QED
  BY <1>1 DEF ProcessInv, TunnelInv, Owned, StartSteps, table, world

LEMMA SessionSpawnRole ==
    ASSUME TypeOK, Shape, ProcessInv, TunnelInv, NEW p \in Proc,
           NEW role, NEW next, SpawnRole(p, role, next),
           \/ actor.pc = "spawnMain" /\ role = "main" /\ next = "assignMain"
           \/ actor.pc = "spawnPre" /\ role = "pre" /\ next = "assignPre"
    PROVE  ProcessInv' /\ TunnelInv'
<1> DEFINE elevated == IF UsesSudo(actor.request)
                       THEN actor.core.elevated \cup {p}
                       ELSE actor.core.elevated
           main == IF role = "main" THEN p ELSE actor.core.main
           pre == IF role = "pre" THEN p ELSE actor.core.pre
<1>1. actor' = [actor EXCEPT !.pc = next, !.core.main = main,
                             !.core.pre = pre, !.core.elevated = elevated]
  BY DEF SpawnRole
<1>2. main = p \/ main = actor.core.main
  OBVIOUS
<1>3. pre = p \/ pre = actor.core.pre
  OBVIOUS
<1>4. p \in {main, pre}
  OBVIOUS
<1>5. actor.core.main \in {main, NoProc} /\ actor.core.pre \in {pre, NoProc}
  <2>1. actor.pc = "spawnMain" => actor.core.main = NoProc
    BY DEF Shape, ActorShape
  <2>2. actor.pc = "spawnPre" => actor.core.pre = NoProc
    BY DEF Shape, ActorShape
  <2> QED
    BY <2>1, <2>2
<1> HIDE DEF elevated, main, pre
<1>6. /\ actor'.pc = next /\ actor'.core.main = main /\ actor'.core.pre = pre
      /\ actor'.core.native = actor.core.native
  BY <1>1 DEF TypeOK, ActorStates, CoreStates
<1>7. Owned' = Owned \cup {p}
  BY <1>2, <1>3, <1>4, <1>5, <1>6, SupervisorAssumption
  DEF Owned, Handles, SpawnRole
<1>8. ProcessInv'
  BY <1>6, <1>7 DEF ProcessInv, SpawnRole, Table!Spawn
<1>9. TunnelInv'
  BY <1>6 DEF TunnelInv, SpawnRole, world, StopSteps
<1> QED
  BY <1>8, <1>9

LEMMA AssignFacts ==
    ASSUME TypeOK, NEW p, NEW next, Assign(p, next)
    PROVE  /\ actor'.pc = next
           /\ actor'.goal = actor.goal
           /\ actor'.from = actor.from
           /\ actor'.request = actor.request
           /\ actor'.core.main = actor.core.main
           /\ actor'.core.pre = actor.core.pre
           /\ actor'.core.native = actor.core.native
           /\ actor'.core.request = actor.core.request
<1> DEFINE job == IF UsesJob THEN actor.core.job \cup {p} ELSE actor.core.job
<1>1. actor' = [actor EXCEPT !.pc = next, !.core.job = job]
  BY DEF Assign
<1> HIDE DEF job
<1> QED
  BY <1>1 DEF TypeOK, ActorStates, CoreStates

LEMMA SessionStarting ==
    ASSUME TypeOK, Shape, ProcessInv, TunnelInv, Starting
    PROVE  ProcessInv' /\ TunnelInv'
<1> USE CoreTyped, NoProcFacts, IdleFacts
<1>1. CASE Prepare
  <2>1. CASE FailStart
    BY <1>1, <2>1, SessionFailStart DEF Prepare
  <2>2. CASE Goto("startNative")
             /\ UNCHANGED <<table, world, calls, running, generation, history>>
    <3>1. actor'.pc = "startNative" /\ actor'.core = actor.core
      BY <2>2, MoveFacts
    <3> QED
      BY <2>2, <3>1, SessionStartMove DEF Handles, StartSteps
  <2>3. CASE /\ actor' = [actor EXCEPT !.pc = "spawnMain",
                    !.core = [EmptyCore EXCEPT !.request = actor.request]]
             /\ UNCHANGED <<table, world, calls, running, generation, history>>
    <3>1. actor'.pc = "spawnMain"
      BY <2>3 DEF TypeOK, ActorStates
    <3> QED
      BY <1>1, <2>3, <3>1, NothingRunsBeforeSpawn
      DEF Prepare, ProcessInv, TunnelInv, table, world
  <2> QED
    BY <1>1, <2>1, <2>2, <2>3 DEF Prepare
<1>2. CASE StartNative
  <2> DEFINE g == generation + 1
  <2>1. g # NoGen
    BY DEF TypeOK, NoGen
  <2>2. /\ running' = [EmptyCore EXCEPT !.native = g, !.request = actor.request]
        /\ generation' = g /\ actor' = Idle
        /\ UNCHANGED table
        /\ actor.pc = "startNative"
    BY <1>2 DEF StartNative, Finish
  <2> HIDE DEF g
  <2>3. running'.native = g
    BY <2>2 DEF EmptyCore
  <2>4. live = {}
    BY <2>2, NothingRunsBeforeSpawn
  <2>5. ProcessInv'
    BY <2>2, <2>4 DEF ProcessInv, table
  <2>6. TunnelInv'
    BY <2>1, <2>2, <2>3 DEF TunnelInv, StopSteps
  <2> QED
    BY <2>5, <2>6
<1>3. CASE StartNativeFails
  BY <1>3, SessionFailStart DEF StartNativeFails
<1>4. CASE SpawnMain
  BY <1>4, SessionFailStart, SessionSpawnRole DEF SpawnMain
<1>5. CASE AssignMain
  <2>1. CASE Assign(actor.core.main, "spawnPre")
    BY <2>1, AssignFacts, SessionStartMove DEF Assign, Handles, StartSteps
  <2> QED
    BY <1>5, <2>1, SessionBeginCleanup DEF AssignMain, StartSteps
<1>6. CASE SpawnPre
  <2>1. CASE Goto("commit")
             /\ UNCHANGED <<table, world, calls, running, generation, history>>
    <3>1. actor'.pc = "commit" /\ actor'.core = actor.core
      BY <2>1, MoveFacts
    <3> QED
      BY <2>1, <3>1, SessionStartMove DEF Handles, StartSteps
  <2> QED
    BY <1>6, <2>1, SessionSpawnRole, SessionBeginCleanup
    DEF SpawnPre, StartSteps
<1>7. CASE AssignPre
  <2>1. CASE Assign(actor.core.pre, "commit")
    BY <2>1, AssignFacts, SessionStartMove DEF Assign, Handles, StartSteps
  <2> QED
    BY <1>7, <2>1, SessionBeginCleanup DEF AssignPre, StartSteps
<1>8. CASE Commit
  <2>1. actor.core.native = NoGen /\ running = EmptyCore
    BY <1>8 DEF Commit, Shape, ActorShape, StartSteps
  <2> QED
    BY <1>8, <2>1 DEF Commit, Finish, ProcessInv, TunnelInv, Owned, Handles,
                      StopSteps, table, world
<1> QED
  BY <1>1, <1>2, <1>3, <1>4, <1>5, <1>6, <1>7, <1>8 DEF Starting

LEMMA MishapStays ==
    ASSUME [Next]_vars, ~mishap'
    PROVE  ~mishap
  BY DEF Next, ActorStep, Environment, Delivery, Receiving, HandleStart,
     HandleStop, HandleStatus, HandleExited, HandleNativeExited, Stopping,
     StopNative, SudoKill, SudoWait, SudoKilledAll, StopMain, StopPre,
     RunnerStop, StopEndRestore, StopEndStopped, StopEndStart, StopEndCleanup,
     StopEndNativeExit, Starting, Prepare, StartNative, StartNativeFails,
     SpawnMain, AssignMain, SpawnPre, AssignPre, Commit, FailStart, SpawnRole,
     Assign, BeginCleanup, Crash, Reap, TunnelDies, TunnelStops, SetGrant,
     WatcherSees, Send, SendExited, SendNativeExited, Call, vars, history

LEMMA SessionStep ==
    ASSUME TypeOK, Shape, SessionInv, [Next]_vars
    PROVE  SessionInv'
<1> SUFFICES ASSUME ~mishap' PROVE ProcessInv' /\ TunnelInv'
  BY DEF SessionInv
<1>1. ProcessInv /\ TunnelInv
  BY MishapStays DEF SessionInv
<1>2. CASE ActorStep
  BY <1>1, <1>2, SessionReceiving, SessionStopping, SessionStarting
  DEF ActorStep
<1>3. CASE UNCHANGED vars
  BY <1>1, <1>3, SessionUnchanged DEF vars, table, world
<1> QED
  BY <1>1, <1>2, <1>3, SessionEnvironment, SessionCall DEF Next

-----------------------------------------------------------------------------
(* The orders in force.                                                    *)

\* WantedInv reads none of the environment's variables.
LEMMA WantedUnchanged ==
    ASSUME WantedInv, UNCHANGED <<core, wanted>>
    PROVE  WantedInv'
  BY DEF WantedInv, Connected, core

LEMMA WantedReceiving ==
    ASSUME TypeOK, Shape, WantedInv, mailbox # <<>>, Receiving(Head(mailbox))
    PROVE  WantedInv'
<1> DEFINE m == Head(mailbox)
<1> USE IdleFacts
<1>1. ASSUME NEW goal \in {"stop", "start", "nativeExit"}, NEW request,
             NEW from, BeginStop(goal, request, from), actor.pc = "idle",
             UNCHANGED wanted,
             goal = "start" /\ from = NoClient => request = wanted
      PROVE  WantedInv'
  BY <1>1 DEF BeginStop, WantedInv, Connected, StopSteps, StartSteps
<1>2. CASE HandleStart(m)
  <2>1. m.from # NoClient
    BY <1>2, HeadTyped, CommandTyped, SupervisorAssumption DEF HandleStart
  <2> QED
    BY <1>1, <1>2, <2>1 DEF HandleStart, Receive, history
<1>3. CASE HandleStop(m)
  BY <1>1, <1>3 DEF HandleStop, Receive, history
<1>4. CASE HandleStatus(m)
  BY <1>4, WantedUnchanged DEF HandleStatus, history
<1>5. CASE HandleExited(m)
  <2>1. ASSUME m.proc \in Handles(running) PROVE running.request = wanted
    <3>1. CASE running.main # NoProc
      BY <1>5, <3>1 DEF WantedInv, Connected, HandleExited, Receive
    <3>2. CASE running.main = NoProc
      BY <2>1, <3>2 DEF Shape, ActorShape, CoreShape, Handles
    <3> QED
      BY <3>1, <3>2
  <2> QED
    BY <1>1, <1>5, <2>1, WantedUnchanged DEF HandleExited, Receive, history,
                                             core
<1>6. CASE HandleNativeExited(m)
  BY <1>1, <1>6, WantedUnchanged DEF HandleNativeExited, Receive, history, core
<1> QED
  BY <1>2, <1>3, <1>4, <1>5, <1>6 DEF Receiving

\* A step that moves a handler on, keeping its core and its orders.
LEMMA WantedMove ==
    ASSUME WantedInv, Shape, UNCHANGED <<wanted, running>>,
           actor.pc # "idle",
           \/ actor'.pc \in StopSteps /\ actor.pc \in StopSteps
           \/ actor'.pc \in StartSteps /\ actor.pc \in StartSteps
              /\ (actor'.pc \in {"prepare", "startNative"}
                  \/ actor'.core.request = actor.request),
           Connected(actor.core)' = Connected(actor.core)
               \/ actor'.pc \in StartSteps,
           actor'.core.request = actor.core.request
               \/ actor'.pc \in StartSteps,
           actor'.goal = actor.goal,
           actor'.from = actor.from,
           actor'.request = actor.request
    PROVE  WantedInv'
  BY DEF WantedInv, StopSteps, StartSteps

LEMMA WantedFinish ==
    ASSUME WantedInv, actor' = Idle,
           Connected(running)' => running'.request = wanted'
    PROVE  WantedInv'
  BY IdleFacts DEF WantedInv, StopSteps, StartSteps

LEMMA WantedStopping ==
    ASSUME TypeOK, Shape, WantedInv, Stopping
    PROVE  WantedInv'
<1>1. CASE StopNative \/ SudoKill \/ SudoWait \/ SudoKilledAll
           \/ StopMain \/ StopPre
  <2>1. ASSUME NEW toKill,
               actor' = [actor EXCEPT !.pc = "sudoKill", !.toKill = toKill]
        PROVE  /\ actor'.pc \in StopSteps /\ actor'.core = actor.core
               /\ actor'.goal = actor.goal /\ actor'.from = actor.from
               /\ actor'.request = actor.request
    BY <2>1 DEF TypeOK, ActorStates, StopSteps
  <2>2. ASSUME NEW pc \in StopSteps, Goto(pc) \/ GotoFailing(pc, TRUE)
        PROVE  /\ actor'.pc \in StopSteps /\ actor'.core = actor.core
               /\ actor'.goal = actor.goal /\ actor'.from = actor.from
               /\ actor'.request = actor.request
    BY <2>2, MoveFacts
  <2>3. \/ \E toKill :
              actor' = [actor EXCEPT !.pc = "sudoKill", !.toKill = toKill]
        \/ \E pc \in StopSteps : Goto(pc) \/ GotoFailing(pc, TRUE)
    <3>1. CASE SudoKill
      <4>1. CASE actor' = [actor EXCEPT !.toKill = @ \ {NextToKill}]
        <5>1. actor' = [actor EXCEPT !.pc = "sudoKill",
                                     !.toKill = actor.toKill \ {NextToKill}]
          BY <3>1, <4>1 DEF SudoKill, TypeOK, ActorStates
        <5> QED
          BY <5>1
      <4> QED
        BY <3>1, <4>1 DEF SudoKill, StopSteps
    <3>2. CASE SudoWait
      BY <3>2 DEF SudoWait, StopSteps
    <3>3. CASE StopNative \/ SudoKilledAll
      BY <3>3 DEF StopNative, SudoKilledAll, StopSteps
    <3>4. CASE StopMain \/ StopPre
      BY <3>4 DEF StopMain, StopPre, RunnerStop, StopSteps
    <3> QED
      BY <1>1, <3>1, <3>2, <3>3, <3>4
  <2>4. UNCHANGED <<wanted, running>> /\ actor.pc \in StopSteps
    BY <1>1 DEF StopNative, SudoKill, SudoWait, SudoKilledAll, StopMain,
                StopPre, StopSteps, history
  <2>5. /\ actor'.pc \in StopSteps /\ actor'.core = actor.core
        /\ actor'.goal = actor.goal /\ actor'.from = actor.from
        /\ actor'.request = actor.request
    BY <2>1, <2>2, <2>3
  <2> QED
    BY <2>4, <2>5, WantedMove DEF Connected, StopSteps
<1>2. CASE StopEndRestore
  BY <1>2, WantedFinish
  DEF StopEndRestore, Finish, WantedInv, Connected, StopSteps
<1>3. CASE StopEndStopped \/ StopEndCleanup \/ StopEndNativeExit
  <2>1. running = EmptyCore
    BY <1>3 DEF StopEndStopped, StopEndCleanup, StopEndNativeExit, Shape,
                ActorShape
  <2> QED
    BY <1>3, <2>1, IdleFacts, WantedFinish
    DEF StopEndStopped, StopEndCleanup, StopEndNativeExit, Finish, Connected
<1>4. CASE StopEndStart
  <2>1. /\ actor'.pc = "prepare" /\ actor'.goal = actor.goal
        /\ actor'.from = actor.from /\ actor'.request = actor.request
    BY <1>4 DEF StopEndStart, TypeOK, ActorStates
  <2> QED
    BY <1>4, <2>1 DEF StopEndStart, WantedInv, StopSteps, StartSteps, history
<1> QED
  BY <1>1, <1>2, <1>3, <1>4 DEF Stopping

LEMMA WantedStarting ==
    ASSUME TypeOK, Shape, WantedInv, Starting
    PROVE  WantedInv'
<1>1. ASSUME FailStart, actor.pc # "idle" PROVE WantedInv'
  <2>1. running' = EmptyCore
    BY <1>1 DEF FailStart, Shape, ActorShape
  <2> QED
    BY <1>1, <2>1, IdleFacts, WantedFinish DEF FailStart, Finish, Connected
<1>2. ASSUME BeginCleanup, actor.pc \in StartSteps PROVE WantedInv'
  <2>1. actor'.pc = "stopNative" /\ actor'.goal = "cleanup"
    BY <1>2 DEF BeginCleanup, TypeOK, ActorStates
  <2> QED
    BY <1>2, <2>1 DEF BeginCleanup, WantedInv, StartSteps, history
<1>3. ASSUME NEW pc \in StartSteps, Goto(pc), actor.pc \in StartSteps,
             UNCHANGED <<wanted, running>>,
             pc \in {"prepare", "startNative"}
                 \/ actor.core.request = actor.request
      PROVE  WantedInv'
  BY <1>3, MoveFacts, WantedMove DEF StartSteps
<1>4. CASE Prepare
  <2>1. CASE FailStart
    BY <1>1, <1>4, <2>1 DEF Prepare
  <2>2. CASE Goto("startNative")
             /\ UNCHANGED <<table, world, calls, running, generation, history>>
    BY <1>3, <1>4, <2>2 DEF Prepare, StartSteps, history
  <2>3. CASE /\ actor' = [actor EXCEPT !.pc = "spawnMain",
                    !.core = [EmptyCore EXCEPT !.request = actor.request]]
             /\ UNCHANGED <<table, world, calls, running, generation, history>>
    <3>1. /\ actor'.pc = "spawnMain" /\ actor'.goal = actor.goal
          /\ actor'.from = actor.from /\ actor'.request = actor.request
          /\ actor'.core = [EmptyCore EXCEPT !.request = actor.request]
      BY <2>3 DEF TypeOK, ActorStates
    <3>2. actor'.core.request = actor.request
      BY <3>1 DEF EmptyCore
    <3> QED
      BY <1>4, <2>3, <3>1, <3>2, WantedMove DEF Prepare, StartSteps, history
  <2> QED
    BY <1>4, <2>1, <2>2, <2>3 DEF Prepare
<1>5. CASE StartNative
  <2> DEFINE g == generation + 1
  <2>1. /\ running' = [EmptyCore EXCEPT !.native = g, !.request = actor.request]
        /\ actor' = Idle /\ wanted' = actor.request
    BY <1>5 DEF StartNative, Finish
  <2> HIDE DEF g
  <2>2. running'.request = actor.request
    BY <2>1 DEF EmptyCore
  <2> QED
    BY <2>1, <2>2, WantedFinish
<1>6. CASE StartNativeFails
  BY <1>1, <1>6 DEF StartNativeFails
<1>7. ASSUME NEW p \in Proc, NEW role, NEW next \in StartSteps,
             SpawnRole(p, role, next), actor.pc \in {"spawnMain", "spawnPre"}
      PROVE  WantedInv'
  <2>1. /\ actor'.pc = next /\ actor'.goal = actor.goal
        /\ actor'.from = actor.from /\ actor'.request = actor.request
        /\ actor'.core.request = actor.core.request
    <3> DEFINE elevated == IF UsesSudo(actor.request)
                           THEN actor.core.elevated \cup {p}
                           ELSE actor.core.elevated
               main == IF role = "main" THEN p ELSE actor.core.main
               pre == IF role = "pre" THEN p ELSE actor.core.pre
    <3>1. actor' = [actor EXCEPT !.pc = next, !.core.main = main,
                                 !.core.pre = pre, !.core.elevated = elevated]
      BY <1>7 DEF SpawnRole
    <3> HIDE DEF elevated, main, pre
    <3> QED
      BY <3>1 DEF TypeOK, ActorStates, CoreStates
  <2>2. UNCHANGED <<wanted, running>>
    BY <1>7 DEF SpawnRole, history
  <2> QED
    BY <1>7, <2>1, <2>2, WantedMove DEF WantedInv, StartSteps
<1>8. CASE SpawnMain
  BY <1>1, <1>7, <1>8 DEF SpawnMain, StartSteps
<1>9. ASSUME NEW p, NEW next \in StartSteps, Assign(p, next),
             actor.pc \in {"assignMain", "assignPre"}
      PROVE  WantedInv'
  <2>1. /\ actor'.pc = next /\ actor'.goal = actor.goal
        /\ actor'.from = actor.from /\ actor'.request = actor.request
        /\ actor'.core.request = actor.core.request
    BY <1>9, AssignFacts
  <2>2. UNCHANGED <<wanted, running>>
    BY <1>9 DEF Assign, history
  <2> QED
    BY <1>9, <2>1, <2>2, WantedMove DEF WantedInv, StartSteps
<1>10. CASE AssignMain
  BY <1>2, <1>9, <1>10 DEF AssignMain, StartSteps
<1>11. CASE SpawnPre
  <2>1. actor.core.request = actor.request /\ actor.pc \in StartSteps
    BY <1>11 DEF SpawnPre, WantedInv, StartSteps
  <2>2. CASE Goto("commit")
             /\ UNCHANGED <<table, world, calls, running, generation, history>>
    BY <1>3, <2>1, <2>2 DEF StartSteps, history
  <2> QED
    BY <1>2, <1>7, <1>11, <2>1, <2>2 DEF SpawnPre, StartSteps
<1>12. CASE AssignPre
  BY <1>2, <1>9, <1>12 DEF AssignPre, StartSteps
<1>13. CASE Commit
  BY <1>13, WantedFinish DEF Commit, Finish, WantedInv, StartSteps
<1> QED
  BY <1>4, <1>5, <1>6, <1>8, <1>10, <1>11, <1>12, <1>13 DEF Starting

LEMMA WantedStep ==
    ASSUME TypeOK, Shape, WantedInv, [Next]_vars
    PROVE  WantedInv'
<1>1. CASE ActorStep
  BY <1>1, WantedReceiving, WantedStopping, WantedStarting DEF ActorStep
<1>2. CASE UNCHANGED <<core, wanted>>
  BY <1>2, WantedUnchanged
<1> QED
  BY <1>1, <1>2
  DEF Next, Environment, Delivery, Crash, Reap, TunnelDies, TunnelStops,
      SetGrant, WatcherSees, Send, SendExited, SendNativeExited, Call,
      vars, history

-----------------------------------------------------------------------------
(* The theorems.                                                           *)

SafetyInv == IInv /\ SessionInv /\ WantedInv

LEMMA SafetyInvInvariant == Spec => []SafetyInv
<1>1. Init => SessionInv /\ WantedInv
  BY IdleFacts DEF Init, SessionInv, ProcessInv, TunnelInv, WantedInv,
                   Table!Init, StopSteps, StartSteps
<1>2. IInv /\ SessionInv /\ WantedInv /\ [Next]_vars
          => SessionInv' /\ WantedInv'
  BY SessionStep, WantedStep DEF IInv
<1> QED
  BY <1>1, <1>2, IInvInvariant, PTL DEF Spec, SafetyInv

\* No core process escapes the supervisor, whatever fails and whenever a
\* process crashes, until a handler drops handles after a failed stop.
THEOREM NoCoreEscapes == Spec => []NoStrayCore
<1>1. SafetyInv => NoStrayCore
  BY DEF SafetyInv, SessionInv, ProcessInv, NoStrayCore
<1> QED
  BY SafetyInvInvariant, <1>1, PTL

\* A tunnel that is up belongs to the session that runs or is being stopped.
THEOREM NoTunnelEscapes == Spec => []NoStrayTunnel
<1>1. SafetyInv => NoStrayTunnel
  BY DEF SafetyInv, SessionInv, TunnelInv, NoStrayTunnel
<1> QED
  BY SafetyInvInvariant, <1>1, PTL

\* When a start begins to spawn, nothing of the old session runs.
THEOREM SessionsDoNotOverlap == Spec => []OneSessionAtATime
<1>1. SafetyInv => OneSessionAtATime
  BY NothingRunsBeforeSpawn DEF SafetyInv, IInv, SessionInv, OneSessionAtATime
<1> QED
  BY SafetyInvInvariant, <1>1, PTL

\* What runs is what was ordered last, restarts after crashes included.
THEOREM OrdersAreFollowed == Spec => []SessionFollowsOrders
<1>1. SafetyInv => SessionFollowsOrders
  BY DEF SafetyInv, WantedInv, SessionFollowsOrders
<1> QED
  BY SafetyInvInvariant, <1>1, PTL

-----------------------------------------------------------------------------
(* The notices of ended processes.                                         *)

\* A notice of p is in the mailbox.
QueuedExit(p, box) ==
    \E i \in 1 .. Len(box) : box[i].type = "exited" /\ box[i].proc = p

\* A tracked process is alive or crashed, and its end is still to be heard of.
Noticed(p) ==
    /\ p \in live \/ p \in crashed
    /\ p \in managed \/ p \in undelivered \/ QueuedExit(p, mailbox)

\* So it is for the running core, and for one that is being started: no notice
\* is taken from the mailbox before the start has ended.
NoticeInv ==
    /\ actor.pc = "idle" /\ ~halfStopped =>
           \A p \in Handles(running) : Noticed(p)
    /\ actor.pc \in StartSteps =>
           \A p \in Handles(actor.core) : Noticed(p)

\* What a message at the end, or the receipt of the first, does to a mailbox.
LEMMA AppendFacts ==
    ASSUME NEW box \in Seq(Commands), NEW m \in Commands
    PROVE  /\ Append(box, m) \in Seq(Commands)
           /\ Len(Append(box, m)) = Len(box) + 1
           /\ Len(box) \in Nat
           /\ Append(box, m)[Len(box) + 1] = m
           /\ \A i \in 1 .. Len(box) : Append(box, m)[i] = box[i]
  OBVIOUS

LEMMA TailFacts ==
    ASSUME NEW box \in Seq(Commands), box # <<>>
    PROVE  /\ Head(box) = box[1]
           /\ Len(Tail(box)) = Len(box) - 1
           /\ Len(box) \in Nat \ {0}
           /\ \A i \in 1 .. Len(Tail(box)) : Tail(box)[i] = box[i + 1]
  OBVIOUS

LEMMA ExitStaysQueued ==
    ASSUME NEW box \in Seq(Commands), NEW p, QueuedExit(p, box)
    PROVE  /\ \A m \in Commands : QueuedExit(p, Append(box, m))
           /\ box # <<>> /\ ~(Head(box).type = "exited" /\ Head(box).proc = p)
                  => QueuedExit(p, Tail(box))
<1>1. PICK i \in 1 .. Len(box) : box[i].type = "exited" /\ box[i].proc = p
  BY DEF QueuedExit
<1>2. ASSUME NEW m \in Commands PROVE QueuedExit(p, Append(box, m))
  <2>1. i \in 1 .. Len(Append(box, m)) /\ Append(box, m)[i] = box[i]
    BY AppendFacts
  <2> QED
    BY <1>1, <2>1 DEF QueuedExit
<1>3. ASSUME box # <<>>,
             ~(Head(box).type = "exited" /\ Head(box).proc = p)
      PROVE  QueuedExit(p, Tail(box))
  <2>1. i # 1
    BY <1>1, <1>3, TailFacts
  <2>2. i - 1 \in 1 .. Len(Tail(box)) /\ Tail(box)[i - 1] = box[i]
    BY <1>3, <2>1, TailFacts
  <2> QED
    BY <1>1, <2>2 DEF QueuedExit
<1> QED
  BY <1>2, <1>3

LEMMA ExitIsQueued ==
    ASSUME NEW box \in Seq(Commands), NEW p \in Proc
    PROVE  /\ [type |-> "exited", proc |-> p] \in Commands
           /\ QueuedExit(p, Append(box, [type |-> "exited", proc |-> p]))
<1> DEFINE m == [type |-> "exited", proc |-> p]
<1>1. m \in Commands /\ m.type = "exited" /\ m.proc = p
  BY DEF Commands
<1> HIDE DEF m
<1>2. /\ Len(box) + 1 \in 1 .. Len(Append(box, m))
      /\ Append(box, m)[Len(box) + 1] = m
  BY <1>1, AppendFacts
<1>3. QueuedExit(p, Append(box, m))
  BY <1>1, <1>2 DEF QueuedExit
<1> QED
  BY <1>1, <1>3 DEF m

LEMMA NoticeUnchanged ==
    ASSUME TypeOK, NoticeInv, UNCHANGED <<core, halfStopped>>,
           \A p \in Proc : Noticed(p) => Noticed(p)'
    PROVE  NoticeInv'
<1>1. Handles(running) \subseteq Proc /\ Handles(actor.core) \subseteq Proc
  BY CoreTyped DEF Handles, TypeOK, CoreStates
<1>2. /\ Handles(running)' = Handles(running)
      /\ Handles(actor.core)' = Handles(actor.core)
      /\ actor' = actor
  BY DEF core, Handles
<1> QED
  BY <1>1, <1>2 DEF NoticeInv

LEMMA NoticeEnvironment ==
    ASSUME TypeOK, Shape, NoticeInv, Environment \/ Delivery
    PROVE  NoticeInv'
<1>1. ASSUME NEW q \in Proc, Crash(q) PROVE NoticeInv'
  BY <1>1, NoticeUnchanged DEF Crash, Table!Exit, Noticed, calls
<1>2. ASSUME NEW q \in Proc, Reap(q) PROVE NoticeInv'
  BY <1>2, NoticeUnchanged DEF Reap, Table!Reap, Noticed, calls
<1>3. CASE TunnelDies
  BY <1>3, NoticeUnchanged DEF TunnelDies, Noticed, calls, table
<1>4. CASE TunnelStops
  BY <1>4, NoticeUnchanged DEF TunnelStops, Noticed, calls, table, history
<1>5. ASSUME NEW g \in BOOLEAN, SetGrant(g) PROVE NoticeInv'
  BY <1>5, NoticeUnchanged DEF SetGrant, Noticed, calls, table, history
<1>6. ASSUME NEW g \in watchers, WatcherSees(g) PROVE NoticeInv'
  BY <1>6, NoticeUnchanged DEF WatcherSees, Noticed, calls, table
<1>7. ASSUME NEW m \in Commands, mailbox' = Append(mailbox, m),
             UNCHANGED <<table, core, crashed, halfStopped>>
      PROVE  NoticeInv'
  <2>1. \A p : QueuedExit(p, mailbox) => QueuedExit(p, mailbox')
    BY <1>7, ExitStaysQueued DEF TypeOK
  <2> QED
    BY <1>7, <2>1, NoticeUnchanged DEF Noticed, table
<1>8. ASSUME NEW c \in Clients, Send(c) PROVE NoticeInv'
  <2>1. client[c].command \in Commands
    BY <1>8, OrderTyped DEF Send, Shape, ClientShape
  <2> QED
    BY <1>7, <1>8, <2>1 DEF Send, history
<1>9. ASSUME NEW q \in Proc, SendExited(q) PROVE NoticeInv'
  <2> DEFINE m == [type |-> "exited", proc |-> q]
  <2>1. m \in Commands /\ QueuedExit(q, Append(mailbox, m))
    BY ExitIsQueued DEF TypeOK
  <2>2. mailbox' = Append(mailbox, m)
    BY <1>9 DEF SendExited
  <2> HIDE DEF m
  <2>3. \A p : QueuedExit(p, mailbox) => QueuedExit(p, mailbox')
    BY <2>1, <2>2, ExitStaysQueued DEF TypeOK
  <2>4. UNCHANGED <<live, crashed, managed, core, halfStopped>>
        /\ undelivered' = undelivered \ {q}
    BY <1>9 DEF SendExited, history
  <2> QED
    BY <2>1, <2>2, <2>3, <2>4, NoticeUnchanged DEF Noticed
<1>10. ASSUME NEW g \in alarms, SendNativeExited(g) PROVE NoticeInv'
  <2>1. [type |-> "nativeExited", generation |-> g] \in Commands
    BY DEF Commands, TypeOK
  <2> QED
    BY <1>7, <1>10, <2>1 DEF SendNativeExited, history
<1> QED
  BY <1>1, <1>2, <1>3, <1>4, <1>5, <1>6, <1>8, <1>9, <1>10
  DEF Environment, Delivery

LEMMA NoticeReceiving ==
    ASSUME TypeOK, NoticeInv, mailbox # <<>>, Receiving(Head(mailbox))
    PROVE  NoticeInv'
<1> DEFINE m == Head(mailbox)
<1>1. ASSUME NEW goal, NEW request, NEW from, BeginStop(goal, request, from)
      PROVE  NoticeInv'
  BY <1>1 DEF BeginStop, NoticeInv, StartSteps
<1>2. ASSUME ~(m.type = "exited" /\ m.proc \in Handles(running)),
             mailbox' = Tail(mailbox), actor.pc = "idle",
             UNCHANGED <<table, core, crashed, halfStopped>>
      PROVE  NoticeInv'
  <2>1. ASSUME NEW p \in Handles(running), Noticed(p) PROVE Noticed(p)'
    <3>1. QueuedExit(p, mailbox) => QueuedExit(p, mailbox')
      BY <1>2, ExitStaysQueued DEF TypeOK
    <3> QED
      BY <1>2, <2>1, <3>1 DEF Noticed, table
  <2> QED
    BY <1>2, <2>1 DEF NoticeInv, core, Handles, StartSteps
<1>3. CASE HandleStart(m) \/ HandleStop(m)
  BY <1>1, <1>3 DEF HandleStart, HandleStop
<1>4. CASE HandleStatus(m)
  BY <1>2, <1>4 DEF HandleStatus, Receive, history
<1>5. CASE HandleExited(m)
  BY <1>1, <1>2, <1>5 DEF HandleExited, Receive, history, core
<1>6. CASE HandleNativeExited(m)
  BY <1>1, <1>2, <1>6 DEF HandleNativeExited, Receive, history, core
<1> QED
  BY <1>3, <1>4, <1>5, <1>6 DEF Receiving

LEMMA NoticeStopping ==
    ASSUME TypeOK, Shape, NoticeInv, Stopping
    PROVE  NoticeInv'
<1>1. ASSUME actor'.pc \in StopSteps PROVE NoticeInv'
  BY <1>1 DEF NoticeInv, StopSteps, StartSteps
<1>2. ASSUME NEW pc \in StopSteps, Goto(pc) \/ GotoFailing(pc, TRUE)
      PROVE  NoticeInv'
  BY <1>1, <1>2, MoveFacts
<1>3. CASE StopNative \/ SudoKilledAll \/ StopMain \/ StopPre
  BY <1>2, <1>3 DEF StopNative, SudoKilledAll, StopMain, StopPre, RunnerStop,
                    StopSteps
<1>4. CASE SudoKill
  <2>1. CASE actor' = [actor EXCEPT !.toKill = @ \ {NextToKill}]
    BY <1>1, <1>4, <2>1 DEF SudoKill, TypeOK, ActorStates, StopSteps
  <2> QED
    BY <1>2, <1>4, <2>1 DEF SudoKill, StopSteps
<1>5. CASE SudoWait
  <2>1. CASE actor' = [actor EXCEPT !.pc = "sudoKill",
                                    !.toKill = @ \ {NextToKill}]
    BY <1>1, <2>1 DEF TypeOK, ActorStates, StopSteps
  <2> QED
    BY <1>2, <1>5, <2>1 DEF SudoWait, StopSteps
<1>6. CASE StopEndRestore
  BY <1>6, IdleFacts DEF StopEndRestore, Finish, NoticeInv, StartSteps
<1>7. CASE StopEndStopped \/ StopEndCleanup \/ StopEndNativeExit
  <2>1. running' = EmptyCore /\ actor' = Idle
    BY <1>7 DEF StopEndStopped, StopEndCleanup, StopEndNativeExit, Finish,
                Shape, ActorShape
  <2> QED
    BY <2>1, IdleFacts DEF NoticeInv, StartSteps
<1>8. CASE StopEndStart
  <2>1. actor'.pc = "prepare" /\ actor'.core = EmptyCore
    BY <1>8 DEF StopEndStart, TypeOK, ActorStates
  <2> QED
    BY <2>1, IdleFacts DEF NoticeInv
<1> QED
  BY <1>3, <1>4, <1>5, <1>6, <1>7, <1>8 DEF Stopping

\* What a spawn adds to the core is spawned, watched and nothing else.
LEMMA SpawnFacts ==
    ASSUME TypeOK, Shape, NEW p \in Proc, NEW role, NEW next,
           SpawnRole(p, role, next),
           \/ actor.pc = "spawnMain" /\ role = "main"
           \/ actor.pc = "spawnPre" /\ role = "pre"
    PROVE  /\ actor'.pc = next
           /\ actor'.goal = actor.goal
           /\ actor'.toKill = actor.toKill
           /\ actor'.failed = actor.failed
           /\ actor'.core.native = actor.core.native
           /\ Handles(actor.core)' \subseteq Handles(actor.core) \cup {p}
           /\ p \in live' /\ live \subseteq live'
           /\ p \in managed' /\ managed \subseteq managed'
           /\ UNCHANGED <<undelivered, world, calls, running, generation,
                          history>>
<1> DEFINE elevated == IF UsesSudo(actor.request)
                       THEN actor.core.elevated \cup {p}
                       ELSE actor.core.elevated
           main == IF role = "main" THEN p ELSE actor.core.main
           pre == IF role = "pre" THEN p ELSE actor.core.pre
<1>1. actor' = [actor EXCEPT !.pc = next, !.core.main = main,
                             !.core.pre = pre, !.core.elevated = elevated]
  BY DEF SpawnRole
<1>2. main \in {p, actor.core.main} /\ pre \in {p, actor.core.pre}
  OBVIOUS
<1> HIDE DEF elevated, main, pre
<1>3. /\ actor'.pc = next /\ actor'.goal = actor.goal
      /\ actor'.toKill = actor.toKill
      /\ actor'.failed = actor.failed
      /\ actor'.core.main = main /\ actor'.core.pre = pre
      /\ actor'.core.native = actor.core.native
  BY <1>1 DEF TypeOK, ActorStates, CoreStates
<1> QED
  BY <1>2, <1>3 DEF Handles, SpawnRole, Table!Spawn

LEMMA NoticeStarting ==
    ASSUME TypeOK, Shape, NoticeInv, Starting
    PROVE  NoticeInv'
<1>1. ASSUME FailStart, actor.pc # "idle" PROVE NoticeInv'
  <2>1. running' = EmptyCore /\ actor' = Idle
    BY <1>1 DEF FailStart, Finish, Shape, ActorShape
  <2> QED
    BY <2>1, IdleFacts DEF NoticeInv, StartSteps
<1>2. ASSUME BeginCleanup PROVE NoticeInv'
  <2>1. actor'.pc = "stopNative"
    BY <1>2 DEF BeginCleanup, TypeOK, ActorStates
  <2> QED
    BY <2>1 DEF NoticeInv, StartSteps
\* A step that moves a start on with the same handles.
<1>3. ASSUME actor.pc \in StartSteps, actor'.pc \in StartSteps,
             Handles(actor.core)' = Handles(actor.core),
             UNCHANGED <<table, calls, history>>
      PROVE  NoticeInv'
  BY <1>3 DEF NoticeInv, Noticed, StartSteps, table, calls, history
<1>4. CASE Prepare
  <2>1. CASE FailStart
    BY <1>1, <1>4, <2>1 DEF Prepare
  <2>2. CASE Goto("startNative")
             /\ UNCHANGED <<table, world, calls, running, generation, history>>
    BY <1>3, <1>4, <2>2, MoveFacts DEF Prepare, Handles, StartSteps
  <2>3. CASE actor' = [actor EXCEPT !.pc = "spawnMain",
                    !.core = [EmptyCore EXCEPT !.request = actor.request]]
    <3>1. /\ actor'.pc = "spawnMain"
          /\ actor'.core = [EmptyCore EXCEPT !.request = actor.request]
      BY <2>3 DEF TypeOK, ActorStates
    <3>2. Handles(actor.core)' = {}
      BY <3>1 DEF Handles, EmptyCore
    <3> QED
      BY <3>1, <3>2 DEF NoticeInv
  <2> QED
    BY <1>4, <2>1, <2>2, <2>3 DEF Prepare
<1>5. CASE StartNative
  <2>1. Handles(running)' = {} /\ actor' = Idle
    BY <1>5 DEF StartNative, Finish, Handles, EmptyCore
  <2> QED
    BY <2>1, IdleFacts DEF NoticeInv, StartSteps
<1>6. CASE StartNativeFails
  BY <1>1, <1>6 DEF StartNativeFails
<1>7. ASSUME NEW p \in Proc, NEW role, NEW next \in StartSteps,
             SpawnRole(p, role, next),
             \/ actor.pc = "spawnMain" /\ role = "main"
             \/ actor.pc = "spawnPre" /\ role = "pre"
      PROVE  NoticeInv'
  <2>1. ASSUME NEW q \in Handles(actor.core)' PROVE Noticed(q)'
    <3>1. CASE q = p
      BY <1>7, <3>1, SpawnFacts DEF Noticed
    <3>2. CASE q # p
      <4>1. Noticed(q)
        BY <1>7, <2>1, <3>2, SpawnFacts DEF NoticeInv, StartSteps
      <4> QED
        BY <1>7, <4>1, SpawnFacts DEF Noticed, calls, history
    <3> QED
      BY <3>1, <3>2
  <2> QED
    BY <1>7, <2>1, SpawnFacts DEF NoticeInv, StartSteps
<1>8. CASE SpawnMain
  BY <1>1, <1>7, <1>8 DEF SpawnMain, StartSteps
<1>9. ASSUME NEW p, NEW next \in StartSteps, Assign(p, next),
             actor.pc \in StartSteps
      PROVE  NoticeInv'
  BY <1>3, <1>9, AssignFacts DEF Assign, Handles
<1>10. CASE AssignMain
  BY <1>2, <1>9, <1>10 DEF AssignMain, StartSteps
<1>11. CASE SpawnPre
  <2>1. CASE Goto("commit")
             /\ UNCHANGED <<table, world, calls, running, generation, history>>
    BY <1>3, <1>11, <2>1, MoveFacts DEF SpawnPre, Handles, StartSteps
  <2> QED
    BY <1>2, <1>7, <1>11, <2>1 DEF SpawnPre, StartSteps
<1>12. CASE AssignPre
  BY <1>2, <1>9, <1>12 DEF AssignPre, StartSteps
<1>13. CASE Commit
  <2>1. /\ running' = actor.core /\ actor' = Idle /\ actor.pc = "commit"
        /\ UNCHANGED <<table, mailbox, crashed>>
    BY <1>13 DEF Commit, Finish
  <2>2. Handles(running)' = Handles(actor.core)
    BY <2>1 DEF Handles
  <2> QED
    BY <2>1, <2>2, IdleFacts DEF NoticeInv, Noticed, StartSteps, table
<1> QED
  BY <1>4, <1>5, <1>6, <1>8, <1>10, <1>11, <1>12, <1>13 DEF Starting

LEMMA NoticeStep ==
    ASSUME TypeOK, Shape, NoticeInv, [Next]_vars
    PROVE  NoticeInv'
<1>1. CASE ActorStep
  BY <1>1, NoticeReceiving, NoticeStopping, NoticeStarting DEF ActorStep
<1>2. CASE UNCHANGED vars
  BY <1>2, NoticeUnchanged DEF vars, Noticed, table, calls, history
<1>3. ASSUME NEW c, NEW m, Call(c, m) PROVE NoticeInv'
  BY <1>3, NoticeUnchanged DEF Call, Noticed, table, history
<1> QED
  BY <1>1, <1>2, <1>3, NoticeEnvironment DEF Next

\* No crash is invented and none is missed: a tracked process that is dead
\* crashed and its notice is on the way, unless a stop of it failed midway.
THEOREM CrashesNoticed == Spec => []CrashesAreNoticed
<1>1. Init => NoticeInv
  BY IdleFacts DEF Init, NoticeInv, StartSteps
<1>2. IInv /\ NoticeInv /\ [Next]_vars => NoticeInv'
  BY NoticeStep DEF IInv
<1>3. IInv /\ NoticeInv => CrashesAreNoticed
  BY DEF NoticeInv, Noticed, QueuedExit, CrashesAreNoticed,
         DeadTrackedCoreCrashed, DeadTrackedCoreIsNoticed
<1> QED
  BY <1>1, <1>2, <1>3, IInvInvariant, PTL DEF Spec

-----------------------------------------------------------------------------
(* The exits of providers.                                                 *)

\* A message that the watcher of generation g sent is in the mailbox.
QueuedAlarm(g, box) ==
    \E i \in 1 .. Len(box) :
        box[i].type = "nativeExited" /\ box[i].generation = g

\* The watcher of g has seen a terminal state that is still to be handled.
Signalled(g) == g \in alarms \/ QueuedAlarm(g, mailbox)

\* Generation g is the session, and stays it if a stop in progress fails: its
\* provider was not asked to stop, or refused.
Accountable(g) ==
    \/ running.native = g
    \/ /\ actor.pc \in StopSteps
       /\ actor.core.native = g
       /\ actor.pc = "stopNative" \/ actor.failed

\* A core that is tracked is of the last generation, and no watcher is of a
\* later one.
GenerationInv ==
    /\ running.native \in {NoGen, generation}
    /\ actor.core.native \in {NoGen, generation}
    /\ actor.pc = "stopNative" => ~actor.failed
    /\ actor.pc = "sudoWait" => actor.toKill # {}
    /\ \A g \in watchers : g <= generation
    /\ \A g \in Nat : Signalled(g) => g <= generation

\* The session's provider is up unless it went down by itself, and only then
\* do its watcher's words count.
ExitInv ==
    generation # NoGen /\ Accountable(generation) =>
        /\ tunnel = "up" \/ generation \in died
        /\ Signalled(generation) => generation \in died

\* What was reported: generations that died, in order, all before the session.
EventInv ==
    /\ \A i \in 1 .. Len(events) :
           /\ 1 <= events[i] /\ events[i] <= generation
           /\ events[i] \in died
           /\ running.native # NoGen => events[i] < running.native
           /\ actor.core.native # NoGen => events[i] < actor.core.native
    /\ \A i, j \in 1 .. Len(events) : i < j => events[i] < events[j]
    /\ actor.pc \in StopSteps /\ actor.goal = "nativeExit" =>
           actor.core.native # NoGen /\ actor.core.native \in died

ReportInv == GenerationInv /\ ExitInv /\ EventInv

LEMMA AlarmsOfAppend ==
    ASSUME NEW box \in Seq(Commands), NEW m \in Commands, NEW g,
           QueuedAlarm(g, Append(box, m))
    PROVE  QueuedAlarm(g, box) \/ (m.type = "nativeExited" /\ m.generation = g)
<1>1. PICK i \in 1 .. Len(Append(box, m)) :
          /\ Append(box, m)[i].type = "nativeExited"
          /\ Append(box, m)[i].generation = g
  BY DEF QueuedAlarm
<1>2. i \in 1 .. Len(box) \/ i = Len(box) + 1
  BY AppendFacts
<1> QED
  BY <1>1, <1>2, AppendFacts DEF QueuedAlarm

LEMMA AlarmsOfTail ==
    ASSUME NEW box \in Seq(Commands), box # <<>>, NEW g
    PROVE  /\ QueuedAlarm(g, Tail(box)) => QueuedAlarm(g, box)
           /\ Head(box).type = "nativeExited" /\ Head(box).generation = g
                  => QueuedAlarm(g, box)
<1>1. ASSUME QueuedAlarm(g, Tail(box)) PROVE QueuedAlarm(g, box)
  <2>1. PICK i \in 1 .. Len(Tail(box)) :
            /\ Tail(box)[i].type = "nativeExited"
            /\ Tail(box)[i].generation = g
    BY <1>1 DEF QueuedAlarm
  <2>2. i + 1 \in 1 .. Len(box) /\ Tail(box)[i] = box[i + 1]
    BY TailFacts
  <2> QED
    BY <2>1, <2>2 DEF QueuedAlarm
<1>2. 1 \in 1 .. Len(box) /\ Head(box) = box[1]
  BY TailFacts
<1> QED
  BY <1>1, <1>2 DEF QueuedAlarm

\* Steps that leave the supervisor's own variables alone and signal nothing.
LEMMA ReportUnchanged ==
    ASSUME ReportInv, UNCHANGED <<core, watchers, events>>,
           died \subseteq died',
           \A g \in Nat : Signalled(g)' => Signalled(g),
           generation \in Nat,
           tunnel' = tunnel \/ tunnel # "up" \/ generation \in died'
    PROVE  ReportInv'
<1>1. GenerationInv'
  BY DEF ReportInv, GenerationInv, core
<1>2. ExitInv'
  BY DEF ReportInv, ExitInv, Accountable, core
<1>3. EventInv'
  BY DEF ReportInv, EventInv, core
<1> QED
  BY <1>1, <1>2, <1>3 DEF ReportInv

LEMMA ReportEnvironment ==
    ASSUME TypeOK, Shape, ReportInv, Environment \/ Delivery
    PROVE  ReportInv'
<1> USE DEF Signalled
<1>0. generation \in Nat
  BY DEF TypeOK
<1>1. ASSUME NEW q \in Proc, Crash(q) \/ Reap(q) PROVE ReportInv'
  BY <1>0, <1>1, ReportUnchanged DEF Crash, Reap, calls, world
<1>2. CASE TunnelDies
  BY <1>0, <1>2, ReportUnchanged DEF TunnelDies, calls
<1>3. CASE TunnelStops
  BY <1>0, <1>3, ReportUnchanged DEF TunnelStops, calls, history
<1>4. ASSUME NEW g \in BOOLEAN, SetGrant(g) PROVE ReportInv'
  BY <1>0, <1>4, ReportUnchanged DEF SetGrant, calls, history
<1>5. ASSUME NEW g \in watchers, WatcherSees(g) PROVE ReportInv'
  <2>1. /\ watchers' = watchers \ {g} /\ alarms' = alarms \cup {g}
        /\ UNCHANGED <<tunnel, mailbox, core, events>>
        /\ IF tunnel = "down" THEN died' = died ELSE died' = died \cup {g}
    BY <1>5 DEF WatcherSees, calls
  <2>2. g \in Nat /\ g <= generation
    BY DEF TypeOK, ReportInv, GenerationInv
  <2>3. GenerationInv'
    BY <2>1, <2>2 DEF ReportInv, GenerationInv, core
  <2>4. ExitInv'
    BY <2>1, <2>2 DEF ReportInv, ExitInv, Accountable, core
  <2>5. EventInv'
    BY <2>1 DEF ReportInv, EventInv, core
  <2> QED
    BY <2>3, <2>4, <2>5 DEF ReportInv
<1>6. ASSUME NEW m \in Commands, mailbox' = Append(mailbox, m),
             m.type = "nativeExited" => m.generation \in alarms,
             alarms' \subseteq alarms,
             UNCHANGED <<core, watchers, events, died, tunnel>>
      PROVE  ReportInv'
  <2>1. ASSUME NEW g, Signalled(g)' PROVE Signalled(g)
    <3>1. QueuedAlarm(g, mailbox') => Signalled(g)
      BY <1>6, AlarmsOfAppend DEF TypeOK
    <3> QED
      BY <1>6, <2>1, <3>1
  <2> HIDE DEF Signalled
  <2> QED
    BY <1>0, <1>6, <2>1, ReportUnchanged
<1>7. ASSUME NEW c \in Clients, Send(c) PROVE ReportInv'
  <2>1. /\ client[c].command \in Commands
        /\ client[c].command.type # "nativeExited"
    BY <1>7, OrderTyped DEF Send, Shape, ClientShape
  <2> QED
    BY <1>6, <1>7, <2>1 DEF Send, history, world
<1>8. ASSUME NEW q \in Proc, SendExited(q) PROVE ReportInv'
  <2>1. [type |-> "exited", proc |-> q] \in Commands
    BY DEF Commands
  <2> QED
    BY <1>6, <1>8, <2>1 DEF SendExited, history, world
<1>9. ASSUME NEW g \in alarms, SendNativeExited(g) PROVE ReportInv'
  <2>1. [type |-> "nativeExited", generation |-> g] \in Commands
    BY DEF Commands, TypeOK
  <2> QED
    BY <1>6, <1>9, <2>1 DEF SendNativeExited, history
<1> QED
  BY <1>1, <1>2, <1>3, <1>4, <1>5, <1>7, <1>8, <1>9
  DEF Environment, Delivery

LEMMA ReportReceiving ==
    ASSUME TypeOK, Shape, ReportInv, mailbox # <<>>, Receiving(Head(mailbox))
    PROVE  ReportInv'
<1> DEFINE m == Head(mailbox)
<1>1. /\ mailbox' = Tail(mailbox) /\ actor.pc = "idle"
      /\ UNCHANGED <<table, world, generation, history>>
  BY DEF Receiving, HandleStart, HandleStop, HandleStatus, HandleExited,
         HandleNativeExited, Receive, core
<1>2. \A g : Signalled(g)' => Signalled(g)
  BY <1>1, AlarmsOfTail DEF Signalled, TypeOK, world
<1>3. CASE UNCHANGED core
  BY <1>1, <1>2, <1>3, ReportUnchanged DEF TypeOK, world, history
\* The session that a handler begins to stop stays accountable.
<1>4. ASSUME NEW goal, NEW request, NEW from, BeginStop(goal, request, from),
             goal = "nativeExit" =>
                 running.native # NoGen /\ running.native \in died
      PROVE  ReportInv'
  <2>1. /\ running'.native = NoGen /\ actor'.core = running
        /\ actor'.pc = "stopNative" /\ actor'.goal = goal
        /\ actor'.failed = FALSE
        /\ generation \in Nat
    BY <1>4 DEF BeginStop, EmptyCore, TypeOK
  <2>2. GenerationInv'
    BY <1>1, <1>2, <2>1 DEF ReportInv, GenerationInv, world
  <2>3. ExitInv'
    BY <1>1, <1>2, <2>1
    DEF ReportInv, ExitInv, Accountable, StopSteps, world, history
  <2>4. EventInv'
    BY <1>1, <1>4, <2>1 DEF ReportInv, EventInv, history
  <2> QED
    BY <2>2, <2>3, <2>4 DEF ReportInv
<1>5. CASE HandleStart(m) \/ HandleStop(m)
  BY <1>4, <1>5 DEF HandleStart, HandleStop
<1>6. CASE HandleStatus(m)
  BY <1>3, <1>6 DEF HandleStatus
<1>7. CASE HandleExited(m)
  BY <1>3, <1>4, <1>7 DEF HandleExited, core
<1>8. CASE HandleNativeExited(m)
  <2>1. ASSUME running.native # NoGen, running.native = m.generation
        PROVE  running.native \in died
    <3>1. QueuedAlarm(running.native, mailbox)
      BY <1>8, <2>1, AlarmsOfTail DEF HandleNativeExited, TypeOK
    <3>2. running.native = generation
      BY <2>1 DEF ReportInv, GenerationInv
    <3> QED
      BY <2>1, <3>1, <3>2
      DEF ReportInv, ExitInv, Accountable, Signalled
  <2> QED
    BY <1>1, <1>3, <1>4, <1>8, <2>1 DEF HandleNativeExited, core
<1> QED
  BY <1>5, <1>6, <1>7, <1>8 DEF Receiving

\* A step of a handler that makes no session accountable.
LEMMA ReportMove ==
    ASSUME TypeOK, ReportInv,
           actor'.pc = "stopNative" => ~actor'.failed,
           actor'.pc = "sudoWait" => actor'.toKill # {},
           actor'.core.native \in {NoGen, actor.core.native},
           \A g \in Nat \ {NoGen} : Accountable(g)' => Accountable(g),
           actor'.pc \in StopSteps =>
               /\ actor'.goal # "nativeExit" \/ actor.pc \in StopSteps
               /\ actor'.goal \in {actor.goal, "cleanup"}
               /\ actor'.core.native = actor.core.native,
           \/ UNCHANGED tunnel
           \/ ~Accountable(generation)',
           UNCHANGED <<running, generation, watchers, alarms, mailbox, died,
                       events>>
    PROVE  ReportInv'
<1>1. GenerationInv'
  BY DEF ReportInv, GenerationInv, Signalled
<1>2. ExitInv'
  <2>1. generation \in Nat
    BY DEF TypeOK
  <2>2. Signalled(generation)' = Signalled(generation)
    BY DEF Signalled
  <2> HIDE DEF Accountable, Signalled
  <2>3. ASSUME generation # NoGen, Accountable(generation)'
        PROVE  Accountable(generation) /\ tunnel' = tunnel
    BY <2>1, <2>3
  <2> QED
    BY <2>2, <2>3 DEF ReportInv, ExitInv
<1>3. EventInv'
  BY DEF ReportInv, EventInv
<1> QED
  BY <1>1, <1>2, <1>3 DEF ReportInv

LEMMA ReportStopping ==
    ASSUME TypeOK, Shape, ReportInv, Stopping
    PROVE  ReportInv'
<1>1. ASSUME actor.core.native # NoGen
      PROVE  /\ actor.toKill = {} /\ actor.core.main = NoProc
             /\ actor.core.pre = NoProc
  BY <1>1 DEF Shape, ActorShape, CoreShape, Handles
\* A step within stop_running after the provider was asked, that fails only
\* if there is no provider.
<1>2. ASSUME actor.pc \in StopSteps \ {"stopNative"},
             actor'.pc \in StopSteps \ {"stopNative"},
             actor'.core = actor.core, actor'.goal = actor.goal,
             actor'.pc = "sudoWait" => actor'.toKill # {},
             actor.core.native # NoGen => actor'.failed = actor.failed,
             UNCHANGED <<world, mailbox, running, generation, died, events>>
      PROVE  ReportInv'
  <2>1. \A g \in Nat \ {NoGen} : Accountable(g)' => Accountable(g)
    BY <1>2 DEF Accountable
  <2> QED
    BY <1>2, <2>1, ReportMove DEF world
<1>3. CASE StopNative
  <2>1. /\ actor'.pc = "sudoKill" /\ actor'.core = actor.core
        /\ actor'.goal = actor.goal
        /\ UNCHANGED <<running, generation, watchers, alarms, mailbox, died,
                       events>>
    BY <1>3, MoveFacts DEF StopNative, calls, history
  <2>2. actor.pc = "stopNative" /\ running.native = NoGen
    BY <1>3 DEF StopNative, Shape, ActorShape, EmptyCore
  <2>3. \A g \in Nat \ {NoGen} : Accountable(g)' => Accountable(g)
    BY <2>1, <2>2 DEF Accountable, StopSteps
  <2>4. UNCHANGED tunnel \/ ~Accountable(generation)'
    <3>1. CASE UNCHANGED tunnel
      BY <3>1
    <3>2. CASE Goto("sudoKill") /\ actor.core.native # NoGen
      <4>1. ~actor.failed /\ actor'.failed = actor.failed
        BY <2>2, <3>2, MoveFacts DEF ReportInv, GenerationInv
      <4>2. generation # NoGen
        BY <3>2 DEF ReportInv, GenerationInv
      <4> QED
        BY <2>1, <2>2, <4>1, <4>2 DEF Accountable
    <3> QED
      BY <1>3, <3>1, <3>2 DEF StopNative
  <2> QED
    BY <2>1, <2>2, <2>3, <2>4, ReportMove DEF StopSteps
<1>4. CASE SudoKill
  <2>1. actor.core.native = NoGen /\ actor.pc = "sudoKill"
    BY <1>1, <1>4 DEF SudoKill
  <2>2. UNCHANGED <<world, mailbox, running, generation, died, events>>
    BY <1>4 DEF SudoKill, calls, history
  <2>3. CASE Goto("sudoWait")
    <3>1. actor.toKill # {} /\ actor'.toKill = actor.toKill
      BY <1>4, <2>3 DEF SudoKill, Goto, TypeOK, ActorStates
    <3>2. /\ actor'.pc = "sudoWait" /\ actor'.core = actor.core
          /\ actor'.goal = actor.goal
      BY <2>3, MoveFacts
    <3> QED
      BY <1>2, <2>1, <2>2, <3>1, <3>2 DEF StopSteps
  <2>4. CASE GotoFailing("stopEnd", TRUE)
    <3>1. /\ actor'.pc = "stopEnd" /\ actor'.core = actor.core
          /\ actor'.goal = actor.goal
      BY <2>4, MoveFacts
    <3> QED
      BY <1>2, <2>1, <2>2, <3>1 DEF StopSteps
  <2>5. CASE actor' = [actor EXCEPT !.toKill = @ \ {NextToKill}]
    <3>1. /\ actor'.pc = actor.pc /\ actor'.core = actor.core
          /\ actor'.goal = actor.goal
      BY <2>5 DEF TypeOK, ActorStates
    <3> QED
      BY <1>2, <2>1, <2>2, <3>1 DEF StopSteps
  <2> QED
    BY <1>4, <2>3, <2>4, <2>5 DEF SudoKill
<1>5. CASE SudoWait
  <2>1. actor.core.native = NoGen /\ actor.pc = "sudoWait"
    BY <1>1, <1>5 DEF SudoWait, ReportInv, GenerationInv
  <2>2. UNCHANGED <<world, mailbox, running, generation, died, events>>
    BY <1>5 DEF SudoWait, calls, history
  <2>3. CASE GotoFailing("stopEnd", TRUE)
    <3>1. /\ actor'.pc = "stopEnd" /\ actor'.core = actor.core
          /\ actor'.goal = actor.goal
      BY <2>3, MoveFacts
    <3> QED
      BY <1>2, <2>1, <2>2, <3>1 DEF StopSteps
  <2>4. CASE actor' = [actor EXCEPT !.pc = "sudoKill",
                                    !.toKill = @ \ {NextToKill}]
    <3>1. /\ actor'.pc = "sudoKill" /\ actor'.core = actor.core
          /\ actor'.goal = actor.goal
      BY <2>4 DEF TypeOK, ActorStates
    <3> QED
      BY <1>2, <2>1, <2>2, <3>1 DEF StopSteps
  <2> QED
    BY <1>5, <2>3, <2>4 DEF SudoWait
<1>6. CASE SudoKilledAll
  <2>1. /\ actor'.pc = "stopMain" /\ actor'.core = actor.core
        /\ actor'.goal = actor.goal /\ actor'.failed = actor.failed
    BY <1>6, MoveFacts DEF SudoKilledAll
  <2>2. /\ actor.pc = "sudoKill"
        /\ UNCHANGED <<world, mailbox, running, generation, died, events>>
    BY <1>6 DEF SudoKilledAll, calls, history
  <2> QED
    BY <1>2, <2>1, <2>2 DEF StopSteps
<1>7. ASSUME NEW p, NEW next \in {"stopPre", "stopEnd"}, RunnerStop(p, next),
             actor.core.native # NoGen => p = NoProc,
             actor.pc \in {"stopMain", "stopPre"},
             UNCHANGED <<world, calls, running, generation, died, events>>
      PROVE  ReportInv'
  <2>1. actor.core.native # NoGen => Goto(next)
    BY <1>7, NoProcFacts DEF RunnerStop, Table!Stop, Table!StopFails
  <2>2. Goto(next) \/ GotoFailing(next, TRUE)
    BY <1>7 DEF RunnerStop
  <2> QED
    BY <1>2, <1>7, <2>1, <2>2, MoveFacts DEF StopSteps, calls
<1>8. CASE StopMain \/ StopPre
  BY <1>1, <1>7, <1>8 DEF StopMain, StopPre
<1>9. CASE StopEndRestore
  <2>1. /\ running' = actor.core /\ actor' = Idle /\ actor.pc = "stopEnd"
        /\ actor.failed /\ running = EmptyCore
        /\ UNCHANGED <<world, mailbox, generation, died, events>>
    BY <1>9 DEF StopEndRestore, Finish, Shape, ActorShape
  <2>2. GenerationInv'
    BY <2>1, IdleFacts DEF ReportInv, GenerationInv, Signalled, world
  <2>3. ExitInv'
    BY <2>1, IdleFacts
    DEF ReportInv, ExitInv, Accountable, Signalled, StopSteps, world
  <2>4. EventInv'
    BY <2>1, IdleFacts DEF ReportInv, EventInv, StopSteps
  <2> QED
    BY <2>2, <2>3, <2>4 DEF ReportInv
<1>10. CASE StopEndStopped \/ StopEndCleanup
  <2>1. /\ running = EmptyCore /\ actor' = Idle
        /\ UNCHANGED <<world, mailbox, running, generation, died, events>>
    BY <1>10 DEF StopEndStopped, StopEndCleanup, Finish, Shape, ActorShape
  <2>2. \A g \in Nat \ {NoGen} : ~Accountable(g)'
    BY <2>1, IdleFacts DEF Accountable, StopSteps
  <2> QED
    BY <2>1, <2>2, IdleFacts, ReportMove DEF StopSteps, world
<1>11. CASE StopEndStart
  <2>1. /\ actor'.pc = "prepare" /\ actor'.core = EmptyCore
        /\ running = EmptyCore
        /\ UNCHANGED <<world, mailbox, running, generation, died, events>>
    BY <1>11 DEF StopEndStart, TypeOK, ActorStates, Shape, ActorShape, calls,
                 history
  <2>2. \A g \in Nat \ {NoGen} : ~Accountable(g)'
    BY <2>1, IdleFacts DEF Accountable, StopSteps
  <2> QED
    BY <2>1, <2>2, IdleFacts, ReportMove DEF StopSteps, world
\* The event: a generation later than all that were reported.
<1>12. CASE StopEndNativeExit
  <2> DEFINE e == actor.core.native
  <2>1. /\ running = EmptyCore /\ actor' = Idle /\ events' = Append(events, e)
        /\ actor.pc = "stopEnd" /\ actor.goal = "nativeExit"
        /\ UNCHANGED <<world, mailbox, running, generation, died>>
    BY <1>12 DEF StopEndNativeExit, Finish, Shape, ActorShape
  <2>2. GenerationInv'
    BY <2>1, IdleFacts DEF ReportInv, GenerationInv, Signalled, world
  <2>3. ExitInv'
    BY <2>1, IdleFacts DEF ReportInv, ExitInv, Accountable, StopSteps
  <2>4. e # NoGen /\ 1 <= e /\ e \in died /\ e = generation /\ e \in Nat
    BY <2>1, CoreTyped
    DEF ReportInv, GenerationInv, EventInv, StopSteps, NoGen
  <2>5. /\ Len(events') = Len(events) + 1 /\ Len(events) \in Nat
        /\ events'[Len(events) + 1] = e
        /\ \A i \in 1 .. Len(events) :
               events'[i] = events[i] /\ events[i] \in Nat
    BY <2>1, <2>4 DEF TypeOK
  <2>6. \A i \in 1 .. Len(events) :
            1 <= events[i] /\ events[i] < e /\ events[i] \in died
    BY <2>4 DEF ReportInv, EventInv
  <2> HIDE DEF e
  <2>7. \A i \in 1 .. Len(events') :
            1 <= events'[i] /\ events'[i] <= e /\ events'[i] \in died
    <3> SUFFICES ASSUME NEW i \in 1 .. Len(events')
                 PROVE  1 <= events'[i] /\ events'[i] <= e
                        /\ events'[i] \in died
      OBVIOUS
    <3>1. i \in 1 .. Len(events) \/ i = Len(events) + 1
      BY <2>5
    <3> QED
      BY <2>4, <2>5, <2>6, <3>1
  <2>8. \A i, j \in 1 .. Len(events') : i < j => events'[i] < events'[j]
    <3> SUFFICES ASSUME NEW i \in 1 .. Len(events'),
                        NEW j \in 1 .. Len(events'), i < j
                 PROVE  events'[i] < events'[j]
      OBVIOUS
    <3>1. i \in 1 .. Len(events)
      BY <2>5
    <3>2. j \in 1 .. Len(events) \/ j = Len(events) + 1
      BY <2>5
    <3> QED
      BY <2>4, <2>5, <2>6, <3>1, <3>2 DEF ReportInv, EventInv
  <2>9. EventInv'
    BY <2>1, <2>4, <2>7, <2>8, IdleFacts DEF EventInv, StopSteps
  <2> QED
    BY <2>2, <2>3, <2>9 DEF ReportInv
<1> QED
  BY <1>3, <1>4, <1>5, <1>6, <1>8, <1>9, <1>10, <1>11, <1>12 DEF Stopping

LEMMA ReportStarting ==
    ASSUME TypeOK, Shape, ReportInv, Starting
    PROVE  ReportInv'
<1>1. /\ actor.pc \in StartSteps /\ actor.core.native = NoGen
      /\ running = EmptyCore /\ generation \in Nat
  <2>1. actor.pc \in StartSteps
    BY DEF Starting, Prepare, StartNative, StartNativeFails, SpawnMain,
           AssignMain, SpawnPre, AssignPre, Commit, StartSteps
  <2> QED
    BY <2>1 DEF Shape, ActorShape, StartSteps, TypeOK
\* A step that tracks no provider.
<1>2. ASSUME actor'.core.native = NoGen,
             actor'.pc \in StartSteps \cup {"idle", "stopNative"},
             actor'.pc = "stopNative" =>
                 actor'.goal = "cleanup" /\ ~actor'.failed,
             UNCHANGED <<world, mailbox, running, generation, died, events>>
      PROVE  ReportInv'
  <2>1. \A g \in Nat \ {NoGen} : ~Accountable(g)'
    BY <1>1, <1>2, IdleFacts DEF Accountable
  <2>2. /\ actor'.pc # "sudoWait"
        /\ actor'.pc \in StopSteps => actor'.pc = "stopNative"
    BY <1>2 DEF StopSteps, StartSteps
  <2> QED
    BY <1>1, <1>2, <2>1, <2>2, ReportMove DEF world
<1>3. ASSUME FailStart PROVE ReportInv'
  BY <1>2, <1>3, IdleFacts DEF FailStart, Finish
<1>4. ASSUME BeginCleanup PROVE ReportInv'
  <2>1. /\ actor'.pc = "stopNative" /\ actor'.goal = "cleanup"
        /\ actor'.core = actor.core /\ actor'.failed = FALSE
    BY <1>4 DEF BeginCleanup, TypeOK, ActorStates
  <2> QED
    BY <1>1, <1>2, <1>4, <2>1 DEF BeginCleanup, calls, history
<1>5. ASSUME NEW pc \in StartSteps, Goto(pc),
             UNCHANGED <<table, world, calls, running, generation, history>>
      PROVE  ReportInv'
  BY <1>1, <1>2, <1>5, MoveFacts DEF StartSteps, calls, history
<1>6. CASE Prepare
  <2>1. CASE FailStart
    BY <1>3, <2>1
  <2>2. CASE Goto("startNative")
             /\ UNCHANGED <<table, world, calls, running, generation, history>>
    BY <1>5, <2>2 DEF StartSteps
  <2>3. CASE /\ actor' = [actor EXCEPT !.pc = "spawnMain",
                    !.core = [EmptyCore EXCEPT !.request = actor.request]]
             /\ UNCHANGED <<table, world, calls, running, generation, history>>
    <3>1. actor'.pc = "spawnMain" /\ actor'.core.native = NoGen
      BY <2>3 DEF TypeOK, ActorStates, EmptyCore
    <3> QED
      BY <1>2, <2>3, <3>1 DEF StartSteps, calls, history
  <2> QED
    BY <1>6, <2>1, <2>2, <2>3 DEF Prepare
\* A new generation, that nobody has spoken of.
<1>7. CASE StartNative
  <2> DEFINE n == generation + 1
  <2>1. /\ running' = [EmptyCore EXCEPT !.native = n,
                                        !.request = actor.request]
        /\ actor' = Idle /\ generation' = n /\ tunnel' = "up"
        /\ watchers' = watchers \cup {n}
        /\ UNCHANGED <<alarms, mailbox, died, events>>
    BY <1>7 DEF StartNative, Finish
  <2>2. n \in Nat /\ n # NoGen /\ ~(n <= generation) /\ generation <= n
    BY <1>1 DEF NoGen
  <2>3. \A g : g \in Nat /\ g <= generation => g <= n
    BY <1>1
  <2>4. \A i \in 1 .. Len(events) :
            1 <= events[i] /\ events[i] < n /\ events[i] <= n
    <3>1. ASSUME NEW i \in 1 .. Len(events)
          PROVE  1 <= events[i] /\ events[i] < n /\ events[i] <= n
      <4>1. events[i] \in Nat /\ 1 <= events[i] /\ events[i] <= generation
        BY DEF ReportInv, EventInv, TypeOK
      <4> QED
        BY <1>1, <4>1
    <3> QED
      BY <3>1
  <2> HIDE DEF n
  <2>5. running'.native = n
    BY <2>1 DEF EmptyCore
  <2>6. \A g : Signalled(g)' = Signalled(g)
    BY <2>1 DEF Signalled
  <2>7. GenerationInv'
    BY <2>1, <2>2, <2>3, <2>5, <2>6, IdleFacts
    DEF ReportInv, GenerationInv, TypeOK
  <2>8. ExitInv'
    BY <2>1, <2>2, <2>6 DEF ReportInv, GenerationInv, ExitInv
  <2>9. EventInv'
    BY <2>1, <2>4, <2>5, IdleFacts DEF ReportInv, EventInv, StopSteps
  <2> QED
    BY <2>7, <2>8, <2>9 DEF ReportInv
<1>8. CASE StartNativeFails
  BY <1>3, <1>8 DEF StartNativeFails
<1>9. ASSUME NEW p \in Proc, NEW role, NEW next \in StartSteps,
             SpawnRole(p, role, next),
             \/ actor.pc = "spawnMain" /\ role = "main"
             \/ actor.pc = "spawnPre" /\ role = "pre"
      PROVE  ReportInv'
  BY <1>1, <1>2, <1>9, SpawnFacts DEF StartSteps, calls, history
<1>10. CASE SpawnMain
  BY <1>3, <1>9, <1>10 DEF SpawnMain, StartSteps
<1>11. ASSUME NEW p, NEW next \in StartSteps, Assign(p, next)
       PROVE  ReportInv'
  BY <1>1, <1>2, <1>11, AssignFacts DEF Assign, StartSteps, calls, history
<1>12. CASE AssignMain
  BY <1>4, <1>11, <1>12 DEF AssignMain, StartSteps
<1>13. CASE SpawnPre
  BY <1>4, <1>5, <1>9, <1>13 DEF SpawnPre, StartSteps
<1>14. CASE AssignPre
  BY <1>4, <1>11, <1>14 DEF AssignPre, StartSteps
<1>15. CASE Commit
  <2>1. /\ running' = actor.core /\ actor' = Idle
        /\ UNCHANGED <<world, mailbox, generation, died, events>>
    BY <1>15 DEF Commit, Finish
  <2>2. GenerationInv'
    BY <1>1, <2>1, IdleFacts DEF ReportInv, GenerationInv, Signalled, world
  <2>3. ExitInv'
    BY <1>1, <2>1, IdleFacts DEF ReportInv, ExitInv, Accountable, StopSteps
  <2>4. EventInv'
    BY <1>1, <2>1, IdleFacts DEF ReportInv, EventInv, StopSteps
  <2> QED
    BY <2>2, <2>3, <2>4 DEF ReportInv
<1> QED
  BY <1>6, <1>7, <1>8, <1>10, <1>12, <1>13, <1>14, <1>15 DEF Starting

LEMMA ReportStep ==
    ASSUME TypeOK, Shape, ReportInv, [Next]_vars
    PROVE  ReportInv'
<1>1. generation \in Nat
  BY DEF TypeOK
<1>2. CASE ActorStep
  BY <1>2, ReportReceiving, ReportStopping, ReportStarting DEF ActorStep
<1>3. CASE UNCHANGED vars
  BY <1>1, <1>3, ReportUnchanged
  DEF vars, Signalled, world, calls, history
<1>4. ASSUME NEW c, NEW m, Call(c, m) PROVE ReportInv'
  BY <1>1, <1>4, ReportUnchanged DEF Call, Signalled, world, history
<1> QED
  BY <1>2, <1>3, <1>4, ReportEnvironment DEF Next

\* The event sink hears of each exit of a provider once, in order, of no
\* session that still runs and of none that was stopped: late watchers of old
\* sessions, failed stops and restarts included.
THEOREM NativeExitsReported == Spec => []NativeExitsAreReported
<1>1. Init => ReportInv
  <2>1. ASSUME Init PROVE ReportInv
    <3>1. Len(events) = 0 /\ Len(mailbox) = 0
      BY <2>1 DEF Init
    <3> QED
      BY <2>1, <3>1, IdleFacts
      DEF Init, ReportInv, GenerationInv, ExitInv, EventInv, Signalled,
          QueuedAlarm, StopSteps
  <2> QED
    BY <2>1
<1>2. IInv /\ ReportInv /\ [Next]_vars => ReportInv'
  BY ReportStep DEF IInv
<1>3. IInv /\ ReportInv => NativeExitsAreReported
  <2>1. ASSUME IInv, ReportInv PROVE NativeExitsAreReported
    <3>1. ASSUME NEW i \in 1 .. Len(events)
          PROVE  events[i] # running.native
      <4>1. events[i] \in Nat /\ running.native \in Nat
        BY <2>1 DEF IInv, TypeOK, CoreStates
      <4> QED
        BY <2>1, <4>1 DEF ReportInv, EventInv, NoGen
    <3> QED
      BY <2>1, <3>1
      DEF ReportInv, EventInv, NativeExitsAreReported, NativeExitReportedOnce,
          OnlyRealExitsReported
  <2> QED
    BY <2>1
<1> QED
  BY <1>1, <1>2, <1>3, IInvInvariant, PTL DEF Spec
=============================================================================
