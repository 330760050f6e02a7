------------------------------ MODULE SystemProxy ------------------------------
(***************************************************************************)
(* The system proxy and its dirty marker: SystemProxyManager of voya-app   *)
(* (sysproxy.rs), SystemProxyService of voya-platform (sysproxy.rs and     *)
(* sysproxy/backend.rs), and the calls of the desktop shell at startup and *)
(* at exit (lib.rs).                                                       *)
(*                                                                         *)
(* The operating system's proxy settings and the marker file survive the   *)
(* application; the PAC server does not.  The manager has no lock, so every *)
(* file operation, command and script line of an apply is a step.  Callers  *)
(* are the shell's commands, startup and exit; the application may crash    *)
(* between any two steps.                                                   *)
(***************************************************************************)
EXTENDS Naturals

CONSTANTS
    Callers,            \* tasks that apply or restore at the same time
    TargetOs,           \* "windows", "macos", "linux" or "other"
    KdeTools,           \* Linux: kwriteconfig is installed
    CommandMayFail,     \* plan, PAC listener, registry command, script line
    FileMayFail,        \* writing, inspecting or removing the marker
    MayCrash,           \* the application may be killed
    MaxOperations       \* bound: applies, exits and launches in a behaviour

ASSUME SystemProxyAssumption ==
    /\ TargetOs \in {"windows", "macos", "linux", "other"}
    /\ {KdeTools, CommandMayFail, FileMayFail, MayCrash} \subseteq BOOLEAN
    /\ MaxOperations \in Nat

VARIABLES
    manual,     \* the OS sends traffic to the local port
    pac,        \* the OS fetches the local PAC file
    marker,     \* the dirty marker file exists
    pacServer,  \* the PAC server listens
    mode,       \* the mode of the configuration, in memory and stored
    app,        \* "closed", "starting", "up" or "exiting"
    job,        \* [Callers -> the apply in progress, or the last one]
    budget      \* operations left

settings == <<manual, pac>>
vars == <<settings, marker, pacServer, mode, app, job, budget>>

Types == {"ForcedClear", "ForcedChange", "Unchanged", "Pac"}

Proxied == manual \/ pac

\* Steps of an apply in order; a purpose says what follows it.
Steps == {"mark", "plan", "startPac", "writeManual", "writePac", "status",
          "unmark"}

Purposes == {"apply", "setMode", "recover", "persisted", "exitRequested",
             "exit"}

\* draft is the mode that set_system_proxy_mode will commit.
Jobs == [pc : {"idle"} \cup Steps, purpose : Purposes, type : Types,
         force : BOOLEAN, draft : Types, failed : BOOLEAN,
         result : {"none", "ok", "err"}]

NoJob == [pc |-> "idle", purpose |-> "apply", type |-> "Unchanged",
          force |-> FALSE, draft |-> "Unchanged", failed |-> FALSE,
          result |-> "none"]

\* An operation has no result before it returns, and startup and exit are
\* operations in progress.
TypeOK ==
    /\ {manual, pac, marker, pacServer} \subseteq BOOLEAN
    /\ mode \in Types
    /\ app \in {"closed", "starting", "up", "exiting"}
    /\ job \in [Callers -> Jobs]
    /\ \A c \in Callers : job[c].pc # "idle" => job[c].result = "none"
    /\ app \in {"starting", "exiting"} =>
          \E c \in Callers : job[c].pc # "idle"
    /\ budget \in Nat

Init ==
    /\ manual = FALSE
    /\ pac = FALSE
    /\ marker = FALSE
    /\ pacServer = FALSE
    /\ mode \in Types
    /\ app = "closed"
    /\ job = [c \in Callers |-> NoJob]
    /\ budget = MaxOperations

-----------------------------------------------------------------------------
(* The request.                                                            *)

PacAvailable == TargetOs \in {"windows", "macos"}

EffectiveType(type, force) ==
    IF force /\ type # "Unchanged" THEN "ForcedClear" ELSE type

Effective(c) == EffectiveType(job[c].type, job[c].force)

RequestSetsLocalProxy(type, force) ==
    /\ ~force
    /\ \/ type = "ForcedChange" /\ TargetOs # "other"
       \/ type = "Pac" /\ PacAvailable

\* PAC elsewhere is no action; forced modes on other systems are errors.
PlanIsNoop(type) == type = "Unchanged" \/ (type = "Pac" /\ ~PacAvailable)

Unsupported(type) == TargetOs = "other" /\ type # "Unchanged"

-----------------------------------------------------------------------------
(* apply_config, one file operation, command or script line at a time.     *)

Goto(c, pc) == job' = [job EXCEPT ![c].pc = pc]

\* Tunnels change what is asked for: a native one forces the proxy off, that
\* of Linux falls back to the manual proxy.
RuntimeRequests(m) ==
    {<<m, FALSE>>}
    \cup (IF TargetOs \in {"windows", "macos"} THEN {<<m, TRUE>>} ELSE {})
    \cup (IF TargetOs = "linux" /\ m = "ForcedClear"
          THEN {<<"ForcedChange", FALSE>>} ELSE {})

NewJob(purpose, request, draft) ==
    [pc |-> "mark", purpose |-> purpose, type |-> request[1],
     force |-> request[2], draft |-> draft, failed |-> FALSE,
     result |-> "none"]

Done(c, result) ==
    job' = [job EXCEPT ![c].pc = "idle", ![c].result = result]

\* set_system_proxy_mode commits the draft; where the commit fails, the mode
\* that is still stored is applied again, the mutation lock already released.
SetModeReturns(c, result) ==
    /\ \/ Done(c, result) /\ mode' = job[c].draft /\ result = "ok"
       \/ Done(c, result) /\ mode' = mode /\ result = "err"
       \/ /\ FileMayFail /\ result = "ok"
          /\ \E r \in RuntimeRequests(mode) :
                job' = [job EXCEPT ![c] = NewJob("apply", r, mode)]
          /\ mode' = mode
    /\ UNCHANGED <<app, pacServer>>

\* shutdown_for_exit stops the PAC server whatever restore returned, and runs
\* for ExitRequested and once more for Exit.
ExitReturns(c, result) ==
    /\ pacServer' = FALSE
    /\ UNCHANGED mode
    /\ \/ /\ job[c].purpose = "exitRequested"
          /\ job' = [job EXCEPT ![c] = NewJob("exit", <<mode, TRUE>>, mode)]
          /\ UNCHANGED app
       \/ /\ job[c].purpose = "exit"
          /\ job' = [d \in Callers |->
                        IF d = c THEN [job[c] EXCEPT !.pc = "idle",
                                                     !.result = result]
                                 ELSE NoJob]
          /\ app' = "closed"

\* The operation returns to the command, to startup or to the exit event.
Return(c, result) ==
    \/ /\ job[c].purpose = "apply"
       /\ Done(c, result)
       /\ UNCHANGED <<mode, app, pacServer>>
    \/ job[c].purpose = "setMode" /\ SetModeReturns(c, result)
    \/ /\ job[c].purpose \in {"recover", "persisted"}
       /\ Done(c, result)
       /\ app' = "up"
       /\ UNCHANGED <<mode, pacServer>>
    \/ ExitReturns(c, result)

Fail(c) == Return(c, "err") /\ UNCHANGED <<settings, marker, budget>>

\* The marker goes before the proxy.
WriteMarker(c) ==
    /\ job[c].pc = "mark"
    /\ \/ /\ marker' = (marker \/ RequestSetsLocalProxy(job[c].type,
                                                        job[c].force))
          /\ Goto(c, "plan")
          /\ UNCHANGED <<settings, pacServer, mode, app, budget>>
       \/ /\ FileMayFail
          /\ RequestSetsLocalProxy(job[c].type, job[c].force)
          /\ Fail(c)

\* plan_system_proxy; anything but PAC stops the PAC server.
Plan(c) ==
    /\ job[c].pc = "plan"
    /\ \/ /\ ~Unsupported(Effective(c))
          /\ pacServer' = (pacServer /\ Effective(c) = "Pac")
          /\ Goto(c, IF PlanIsNoop(Effective(c)) THEN "status"
                     ELSE IF Effective(c) = "Pac" THEN "startPac"
                     ELSE "writeManual")
          /\ UNCHANGED <<settings, marker, mode, app, budget>>
       \/ /\ Unsupported(Effective(c)) \/ CommandMayFail
          /\ Fail(c)

\* A restart on another port takes the old server down before it binds.  No
\* restore gets here.
StartPac(c) ==
    /\ job[c].pc = "startPac"
    /\ \/ /\ pacServer' = TRUE
          /\ Goto(c, "writeManual")
          /\ UNCHANGED <<settings, marker, mode, app, budget>>
       \/ /\ CommandMayFail
          /\ job[c].purpose \in {"apply", "setMode", "persisted"}
          /\ pacServer' = FALSE
          /\ job' = [job EXCEPT ![c].pc = "idle", ![c].result = "err"]
          /\ app' = IF job[c].purpose = "persisted" THEN "up" ELSE app
          /\ UNCHANGED <<settings, marker, mode, budget>>

\* A failed registry command ends the apply; a failed script line does not.
Wrote(c, next) ==
    /\ job' = [job EXCEPT ![c].pc = next, ![c].failed = FALSE]
    /\ UNCHANGED <<marker, pacServer, mode, app, budget>>

WriteFails(c, next) ==
    /\ CommandMayFail
    /\ IF TargetOs = "windows"
       THEN Fail(c)
       ELSE /\ job' = [job EXCEPT ![c].pc = next, ![c].failed = TRUE]
            /\ UNCHANGED <<settings, marker, pacServer, mode, app, budget>>

\* ProxyEnable and ProxyServer; the proxy mode; the web and SOCKS proxies.
WriteManual(c) ==
    /\ job[c].pc = "writeManual"
    /\ LET next == IF TargetOs = "linux" THEN "status" ELSE "writePac" IN
       \/ /\ manual' = (Effective(c) = "ForcedChange")
          /\ Wrote(c, next)
          /\ UNCHANGED pac
       \/ WriteFails(c, next)

\* Variant: the AutoConfigURL of a clear is left alone.
Mut_WritePac(c) ==
    /\ job[c].pc = "writePac"
    /\ \/ /\ pac' = (pac \/ Effective(c) = "Pac")
          /\ Wrote(c, "status")
          /\ UNCHANGED manual
       \/ WriteFails(c, "status")

\* AutoConfigURL; the automatic proxy URL and state.
WritePac(c) ==
    /\ job[c].pc = "writePac"
    /\ \/ /\ pac' = (Effective(c) = "Pac")
          /\ Wrote(c, "status")
          /\ UNCHANGED manual
       \/ WriteFails(c, "status")

\* The exit status of the Linux script is that of set_kde, which returns the
\* status of its last test where kwriteconfig is missing; that of the macOS
\* script is that of its last line.
ScriptFails(c) ==
    /\ ~PlanIsNoop(Effective(c))
    /\ \/ TargetOs = "linux" /\ ~KdeTools
       \/ TargetOs = "macos" /\ job[c].failed

\* Variant: a restore that fails removes the marker all the same.
Mut_CheckStatus(c) ==
    /\ job[c].pc = "status"
    /\ Goto(c, "unmark")
    /\ UNCHANGED <<settings, marker, pacServer, mode, app, budget>>

CheckStatus(c) ==
    /\ job[c].pc = "status"
    /\ \/ ScriptFails(c) /\ Fail(c)
       \/ /\ ~ScriptFails(c) /\ Effective(c) = "ForcedClear"
          /\ Goto(c, "unmark")
          /\ UNCHANGED <<settings, marker, pacServer, mode, app, budget>>
       \/ /\ ~ScriptFails(c) /\ Effective(c) # "ForcedClear"
          /\ Return(c, "ok")
          /\ UNCHANGED <<settings, marker, budget>>

RemoveMarker(c) ==
    /\ job[c].pc = "unmark"
    /\ \/ /\ marker' = FALSE
          /\ Return(c, "ok")
          /\ UNCHANGED <<settings, budget>>
       \/ FileMayFail /\ Fail(c)

-----------------------------------------------------------------------------
(* The callers.                                                            *)

Begin(c, purpose, request, draft) ==
    /\ job[c].pc = "idle"
    /\ budget > 0
    /\ budget' = budget - 1
    /\ job' = [job EXCEPT ![c] = NewJob(purpose, request, draft)]
    /\ UNCHANGED <<settings, marker, pacServer, mode>>

\* A connect, restart or settings save applies; a disconnect or a failed
\* tunnel restores.
Apply(c, request) ==
    /\ app \in {"up", "exiting"}
    /\ request \in RuntimeRequests(mode) \cup {<<mode, TRUE>>}
    /\ Begin(c, "apply", request, mode)
    /\ UNCHANGED app

\* Nobody holds the lock of the configuration.
MutationFree == \A c \in Callers : job[c].purpose = "setMode" => job[c].pc = "idle"

SetMode(c, m, request) ==
    /\ app \in {"up", "exiting"}
    /\ MutationFree
    /\ m = "Pac" => PacAvailable
    /\ request \in RuntimeRequests(m)
    /\ Begin(c, "setMode", request, m)
    /\ UNCHANGED app

\* Saved settings: applied afterwards, and only while connected (Apply).
SaveMode(m) ==
    /\ app \in {"up", "exiting"}
    /\ MutationFree
    /\ m # mode
    /\ budget > 0
    /\ budget' = budget - 1
    /\ mode' = m
    /\ UNCHANGED <<settings, marker, pacServer, app, job>>

\* Variant: startup applies the persisted mode whatever the marker says.
Mut_Launch(c) ==
    /\ app = "closed"
    /\ app' = "starting"
    /\ Begin(c, "persisted", <<mode, FALSE>>, mode)

\* Startup recovers from the marker, or else applies the persisted mode.
Launch(c) ==
    /\ app = "closed"
    /\ app' = "starting"
    /\ IF marker THEN Begin(c, "recover", <<"ForcedClear", FALSE>>, mode)
                 ELSE Begin(c, "persisted", <<mode, FALSE>>, mode)

\* A marker that cannot be inspected: nothing is recovered, nothing applied.
LaunchBlind ==
    /\ FileMayFail
    /\ app = "closed"
    /\ budget > 0
    /\ budget' = budget - 1
    /\ app' = "up"
    /\ UNCHANGED <<settings, marker, pacServer, mode, job>>

Exit(c) ==
    /\ app = "up"
    /\ app' = "exiting"
    /\ Begin(c, "exitRequested", <<mode, TRUE>>, mode)

Crash ==
    /\ MayCrash
    /\ app # "closed"
    /\ app' = "closed"
    /\ pacServer' = FALSE
    /\ job' = [c \in Callers |-> NoJob]
    /\ UNCHANGED <<settings, marker, mode, budget>>

Step(c) ==
    \/ WriteMarker(c) \/ Plan(c) \/ StartPac(c) \/ WriteManual(c)
    \/ WritePac(c) \/ CheckStatus(c) \/ RemoveMarker(c)

Next ==
    \/ \E c \in Callers :
          \/ Step(c)
          \/ \E request \in Types \X BOOLEAN :
                \/ Apply(c, request)
                \/ \E m \in Types : SetMode(c, m, request)
          \/ Launch(c)
          \/ Exit(c)
    \/ \E m \in Types : SaveMode(m)
    \/ LaunchBlind
    \/ Crash

Spec == Init /\ [][Next]_vars

-----------------------------------------------------------------------------
(* Properties.                                                             *)

\* The marker's promise: wherever a call stops, by an error or by a crash,
\* settings that point at the application are marked.  (The manager takes no
\* lock: this needs one caller at a time.)
ProxiedHasMarker == Proxied => marker

\* The same promise seen by the next start: settings left behind are
\* recovered before anything is applied.
RestartRestores ==
    [][\A c \in Callers :
          app = "closed" /\ Proxied /\ job'[c].pc = "mark"
              => job'[c].purpose = "recover"]_vars

\* An apply or restore that returned Ok did what it said, PAC server and
\* marker included.
OkMeansApplied ==
    \A c \in Callers :
        job[c].pc = "idle" /\ job[c].result = "ok" =>
            CASE Effective(c) = "ForcedChange" -> manual /\ ~pac /\ ~pacServer
              [] Effective(c) = "Pac" ->
                    PacAvailable => pac /\ ~manual /\ pacServer
              [] Effective(c) = "ForcedClear" -> ~Proxied /\ ~marker
              [] OTHER -> TRUE

\* A clear, at exit or at recovery, removes the marker: a start after a
\* restored exit finds none.
RestoreClearsMarker ==
    \A c \in Callers :
        job[c].pc = "idle" /\ job[c].result # "none"
        /\ Effective(c) = "ForcedClear"
            => ~marker
=============================================================================
