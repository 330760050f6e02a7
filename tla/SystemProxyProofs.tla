--------------------------- MODULE SystemProxyProofs ---------------------------
(* What holds of SystemProxy for every number of operations and every kind  *)
(* of operating system: its types, and, for one caller at a time, the       *)
(* promise of the dirty marker and what an Ok means.                        *)
EXTENDS SystemProxy, TLAPS

Startup == {"recover", "persisted"}
Exiting == {"exitRequested", "exit"}

Active(c) == job[c].pc # "idle"

\* Which operations run in which phase of the application.
Phases ==
    /\ app = "closed" => \A c \in Callers : ~Active(c)
    /\ \A c \in Callers :
          Active(c) => /\ job[c].purpose \in Startup => app = "starting"
                       /\ job[c].purpose \in Exiting => app = "exiting"
    /\ app = "starting" =>
          \E c \in Callers : Active(c) /\ job[c].purpose \in Startup
    /\ app = "starting" =>
          \A c, d \in Callers : Active(c) /\ Active(d) => c = d
    /\ app = "exiting" =>
          \E c \in Callers : Active(c) /\ job[c].purpose \in Exiting

IInv == TypeOK /\ Phases

-----------------------------------------------------------------------------
(* Operators.                                                              *)

\* What the tunnel asks for is a request.
LEMMA RuntimeRequestsType ==
    ASSUME NEW m \in Types
    PROVE  RuntimeRequests(m) \subseteq Types \X BOOLEAN
<1>1. "ForcedChange" \in Types
  BY DEF Types
<1>2. /\ <<m, FALSE>> \in Types \X BOOLEAN
      /\ <<m, TRUE>> \in Types \X BOOLEAN
      /\ <<"ForcedChange", FALSE>> \in Types \X BOOLEAN
  BY <1>1
<1> QED BY <1>2 DEF RuntimeRequests

\* A new job is one that has not begun.
LEMMA NewJobType ==
    ASSUME NEW purpose \in Purposes, NEW request \in Types \X BOOLEAN,
           NEW draft \in Types
    PROVE  /\ NewJob(purpose, request, draft) \in Jobs
           /\ NewJob(purpose, request, draft).pc = "mark"
           /\ NewJob(purpose, request, draft).purpose = purpose
           /\ NewJob(purpose, request, draft).type = request[1]
           /\ NewJob(purpose, request, draft).force = request[2]
           /\ NewJob(purpose, request, draft).result = "none"
BY DEF NewJob, Jobs, Steps

\* The idle job is a job.
LEMMA NoJobType == NoJob \in Jobs /\ NoJob.pc = "idle" /\ NoJob.result = "none"
BY DEF NoJob, Jobs, Steps, Purposes, Types

-----------------------------------------------------------------------------
(* Type correctness.                                                       *)

\* A step inside an operation leaves the phases alone.
LEMMA GotoType ==
    ASSUME IInv, NEW c \in Callers, Active(c), NEW pc \in Steps,
           NEW failed \in BOOLEAN,
           job' = [job EXCEPT ![c].pc = pc, ![c].failed = failed],
           UNCHANGED <<mode, app, budget>>,
           {manual, pac, marker, pacServer}' \subseteq BOOLEAN
    PROVE  IInv'
<1>1. job' \in [Callers -> Jobs]
  BY ZenonT(40) DEF IInv, TypeOK, Jobs
<1>2. /\ job'[c].pc = pc /\ job'[c].purpose = job[c].purpose
      /\ job'[c].result = job[c].result
  BY DEF IInv, TypeOK, Jobs
<1>3. pc # "idle"
  BY DEF Steps
<1>4. \A d \in Callers \ {c} : job'[d] = job[d]
  BY DEF IInv, TypeOK
<1>5. TypeOK'
  BY <1>1, <1>2, <1>3, <1>4 DEF IInv, TypeOK, Active
<1>6. \A d \in Callers : /\ job'[d].pc # "idle" <=> job[d].pc # "idle"
                         /\ job'[d].purpose = job[d].purpose
  BY <1>2, <1>3, <1>4 DEF Active
<1>7. Phases'
  BY <1>6 DEF IInv, Phases, Active
<1> QED
  BY <1>5, <1>7 DEF IInv

\* The same where the step leaves the field failed alone.
LEMMA PlainGotoType ==
    ASSUME IInv, NEW c \in Callers, Active(c), NEW pc \in Steps, Goto(c, pc),
           UNCHANGED <<mode, app, budget>>,
           {manual, pac, marker, pacServer}' \subseteq BOOLEAN
    PROVE  IInv'
<1>1. job[c].failed \in BOOLEAN /\ job[c] \in Jobs
  BY DEF IInv, TypeOK, Jobs
<1>2. job' = [job EXCEPT ![c].pc = pc, ![c].failed = job[c].failed]
  BY <1>1 DEF Goto, Jobs, IInv, TypeOK
<1> QED
  BY <1>1, <1>2, GotoType

\* The phases after an operation of a command has ended.
LEMMA DoneType ==
    ASSUME IInv, NEW c \in Callers, Active(c), NEW result \in {"ok", "err"},
           Done(c, result), mode' \in Types, UNCHANGED budget,
           \/ job[c].purpose \in {"apply", "setMode"} /\ UNCHANGED app
           \/ job[c].purpose \in Startup /\ app' = "up",
           {manual, pac, marker, pacServer}' \subseteq BOOLEAN
    PROVE  IInv'
<1>1. job' \in [Callers -> Jobs]
  BY ZenonT(40) DEF IInv, TypeOK, Jobs, Done
<1>2. job'[c].pc = "idle" /\ job'[c].purpose = job[c].purpose
  BY DEF IInv, TypeOK, Jobs, Done
<1>3. \A d \in Callers \ {c} : job'[d] = job[d]
  BY DEF IInv, TypeOK, Done
<1>4. Phases'
  <2>1. CASE job[c].purpose \in {"apply", "setMode"} /\ UNCHANGED app
    BY <1>2, <1>3, <2>1 DEF IInv, Phases, Active, Startup, Exiting
  <2>2. CASE job[c].purpose \in Startup /\ app' = "up"
    <3>1. app = "starting" /\ \A d \in Callers \ {c} : ~Active(d)
      BY <2>2 DEF IInv, Phases
    <3> QED BY <1>2, <1>3, <2>2, <3>1 DEF Phases, Active
  <2> QED BY <2>1, <2>2
<1>5. TypeOK'
  BY <1>1, <1>2, <1>3, <1>4 DEF IInv, TypeOK, Active, Phases
<1> QED
  BY <1>4, <1>5 DEF IInv

\* The same for an operation that is followed by another of its caller.
LEMMA AgainType ==
    ASSUME IInv, NEW c \in Callers, Active(c), NEW purpose \in Purposes,
           NEW request \in Types \X BOOLEAN, NEW draft \in Types,
           job' = [job EXCEPT ![c] = NewJob(purpose, request, draft)],
           \/ job[c].purpose = "setMode" /\ purpose = "apply"
           \/ job[c].purpose = "exitRequested" /\ purpose = "exit",
           UNCHANGED <<mode, app, budget>>,
           {manual, pac, marker, pacServer}' \subseteq BOOLEAN
    PROVE  IInv'
<1>1. job' \in [Callers -> Jobs]
  BY NewJobType DEF IInv, TypeOK
<1>2. job'[c].pc = "mark" /\ job'[c].purpose = purpose
      /\ job'[c].result = "none"
  BY NewJobType DEF IInv, TypeOK
<1>3. \A d \in Callers \ {c} : job'[d] = job[d]
  BY DEF IInv, TypeOK
<1>4. Phases'
  BY <1>2, <1>3 DEF IInv, Phases, Active, Startup, Exiting
<1>5. TypeOK'
  BY <1>1, <1>2, <1>3, <1>4 DEF IInv, TypeOK, Active, Phases
<1> QED
  BY <1>4, <1>5 DEF IInv

\* What a return does to types and phases.
LEMMA ReturnType ==
    ASSUME IInv, NEW c \in Callers, Active(c), NEW result \in {"ok", "err"},
           Return(c, result), UNCHANGED budget,
           {manual, pac, marker}' \subseteq BOOLEAN
    PROVE  IInv'
<1>1. CASE /\ job[c].purpose = "apply" /\ Done(c, result)
           /\ UNCHANGED <<mode, app, pacServer>>
  <2>1. mode' \in Types /\ pacServer' \in BOOLEAN
    BY <1>1 DEF IInv, TypeOK
  <2> QED BY <1>1, <2>1, DoneType
<1>2. CASE job[c].purpose = "setMode" /\ SetModeReturns(c, result)
  <2>0. pacServer' \in BOOLEAN /\ UNCHANGED app
    BY <1>2 DEF IInv, TypeOK, SetModeReturns
  <2>1. CASE Done(c, result) /\ mode' = job[c].draft
    <3>1. mode' \in Types
      BY <2>1 DEF IInv, TypeOK, Jobs
    <3> QED BY <1>2, <2>0, <2>1, <3>1, DoneType
  <2>2. CASE Done(c, result) /\ mode' = mode
    <3>1. mode' \in Types
      BY <2>2 DEF IInv, TypeOK
    <3> QED BY <1>2, <2>0, <2>2, <3>1, DoneType
  <2>3. CASE /\ \E r \in RuntimeRequests(mode) :
                   job' = [job EXCEPT ![c] = NewJob("apply", r, mode)]
             /\ mode' = mode
    <3>1. mode \in Types
      BY DEF IInv, TypeOK
    <3>2. PICK r \in RuntimeRequests(mode) :
             job' = [job EXCEPT ![c] = NewJob("apply", r, mode)]
      BY <2>3
    <3>3. r \in Types \X BOOLEAN /\ "apply" \in Purposes
      BY <3>1, RuntimeRequestsType DEF Purposes
    <3> QED BY <1>2, <2>0, <2>3, <3>1, <3>2, <3>3, AgainType
  <2> QED BY <1>2, <2>1, <2>2, <2>3 DEF SetModeReturns
<1>3. CASE /\ job[c].purpose \in {"recover", "persisted"} /\ Done(c, result)
           /\ app' = "up" /\ UNCHANGED <<mode, pacServer>>
  <2>1. mode' \in Types /\ pacServer' \in BOOLEAN
    BY <1>3 DEF IInv, TypeOK
  <2> QED BY <1>3, <2>1, DoneType DEF Startup
<1>4. CASE ExitReturns(c, result)
  <2>1. CASE /\ job[c].purpose = "exitRequested"
             /\ job' = [job EXCEPT ![c] = NewJob("exit", <<mode, TRUE>>, mode)]
             /\ UNCHANGED app
    <3>1. mode \in Types /\ <<mode, TRUE>> \in Types \X BOOLEAN
          /\ "exit" \in Purposes
      BY DEF IInv, TypeOK, Purposes
    <3>2. pacServer' \in BOOLEAN /\ mode' = mode
      BY <1>4 DEF ExitReturns
    <3> QED BY <2>1, <3>1, <3>2, AgainType
  <2>2. CASE /\ job' = [d \in Callers |->
                        IF d = c THEN [job[c] EXCEPT !.pc = "idle",
                                                     !.result = result]
                                 ELSE NoJob]
             /\ app' = "closed"
    <3>1. job' \in [Callers -> Jobs]
      BY ZenonT(40), <2>2, NoJobType DEF IInv, TypeOK, Jobs
    <3>2. \A d \in Callers : job'[d].pc = "idle"
      BY <2>2, NoJobType DEF IInv, TypeOK, Jobs
    <3>3. pacServer' \in BOOLEAN /\ mode' = mode
      BY <1>4 DEF ExitReturns
    <3>4. TypeOK'
      BY <2>2, <3>1, <3>2, <3>3 DEF IInv, TypeOK
    <3>5. Phases'
      BY <2>2, <3>2 DEF Phases, Active
    <3> QED BY <3>4, <3>5 DEF IInv
  <2> QED BY <1>4, <2>1, <2>2 DEF ExitReturns
<1> QED BY <1>1, <1>2, <1>3, <1>4 DEF Return

\* What a failure does to types and phases.
LEMMA FailType ==
    ASSUME IInv, NEW c \in Callers, Active(c), Fail(c)
    PROVE  IInv'
<1>1. {manual, pac, marker}' \subseteq BOOLEAN /\ UNCHANGED budget
  BY DEF IInv, TypeOK, Fail, settings
<1> QED BY <1>1, ReturnType DEF Fail

\* The start of an operation.
LEMMA BeginType ==
    ASSUME IInv, NEW c \in Callers, NEW purpose \in Purposes,
           NEW request \in Types \X BOOLEAN, NEW draft \in Types,
           Begin(c, purpose, request, draft),
           \/ /\ purpose \in {"apply", "setMode"} /\ UNCHANGED app
              /\ app \in {"up", "exiting"}
           \/ purpose \in Startup /\ app = "closed" /\ app' = "starting"
           \/ purpose \in Exiting /\ app = "up" /\ app' = "exiting"
    PROVE  IInv'
<1>1. job' \in [Callers -> Jobs] /\ budget' \in Nat
  BY NewJobType DEF IInv, TypeOK, Begin
<1>2. job'[c].pc = "mark" /\ job'[c].purpose = purpose
      /\ job'[c].result = "none"
  BY NewJobType DEF IInv, TypeOK, Begin
<1>3. \A d \in Callers \ {c} : job'[d] = job[d]
  BY DEF IInv, TypeOK, Begin
<1>4. {manual, pac, marker, pacServer}' \subseteq BOOLEAN /\ mode' \in Types
      /\ app' \in {"closed", "starting", "up", "exiting"}
  BY DEF IInv, TypeOK, Begin, settings
<1>5. Phases'
  <2>1. CASE /\ purpose \in {"apply", "setMode"} /\ UNCHANGED app
             /\ app \in {"up", "exiting"}
    <3>1. job[c].pc = "idle"
      BY DEF Begin
    <3>2. purpose \notin Startup /\ purpose \notin Exiting
      BY <2>1 DEF Startup, Exiting
    <3> QED BY <1>2, <1>3, <2>1, <3>1, <3>2 DEF IInv, Phases, Active
  <2>2. CASE purpose \in Startup /\ app = "closed" /\ app' = "starting"
    <3>1. \A d \in Callers \ {c} : job'[d].pc = "idle"
      BY <1>3, <2>2 DEF IInv, Phases, Active
    <3>2. purpose \notin Exiting
      BY <2>2 DEF Startup, Exiting
    <3> QED BY <1>2, <2>2, <3>1, <3>2 DEF Phases, Active
  <2>3. CASE purpose \in Exiting /\ app = "up" /\ app' = "exiting"
    <3>1. purpose \notin Startup
      BY <2>3 DEF Startup, Exiting
    <3> QED BY <1>2, <1>3, <2>3, <3>1 DEF IInv, Phases, Active
  <2> QED BY <2>1, <2>2, <2>3
<1>6. TypeOK'
  BY <1>1, <1>2, <1>3, <1>4, <1>5 DEF IInv, TypeOK, Active, Phases
<1> QED BY <1>5, <1>6 DEF IInv

\* A step that leaves the jobs and the application alone.
LEMMA QuietType ==
    ASSUME IInv, UNCHANGED <<job, app>>, mode' \in Types, budget' \in Nat,
           {manual, pac, marker, pacServer}' \subseteq BOOLEAN
    PROVE  IInv'
<1>1. TypeOK'
  BY DEF IInv, TypeOK
<1>2. Phases'
  BY DEF IInv, Phases, Active
<1> QED BY <1>1, <1>2 DEF IInv

\* A failed registry command ends the operation, a failed script line goes on.
LEMMA WriteFailsType ==
    ASSUME IInv, NEW c \in Callers, Active(c), NEW next \in Steps,
           WriteFails(c, next)
    PROVE  IInv'
<1>1. CASE Fail(c)
  BY <1>1, FailType
<1>2. CASE /\ job' = [job EXCEPT ![c].pc = next, ![c].failed = TRUE]
           /\ UNCHANGED <<settings, marker, pacServer, mode, app, budget>>
  <2>1. {manual, pac, marker, pacServer}' \subseteq BOOLEAN
    BY <1>2 DEF IInv, TypeOK, settings
  <2> QED BY <1>2, <2>1, GotoType
<1> QED BY <1>1, <1>2 DEF WriteFails

\* Types and phases hold at the start.
LEMMA InitType == Init => IInv
<1> SUFFICES ASSUME Init PROVE IInv
  OBVIOUS
<1>1. TypeOK
  BY NoJobType, SystemProxyAssumption DEF Init, TypeOK
<1>2. Phases
  BY NoJobType DEF Init, Phases, Active
<1> QED BY <1>1, <1>2 DEF IInv

\* Every step preserves types and phases.
LEMMA StepType ==
    ASSUME IInv, [Next]_vars
    PROVE  IInv'
<1> USE DEF settings
<1>0. /\ {manual, pac, marker, pacServer} \subseteq BOOLEAN /\ mode \in Types
      /\ budget \in Nat
      /\ {"mark", "plan", "startPac", "writeManual", "writePac", "status",
          "unmark"} \subseteq Steps
      /\ "idle" \notin Steps
  BY DEF IInv, TypeOK, Steps
<1>1. ASSUME NEW c \in Callers, WriteMarker(c) PROVE IInv'
  <2>0. Active(c)
    BY <1>1 DEF WriteMarker, Active
  <2>1. CASE /\ marker' = (marker \/ RequestSetsLocalProxy(job[c].type,
                                                           job[c].force))
             /\ Goto(c, "plan")
             /\ UNCHANGED <<settings, pacServer, mode, app, budget>>
    <3>1. marker' \in BOOLEAN
      BY <2>1 DEF RequestSetsLocalProxy
    <3> QED BY <1>0, <2>0, <2>1, <3>1, PlainGotoType
  <2> QED BY <1>1, <2>0, <2>1, FailType DEF WriteMarker
<1>2. ASSUME NEW c \in Callers, Plan(c) PROVE IInv'
  <2>0. Active(c)
    BY <1>2 DEF Plan, Active
  <2>1. CASE Fail(c)
    BY <2>0, <2>1, FailType
  <2>2. CASE ~Fail(c)
    <3>1. PICK pc \in Steps : Goto(c, pc)
      BY <1>0, <1>2, <2>2 DEF Plan
    <3>2. pacServer' \in BOOLEAN /\ UNCHANGED <<settings, marker, mode, app, budget>>
      BY <1>2, <2>2 DEF Plan
    <3> QED BY <1>0, <2>0, <3>1, <3>2, PlainGotoType
  <2> QED BY <2>1, <2>2
<1>3. ASSUME NEW c \in Callers, StartPac(c) PROVE IInv'
  <2>0. Active(c)
    BY <1>3 DEF StartPac, Active
  <2>1. CASE /\ pacServer' = TRUE /\ Goto(c, "writeManual")
             /\ UNCHANGED <<settings, marker, mode, app, budget>>
    BY <1>0, <2>0, <2>1, PlainGotoType
  <2>2. CASE /\ job[c].purpose \in {"apply", "setMode", "persisted"}
             /\ pacServer' = FALSE
             /\ job' = [job EXCEPT ![c].pc = "idle", ![c].result = "err"]
             /\ app' = IF job[c].purpose = "persisted" THEN "up" ELSE app
             /\ UNCHANGED <<settings, marker, mode, budget>>
    <3>1. Done(c, "err")
      BY <2>2 DEF Done
    <3>2. \/ job[c].purpose \in {"apply", "setMode"} /\ UNCHANGED app
          \/ job[c].purpose \in Startup /\ app' = "up"
      BY <2>2 DEF Startup
    <3> QED BY <1>0, <2>0, <2>2, <3>1, <3>2, DoneType
  <2> QED BY <1>3, <2>1, <2>2 DEF StartPac
<1>4. ASSUME NEW c \in Callers, WriteManual(c) PROVE IInv'
  <2>0. Active(c)
    BY <1>4 DEF WriteManual, Active
  <2> DEFINE next == IF TargetOs = "linux" THEN "status" ELSE "writePac"
  <2>1. next \in Steps
    BY <1>0
  <2>2. CASE /\ manual' = (Effective(c) = "ForcedChange")
             /\ Wrote(c, next) /\ UNCHANGED pac
    <3>1. manual' \in BOOLEAN
      BY <2>2
    <3>2. job' = [job EXCEPT ![c].pc = next, ![c].failed = FALSE]
      BY <2>2 DEF Wrote
    <3> QED BY ZenonT(40), <1>0, <2>0, <2>1, <2>2, <3>1, <3>2, GotoType DEF Wrote
  <2>3. CASE WriteFails(c, next)
    BY <2>0, <2>1, <2>3, WriteFailsType
  <2> QED BY <1>4, <2>2, <2>3 DEF WriteManual
<1>5. ASSUME NEW c \in Callers, WritePac(c) PROVE IInv'
  <2>0. Active(c)
    BY <1>5 DEF WritePac, Active
  <2>1. CASE /\ pac' = (Effective(c) = "Pac")
             /\ Wrote(c, "status") /\ UNCHANGED manual
    <3>1. pac' \in BOOLEAN
      BY <2>1
    <3>2. job' = [job EXCEPT ![c].pc = "status", ![c].failed = FALSE]
      BY <2>1 DEF Wrote
    <3> QED BY <1>0, <2>0, <2>1, <3>1, <3>2, GotoType DEF Wrote
  <2>2. CASE WriteFails(c, "status")
    BY <1>0, <2>0, <2>2, WriteFailsType
  <2> QED BY <1>5, <2>1, <2>2 DEF WritePac
<1>6. ASSUME NEW c \in Callers, CheckStatus(c) PROVE IInv'
  <2>0. Active(c)
    BY <1>6 DEF CheckStatus, Active
  <2>1. CASE Fail(c)
    BY <2>0, <2>1, FailType
  <2>2. CASE /\ Goto(c, "unmark")
             /\ UNCHANGED <<settings, marker, pacServer, mode, app, budget>>
    BY <1>0, <2>0, <2>2, PlainGotoType
  <2>3. CASE Return(c, "ok") /\ UNCHANGED <<settings, marker, budget>>
    BY <1>0, <2>0, <2>3, ReturnType
  <2> QED BY <1>6, <2>1, <2>2, <2>3 DEF CheckStatus
<1>7. ASSUME NEW c \in Callers, RemoveMarker(c) PROVE IInv'
  <2>0. Active(c)
    BY <1>7 DEF RemoveMarker, Active
  <2>1. CASE Fail(c)
    BY <2>0, <2>1, FailType
  <2>2. CASE marker' = FALSE /\ Return(c, "ok") /\ UNCHANGED <<settings, budget>>
    BY <1>0, <2>0, <2>2, ReturnType
  <2> QED BY <1>7, <2>1, <2>2 DEF RemoveMarker
<1>8. ASSUME NEW c \in Callers, NEW request \in Types \X BOOLEAN,
             Apply(c, request)
      PROVE  IInv'
  <2>1. "apply" \in Purposes
    BY DEF Purposes
  <2> QED BY <1>0, <1>8, <2>1, BeginType DEF Apply
<1>9. ASSUME NEW c \in Callers, NEW m \in Types,
             NEW request \in Types \X BOOLEAN, SetMode(c, m, request)
      PROVE  IInv'
  <2>1. "setMode" \in Purposes
    BY DEF Purposes
  <2> QED BY <1>9, <2>1, BeginType DEF SetMode
<1>10. ASSUME NEW c \in Callers, Launch(c) PROVE IInv'
  <2>1. /\ {"recover", "persisted"} \subseteq Purposes
        /\ {"recover", "persisted"} \subseteq Startup
        /\ <<"ForcedClear", FALSE>> \in Types \X BOOLEAN
        /\ <<mode, FALSE>> \in Types \X BOOLEAN
    BY <1>0 DEF Purposes, Types, Startup
  <2>2. CASE Begin(c, "recover", <<"ForcedClear", FALSE>>, mode)
    BY <1>0, <1>10, <2>1, <2>2, BeginType DEF Launch
  <2>3. CASE Begin(c, "persisted", <<mode, FALSE>>, mode)
    BY <1>0, <1>10, <2>1, <2>3, BeginType DEF Launch
  <2> QED BY <1>10, <2>2, <2>3 DEF Launch
<1>11. ASSUME NEW c \in Callers, Exit(c) PROVE IInv'
  <2>1. "exitRequested" \in Purposes /\ "exitRequested" \in Exiting
        /\ <<mode, TRUE>> \in Types \X BOOLEAN
    BY <1>0 DEF Purposes, Exiting
  <2> QED BY <1>0, <1>11, <2>1, BeginType DEF Exit
<1>12. ASSUME NEW m \in Types, SaveMode(m) PROVE IInv'
  <2>1. budget' \in Nat /\ mode' \in Types
    BY <1>0, <1>12 DEF SaveMode
  <2> QED BY <1>0, <1>12, <2>1, QuietType DEF SaveMode
<1>13. CASE LaunchBlind
  <2>1. budget' \in Nat
    BY <1>0, <1>13 DEF LaunchBlind
  <2>2. TypeOK'
    BY <1>13, <2>1 DEF IInv, TypeOK, LaunchBlind
  <2>3. Phases'
    BY <1>13 DEF IInv, Phases, LaunchBlind, Active
  <2> QED BY <2>2, <2>3 DEF IInv
<1>14. CASE Crash
  <2>1. TypeOK'
    BY <1>14, NoJobType DEF IInv, TypeOK, Crash
  <2>2. Phases'
    BY <1>14, NoJobType DEF Phases, Crash, Active
  <2> QED BY <2>1, <2>2 DEF IInv
<1>15. CASE UNCHANGED vars
  BY <1>0, <1>15, QuietType DEF vars
<1> QED
  BY <1>1, <1>2, <1>3, <1>4, <1>5, <1>6, <1>7, <1>8, <1>9, <1>10, <1>11,
     <1>12, <1>13, <1>14, <1>15 DEF Next, Step

\* Startup and exit are operations in progress, and an operation has no
\* result before it returns: TypeOK holds however many callers there are.
THEOREM ProxyTypeCorrect == Spec => []TypeOK
<1>1. IInv /\ [Next]_vars => IInv'
  BY StepType
<1>2. IInv => TypeOK
  BY DEF IInv
<1> QED BY InitType, <1>1, <1>2, PTL DEF Spec

-----------------------------------------------------------------------------
(* The promise of the marker.                                              *)

\* One task applies or restores at a time.
Sole == \A a, b \in Callers : a = b

\* No command fails unnoticed: those of Windows are checked one by one.
Reliable == TargetOs = "windows" \/ ~CommandMayFail

\* What a job knows of the marker and of the settings: the marker was written
\* before them, and a clear that got this far has cleared them.
JobInv(c) ==
    /\ job[c].pc \notin {"idle", "mark"}
       /\ RequestSetsLocalProxy(job[c].type, job[c].force) => marker
    /\ job[c].pc = "startPac" => Effective(c) = "Pac" /\ PacAvailable
    /\ job[c].pc = "writeManual" =>
          TargetOs # "other" /\ ~PlanIsNoop(Effective(c))
    /\ job[c].pc = "writePac" =>
          /\ TargetOs \in {"windows", "macos"} /\ ~PlanIsNoop(Effective(c))
          /\ Effective(c) # "ForcedChange" => ~manual
    /\ job[c].pc = "status" /\ Effective(c) = "ForcedClear" => ~Proxied
    /\ job[c].pc = "unmark" => ~Proxied

MarkerInv ==
    /\ ProxiedHasMarker
    /\ TargetOs = "linux" => ~pac
    /\ \A c \in Callers : JobInv(c)

\* Every job is idle or about to begin: only the settings need an argument.
LEMMA RestedMarker ==
    ASSUME ProxiedHasMarker', TargetOs = "linux" => ~pac',
           \A c \in Callers : job'[c].pc \in {"idle", "mark"}
    PROVE  MarkerInv'
<1>1. ASSUME NEW c \in Callers PROVE JobInv(c)'
  BY DEF JobInv
<1> QED BY <1>1 DEF MarkerInv

\* A return leaves its caller so, and there is no other.
LEMMA ReturnRests ==
    ASSUME IInv, Sole, NEW c \in Callers, NEW result \in {"ok", "err"},
           Return(c, result)
    PROVE  \A d \in Callers : job'[d].pc \in {"idle", "mark"}
<1>1. \A d \in Callers : d = c
  BY DEF Sole
<1>2. job \in [Callers -> Jobs]
  BY DEF IInv, TypeOK
<1>3. CASE Done(c, result)
  BY <1>1, <1>2, <1>3 DEF Done, Jobs
<1>4. CASE SetModeReturns(c, result) /\ ~Done(c, result)
  <2>1. PICK r \in RuntimeRequests(mode) :
           job' = [job EXCEPT ![c] = NewJob("apply", r, mode)]
    BY <1>4 DEF SetModeReturns
  <2> QED BY <1>1, <1>2, <2>1 DEF NewJob
<1>5. CASE ExitReturns(c, result)
  <2>1. CASE job' = [job EXCEPT ![c] = NewJob("exit", <<mode, TRUE>>, mode)]
    BY <1>1, <1>2, <2>1 DEF NewJob
  <2>2. CASE job' = [d \in Callers |->
                        IF d = c THEN [job[c] EXCEPT !.pc = "idle",
                                                     !.result = result]
                                 ELSE NoJob]
    BY <1>1, <1>2, <2>2 DEF Jobs
  <2> QED BY <1>5, <2>1, <2>2 DEF ExitReturns
<1> QED BY <1>3, <1>4, <1>5 DEF Return

\* A failure leaves the settings and the marker as they are.
LEMMA FailMarker ==
    ASSUME IInv, MarkerInv, Sole, NEW c \in Callers, Fail(c)
    PROVE  MarkerInv'
<1>1. UNCHANGED <<manual, pac, marker>>
  BY DEF Fail, settings
<1>2. ProxiedHasMarker' /\ (TargetOs = "linux" => ~pac')
  BY <1>1 DEF MarkerInv, ProxiedHasMarker, Proxied
<1>3. \A d \in Callers : job'[d].pc \in {"idle", "mark"}
  BY ReturnRests DEF Fail
<1> QED BY <1>2, <1>3, RestedMarker

\* A step inside an operation: what it must show of its own job.
LEMMA GotoMarker ==
    ASSUME IInv, Sole, NEW c \in Callers, NEW pc \in Steps,
           NEW failed \in BOOLEAN,
           job' = [job EXCEPT ![c].pc = pc, ![c].failed = failed],
           ProxiedHasMarker', TargetOs = "linux" => ~pac',
           RequestSetsLocalProxy(job[c].type, job[c].force) => marker',
           pc = "startPac" => Effective(c) = "Pac" /\ PacAvailable,
           pc = "writeManual" =>
              TargetOs # "other" /\ ~PlanIsNoop(Effective(c)),
           pc = "writePac" =>
              /\ TargetOs \in {"windows", "macos"}
              /\ ~PlanIsNoop(Effective(c))
              /\ Effective(c) # "ForcedChange" => ~manual',
           pc = "status" /\ Effective(c) = "ForcedClear" => ~Proxied',
           pc = "unmark" => ~Proxied'
    PROVE  MarkerInv'
<1>1. \A d \in Callers : d = c
  BY DEF Sole
<1>2. /\ job'[c].pc = pc /\ job'[c].type = job[c].type
      /\ job'[c].force = job[c].force
  BY DEF IInv, TypeOK, Jobs
<1>3. Effective(c)' = Effective(c)
  BY <1>2 DEF Effective
<1>4. JobInv(c)'
  BY <1>2, <1>3 DEF JobInv, PlanIsNoop, RequestSetsLocalProxy, PacAvailable
<1> QED BY <1>1, <1>4 DEF MarkerInv

\* The same for a step that leaves the field failed alone.
LEMMA PlainGotoMarker ==
    ASSUME IInv, Sole, NEW c \in Callers, NEW pc \in Steps, Goto(c, pc),
           ProxiedHasMarker', TargetOs = "linux" => ~pac',
           RequestSetsLocalProxy(job[c].type, job[c].force) => marker',
           pc = "startPac" => Effective(c) = "Pac" /\ PacAvailable,
           pc = "writeManual" =>
              TargetOs # "other" /\ ~PlanIsNoop(Effective(c)),
           pc # "writePac",
           pc = "status" /\ Effective(c) = "ForcedClear" => ~Proxied',
           pc = "unmark" => ~Proxied'
    PROVE  MarkerInv'
<1>1. job[c].failed \in BOOLEAN
  BY DEF IInv, TypeOK, Jobs
<1>2. job' = [job EXCEPT ![c].pc = pc, ![c].failed = job[c].failed]
  BY DEF Goto, Jobs, IInv, TypeOK
<1> QED BY <1>1, <1>2, GotoMarker

\* What is asked for and what is applied.
LEMMA EffectiveSetsProxy ==
    ASSUME NEW c \in Callers, TargetOs # "other", ~PlanIsNoop(Effective(c)),
           Effective(c) \in {"ForcedChange", "Pac"}
    PROVE  RequestSetsLocalProxy(job[c].type, job[c].force)
BY DEF RequestSetsLocalProxy, Effective, EffectiveType, PlanIsNoop

\* Every step preserves the promise, for one caller and noticed failures.
LEMMA StepMarker ==
    ASSUME IInv, MarkerInv, Sole, Reliable, [Next]_vars
    PROVE  MarkerInv'
<1> USE DEF settings
<1>0. /\ {manual, pac, marker, pacServer} \subseteq BOOLEAN
      /\ {"mark", "plan", "startPac", "writeManual", "writePac", "status",
          "unmark"} \subseteq Steps
      /\ \A c \in Callers : JobInv(c) /\ Effective(c) \in Types
      /\ TargetOs \in {"windows", "macos", "linux", "other"}
  <2>1. ASSUME NEW c \in Callers PROVE Effective(c) \in Types
    BY DEF IInv, TypeOK, Jobs, Effective, EffectiveType, Types
  <2> QED BY <2>1, SystemProxyAssumption DEF IInv, TypeOK, Steps, MarkerInv
<1>1. ASSUME NEW c \in Callers, WriteMarker(c) PROVE MarkerInv'
  <2>1. CASE Fail(c)
    BY <2>1, FailMarker
  <2>2. CASE /\ marker' = (marker \/ RequestSetsLocalProxy(job[c].type,
                                                           job[c].force))
             /\ Goto(c, "plan")
             /\ UNCHANGED <<settings, pacServer, mode, app, budget>>
    <3>1. ProxiedHasMarker' /\ (TargetOs = "linux" => ~pac')
      BY <2>2 DEF MarkerInv, ProxiedHasMarker, Proxied
    <3>2. RequestSetsLocalProxy(job[c].type, job[c].force) => marker'
      BY <2>2
    <3> QED BY <1>0, <2>2, <3>1, <3>2, PlainGotoMarker
  <2> QED BY <1>1, <2>1, <2>2 DEF WriteMarker
<1>2. ASSUME NEW c \in Callers, Plan(c) PROVE MarkerInv'
  <2>1. CASE Fail(c)
    BY <2>1, FailMarker
  <2>2. CASE /\ ~Unsupported(Effective(c))
             /\ Goto(c, IF PlanIsNoop(Effective(c)) THEN "status"
                        ELSE IF Effective(c) = "Pac" THEN "startPac"
                        ELSE "writeManual")
             /\ UNCHANGED <<settings, marker, mode, app, budget>>
    <3>1. ProxiedHasMarker' /\ (TargetOs = "linux" => ~pac')
      BY <2>2 DEF MarkerInv, ProxiedHasMarker, Proxied
    <3>2. RequestSetsLocalProxy(job[c].type, job[c].force) => marker'
      BY <1>0, <1>2, <2>2 DEF JobInv, Plan
    <3>3. CASE PlanIsNoop(Effective(c))
      <4>1. Effective(c) # "ForcedClear" /\ Goto(c, "status")
        BY <2>2, <3>3 DEF PlanIsNoop
      <4> QED BY <1>0, <3>1, <3>2, <4>1, PlainGotoMarker
    <3>4. CASE ~PlanIsNoop(Effective(c)) /\ Effective(c) = "Pac"
      <4>1. PacAvailable /\ Goto(c, "startPac")
        BY <2>2, <3>4 DEF PlanIsNoop
      <4> QED BY <1>0, <3>1, <3>2, <3>4, <4>1, PlainGotoMarker
    <3>5. CASE ~PlanIsNoop(Effective(c)) /\ Effective(c) # "Pac"
      <4>1. TargetOs # "other" /\ Goto(c, "writeManual")
        BY <2>2, <3>5 DEF PlanIsNoop, Unsupported
      <4> QED BY <1>0, <3>1, <3>2, <3>5, <4>1, PlainGotoMarker
    <3> QED BY <3>3, <3>4, <3>5
  <2> QED BY <1>2, <2>1, <2>2 DEF Plan
<1>3. ASSUME NEW c \in Callers, StartPac(c) PROVE MarkerInv'
  <2>0. Effective(c) = "Pac" /\ PacAvailable
    BY <1>0, <1>3 DEF StartPac, JobInv
  <2>1. ProxiedHasMarker' /\ (TargetOs = "linux" => ~pac')
    BY <1>3 DEF MarkerInv, ProxiedHasMarker, Proxied, StartPac
  <2>2. CASE Goto(c, "writeManual")
    <3>1. RequestSetsLocalProxy(job[c].type, job[c].force) => marker'
      BY <1>0, <1>3 DEF JobInv, StartPac
    <3>2. TargetOs # "other" /\ ~PlanIsNoop(Effective(c))
      BY <2>0 DEF PacAvailable, PlanIsNoop
    <3> QED BY <1>0, <2>1, <2>2, <3>1, <3>2, PlainGotoMarker
  <2>3. CASE job' = [job EXCEPT ![c].pc = "idle", ![c].result = "err"]
    <3>1. \A d \in Callers : job'[d].pc = "idle"
      BY <2>3 DEF Sole, IInv, TypeOK, Jobs
    <3> QED BY <2>1, <3>1, RestedMarker
  <2> QED BY <1>3, <2>2, <2>3 DEF StartPac
<1>4. ASSUME NEW c \in Callers, WriteManual(c) PROVE MarkerInv'
  <2> DEFINE next == IF TargetOs = "linux" THEN "status" ELSE "writePac"
  <2>0. /\ TargetOs # "other" /\ ~PlanIsNoop(Effective(c))
        /\ RequestSetsLocalProxy(job[c].type, job[c].force) => marker
        /\ next \in Steps
    BY <1>0, <1>4 DEF WriteManual, JobInv
  <2>1. CASE /\ manual' = (Effective(c) = "ForcedChange")
             /\ Wrote(c, next) /\ UNCHANGED pac
    <3>1. RequestSetsLocalProxy(job[c].type, job[c].force) => marker'
      BY <2>0, <2>1 DEF Wrote
    <3>2. TargetOs = "linux" => ~pac'
      BY <2>1 DEF MarkerInv
    <3>3. ProxiedHasMarker'
      BY <2>0, <2>1, <3>1, EffectiveSetsProxy
         DEF MarkerInv, ProxiedHasMarker, Proxied, Wrote
    <3>4. next = "writePac" =>
            /\ TargetOs \in {"windows", "macos"}
            /\ Effective(c) # "ForcedChange" => ~manual'
      BY <1>0, <2>0, <2>1
    <3>5. next = "status" /\ Effective(c) = "ForcedClear" => ~Proxied'
      BY <2>1, <3>2 DEF Proxied
    <3>6. job' = [job EXCEPT ![c].pc = next, ![c].failed = FALSE]
      BY <2>1 DEF Wrote
    <3>7. next \notin {"startPac", "writeManual", "unmark"}
      OBVIOUS
    <3> HIDE DEF next
    <3> QED
      BY <2>0, <3>1, <3>2, <3>3, <3>4, <3>5, <3>6, <3>7, GotoMarker
  <2>2. CASE WriteFails(c, next)
    BY <2>2, FailMarker DEF WriteFails, Reliable
  <2> QED BY <1>4, <2>1, <2>2 DEF WriteManual
<1>5. ASSUME NEW c \in Callers, WritePac(c) PROVE MarkerInv'
  <2>0. /\ TargetOs \in {"windows", "macos"} /\ ~PlanIsNoop(Effective(c))
        /\ Effective(c) # "ForcedChange" => ~manual
        /\ RequestSetsLocalProxy(job[c].type, job[c].force) => marker
    BY <1>0, <1>5 DEF WritePac, JobInv
  <2>1. CASE /\ pac' = (Effective(c) = "Pac")
             /\ Wrote(c, "status") /\ UNCHANGED manual
    <3>1. RequestSetsLocalProxy(job[c].type, job[c].force) => marker'
      BY <2>0, <2>1 DEF Wrote
    <3>2. ProxiedHasMarker'
      BY <2>0, <2>1, <3>1, EffectiveSetsProxy
         DEF MarkerInv, ProxiedHasMarker, Proxied, Wrote
    <3>3. Effective(c) = "ForcedClear" => ~Proxied'
      BY <2>0, <2>1 DEF Proxied
    <3>4. job' = [job EXCEPT ![c].pc = "status", ![c].failed = FALSE]
      BY <2>1 DEF Wrote
    <3> QED BY <1>0, <2>0, <3>1, <3>2, <3>3, <3>4, GotoMarker
  <2>2. CASE WriteFails(c, "status")
    BY <2>2, FailMarker DEF WriteFails, Reliable
  <2> QED BY <1>5, <2>1, <2>2 DEF WritePac
<1>6. ASSUME NEW c \in Callers, CheckStatus(c) PROVE MarkerInv'
  <2>0. /\ Effective(c) = "ForcedClear" => ~Proxied
        /\ RequestSetsLocalProxy(job[c].type, job[c].force) => marker
    BY <1>0, <1>6 DEF CheckStatus, JobInv
  <2>1. CASE Fail(c)
    BY <2>1, FailMarker
  <2>2. CASE ~Fail(c)
    <3>1. ProxiedHasMarker' /\ (TargetOs = "linux" => ~pac') /\ marker' = marker
          /\ Proxied' = Proxied
      BY <1>6, <2>2 DEF CheckStatus, MarkerInv, ProxiedHasMarker, Proxied
    <3>2. CASE Effective(c) = "ForcedClear" /\ Goto(c, "unmark")
      BY <1>0, <2>0, <3>1, <3>2, PlainGotoMarker
    <3>3. CASE Return(c, "ok")
      BY <3>1, <3>3, ReturnRests, RestedMarker
    <3> QED BY <1>6, <2>2, <3>2, <3>3 DEF CheckStatus
  <2> QED BY <2>1, <2>2
<1>7. ASSUME NEW c \in Callers, RemoveMarker(c) PROVE MarkerInv'
  <2>1. CASE Fail(c)
    BY <2>1, FailMarker
  <2>2. CASE Return(c, "ok") /\ UNCHANGED settings
    <3>1. ~Proxied
      BY <1>0, <1>7 DEF RemoveMarker, JobInv
    <3>2. ProxiedHasMarker' /\ (TargetOs = "linux" => ~pac')
      BY <2>2, <3>1 DEF MarkerInv, ProxiedHasMarker, Proxied
    <3> QED BY <2>2, <3>2, ReturnRests, RestedMarker
  <2> QED BY <1>7, <2>1, <2>2 DEF RemoveMarker
<1>8. ASSUME NEW c \in Callers, NEW purpose, NEW request, NEW draft,
             Begin(c, purpose, request, draft)
      PROVE  MarkerInv'
  <2>1. ProxiedHasMarker' /\ (TargetOs = "linux" => ~pac')
    BY <1>8 DEF Begin, MarkerInv, ProxiedHasMarker, Proxied
  <2>2. \A d \in Callers : job'[d].pc = "mark"
    BY <1>8 DEF Sole, Begin, IInv, TypeOK, NewJob
  <2> QED BY <2>1, <2>2, RestedMarker
<1>9. ASSUME UNCHANGED <<settings, marker, job>> PROVE MarkerInv'
  BY <1>9 DEF MarkerInv, ProxiedHasMarker, Proxied, JobInv, Effective
<1>10. CASE Crash
  <2>1. ProxiedHasMarker' /\ (TargetOs = "linux" => ~pac')
    BY <1>10 DEF Crash, MarkerInv, ProxiedHasMarker, Proxied
  <2>2. \A d \in Callers : job'[d].pc = "idle"
    BY <1>10, NoJobType DEF Crash
  <2> QED BY <2>1, <2>2, RestedMarker
<1>11. ASSUME NEW c \in Callers, NEW request \in Types \X BOOLEAN,
              \/ Apply(c, request)
              \/ \E m \in Types : SetMode(c, m, request)
       PROVE  MarkerInv'
  BY <1>8, <1>11 DEF Apply, SetMode
<1>12. ASSUME NEW c \in Callers, Launch(c) \/ Exit(c) PROVE MarkerInv'
  BY <1>8, <1>12 DEF Launch, Exit
<1>13. CASE (\E m \in Types : SaveMode(m)) \/ LaunchBlind \/ UNCHANGED vars
  BY <1>9, <1>13 DEF SaveMode, LaunchBlind, vars
<1> QED
  BY <1>1, <1>2, <1>3, <1>4, <1>5, <1>6, <1>7, <1>10, <1>11, <1>12, <1>13
     DEF Next, Step

\* Settings that point at the application are marked in every state, so
\* wherever a call fails or the application crashes: for one caller at a time
\* and commands that do not fail unnoticed.
THEOREM MarkerPromise ==
    ASSUME Sole, Reliable
    PROVE  Spec => []ProxiedHasMarker
<1>1. Init => IInv /\ MarkerInv
  <2> SUFFICES ASSUME Init PROVE MarkerInv
    BY InitType
  <2>1. ProxiedHasMarker /\ (TargetOs = "linux" => ~pac)
    BY DEF Init, ProxiedHasMarker, Proxied
  <2>2. ASSUME NEW c \in Callers PROVE JobInv(c)
    BY NoJobType DEF Init, JobInv
  <2> QED BY <2>1, <2>2 DEF MarkerInv
<1>2. IInv /\ MarkerInv /\ [Next]_vars => (IInv /\ MarkerInv)'
  BY StepType, StepMarker
<1>3. MarkerInv => ProxiedHasMarker
  BY DEF MarkerInv
<1> QED BY <1>1, <1>2, <1>3, PTL DEF Spec

\* A start over settings that were left behind recovers them first, whatever
\* ended the run before it.
THEOREM RestartPromise ==
    ASSUME Sole, Reliable
    PROVE  Spec => RestartRestores
<1>1. Init => IInv /\ MarkerInv
  <2> SUFFICES ASSUME Init PROVE MarkerInv
    BY InitType
  <2>1. ProxiedHasMarker /\ (TargetOs = "linux" => ~pac)
    BY DEF Init, ProxiedHasMarker, Proxied
  <2>2. ASSUME NEW c \in Callers PROVE JobInv(c)
    BY NoJobType DEF Init, JobInv
  <2> QED BY <2>1, <2>2 DEF MarkerInv
<1>2. IInv /\ MarkerInv /\ [Next]_vars => (IInv /\ MarkerInv)'
  BY StepType, StepMarker
<1>3. ASSUME IInv, MarkerInv, [Next]_vars, NEW c \in Callers,
             app = "closed", Proxied, job'[c].pc = "mark"
      PROVE  job'[c].purpose = "recover"
  <2>1. marker /\ \A d \in Callers : job[d].pc = "idle"
    BY <1>3 DEF MarkerInv, ProxiedHasMarker, IInv, Phases, Active
  <2>2. ~(UNCHANGED job) /\ ~Crash
    BY <1>3, <2>1, NoJobType DEF Crash
  <2>3. \A d \in Callers : ~Step(d)
    BY <2>1 DEF Step, WriteMarker, Plan, StartPac, WriteManual, WritePac,
                CheckStatus, RemoveMarker
  <2>4. PICK d \in Callers : Launch(d)
    BY <1>3, <2>2, <2>3 DEF Next, Apply, SetMode, SaveMode, LaunchBlind, Exit,
                           vars
  <2>5. job' = [job EXCEPT ![d] = NewJob("recover", <<"ForcedClear", FALSE>>,
                                         mode)]
    BY <2>1, <2>4 DEF Launch, Begin
  <2> QED BY <1>3, <2>5 DEF Sole, NewJob, IInv, TypeOK
<1>4. IInv /\ MarkerInv /\ [Next]_vars
        => [\A c \in Callers :
              app = "closed" /\ Proxied /\ job'[c].pc = "mark"
                  => job'[c].purpose = "recover"]_vars
  BY <1>3
<1> QED BY <1>1, <1>2, <1>4, PTL DEF Spec, RestartRestores

-----------------------------------------------------------------------------
(* What an Ok means.                                                       *)

\* What was written so far is what the request asks for, and an exit forces
\* the proxy off.
WrittenInv(c) ==
    LET type == Effective(c)
        served == pacServer <=> type = "Pac"
        manualSet == manual <=> type = "ForcedChange"
    IN /\ Active(c) /\ job[c].purpose \in Exiting => job[c].force
       /\ job[c].pc = "writeManual" => served
       /\ job[c].pc = "writePac" => served /\ manualSet
       /\ job[c].pc = "status" /\ ~PlanIsNoop(type) =>
             served /\ manualSet /\ (pac <=> type = "Pac")
       /\ job[c].pc = "unmark" => type = "ForcedClear"

\* The system is as the request says.
Applied(c) ==
    /\ Effective(c) = "ForcedChange" => manual /\ ~pac /\ ~pacServer
    /\ Effective(c) = "Pac" /\ PacAvailable => pac /\ ~manual /\ pacServer
    /\ Effective(c) = "ForcedClear" => ~Proxied /\ ~marker

AppliedInv ==
    \A c \in Callers :
        /\ WrittenInv(c)
        /\ job[c].pc = "idle" /\ job[c].result = "ok" => Applied(c)

OkInv == IInv /\ MarkerInv /\ AppliedInv

LEMMA AppliedIsOk == AppliedInv => OkMeansApplied
BY DEF AppliedInv, Applied, OkMeansApplied

\* The only job is replaced by one that has not begun.
LEMMA BegunApplied ==
    ASSUME IInv, Sole, NEW c \in Callers, NEW purpose \in Purposes,
           NEW request \in Types \X BOOLEAN, NEW draft \in Types,
           job' = [job EXCEPT ![c] = NewJob(purpose, request, draft)],
           purpose \in Exiting => request[2]
    PROVE  AppliedInv'
<1>1. job'[c] = NewJob(purpose, request, draft) /\ \A d \in Callers : d = c
  BY DEF IInv, TypeOK, Sole
<1>2. job'[c].pc = "mark" /\ job'[c].purpose = purpose /\ job'[c].force = request[2]
  BY <1>1, NewJobType
<1> QED
  BY <1>1, <1>2 DEF AppliedInv, WrittenInv

\* Every job is at rest, and its request is that of the job before it.
LEMMA RestedApplied ==
    ASSUME IInv, Sole, NEW c \in Callers, NEW result \in {"ok", "err"},
           job'[c] = [job[c] EXCEPT !.pc = "idle", !.result = result],
           result = "ok" =>
              /\ Effective(c) = "ForcedChange" => manual' /\ ~pac' /\ ~pacServer'
              /\ Effective(c) = "Pac" /\ PacAvailable => pac' /\ ~manual' /\ pacServer'
              /\ Effective(c) = "ForcedClear" => ~Proxied' /\ ~marker'
    PROVE  AppliedInv'
<1>1. \A d \in Callers : d = c
  BY DEF Sole
<1>2. /\ job'[c].pc = "idle" /\ job'[c].result = result
      /\ job'[c].type = job[c].type /\ job'[c].force = job[c].force
  BY DEF IInv, TypeOK, Jobs
<1>3. Effective(c)' = Effective(c)
  BY <1>2 DEF Effective
<1>4. WrittenInv(c)'
  BY <1>2 DEF WrittenInv, Active
<1>5. result = "ok" => Applied(c)'
  BY <1>3 DEF Applied, PacAvailable
<1> QED
  BY <1>1, <1>2, <1>4, <1>5 DEF AppliedInv

\* The settings are written when an operation returns Ok.
LEMMA ReturnApplied ==
    ASSUME IInv, AppliedInv, Sole, NEW c \in Callers, Active(c),
           NEW result \in {"ok", "err"}, Return(c, result),
           result = "ok" =>
              /\ Effective(c) = "ForcedChange" => manual' /\ ~pac' /\ ~pacServer
              /\ Effective(c) = "Pac" /\ PacAvailable => pac' /\ ~manual' /\ pacServer
              /\ Effective(c) = "ForcedClear" => ~Proxied' /\ ~marker'
    PROVE  AppliedInv'
<1>0. job \in [Callers -> Jobs] /\ mode \in Types /\ Effective(c) \in Types
  BY DEF IInv, TypeOK, Jobs, Effective, EffectiveType, Types
<1>1. ASSUME Done(c, result) PROVE job'[c] = [job[c] EXCEPT !.pc = "idle", !.result = result]
  BY <1>0, <1>1 DEF Done, Jobs
<1>2. CASE Done(c, result) /\ UNCHANGED pacServer
  BY <1>1, <1>2, RestedApplied
<1>3. CASE job[c].purpose = "setMode" /\ SetModeReturns(c, result) /\ ~Done(c, result)
  <2>1. PICK r \in RuntimeRequests(mode) :
           job' = [job EXCEPT ![c] = NewJob("apply", r, mode)]
    BY <1>3 DEF SetModeReturns
  <2>2. r \in Types \X BOOLEAN /\ "apply" \in Purposes /\ "apply" \notin Exiting
    BY <1>0, RuntimeRequestsType DEF Purposes, Exiting
  <2> QED
    BY <1>0, <2>1, <2>2, BegunApplied
<1>4. CASE ExitReturns(c, result)
  <2>1. CASE job' = [job EXCEPT ![c] = NewJob("exit", <<mode, TRUE>>, mode)]
    <3>1. <<mode, TRUE>> \in Types \X BOOLEAN /\ "exit" \in Purposes
      BY <1>0 DEF Purposes
    <3> QED
      BY <1>0, <2>1, <3>1, BegunApplied
  <2>2. CASE /\ job[c].purpose = "exit"
             /\ job' = [d \in Callers |->
                        IF d = c THEN [job[c] EXCEPT !.pc = "idle",
                                                     !.result = result]
                                 ELSE NoJob]
    <3>1. job'[c] = [job[c] EXCEPT !.pc = "idle", !.result = result]
      BY <2>2
    <3>2. job[c].force
      BY <2>2 DEF AppliedInv, WrittenInv, Exiting
    <3>3. Effective(c) \notin {"ForcedChange", "Pac"}
      BY <3>2 DEF Effective, EffectiveType
    <3> QED
      BY <3>1, <3>3, RestedApplied
  <2> QED
    BY <1>4, <2>1, <2>2 DEF ExitReturns
<1> QED
  BY <1>2, <1>3, <1>4 DEF Return, SetModeReturns

LEMMA FailApplied ==
    ASSUME IInv, AppliedInv, Sole, NEW c \in Callers, Active(c), Fail(c)
    PROVE  AppliedInv'
BY ReturnApplied DEF Fail

\* A step inside an operation: what it must show of its own job.
LEMMA GotoApplied ==
    ASSUME IInv, AppliedInv, Sole, NEW c \in Callers, Active(c), NEW pc \in Steps,
           job'[c].pc = pc, job'[c].purpose = job[c].purpose,
           job'[c].type = job[c].type, job'[c].force = job[c].force,
           pc \in {"writeManual", "writePac"} => (pacServer' <=> Effective(c) = "Pac"),
           pc = "writePac" => (manual' <=> Effective(c) = "ForcedChange"),
           pc = "status" /\ ~PlanIsNoop(Effective(c)) =>
              /\ pacServer' <=> Effective(c) = "Pac"
              /\ manual' <=> Effective(c) = "ForcedChange"
              /\ pac' <=> Effective(c) = "Pac",
           pc = "unmark" => Effective(c) = "ForcedClear"
    PROVE  AppliedInv'
<1>1. \A d \in Callers : d = c
  BY DEF Sole
<1>2. Effective(c)' = Effective(c)
  BY DEF Effective
<1>3. pc # "idle"
  BY DEF Steps
<1>4. PlanIsNoop(Effective(c))' <=> PlanIsNoop(Effective(c))
  BY <1>2 DEF PlanIsNoop, PacAvailable
<1>5. WrittenInv(c)'
  BY <1>2, <1>3, <1>4 DEF WrittenInv, AppliedInv, Active
<1> QED
  BY <1>1, <1>3, <1>5 DEF AppliedInv

\* Every step writes what the request asks for.
LEMMA StepApplied ==
    ASSUME OkInv, Sole, Reliable, [Next]_vars
    PROVE  AppliedInv'
<1> USE DEF settings
<1>0. /\ IInv /\ MarkerInv /\ AppliedInv
      /\ {manual, pac, marker, pacServer} \subseteq BOOLEAN /\ mode \in Types
      /\ job \in [Callers -> Jobs]
      /\ {"mark", "plan", "startPac", "writeManual", "writePac", "status",
          "unmark"} \subseteq Steps
      /\ \A c \in Callers : JobInv(c) /\ WrittenInv(c)
      /\ TargetOs \in {"windows", "macos", "linux", "other"}
  BY SystemProxyAssumption DEF OkInv, IInv, TypeOK, Steps, MarkerInv, AppliedInv
<1>a. ASSUME NEW c \in Callers, NEW pc, Goto(c, pc)
      PROVE  /\ job'[c].pc = pc /\ job'[c].purpose = job[c].purpose
             /\ job'[c].type = job[c].type /\ job'[c].force = job[c].force
  BY <1>0, <1>a DEF Goto, Jobs
<1>b. ASSUME NEW c \in Callers, NEW pc, Wrote(c, pc)
      PROVE  /\ job'[c].pc = pc /\ job'[c].purpose = job[c].purpose
             /\ job'[c].type = job[c].type /\ job'[c].force = job[c].force
             /\ UNCHANGED pacServer
  BY <1>0, <1>b DEF Wrote, Jobs
<1>1. ASSUME NEW c \in Callers, WriteMarker(c) PROVE AppliedInv'
  <2>0. Active(c)
    BY <1>1 DEF WriteMarker, Active
  <2>1. CASE Fail(c)
    BY <1>0, <2>0, <2>1, FailApplied
  <2>2. CASE Goto(c, "plan")
    BY <1>0, <1>a, <2>0, <2>2, GotoApplied
  <2> QED BY <1>1, <2>1, <2>2 DEF WriteMarker
<1>2. ASSUME NEW c \in Callers, Plan(c) PROVE AppliedInv'
  <2>0. Active(c)
    BY <1>2 DEF Plan, Active
  <2>1. CASE Fail(c)
    BY <1>0, <2>0, <2>1, FailApplied
  <2>2. CASE PlanIsNoop(Effective(c)) /\ Goto(c, "status")
    BY <1>0, <1>a, <2>0, <2>2, GotoApplied
  <2>3. CASE Goto(c, "startPac")
    BY <1>0, <1>a, <2>0, <2>3, GotoApplied
  <2>4. CASE /\ Effective(c) # "Pac" /\ Goto(c, "writeManual")
             /\ pacServer' = (pacServer /\ Effective(c) = "Pac")
    BY <1>0, <1>a, <2>0, <2>4, GotoApplied
  <2> QED BY <1>2, <2>1, <2>2, <2>3, <2>4 DEF Plan
<1>3. ASSUME NEW c \in Callers, StartPac(c) PROVE AppliedInv'
  <2>0. Active(c) /\ Effective(c) = "Pac"
    BY <1>0, <1>3 DEF StartPac, Active, JobInv
  <2>1. CASE pacServer' = TRUE /\ Goto(c, "writeManual")
    BY <1>0, <1>a, <2>0, <2>1, GotoApplied
  <2>2. CASE job' = [job EXCEPT ![c].pc = "idle", ![c].result = "err"]
    <3>1. job'[c] = [job[c] EXCEPT !.pc = "idle", !.result = "err"]
      BY <1>0, <2>2 DEF Jobs
    <3> QED BY <1>0, <3>1, RestedApplied
  <2> QED BY <1>3, <2>1, <2>2 DEF StartPac
<1>4. ASSUME NEW c \in Callers, NEW next, WriteFails(c, next), Active(c) PROVE AppliedInv'
  BY <1>0, <1>4, FailApplied DEF WriteFails, Reliable
<1>5. ASSUME NEW c \in Callers, WriteManual(c) PROVE AppliedInv'
  <2> DEFINE next == IF TargetOs = "linux" THEN "status" ELSE "writePac"
  <2>0. /\ Active(c) /\ next \in Steps /\ next \notin {"writeManual", "unmark"}
        /\ pacServer <=> Effective(c) = "Pac"
        /\ ~PlanIsNoop(Effective(c))
    BY <1>0, <1>5 DEF WriteManual, Active, WrittenInv, JobInv
  <2>1. CASE /\ manual' = (Effective(c) = "ForcedChange")
             /\ Wrote(c, next) /\ UNCHANGED pac
    <3>1. next = "status" => ~pac' /\ Effective(c) # "Pac"
      BY <1>0, <2>0, <2>1 DEF MarkerInv, PlanIsNoop, PacAvailable
    <3>2. next = "status" /\ ~PlanIsNoop(Effective(c)) => (pac' <=> Effective(c) = "Pac")
      BY <3>1
    <3>3. manual' <=> Effective(c) = "ForcedChange"
      BY <2>1
    <3> HIDE DEF next
    <3>4. /\ job'[c].pc = next /\ job'[c].purpose = job[c].purpose
          /\ job'[c].type = job[c].type /\ job'[c].force = job[c].force
          /\ pacServer' <=> Effective(c) = "Pac"
      BY <1>b, <2>0, <2>1
    <3> QED BY <1>0, <2>0, <3>2, <3>3, <3>4, GotoApplied
  <2> QED BY <1>4, <1>5, <2>0, <2>1 DEF WriteManual
<1>6. ASSUME NEW c \in Callers, WritePac(c) PROVE AppliedInv'
  <2>0. /\ Active(c)
        /\ pacServer <=> Effective(c) = "Pac"
        /\ manual <=> Effective(c) = "ForcedChange"
    BY <1>0, <1>6 DEF WritePac, Active, WrittenInv
  <2>1. CASE /\ pac' = (Effective(c) = "Pac")
             /\ Wrote(c, "status") /\ UNCHANGED manual
    BY <1>0, <1>b, <2>0, <2>1, GotoApplied
  <2> QED BY <1>4, <1>6, <2>0, <2>1 DEF WritePac
<1>7. ASSUME NEW c \in Callers, CheckStatus(c) PROVE AppliedInv'
  <2>0. Active(c)
    BY <1>7 DEF CheckStatus, Active
  <2>1. CASE Fail(c)
    BY <1>0, <2>0, <2>1, FailApplied
  <2>2. CASE Effective(c) = "ForcedClear" /\ Goto(c, "unmark")
    BY <1>0, <1>a, <2>0, <2>2, GotoApplied
  <2>3. CASE /\ Effective(c) # "ForcedClear"
             /\ Return(c, "ok") /\ UNCHANGED <<settings, marker>>
    <3>1. Effective(c) = "ForcedChange" \/ (Effective(c) = "Pac" /\ PacAvailable)
             => ~PlanIsNoop(Effective(c))
      BY DEF PlanIsNoop
    <3>2. /\ Effective(c) = "ForcedChange" => manual' /\ ~pac' /\ ~pacServer
          /\ Effective(c) = "Pac" /\ PacAvailable => pac' /\ ~manual' /\ pacServer
      BY <1>0, <1>7, <2>3, <3>1 DEF CheckStatus, WrittenInv
    <3> QED BY <1>0, <2>0, <2>3, <3>2, ReturnApplied
  <2> QED BY <1>7, <2>1, <2>2, <2>3 DEF CheckStatus
<1>8. ASSUME NEW c \in Callers, RemoveMarker(c) PROVE AppliedInv'
  <2>0. Active(c) /\ ~Proxied /\ Effective(c) = "ForcedClear"
    BY <1>0, <1>8 DEF RemoveMarker, Active, JobInv, WrittenInv
  <2>1. CASE Fail(c)
    BY <1>0, <2>0, <2>1, FailApplied
  <2>2. CASE marker' = FALSE /\ Return(c, "ok") /\ UNCHANGED settings
    <3>1. ~Proxied'
      BY <2>0, <2>2 DEF Proxied
    <3> QED BY <1>0, <2>0, <2>2, <3>1, ReturnApplied
  <2> QED BY <1>8, <2>1, <2>2 DEF RemoveMarker
<1>9. ASSUME NEW c \in Callers, NEW purpose \in Purposes,
             NEW request \in Types \X BOOLEAN, NEW draft \in Types,
             Begin(c, purpose, request, draft), purpose \in Exiting => request[2]
      PROVE  AppliedInv'
  BY <1>0, <1>9, BegunApplied DEF Begin
<1>10. ASSUME NEW c \in Callers, NEW request \in Types \X BOOLEAN,
              \/ Apply(c, request)
              \/ \E m \in Types : SetMode(c, m, request)
       PROVE  AppliedInv'
  <2>1. {"apply", "setMode"} \subseteq Purposes /\ "apply" \notin Exiting
        /\ "setMode" \notin Exiting
    BY DEF Purposes, Exiting
  <2> QED BY <1>0, <1>9, <1>10, <2>1 DEF Apply, SetMode
<1>11. ASSUME NEW c \in Callers, Launch(c) \/ Exit(c) PROVE AppliedInv'
  <2>1. /\ {"recover", "persisted", "exitRequested"} \subseteq Purposes
        /\ "recover" \notin Exiting /\ "persisted" \notin Exiting
        /\ <<"ForcedClear", FALSE>> \in Types \X BOOLEAN /\ <<mode, FALSE>> \in Types \X BOOLEAN
        /\ <<mode, TRUE>> \in Types \X BOOLEAN
    BY <1>0 DEF Purposes, Exiting, Types
  <2> QED BY <1>0, <1>9, <1>11, <2>1 DEF Launch, Exit
<1>12. CASE (\E m \in Types : SaveMode(m)) \/ LaunchBlind \/ UNCHANGED vars
  <2>1. UNCHANGED <<settings, marker, pacServer, job>>
    BY <1>12 DEF SaveMode, LaunchBlind, vars
  <2> QED
    BY <1>0, <2>1 DEF AppliedInv, WrittenInv, Applied, Active, Effective, Proxied
<1>13. CASE Crash
  <2>1. \A d \in Callers : job'[d] = NoJob
    BY <1>13 DEF Crash
  <2>2. NoJob.pc = "idle" /\ NoJob.result = "none"
    BY NoJobType
  <2> QED
    BY <2>1, <2>2 DEF AppliedInv, WrittenInv, Active
<1> QED
  BY <1>1, <1>2, <1>3, <1>5, <1>6, <1>7, <1>8, <1>10, <1>11, <1>12, <1>13
     DEF Next, Step

\* An apply or a restore that returned Ok did what it said, PAC server and
\* marker included: for one caller at a time and commands that do not fail
\* unnoticed.
THEOREM OkPromise ==
    ASSUME Sole, Reliable
    PROVE  Spec => []OkMeansApplied
<1>1. Init => OkInv
  <2> SUFFICES ASSUME Init PROVE MarkerInv /\ AppliedInv
    BY InitType DEF OkInv
  <2>1. ProxiedHasMarker /\ (TargetOs = "linux" => ~pac)
    BY DEF Init, ProxiedHasMarker, Proxied
  <2>2. ASSUME NEW c \in Callers
        PROVE  /\ job[c].pc = "idle" /\ job[c].result = "none"
               /\ JobInv(c) /\ WrittenInv(c)
    BY NoJobType DEF Init, JobInv, WrittenInv, Active
  <2> QED BY <2>1, <2>2 DEF MarkerInv, AppliedInv
<1>2. OkInv /\ [Next]_vars => OkInv'
  BY StepType, StepMarker, StepApplied DEF OkInv
<1>3. OkInv => OkMeansApplied
  BY AppliedIsOk DEF OkInv
<1> QED BY <1>1, <1>2, <1>3, PTL DEF Spec
=============================================================================
