--------------------------- MODULE SpeedtestProofs ---------------------------
(* What holds of Speedtest for every number of jobs and profiles, every    *)
(* page size and every degree of concurrency: its types, that one job goes  *)
(* on, and that no probe core outlives its test.                            *)
EXTENDS Speedtest, TLAPS

JobStates == [pc : {"new", "clear", "run", "finish", "returned"},
              kind : Kinds, limit : {1, Concurrency},
              selected : SUBSET Profiles, todo : SUBSET Profiles,
              cancel : BOOLEAN, failed : BOOLEAN]

\* Only a job in its main loop has tests in progress.
TestsRun == \A t \in tests : job[t.job].pc = "run"

IInv == TypeOK /\ TestsRun

-----------------------------------------------------------------------------
(* Type correctness.                                                       *)

\* The job that has not begun is a job.
LEMMA NewJobType == NewJob \in JobStates /\ NewJob.pc = "new"
BY DEF NewJob, JobStates, Kinds

\* The first state.
LEMMA InitType == Init => IInv
<1> SUFFICES ASSUME Init PROVE IInv
  OBVIOUS
<1>1. job \in [Jobs -> JobStates]
  BY NewJobType DEF Init
<1> QED BY <1>1 DEF Init, IInv, TypeOK, TestsRun, JobStates

\* A failing job ends its tests and its sessions, and touches no other job's.
LEMMA FailType ==
    ASSUME IInv, NEW j \in Jobs, Fail(j)
    PROVE  IInv'
<1> DEFINE state == [job[j] EXCEPT !.pc = "finish", !.failed = TRUE]
<1>a. job \in [Jobs -> JobStates]
  BY DEF IInv, TypeOK, JobStates
<1>b. job' = [job EXCEPT ![j] = state]
  BY <1>a DEF Fail
<1>c. state \in JobStates /\ state.pc = "finish"
  BY <1>a DEF JobStates
<1> HIDE DEF state
<1>1. /\ job'[j].pc = "finish"
      /\ \A i \in Jobs \ {j} : job'[i] = job[i]
      /\ job' \in [Jobs -> JobStates]
  BY <1>a, <1>b, <1>c
<1>2. /\ session' = session \ SessionsOf(j)
      /\ tests' = tests \ TestsOf(j)
      /\ process' \subseteq process
  BY DEF Fail, DropSessions
<1>3. \A s \in session' : s \in session /\ s.core.job \in Jobs \ {j}
  BY <1>2 DEF SessionsOf, IInv, TypeOK, Sessions, Cores
<1>4. \A t \in tests' : t \in tests /\ t.job \in Jobs \ {j}
  BY <1>2 DEF TestsOf, IInv, TypeOK, Tests
<1>5. \A s \in session' : SessionShape(s)'
  BY <1>1, <1>3 DEF SessionShape, IInv, TypeOK
<1>6. TestsRun'
  BY <1>1, <1>4 DEF TestsRun, IInv
<1> QED BY <1>1, <1>2, <1>5, <1>6 DEF IInv, TypeOK, Fail, JobStates

\* A new job and the cancellation of the one before it.
LEMMA BeginType ==
    ASSUME IInv, NEW j \in Jobs, Call(j)
    PROVE  IInv'
<1> PICK kind \in Kinds, limit \in {1, Concurrency},
         selected \in SUBSET Profiles : Begin(j, kind, limit, selected)
  BY DEF Call
<1>a. job \in [Jobs -> JobStates]
  BY DEF IInv, TypeOK, JobStates
<1>b. job' = [i \in Jobs |-> job'[i]]
  BY DEF Begin
<1>c. job'[j] \in JobStates
  <2>1. job'[j] = [job[j] EXCEPT !.pc = "clear", !.kind = kind,
                      !.limit = limit, !.selected = selected, !.todo = selected]
    BY DEF Begin
  <2> QED BY <1>a, <2>1 DEF JobStates
<1>d. ASSUME NEW i \in Jobs \ {j}
      PROVE  /\ job'[i] \in JobStates
             /\ job'[i].pc = job[i].pc /\ job'[i].todo = job[i].todo
  <2>1. job'[i] \in {job[i], [job[i] EXCEPT !.cancel = TRUE]}
    BY DEF Begin
  <2> QED BY <1>a, <2>1 DEF JobStates
<1>1. job' \in [Jobs -> JobStates]
  BY <1>b, <1>c, <1>d
<1>2. \A i \in Jobs \ {j} : job'[i].pc = job[i].pc /\ job'[i].todo = job[i].todo
  BY <1>d
<1>3. \A s \in session : s.core.job \in Jobs \ {j}
  BY DEF Begin, IInv, TypeOK, Sessions, Cores, SessionShape
<1>4. \A t \in tests : t.job \in Jobs \ {j}
  BY DEF Begin, IInv, TypeOK, Tests, TestsRun
<1>5. \A s \in session' : SessionShape(s)'
  BY <1>2, <1>3 DEF Begin, SessionShape, IInv, TypeOK
<1>6. TestsRun'
  BY <1>2, <1>4 DEF Begin, TestsRun, IInv
<1> QED BY <1>1, <1>5, <1>6 DEF Begin, IInv, TypeOK, JobStates

\* The flag, the registration and the marks are no part of the shape.
LEMMA CancelType == ASSUME IInv, Cancel PROVE IInv'
<1>1. active \in Jobs
  BY DEF Cancel, IInv, TypeOK
<1>2. job' \in [Jobs -> JobStates]
  BY ZenonT(40), <1>1 DEF Cancel, IInv, TypeOK, JobStates
<1>3. \A i \in Jobs : job'[i].pc = job[i].pc /\ job'[i].todo = job[i].todo
  BY <1>1 DEF Cancel, IInv, TypeOK
<1>4. \A s \in session : s.core.job \in Jobs
  BY DEF IInv, TypeOK, Sessions, Cores
<1>5. \A s \in session' : SessionShape(s)'
  BY <1>3, <1>4 DEF Cancel, SessionShape, IInv, TypeOK
<1>6. TestsRun'
  BY <1>3 DEF Cancel, TestsRun, IInv, TypeOK, Tests
<1> QED BY <1>2, <1>5, <1>6 DEF Cancel, IInv, TypeOK, JobStates

\* A job without sessions and tests changes its own state.
LEMMA AloneType ==
    ASSUME IInv, NEW j \in Jobs, NEW state \in JobStates,
           job' = [job EXCEPT ![j] = state],
           SessionsOf(j) = {}, TestsOf(j) = {},
           UNCHANGED <<session, tests, process>>,
           active' \in Jobs \cup {NoJob},
           row' \in [Profiles -> Jobs \cup {NoJob}]
    PROVE  IInv'
<1>1. job' \in [Jobs -> JobStates]
  BY DEF IInv, TypeOK, JobStates
<1>2. \A i \in Jobs \ {j} : job'[i] = job[i]
  BY DEF IInv, TypeOK
<1>3. \A s \in session : s.core.job \in Jobs \ {j}
  BY DEF IInv, TypeOK, Sessions, Cores, SessionsOf
<1>4. \A t \in tests : t.job \in Jobs \ {j}
  BY DEF IInv, TypeOK, Tests, TestsOf
<1>5. \A s \in session' : SessionShape(s)'
  BY <1>2, <1>3 DEF SessionShape, IInv, TypeOK
<1>6. TestsRun'
  BY <1>2, <1>4 DEF TestsRun, IInv
<1> QED BY <1>1, <1>5, <1>6 DEF IInv, TypeOK, JobStates

\* Outside its main loop, a job has neither sessions nor tests.
LEMMA Idle ==
    ASSUME IInv, NEW j \in Jobs, job[j].pc # "run"
    PROVE  SessionsOf(j) = {} /\ TestsOf(j) = {}
BY DEF IInv, TypeOK, SessionShape, SessionsOf, TestsRun, TestsOf

\* The steps of a job outside its main loop, and the ones into and out of it.
LEMMA OutsideType ==
    ASSUME IInv, NEW j \in Jobs,
           \/ \E p \in Profiles : Clear(j, p)
           \/ Cleared(j) \/ RunDone(j) \/ Finish(j)
    PROVE  IInv'
<1>1. job[j] \in JobStates /\ job \in [Jobs -> JobStates]
  BY DEF IInv, TypeOK, JobStates
<1>2. ASSUME NEW p \in Profiles, Clear(j, p) PROVE IInv'
  <2>1. job' = [job EXCEPT ![j] = [job[j] EXCEPT !.todo = @ \ {p}]]
    BY <1>2, <1>1 DEF Clear
  <2>2. [job[j] EXCEPT !.todo = @ \ {p}] \in JobStates
    BY <1>1 DEF JobStates
  <2>3. row' \in [Profiles -> Jobs \cup {NoJob}]
    BY <1>2 DEF Clear, IInv, TypeOK
  <2> QED BY <1>2, <2>1, <2>2, <2>3, Idle, AloneType DEF Clear, IInv, TypeOK
<1>3. CASE Cleared(j)
  <2> DEFINE state == [job[j] EXCEPT !.pc = "run", !.todo = job[j].selected]
  <2>1. job' = [job EXCEPT ![j] = state]
    BY <1>3, <1>1 DEF Cleared
  <2>2. state \in JobStates
    BY <1>1 DEF JobStates
  <2> HIDE DEF state
  <2> QED BY <1>3, <2>1, <2>2, Idle, AloneType DEF Cleared, IInv, TypeOK
<1>4. CASE RunDone(j)
  <2> DEFINE state == [job[j] EXCEPT !.pc = "finish"]
  <2>1. job' = [job EXCEPT ![j] = state]
    BY <1>4, <1>1 DEF RunDone
  <2>2. state \in JobStates
    BY <1>1 DEF JobStates
  <2> HIDE DEF state
  <2> QED BY <1>4, <2>1, <2>2, AloneType DEF RunDone, IInv, TypeOK
<1>5. CASE Finish(j)
  <2> DEFINE state == [NewJob EXCEPT !.pc = "returned",
                                     !.cancel = job[j].cancel,
                                     !.failed = job[j].failed]
  <2>1. job' = [job EXCEPT ![j] = state]
    BY <1>5 DEF Finish
  <2>2. state \in JobStates
    BY <1>1, NewJobType DEF JobStates
  <2>3. active' \in Jobs \cup {NoJob}
    BY <1>5 DEF Finish, IInv, TypeOK
  <2> HIDE DEF state
  <2> QED BY <1>5, <2>1, <2>2, <2>3, Idle, AloneType DEF Finish, IInv, TypeOK
<1> QED BY <1>2, <1>3, <1>4, <1>5

\* The next page takes profiles off the list and gives them to a session.
LEMMA LaunchType ==
    ASSUME IInv, NEW j \in Jobs, NEW page \in SUBSET Profiles, Launch(j, page)
    PROVE  IInv'
<1> DEFINE core == [job |-> j, page |-> page]
           new == [core |-> core, ready |-> FALSE, left |-> page]
           state == [job[j] EXCEPT !.todo = @ \ page]
<1>1. job \in [Jobs -> JobStates]
  BY DEF IInv, TypeOK, JobStates
<1>2. job' = [job EXCEPT ![j] = state]
  BY <1>1 DEF Launch
<1>3. /\ state \in JobStates /\ state.pc = "run"
      /\ state.todo = job[j].todo \ page
  BY <1>1 DEF JobStates, Launch
<1>4. core \in Cores /\ new \in Sessions
  BY DEF Cores, Sessions
<1>5. session' = session \cup {new} /\ process' = process \cup {core}
  BY DEF Launch
<1>6. new.core.job = j /\ new.core.page = page /\ new.left = page
  OBVIOUS
<1> HIDE DEF core, new, state
<1>7. \A i \in Jobs \ {j} : job'[i] = job[i]
  BY <1>1, <1>2
<1>8. job'[j] = state
  BY <1>1, <1>2
<1>9. \A s \in session : SessionShape(s)'
  <2> TAKE s \in session
  <2>1. s.core.job \in Jobs /\ SessionShape(s)
    BY DEF IInv, TypeOK, Sessions, Cores
  <2>2. CASE s.core.job = j
    BY <2>1, <2>2, <1>8, <1>3 DEF SessionShape
  <2>3. CASE s.core.job # j
    BY <2>1, <2>3, <1>7 DEF SessionShape
  <2> QED BY <2>2, <2>3
<1>10. SessionShape(new)'
  BY <1>8, <1>3, <1>6 DEF SessionShape
<1>11. \A s \in session' : SessionShape(s)'
  BY <1>5, <1>9, <1>10
<1>12. TestsRun'
  BY <1>7, <1>8, <1>3 DEF TestsRun, IInv, TypeOK, Tests, Launch
<1> QED BY <1>1, <1>2, <1>3, <1>4, <1>5, <1>11, <1>12
        DEF IInv, TypeOK, JobStates, Launch

\* The ports open, or a session ends.
LEMMA SessionType ==
    ASSUME IInv, NEW s \in session, PortsOpen(s) \/ EndSession(s)
    PROVE  IInv'
<1>1. s \in Sessions /\ SessionShape(s)
  BY DEF IInv, TypeOK
<1>2. UNCHANGED <<active, job, tests, row>> /\ process' \subseteq process
  BY DEF PortsOpen, EndSession, DropSessions
<1>3. [s EXCEPT !.ready = TRUE] \in Sessions
  BY <1>1 DEF Sessions
<1>4. SessionShape([s EXCEPT !.ready = TRUE])
  BY <1>1 DEF SessionShape, Sessions
<1>5. session' \subseteq session \cup {[s EXCEPT !.ready = TRUE]}
  BY DEF PortsOpen, EndSession, DropSessions
<1>6. \A r \in session' : r \in Sessions /\ SessionShape(r)
  BY <1>3, <1>4, <1>5 DEF IInv, TypeOK
<1>7. \A r \in session' : SessionShape(r)'
  BY <1>2, <1>6 DEF SessionShape
<1> QED BY <1>2, <1>6, <1>7 DEF IInv, TypeOK, TestsRun

\* A test begins in the main loop of its job.
LEMMA TestType ==
    ASSUME IInv, NEW j \in Jobs, NEW p \in Profiles,
           \/ TestDirect(j, p)
           \/ \E s \in SessionsOf(j) : TestThrough(s, p)
    PROVE  IInv'
<1>1. NewTest(j, p) \in Tests /\ NewTest(j, p).job = j
  BY DEF NewTest, Tests
<1>2. CASE TestDirect(j, p)
  <2> DEFINE state == [job[j] EXCEPT !.todo = @ \ {p}]
  <2>1. job \in [Jobs -> JobStates]
    BY DEF IInv, TypeOK, JobStates
  <2>2. job' = [job EXCEPT ![j] = state]
    BY <2>1, <1>2 DEF TestDirect
  <2>3. /\ state \in JobStates /\ state.pc = "run"
        /\ state.todo \subseteq job[j].todo
    BY <2>1, <1>2 DEF JobStates, TestDirect
  <2> HIDE DEF state
  <2>4. \A i \in Jobs : /\ job[i].pc = "run" => job'[i].pc = "run"
                        /\ job'[i].todo \subseteq job[i].todo
    BY <2>1, <2>2, <2>3
  <2>5. tests' = tests \cup {NewTest(j, p)}
    BY <1>2 DEF TestDirect
  <2>6. TestsRun'
    BY <2>1, <2>2, <2>3, <2>4, <2>5, <1>1 DEF TestsRun, IInv, TypeOK, Tests
  <2>7. \A s \in session : SessionShape(s)'
    BY <2>4 DEF SessionShape, IInv, TypeOK, Sessions, Cores
  <2> QED BY <1>1, <1>2, <2>1, <2>2, <2>3, <2>5, <2>6, <2>7
          DEF TestDirect, IInv, TypeOK, JobStates
<1>3. ASSUME NEW s \in SessionsOf(j), TestThrough(s, p) PROVE IInv'
  <2> DEFINE rest == [s EXCEPT !.left = @ \ {p}]
  <2>1. s \in session /\ s \in Sessions /\ SessionShape(s) /\ s.core.job = j
    BY <1>3 DEF SessionsOf, IInv, TypeOK
  <2>2. rest \in Sessions /\ rest.core = s.core /\ rest.left \subseteq s.left
    BY <2>1 DEF Sessions
  <2>3. session' = (session \ {s}) \cup {rest} /\ tests' = tests \cup {NewTest(j, p)}
    BY <1>3, <2>1 DEF TestThrough
  <2> HIDE DEF rest
  <2>4. UNCHANGED <<active, job, process, row>>
    BY <1>3 DEF TestThrough
  <2>5. SessionShape(rest)
    BY <2>1, <2>2 DEF SessionShape
  <2>6. \A r \in session' : r \in Sessions /\ SessionShape(r)
    BY <2>2, <2>3, <2>5 DEF IInv, TypeOK
  <2>7. \A r \in session' : SessionShape(r)'
    BY <2>4, <2>6 DEF SessionShape
  <2>8. job[j].pc = "run"
    BY <2>1 DEF SessionShape
  <2>9. TestsRun'
    BY <2>3, <2>4, <2>8, <1>1 DEF TestsRun, IInv
  <2> QED BY <1>1, <2>3, <2>4, <2>6, <2>7, <2>9 DEF IInv, TypeOK
<1> QED BY <1>2, <1>3

\* A test goes on or ends.
LEMMA ProbeType ==
    ASSUME IInv, NEW t \in tests, Probe(t) \/ Persist(t)
    PROVE  IInv'
<1>1. t \in Tests /\ job[t.job].pc = "run"
  BY DEF IInv, TypeOK, TestsRun
<1>2. UNCHANGED <<active, job, session, process>>
  BY DEF Probe, Persist
<1>3. row' \in [Profiles -> Jobs \cup {NoJob}]
  BY DEF Probe, Persist, IInv, TypeOK
<1>4. \A u \in tests' : u \in tests \/ (u \in Tests /\ u.job = t.job)
  <2>1. CASE Probe(t)
    <3> PICK value \in {"good", "bad"} :
             tests' = (tests \ {t}) \cup {[t EXCEPT !.value = value]}
      BY <2>1 DEF Probe
    <3>1. [t EXCEPT !.value = value] \in Tests /\ [t EXCEPT !.value = value].job = t.job
      BY <1>1 DEF Tests
    <3> QED BY <3>1
  <2>2. CASE Persist(t)
    <3> DEFINE next == [t EXCEPT !.stage = "speed", !.value = "none"]
    <3>1. next \in Tests /\ next.job = t.job
      BY <1>1 DEF Tests
    <3>2. tests' \subseteq tests \cup {next}
      BY <2>2 DEF Persist
    <3> QED BY <3>1, <3>2
  <2> QED BY <2>1, <2>2
<1>5. tests' \subseteq Tests /\ TestsRun'
  BY <1>1, <1>2, <1>4 DEF IInv, TypeOK, TestsRun
<1>6. \A s \in session' : SessionShape(s)'
  BY <1>2 DEF IInv, TypeOK, SessionShape
<1> QED BY <1>2, <1>3, <1>5, <1>6 DEF IInv, TypeOK

-----------------------------------------------------------------------------
(* The steps of a job, sorted by what they touch.                          *)

\* Every failure is a failure of a job in progress.
LEMMA StepKinds ==
    ASSUME IInv, NEW j \in Jobs, JobStep(j)
    PROVE  \/ Fail(j) /\ InProgress(j)
           \/ \E p \in Profiles : Clear(j, p)
           \/ Cleared(j)
           \/ \E page \in SUBSET Profiles : Launch(j, page)
           \/ \E s \in SessionsOf(j) : PortsOpen(s) \/ EndSession(s)
           \/ \E p \in Profiles : \/ TestDirect(j, p)
                                 \/ \E s \in SessionsOf(j) : TestThrough(s, p)
           \/ \E t \in TestsOf(j) : Probe(t) \/ Persist(t)
           \/ RunDone(j)
           \/ Finish(j)
<1>1. CASE DatabaseFails(j)
  <2>1. Fail(j)
    BY <1>1 DEF DatabaseFails
  <2>2. job[j].pc \in {"clear", "run"}
    BY <1>1 DEF DatabaseFails, TestsOf, IInv, TestsRun
  <2> QED BY <2>1, <2>2 DEF InProgress
<1>2. CASE LaunchFails(j)
  BY <1>2 DEF LaunchFails, InProgress
<1>3. ASSUME NEW s \in SessionsOf(j), PortsStayClosed(s)
      PROVE  Fail(j) /\ InProgress(j)
  <2>1. s \in session /\ s.core.job = j /\ SessionShape(s)
    BY DEF SessionsOf, IInv, TypeOK
  <2> QED BY <2>1, <1>3 DEF PortsStayClosed, SessionShape, InProgress
<1> QED BY <1>1, <1>2, <1>3 DEF JobStep

\* Every step keeps the types and the shape of sessions and tests.
LEMMA TypeStep == IInv /\ [Next]_vars => IInv'
<1> SUFFICES ASSUME IInv, [Next]_vars PROVE IInv'
  OBVIOUS
<1>1. CASE UNCHANGED vars
  BY <1>1 DEF vars, IInv, TypeOK, TestsRun, SessionShape
<1>2. CASE Cancel
  BY <1>2, CancelType
<1>3. ASSUME NEW j \in Jobs, Call(j) PROVE IInv'
  BY <1>3, BeginType
<1>4. ASSUME NEW j \in Jobs, JobStep(j) PROVE IInv'
  <2>1. CASE Fail(j)
    BY <2>1, FailType
  <2>2. CASE \/ \E p \in Profiles : Clear(j, p)
             \/ Cleared(j) \/ RunDone(j) \/ Finish(j)
    BY <2>2, OutsideType
  <2>3. CASE \E page \in SUBSET Profiles : Launch(j, page)
    BY <2>3, LaunchType
  <2>4. CASE \E s \in SessionsOf(j) : PortsOpen(s) \/ EndSession(s)
    BY <2>4, SessionType DEF SessionsOf
  <2>5. CASE \E p \in Profiles : \/ TestDirect(j, p)
                               \/ \E s \in SessionsOf(j) : TestThrough(s, p)
    BY <2>5, TestType
  <2>6. CASE \E t \in TestsOf(j) : Probe(t) \/ Persist(t)
    BY <2>6, ProbeType DEF TestsOf
  <2> QED BY <1>4, StepKinds, <2>1, <2>2, <2>3, <2>4, <2>5, <2>6
<1> QED BY <1>1, <1>2, <1>3, <1>4 DEF Next

\* Type correctness: in particular, what a session tests is never started
\* again, and a session belongs to a job in its main loop.
THEOREM TypeCorrect == Spec => []TypeOK
<1>1. IInv => TypeOK
  BY DEF IInv
<1> QED BY InitType, TypeStep, <1>1, PTL DEF Spec

-----------------------------------------------------------------------------
(* One job goes on.                                                        *)

\* What the steps between the beginning and the end of a job leave alone.
LEMMA Registration ==
    ASSUME IInv, NEW j \in Jobs, JobStep(j), ~Finish(j)
    PROVE  /\ active' = active
           /\ \A i \in Jobs : /\ InProgress(i)' <=> InProgress(i)
                             /\ job'[i].cancel = job[i].cancel
<1>1. job \in [Jobs -> JobStates]
  BY DEF IInv, TypeOK, JobStates
<1>2. CASE Fail(j) /\ InProgress(j)
  BY <1>1, <1>2 DEF Fail, InProgress, JobStates
<1>3. ASSUME NEW p \in Profiles, Clear(j, p) \/ TestDirect(j, p)
      PROVE  /\ active' = active
             /\ \A i \in Jobs : /\ InProgress(i)' <=> InProgress(i)
                               /\ job'[i].cancel = job[i].cancel
  BY <1>1, <1>3 DEF Clear, TestDirect, InProgress, JobStates
<1>4. CASE Cleared(j)
  BY <1>1, <1>4 DEF Cleared, InProgress, JobStates
<1>5. ASSUME NEW page \in SUBSET Profiles, Launch(j, page)
      PROVE  /\ active' = active
             /\ \A i \in Jobs : /\ InProgress(i)' <=> InProgress(i)
                               /\ job'[i].cancel = job[i].cancel
  BY <1>1, <1>5 DEF Launch, InProgress, JobStates
<1>6. CASE RunDone(j)
  BY <1>1, <1>6 DEF RunDone, InProgress, JobStates
<1>7. CASE UNCHANGED <<active, job>>
  BY <1>7 DEF InProgress
<1>8. ASSUME NEW s \in SessionsOf(j), PortsOpen(s) \/ EndSession(s)
      PROVE  UNCHANGED <<active, job>>
  BY <1>8 DEF PortsOpen, EndSession
<1>9. ASSUME NEW s \in SessionsOf(j), NEW p \in Profiles, TestThrough(s, p)
      PROVE  UNCHANGED <<active, job>>
  BY <1>9 DEF TestThrough
<1>10. ASSUME NEW t \in TestsOf(j), Probe(t) \/ Persist(t)
       PROVE  UNCHANGED <<active, job>>
  BY <1>10 DEF Probe, Persist
<1> QED BY StepKinds, <1>2, <1>3, <1>4, <1>5, <1>6, <1>7, <1>8, <1>9, <1>10

\* Starting, cancelling and finishing keep at most one job going on.
LEMMA OneJobStep ==
    IInv /\ OneJobGoesOn /\ [Next]_vars => OneJobGoesOn'
<1> SUFFICES ASSUME IInv, OneJobGoesOn, [Next]_vars PROVE OneJobGoesOn'
  OBVIOUS
<1> USE SpeedtestAssumption
<1>1. CASE UNCHANGED vars
  BY <1>1 DEF vars, OneJobGoesOn, InProgress
<1>2. job \in [Jobs -> JobStates] /\ active \in Jobs \cup {NoJob}
  BY DEF IInv, TypeOK, JobStates
<1>3. CASE Cancel
  BY <1>2, <1>3 DEF Cancel, OneJobGoesOn, InProgress, JobStates
<1>4. ASSUME NEW j \in Jobs, Call(j) PROVE OneJobGoesOn'
  <2> PICK kind \in Kinds, limit \in {1, Concurrency},
           selected \in SUBSET Profiles : Begin(j, kind, limit, selected)
    BY <1>4 DEF Call
  <2>1. active' = j /\ job'[j].pc = "clear"
    BY <1>2 DEF Begin, JobStates
  <2>2. ASSUME NEW i \in Jobs \ {j}, InProgress(i)' PROVE job'[i].cancel
    <3>1. InProgress(i)
      BY <1>2, <2>2 DEF Begin, InProgress, JobStates
    <3> QED BY <1>2, <3>1 DEF Begin, OneJobGoesOn, JobStates
  <2> QED BY <2>1, <2>2 DEF OneJobGoesOn, InProgress
<1>5. ASSUME NEW j \in Jobs, Finish(j) PROVE OneJobGoesOn'
  <2>1. job'[j].pc = "returned" /\ \A i \in Jobs \ {j} : job'[i] = job[i]
    BY <1>2, <1>5, NewJobType DEF Finish, JobStates
  <2> QED BY <1>2, <1>5, <2>1 DEF Finish, OneJobGoesOn, InProgress
<1>6. ASSUME NEW j \in Jobs, JobStep(j), ~Finish(j) PROVE OneJobGoesOn'
  BY <1>2, <1>6, Registration DEF OneJobGoesOn
<1> QED BY <1>1, <1>3, <1>4, <1>5, <1>6 DEF Next

\* At most one job goes on, and the registered job is in progress.
THEOREM OneJobTheorem == Spec => []OneJobGoesOn
<1>1. Init => OneJobGoesOn
  BY SpeedtestAssumption DEF Init, OneJobGoesOn, InProgress, NewJob
<1> QED BY InitType, TypeStep, OneJobStep, <1>1, PTL DEF Spec

-----------------------------------------------------------------------------
(* Probe cores end with their sessions.                                    *)

Owned == \A core \in process : \E s \in session : s.core = core

\* A job that fails takes its cores with it.
LEMMA DropKeepsOwned ==
    ASSUME Owned, NEW S, DropSessions(S)
    PROVE  Owned'
<1> SUFFICES ASSUME NEW core \in process' PROVE \E s \in session' : s.core = core
  BY DEF Owned
<1>1. core \in process /\ core \notin {s.core : s \in S}
  BY DEF DropSessions
<1>2. PICK s \in session : s.core = core
  BY <1>1 DEF Owned
<1>3. s \notin S
  BY <1>1, <1>2
<1> QED BY <1>2, <1>3 DEF DropSessions

\* A session that changes keeps its core.
LEMMA OwnedStep == IInv /\ Owned /\ [Next]_vars => Owned'
<1> SUFFICES ASSUME IInv, Owned, [Next]_vars PROVE Owned'
  OBVIOUS
<1>1. CASE UNCHANGED <<session, process>>
  BY <1>1 DEF Owned
<1>2. ASSUME NEW j \in Jobs, Fail(j) PROVE Owned'
  BY <1>2, DropKeepsOwned DEF Fail
<1>3. ASSUME NEW j \in Jobs, NEW page \in SUBSET Profiles, Launch(j, page)
      PROVE  Owned'
  <2> DEFINE core == [job |-> j, page |-> page]
             new == [core |-> core, ready |-> FALSE, left |-> page]
  <2>1. /\ session' = session \cup {new} /\ process' = process \cup {core}
        /\ new.core = core
    BY <1>3 DEF Launch
  <2> HIDE DEF core, new
  <2> QED BY <2>1 DEF Owned
<1>4. ASSUME NEW s \in session, EndSession(s) PROVE Owned'
  BY <1>4, DropKeepsOwned DEF EndSession
<1>5. ASSUME NEW s \in session, NEW r \in Sessions, r.core = s.core,
             session' = (session \ {s}) \cup {r}, process' = process
      PROVE  Owned'
  BY <1>5 DEF Owned
<1>6. ASSUME NEW s \in session, PortsOpen(s) PROVE Owned'
  <2>1. [s EXCEPT !.ready = TRUE] \in Sessions
    BY DEF IInv, TypeOK, Sessions
  <2>2. [s EXCEPT !.ready = TRUE].core = s.core
    BY DEF IInv, TypeOK, Sessions
  <2>3. session' = (session \ {s}) \cup {[s EXCEPT !.ready = TRUE]} /\ process' = process
    BY <1>6 DEF PortsOpen
  <2> QED BY <1>5, <2>1, <2>2, <2>3
<1>7. ASSUME NEW s \in session, NEW p \in Profiles, TestThrough(s, p)
      PROVE  Owned'
  <2>1. [s EXCEPT !.left = @ \ {p}] \in Sessions
    BY DEF IInv, TypeOK, Sessions
  <2>2. [s EXCEPT !.left = @ \ {p}].core = s.core
    BY DEF IInv, TypeOK, Sessions
  <2>3. /\ session' = (session \ {s}) \cup {[s EXCEPT !.left = @ \ {p}]}
        /\ process' = process
    BY <1>7 DEF TestThrough
  <2> QED BY <1>5, <2>1, <2>2, <2>3
<1>8. ASSUME NEW j \in Jobs, Call(j) \/ Cancel PROVE Owned'
  BY <1>8, <1>1 DEF Call, Begin, Cancel
<1>9. ASSUME NEW j \in Jobs, JobStep(j) PROVE Owned'
  <2>1. ASSUME NEW p \in Profiles, Clear(j, p) \/ TestDirect(j, p) PROVE Owned'
    BY <2>1, <1>1 DEF Clear, TestDirect
  <2>2. ASSUME NEW t \in TestsOf(j), Probe(t) \/ Persist(t) PROVE Owned'
    BY <2>2, <1>1 DEF Probe, Persist
  <2>3. CASE Cleared(j) \/ RunDone(j) \/ Finish(j)
    BY <2>3, <1>1 DEF Cleared, RunDone, Finish
  <2> QED BY <1>2, <1>3, <1>4, <1>6, <1>7, <1>9, <2>1, <2>2, <2>3, StepKinds
          DEF SessionsOf
<1>10. CASE Cancel
  BY <1>10, <1>1 DEF Cancel
<1>11. CASE UNCHANGED vars
  BY <1>11, <1>1 DEF vars
<1> QED BY <1>8, <1>9, <1>10, <1>11 DEF Next

\* A probe core runs only as long as the test that started it.
THEOREM ReapedTheorem == Spec => []ProbesAreReaped
<1>1. Init => Owned
  BY DEF Init, Owned
<1>2. IInv /\ Owned => ProbesAreReaped
  BY DEF IInv, TypeOK, Owned, ProbesAreReaped, SessionShape
<1> QED BY InitType, TypeStep, OwnedStep, <1>1, <1>2, PTL DEF Spec

-----------------------------------------------------------------------------
(* Nobody is forgotten.                                                    *)

\* Where the result of a marked profile is to come from.
Pending(j, p) ==
    \/ job[j].pc = "clear"
    \/ /\ job[j].pc = "run"
       /\ \/ p \in job[j].todo
          \/ \E s \in SessionsOf(j) : p \in s.left
          \/ \E t \in TestsOf(j) : t.profile = p

Excused(j) == job[j].cancel \/ job[j].failed

Due(j, p) == Pending(j, p) \/ Excused(j)

Owed ==
    /\ \A p \in Profiles : row[p] # NoJob => Due(row[p], p)
    /\ \A p \in Profiles :
          row[p] # NoJob /\ job[row[p]].pc = "clear" => p \in job[row[p]].selected
    /\ \A j \in Jobs : job[j].pc = "clear" => job[j].todo \subseteq job[j].selected
    /\ \A j \in Jobs : job[j].pc = "new" => ~Excused(j)

\* A step that marks no row and begins no job.
LEMMA OwedFrame ==
    ASSUME IInv, Owed,
           \A p \in Profiles : row'[p] = NoJob \/ row'[p] = row[p],
           \A i \in Jobs : job'[i].pc = "clear" =>
               /\ job[i].pc = "clear" /\ job'[i].selected = job[i].selected
               /\ job'[i].todo \subseteq job[i].todo,
           \A i \in Jobs : job'[i].pc = "new" =>
               job[i].pc = "new" /\ (Excused(i)' => Excused(i)),
           \A p \in Profiles :
               row[p] # NoJob /\ row'[p] = row[p] /\ Due(row[p], p) =>
                   Due(row[p], p)'
    PROVE  Owed'
<1>1. \A p \in Profiles : row[p] \in Jobs \cup {NoJob}
  BY DEF IInv, TypeOK
<1>2. \A p \in Profiles : (row[p] # NoJob => Due(row[p], p))'
  BY <1>1 DEF Owed
<1>3. \A p \in Profiles :
         (row[p] # NoJob /\ job[row[p]].pc = "clear" => p \in job[row[p]].selected)'
  BY <1>1 DEF Owed
<1>4. \A j \in Jobs : (job[j].pc = "clear" => job[j].todo \subseteq job[j].selected)'
  BY DEF Owed
<1>5. \A j \in Jobs : (job[j].pc = "new" => ~Excused(j))'
  BY DEF Owed
<1> QED BY <1>2, <1>3, <1>4, <1>5 DEF Owed

\* A job that begins has marked no row; the one it replaces is excused.
LEMMA OwedBegin ==
    ASSUME IInv, OneJobGoesOn, Owed, NEW j \in Jobs, Call(j)
    PROVE  Owed'
<1> USE SpeedtestAssumption
<1> PICK kind \in Kinds, limit \in {1, Concurrency},
         selected \in SUBSET Profiles : Begin(j, kind, limit, selected)
  BY DEF Call
<1>1. job \in [Jobs -> JobStates] /\ row \in [Profiles -> Jobs \cup {NoJob}]
  BY DEF IInv, TypeOK, JobStates
<1>2. /\ UNCHANGED <<session, tests, row>>
      /\ job[j].pc = "new" /\ ~Excused(j)
  BY DEF Begin, Owed
<1>3. /\ job'[j].pc = "clear" /\ job'[j].selected = selected
      /\ job'[j].todo = selected
  BY <1>1 DEF Begin, JobStates
<1>4. ASSUME NEW i \in Jobs \ {j}
      PROVE  /\ job'[i].pc = job[i].pc /\ job'[i].todo = job[i].todo
             /\ job'[i].selected = job[i].selected
             /\ job'[i].failed = job[i].failed
             /\ job[i].cancel => job'[i].cancel
             /\ job'[i].cancel => job[i].cancel \/ i = active
  <2>1. \/ job'[i] = job[i] /\ i # active
        \/ job'[i] = [job[i] EXCEPT !.cancel = TRUE] /\ i = active
    BY DEF Begin
  <2> QED BY <1>1, <2>1 DEF JobStates
<1>5. \A p \in Profiles : row[p] # j
  BY <1>2 DEF Owed, Due, Pending
<1>6. ASSUME NEW p \in Profiles, row[p] # NoJob PROVE Due(row[p], p)'
  <2>1. row[p] \in Jobs \ {j}
    BY <1>1, <1>5, <1>6
  <2> QED BY <1>2, <1>4, <1>6, <2>1
          DEF Owed, Due, Pending, Excused, SessionsOf, TestsOf
<1>7. ASSUME NEW i \in Jobs, job'[i].pc = "new" PROVE ~Excused(i)'
  <2>1. i # j /\ job[i].pc = "new"
    BY <1>3, <1>4, <1>7
  <2>2. i # active
    BY <2>1 DEF OneJobGoesOn, InProgress
  <2> QED BY <1>4, <2>1, <2>2 DEF Owed, Excused
<1>8. \A p \in Profiles : (row[p] # NoJob /\ job[row[p]].pc = "clear" =>
                              p \in job[row[p]].selected)'
  BY <1>1, <1>2, <1>4, <1>5 DEF Owed
<1>9. \A i \in Jobs : (job[i].pc = "clear" => job[i].todo \subseteq job[i].selected)'
  BY <1>3, <1>4 DEF Owed
<1> QED BY <1>2, <1>6, <1>7, <1>8, <1>9 DEF Owed

\* A row that is marked is marked by a job that goes on to test it.
LEMMA OwedClear ==
    ASSUME IInv, Owed, NEW j \in Jobs, NEW p \in Profiles, Clear(j, p)
    PROVE  Owed'
<1>1. job \in [Jobs -> JobStates] /\ row \in [Profiles -> Jobs \cup {NoJob}]
  BY DEF IInv, TypeOK, JobStates
<1>2. /\ row' = [row EXCEPT ![p] = j] /\ UNCHANGED <<session, tests>>
      /\ p \in job[j].todo
  BY DEF Clear
<1>3. /\ job'[j].pc = "clear" /\ job'[j].selected = job[j].selected
      /\ job'[j].todo \subseteq job[j].todo
      /\ \A i \in Jobs \ {j} : job'[i] = job[i]
      /\ job[j].pc = "clear"
  BY <1>1 DEF Clear, JobStates
<1>4. \A q \in Profiles : (row[q] # NoJob => Due(row[q], q))'
  BY <1>1, <1>2, <1>3 DEF Owed, Due, Pending, Excused, SessionsOf, TestsOf
<1>5. \A q \in Profiles : (row[q] # NoJob /\ job[row[q]].pc = "clear" =>
                              q \in job[row[q]].selected)'
  BY <1>1, <1>2, <1>3 DEF Owed
<1>6. \A i \in Jobs : (job[i].pc = "clear" => job[i].todo \subseteq job[i].selected)'
  BY <1>3 DEF Owed
<1>7. \A i \in Jobs : (job[i].pc = "new" => ~Excused(i))'
  BY <1>3 DEF Owed, Excused
<1> QED BY <1>4, <1>5, <1>6, <1>7 DEF Owed

\* A cancellation and a failure are excuses.
LEMMA OwedExcuse ==
    ASSUME IInv, OneJobGoesOn, Owed, Cancel \/ \E j \in Jobs : Fail(j)
    PROVE  Owed'
<1>1. job \in [Jobs -> JobStates] /\ row \in [Profiles -> Jobs \cup {NoJob}]
  BY DEF IInv, TypeOK, JobStates
<1>2. CASE Cancel
  <2>1. active \in Jobs /\ InProgress(active)
    BY <1>2 DEF Cancel, IInv, TypeOK, OneJobGoesOn
  <2>2. /\ job'[active] = [job[active] EXCEPT !.cancel = TRUE]
        /\ \A i \in Jobs \ {active} : job'[i] = job[i]
        /\ UNCHANGED <<session, tests, row>>
    BY <1>1, <1>2, <2>1 DEF Cancel
  <2>3. /\ job'[active].pc = job[active].pc /\ job'[active].cancel
        /\ job'[active].todo = job[active].todo
        /\ job'[active].selected = job[active].selected
    BY <1>1, <2>1, <2>2 DEF JobStates
  <2>4. \A i \in Jobs : job'[i].pc = "clear" =>
           /\ job[i].pc = "clear" /\ job'[i].selected = job[i].selected
           /\ job'[i].todo \subseteq job[i].todo
    BY <2>2, <2>3
  <2>5. \A i \in Jobs : job'[i].pc = "new" =>
           job[i].pc = "new" /\ (Excused(i)' => Excused(i))
    BY <2>1, <2>2, <2>3 DEF Excused, InProgress
  <2>6. \A p \in Profiles :
           row[p] # NoJob /\ row'[p] = row[p] /\ Due(row[p], p) => Due(row[p], p)'
    BY <1>1, <2>2, <2>3 DEF Due, Pending, Excused, SessionsOf, TestsOf
  <2> QED BY <2>2, <2>4, <2>5, <2>6, OwedFrame
<1>3. ASSUME NEW j \in Jobs, Fail(j) PROVE Owed'
  <2>1. /\ job'[j].pc = "finish" /\ job'[j].failed
        /\ \A i \in Jobs \ {j} : job'[i] = job[i]
    BY <1>1, <1>3 DEF Fail, JobStates
  <2>2. /\ row' = row
        /\ session' = session \ SessionsOf(j) /\ tests' = tests \ TestsOf(j)
    BY <1>3 DEF Fail, DropSessions
  <2>3. \A i \in Jobs \ {j} : SessionsOf(i)' = SessionsOf(i) /\ TestsOf(i)' = TestsOf(i)
    BY <2>2 DEF SessionsOf, TestsOf
  <2>4. \A i \in Jobs : job'[i].pc = "clear" =>
           /\ job[i].pc = "clear" /\ job'[i].selected = job[i].selected
           /\ job'[i].todo \subseteq job[i].todo
    BY <2>1
  <2>5. \A i \in Jobs : job'[i].pc = "new" =>
           job[i].pc = "new" /\ (Excused(i)' => Excused(i))
    BY <2>1 DEF Excused
  <2>6. \A p \in Profiles :
           row[p] # NoJob /\ row'[p] = row[p] /\ Due(row[p], p) => Due(row[p], p)'
    BY <1>1, <2>1, <2>3 DEF Due, Pending, Excused
  <2> QED BY <2>2, <2>4, <2>5, <2>6, OwedFrame
<1> QED BY <1>2, <1>3

\* A profile goes from the list to a session, from there to a test, and the
\* test ends with a result.
LEMMA OwedWork ==
    ASSUME IInv, Owed, NEW j \in Jobs,
           \/ \E page \in SUBSET Profiles : Launch(j, page)
           \/ \E s \in SessionsOf(j) : PortsOpen(s) \/ EndSession(s)
           \/ \E p \in Profiles : \/ TestDirect(j, p)
                                 \/ \E s \in SessionsOf(j) : TestThrough(s, p)
           \/ \E t \in TestsOf(j) : Probe(t) \/ Persist(t)
    PROVE  Owed'
<1>1. job \in [Jobs -> JobStates] /\ row \in [Profiles -> Jobs \cup {NoJob}]
  BY DEF IInv, TypeOK, JobStates
<1> DEFINE Keeps ==
      /\ \A p \in Profiles : row'[p] = NoJob \/ row'[p] = row[p]
      /\ \A i \in Jobs : /\ job'[i].pc = job[i].pc
                        /\ job'[i].cancel = job[i].cancel
                        /\ job'[i].failed = job[i].failed
                        /\ job'[i].selected = job[i].selected
                        /\ job'[i].todo \subseteq job[i].todo
           Follows ==
      \A p \in Profiles :
          row[p] # NoJob /\ row'[p] = row[p] /\ Due(row[p], p) => Due(row[p], p)'
<1>2. ASSUME Keeps, Follows PROVE Owed'
  BY <1>2, OwedFrame DEF Excused
<1>3. ASSUME NEW page \in SUBSET Profiles, Launch(j, page) PROVE Owed'
  <2> DEFINE core == [job |-> j, page |-> page]
             new == [core |-> core, ready |-> FALSE, left |-> page]
  <2>1. /\ UNCHANGED <<tests, row>> /\ session' = session \cup {new}
        /\ new.core.job = j /\ new.left = page
    BY <1>3 DEF Launch
  <2> HIDE DEF core, new
  <2>2. /\ job' = [job EXCEPT ![j] = [job[j] EXCEPT !.todo = @ \ page]]
    BY <1>1, <1>3 DEF Launch
  <2>3. job'[j].todo = job[j].todo \ page
    BY <1>1, <2>2 DEF JobStates
  <2>4. Keeps
    BY <1>1, <2>1, <2>2 DEF JobStates
  <2>5. \A i \in Jobs \ {j} : job'[i] = job[i]
    BY <1>1, <2>2
  <2>6. Follows
    BY <1>1, <2>1, <2>3, <2>4, <2>5
       DEF Due, Pending, Excused, SessionsOf, TestsOf
  <2> QED BY <1>2, <2>4, <2>6
<1>4. ASSUME NEW s \in SessionsOf(j), PortsOpen(s) PROVE Owed'
  <2> DEFINE open == [s EXCEPT !.ready = TRUE]
  <2>1. /\ UNCHANGED <<job, tests, row>>
        /\ session' = (session \ {s}) \cup {open}
    BY <1>4 DEF PortsOpen
  <2>2. open.left = s.left /\ open.core = s.core
    BY DEF SessionsOf, IInv, TypeOK, Sessions
  <2> HIDE DEF open
  <2>3. Keeps
    BY <1>1, <2>1
  <2>4. Follows
    BY <1>1, <2>1, <2>2 DEF Due, Pending, Excused, SessionsOf, TestsOf
  <2> QED BY <1>2, <2>3, <2>4
<1>5. ASSUME NEW s \in SessionsOf(j), EndSession(s) PROVE Owed'
  <2>1. /\ UNCHANGED <<job, tests, row>> /\ session' = session \ {s}
        /\ s.core.job = j
        /\ s.left = {} \/ job[j].cancel
    BY <1>5 DEF EndSession, DropSessions, SessionsOf
  <2>2. Keeps
    BY <1>1, <2>1
  <2>3. Follows
    BY <1>1, <2>1 DEF Due, Pending, Excused, SessionsOf, TestsOf
  <2> QED BY <1>2, <2>2, <2>3
<1>6. ASSUME NEW p \in Profiles, TestDirect(j, p) PROVE Owed'
  <2>1. /\ UNCHANGED <<session, row>> /\ tests' = tests \cup {NewTest(j, p)}
        /\ NewTest(j, p).job = j /\ NewTest(j, p).profile = p
    BY <1>6 DEF TestDirect, NewTest
  <2>2. /\ job' = [job EXCEPT ![j] = [job[j] EXCEPT !.todo = @ \ {p}]]
    BY <1>1, <1>6 DEF TestDirect
  <2>3. job'[j].todo = job[j].todo \ {p}
    BY <1>1, <2>2 DEF JobStates
  <2>4. Keeps
    BY <1>1, <2>1, <2>2 DEF JobStates
  <2>5. \A i \in Jobs \ {j} : job'[i] = job[i]
    BY <1>1, <2>2
  <2>6. Follows
    BY <1>1, <2>1, <2>3, <2>4, <2>5
       DEF Due, Pending, Excused, SessionsOf, TestsOf
  <2> QED BY <1>2, <2>4, <2>6
<1>7. ASSUME NEW s \in SessionsOf(j), NEW p \in Profiles, TestThrough(s, p)
      PROVE  Owed'
  <2> DEFINE rest == [s EXCEPT !.left = @ \ {p}]
  <2>1. s.core.job = j
    BY DEF SessionsOf
  <2>2. /\ UNCHANGED <<job, row>>
        /\ session' = (session \ {s}) \cup {rest}
        /\ tests' = tests \cup {NewTest(j, p)}
    BY <1>7, <2>1 DEF TestThrough
  <2>3. rest.left = s.left \ {p} /\ rest.core = s.core
    BY DEF SessionsOf, IInv, TypeOK, Sessions
  <2>4. NewTest(j, p).job = j /\ NewTest(j, p).profile = p
    BY DEF NewTest
  <2> HIDE DEF rest
  <2>5. Keeps
    BY <1>1, <2>2
  <2>6. Follows
    BY <1>1, <2>1, <2>2, <2>3, <2>4
       DEF Due, Pending, Excused, SessionsOf, TestsOf
  <2> QED BY <1>2, <2>5, <2>6
<1>8. ASSUME NEW t \in TestsOf(j), Probe(t) PROVE Owed'
  <2> PICK value \in {"good", "bad"} :
           tests' = (tests \ {t}) \cup {[t EXCEPT !.value = value]}
    BY <1>8 DEF Probe
  <2> DEFINE answered == [t EXCEPT !.value = value]
  <2>1. answered.job = t.job /\ answered.profile = t.profile
    BY DEF TestsOf, IInv, TypeOK, Tests
  <2>2. tests' = (tests \ {t}) \cup {answered}
    OBVIOUS
  <2>3. UNCHANGED <<job, session, row>>
    BY <1>8 DEF Probe
  <2> HIDE DEF answered
  <2>4. Keeps
    BY <1>1, <2>3
  <2>5. Follows
    BY <1>1, <2>1, <2>2, <2>3 DEF Due, Pending, Excused, SessionsOf, TestsOf
  <2> QED BY <1>2, <2>4, <2>5
<1>9. ASSUME NEW t \in TestsOf(j), Persist(t) PROVE Owed'
  <2>1. /\ UNCHANGED <<job, session>> /\ row' = [row EXCEPT ![t.profile] = NoJob]
        /\ tests \ {t} \subseteq tests'
    BY <1>9 DEF Persist
  <2>2. Keeps
    BY <1>1, <2>1
  <2>3. Follows
    BY <1>1, <2>1 DEF Due, Pending, Excused, SessionsOf, TestsOf
  <2> QED BY <1>2, <2>2, <2>3
<1> QED BY <1>3, <1>4, <1>5, <1>6, <1>7, <1>8, <1>9

\* The list is taken up after the marks, and a job ends when it is empty.
LEMMA OwedEnds ==
    ASSUME IInv, Owed, NEW j \in Jobs, Cleared(j) \/ RunDone(j) \/ Finish(j)
    PROVE  Owed'
<1>1. job \in [Jobs -> JobStates] /\ row \in [Profiles -> Jobs \cup {NoJob}]
  BY DEF IInv, TypeOK, JobStates
<1>2. /\ UNCHANGED <<session, tests, row>>
      /\ \A i \in Jobs \ {j} : job'[i] = job[i]
  BY <1>1 DEF Cleared, RunDone, Finish
<1>3. /\ job'[j].pc \in {"run", "finish", "returned"}
      /\ job'[j].cancel = job[j].cancel /\ job'[j].failed = job[j].failed
  <2>1. CASE Cleared(j)
    BY <1>1, <2>1 DEF Cleared, JobStates
  <2>2. CASE RunDone(j)
    BY <1>1, <2>2 DEF RunDone, JobStates
  <2>3. CASE Finish(j)
    <3>1. job'[j] = [NewJob EXCEPT !.pc = "returned", !.cancel = job[j].cancel,
                                   !.failed = job[j].failed]
      BY <1>1, <2>3 DEF Finish
    <3> QED BY <3>1 DEF NewJob
  <2> QED BY <2>1, <2>2, <2>3
<1>4. ASSUME NEW p \in Profiles, row[p] = j, Due(j, p) PROVE Due(j, p)'
  <2>1. CASE Cleared(j)
    <3>1. job'[j].pc = "run" /\ job'[j].todo = job[j].selected
      BY <1>1, <2>1 DEF Cleared, JobStates
    <3>2. j # NoJob /\ p \in job[j].selected
      BY <1>4, <2>1, SpeedtestAssumption DEF Owed, Cleared
    <3> QED BY <3>1, <3>2 DEF Due, Pending
  <2>2. CASE RunDone(j)
    BY <1>3, <1>4, <2>2 DEF RunDone, Due, Pending, Excused
  <2>3. CASE Finish(j)
    BY <1>3, <1>4, <2>3 DEF Finish, Due, Pending, Excused
  <2> QED BY <2>1, <2>2, <2>3
<1>5. \A p \in Profiles :
         row[p] # NoJob /\ row'[p] = row[p] /\ Due(row[p], p) => Due(row[p], p)'
  BY <1>1, <1>2, <1>4 DEF Due, Pending, Excused, SessionsOf, TestsOf
<1>6. \A i \in Jobs : job'[i].pc = "clear" =>
         /\ job[i].pc = "clear" /\ job'[i].selected = job[i].selected
         /\ job'[i].todo \subseteq job[i].todo
  BY <1>2, <1>3
<1>7. \A i \in Jobs : job'[i].pc = "new" =>
         job[i].pc = "new" /\ (Excused(i)' => Excused(i))
  BY <1>2, <1>3 DEF Excused
<1> QED BY <1>2, <1>5, <1>6, <1>7, OwedFrame

\* Every step keeps track of the marked rows.
LEMMA OwedStep == IInv /\ OneJobGoesOn /\ Owed /\ [Next]_vars => Owed'
<1> SUFFICES ASSUME IInv, OneJobGoesOn, Owed, [Next]_vars PROVE Owed'
  OBVIOUS
<1>1. CASE UNCHANGED vars
  BY <1>1 DEF vars, Owed, Due, Pending, Excused, SessionsOf, TestsOf
<1>2. CASE Cancel
  BY <1>2, OwedExcuse
<1>3. ASSUME NEW j \in Jobs, Call(j) PROVE Owed'
  BY <1>3, OwedBegin
<1>4. ASSUME NEW j \in Jobs, JobStep(j) PROVE Owed'
  BY <1>4, StepKinds, OwedExcuse, OwedClear, OwedWork, OwedEnds
<1> QED BY <1>1, <1>2, <1>3, <1>4 DEF Next

\* A job that was neither cancelled nor failed leaves no profile behind.
THEOREM ResultTheorem == Spec => []EveryoneGetsAResult
<1>1. Init => OneJobGoesOn /\ Owed
  <2>1. ASSUME Init PROVE OneJobGoesOn
    BY <2>1, SpeedtestAssumption DEF Init, OneJobGoesOn, InProgress, NewJob
  <2>2. ASSUME Init PROVE Owed
    BY <2>2 DEF Init, Owed, NewJob, Excused
  <2> QED BY <2>1, <2>2
<1>2. IInv /\ Owed => EveryoneGetsAResult
  BY DEF IInv, TypeOK, Owed, Due, Pending, Excused, EveryoneGetsAResult
<1> QED BY InitType, TypeStep, OneJobStep, OwedStep, <1>1, <1>2, PTL DEF Spec

=============================================================================
