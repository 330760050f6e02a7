------------------------------ MODULE Speedtest ------------------------------
(***************************************************************************)
(* The speedtest manager: voya-app speedtest.rs and speedtest/manager.rs.   *)
(*                                                                         *)
(* A job tests a selection of profiles and writes each result to the        *)
(* profile's row.  Starting a job cancels the one before it, which keeps    *)
(* running until it notices; so the jobs of several callers are at work at  *)
(* the same time.  Latency and UDP tests share a probe core per page of     *)
(* profiles, downloads and mixed tests have one each, several at a time,    *)
(* and a TCP connect needs none.  A session owns a core and its             *)
(* configuration file and ends both when it is dropped, on every path.      *)
(***************************************************************************)
EXTENDS Naturals, FiniteSets

CONSTANTS
    Jobs,           \* calls of run_with_callback, each made once
    Profiles,
    NoJob,
    PageSize,       \* speed_test_page_size
    Concurrency,    \* mixed_concurrency_count
    Faults          \* what may fail: "database", "core"

ASSUME SpeedtestAssumption ==
    /\ NoJob \notin Jobs
    /\ PageSize \in Nat \ {0}
    /\ Concurrency \in Nat \ {0}
    /\ Faults \subseteq {"database", "core"}

VARIABLES
    active,     \* active_cancel, by the job that owns the flag
    job,        \* [Jobs -> the job's local state and its cancellation flag]
    session,    \* ProcessSpeedtestCoreSession values
    tests,      \* run_item calls in progress
    process,    \* probe cores that run
    row         \* [Profiles -> the job whose "Speedtesting" mark the row has]

vars == <<active, job, session, tests, process, row>>

\* "direct": TcpConnect; "batch": Latency, Udp; "dedicated": Download, Mixed.
Kinds == {"direct", "batch", "dedicated"}

Cores == [job : Jobs, page : SUBSET Profiles]

\* left: the profiles of the page that were not tested yet.
Sessions == [core : Cores, ready : BOOLEAN, left : SUBSET Profiles]

Tests == [job : Jobs, profile : Profiles, stage : {"ping", "speed"},
          value : {"none", "good", "bad"}]

\* A session is part of a job that runs, and what it takes to test is no
\* longer to be started.
SessionShape(s) ==
    /\ job[s.core.job].pc = "run"
    /\ s.left \subseteq s.core.page
    /\ s.core.page \cap job[s.core.job].todo = {}

TypeOK ==
    /\ active \in Jobs \cup {NoJob}
    /\ job \in [Jobs -> [pc : {"new", "clear", "run", "finish", "returned"},
                         kind : Kinds, limit : {1, Concurrency},
                         selected : SUBSET Profiles, todo : SUBSET Profiles,
                         cancel : BOOLEAN, failed : BOOLEAN]]
    /\ session \subseteq Sessions
    /\ \A s \in session : SessionShape(s)
    /\ tests \subseteq Tests
    /\ process \subseteq Cores
    /\ row \in [Profiles -> Jobs \cup {NoJob}]

NewJob == [pc |-> "new", kind |-> "direct", limit |-> 1, selected |-> {},
           todo |-> {}, cancel |-> FALSE, failed |-> FALSE]

Init ==
    /\ active = NoJob
    /\ job = [j \in Jobs |-> NewJob]
    /\ session = {}
    /\ tests = {}
    /\ process = {}
    /\ row = [p \in Profiles |-> NoJob]

-----------------------------------------------------------------------------
(* Helpers.                                                                *)

SessionsOf(j) == {s \in session : s.core.job = j}

TestsOf(j) == {t \in tests : t.job = j}

InProgress(j) == job[j].pc \notin {"new", "returned"}

\* ProcessSpeedtestCoreSession::drop: stop the core and remove its file.  A
\* stop that fails is logged and forgotten; ProcessRunner says what is left.
DropSessions(S) ==
    /\ session' = session \ S
    /\ process' = process \ {s.core : s \in S}

\* Variant: an error ends the job, and the sessions of its other tests go on.
Mut_Fail(j) ==
    /\ job' = [job EXCEPT ![j].pc = "finish", ![j].failed = TRUE]
    /\ tests' = tests \ TestsOf(j)
    /\ UNCHANGED <<active, session, process, row>>

\* An error returns from the job; the futures in flight are dropped, and the
\* sessions with them.
Fail(j) ==
    /\ job' = [job EXCEPT ![j].pc = "finish", ![j].failed = TRUE]
    /\ tests' = tests \ TestsOf(j)
    /\ DropSessions(SessionsOf(j))
    /\ UNCHANGED <<active, row>>

-----------------------------------------------------------------------------
(* Jobs begin and end.                                                     *)

\* begin_job: replace the active flag and set the one it replaces.
Begin(j, kind, limit, selected) ==
    /\ job[j].pc = "new"
    /\ active' = j
    /\ job' = [i \in Jobs |->
          IF i = j THEN [job[j] EXCEPT !.pc = "clear", !.kind = kind,
                            !.limit = limit, !.selected = selected,
                            !.todo = selected]
          ELSE IF i = active THEN [job[i] EXCEPT !.cancel = TRUE]
          ELSE job[i]]
    /\ UNCHANGED <<session, tests, process, row>>

\* cancel(): nothing to do when no job is registered.
Cancel ==
    /\ active # NoJob
    /\ job' = [job EXCEPT ![active].cancel = TRUE]
    /\ UNCHANGED <<active, session, tests, process, row>>

\* Variant: whoever finishes clears the registration.
Mut_Finish(j) ==
    /\ job[j].pc = "finish"
    /\ active' = NoJob
    /\ job' = [job EXCEPT ![j] = [NewJob EXCEPT !.pc = "returned",
                                   !.cancel = job[j].cancel,
                                   !.failed = job[j].failed]]
    /\ UNCHANGED <<session, tests, process, row>>

\* finish_job clears its own flag only.
Finish(j) ==
    /\ job[j].pc = "finish"
    /\ active' = IF active = j THEN NoJob ELSE active
    /\ job' = [job EXCEPT ![j] = [NewJob EXCEPT !.pc = "returned",
                                   !.cancel = job[j].cancel,
                                   !.failed = job[j].failed]]
    /\ UNCHANGED <<session, tests, process, row>>

-----------------------------------------------------------------------------
(* clear_previous_results, which no cancellation interrupts.               *)

Clear(j, p) ==
    /\ job[j].pc = "clear"
    /\ p \in job[j].todo
    /\ row' = [row EXCEPT ![p] = j]
    /\ job' = [job EXCEPT ![j].todo = @ \ {p}]
    /\ UNCHANGED <<active, session, tests, process>>

Cleared(j) ==
    /\ job[j].pc = "clear"
    /\ job[j].todo = {}
    /\ job' = [job EXCEPT ![j].pc = "run", ![j].todo = job[j].selected]
    /\ UNCHANGED <<active, session, tests, process, row>>

\* A row cannot be read or written; before the first core is started, the
\* configuration of a profile may be invalid (prepare_speedtest_items).
DatabaseFails(j) ==
    /\ "database" \in Faults
    /\ \/ job[j].pc = "clear"
       \/ \E t \in TestsOf(j) : t.value # "none"
    /\ Fail(j)

-----------------------------------------------------------------------------
(* Probe cores.                                                            *)

\* The next page of a batch: as many profiles as fit.
Pages(j) ==
    {page \in SUBSET job[j].todo :
        \/ Cardinality(page) = PageSize
        \/ page = job[j].todo /\ page # {} /\ Cardinality(page) < PageSize}

NextPages(j) ==
    CASE job[j].kind = "batch" ->
            IF SessionsOf(j) = {} THEN Pages(j) ELSE {}
      [] job[j].kind = "dedicated" ->
            IF Cardinality(SessionsOf(j)) < job[j].limit
            THEN {{p} : p \in job[j].todo} ELSE {}
      [] OTHER -> {}

\* ProcessSpeedtestCoreBackend::start up to its first await: write the file,
\* spawn the core.
Launch(j, page) ==
    LET core == [job |-> j, page |-> page] IN
    /\ job[j].pc = "run"
    /\ ~job[j].cancel
    /\ page \in NextPages(j)
    /\ session' = session \cup {[core |-> core, ready |-> FALSE, left |-> page]}
    /\ process' = process \cup {core}
    /\ job' = [job EXCEPT ![j].todo = @ \ page]
    /\ UNCHANGED <<active, tests, row>>

\* No core, no file, or the cancellation came after the loop looked.
LaunchFails(j) ==
    /\ job[j].pc = "run"
    /\ NextPages(j) # {}
    /\ "core" \in Faults \/ job[j].cancel
    /\ Fail(j)

\* wait_for_speedtest_ports, until the time is up.  The flag is read before
\* the ports are tried, so a core may be ready for a job that was cancelled.
PortsOpen(s) ==
    /\ s \in session /\ ~s.ready
    /\ session' = (session \ {s}) \cup {[s EXCEPT !.ready = TRUE]}
    /\ UNCHANGED <<active, job, tests, process, row>>

PortsStayClosed(s) ==
    /\ s \in session /\ ~s.ready
    /\ "core" \in Faults \/ job[s.core.job].cancel
    /\ Fail(s.core.job)

\* Variant: a batch keeps its session until the page is tested.
Mut_EndSession(s) ==
    LET j == s.core.job IN
    /\ s \in session /\ s.ready
    /\ \A t \in TestsOf(j) : t.profile \notin s.core.page
    /\ s.left = {}
    /\ DropSessions({s})
    /\ UNCHANGED <<active, job, tests, row>>

\* The session leaves its scope: a batch has tested the page or was cancelled,
\* a dedicated test is over.
EndSession(s) ==
    LET j == s.core.job IN
    /\ s \in session /\ s.ready
    /\ \A t \in TestsOf(j) : t.profile \notin s.core.page
    /\ s.left = {} \/ (job[j].kind = "batch" /\ job[j].cancel)
    /\ DropSessions({s})
    /\ UNCHANGED <<active, job, tests, row>>

-----------------------------------------------------------------------------
(* run_item.                                                               *)

NewTest(j, p) == [job |-> j, profile |-> p, stage |-> "ping", value |-> "none"]

\* TcpConnect: one profile after the other.
TestDirect(j, p) ==
    /\ job[j].pc = "run" /\ job[j].kind = "direct"
    /\ ~job[j].cancel
    /\ TestsOf(j) = {}
    /\ p \in job[j].todo
    /\ tests' = tests \cup {NewTest(j, p)}
    /\ job' = [job EXCEPT ![j].todo = @ \ {p}]
    /\ UNCHANGED <<active, session, process, row>>

\* A batch looks at the flag before each profile, a dedicated test goes on
\* from the start of its core.
TestThrough(s, p) ==
    LET j == s.core.job IN
    /\ s \in session /\ s.ready
    /\ p \in s.left
    /\ job[j].kind = "batch" => TestsOf(j) = {} /\ ~job[j].cancel
    /\ session' = (session \ {s}) \cup {[s EXCEPT !.left = @ \ {p}]}
    /\ tests' = tests \cup {NewTest(j, p)}
    /\ UNCHANGED <<active, job, process, row>>

\* The probe answers; an error, a cancellation among them, is an answer too.
\* A flag that is set after the last look at it does not spoil a good one.
Probe(t) ==
    /\ t \in tests /\ t.value = "none"
    /\ \E value \in {"good", "bad"} :
          tests' = (tests \ {t}) \cup {[t EXCEPT !.value = value]}
    /\ UNCHANGED <<active, job, session, process, row>>

\* Download and Mixed measure the speed of a profile that answered.
GoesOn(t) ==
    /\ job[t.job].kind = "dedicated"
    /\ t.stage = "ping" /\ t.value = "good"
    /\ ~job[t.job].cancel

\* persist_speedtest_result.
Persist(t) ==
    /\ t \in tests /\ t.value # "none"
    /\ row' = [row EXCEPT ![t.profile] = NoJob]
    /\ tests' = (tests \ {t}) \cup
          IF GoesOn(t) THEN {[t EXCEPT !.stage = "speed", !.value = "none"]}
                       ELSE {}
    /\ UNCHANGED <<active, job, session, process>>

\* Variant: the dedicated tests that do not fit at first are not started.
Mut_RunDone(j) ==
    /\ job[j].pc = "run"
    /\ SessionsOf(j) = {} /\ TestsOf(j) = {}
    /\ \/ job[j].todo = {}
       \/ job[j].cancel
       \/ job[j].kind = "dedicated" /\ job[j].todo # job[j].selected
    /\ job' = [job EXCEPT ![j].pc = "finish"]
    /\ UNCHANGED <<active, session, tests, process, row>>

RunDone(j) ==
    /\ job[j].pc = "run"
    /\ SessionsOf(j) = {} /\ TestsOf(j) = {}
    /\ job[j].todo = {} \/ job[j].cancel
    /\ job' = [job EXCEPT ![j].pc = "finish"]
    /\ UNCHANGED <<active, session, tests, process, row>>

-----------------------------------------------------------------------------
Call(j) ==
    \E kind \in Kinds, limit \in {1, Concurrency}, selected \in SUBSET Profiles :
        /\ kind # "dedicated" => limit = 1
        /\ Begin(j, kind, limit, selected)

JobStep(j) ==
    \/ \E p \in Profiles : Clear(j, p) \/ TestDirect(j, p)
    \/ Cleared(j)
    \/ DatabaseFails(j)
    \/ \E page \in SUBSET Profiles : Launch(j, page)
    \/ LaunchFails(j)
    \/ \E s \in SessionsOf(j) :
          \/ PortsOpen(s) \/ PortsStayClosed(s) \/ EndSession(s)
          \/ \E p \in Profiles : TestThrough(s, p)
    \/ \E t \in TestsOf(j) : Probe(t) \/ Persist(t)
    \/ RunDone(j)
    \/ Finish(j)

Next ==
    \/ \E j \in Jobs : Call(j) \/ JobStep(j)
    \/ Cancel

Spec == Init /\ [][Next]_vars

-----------------------------------------------------------------------------
(* Properties.                                                             *)

\* At most one job goes on: every other job in progress is cancelled, and the
\* one that is registered, which cancel() and status() speak of, is in
\* progress (begin_job, finish_job).
OneJobGoesOn ==
    /\ \A j \in Jobs : InProgress(j) => active = j \/ job[j].cancel
    /\ active # NoJob => InProgress(active)

\* A probe core runs only as long as the test that started it, however the
\* test ends (the Drop of ProcessSpeedtestCoreSession, and the futures that an
\* error drops).
ProbesAreReaped ==
    \A core \in process :
        /\ \E s \in session : s.core = core
        /\ job[core.job].pc = "run"

\* A job that was neither cancelled nor failed leaves no profile of its
\* selection without a result.
EveryoneGetsAResult ==
    \A p \in Profiles :
        row[p] # NoJob /\ job[row[p]].pc = "returned" =>
            job[row[p]].cancel \/ job[row[p]].failed

\* A job in progress can always go on, whatever failed and whoever cancelled
\* it: no loop waits for a test or a core that nobody is at work on.
NoJobIsStuck == \A j \in Jobs : InProgress(j) => ENABLED JobStep(j)

=============================================================================
