--------------------------- MODULE ProcessRunner ---------------------------
(***************************************************************************)
(* StdProcessRunner of voya-platform/src/process.rs: a table of child      *)
(* controls under a mutex, one reaper thread per child, and any number of  *)
(* threads that call stop().                                               *)
(*                                                                         *)
(* A caller removes the control of a pid from the table, sends a Stop on   *)
(* its channel and blocks for the reply.  The reaper polls: it serves a    *)
(* Stop, or finds the child ended, removes whatever control is stored      *)
(* under the child's pid and announces the exit.  When the last sender of  *)
(* its channel is dropped it kills the child silently.  Dropping the       *)
(* runner takes the whole table and stops the children one after another.  *)
(*                                                                         *)
(* A child instance and its pid are kept apart, because the system may     *)
(* give the pid of a reaped child to a later one.                          *)
(***************************************************************************)
EXTENDS Naturals, FiniteSets

CONSTANTS
    Children,       \* child process instances
    Pids,           \* pids the operating system hands out
    Callers,        \* threads that call ProcessRunner::stop
    Dropper,        \* the thread that drops the runner
    NoChild,        \* an empty table slot, a caller without a control
    NoPid,
    StopMayFail,    \* Child::kill may fail
    WaitMayFail     \* Child::try_wait may fail

ASSUME RunnerAssumption ==
    /\ Dropper \notin Callers
    /\ NoChild \notin Children
    /\ NoPid \notin Pids
    /\ StopMayFail \in BOOLEAN
    /\ WaitMayFail \in BOOLEAN

VARIABLES
    os,             \* [Children -> state of the process in the system]
    pid,            \* [Children -> pid given at spawn]
    table,          \* [Pids -> child whose control is stored there]
    reaper,         \* [Children -> program counter of the reaper thread]
    inbox,          \* [Children -> stoppers with a Stop in the channel]
    caller,         \* [Stoppers -> record of the stop call in progress]
    dropQueue,      \* controls taken by the drop, not yet stopped
    runner,         \* "up", "dropping" or "dropped"
    announced,      \* [Children -> exit notices delivered]
    ended           \* [Children -> outcome of stop_child, "no" if not run]

vars == <<os, pid, table, reaper, inbox, caller, dropQueue, runner,
          announced, ended>>

Stoppers == Callers \cup {Dropper}

\* Every value a caller record takes, with the pid the call is about.
CallStates ==
    [pc : {"idle", "sending", "waiting"}, handle : Pids \cup {NoPid},
     control : Children \cup {NoChild}, reply : {"none", "ok", "err"},
     about : Children \cup {NoChild}]

Idle == [pc |-> "idle", handle |-> NoPid, control |-> NoChild,
         reply |-> "none", about |-> NoChild]

TypeOK ==
    /\ os \in [Children -> {"unborn", "running", "exited", "reaped"}]
    /\ pid \in [Children -> Pids \cup {NoPid}]
    /\ table \in [Pids -> Children \cup {NoChild}]
    /\ reaper \in [Children ->
            {"none", "recv", "check", "remove", "notify", "done"}]
    /\ inbox \in [Children -> SUBSET Stoppers]
    /\ caller \in [Stoppers -> CallStates]
    /\ dropQueue \subseteq Children
    /\ runner \in {"up", "dropping", "dropped"}
    /\ announced \in [Children -> Nat]
    /\ ended \in [Children -> {"no", "ok", "err"}]

Init ==
    /\ os = [c \in Children |-> "unborn"]
    /\ pid = [c \in Children |-> NoPid]
    /\ table = [p \in Pids |-> NoChild]
    /\ reaper = [c \in Children |-> "none"]
    /\ inbox = [c \in Children |-> {}]
    /\ caller = [s \in Stoppers |-> Idle]
    /\ dropQueue = {}
    /\ runner = "up"
    /\ announced = [c \in Children |-> 0]
    /\ ended = [c \in Children |-> "no"]

\* Some ChildControl, hence a stop_tx, still exists for the child.
HasSender(c) ==
    \/ \E p \in Pids : table[p] = c
    \/ \E s \in Stoppers : caller[s].control = c
    \/ c \in dropQueue

-----------------------------------------------------------------------------
(* The operating system.                                                   *)

\* The system may hand out a pid again once its child was waited for.
PidFree(p) == \A c \in Children : pid[c] = p => os[c] = "reaped"

Exit(c) ==
    /\ os[c] = "running"
    /\ os' = [os EXCEPT ![c] = "exited"]
    /\ UNCHANGED <<pid, table, reaper, inbox, caller, dropQueue, runner,
                   announced, ended>>

-----------------------------------------------------------------------------
(* spawn(), run_child_reaper() and stop_child().                           *)

\* The insert replaces, and so drops, a control left under the same pid.
Spawn(c, p) ==
    /\ runner = "up"
    /\ os[c] = "unborn"
    /\ PidFree(p)
    /\ os' = [os EXCEPT ![c] = "running"]
    /\ pid' = [pid EXCEPT ![c] = p]
    /\ table' = [table EXCEPT ![p] = c]
    /\ reaper' = [reaper EXCEPT ![c] = "recv"]
    /\ UNCHANGED <<inbox, caller, dropQueue, runner, announced, ended>>

\* Variant: stop_child answers without killing.
Mut_StopChild(c, result) == result = "ok" /\ UNCHANGED os

\* stop_child: a child that already ended is reaped, a running one killed and
\* reaped, unless the system refuses.
StopChild(c, result) ==
    \/ /\ result = "ok"
       /\ os' = [os EXCEPT ![c] = "reaped"]
    \/ /\ result = "err"
       /\ StopMayFail /\ os[c] = "running"
       /\ UNCHANGED os

\* Variant: the reaper does not return after it served a Stop.
Mut_ReaperStop(c, s, result) ==
    /\ reaper[c] = "recv"
    /\ s \in inbox[c]
    /\ StopChild(c, result)
    /\ caller' = [caller EXCEPT ![s].reply = result]
    /\ inbox' = [inbox EXCEPT ![c] = @ \ {s}]
    /\ reaper' = [reaper EXCEPT ![c] = "remove"]
    /\ ended' = [ended EXCEPT ![c] = result]
    /\ UNCHANGED <<pid, table, dropQueue, runner, announced>>

\* recv_timeout yields a Stop: answer it and return without an exit notice.
ReaperStop(c, s, result) ==
    /\ reaper[c] = "recv"
    /\ s \in inbox[c]
    /\ StopChild(c, result)
    /\ caller' = [caller EXCEPT ![s].reply = result]
    /\ inbox' = [inbox EXCEPT ![c] = @ \ {s}]
    /\ reaper' = [reaper EXCEPT ![c] = "done"]
    /\ ended' = [ended EXCEPT ![c] = result]
    /\ UNCHANGED <<pid, table, dropQueue, runner, announced>>

\* Variant: a closed channel is announced as an exit.
Mut_ReaperDisconnected(c, result) ==
    /\ reaper[c] = "recv"
    /\ inbox[c] = {}
    /\ ~HasSender(c)
    /\ StopChild(c, result)
    /\ reaper' = [reaper EXCEPT ![c] = "remove"]
    /\ ended' = [ended EXCEPT ![c] = result]
    /\ UNCHANGED <<pid, table, inbox, caller, dropQueue, runner, announced>>

\* recv_timeout reports that every sender is gone.
ReaperDisconnected(c, result) ==
    /\ reaper[c] = "recv"
    /\ inbox[c] = {}
    /\ ~HasSender(c)
    /\ StopChild(c, result)
    /\ reaper' = [reaper EXCEPT ![c] = "done"]
    /\ ended' = [ended EXCEPT ![c] = result]
    /\ UNCHANGED <<pid, table, inbox, caller, dropQueue, runner, announced>>

\* recv_timeout runs out.
ReaperTimeout(c) ==
    /\ reaper[c] = "recv"
    /\ inbox[c] = {}
    /\ HasSender(c)
    /\ reaper' = [reaper EXCEPT ![c] = "check"]
    /\ UNCHANGED <<os, pid, table, inbox, caller, dropQueue, runner,
                   announced, ended>>

\* try_wait: still running, ended, or an error.
ReaperStillRunning(c) ==
    /\ reaper[c] = "check"
    /\ os[c] = "running"
    /\ reaper' = [reaper EXCEPT ![c] = "recv"]
    /\ UNCHANGED <<os, pid, table, inbox, caller, dropQueue, runner,
                   announced, ended>>

ReaperEnded(c) ==
    /\ reaper[c] = "check"
    /\ os[c] = "exited"
    /\ os' = [os EXCEPT ![c] = "reaped"]
    /\ reaper' = [reaper EXCEPT ![c] = "remove"]
    /\ UNCHANGED <<pid, table, inbox, caller, dropQueue, runner, announced,
                   ended>>

ReaperWaitError(c) ==
    /\ WaitMayFail
    /\ reaper[c] = "check"
    /\ reaper' = [reaper EXCEPT ![c] = "remove"]
    /\ UNCHANGED <<os, pid, table, inbox, caller, dropQueue, runner,
                   announced, ended>>

\* Variant: the whole table is cleared.
Mut_ReaperRemoveAll(c) ==
    /\ reaper[c] = "remove"
    /\ table' = [p \in Pids |-> NoChild]
    /\ reaper' = [reaper EXCEPT ![c] = "notify"]
    /\ UNCHANGED <<os, pid, inbox, caller, dropQueue, runner, announced,
                   ended>>

\* Variant: the thread returns before it calls the exit handler.
Mut_ReaperRemoveReturns(c) ==
    /\ reaper[c] = "remove"
    /\ table' = [table EXCEPT ![pid[c]] = NoChild]
    /\ reaper' = [reaper EXCEPT ![c] = "done"]
    /\ UNCHANGED <<os, pid, inbox, caller, dropQueue, runner, announced,
                   ended>>

\* remove_child_control removes by pid; the Weak table is gone after the drop.
ReaperRemove(c) ==
    /\ reaper[c] = "remove"
    /\ table' = IF runner = "up" THEN [table EXCEPT ![pid[c]] = NoChild]
                                 ELSE table
    /\ reaper' = [reaper EXCEPT ![c] = "notify"]
    /\ UNCHANGED <<os, pid, inbox, caller, dropQueue, runner, announced,
                   ended>>

\* The exit handler runs, the thread returns and drops its receiver.
ReaperNotify(c) ==
    /\ reaper[c] = "notify"
    /\ announced' = [announced EXCEPT ![c] = @ + 1]
    /\ reaper' = [reaper EXCEPT ![c] = "done"]
    /\ UNCHANGED <<os, pid, table, inbox, caller, dropQueue, runner, ended>>

-----------------------------------------------------------------------------
(* stop() and ChildControl::stop().                                        *)

\* Remove the control under the lock; an unknown pid is a success.  `about'
\* remembers which child the handle was created for.
StopRemove(s, c) ==
    /\ s \in Callers
    /\ runner = "up"
    /\ caller[s].pc = "idle"
    /\ pid[c] # NoPid
    /\ LET p == pid[c]
           found == table[p]
       IN /\ table' = [table EXCEPT ![p] = NoChild]
          /\ caller' = [caller EXCEPT ![s] =
                IF found = NoChild
                THEN [Idle EXCEPT !.reply = "ok", !.about = c]
                ELSE [pc |-> "sending", handle |-> p, control |-> found,
                      reply |-> "none", about |-> c]]
    /\ UNCHANGED <<os, pid, reaper, inbox, dropQueue, runner, announced,
                   ended>>

StopReturn(s, result) ==
    caller' = [caller EXCEPT ![s] =
                   [Idle EXCEPT !.reply = result, !.about = caller[s].about]]

\* send fails when the reaper returned: that is a success.
StopSend(s) ==
    LET c == caller[s].control IN
    /\ caller[s].pc = "sending"
    /\ IF reaper[c] = "done"
       THEN /\ StopReturn(s, "ok")
            /\ UNCHANGED inbox
       ELSE /\ caller' = [caller EXCEPT ![s].pc = "waiting"]
            /\ inbox' = [inbox EXCEPT ![c] = @ \cup {s}]
    /\ UNCHANGED <<os, pid, table, reaper, dropQueue, runner, announced,
                   ended>>

StopReplied(s) ==
    /\ caller[s].pc = "waiting"
    /\ caller[s].reply # "none"
    /\ StopReturn(s, caller[s].reply)
    /\ UNCHANGED <<os, pid, table, reaper, inbox, dropQueue, runner,
                   announced, ended>>

\* Variant: a dropped reply is waited for again.
Mut_StopReplyDropped(s) ==
    /\ caller[s].pc = "waiting"
    /\ caller[s].reply = "none"
    /\ reaper[caller[s].control] = "done"
    /\ UNCHANGED vars

\* The reaper returned with the Stop unread: recv fails, a success.
StopReplyDropped(s) ==
    LET c == caller[s].control IN
    /\ caller[s].pc = "waiting"
    /\ caller[s].reply = "none"
    /\ reaper[c] = "done"
    /\ inbox' = [inbox EXCEPT ![c] = @ \ {s}]
    /\ StopReturn(s, "ok")
    /\ UNCHANGED <<os, pid, table, reaper, dropQueue, runner, announced,
                   ended>>

-----------------------------------------------------------------------------
(* Drop for StdProcessRunner: nobody borrows the runner any more.          *)

\* Variant: the table is dropped and no child is stopped.
Mut_RunnerDrop ==
    /\ runner = "up"
    /\ \A s \in Callers : caller[s].pc = "idle"
    /\ runner' = "dropping"
    /\ dropQueue' = {}
    /\ table' = [p \in Pids |-> NoChild]
    /\ UNCHANGED <<os, pid, reaper, inbox, caller, announced, ended>>

RunnerDrop ==
    /\ runner = "up"
    /\ \A s \in Callers : caller[s].pc = "idle"
    /\ runner' = "dropping"
    /\ dropQueue' = {c \in Children : \E p \in Pids : table[p] = c}
    /\ table' = [p \in Pids |-> NoChild]
    /\ UNCHANGED <<os, pid, reaper, inbox, caller, announced, ended>>

DropNext(c) ==
    /\ runner = "dropping"
    /\ caller[Dropper].pc = "idle"
    /\ c \in dropQueue
    /\ dropQueue' = dropQueue \ {c}
    /\ caller' = [caller EXCEPT ![Dropper] =
                     [pc |-> "sending", handle |-> pid[c], control |-> c,
                      reply |-> "none", about |-> c]]
    /\ UNCHANGED <<os, pid, table, reaper, inbox, runner, announced, ended>>

DropDone ==
    /\ runner = "dropping"
    /\ caller[Dropper].pc = "idle"
    /\ dropQueue = {}
    /\ runner' = "dropped"
    /\ UNCHANGED <<os, pid, table, reaper, inbox, caller, dropQueue,
                   announced, ended>>

-----------------------------------------------------------------------------
ReaperStep(c) ==
    \/ \E result \in {"ok", "err"} :
          \/ \E s \in Stoppers : ReaperStop(c, s, result)
          \/ ReaperDisconnected(c, result)
    \/ ReaperTimeout(c)
    \/ ReaperStillRunning(c)
    \/ ReaperEnded(c)
    \/ ReaperWaitError(c)
    \/ ReaperRemove(c)
    \/ ReaperNotify(c)

StopStep(s) == StopSend(s) \/ StopReplied(s) \/ StopReplyDropped(s)

DropStep == (\E c \in Children : DropNext(c)) \/ DropDone

Next ==
    \/ \E c \in Children : Exit(c)
    \/ \E c \in Children, p \in Pids : Spawn(c, p)
    \/ \E c \in Children : ReaperStep(c)
    \/ \E s \in Callers, c \in Children : StopRemove(s, c)
    \/ \E s \in Stoppers : StopStep(s)
    \/ RunnerDrop
    \/ DropStep

Spec == Init /\ [][Next]_vars

\* A thread that can run is eventually scheduled: the reaper loop, the body of
\* a stop call, the loop of the drop.  Nothing makes a child exit, a caller
\* call or the runner be dropped.
Fairness ==
    /\ \A c \in Children : WF_vars(ReaperStep(c))
    /\ \A s \in Stoppers : WF_vars(StopStep(s))
    /\ WF_vars(DropStep)

FairSpec == Spec /\ Fairness

-----------------------------------------------------------------------------
(* Properties.                                                             *)

InFlight(c) == \E s \in Stoppers : caller[s].control = c

\* The reaper let go of a child that had not ended: a kill or a poll failed.
Abandoned(c) ==
    \/ ended[c] = "err"
    \/ /\ ended[c] = "no"
       /\ reaper[c] \in {"remove", "notify", "done"}
       /\ os[c] # "reaped"

\* Another child had the pid before, or has it now.
Reused(c) == \E d \in Children \ {c} : pid[d] = pid[c]

\* A stop() that returned Ok leaves its child dead, unless another stop() has
\* taken the control and is still at it, or the child was abandoned after a
\* failed kill or poll (process.rs: the control leaves the table before the
\* kill, so a later stop of the same handle finds nothing and reports Ok).
StopOkMeansDead ==
    \A s \in Callers :
        LET c == caller[s].about IN
        caller[s].pc = "idle" /\ caller[s].reply = "ok" =>
           \/ os[c] # "running"
           \/ InFlight(c)
           \/ Abandoned(c)
           \/ Reused(c)

\* The end of a child is announced at most once, and never for a child that a
\* stop call ended: the supervisor takes a notice for a crash.
AnnouncedOnceNeverForStopped ==
    \A c \in Children :
        /\ announced[c] <= 1
        /\ announced[c] = 1 => ended[c] = "no"

\* A running child loses its control only to a stop call or to the drop: no
\* reaper removes the control of another child, and none closes the channel
\* of a healthy one.  It takes a pid of its own: remove_child_control goes by
\* pid.
ControlKeptWhileRunning ==
    \A c \in Children :
        os[c] = "running" => HasSender(c) \/ Abandoned(c) \/ Reused(c)

\* What stop() says of a child is so, and it can be asked for every child that
\* runs.
StopsReachTheirChild == StopOkMeansDead /\ ControlKeptWhileRunning

\* Once the runner is dropped, only an abandoned child can still run.
DropStopsEveryChild ==
    runner = "dropped" =>
        \A c \in Children : os[c] = "running" => Abandoned(c) \/ Reused(c)

\* Liveness: a stop call returns, whatever the race with the reaper.
StopReturns ==
    \A s \in Stoppers : caller[s].pc # "idle" ~> caller[s].pc = "idle"

\* Liveness: a child that ended by itself is announced, unless a stop call
\* took it over.
EndedChildIsAnnounced ==
    \A c \in Children :
        os[c] = "exited" ~> announced[c] = 1 \/ ended[c] # "no"

-----------------------------------------------------------------------------
(* The runner implements the promise the supervisor relies on.             *)

Promise == INSTANCE ProcessTable WITH
    Proc <- Children,
    fresh <- {c \in Children : os[c] = "unborn"},
    live <- {c \in Children : os[c] = "running"},
    managed <- {c \in Children : reaper[c] \in {"recv", "check"}},
    notices <- {c \in Children :
                   reaper[c] \in {"remove", "notify"} \/ announced[c] > 0}

KeepsPromise == Promise!Spec
=============================================================================
