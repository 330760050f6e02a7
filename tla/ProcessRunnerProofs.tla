------------------------ MODULE ProcessRunnerProofs ------------------------
(***************************************************************************)
(* Theorems about ProcessRunner, for any number of children, pids and      *)
(* callers, with or without pid reuse, refused kills and failing polls.    *)
(***************************************************************************)
EXTENDS ProcessRunner, TLAPS

\* A child has a reaper exactly when it was spawned; before its reaper
\* returned, nothing was announced and stop_child did not run; afterwards at
\* most one of the two happened.
ReaperInv ==
    \A c \in Children :
        /\ os[c] = "unborn" <=> reaper[c] = "none"
        /\ reaper[c] # "done" => announced[c] = 0 /\ ended[c] = "no"
        /\ announced[c] <= 1
        /\ announced[c] = 1 => ended[c] = "no"

IInv == TypeOK /\ ReaperInv

\* Initially nothing was spawned, so both parts hold.
LEMMA InitIInv == Init => IInv
  BY DEF Init, IInv, TypeOK, ReaperInv, Idle, CallStates, Stoppers

\* Every step keeps the variables typed.
LEMMA TypeStep == TypeOK /\ [Next]_vars => TypeOK'
<1> SUFFICES ASSUME TypeOK, [Next]_vars PROVE TypeOK'
  OBVIOUS
<1> USE DEF TypeOK
<1>1. ASSUME NEW c \in Children, Exit(c) PROVE TypeOK'
  BY <1>1 DEF Exit
<1>2. ASSUME NEW c \in Children, NEW p \in Pids, Spawn(c, p) PROVE TypeOK'
  BY <1>2 DEF Spawn
<1>3. ASSUME NEW c \in Children, ReaperStep(c) PROVE TypeOK'
  <2>1. ASSUME NEW s \in Stoppers, NEW result \in {"ok", "err"},
               ReaperStop(c, s, result)
        PROVE  TypeOK'
    <3>1. caller' \in [Stoppers -> CallStates]
      BY SMTT(30), <2>1 DEF ReaperStop, CallStates
    <3>2. os' \in [Children -> {"unborn", "running", "exited", "reaped"}]
      BY <2>1 DEF ReaperStop, StopChild
    <3> QED
      BY <2>1, <3>1, <3>2 DEF ReaperStop
  <2>2. ASSUME NEW result \in {"ok", "err"}, ReaperDisconnected(c, result)
        PROVE  TypeOK'
    BY <2>2 DEF ReaperDisconnected, StopChild
  <2>3. CASE ReaperTimeout(c)
    BY <2>3 DEF ReaperTimeout
  <2>4. CASE ReaperStillRunning(c)
    BY <2>4 DEF ReaperStillRunning
  <2>5. CASE ReaperEnded(c)
    BY <2>5 DEF ReaperEnded
  <2>6. CASE ReaperWaitError(c)
    BY <2>6 DEF ReaperWaitError
  <2>7. CASE ReaperRemove(c)
    BY <2>7 DEF ReaperRemove
  <2>8. CASE ReaperNotify(c)
    BY <2>8 DEF ReaperNotify
  <2> QED
    BY <1>3, <2>1, <2>2, <2>3, <2>4, <2>5, <2>6, <2>7, <2>8 DEF ReaperStep
<1>4. ASSUME NEW s \in Callers, NEW c \in Children, StopRemove(s, c)
      PROVE  TypeOK'
  <2>1. pid[c] \in Pids
    BY <1>4 DEF StopRemove
  <2>2. caller' \in [Stoppers -> CallStates]
    BY <1>4, <2>1 DEF StopRemove, CallStates, Idle, Stoppers
  <2> QED
    BY <1>4, <2>1, <2>2 DEF StopRemove
<1>5. ASSUME NEW s \in Stoppers, StopStep(s) PROVE TypeOK'
  <2> DEFINE returned(r) == [Idle EXCEPT !.reply = r, !.about = caller[s].about]
  <2>1. \A r \in {"none", "ok", "err"} : returned(r) \in CallStates
    BY DEF CallStates, Idle
  <2>2. caller[s] \in CallStates /\ caller[s].reply \in {"none", "ok", "err"}
    BY DEF CallStates
  <2>3. CASE StopSend(s)
    <3>1. caller' \in [Stoppers -> CallStates]
      <4>1. CASE reaper[caller[s].control] = "done"
        BY <2>1, <2>3, <4>1 DEF StopSend, StopReturn
      <4>2. CASE reaper[caller[s].control] # "done"
        BY <2>2, <2>3, <4>2 DEF StopSend, CallStates
      <4> QED
        BY <4>1, <4>2
    <3>2. inbox' \in [Children -> SUBSET Stoppers]
      BY <2>3 DEF StopSend
    <3> QED
      BY <2>3, <3>1, <3>2 DEF StopSend
  <2>4. CASE StopReplied(s)
    BY <2>1, <2>2, <2>4 DEF StopReplied, StopReturn
  <2>5. CASE StopReplyDropped(s)
    BY <2>1, <2>5 DEF StopReplyDropped, StopReturn
  <2> QED
    BY <1>5, <2>3, <2>4, <2>5 DEF StopStep
<1>6. CASE RunnerDrop
  BY <1>6 DEF RunnerDrop
<1>7. CASE DropStep
  <2>1. ASSUME NEW c \in Children, DropNext(c) PROVE TypeOK'
    <3>1. caller' \in [Stoppers -> CallStates]
      BY <2>1 DEF DropNext, CallStates, Stoppers
    <3> QED
      BY <2>1, <3>1 DEF DropNext
  <2>2. CASE DropDone
    BY <2>2 DEF DropDone
  <2> QED
    BY <1>7, <2>1, <2>2 DEF DropStep
<1>8. CASE UNCHANGED vars
  BY <1>8 DEF vars
<1> QED
  BY <1>1, <1>2, <1>3, <1>4, <1>5, <1>6, <1>7, <1>8 DEF Next

\* Only the steps of a child and of its reaper concern ReaperInv.
LEMMA ReaperInvStep == IInv /\ [Next]_vars => ReaperInv'
<1> SUFFICES ASSUME TypeOK, ReaperInv, [Next]_vars PROVE ReaperInv'
  BY DEF IInv
<1> USE DEF TypeOK, ReaperInv
<1>1. ASSUME NEW c \in Children, Exit(c) PROVE ReaperInv'
  BY <1>1 DEF Exit
<1>2. ASSUME NEW c \in Children, NEW p \in Pids, Spawn(c, p) PROVE ReaperInv'
  BY <1>2 DEF Spawn
<1>3. ASSUME NEW c \in Children, ReaperStep(c) PROVE ReaperInv'
  <2>1. ASSUME NEW s \in Stoppers, NEW result \in {"ok", "err"},
               ReaperStop(c, s, result)
        PROVE  ReaperInv'
    BY <2>1 DEF ReaperStop, StopChild
  <2>2. ASSUME NEW result \in {"ok", "err"}, ReaperDisconnected(c, result)
        PROVE  ReaperInv'
    BY <2>2 DEF ReaperDisconnected, StopChild
  <2>3. CASE ReaperTimeout(c)
    BY <2>3 DEF ReaperTimeout
  <2>4. CASE ReaperStillRunning(c)
    BY <2>4 DEF ReaperStillRunning
  <2>5. CASE ReaperEnded(c)
    BY <2>5 DEF ReaperEnded
  <2>6. CASE ReaperWaitError(c)
    BY <2>6 DEF ReaperWaitError
  <2>7. CASE ReaperRemove(c)
    BY <2>7 DEF ReaperRemove
  <2>8. CASE ReaperNotify(c)
    BY <2>8 DEF ReaperNotify
  <2> QED
    BY <1>3, <2>1, <2>2, <2>3, <2>4, <2>5, <2>6, <2>7, <2>8 DEF ReaperStep
<1>4. CASE UNCHANGED <<os, reaper, announced, ended>>
  BY <1>4
<1> QED
  BY <1>1, <1>2, <1>3, <1>4
  DEF Next, StopRemove, StopStep, StopSend, StopReplied, StopReplyDropped,
      RunnerDrop, DropStep, DropNext, DropDone, vars

LEMMA IInvInvariant == Spec => []IInv
<1>1. IInv /\ [Next]_vars => IInv'
  BY TypeStep, ReaperInvStep DEF IInv
<1> QED
  BY InitIInv, <1>1, PTL DEF Spec

\* Type correctness of the runner's tables, channels and threads.
THEOREM RunnerTypeCorrect == Spec => []TypeOK
<1>1. IInv => TypeOK
  BY DEF IInv
<1> QED
  BY IInvInvariant, <1>1, PTL

\* The reaper announces an exit at most once and never the exit of a child
\* that a stop call or the closing of the channel ended.
THEOREM RunnerAnnouncesOnce == Spec => []AnnouncedOnceNeverForStopped
<1>1. IInv => AnnouncedOnceNeverForStopped
  BY DEF IInv, ReaperInv, AnnouncedOnceNeverForStopped
<1> QED
  BY IInvInvariant, <1>1, PTL

-----------------------------------------------------------------------------
(* Controls: who can still reach a child.                                  *)

\* Pids are given once, the table is right about them, and what stop_child
\* reports as killed is reaped.
PidInv ==
    /\ \A c \in Children : os[c] = "unborn" <=> pid[c] = NoPid
    /\ \A p \in Pids : table[p] # NoChild => pid[table[p]] = p
    /\ \A c \in dropQueue : pid[c] # NoPid
    /\ \A c \in Children : ended[c] = "ok" => os[c] = "reaped"

\* A call holds a control of the pid it was asked to stop, until the reaper
\* answered or returned.
CallHolds(s) ==
    /\ caller[s].pc = "idle" => caller[s].control = NoChild
    /\ caller[s].pc # "idle" =>
          /\ caller[s].control # NoChild /\ caller[s].about # NoChild
          /\ pid[caller[s].control] = pid[caller[s].about]
    /\ caller[s].pc = "sending" => caller[s].reply = "none"
    /\ caller[s].pc = "waiting" /\ caller[s].reply # "none" =>
          reaper[caller[s].control] = "done"
    /\ caller[s].about # NoChild => pid[caller[s].about] # NoPid
    /\ caller[s].reply # "none" => caller[s].about # NoChild

\* A Stop in a channel is of a call that waits for this child's answer.
InboxInv ==
    \A c \in Children : \A s \in inbox[c] :
        caller[s].pc = "waiting" /\ caller[s].control = c /\ caller[s].reply = "none"

CallInv == (\A s \in Stoppers : CallHolds(s)) /\ InboxInv

\* The drop starts when nobody borrows the runner and empties the table first.
DropInv ==
    /\ runner # "dropping" => dropQueue = {} /\ caller[Dropper].pc = "idle"
    /\ runner # "up" =>
          /\ \A p \in Pids : table[p] = NoChild
          /\ \A s \in Callers : caller[s].pc = "idle"

\* ReaperInv and the three above give the properties their inductive form.
CInv == IInv /\ PidInv /\ CallInv /\ DropInv /\ ControlKeptWhileRunning /\ StopOkMeansDead

LEMMA InitCInv == Init => CInv
<1> SUFFICES ASSUME Init PROVE PidInv /\ CallInv /\ DropInv /\ ControlKeptWhileRunning /\ StopOkMeansDead
  BY InitIInv DEF CInv
<1> QED
  BY RunnerAssumption
  DEF Init, PidInv, CallInv, CallHolds, InboxInv, DropInv, ControlKeptWhileRunning, StopOkMeansDead, Idle, Stoppers

LEMMA PidStep == CInv /\ [Next]_vars => PidInv'
<1> SUFFICES ASSUME TypeOK, ReaperInv, PidInv, DropInv, [Next]_vars PROVE PidInv'
  BY DEF CInv, IInv
<1> USE RunnerAssumption DEF TypeOK, PidInv
<1>1. ASSUME NEW c \in Children, Exit(c) PROVE PidInv'
  BY <1>1 DEF Exit
<1>2. ASSUME NEW c \in Children, NEW p \in Pids, Spawn(c, p) PROVE PidInv'
  BY <1>2 DEF Spawn, DropInv
<1>3. ASSUME NEW c \in Children, ReaperStep(c) PROVE PidInv'
  <2>1. ASSUME NEW s \in Stoppers, NEW result \in {"ok", "err"},
               ReaperStop(c, s, result)
        PROVE  PidInv'
    BY <2>1 DEF ReaperStop, StopChild, ReaperInv
  <2>2. ASSUME NEW result \in {"ok", "err"}, ReaperDisconnected(c, result)
        PROVE  PidInv'
    BY <2>2 DEF ReaperDisconnected, StopChild, ReaperInv
  <2>3. CASE ReaperTimeout(c) \/ ReaperStillRunning(c) \/ ReaperWaitError(c) \/ ReaperNotify(c)
    BY <2>3 DEF ReaperTimeout, ReaperStillRunning, ReaperWaitError, ReaperNotify
  <2>4. CASE ReaperEnded(c)
    BY <2>4 DEF ReaperEnded
  <2>5. CASE ReaperRemove(c)
    BY <2>5 DEF ReaperRemove
  <2> QED
    BY <1>3, <2>1, <2>2, <2>3, <2>4, <2>5 DEF ReaperStep
<1>4. ASSUME NEW s \in Callers, NEW c \in Children, StopRemove(s, c) PROVE PidInv'
  BY <1>4 DEF StopRemove
<1>5. ASSUME NEW s \in Stoppers, StopStep(s) PROVE PidInv'
  BY <1>5 DEF StopStep, StopSend, StopReplied, StopReplyDropped
<1>6. CASE RunnerDrop
  <2>1. \A c \in dropQueue' : pid[c] # NoPid
    BY <1>6 DEF RunnerDrop
  <2> QED
    BY <1>6, <2>1 DEF RunnerDrop
<1>7. CASE DropStep
  BY <1>7 DEF DropStep, DropNext, DropDone
<1>8. CASE UNCHANGED vars
  BY <1>8 DEF vars
<1> QED
  BY <1>1, <1>2, <1>3, <1>4, <1>5, <1>6, <1>7, <1>8 DEF Next

LEMMA CallInvStep == CInv /\ [Next]_vars => CallInv'
<1> SUFFICES ASSUME TypeOK, ReaperInv, PidInv, CallInv, [Next]_vars PROVE CallInv'
  BY DEF CInv, IInv
<1> USE RunnerAssumption
<1>1. \A s \in Stoppers :
         /\ caller[s] \in CallStates
         /\ caller[s].control \in Children \cup {NoChild}
         /\ caller[s].about \in Children \cup {NoChild}
  BY DEF TypeOK, CallStates
<1>2. ASSUME NEW s \in Stoppers, caller'[s] = caller[s],
             \A c \in Children : pid[c] # NoPid => pid'[c] = pid[c],
             \A c \in Children : reaper[c] = "done" => reaper'[c] = "done"
      PROVE  CallHolds(s)'
  <2>1. CallHolds(s)
    BY DEF CallInv
  <2> QED
    BY <1>1, <1>2, <2>1 DEF CallHolds
<1>3. ASSUME UNCHANGED <<pid, inbox, caller>>,
             \A c \in Children : reaper[c] = "done" => reaper'[c] = "done"
      PROVE  CallInv'
  BY <1>2, <1>3 DEF CallInv, InboxInv
<1>4. ASSUME NEW c \in Children, NEW p \in Pids, Spawn(c, p) PROVE CallInv'
  <2>1. \A d \in Children : pid[d] # NoPid => pid'[d] = pid[d]
    BY <1>4 DEF Spawn, PidInv, TypeOK
  <2>2. \A d \in Children : reaper[d] = "done" => reaper'[d] = "done"
    BY <1>4 DEF Spawn, ReaperInv, TypeOK
  <2> QED
    BY <1>2, <1>4, <2>1, <2>2 DEF Spawn, CallInv, InboxInv
<1>5. ASSUME NEW c \in Children, NEW s \in Stoppers, NEW result \in {"ok", "err"},
             ReaperStop(c, s, result)
      PROVE  CallInv'
  <2>1. CallHolds(s) /\ caller[s].pc = "waiting" /\ caller[s].control = c
    BY <1>5 DEF ReaperStop, CallInv, InboxInv
  <2>2. /\ \A t \in Stoppers : t # s => caller'[t] = caller[t]
        /\ caller'[s] = [caller[s] EXCEPT !.reply = result]
    BY <1>5 DEF ReaperStop, TypeOK
  <2>3. /\ pid' = pid /\ reaper'[c] = "done"
        /\ \A d \in Children : reaper[d] = "done" => reaper'[d] = "done"
    BY <1>5 DEF ReaperStop, TypeOK
  <2>4. \A t \in Stoppers : t # s => CallHolds(t)'
    BY <1>2, <2>2, <2>3
  <2>5. CallHolds(s)'
    BY <1>1, <2>1, <2>2, <2>3 DEF CallHolds, CallStates
  <2>6. \A d \in Children : s \notin inbox'[d] /\ inbox'[d] \subseteq inbox[d]
    BY <1>5, <2>1 DEF ReaperStop, TypeOK, CallInv, InboxInv
  <2>7. InboxInv'
    BY <2>2, <2>6 DEF TypeOK, CallInv, InboxInv
  <2> QED
    BY <2>4, <2>5, <2>7 DEF CallInv
<1>6. ASSUME NEW c \in Children, NEW s \in Callers, StopRemove(s, c) PROVE CallInv'
  <2>1. s \in Stoppers /\ UNCHANGED <<pid, reaper, inbox>>
    BY <1>6 DEF StopRemove, Stoppers
  <2>2. \A t \in Stoppers : t # s => caller'[t] = caller[t] /\ CallHolds(t)'
    BY <1>2, <1>6, <2>1 DEF StopRemove, TypeOK
  <2>3. InboxInv'
    BY <1>6, <2>1, <2>2 DEF StopRemove, TypeOK, CallInv, InboxInv
  <2>4. pid[c] # NoPid /\ c # NoChild
    BY <1>6 DEF StopRemove
  <2>5. CallHolds(s)'
    <3>1. CASE table[pid[c]] = NoChild
      <4>1. caller'[s] = [Idle EXCEPT !.reply = "ok", !.about = c]
        BY <1>6, <2>1, <3>1 DEF StopRemove, TypeOK
      <4> QED
        BY <2>1, <2>4, <4>1 DEF CallHolds, Idle
    <3>2. CASE table[pid[c]] # NoChild
      <4>1. caller'[s] = [pc |-> "sending", handle |-> pid[c], control |-> table[pid[c]],
                          reply |-> "none", about |-> c]
        BY <1>6, <2>1, <3>2 DEF StopRemove, TypeOK
      <4>2. pid[table[pid[c]]] = pid[c]
        BY <2>4, <3>2 DEF PidInv, TypeOK
      <4> QED
        BY <2>1, <2>4, <3>2, <4>1, <4>2 DEF CallHolds
    <3> QED
      BY <3>1, <3>2
  <2> QED
    BY <2>2, <2>3, <2>5 DEF CallInv
<1>7. ASSUME NEW s \in Stoppers, StopStep(s) PROVE CallInv'
  <2>1. \A t \in Stoppers : t # s => caller'[t] = caller[t]
    BY <1>7 DEF StopStep, StopSend, StopReplied, StopReplyDropped, StopReturn, TypeOK
  <2>2. UNCHANGED <<pid, reaper>>
    BY <1>7 DEF StopStep, StopSend, StopReplied, StopReplyDropped
  <2>3. \A t \in Stoppers : t # s => CallHolds(t)'
    BY <1>2, <2>1, <2>2
  <2>4. CallHolds(s) /\ caller[s].pc # "idle" /\ caller[s].control \in Children
    BY <1>1, <1>7 DEF StopStep, StopSend, StopReplied, StopReplyDropped, CallInv, CallHolds
  <2>5. ASSUME NEW r, StopReturn(s, r), \A d \in Children : s \notin inbox'[d],
               \A d \in Children : inbox'[d] \subseteq inbox[d]
        PROVE  CallInv'
    <3>1. caller'[s] = [Idle EXCEPT !.reply = r, !.about = caller[s].about]
      BY <2>5 DEF StopReturn, TypeOK
    <3>2. CallHolds(s)'
      BY <1>1, <2>2, <2>4, <3>1 DEF CallHolds, Idle
    <3>3. InboxInv'
      BY <2>1, <2>5 DEF TypeOK, CallInv, InboxInv
    <3> QED
      BY <2>3, <3>2, <3>3 DEF CallInv
  <2>6. CASE StopSend(s)
    <3>1. \A d \in Children : s \notin inbox[d]
      BY <2>6 DEF StopSend, CallInv, InboxInv
    <3>2. CASE reaper[caller[s].control] = "done"
      BY <2>5, <2>6, <3>1, <3>2 DEF StopSend
    <3>3. CASE reaper[caller[s].control] # "done"
      <4>1. caller'[s] = [caller[s] EXCEPT !.pc = "waiting"]
        BY <2>6, <3>3 DEF StopSend, TypeOK
      <4>2. \A d \in Children : inbox'[d] =
               IF d = caller[s].control THEN inbox[d] \cup {s} ELSE inbox[d]
        BY <2>4, <2>6, <3>3 DEF StopSend, TypeOK
      <4>3. caller[s].reply = "none" /\ caller[s].pc = "sending"
        BY <2>4, <2>6 DEF StopSend, CallHolds
      <4>4. CallHolds(s)'
        BY <1>1, <2>2, <2>4, <4>1, <4>3 DEF CallHolds, CallStates
      <4>5. caller'[s].pc = "waiting" /\ caller'[s].control = caller[s].control
            /\ caller'[s].reply = "none"
        BY <1>1, <4>1, <4>3 DEF CallStates
      <4>6. InboxInv'
        <5> SUFFICES ASSUME NEW d \in Children, NEW t \in inbox'[d]
                     PROVE  caller'[t].pc = "waiting" /\ caller'[t].control = d
                            /\ caller'[t].reply = "none"
          BY DEF InboxInv
        <5>1. CASE t = s
          BY <3>1, <4>2, <4>5, <5>1
        <5>2. CASE t # s
          <6>1. inbox'[d] \subseteq inbox[d] \cup {s}
            BY <4>2
          <6>2. t \in inbox[d]
            BY <5>2, <6>1
          <6>3. t \in Stoppers
            BY <6>2 DEF TypeOK
          <6> QED
            BY <2>1, <5>2, <6>2, <6>3 DEF CallInv, InboxInv
        <5> QED
          BY <5>1, <5>2
      <4> QED
        BY <2>3, <4>4, <4>6 DEF CallInv
    <3> QED
      BY <3>2, <3>3
  <2>7. CASE StopReplied(s)
    <3>1. \A d \in Children : s \notin inbox[d]
      BY <2>7 DEF StopReplied, CallInv, InboxInv
    <3> QED
      BY <2>5, <2>7, <3>1 DEF StopReplied
  <2>8. CASE StopReplyDropped(s)
    <3>1. \A d \in Children : inbox'[d] =
             IF d = caller[s].control THEN inbox[d] \ {s} ELSE inbox[d]
      BY <2>4, <2>8 DEF StopReplyDropped, TypeOK
    <3>2. ASSUME NEW d \in Children PROVE s \notin inbox'[d]
      <4>1. s \in inbox[d] => caller[s].control = d
        BY DEF CallInv, InboxInv
      <4>2. CASE d = caller[s].control
        BY <3>1, <4>2
      <4>3. CASE d # caller[s].control
        BY <3>1, <4>1, <4>3
      <4> QED
        BY <4>2, <4>3
    <3> QED
      BY <2>5, <2>8, <3>1, <3>2 DEF StopReplyDropped
  <2> QED
    BY <1>7, <2>6, <2>7, <2>8 DEF StopStep
<1>8. ASSUME NEW c \in Children, DropNext(c) PROVE CallInv'
  <2>1. Dropper \in Stoppers /\ UNCHANGED <<pid, reaper, inbox>>
    BY <1>8 DEF DropNext, Stoppers
  <2>2. /\ \A t \in Stoppers : t # Dropper => caller'[t] = caller[t] /\ CallHolds(t)'
        /\ caller'[Dropper] = [pc |-> "sending", handle |-> pid[c], control |-> c,
                               reply |-> "none", about |-> c]
    BY <1>2, <1>8, <2>1 DEF DropNext, TypeOK
  <2>3. c # NoChild /\ pid[c] # NoPid
    BY <1>8 DEF DropNext, PidInv
  <2>4. CallHolds(Dropper)'
    BY <2>1, <2>2, <2>3 DEF CallHolds
  <2>5. InboxInv'
    BY <1>8, <2>1, <2>2 DEF DropNext, TypeOK, CallInv, InboxInv
  <2> QED
    BY <2>2, <2>4, <2>5 DEF CallInv
<1>9. ASSUME NEW c \in Children, NEW result \in {"ok", "err"}, ReaperDisconnected(c, result)
      PROVE  CallInv'
  BY <1>3, <1>9 DEF ReaperDisconnected, TypeOK
<1>10. ASSUME NEW c \in Children,
              \/ ReaperTimeout(c) \/ ReaperStillRunning(c) \/ ReaperEnded(c)
              \/ ReaperWaitError(c) \/ ReaperRemove(c) \/ ReaperNotify(c)
       PROVE  CallInv'
  BY <1>3, <1>10 DEF ReaperTimeout, ReaperStillRunning, ReaperEnded, ReaperWaitError,
                     ReaperRemove, ReaperNotify, TypeOK
<1>11. CASE (\E c \in Children : Exit(c)) \/ RunnerDrop \/ DropDone \/ UNCHANGED vars
  BY <1>3, <1>11 DEF Exit, RunnerDrop, DropDone, vars
<1> QED
  BY <1>4, <1>5, <1>6, <1>7, <1>8, <1>9, <1>10, <1>11 DEF Next, ReaperStep, DropStep

LEMMA DropInvStep == CInv /\ [Next]_vars => DropInv'
<1> SUFFICES ASSUME TypeOK, CallInv, DropInv, [Next]_vars PROVE DropInv'
  BY DEF CInv, IInv
<1> USE RunnerAssumption DEF TypeOK, DropInv
<1>1. ASSUME NEW c \in Children, NEW p \in Pids, Spawn(c, p) PROVE DropInv'
  BY <1>1 DEF Spawn
<1>2. ASSUME NEW c \in Children, ReaperStep(c) PROVE DropInv'
  <2>1. ASSUME NEW s \in Stoppers, NEW result \in {"ok", "err"},
               ReaperStop(c, s, result)
        PROVE  DropInv'
    <3>1. \A t \in Stoppers : caller'[t].pc = caller[t].pc
      BY <2>1 DEF ReaperStop, CallStates
    <3> QED
      BY <2>1, <3>1 DEF ReaperStop, Stoppers
  <2>2. CASE ReaperRemove(c)
    BY <2>2 DEF ReaperRemove
  <2> QED
    BY <1>2, <2>1, <2>2 DEF ReaperStep, ReaperDisconnected, ReaperTimeout,
       ReaperStillRunning, ReaperEnded, ReaperWaitError, ReaperNotify
<1>3. ASSUME NEW s \in Callers, NEW c \in Children, StopRemove(s, c) PROVE DropInv'
  BY <1>3 DEF StopRemove, Stoppers
<1>4. ASSUME NEW s \in Stoppers, StopStep(s) PROVE DropInv'
  <2>1. caller[s].pc # "idle" /\ \A t \in Stoppers : t # s => caller'[t] = caller[t]
    BY <1>4 DEF StopStep, StopSend, StopReplied, StopReplyDropped, StopReturn
  <2> QED
    BY <1>4, <2>1 DEF StopStep, StopSend, StopReplied, StopReplyDropped, Stoppers
<1>5. CASE RunnerDrop
  BY <1>5 DEF RunnerDrop
<1>6. CASE DropStep
  BY <1>6 DEF DropStep, DropNext, DropDone, Stoppers
<1>7. CASE (\E c \in Children : Exit(c)) \/ UNCHANGED vars
  BY <1>7 DEF Exit, vars
<1> QED
  BY <1>1, <1>2, <1>3, <1>4, <1>5, <1>6, <1>7 DEF Next

\* What is once true of a child that was spawned stays so: its pid, another
\* child with the same pid, that it ended, and that its reaper let go of it.
LEMMA LastingStep ==
    ASSUME CInv, [Next]_vars, NEW c \in Children, os[c] # "unborn"
    PROVE  /\ pid'[c] = pid[c]
           /\ Reused(c) => Reused(c)'
           /\ os[c] # "running" => os'[c] # "running"
           /\ Abandoned(c) => os'[c] # "running" \/ Abandoned(c)'
<1> USE DEF CInv, IInv, TypeOK, ReaperInv, PidInv
<1>1. \A d \in Children : pid[d] # NoPid => pid'[d] = pid[d]
  BY ZenonT(40) DEF Next, Exit, Spawn, ReaperStep, ReaperStop, ReaperDisconnected, ReaperTimeout,
         ReaperStillRunning, ReaperEnded, ReaperWaitError, ReaperRemove, ReaperNotify,
         StopRemove, StopStep, StopSend, StopReplied, StopReplyDropped, RunnerDrop,
         DropStep, DropNext, DropDone, vars
<1>2. pid'[c] = pid[c] /\ (Reused(c) => Reused(c)')
  BY <1>1 DEF Reused
<1>3. ASSUME UNCHANGED <<os, reaper, ended>>
      PROVE  /\ os[c] # "running" => os'[c] # "running"
             /\ Abandoned(c) => os'[c] # "running" \/ Abandoned(c)'
  BY <1>3 DEF Abandoned
<1>4. ASSUME NEW d \in Children,
             Exit(d) \/ ReaperStep(d) \/ \E p \in Pids : Spawn(d, p)
      PROVE  /\ os[c] # "running" => os'[c] # "running"
             /\ Abandoned(c) => os'[c] # "running" \/ Abandoned(c)'
  BY <1>4 DEF Abandoned, Exit, Spawn, ReaperStep, ReaperStop, ReaperDisconnected,
         StopChild, ReaperTimeout, ReaperStillRunning, ReaperEnded, ReaperWaitError,
         ReaperRemove, ReaperNotify
<1> QED
  BY <1>2, <1>3, <1>4 DEF Next, StopRemove, StopStep, StopSend, StopReplied,
     StopReplyDropped, RunnerDrop, DropStep, DropNext, DropDone, vars

\* A call gives its control up only when the reaper of that child returned.
LEMMA ControlsAreGivenUp ==
    ASSUME CInv, [Next]_vars, NEW s \in Stoppers, NEW c \in Children,
           caller[s].control = c, caller'[s].control # c
    PROVE  StopStep(s) /\ reaper[c] = "done" /\ UNCHANGED <<os, reaper, ended>>
<1> USE DEF CInv, IInv, TypeOK
<1>1. CallHolds(s)
  BY DEF CallInv
<1>2. caller[s].pc # "idle"
  BY <1>1, RunnerAssumption DEF CallHolds
<1>3. caller'[s] # caller[s]
  OBVIOUS
<1>4. ASSUME NEW d \in Children, NEW t \in Stoppers, NEW result \in {"ok", "err"},
             ReaperStop(d, t, result)
      PROVE  FALSE
  <2>1. caller' = [caller EXCEPT ![t].reply = result]
    BY <1>4 DEF ReaperStop
  <2>2. CASE t = s
    BY <2>1, <2>2 DEF CallStates
  <2>3. CASE t # s
    BY <1>3, <2>1, <2>3
  <2> QED
    BY <2>2, <2>3
<1>5. StopStep(s)
  <2>1. ASSUME NEW t \in Callers, NEW d \in Children, StopRemove(t, d) PROVE FALSE
    <3>1. t # s
      BY <1>2, <2>1 DEF StopRemove
    <3> QED
      BY <1>3, <2>1, <3>1 DEF StopRemove
  <2>2. ASSUME NEW t \in Stoppers, StopStep(t), t # s PROVE FALSE
    BY <1>3, <2>2 DEF StopStep, StopSend, StopReplied, StopReplyDropped, StopReturn
  <2>3. ASSUME DropStep PROVE FALSE
    BY <1>2, <1>3, <2>3 DEF DropStep, DropNext, DropDone
  <2>4. ASSUME NEW d \in Children, ReaperStep(d) PROVE FALSE
    BY <1>3, <1>4, <2>4 DEF ReaperStep, ReaperDisconnected, ReaperTimeout,
       ReaperStillRunning, ReaperEnded, ReaperWaitError, ReaperRemove, ReaperNotify
  <2> QED
    BY <1>3, <2>1, <2>2, <2>3, <2>4 DEF Next, Exit, Spawn, RunnerDrop, vars
<1>6. CASE StopSend(s)
  <2>1. reaper[c] # "done" => caller'[s] = [caller[s] EXCEPT !.pc = "waiting"]
    BY <1>6 DEF StopSend
  <2> QED
    BY <1>5, <1>6, <2>1 DEF StopSend, CallStates
<1> QED
  BY <1>1, <1>5, <1>6 DEF StopStep, StopReplied, StopReplyDropped, CallHolds

\* A running child that its reaper has not let go of has a reaper at work.
LEMMA HealthyReaper ==
    ASSUME CInv, NEW c \in Children, os[c] = "running", ~Abandoned(c)
    PROVE  reaper[c] \in {"recv", "check"} /\ ended[c] = "no"
  BY DEF CInv, IInv, TypeOK, ReaperInv, PidInv, Abandoned

\* The only steps that take the last control of a running child away are those
\* after which its reaper has let go of it, or its pid is another child's.
LEMMA ControlStep == CInv /\ [Next]_vars => ControlKeptWhileRunning'
<1> SUFFICES ASSUME CInv, [Next]_vars, NEW c \in Children, os'[c] = "running"
             PROVE  HasSender(c)' \/ Abandoned(c)' \/ Reused(c)'
  BY DEF ControlKeptWhileRunning
<1> USE DEF CInv, IInv, TypeOK
<1>1. ASSUME NEW p \in Pids, Spawn(c, p) PROVE HasSender(c)'
  BY <1>1 DEF Spawn, HasSender
<1>2. CASE os[c] = "unborn"
  <2>1. \E p \in Pids : Spawn(c, p)
    BY <1>2 DEF Next, Exit, Spawn, ReaperStep, ReaperStop, ReaperDisconnected, StopChild,
         ReaperTimeout, ReaperStillRunning, ReaperEnded, ReaperWaitError, ReaperRemove,
         ReaperNotify, StopRemove, StopStep, StopSend, StopReplied, StopReplyDropped,
         RunnerDrop, DropStep, DropNext, DropDone, vars
  <2> QED
    BY <1>1, <2>1
<1>3. CASE os[c] # "unborn" /\ (Abandoned(c) \/ Reused(c))
  BY <1>3, LastingStep
<1>4. CASE os[c] # "unborn" /\ ~Abandoned(c) /\ ~Reused(c)
  <2>1. os[c] = "running" /\ pid'[c] = pid[c] /\ pid[c] # NoPid
    BY <1>4, LastingStep DEF PidInv
  <2>2. reaper[c] \in {"recv", "check"} /\ ended[c] = "no"
    BY <1>4, <2>1, HealthyReaper
  <2>3. HasSender(c)
    BY <1>4, <2>1 DEF ControlKeptWhileRunning
  <2>4. CASE \E s \in Stoppers : caller[s].control = c
    <3>1. PICK s \in Stoppers : caller[s].control = c
      BY <2>4
    <3>2. caller'[s].control = c
      BY <2>2, <3>1, ControlsAreGivenUp
    <3> QED
      BY <3>2 DEF HasSender
  <2>5. CASE c \in dropQueue
    <3>1. runner = "dropping"
      BY <2>5 DEF DropInv
    <3>2. ASSUME DropNext(c) PROVE caller'[Dropper].control = c
      BY <3>2 DEF DropNext, Stoppers
    <3>3. c \in dropQueue' \/ DropNext(c)
      BY <2>5, <3>1 DEF Next, Exit, Spawn, ReaperStep, ReaperStop, ReaperDisconnected,
         ReaperTimeout, ReaperStillRunning, ReaperEnded, ReaperWaitError, ReaperRemove,
         ReaperNotify, StopRemove, StopStep, StopSend, StopReplied, StopReplyDropped,
         RunnerDrop, DropStep, DropNext, DropDone, vars
    <3> QED
      BY <3>2, <3>3 DEF HasSender, Stoppers
  <2>6. CASE \E p \in Pids : table[p] = c
    <3>1. PICK p \in Pids : table[p] = c
      BY <2>6
    <3>2. pid[c] = p /\ c # NoChild
      BY <3>1, RunnerAssumption DEF PidInv
    <3>3. ASSUME NEW d \in Children, NEW q \in Pids, Spawn(d, q)
          PROVE  HasSender(c)' \/ Reused(c)'
      <4>1. d # c /\ table' = [table EXCEPT ![q] = d] /\ pid'[d] = q
        BY <2>1, <3>3 DEF Spawn
      <4>2. CASE p = q
        BY <2>1, <3>2, <4>1, <4>2 DEF Reused
      <4>3. CASE p # q
        BY <3>1, <4>1, <4>3 DEF HasSender
      <4> QED
        BY <4>2, <4>3
    <3>4. ASSUME NEW d \in Children, ReaperRemove(d) PROVE HasSender(c)' \/ Reused(c)'
      <4>1. d # c /\ pid' = pid
        BY <2>2, <3>4 DEF ReaperRemove
      <4>2. CASE pid[d] = p
        BY <3>2, <4>1, <4>2 DEF Reused
      <4>3. CASE pid[d] # p
        <5>1. table'[p] = c
          BY <3>1, <3>4, <4>3 DEF ReaperRemove
        <5> QED
          BY <5>1 DEF HasSender
      <4> QED
        BY <4>2, <4>3
    <3>5. ASSUME NEW s \in Callers, NEW d \in Children, StopRemove(s, d) PROVE HasSender(c)'
      <4>1. s \in Stoppers
        BY DEF Stoppers
      <4>2. CASE pid[d] = p
        <5>1. caller'[s].control = c
          BY <3>1, <3>2, <3>5, <4>1, <4>2 DEF StopRemove
        <5> QED
          BY <4>1, <5>1 DEF HasSender
      <4>3. CASE pid[d] # p
        <5>1. table'[p] = c
          BY <3>1, <3>5, <4>3 DEF StopRemove
        <5> QED
          BY <5>1 DEF HasSender
      <4> QED
        BY <4>2, <4>3
    <3>6. CASE RunnerDrop
      <4>1. c \in dropQueue'
        BY <3>1, <3>6 DEF RunnerDrop
      <4> QED
        BY <4>1 DEF HasSender
    <3>7. CASE UNCHANGED table
      BY <3>1, <3>7 DEF HasSender
    <3> QED
      BY <3>3, <3>4, <3>5, <3>6, <3>7
      DEF Next, Exit, ReaperStep, ReaperStop, ReaperDisconnected,
         ReaperTimeout, ReaperStillRunning, ReaperEnded, ReaperWaitError,
         ReaperNotify, StopStep, StopSend, StopReplied, StopReplyDropped,
         DropStep, DropNext, DropDone, vars
  <2> QED
    BY <2>3, <2>4, <2>5, <2>6 DEF HasSender
<1> QED
  BY <1>2, <1>3, <1>4

\* What an Ok says of its child.
Gone(c) == os[c] # "running" \/ InFlight(c) \/ Abandoned(c) \/ Reused(c)

LEMMA GoneStays ==
    ASSUME CInv, [Next]_vars, NEW c \in Children, os[c] # "unborn", Gone(c)
    PROVE  Gone(c)'
<1>1. CASE os[c] # "running" \/ Abandoned(c) \/ Reused(c)
  BY <1>1, LastingStep DEF Gone
<1>2. CASE os[c] = "running" /\ ~Abandoned(c) /\ InFlight(c)
  <2>1. PICK s \in Stoppers : caller[s].control = c
    BY <1>2 DEF InFlight
  <2>2. reaper[c] # "done"
    BY <1>2, HealthyReaper
  <2>3. caller'[s].control = c
    BY <2>1, <2>2, ControlsAreGivenUp
  <2> QED
    BY <2>3 DEF Gone, InFlight
<1> QED
  BY <1>1, <1>2 DEF Gone

\* A call returns Ok when it found nothing in the table, or when the reaper of
\* the control it took has returned.
LEMMA StopOkStep == CInv /\ [Next]_vars => StopOkMeansDead'
<1> SUFFICES ASSUME CInv, [Next]_vars PROVE StopOkMeansDead'
  OBVIOUS
<1> SUFFICES ASSUME NEW s \in Callers,
                    NEW c \in Children \cup {NoChild}, c = caller'[s].about,
                    caller'[s].pc = "idle", caller'[s].reply = "ok"
             PROVE  Gone(c)'
  <2>1. caller' \in [Stoppers -> CallStates]
    BY TypeStep DEF CInv, IInv, TypeOK
  <2>2. \A s \in Callers : caller'[s].about \in Children \cup {NoChild}
    BY <2>1 DEF Stoppers, CallStates
  <2> QED
    BY <2>2 DEF StopOkMeansDead, Gone
<1> USE DEF CInv, IInv, TypeOK
<1>1. s \in Stoppers /\ CallHolds(s) /\ caller[s] \in CallStates /\ s # Dropper
  BY RunnerAssumption DEF CallInv, Stoppers
<1>2. CASE caller'[s] = caller[s]
  <2>1. c \in Children /\ pid[c] # NoPid
    BY <1>1, <1>2 DEF CallHolds, CallStates
  <2>2. Gone(c)
    BY <1>2 DEF StopOkMeansDead, Gone
  <2> QED
    BY <2>1, <2>2, GoneStays DEF PidInv
<1>3. CASE \E d \in Children : StopRemove(s, d)
  <2>1. StopRemove(s, c) /\ c \in Children /\ table[pid[c]] = NoChild
    BY <1>1, <1>3 DEF StopRemove, Idle
  <2>2. pid[c] \in Pids /\ runner = "up"
    BY <2>1 DEF StopRemove
  <2>3. Gone(c)
    <3> SUFFICES ASSUME os[c] = "running", ~Abandoned(c), ~Reused(c) PROVE InFlight(c)
      BY DEF Gone
    <3>1. HasSender(c)
      BY <2>1 DEF ControlKeptWhileRunning
    <3>2. c \notin dropQueue
      BY <2>2 DEF DropInv
    <3>3. ~ \E p \in Pids : table[p] = c
      BY <2>1, RunnerAssumption DEF PidInv
    <3> QED
      BY <3>1, <3>2, <3>3 DEF HasSender, InFlight
  <2> QED
    BY <2>1, <2>2, <2>3, GoneStays, RunnerAssumption DEF PidInv
<1>4. CASE StopStep(s)
  <2> DEFINE d == caller[s].control
  <2>1. /\ c \in Children /\ d \in Children /\ pid[c] = pid[d] /\ pid[c] # NoPid
        /\ reaper[d] = "done"
    <3>1. caller[s].pc # "idle"
      BY <1>4 DEF StopStep, StopSend, StopReplied, StopReplyDropped
    <3>2. /\ caller[s].about \in Children /\ d \in Children
          /\ pid[caller[s].about] = pid[d] /\ pid[d] # NoPid
      BY <1>1, <3>1 DEF CallHolds, CallStates
    <3>3. reaper[d] = "done"
      BY <1>1, <1>4 DEF StopStep, StopSend, StopReplied, StopReplyDropped, CallHolds, CallStates
    <3>4. \E r : StopReturn(s, r)
      BY <1>4, <3>3 DEF StopStep, StopSend, StopReplied, StopReplyDropped
    <3>5. caller'[s].about = caller[s].about
      BY <1>1, <3>4 DEF StopReturn, Idle
    <3> QED
      BY <3>2, <3>3, <3>5
  <2>2. Gone(c)
    <3>1. CASE c = d
      BY <2>1, <3>1, HealthyReaper DEF Gone
    <3>2. CASE c # d
      BY <2>1, <3>2 DEF Gone, Reused
    <3> QED
      BY <3>1, <3>2
  <2> QED
    BY <2>1, <2>2, GoneStays DEF PidInv
<1>5. ASSUME NEW d \in Children, NEW t \in Stoppers, NEW result \in {"ok", "err"},
             ReaperStop(d, t, result)
      PROVE  caller'[s] = caller[s]
  <2>1. caller[t].pc = "waiting"
    BY <1>5 DEF ReaperStop, CallInv, InboxInv
  <2>2. t # s
    BY <1>1, <1>5, <2>1 DEF ReaperStop, CallStates
  <2> QED
    BY <1>1, <1>5, <2>2 DEF ReaperStop
<1>6. caller'[s] = caller[s] \/ StopStep(s) \/ \E d \in Children : StopRemove(s, d)
  <2>1. ASSUME NEW d \in Children, ReaperStep(d) PROVE caller'[s] = caller[s]
    BY <1>5, <2>1 DEF ReaperStep, ReaperDisconnected, ReaperTimeout, ReaperStillRunning,
       ReaperEnded, ReaperWaitError, ReaperRemove, ReaperNotify
  <2>2. ASSUME NEW t \in Callers, NEW d \in Children, StopRemove(t, d), t # s
        PROVE  caller'[s] = caller[s]
    BY <1>1, <2>2 DEF StopRemove
  <2>3. ASSUME NEW t \in Stoppers, StopStep(t), t # s PROVE caller'[s] = caller[s]
    BY <1>1, <2>3 DEF StopStep, StopSend, StopReplied, StopReplyDropped, StopReturn
  <2>4. CASE RunnerDrop \/ DropStep
    BY <1>1, <2>4 DEF RunnerDrop, DropStep, DropNext, DropDone
  <2>5. ASSUME NEW d \in Children, NEW p \in Pids, Spawn(d, p)
        PROVE  caller'[s] = caller[s]
    BY <2>5 DEF Spawn
  <2>6. CASE UNCHANGED vars
    BY <2>6 DEF vars
  <2>7. ASSUME NEW d \in Children, Exit(d) PROVE caller'[s] = caller[s]
    BY <2>7 DEF Exit
  <2> QED
    BY <2>1, <2>2, <2>3, <2>4, <2>5, <2>6, <2>7 DEF Next
<1> QED
  BY <1>2, <1>3, <1>4, <1>6

LEMMA CInvInvariant == Spec => []CInv
<1>1. CInv /\ [Next]_vars => CInv'
  BY TypeStep, ReaperInvStep, PidStep, CallInvStep, DropInvStep, ControlStep, StopOkStep
  DEF CInv, IInv
<1> QED
  BY InitCInv, <1>1, PTL DEF Spec

\* A stop() that returned Ok leaves its child dead, and a child that runs can be
\* stopped: whatever races the calls, the reapers and reused pids run, only a
\* refused kill, a failed poll or a pid shared with another child comes between.
THEOREM RunnerStopsReachTheirChild == Spec => []StopsReachTheirChild
<1>1. CInv => StopsReachTheirChild
  BY DEF CInv, StopsReachTheirChild
<1> QED
  BY CInvInvariant, <1>1, PTL

\* When the drop of the runner is over, no child runs that could be killed.
THEOREM RunnerDropStopsEveryChild == Spec => []DropStopsEveryChild
<1>1. CInv => DropStopsEveryChild
  <2> SUFFICES ASSUME CInv, runner = "dropped", NEW c \in Children, os[c] = "running"
               PROVE  Abandoned(c) \/ Reused(c)
    BY DEF DropStopsEveryChild
  <2>1. ~HasSender(c)
    <3>1. \A p \in Pids : table[p] # c
      BY RunnerAssumption DEF CInv, DropInv
    <3>2. \A s \in Stoppers : caller[s].pc = "idle"
      BY DEF CInv, DropInv, Stoppers
    <3>3. \A s \in Stoppers : caller[s].control # c
      BY <3>2, RunnerAssumption DEF CInv, CallInv, CallHolds
    <3>4. c \notin dropQueue
      BY DEF CInv, DropInv
    <3> QED
      BY <3>1, <3>3, <3>4 DEF HasSender
  <2> QED
    BY <2>1 DEF CInv, ControlKeptWhileRunning
<1> QED
  BY CInvInvariant, <1>1, PTL

-----------------------------------------------------------------------------
(* The runner implements ProcessTable.                                     *)

LEMMA PromiseInit == Init => Promise!Init
  BY DEF Init, Promise!Init

\* Each step of a child or its reaper is a step of the promise or a stutter;
\* the steps of callers and of the drop are invisible to it.
LEMMA PromiseStep == IInv /\ [Next]_vars => [Promise!Next]_(Promise!vars)
<1> SUFFICES ASSUME TypeOK, ReaperInv, [Next]_vars
             PROVE  Promise!Next \/ UNCHANGED Promise!vars
  BY DEF IInv
<1> USE DEF TypeOK, ReaperInv
<1>1. ASSUME NEW c \in Children, Exit(c) PROVE Promise!Exit(c)
  BY <1>1 DEF Exit, Promise!Exit
<1>2. ASSUME NEW c \in Children, NEW p \in Pids, Spawn(c, p)
      PROVE  Promise!Spawn(c)
  BY <1>2 DEF Spawn, Promise!Spawn
<1>3. ASSUME NEW c \in Children, NEW result \in {"ok", "err"},
             reaper[c] = "recv", StopChild(c, result),
             reaper' = [reaper EXCEPT ![c] = "done"],
             UNCHANGED announced
      PROVE  Promise!Stop(c) \/ Promise!StopFails(c)
  BY <1>3 DEF StopChild, Promise!Stop, Promise!StopFails
<1>4. ASSUME NEW c \in Children, ReaperEnded(c) PROVE Promise!Reap(c)
  BY <1>4 DEF ReaperEnded, Promise!Reap
<1>5. ASSUME NEW c \in Children, ReaperWaitError(c) PROVE Promise!Reap(c)
  BY <1>5 DEF ReaperWaitError, Promise!Reap
<1>6. ASSUME NEW c \in Children,
             \/ ReaperTimeout(c) \/ ReaperStillRunning(c)
             \/ ReaperRemove(c) \/ ReaperNotify(c)
      PROVE  UNCHANGED Promise!vars
  BY <1>6 DEF ReaperTimeout, ReaperStillRunning, ReaperRemove, ReaperNotify,
              Promise!vars
<1>7. ASSUME UNCHANGED <<os, reaper, announced>>
      PROVE  UNCHANGED Promise!vars
  BY <1>7 DEF Promise!vars
<1>8. ASSUME NEW c \in Children, ReaperStep(c)
      PROVE  Promise!Next \/ UNCHANGED Promise!vars
  <2>1. ASSUME NEW s \in Stoppers, NEW result \in {"ok", "err"},
               ReaperStop(c, s, result)
        PROVE  Promise!Next
    BY <1>3, <2>1 DEF ReaperStop, Promise!Next
  <2>2. ASSUME NEW result \in {"ok", "err"}, ReaperDisconnected(c, result)
        PROVE  Promise!Next
    BY <1>3, <2>2 DEF ReaperDisconnected, Promise!Next
  <2> QED
    BY <1>4, <1>5, <1>6, <1>8, <2>1, <2>2 DEF ReaperStep, Promise!Next
<1> QED
  BY <1>1, <1>2, <1>7, <1>8
  DEF Next, StopRemove, StopStep, StopSend, StopReplied, StopReplyDropped,
      RunnerDrop, DropStep, DropNext, DropDone, vars, Promise!Next

\* Whatever the interleaving of callers, reapers and the drop, the runner
\* keeps the promise that Supervisor is built on.
THEOREM RunnerKeepsPromise == Spec => KeepsPromise
<1>1. Spec => []IInv
  BY IInvInvariant
<1> QED
  BY <1>1, PromiseInit, PromiseStep, PTL DEF Spec, KeepsPromise, Promise!Spec
=============================================================================
