--------------------------- MODULE LifecycleProofs ---------------------------
(***************************************************************************)
(* Proofs about Lifecycle: its types, the agreement of the shared and the   *)
(* stored configuration, the absence of lost updates, the registration      *)
(* with the OS, and, one command at a time, that what runs and what the     *)
(* window shows is what was asked for.                                      *)
(***************************************************************************)
EXTENDS Lifecycle, TLAPS

CallsTyped ==
    /\ call \in [Callers -> Calls]
    /\ \A c \in Callers : CallShape(c)

\* A draft is a configuration; it differs from its base in the fields of the
\* operation only.
LEMMA DraftTyped ==
    ASSUME NEW op \in Changes, NEW base \in Configs, NEW target \in Configs
    PROVE  /\ Draft(op, base, target) \in Configs
           /\ \A f \in {"profile", "tun", "proxy", "auto"} :
                 Draft(op, base, target)[f] =
                    IF f \in Fields[op] THEN target[f] ELSE base[f]
  BY DEF Draft, Configs

\* A step that only moves a call on.
LEMMA GotoTyped ==
    ASSUME TypeOK, NEW c \in Callers, NEW pc \in {"idle"} \cup Steps,
           Goto(c, pc),
           \A d \in Callers \ {c} : lock' = d <=> lock = d,
           lock' = c <=> pc \in LockedSteps,
           pc # "begin",
           pc \in LockedSteps \cup {"undo"} =>
              call[c].pc \in LockedSteps \cup {"undo"},
           pc \in ConnectSteps => call[c].pc \in ConnectSteps \cup LockedSteps
    PROVE  CallsTyped'
  BY DEF TypeOK, Goto, CallsTyped, CallShape, Calls, Steps, LockedSteps,
         ConnectSteps, DisconnectSteps

\* A step that ends a call.
LEMMA ReturnTyped ==
    ASSUME TypeOK, NEW c \in Callers, Return(c), lock' # c,
           \A d \in Callers \ {c} : lock' = d <=> lock = d
    PROVE  CallsTyped'
  BY DEF TypeOK, Return, NoCall, CallsTyped, CallShape, Calls, Steps,
         LockedSteps, ConnectSteps, DisconnectSteps, Operations, Changes, Fields

LEMMA NoCallTyped == NoCall \in Calls /\ NoCall.pc = "idle"
  BY DEF NoCall, Calls, Steps, LockedSteps, ConnectSteps, DisconnectSteps,
         Operations, Changes, Fields

LEMMA ReceiveTyped ==
    ASSUME TypeOK, NEW c \in Callers, Receive(c)
    PROVE  TypeOK'
<1> USE DEF TypeOK, CallShape, Calls, Steps, LockedSteps, ConnectSteps,
            DisconnectSteps, NoCall
<1>0. /\ call[c].pc = "idle" /\ lock # c
      /\ UNCHANGED <<shared, stored, lock, registered, proxied, files, core,
                     sink, survived, silent, uncompensated>>
      /\ budget' \in Nat /\ overlap' \in BOOLEAN
  BY DEF Receive, Busy, settings, runtime, Resting
<1>1. CASE Connect(c)
  <2> DEFINE k == [NoCall EXCEPT !.pc = "write", !.config = shared]
  <2>1. k \in Calls /\ k.pc = "write" /\ k.config \in Configs
    BY DEF Operations, Changes, Fields
  <2>2. call' = [call EXCEPT ![c] = k]
    BY <1>1 DEF Connect
  <2> HIDE DEF k
  <2>3. CallsTyped'
    BY <1>0, <2>1, <2>2 DEF CallsTyped
  <2> QED BY ZenonT(40), <1>0, <1>1, <2>3 DEF Connect, CallsTyped
<1>2. CASE Disconnect(c)
  <2> DEFINE k == [NoCall EXCEPT !.pc = "stop", !.op = "disconnect"]
  <2>1. k \in Calls /\ k.pc = "stop"
    BY DEF Operations, Changes, Fields
  <2>2. call' = [call EXCEPT ![c] = k]
    BY <1>2 DEF Disconnect
  <2> HIDE DEF k
  <2>3. CallsTyped'
    BY <1>0, <2>1, <2>2 DEF CallsTyped
  <2> QED BY <1>0, <1>2, <2>3 DEF Disconnect, CallsTyped
<1>3. ASSUME NEW op \in Changes, NEW target \in Configs, Change(c, op, target)
      PROVE  TypeOK'
  <2> DEFINE k == [NoCall EXCEPT !.pc = "begin", !.op = op,
                                 !.target = target]
  <2>1. /\ k \in Calls /\ k.pc = "begin"
        /\ k.op \in Changes /\ k.target \in Configs
    BY DEF Operations
  <2>2. call' = [call EXCEPT ![c] = k]
    BY <1>3 DEF Change
  <2> HIDE DEF k
  <2>3. CallsTyped'
    BY <1>0, <2>1, <2>2 DEF CallsTyped
  <2> QED BY <1>0, <1>3, <2>3 DEF Change, CallsTyped
<1> QED BY <1>1, <1>2, <1>3 DEF Receive

LEMMA ChangeTyped ==
    ASSUME TypeOK, NEW c \in Callers, ChangeStep(c)
    PROVE  TypeOK'
<1>0. /\ LifecycleAssumption
      /\ call[c] \in Calls /\ CallShape(c)
      /\ call \in [Callers -> Calls]
      /\ \A d \in Callers : lock = d <=> call[d].pc \in LockedSteps
      /\ lock \in Callers \cup {NoCaller}
  BY LifecycleAssumption DEF TypeOK, CallShape
<1>1. CASE Begin(c)
  <2> DEFINE op == call[c].op
             k == [call[c] EXCEPT
                     !.pc = CASE op = "setMode" -> "applyDraft"
                              [] op = "saveSettings" -> "effect"
                              [] OTHER -> "commit",
                     !.config = Draft(op, shared, call[c].target),
                     !.original = shared]
  <2>1. /\ op \in Changes /\ call[c].target \in Configs
        /\ shared \in Configs /\ lock' = c /\ lock = NoCaller
        /\ call' = [call EXCEPT ![c] = k]
    BY <1>0, <1>1 DEF Begin, CallShape, LockedSteps, TypeOK
  <2>2. Draft(op, shared, call[c].target) \in Configs
    BY <2>1, DraftTyped
  <2> HIDE DEF op
  <2>3. k \in Calls /\ k.pc \in LockedSteps /\ k.op = call[c].op
        /\ {k.config, k.original} \subseteq Configs
    BY <1>0, <2>1, <2>2 DEF Calls, Steps, LockedSteps
  <2> HIDE DEF k
  <2>4. CallsTyped'
    BY <1>0, <2>1, <2>3
       DEF CallsTyped, CallShape, LockedSteps, ConnectSteps, TypeOK, op
  <2> QED BY <1>1, <2>1, <2>4
       DEF Begin, TypeOK, CallsTyped, outside, runtime
<1>2. CASE BeginFails(c)
  <2>1. CallsTyped'
    BY <1>0, <1>2, ReturnTyped DEF BeginFails, settings
  <2> QED BY <1>2, <2>1
       DEF BeginFails, TypeOK, CallsTyped, settings, outside, runtime, history
<1>3. CASE ApplyEffect(c)
  <2>1. CallsTyped'
    BY <1>0, <1>3, GotoTyped DEF ApplyEffect, LockedSteps, Steps, ConnectSteps
  <2> QED BY <1>0, <1>3, <2>1
       DEF ApplyEffect, TypeOK, CallsTyped, outside, runtime, history,
           CallShape, LockedSteps, Configs
<1>4. CASE EffectFails(c)
  <2>1. lock = c /\ lock' = NoCaller
    BY <1>0, <1>4 DEF EffectFails, LockedSteps
  <2>2. CallsTyped'
    BY <1>0, <1>4, <2>1, ReturnTyped DEF EffectFails, LifecycleAssumption
  <2>3. registered' \in BOOLEAN /\ uncompensated' \in BOOLEAN
    BY <1>0, <1>4 DEF EffectFails, TypeOK, CallShape, LockedSteps, Configs
  <2> QED BY <1>4, <2>1, <2>2, <2>3
       DEF EffectFails, TypeOK, CallsTyped, outside, runtime
<1>5. CASE ApplyDraft(c)
  <2>1. CallsTyped'
    BY <1>0, <1>5, GotoTyped
       DEF ApplyDraft, LockedSteps, Steps, ConnectSteps, settings
  <2>2. proxied' \in BOOLEAN
    BY <1>0, <1>5
       DEF ApplyDraft, CallShape, LockedSteps, Configs, ProxyFor,
           LifecycleAssumption
  <2> QED BY <1>5, <2>1, <2>2
       DEF ApplyDraft, TypeOK, CallsTyped, settings, runtime, history
<1>6. CASE DraftFails(c)
  <2>1. lock = c /\ lock' = NoCaller
    BY <1>0, <1>6 DEF DraftFails, LockedSteps
  <2>2. CallsTyped'
    BY <1>0, <1>6, <2>1, ReturnTyped DEF DraftFails, LifecycleAssumption
  <2> QED BY <1>6, <2>1, <2>2
       DEF DraftFails, TypeOK, CallsTyped, runtime, history
<1>7. CASE Commit(c)
  <2>1. CallsTyped'
    BY <1>0, <1>7, GotoTyped DEF Commit, LockedSteps, Steps, ConnectSteps
  <2> QED BY <1>0, <1>7, <2>1
       DEF Commit, TypeOK, CallsTyped, outside, runtime, history, CallShape,
           LockedSteps
<1>8. CASE CommitFails(c)
  <2>1. lock = c /\ lock' = NoCaller
    BY <1>0, <1>8 DEF CommitFails, LockedSteps
  <2>2. CASE Goto(c, "undo")
    <3>1. CallsTyped'
      BY <1>0, <1>8, <2>1, <2>2, GotoTyped
         DEF CommitFails, LockedSteps, Steps, ConnectSteps, LifecycleAssumption
    <3> QED BY <1>8, <2>1, <3>1
         DEF CommitFails, TypeOK, CallsTyped, outside, runtime, history
  <2>3. CASE Return(c)
    <3>1. CallsTyped'
      BY <1>0, <2>1, <2>3, ReturnTyped DEF LifecycleAssumption
    <3> QED BY <1>8, <2>1, <3>1
         DEF CommitFails, TypeOK, CallsTyped, outside, runtime, history
  <2> QED BY <1>8, <2>2, <2>3 DEF CommitFails
<1>9. CASE Publish(c)
  <2>1. lock = c /\ lock' = NoCaller /\ shared' \in Configs
    BY <1>0, <1>9 DEF Publish, LockedSteps, CallShape
  <2>2. CASE Return(c)
    <3>1. CallsTyped'
      BY <1>0, <2>1, <2>2, ReturnTyped DEF LifecycleAssumption
    <3> QED BY <1>9, <2>1, <3>1
         DEF Publish, TypeOK, CallsTyped, outside, runtime, history
  <2>3. CASE Goto(c, Afterwards(c)) /\ Afterwards(c) # "idle"
    <3>1. Afterwards(c) \in {"check", "recheck"}
      BY <2>3 DEF Afterwards
    <3>2. CallsTyped'
      BY <1>0, <1>9, <2>1, <2>3, <3>1, GotoTyped
         DEF Publish, LockedSteps, Steps, ConnectSteps, LifecycleAssumption
    <3> QED BY <1>9, <2>1, <3>2
         DEF Publish, TypeOK, CallsTyped, outside, runtime, history
  <2> QED BY <1>9, <2>2, <2>3 DEF Publish
<1>10. CASE Undo(c)
  <2>1. lock # c /\ UNCHANGED lock
    BY <1>0, <1>10 DEF Undo, LockedSteps
  <2>2. CallsTyped'
    BY <1>0, <1>10, <2>1, ReturnTyped DEF Undo
  <2>3. /\ {registered', proxied'} \subseteq BOOLEAN
        /\ uncompensated' \in BOOLEAN
    BY <1>0, <1>10, LifecycleAssumption
       DEF Undo, TypeOK, CallShape, Configs, Apply, ProxyFor,
           LifecycleAssumption
  <2> QED BY <1>10, <2>1, <2>2, <2>3 DEF Undo, TypeOK, CallsTyped, runtime
<1> QED BY <1>1, <1>2, <1>3, <1>4, <1>5, <1>6, <1>7, <1>8, <1>9, <1>10
     DEF ChangeStep

\* A connect that fails moves on with an outcome.
LEMMA FailTyped ==
    ASSUME TypeOK, NEW c \in Callers, NEW pc \in {"failed", "cleanup"},
           NEW missing \in BOOLEAN, Fail(c, pc, missing),
           call[c].pc \in ConnectSteps, UNCHANGED lock
    PROVE  /\ CallsTyped'
           /\ survived' \in BOOLEAN
           /\ UNCHANGED <<overlap, silent, uncompensated, stopped>>
<1> DEFINE k == [call[c] EXCEPT !.pc = pc, !.missing = missing]
<1>1. k \in Calls /\ k.pc = pc /\ k.config = call[c].config
  BY DEF TypeOK, Calls, Steps, ConnectSteps
<1>2. call' = [call EXCEPT ![c] = k]
  BY DEF Fail, TypeOK, Calls
<1>3. call[c].config \in Configs /\ lock # c
  BY DEF TypeOK, CallShape, LockedSteps, ConnectSteps
<1> HIDE DEF k
<1>4. CallsTyped'
  BY <1>1, <1>2, <1>3
     DEF TypeOK, CallsTyped, CallShape, LockedSteps, ConnectSteps
<1> QED BY <1>4 DEF Fail, TypeOK

\* Connects leave the configuration alone.
LEMMA ConnectTyped ==
    ASSUME TypeOK, NEW c \in Callers, ConnectStep(c)
    PROVE  TypeOK'
<1> USE DEF LockedSteps, ConnectSteps, Steps, settings, outside, runtime,
            history
<1>0. /\ call[c] \in Calls /\ CallShape(c)
      /\ call \in [Callers -> Calls]
      /\ NativeTun \in BOOLEAN
  BY LifecycleAssumption DEF TypeOK, LifecycleAssumption
<1>a. ASSUME call[c].pc \in ConnectSteps
      PROVE  /\ Plan(call[c].config) \in Plans
             /\ PreOf(Plan(call[c].config)) \in Plans \cup {None}
             /\ ProxyFor(call[c].config) \in BOOLEAN
  BY <1>0, <1>a DEF CallShape, Plan, Plans, PreOf, Configs, ProxyFor
<1>1. CASE Check(c)
  <2>1. CallsTyped'
    BY <1>0, <1>1, GotoTyped, ReturnTyped DEF Check, CallShape
  <2> QED BY <1>1, <2>1 DEF Check, TypeOK, CallsTyped
<1>2. CASE Recheck(c)
  <2>1. CallsTyped'
    BY <1>0, <1>2, GotoTyped, ReturnTyped DEF Recheck, CallShape
  <2> QED BY <1>2, <2>1 DEF Recheck, TypeOK, CallsTyped
<1>3. CASE WriteMain(c)
  <2>1. CallsTyped'
    BY <1>0, <1>3, GotoTyped DEF WriteMain, CallShape
  <2> QED BY <1>3, <1>a, <2>1 DEF WriteMain, TypeOK, CallsTyped
<1>4. CASE PrepareFails(c)
  <2>1. CallsTyped' /\ survived' \in BOOLEAN
    BY <1>4, FailTyped DEF PrepareFails
  <2> QED BY <1>4, <2>1 DEF PrepareFails, Fail, TypeOK, CallsTyped
<1>5. CASE WritePre(c)
  <2>1. CallsTyped'
    BY <1>0, <1>5, GotoTyped DEF WritePre, CallShape
  <2> QED BY <1>5, <1>a, <2>1 DEF WritePre, TypeOK, CallsTyped
<1>6. CASE CoreMissing(c)
  <2>1. CallsTyped' /\ survived' \in BOOLEAN
    BY <1>6, FailTyped DEF CoreMissing
  <2> QED BY <1>6, <2>1 DEF CoreMissing, Fail, TypeOK, CallsTyped
<1>7. CASE Start(c)
  <2>1. CallsTyped'
    BY <1>0, <1>7, GotoTyped DEF Start, CallShape
  <2> QED BY <1>7, <1>a, <2>1 DEF Start, TypeOK, CallsTyped
<1>8. CASE StartStopFails(c)
  <2>1. CallsTyped' /\ survived' \in BOOLEAN
    BY <1>8, FailTyped DEF StartStopFails
  <2> QED BY <1>8, <2>1 DEF StartStopFails, Fail, TypeOK, CallsTyped
<1>9. CASE StartSpawnFails(c)
  <2>1. CallsTyped'
    BY <1>0, <1>9, GotoTyped DEF StartSpawnFails, CallShape
  <2> QED BY <1>9, <2>1 DEF StartSpawnFails, TypeOK, CallsTyped, Down
<1>10. CASE Cleanup(c)
  <2>1. CallsTyped'
    BY <1>0, <1>10, GotoTyped DEF Cleanup, CallShape
  <2> QED BY <1>10, <2>1 DEF Cleanup, TypeOK, CallsTyped, NoFiles
<1>11. CASE Started(c)
  <2>1. CallsTyped'
    BY <1>0, <1>11, GotoTyped DEF Started, CallShape
  <2> QED BY <1>11, <2>1 DEF Started, TypeOK, CallsTyped
<1>12. CASE ApplyProxy(c)
  <2>1. CallsTyped'
    BY <1>0, <1>12, ReturnTyped DEF ApplyProxy, CallShape
  <2>2. proxied' \in BOOLEAN
    BY <1>12, <1>a DEF ApplyProxy, Apply
  <2> QED BY <1>12, <2>1, <2>2 DEF ApplyProxy, TypeOK, CallsTyped
<1>13. CASE Failed(c)
  <2>1. CallsTyped'
    BY <1>0, <1>13, GotoTyped DEF Failed, CallShape
  <2> QED BY <1>13, <2>1 DEF Failed, TypeOK, CallsTyped
<1>14. CASE RestoreNative(c)
  <2>1. CallsTyped'
    BY <1>0, <1>14, GotoTyped, ReturnTyped DEF RestoreNative, CallShape
  <2> QED BY <1>14, <2>1 DEF RestoreNative, RestoreProxy, TypeOK, CallsTyped
<1>15. CASE Refresh(c)
  <2>1. CallsTyped'
    BY <1>0, <1>15, ReturnTyped DEF Refresh, CallShape
  <2> QED BY <1>15, <2>1 DEF Refresh, StatusState, TypeOK, CallsTyped
<1>16. CASE SkipRefresh(c)
  <2>1. CallsTyped'
    BY <1>0, <1>16, ReturnTyped DEF SkipRefresh, CallShape
  <2> QED BY <1>16, <2>1 DEF SkipRefresh, TypeOK, CallsTyped
<1> QED BY <1>1, <1>2, <1>3, <1>4, <1>5, <1>6, <1>7, <1>8, <1>9, <1>10,
           <1>11, <1>12, <1>13, <1>14, <1>15, <1>16 DEF ConnectStep

\* Nor do disconnects touch it.
LEMMA DisconnectTyped ==
    ASSUME TypeOK, NEW c \in Callers, DisconnectStep(c)
    PROVE  TypeOK'
<1> USE DEF LockedSteps, ConnectSteps, DisconnectSteps, Steps, settings,
            outside, runtime, history
<1>0. call[c] \in Calls /\ CallShape(c)
  BY DEF TypeOK
<1>1. CASE Stop(c)
  <2>1. CallsTyped'
    BY <1>0, <1>1, GotoTyped DEF Stop, CallShape
  <2> QED BY <1>1, <2>1 DEF Stop, Down, OthersConnecting, TypeOK, CallsTyped
<1>2. CASE StopFails(c)
  <2>1. CallsTyped'
    BY <1>0, <1>2, GotoTyped DEF StopFails, CallShape
  <2> QED BY <1>2, <2>1 DEF StopFails, TypeOK, CallsTyped
<1>3. CASE RemoveFiles(c)
  <2>1. CallsTyped'
    BY <1>0, <1>3, GotoTyped DEF RemoveFiles, CallShape
  <2> QED BY <1>3, <2>1 DEF RemoveFiles, NoFiles, TypeOK, CallsTyped
<1>4. CASE Restore(c)
  <2>1. CallsTyped'
    BY <1>0, <1>4, GotoTyped DEF Restore, CallShape
  <2> QED BY ZenonT(40), <1>4, <2>1 DEF Restore, RestoreProxy, TypeOK, CallsTyped
<1>5. CASE Stopped(c)
  <2>1. CallsTyped'
    BY <1>0, <1>5, ReturnTyped DEF Stopped, CallShape
  <2> QED BY <1>5, <2>1 DEF Stopped, TypeOK, CallsTyped
<1>6. CASE StopFailed(c)
  <2>1. CallsTyped'
    BY <1>0, <1>6, GotoTyped DEF StopFailed, CallShape
  <2> QED BY <1>6, <2>1 DEF StopFailed, StatusState, TypeOK, CallsTyped
<1> QED BY <1>1, <1>2, <1>3, <1>4, <1>5, <1>6 DEF DisconnectStep

\* What the core and the sink do by themselves.
LEMMA EnvironmentTyped ==
    ASSUME TypeOK, CoreCrashes \/ ProviderExits \/ SinkStep
    PROVE  TypeOK' /\ UNCHANGED <<settings, call, uncompensated>>
<1> USE DEF settings, outside, runtime, history
<1>0. ASSUME UNCHANGED <<call, lock>> PROVE CallsTyped'
  BY <1>0 DEF TypeOK, CallsTyped, CallShape
<1>1. CASE CoreCrashes
  <2>1. /\ core' \in [up : BOOLEAN, request : Plans \cup {None},
                      main : Plans \cup {None}, pre : Plans \cup {None}]
        /\ silent' \in BOOLEAN
    <3>1. CASE /\ core' = [core EXCEPT !.main = files.main,
                              !.pre = IF HasPre(core.request) THEN files.pre
                                                              ELSE None]
               /\ UNCHANGED silent
      <4>1. /\ files.main \in Plans \cup {None}
            /\ (IF HasPre(core.request) THEN files.pre ELSE None)
                  \in Plans \cup {None}
        BY DEF TypeOK
      <4> QED BY <3>1, <4>1 DEF TypeOK
    <3>2. CASE core' = Down /\ silent' = TRUE
      BY <3>2 DEF Down
    <3> QED BY <1>1, <3>1, <3>2 DEF CoreCrashes
  <2> QED BY <1>0, <1>1, <2>1 DEF CoreCrashes, TypeOK, CallsTyped
<1>2. CASE ProviderExits
  BY <1>0, <1>2 DEF ProviderExits, TypeOK, CallsTyped, Down, Resting
<1>3. CASE SinkEmits
  BY <1>0, <1>3 DEF SinkEmits, TypeOK, CallsTyped
<1>4. CASE SinkRestores
  BY <1>0, <1>4 DEF SinkRestores, RestoreProxy, TypeOK, CallsTyped
<1> QED BY <1>1, <1>2, <1>3, <1>4 DEF SinkStep

LEMMA TypeInit == Init => TypeOK
<1> SUFFICES ASSUME Init PROVE TypeOK
  OBVIOUS
<1>1. shared \in Configs /\ stored \in Configs /\ registered \in BOOLEAN
  BY DEF Init, Configs
<1>2. CallsTyped
  BY NoCallTyped, LifecycleAssumption
     DEF Init, CallsTyped, CallShape, LockedSteps, ConnectSteps,
         LifecycleAssumption
<1> QED BY <1>1, <1>2, LifecycleAssumption
     DEF Init, TypeOK, CallsTyped, NoFiles, Down, LifecycleAssumption

LEMMA TypeStep == TypeOK /\ [Next]_vars => TypeOK'
<1> SUFFICES ASSUME TypeOK, [Next]_vars PROVE TypeOK'
  OBVIOUS
<1>1. ASSUME NEW c \in Callers, Receive(c) \/ CallStep(c) PROVE TypeOK'
  BY <1>1, ReceiveTyped, ChangeTyped, ConnectTyped, DisconnectTyped
     DEF CallStep
<1>2. CASE CoreCrashes \/ ProviderExits \/ SinkStep
  BY <1>2, EnvironmentTyped
<1>3. CASE UNCHANGED vars
  BY <1>3 DEF vars, settings, runtime, outside, history, TypeOK, CallShape
<1> QED BY <1>1, <1>2, <1>3 DEF Next

\* Every state of the shell's commands is well typed: the lock is held at the
\* locked steps only, and each step finds the values it reads.
THEOREM TypeCorrect == Spec => []TypeOK
  BY TypeInit, TypeStep, PTL DEF Spec

-----------------------------------------------------------------------------
(* The shared and the stored configuration.                                *)

\* A change with the lock works on a copy of what is shared now; it is stored
\* before it is shared.
ConfigInv ==
    /\ \A c \in Callers :
          LET k == call[c] IN
          k.pc \in LockedSteps =>
             /\ k.target \in Configs
             /\ k.original = shared
             /\ k.config = Draft(k.op, shared, k.target)
             /\ stored = IF k.pc = "publish" THEN k.config ELSE shared
    /\ SharedIsStored

\* The steps that leave the configuration alone, whoever takes them.
Quiet ==
    /\ UNCHANGED <<settings, uncompensated>>
    /\ \A d \in Callers :
          \/ call'[d] = call[d]
          \/ {call[d].pc, call'[d].pc} \cap (LockedSteps \cup {"undo"}) = {}

LEMMA GotoQuiet ==
    ASSUME TypeOK, NEW c \in Callers, NEW pc, Goto(c, pc) \/ Return(c),
           {call[c].pc, pc} \cap (LockedSteps \cup {"undo"}) = {}
    PROVE  \A d \in Callers :
              \/ call'[d] = call[d]
              \/ {call[d].pc, call'[d].pc} \cap (LockedSteps \cup {"undo"}) = {}
  BY DEF Goto, Return, TypeOK, Calls, LockedSteps, NoCall

LEMMA FailQuiet ==
    ASSUME TypeOK, NEW c \in Callers, NEW pc, NEW missing,
           Fail(c, pc, missing),
           {call[c].pc, pc} \cap (LockedSteps \cup {"undo"}) = {}
    PROVE  \A d \in Callers :
              \/ call'[d] = call[d]
              \/ {call[d].pc, call'[d].pc} \cap (LockedSteps \cup {"undo"}) = {}
  BY DEF Fail, TypeOK, Calls, LockedSteps

LEMMA ReceiveQuiet ==
    ASSUME TypeOK, NEW c \in Callers, Receive(c)
    PROVE  Quiet
<1>1. call[c].pc = "idle" /\ UNCHANGED <<settings, uncompensated>>
  BY DEF Receive, Busy
<1>2. call' = [call EXCEPT ![c] = call'[c]]
      /\ call'[c].pc \in {"write", "stop", "begin"}
  <2>1. CASE Connect(c)
    BY <2>1 DEF Connect, TypeOK, NoCall
  <2>2. CASE Disconnect(c)
    BY <2>2 DEF Disconnect, TypeOK, NoCall
  <2>3. ASSUME NEW op \in Changes, NEW target \in Configs,
               Change(c, op, target)
        PROVE  /\ call' = [call EXCEPT ![c] = call'[c]]
               /\ call'[c].pc \in {"write", "stop", "begin"}
    BY <2>3 DEF Change, TypeOK, NoCall
  <2> QED BY <2>1, <2>2, <2>3 DEF Receive
<1> QED BY <1>1, <1>2 DEF Quiet, TypeOK, LockedSteps

LEMMA RuntimeQuiet ==
    ASSUME TypeOK, NEW c \in Callers, ConnectStep(c) \/ DisconnectStep(c)
    PROVE  Quiet
<1> USE DEF Quiet, LockedSteps, history
<1>1. CASE Check(c) \/ Recheck(c) \/ Refresh(c) \/ SkipRefresh(c)
  <2>1. Goto(c, "write") \/ Goto(c, "applyProxy") \/ Return(c)
    BY <1>1 DEF Check, Recheck, Refresh, SkipRefresh
  <2>2. call[c].pc \in {"check", "recheck", "refresh"}
    BY <1>1 DEF Check, Recheck, Refresh, SkipRefresh
  <2>3. UNCHANGED <<settings, uncompensated>>
    BY <1>1 DEF Check, Recheck, Refresh, SkipRefresh
  <2> QED BY <2>1, <2>2, <2>3, GotoQuiet
<1>2. CASE WriteMain(c)
  BY <1>2, GotoQuiet DEF WriteMain
<1>3. CASE PrepareFails(c)
  BY <1>3, FailQuiet DEF PrepareFails, Fail
<1>4. CASE WritePre(c)
  BY <1>4, GotoQuiet DEF WritePre
<1>5. CASE CoreMissing(c)
  BY <1>5, FailQuiet DEF CoreMissing, Fail
<1>6. CASE Start(c)
  BY <1>6, GotoQuiet DEF Start
<1>7. CASE StartStopFails(c)
  BY <1>7, FailQuiet DEF StartStopFails, Fail
<1>8. CASE StartSpawnFails(c)
  BY <1>8, GotoQuiet DEF StartSpawnFails
<1>9. CASE Cleanup(c)
  BY <1>9, GotoQuiet DEF Cleanup
<1>10. CASE Started(c)
  BY <1>10, GotoQuiet DEF Started
<1>11. CASE ApplyProxy(c)
  BY <1>11, GotoQuiet DEF ApplyProxy
<1>12. CASE Failed(c)
  BY <1>12, GotoQuiet DEF Failed
<1>13. CASE RestoreNative(c)
  BY <1>13, GotoQuiet DEF RestoreNative
<1>14. CASE Stop(c)
  BY <1>14, GotoQuiet DEF Stop
<1>15. CASE StopFails(c)
  BY <1>15, GotoQuiet DEF StopFails
<1>16. CASE RemoveFiles(c)
  BY <1>16, GotoQuiet DEF RemoveFiles
<1>17. CASE Restore(c)
  BY <1>17, GotoQuiet DEF Restore
<1>18. CASE Stopped(c)
  BY <1>18, GotoQuiet DEF Stopped
<1>19. CASE StopFailed(c)
  BY <1>19, GotoQuiet DEF StopFailed
<1> QED BY <1>1, <1>2, <1>3, <1>4, <1>5, <1>6, <1>7, <1>8, <1>9, <1>10,
           <1>11, <1>12, <1>13, <1>14, <1>15, <1>16, <1>17, <1>18, <1>19
     DEF ConnectStep, DisconnectStep

\* Every step of the shell is a step of a change, or leaves the configuration
\* alone.
LEMMA StepKinds ==
    ASSUME TypeOK, [Next]_vars
    PROVE  Quiet \/ \E c \in Callers : ChangeStep(c)
<1>1. ASSUME NEW c \in Callers, Receive(c) \/ CallStep(c), ~ChangeStep(c)
      PROVE  Quiet
  BY <1>1, ReceiveQuiet, RuntimeQuiet DEF CallStep
<1>2. CASE CoreCrashes \/ ProviderExits \/ SinkStep
  BY <1>2, EnvironmentTyped DEF Quiet
<1>3. CASE UNCHANGED vars
  BY <1>3 DEF vars, history, Quiet
<1> QED BY <1>1, <1>2, <1>3 DEF Next

LEMMA ConfigQuiet ==
    ASSUME TypeOK, ConfigInv, Quiet
    PROVE  ConfigInv'
  BY DEF ConfigInv, Quiet, SharedIsStored, settings

LEMMA ConfigChange ==
    ASSUME TypeOK, TypeOK', ConfigInv, NEW c \in Callers, ChangeStep(c)
    PROVE  ConfigInv'
<1> USE DEF settings
<1>0. /\ call[c] \in Calls /\ call \in [Callers -> Calls]
      /\ NoCaller \notin Callers
      /\ \A d \in Callers : lock = d <=> call[d].pc \in LockedSteps
      /\ \A d \in Callers : lock' = d <=> call'[d].pc \in LockedSteps
  BY LifecycleAssumption DEF TypeOK, CallShape, LifecycleAssumption
\* Only the holder of the lock is at a locked step.
<1>a. SUFFICES
        /\ lock' = c =>
              LET k == call'[c] IN
              /\ k.target \in Configs
              /\ k.original = shared'
              /\ k.config = Draft(k.op, shared', k.target)
              /\ stored' = IF k.pc = "publish" THEN k.config ELSE shared'
        /\ lock' = NoCaller => shared' = stored'
        /\ lock' \notin {c, NoCaller} =>
              /\ UNCHANGED <<shared, stored, lock>>
              /\ \A d \in Callers \ {c} : call'[d] = call[d]
  BY <1>0 DEF ConfigInv, SharedIsStored
<1>1. CASE Begin(c)
  BY <1>0, <1>1
     DEF Begin, ConfigInv, SharedIsStored, CallShape, Calls, TypeOK
<1>2. CASE BeginFails(c)
  BY <1>0, <1>2 DEF BeginFails, ConfigInv, SharedIsStored
<1>3. CASE ApplyEffect(c)
  BY <1>0, <1>3 DEF ApplyEffect, Goto, ConfigInv, LockedSteps, Calls
<1>4. CASE EffectFails(c)
  BY <1>0, <1>4 DEF EffectFails, ConfigInv, LockedSteps
<1>5. CASE ApplyDraft(c)
  BY <1>0, <1>5 DEF ApplyDraft, Goto, ConfigInv, LockedSteps, Calls
<1>6. CASE DraftFails(c)
  BY <1>0, <1>6 DEF DraftFails, ConfigInv, LockedSteps
<1>7. CASE Commit(c)
  BY <1>0, <1>7 DEF Commit, Goto, ConfigInv, LockedSteps, Calls
<1>8. CASE CommitFails(c)
  BY <1>0, <1>8 DEF CommitFails, ConfigInv, LockedSteps
<1>9. CASE Publish(c)
  BY <1>0, <1>9 DEF Publish, ConfigInv, LockedSteps
<1>10. CASE Undo(c)
  BY <1>0, <1>10 DEF Undo, Return, ConfigInv, SharedIsStored, LockedSteps
<1> QED BY <1>1, <1>2, <1>3, <1>4, <1>5, <1>6, <1>7, <1>8, <1>9, <1>10
     DEF ChangeStep

LEMMA ConfigStep ==
    TypeOK /\ ConfigInv /\ [Next]_vars => ConfigInv'
  BY TypeStep, StepKinds, ConfigQuiet, ConfigChange

LEMMA ConfigInit == Init => ConfigInv
  BY DEF Init, ConfigInv, SharedIsStored, NoCall, LockedSteps

\* The running configuration and the stored one agree whenever no change is in
\* progress, whatever failed.
THEOREM SharedStored == Spec => []SharedIsStored
<1>1. ConfigInv => SharedIsStored
  BY DEF ConfigInv
<1> QED BY <1>1, TypeInit, TypeStep, ConfigInit, ConfigStep, PTL DEF Spec

\* Of two changes in progress none overwrites what the other made visible.
THEOREM NoneLost == Spec => NoLostUpdate
<1>1. ASSUME TypeOK, ConfigInv, [Next]_vars,
             NEW f \in {"profile", "tun", "proxy", "auto"},
             shared'[f] # shared[f]
      PROVE  \E c \in Callers : /\ lock = c
                                /\ f \in Fields[call[c].op]
                                /\ shared'[f] = call[c].target[f]
  <2>1. ~Quiet
    BY <1>1 DEF Quiet, settings
  <2>2. PICK c \in Callers : ChangeStep(c)
    BY <1>1, <2>1, StepKinds
  <2>3. Publish(c)
    BY <1>1, <2>2
       DEF ChangeStep, Begin, BeginFails, ApplyEffect, EffectFails, ApplyDraft,
           DraftFails, Commit, CommitFails, Undo, settings
  <2>4. /\ lock = c /\ call[c].op \in Changes /\ call[c].target \in Configs
        /\ shared \in Configs
        /\ shared' = Draft(call[c].op, shared, call[c].target)
    BY <1>1, <2>3
       DEF Publish, TypeOK, CallShape, ConfigInv, LockedSteps
  <2>5. shared'[f] = IF f \in Fields[call[c].op] THEN call[c].target[f]
                                                ELSE shared[f]
    BY <2>4, DraftTyped
  <2> QED BY <1>1, <2>4, <2>5
<1>2. TypeOK /\ ConfigInv /\ [Next]_vars =>
        [ \A f \in {"profile", "tun", "proxy", "auto"} :
            shared'[f] # shared[f] =>
                \E c \in Callers : /\ lock = c
                                   /\ f \in Fields[call[c].op]
                                   /\ shared'[f] = call[c].target[f] ]_vars
  BY <1>1
<1> QED BY <1>2, TypeInit, TypeStep, ConfigInit, ConfigStep, PTL
     DEF Spec, NoLostUpdate

-----------------------------------------------------------------------------
(* What is registered with the OS.                                         *)

\* A settings save whose commit failed and that has not yet taken its
\* registration back.
Owing(c) == call[c].pc = "undo" /\ call[c].op = "saveSettings"

\* Where the registration is at each step of a change, as long as nothing was
\* left uncompensated: a save is ahead of the store between its effect and its
\* commit, or until it has undone the effect.
RegInv ==
    /\ \A c \in Callers :
          /\ call[c].pc = "effect" => call[c].op = "saveSettings"
          /\ call[c].pc = "applyDraft" => call[c].op = "setMode"
          /\ call[c].pc = "undo" => call[c].op \in {"setMode", "saveSettings"}
    /\ uncompensated \/
          /\ \A c \in Callers :
                /\ call[c].pc \in {"effect", "applyDraft", "publish"} =>
                      registered = stored.auto
                /\ call[c].pc = "commit" =>
                      registered = IF call[c].op = "saveSettings"
                                   THEN call[c].config.auto ELSE stored.auto
                /\ Owing(c) => /\ lock = NoCaller
                               /\ registered = call[c].config.auto
                               /\ stored = call[c].original
                               /\ \A d \in Callers \ {c} : ~Owing(d)
          /\ lock = NoCaller /\ (\A c \in Callers : ~Owing(c)) =>
                registered = stored.auto

LEMMA RegQuiet ==
    ASSUME TypeOK, RegInv, Quiet
    PROVE  RegInv'
  BY ZenonT(40) DEF RegInv, Quiet, Owing, settings, LockedSteps

LEMMA RegChange ==
    ASSUME TypeOK, TypeOK', ConfigInv, RegInv, NEW c \in Callers,
           ChangeStep(c)
    PROVE  RegInv'
<1> USE DEF settings, history
<1>0. /\ call[c] \in Calls /\ call \in [Callers -> Calls]
      /\ NoCaller \notin Callers /\ CallShape(c)
      /\ \A d \in Callers : lock = d <=> call[d].pc \in LockedSteps
      /\ shared \in Configs
  BY LifecycleAssumption DEF TypeOK, CallShape, LifecycleAssumption
<1>1. CASE Begin(c)
  <2>1. /\ lock = NoCaller /\ lock' = c /\ UNCHANGED <<stored, registered>>
        /\ \A d \in Callers : call[d].pc \notin LockedSteps
    BY <1>0, <1>1 DEF Begin
  <2>2. /\ call'[c].pc = CASE call[c].op = "setMode" -> "applyDraft"
                           [] call[c].op = "saveSettings" -> "effect"
                           [] OTHER -> "commit"
        /\ call'[c].op = call[c].op
        /\ \A d \in Callers \ {c} : call'[d] = call[d]
    BY <1>0, <1>1 DEF Begin, Calls
  <2>3. uncompensated' = (uncompensated \/ \E d \in Callers : Owing(d))
    BY <1>1 DEF Begin, Owing
  <2>4. ~uncompensated' => /\ registered = stored.auto
                           /\ \A d \in Callers : ~Owing(d)
    BY <2>1, <2>3 DEF RegInv
  <2>5. \A d \in Callers : ~Owing(d) => ~Owing(d)'
    BY <2>2 DEF Owing
  <2> QED BY <2>1, <2>2, <2>3, <2>4, <2>5 DEF RegInv, LockedSteps
<1>2. CASE BeginFails(c)
  BY <1>0, <1>2 DEF BeginFails, Return, NoCall, RegInv, Owing
<1>3. CASE ApplyEffect(c)
  BY <1>0, <1>3
     DEF ApplyEffect, Goto, TouchesEffect, RegInv, ConfigInv, Owing,
         LockedSteps, Calls
<1>4. CASE EffectFails(c)
  BY <1>0, <1>4
     DEF EffectFails, Return, NoCall, RegInv, ConfigInv, Owing, LockedSteps
<1>5. CASE ApplyDraft(c)
  BY <1>0, <1>5 DEF ApplyDraft, Goto, RegInv, Owing, LockedSteps, Calls
<1>6. CASE DraftFails(c)
  BY <1>0, <1>6 DEF DraftFails, Return, NoCall, RegInv, Owing, LockedSteps
<1>7. CASE Commit(c)
  <2>1. call[c].op # "saveSettings" => call[c].config.auto = stored.auto
    BY <1>0, <1>7, DraftTyped
       DEF Commit, ConfigInv, CallShape, LockedSteps, Changes, Fields
  <2> QED BY <1>0, <1>7, <2>1
       DEF Commit, Goto, RegInv, Owing, LockedSteps, Calls
<1>8. CASE CommitFails(c)
  BY <1>0, <1>8
     DEF CommitFails, Goto, Return, NoCall, RegInv, ConfigInv, Owing,
         LockedSteps, Calls
<1>9. CASE Publish(c)
  BY <1>0, <1>9
     DEF Publish, Goto, Return, NoCall, Afterwards, RegInv, Owing,
         LockedSteps, Calls
<1>10. CASE Undo(c)
  <2>1. /\ UNCHANGED <<stored, lock>>
        /\ call'[c].pc = "idle"
        /\ \A d \in Callers \ {c} : call'[d] = call[d]
        /\ call[c].pc = "undo"
    BY <1>0, <1>10 DEF Undo, Return, NoCall
  <2>2. CASE call[c].op = "setMode"
    <3>1. UNCHANGED <<registered, uncompensated>> /\ ~Owing(c)
      BY <1>10, <2>2 DEF Undo, Owing
    <3> QED BY <2>1, <3>1 DEF RegInv, Owing
  <2>3. CASE call[c].op # "setMode" /\ ~uncompensated'
    <3>1. call[c].op = "saveSettings" /\ Owing(c) /\ ~uncompensated
      BY <1>0, <1>10, <2>1, <2>3 DEF Undo, Owing, RegInv
    <3>2. /\ lock = NoCaller /\ registered = call[c].config.auto
          /\ stored = call[c].original
          /\ \A d \in Callers \ {c} : ~Owing(d)
      BY <3>1 DEF RegInv
    <3>3. registered' = stored.auto
      BY <1>10, <2>3, <3>1, <3>2 DEF Undo, TouchesEffect
    <3>4. \A d \in Callers : call[d].pc \notin LockedSteps
      BY <1>0, <3>2
    <3> QED BY <2>1, <3>2, <3>3, <3>4 DEF RegInv, Owing, LockedSteps
  <2> QED BY <2>1, <2>2, <2>3 DEF RegInv
<1> QED BY <1>1, <1>2, <1>3, <1>4, <1>5, <1>6, <1>7, <1>8, <1>9, <1>10
     DEF ChangeStep

LEMMA RegStep ==
    TypeOK /\ ConfigInv /\ RegInv /\ [Next]_vars => RegInv'
  BY TypeStep, StepKinds, RegQuiet, RegChange

LEMMA RegInit == Init => RegInv
  BY DEF Init, RegInv, Owing, NoCall

\* Between two changes, what is registered with the OS is what is stored,
\* unless a compensation failed or came after another change began.
THEOREM RegisteredStored == Spec => []RegisteredIsStored
<1>1. RegInv => RegisteredIsStored
  BY DEF RegInv, RegisteredIsStored, Owing
<1> QED BY <1>1, TypeInit, TypeStep, ConfigInit, ConfigStep, RegInit, RegStep,
           PTL DEF Spec

-----------------------------------------------------------------------------
(* One command at a time.                                                  *)

\* Nothing else is in progress beside a command, or beside the sink.
Alone ==
    /\ \A c, d \in Callers : Busy(c) /\ Busy(d) => c = d
    /\ sink # "idle" => \A c \in Callers : ~Busy(c)

\* The core runs what it was started for and the files hold it for a restart.
FilesFit ==
    /\ core.main = core.request /\ core.pre = PreOf(core.request)
    /\ files.main = core.request /\ files.pre = PreOf(core.request)

\* Between two commands.
Settled ==
    /\ core.up /\ ~survived => FilesFit /\ core.request.tun = shared.tun
    /\ ~silent /\ ~survived /\ sink # "emit" => shown = StatusState

\* The steps at which the window shows what a command is about to do.
Telling == {"write", "writePre", "start", "cleanup", "started", "failed",
            "stop", "removeFiles", "restore", "stopped", "stopFailed"}

\* What the command in progress finds at each of its steps.
SoloHere(c) ==
    LET k == call[c] IN
    /\ core.up /\ ~survived /\ k.pc \notin {"writePre", "start"} => FilesFit
    /\ core.up /\ ~survived
       /\ k.pc \notin {"check", "write", "writePre", "start"}
          => core.request.tun = shared.tun
    /\ ~silent /\ ~survived /\ k.pc \notin Telling => shown = StatusState
    /\ k.pc \in {"writePre", "start"} => files.main = Plan(k.config)
    /\ k.pc = "start" => files.pre = PreOf(Plan(k.config))
    /\ k.pc \in {"check", "write", "writePre", "start"} => k.config = shared
    /\ k.pc \in {"cleanup", "failed"} => (core.up => survived)
    /\ k.pc \in {"removeFiles", "restore", "stopped"} => ~core.up
    /\ k.pc \in {"started", "applyProxy"} => core.up \/ silent

SoloInv ==
    /\ Alone
    /\ sink # "idle" => ~core.up
    /\ (\A c \in Callers : ~Busy(c)) => Settled
    /\ \A c \in Callers : Busy(c) => SoloHere(c)

\* A step of the one command in progress.
LEMMA SoloMove ==
    ASSUME TypeOK, SoloInv, NEW c \in Callers, Busy(c),
           \A d \in Callers \ {c} : call'[d] = call[d],
           UNCHANGED sink,
           Busy(c)' => SoloHere(c)',
           ~Busy(c)' => Settled'
    PROVE  SoloInv'
<1>1. sink = "idle" /\ \A d \in Callers \ {c} : ~Busy(d)
  BY DEF SoloInv, Alone
<1>2. \A d \in Callers \ {c} : ~Busy(d)'
  BY <1>1 DEF Busy
<1> QED
  BY <1>1, <1>2 DEF SoloInv, Alone

\* What the ways to move a call on do to it.
LEMMA CallMoves ==
    ASSUME TypeOK, NEW c \in Callers
    PROVE  /\ \A pc : Goto(c, pc) =>
                 /\ call'[c].pc = pc
                 /\ call'[c].config = call[c].config
                 /\ \A d \in Callers \ {c} : call'[d] = call[d]
           /\ \A pc, missing : Fail(c, pc, missing) =>
                 /\ call'[c].pc = pc
                 /\ call'[c].config = call[c].config
                 /\ \A d \in Callers \ {c} : call'[d] = call[d]
           /\ Return(c) =>
                 /\ call'[c].pc = "idle"
                 /\ \A d \in Callers \ {c} : call'[d] = call[d]
  BY DEF TypeOK, Calls, Goto, Fail, Return, NoCall

\* A connect that fails: the window is still to be told, and what runs has
\* outlived it.
LEMMA SoloFails ==
    ASSUME TypeOK, SoloInv, NEW c \in Callers, Busy(c),
           NEW pc \in {"failed", "cleanup"}, NEW missing, Fail(c, pc, missing),
           UNCHANGED <<settings, outside, runtime, sink>>
    PROVE  SoloInv'
<1>1. /\ call'[c].pc = pc /\ \A d \in Callers \ {c} : call'[d] = call[d]
      /\ core'.up => survived'
  BY CallMoves DEF Fail, runtime
<1>2. Busy(c)' /\ SoloHere(c)'
  BY <1>1 DEF SoloHere, Busy, Telling
<1> QED
  BY <1>1, <1>2, SoloMove

LEMMA SoloConnect ==
    ASSUME TypeOK, SoloInv, NEW c \in Callers, ConnectStep(c)
    PROVE  SoloInv'
<1> USE CallMoves DEF SoloHere, Settled, FilesFit, StatusState, Busy, Telling,
        settings, outside, runtime, history
<1>0. /\ Busy(c) /\ SoloHere(c) /\ sink = "idle"
      /\ files \in [main : Plans \cup {None}, pre : Plans \cup {None}]
  BY DEF ConnectStep, Check, Recheck, WriteMain, PrepareFails, WritePre,
         CoreMissing, Start, StartStopFails, StartSpawnFails, Cleanup, Started,
         ApplyProxy, Failed, RestoreNative, Refresh, SkipRefresh, SoloInv,
         Alone, TypeOK
<1>1. CASE Check(c)
  BY <1>0, <1>1, SoloMove DEF Check
<1>2. CASE Recheck(c)
  BY <1>0, <1>2, SoloMove DEF Recheck
<1>3. CASE WriteMain(c)
  BY <1>0, <1>3, SoloMove DEF WriteMain
<1>4. CASE PrepareFails(c)
  BY <1>0, <1>4, SoloFails DEF PrepareFails
<1>5. CASE WritePre(c)
  BY <1>0, <1>5, SoloMove DEF WritePre
<1>6. CASE CoreMissing(c)
  BY <1>0, <1>6, SoloFails DEF CoreMissing
<1>7. CASE Start(c)
  BY <1>0, <1>7, SoloMove DEF Start, Plan, PreOf
<1>8. CASE StartStopFails(c)
  BY <1>0, <1>8, SoloFails DEF StartStopFails
<1>9. CASE StartSpawnFails(c)
  BY <1>0, <1>9, SoloMove DEF StartSpawnFails, Down
<1>10. CASE Cleanup(c)
  BY <1>0, <1>10, SoloMove DEF Cleanup
<1>11. CASE Started(c)
  BY <1>0, <1>11, SoloMove DEF Started
<1>12. CASE ApplyProxy(c)
  BY <1>0, <1>12, SoloMove DEF ApplyProxy
<1>13. CASE Failed(c)
  BY <1>0, <1>13, SoloMove DEF Failed
<1>14. CASE RestoreNative(c)
  BY <1>0, <1>14, SoloMove DEF RestoreNative
<1>15. CASE Refresh(c)
  BY <1>0, <1>15, SoloMove DEF Refresh
<1>16. CASE SkipRefresh(c)
  BY <1>0, <1>16, SoloMove DEF SkipRefresh
<1> QED BY <1>1, <1>2, <1>3, <1>4, <1>5, <1>6, <1>7, <1>8, <1>9, <1>10,
           <1>11, <1>12, <1>13, <1>14, <1>15, <1>16 DEF ConnectStep

LEMMA SoloDisconnect ==
    ASSUME TypeOK, SoloInv, NEW c \in Callers, DisconnectStep(c)
    PROVE  SoloInv'
<1> USE CallMoves DEF SoloHere, Settled, FilesFit, StatusState, Busy, Telling,
        settings, outside, runtime, history
<1>0. Busy(c) /\ SoloHere(c) /\ sink = "idle"
  BY DEF DisconnectStep, Stop, StopFails, RemoveFiles, Restore, Stopped,
         StopFailed, SoloInv, Alone
<1>1. CASE Stop(c)
  BY <1>0, <1>1, SoloMove DEF Stop, Down
<1>2. CASE StopFails(c)
  BY <1>0, <1>2, SoloMove DEF StopFails
<1>3. CASE RemoveFiles(c)
  BY <1>0, <1>3, SoloMove DEF RemoveFiles
<1>4. CASE Restore(c)
  BY <1>0, <1>4, SoloMove DEF Restore
<1>5. CASE Stopped(c)
  BY <1>0, <1>5, SoloMove DEF Stopped
<1>6. CASE StopFailed(c)
  BY <1>0, <1>6, SoloMove DEF StopFailed
<1> QED BY <1>1, <1>2, <1>3, <1>4, <1>5, <1>6 DEF DisconnectStep

\* A change reaches the core only through the connect that follows it: if it
\* alters TUN, it checks the core before it returns.
LEMMA SoloChange ==
    ASSUME TypeOK, ConfigInv, SoloInv, NEW c \in Callers, ChangeStep(c)
    PROVE  SoloInv'
<1> USE CallMoves DEF SoloHere, Settled, FilesFit, StatusState, Busy, Telling,
        settings, outside, runtime, history
<1>0. /\ Busy(c) /\ SoloHere(c) /\ sink = "idle"
      /\ call[c].pc \in LockedSteps \cup {"begin", "undo"}
  BY DEF ChangeStep, Begin, BeginFails, ApplyEffect, EffectFails, ApplyDraft,
         DraftFails, Commit, CommitFails, Publish, Undo, SoloInv, Alone,
         LockedSteps
\* A step that shares nothing new.
<1>1. ASSUME \A d \in Callers \ {c} : call'[d] = call[d],
             call'[c].pc \in {"idle", "undo"} \cup LockedSteps,
             UNCHANGED <<shared, files, core, sink, survived, silent, shown>>
      PROVE  SoloInv'
  <2>1. Busy(c)' => SoloHere(c)'
    BY <1>0, <1>1 DEF LockedSteps
  <2>2. ~Busy(c)' => Settled'
    BY <1>0, <1>1 DEF LockedSteps
  <2> QED
    BY <1>0, <1>1, <2>1, <2>2, SoloMove
<1>2. CASE Begin(c)
  <2>1. /\ call'[c].pc \in {"applyDraft", "effect", "commit"}
        /\ \A d \in Callers \ {c} : call'[d] = call[d]
    BY <1>2 DEF Begin, TypeOK, Calls
  <2> QED
    BY <1>1, <1>2, <2>1 DEF Begin, LockedSteps
<1>3. CASE BeginFails(c) \/ EffectFails(c) \/ DraftFails(c) \/ Undo(c)
  BY <1>1, <1>3 DEF BeginFails, EffectFails, DraftFails, Undo
<1>4. CASE ApplyEffect(c) \/ ApplyDraft(c) \/ Commit(c)
  BY <1>1, <1>4 DEF ApplyEffect, ApplyDraft, Commit, LockedSteps
<1>5. CASE CommitFails(c)
  BY <1>1, <1>5 DEF CommitFails, LockedSteps
<1>6. CASE Publish(c)
  <2> DEFINE k == call[c]
  <2>1. /\ k.config = Draft(k.op, shared, k.target) /\ k.original = shared
        /\ k.op \in Changes /\ shared \in Configs /\ k.target \in Configs
    BY <1>6 DEF Publish, ConfigInv, LockedSteps, TypeOK, CallShape
  <2>2. "tun" \notin Fields[k.op] => k.config.tun = shared.tun
    BY <2>1, DraftTyped
  <2>3. k.op \in {"setTun", "setMode", "setProfile", "saveSettings"}
    BY <2>1 DEF Changes, Fields
  <2>4. Afterwards(c) # "check" => k.config.tun = shared.tun
    BY <2>1, <2>2, <2>3 DEF Afterwards, Fields
  <2>5. Afterwards(c) \in {"idle", "check", "recheck"}
    BY DEF Afterwards
  <2>6. /\ call'[c].pc = Afterwards(c) /\ shared' = k.config
        /\ call'[c].pc # "idle" => call'[c].config = k.config
        /\ \A d \in Callers \ {c} : call'[d] = call[d]
        /\ UNCHANGED <<files, core, sink, survived, silent, shown>>
        /\ k.pc = "publish"
    BY <1>6 DEF Publish
  <2> HIDE DEF k
  <2>7. Busy(c)' => SoloHere(c)'
    BY <1>0, <2>4, <2>5, <2>6 DEF k
  <2>8. ~Busy(c)' => Settled'
    BY <1>0, <2>4, <2>6 DEF k
  <2> QED
    BY <1>0, <2>6, <2>7, <2>8, SoloMove
<1> QED BY <1>2, <1>3, <1>4, <1>5, <1>6 DEF ChangeStep

\* A command arrives where nothing is in progress.
LEMMA SoloReceive ==
    ASSUME TypeOK, SoloInv, NEW c \in Callers, Receive(c), ~overlap'
    PROVE  SoloInv'
<1> USE DEF SoloHere, Settled, FilesFit, StatusState, Busy, Telling,
        settings, runtime
<1>1. /\ Resting /\ Settled
      /\ UNCHANGED <<shared, files, core, sink, survived, silent>>
  BY DEF Receive, SoloInv, Resting
<1>2. \A d \in Callers \ {c} : call'[d] = call[d]
  BY DEF Receive, Connect, Disconnect, Change, TypeOK
<1>3. \/ call'[c].pc = "write" /\ call'[c].config = shared
      \/ call'[c].pc = "stop"
      \/ call'[c].pc = "begin" /\ UNCHANGED shown
  <2>1. CASE Connect(c)
    <3>1. call'[c] = [NoCall EXCEPT !.pc = "write", !.config = shared]
      BY <2>1 DEF Connect, TypeOK
    <3> QED
      BY <3>1 DEF NoCall
  <2>2. CASE Disconnect(c)
    BY <2>2 DEF Disconnect, TypeOK, NoCall
  <2>3. ASSUME NEW op \in Changes, NEW target \in Configs,
               Change(c, op, target)
        PROVE  call'[c].pc = "begin" /\ UNCHANGED shown
    BY <2>3 DEF Change, TypeOK, NoCall
  <2> QED
    BY <2>1, <2>2, <2>3 DEF Receive
<1>4. SoloHere(c)'
  BY <1>1, <1>3 DEF Resting
<1> QED
  BY <1>1, <1>2, <1>3, <1>4 DEF SoloInv, Alone, Resting

\* The core and the provider end by themselves.
LEMMA SoloEnvironment ==
    ASSUME TypeOK, SoloInv, ~overlap', CoreCrashes \/ ProviderExits \/ SinkStep
    PROVE  SoloInv'
<1> USE DEF SoloHere, Settled, FilesFit, StatusState, Busy, Telling,
        settings, outside, runtime, history
<1>1. CASE CoreCrashes
  <2>1. /\ sink = "idle" /\ core.up
        /\ UNCHANGED <<shared, files, shown, sink, call, survived>>
    BY <1>1 DEF CoreCrashes, SoloInv
  <2>2. CASE /\ core' = [core EXCEPT !.main = files.main,
                            !.pre = IF HasPre(core.request) THEN files.pre
                                                            ELSE None]
             /\ UNCHANGED silent
    <3>1. /\ core'.up = core.up /\ core'.request = core.request
          /\ core'.main = files.main
          /\ core'.pre = IF HasPre(core.request) THEN files.pre ELSE None
      BY <2>2 DEF TypeOK
    <3>2. FilesFit => FilesFit'
      BY <2>1, <3>1 DEF PreOf
    <3>3. Settled => Settled'
      BY <2>1, <2>2, <3>1, <3>2
    <3>4. \A c \in Callers : SoloHere(c) => SoloHere(c)'
      BY <2>1, <2>2, <3>1, <3>2
    <3> QED
      BY <2>1, <3>3, <3>4 DEF SoloInv, Alone
  <2>3. CASE core' = Down /\ silent' = TRUE
    <3>1. ~core'.up
      BY <2>3 DEF Down
    <3> QED
      BY <2>1, <2>3, <3>1 DEF SoloInv, Alone
  <2> QED
    BY <1>1, <2>2, <2>3 DEF CoreCrashes
<1>2. CASE ProviderExits
  BY <1>2 DEF ProviderExits, Down, Resting, SoloInv, Alone
<1>3. CASE SinkEmits
  BY <1>3 DEF SinkEmits, SoloInv, Alone
<1>4. CASE SinkRestores
  BY <1>4 DEF SinkRestores, SoloInv, Alone
<1> QED BY <1>1, <1>2, <1>3, <1>4 DEF SinkStep

\* An overlap is never forgotten.
LEMMA OverlapStays ==
    ASSUME [Next]_vars, ~overlap'
    PROVE  ~overlap
  BY ZenonT(40) DEF Next, Receive, CallStep, ChangeStep, ConnectStep, DisconnectStep,
         Begin, BeginFails, ApplyEffect, EffectFails, ApplyDraft, DraftFails,
         Commit, CommitFails, Publish, Undo, Check, Recheck, WriteMain,
         PrepareFails, Fail, WritePre, CoreMissing, Start, StartStopFails,
         StartSpawnFails, Cleanup, Started, ApplyProxy, Failed, RestoreNative,
         Refresh, SkipRefresh, Stop, StopFails, RemoveFiles, Restore, Stopped,
         StopFailed, CoreCrashes, ProviderExits, SinkStep, SinkEmits,
         SinkRestores, vars, history

Solo == ~overlap => SoloInv

LEMMA SoloStep == TypeOK /\ ConfigInv /\ Solo /\ [Next]_vars => Solo'
<1> SUFFICES ASSUME TypeOK, ConfigInv, Solo, [Next]_vars, ~overlap'
             PROVE  SoloInv'
  BY DEF Solo
<1>1. SoloInv
  BY OverlapStays DEF Solo
<1>2. CASE UNCHANGED vars
  BY <1>1, <1>2
  DEF vars, settings, runtime, outside, history, SoloInv, Alone, SoloHere,
      Settled, FilesFit, StatusState, Busy
<1> QED
  BY <1>1, <1>2, SoloReceive, SoloChange, SoloConnect, SoloDisconnect,
     SoloEnvironment DEF Next, CallStep

LEMMA SoloInit == Init => Solo
  BY DEF Init, Solo, SoloInv, Alone, Settled, StatusState, Busy, NoCall, Down

LEMMA SoloInvariant == Spec => [](TypeOK /\ Solo)
  BY TypeInit, TypeStep, ConfigInit, ConfigStep, SoloInit, SoloStep, PTL
  DEF Spec

\* One command at a time: the core runs the configuration it was started for,
\* also after a crash, unless it outlived a connect that failed.
THEOREM RequestsRun == Spec => []RunsItsRequest
<1>1. Solo => RunsItsRequest
  BY DEF Solo, SoloInv, Settled, FilesFit, RunsItsRequest, Resting
<1> QED BY <1>1, SoloInvariant, PTL

\* One command at a time: a saved TUN setting is the one that runs.
THEOREM TunTakesEffect == Spec => []TunSettingTakesEffect
<1>1. Solo => TunSettingTakesEffect
  BY DEF Solo, SoloInv, Settled, TunSettingTakesEffect, Resting
<1> QED BY <1>1, SoloInvariant, PTL

\* One command at a time: the window shows what is the case, whatever failed.
THEOREM WindowRight == Spec => []WindowIsRight
<1>1. Solo => WindowIsRight
  BY DEF Solo, SoloInv, Settled, WindowIsRight, Resting
<1> QED BY <1>1, SoloInvariant, PTL
=============================================================================
