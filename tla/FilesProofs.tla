------------------------------ MODULE FilesProofs ------------------------------
(* Theorems about Downloads and CoreFiles: files that several callers copy.   *)
EXTENDS Downloads, CoreFiles, WellFoundedInduction, TLAPS

-----------------------------------------------------------------------------
(* Updates of the geo and rule set files.                                   *)

Pcs == {"idle", "stage", "commit", "copying", "ok", "failed"}

Versions == 1 .. MaxServed
Acquirings == [pc : Pcs, next : Positions, staged : Seq(Versions)]

DownloadsType ==
    /\ served \in Versions
    /\ acquirer \in [Acquirers -> Acquirings]
    /\ file \in [FileNames -> Nat]
    /\ alone \in [Acquirers -> BOOLEAN] /\ disturbed \in BOOLEAN

\* The part of the set that a call has copied.
Begun(a) == \/ acquirer[a].pc = "copying"
            \/ acquirer[a].pc = "commit" /\ acquirer[a].next > 1

\* A call copies once it has staged every file.
StagedInv(a) ==
    /\ acquirer[a].pc = "stage" => Len(acquirer[a].staged) = acquirer[a].next - 1
    /\ Copying(a) => Len(acquirer[a].staged) = Len(AssetFiles)

\* What a call that copies alone has copied is still there.
AloneInv(a) ==
    (alone[a] = TRUE /\ Begun(a)) =>
        /\ \A b \in Acquirers \ {a} : acquirer[b].pc # "copying"
        /\ \A i \in Positions : i < acquirer[a].next =>
              file[AssetFiles[i]] = acquirer[a].staged[i]

\* While no copy went wrong one call at most has begun, a file is half only
\* below its hands, and with no call that has begun the set is one or none.
UndisturbedInv ==
    disturbed = FALSE =>
        /\ \A a \in Acquirers : alone[a] = TRUE
        /\ \A a, b \in Acquirers : Begun(a) /\ Begun(b) => a = b
        /\ \A f \in FileNames : file[f] = Half =>
              \E a \in Acquirers : /\ acquirer[a].pc = "copying"
                                   /\ AssetFiles[acquirer[a].next] = f
        /\ (\A a \in Acquirers : ~Begun(a)) =>
              \A f, g \in FileNames : file[f] = Missing => file[g] = Missing

DownloadsInv ==
    /\ DownloadsType
    /\ \A a \in Acquirers : StagedInv(a) /\ AloneInv(a)
    /\ UndisturbedInv

\* The files of an update are numbered, each once.
LEMMA FilesOfUpdate ==
    /\ Len(AssetFiles) \in Nat \ {0}
    /\ Positions = 1 .. Len(AssetFiles)
    /\ \A i \in Positions : AssetFiles[i] \in FileNames
    /\ \A f \in FileNames : \E i \in Positions : f = AssetFiles[i]
    /\ \A i, j \in Positions : AssetFiles[i] = AssetFiles[j] => i = j
    /\ Half \in Nat /\ Half \notin Versions /\ Missing \notin Versions
    /\ Half # Missing /\ Missing \in Nat /\ Versions \subseteq Nat
<1>1. AssetFiles \in Seq(ToSet(AssetFiles)) /\ AssetFiles # <<>>
  BY DownloadsBounds
<1>2. Len(AssetFiles) \in Nat \ {0} /\ Positions = 1 .. Len(AssetFiles)
  BY <1>1 DEF Positions
<1>3. \A i, j \in Positions : AssetFiles[i] = AssetFiles[j] => i = j
  BY DownloadsBounds DEF IsInjective, Positions
<1>4. MaxServed \in Nat \ {0}
  BY DownloadsBounds
<1>5. /\ Half \in Nat /\ Half \notin Versions /\ Missing \notin Versions
      /\ Half # Missing /\ Missing \in Nat /\ Versions \subseteq Nat
  BY <1>4 DEF Half, Missing, Versions
<1> QED BY <1>2, <1>3, <1>5 DEF FileNames

\* A call goes where a step takes it, and the others stay.
LEMMA CallGoes ==
    ASSUME acquirer \in [Acquirers -> Acquirings], NEW a \in Acquirers,
           NEW pc \in Pcs, NEW n \in Positions, NEW s \in Seq(Versions),
           AcquirerGoes(a, pc, n, s)
    PROVE  /\ acquirer' \in [Acquirers -> Acquirings]
           /\ acquirer'[a].pc = pc /\ acquirer'[a].next = n /\ acquirer'[a].staged = s
           /\ \A b \in Acquirers \ {a} : acquirer'[b] = acquirer[b]
<1>1. [pc |-> pc, next |-> n, staged |-> s] \in Acquirings
  BY DEF Acquirings
<1> QED BY <1>1 DEF AcquirerGoes

\* A call that has copied nothing goes on to a step that copies nothing.
LEMMA QuietStep ==
    ASSUME DownloadsInv, NEW a \in Acquirers, ~Begun(a),
           NEW pc \in Pcs \ {"copying"}, NEW n \in Positions, NEW s \in Seq(Versions),
           AcquirerGoes(a, pc, n, s),
           pc = "stage" => Len(s) = n - 1,
           pc = "commit" => n = 1 /\ Len(s) = Len(AssetFiles),
           alone' = alone \/ alone' = [alone EXCEPT ![a] = TRUE],
           file' = file, disturbed' = disturbed, served' \in Versions
    PROVE  DownloadsInv'
<1>1. DownloadsType /\ (\A b \in Acquirers : StagedInv(b) /\ AloneInv(b)) /\ UndisturbedInv
  BY DEF DownloadsInv
<1>2. /\ acquirer' \in [Acquirers -> Acquirings]
      /\ acquirer'[a].pc = pc /\ acquirer'[a].next = n /\ acquirer'[a].staged = s
      /\ \A b \in Acquirers \ {a} : acquirer'[b] = acquirer[b]
  BY <1>1, CallGoes DEF DownloadsType
<1>3. /\ alone' \in [Acquirers -> BOOLEAN]
      /\ \A b \in Acquirers \ {a} : alone'[b] = alone[b]
      /\ \A b \in Acquirers : alone[b] = TRUE => alone'[b] = TRUE
  BY <1>1 DEF DownloadsType
<1>4. DownloadsType'
  BY <1>1, <1>2, <1>3 DEF DownloadsType
<1>5. ~Begun(a)' /\ \A b \in Acquirers \ {a} : Begun(b)' = Begun(b)
  BY <1>2 DEF Begun
<1>6. ASSUME NEW b \in Acquirers PROVE StagedInv(b)' /\ AloneInv(b)'
  <2>1. StagedInv(b)'
    BY <1>1, <1>2 DEF StagedInv, Copying
  <2>2. AloneInv(b)'
    <3>1. CASE b = a
      BY <3>1, <1>5 DEF AloneInv
    <3>2. CASE b # a
      BY <3>2, <1>1, <1>2, <1>3, <1>5 DEF AloneInv
    <3> QED BY <3>1, <3>2
  <2> QED BY <2>1, <2>2
<1>7. UndisturbedInv'
  <2> SUFFICES ASSUME disturbed = FALSE PROVE UndisturbedInv'
    BY DEF UndisturbedInv
  <2>1. /\ \A b \in Acquirers : alone[b] = TRUE
        /\ \A b, c \in Acquirers : Begun(b) /\ Begun(c) => b = c
        /\ \A f \in FileNames : file[f] = Half =>
              \E b \in Acquirers : /\ acquirer[b].pc = "copying"
                                   /\ AssetFiles[acquirer[b].next] = f
        /\ (\A b \in Acquirers : ~Begun(b)) =>
              \A f, g \in FileNames : file[f] = Missing => file[g] = Missing
    BY <1>1 DEF UndisturbedInv
  <2>2. \A b \in Acquirers : alone'[b] = TRUE
    BY <2>1, <1>3
  <2>3. \A b, c \in Acquirers : Begun(b)' /\ Begun(c)' => b = c
    BY <2>1, <1>5
  <2>4. acquirer[a].pc # "copying"
    BY DEF Begun
  <2>5. \A f \in FileNames : file'[f] = Half =>
              \E b \in Acquirers : /\ acquirer'[b].pc = "copying"
                                   /\ AssetFiles[acquirer'[b].next] = f
    BY <2>1, <2>4, <1>2
  <2>6. (\A b \in Acquirers : ~Begun(b)') =>
              \A f, g \in FileNames : file'[f] = Missing => file'[g] = Missing
    BY <2>1, <1>5
  <2> QED BY <2>2, <2>3, <2>5, <2>6 DEF UndisturbedInv, Half, Missing
<1> QED BY <1>4, <1>6, <1>7 DEF DownloadsInv

\* A copy that begins among others is not alone, nor are they from then on.
LEMMA CopyBeginsStep ==
    ASSUME DownloadsInv, NEW a \in Acquirers, CopyBegins(a)
    PROVE  DownloadsInv'
<1> DEFINE others == {b \in Acquirers \ {a} : Copying(b)}
           at == acquirer[a].next
<1>1. DownloadsType /\ (\A b \in Acquirers : StagedInv(b) /\ AloneInv(b)) /\ UndisturbedInv
  BY DEF DownloadsInv
<1>2. /\ acquirer[a].pc = "commit" /\ at \in Positions
      /\ acquirer[a].staged \in Seq(Versions)
      /\ AcquirerGoes(a, "copying", at, acquirer[a].staged)
      /\ file' = [file EXCEPT ![AssetFiles[at]] = Half] /\ served' = served
  BY <1>1 DEF CopyBegins, DownloadsType, Acquirings
<1>3. /\ acquirer' \in [Acquirers -> Acquirings]
      /\ acquirer'[a].pc = "copying" /\ acquirer'[a].next = at
      /\ acquirer'[a].staged = acquirer[a].staged
      /\ \A b \in Acquirers \ {a} : acquirer'[b] = acquirer[b]
  BY <1>1, <1>2, CallGoes DEF DownloadsType, Pcs
<1>4. alone' = [b \in Acquirers |-> alone[b] /\ (b \in others \cup {a} => others = {})]
  BY DEF CopyBegins
<1>5. /\ alone' \in [Acquirers -> BOOLEAN]
      /\ \A b \in Acquirers : alone'[b] = TRUE =>
            alone[b] = TRUE /\ (b \in others \cup {a} => others = {})
      /\ others = {} => \A b \in Acquirers : alone[b] = TRUE => alone'[b] = TRUE
  <2> HIDE DEF others
  <2> QED BY <1>4, <1>1 DEF DownloadsType
<1>6. disturbed' = (disturbed \/ others # {})
  BY DEF CopyBegins
<1>7. disturbed' = FALSE => disturbed = FALSE /\ others = {}
  <2> HIDE DEF others
  <2>1. disturbed \in BOOLEAN
    BY <1>1 DEF DownloadsType
  <2> QED BY <1>6, <2>1
<1>8. /\ file' \in [FileNames -> Nat]
      /\ file'[AssetFiles[at]] = Half
      /\ \A f \in FileNames : f # AssetFiles[at] => file'[f] = file[f]
  BY <1>1, <1>2, FilesOfUpdate DEF DownloadsType
<1>9. DownloadsType'
  <2>1. disturbed' \in BOOLEAN
    BY <1>6
  <2> QED BY <2>1, <1>1, <1>2, <1>3, <1>5, <1>8 DEF DownloadsType
<1>10. Begun(a)' /\ \A b \in Acquirers \ {a} : Begun(b)' = Begun(b)
  BY <1>3 DEF Begun
<1>11. \A b \in Acquirers : Begun(b) => Copying(b)
  BY DEF Begun, Copying
<1>12. ASSUME NEW b \in Acquirers PROVE StagedInv(b)' /\ AloneInv(b)'
  <2>1. StagedInv(b)'
    BY <1>1, <1>2, <1>3 DEF StagedInv, Copying
  <2>2. AloneInv(b)'
    <3>1. CASE b # a
      BY <3>1, <1>5, <1>10, <1>11 DEF AloneInv
    <3>2. CASE b = a
      <4> SUFFICES ASSUME alone'[a] = TRUE PROVE AloneInv(a)'
        BY <3>2 DEF AloneInv
      <4>1. alone[a] = TRUE /\ others = {}
        BY <1>5
      <4>2. \A c \in Acquirers \ {a} : acquirer'[c].pc # "copying"
        BY <4>1, <1>3 DEF Copying
      <4>3. ASSUME NEW i \in Positions, i < at
            PROVE  file'[AssetFiles[i]] = acquirer[a].staged[i]
        <5>1. at > 1 /\ Begun(a)
          BY <4>3, <1>2, FilesOfUpdate DEF Begun
        <5>2. file[AssetFiles[i]] = acquirer[a].staged[i]
          BY <5>1, <4>1, <4>3, <1>1 DEF AloneInv
        <5>3. AssetFiles[i] # AssetFiles[at]
          BY <4>3, <1>2, FilesOfUpdate
        <5> QED BY <5>2, <5>3, <1>8, FilesOfUpdate
      <4> QED BY <4>2, <4>3, <1>3 DEF AloneInv
    <3> QED BY <3>1, <3>2
  <2> QED BY <2>1, <2>2
<1>13. UndisturbedInv'
  <2> SUFFICES ASSUME disturbed' = FALSE PROVE UndisturbedInv'
    BY DEF UndisturbedInv
  <2>1. disturbed = FALSE /\ others = {}
    BY <1>7
  <2>2. \A b \in Acquirers : alone'[b] = TRUE
    BY <2>1, <1>1, <1>5 DEF UndisturbedInv
  <2>3. \A b, c \in Acquirers : Begun(b)' /\ Begun(c)' => b = c
    BY <2>1, <1>10, <1>11
  <2>4. ASSUME NEW f \in FileNames, file'[f] = Half
        PROVE  acquirer'[a].pc = "copying" /\ AssetFiles[acquirer'[a].next] = f
    <3>1. CASE f = AssetFiles[at]
      BY <3>1, <1>3
    <3>2. CASE f # AssetFiles[at]
      <4>1. PICK b \in Acquirers : acquirer[b].pc = "copying"
        BY <3>2, <2>1, <2>4, <1>1, <1>8 DEF UndisturbedInv
      <4> QED BY <4>1, <2>1, <1>2 DEF Copying
    <3> QED BY <3>1, <3>2
  <2> QED BY <2>2, <2>3, <2>4, <1>10 DEF UndisturbedInv, Half, Missing
<1> QED BY <1>9, <1>12, <1>13 DEF DownloadsInv

\* A copy that was alone has written what was staged.
LEMMA CopyEndsWrites ==
    ASSUME DownloadsInv, NEW a \in Acquirers, CopyEnds(a)
    PROVE  LET at == acquirer[a].next
               last == at = Len(AssetFiles)
               staged == acquirer[a].staged
           IN  /\ acquirer[a].pc = "copying" /\ at \in Positions
               /\ Len(staged) = Len(AssetFiles)
               /\ \A i \in Positions : staged[i] \in Versions
               /\ UNCHANGED <<served, alone, disturbed>>
               /\ file' \in [FileNames -> Nat]
               /\ \A f \in FileNames : f # AssetFiles[at] => file'[f] = file[f]
               /\ alone[a] = TRUE =>
                     \A i \in Positions : i <= at => file'[AssetFiles[i]] = staged[i]
               /\ acquirer' \in [Acquirers -> Acquirings]
               /\ acquirer'[a].pc = IF last THEN "ok" ELSE "commit"
               /\ acquirer'[a].next = IF last THEN at ELSE at + 1
               /\ acquirer'[a].staged = staged
               /\ \A b \in Acquirers \ {a} : acquirer'[b] = acquirer[b]
<1> DEFINE at == acquirer[a].next
           last == at = Len(AssetFiles)
           staged == acquirer[a].staged
<1>1. DownloadsType /\ (\A b \in Acquirers : StagedInv(b) /\ AloneInv(b)) /\ UndisturbedInv
  BY DEF DownloadsInv
<1>2. /\ acquirer[a].pc = "copying" /\ at \in Positions /\ staged \in Seq(Versions)
      /\ AcquirerGoes(a, IF last THEN "ok" ELSE "commit", IF last THEN at ELSE at + 1, staged)
      /\ UNCHANGED <<served, alone, disturbed>>
  BY <1>1 DEF CopyEnds, DownloadsType, Acquirings
<1>3. Len(staged) = Len(AssetFiles) /\ \A i \in Positions : staged[i] \in Versions
  BY <1>1, <1>2, FilesOfUpdate DEF StagedInv, Copying
<1>4. PICK content \in {staged[at]} \cup (IF alone[a] THEN {} ELSE {Half}) :
         file' = [file EXCEPT ![AssetFiles[at]] = content]
  BY DEF CopyEnds
<1>5. alone[a] = TRUE => content = staged[at]
  BY <1>4
<1>6. content \in Nat
  <2>1. (IF alone[a] THEN {} ELSE {Half}) \subseteq {Half}
    <3>1. CASE alone[a]
      BY <3>1
    <3>2. CASE ~alone[a]
      BY <3>2
    <3> QED BY <3>1, <3>2
  <2>2. content \in {staged[at], Half}
    <3> HIDE DEF staged, at
    <3> QED BY <1>4, <2>1
  <2>3. {staged[at], Half} \subseteq Nat
    BY <1>2, <1>3, FilesOfUpdate
  <2> QED
    <3> HIDE DEF staged, at
    <3> QED BY <2>2, <2>3
<1>7. /\ file' \in [FileNames -> Nat]
      /\ file'[AssetFiles[at]] = content
      /\ \A f \in FileNames : f # AssetFiles[at] => file'[f] = file[f]
  BY <1>1, <1>2, <1>4, <1>6, FilesOfUpdate DEF DownloadsType
<1>8. /\ acquirer' \in [Acquirers -> Acquirings]
      /\ acquirer'[a].pc = IF last THEN "ok" ELSE "commit"
      /\ acquirer'[a].next = IF last THEN at ELSE at + 1
      /\ acquirer'[a].staged = staged
      /\ \A b \in Acquirers \ {a} : acquirer'[b] = acquirer[b]
  <2>1. (IF last THEN "ok" ELSE "commit") \in Pcs
    BY DEF Pcs
  <2>2. (IF last THEN at ELSE at + 1) \in Positions
    BY <1>2, FilesOfUpdate
  <2> QED BY <2>1, <2>2, <1>1, <1>2, CallGoes DEF DownloadsType
<1>9. alone[a] = TRUE =>
          \A i \in Positions : i <= at => file'[AssetFiles[i]] = staged[i]
  <2> SUFFICES ASSUME alone[a] = TRUE, NEW i \in Positions, i <= at
               PROVE  file'[AssetFiles[i]] = staged[i]
    OBVIOUS
  <2>1. CASE i = at
    BY <2>1, <1>5, <1>7
  <2>2. CASE i # at
    <3>1. i < at /\ AssetFiles[i] # AssetFiles[at]
      BY <2>2, <1>2, FilesOfUpdate
    <3>2. file[AssetFiles[i]] = staged[i]
      BY <3>1, <1>1, <1>2 DEF AloneInv, Begun
    <3> QED BY <3>1, <3>2, <1>7, FilesOfUpdate
  <2> QED BY <2>1, <2>2
<1> QED BY <1>2, <1>3, <1>7, <1>8, <1>9

\* The last copy makes a set.
LEMMA CopyEndsStep ==
    ASSUME DownloadsInv, NEW a \in Acquirers, CopyEnds(a)
    PROVE  DownloadsInv'
<1> DEFINE at == acquirer[a].next
           last == at = Len(AssetFiles)
           staged == acquirer[a].staged
<1>1. DownloadsType /\ (\A b \in Acquirers : StagedInv(b) /\ AloneInv(b)) /\ UndisturbedInv
  BY DEF DownloadsInv
<1>2. /\ acquirer[a].pc = "copying" /\ at \in Positions
      /\ UNCHANGED <<served, alone, disturbed>>
  BY CopyEndsWrites
<1>3. Len(staged) = Len(AssetFiles) /\ \A i \in Positions : staged[i] \in Versions
  BY CopyEndsWrites
<1>4. /\ file' \in [FileNames -> Nat]
      /\ \A f \in FileNames : f # AssetFiles[at] => file'[f] = file[f]
  BY CopyEndsWrites
<1>5. /\ acquirer' \in [Acquirers -> Acquirings]
      /\ acquirer'[a].pc = IF last THEN "ok" ELSE "commit"
      /\ acquirer'[a].next = IF last THEN at ELSE at + 1
      /\ acquirer'[a].staged = staged
      /\ \A b \in Acquirers \ {a} : acquirer'[b] = acquirer[b]
  BY CopyEndsWrites
<1>6. alone[a] = TRUE =>
          \A i \in Positions : i <= at => file'[AssetFiles[i]] = staged[i]
  BY CopyEndsWrites
<1>7. DownloadsType'
  BY <1>1, <1>2, <1>4, <1>5 DEF DownloadsType
<1>8. /\ Begun(a) /\ (Begun(a)' <=> ~last)
       /\ \A b \in Acquirers \ {a} : Begun(b)' = Begun(b)
  BY <1>2, <1>5, FilesOfUpdate DEF Begun
<1>9. ASSUME NEW b \in Acquirers PROVE StagedInv(b)' /\ AloneInv(b)'
  <2>1. StagedInv(b)'
    BY <1>1, <1>2, <1>3, <1>5 DEF StagedInv, Copying
  <2>2. CASE b # a
    <3>1. ~(alone[b] = TRUE /\ Begun(b))
      BY <2>2, <1>1, <1>2 DEF AloneInv
    <3> QED BY <2>1, <2>2, <3>1, <1>2, <1>8 DEF AloneInv
  <2>3. CASE b = a
    <3> SUFFICES ASSUME alone'[a] = TRUE, Begun(a)' PROVE AloneInv(a)'
      BY <2>1, <2>3 DEF AloneInv
    <3>1. alone[a] = TRUE /\ ~last /\ acquirer'[a].next = at + 1
      BY <1>2, <1>5, <1>8
    <3>2. \A c \in Acquirers \ {a} : acquirer'[c].pc # "copying"
      BY <3>1, <1>1, <1>5, <1>8 DEF AloneInv
    <3>3. \A i \in Positions : i < acquirer'[a].next => file'[AssetFiles[i]] = staged[i]
      BY <3>1, <1>2, <1>6, FilesOfUpdate
    <3> QED BY <3>2, <3>3, <1>5 DEF AloneInv
  <2> QED BY <2>1, <2>2, <2>3
<1>10. UndisturbedInv'
  <2> SUFFICES ASSUME disturbed = FALSE PROVE UndisturbedInv'
    BY <1>2 DEF UndisturbedInv
  <2>1. \A b \in Acquirers : alone[b] = TRUE
    BY <1>1 DEF UndisturbedInv
  <2>2. \A b \in Acquirers \ {a} : ~Begun(b)
    BY <1>1, <1>8 DEF UndisturbedInv
  <2>3. \A b, c \in Acquirers : Begun(b)' /\ Begun(c)' => b = c
    BY <2>2, <1>8
  <2>4. \A f \in FileNames : file'[f] # Half
    <3> SUFFICES ASSUME NEW f \in FileNames PROVE file'[f] # Half
      OBVIOUS
    <3>1. CASE f = AssetFiles[at]
      BY <3>1, <2>1, <1>2, <1>3, <1>6, FilesOfUpdate
    <3>2. CASE f # AssetFiles[at]
      <4>1. \A b \in Acquirers \ {a} : acquirer[b].pc # "copying"
        BY <2>2 DEF Begun
      <4>2. file[f] # Half
        BY <3>2, <4>1, <1>1 DEF UndisturbedInv
      <4> QED BY <4>2, <3>2, <1>4
    <3> QED BY <3>1, <3>2
  <2>5. (\A b \in Acquirers : ~Begun(b)') => \A f \in FileNames : file'[f] # Missing
    <3> SUFFICES ASSUME last, NEW f \in FileNames PROVE file'[f] # Missing
      BY <1>8
    <3>1. PICK i \in Positions : f = AssetFiles[i]
      BY FilesOfUpdate
    <3>2. file'[f] = staged[i]
      BY <3>1, <2>1, <1>6, FilesOfUpdate
    <3> QED BY <3>2, <1>3, FilesOfUpdate
  <2> QED BY <2>1, <2>3, <2>4, <2>5, <1>2 DEF UndisturbedInv, Half, Missing
<1> QED BY <1>7, <1>9, <1>10 DEF DownloadsInv

\* A copy that fails disturbs the set; the others do not notice.
LEMMA CopyFailsStep ==
    ASSUME DownloadsInv, NEW a \in Acquirers, CopyFails(a)
    PROVE  DownloadsInv'
<1>1. DownloadsType /\ (\A b \in Acquirers : StagedInv(b) /\ AloneInv(b))
  BY DEF DownloadsInv
<1>2. /\ AcquirerGoes(a, "failed", acquirer[a].next, acquirer[a].staged)
      /\ acquirer[a].next \in Positions /\ acquirer[a].staged \in Seq(Versions)
      /\ disturbed' = TRUE /\ UNCHANGED <<served, file, alone>>
  BY <1>1 DEF CopyFails, DownloadsType, Acquirings
<1>3. /\ acquirer' \in [Acquirers -> Acquirings] /\ acquirer'[a].pc = "failed"
      /\ \A b \in Acquirers \ {a} : acquirer'[b] = acquirer[b]
  BY <1>1, <1>2, CallGoes DEF DownloadsType, Pcs
<1>4. DownloadsType'
  BY <1>1, <1>2, <1>3 DEF DownloadsType
<1>5. UndisturbedInv'
  BY <1>2 DEF UndisturbedInv
<1>6. ASSUME NEW b \in Acquirers PROVE StagedInv(b)' /\ AloneInv(b)'
  <2>1. StagedInv(b)'
    BY <1>1, <1>3 DEF StagedInv, Copying
  <2>2. AloneInv(b)'
    BY <1>1, <1>2, <1>3 DEF AloneInv, Begun
  <2> QED BY <2>1, <2>2
<1> QED BY <1>4, <1>5, <1>6 DEF DownloadsInv

\* A crash that cuts no copy leaves the set as it was.
LEMMA CrashStep == DownloadsInv /\ ApplicationCrashes => DownloadsInv'
<1> SUFFICES ASSUME DownloadsInv, ApplicationCrashes PROVE DownloadsInv'
  OBVIOUS
<1>1. DownloadsType /\ UndisturbedInv
  BY DEF DownloadsInv
<1>2. /\ acquirer' = [a \in Acquirers |-> Idle]
      /\ disturbed' = (disturbed \/ \E a \in Acquirers : Copying(a))
      /\ UNCHANGED <<served, file, alone>>
  BY DEF ApplicationCrashes
<1>3. Idle \in Acquirings
  BY FilesOfUpdate DEF Idle, Acquirings, Pcs
<1>4. \A a \in Acquirers : acquirer'[a].pc = "idle"
  BY <1>2 DEF Idle
<1>5. DownloadsType'
  <2>1. disturbed' \in BOOLEAN
    BY <1>2
  <2> QED BY <2>1, <1>1, <1>2, <1>3 DEF DownloadsType
<1>6. \A a \in Acquirers : ~Begun(a)' /\ StagedInv(a)' /\ AloneInv(a)'
  BY <1>4 DEF Begun, StagedInv, AloneInv, Copying
<1>7. UndisturbedInv'
  <2> SUFFICES ASSUME disturbed' = FALSE PROVE UndisturbedInv'
    BY DEF UndisturbedInv
  <2>1. disturbed = FALSE /\ \A a \in Acquirers : ~Copying(a)
    <3>1. disturbed \in BOOLEAN
      BY <1>1 DEF DownloadsType
    <3> QED BY <3>1, <1>2
  <2>2. \A a \in Acquirers : ~Begun(a) /\ acquirer[a].pc # "copying"
    BY <2>1 DEF Begun, Copying
  <2>3. \A f \in FileNames : file[f] # Half
    BY <2>1, <2>2, <1>1 DEF UndisturbedInv
  <2>4. \A f, g \in FileNames : file[f] = Missing => file[g] = Missing
    BY <2>1, <2>2, <1>1 DEF UndisturbedInv
  <2>5. \A a \in Acquirers : alone[a] = TRUE
    BY <2>1, <1>1 DEF UndisturbedInv
  <2> QED BY <2>3, <2>4, <2>5, <1>2, <1>6 DEF UndisturbedInv, Half, Missing
<1> QED BY <1>5, <1>6, <1>7 DEF DownloadsInv

LEMMA DownloadsStart == DownloadsInit => DownloadsInv
<1> SUFFICES ASSUME DownloadsInit PROVE DownloadsInv
  OBVIOUS
<1>1. Idle \in Acquirings /\ 1 \in Versions
  BY FilesOfUpdate, DownloadsBounds DEF Idle, Acquirings, Pcs, Versions
<1>2. DownloadsType
  BY <1>1, FilesOfUpdate DEF DownloadsInit, DownloadsType
<1>3. \A a \in Acquirers : ~Begun(a) /\ StagedInv(a) /\ AloneInv(a)
  BY DEF DownloadsInit, Idle, Begun, StagedInv, AloneInv, Copying
<1>4. UndisturbedInv
  BY <1>3, FilesOfUpdate DEF DownloadsInit, UndisturbedInv
<1> QED BY <1>2, <1>3, <1>4 DEF DownloadsInv

LEMMA DownloadsStep ==
    DownloadsInv /\ [DownloadsNext]_downloadsVars => DownloadsInv'
<1> SUFFICES ASSUME DownloadsInv, [DownloadsNext]_downloadsVars PROVE DownloadsInv'
  OBVIOUS
<1>1. DownloadsType /\ (\A b \in Acquirers : StagedInv(b) /\ AloneInv(b)) /\ UndisturbedInv
  BY DEF DownloadsInv
<1>2. ASSUME NEW a \in Acquirers
      PROVE  /\ acquirer[a] \in Acquirings /\ acquirer[a].next \in Positions
             /\ acquirer[a].staged \in Seq(Versions)
             /\ <<>> \in Seq(Versions) /\ 1 \in Positions
  BY <1>1, FilesOfUpdate DEF DownloadsType, Acquirings
<1>3. CASE UNCHANGED downloadsVars
  BY <1>1, <1>3 DEF downloadsVars, DownloadsInv, DownloadsType, StagedInv, AloneInv,
     UndisturbedInv, Begun, Copying, Half, Missing
<1>4. CASE SourceChanges
  <2>1. served' \in Versions /\ UNCHANGED <<file, copier, acquirer, leftover, alone, disturbed>>
    BY <1>1, <1>4, DownloadsBounds DEF SourceChanges, DownloadsType, Versions
  <2> QED BY <1>1, <2>1 DEF DownloadsInv, DownloadsType, StagedInv, AloneInv,
       UndisturbedInv, Begun, Copying, Half, Missing
<1>5. CASE ApplicationCrashes
  BY <1>5, CrashStep
<1>6. ASSUME NEW a \in Acquirers, BeginAcquisition(a) PROVE DownloadsInv'
  <2>1. PICK pc \in {"stage", "failed"} : AcquirerGoes(a, pc, 1, <<>>)
    BY <1>6 DEF BeginAcquisition
  <2>2. ~Begun(a) /\ served' \in Versions
    BY <1>1, <1>6 DEF BeginAcquisition, Begun, DownloadsType
  <2>3. pc \in Pcs \ {"copying"} /\ pc # "commit"
    BY <2>1 DEF Pcs
  <2>4. alone' = [alone EXCEPT ![a] = TRUE] /\ file' = file /\ disturbed' = disturbed
    BY <1>6 DEF BeginAcquisition
  <2>5. Len(<<>>) = 1 - 1
    OBVIOUS
  <2> QED BY <1>2, <2>1, <2>2, <2>3, <2>4, <2>5, QuietStep
<1>7. ASSUME NEW a \in Acquirers, StageAsset(a) PROVE DownloadsInv'
  <2> DEFINE i == acquirer[a].next
             all == i = Len(AssetFiles)
             more == Append(acquirer[a].staged, served)
  <2>1. ~Begun(a) /\ served' \in Versions /\ alone' = alone
        /\ file' = file /\ disturbed' = disturbed
    BY <1>1, <1>7 DEF StageAsset, Begun, DownloadsType
  <2>2. \/ AcquirerGoes(a, IF all THEN "commit" ELSE "stage", IF all THEN 1 ELSE i + 1, more)
        \/ AcquirerGoes(a, "failed", i, acquirer[a].staged)
    BY <1>7 DEF StageAsset
  <2>3. CASE AcquirerGoes(a, "failed", i, acquirer[a].staged)
    <3>1. "failed" \in Pcs \ {"copying"}
      BY DEF Pcs
    <3> QED BY <2>1, <2>3, <3>1, <1>2, QuietStep
  <2>4. CASE AcquirerGoes(a, IF all THEN "commit" ELSE "stage", IF all THEN 1 ELSE i + 1, more)
    <3>1. Len(acquirer[a].staged) = i - 1 /\ served \in Versions
      BY <1>1, <1>7 DEF StageAsset, StagedInv, DownloadsType
    <3>2. more \in Seq(Versions) /\ Len(more) = i
      BY <3>1, <1>2, FilesOfUpdate
    <3>3. CASE all
      <4>1. AcquirerGoes(a, "commit", 1, more)
        BY <2>4, <3>3
      <4>2. "commit" \in Pcs \ {"copying"}
        BY DEF Pcs
      <4> QED BY <2>1, <3>2, <3>3, <4>1, <4>2, <1>2, QuietStep
    <3>4. CASE ~all
      <4>1. AcquirerGoes(a, "stage", i + 1, more)
        BY <2>4, <3>4
      <4>2. "stage" \in Pcs \ {"copying"}
        BY DEF Pcs
      <4>3. i + 1 \in Positions /\ Len(more) = (i + 1) - 1
        BY <3>2, <3>4, <1>2, FilesOfUpdate
      <4> QED BY <2>1, <3>2, <4>1, <4>2, <4>3, <1>2, QuietStep
    <3> QED BY <3>3, <3>4
  <2> QED BY <2>2, <2>3, <2>4
<1>8. ASSUME NEW a \in Acquirers, AcquisitionAnswered(a) PROVE DownloadsInv'
  <2>1. ~Begun(a) /\ served' \in Versions /\ alone' = alone
        /\ file' = file /\ disturbed' = disturbed
    BY <1>1, <1>8 DEF AcquisitionAnswered, Begun, DownloadsType
  <2>2. "idle" \in Pcs \ {"copying"}
    BY DEF Pcs
  <2>3. AcquirerGoes(a, "idle", 1, <<>>)
    BY <1>8 DEF AcquisitionAnswered
  <2> QED BY <1>2, <2>1, <2>2, <2>3, QuietStep
<1> QED BY <1>3, <1>4, <1>5, <1>6, <1>7, <1>8, CopyBeginsStep, CopyEndsStep,
       CopyFailsStep DEF DownloadsNext

\* An update changes nothing before it has everything, one that is answered Ok
\* and was alone installed what it downloaded, and only a disturbed copy leaves
\* a file cut or a set mixed: for any set of files and any number of calls.
THEOREM UpdatesHold == DownloadsSpec => UpdatesAreAllOrNothing
<1>1. DownloadsInv => FilesAreWhole
  <2> SUFFICES ASSUME DownloadsInv, disturbed = FALSE, \A a \in Acquirers : ~Copying(a)
               PROVE  /\ Half \notin {file[f] : f \in FileNames}
                      /\ Missing \in {file[f] : f \in FileNames} =>
                            {file[f] : f \in FileNames} = {Missing}
    <3>1. DownloadsInv => disturbed \in BOOLEAN
      BY DEF DownloadsInv, DownloadsType
    <3> QED BY <3>1 DEF FilesAreWhole
  <2>1. \A a \in Acquirers : ~Begun(a) /\ acquirer[a].pc # "copying"
    BY DEF Begun, Copying
  <2>2. /\ \A f \in FileNames : file[f] # Half
        /\ \A f, g \in FileNames : file[f] = Missing => file[g] = Missing
    BY <2>1 DEF DownloadsInv, UndisturbedInv
  <2> QED BY <2>2
<1>2. DownloadsInv /\ DownloadsNext => NothingBeforeEverything
  <2> SUFFICES ASSUME DownloadsInv, DownloadsNext, NEW f \in FileNames, file'[f] # file[f]
               PROVE  \E a \in Acquirers :
                         Copying(a) /\ Len(acquirer[a].staged) = Len(AssetFiles)
    BY DEF NothingBeforeEverything
  <2>1. PICK a \in Acquirers : CopyBegins(a) \/ CopyEnds(a)
    BY DEF DownloadsNext, SourceChanges, ApplicationCrashes, BeginAcquisition, StageAsset,
       CopyFails, AcquisitionAnswered
  <2>2. Copying(a)
    BY <2>1 DEF CopyBegins, CopyEnds, Copying
  <2> QED BY <2>2 DEF DownloadsInv, StagedInv
<1>3. DownloadsInv /\ DownloadsInv' /\ DownloadsNext => OkMeansInstalled
  <2> SUFFICES ASSUME DownloadsInv, DownloadsNext, NEW a \in Acquirers,
                      acquirer'[a].pc = "ok", acquirer[a].pc # "ok", alone[a] = TRUE,
                      NEW i \in Positions
               PROVE  file'[AssetFiles[i]] = acquirer'[a].staged[i]
    <3>1. DownloadsInv => \A b \in Acquirers : alone[b] \in BOOLEAN
      BY DEF DownloadsInv, DownloadsType
    <3> QED BY <3>1 DEF OkMeansInstalled
  <2>1. CopyEnds(a)
    <3>1. acquirer' # [b \in Acquirers |-> Idle] /\ acquirer' # acquirer
      BY DEF Idle
    <3>2. PICK b \in Acquirers :
             \/ BeginAcquisition(b) \/ StageAsset(b) \/ CopyBegins(b)
             \/ CopyEnds(b) \/ CopyFails(b) \/ AcquisitionAnswered(b)
      BY <3>1 DEF DownloadsNext, SourceChanges, ApplicationCrashes
    <3>3. acquirer \in [Acquirers -> Acquirings]
      BY DEF DownloadsInv, DownloadsType
    <3>4. b = a
      BY <3>2, <3>3 DEF BeginAcquisition, StageAsset, CopyBegins, CopyEnds, CopyFails,
         AcquisitionAnswered, AcquirerGoes
    <3> QED BY <3>2, <3>3, <3>4 DEF BeginAcquisition, StageAsset, CopyBegins, CopyFails,
         AcquisitionAnswered, AcquirerGoes
  <2>2. acquirer[a].next = Len(AssetFiles)
    BY <2>1, CopyEndsWrites
  <2>3. /\ acquirer'[a].staged = acquirer[a].staged
        /\ \A j \in Positions : j <= acquirer[a].next =>
              file'[AssetFiles[j]] = acquirer[a].staged[j]
    BY <2>1, CopyEndsWrites
  <2> QED BY <2>2, <2>3, FilesOfUpdate
<1> QED BY <1>1, <1>2, <1>3, DownloadsStart, DownloadsStep, PTL
     DEF DownloadsSpec, UpdatesAreAllOrNothing

-----------------------------------------------------------------------------
(* The core's files.                                                        *)

Others == Copiers \ {"startup"}
Seeded == package.seed.files
HasCore == \E f \in CoreNames : IsThere(f)
Entries == [from : {"absent", "user", "seed"}, number : Nat,
            state : {"whole", "partial", "torn"}, marked : BOOLEAN]
CopyPcs == {"idle", "copy", "create", "write", "discover", "done", "ended", "error"}

Answers == {"", "packaged", "skipped", "SeedMissing", "AlreadyInstalled", "Copied"}
Copies == [pc : CopyPcs, left : SUBSET CoreFileNames,
           file : CoreFileNames \cup {""}, result : Answers \cup CoreNames]

CoreType ==
    /\ bin \in [CoreFileNames -> Entries]
    /\ package.seed \in Packages /\ package.number \in Nat
    /\ package = [seed |-> package.seed, number |-> package.number]
    /\ seedCopy \in [Copiers -> Copies]
    /\ cuts \in Nat

\* The startup comes first, and a copy copies what the package holds.
CopyInv ==
    /\ seedCopy["startup"].pc \notin {"discover", "done"}
    /\ \A c \in Others : seedCopy[c].pc # "idle" => seedCopy["startup"].pc \in {"ended", "error"}
    /\ \A c \in Copiers : AtWork(c) =>
          /\ package.seed.kind = "dir" /\ seedCopy[c].left \subseteq Seeded
          /\ seedCopy[c].pc # "copy" => seedCopy[c].file \in Seeded

\* What is half a file is being written, unless a copy was cut off.
WholeInv ==
    cuts = 0 => \A f \in CoreFileNames : bin[f].state # "whole" =>
        bin[f].state = "partial" /\ \E c \in Copiers : Fills(c, f)

\* The startup leaves the core of its package in place; unless a copy was cut off
\* what copies after it copies no core, and only while there is none.
SeedInv ==
    /\ (/\ cuts = 0 /\ machine # "macos" /\ seedCopy["startup"].pc \in {"ended", "error"}
        /\ package.seed.kind = "dir" /\ Seeded \cap CoreNames # {}) => HasCore
    /\ AtWork("startup") =>
          \A f \in Seeded : \/ f \in seedCopy["startup"].left \/ IsThere(f)
                            \/ seedCopy["startup"].pc = "create" /\ seedCopy["startup"].file = f
    /\ \A c \in Others : (AtWork(c) /\ cuts = 0) => Seeded \cap CoreNames = {} /\ ~HasCore

\* What was started is there, and is marked or being copied again.
DoneInv ==
    \A c \in Copiers : (seedCopy[c].pc = "done" /\ seedCopy[c].result # "packaged") =>
        /\ seedCopy[c].result \in CoreNames /\ IsThere(seedCopy[c].result)
        /\ (machine # "windows" /\ cuts <= 1) =>
              bin[seedCopy[c].result].marked = TRUE \/ \E d \in Copiers : AtWork(d)

Brought(f) == bin[f].from = "seed" /\ bin[f].number = package.number

\* A copy replaces nothing but what another copy of the same package brought.
OwnInv ==
    /\ \A f \in CoreFileNames : bin[f].from = "user" => bin[f].state = "whole"
    /\ \A c \in Copiers :
          /\ seedCopy[c].pc = "create" =>
                ~IsThere(seedCopy[c].file) \/ Brought(seedCopy[c].file)
          /\ seedCopy[c].pc = "write" => Brought(seedCopy[c].file)

CoreInv == CoreType /\ CopyInv /\ WholeInv /\ SeedInv /\ DoneInv /\ OwnInv

LEMMA LeastIndex ==
    ASSUME NEW S \in SUBSET Nat, S # {}
    PROVE  \E i \in S : \A j \in S : i <= j
<1>1. IsWellFoundedOn(OpToRel(<, Nat), Nat)
  BY NatLessThanWellFounded
<1>2. PICK i \in S : \A j \in S : ~(<<j, i>> \in OpToRel(<, Nat))
  BY <1>1, WFMin
<1>3. \A j \in S : ~(j < i)
  BY <1>2 DEF OpToRel
<1> QED BY <1>3

\* What is found in a folder is a core that is there, if any is.
LEMMA PreferredIs ==
    ASSUME NEW files
    PROVE  /\ Preferred(files) # "" => Preferred(files) \in CoreNames /\ Preferred(files) \in files
           /\ Preferred(files) = "" <=> CoreNames \cap files = {}
<1> DEFINE found == {i \in DOMAIN CoreExecutables : CoreExecutables[i] \in files}
           first == CHOOSE i \in found : \A j \in found : i <= j
<1>1. CoreExecutables \in Seq(CoreNames)
  BY CoreBounds
<1>2. "" \notin CoreNames
  BY CoreBounds DEF CoreFileNames
<1>3. found \in SUBSET Nat
  <2>1. DOMAIN CoreExecutables = 1 .. Len(CoreExecutables) /\ Len(CoreExecutables) \in Nat
    BY <1>1
  <2> QED BY <2>1
<1>4. found = {} <=> CoreNames \cap files = {}
  BY DEF CoreNames
<1>5. CASE found = {}
  BY <1>4, <1>5 DEF Preferred
<1>6. CASE found # {}
  <2>1. first \in found
    BY <1>3, <1>6, LeastIndex
  <2>2. Preferred(files) = CoreExecutables[first]
    BY <1>6 DEF Preferred
  <2>3. Preferred(files) \in CoreNames /\ Preferred(files) \in files
    BY <2>1, <2>2 DEF CoreNames
  <2> QED BY <2>3, <1>2, <1>6, <1>4
<1> QED BY <1>5, <1>6

LEMMA CoreIsFound ==
    /\ ExistingExecutable = "" <=> ~HasCore
    /\ ExistingExecutable # "" => ExistingExecutable \in CoreNames /\ IsThere(ExistingExecutable)
BY PreferredIs DEF ExistingExecutable, HasCore

\* A mark is all a step changes that marks files.
LEMMA MarkedFiles ==
    ASSUME CoreType, NEW files, bin' = bin \/ bin' = Marked(bin, files)
    PROVE  /\ bin' \in [CoreFileNames -> Entries]
           /\ \A f \in CoreFileNames :
                 /\ bin'[f].from = bin[f].from /\ bin'[f].number = bin[f].number
                 /\ bin'[f].state = bin[f].state
                 /\ bin[f].marked = TRUE => bin'[f].marked = TRUE
           /\ (bin' = Marked(bin, files) /\ machine # "windows") =>
                 \A f \in CoreFileNames : f \in files => bin'[f].marked = TRUE
<1>1. bin \in [CoreFileNames -> Entries]
  BY DEF CoreType
<1>2. CASE bin' = bin
  <2>1. ASSUME bin' = Marked(bin, files), machine # "windows",
               NEW f \in CoreFileNames, f \in files
        PROVE  bin'[f].marked = TRUE
    <3> DEFINE mark == bin[f].marked \/ (machine # "windows" /\ f \in files)
    <3>1. mark = TRUE
      BY <2>1
    <3>2. bin'[f] = [bin[f] EXCEPT !.marked = mark]
      BY <2>1 DEF Marked
    <3> HIDE DEF mark
    <3> QED BY <3>1, <3>2, <1>1 DEF Entries
  <2> QED BY <1>1, <1>2, <2>1
<1>3. CASE bin' = Marked(bin, files)
  <2> DEFINE mark(f) == bin[f].marked \/ (machine # "windows" /\ f \in files)
  <2>1. bin' = [f \in CoreFileNames |-> [bin[f] EXCEPT !.marked = mark(f)]]
    BY <1>3 DEF Marked
  <2>2. \A f : mark(f) \in BOOLEAN
    OBVIOUS
  <2>3. \A f \in CoreFileNames : bin[f].marked = TRUE => mark(f) = TRUE
    OBVIOUS
  <2>4. machine # "windows" => \A f \in CoreFileNames : f \in files => mark(f) = TRUE
    OBVIOUS
  <2> HIDE DEF mark
  <2>5. ASSUME NEW f \in CoreFileNames
        PROVE  /\ bin'[f] \in Entries /\ bin'[f].marked = mark(f)
               /\ bin'[f].from = bin[f].from /\ bin'[f].number = bin[f].number
               /\ bin'[f].state = bin[f].state
    <3>1. bin'[f] = [bin[f] EXCEPT !.marked = mark(f)] /\ bin[f] \in Entries
      BY <2>1, <1>1
    <3> QED BY <3>1, <2>2 DEF Entries
  <2>6. bin' \in [CoreFileNames -> Entries]
    BY <2>1, <2>5
  <2> QED BY <2>3, <2>4, <2>5, <2>6
<1> QED BY <1>2, <1>3

\* A caller that writes no file goes on, and marks files at most: what is in the
\* folder stays as it is.
LEMMA QuietCopy ==
    ASSUME CoreInv, NEW c \in Copiers, NEW r \in Copies, NEW files,
           seedCopy[c].pc \notin {"create", "write"}, r.pc # "write",
           r.pc = "create" => r.file \in CoreFileNames /\ ~IsThere(r.file),
           seedCopy' = [seedCopy EXCEPT ![c] = r],
           bin' = bin \/ bin' = Marked(bin, files),
           UNCHANGED <<machine, package, cuts>>
    PROVE  /\ CoreType' /\ WholeInv' /\ OwnInv'
           /\ \A f \in CoreFileNames : IsThere(f)' <=> IsThere(f)
           /\ HasCore' <=> HasCore
           /\ seedCopy'[c] = r /\ \A d \in Copiers \ {c} : seedCopy'[d] = seedCopy[d]
<1>1. CoreType /\ WholeInv /\ OwnInv
  BY DEF CoreInv
<1>2. /\ bin' \in [CoreFileNames -> Entries]
      /\ \A f \in CoreFileNames :
            /\ bin'[f].from = bin[f].from /\ bin'[f].number = bin[f].number
            /\ bin'[f].state = bin[f].state
  BY <1>1, MarkedFiles
<1>3. /\ seedCopy \in [Copiers -> Copies]
      /\ seedCopy'[c] = r /\ \A d \in Copiers \ {c} : seedCopy'[d] = seedCopy[d]
  BY <1>1 DEF CoreType, Copies
<1>4. CoreType'
  BY <1>1, <1>2, <1>3 DEF CoreType, Copies
<1>5. \A f \in CoreFileNames : IsThere(f)' <=> IsThere(f)
  BY <1>2 DEF IsThere
<1>6. HasCore' <=> HasCore
  BY <1>5 DEF HasCore, CoreFileNames
<1>7. \A d \in Copiers, f \in CoreFileNames : Fills(d, f) => Fills(d, f)'
  BY <1>3 DEF Fills
<1>8. WholeInv'
  BY <1>1, <1>2, <1>7 DEF WholeInv
<1>9. OwnInv'
  <2>1. \A f \in CoreFileNames : bin'[f].from = "user" => bin'[f].state = "whole"
    BY <1>1, <1>2 DEF OwnInv
  <2>2. ASSUME NEW d \in Copiers, seedCopy'[d].pc \in {"create", "write"}
        PROVE  (/\ seedCopy[d].pc = "create" =>
                      ~IsThere(seedCopy[d].file) \/ Brought(seedCopy[d].file)
                /\ seedCopy[d].pc = "write" => Brought(seedCopy[d].file))'
    <3>1. CASE d = c
      <4>1. seedCopy'[d].pc = "create" /\ seedCopy'[d].file = r.file
        BY <3>1, <1>3, <2>2
      <4> QED BY <4>1, <1>3, <3>1, <1>5 DEF IsThere
    <3>2. CASE d # c
      <4>1. seedCopy[d].file \in CoreFileNames /\ seedCopy'[d] = seedCopy[d]
        <5>1. seedCopy'[d] = seedCopy[d] /\ AtWork(d) /\ seedCopy[d].pc # "copy"
          BY <3>2, <2>2, <1>3 DEF AtWork
        <5>2. Seeded \subseteq CoreFileNames
          BY <1>1, CoreBounds DEF CoreType, Seeded
        <5> QED BY <5>1, <5>2 DEF CoreInv, CopyInv
      <4>2. /\ seedCopy[d].pc = "create" =>
                  ~IsThere(seedCopy[d].file) \/ Brought(seedCopy[d].file)
            /\ seedCopy[d].pc = "write" => Brought(seedCopy[d].file)
        BY <1>1 DEF OwnInv
      <4>3. \A f \in CoreFileNames :
               (~IsThere(f) => ~IsThere(f)') /\ (Brought(f) => Brought(f)')
        BY <1>2 DEF IsThere, Brought
      <4> QED BY <4>1, <4>2, <4>3
    <3> QED BY <3>1, <3>2
  <2> QED BY <2>1, <2>2 DEF OwnInv
<1> QED BY <1>3, <1>4, <1>5, <1>6, <1>8, <1>9

LEMMA FreshCopy == NoCopy \in Copies
<1>1. "idle" \in CopyPcs /\ {} \in SUBSET CoreFileNames
  BY DEF CopyPcs
<1>2. "" \in Answers \cup CoreNames /\ "" \in CoreFileNames \cup {""}
  BY Zenon DEF Answers
<1>3. NoCopy = [pc |-> "idle", left |-> {}, file |-> "", result |-> ""]
  BY Zenon DEF NoCopy
<1> QED BY <1>1, <1>2, <1>3, Zenon DEF Copies

\* What a caller becomes when it is set going, with files to copy or an answer.
LEMMA CopyGoes ==
    ASSUME NEW pc \in CopyPcs
    PROVE  LET r == [NoCopy EXCEPT !.pc = pc] IN r \in Copies /\ r.pc = pc
BY FreshCopy DEF Copies

LEMMA CopyWith ==
    ASSUME NEW pc \in CopyPcs, NEW left \in SUBSET CoreFileNames
    PROVE  LET r == [NoCopy EXCEPT !.pc = pc, !.left = left]
           IN  r \in Copies /\ r.pc = pc /\ r.left = left
BY FreshCopy DEF Copies

LEMMA CopyAnswers ==
    ASSUME NEW pc \in CopyPcs, NEW result \in Answers \cup CoreNames
    PROVE  LET r == [NoCopy EXCEPT !.pc = pc, !.result = result]
           IN  r \in Copies /\ r.pc = pc /\ r.result = result
BY FreshCopy DEF Copies

\* When a copy is over, a connection and a test look for the core; the others end.
LEMMA AfterCopyGoes ==
    ASSUME NEW c \in Copiers, NEW outcome \in Answers, AfterCopy(c, outcome)
    PROVE  \E r \in Copies : /\ seedCopy' = [seedCopy EXCEPT ![c] = r]
                             /\ r.pc \in {"discover", "ended"}
                             /\ c = "startup" => r.pc = "ended"
<1>1. "discover" \in CopyPcs /\ "ended" \in CopyPcs
  BY DEF CopyPcs
<1>2. CASE c \in {"connect", "speedtest"}
  <2> DEFINE r == [NoCopy EXCEPT !.pc = "discover"]
  <2>1. seedCopy' = [seedCopy EXCEPT ![c] = r]
    BY <1>2 DEF AfterCopy
  <2>2. r \in Copies /\ r.pc = "discover"
    BY <1>1, CopyGoes
  <2> HIDE DEF r
  <2> QED BY <1>2, <2>1, <2>2
<1>3. CASE c \notin {"connect", "speedtest"}
  <2> DEFINE r == [NoCopy EXCEPT !.pc = "ended", !.result = outcome]
  <2>1. seedCopy' = [seedCopy EXCEPT ![c] = r]
    BY <1>3 DEF AfterCopy
  <2>2. r \in Copies /\ r.pc = "ended"
    BY <1>1, CopyAnswers
  <2> HIDE DEF r
  <2> QED BY <2>1, <2>2
<1> QED BY <1>2, <1>3

\* A caller that is not at work goes on, and a copy starts only as it may.
LEMMA QuietGoes ==
    ASSUME CoreInv, NEW c \in Copiers, NEW r \in Copies, NEW files,
           ~AtWork(c), seedCopy' = [seedCopy EXCEPT ![c] = r],
           bin' = bin \/ bin' = Marked(bin, files),
           UNCHANGED <<machine, package, cuts>>,
           r.pc \notin {"idle", "create", "write"},
           c = "startup" =>
              /\ r.pc \in {"copy", "ended", "error"}
              /\ seedCopy[c].pc = "idle"
              /\ (machine # "macos" /\ package.seed.kind = "dir" /\ r.pc # "copy") => HasCore,
           c # "startup" => seedCopy["startup"].pc \in {"ended", "error"},
           r.pc = "copy" =>
              /\ package.seed.kind = "dir" /\ r.left = Seeded /\ ~HasCore
              /\ (machine = "macos" /\ c # "startup") => Seeded \cap CoreNames = {},
           (r.pc = "done" /\ r.result # "packaged") =>
              /\ r.result \in CoreNames /\ IsThere(r.result)
              /\ bin' = Marked(bin, {r.result})
    PROVE  CoreInv'
<1>1. CoreType /\ CopyInv /\ SeedInv /\ DoneInv
  BY DEF CoreInv
<1>2. /\ CoreType' /\ WholeInv' /\ OwnInv'
      /\ \A f \in CoreFileNames : IsThere(f)' <=> IsThere(f)
      /\ HasCore' <=> HasCore
      /\ seedCopy'[c] = r /\ \A d \in Copiers \ {c} : seedCopy'[d] = seedCopy[d]
  BY QuietCopy DEF AtWork
<1>3. /\ Seeded' = Seeded /\ package' = package /\ machine' = machine /\ cuts' = cuts
      /\ "startup" \in Copiers /\ Others \subseteq Copiers /\ "startup" \notin Others
  BY DEF Seeded, Copiers, Others
<1>4. \A d \in Copiers \ {c} : AtWork(d)' <=> AtWork(d)
  BY <1>2 DEF AtWork
<1>5. AtWork(c)' <=> r.pc = "copy"
  BY <1>2 DEF AtWork
<1>6. CopyInv'
  <2>1. seedCopy'["startup"].pc \notin {"discover", "done"}
    BY <1>1, <1>2, <1>3 DEF CopyInv
  <2>2. \A d \in Others : seedCopy'[d].pc # "idle" => seedCopy'["startup"].pc \in {"ended", "error"}
    BY <1>1, <1>2, <1>3 DEF CopyInv
  <2>3. ASSUME NEW d \in Copiers, AtWork(d)'
        PROVE  /\ package'.seed.kind = "dir" /\ seedCopy'[d].left \subseteq Seeded'
               /\ seedCopy'[d].pc # "copy" => seedCopy'[d].file \in Seeded'
    <3>1. CASE d = c
      BY <3>1, <2>3, <1>2, <1>3, <1>5
    <3>2. CASE d # c
      BY <3>2, <2>3, <1>1, <1>2, <1>3, <1>4 DEF CopyInv
    <3> QED BY <3>1, <3>2
  <2> QED BY <2>1, <2>2, <2>3 DEF CopyInv
<1>7. SeedInv'
  <2>1. ASSUME cuts = 0, machine # "macos", seedCopy'["startup"].pc \in {"ended", "error"},
               package.seed.kind = "dir", Seeded \cap CoreNames # {}
        PROVE  HasCore
    <3>1. CASE c = "startup"
      BY <3>1, <2>1, <1>2
    <3>2. CASE c # "startup"
      BY <3>2, <2>1, <1>1, <1>2, <1>3 DEF SeedInv
    <3> QED BY <3>1, <3>2
  <2>2. ASSUME AtWork("startup")', NEW f \in Seeded
        PROVE  \/ f \in seedCopy'["startup"].left \/ IsThere(f)'
               \/ seedCopy'["startup"].pc = "create" /\ seedCopy'["startup"].file = f
    <3>1. CASE c = "startup"
      BY <3>1, <2>2, <1>2, <1>5
    <3>2. CASE c # "startup"
      <4>1. AtWork("startup") /\ seedCopy'["startup"] = seedCopy["startup"]
        BY <3>2, <2>2, <1>2, <1>3, <1>4
      <4>2. f \in CoreFileNames
        BY <1>1, CoreBounds DEF CoreType, Seeded
      <4> QED BY <4>1, <4>2, <1>1, <1>2 DEF SeedInv
    <3> QED BY <3>1, <3>2
  <2>3. ASSUME NEW d \in Others, AtWork(d)', cuts = 0
        PROVE  Seeded \cap CoreNames = {} /\ ~HasCore
    <3>1. CASE d = c
      BY <3>1, <2>3, <1>1, <1>2, <1>3, <1>5 DEF SeedInv
    <3>2. CASE d # c
      BY <3>2, <2>3, <1>1, <1>3, <1>4 DEF SeedInv
    <3> QED BY <3>1, <3>2
  <2> QED BY <2>1, <2>2, <2>3, <1>2, <1>3 DEF SeedInv
<1>8. DoneInv'
  <2> SUFFICES ASSUME NEW d \in Copiers, seedCopy'[d].pc = "done", seedCopy'[d].result # "packaged"
               PROVE  /\ seedCopy'[d].result \in CoreNames /\ IsThere(seedCopy[d].result)'
                      /\ (machine # "windows" /\ cuts <= 1) =>
                            \/ bin'[seedCopy'[d].result].marked = TRUE
                            \/ \E e \in Copiers : AtWork(e)'
    BY <1>3 DEF DoneInv
  <2>1. CoreNames \subseteq CoreFileNames
    BY DEF CoreFileNames
  <2>2. CASE d = c
    <3>1. r.result \in CoreNames /\ IsThere(r.result) /\ bin' = Marked(bin, {r.result})
      BY <2>2, <1>2
    <3>2. machine # "windows" => bin'[r.result].marked = TRUE
      BY <3>1, <2>1, <1>1, MarkedFiles
    <3> QED BY <3>1, <3>2, <2>1, <2>2, <1>2 DEF IsThere
  <2>3. CASE d # c
    <3>1. seedCopy'[d] = seedCopy[d]
      BY <2>3, <1>2
    <3>2. /\ seedCopy[d].result \in CoreNames /\ IsThere(seedCopy[d].result)
          /\ (machine # "windows" /\ cuts <= 1) =>
                \/ bin[seedCopy[d].result].marked = TRUE
                \/ \E e \in Copiers : AtWork(e)
      BY <3>1, <1>1 DEF DoneInv
    <3>3. bin[seedCopy[d].result].marked = TRUE => bin'[seedCopy[d].result].marked = TRUE
      BY <3>2, <2>1, <1>1, MarkedFiles
    <3> QED BY <3>1, <3>2, <3>3, <2>1, <1>2, <1>4 DEF IsThere
  <2> QED BY <2>2, <2>3
<1> QED BY <1>2, <1>6, <1>7, <1>8 DEF CoreInv

LEMMA StartsStep ==
    ASSUME CoreInv, NEW c \in Copiers, SeedCopyStarts(c)
    PROVE  CoreInv'
<1>1. CoreType /\ seedCopy[c].pc = "idle" /\ ~AtWork(c) /\ UNCHANGED <<machine, package, cuts>>
  BY DEF CoreInv, SeedCopyStarts, AtWork
<1>2. c # "startup" => seedCopy["startup"].pc \in {"ended", "error"}
  BY DEF SeedCopyStarts
<1>3. ASSUME NEW outcome \in Answers, AfterCopy(c, outcome),
             bin' = bin \/ bin' = PermissionPlan(bin),
             machine # "macos" /\ c = "startup" /\ package.seed.kind = "dir" => HasCore
      PROVE  CoreInv'
  <2>1. PICK r \in Copies : /\ seedCopy' = [seedCopy EXCEPT ![c] = r]
                            /\ r.pc \in {"discover", "ended"}
                            /\ c = "startup" => r.pc = "ended"
    BY <1>3, AfterCopyGoes
  <2>2. bin' = bin \/ bin' = Marked(bin, {f \in CoreNames : bin[f].from # "absent"})
    BY <1>3 DEF PermissionPlan
  <2> QED BY <2>1, <2>2, <1>1, <1>2, <1>3, QuietGoes
<1>4. CASE machine = "macos" /\ c = "startup"
  <2>1. AfterCopy(c, "skipped") /\ bin' = bin
    BY <1>4 DEF SeedCopyStarts
  <2> QED BY <2>1, <1>3, <1>4 DEF Answers
<1>5. CASE machine = "macos" /\ c # "startup" /\ PackagedExecutable # ""
  <2>1. PICK pc \in {"ended", "done"} : pc = IF c = "install" THEN "ended" ELSE "done"
    OBVIOUS
  <2> DEFINE r == [NoCopy EXCEPT !.pc = pc, !.result = "packaged"]
  <2>2. seedCopy' = [seedCopy EXCEPT ![c] = r] /\ bin' = bin
    BY <2>1, <1>5 DEF SeedCopyStarts
  <2>3. pc \in CopyPcs /\ "packaged" \in Answers
    BY DEF CopyPcs, Answers
  <2>4. r \in Copies /\ r.pc = pc /\ r.result = "packaged"
    BY <2>3, CopyAnswers
  <2> HIDE DEF r
  <2> QED BY <2>1, <2>2, <2>4, <1>1, <1>2, <1>5, QuietGoes
<1>6. CASE ~(machine = "macos" /\ c = "startup")
           /\ ~(machine = "macos" /\ c # "startup" /\ PackagedExecutable # "")
  <2>1. CASE package.seed.kind \in {"none", "missing"} /\ AfterCopy(c, "SeedMissing") /\ bin' = bin
    BY <2>1, <1>3 DEF Answers
  <2>2. CASE /\ package.seed.kind = "file"
             /\ seedCopy' = [seedCopy EXCEPT ![c].pc = "error"] /\ bin' = bin
    <3> DEFINE r == [seedCopy[c] EXCEPT !.pc = "error"]
    <3>1. r \in Copies /\ r.pc = "error"
      BY <1>1 DEF CoreType, Copies, CopyPcs
    <3>2. seedCopy' = [seedCopy EXCEPT ![c] = r]
      BY <2>2
    <3> HIDE DEF r
    <3> QED BY <3>1, <3>2, <2>2, <1>1, <1>2, QuietGoes
  <2>3. CASE /\ package.seed.kind = "dir" /\ ExistingExecutable # ""
             /\ bin' = PermissionPlan(bin) /\ AfterCopy(c, "AlreadyInstalled")
    BY <2>3, <1>3, CoreIsFound DEF Answers
  <2>4. CASE /\ package.seed.kind = "dir" /\ ExistingExecutable = "" /\ bin' = bin
             /\ seedCopy' = [seedCopy EXCEPT ![c] =
                   [NoCopy EXCEPT !.pc = "copy", !.left = package.seed.files]]
    <3> DEFINE r == [NoCopy EXCEPT !.pc = "copy", !.left = package.seed.files]
    <3>1. package.seed.files \in SUBSET CoreFileNames
      BY <1>1, CoreBounds DEF CoreType
    <3>2. r \in Copies /\ r.pc = "copy" /\ r.left = Seeded
      <4>1. "copy" \in CopyPcs
        BY DEF CopyPcs
      <4> QED BY <3>1, <4>1, CopyWith DEF Seeded
    <3>3. (machine = "macos" /\ c # "startup") => Seeded \cap CoreNames = {}
      BY <1>6, <2>4, PreferredIs DEF PackagedExecutable, Seeded
    <3>4. seedCopy' = [seedCopy EXCEPT ![c] = r]
      BY <2>4
    <3> HIDE DEF r
    <3> QED BY <3>2, <3>3, <3>4, <2>4, <1>1, <1>2, CoreIsFound, QuietGoes
  <2> QED BY <2>1, <2>2, <2>3, <2>4, <1>6 DEF SeedCopyStarts
<1> QED BY <1>4, <1>5, <1>6

LEMMA DiscoversStep ==
    ASSUME CoreInv, NEW c \in Copiers, Discovers(c)
    PROVE  CoreInv'
<1>1. /\ CoreType /\ seedCopy[c].pc = "discover" /\ c # "startup" /\ ~AtWork(c)
      /\ UNCHANGED <<machine, package, cuts>>
  BY DEF CoreInv, CopyInv, Discovers, AtWork
<1>2. seedCopy["startup"].pc \in {"ended", "error"}
  BY <1>1 DEF CoreInv, CopyInv, Others
<1> DEFINE f == ExistingExecutable
<1>3. CASE /\ f = "" /\ bin' = bin
           /\ seedCopy' = [seedCopy EXCEPT ![c] = [NoCopy EXCEPT !.pc = "error"]]
  <2> DEFINE r == [NoCopy EXCEPT !.pc = "error"]
  <2>1. r \in Copies /\ r.pc = "error"
    <3>1. "error" \in CopyPcs
      BY DEF CopyPcs
    <3> QED BY <3>1, CopyGoes
  <2>2. seedCopy' = [seedCopy EXCEPT ![c] = r]
    BY <1>3
  <2> HIDE DEF r
  <2> QED BY <2>1, <2>2, <1>1, <1>2, <1>3, QuietGoes
<1>4. CASE /\ f # "" /\ bin' = Marked(bin, {f})
           /\ seedCopy' = [seedCopy EXCEPT ![c] = [NoCopy EXCEPT !.pc = "done", !.result = f]]
  <2> DEFINE r == [NoCopy EXCEPT !.pc = "done", !.result = f]
  <2>1. f \in CoreNames /\ IsThere(f)
    BY <1>4, CoreIsFound
  <2>2. "done" \in CopyPcs
    BY DEF CopyPcs
  <2>3. r \in Copies /\ r.pc = "done" /\ r.result = f
    <3> HIDE DEF f
    <3> QED BY <2>1, <2>2, CopyAnswers
  <2>4. seedCopy' = [seedCopy EXCEPT ![c] = r]
    BY <1>4
  <2> HIDE DEF r, f
  <2> QED BY <2>1, <2>3, <2>4, <1>1, <1>2, <1>4, QuietGoes
<1> QED BY <1>3, <1>4 DEF Discovers, Discover

LEMMA LooksStep ==
    ASSUME CoreInv, NEW c \in Copiers, NEW f \in CoreFileNames, SeedCopyLooks(c, f)
    PROVE  CoreInv'
<1> DEFINE r == [seedCopy[c] EXCEPT !.left = @ \ {f},
                                    !.pc = IF Skips(f) THEN "copy" ELSE "create", !.file = f]
<1>1. CoreType /\ CopyInv /\ SeedInv /\ DoneInv
  BY DEF CoreInv
<1>2. /\ seedCopy[c].pc = "copy" /\ f \in seedCopy[c].left /\ AtWork(c)
      /\ UNCHANGED <<machine, package, bin, cuts>>
  BY DEF SeedCopyLooks, AtWork
<1>3. seedCopy[c] \in Copies /\ seedCopy \in [Copiers -> Copies]
  BY <1>1 DEF CoreType
<1>4. r \in Copies /\ r.left = seedCopy[c].left \ {f} /\ r.file = f
      /\ r.pc = IF IsThere(f) THEN "copy" ELSE "create"
  <2>1. (IF Skips(f) THEN "copy" ELSE "create") \in CopyPcs
    BY DEF CopyPcs
  <2> QED BY <2>1, <1>3 DEF Copies, Skips
<1>5. seedCopy' = [seedCopy EXCEPT ![c] = r]
  BY <1>3 DEF SeedCopyLooks
<1> HIDE DEF r
<1>6. /\ CoreType' /\ WholeInv' /\ OwnInv'
      /\ \A g \in CoreFileNames : IsThere(g)' <=> IsThere(g)
      /\ HasCore' <=> HasCore
      /\ seedCopy'[c] = r /\ \A d \in Copiers \ {c} : seedCopy'[d] = seedCopy[d]
  BY <1>2, <1>4, <1>5, QuietCopy
<1>7. /\ Seeded' = Seeded /\ "startup" \in Copiers /\ Others \subseteq Copiers
      /\ "startup" \notin Others
  BY <1>2 DEF Seeded, Copiers, Others
<1>8. \A d \in Copiers : AtWork(d)' <=> AtWork(d)
  BY <1>2, <1>4, <1>6 DEF AtWork
<1>9. f \in Seeded /\ r.left \subseteq Seeded /\ package.seed.kind = "dir"
  BY <1>1, <1>2, <1>4 DEF CopyInv
<1>10. CopyInv'
  <2>1. seedCopy'["startup"].pc \notin {"discover", "done"}
    BY <1>1, <1>4, <1>6, <1>7 DEF CopyInv
  <2>2. \A d \in Others : seedCopy'[d].pc # "idle" => seedCopy'["startup"].pc \in {"ended", "error"}
    BY <1>1, <1>2, <1>6, <1>7 DEF CopyInv
  <2>3. ASSUME NEW d \in Copiers, AtWork(d)'
        PROVE  /\ package'.seed.kind = "dir" /\ seedCopy'[d].left \subseteq Seeded'
               /\ seedCopy'[d].pc # "copy" => seedCopy'[d].file \in Seeded'
    <3>1. CASE d = c
      BY <3>1, <1>2, <1>4, <1>6, <1>7, <1>9
    <3>2. CASE d # c
      BY <3>2, <2>3, <1>1, <1>2, <1>6, <1>7, <1>8 DEF CopyInv
    <3> QED BY <3>1, <3>2
  <2> QED BY <2>1, <2>2, <2>3 DEF CopyInv
<1>11. SeedInv'
  <2>1. (/\ cuts' = 0 /\ machine' # "macos" /\ seedCopy'["startup"].pc \in {"ended", "error"}
         /\ package'.seed.kind = "dir" /\ Seeded' \cap CoreNames # {}) => HasCore'
    BY <1>1, <1>2, <1>4, <1>6, <1>7 DEF SeedInv
  <2>2. ASSUME AtWork("startup")', NEW g \in Seeded
        PROVE  \/ g \in seedCopy'["startup"].left \/ IsThere(g)'
               \/ seedCopy'["startup"].pc = "create" /\ seedCopy'["startup"].file = g
    <3>1. /\ g \in CoreFileNames
          /\ \/ g \in seedCopy["startup"].left \/ IsThere(g)
             \/ seedCopy["startup"].pc = "create" /\ seedCopy["startup"].file = g
      BY <2>2, <1>1, <1>7, <1>8, CoreBounds DEF SeedInv, CoreType, Seeded
    <3>2. CASE c = "startup"
      BY <3>1, <3>2, <1>2, <1>4, <1>6
    <3>3. CASE c # "startup"
      BY <3>1, <3>3, <1>6, <1>7
    <3> QED BY <3>2, <3>3
  <2> QED BY <2>1, <2>2, <1>1, <1>2, <1>6, <1>7, <1>8 DEF SeedInv
<1>12. DoneInv'
  <2> SUFFICES ASSUME NEW d \in Copiers, seedCopy'[d].pc = "done", seedCopy'[d].result # "packaged"
               PROVE  /\ seedCopy'[d].result \in CoreNames /\ IsThere(seedCopy[d].result)'
                      /\ (machine # "windows" /\ cuts <= 1) =>
                            \/ bin'[seedCopy'[d].result].marked = TRUE
                            \/ \E e \in Copiers : AtWork(e)'
    BY <1>2 DEF DoneInv
  <2>1. d # c /\ seedCopy'[d] = seedCopy[d]
    BY <1>4, <1>6
  <2> QED BY <2>1, <1>1, <1>2, <1>8 DEF DoneInv, IsThere
<1> QED BY <1>6, <1>10, <1>11, <1>12 DEF CoreInv

LEMMA EndsStep ==
    ASSUME CoreInv, NEW c \in Copiers, SeedCopyEnds(c)
    PROVE  CoreInv'
<1>1. CoreType /\ CopyInv /\ SeedInv /\ DoneInv
  BY DEF CoreInv
<1>2. /\ seedCopy[c].pc = "copy" /\ seedCopy[c].left = {} /\ AtWork(c)
      /\ bin' = PermissionPlan(bin) /\ AfterCopy(c, "Copied")
      /\ UNCHANGED <<machine, package, cuts>>
  BY DEF SeedCopyEnds, AtWork
<1>3. PICK r \in Copies : /\ seedCopy' = [seedCopy EXCEPT ![c] = r]
                          /\ r.pc \in {"discover", "ended"} /\ (c = "startup" => r.pc = "ended")
  BY <1>2, AfterCopyGoes DEF Answers
<1> DEFINE files == {f \in CoreNames : bin[f].from # "absent"}
<1>4. bin' = Marked(bin, files)
  BY <1>2 DEF PermissionPlan
<1>5. /\ CoreType' /\ WholeInv' /\ OwnInv'
      /\ \A g \in CoreFileNames : IsThere(g)' <=> IsThere(g)
      /\ HasCore' <=> HasCore
      /\ seedCopy'[c] = r /\ \A d \in Copiers \ {c} : seedCopy'[d] = seedCopy[d]
  BY <1>2, <1>3, <1>4, QuietCopy
<1>6. /\ Seeded' = Seeded /\ "startup" \in Copiers /\ Others \subseteq Copiers
      /\ "startup" \notin Others /\ CoreNames \subseteq CoreFileNames
  BY <1>2 DEF Seeded, Copiers, Others, CoreFileNames
<1>7. ~AtWork(c)' /\ \A d \in Copiers \ {c} : AtWork(d)' <=> AtWork(d)
  BY <1>3, <1>5 DEF AtWork
<1>8. CopyInv'
  <2>1. seedCopy'["startup"].pc \notin {"discover", "done"}
    BY <1>1, <1>3, <1>5, <1>6 DEF CopyInv
  <2>2. \A d \in Others : seedCopy'[d].pc # "idle" => seedCopy'["startup"].pc \in {"ended", "error"}
    BY <1>1, <1>2, <1>3, <1>5, <1>6 DEF CopyInv
  <2>3. \A d \in Copiers : AtWork(d)' =>
           /\ package'.seed.kind = "dir" /\ seedCopy'[d].left \subseteq Seeded'
           /\ seedCopy'[d].pc # "copy" => seedCopy'[d].file \in Seeded'
    BY <1>1, <1>2, <1>5, <1>6, <1>7 DEF CopyInv
  <2> QED BY <2>1, <2>2, <2>3 DEF CopyInv
<1>9. SeedInv'
  <2>1. ASSUME cuts = 0, machine # "macos", seedCopy'["startup"].pc \in {"ended", "error"},
               package.seed.kind = "dir", Seeded \cap CoreNames # {}
        PROVE  HasCore
    <3>1. CASE c = "startup"
      <4>1. \A f \in Seeded : IsThere(f)
        BY <3>1, <1>1, <1>2 DEF SeedInv
      <4> QED BY <4>1, <2>1 DEF HasCore
    <3>2. CASE c # "startup"
      BY <3>2, <2>1, <1>1, <1>5, <1>6 DEF SeedInv
    <3> QED BY <3>1, <3>2
  <2>2. ASSUME AtWork("startup")', NEW g \in Seeded
        PROVE  \/ g \in seedCopy'["startup"].left \/ IsThere(g)'
               \/ seedCopy'["startup"].pc = "create" /\ seedCopy'["startup"].file = g
    <3>1. c # "startup" /\ AtWork("startup") /\ g \in CoreFileNames
      BY <2>2, <1>1, <1>6, <1>7, CoreBounds DEF CoreType, Seeded
    <3> QED BY <3>1, <1>1, <1>5, <1>6 DEF SeedInv
  <2>3. \A d \in Others : (AtWork(d)' /\ cuts = 0) => Seeded \cap CoreNames = {} /\ ~HasCore
    BY <1>1, <1>6, <1>7 DEF SeedInv
  <2> QED BY <2>1, <2>2, <2>3, <1>2, <1>5, <1>6 DEF SeedInv
<1>10. DoneInv'
  <2> SUFFICES ASSUME NEW d \in Copiers, seedCopy'[d].pc = "done", seedCopy'[d].result # "packaged"
               PROVE  /\ seedCopy'[d].result \in CoreNames /\ IsThere(seedCopy[d].result)'
                      /\ machine # "windows" => bin'[seedCopy'[d].result].marked = TRUE
    BY <1>2 DEF DoneInv
  <2>1. seedCopy'[d] = seedCopy[d]
    BY <1>3, <1>5
  <2>2. seedCopy[d].result \in CoreNames /\ IsThere(seedCopy[d].result)
    BY <2>1, <1>1 DEF DoneInv
  <2>3. seedCopy[d].result \in files
    BY <2>2 DEF IsThere
  <2>4. machine # "windows" => bin'[seedCopy[d].result].marked = TRUE
    <3> HIDE DEF files
    <3> QED BY <2>2, <2>3, <1>1, <1>4, <1>6, MarkedFiles
  <2> QED BY <2>1, <2>2, <2>4, <1>5, <1>6 DEF IsThere
<1> QED BY <1>5, <1>8, <1>9, <1>10 DEF CoreInv

\* A caller at work stays at work in its folder: what that leaves as it was.
LEMMA StaysAtWork ==
    ASSUME CoreInv, NEW c \in Copiers, AtWork(c), NEW pc \in {"write", "copy"},
           seedCopy' = [seedCopy EXCEPT ![c].pc = pc],
           pc = "write" => seedCopy[c].pc = "create",
           UNCHANGED <<machine, package, cuts>>
    PROVE  /\ seedCopy' \in [Copiers -> Copies] /\ CopyInv'
           /\ seedCopy'[c].pc = pc /\ seedCopy'[c].left = seedCopy[c].left
           /\ seedCopy'[c].file = seedCopy[c].file
           /\ \A d \in Copiers \ {c} : seedCopy'[d] = seedCopy[d]
           /\ \A d \in Copiers : AtWork(d)' <=> AtWork(d)
           /\ "startup" \in Copiers /\ Others \subseteq Copiers /\ "startup" \notin Others
           /\ Seeded' = Seeded /\ Seeded \subseteq CoreFileNames
<1>1. CoreType /\ CopyInv
  BY DEF CoreInv
<1>2. seedCopy \in [Copiers -> Copies] /\ pc \in CopyPcs
  BY <1>1 DEF CoreType, CopyPcs
<1>3. /\ seedCopy' \in [Copiers -> Copies]
      /\ seedCopy'[c].pc = pc /\ seedCopy'[c].left = seedCopy[c].left
      /\ seedCopy'[c].file = seedCopy[c].file
      /\ \A d \in Copiers \ {c} : seedCopy'[d] = seedCopy[d]
  BY <1>2 DEF Copies
<1>4. /\ "startup" \in Copiers /\ Others \subseteq Copiers /\ "startup" \notin Others
      /\ Seeded' = Seeded /\ Seeded \subseteq CoreFileNames
  BY <1>1, CoreBounds DEF CoreType, Seeded, Copiers, Others
<1>5. \A d \in Copiers : AtWork(d)' <=> AtWork(d)
  BY <1>3 DEF AtWork
<1>6. CopyInv'
  <2>1. seedCopy'["startup"].pc \notin {"discover", "done"}
    BY <1>1, <1>3, <1>4 DEF CopyInv
  <2>2. \A d \in Others : seedCopy'[d].pc # "idle" => seedCopy'["startup"].pc \in {"ended", "error"}
    BY <1>1, <1>3, <1>4 DEF CopyInv, AtWork
  <2>3. ASSUME NEW d \in Copiers, AtWork(d)'
        PROVE  /\ package'.seed.kind = "dir" /\ seedCopy'[d].left \subseteq Seeded'
               /\ seedCopy'[d].pc # "copy" => seedCopy'[d].file \in Seeded'
    <3>1. /\ package.seed.kind = "dir" /\ seedCopy[d].left \subseteq Seeded
          /\ seedCopy[d].pc # "copy" => seedCopy[d].file \in Seeded
      BY <2>3, <1>1, <1>5 DEF CopyInv
    <3>2. CASE d = c
      BY <3>1, <3>2, <1>3, <1>4
    <3>3. CASE d # c
      BY <3>1, <3>3, <1>3, <1>4
    <3> QED BY <3>2, <3>3
  <2> QED BY <2>1, <2>2, <2>3 DEF CopyInv
<1> QED BY <1>3, <1>4, <1>5, <1>6

LEMMA CreatesStep ==
    ASSUME CoreInv, NEW c \in Copiers, SeedCopyCreates(c)
    PROVE  CoreInv'
<1>0. PICK f : f = seedCopy[c].file
  OBVIOUS
<1> DEFINE new == [from |-> "seed", number |-> package.number, state |-> "partial",
                   marked |-> package.seed.marked]
<1>1. CoreType /\ CopyInv /\ WholeInv /\ SeedInv /\ DoneInv /\ OwnInv
  BY DEF CoreInv
<1>2. /\ seedCopy[c].pc = "create" /\ AtWork(c)
      /\ bin' = [bin EXCEPT ![f] = new]
      /\ seedCopy' = [seedCopy EXCEPT ![c].pc = "write"]
      /\ UNCHANGED <<machine, package, cuts>>
  BY <1>0 DEF SeedCopyCreates, AtWork
<1>3. /\ seedCopy' \in [Copiers -> Copies] /\ CopyInv'
      /\ seedCopy'[c].pc = "write" /\ seedCopy'[c].left = seedCopy[c].left
      /\ seedCopy'[c].file = f
      /\ \A d \in Copiers \ {c} : seedCopy'[d] = seedCopy[d]
      /\ \A d \in Copiers : AtWork(d)' <=> AtWork(d)
      /\ "startup" \in Copiers /\ Others \subseteq Copiers /\ "startup" \notin Others
      /\ Seeded' = Seeded /\ Seeded \subseteq CoreFileNames
  BY <1>0, <1>2, StaysAtWork
<1>4. f \in Seeded /\ f \in CoreFileNames
  BY <1>0, <1>1, <1>2, <1>3 DEF CopyInv
<1>5. new \in Entries
  <2>1. package.seed.marked \in BOOLEAN /\ package.number \in Nat
    BY <1>1, CoreBounds DEF CoreType
  <2> QED BY <2>1 DEF Entries
<1>6. /\ bin' \in [CoreFileNames -> Entries]
      /\ bin'[f].from = "seed" /\ bin'[f].number = package.number
      /\ bin'[f].state = "partial"
      /\ \A g \in CoreFileNames \ {f} : bin'[g] = bin[g]
  <2>1. bin \in [CoreFileNames -> Entries]
    BY <1>1 DEF CoreType
  <2>2. bin'[f] = new
    BY <2>1, <1>2, <1>4
  <2> QED BY <2>1, <2>2, <1>2, <1>4, <1>5
<1>7. CoreType'
  BY <1>1, <1>2, <1>3, <1>6 DEF CoreType
<1>8. /\ \A g \in CoreFileNames : IsThere(g) => IsThere(g)'
      /\ IsThere(f)' /\ \A g \in CoreFileNames \ {f} : IsThere(g)' => IsThere(g)
  BY <1>4, <1>6 DEF IsThere
<1>9. HasCore => HasCore'
  BY <1>8 DEF HasCore, CoreFileNames
<1>10. WholeInv'
  <2> SUFFICES ASSUME cuts = 0, NEW g \in CoreFileNames, bin'[g].state # "whole"
               PROVE  bin'[g].state = "partial" /\ \E d \in Copiers : Fills(d, g)'
    BY <1>2 DEF WholeInv
  <2>1. Fills(c, f)'
    BY <1>3 DEF Fills
  <2>2. CASE g = f
    BY <2>1, <2>2, <1>6
  <2>3. CASE g # f
    <3>1. PICK d \in Copiers : bin[g].state = "partial" /\ Fills(d, g)
      BY <2>3, <1>1, <1>6 DEF WholeInv
    <3>2. Fills(d, g)'
      BY <3>1, <1>2, <1>3 DEF Fills
    <3> QED BY <3>1, <3>2, <2>3, <1>6
  <2> QED BY <2>2, <2>3
<1>11. SeedInv'
  <2>1. (/\ cuts' = 0 /\ machine' # "macos" /\ seedCopy'["startup"].pc \in {"ended", "error"}
         /\ package'.seed.kind = "dir" /\ Seeded' \cap CoreNames # {}) => HasCore'
    BY <1>1, <1>2, <1>3, <1>9 DEF SeedInv
  <2>2. ASSUME AtWork("startup")', NEW g \in Seeded
        PROVE  \/ g \in seedCopy'["startup"].left \/ IsThere(g)'
               \/ seedCopy'["startup"].pc = "create" /\ seedCopy'["startup"].file = g
    <3>1. /\ g \in CoreFileNames
          /\ \/ g \in seedCopy["startup"].left \/ IsThere(g)
             \/ seedCopy["startup"].pc = "create" /\ seedCopy["startup"].file = g
      BY <2>2, <1>1, <1>3 DEF SeedInv
    <3>2. CASE c = "startup"
      BY <3>1, <3>2, <1>0, <1>3, <1>8
    <3>3. CASE c # "startup"
      BY <3>1, <3>3, <1>3, <1>8
    <3> QED BY <3>2, <3>3
  <2>3. ASSUME NEW d \in Others, AtWork(d)', cuts = 0
        PROVE  Seeded \cap CoreNames = {} /\ ~HasCore'
    <3>1. AtWork(d) /\ Seeded \cap CoreNames = {} /\ ~HasCore
      BY <2>3, <1>1, <1>3 DEF SeedInv
    <3>2. \A g \in CoreNames : g \in CoreFileNames \ {f}
      BY <3>1, <1>4 DEF CoreFileNames
    <3> QED BY <3>1, <3>2, <1>8 DEF HasCore
  <2> QED BY <2>1, <2>2, <2>3, <1>2, <1>3 DEF SeedInv
<1>12. DoneInv'
  <2> SUFFICES ASSUME NEW d \in Copiers, seedCopy'[d].pc = "done", seedCopy'[d].result # "packaged"
               PROVE  /\ seedCopy'[d].result \in CoreNames /\ IsThere(seedCopy[d].result)'
                      /\ \E e \in Copiers : AtWork(e)'
    BY DEF DoneInv
  <2>1. seedCopy'[d] = seedCopy[d]
    BY <1>3
  <2>2. seedCopy[d].result \in CoreNames /\ bin[seedCopy[d].result].from # "absent"
    BY <2>1, <1>1 DEF DoneInv, IsThere
  <2>3. bin'[seedCopy[d].result].from # "absent"
    BY <2>2, <1>8 DEF IsThere, CoreFileNames
  <2> QED BY <2>1, <2>2, <2>3, <1>2, <1>3 DEF IsThere
<1>13. OwnInv'
  <2>1. \A g \in CoreFileNames : bin'[g].from = "user" => bin'[g].state = "whole"
    BY <1>1, <1>6 DEF OwnInv
  <2>2. ASSUME NEW d \in Copiers, seedCopy'[d].pc \in {"create", "write"}
        PROVE  (/\ seedCopy[d].pc = "create" =>
                      ~IsThere(seedCopy[d].file) \/ Brought(seedCopy[d].file)
                /\ seedCopy[d].pc = "write" => Brought(seedCopy[d].file))'
    <3>1. CASE seedCopy'[d].file = f
      BY <3>1, <1>2, <1>6 DEF Brought
    <3>2. CASE seedCopy'[d].file # f
      <4>1. d # c /\ seedCopy'[d] = seedCopy[d] /\ AtWork(d) /\ seedCopy[d].pc # "copy"
        BY <3>2, <2>2, <1>3 DEF AtWork
      <4>2. seedCopy[d].file \in CoreFileNames \ {f}
        BY <3>2, <4>1, <1>1, <1>3 DEF CopyInv
      <4> QED BY <4>1, <4>2, <1>1, <1>2, <1>6 DEF OwnInv, IsThere, Brought
    <3> QED BY <3>1, <3>2
  <2> QED BY <2>1, <2>2 DEF OwnInv
<1> QED BY <1>3, <1>7, <1>10, <1>11, <1>12, <1>13 DEF CoreInv

LEMMA WritesStep ==
    ASSUME CoreInv, NEW c \in Copiers, SeedCopyWrites(c)
    PROVE  CoreInv'
<1>1. PICK f : f = seedCopy[c].file
  OBVIOUS
<1> DEFINE done == IF bin[f].state = "partial" /\ \A d \in Copiers \ {c} : ~Fills(d, f)
                   THEN "whole" ELSE bin[f].state
<1>2. CoreType /\ CopyInv /\ WholeInv /\ SeedInv /\ DoneInv /\ OwnInv
  BY DEF CoreInv
<1>3. /\ seedCopy[c].pc = "write" /\ AtWork(c)
      /\ seedCopy' = [seedCopy EXCEPT ![c].pc = "copy"]
      /\ UNCHANGED <<machine, package, cuts>>
  BY DEF SeedCopyWrites, AtWork
<1>4. /\ seedCopy' \in [Copiers -> Copies] /\ CopyInv'
      /\ seedCopy'[c].pc = "copy" /\ seedCopy'[c].left = seedCopy[c].left
      /\ \A d \in Copiers \ {c} : seedCopy'[d] = seedCopy[d]
      /\ \A d \in Copiers : AtWork(d)' <=> AtWork(d)
      /\ "startup" \in Copiers /\ Others \subseteq Copiers /\ "startup" \notin Others
      /\ Seeded' = Seeded /\ Seeded \subseteq CoreFileNames
  BY <1>3, StaysAtWork
<1>5. f \in CoreFileNames /\ Brought(f)
  BY <1>1, <1>2, <1>3, <1>4 DEF CopyInv, OwnInv
<1>6. bin' = [bin EXCEPT ![f].state = done] /\ bin \in [CoreFileNames -> Entries]
  BY <1>1, <1>2, <1>5 DEF SeedCopyWrites, CoreType
<1>7. done = "whole" \/ done = bin[f].state
  OBVIOUS
<1> HIDE DEF done
<1>8. /\ bin' \in [CoreFileNames -> Entries] /\ bin'[f].state = done
      /\ \A g \in CoreFileNames : /\ bin'[g].from = bin[g].from
                                  /\ bin'[g].number = bin[g].number
                                  /\ bin'[g].marked = bin[g].marked
      /\ \A g \in CoreFileNames \ {f} : bin'[g] = bin[g]
  <2>1. bin'[f] = [bin[f] EXCEPT !.state = done] /\ bin[f] \in Entries
    BY <1>5, <1>6
  <2>2. done \in {"whole", "partial", "torn"}
    BY <2>1, <1>7 DEF Entries
  <2>3. /\ bin'[f] \in Entries /\ bin'[f].state = done /\ bin'[f].from = bin[f].from
        /\ bin'[f].number = bin[f].number /\ bin'[f].marked = bin[f].marked
    BY <2>1, <2>2 DEF Entries
  <2> QED BY <2>3, <1>5, <1>6
<1>9. CoreType'
  BY <1>2, <1>3, <1>4, <1>8 DEF CoreType
<1>10. (\A g \in CoreFileNames : IsThere(g)' <=> IsThere(g)) /\ (HasCore' <=> HasCore)
  BY <1>8 DEF IsThere, HasCore, CoreFileNames
<1>11. WholeInv'
  <2> SUFFICES ASSUME cuts = 0, NEW g \in CoreFileNames, bin'[g].state # "whole"
               PROVE  bin'[g].state = "partial" /\ \E d \in Copiers : Fills(d, g)'
    BY <1>3 DEF WholeInv
  <2>1. \A d \in Copiers \ {c} : Fills(d, g)' <=> Fills(d, g)
    BY <1>4 DEF Fills
  <2>2. CASE g = f
    <3>1. bin[f].state = "partial" /\ done = "partial"
      BY <2>2, <1>2, <1>7, <1>8 DEF WholeInv
    <3>2. PICK d \in Copiers \ {c} : Fills(d, f)
      BY <3>1 DEF done
    <3> QED BY <2>1, <2>2, <3>1, <3>2, <1>8
  <2>3. CASE g # f
    <3>1. PICK d \in Copiers : bin[g].state = "partial" /\ Fills(d, g)
      BY <2>3, <1>2, <1>8 DEF WholeInv
    <3>2. d # c
      BY <2>3, <3>1, <1>1 DEF Fills
    <3> QED BY <2>1, <2>3, <3>1, <3>2, <1>8
  <2> QED BY <2>2, <2>3
<1>12. SeedInv'
  <2>1. (/\ cuts' = 0 /\ machine' # "macos" /\ seedCopy'["startup"].pc \in {"ended", "error"}
         /\ package'.seed.kind = "dir" /\ Seeded' \cap CoreNames # {}) => HasCore'
    BY <1>2, <1>3, <1>4, <1>10 DEF SeedInv
  <2>2. ASSUME AtWork("startup")', NEW g \in Seeded
        PROVE  \/ g \in seedCopy'["startup"].left \/ IsThere(g)'
               \/ seedCopy'["startup"].pc = "create" /\ seedCopy'["startup"].file = g
    <3>1. /\ g \in CoreFileNames
          /\ \/ g \in seedCopy["startup"].left \/ IsThere(g)
             \/ seedCopy["startup"].pc = "create" /\ seedCopy["startup"].file = g
      BY <2>2, <1>2, <1>4 DEF SeedInv
    <3>2. CASE c = "startup"
      BY <3>1, <3>2, <1>3, <1>4, <1>10
    <3>3. CASE c # "startup"
      BY <3>1, <3>3, <1>4, <1>10
    <3> QED BY <3>2, <3>3
  <2> QED BY <2>1, <2>2, <1>2, <1>3, <1>4, <1>10 DEF SeedInv
<1>13. DoneInv'
  <2> SUFFICES ASSUME NEW d \in Copiers, seedCopy'[d].pc = "done", seedCopy'[d].result # "packaged"
               PROVE  /\ seedCopy'[d].result \in CoreNames /\ IsThere(seedCopy[d].result)'
                      /\ \E e \in Copiers : AtWork(e)'
    BY DEF DoneInv
  <2>1. seedCopy'[d] = seedCopy[d]
    BY <1>4
  <2>2. seedCopy[d].result \in CoreNames /\ bin[seedCopy[d].result].from # "absent"
    BY <2>1, <1>2 DEF DoneInv, IsThere
  <2> QED BY <2>1, <2>2, <1>3, <1>4, <1>8 DEF IsThere, CoreFileNames
<1>14. OwnInv'
  <2>1. \A g \in CoreFileNames : bin'[g].from = "user" => bin'[g].state = "whole"
    BY <1>2, <1>5, <1>8 DEF OwnInv, Brought
  <2>2. ASSUME NEW d \in Copiers, seedCopy'[d].pc \in {"create", "write"}
        PROVE  (/\ seedCopy[d].pc = "create" =>
                      ~IsThere(seedCopy[d].file) \/ Brought(seedCopy[d].file)
                /\ seedCopy[d].pc = "write" => Brought(seedCopy[d].file))'
    <3>1. d # c /\ seedCopy'[d] = seedCopy[d] /\ AtWork(d) /\ seedCopy[d].pc # "copy"
      BY <2>2, <1>4 DEF AtWork
    <3>2. seedCopy[d].file \in CoreFileNames
      BY <3>1, <1>2, <1>4 DEF CopyInv
    <3> QED BY <3>1, <3>2, <1>2, <1>3, <1>8 DEF OwnInv, IsThere, Brought
  <2> QED BY <2>1, <2>2 DEF OwnInv
<1> QED BY <1>4, <1>9, <1>11, <1>12, <1>13, <1>14 DEF CoreInv

\* A copy that is cut off leaves a torn file of its package, and is counted.
LEMMA TornFiles ==
    ASSUME CoreInv, NEW torn \in SUBSET CoreFileNames,
           \A f \in torn : \E c \in Copiers : Fills(c, f),
           bin' = [f \in CoreFileNames |->
                      IF f \in torn THEN [bin[f] EXCEPT !.state = "torn"] ELSE bin[f]]
    PROVE  /\ bin' \in [CoreFileNames -> Entries]
           /\ \A g \in CoreFileNames : /\ bin'[g].from = bin[g].from
                                       /\ bin'[g].number = bin[g].number
                                       /\ bin'[g].marked = bin[g].marked
                                       /\ g \notin torn => bin'[g].state = bin[g].state
           /\ \A g \in torn : bin[g].from = "seed"
           /\ \A g \in CoreFileNames : bin'[g].from = "user" => bin'[g].state = "whole"
<1>1. bin \in [CoreFileNames -> Entries]
  BY DEF CoreInv, CoreType
<1>2. ASSUME NEW g \in CoreFileNames
      PROVE  /\ bin'[g] \in Entries /\ bin'[g].from = bin[g].from
             /\ bin'[g].number = bin[g].number /\ bin'[g].marked = bin[g].marked
             /\ g \notin torn => bin'[g].state = bin[g].state
  <2>1. bin'[g] = (IF g \in torn THEN [bin[g] EXCEPT !.state = "torn"] ELSE bin[g])
        /\ bin[g] \in Entries
    BY <1>1
  <2> QED BY <2>1 DEF Entries
<1>3. bin' \in [CoreFileNames -> Entries]
  BY <1>2
<1>4. ASSUME NEW g \in torn PROVE bin[g].from = "seed"
  <2>1. PICK c \in Copiers : Fills(c, g)
    OBVIOUS
  <2> QED BY <2>1 DEF Fills, CoreInv, OwnInv, Brought
<1>5. \A g \in CoreFileNames : bin'[g].from = "user" => bin'[g].state = "whole"
  BY <1>2, <1>4 DEF CoreInv, OwnInv
<1> QED BY <1>2, <1>3, <1>4, <1>5

LEMMA FailsStep ==
    ASSUME CoreInv, NEW c \in Copiers, SeedCopyFails(c)
    PROVE  CoreInv'
<1>1. CoreType /\ CopyInv /\ SeedInv /\ DoneInv /\ OwnInv
  BY DEF CoreInv
<1>2. /\ AtWork(c) /\ cuts' = cuts + 1 /\ UNCHANGED <<machine, package>>
      /\ cuts \in Nat /\ cuts' # 0 /\ cuts' \in Nat /\ (cuts' <= 1 => cuts = 0)
  BY <1>1 DEF SeedCopyFails, CoreType
<1>3. PICK r \in Copies : r.pc = "error" /\ seedCopy' = [seedCopy EXCEPT ![c] = r]
  <2>1. "error" \in CopyPcs
    BY DEF CopyPcs
  <2>2. [NoCopy EXCEPT !.pc = "error"] \in Copies /\ [NoCopy EXCEPT !.pc = "error"].pc = "error"
    BY <2>1, CopyGoes
  <2> QED BY <2>2 DEF SeedCopyFails
<1>4. PICK torn \in SUBSET CoreFileNames : torn = {f \in CoreFileNames : Fills(c, f)}
  OBVIOUS
<1>5. bin' = [f \in CoreFileNames |->
                 IF f \in torn THEN [bin[f] EXCEPT !.state = "torn"] ELSE bin[f]]
  BY <1>4 DEF SeedCopyFails
<1>6. /\ bin' \in [CoreFileNames -> Entries]
      /\ \A g \in CoreFileNames : /\ bin'[g].from = bin[g].from
                                  /\ bin'[g].number = bin[g].number
                                  /\ bin'[g].marked = bin[g].marked
      /\ \A g \in CoreFileNames : bin'[g].from = "user" => bin'[g].state = "whole"
  BY <1>4, <1>5, TornFiles
<1>7. /\ seedCopy' \in [Copiers -> Copies] /\ seedCopy'[c].pc = "error"
      /\ \A d \in Copiers \ {c} : seedCopy'[d] = seedCopy[d]
      /\ "startup" \in Copiers /\ Others \subseteq Copiers /\ "startup" \notin Others
      /\ Seeded' = Seeded /\ Seeded \subseteq CoreFileNames
      /\ Copiers = Others \cup {"startup"} /\ CoreNames \subseteq CoreFileNames
  BY <1>1, <1>2, <1>3, CoreBounds DEF CoreType, Seeded, Copiers, Others, CoreFileNames
<1>8. CoreType'
  BY <1>1, <1>2, <1>6, <1>7 DEF CoreType
<1>9. ~AtWork(c)' /\ \A d \in Copiers \ {c} : AtWork(d)' <=> AtWork(d)
  BY <1>7 DEF AtWork
<1>10. CopyInv'
  <2>1. seedCopy'["startup"].pc \notin {"discover", "done"}
    BY <1>1, <1>7 DEF CopyInv
  <2>2. \A d \in Others : seedCopy'[d].pc # "idle" => seedCopy'["startup"].pc \in {"ended", "error"}
    BY <1>1, <1>2, <1>7 DEF CopyInv, AtWork
  <2>3. \A d \in Copiers : AtWork(d)' =>
           /\ package'.seed.kind = "dir" /\ seedCopy'[d].left \subseteq Seeded'
           /\ seedCopy'[d].pc # "copy" => seedCopy'[d].file \in Seeded'
    BY <1>1, <1>2, <1>7, <1>9 DEF CopyInv
  <2> QED BY <2>1, <2>2, <2>3 DEF CopyInv
<1>11. WholeInv'
  BY <1>2 DEF WholeInv
<1>12. SeedInv'
  <2>1. ASSUME AtWork("startup")', NEW g \in Seeded
        PROVE  \/ g \in seedCopy'["startup"].left \/ IsThere(g)'
               \/ seedCopy'["startup"].pc = "create" /\ seedCopy'["startup"].file = g
    <3>1. seedCopy'["startup"] = seedCopy["startup"] /\ AtWork("startup") /\ g \in CoreFileNames
      BY <2>1, <1>7, <1>9
    <3> QED BY <3>1, <1>1, <1>6 DEF SeedInv, IsThere
  <2> QED BY <2>1, <1>2, <1>7 DEF SeedInv
<1>13. DoneInv'
  <2> SUFFICES ASSUME NEW d \in Copiers, seedCopy'[d].pc = "done", seedCopy'[d].result # "packaged"
               PROVE  /\ seedCopy'[d].result \in CoreNames /\ IsThere(seedCopy[d].result)'
                      /\ cuts' > 1
    BY <1>2 DEF DoneInv
  <2>1. d # c /\ seedCopy'[d] = seedCopy[d]
    BY <1>7
  <2>2. seedCopy[d].result \in CoreNames /\ IsThere(seedCopy[d].result) /\ HasCore
    BY <2>1, <1>1 DEF DoneInv, HasCore
  <2>3. d \in Others /\ c \in Others
    BY <2>1, <1>1, <1>2, <1>7 DEF CopyInv, AtWork
  <2>4. cuts # 0
    BY <2>2, <2>3, <1>1, <1>2 DEF SeedInv
  <2> QED BY <2>1, <2>2, <2>4, <1>2, <1>6, <1>7 DEF IsThere
<1>14. OwnInv'
  <2>1. ASSUME NEW d \in Copiers, seedCopy'[d].pc \in {"create", "write"}
        PROVE  (/\ seedCopy[d].pc = "create" =>
                      ~IsThere(seedCopy[d].file) \/ Brought(seedCopy[d].file)
                /\ seedCopy[d].pc = "write" => Brought(seedCopy[d].file))'
    <3>1. d # c /\ seedCopy'[d] = seedCopy[d] /\ AtWork(d) /\ seedCopy[d].pc # "copy"
      BY <2>1, <1>7 DEF AtWork
    <3>2. seedCopy[d].file \in CoreFileNames
      BY <3>1, <1>1, <1>7 DEF CopyInv
    <3> QED BY <3>1, <3>2, <1>1, <1>2, <1>6 DEF OwnInv, IsThere, Brought
  <2> QED BY <2>1, <1>6 DEF OwnInv
<1> QED BY <1>8, <1>10, <1>11, <1>12, <1>13, <1>14 DEF CoreInv

LEMMA RestartsStep == CoreInv /\ ApplicationRestarts => CoreInv'
<1> SUFFICES ASSUME CoreInv, ApplicationRestarts PROVE CoreInv'
  OBVIOUS
<1>1. CoreType /\ WholeInv
  BY DEF CoreInv
<1>2. PICK working : working = {c \in Copiers : AtWork(c)}
  OBVIOUS
<1>3. PICK torn \in SUBSET CoreFileNames :
         torn = {f \in CoreFileNames : \E c \in working : Fills(c, f)}
  OBVIOUS
<1>4. bin' = [f \in CoreFileNames |->
                 IF f \in torn THEN [bin[f] EXCEPT !.state = "torn"] ELSE bin[f]]
  BY <1>2, <1>3 DEF ApplicationRestarts
<1>5. /\ bin' \in [CoreFileNames -> Entries]
      /\ \A g \in CoreFileNames : g \notin torn => bin'[g].state = bin[g].state
      /\ \A g \in CoreFileNames : bin'[g].from = "user" => bin'[g].state = "whole"
  BY <1>2, <1>3, <1>4, TornFiles
<1>6. /\ cuts' = IF working = {} THEN cuts ELSE cuts + 1
      /\ seedCopy' = [c \in Copiers |-> NoCopy]
  BY <1>2 DEF ApplicationRestarts
<1>7. cuts' \in Nat /\ (cuts' = 0 => cuts = 0 /\ working = {})
  BY <1>1, <1>6 DEF CoreType
<1>8. PICK p \in Packages : package' = Packaged(p, package.number + 1)
  BY DEF ApplicationRestarts
<1>9. /\ package'.seed \in Packages /\ package'.number \in Nat
      /\ package' = [seed |-> package'.seed, number |-> package'.number]
  BY <1>1, <1>8 DEF CoreType, Packaged
<1>10. CoreType'
  BY <1>5, <1>6, <1>7, <1>9, FreshCopy DEF CoreType
<1>11. \A c \in Copiers : seedCopy'[c].pc = "idle"
  BY <1>6 DEF NoCopy
<1>12. CopyInv' /\ SeedInv' /\ DoneInv'
  <2>1. "startup" \in Copiers /\ Others \subseteq Copiers
    BY DEF Others, Copiers
  <2> QED BY <2>1, <1>11 DEF CopyInv, SeedInv, DoneInv, AtWork
<1>13. WholeInv'
  <2> SUFFICES ASSUME cuts' = 0, NEW g \in CoreFileNames PROVE bin'[g].state = "whole"
    BY DEF WholeInv
  <2>1. cuts = 0 /\ working = {}
    BY <1>7
  <2>2. g \notin torn /\ \A c \in Copiers : ~Fills(c, g)
    BY <2>1, <1>2, <1>3 DEF Fills, AtWork
  <2> QED BY <2>1, <2>2, <1>1, <1>5 DEF WholeInv
<1>14. OwnInv'
  BY <1>5, <1>11 DEF OwnInv
<1> QED BY <1>10, <1>12, <1>13, <1>14 DEF CoreInv

LEMMA CoreStart == CoreFilesInit => CoreInv
<1> SUFFICES ASSUME CoreFilesInit PROVE CoreInv
  OBVIOUS
<1>1. PICK own \in SUBSET CoreFileNames :
         bin = [f \in CoreFileNames |-> IF f \in own THEN OwnFile ELSE Absent]
  BY DEF CoreFilesInit
<1>2. OwnFile \in Entries /\ Absent \in Entries /\ OwnFile.state = "whole" /\ Absent.state = "whole"
  BY DEF OwnFile, Absent, Entries
<1>3. bin \in [CoreFileNames -> Entries] /\ \A f \in CoreFileNames : bin[f].state = "whole"
  BY <1>1, <1>2
<1>4. seedCopy = [c \in Copiers |-> NoCopy] /\ cuts = 0
  BY DEF CoreFilesInit
<1>5. PICK p \in Packages : package = Packaged(p, 1)
  BY DEF CoreFilesInit
<1>6. CoreType
  BY <1>3, <1>4, <1>5, FreshCopy DEF CoreType, Packaged
<1>7. \A c \in Copiers : seedCopy[c].pc = "idle"
  BY <1>4 DEF NoCopy
<1>8. "startup" \in Copiers /\ Others \subseteq Copiers
  BY DEF Others, Copiers
<1>9. CopyInv /\ SeedInv /\ DoneInv
  BY <1>7, <1>8 DEF CopyInv, SeedInv, DoneInv, AtWork
<1>10. WholeInv /\ OwnInv
  BY <1>3, <1>7 DEF WholeInv, OwnInv
<1> QED BY <1>6, <1>9, <1>10 DEF CoreInv

LEMMA CoreStep == CoreInv /\ [CoreFilesNext]_coreFilesVars => CoreInv'
<1> SUFFICES ASSUME CoreInv, [CoreFilesNext]_coreFilesVars PROVE CoreInv'
  OBVIOUS
<1>1. CASE UNCHANGED coreFilesVars
  BY <1>1 DEF coreFilesVars, CoreInv, CoreType, CopyInv, WholeInv, SeedInv, DoneInv, OwnInv,
     IsThere, HasCore, AtWork, Fills, Brought, Seeded
<1>2. CASE CoreFilesNext
  BY <1>2, StartsStep, LooksStep, CreatesStep, WritesStep, FailsStep, EndsStep,
     DiscoversStep, RestartsStep DEF CoreFilesNext
<1> QED BY <1>1, <1>2

\* A connection or a test starts a core that is whole and marked, and nobody's
\* file is replaced: for any package, names and number of copies and crashes.
THEOREM CoreFilesHold == CoreFilesSpec => CoreFilesAreRight
<1>1. CoreInv => StartsAreWhole
  <2> SUFFICES ASSUME CoreInv, NEW c \in {"connect", "speedtest"},
                      seedCopy[c].pc = "done", seedCopy[c].result # "packaged"
               PROVE  /\ cuts = 0 => \A g \in CoreFileNames : bin[g].state = "whole"
                      /\ (machine # "windows" /\ cuts <= 1 /\ \A d \in Copiers : ~AtWork(d)) =>
                            bin[seedCopy[c].result].marked
    BY DEF StartsAreWhole
  <2>1. c \in Copiers /\ c \in Others /\ Copiers = Others \cup {"startup"}
    BY DEF Copiers, Others
  <2>2. seedCopy[c].result \in CoreNames /\ HasCore
    BY <2>1 DEF CoreInv, DoneInv, HasCore
  <2>3. seedCopy["startup"].pc \in {"ended", "error"}
    BY <2>1 DEF CoreInv, CopyInv
  <2>4. cuts = 0 => \A d \in Copiers : ~AtWork(d)
    BY <2>1, <2>2, <2>3 DEF CoreInv, SeedInv, AtWork
  <2>5. cuts = 0 => \A g \in CoreFileNames : bin[g].state = "whole"
    BY <2>4 DEF CoreInv, WholeInv, Fills, AtWork
  <2> QED BY <2>1, <2>5 DEF CoreInv, DoneInv
<1>2. CoreInv /\ CoreInv' /\ [CoreFilesNext]_coreFilesVars => OwnFilesAreKept
  <2> SUFFICES ASSUME CoreInv, CoreInv', [CoreFilesNext]_coreFilesVars,
                      NEW f \in CoreFileNames, IsThere(f)
               PROVE  /\ bin'[f].from = bin[f].from /\ bin'[f].number = bin[f].number
                      /\ bin[f].from = "user" => bin'[f].state = "whole"
    BY DEF OwnFilesAreKept
  <2>1. bin \in [CoreFileNames -> Entries]
    BY DEF CoreInv, CoreType
  <2>2. bin'[f].from = bin[f].from /\ bin'[f].number = bin[f].number
    <3>1. CASE \E files : bin' = bin \/ bin' = Marked(bin, files)
      BY <3>1, MarkedFiles DEF CoreInv
    <3>2. ASSUME NEW c \in Copiers, SeedCopyCreates(c)
          PROVE  bin'[f].from = bin[f].from /\ bin'[f].number = bin[f].number
      <4>1. CASE f = seedCopy[c].file
        <5>1. Brought(f)
          BY <3>2, <4>1 DEF SeedCopyCreates, CoreInv, OwnInv
        <5>2. bin'[f].from = "seed" /\ bin'[f].number = package.number
          BY <3>2, <4>1, <2>1 DEF SeedCopyCreates
        <5> QED BY <5>1, <5>2 DEF Brought
      <4>2. CASE f # seedCopy[c].file
        BY <3>2, <4>2, <2>1 DEF SeedCopyCreates
      <4> QED BY <4>1, <4>2
    <3>3. ASSUME NEW c \in Copiers, SeedCopyWrites(c)
          PROVE  bin'[f].from = bin[f].from /\ bin'[f].number = bin[f].number
      <4>1. PICK g, done : bin' = [bin EXCEPT ![g].state = done]
        BY <3>3 DEF SeedCopyWrites
      <4>2. bin'[f] = bin[f] \/ bin'[f] = [bin[f] EXCEPT !.state = done]
        BY <4>1, <2>1
      <4> QED BY <4>2, <2>1 DEF Entries
    <3>4. ASSUME NEW c \in Copiers, SeedCopyFails(c)
          PROVE  bin'[f].from = bin[f].from /\ bin'[f].number = bin[f].number
      <4>1. PICK torn \in SUBSET CoreFileNames : torn = {g \in CoreFileNames : Fills(c, g)}
        OBVIOUS
      <4>2. bin' = [g \in CoreFileNames |->
                       IF g \in torn THEN [bin[g] EXCEPT !.state = "torn"] ELSE bin[g]]
        BY <3>4, <4>1 DEF SeedCopyFails
      <4> QED BY <4>1, <4>2, TornFiles
    <3>5. ASSUME ApplicationRestarts
          PROVE  bin'[f].from = bin[f].from /\ bin'[f].number = bin[f].number
      <4>1. PICK torn \in SUBSET CoreFileNames :
               torn = {g \in CoreFileNames : \E c \in {d \in Copiers : AtWork(d)} : Fills(c, g)}
        OBVIOUS
      <4>2. bin' = [g \in CoreFileNames |->
                       IF g \in torn THEN [bin[g] EXCEPT !.state = "torn"] ELSE bin[g]]
        BY <3>5, <4>1 DEF ApplicationRestarts
      <4> QED BY <4>1, <4>2, TornFiles
    <3>6. ASSUME NEW c \in Copiers, SeedCopyStarts(c)
          PROVE  \E files : bin' = bin \/ bin' = Marked(bin, files)
      BY <3>6 DEF SeedCopyStarts, PermissionPlan
    <3>7. ASSUME NEW c \in Copiers, SeedCopyEnds(c) \/ Discovers(c)
          PROVE  \E files : bin' = bin \/ bin' = Marked(bin, files)
      BY <3>7 DEF SeedCopyEnds, Discovers, Discover, PermissionPlan
    <3>8. ASSUME NEW c \in Copiers, NEW g \in CoreFileNames, SeedCopyLooks(c, g)
          PROVE  bin' = bin
      BY <3>8 DEF SeedCopyLooks
    <3>9. UNCHANGED coreFilesVars => bin' = bin
      BY DEF coreFilesVars
    <3> QED BY <3>1, <3>2, <3>3, <3>4, <3>5, <3>6, <3>7, <3>8, <3>9 DEF CoreFilesNext
  <2> QED BY <2>2 DEF CoreInv, OwnInv
<1> QED BY <1>1, <1>2, CoreStart, CoreStep, PTL DEF CoreFilesSpec, CoreFilesAreRight
=============================================================================
