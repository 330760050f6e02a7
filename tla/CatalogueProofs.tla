---------------------------- MODULE CatalogueProofs ----------------------------
(***************************************************************************)
(* Theorems about ConfigContext, GroupValidation, Routings and Profiles: the    *)
(* groups that are stored resolve without a cycle and lose no server, and what  *)
(* the configuration names is there, whatever groups, profiles, subscriptions  *)
(* and routings are stored and however many.                                  *)
(***************************************************************************)
EXTENDS GroupValidation, Catalogue, SequenceTheorems,
        FiniteSetTheorems, WellFoundedInduction, TLAPS

-----------------------------------------------------------------------------
(* The walk over groups (ConfigContext).                                     *)

\* The frames of the walk are those of groups that were entered and not left.
FrameShape(f) ==
    /\ f = [node |-> f.node, left |-> f.left, kept |-> f.kept, error |-> f.error]
    /\ f.node \in NodeIds /\ f.kept \in Seq(NodeIds)
WalkShape ==
    /\ epoch \in Nat /\ clock \in Nat /\ visited \subseteq NodeIds
    /\ stack \in Seq(ToSet(stack))
    /\ \A i \in 1 .. Len(stack) : FrameShape(stack[i])
    /\ proxies \in [NodeIds -> [epoch : Nat, at : Nat, kids : Seq(NodeIds)]]

\* What is registered belongs to a registration that was begun.
PastInv ==
    \A n \in NodeIds : proxies[n].epoch <= epoch /\ proxies[n].at <= clock

\* A group is on the stack once; what was registered since the walk began is
\* what it visited and has left; and what a frame keeps is among that.
FramesInv ==
    /\ stack # <<>> => epoch > 0
    /\ \A i, j \in 1 .. Len(stack) : stack[i].node = stack[j].node => i = j
    /\ stack # <<>> => \A n \in NodeIds :
          proxies[n].epoch = epoch <=> n \in visited \ Ancestors
    /\ \A i \in 1 .. Len(stack) : stack[i].node \in visited => i = 1
    /\ \A i \in 1 .. Len(stack) : ToSet(stack[i].kept) \subseteq visited \ Ancestors

WalkInv == WalkShape /\ PastInv /\ FramesInv /\ ProxiesAreClosedAndAcyclic

LEMMA OwnSeq ==
    ASSUME NEW S, NEW s \in Seq(S)
    PROVE  s \in Seq(ToSet(s)) /\ ToSet(s) = {s[i] : i \in 1 .. Len(s)}
BY SeqOfRange, LenProperties DEF Range, ToSet

\* The three ways in which the stack changes.
LEMMA Replaced ==
    ASSUME NEW s, s \in Seq(ToSet(s)), s # <<>>, NEW f, NEW t, t = [s EXCEPT ![Len(s)] = f]
    PROVE  /\ t \in Seq(ToSet(t)) /\ Len(t) = Len(s) /\ Len(s) \in Nat \ {0}
           /\ \A i \in 1 .. Len(s) : t[i] = IF i = Len(s) THEN f ELSE s[i]
<1> DEFINE S == ToSet(s) \cup {f}
<1>1. s \in Seq(S) /\ f \in S
  BY SeqMonotonic
<1>2. Len(s) \in Nat \ {0} /\ Len(s) \in 1 .. Len(s)
  BY EmptySeq, LenProperties
<1> HIDE DEF S
<1>3. /\ t \in Seq(S) /\ Len(t) = Len(s)
      /\ \A i \in 1 .. Len(s) : t[i] = IF i = Len(s) THEN f ELSE s[i]
  BY <1>1, <1>2, ExceptSeq
<1> QED BY <1>2, <1>3, OwnSeq

LEMMA Pushed ==
    ASSUME NEW s, s \in Seq(ToSet(s)), NEW f, NEW t, t = Append(s, f)
    PROVE  /\ t \in Seq(ToSet(t)) /\ Len(s) \in Nat /\ Len(t) = Len(s) + 1
           /\ \A i \in 1 .. Len(t) : t[i] = IF i = Len(t) THEN f ELSE s[i]
<1> DEFINE S == ToSet(s) \cup {f}
<1>1. s \in Seq(S) /\ f \in S
  BY SeqMonotonic
<1> HIDE DEF S
<1>2. t \in Seq(S) /\ Len(t) = Len(s) + 1 /\ Len(s) \in Nat
  BY <1>1, AppendProperties, LenProperties
<1>3. (\A i \in 1 .. Len(s) : t[i] = s[i]) /\ t[Len(s) + 1] = f
  BY <1>1, AppendProperties
<1>4. \A i \in 1 .. Len(t) : t[i] = IF i = Len(t) THEN f ELSE s[i]
  BY <1>2, <1>3
<1> QED BY <1>2, <1>4, OwnSeq

LEMMA Shortened ==
    ASSUME NEW S, NEW s \in Seq(S), NEW n \in Nat, n <= Len(s)
    PROVE  /\ SubSeq(s, 1, n) \in Seq(S) /\ Len(SubSeq(s, 1, n)) = n
           /\ \A i \in 1 .. n : SubSeq(s, 1, n)[i] = s[i]
<1>1. Len(s) \in Nat /\ \A i \in 1 .. n : s[i] \in S
  BY LenProperties, ElementOfSeq
<1>2. 1 \in Int /\ n \in Int /\ n - 1 + 1 = n
  OBVIOUS
<1> DEFINE u == SubSeq(s, 1, n)
<1>3. /\ u \in Seq(S) /\ Len(u) = IF 1 <= n THEN n - 1 + 1 ELSE 0
      /\ \A i \in 1 .. n - 1 + 1 : u[i] = s[1 + i - 1]
  BY <1>1, <1>2, SubSeqProperties
<1> HIDE DEF u
<1>4. Len(u) = n /\ \A i \in 1 .. n : u[i] = s[i]
  BY <1>2, <1>3
<1> QED BY <1>3, <1>4 DEF u

LEMMA Popped ==
    ASSUME NEW s, s \in Seq(ToSet(s)), NEW f, NEW u, NEW t, NEW n,
           n = Len(s), s # <<>>, n # 1, u = SubSeq(s, 1, n - 2), t = Append(u, f)
    PROVE  /\ t \in Seq(ToSet(t)) /\ n \in Nat /\ n >= 2 /\ Len(t) = n - 1
           /\ \A i \in 1 .. Len(t) : t[i] = IF i = Len(t) THEN f ELSE s[i]
<1>1. n \in Nat \ {0}
  BY EmptySeq
<1>2. n - 2 \in Nat /\ n - 2 <= n /\ n >= 2
  BY ONLY <1>1, n # 1
<1>3. /\ u \in Seq(ToSet(s)) /\ Len(u) = n - 2
      /\ \A i \in 1 .. n - 2 : u[i] = s[i]
  BY <1>2, Shortened
<1> DEFINE S == ToSet(s) \cup {f}
<1>4. u \in Seq(S) /\ f \in S
  BY <1>3, SeqMonotonic
<1> HIDE DEF S
<1>5. /\ t \in Seq(S) /\ Len(t) = Len(u) + 1 /\ t[Len(u) + 1] = f
      /\ \A i \in 1 .. Len(u) : t[i] = u[i]
  BY <1>4, AppendProperties
<1>6. \A i \in 1 .. Len(t) : t[i] = IF i = Len(t) THEN f ELSE s[i]
  BY ONLY <1>1, <1>2, <1>3, <1>5
<1>7. t \in Seq(ToSet(t))
  BY <1>5, OwnSeq
<1>8. Len(t) = n - 1
  BY ONLY <1>1, <1>2, <1>3, <1>5
<1> QED BY <1>1, <1>2, <1>6, <1>7, <1>8

LEMMA KeepAdds ==
    ASSUME NEW kept \in Seq(NodeIds), NEW n \in NodeIds
    PROVE  Keep(kept, n) \in Seq(NodeIds) /\ ToSet(Keep(kept, n)) \subseteq ToSet(kept) \cup {n}
<1>1. Append(kept, n) \in Seq(NodeIds) /\ Append(kept, n) \in Seq(ToSet(Append(kept, n)))
  BY AppendProperties, OwnSeq
<1>2. kept \in Seq(ToSet(kept))
  BY OwnSeq
<1>3. /\ Len(kept) \in Nat /\ Len(Append(kept, n)) = Len(kept) + 1
      /\ \A i \in 1 .. Len(Append(kept, n)) :
            Append(kept, n)[i] = IF i = Len(Append(kept, n)) THEN n ELSE kept[i]
  BY <1>2, Pushed
<1>4. ToSet(Append(kept, n)) \subseteq ToSet(kept) \cup {n}
  <2>1. \A x \in ToSet(Append(kept, n)) : \E i \in 1 .. Len(Append(kept, n)) : x = Append(kept, n)[i]
    BY <1>1, OwnSeq
  <2>2. ToSet(kept) = {kept[i] : i \in 1 .. Len(kept)}
    BY OwnSeq
  <2> DEFINE t == Append(kept, n)
  <2> HIDE DEF t
  <2>3. \A i \in 1 .. Len(t) : t[i] \in ToSet(kept) \cup {n}
    BY <1>3, <2>2 DEF t
  <2> QED BY <2>1, <2>3 DEF t
<1> QED BY <1>1, <1>4 DEF Keep

\* Entering the map: what is registered keeps its children, whose entry is
\* newer if it changes; a node is entered once in a registration.
LEMMA Entry ==
    ASSUME WalkShape, PastInv, ProxiesAreClosedAndAcyclic,
           NEW n \in NodeIds, NEW kids \in Seq(NodeIds),
           Insert(n, kids), epoch' \in Nat, epoch' >= epoch, epoch' > 0,
           proxies[n].epoch # epoch',
           \A k \in ToSet(kids) : k # n /\ proxies[k].epoch = epoch'
    PROVE  /\ clock' \in Nat /\ PastInv' /\ ProxiesAreClosedAndAcyclic'
           /\ proxies' \in [NodeIds -> [epoch : Nat, at : Nat, kids : Seq(NodeIds)]]
           /\ \A m \in NodeIds : proxies'[m].epoch = IF m = n THEN epoch' ELSE proxies[m].epoch
<1>1. /\ clock' = clock + 1
      /\ proxies' = [proxies EXCEPT ![n] = [epoch |-> epoch', at |-> clock + 1, kids |-> kids]]
      /\ epoch \in Nat /\ clock \in Nat
      /\ proxies \in [NodeIds -> [epoch : Nat, at : Nat, kids : Seq(NodeIds)]]
  BY DEF Insert, WalkShape
<1>2. proxies' \in [NodeIds -> [epoch : Nat, at : Nat, kids : Seq(NodeIds)]]
  BY <1>1
<1>3. \A m \in NodeIds : m # n => proxies'[m] = proxies[m]
  BY <1>1
<1>4. proxies'[n].epoch = epoch' /\ proxies'[n].at = clock + 1 /\ proxies'[n].kids = kids
  BY <1>1
<1>5. PastInv'
  BY <1>1, <1>2, <1>3, <1>4 DEF PastInv
<1>6. ASSUME NEW m \in NodeIds, proxies'[m].epoch > 0, NEW i \in DOMAIN proxies'[m].kids,
             NEW k, k = proxies'[m].kids[i]
      PROVE  /\ proxies'[k].epoch > 0
             /\ \/ proxies'[k].epoch > proxies'[m].epoch
                \/ proxies'[k].epoch = proxies'[m].epoch /\ proxies'[k].at < proxies'[m].at
  <2>0. k \in NodeIds /\ DOMAIN kids = 1 .. Len(kids) /\ ToSet(kids) \subseteq NodeIds
    <3>1. proxies'[m].kids \in Seq(NodeIds)
      BY <1>2
    <3> QED BY <3>1, <1>6, LenProperties, ElementOfSeq DEF ToSet
  <2>1. CASE m = n
    <3>1. k \in ToSet(kids)
      BY <1>4, <1>6, <2>1 DEF ToSet
    <3>2. k # n /\ proxies[k].epoch = epoch' /\ proxies[k].at <= clock
      BY <2>0, <3>1 DEF PastInv
    <3>3. proxies'[k] = proxies[k] /\ proxies[k].at \in Nat
      BY <1>1, <1>3, <2>0, <3>2
    <3>4. epoch' > 0 /\ clock \in Nat
      BY <1>1
    <3> QED BY ONLY <1>4, <2>1, <3>2, <3>3, <3>4
  <2>2. CASE m # n
    <3>1. /\ proxies[k].epoch > 0
          /\ \/ proxies[k].epoch > proxies[m].epoch
             \/ proxies[k].epoch = proxies[m].epoch /\ proxies[k].at < proxies[m].at
      BY <1>3, <1>6, <2>2 DEF ProxiesAreClosedAndAcyclic, Registered
    <3>2. CASE k # n
      BY <1>3, <2>0, <2>2, <3>1, <3>2
    <3>3. CASE k = n
      <4>1. proxies[n].epoch \in Nat /\ proxies[m].epoch \in Nat
        BY <1>1
      <4>2. proxies[n].epoch <= epoch
        BY DEF PastInv
      <4>3. proxies[n].epoch # epoch' /\ epoch' >= epoch /\ epoch \in Nat /\ epoch' \in Nat
        BY <1>1
      <4>4. proxies[m].epoch <= proxies[n].epoch
        BY ONLY <3>1, <3>3, <4>1
      <4>5. proxies[n].epoch < epoch' /\ proxies[m].epoch <= proxies[n].epoch
        BY ONLY <4>1, <4>2, <4>3, <4>4
      <4> QED BY <1>1, <1>3, <1>4, <2>2, <3>3, <4>5
    <3> QED BY <3>2, <3>3
  <2> QED BY <2>1, <2>2
<1>7. ProxiesAreClosedAndAcyclic'
  BY <1>6 DEF ProxiesAreClosedAndAcyclic, Registered
<1> QED BY <1>1, <1>2, <1>3, <1>4, <1>5, <1>7

\* What a step of the walk has to leave on the stack.
StackIsRight ==
    /\ stack \in Seq(ToSet(stack))
    /\ \A i \in 1 .. Len(stack) : FrameShape(stack[i])
    /\ \A i, j \in 1 .. Len(stack) : stack[i].node = stack[j].node => i = j
    /\ \A i \in 1 .. Len(stack) : stack[i].node \in visited => i = 1
    /\ \A i \in 1 .. Len(stack) : ToSet(stack[i].kept) \subseteq visited \ Ancestors

LEMMA StackOf ==
    ASSUME WalkInv
    PROVE  /\ StackIsRight /\ Ancestors = {stack[i].node : i \in 1 .. Len(stack)}
           /\ Ancestors \subseteq NodeIds
           /\ stack # <<>> => /\ Len(stack) \in 1 .. Len(stack) /\ FrameShape(Top)
                              /\ Top.node \in Ancestors
                              /\ ToSet(Top.kept) \subseteq visited \ Ancestors
<1>1. StackIsRight
  BY DEF WalkInv, WalkShape, FramesInv, StackIsRight
<1>2. DOMAIN stack = 1 .. Len(stack) /\ Len(stack) \in Nat
  BY <1>1, LenProperties DEF StackIsRight
<1>3. Ancestors = {stack[i].node : i \in 1 .. Len(stack)}
  BY <1>2 DEF Ancestors
<1>4. Ancestors \subseteq NodeIds
  <2>1. \A i \in 1 .. Len(stack) : stack[i].node \in NodeIds
    BY <1>1 DEF StackIsRight, FrameShape
  <2> QED BY <1>3, <2>1
<1>5. ASSUME stack # <<>> PROVE Len(stack) \in 1 .. Len(stack)
  <2>1. Len(stack) \in Nat \ {0}
    BY <1>1, <1>5, EmptySeq DEF StackIsRight
  <2> QED BY <2>1
<1> QED BY <1>1, <1>3, <1>4, <1>5 DEF StackIsRight, Top

\* The frame of the group that is walked changes, its node does not.
LEMMA FrameChanges ==
    ASSUME WalkInv, stack # <<>>, NEW f, FrameShape(f), f.node = Top.node, ReplaceTop(f),
           visited \subseteq visited', visited' \cap Ancestors \subseteq visited,
           ToSet(f.kept) \subseteq visited' \ Ancestors
    PROVE  StackIsRight' /\ Ancestors' = Ancestors /\ stack' # <<>>
<1>1. /\ stack' \in Seq(ToSet(stack')) /\ Len(stack') = Len(stack) /\ Len(stack) \in Nat \ {0}
      /\ \A i \in 1 .. Len(stack) : stack'[i] = IF i = Len(stack) THEN f ELSE stack[i]
  <2>1. stack \in Seq(ToSet(stack)) /\ stack' = [stack EXCEPT ![Len(stack)] = f]
    BY StackOf DEF ReplaceTop, StackIsRight
  <2>2. stack' \in Seq(ToSet(stack')) /\ Len(stack') = Len(stack) /\ Len(stack) \in Nat \ {0}
    BY <2>1, Replaced, Zenon
  <2>3. \A i \in 1 .. Len(stack) : stack'[i] = IF i = Len(stack) THEN f ELSE stack[i]
    BY <2>1, Replaced
  <2> QED BY <2>2, <2>3
<1>2. \A i \in 1 .. Len(stack) : stack'[i].node = stack[i].node
  BY <1>1 DEF Top
<1>3. DOMAIN stack' = 1 .. Len(stack')
  BY <1>1, LenProperties
<1>4. Ancestors' = {stack'[i].node : i \in 1 .. Len(stack)}
  BY <1>1, <1>3 DEF Ancestors
<1>5. Ancestors' = Ancestors
  BY <1>2, <1>4, StackOf
<1>6. stack' # <<>>
  <2>1. Len(stack') # 0
    BY <1>1
  <2> QED BY <2>1, EmptySeq
<1>7. \A i \in 1 .. Len(stack) : /\ FrameShape(stack'[i])
                                 /\ ToSet(stack'[i].kept) \subseteq visited' \ Ancestors
  BY <1>1, StackOf DEF StackIsRight
<1>8. \A i, j \in 1 .. Len(stack') : stack'[i].node = stack'[j].node => i = j
  BY <1>1, <1>2, StackOf DEF StackIsRight
<1>9. \A i \in 1 .. Len(stack) : stack'[i].node \in visited' => i = 1
  <2> SUFFICES ASSUME NEW i \in 1 .. Len(stack), stack[i].node \in visited' PROVE i = 1
    BY <1>2
  <2>1. stack[i].node \in visited
    BY StackOf
  <2> QED BY <2>1, StackOf DEF StackIsRight
<1>10. StackIsRight'
  BY <1>1, <1>5, <1>7, <1>8, <1>9 DEF StackIsRight, FrameShape
<1> QED BY <1>5, <1>6, <1>10

\* A frame with one child less: it is an error, or it is kept.
LEMMA FrameFails ==
    ASSUME NEW a, FrameShape(a), NEW f, f = [a EXCEPT !.left = Tail(@), !.error = TRUE]
    PROVE  FrameShape(f) /\ f.node = a.node /\ f.kept = a.kept
<1>1. PICK n, l, k, e : n = a.node /\ l = a.left /\ k = a.kept /\ e = a.error
  OBVIOUS
<1>2. a = [node |-> n, left |-> l, kept |-> k, error |-> e] /\ n \in NodeIds /\ k \in Seq(NodeIds)
  BY <1>1 DEF FrameShape
<1>3. PICK t : t = Tail(a.left)
  OBVIOUS
<1>4. f = [a EXCEPT !.left = t, !.error = TRUE]
  BY <1>3
<1>5. f = [node |-> n, left |-> t, kept |-> k, error |-> TRUE]
  BY ONLY <1>2, <1>4
<1>6. FrameShape(f) /\ f.node = n /\ f.kept = k
  BY <1>2, <1>5 DEF FrameShape
<1> QED BY <1>1, <1>6

FrameWith(a, m) == [a EXCEPT !.left = Tail(@), !.kept = Keep(@, m)]

LEMMA FrameKeeps ==
    ASSUME NEW a, FrameShape(a), NEW m \in NodeIds
    PROVE  /\ FrameShape(FrameWith(a, m)) /\ FrameWith(a, m).node = a.node
           /\ ToSet(FrameWith(a, m).kept) \subseteq ToSet(a.kept) \cup {m}
<1>1. PICK n, l, k, e : n = a.node /\ l = a.left /\ k = a.kept /\ e = a.error
  OBVIOUS
<1>2. a = [node |-> n, left |-> l, kept |-> k, error |-> e] /\ n \in NodeIds /\ k \in Seq(NodeIds)
  BY <1>1 DEF FrameShape
<1>3. PICK t, h, f : t = Tail(a.left) /\ h = Keep(a.kept, m) /\ f = FrameWith(a, m)
  OBVIOUS
<1>4. f = [a EXCEPT !.left = t, !.kept = h]
  BY <1>3 DEF FrameWith
<1>5. f = [node |-> n, left |-> t, kept |-> h, error |-> e]
  BY ONLY <1>2, <1>4
<1>6. h \in Seq(NodeIds) /\ ToSet(h) \subseteq ToSet(k) \cup {m}
  BY <1>1, <1>2, <1>3, KeepAdds
<1>7. FrameShape(f) /\ f.node = n /\ f.kept = h
  BY ONLY <1>2, <1>5, <1>6 DEF FrameShape
<1> QED BY <1>1, <1>3, <1>6, <1>7

LEMMA NewFrame ==
    ASSUME NEW g \in NodeIds
    PROVE  FrameShape(Frame(g)) /\ Frame(g).node = g /\ ToSet(Frame(g).kept) = {}
<1>1. /\ Frame(g).node = g /\ Frame(g).kept = <<>>
      /\ Frame(g) = [node |-> Frame(g).node, left |-> Frame(g).left,
                     kept |-> Frame(g).kept, error |-> Frame(g).error]
  BY DEF Frame
<1>2. <<>> \in Seq(NodeIds) /\ ToSet(<<>>) = {}
  BY EmptySeq DEF ToSet
<1> QED BY <1>1, <1>2 DEF FrameShape

\* A group is entered.
LEMMA FramePushed ==
    ASSUME WalkInv, NEW g \in NodeIds, g \notin Ancestors \cup visited,
           stack' = Append(stack, Frame(g)), visited' = visited
    PROVE  StackIsRight' /\ Ancestors' = Ancestors \cup {g} /\ stack' # <<>>
<1>0. FrameShape(Frame(g)) /\ Frame(g).node = g /\ ToSet(Frame(g).kept) = {}
  BY NewFrame
<1>1. /\ stack' \in Seq(ToSet(stack')) /\ Len(stack') = Len(stack) + 1 /\ Len(stack) \in Nat
      /\ \A i \in 1 .. Len(stack') :
            stack'[i] = IF i = Len(stack') THEN Frame(g) ELSE stack[i]
  <2>1. stack \in Seq(ToSet(stack)) /\ stack' = Append(stack, Frame(g))
    BY StackOf DEF StackIsRight
  <2>2. stack' \in Seq(ToSet(stack')) /\ Len(stack') = Len(stack) + 1 /\ Len(stack) \in Nat
    BY <2>1, Pushed, Zenon
  <2>3. \A i \in 1 .. Len(stack') :
           stack'[i] = IF i = Len(stack') THEN Frame(g) ELSE stack[i]
    BY <2>1, Pushed
  <2> QED BY <2>2, <2>3
<1>2. /\ \A i \in 1 .. Len(stack) : i \in 1 .. Len(stack') /\ stack'[i] = stack[i]
      /\ Len(stack') \in 1 .. Len(stack') /\ stack'[Len(stack')] = Frame(g)
      /\ \A i \in 1 .. Len(stack') : i = Len(stack') \/ i \in 1 .. Len(stack)
  BY <1>1
<1>3. DOMAIN stack' = 1 .. Len(stack')
  BY <1>1, LenProperties
<1>4. Ancestors' = {stack'[i].node : i \in 1 .. Len(stack')}
  BY <1>3 DEF Ancestors
<1>5. Ancestors' = Ancestors \cup {g}
  <2>1. Ancestors = {stack[i].node : i \in 1 .. Len(stack)}
    BY StackOf
  <2> QED BY ONLY <1>0, <1>2, <1>4, <2>1
<1>6. stack' # <<>>
  BY <1>1, EmptySeq
<1>7. \A i \in 1 .. Len(stack') : FrameShape(stack'[i])
  BY <1>0, <1>2, StackOf DEF StackIsRight
<1>8. \A i \in 1 .. Len(stack') : ToSet(stack'[i].kept) \subseteq visited' \ Ancestors'
  <2> SUFFICES ASSUME NEW i \in 1 .. Len(stack)
               PROVE  ToSet(stack[i].kept) \subseteq visited' \ Ancestors'
    BY <1>0, <1>2
  <2>1. ToSet(stack[i].kept) \subseteq visited \ Ancestors
    BY StackOf DEF StackIsRight
  <2> QED BY <1>5, <2>1
<1>9. \A i, j \in 1 .. Len(stack') : stack'[i].node = stack'[j].node => i = j
  <2>1. \A i \in 1 .. Len(stack) : stack[i].node # g
    BY StackOf
  <2>2. \A i, j \in 1 .. Len(stack) : stack[i].node = stack[j].node => i = j
    BY StackOf DEF StackIsRight
  <2> QED BY ONLY <1>0, <1>2, <2>1, <2>2
<1>10. \A i \in 1 .. Len(stack') : stack'[i].node \in visited' => i = 1
  BY <1>0, <1>2, StackOf DEF StackIsRight
<1>11. StackIsRight'
  BY <1>1, <1>7, <1>8, <1>9, <1>10 DEF StackIsRight, FrameShape
<1> QED BY <1>5, <1>6, <1>11

\* A group is left: its parent's frame is the last, and knows of it.
LEMMA FramePopped ==
    ASSUME WalkInv, stack # <<>>, Len(stack) # 1, NEW f, FrameShape(f),
           f.node = stack[Len(stack) - 1].node,
           stack' = Append(SubSeq(stack, 1, Len(stack) - 2), f),
           visited \subseteq visited', visited' \subseteq visited \cup {Top.node},
           ToSet(f.kept) \subseteq visited' \ (Ancestors \ {Top.node})
    PROVE  StackIsRight' /\ Ancestors' = Ancestors \ {Top.node} /\ stack' # <<>>
<1> DEFINE n == Len(stack)
           u == SubSeq(stack, 1, n - 2)
<1>1. /\ stack' \in Seq(ToSet(stack')) /\ n \in Nat /\ n >= 2 /\ Len(stack') = n - 1
      /\ \A i \in 1 .. Len(stack') : stack'[i] = IF i = Len(stack') THEN f ELSE stack[i]
  <2>1. /\ stack \in Seq(ToSet(stack)) /\ stack # <<>>
        /\ n = Len(stack) /\ n # 1 /\ u = SubSeq(stack, 1, n - 2) /\ stack' = Append(u, f)
    BY StackOf DEF StackIsRight
  <2> HIDE DEF n, u
  <2>2. stack' \in Seq(ToSet(stack'))
    BY ONLY <2>1, Popped, ZenonT(40)
  <2>3. n \in Nat /\ n >= 2 /\ Len(stack') = n - 1
    BY ONLY <2>1, Popped
  <2>4. \A i \in 1 .. Len(stack') : stack'[i] = IF i = Len(stack') THEN f ELSE stack[i]
    BY ONLY <2>1, Popped
  <2> QED BY <2>2, <2>3, <2>4
<1> HIDE DEF u
<1>2. /\ \A i \in 1 .. Len(stack') : i \in 1 .. n /\ i # n /\ stack'[i].node = stack[i].node
      /\ \A i \in 1 .. n : i = n \/ i \in 1 .. Len(stack')
      /\ \A i \in 1 .. Len(stack') : stack'[i] = f \/ stack'[i] = stack[i]
  BY <1>1
<1>3. DOMAIN stack' = 1 .. Len(stack')
  BY <1>1, LenProperties
<1>4. Ancestors' = {stack'[i].node : i \in 1 .. Len(stack')}
  BY <1>3 DEF Ancestors
<1>5. \A i, j \in 1 .. n : stack[i].node = stack[j].node => i = j
  BY StackOf DEF StackIsRight
<1>6. Ancestors' = Ancestors \ {Top.node}
  <2>1. Ancestors = {stack[i].node : i \in 1 .. n} /\ Top = stack[n] /\ n \in 1 .. n
    BY <1>1, StackOf DEF Top
  <2> QED BY ONLY <1>2, <1>4, <1>5, <2>1
<1>7. stack' # <<>>
  <2>1. Len(stack') # 0
    BY <1>1
  <2> QED BY <2>1, EmptySeq
<1>8. ASSUME NEW i \in 1 .. Len(stack')
      PROVE  FrameShape(stack'[i]) /\ ToSet(stack'[i].kept) \subseteq visited' \ Ancestors'
  <2>1. FrameShape(stack[i]) /\ ToSet(stack[i].kept) \subseteq visited \ Ancestors
    BY <1>2, StackOf DEF StackIsRight
  <2>2. stack'[i] = f \/ stack'[i] = stack[i]
    BY <1>2
  <2> QED BY <1>6, <2>1, <2>2
<1>9. \A i, j \in 1 .. Len(stack') : stack'[i].node = stack'[j].node => i = j
  BY <1>2, <1>5
<1>10. ASSUME NEW i \in 1 .. Len(stack'), stack'[i].node \in visited' PROVE i = 1
  <2>1. n \in 1 .. n /\ stack[n] = Top
    BY <1>1 DEF Top
  <2>2. stack[i].node \in visited
    BY <1>2, <1>5, <1>10, <2>1
  <2> QED BY <1>2, <2>2, StackOf DEF StackIsRight
<1>11. StackIsRight'
  BY <1>1, <1>8, <1>9, <1>10 DEF StackIsRight, FrameShape
<1> QED BY <1>6, <1>7, <1>11

\* Everything but the stack: visited is what was registered and left.
LEMMA WalkFrom ==
    ASSUME StackIsRight', PastInv', ProxiesAreClosedAndAcyclic',
           epoch' \in Nat, clock' \in Nat, visited' \subseteq NodeIds,
           proxies' \in [NodeIds -> [epoch : Nat, at : Nat, kids : Seq(NodeIds)]],
           stack' # <<>> => /\ epoch' > 0
                            /\ \A n \in NodeIds :
                                  proxies'[n].epoch = epoch' <=> n \in visited' \ Ancestors'
    PROVE  WalkInv'
BY DEF WalkInv, WalkShape, FramesInv, StackIsRight, NodeIds, Leaves

\* The stack is empty between two registrations.
LEMMA BetweenRoots ==
    ASSUME PastInv', ProxiesAreClosedAndAcyclic', stack' = <<>>,
           epoch' \in Nat, clock' \in Nat, visited' \subseteq NodeIds,
           proxies' \in [NodeIds -> [epoch : Nat, at : Nat, kids : Seq(NodeIds)]]
    PROVE  WalkInv'
<1>1. Len(stack') = 0 /\ stack' \in Seq(ToSet(stack'))
  BY EmptySeq
<1>2. StackIsRight'
  BY <1>1 DEF StackIsRight
<1> QED BY <1>2, WalkFrom

LEMMA WalkStep == WalkInv /\ [ContextNext]_contextVars => WalkInv'
<1> SUFFICES ASSUME WalkInv, [ContextNext]_contextVars PROVE WalkInv'
  OBVIOUS
<1>0. /\ epoch \in Nat /\ clock \in Nat /\ visited \subseteq NodeIds
      /\ proxies \in [NodeIds -> [epoch : Nat, at : Nat, kids : Seq(NodeIds)]]
      /\ PastInv /\ ProxiesAreClosedAndAcyclic /\ WalkShape
      /\ stack # <<>> => /\ epoch > 0
                         /\ \A n \in NodeIds :
                               proxies[n].epoch = epoch <=> n \in visited \ Ancestors
  BY DEF WalkInv, WalkShape, FramesInv
<1>1. CASE RegisterRootLeaf
  <2>0. PICK n : n = roots[epoch + 1]
    OBVIOUS
  <2>1. n \in NodeIds /\ stack' = <<>> /\ epoch' = epoch + 1 /\ visited' = visited
    BY <1>1, <2>0 DEF RegisterRootLeaf, NodeIds
  <2>2. Insert(n, <<>>) \/ UNCHANGED <<clock, proxies>>
    BY <1>1, <2>0 DEF RegisterRootLeaf, RegisterLeaf
  <2>3. epoch' \in Nat /\ epoch' >= epoch /\ epoch' > 0 /\ epoch' > epoch
    BY <1>0, <2>1
  <2>4. CASE Insert(n, <<>>)
    <3>1. <<>> \in Seq(NodeIds) /\ ToSet(<<>>) = {}
      BY EmptySeq DEF ToSet
    <3>2. proxies[n].epoch # epoch'
      <4>1. proxies[n].epoch \in Nat /\ proxies[n].epoch <= epoch
        BY <1>0, <2>1 DEF PastInv
      <4> QED BY <1>0, <2>3, <4>1
    <3>3. /\ clock' \in Nat /\ PastInv' /\ ProxiesAreClosedAndAcyclic'
          /\ proxies' \in [NodeIds -> [epoch : Nat, at : Nat, kids : Seq(NodeIds)]]
      BY <1>0, <2>1, <2>3, <2>4, <3>1, <3>2, Entry
    <3> QED BY <1>0, <2>1, <2>3, <3>3, BetweenRoots
  <2>5. CASE UNCHANGED <<clock, proxies>>
    <3>1. PastInv'
      BY <1>0, <2>1, <2>3, <2>5 DEF PastInv
    <3>2. ProxiesAreClosedAndAcyclic'
      BY <1>0, <2>5 DEF ProxiesAreClosedAndAcyclic, Registered
    <3> QED BY <1>0, <2>1, <2>3, <2>5, <3>1, <3>2, BetweenRoots
  <2> QED BY <2>2, <2>4, <2>5
<1>2. CASE BeginGroup
  <2>0. PICK n : n = roots[epoch + 1]
    OBVIOUS
  <2>1. /\ n \in NodeIds /\ epoch' = epoch + 1 /\ visited' = {n}
        /\ stack' = <<Frame(n)>> /\ UNCHANGED <<clock, proxies>>
    BY <1>2, <2>0 DEF BeginGroup, NodeIds
  <2>2. epoch' \in Nat /\ epoch' > 0 /\ epoch' > epoch
    BY <1>0, <2>1
  <2>3. PastInv'
    BY <1>0, <2>1, <2>2 DEF PastInv
  <2>4. ProxiesAreClosedAndAcyclic'
    BY <1>0, <2>1 DEF ProxiesAreClosedAndAcyclic, Registered
  <2>5. /\ Len(stack') = 1 /\ DOMAIN stack' = 1 .. 1 /\ stack'[1] = Frame(n)
        /\ stack' \in Seq(ToSet(stack'))
    <3>1. stack' \in Seq({Frame(n)})
      BY <2>1
    <3>2. stack' \in Seq(ToSet(stack'))
      BY <3>1, OwnSeq
    <3>3. Len(stack') = 1 /\ DOMAIN stack' = 1 .. 1 /\ stack'[1] = Frame(n)
      <4>1. PICK g : g = Frame(n)
        OBVIOUS
      <4>2. stack' = <<g>>
        BY <2>1, <4>1
      <4>3. Len(stack') = 1 /\ stack'[1] = g
        BY ONLY <4>2
      <4> QED BY <3>2, <4>1, <4>3, LenProperties
    <3> QED BY <3>2, <3>3
  <2>6. FrameShape(Frame(n)) /\ Frame(n).node = n /\ ToSet(Frame(n).kept) = {}
    BY <2>1, NewFrame
  <2>7. Ancestors' = {n}
    BY <2>5, <2>6 DEF Ancestors
  <2>8. StackIsRight'
    BY <2>5, <2>6 DEF StackIsRight, FrameShape
  <2>9. ASSUME NEW m \in NodeIds PROVE proxies'[m].epoch # epoch'
    <3>1. proxies[m].epoch \in Nat /\ proxies[m].epoch <= epoch
      BY <1>0 DEF PastInv
    <3> QED BY <1>0, <2>1, <2>2, <3>1
  <2> QED BY <1>0, <2>1, <2>2, <2>3, <2>4, <2>7, <2>8, <2>9, WalkFrom
<1>3. CASE CutCycle
  <2>0. PICK f : f = [Top EXCEPT !.left = Tail(@), !.error = TRUE]
    OBVIOUS
  <2>1. stack # <<>> /\ ReplaceTop(f) /\ UNCHANGED <<epoch, clock, visited, proxies>>
    BY <1>3, <2>0 DEF CutCycle, Walking
  <2>2. FrameShape(f) /\ f.node = Top.node /\ f.kept = Top.kept
    <3>1. FrameShape(Top)
      BY <2>1, StackOf
    <3> QED BY <2>0, <3>1, FrameFails
  <2>3. StackIsRight' /\ Ancestors' = Ancestors
    BY <2>1, <2>2, StackOf, FrameChanges
  <2>4. PastInv' /\ ProxiesAreClosedAndAcyclic'
    BY <1>0, <2>1 DEF PastInv, ProxiesAreClosedAndAcyclic, Registered
  <2> QED BY <1>0, <2>1, <2>3, <2>4, WalkFrom
<1>4. CASE KeepVisited
  <2>0. PICK c, f : c = Child /\ f = FrameWith(Top, c)
    OBVIOUS
  <2>1. /\ stack # <<>> /\ ReplaceTop(f) /\ UNCHANGED <<epoch, clock, visited, proxies>>
        /\ c \in visited \ Ancestors /\ c \in NodeIds
    BY <1>0, <1>4, <2>0 DEF KeepVisited, Walking, FrameWith
  <2>2. FrameShape(f) /\ f.node = Top.node /\ ToSet(f.kept) \subseteq visited \ Ancestors
    <3>1. FrameShape(Top) /\ ToSet(Top.kept) \subseteq visited \ Ancestors
      BY <2>1, StackOf
    <3>2. FrameShape(f) /\ f.node = Top.node /\ ToSet(f.kept) \subseteq ToSet(Top.kept) \cup {c}
      BY <2>0, <2>1, <3>1, FrameKeeps
    <3> QED BY <2>1, <3>1, <3>2
  <2>3. StackIsRight' /\ Ancestors' = Ancestors
    BY <2>1, <2>2, FrameChanges
  <2>4. PastInv' /\ ProxiesAreClosedAndAcyclic'
    BY <1>0, <2>1 DEF PastInv, ProxiesAreClosedAndAcyclic, Registered
  <2> QED BY <1>0, <2>1, <2>3, <2>4, WalkFrom
<1>5. CASE EnterGroup
  <2>1. /\ Child \in NodeIds /\ Child \notin Ancestors \cup visited /\ stack # <<>>
        /\ stack' = Append(stack, Frame(Child)) /\ UNCHANGED <<epoch, clock, visited, proxies>>
    BY <1>5 DEF EnterGroup, NodeIds, Walking
  <2>2. PICK g : g = Child
    OBVIOUS
  <2>3. StackIsRight' /\ Ancestors' = Ancestors \cup {g}
    BY <2>1, <2>2, FramePushed
  <2>4. PastInv' /\ ProxiesAreClosedAndAcyclic'
    BY <1>0, <2>1 DEF PastInv, ProxiesAreClosedAndAcyclic, Registered
  <2>5. g \notin visited
    BY <2>1, <2>2
  <2> QED BY <1>0, <2>1, <2>3, <2>4, <2>5, WalkFrom
<1>6. CASE WalkLeaf
  <2>0. PICK c : c = Child
    OBVIOUS
  <2>1. /\ c \in NodeIds /\ c \notin Ancestors \cup visited /\ stack # <<>>
        /\ epoch' = epoch
    BY <1>6, <2>0 DEF WalkLeaf, NodeIds, Walking
  <2>2. FrameShape(Top) /\ ToSet(Top.kept) \subseteq visited \ Ancestors
    BY <2>1, StackOf
  <2>3. CASE ValidNode(Leaf[c])
    <3>0. PICK f : f = FrameWith(Top, c)
      OBVIOUS
    <3>1. Insert(c, <<>>) /\ visited' = visited \cup {c} /\ ReplaceTop(f)
      BY <1>6, <2>0, <2>3, <3>0 DEF WalkLeaf, RegisterLeaf, FrameWith
    <3>3. FrameShape(f) /\ f.node = Top.node /\ ToSet(f.kept) \subseteq ToSet(Top.kept) \cup {c}
      BY <3>0, <2>1, <2>2, FrameKeeps
    <3>4. StackIsRight' /\ Ancestors' = Ancestors
      <4>1. visited \subseteq visited' /\ ToSet(f.kept) \subseteq visited' \ Ancestors
        BY <2>1, <2>2, <3>1, <3>3
      <4>2. visited' \cap Ancestors \subseteq visited
        BY <2>1, <3>1
      <4> QED BY <2>1, <3>1, <3>3, <4>1, <4>2, FrameChanges
    <3>5. proxies[c].epoch # epoch' /\ epoch > 0
      BY <1>0, <2>1
    <3>6. <<>> \in Seq(NodeIds) /\ ToSet(<<>>) = {}
      BY EmptySeq DEF ToSet
    <3>7. /\ clock' \in Nat /\ PastInv' /\ ProxiesAreClosedAndAcyclic'
          /\ proxies' \in [NodeIds -> [epoch : Nat, at : Nat, kids : Seq(NodeIds)]]
          /\ \A m \in NodeIds :
                proxies'[m].epoch = IF m = c THEN epoch' ELSE proxies[m].epoch
      <4>1. epoch' \in Nat /\ epoch' >= epoch /\ epoch' > 0
        BY <1>0, <2>1, <3>5
      <4> QED BY <1>0, <2>1, <3>1, <3>5, <3>6, <4>1, Entry
    <3>8. \A m \in NodeIds : proxies'[m].epoch = epoch' <=> m \in visited' \ Ancestors'
      BY <1>0, <2>1, <3>1, <3>4, <3>7
    <3> QED BY <1>0, <2>1, <3>1, <3>4, <3>5, <3>7, <3>8, WalkFrom
  <2>4. CASE ~ValidNode(Leaf[c])
    <3>0. PICK f : f = [Top EXCEPT !.left = Tail(@), !.error = TRUE]
      OBVIOUS
    <3>1. ReplaceTop(f) /\ UNCHANGED <<clock, visited, proxies>>
      BY <1>6, <2>0, <2>4, <3>0 DEF WalkLeaf
    <3>2. FrameShape(f) /\ f.node = Top.node /\ f.kept = Top.kept
      BY <2>2, <3>0, FrameFails
    <3>3. StackIsRight' /\ Ancestors' = Ancestors
      BY <2>1, <2>2, <3>1, <3>2, StackOf, FrameChanges
    <3>4. PastInv' /\ ProxiesAreClosedAndAcyclic'
      BY <1>0, <2>1, <3>1 DEF PastInv, ProxiesAreClosedAndAcyclic, Registered
    <3> QED BY <1>0, <2>1, <3>1, <3>3, <3>4, WalkFrom
  <2> QED BY <2>3, <2>4
<1>7. CASE LeaveGroup
  <2> DEFINE n == Top.node
             ok == Top.kept # <<>>
             parent == stack[Len(stack) - 1]
             left == [parent EXCEPT !.left = Tail(@), !.kept = Keep(@, n)]
             failed == [parent EXCEPT !.left = Tail(@), !.error = TRUE]
  <2>1. /\ stack # <<>> /\ epoch' = epoch
        /\ ok => Insert(n, Top.kept)
        /\ ~ok => UNCHANGED <<clock, proxies>>
        /\ Len(stack) = 1 => stack' = <<>> /\ visited' = visited
        /\ Len(stack) # 1 =>
              /\ stack' = Append(SubSeq(stack, 1, Len(stack) - 2), IF ok THEN left ELSE failed)
              /\ visited' = IF ok THEN visited \cup {n} ELSE visited
    BY <1>7 DEF LeaveGroup
  <2>2. /\ FrameShape(Top) /\ ToSet(Top.kept) \subseteq visited \ Ancestors
        /\ n \in Ancestors /\ n \in NodeIds /\ Top.kept \in Seq(NodeIds)
        /\ Ancestors \subseteq NodeIds
    BY <2>1, StackOf DEF FrameShape
  <2>3. epoch > 0 /\ \A m \in NodeIds : proxies[m].epoch = epoch <=> m \in visited \ Ancestors
    BY <1>0, <2>1
  <2> HIDE DEF n, ok, left, failed
  <2>4. /\ clock' \in Nat /\ PastInv' /\ ProxiesAreClosedAndAcyclic'
        /\ proxies' \in [NodeIds -> [epoch : Nat, at : Nat, kids : Seq(NodeIds)]]
        /\ \A m \in NodeIds :
              proxies'[m].epoch = IF ok /\ m = n THEN epoch' ELSE proxies[m].epoch
    <3>1. CASE ok
      <4>1. proxies[n].epoch # epoch'
        BY <2>1, <2>2, <2>3
      <4>2. \A k \in ToSet(Top.kept) : k # n /\ proxies[k].epoch = epoch'
        BY <1>0, <2>1, <2>2, <2>3
      <4>3. epoch' \in Nat /\ epoch' >= epoch /\ epoch' > 0
        BY <1>0, <2>1, <2>3
      <4>4. /\ clock' \in Nat /\ PastInv' /\ ProxiesAreClosedAndAcyclic'
            /\ proxies' \in [NodeIds -> [epoch : Nat, at : Nat, kids : Seq(NodeIds)]]
            /\ \A m \in NodeIds :
                  proxies'[m].epoch = IF m = n THEN epoch' ELSE proxies[m].epoch
        BY <1>0, <2>1, <2>2, <3>1, <4>1, <4>2, <4>3, Entry
      <4> QED BY <3>1, <4>4
    <3>2. CASE ~ok
      BY <1>0, <2>1, <3>2 DEF PastInv, ProxiesAreClosedAndAcyclic, Registered
    <3> QED BY <3>1, <3>2
  <2>5. CASE Len(stack) = 1
    BY <1>0, <2>1, <2>4, <2>5, BetweenRoots
  <2>6. CASE Len(stack) # 1
    <3>1. FrameShape(parent) /\ ToSet(parent.kept) \subseteq visited \ Ancestors
      <4>1. Len(stack) \in Nat \ {0}
        BY <2>1, StackOf, EmptySeq DEF StackIsRight
      <4>2. Len(stack) - 1 \in 1 .. Len(stack)
        BY <2>6, <4>1
      <4> QED BY <4>2, StackOf DEF StackIsRight
    <3>3. /\ FrameShape(left) /\ left.node = parent.node
          /\ ToSet(left.kept) \subseteq ToSet(parent.kept) \cup {n}
      <4>1. left = FrameWith(parent, n)
        BY DEF left, FrameWith
      <4> HIDE DEF parent
      <4> QED BY <2>2, <3>1, <4>1, FrameKeeps
    <3>4. FrameShape(failed) /\ failed.node = parent.node /\ failed.kept = parent.kept
      <4>1. PICK g : g = failed
        OBVIOUS
      <4>2. g = [parent EXCEPT !.left = Tail(@), !.error = TRUE]
        BY <4>1 DEF failed
      <4> HIDE DEF parent
      <4> QED BY <3>1, <4>1, <4>2, FrameFails
    <3>5. visited \subseteq visited' /\ visited' \subseteq visited \cup {n}
          /\ (ok => n \in visited') /\ (~ok => visited' = visited)
      BY <2>1, <2>6
    <3> DEFINE f == IF ok THEN left ELSE failed
    <3>6. /\ FrameShape(f) /\ f.node = parent.node
          /\ ToSet(f.kept) \subseteq visited' \ (Ancestors \ {n})
      BY <2>2, <3>1, <3>3, <3>4, <3>5
    <3>7. stack' = Append(SubSeq(stack, 1, Len(stack) - 2), f)
      BY <2>1, <2>6
    <3> HIDE DEF f
    <3>8. StackIsRight' /\ Ancestors' = Ancestors \ {n}
      BY <2>1, <2>6, <3>5, <3>6, <3>7, FramePopped DEF n
    <3>9. \A m \in NodeIds : proxies'[m].epoch = epoch' <=> m \in visited' \ Ancestors'
      <4>0. Len(stack) \in 1 .. Len(stack) /\ stack[Len(stack)] = Top
        BY <2>1, StackOf DEF Top
      <4>1. n \notin visited
        BY <2>6, <4>0, StackOf DEF StackIsRight, n
      <4> SUFFICES ASSUME NEW m \in NodeIds
                   PROVE  proxies'[m].epoch = epoch' <=> m \in visited' \ Ancestors'
        OBVIOUS
      <4>2. proxies[m].epoch = epoch' <=> m \in visited \ Ancestors
        BY <2>1, <2>3
      <4>3. proxies'[m].epoch = epoch' <=> (ok /\ m = n) \/ proxies[m].epoch = epoch'
        BY <2>2, <2>3, <2>4, <4>2
      <4> QED BY <2>2, <3>5, <3>8, <4>1, <4>2, <4>3
    <3> QED BY <1>0, <2>1, <2>2, <2>3, <2>4, <3>5, <3>8, <3>9, WalkFrom
  <2> QED BY <2>5, <2>6
<1>8. CASE UNCHANGED contextVars
  <2>1. UNCHANGED <<epoch, clock, stack, visited, proxies>>
    BY <1>8 DEF contextVars
  <2>2. StackIsRight /\ WalkInv
    BY StackOf
  <2>3. Ancestors' = Ancestors
    BY <2>1 DEF Ancestors
  <2>4. StackIsRight'
    BY <2>1, <2>2, <2>3 DEF StackIsRight, FrameShape
  <2>5. PastInv' /\ ProxiesAreClosedAndAcyclic'
    BY <1>0, <2>1 DEF PastInv, ProxiesAreClosedAndAcyclic, Registered
  <2> QED BY <1>0, <2>1, <2>3, <2>4, <2>5, WalkFrom
<1> QED BY <1>1, <1>2, <1>3, <1>4, <1>5, <1>6, <1>7, <1>8 DEF ContextNext

LEMMA WalkInit == ContextInit => WalkInv
<1> SUFFICES ASSUME ContextInit PROVE WalkInv
  OBVIOUS
<1>1. /\ epoch = 0 /\ clock = 0 /\ stack = <<>> /\ visited = {}
      /\ proxies = [n \in NodeIds |-> Unregistered]
  BY DEF ContextInit
<1>2. <<>> \in Seq(NodeIds) /\ Len(<<>>) = 0 /\ <<>> \in Seq(ToSet(<<>>))
  BY EmptySeq
<1>3. proxies \in [NodeIds -> [epoch : Nat, at : Nat, kids : Seq(NodeIds)]]
      /\ \A n \in NodeIds : proxies[n].epoch = 0 /\ proxies[n].at = 0
  BY <1>1, <1>2 DEF Unregistered
<1>4. WalkShape /\ PastInv /\ FramesInv
  BY <1>1, <1>2, <1>3 DEF WalkShape, PastInv, FramesInv
<1>5. ProxiesAreClosedAndAcyclic
  BY <1>3 DEF ProxiesAreClosedAndAcyclic, Registered
<1> QED BY <1>4, <1>5 DEF WalkInv

-----------------------------------------------------------------------------
(* The rows of a list that are wanted (Routings). What the recursive function *)
(* inside RowsIn is for every length is shown by the least length at which it *)
(* would not be.                                                             *)

\* f is the function inside RowsIn.
Selects(f, n, list, wanted) ==
    f = [i \in 0 .. n |-> IF i = 0 THEN <<>>
                          ELSE IF list[i] \in wanted THEN Append(f[i - 1], list[i])
                          ELSE f[i - 1]]

\* A set of numbers has a least one.
LEMMA LeastIndex ==
    ASSUME NEW S \in SUBSET Nat, S # {}
    PROVE  \E i \in S : \A j \in S : i <= j
<1>1. IsWellFoundedOn(OpToRel(<, Nat), Nat)
  BY NatLessThanWellFounded
<1>2. PICK i \in S : \A j \in S : ~(<<j, i>> \in OpToRel(<, Nat))
  BY <1>1, WFMin
<1>3. \A j \in S : ~(j < i)
  BY <1>2 DEF OpToRel
<1> QED BY <1>3

\* There is such a function, so that CHOOSE finds it.
LEMMA SelectsExists ==
    ASSUME NEW list, NEW wanted, NEW n \in Nat
    PROVE  \E f : Selects(f, n, list, wanted)
<1> DEFINE Bad == {m \in Nat : ~\E f : Selects(f, m, list, wanted)}
<1> SUFFICES ASSUME Bad # {} PROVE FALSE
  OBVIOUS
<1>1. PICK m \in Bad : \A j \in Bad : m <= j
  BY LeastIndex
<1>2. CASE m = 0
  <2> DEFINE g == [i \in 0 .. 0 |-> <<>>]
  <2>1. Selects(g, 0, list, wanted)
    BY DEF Selects
  <2> QED BY <1>1, <1>2, <2>1
<1>3. CASE m # 0
  <2>1. m - 1 \in Nat /\ m \in Nat /\ ~(m <= m - 1)
    BY <1>1, <1>3
  <2>2. PICK f : Selects(f, m - 1, list, wanted)
    BY <1>1, <2>1
  <2>3. PICK x : x = IF list[m] \in wanted THEN Append(f[m - 1], list[m]) ELSE f[m - 1]
    OBVIOUS
  <2> DEFINE g == [i \in 0 .. m |-> IF i = m THEN x ELSE f[i]]
  <2>4. /\ \A i \in 0 .. m : i # m => i \in 0 .. m - 1
        /\ \A i \in 0 .. m : i # 0 => i - 1 \in 0 .. m - 1 /\ i - 1 # m /\ i - 1 \in 0 .. m
    BY <2>1
  <2>5. \A i \in 0 .. m - 1 :
           f[i] = IF i = 0 THEN <<>>
                  ELSE IF list[i] \in wanted THEN Append(f[i - 1], list[i]) ELSE f[i - 1]
    BY <2>2 DEF Selects
  <2>6. \A i \in 0 .. m :
           g[i] = IF i = 0 THEN <<>>
                  ELSE IF list[i] \in wanted THEN Append(g[i - 1], list[i]) ELSE g[i - 1]
    <3> SUFFICES ASSUME NEW i \in 0 .. m
                 PROVE  g[i] = IF i = 0 THEN <<>>
                               ELSE IF list[i] \in wanted THEN Append(g[i - 1], list[i])
                               ELSE g[i - 1]
      OBVIOUS
    <3>1. i # 0 => g[i - 1] = f[i - 1]
      BY <2>4
    <3>2. CASE i = m
      BY <1>3, <2>3, <3>1, <3>2
    <3>3. CASE i # m
      <4>1. g[i] = f[i] /\ i \in 0 .. m - 1
        BY <2>4, <3>3
      <4> HIDE DEF g
      <4> QED BY <2>5, <3>1, <4>1
    <3> QED BY <3>2, <3>3
  <2>7. g = [i \in 0 .. m |-> g[i]]
    OBVIOUS
  <2> HIDE DEF g
  <2>8. Selects(g, m, list, wanted)
    BY <2>6, <2>7 DEF Selects
  <2> QED BY <1>1, <2>8
<1> QED BY <1>2, <1>3

\* The wanted ones of the first n.
FirstRows(list, wanted, n) == {list[i] : i \in 1 .. n} \cap wanted

LEMMA SelectsIsRight ==
    ASSUME NEW S, NEW list \in Seq(S), NEW wanted, NEW f, Selects(f, Len(list), list, wanted),
           NEW n \in 0 .. Len(list)
    PROVE  f[n] \in Seq(S) /\ ToSet(f[n]) = FirstRows(list, wanted, n)
<1> DEFINE Good(m) == f[m] \in Seq(S) /\ ToSet(f[m]) = {list[i] : i \in 1 .. m} \cap wanted
           Bad == {m \in 0 .. Len(list) : ~Good(m)}
<1>0. Len(list) \in Nat /\ Bad \in SUBSET Nat
  BY LenProperties
<1> SUFFICES ASSUME Bad # {} PROVE FALSE
  <2>1. CASE Bad = {}
    <3>1. Good(n)
      BY <2>1
    <3> QED BY <3>1 DEF FirstRows
  <2> QED BY <2>1
<1>1. PICK m \in Bad : \A j \in Bad : m <= j
  BY <1>0, LeastIndex
<1>2. \A i \in 0 .. Len(list) :
         f[i] = IF i = 0 THEN <<>>
                ELSE IF list[i] \in wanted THEN Append(f[i - 1], list[i]) ELSE f[i - 1]
  BY DEF Selects
<1>3. CASE m = 0
  <2>1. f[0] = <<>> /\ 1 .. 0 = {}
    BY <1>0, <1>2
  <2>2. <<>> \in Seq(S) /\ ToSet(<<>>) = {}
    BY EmptySeq DEF ToSet
  <2> QED BY <1>1, <1>3, <2>1, <2>2
<1>4. CASE m # 0
  <2>1. m \in 1 .. Len(list) /\ m - 1 \in 0 .. Len(list) /\ ~(m <= m - 1)
    BY <1>0, <1>1, <1>4
  <2>2. Good(m - 1)
    BY <1>1, <2>1
  <2>3. {list[i] : i \in 1 .. m} = {list[i] : i \in 1 .. m - 1} \cup {list[m]}
    <3>1. \A i : i \in 1 .. m <=> i \in 1 .. m - 1 \/ i = m
      BY <1>0, <2>1
    <3> QED BY <3>1
  <2>4. list[m] \in S
    BY <2>1, ElementOfSeq
  <2>5. f[m] = IF list[m] \in wanted THEN Append(f[m - 1], list[m]) ELSE f[m - 1]
    BY <1>2, <2>1
  <2>6. PICK t : t = f[m - 1]
    OBVIOUS
  <2>7. Append(t, list[m]) \in Seq(S) /\ ToSet(Append(t, list[m])) = ToSet(t) \cup {list[m]}
    <3>1. t \in Seq(S)
      BY <2>2, <2>6
    <3>2. /\ Append(t, list[m]) \in Seq(S) /\ Len(t) \in Nat
          /\ Len(Append(t, list[m])) = Len(t) + 1
          /\ \A i \in 1 .. Len(t) : Append(t, list[m])[i] = t[i]
          /\ Append(t, list[m])[Len(t) + 1] = list[m]
      BY <2>4, <3>1, AppendProperties, LenProperties
    <3>3. DOMAIN t = 1 .. Len(t) /\ DOMAIN Append(t, list[m]) = 1 .. Len(t) + 1
      BY <3>1, <3>2, LenProperties
    <3>4. \A i : i \in 1 .. Len(t) + 1 <=> i \in 1 .. Len(t) \/ i = Len(t) + 1
      BY <3>2
    <3> QED BY <3>2, <3>3, <3>4 DEF ToSet
  <2> QED BY <1>1, <2>2, <2>3, <2>5, <2>6, <2>7
<1> QED BY <1>3, <1>4

\* RowsIn has the wanted rows and no others.
LEMMA RowsInIsRight ==
    ASSUME NEW S, NEW list \in Seq(S), NEW wanted
    PROVE  /\ RowsIn(list, wanted) \in Seq(S)
           /\ ToSet(RowsIn(list, wanted)) = ToSet(list) \cap wanted
<1> DEFINE f == CHOOSE f : Selects(f, Len(list), list, wanted)
<1>1. Len(list) \in Nat /\ Len(list) \in 0 .. Len(list) /\ DOMAIN list = 1 .. Len(list)
  BY LenProperties
<1>2. Selects(f, Len(list), list, wanted)
  BY <1>1, SelectsExists
<1>3. RowsIn(list, wanted) = f[Len(list)]
  BY DEF RowsIn, Selects
<1> HIDE DEF f
<1>4. PICK n : n = Len(list)
  OBVIOUS
<1>5. n \in 0 .. Len(list)
  BY <1>1, <1>4
<1>6. f[n] \in Seq(S) /\ ToSet(f[n]) = FirstRows(list, wanted, n)
  BY <1>2, <1>5, SelectsIsRight, Zenon
<1> QED BY <1>1, <1>3, <1>4, <1>6 DEF ToSet, FirstRows

\* RowsIn keeps a list without repetitions.
LEMMA RowsInOnce ==
    ASSUME NEW S, NEW list \in Seq(S), NEW wanted,
           \A i, j \in 1 .. Len(list) : list[i] = list[j] => i = j,
           NEW t, t = RowsIn(list, wanted)
    PROVE  \A i, j \in 1 .. Len(t) : t[i] = t[j] => i = j
<1> DEFINE f == CHOOSE f : Selects(f, Len(list), list, wanted)
           Good(m) == \A i, j \in 1 .. Len(f[m]) : f[m][i] = f[m][j] => i = j
           Bad == {m \in 0 .. Len(list) : ~Good(m)}
<1>1. Len(list) \in Nat /\ Len(list) \in 0 .. Len(list) /\ Bad \in SUBSET Nat
  BY LenProperties
<1>2. Selects(f, Len(list), list, wanted)
  BY <1>1, SelectsExists
<1>3. t = f[Len(list)]
  BY DEF RowsIn, Selects
<1>4. \A n \in 0 .. Len(list) : f[n] \in Seq(S) /\ ToSet(f[n]) = FirstRows(list, wanted, n)
  BY <1>2, SelectsIsRight
<1>5. \A i \in 0 .. Len(list) :
         f[i] = IF i = 0 THEN <<>>
                ELSE IF list[i] \in wanted THEN Append(f[i - 1], list[i]) ELSE f[i - 1]
  BY <1>2 DEF Selects
<1> HIDE DEF f
<1>6. ASSUME Bad # {} PROVE FALSE
  <2>1. PICK m \in Bad : \A j \in Bad : m <= j
    BY <1>1, <1>6, LeastIndex
  <2>2. m \in 0 .. Len(list) /\ ~Good(m)
    BY <2>1
  <2>3. m # 0
    <3> SUFFICES ASSUME m = 0 PROVE FALSE
      OBVIOUS
    <3>1. f[m] = <<>>
      BY <1>5, <2>2
    <3>2. Len(f[m]) = 0
      BY <3>1, EmptySeq
    <3> QED BY <2>2, <3>2
  <2>4. m \in 1 .. Len(list) /\ m - 1 \in 0 .. Len(list) /\ m \in Nat /\ ~(m <= m - 1)
    BY <1>1, <2>2, <2>3
  <2>5. Good(m - 1)
    BY <2>1, <2>4
  <2>6. f[m] = IF list[m] \in wanted THEN Append(f[m - 1], list[m]) ELSE f[m - 1]
    BY <1>5, <2>2, <2>3
  <2>7. PICK s, x : s = f[m - 1] /\ x = list[m]
    OBVIOUS
  <2>8. s \in Seq(S) /\ ToSet(s) = FirstRows(list, wanted, m - 1) /\ x \in S
    BY <1>4, <2>4, <2>7, ElementOfSeq
  <2>9. x \notin ToSet(s)
    <3>1. \A i \in 1 .. m - 1 : i \in 1 .. Len(list) /\ i # m
      BY <1>1, <2>4
    <3>2. \A i \in 1 .. m - 1 : list[i] # list[m]
      BY <2>4, <3>1
    <3> QED BY <2>7, <2>8, <3>2 DEF FirstRows
  <2>10. PICK u : u = Append(s, x)
    OBVIOUS
  <2>11. /\ Len(s) \in Nat /\ Len(u) = Len(s) + 1 /\ u[Len(s) + 1] = x
         /\ \A i \in 1 .. Len(s) : u[i] = s[i] /\ u[i] # x
    <3>1. /\ Len(s) \in Nat /\ Len(u) = Len(s) + 1 /\ u[Len(s) + 1] = x
          /\ \A i \in 1 .. Len(s) : u[i] = s[i]
      BY <2>8, <2>10, AppendProperties, LenProperties
    <3>2. \A i \in 1 .. Len(s) : s[i] \in ToSet(s)
      BY <2>8, LenProperties DEF ToSet
    <3> QED BY <2>9, <3>1, <3>2
  <2>12. \A i, j \in 1 .. Len(s) : s[i] = s[j] => i = j
    BY <2>5, <2>7
  <2>13. \A i, j \in 1 .. Len(u) : u[i] = u[j] => i = j
    <3>1. \A i \in 1 .. Len(u) : i \in 1 .. Len(s) \/ i = Len(s) + 1
      BY <2>11
    <3> QED BY <2>11, <2>12, <3>1
  <2> QED BY <2>2, <2>5, <2>6, <2>7, <2>10, <2>13
<1>7. Good(Len(list))
  BY <1>1, <1>6
<1> QED BY <1>3, <1>7

-----------------------------------------------------------------------------
(* What is usable: the least set that has the valid leaves and what leads to  *)
(* them.                                                                    *)

LEMMA UsableLeast ==
    ASSUME NEW children, NEW without, NEW S \in SUBSET Groups,
           HasUsableChildren(children, without, S)
    PROVE  UsableWith(children, without) \subseteq ValidLeaves(without) \cup S
BY DEF UsableWith

LEMMA UsableGoesUp ==
    ASSUME NEW children, NEW without, NEW g \in Groups \ without,
           children[g] \cap UsableWith(children, without) # {}
    PROVE  g \in UsableWith(children, without)
<1> SUFFICES ASSUME NEW S \in SUBSET Groups, HasUsableChildren(children, without, S)
             PROVE  g \in S
  BY DEF UsableWith
<1>1. UsableWith(children, without) \subseteq ValidLeaves(without) \cup S
  BY UsableLeast
<1> QED BY <1>1 DEF HasUsableChildren

LEMMA UsableIsApart ==
    ASSUME NEW children, NEW without
    PROVE  /\ UsableWith(children, without) \cap without = {}
           /\ \A n \in Leaves : n \in UsableWith(children, without)
                                   <=> n \notin without /\ ValidNode(Leaf[n])
BY ContextBounds DEF UsableWith, ValidLeaves

LEMMA UsableWithMore ==
    ASSUME NEW children, NEW without, NEW more, without \subseteq more
    PROVE  UsableWith(children, more) \subseteq UsableWith(children, without)
<1> DEFINE S == UsableWith(children, without) \cap Groups
<1>1. ValidLeaves(more) \subseteq ValidLeaves(without)
  BY DEF ValidLeaves
<1>2. ValidLeaves(without) \subseteq UsableWith(children, without)
  BY DEF UsableWith
<1>3. HasUsableChildren(children, more, S)
  <2> SUFFICES ASSUME NEW g \in Groups \ more, children[g] \cap (ValidLeaves(more) \cup S) # {}
               PROVE  g \in S
    BY DEF HasUsableChildren
  <2>1. children[g] \cap UsableWith(children, without) # {}
    BY <1>1, <1>2
  <2> QED BY <2>1, UsableGoesUp
<1>4. UsableWith(children, more) \subseteq ValidLeaves(more) \cup S
  BY <1>3, UsableLeast
<1> QED BY <1>1, <1>2, <1>4

\* A group that has no child usable without it is not usable.
LEMMA UsableNeedsAChild ==
    ASSUME NEW children, NEW without, NEW g \in Groups,
           children[g] \cap UsableWith(children, without \cup {g}) = {}
    PROVE  g \notin UsableWith(children, without)
<1> DEFINE S == UsableWith(children, without \cup {g}) \cap Groups
<1>1. ValidLeaves(without) = ValidLeaves(without \cup {g})
  BY ContextBounds DEF ValidLeaves
<1>2. ValidLeaves(without \cup {g}) \subseteq UsableWith(children, without \cup {g})
  BY DEF UsableWith
<1>3. HasUsableChildren(children, without, S)
  <2> SUFFICES ASSUME NEW h \in Groups \ without,
                      children[h] \cap (ValidLeaves(without) \cup S) # {}
               PROVE  h \in S
    BY DEF HasUsableChildren
  <2>1. children[h] \cap UsableWith(children, without \cup {g}) # {}
    BY <1>1, <1>2
  <2>2. h \in Groups \ (without \cup {g})
    BY <2>1
  <2> QED BY <2>1, <2>2, UsableGoesUp
<1>4. UsableWith(children, without) \subseteq ValidLeaves(without) \cup S
  BY <1>3, UsableLeast
<1>5. g \notin S
  BY UsableIsApart
<1>6. g \notin ValidLeaves(without)
  BY ContextBounds DEF ValidLeaves
<1> QED BY <1>4, <1>5, <1>6

-----------------------------------------------------------------------------
(* The children of a group, and the frame that goes through them.            *)

LEMMA ConcatElements ==
    ASSUME NEW S, NEW s \in Seq(S), NEW t \in Seq(S)
    PROVE  s \o t \in Seq(S) /\ ToSet(s \o t) = ToSet(s) \cup ToSet(t)
<1>1. /\ s \o t \in Seq(S) /\ Len(s) \in Nat /\ Len(t) \in Nat
      /\ Len(s \o t) = Len(s) + Len(t)
      /\ \A i \in 1 .. Len(s) + Len(t) :
            (s \o t)[i] = IF i <= Len(s) THEN s[i] ELSE t[i - Len(s)]
  BY ConcatProperties, LenProperties
<1>2. /\ DOMAIN s = 1 .. Len(s) /\ DOMAIN t = 1 .. Len(t)
      /\ DOMAIN (s \o t) = 1 .. Len(s) + Len(t)
  BY <1>1, LenProperties
<1>3. \A i \in 1 .. Len(t) : (s \o t)[Len(s) + i] = t[i] /\ Len(s) + i \in 1 .. Len(s) + Len(t)
  BY <1>1
<1>4. \A i \in 1 .. Len(s) : (s \o t)[i] = s[i] /\ i \in 1 .. Len(s) + Len(t)
  BY <1>1
<1>5. \A i \in 1 .. Len(s) + Len(t) :
         \/ i \in 1 .. Len(s)
         \/ i - Len(s) \in 1 .. Len(t) /\ (s \o t)[i] = t[i - Len(s)]
  BY <1>1
<1>6. PICK u : u = s \o t
  OBVIOUS
<1>7. /\ \A i \in 1 .. Len(u) : (\E j \in 1 .. Len(s) : u[i] = s[j]) \/ (\E j \in 1 .. Len(t) : u[i] = t[j])
      /\ \A j \in 1 .. Len(s) : \E i \in 1 .. Len(u) : u[i] = s[j]
      /\ \A j \in 1 .. Len(t) : \E i \in 1 .. Len(u) : u[i] = t[j]
  BY ONLY <1>1, <1>3, <1>4, <1>5, <1>6
<1>8. /\ ToSet(u) = {u[i] : i \in 1 .. Len(u)} /\ ToSet(s) = {s[i] : i \in 1 .. Len(s)}
      /\ ToSet(t) = {t[i] : i \in 1 .. Len(t)}
  BY <1>1, <1>2, <1>6 DEF ToSet
<1>9. ToSet(u) = ToSet(s) \cup ToSet(t)
  BY ONLY <1>7, <1>8
<1> QED BY <1>1, <1>6, <1>9

LEMMA OwnChildrenAreNodes ==
    ASSUME catalog \in Catalogs, NEW g \in Groups
    PROVE  RowsIn(catalog[g].selected, NodeIds) \in Seq(NodeIds)
<1>1. PICK list : list = catalog[g].selected
  OBVIOUS
<1>2. list \in Seq(ToSet(list))
  BY <1>1, ContextBounds
<1>3. RowsIn(list, NodeIds) \in Seq(ToSet(list)) /\ ToSet(RowsIn(list, NodeIds)) \subseteq NodeIds
  BY <1>2, RowsInIsRight
<1>4. RowsIn(list, NodeIds) \in Seq(ToSet(RowsIn(list, NodeIds)))
  BY <1>3, OwnSeq
<1>5. RowsIn(list, NodeIds) \in Seq(NodeIds)
  BY <1>3, <1>4, SeqMonotonic
<1> QED BY <1>1, <1>5

LEMMA ChildrenAreNodes ==
    ASSUME catalog \in Catalogs, NEW g \in Groups
    PROVE  GroupChildren(g) \in Seq(NodeIds)
<1> DEFINE fits == {n \in Leaves : Leaf[n].type # "custom" /\ ValidNode(Leaf[n])}
           own == RowsIn(catalog[g].selected, NodeIds)
           theirs == IF catalog[g].source THEN RowsIn(SubLeaves, fits) ELSE <<>>
<1>1. RowsIn(SubLeaves, fits) \in Seq(NodeIds)
  <2>1. RowsIn(SubLeaves, fits) \in Seq(Leaves)
    BY ContextBounds, RowsInIsRight
  <2>2. Leaves \subseteq NodeIds
    BY DEF NodeIds
  <2> QED BY <2>1, <2>2, SeqMonotonic
<1>2. own \in Seq(NodeIds)
  BY OwnChildrenAreNodes
<1>3. theirs \in Seq(NodeIds)
  BY <1>1, EmptySeq
<1>4. GroupChildren(g) = theirs \o own
  BY DEF GroupChildren
<1> HIDE DEF theirs, own
<1> QED BY <1>2, <1>3, <1>4, ConcatElements

LEMMA FirstAndRest ==
    ASSUME NEW S, NEW s \in Seq(S), s # <<>>
    PROVE  /\ Head(s) \in S /\ Tail(s) \in Seq(S) /\ Head(s) \in ToSet(s)
           /\ ToSet(s) = {Head(s)} \cup ToSet(Tail(s))
<1>1. /\ Head(s) \in S /\ Tail(s) \in Seq(S) /\ Len(Tail(s)) = Len(s) - 1
      /\ \A i \in 1 .. Len(Tail(s)) : Tail(s)[i] = s[i + 1]
  BY HeadTailProperties
<1>2. Head(s) = s[1] /\ Len(s) \in Nat \ {0}
  BY EmptySeq
<1>3. DOMAIN s = 1 .. Len(s) /\ DOMAIN Tail(s) = 1 .. Len(s) - 1
  BY <1>1, LenProperties
<1>4. /\ 1 \in 1 .. Len(s)
      /\ \A i \in 1 .. Len(s) - 1 : i + 1 \in 1 .. Len(s)
      /\ \A i \in 1 .. Len(s) : i = 1 \/ (i - 1 \in 1 .. Len(s) - 1 /\ i - 1 + 1 = i)
  BY <1>2
<1>5. \A x \in ToSet(Tail(s)) : x \in ToSet(s)
  BY <1>1, <1>3, <1>4 DEF ToSet
<1>6. ASSUME NEW x \in ToSet(s) PROVE x = Head(s) \/ x \in ToSet(Tail(s))
  <2>1. PICK i \in 1 .. Len(s) : x = s[i]
    BY <1>3 DEF ToSet
  <2>2. CASE i # 1
    <3>1. i - 1 \in 1 .. Len(s) - 1 /\ Tail(s)[i - 1] = s[i]
      BY <1>1, <1>4, <2>2
    <3> QED BY <1>3, <2>1, <3>1 DEF ToSet
  <2> QED BY <1>2, <2>1, <2>2
<1>7. Head(s) \in ToSet(s)
  BY <1>2, <1>3, <1>4 DEF ToSet
<1> QED BY <1>1, <1>5, <1>6, <1>7

LEMMA KeepAddsIt ==
    ASSUME NEW kept \in Seq(NodeIds), NEW n \in NodeIds
    PROVE  ToSet(Keep(kept, n)) = ToSet(kept) \cup {n}
<1>1. CASE Contains(kept, n)
  <2>1. n \in ToSet(kept)
    BY <1>1, OwnSeq DEF Contains
  <2> QED BY <1>1, <2>1 DEF Keep
<1>2. CASE ~Contains(kept, n)
  <2>1. PICK t : t = Append(kept, n)
    OBVIOUS
  <2>2. /\ t \in Seq(NodeIds) /\ Len(t) = Len(kept) + 1 /\ Len(kept) \in Nat
        /\ \A i \in 1 .. Len(kept) : t[i] = kept[i]
        /\ t[Len(kept) + 1] = n
    BY <2>1, AppendProperties, LenProperties
  <2>3. /\ \A i \in 1 .. Len(kept) : i \in 1 .. Len(t)
        /\ Len(kept) + 1 \in 1 .. Len(t)
    BY <2>2
  <2>4. ToSet(t) = {t[i] : i \in 1 .. Len(t)} /\ ToSet(kept) = {kept[i] : i \in 1 .. Len(kept)}
    BY <2>2, OwnSeq
  <2>5. ToSet(kept) \cup {n} \subseteq ToSet(t)
    BY <2>2, <2>3, <2>4
  <2>6. Keep(kept, n) = t
    BY <1>2, <2>1 DEF Keep
  <2> QED BY <2>5, <2>6, KeepAdds
<1> QED BY <1>1, <1>2

-----------------------------------------------------------------------------
(* The children that are validated.                                         *)

\* f is the function inside Distinct.
Collects(f, n, list) ==
    f = [i \in 0 .. n |-> IF i = 0 THEN <<>> ELSE Keep(f[i - 1], list[i])]

LEMMA CollectsExists ==
    ASSUME NEW list, NEW n \in Nat
    PROVE  \E f : Collects(f, n, list)
<1> DEFINE Bad == {m \in Nat : ~\E f : Collects(f, m, list)}
<1> SUFFICES ASSUME Bad # {} PROVE FALSE
  OBVIOUS
<1>1. PICK m \in Bad : \A j \in Bad : m <= j
  BY LeastIndex
<1>2. CASE m = 0
  <2> DEFINE g == [i \in 0 .. 0 |-> <<>>]
  <2>1. Collects(g, 0, list)
    BY DEF Collects
  <2> QED BY <1>1, <1>2, <2>1
<1>3. CASE m # 0
  <2>1. m - 1 \in Nat /\ m \in Nat /\ ~(m <= m - 1)
    BY <1>1, <1>3
  <2>2. PICK f : Collects(f, m - 1, list)
    BY <1>1, <2>1
  <2>3. PICK x : x = Keep(f[m - 1], list[m])
    OBVIOUS
  <2> DEFINE g == [i \in 0 .. m |-> IF i = m THEN x ELSE f[i]]
  <2>4. /\ \A i \in 0 .. m : i # m => i \in 0 .. m - 1
        /\ \A i \in 0 .. m : i # 0 => i - 1 \in 0 .. m - 1 /\ i - 1 # m /\ i - 1 \in 0 .. m
    BY <2>1
  <2>5. \A i \in 0 .. m - 1 : f[i] = IF i = 0 THEN <<>> ELSE Keep(f[i - 1], list[i])
    BY <2>2 DEF Collects
  <2>6. \A i \in 0 .. m : g[i] = IF i = 0 THEN <<>> ELSE Keep(g[i - 1], list[i])
    <3> SUFFICES ASSUME NEW i \in 0 .. m
                 PROVE  g[i] = IF i = 0 THEN <<>> ELSE Keep(g[i - 1], list[i])
      OBVIOUS
    <3>1. i # 0 => g[i - 1] = f[i - 1]
      BY <2>4
    <3>2. CASE i = m
      BY <1>3, <2>3, <3>1, <3>2
    <3>3. CASE i # m
      <4>1. g[i] = f[i] /\ i \in 0 .. m - 1
        BY <2>4, <3>3
      <4> HIDE DEF g
      <4> QED BY <2>5, <3>1, <4>1
    <3> QED BY <3>2, <3>3
  <2>7. g = [i \in 0 .. m |-> g[i]]
    OBVIOUS
  <2> HIDE DEF g
  <2>8. Collects(g, m, list)
    BY <2>6, <2>7 DEF Collects
  <2> QED BY <1>1, <2>8
<1> QED BY <1>2, <1>3

LEMMA DistinctAreNodes ==
    ASSUME NEW list \in Seq(NodeIds)
    PROVE  Distinct(list) \in Seq(NodeIds)
<1> DEFINE f == CHOOSE f : Collects(f, Len(list), list)
           Bad == {m \in 0 .. Len(list) : f[m] \notin Seq(NodeIds)}
<1>1. Len(list) \in Nat /\ Len(list) \in 0 .. Len(list) /\ Bad \in SUBSET Nat
  BY LenProperties
<1>2. Collects(f, Len(list), list)
  BY <1>1, CollectsExists
<1>3. Distinct(list) = f[Len(list)]
  BY DEF Distinct, Collects
<1>4. \A i \in 0 .. Len(list) : f[i] = IF i = 0 THEN <<>> ELSE Keep(f[i - 1], list[i])
  BY <1>2 DEF Collects
<1> HIDE DEF f
<1>5. ASSUME Bad # {} PROVE FALSE
  <2>1. PICK m \in Bad : \A j \in Bad : m <= j
    BY <1>1, <1>5, LeastIndex
  <2>2. m \in 0 .. Len(list) /\ f[m] \notin Seq(NodeIds)
    BY <2>1
  <2>3. m # 0
    BY <1>4, <2>2, EmptySeq
  <2>4. m \in 1 .. Len(list) /\ m - 1 \in 0 .. Len(list) /\ ~(m <= m - 1)
    BY <1>1, <2>2, <2>3
  <2>5. f[m - 1] \in Seq(NodeIds) /\ list[m] \in NodeIds
    BY <2>1, <2>4, ElementOfSeq
  <2>6. PICK kept, n : kept = f[m - 1] /\ n = list[m]
    OBVIOUS
  <2>7. Keep(kept, n) \in Seq(NodeIds)
    BY <2>5, <2>6, KeepAdds
  <2> QED BY <1>4, <2>2, <2>3, <2>6, <2>7
<1> QED BY <1>1, <1>3, <1>5

LEMMA EffectiveAreNodes ==
    ASSUME catalog \in Catalogs, NEW g \in Groups
    PROVE  EffectiveChildren(g) \in Seq(NodeIds)
<1> DEFINE simple == {n \in Leaves : Leaf[n].type # "custom"}
           own == RowsIn(catalog[g].selected, NodeIds)
           theirs == IF catalog[g].source THEN RowsIn(SubLeaves, simple) ELSE <<>>
<1>1. RowsIn(SubLeaves, simple) \in Seq(NodeIds)
  <2>1. RowsIn(SubLeaves, simple) \in Seq(Leaves)
    BY ContextBounds, RowsInIsRight
  <2>2. Leaves \subseteq NodeIds
    BY DEF NodeIds
  <2> QED BY <2>1, <2>2, SeqMonotonic
<1>2. own \in Seq(NodeIds)
  BY OwnChildrenAreNodes
<1>3. theirs \in Seq(NodeIds)
  BY <1>1, EmptySeq
<1>4. EffectiveChildren(g) = Distinct(own \o theirs)
  BY DEF EffectiveChildren
<1> HIDE DEF theirs, own
<1>5. own \o theirs \in Seq(NodeIds)
  BY <1>2, <1>3, ConcatElements
<1> QED BY <1>4, <1>5, DistinctAreNodes

-----------------------------------------------------------------------------
(* What is below a group, and the cycle the walk of detect_cycle finds.       *)

UnderGroups(under) == \A k \in NodeIds : under[k] \subseteq Groups

LEMMA BelowLeast ==
    ASSUME NEW under, NEW g, NEW S \in SUBSET Groups, under[g] \subseteq S,
           \A k \in S : under[k] \subseteq S
    PROVE  BelowWith(under, g) \subseteq S
BY DEF BelowWith

LEMMA BelowIsClosed ==
    ASSUME NEW under, UnderGroups(under), NEW g \in NodeIds
    PROVE  /\ BelowWith(under, g) \in SUBSET Groups
           /\ under[g] \subseteq BelowWith(under, g)
           /\ \A k \in BelowWith(under, g) : under[k] \subseteq BelowWith(under, g)
<1>1. Groups \subseteq NodeIds
  BY DEF NodeIds
<1> QED BY <1>1 DEF BelowWith, UnderGroups

LEMMA BelowSteps ==
    ASSUME NEW under, UnderGroups(under), NEW g \in NodeIds, NEW h
    PROVE  h \in BelowWith(under, g) <=>
              \E c \in under[g] : h = c \/ h \in BelowWith(under, c)
<1>1. under[g] \subseteq Groups /\ Groups \subseteq NodeIds
  BY DEF UnderGroups, NodeIds
<1>2. ASSUME NEW c \in under[g], h = c \/ h \in BelowWith(under, c)
      PROVE  h \in BelowWith(under, g)
  <2> DEFINE S == BelowWith(under, g)
  <2>1. S \in SUBSET Groups /\ c \in S /\ \A k \in S : under[k] \subseteq S
    BY BelowIsClosed
  <2> HIDE DEF S
  <2>2. BelowWith(under, c) \subseteq S
    BY <2>1, BelowLeast
  <2> QED BY <1>2, <2>1, <2>2 DEF S
<1>3. ASSUME h \in BelowWith(under, g)
      PROVE  \E c \in under[g] : h = c \/ h \in BelowWith(under, c)
  <2> DEFINE S == {k \in Groups : \E c \in under[g] : k = c \/ k \in BelowWith(under, c)}
  <2>1. under[g] \subseteq S
    BY <1>1
  <2>2. ASSUME NEW k \in S PROVE under[k] \subseteq S
    <3>1. PICK c \in under[g] : k = c \/ k \in BelowWith(under, c)
      OBVIOUS
    <3>2. under[k] \subseteq BelowWith(under, c) /\ BelowWith(under, c) \subseteq Groups
      BY <1>1, <3>1, BelowIsClosed
    <3> QED BY <3>2
  <2>3. BelowWith(under, g) \subseteq S
    <3>1. S \in SUBSET Groups
      OBVIOUS
    <3> HIDE DEF S
    <3> QED BY <2>1, <2>2, <3>1, BelowLeast
  <2> QED BY <1>3, <2>3
<1> QED BY <1>2, <1>3

\* From m one comes to a group of path, or to one that is below itself.
ComesBack(under, m, path) ==
    \E h \in {m} \cup BelowWith(under, m) : h \in path \/ h \in BelowWith(under, h)

LEMMA ComesBackSteps ==
    ASSUME NEW under, UnderGroups(under), NEW m \in NodeIds, NEW path \in SUBSET Groups,
           m \notin path, m \in Groups
    PROVE  ComesBack(under, m, path) <=>
              \E c \in under[m] : ComesBack(under, c, path \cup {m})
<1>1. under[m] \subseteq NodeIds
  BY DEF UnderGroups, NodeIds
<1>2. ASSUME ComesBack(under, m, path)
      PROVE  \E c \in under[m] : ComesBack(under, c, path \cup {m})
  <2>1. PICK h \in {m} \cup BelowWith(under, m) : h \in path \/ h \in BelowWith(under, h)
    BY <1>2 DEF ComesBack
  <2>2. h \in BelowWith(under, m)
    BY <2>1
  <2>3. PICK c \in under[m] : h = c \/ h \in BelowWith(under, c)
    BY <2>2, BelowSteps
  <2> QED BY <2>1, <2>3 DEF ComesBack
<1>3. ASSUME NEW c \in under[m], ComesBack(under, c, path \cup {m})
      PROVE  ComesBack(under, m, path)
  <2>1. PICK h \in {c} \cup BelowWith(under, c) :
           h \in path \cup {m} \/ h \in BelowWith(under, h)
    BY <1>3 DEF ComesBack
  <2>2. h \in BelowWith(under, m)
    BY <2>1, BelowSteps
  <2> QED BY <2>1, <2>2 DEF ComesBack
<1> QED BY <1>2, <1>3

LEMMA LeafComesNowhere ==
    ASSUME NEW under, UnderGroups(under), NEW m \in NodeIds, under[m] = {},
           NEW path \in SUBSET Groups
    PROVE  ComesBack(under, m, path) <=> m \in path
<1>1. \A h : h \notin BelowWith(under, m)
  BY BelowSteps
<1> QED BY <1>1 DEF ComesBack

Under == [k \in NodeIds |-> GroupsUnder(k)]

\* f is the function inside FindsCycle.
DetectsFrom(f, m, path) ==
    \/ m \in path
    \/ /\ m \in Groups
       /\ \E i \in DOMAIN EffectiveChildren(m) :
             f[path \cup {m}][EffectiveChildren(m)[i]]
Detects(f) == f = [path \in SUBSET Groups |-> [m \in NodeIds |-> DetectsFrom(f, m, path)]]

LEMMA UnderIsRight ==
    ASSUME catalog \in Catalogs
    PROVE  /\ UnderGroups(Under)
           /\ \A m \in Leaves : Under[m] = {}
           /\ \A m \in Groups : Under[m] = ToSet(EffectiveChildren(m)) \cap Groups
           /\ \A m \in Groups : ToSet(EffectiveChildren(m)) \subseteq NodeIds
<1>1. \A m \in Groups : ToSet(EffectiveChildren(m)) \subseteq NodeIds
  <2> SUFFICES ASSUME NEW m \in Groups PROVE ToSet(EffectiveChildren(m)) \subseteq NodeIds
    OBVIOUS
  <2>1. PICK s : s = EffectiveChildren(m)
    OBVIOUS
  <2>2. s \in Seq(NodeIds)
    BY <2>1, EffectiveAreNodes
  <2> QED BY <2>1, <2>2, OwnSeq, ElementOfSeq
<1> QED BY <1>1, ContextBounds DEF Under, UnderGroups, GroupsUnder, NodeIds

\* The walk from m below path comes back, or one of the children's does.
LEMMA WalkComesBack ==
    ASSUME catalog \in Catalogs, NEW m \in NodeIds, NEW path \in SUBSET Groups
    PROVE  ComesBack(Under, m, path) <=>
              \/ m \in path
              \/ /\ m \in Groups
                 /\ \E c \in ToSet(EffectiveChildren(m)) : ComesBack(Under, c, path \cup {m})
<1>0. /\ UnderGroups(Under)
      /\ \A k \in Leaves : Under[k] = {}
      /\ \A k \in Groups : Under[k] = ToSet(EffectiveChildren(k)) \cap Groups
      /\ \A k \in Groups : ToSet(EffectiveChildren(k)) \subseteq NodeIds
  BY UnderIsRight
<1>1. CASE m \in path
  BY <1>1 DEF ComesBack
<1>2. CASE m \notin path /\ m \notin Groups
  <2>1. m \in Leaves
    BY <1>2 DEF NodeIds
  <2> QED BY <1>0, <1>2, <2>1, LeafComesNowhere
<1>3. CASE m \notin path /\ m \in Groups
  <2>1. path \cup {m} \in SUBSET Groups
    BY <1>3
  <2>2. ASSUME NEW c \in ToSet(EffectiveChildren(m)), c \notin Groups
        PROVE  ~ComesBack(Under, c, path \cup {m})
    <3>1. c \in NodeIds /\ c \in Leaves
      BY <1>0, <1>3, <2>2 DEF NodeIds
    <3> QED BY <1>0, <2>1, <2>2, <3>1, LeafComesNowhere
  <2>3. ComesBack(Under, m, path) <=> \E c \in Under[m] : ComesBack(Under, c, path \cup {m})
    BY <1>0, <1>3, ComesBackSteps
  <2>4. (\E c \in Under[m] : ComesBack(Under, c, path \cup {m})) <=>
           \E c \in ToSet(EffectiveChildren(m)) : ComesBack(Under, c, path \cup {m})
    BY <1>0, <1>3, <2>2
  <2> QED BY <1>3, <2>3, <2>4
<1> QED BY <1>1, <1>2, <1>3

LEMMA FindsExists ==
    ASSUME catalog \in Catalogs
    PROVE  \E f : Detects(f)
<1> DEFINE g == [path \in SUBSET Groups |-> [m \in NodeIds |-> ComesBack(Under, m, path)]]
<1>1. ASSUME NEW m \in NodeIds, NEW path \in SUBSET Groups
      PROVE  ComesBack(Under, m, path) = DetectsFrom(g, m, path)
  <2> SUFFICES ComesBack(Under, m, path) <=> DetectsFrom(g, m, path)
    BY DEF ComesBack, DetectsFrom
  <2>1. CASE m \notin Groups
    BY <2>1, WalkComesBack DEF DetectsFrom
  <2>2. CASE m \in Groups
    <3>1. path \cup {m} \in SUBSET Groups
      BY <2>2
    <3>2. ASSUME NEW c \in NodeIds
          PROVE  g[path \cup {m}][c] = ComesBack(Under, c, path \cup {m})
      BY <3>1
    <3> HIDE DEF g
    <3>3. ToSet(EffectiveChildren(m)) \subseteq NodeIds
      BY <2>2, UnderIsRight
    <3>4. (\E c \in ToSet(EffectiveChildren(m)) : ComesBack(Under, c, path \cup {m})) <=>
             \E i \in DOMAIN EffectiveChildren(m) :
                g[path \cup {m}][EffectiveChildren(m)[i]]
      BY <3>2, <3>3 DEF ToSet
    <3> QED BY <2>2, <3>4, WalkComesBack DEF DetectsFrom
  <2> QED BY <2>1, <2>2
<1>2. Detects(g)
  BY <1>1 DEF Detects
<1> QED BY <1>2

\* And only one: the groups that are not on the path get fewer.
LEMMA FindsIsRight ==
    ASSUME catalog \in Catalogs, NEW f, Detects(f), NEW m \in NodeIds,
           NEW path \in SUBSET Groups
    PROVE  f[path][m] <=> ComesBack(Under, m, path)
<1> DEFINE Wrong(p) == \E k \in NodeIds : ~(f[p][k] <=> ComesBack(Under, k, p))
           Bad == {Cardinality(Groups \ p) : p \in {q \in SUBSET Groups : Wrong(q)}}
<1>1. \A p \in SUBSET Groups : IsFiniteSet(Groups \ p) /\ Cardinality(Groups \ p) \in Nat
  BY ContextBounds, FS_Subset, FS_CardinalityType
<1>2. Bad \in SUBSET Nat
  BY <1>1
<1> SUFFICES ASSUME Bad # {} PROVE FALSE
  OBVIOUS
<1>3. PICK n \in Bad : \A j \in Bad : n <= j
  BY <1>2, LeastIndex
<1>4. PICK p \in SUBSET Groups : Wrong(p) /\ n = Cardinality(Groups \ p)
  BY <1>3
<1>5. PICK k \in NodeIds : ~(f[p][k] <=> ComesBack(Under, k, p))
  BY <1>4
<1>6. f[p][k] <=> \/ k \in p
                 \/ /\ k \in Groups
                    /\ \E i \in DOMAIN EffectiveChildren(k) :
                          f[p \cup {k}][EffectiveChildren(k)[i]]
  <2>1. f[p][k] = DetectsFrom(f, k, p)
    BY DEF Detects
  <2> QED BY <2>1 DEF DetectsFrom
<1>7. CASE k \in p \/ k \notin Groups
  BY <1>5, <1>6, <1>7, WalkComesBack
<1>8. CASE k \notin p /\ k \in Groups
  <2>1. p \cup {k} \in SUBSET Groups /\ Groups \ (p \cup {k}) = (Groups \ p) \ {k}
    BY <1>8
  <2>2. Cardinality(Groups \ (p \cup {k})) = n - 1 /\ n \in Nat
    <3>1. PICK rest : rest = Groups \ p
      OBVIOUS
    <3>2. IsFiniteSet(rest) /\ Cardinality(rest) = n /\ n \in Nat /\ k \in rest
      BY <1>1, <1>4, <1>8, <3>1
    <3>3. Cardinality(rest \ {k}) = n - 1
      BY <3>2, FS_RemoveElement
    <3> QED BY <2>1, <3>1, <3>2, <3>3
  <2>3. ~Wrong(p \cup {k})
    <3>1. Cardinality(Groups \ (p \cup {k})) \notin Bad
      BY <1>3, <2>2
    <3> QED BY <2>1, <3>1
  <2>4. \A c \in NodeIds : f[p \cup {k}][c] <=> ComesBack(Under, c, p \cup {k})
    BY <2>3
  <2>5. ToSet(EffectiveChildren(k)) \subseteq NodeIds
    BY <1>8, UnderIsRight
  <2>6. (\E i \in DOMAIN EffectiveChildren(k) : f[p \cup {k}][EffectiveChildren(k)[i]]) <=>
           \E c \in ToSet(EffectiveChildren(k)) : ComesBack(Under, c, p \cup {k})
    BY <2>4, <2>5 DEF ToSet
  <2> QED BY <1>5, <1>6, <1>8, <2>6, WalkComesBack
<1> QED BY <1>7, <1>8

LEMMA FindsCycles ==
    ASSUME catalog \in Catalogs
    PROVE  ValidationFindsCycles
<1> DEFINE finds == CHOOSE f : Detects(f)
<1>1. Detects(finds)
  BY FindsExists
<1>2. \A g \in Groups : FindsCycle(g, {}) <=> finds[{}][g]
  BY DEF FindsCycle, Detects, DetectsFrom
<1> HIDE DEF finds
<1>3. ASSUME NEW g \in Groups
      PROVE  finds[{}][g] <=> \E h \in {g} \cup Below(g) : h \in Below(h)
  <2>1. finds[{}][g] <=> ComesBack(Under, g, {})
    BY <1>1, FindsIsRight DEF NodeIds
  <2> QED BY <2>1 DEF ComesBack, Below, Under
<1> QED BY <1>2, <1>3 DEF ValidationFindsCycles

-----------------------------------------------------------------------------
(* What the walk has behind it.                                             *)

\* Of a frame's group every child that is usable without the groups above is still to
\* be walked or kept.
ChildrenKept(children, f, path) ==
    /\ f.node \in Groups /\ f.left \in Seq(NodeIds)
    /\ ToSet(f.left) \cup ToSet(f.kept) \subseteq children[f.node]
    /\ children[f.node] \cap UsableWith(children, path) \subseteq ToSet(f.left) \cup ToSet(f.kept)
PathTo(frames, n) == {frames[i].node : i \in 1 .. n}
StackKept(children, frames) ==
    /\ \A i \in 1 .. Len(frames) : ChildrenKept(children, frames[i], PathTo(frames, i))
    /\ \A i \in 1 .. Len(frames) - 1 :
          frames[i].left # <<>> /\ frames[i + 1].node = Head(frames[i].left)

\* The stack gets another last frame.
LastIs(t, s, n, f) ==
    /\ n \in Nat \ {0} /\ Len(s) \in Nat /\ n - 1 <= Len(s) /\ Len(t) = n
    /\ \A i \in 1 .. n : t[i] = IF i = n THEN f ELSE s[i]
    /\ n > 1 => s[n - 1].left # <<>> /\ f.node = Head(s[n - 1].left)

LEMMA StackKeeps ==
    ASSUME NEW children, NEW s, NEW t, NEW f, NEW n,
           StackKept(children, s), LastIs(t, s, n, f),
           ChildrenKept(children, f, PathTo(s, n - 1) \cup {f.node})
    PROVE  StackKept(children, t)
<1>0. /\ n \in Nat \ {0} /\ Len(s) \in Nat /\ n - 1 <= Len(s) /\ Len(t) = n
      /\ \A i \in 1 .. n : t[i] = IF i = n THEN f ELSE s[i]
      /\ n > 1 => s[n - 1].left # <<>> /\ f.node = Head(s[n - 1].left)
  BY DEF LastIs
<1>1. /\ \A i \in 1 .. n : i = n \/ i \in 1 .. n - 1
      /\ \A i \in 1 .. n - 1 : i \in 1 .. n /\ i # n /\ i \in 1 .. Len(s)
      /\ n \in 1 .. n
  BY ONLY <1>0
<1>2. t[n] = f /\ \A i \in 1 .. n - 1 : t[i] = s[i]
  BY <1>0, <1>1
<1>3. ASSUME NEW i \in 1 .. n - 1 PROVE PathTo(t, i) = PathTo(s, i)
  <2>1. \A j \in 1 .. i : j \in 1 .. n - 1
    BY <1>0
  <2>2. \A j \in 1 .. i : t[j] = s[j]
    BY <1>2, <2>1
  <2> QED BY <2>2 DEF PathTo
<1>4. PathTo(t, n) = PathTo(s, n - 1) \cup {f.node}
  BY ONLY <1>1, <1>2 DEF PathTo
<1>5. ASSUME NEW i \in 1 .. n PROVE ChildrenKept(children, t[i], PathTo(t, i))
  <2>1. CASE i = n
    BY <1>2, <1>4, <2>1
  <2>2. CASE i # n
    <3>1. i \in 1 .. n - 1 /\ i \in 1 .. Len(s)
      BY <1>1, <2>2
    <3>2. t[i] = s[i] /\ PathTo(t, i) = PathTo(s, i)
      BY <1>2, <1>3, <3>1
    <3>3. ChildrenKept(children, s[i], PathTo(s, i))
      BY <3>1 DEF StackKept
    <3> QED BY <3>2, <3>3
  <2> QED BY <2>1, <2>2
<1>6. ASSUME NEW i \in 1 .. n - 1
      PROVE  t[i].left # <<>> /\ t[i + 1].node = Head(t[i].left)
  <2>1. t[i] = s[i]
    BY <1>2
  <2>2. CASE i = n - 1
    <3>1. i + 1 = n /\ n > 1
      BY <1>0, <2>2
    <3> QED BY <1>0, <1>2, <2>1, <2>2, <3>1
  <2>3. CASE i # n - 1
    <3>1. i + 1 \in 1 .. n - 1 /\ i \in 1 .. Len(s) - 1
      BY <1>0, <2>3
    <3>2. t[i + 1] = s[i + 1]
      BY <1>2, <3>1
    <3>3. s[i].left # <<>> /\ s[i + 1].node = Head(s[i].left)
      BY <3>1 DEF StackKept
    <3> QED BY <2>1, <3>2, <3>3
  <2> QED BY <2>2, <2>3
<1> QED BY <1>0, <1>5, <1>6 DEF StackKept

\* What was registered in an earlier walk is usable, and so is what this one
\* visited, without the group it is for.
RootKept(children) ==
    \A n \in Groups :
        (stack = <<>> /\ epoch > 0 /\ roots[epoch] = n) =>
            IF n \in UsableWith(children, {})
            THEN ToSet(proxies[n].kids) = children[n] \cap UsableWith(children, {n})
            ELSE proxies[n].epoch = 0
BuildInv(children) ==
    /\ epoch = 0 => outcome = "building"
    /\ epoch > 1 \/ (epoch = 1 /\ stack = <<>>) =>
          (outcome = "error" <=> roots[1] \notin UsableWith(children, {}))
KeptWith(children) ==
    /\ \A n \in NodeIds : proxies[n].epoch > 0 => n \in UsableWith(children, {})
    /\ stack # <<>> =>
          /\ StackKept(children, stack)
          /\ stack[1].node = roots[epoch] /\ outcome = "building"
          /\ visited \subseteq UsableWith(children, {roots[epoch]}) \cup {roots[epoch]}
    /\ RootKept(children)
    /\ BuildInv(children)
KeptInv == catalog \in Catalogs /\ KeptWith(ChildSets)

LEMMA KeptIsEnough == WalkInv /\ KeptInv => NoServerIsMissing
<1> SUFFICES ASSUME WalkInv, KeptInv PROVE NoServerIsMissing
  OBVIOUS
<1>0. epoch \in Nat
  BY DEF WalkInv, WalkShape
<1>1. GroupsKeepUsableChildren
  BY DEF KeptInv, KeptWith, RootKept, GroupsKeepUsableChildren, Usable, ChildSets
<1>2. BuildFailsForUnusable
  <2> SUFFICES ASSUME outcome # "building"
               PROVE  outcome = "error" <=> roots[1] \notin UsableWith(ChildSets, {})
    BY DEF BuildFailsForUnusable, Usable
  <2>1. stack = <<>> /\ epoch # 0
    BY DEF KeptInv, KeptWith, BuildInv
  <2>2. epoch > 1 \/ epoch = 1
    BY <1>0, <2>1
  <2> QED BY <2>1, <2>2 DEF KeptInv, KeptWith, BuildInv
<1> QED BY <1>1, <1>2 DEF NoServerIsMissing

LEMMA KeptInit == ContextInit => KeptInv
<1> SUFFICES ASSUME ContextInit PROVE KeptInv
  OBVIOUS
<1>1. /\ epoch = 0 /\ stack = <<>> /\ outcome = "building" /\ catalog \in Catalogs
      /\ \A n \in NodeIds : proxies[n].epoch = 0
  BY DEF ContextInit, Unregistered
<1> QED BY <1>1 DEF KeptInv, KeptWith, RootKept, BuildInv

\* The children are those of the catalog, which no step changes.
LEMMA ChildrenStay ==
    ASSUME catalog' = catalog
    PROVE  ChildSets' = ChildSets
BY DEF ChildSets, GroupChildren

LEMMA ChildrenOf ==
    ASSUME KeptInv, NEW g \in Groups
    PROVE  GroupChildren(g) \in Seq(NodeIds) /\ ToSet(GroupChildren(g)) = ChildSets[g]
BY ChildrenAreNodes DEF KeptInv, ChildSets

\* What the two ways to take a child from a frame leave in it.
LEMMA FrameRest ==
    ASSUME NEW a, FrameShape(a), NEW m
    PROVE  /\ [a EXCEPT !.left = Tail(@), !.error = TRUE].left = Tail(a.left)
           /\ FrameWith(a, m).left = Tail(a.left)
           /\ FrameWith(a, m).kept = Keep(a.kept, m)
<1>1. PICK n, l, k, e, t, h : /\ n = a.node /\ l = a.left /\ k = a.kept /\ e = a.error
                              /\ t = Tail(a.left) /\ h = Keep(a.kept, m)
  OBVIOUS
<1>2. a = [node |-> n, left |-> l, kept |-> k, error |-> e]
  BY <1>1 DEF FrameShape
<1>3. [a EXCEPT !.left = t, !.error = TRUE].left = t
  BY ONLY <1>2
<1>4. [a EXCEPT !.left = t, !.kept = h].left = t /\ [a EXCEPT !.left = t, !.kept = h].kept = h
  BY ONLY <1>2
<1> QED BY <1>1, <1>3, <1>4 DEF FrameWith

\* A child that is not usable without the groups above may be left out.
LEMMA ChildFails ==
    ASSUME NEW children, NEW a, NEW f, NEW path, ChildrenKept(children, a, path),
           a.left # <<>>, f.node = a.node, f.left = Tail(a.left), f.kept = a.kept,
           Head(a.left) \notin UsableWith(children, path)
    PROVE  ChildrenKept(children, f, path)
<1>1. /\ Tail(a.left) \in Seq(NodeIds)
      /\ ToSet(a.left) = {Head(a.left)} \cup ToSet(Tail(a.left))
  BY FirstAndRest DEF ChildrenKept
<1> QED BY <1>1 DEF ChildrenKept

LEMMA ChildStays ==
    ASSUME NEW children, NEW a, NEW f, NEW path, ChildrenKept(children, a, path),
           a.left # <<>>, f.node = a.node, f.left = Tail(a.left),
           a.kept \in Seq(NodeIds), f.kept = Keep(a.kept, Head(a.left))
    PROVE  ChildrenKept(children, f, path)
<1>1. /\ Tail(a.left) \in Seq(NodeIds) /\ Head(a.left) \in NodeIds
      /\ ToSet(a.left) = {Head(a.left)} \cup ToSet(Tail(a.left))
  BY FirstAndRest DEF ChildrenKept
<1>2. ToSet(f.kept) = ToSet(a.kept) \cup {Head(a.left)}
  BY <1>1, KeepAddsIt
<1> QED BY <1>1, <1>2 DEF ChildrenKept

\* The group that is walked.
LEMMA TopIsKept ==
    ASSUME WalkInv, NEW children, KeptWith(children), stack # <<>>
    PROVE  /\ ChildrenKept(children, Top, Ancestors) /\ FrameShape(Top)
           /\ Len(stack) \in Nat \ {0} /\ Ancestors = PathTo(stack, Len(stack))
           /\ roots[epoch] \in Ancestors
           /\ ToSet(Top.kept) \subseteq UsableWith(children, {roots[epoch]})
<1>1. /\ Len(stack) \in Nat \ {0} /\ FrameShape(Top)
      /\ ToSet(Top.kept) \subseteq visited \ Ancestors
      /\ Ancestors = {stack[i].node : i \in 1 .. Len(stack)}
  BY StackOf, EmptySeq DEF StackIsRight
<1>2. Ancestors = PathTo(stack, Len(stack))
  BY <1>1 DEF PathTo
<1>3. StackKept(children, stack) /\ stack[1].node = roots[epoch]
      /\ visited \subseteq UsableWith(children, {roots[epoch]}) \cup {roots[epoch]}
  BY DEF KeptWith
<1>4. ChildrenKept(children, Top, Ancestors)
  <2>1. Len(stack) \in 1 .. Len(stack)
    BY <1>1
  <2> QED BY <1>2, <1>3, <2>1 DEF StackKept, Top
<1>5. roots[epoch] \in Ancestors
  <2>1. 1 \in 1 .. Len(stack)
    BY <1>1
  <2> QED BY <1>1, <1>3, <2>1
<1> QED BY <1>1, <1>2, <1>3, <1>4, <1>5

\* Its frame changes.
LEMMA TopKeeps ==
    ASSUME WalkInv, NEW children, KeptWith(children), stack # <<>>,
           NEW f, f.node = Top.node, ReplaceTop(f), ChildrenKept(children, f, Ancestors)
    PROVE  StackKept(children, stack') /\ stack' # <<>> /\ stack'[1].node = stack[1].node
<1>1. PICK s, t, n : s = stack /\ t = stack' /\ n = Len(stack)
  OBVIOUS
<1>2. /\ s \in Seq(ToSet(s)) /\ s # <<>> /\ t = [s EXCEPT ![Len(s)] = f]
      /\ StackKept(children, s)
  BY <1>1, StackOf DEF ReplaceTop, StackIsRight, KeptWith
<1>3. /\ t \in Seq(ToSet(t)) /\ Len(t) = n /\ n \in Nat \ {0}
      /\ \A i \in 1 .. n : t[i] = IF i = n THEN f ELSE s[i]
  <2>1. t \in Seq(ToSet(t)) /\ Len(t) = Len(s) /\ Len(s) \in Nat \ {0}
    BY <1>2, Replaced, Zenon
  <2>2. \A i \in 1 .. Len(s) : t[i] = IF i = Len(s) THEN f ELSE s[i]
    BY <1>2, Replaced
  <2> QED BY <1>1, <2>1, <2>2
<1>4. PathTo(s, n - 1) \cup {f.node} = Ancestors
  <2>1. Ancestors = PathTo(s, n) /\ f.node = s[n].node
    BY <1>1, TopIsKept DEF Top
  <2>2. \A i \in 1 .. n : i = n \/ i \in 1 .. n - 1
    BY <1>3
  <2>3. n \in 1 .. n /\ \A i \in 1 .. n - 1 : i \in 1 .. n
    BY <1>3
  <2> QED BY ONLY <2>1, <2>2, <2>3 DEF PathTo
<1>5. n > 1 => s[n - 1].left # <<>> /\ f.node = Head(s[n - 1].left)
  <2> SUFFICES ASSUME n > 1 PROVE s[n - 1].left # <<>> /\ f.node = Head(s[n - 1].left)
    OBVIOUS
  <2>1. n - 1 \in 1 .. n - 1 /\ n - 1 + 1 = n
    BY <1>3
  <2>2. f.node = s[n].node
    BY <1>1 DEF Top
  <2> QED BY <1>1, <1>2, <2>1, <2>2 DEF StackKept
<1>6. StackKept(children, t)
  <2>1. LastIs(t, s, n, f)
    BY <1>1, <1>3, <1>5 DEF LastIs
  <2>2. ChildrenKept(children, f, PathTo(s, n - 1) \cup {f.node})
    BY <1>4
  <2> QED BY <1>2, <2>1, <2>2, StackKeeps
<1>7. t # <<>> /\ t[1].node = s[1].node
  <2>1. 1 \in 1 .. n /\ f.node = s[n].node
    BY <1>1, <1>3 DEF Top
  <2> QED BY <1>3, <2>1, EmptySeq
<1> QED BY <1>1, <1>6, <1>7

\* A step of the walk that goes on.
LEMMA WalkKeeps ==
    ASSUME WalkInv, NEW children, KeptWith(children), stack # <<>>, stack' # <<>>,
           UNCHANGED <<roots, epoch, outcome>>, StackKept(children, stack'),
           stack'[1].node = stack[1].node,
           visited' \subseteq visited \cup UsableWith(children, {roots[epoch]}),
           \A n \in NodeIds : proxies'[n].epoch > 0 =>
              proxies[n].epoch > 0 \/ n \in UsableWith(children, {roots[epoch]})
    PROVE  KeptWith(children)'
<1>1. UsableWith(children, {roots[epoch]}) \subseteq UsableWith(children, {})
  BY UsableWithMore
<1>2. \A n \in NodeIds : proxies'[n].epoch > 0 => n \in UsableWith(children, {})
  BY <1>1 DEF KeptWith
<1>3. RootKept(children)'
  BY DEF RootKept
<1>4. BuildInv(children)'
  BY DEF BuildInv, KeptWith
<1>5. /\ stack'[1].node = roots'[epoch'] /\ outcome' = "building"
      /\ visited' \subseteq UsableWith(children, {roots'[epoch']}) \cup {roots'[epoch']}
  BY DEF KeptWith
<1> QED BY <1>2, <1>3, <1>4, <1>5 DEF KeptWith

\* What a registration decides about the build.
LEMMA FinishedKeeps ==
    ASSUME epoch \in Nat, epoch' \in Nat \ {0}, NEW children, NEW ok \in BOOLEAN,
           BuildInv(children), outcome = "building", roots' = roots, Finished(ok),
           stack' = <<>>, epoch' > 1 => epoch > 1 \/ (epoch = 1 /\ stack = <<>>),
           ok <=> roots[epoch'] \in UsableWith(children, {})
    PROVE  BuildInv(children)'
<1>1. outcome' = "error" <=> ~ok /\ epoch' = 1
  BY DEF Finished
<1>2. epoch' = 1 \/ epoch' > 1
  OBVIOUS
<1>3. CASE epoch' = 1
  BY <1>1, <1>3 DEF BuildInv
<1>4. CASE epoch' > 1
  <2>1. roots[1] \in UsableWith(children, {})
    BY <1>4 DEF BuildInv
  <2>2. outcome' # "error" /\ epoch' # 0
    BY <1>1, <1>4
  <2> QED BY <1>4, <2>1, <2>2 DEF BuildInv
<1> QED BY <1>2, <1>3, <1>4

LEMMA RootLeafKeeps ==
    ASSUME WalkInv, NEW children, KeptWith(children), RegisterRootLeaf
    PROVE  KeptWith(children)'
<1>0. PICK n : n = roots[epoch + 1]
  OBVIOUS
<1>1. /\ epoch \in Nat
      /\ proxies \in [NodeIds -> [epoch : Nat, at : Nat, kids : Seq(NodeIds)]]
  BY DEF WalkInv, WalkShape
<1>2. /\ outcome = "building" /\ stack = <<>> /\ n \in Leaves /\ epoch' = epoch + 1
      /\ roots' = roots /\ stack' = <<>> /\ Finished(ValidNode(Leaf[n]))
      /\ IF ValidNode(Leaf[n]) THEN Insert(n, <<>>) ELSE proxies' = proxies
  BY <1>0 DEF RegisterRootLeaf, RegisterLeaf
<1>3. ValidNode(Leaf[n]) <=> n \in UsableWith(children, {})
  BY <1>2, UsableIsApart
<1>4. \A m \in NodeIds : proxies'[m].epoch > 0 =>
         proxies[m].epoch > 0 \/ (m = n /\ ValidNode(Leaf[n]))
  BY <1>1, <1>2 DEF Insert
<1>5. \A m \in NodeIds : proxies'[m].epoch > 0 => m \in UsableWith(children, {})
  BY <1>3, <1>4 DEF KeptWith
<1>6. RootKept(children)'
  <2>1. roots'[epoch'] = n /\ n \notin Groups
    BY <1>0, <1>2, ContextBounds
  <2> QED BY <2>1 DEF RootKept
<1>7. BuildInv(children)'
  <2>1. PICK ok \in BOOLEAN : ok <=> ValidNode(Leaf[n])
    OBVIOUS
  <2>2. Finished(ok)
    BY <1>2, <2>1 DEF Finished
  <2>3. epoch' \in Nat \ {0} /\ (epoch' > 1 => epoch > 1 \/ (epoch = 1 /\ stack = <<>>))
    BY <1>1, <1>2
  <2>4. ok <=> roots[epoch'] \in UsableWith(children, {})
    BY <1>0, <1>2, <1>3, <2>1
  <2>5. BuildInv(children)
    BY DEF KeptWith
  <2> QED BY <1>1, <1>2, <2>2, <2>3, <2>4, <2>5, FinishedKeeps
<1> QED BY <1>2, <1>5, <1>6, <1>7 DEF KeptWith

\* A group that is entered has all its children still to be walked.
LEMMA NewIsKept ==
    ASSUME KeptInv, NEW children, children = ChildSets, NEW g \in Groups, NEW path
    PROVE  ChildrenKept(children, Frame(g), path) /\ Frame(g).node = g
<1>1. PICK f, l : f = Frame(g) /\ l = GroupChildren(g)
  OBVIOUS
<1>2. f = [node |-> g, left |-> l, kept |-> <<>>, error |-> FALSE]
  BY <1>1 DEF Frame
<1>3. f.node = g /\ f.left = l /\ f.kept = <<>>
  BY ONLY <1>2
<1>4. l \in Seq(NodeIds) /\ ToSet(l) = children[g]
  BY <1>1, ChildrenOf
<1>5. ToSet(<<>>) = {}
  BY EmptySeq DEF ToSet
<1> QED BY <1>1, <1>3, <1>4, <1>5 DEF ChildrenKept

LEMMA BeginKeeps ==
    ASSUME WalkInv, KeptInv, NEW children, children = ChildSets, BeginGroup
    PROVE  KeptWith(children)'
<1>0. PICK n, f : n = roots[epoch + 1] /\ f = Frame(n)
  OBVIOUS
<1>1. epoch \in Nat /\ KeptWith(children)
  BY DEF WalkInv, WalkShape, KeptInv
<1>2. /\ outcome = "building" /\ stack = <<>> /\ n \in Groups /\ epoch' = epoch + 1
      /\ stack' = <<f>> /\ visited' = {n} /\ UNCHANGED <<roots, proxies, outcome>>
  BY <1>0 DEF BeginGroup
<1>3. \A path : ChildrenKept(children, f, path) /\ f.node = n
  BY <1>0, <1>2, NewIsKept
<1>4. Len(stack') = 1 /\ stack'[1] = f /\ stack' # <<>>
  BY ONLY <1>2
<1>5. StackKept(children, stack')
  <2>1. \A i \in 1 .. Len(stack') : i = 1
    BY <1>4
  <2>2. 1 .. Len(stack') - 1 = {}
    BY <1>4
  <2> QED BY <1>3, <1>4, <2>1, <2>2 DEF StackKept
<1>6. BuildInv(children)'
  <2>1. epoch' # 0 /\ (epoch' > 1 => epoch = 1 \/ epoch > 1)
    BY <1>1, <1>2
  <2>2. epoch' > 1 => roots[1] \in UsableWith(children, {})
    BY <1>1, <1>2, <2>1 DEF KeptWith, BuildInv
  <2> QED BY <1>2, <1>4, <2>1, <2>2 DEF BuildInv
<1>7. RootKept(children)'
  BY <1>4 DEF RootKept
<1>8. /\ stack'[1].node = roots'[epoch'] /\ outcome' = "building"
      /\ visited' \subseteq UsableWith(children, {roots'[epoch']}) \cup {roots'[epoch']}
  BY <1>0, <1>2, <1>3, <1>4
<1>9. \A m \in NodeIds : proxies'[m].epoch > 0 => m \in UsableWith(children, {})
  BY <1>1, <1>2 DEF KeptWith
<1> QED BY <1>5, <1>6, <1>7, <1>8, <1>9 DEF KeptWith

LEMMA EnterKeeps ==
    ASSUME WalkInv, KeptInv, NEW children, children = ChildSets, EnterGroup
    PROVE  KeptWith(children)'
<1>0. PICK g, f, s, t : g = Child /\ f = Frame(g) /\ s = stack /\ t = stack'
  OBVIOUS
<1>1. KeptWith(children)
  BY DEF KeptInv
<1>2. /\ stack # <<>> /\ Top.left # <<>> /\ g \in Groups /\ t = Append(s, f)
      /\ UNCHANGED <<roots, epoch, visited, proxies, outcome>>
  BY <1>0 DEF EnterGroup, Walking
<1>3. PICK n : n = Len(s) + 1
  OBVIOUS
<1>4. s \in Seq(ToSet(s))
  BY <1>0, StackOf DEF StackIsRight
<1>5. /\ Len(s) \in Nat \ {0} /\ Len(t) = Len(s) + 1
      /\ \A i \in 1 .. Len(t) : t[i] = IF i = Len(t) THEN f ELSE s[i]
  BY <1>0, <1>2, <1>4, Pushed, EmptySeq
<1>6. /\ n - 1 = Len(s) /\ n - 1 <= Len(s) /\ n \in Nat \ {0} /\ Len(t) = n
      /\ 1 \in 1 .. n /\ n # 1
  BY <1>3, <1>5
<1>7. \A path : ChildrenKept(children, f, path) /\ f.node = g
  BY <1>0, <1>2, NewIsKept
<1>8. LastIs(t, s, n, f)
  <2>1. s[n - 1] = Top
    BY <1>0, <1>6 DEF Top
  <2>2. s[n - 1].left # <<>> /\ f.node = Head(s[n - 1].left)
    BY <1>0, <1>2, <1>7, <2>1 DEF Child
  <2> QED BY <1>5, <1>6, <2>2 DEF LastIs
<1>9. StackKept(children, t)
  <2>1. StackKept(children, s)
    BY <1>0, <1>1, <1>2 DEF KeptWith
  <2> QED BY <1>7, <1>8, <2>1, StackKeeps
<1>10. t # <<>> /\ t[1].node = s[1].node
  <2>1. Len(t) # 0 /\ t[1] = s[1]
    BY <1>5, <1>6
  <2> QED BY <2>1, EmptySeq
<1> QED BY <1>0, <1>1, <1>2, <1>9, <1>10, WalkKeeps

\* A child of the group that is walked.
LEMMA ChildOf ==
    ASSUME WalkInv, NEW children, KeptWith(children), Walking
    PROVE  /\ Child \in NodeIds /\ Child \in children[Top.node] /\ Child = Head(Top.left)
           /\ stack # <<>> /\ Top.left # <<>> /\ Top.kept \in Seq(NodeIds) /\ FrameShape(Top)
           /\ ChildrenKept(children, Top, Ancestors) /\ roots[epoch] \in Ancestors
<1>1. stack # <<>> /\ Top.left # <<>>
  BY DEF Walking
<1>2. /\ ChildrenKept(children, Top, Ancestors) /\ FrameShape(Top) /\ roots[epoch] \in Ancestors
  BY <1>1, TopIsKept
<1>3. Child \in NodeIds /\ Child \in ToSet(Top.left)
  BY <1>1, <1>2, FirstAndRest DEF ChildrenKept, Child
<1> QED BY <1>1, <1>2, <1>3 DEF ChildrenKept, Child, FrameShape

\* The frame of the group that is walked loses a child that is not usable.
LEMMA FailKeeps ==
    ASSUME WalkInv, NEW children, KeptWith(children), Walking,
           Child \notin UsableWith(children, Ancestors),
           ReplaceTop([Top EXCEPT !.left = Tail(@), !.error = TRUE]),
           UNCHANGED <<roots, epoch, visited, proxies, outcome>>
    PROVE  KeptWith(children)'
<1>1. /\ stack # <<>> /\ Top.left # <<>> /\ FrameShape(Top) /\ Child = Head(Top.left)
      /\ ChildrenKept(children, Top, Ancestors)
  BY ChildOf
<1>2. PICK a, f : a = Top /\ f = [a EXCEPT !.left = Tail(@), !.error = TRUE]
  OBVIOUS
<1>3. f.node = a.node /\ f.kept = a.kept
  BY <1>1, <1>2, FrameFails
<1>4. f.left = Tail(a.left)
  BY <1>1, <1>2, FrameRest
<1>5. ChildrenKept(children, f, Ancestors)
  BY <1>1, <1>2, <1>3, <1>4, ChildFails
<1>6. StackKept(children, stack') /\ stack' # <<>> /\ stack'[1].node = stack[1].node
  BY <1>1, <1>2, <1>3, <1>5, TopKeeps
<1> QED BY <1>1, <1>6, WalkKeeps

\* Or it keeps it.
LEMMA StayKeeps ==
    ASSUME WalkInv, NEW children, KeptWith(children), Walking,
           ReplaceTop([Top EXCEPT !.left = Tail(@), !.kept = Keep(@, Child)]),
           UNCHANGED <<roots, epoch, outcome>>,
           visited' \subseteq visited \cup UsableWith(children, {roots[epoch]}),
           \A n \in NodeIds : proxies'[n].epoch > 0 =>
              proxies[n].epoch > 0 \/ n \in UsableWith(children, {roots[epoch]})
    PROVE  KeptWith(children)'
<1>1. /\ stack # <<>> /\ Top.left # <<>> /\ FrameShape(Top) /\ Child = Head(Top.left)
      /\ ChildrenKept(children, Top, Ancestors) /\ Top.kept \in Seq(NodeIds) /\ Child \in NodeIds
  BY ChildOf
<1>2. PICK a, c, f : a = Top /\ c = Child /\ f = FrameWith(a, c)
  OBVIOUS
<1>3. f.node = a.node
  BY <1>1, <1>2, FrameKeeps
<1>4. f.left = Tail(a.left) /\ f.kept = Keep(a.kept, c)
  BY <1>1, <1>2, FrameRest
<1>5. ChildrenKept(children, f, Ancestors)
  BY <1>1, <1>2, <1>3, <1>4, ChildStays
<1>6. ReplaceTop(f)
  BY <1>2 DEF FrameWith
<1>7. StackKept(children, stack') /\ stack' # <<>> /\ stack'[1].node = stack[1].node
  BY <1>1, <1>2, <1>3, <1>5, <1>6, TopKeeps
<1> QED BY <1>1, <1>7, WalkKeeps

LEMMA CutKeeps ==
    ASSUME WalkInv, NEW children, KeptWith(children), CutCycle
    PROVE  KeptWith(children)'
<1>1. /\ Walking /\ Child \in Ancestors
      /\ ReplaceTop([Top EXCEPT !.left = Tail(@), !.error = TRUE])
      /\ UNCHANGED <<roots, epoch, visited, proxies, outcome>>
  BY DEF CutCycle
<1>2. Child \notin UsableWith(children, Ancestors)
  BY <1>1, UsableIsApart
<1> QED BY <1>1, <1>2, FailKeeps

LEMMA VisitedKeeps ==
    ASSUME WalkInv, NEW children, KeptWith(children), KeepVisited
    PROVE  KeptWith(children)'
<1>1. /\ Walking
      /\ ReplaceTop([Top EXCEPT !.left = Tail(@), !.kept = Keep(@, Child)])
      /\ UNCHANGED <<roots, epoch, visited, proxies, outcome>>
  BY DEF KeepVisited
<1> QED BY <1>1, StayKeeps

LEMMA LeafKeeps ==
    ASSUME WalkInv, NEW children, KeptWith(children), WalkLeaf
    PROVE  KeptWith(children)'
<1>0. PICK c : c = Child
  OBVIOUS
<1>1. /\ Walking /\ c \in Leaves /\ c \notin Ancestors
      /\ UNCHANGED <<roots, epoch, outcome>>
  BY <1>0 DEF WalkLeaf
<1>2. roots[epoch] \in Ancestors /\ c # roots[epoch]
  BY <1>1, ChildOf
<1>3. CASE ValidNode(Leaf[c])
  <2>1. /\ Insert(c, <<>>) /\ visited' = visited \cup {c}
        /\ ReplaceTop([Top EXCEPT !.left = Tail(@), !.kept = Keep(@, Child)])
    BY <1>0, <1>3 DEF WalkLeaf, RegisterLeaf
  <2>2. c \in UsableWith(children, {roots[epoch]})
    BY <1>1, <1>2, <1>3, UsableIsApart
  <2>3. proxies \in [NodeIds -> [epoch : Nat, at : Nat, kids : Seq(NodeIds)]]
    BY DEF WalkInv, WalkShape
  <2>4. \A n \in NodeIds : proxies'[n].epoch > 0 => proxies[n].epoch > 0 \/ n = c
    BY <2>1, <2>3 DEF Insert
  <2>5. \A n \in NodeIds : proxies'[n].epoch > 0 =>
           proxies[n].epoch > 0 \/ n \in UsableWith(children, {roots[epoch]})
    BY <2>2, <2>4
  <2>6. visited' \subseteq visited \cup UsableWith(children, {roots[epoch]})
    BY <2>1, <2>2
  <2> QED BY <1>1, <2>1, <2>5, <2>6, StayKeeps
<1>4. CASE ~ValidNode(Leaf[c])
  <2>1. /\ ReplaceTop([Top EXCEPT !.left = Tail(@), !.error = TRUE])
        /\ UNCHANGED <<visited, proxies>>
    BY <1>0, <1>4 DEF WalkLeaf
  <2>2. Child \notin UsableWith(children, Ancestors)
    BY <1>0, <1>1, <1>4, UsableIsApart
  <2> QED BY <1>1, <2>1, <2>2, FailKeeps
<1> QED BY <1>3, <1>4

LEMMA PathGrows ==
    ASSUME NEW s, NEW n \in Nat \ {0}
    PROVE  PathTo(s, n) = PathTo(s, n - 1) \cup {s[n].node}
<1>1. /\ \A i \in 1 .. n : i = n \/ i \in 1 .. n - 1
      /\ \A i \in 1 .. n - 1 : i \in 1 .. n
      /\ n \in 1 .. n
  OBVIOUS
<1> QED BY ONLY <1>1 DEF PathTo

\* A group whose children were all walked.
LEMMA LeftGroup ==
    ASSUME WalkInv, NEW children, KeptWith(children), stack # <<>>, Top.left = <<>>,
           NEW n, n = Top.node
    PROVE  /\ n \in Groups /\ ToSet(Top.kept) \subseteq children[n]
           /\ children[n] \cap UsableWith(children, Ancestors) \subseteq ToSet(Top.kept)
           /\ Ancestors = PathTo(stack, Len(stack) - 1) \cup {n}
           /\ Top.kept = <<>> => n \notin UsableWith(children, PathTo(stack, Len(stack) - 1))
           /\ Top.kept # <<>> => ToSet(Top.kept) # {}
<1>1. /\ ChildrenKept(children, Top, Ancestors) /\ FrameShape(Top)
      /\ Len(stack) \in Nat \ {0} /\ Ancestors = PathTo(stack, Len(stack))
  BY TopIsKept
<1>2. ToSet(<<>>) = {}
  BY EmptySeq DEF ToSet
<1>3. /\ n \in Groups /\ ToSet(Top.kept) \subseteq children[n]
      /\ children[n] \cap UsableWith(children, Ancestors) \subseteq ToSet(Top.kept)
  BY <1>1, <1>2 DEF ChildrenKept
<1>4. Ancestors = PathTo(stack, Len(stack) - 1) \cup {n}
  BY <1>1, PathGrows DEF Top
<1>5. ASSUME Top.kept = <<>>
      PROVE  n \notin UsableWith(children, PathTo(stack, Len(stack) - 1))
  BY <1>2, <1>3, <1>4, <1>5, UsableNeedsAChild
<1>6. ASSUME Top.kept # <<>> PROVE ToSet(Top.kept) # {}
  BY <1>1, <1>6, FirstAndRest DEF FrameShape
<1> QED BY <1>3, <1>4, <1>5, <1>6

\* The group the registration is for.
LEMMA RootLeftKeeps ==
    ASSUME WalkInv, NEW children, KeptWith(children), LeaveGroup, Len(stack) = 1
    PROVE  KeptWith(children)'
<1>a. PICK n, kept : n = Top.node /\ kept = Top.kept
  OBVIOUS
<1>b. PICK ok \in BOOLEAN : ok <=> kept # <<>>
  OBVIOUS
<1>0. n = Top.node /\ kept = Top.kept /\ (ok <=> Top.kept # <<>>)
  BY <1>a, <1>b
<1>1. /\ stack # <<>> /\ Top.left = <<>> /\ UNCHANGED <<roots, epoch>> /\ stack' = <<>>
      /\ IF ok THEN Insert(n, kept) ELSE proxies' = proxies
      /\ Finished(ok)
  BY <1>0 DEF LeaveGroup, Finished
<1>2. /\ n \in Groups /\ ToSet(kept) \subseteq children[n]
      /\ children[n] \cap UsableWith(children, Ancestors) \subseteq ToSet(kept)
      /\ Ancestors = PathTo(stack, 0) \cup {n}
      /\ ~ok => n \notin UsableWith(children, PathTo(stack, 0))
      /\ ok => ToSet(kept) # {}
  BY <1>0, <1>1, LeftGroup
<1>3. PathTo(stack, 0) = {}
  BY DEF PathTo
<1>4. n = roots[epoch] /\ outcome = "building" /\ BuildInv(children)
  BY <1>0, <1>1 DEF KeptWith, Top
<1>5. ToSet(kept) \subseteq UsableWith(children, {n})
  BY <1>0, <1>1, <1>4, TopIsKept
<1>6. ok => n \in UsableWith(children, {})
  <2> SUFFICES ASSUME ok PROVE n \in UsableWith(children, {})
    OBVIOUS
  <2>1. UsableWith(children, {n}) \subseteq UsableWith(children, {})
    BY UsableWithMore
  <2>2. children[n] \cap UsableWith(children, {}) # {}
    BY <1>2, <1>5, <2>1
  <2>3. n \in Groups \ {}
    BY <1>2
  <2> QED BY <2>2, <2>3, UsableGoesUp
<1>7. ok <=> n \in UsableWith(children, {})
  BY <1>2, <1>3, <1>6
<1>8. /\ proxies \in [NodeIds -> [epoch : Nat, at : Nat, kids : Seq(NodeIds)]]
      /\ epoch \in Nat /\ epoch > 0 /\ n \in NodeIds
  BY <1>1, <1>2 DEF WalkInv, WalkShape, FramesInv, NodeIds
<1>9. /\ \A m \in NodeIds : proxies'[m].epoch > 0 => proxies[m].epoch > 0 \/ (ok /\ m = n)
      /\ ok => proxies'[n].kids = kept
      /\ ~ok => proxies'[n].epoch = proxies[n].epoch
  BY <1>1, <1>8 DEF Insert
<1>10. \A m \in NodeIds : proxies'[m].epoch > 0 => m \in UsableWith(children, {})
  BY <1>7, <1>9 DEF KeptWith
<1>11. RootKept(children)'
  <2>1. CASE ok
    <3>1. ToSet(kept) = children[n] \cap UsableWith(children, {n})
      BY <1>2, <1>3, <1>5
    <3> QED BY <1>1, <1>4, <1>7, <1>9, <2>1, <3>1 DEF RootKept
  <2>2. CASE ~ok
    <3>1. ~(proxies[n].epoch > 0)
      BY <1>7, <1>8, <2>2 DEF KeptWith
    <3>2. proxies'[n].epoch = 0
      BY <1>8, <1>9, <2>2, <3>1
    <3> QED BY <1>1, <1>4, <1>7, <2>2, <3>2 DEF RootKept
  <2> QED BY <2>1, <2>2
<1>12. BuildInv(children)'
  <2>1. epoch' \in Nat \ {0} /\ (epoch' > 1 => epoch > 1 \/ (epoch = 1 /\ stack = <<>>))
    BY <1>1, <1>8
  <2>2. ok <=> roots[epoch'] \in UsableWith(children, {})
    BY <1>1, <1>4, <1>7
  <2> QED BY <1>1, <1>4, <1>8, <2>1, <2>2, FinishedKeeps
<1> QED BY <1>1, <1>10, <1>11, <1>12 DEF KeptWith

\* The stack without its last frame but one child of the one before.
PopsTo(t, s, n, f) ==
    /\ s \in Seq(ToSet(s)) /\ s # <<>> /\ n = Len(s) /\ n # 1
    /\ t = Append(SubSeq(s, 1, n - 2), f) /\ f.node = s[n - 1].node

LEMMA PopKeeps ==
    ASSUME NEW children, NEW s, NEW t, NEW n, NEW f, StackKept(children, s),
           PopsTo(t, s, n, f), ChildrenKept(children, f, PathTo(s, n - 1))
    PROVE  StackKept(children, t) /\ t # <<>> /\ t[1].node = s[1].node
<1>0. /\ s \in Seq(ToSet(s)) /\ s # <<>> /\ n = Len(s) /\ n # 1
      /\ f.node = s[n - 1].node
  BY DEF PopsTo
<1>u. PICK u : u = SubSeq(s, 1, n - 2) /\ t = Append(u, f)
  BY DEF PopsTo
<1>1. /\ n \in Nat /\ n >= 2 /\ Len(t) = n - 1
      /\ \A i \in 1 .. Len(t) : t[i] = IF i = Len(t) THEN f ELSE s[i]
  BY <1>0, <1>u, Popped
<1>2. PICK m : m = n - 1
  OBVIOUS
<1>3. /\ m \in Nat \ {0} /\ Len(s) \in Nat /\ m - 1 <= Len(s) /\ Len(t) = m
      /\ 1 \in 1 .. m
  BY <1>0, <1>1, <1>2
<1>4. m > 1 => s[m - 1].left # <<>> /\ f.node = Head(s[m - 1].left)
  <2> SUFFICES ASSUME m > 1 PROVE s[m - 1].left # <<>> /\ f.node = Head(s[m - 1].left)
    OBVIOUS
  <2>1. m - 1 \in 1 .. Len(s) - 1 /\ m - 1 + 1 = m
    BY <1>0, <1>1, <1>2
  <2> QED BY <1>0, <1>2, <2>1 DEF StackKept
<1>5. LastIs(t, s, m, f)
  BY <1>1, <1>3, <1>4 DEF LastIs
<1>6. ChildrenKept(children, f, PathTo(s, m - 1) \cup {f.node})
  <2>1. PathTo(s, m) = PathTo(s, m - 1) \cup {f.node}
    BY <1>0, <1>2, <1>3, PathGrows
  <2> QED BY <1>2, <2>1
<1>7. t # <<>> /\ t[1].node = s[1].node
  <2>1. Len(t) # 0 /\ t[1] = IF m = 1 THEN f ELSE s[1]
    BY <1>1, <1>3
  <2>2. m = 1 => f.node = s[1].node
    BY <1>0, <1>2
  <2> QED BY <2>1, <2>2, EmptySeq
<1> QED BY <1>5, <1>6, <1>7, StackKeeps

LEMMA GroupLeftKeeps ==
    ASSUME WalkInv, NEW children, KeptWith(children), LeaveGroup, Len(stack) # 1
    PROVE  KeptWith(children)'
<1>0. PICK n, k, s, parent : n = Top.node /\ k = Len(stack) /\ s = stack /\ parent = s[k - 1]
  OBVIOUS
<1>a. PICK left, failed : /\ left = FrameWith(parent, n)
                          /\ failed = [parent EXCEPT !.left = Tail(@), !.error = TRUE]
  OBVIOUS
<1>b. PICK ok \in BOOLEAN : ok <=> Top.kept # <<>>
  OBVIOUS
<1>1. /\ ok <=> Top.kept # <<>>
      /\ left = FrameWith(parent, n)
      /\ failed = [parent EXCEPT !.left = Tail(@), !.error = TRUE]
  BY <1>a, <1>b
<1>2. PICK u, f : u = SubSeq(s, 1, k - 2) /\ f = IF ok THEN left ELSE failed
  OBVIOUS
<1>3. /\ stack # <<>> /\ Top.left = <<>> /\ UNCHANGED <<roots, epoch, outcome>>
      /\ IF ok THEN Insert(n, Top.kept) ELSE proxies' = proxies
      /\ stack' = Append(u, f)
      /\ visited' = IF ok THEN visited \cup {n} ELSE visited
  BY <1>0, <1>1, <1>2 DEF LeaveGroup, FrameWith
<1>4. /\ n \in Groups /\ ToSet(Top.kept) \subseteq children[n]
      /\ ~ok => n \notin UsableWith(children, PathTo(s, k - 1))
      /\ ok => ToSet(Top.kept) # {}
  BY <1>0, <1>1, <1>3, LeftGroup
<1>5. k \in Nat \ {0} /\ ToSet(Top.kept) \subseteq UsableWith(children, {roots[epoch]})
  BY <1>0, <1>3, TopIsKept
<1>6. StackKept(children, s) /\ s[1].node = roots[epoch]
  BY <1>0, <1>3 DEF KeptWith
<1>7. k - 1 \in 1 .. k /\ k - 1 \in 1 .. k - 1 /\ k - 1 + 1 = k /\ 1 \in 1 .. k /\ k \in 1 .. k
  BY <1>0, <1>5
<1>8. /\ parent.left # <<>> /\ n = Head(parent.left)
      /\ ChildrenKept(children, parent, PathTo(s, k - 1)) /\ FrameShape(parent)
  BY <1>0, <1>6, <1>7, StackOf DEF StackKept, StackIsRight, Top
<1>9. f.node = parent.node /\ ChildrenKept(children, f, PathTo(s, k - 1))
  <2>1. CASE ok
    <3>1. n \in NodeIds /\ parent.kept \in Seq(NodeIds)
      BY <1>4, <1>8 DEF NodeIds, FrameShape
    <3>2. left.node = parent.node
      BY <1>1, <1>8, <3>1, FrameKeeps
    <3>3. left.left = Tail(parent.left) /\ left.kept = Keep(parent.kept, n)
      BY <1>1, <1>8, FrameRest
    <3> QED BY <1>2, <1>8, <2>1, <3>1, <3>2, <3>3, ChildStays
  <2>2. CASE ~ok
    <3>1. failed.node = parent.node /\ failed.kept = parent.kept
      BY <1>1, <1>8, FrameFails
    <3>2. failed.left = Tail(parent.left)
      BY <1>1, <1>8, FrameRest
    <3> QED BY <1>2, <1>4, <1>8, <2>2, <3>1, <3>2, ChildFails
  <2> QED BY <2>1, <2>2
<1>10. /\ StackKept(children, stack') /\ stack' # <<>> /\ stack'[1].node = stack[1].node
  <2>1. s \in Seq(ToSet(s)) /\ s # <<>>
    BY <1>0, <1>3, StackOf DEF StackIsRight
  <2>2. PICK t : t = stack'
    OBVIOUS
  <2>3. StackKept(children, t) /\ t # <<>> /\ t[1].node = s[1].node
    <3>1. PopsTo(t, s, k, f)
      BY <1>0, <1>2, <1>3, <1>9, <2>1, <2>2 DEF PopsTo
    <3> QED BY <1>6, <1>9, <3>1, PopKeeps
  <2> QED BY <1>0, <2>2, <2>3
<1>11. ok => n \in UsableWith(children, {roots[epoch]})
  <2>1. n # roots[epoch]
    <3>1. s[1].node # s[k].node
      BY <1>0, <1>7, StackOf DEF StackIsRight
    <3> QED BY <1>0, <1>6, <3>1 DEF Top
  <2>2. ok => children[n] \cap UsableWith(children, {roots[epoch]}) # {}
    BY <1>4, <1>5
  <2>3. n \in Groups \ {roots[epoch]}
    BY <1>4, <2>1
  <2> QED BY <2>2, <2>3, UsableGoesUp
<1>12. visited' \subseteq visited \cup UsableWith(children, {roots[epoch]})
  BY <1>3, <1>11
<1>13. \A m \in NodeIds : proxies'[m].epoch > 0 =>
          proxies[m].epoch > 0 \/ m \in UsableWith(children, {roots[epoch]})
  <2>1. proxies \in [NodeIds -> [epoch : Nat, at : Nat, kids : Seq(NodeIds)]]
    BY DEF WalkInv, WalkShape
  <2>2. \A m \in NodeIds : proxies'[m].epoch > 0 => proxies[m].epoch > 0 \/ (ok /\ m = n)
    BY <1>3, <2>1 DEF Insert
  <2> QED BY <1>11, <2>2
<1> QED BY <1>3, <1>10, <1>12, <1>13, WalkKeeps

LEMMA KeptStep == WalkInv /\ KeptInv /\ [ContextNext]_contextVars => KeptInv'
<1> SUFFICES ASSUME WalkInv, KeptInv, [ContextNext]_contextVars PROVE KeptInv'
  OBVIOUS
<1>1. PICK children : children = ChildSets
  OBVIOUS
<1>2. KeptWith(children)
  BY <1>1 DEF KeptInv
<1>3. catalog' = catalog
  BY DEF ContextNext, RegisterRootLeaf, BeginGroup, CutCycle, KeepVisited, WalkLeaf,
         EnterGroup, LeaveGroup, contextVars
<1>4. ASSUME RegisterRootLeaf PROVE KeptWith(children)'
  BY <1>2, <1>4, RootLeafKeeps
<1>5. ASSUME BeginGroup PROVE KeptWith(children)'
  BY <1>1, <1>5, BeginKeeps
<1>6. ASSUME CutCycle PROVE KeptWith(children)'
  BY <1>2, <1>6, CutKeeps
<1>7. ASSUME KeepVisited PROVE KeptWith(children)'
  BY <1>2, <1>7, VisitedKeeps
<1>8. ASSUME WalkLeaf PROVE KeptWith(children)'
  BY <1>2, <1>8, LeafKeeps
<1>9. ASSUME EnterGroup PROVE KeptWith(children)'
  BY <1>1, <1>9, EnterKeeps
<1>10. ASSUME LeaveGroup PROVE KeptWith(children)'
  BY <1>2, <1>10, RootLeftKeeps, GroupLeftKeeps
<1>11. ASSUME UNCHANGED contextVars PROVE KeptWith(children)'
  BY <1>2, <1>11 DEF contextVars, KeptWith, RootKept, BuildInv
<1>12. KeptWith(children)'
  BY <1>4, <1>5, <1>6, <1>7, <1>8, <1>9, <1>10, <1>11 DEF ContextNext
<1>13. ChildSets' = children
  BY <1>1, <1>3, ChildrenStay
<1>14. catalog' \in Catalogs
  BY <1>3 DEF KeptInv
<1> QED BY <1>12, <1>13, <1>14 DEF KeptInv, KeptWith, RootKept, BuildInv

\* Whatever groups are stored, nested, shared, missing and in cycles, and however
\* many are resolved one after another: the map has no cycle and nothing in it is
\* missing (context/node_registration.rs); of the group that is resolved it keeps
\* exactly the children traffic can leave through, and a build fails only for an
\* active profile with none (traverse_group_node); and a group is refused when it
\* is saved exactly for a cycle that is reachable from it (groups.rs, detect_cycle).
THEOREM GroupsHold == ContextSpec => []GroupsAreResolved
<1>1. WalkInv /\ KeptInv => GroupsAreResolved
  BY KeptIsEnough, FindsCycles DEF WalkInv, KeptInv, GroupsAreResolved
<1> QED BY <1>1, WalkInit, WalkStep, KeptInit, KeptStep, PTL DEF ContextSpec

-----------------------------------------------------------------------------
(* The routings that are stored and the one that is active (Routings).       *)

\* What is in the table of routings.
RowShape(r) ==
    /\ r = [id |-> r.id, builtin |-> r.builtin, rules |-> r.rules]
    /\ r.id \in RoutingIds
RowsShape(table) ==
    /\ table \in Seq(ToSet(table))
    /\ \A r \in ToSet(table) : RowShape(r)

\* What is prepared brings at least one routing.
ImportsShape ==
    \A p \in imports : p.items \in Seq(ToSet(p.items)) /\ p.items # <<>>

\* Database and configuration name the same routing, one of the table.
RoutingsInv ==
    /\ RowsShape(routings)
    /\ ImportsShape
    /\ stored = chosen
    /\ IF routings = <<>> THEN chosen = NoRouting ELSE chosen \in RoutingSet(routings)

\* What the shape of a table says of its ids.
LEMMA RowsOf ==
    ASSUME NEW table, RowsShape(table)
    PROVE  /\ Len(table) \in Nat /\ DOMAIN table = 1 .. Len(table)
           /\ \A i \in 1 .. Len(table) : table[i] \in ToSet(table) /\ RowShape(table[i])
           /\ RoutingSet(table) = {r.id : r \in ToSet(table)}
           /\ RoutingSet(table) \subseteq RoutingIds /\ NoRouting \notin RoutingSet(table)
           /\ table # <<>> => 1 \in 1 .. Len(table) /\ table[1].id \in RoutingSet(table)
<1>1. Len(table) \in Nat /\ DOMAIN table = 1 .. Len(table)
  BY LenProperties DEF RowsShape
<1>2. \A i \in 1 .. Len(table) : table[i] \in ToSet(table) /\ RowShape(table[i])
  BY <1>1 DEF RowsShape, ToSet
<1>3. RoutingSet(table) = {r.id : r \in ToSet(table)}
  BY DEF RoutingSet, ToSet
<1>4. RoutingSet(table) \subseteq RoutingIds
  BY <1>3 DEF RowsShape, RowShape
<1>5. ASSUME table # <<>> PROVE 1 \in 1 .. Len(table) /\ table[1].id \in RoutingSet(table)
  <2>1. Len(table) # 0
    BY <1>5, EmptySeq DEF RowsShape
  <2>2. 1 \in 1 .. Len(table)
    BY <1>1, <2>1
  <2> QED BY <1>1, <2>2 DEF RoutingSet
<1> QED BY <1>1, <1>2, <1>3, <1>4, <1>5, RoutingsBounds

\* Some rows of a table are a table.
LEMMA RowsChosen ==
    ASSUME NEW table, RowsShape(table), NEW wanted, wanted \subseteq ToSet(table)
    PROVE  RowsShape(RowsIn(table, wanted)) /\ ToSet(RowsIn(table, wanted)) = wanted
<1>1. table \in Seq(ToSet(table))
  BY DEF RowsShape
<1>2. /\ RowsIn(table, wanted) \in Seq(ToSet(table))
      /\ ToSet(RowsIn(table, wanted)) = ToSet(table) \cap wanted
  BY <1>1, RowsInIsRight
<1>3. ToSet(RowsIn(table, wanted)) = wanted
  BY <1>2
<1>4. RowsIn(table, wanted) \in Seq(ToSet(RowsIn(table, wanted)))
  BY <1>2, SeqOfRange DEF Range, ToSet
<1> QED BY <1>3, <1>4 DEF RowsShape

\* The ids are no more than the rows.
LEMMA IdsCount ==
    ASSUME NEW table, RowsShape(table)
    PROVE  IsFiniteSet(RoutingSet(table)) /\ Cardinality(RoutingSet(table)) \in 0 .. Len(table)
<1>1. Len(table) \in Nat /\ DOMAIN table = 1 .. Len(table)
  BY RowsOf
<1>2. IsFiniteSet(1 .. Len(table)) /\ Cardinality(1 .. Len(table)) = Len(table)
  <2>1. PICK n \in Nat : n = Len(table)
    BY <1>1
  <2>2. 1 \in Int /\ n \in Int
    OBVIOUS
  <2>3. IsFiniteSet(1 .. n) /\ Cardinality(1 .. n) = IF 1 > n THEN 0 ELSE n - 1 + 1
    BY <2>2, FS_Interval, Zenon
  <2> QED BY <2>1, <2>3
<1> DEFINE f == [i \in 1 .. Len(table) |-> table[i].id]
<1>3. f \in Surjection(1 .. Len(table), RoutingSet(table))
  BY <1>1 DEF Surjection, RoutingSet
<1> HIDE DEF f
<1>4. /\ IsFiniteSet(RoutingSet(table))
      /\ Cardinality(RoutingSet(table)) <= Cardinality(1 .. Len(table))
  BY <1>2, <1>3, FS_Surjection
<1>5. Cardinality(RoutingSet(table)) \in Nat
  BY <1>4, FS_CardinalityType
<1> QED BY <1>1, <1>2, <1>4, <1>5

\* What ensure_active_routing chooses.
LEMMA EnsureChooses ==
    ASSUME NEW r, NEW s, NEW c, RowsShape(r), NEW tx, tx = [rows |-> r, stored |-> s, chosen |-> c],
           NEW e, e = EnsureActiveRouting(tx)
    PROVE  /\ e = [rows |-> r, stored |-> e.chosen, chosen |-> e.chosen]
           /\ r # <<>> => e.chosen # NoRouting
           /\ s # NoRouting => e.chosen = s
           /\ s = NoRouting => e.chosen \in RoutingSet(r) \cup {NoRouting}
<1>1. tx.rows = r /\ tx.stored = s /\ tx.chosen = c
  OBVIOUS
<1>2. \A x : Activated(tx, x) = [rows |-> r, stored |-> x, chosen |-> x]
  <2> TAKE x
  <2>1. tx = [rows |-> r, stored |-> s, chosen |-> c]
    OBVIOUS
  <2>2. PICK y : y = [tx EXCEPT !.stored = x, !.chosen = x]
    OBVIOUS
  <2>3. y = [rows |-> r, stored |-> x, chosen |-> x]
    BY ONLY <2>1, <2>2
  <2>4. Activated(tx, x) = y
    BY <2>2 DEF Activated
  <2> QED BY ONLY <2>3, <2>4
<1>3. \A x : e = [rows |-> r, stored |-> x, chosen |-> x] =>
         e.chosen = x /\ e = [rows |-> r, stored |-> e.chosen, chosen |-> e.chosen]
  OBVIOUS
<1>4. NoRouting \notin RoutingSet(r) /\ (r # <<>> => r[1].id \in RoutingSet(r))
  BY RowsOf
<1>5. CASE s # NoRouting
  BY <1>1, <1>2, <1>3, <1>5 DEF EnsureActiveRouting
<1>6. CASE s = NoRouting /\ c \in RoutingSet(r)
  BY <1>1, <1>2, <1>3, <1>4, <1>6 DEF EnsureActiveRouting
<1>7. CASE s = NoRouting /\ c \notin RoutingSet(r) /\ r # <<>>
  BY <1>1, <1>2, <1>3, <1>4, <1>7 DEF EnsureActiveRouting
<1>8. CASE s = NoRouting /\ c \notin RoutingSet(r) /\ r = <<>>
  BY <1>1, <1>2, <1>3, <1>4, <1>8 DEF EnsureActiveRouting
<1> QED BY <1>5, <1>6, <1>7, <1>8

\* A transaction leaves a catalogue with an active routing, or is refused.
LEMMA Commits ==
    ASSUME RoutingsInv, ImportsShape', NEW r, NEW s, NEW c, RowsShape(r),
           r # <<>> => c # NoRouting,
           CommitRoutings([rows |-> r, stored |-> s, chosen |-> c])
    PROVE  RoutingsInv' /\ routings' \in {r, routings}
<1>1. \/ c \in RoutingSet(r) \cup {NoRouting} /\ routings' = r /\ stored' = c /\ chosen' = c
      \/ UNCHANGED <<routings, stored, chosen>>
  BY DEF CommitRoutings, Committable
<1>2. CASE c \in RoutingSet(r) \cup {NoRouting} /\ routings' = r /\ stored' = c /\ chosen' = c
  <2>1. r = <<>> => RoutingSet(r) = {}
    BY DEF RoutingSet
  <2>2. RowsShape(routings') 
    BY <1>2
  <2>3. IF routings' = <<>> THEN chosen' = NoRouting ELSE chosen' \in RoutingSet(routings')
    BY <1>2, <2>1
  <2> QED BY <1>2, <2>2, <2>3 DEF RoutingsInv, RowsShape, RowShape, RoutingSet
<1>3. CASE UNCHANGED <<routings, stored, chosen>>
  BY <1>3 DEF RoutingsInv, RowsShape, RowShape, RoutingSet
<1> QED BY <1>1, <1>2, <1>3

\* What is left when some are deleted.
LEMMA Deletes ==
    ASSUME RoutingsInv, NEW ids, NEW d, d = DeleteRows(Current, ids)
    PROVE  /\ d = [rows |-> d.rows, stored |-> d.chosen, chosen |-> d.chosen]
           /\ RowsShape(d.rows) /\ (d.rows # <<>> => d.chosen # NoRouting)
           /\ d.chosen \in RoutingSet(d.rows) \cup {NoRouting}
           /\ \E wanted \in SUBSET ToSet(routings) : d.rows = RowsIn(routings, wanted)
<1> DEFINE wanted == {r \in ToSet(routings) : r.id \notin ids}
<1>1. PICK left, s : left = RowsIn(routings, wanted) /\ s = IF stored \in ids THEN NoRouting ELSE stored
  OBVIOUS
<1>2. RowsShape(left) /\ ToSet(left) = wanted
  BY <1>1, RowsChosen DEF RoutingsInv
<1>3. PICK tx : tx = [rows |-> left, stored |-> s, chosen |-> chosen]
  OBVIOUS
<1>4. d = EnsureActiveRouting(tx)
  <2>1. PICK t : t = Current
    OBVIOUS
  <2>2. t = [rows |-> routings, stored |-> stored, chosen |-> chosen]
    BY <2>1 DEF Current
  <2>3. PICK y : y = [t EXCEPT !.rows = left, !.stored = s]
    OBVIOUS
  <2>4. y = [rows |-> left, stored |-> s, chosen |-> chosen]
    BY ONLY <2>2, <2>3
  <2>5. t.rows = routings /\ t.stored = stored
    BY ONLY <2>2
  <2>6. d = EnsureActiveRouting([t EXCEPT
                !.rows = RowsIn(t.rows, {r \in ToSet(t.rows) : r.id \notin ids}),
                !.stored = IF t.stored \in ids THEN NoRouting ELSE t.stored])
    BY <2>1 DEF DeleteRows
  <2>7. d = EnsureActiveRouting([t EXCEPT !.rows = left, !.stored = s])
    BY <1>1, <2>5, <2>6
  <2> QED BY <1>3, <2>3, <2>7, <2>4
<1>5. /\ d = [rows |-> left, stored |-> d.chosen, chosen |-> d.chosen]
      /\ left # <<>> => d.chosen # NoRouting
      /\ s # NoRouting => d.chosen = s
      /\ s = NoRouting => d.chosen \in RoutingSet(left) \cup {NoRouting}
  BY <1>2, <1>3, <1>4, EnsureChooses
<1>6. s # NoRouting => s \in RoutingSet(left)
  <2>1. RoutingSet(left) = {r.id : r \in wanted}
    BY <1>2, RowsOf
  <2>2. RoutingSet(routings) = {r.id : r \in ToSet(routings)}
    BY RowsOf DEF RoutingsInv
  <2> QED BY <1>1, <2>1, <2>2 DEF RoutingsInv
<1>7. d.rows = left
  BY <1>5
<1>8. \E w \in SUBSET ToSet(routings) : d.rows = RowsIn(routings, w)
  BY <1>1, <1>7
<1> HIDE DEF wanted
<1> QED BY <1>2, <1>5, <1>6, <1>7, <1>8

\* So no deletion is refused.
LEMMA ActiveIsThere == RoutingsInv => OneRoutingIsActive
<1> SUFFICES ASSUME RoutingsInv PROVE OneRoutingIsActive
  OBVIOUS
<1>1. ASSUME NEW ids PROVE Committable(DeleteRows(Current, ids))
  <2>1. PICK d : d = DeleteRows(Current, ids)
    OBVIOUS
  <2>2. d.chosen \in RoutingSet(d.rows) \cup {NoRouting}
    BY <2>1, Deletes
  <2> QED BY <2>1, <2>2 DEF Committable
<1> QED BY <1>1 DEF RoutingsInv, OneRoutingIsActive

\* Lists of rows are tables.
LEMMA RowsFrom ==
    ASSUME NEW S, \A r \in S : RowShape(r), NEW t \in Seq(S)
    PROVE  RowsShape(t)
<1>1. t \in Seq(ToSet(t)) /\ DOMAIN t = 1 .. Len(t)
  BY SeqOfRange, LenProperties DEF Range, ToSet
<1>2. ToSet(t) \subseteq S
  BY <1>1, ElementOfSeq DEF ToSet
<1> QED BY <1>1, <1>2 DEF RowsShape

\* A row with its place among the others.
LEMMA Inserted ==
    ASSUME NEW table, RowsShape(table), NEW item, RowShape(item),
           NEW place \in 1 .. Len(table) + 1
    PROVE  RowsShape(InsertAt(table, place, item))
<1> DEFINE S == ToSet(table) \cup {item}
<1>1. /\ Len(table) \in Nat
      /\ \A i \in 1 .. Len(table) : table[i] \in S
      /\ \A r \in S : RowShape(r)
  BY RowsOf DEF RowsShape
<1>2. item \in S
  OBVIOUS
<1> HIDE DEF S
<1>3. place \in Int /\ place - 1 \in Int /\ Len(table) \in Int /\ 1 \in Int
      /\ (\A i \in 1 .. place - 1 : i \in 1 .. Len(table))
      /\ (\A i \in place .. Len(table) : i \in 1 .. Len(table))
  BY <1>1
<1>4. PICK a, b : a = SubSeq(table, 1, place - 1) /\ b = SubSeq(table, place, Len(table))
  OBVIOUS
<1>5. a \in Seq(S)
  <2>1. \A i \in 1 .. place - 1 : table[i] \in S
    BY <1>1, <1>3
  <2> QED BY <1>3, <1>4, <2>1, SubSeqProperties
<1>6. b \in Seq(S)
  <2>1. \A i \in place .. Len(table) : table[i] \in S
    BY <1>1, <1>3
  <2> QED BY <1>3, <1>4, <2>1, SubSeqProperties
<1>7. <<item>> \in Seq(S)
  BY <1>2
<1>8. PICK c : c = a \o <<item>>
  OBVIOUS
<1>9. c \in Seq(S)
  BY <1>5, <1>7, <1>8, ConcatProperties
<1>10. c \o b \in Seq(S)
  BY <1>6, <1>9, ConcatProperties
<1>11. InsertAt(table, place, item) = c \o b
  BY <1>4, <1>8 DEF InsertAt
<1> QED BY <1>1, <1>10, <1>11, RowsFrom

\* What the commands leave of a table, or what was there when it is refused.
Saved(item, place) ==
    \E others, wanted :
        /\ others = RowsIn(routings, wanted) /\ wanted = {r \in ToSet(routings) : r.id # item.id}
        /\ RowsShape(others) /\ ToSet(others) = wanted /\ place \in 1 .. Len(others) + 1
        /\ routings' \in {InsertAt(others, place, item), routings}
Deleted ==
    \E wanted \in SUBSET ToSet(routings) : routings' \in {RowsIn(routings, wanted), routings}
SameRows(old, new) ==
    /\ DOMAIN new = 1 .. Len(old) /\ Len(new) = Len(old)
    /\ \A i \in 1 .. Len(old) :
          /\ new[i].id = old[i].id
          /\ new[i].builtin = old[i].builtin
Appended(p) ==
    \/ routings' = routings
    \/ \E items : \E ids \in SetToSeqs(NewRoutingIds) :
          /\ p.builtin => {r \in ToSet(routings) : r.builtin} = {}
          /\ RowsShape(items) /\ Len(items) = Len(p.items)
          /\ \A i \in 1 .. Len(p.items) :
                items[i].id = ids[i] /\ items[i].builtin = p.items[i].builtin
          /\ routings' = routings \o items

\* The commands, one by one.
LEMMA SaveStep ==
    ASSUME RoutingsInv, NEW item, RowShape(item),
           NEW place \in 1 .. Cardinality(RoutingSet(routings) \ {item.id}) + 1,
           SaveRouting(item, place)
    PROVE  /\ RoutingsInv'
           /\ Saved(item, place)
<1> DEFINE wanted == {r \in ToSet(routings) : r.id # item.id}
<1>1. PICK others : others = RowsIn(routings, wanted)
  OBVIOUS
<1>2. RowsShape(others) /\ ToSet(others) = wanted
  BY <1>1, RowsChosen DEF RoutingsInv
<1>3. RoutingSet(others) = RoutingSet(routings) \ {item.id}
  <2>1. RoutingSet(others) = {r.id : r \in wanted}
    BY <1>2, RowsOf
  <2>2. RoutingSet(routings) = {r.id : r \in ToSet(routings)}
    BY RowsOf DEF RoutingsInv
  <2> QED BY <2>1, <2>2
<1>4. place \in 1 .. Len(others) + 1
  <2>1. Cardinality(RoutingSet(others)) \in 0 .. Len(others) /\ Len(others) \in Nat
    BY <1>2, IdsCount, RowsOf
  <2> QED BY <1>3, <2>1
<1>5. PICK new : new = InsertAt(others, place, item)
  OBVIOUS
<1>6. RowsShape(new)
  BY <1>2, <1>4, <1>5, Inserted
<1>7. PICK saved : saved = [Current EXCEPT !.rows = new]
  OBVIOUS
<1>8. saved = [rows |-> new, stored |-> stored, chosen |-> chosen]
  BY <1>7 DEF Current
<1>9. PICK tx : tx = IF stored \in {item.id, NoRouting} THEN Activated(saved, item.id) ELSE saved
  OBVIOUS
<1>10. \E s, c : tx = [rows |-> new, stored |-> s, chosen |-> c]
  <2>1. PICK y : y = Activated(saved, item.id)
    OBVIOUS
  <2>2. y = [saved EXCEPT !.stored = item.id, !.chosen = item.id]
    BY <2>1 DEF Activated
  <2>3. y = [rows |-> new, stored |-> item.id, chosen |-> item.id]
    BY ONLY <1>8, <2>2
  <2> QED BY <1>8, <1>9, <2>1, <2>3
<1>11. PICK s, c : tx = [rows |-> new, stored |-> s, chosen |-> c]
  BY <1>10
<1>12. PICK e : e = EnsureActiveRouting(tx)
  OBVIOUS
<1>13. e = [rows |-> new, stored |-> e.chosen, chosen |-> e.chosen]
       /\ (new # <<>> => e.chosen # NoRouting)
  BY <1>6, <1>11, <1>12, EnsureChooses
<1>14. CommitRoutings(e) /\ imports' = imports
  BY <1>1, <1>5, <1>7, <1>9, <1>12 DEF SaveRouting
<1>15. ImportsShape'
  BY <1>14 DEF RoutingsInv, ImportsShape
<1>16. RoutingsInv' /\ routings' \in {new, routings}
  BY <1>6, <1>13, <1>14, <1>15, Commits
<1>17. Saved(item, place)
  BY <1>1, <1>2, <1>4, <1>5, <1>16 DEF Saved
<1> QED BY <1>16, <1>17

LEMMA DeleteStep ==
    ASSUME RoutingsInv, NEW ids, DeleteRoutings(ids)
    PROVE  RoutingsInv' /\ Deleted
<1>1. PICK d : d = DeleteRows(Current, ids)
  OBVIOUS
<1>2. PICK r, c : r = d.rows /\ c = d.chosen
  OBVIOUS
<1>3. d = [rows |-> r, stored |-> c, chosen |-> c] /\ RowsShape(r) /\ (r # <<>> => c # NoRouting)
  BY <1>1, <1>2, Deletes
<1>4. CommitRoutings(d) /\ imports' = imports
  BY <1>1 DEF DeleteRoutings
<1>5. ImportsShape'
  BY <1>4 DEF RoutingsInv, ImportsShape
<1>6. RoutingsInv' /\ routings' \in {r, routings}
  BY <1>3, <1>4, <1>5, Commits
<1>7. Deleted
  BY <1>1, <1>2, <1>6, Deletes DEF Deleted
<1> QED BY <1>6, <1>7

LEMMA ActivateStep ==
    ASSUME RoutingsInv, ImportsShape', NEW id \in RoutingSet(routings),
           CommitRoutings(Activated(Current, id))
    PROVE  RoutingsInv' /\ routings' = routings
<1>1. PICK t, y : t = Current /\ y = Activated(Current, id)
  OBVIOUS
<1>2. t = [rows |-> routings, stored |-> stored, chosen |-> chosen]
  BY <1>1 DEF Current
<1>3. y = [t EXCEPT !.stored = id, !.chosen = id]
  BY <1>1 DEF Activated
<1>4. y = [rows |-> routings, stored |-> id, chosen |-> id]
  BY ONLY <1>2, <1>3
<1>5. id # NoRouting /\ RowsShape(routings)
  BY RowsOf DEF RoutingsInv
<1> QED BY <1>1, <1>4, <1>5, Commits

LEMMA RulesStep ==
    ASSUME RoutingsInv, NEW id \in RoutingSet(routings), NEW rules, WithRules(id, rules)
    PROVE  RoutingsInv' /\ SameRows(routings, routings')
<1>1. PICK k : k = RoutingAt(routings, id)
  OBVIOUS
<1>2. k \in DOMAIN routings /\ routings[k].id = id
  BY <1>1 DEF RoutingAt, RoutingSet
<1>3. RowsShape(routings) /\ DOMAIN routings = 1 .. Len(routings) /\ Len(routings) \in Nat
  BY RowsOf DEF RoutingsInv
<1>4. PICK row : row = [routings[k] EXCEPT !.rules = rules]
  OBVIOUS
<1>5. RowShape(row)
  <2>1. PICK a : a = routings[k]
    OBVIOUS
  <2>2. RowShape(a)
    BY <1>2, <1>3, <2>1, RowsOf
  <2>3. PICK n, b, l : a = [id |-> n, builtin |-> b, rules |-> l] /\ n \in RoutingIds
    BY <2>2 DEF RowShape
  <2>4. row = [a EXCEPT !.rules = rules]
    BY <1>4, <2>1
  <2>5. row = [id |-> n, builtin |-> b, rules |-> rules]
    BY ONLY <2>3, <2>4
  <2> QED BY <2>3, <2>5 DEF RowShape
<1>6. PICK new : new = [routings EXCEPT ![k] = row]
  OBVIOUS
<1>7. RowsShape(new) /\ new # <<>>
  <2> DEFINE S == ToSet(routings) \cup {row}
  <2>1. routings \in Seq(S) /\ row \in S /\ \A r \in S : RowShape(r)
    BY <1>3, <1>5, SeqMonotonic DEF RowsShape
  <2> HIDE DEF S
  <2>2. new \in Seq(S) /\ Len(new) = Len(routings)
    BY <1>2, <1>3, <1>6, <2>1, ExceptSeq
  <2>3. Len(new) # 0
    BY <1>2, <1>3, <2>2
  <2> QED BY <2>1, <2>2, <2>3, RowsFrom, EmptySeq
<1>8. PICK t, y : t = Current /\ y = [Current EXCEPT !.rows[k].rules = rules]
  OBVIOUS
<1>9. t = [rows |-> routings, stored |-> stored, chosen |-> chosen]
  BY <1>8 DEF Current
<1>10. y = [t EXCEPT !.rows = new]
  <2>1. y = [t EXCEPT !.rows = [t.rows EXCEPT ![k] = [t.rows[k] EXCEPT !.rules = rules]]]
    BY <1>8
  <2>2. t.rows = routings
    BY ONLY <1>9
  <2> QED BY <1>4, <1>6, <2>1, <2>2
<1>11. y = [rows |-> new, stored |-> stored, chosen |-> chosen]
  BY ONLY <1>9, <1>10
<1>12. CommitRoutings(y) /\ imports' = imports
  BY <1>1, <1>8 DEF WithRules
<1>13. ImportsShape'
  BY <1>12 DEF RoutingsInv, ImportsShape
<1>14. chosen # NoRouting
  <2>1. routings # <<>>
    BY <1>2, <1>3, EmptySeq
  <2> QED BY <1>3, <2>1, RowsOf DEF RoutingsInv
<1>15. RoutingsInv' /\ routings' \in {new, routings}
  BY <1>7, <1>11, <1>12, <1>13, <1>14, Commits
<1>16. SameRows(routings, new)
  <2>1. row.id = routings[k].id /\ row.builtin = routings[k].builtin
    <3>1. PICK a : a = routings[k]
      OBVIOUS
    <3>2. RowShape(a)
      BY <1>2, <1>3, <3>1, RowsOf
    <3>3. PICK n, b, l : a = [id |-> n, builtin |-> b, rules |-> l]
      BY <3>2 DEF RowShape
    <3>4. row = [a EXCEPT !.rules = rules]
      BY <1>4, <3>1
    <3>5. row.id = a.id /\ row.builtin = a.builtin
      BY ONLY <3>3, <3>4
    <3> QED BY <3>1, <3>5
  <2>2. \A i \in 1 .. Len(routings) : new[i] = IF i = k THEN row ELSE routings[i]
    BY <1>2, <1>3, <1>6
  <2>3. DOMAIN new = 1 .. Len(routings) /\ Len(new) = Len(routings)
    <3>1. DOMAIN new = 1 .. Len(routings) /\ DOMAIN new = 1 .. Len(new) /\ Len(new) \in Nat
      BY <1>3, <1>6, <1>7, RowsOf
    <3>2. PICK a, b : a = Len(routings) /\ b = Len(new)
      OBVIOUS
    <3>3. a \in Nat /\ b \in Nat /\ 1 .. a = 1 .. b
      BY <1>3, <3>1, <3>2
    <3>4. a = b
      <4>1. \A i \in Nat : i \in 1 .. a <=> i \in 1 .. b
        BY <3>3
      <4>2. (a # 0 => a <= b) /\ (b # 0 => b <= a)
        <5>1. (a # 0 => a \in 1 .. a) /\ (b # 0 => b \in 1 .. b)
          BY <3>3
        <5> QED BY <3>3, <4>1, <5>1
      <4> QED BY <3>3, <4>2
    <3> QED BY <3>1, <3>2, <3>4
  <2> QED BY <2>1, <2>2, <2>3 DEF SameRows
<1>17. SameRows(routings, routings)
  BY <1>3 DEF SameRows
<1> QED BY <1>15, <1>16, <1>17

\* A function on 1 .. n is a list.
LEMMA ListOf ==
    ASSUME NEW n \in Nat \ {0}, NEW t, DOMAIN t = 1 .. n, t = [i \in 1 .. n |-> t[i]]
    PROVE  t \in Seq(ToSet(t)) /\ t # <<>> /\ Len(t) = n
<1>1. \A i \in 1 .. n : t[i] \in ToSet(t)
  BY DEF ToSet
<1>2. PICK S : S = ToSet(t)
  OBVIOUS
<1>3. t \in [1 .. n -> S]
  BY <1>1, <1>2
<1>4. t \in Seq(S)
  BY <1>3, SeqDef
<1>5. DOMAIN t = 1 .. Len(t) /\ Len(t) \in Nat
  BY <1>4, LenProperties
<1>6. Len(t) = n
  <2>1. n \in 1 .. Len(t) /\ (Len(t) \in 1 .. n \/ Len(t) = 0)
    BY <1>5
  <2> QED BY <1>5, <2>1
<1> QED BY <1>2, <1>4, <1>6, EmptySeq

LEMMA PrepareStep ==
    ASSUME RoutingsInv, (\E template \in Templates : PrepareImport(template)) \/ PrepareBuiltin
    PROVE  RoutingsInv'
<1>1. UNCHANGED <<routings, stored, chosen>>
  BY DEF PrepareImport, PrepareBuiltin
<1>2. PICK p : imports' = imports \cup {p} /\ p.items \in Seq(ToSet(p.items)) /\ p.items # <<>>
  <2>1. ASSUME NEW template \in Templates, PrepareImport(template)
        PROVE  \E p : imports' = imports \cup {p} /\ p.items \in Seq(ToSet(p.items)) /\ p.items # <<>>
    <3>1. template \in Seq(ToSet(template)) /\ template # <<>>
      BY <2>1, RoutingsBounds DEF PrepareImport, TemplateIsValid
    <3>2. PICK n : n = Len(template)
      OBVIOUS
    <3>3. n \in Nat \ {0} /\ DOMAIN template = 1 .. n
      BY <3>1, <3>2, LenProperties, EmptySeq
    <3>4. PICK t : t = [i \in 1 .. n |-> [builtin |-> FALSE, rules |-> template[i].rules]]
      OBVIOUS
    <3>5. DOMAIN t = 1 .. n /\ t = [i \in 1 .. n |-> t[i]]
      BY <3>4
    <3>6. t \in Seq(ToSet(t)) /\ t # <<>>
      BY <3>3, <3>5, ListOf
    <3>7. imports' = imports \cup {[builtin |-> FALSE, items |-> t]}
      BY <2>1, <3>3, <3>4 DEF PrepareImport
    <3>8. PICK p : p = [builtin |-> FALSE, items |-> t]
      OBVIOUS
    <3>9. p.items = t
      BY <3>8
    <3> QED BY <3>6, <3>7, <3>8, <3>9
  <2>2. ASSUME PrepareBuiltin
        PROVE  \E p : imports' = imports \cup {p} /\ p.items \in Seq(ToSet(p.items)) /\ p.items # <<>>
    <3>1. PICK n : n = BuiltinItems
      OBVIOUS
    <3>2. n \in Nat \ {0}
      BY <3>1, RoutingsBounds
    <3>3. PICK t : t = [i \in 1 .. n |-> [builtin |-> TRUE, rules |-> <<>>]]
      OBVIOUS
    <3>4. DOMAIN t = 1 .. n /\ t = [i \in 1 .. n |-> t[i]]
      BY <3>3
    <3>5. t \in Seq(ToSet(t)) /\ t # <<>>
      BY <3>2, <3>4, ListOf
    <3>6. imports' = imports \cup {[builtin |-> TRUE, items |-> t]}
      BY <2>2, <3>1, <3>3 DEF PrepareBuiltin
    <3>7. PICK p : p = [builtin |-> TRUE, items |-> t]
      OBVIOUS
    <3>8. p.items = t
      BY <3>7
    <3> QED BY <3>5, <3>6, <3>7, <3>8
  <2> QED BY <2>1, <2>2
<1>3. ImportsShape'
  BY <1>2 DEF RoutingsInv, ImportsShape
<1> QED BY <1>1, <1>3 DEF RoutingsInv, RowsShape, RowShape, RoutingSet

\* There are as many new ids as an import can bring routings.
LEMMA NewIds ==
    ASSUME RoutingsInv, NEW n \in Nat, Len(routings) + n <= MaxRoutings,
           NEW ids \in SetToSeqs(NewRoutingIds)
    PROVE  /\ \A i \in 1 .. n : ids[i] \in RoutingIds \ RoutingSet(routings)
           /\ \A i, j \in 1 .. n : ids[i] = ids[j] => i = j
<1>1. /\ RowsShape(routings) /\ RoutingSet(routings) \subseteq RoutingIds
      /\ Len(routings) \in Nat
  BY RowsOf DEF RoutingsInv
<1>2. IsFiniteSet(RoutingIds) /\ MaxRoutings \in 0 .. Cardinality(RoutingIds)
  BY RoutingsBounds
<1>3. Cardinality(RoutingSet(routings)) \in 0 .. Len(routings)
  BY <1>1, IdsCount
<1>4. Cardinality(NewRoutingIds)
         = Cardinality(RoutingIds) - Cardinality(RoutingIds \cap RoutingSet(routings))
  BY <1>2, FS_Difference DEF NewRoutingIds
<1>5. RoutingIds \cap RoutingSet(routings) = RoutingSet(routings)
  BY <1>1
<1>6. Cardinality(RoutingIds) \in Nat
  BY <1>2, FS_CardinalityType
<1>7. PICK c, a, l, m : c = Cardinality(RoutingIds) /\ a = Cardinality(RoutingSet(routings))
                        /\ l = Len(routings) /\ m = MaxRoutings
  OBVIOUS
<1>8. Cardinality(NewRoutingIds) = c - a
  BY <1>4, <1>5, <1>7
<1>9. c \in Nat /\ l \in Nat /\ a \in 0 .. l /\ m \in 0 .. c /\ l + n <= m
  BY <1>1, <1>2, <1>3, <1>6, <1>7
<1>10. c - a \in Nat /\ n <= c - a
  BY ONLY <1>9
<1>11. /\ ids \in [1 .. Cardinality(NewRoutingIds) -> NewRoutingIds]
       /\ \A i, j \in 1 .. Cardinality(NewRoutingIds) : ids[i] = ids[j] => i = j
  BY DEF SetToSeqs, IsInjective
<1>12. \A i \in 1 .. n : i \in 1 .. Cardinality(NewRoutingIds)
  BY <1>8, <1>10
<1> QED BY <1>11, <1>12 DEF NewRoutingIds

LEMMA ApplyStep ==
    ASSUME RoutingsInv, NEW p \in imports, ApplyImport(p)
    PROVE  RoutingsInv' /\ Appended(p)
<1>1. p.items \in Seq(ToSet(p.items)) /\ p.items # <<>>
  BY DEF RoutingsInv, ImportsShape
<1>2. PICK n : n = Len(p.items)
  OBVIOUS
<1>3. n \in Nat \ {0} /\ DOMAIN p.items = 1 .. n
  BY <1>1, <1>2, LenProperties, EmptySeq
<1>4. Len(routings) + n <= MaxRoutings /\ imports' = imports \ {p}
  BY <1>2 DEF ApplyImport
<1>5. ImportsShape'
  BY <1>4 DEF RoutingsInv, ImportsShape
<1>6. PICK ids \in SetToSeqs(NewRoutingIds) : CommitRoutings(AppliedTemplate(p, ids))
  BY DEF ApplyImport
<1>7. \A i \in 1 .. n : ids[i] \in RoutingIds
  BY <1>3, <1>4, NewIds
<1> DEFINE wanted == {r \in ToSet(routings) : r.builtin}
<1>8. PICK known : known = RowsIn(routings, wanted)
  OBVIOUS
<1>9. PICK items : items = [i \in 1 .. n |-> [id |-> ids[i], builtin |-> p.items[i].builtin,
                                              rules |-> p.items[i].rules]]
  OBVIOUS
<1>10. PICK t, y, z : t = Current /\ y = [Current EXCEPT !.rows = routings \o items]
                      /\ z = Activated(y, ids[1])
  OBVIOUS
<1>11. CASE p.builtin /\ known # <<>>
  <2>1. PICK k : k = known[1].id
    OBVIOUS
  <2>2. RowsShape(known) /\ ToSet(known) = wanted
    BY <1>8, RowsChosen DEF RoutingsInv
  <2>3. k \in RoutingSet(routings)
    <3>1. k \in RoutingSet(known)
      BY <1>11, <2>1, <2>2, RowsOf
    <3>2. RoutingSet(known) = {r.id : r \in wanted}
      BY <2>2, RowsOf
    <3>3. RoutingSet(routings) = {r.id : r \in ToSet(routings)}
      BY RowsOf DEF RoutingsInv
    <3> QED BY <3>1, <3>2, <3>3
  <2>4. CommitRoutings(Activated(Current, k))
    BY <1>6, <1>8, <1>11, <2>1 DEF AppliedTemplate
  <2>5. RoutingsInv' /\ routings' = routings
    BY <1>5, <2>3, <2>4, ActivateStep
  <2> QED BY <2>5 DEF Appended
<1>12. CASE ~(p.builtin /\ known # <<>>)
  <2>1. CommitRoutings(z)
    BY <1>3, <1>6, <1>8, <1>9, <1>10, <1>12 DEF AppliedTemplate
  <2>2. PICK new : new = routings \o items
    OBVIOUS
  <2>3. t = [rows |-> routings, stored |-> stored, chosen |-> chosen]
    BY <1>10 DEF Current
  <2>4. y = [t EXCEPT !.rows = new]
    BY <1>10, <2>2
  <2>5. y = [rows |-> new, stored |-> stored, chosen |-> chosen]
    BY ONLY <2>3, <2>4
  <2>6. z = [y EXCEPT !.stored = ids[1], !.chosen = ids[1]]
    BY <1>10 DEF Activated
  <2>7. PICK c : c = ids[1]
    OBVIOUS
  <2>8. z = [y EXCEPT !.stored = c, !.chosen = c]
    BY <2>6, <2>7
  <2>9. z = [rows |-> new, stored |-> c, chosen |-> c]
    BY ONLY <2>5, <2>8
  <2>10. c # NoRouting
    BY <1>3, <1>7, <2>7, RoutingsBounds
  <2>11. RowsShape(items) /\ Len(items) = n
    <3>1. DOMAIN items = 1 .. n /\ items = [i \in 1 .. n |-> items[i]]
      BY <1>9
    <3>2. items \in Seq(ToSet(items)) /\ Len(items) = n
      BY <1>3, <3>1, ListOf
    <3>3. \A r \in ToSet(items) : RowShape(r)
      <4>1. ASSUME NEW i \in 1 .. n PROVE RowShape(items[i])
        <5>1. PICK a, b, l : a = ids[i] /\ b = p.items[i].builtin /\ l = p.items[i].rules
          OBVIOUS
        <5>2. items[i] = [id |-> a, builtin |-> b, rules |-> l] /\ a \in RoutingIds
          BY <1>7, <1>9, <5>1
        <5> QED BY <5>2 DEF RowShape
      <4> QED BY <3>1, <4>1 DEF ToSet
    <3> QED BY <3>2, <3>3 DEF RowsShape
  <2>12. RowsShape(new)
    <3> DEFINE S == ToSet(routings) \cup ToSet(items)
    <3>1. routings \in Seq(S) /\ items \in Seq(S) /\ \A r \in S : RowShape(r)
      BY <2>11, SeqMonotonic DEF RoutingsInv, RowsShape
    <3> HIDE DEF S
    <3>2. new \in Seq(S)
      BY <2>2, <3>1, ConcatProperties
    <3> QED BY <3>1, <3>2, RowsFrom
  <2>13. RoutingsInv' /\ routings' \in {new, routings}
    BY <1>5, <2>1, <2>9, <2>10, <2>12, Commits
  <2>14. p.builtin => wanted = {}
    <3>1. p.builtin => known = <<>>
      BY <1>12
    <3>2. ToSet(known) = wanted
      BY <1>8, RowsChosen DEF RoutingsInv
    <3>3. ToSet(<<>>) = {}
      BY EmptySeq DEF ToSet
    <3> QED BY <3>1, <3>2, <3>3
  <2>15. \A i \in 1 .. n : items[i].id = ids[i] /\ items[i].builtin = p.items[i].builtin
    <3> TAKE i \in 1 .. n
    <3>1. PICK a, b, l : a = ids[i] /\ b = p.items[i].builtin /\ l = p.items[i].rules
      OBVIOUS
    <3>2. items[i] = [id |-> a, builtin |-> b, rules |-> l]
      BY <1>9, <3>1
    <3>3. items[i].id = a /\ items[i].builtin = b
      BY ONLY <3>2
    <3> QED BY <3>1, <3>3
  <2>16. CASE routings' = new
    <3>1. /\ routings' = routings \o items /\ Len(items) = Len(p.items)
          /\ \A i \in 1 .. Len(p.items) :
                items[i].id = ids[i] /\ items[i].builtin = p.items[i].builtin
      BY <1>2, <2>2, <2>11, <2>15, <2>16
    <3>2. Appended(p)
      BY <1>6, <2>11, <2>14, <3>1 DEF Appended
    <3> QED BY <2>13, <3>2
  <2> QED BY <2>13, <2>16 DEF Appended
<1> QED BY <1>11, <1>12

\* No step leaves the catalogue without an active routing.
LEMMA RoutingsStep == RoutingsInv /\ [RoutingsNext]_routingsVars => RoutingsInv'
<1> SUFFICES ASSUME RoutingsInv, [RoutingsNext]_routingsVars PROVE RoutingsInv'
  OBVIOUS
<1>0. RoutingSet(routings) \subseteq RoutingIds
  BY RowsOf DEF RoutingsInv
<1>1. ASSUME NEW id \in RoutingSet(routings) \cup NewRoutingIds, NEW builtin, NEW rules,
             NEW place \in 1 .. Cardinality(RoutingSet(routings) \ {id}) + 1,
             SaveRouting([id |-> id, builtin |-> builtin, rules |-> rules], place)
      PROVE  RoutingsInv'
  <2>1. PICK item : item = [id |-> id, builtin |-> builtin, rules |-> rules]
    OBVIOUS
  <2>2. RowShape(item) /\ item.id = id
    BY <1>0, <2>1 DEF RowShape, NewRoutingIds
  <2> QED BY <1>1, <2>1, <2>2, SaveStep
<1>2. ASSUME NEW ids, DeleteRoutings(ids) PROVE RoutingsInv'
  BY <1>2, DeleteStep
<1>3. ASSUME NEW id \in RoutingSet(routings), SetActiveRouting(id) PROVE RoutingsInv'
  <2>1. CommitRoutings(Activated(Current, id)) /\ imports' = imports
    BY <1>3 DEF SetActiveRouting
  <2>2. ImportsShape'
    BY <2>1 DEF RoutingsInv, ImportsShape
  <2> QED BY <2>1, <2>2, ActivateStep
<1>4. ASSUME NEW id \in RoutingSet(routings), NEW rule, SaveRule(id, rule) PROVE RoutingsInv'
  BY <1>4, RulesStep DEF SaveRule
<1>5. ASSUME NEW id \in RoutingSet(routings), NEW ids, DeleteRules(id, ids) PROVE RoutingsInv'
  BY <1>5, RulesStep DEF DeleteRules
<1>6. ASSUME NEW id \in RoutingSet(routings), NEW index, NEW action, NEW position,
             MoveRule(id, index, action, position)
      PROVE  RoutingsInv'
  BY <1>6, RulesStep DEF MoveRule
<1>7. ASSUME (\E template \in Templates : PrepareImport(template)) \/ PrepareBuiltin
      PROVE  RoutingsInv'
  BY <1>7, PrepareStep
<1>8. ASSUME NEW p \in imports, ApplyImport(p) PROVE RoutingsInv'
  BY <1>8, ApplyStep
<1>9. CASE UNCHANGED routingsVars
  BY <1>9 DEF routingsVars, RoutingsInv, RowsShape, RowShape, RoutingSet, ImportsShape
<1> QED
  BY <1>1, <1>2, <1>3, <1>4, <1>5, <1>6, <1>7, <1>8, <1>9 DEF RoutingsNext

\* Whatever routings are saved, imported from templates and deleted, in any
\* order: one is active whenever there is any, the configuration and the
\* database name the same, and no deletion is refused (routing/manager.rs).
THEOREM RoutingIsActive == RoutingsSpec => []OneRoutingIsActive
<1>1. RoutingsInit => RoutingsInv
  <2> SUFFICES ASSUME RoutingsInit PROVE RoutingsInv
    OBVIOUS
  <2>1. <<>> \in Seq(ToSet(<<>>)) /\ ToSet(<<>>) = {}
    BY EmptySeq DEF ToSet
  <2> QED BY <2>1 DEF RoutingsInit, RoutingsInv, RowsShape, ImportsShape
<1> QED BY <1>1, RoutingsStep, ActiveIsThere, PTL DEF RoutingsSpec

-----------------------------------------------------------------------------
(* The routings of the built-in template (Routings).                         *)

\* No id is given twice, and no more of the routings are built in than the
\* built-in template has.
IdsOnce(table) == \A i, j \in 1 .. Len(table) : table[i].id = table[j].id => i = j
BuiltIds(table) == {r.id : r \in {x \in ToSet(table) : x.builtin}}
ImportsBuiltin ==
    \A p \in imports : IF p.builtin THEN Len(p.items) <= BuiltinItems
                       ELSE \A i \in 1 .. Len(p.items) : ~p.items[i].builtin
BuiltinInv ==
    /\ IdsOnce(routings)
    /\ Cardinality(BuiltIds(routings)) <= BuiltinItems
    /\ ImportsBuiltin

\* What the places of a table say of its built-in routings.
LEMMA BuiltAre ==
    ASSUME NEW table, RowsShape(table)
    PROVE  /\ \A x : x \in BuiltIds(table) <=>
                        \E i \in 1 .. Len(table) : x = table[i].id /\ table[i].builtin
           /\ BuiltIds(table) \subseteq RoutingIds
<1>1. DOMAIN table = 1 .. Len(table) /\ \A i \in 1 .. Len(table) : table[i].id \in RoutingIds
  BY RowsOf DEF RowShape
<1>2. \A x : x \in BuiltIds(table) <=>
               \E i \in 1 .. Len(table) : x = table[i].id /\ table[i].builtin
  <2>1. ToSet(table) = {table[i] : i \in 1 .. Len(table)}
    BY <1>1 DEF ToSet
  <2> QED BY <2>1 DEF BuiltIds
<1> QED BY <1>1, <1>2

LEMMA IdsFinite == ASSUME NEW S \in SUBSET RoutingIds
                   PROVE  IsFiniteSet(S) /\ Cardinality(S) \in Nat
<1>1. IsFiniteSet(S)
  BY RoutingsBounds, FS_Subset
<1> QED BY <1>1, FS_CardinalityType

\* Fewer routings are no more built-in ones.
LEMMA FewerBuilt ==
    ASSUME BuiltinInv, RowsShape(routings), NEW new, BuiltIds(new) \subseteq BuiltIds(routings)
    PROVE  Cardinality(BuiltIds(new)) <= BuiltinItems
<1>1. IsFiniteSet(BuiltIds(routings)) /\ Cardinality(BuiltIds(routings)) \in Nat
  BY BuiltAre, IdsFinite
<1>2. Cardinality(BuiltIds(new)) <= Cardinality(BuiltIds(routings))
      /\ IsFiniteSet(BuiltIds(new))
  BY <1>1, FS_Subset
<1>3. Cardinality(BuiltIds(new)) \in Nat
  BY <1>2, FS_CardinalityType
<1>4. PICK a, b, c : a = Cardinality(BuiltIds(new)) /\ b = Cardinality(BuiltIds(routings))
                     /\ c = BuiltinItems
  OBVIOUS
<1>5. a \in Nat /\ b \in Nat /\ c \in Nat /\ a <= b /\ b <= c
  BY <1>1, <1>2, <1>3, <1>4, RoutingsBounds DEF BuiltinInv
<1>6. a <= c
  BY ONLY <1>5
<1> QED BY <1>4, <1>6

\* Some rows of a table have their ids once and bring nothing built in.
LEMMA RowsOnce ==
    ASSUME NEW table, RowsShape(table), IdsOnce(table), NEW wanted, wanted \subseteq ToSet(table),
           NEW t, t = RowsIn(table, wanted)
    PROVE  IdsOnce(t) /\ BuiltIds(t) \subseteq BuiltIds(table)
<1>1. table \in Seq(ToSet(table)) /\ RowsShape(t) /\ ToSet(t) = wanted
  BY RowsChosen DEF RowsShape
<1>2. \A i, j \in 1 .. Len(table) : table[i] = table[j] => i = j
  BY DEF IdsOnce
<1>3. \A i, j \in 1 .. Len(t) : t[i] = t[j] => i = j
  BY <1>1, <1>2, RowsInOnce
<1>4. \A i \in 1 .. Len(t) : t[i] \in ToSet(table)
  BY <1>1, RowsOf
<1>5. \A r \in ToSet(table) : \E i \in 1 .. Len(table) : r = table[i]
  <2>1. DOMAIN table = 1 .. Len(table)
    BY RowsOf
  <2> QED BY <2>1 DEF ToSet
<1>6. \A r, s \in ToSet(table) : r.id = s.id => r = s
  BY <1>5 DEF IdsOnce
<1>7. \A i, j \in 1 .. Len(t) : t[i].id = t[j].id => i = j
  BY <1>3, <1>4, <1>6
<1> QED BY <1>1, <1>7 DEF IdsOnce, BuiltIds

\* A row that is put among others with other ids.
LEMMA InsertedIs ==
    ASSUME NEW table, RowsShape(table), NEW item, RowShape(item),
           NEW place \in 1 .. Len(table) + 1, NEW t, t = InsertAt(table, place, item)
    PROVE  /\ Len(t) = Len(table) + 1 /\ Len(table) \in Nat
           /\ \A i \in 1 .. Len(t) : t[i] = IF i < place THEN table[i]
                                            ELSE IF i = place THEN item ELSE table[i - 1]
<1> DEFINE S == ToSet(table) \cup {item}
<1>1. PICK n : n = Len(table)
  OBVIOUS
<1>2. n \in Nat /\ place \in 1 .. n + 1 /\ \A i \in 1 .. n : table[i] \in S
  BY <1>1, RowsOf
<1>3. item \in S
  OBVIOUS
<1> HIDE DEF S
<1>4. place \in Int /\ place - 1 \in Int /\ n \in Int /\ 1 \in Int
      /\ (\A i \in 1 .. place - 1 : i \in 1 .. n) /\ (\A i \in place .. n : i \in 1 .. n)
  BY <1>2
<1>5. PICK a, b : a = SubSeq(table, 1, place - 1) /\ b = SubSeq(table, place, n)
  OBVIOUS
<1>6. a \in Seq(S) /\ Len(a) = place - 1 /\ \A i \in 1 .. place - 1 : a[i] = table[i]
  <2>1. \A i \in 1 .. place - 1 : table[i] \in S
    BY <1>2, <1>4
  <2>2. /\ a \in Seq(S) /\ Len(a) = IF 1 <= place - 1 THEN place - 1 - 1 + 1 ELSE 0
        /\ \A i \in 1 .. place - 1 - 1 + 1 : a[i] = table[1 + i - 1]
    BY <1>4, <1>5, <2>1, SubSeqProperties
  <2>3. \A i \in 1 .. place - 1 : i \in 1 .. place - 1 - 1 + 1 /\ 1 + i - 1 = i
    BY <1>2
  <2>4. (IF 1 <= place - 1 THEN place - 1 - 1 + 1 ELSE 0) = place - 1
    BY <1>2
  <2> QED BY <2>2, <2>3, <2>4
<1>7. b \in Seq(S) /\ Len(b) = n - place + 1 /\ \A i \in 1 .. n - place + 1 : b[i] = table[place + i - 1]
  <2>1. \A i \in place .. n : table[i] \in S
    BY <1>2, <1>4
  <2>2. /\ b \in Seq(S) /\ Len(b) = IF place <= n THEN n - place + 1 ELSE 0
        /\ \A i \in 1 .. n - place + 1 : b[i] = table[place + i - 1]
    BY <1>4, <1>5, <2>1, SubSeqProperties
  <2>3. (IF place <= n THEN n - place + 1 ELSE 0) = n - place + 1
    BY <1>2
  <2> QED BY <2>2, <2>3
<1>8. PICK m, c : m = <<item>> /\ c = a \o m
  OBVIOUS
<1>9. m \in Seq(S) /\ Len(m) = 1 /\ m[1] = item
  BY <1>3, <1>8
<1>10. c \in Seq(S) /\ Len(c) = place /\ \A i \in 1 .. place : c[i] = IF i < place THEN table[i] ELSE item
  <2>1. /\ c \in Seq(S) /\ Len(c) = Len(a) + Len(m)
        /\ \A i \in 1 .. Len(a) + Len(m) : c[i] = IF i <= Len(a) THEN a[i] ELSE m[i - Len(a)]
    BY <1>6, <1>8, <1>9, ConcatProperties
  <2>2. Len(a) + Len(m) = place
    BY <1>2, <1>6, <1>9
  <2>3. \A i \in 1 .. place : (i < place => i <= Len(a) /\ i \in 1 .. place - 1)
                              /\ (~(i < place) => ~(i <= Len(a)) /\ i - Len(a) = 1)
    BY <1>2, <1>6
  <2> QED BY <1>6, <1>9, <2>1, <2>2, <2>3
<1>11. t = c \o b
  BY <1>1, <1>5, <1>8 DEF InsertAt
<1>12. /\ Len(t) = Len(c) + Len(b)
       /\ \A i \in 1 .. Len(c) + Len(b) : t[i] = IF i <= Len(c) THEN c[i] ELSE b[i - Len(c)]
  <2>1. b \in Seq(S) /\ c \in Seq(S)
    BY <1>7, <1>10
  <2> QED BY <1>11, <2>1, ConcatProperties
<1>13. Len(c) + Len(b) = n + 1
  BY <1>2, <1>7, <1>10
<1>14. ASSUME NEW i \in 1 .. n + 1
       PROVE  t[i] = IF i < place THEN table[i] ELSE IF i = place THEN item ELSE table[i - 1]
  <2>1. t[i] = IF i <= place THEN c[i] ELSE b[i - place]
    BY <1>10, <1>12, <1>13
  <2>2. CASE i <= place
    <3>1. i \in 1 .. place /\ (i < place \/ i = place)
      BY <1>2, <2>2
    <3> QED BY <1>2, <1>10, <2>1, <2>2, <3>1
  <2>3. CASE ~(i <= place)
    <3>1. i - place \in 1 .. n - place + 1 /\ place + (i - place) - 1 = i - 1
          /\ ~(i < place) /\ i # place
      BY <1>2, <2>3
    <3> QED BY <1>7, <2>1, <2>3, <3>1
  <2> QED BY <2>2, <2>3
<1> QED BY <1>1, <1>2, <1>12, <1>13, <1>14

\* So ids stay once, and only the row itself may be built in besides.
LEMMA InsertedOnce ==
    ASSUME NEW table, RowsShape(table), IdsOnce(table), NEW item, RowShape(item),
           item.id \notin RoutingSet(table),
           NEW place \in 1 .. Len(table) + 1, NEW t, t = InsertAt(table, place, item)
    PROVE  /\ IdsOnce(t)
           /\ BuiltIds(t) \subseteq BuiltIds(table) \cup (IF item.builtin THEN {item.id} ELSE {})
<1>1. PICK n : n = Len(table)
  OBVIOUS
<1>2. /\ n \in Nat /\ Len(t) = n + 1 /\ place \in 1 .. n + 1
      /\ \A i \in 1 .. n + 1 : t[i] = IF i < place THEN table[i]
                                     ELSE IF i = place THEN item ELSE table[i - 1]
  BY <1>1, InsertedIs
<1>3. \A i \in 1 .. n : table[i].id # item.id
  BY <1>1, RowsOf DEF RoutingSet
<1>4. \A i \in 1 .. n + 1 :
         \/ i < place /\ i \in 1 .. n /\ t[i] = table[i]
         \/ i = place /\ t[i] = item
         \/ place < i /\ i - 1 \in 1 .. n /\ t[i] = table[i - 1]
  <2> TAKE i \in 1 .. n + 1
  <2>1. /\ (i < place => i \in 1 .. n)
        /\ (~(i < place) /\ i # place => place < i /\ i - 1 \in 1 .. n)
    BY <1>2
  <2>2. i = place => ~(i < place)
    BY <1>2
  <2> QED BY <1>2, <2>1, <2>2
<1>5. \A i, j \in 1 .. n : table[i].id = table[j].id => i = j
  BY <1>1 DEF IdsOnce
<1>6. IdsOnce(t)
  <2> SUFFICES ASSUME NEW i \in 1 .. n + 1, NEW j \in 1 .. n + 1, t[i].id = t[j].id
               PROVE  i = j
    BY <1>2 DEF IdsOnce
  <2>1. i \in Int /\ j \in Int /\ place \in Int
    BY <1>2
  <2>2. CASE i < place /\ i \in 1 .. n /\ t[i] = table[i]
    <3>1. CASE j < place /\ j \in 1 .. n /\ t[j] = table[j]
      BY <1>5, <2>2, <3>1
    <3>2. CASE j = place /\ t[j] = item
      BY <1>3, <2>2, <3>2
    <3>3. CASE place < j /\ j - 1 \in 1 .. n /\ t[j] = table[j - 1]
      <4>1. i = j - 1
        BY <1>5, <2>2, <3>3
      <4> QED BY <2>1, <2>2, <3>3, <4>1
    <3> QED BY <1>4, <3>1, <3>2, <3>3
  <2>3. CASE i = place /\ t[i] = item
    <3>1. j = place
      BY <1>3, <1>4, <2>3
    <3> QED BY <2>3, <3>1
  <2>4. CASE place < i /\ i - 1 \in 1 .. n /\ t[i] = table[i - 1]
    <3>1. CASE j < place /\ j \in 1 .. n /\ t[j] = table[j]
      <4>1. j = i - 1
        BY <1>5, <2>4, <3>1
      <4> QED BY <2>1, <2>4, <3>1, <4>1
    <3>2. CASE j = place /\ t[j] = item
      BY <1>3, <2>4, <3>2
    <3>3. CASE place < j /\ j - 1 \in 1 .. n /\ t[j] = table[j - 1]
      <4>1. i - 1 = j - 1
        BY <1>5, <2>4, <3>3
      <4> QED BY <2>1, <4>1
    <3> QED BY <1>4, <3>1, <3>2, <3>3
  <2> QED BY <1>4, <2>2, <2>3, <2>4
<1>7. ASSUME NEW x \in BuiltIds(t)
      PROVE  x \in BuiltIds(table) \/ (item.builtin /\ x = item.id)
  <2>1. RowsShape(t)
    BY Inserted
  <2>2. PICK i \in 1 .. n + 1 : x = t[i].id /\ t[i].builtin
    BY <1>2, <2>1, BuiltAre
  <2>3. CASE t[i] = item
    BY <2>2, <2>3
  <2>4. CASE t[i] # item
    <3>1. PICK j \in 1 .. n : t[i] = table[j]
      BY <1>4, <2>4
    <3>2. x = table[j].id /\ table[j].builtin
      BY <2>2, <3>1
    <3> QED BY <1>1, <3>2, BuiltAre
  <2> QED BY <2>3, <2>4
<1> QED BY <1>6, <1>7

\* A step that leaves the ids once and few built-in routings.
LEMMA BuiltFew ==
    ASSUME NEW new, IdsOnce(new), Cardinality(BuiltIds(new)) <= BuiltinItems,
           ImportsBuiltin', routings' = new
    PROVE  BuiltinInv'
BY DEF BuiltinInv, IdsOnce, BuiltIds, ToSet

\* A step that brings nothing built in.
LEMMA BuiltKept ==
    ASSUME RowsShape(routings), BuiltinInv, NEW new, IdsOnce(new), BuiltIds(new) \subseteq BuiltIds(routings),
           ImportsBuiltin', routings' = new
    PROVE  BuiltinInv'
<1>1. Cardinality(BuiltIds(new)) <= BuiltinItems
  BY FewerBuilt
<1> QED BY <1>1, BuiltFew

\* A step that is refused.
LEMMA BuiltSame ==
    ASSUME BuiltinInv, ImportsBuiltin', routings' = routings
    PROVE  BuiltinInv'
BY DEF BuiltinInv, IdsOnce, BuiltIds, ToSet

\* Saving a routing: one that is built in was that before.
LEMMA SaveBuilt ==
    ASSUME RoutingsInv, BuiltinInv, ImportsBuiltin', NEW item, RowShape(item), NEW place,
           Saved(item, place), item.builtin => item.id \in BuiltIds(routings)
    PROVE  BuiltinInv'
<1>1. PICK wanted : wanted = {r \in ToSet(routings) : r.id # item.id}
  OBVIOUS
<1>2. PICK others :
         /\ others = RowsIn(routings, wanted) /\ RowsShape(others) /\ ToSet(others) = wanted
         /\ place \in 1 .. Len(others) + 1
         /\ routings' \in {InsertAt(others, place, item), routings}
  BY <1>1 DEF Saved
<1>3. PICK new : new = InsertAt(others, place, item)
  OBVIOUS
<1>4. RowsShape(routings) /\ IdsOnce(routings)
  BY DEF RoutingsInv, BuiltinInv
<1>5. IdsOnce(others) /\ BuiltIds(others) \subseteq BuiltIds(routings)
  <2>1. wanted \subseteq ToSet(routings)
    BY <1>1
  <2> QED BY <1>2, <1>4, <2>1, RowsOnce
<1>6. item.id \notin RoutingSet(others)
  <2>1. RoutingSet(others) = {r.id : r \in wanted}
    BY <1>2, RowsOf
  <2> QED BY <1>1, <2>1
<1>7. IdsOnce(new) /\ BuiltIds(new) \subseteq BuiltIds(others) \cup (IF item.builtin THEN {item.id} ELSE {})
  BY <1>2, <1>3, <1>5, <1>6, InsertedOnce
<1>8. BuiltIds(new) \subseteq BuiltIds(routings)
  BY <1>5, <1>7
<1>9. CASE routings' = new
  BY <1>4, <1>7, <1>8, <1>9, BuiltKept
<1>10. CASE routings' = routings
  BY <1>10, BuiltSame
<1> QED BY <1>2, <1>3, <1>9, <1>10

LEMMA DeleteBuilt ==
    ASSUME RoutingsInv, BuiltinInv, ImportsBuiltin', Deleted
    PROVE  BuiltinInv'
<1>1. PICK wanted \in SUBSET ToSet(routings) : routings' \in {RowsIn(routings, wanted), routings}
  BY DEF Deleted
<1>2. PICK new : new = RowsIn(routings, wanted)
  OBVIOUS
<1>3. RowsShape(routings) /\ IdsOnce(routings)
  BY DEF RoutingsInv, BuiltinInv
<1>4. IdsOnce(new) /\ BuiltIds(new) \subseteq BuiltIds(routings)
  BY <1>2, <1>3, RowsOnce
<1>5. CASE routings' = new
  BY <1>3, <1>4, <1>5, BuiltKept
<1>6. CASE routings' = routings
  BY <1>6, BuiltSame
<1> QED BY <1>1, <1>2, <1>5, <1>6

\* Changing the rules of a routing.
LEMMA RulesBuilt ==
    ASSUME RoutingsInv, BuiltinInv, ImportsBuiltin', SameRows(routings, routings')
    PROVE  BuiltinInv'
<1>1. PICK new, n : new = routings' /\ n = Len(routings)
  OBVIOUS
<1>2. /\ DOMAIN new = 1 .. n /\ Len(new) = n
      /\ \A i \in 1 .. n : new[i].id = routings[i].id /\ new[i].builtin = routings[i].builtin
  BY <1>1 DEF SameRows
<1>3. RowsShape(routings) /\ \A i, j \in 1 .. n : routings[i].id = routings[j].id => i = j
  BY <1>1 DEF RoutingsInv, BuiltinInv, IdsOnce
<1>4. IdsOnce(new)
  BY <1>2, <1>3 DEF IdsOnce
<1>5. ASSUME NEW x \in BuiltIds(new) PROVE x \in BuiltIds(routings)
  <2>1. ToSet(new) = {new[i] : i \in 1 .. n}
    BY <1>2 DEF ToSet
  <2>2. PICK i \in 1 .. n : x = new[i].id /\ new[i].builtin
    BY <2>1 DEF BuiltIds
  <2>3. x = routings[i].id /\ routings[i].builtin
    BY <1>2, <2>2
  <2> QED BY <1>1, <1>3, <2>3, BuiltAre
<1> QED BY <1>1, <1>3, <1>4, <1>5, BuiltKept

\* Routings with new ids after those that are there.
LEMMA AppendedOnce ==
    ASSUME NEW table, RowsShape(table), IdsOnce(table), NEW items, RowsShape(items), IdsOnce(items),
           \A i \in 1 .. Len(items) : items[i].id \notin RoutingSet(table),
           NEW t, t = table \o items
    PROVE  IdsOnce(t) /\ BuiltIds(t) \subseteq BuiltIds(table) \cup BuiltIds(items)
<1>1. PICK n, m : n = Len(table) /\ m = Len(items)
  OBVIOUS
<1>2. n \in Nat /\ m \in Nat
  BY <1>1, RowsOf
<1> DEFINE S == ToSet(table) \cup ToSet(items)
<1>3. table \in Seq(S) /\ items \in Seq(S)
  BY SeqMonotonic DEF RowsShape
<1> HIDE DEF S
<1>4. /\ Len(t) = n + m /\ DOMAIN t = 1 .. n + m
      /\ \A i \in 1 .. n + m : t[i] = IF i <= n THEN table[i] ELSE items[i - n]
  <2>1. /\ t \in Seq(S) /\ Len(t) = n + m
        /\ \A i \in 1 .. n + m : t[i] = IF i <= n THEN table[i] ELSE items[i - n]
    BY <1>1, <1>3, ConcatProperties
  <2> QED BY <2>1, LenProperties
<1>5. \A i \in 1 .. n + m :
         \/ i \in 1 .. n /\ t[i] = table[i]
         \/ ~(i <= n) /\ i - n \in 1 .. m /\ t[i] = items[i - n]
  <2> TAKE i \in 1 .. n + m
  <2>1. (i <= n => i \in 1 .. n) /\ (~(i <= n) => i - n \in 1 .. m)
    BY <1>2
  <2> QED BY <1>4, <2>1
<1>6. /\ \A i \in 1 .. n : table[i].id \in RoutingSet(table)
      /\ \A i \in 1 .. m : items[i].id \notin RoutingSet(table)
      /\ \A i, j \in 1 .. n : table[i].id = table[j].id => i = j
      /\ \A i, j \in 1 .. m : items[i].id = items[j].id => i = j
  BY <1>1, RowsOf DEF RoutingSet, IdsOnce
<1>7. IdsOnce(t)
  <2> SUFFICES ASSUME NEW i \in 1 .. n + m, NEW j \in 1 .. n + m, t[i].id = t[j].id
               PROVE  i = j
    BY <1>4 DEF IdsOnce
  <2>1. CASE i \in 1 .. n /\ t[i] = table[i]
    <3>1. t[j].id \in RoutingSet(table)
      BY <1>6, <2>1
    <3>2. ~(j - n \in 1 .. m /\ t[j] = items[j - n])
      BY <1>6, <3>1
    <3>3. j \in 1 .. n /\ t[j] = table[j]
      BY <1>5, <3>2
    <3> QED BY <1>6, <2>1, <3>3
  <2>2. CASE ~(i <= n) /\ i - n \in 1 .. m /\ t[i] = items[i - n]
    <3>1. ~(j <= n) /\ j - n \in 1 .. m /\ t[j] = items[j - n]
      BY <1>5, <1>6, <2>2
    <3>2. i - n = j - n
      BY <1>6, <2>2, <3>1
    <3>3. i \in Int /\ j \in Int /\ n \in Int
      BY <1>2
    <3> QED BY <3>2, <3>3
  <2> QED BY <1>5, <2>1, <2>2
<1>8. ASSUME NEW x \in BuiltIds(t) PROVE x \in BuiltIds(table) \cup BuiltIds(items)
  <2>1. ToSet(t) = {t[i] : i \in 1 .. n + m}
    BY <1>4 DEF ToSet
  <2>2. PICK i \in 1 .. n + m : x = t[i].id /\ t[i].builtin
    BY <2>1 DEF BuiltIds
  <2>3. CASE i \in 1 .. n /\ t[i] = table[i]
    BY <1>1, <2>2, <2>3, BuiltAre
  <2>4. CASE ~(i <= n) /\ i - n \in 1 .. m /\ t[i] = items[i - n]
    <3>1. PICK j \in 1 .. m : t[i] = items[j]
      BY <2>4
    <3>2. x = items[j].id /\ items[j].builtin
      BY <2>2, <3>1
    <3> QED BY <1>1, <3>2, BuiltAre
  <2> QED BY <1>5, <2>3, <2>4
<1> QED BY <1>7, <1>8

\* Applying a template: the built-in one brings its routings only when there are
\* none of it.
LEMMA ApplyBuilt ==
    ASSUME RoutingsInv, BuiltinInv, ImportsBuiltin', NEW p \in imports,
           Len(routings) + Len(p.items) <= MaxRoutings, Appended(p)
    PROVE  BuiltinInv'
<1>1. CASE routings' = routings
  BY <1>1, BuiltSame
<1>2. CASE routings' # routings
  <2>1. PICK items : \E ids \in SetToSeqs(NewRoutingIds) :
          /\ p.builtin => {r \in ToSet(routings) : r.builtin} = {}
          /\ RowsShape(items) /\ Len(items) = Len(p.items)
          /\ \A i \in 1 .. Len(p.items) :
                items[i].id = ids[i] /\ items[i].builtin = p.items[i].builtin
          /\ routings' = routings \o items
    BY <1>2 DEF Appended
  <2>2. PICK ids \in SetToSeqs(NewRoutingIds) :
          /\ p.builtin => {r \in ToSet(routings) : r.builtin} = {}
          /\ RowsShape(items) /\ Len(items) = Len(p.items)
          /\ \A i \in 1 .. Len(p.items) :
                items[i].id = ids[i] /\ items[i].builtin = p.items[i].builtin
          /\ routings' = routings \o items
    BY <2>1
  <2>3. PICK n, new : n = Len(p.items) /\ new = routings \o items
    OBVIOUS
  <2>4. n \in Nat /\ Len(items) = n
    BY <2>2, <2>3, RowsOf
  <2>5. /\ \A i \in 1 .. n : ids[i] \notin RoutingSet(routings)
        /\ \A i, j \in 1 .. n : ids[i] = ids[j] => i = j
    BY <2>3, <2>4, NewIds
  <2>6. \A i \in 1 .. n : items[i].id = ids[i] /\ items[i].builtin = p.items[i].builtin
    BY <2>2, <2>3
  <2>7. IdsOnce(items) /\ \A i \in 1 .. Len(items) : items[i].id \notin RoutingSet(routings)
    BY <2>4, <2>5, <2>6 DEF IdsOnce
  <2>8. RowsShape(routings) /\ IdsOnce(routings) /\ RowsShape(items)
    BY <2>2 DEF RoutingsInv, BuiltinInv
  <2>9. IdsOnce(new) /\ BuiltIds(new) \subseteq BuiltIds(routings) \cup BuiltIds(items)
    BY <2>3, <2>7, <2>8, AppendedOnce
  <2>10. IF p.builtin THEN n <= BuiltinItems ELSE \A i \in 1 .. n : ~p.items[i].builtin
    BY <2>3 DEF BuiltinInv, ImportsBuiltin
  <2>11. CASE p.builtin
    <3>1. BuiltIds(routings) = {}
      <4>1. {r \in ToSet(routings) : r.builtin} = {}
        BY <2>2, <2>11
      <4> QED BY <4>1 DEF BuiltIds
    <3>2. IsFiniteSet(RoutingSet(items)) /\ Cardinality(RoutingSet(items)) \in 0 .. n
      BY <2>4, <2>8, IdsCount
    <3>3. BuiltIds(new) \subseteq RoutingSet(items)
      <4>1. RoutingSet(items) = {r.id : r \in ToSet(items)}
        BY <2>8, RowsOf
      <4>2. BuiltIds(items) \subseteq RoutingSet(items)
        BY <4>1 DEF BuiltIds
      <4> QED BY <2>9, <3>1, <4>2
    <3>4. IsFiniteSet(BuiltIds(new)) /\ Cardinality(BuiltIds(new)) <= Cardinality(RoutingSet(items))
      BY <3>2, <3>3, FS_Subset
    <3>5. PICK a, b, c : /\ a = Cardinality(BuiltIds(new)) /\ b = Cardinality(RoutingSet(items))
                         /\ c = BuiltinItems
      OBVIOUS
    <3>6. a \in Nat /\ b \in 0 .. n /\ n \in Nat /\ c \in Nat /\ n <= c /\ a <= b
      BY <2>4, <2>10, <2>11, <3>2, <3>4, <3>5, FS_CardinalityType, RoutingsBounds
    <3>7. a <= c
      BY ONLY <3>6
    <3>8. routings' = new /\ Cardinality(BuiltIds(new)) <= BuiltinItems
      BY <2>2, <2>3, <3>5, <3>7
    <3> QED BY <2>9, <3>8, BuiltFew
  <2>12. CASE ~p.builtin
    <3>1. BuiltIds(items) = {}
      <4>1. \A i \in 1 .. n : ~items[i].builtin
        BY <2>6, <2>10, <2>12
      <4> QED BY <2>4, <2>8, <4>1, BuiltAre
    <3>2. BuiltIds(new) \subseteq BuiltIds(routings) /\ routings' = new
      BY <2>2, <2>3, <2>9, <3>1
    <3> QED BY <2>8, <2>9, <3>2, BuiltKept
  <2> QED BY <2>11, <2>12
<1> QED BY <1>1, <1>2

\* What is prepared from a template of somebody else is not built in.
LEMMA PreparedBuilt ==
    ASSUME BuiltinInv, (\E template \in Templates : PrepareImport(template)) \/ PrepareBuiltin
    PROVE  ImportsBuiltin'
<1>1. ASSUME NEW template \in Templates, PrepareImport(template)
      PROVE  ImportsBuiltin'
  <2>1. template \in Seq(ToSet(template)) /\ template # <<>>
    BY <1>1, RoutingsBounds DEF PrepareImport, TemplateIsValid
  <2>2. PICK n : n = Len(template)
    OBVIOUS
  <2>3. n \in Nat \ {0} /\ DOMAIN template = 1 .. n
    BY <2>1, <2>2, LenProperties, EmptySeq
  <2>4. PICK t : t = [i \in 1 .. n |-> [builtin |-> FALSE, rules |-> template[i].rules]]
    OBVIOUS
  <2>5. DOMAIN t = 1 .. n /\ t = [i \in 1 .. n |-> t[i]] /\ \A i \in 1 .. n : ~t[i].builtin
    BY <2>4
  <2>6. Len(t) = n
    BY <2>3, <2>5, ListOf
  <2>7. PICK p : p = [builtin |-> FALSE, items |-> t]
    OBVIOUS
  <2>8. imports' = imports \cup {p}
    BY <1>1, <2>3, <2>4, <2>7 DEF PrepareImport
  <2>9. ~p.builtin /\ p.items = t
    BY <2>7
  <2>10. \A i \in 1 .. Len(p.items) : ~p.items[i].builtin
    BY <2>5, <2>6, <2>9
  <2> QED BY <2>8, <2>9, <2>10 DEF BuiltinInv, ImportsBuiltin
<1>2. ASSUME PrepareBuiltin PROVE ImportsBuiltin'
  <2>1. PICK n : n = BuiltinItems
    OBVIOUS
  <2>2. n \in Nat \ {0}
    BY <2>1, RoutingsBounds
  <2>3. PICK t : t = [i \in 1 .. n |-> [builtin |-> TRUE, rules |-> <<>>]]
    OBVIOUS
  <2>4. DOMAIN t = 1 .. n /\ t = [i \in 1 .. n |-> t[i]]
    BY <2>3
  <2>5. Len(t) = n
    BY <2>2, <2>4, ListOf
  <2>6. PICK p : p = [builtin |-> TRUE, items |-> t]
    OBVIOUS
  <2>7. imports' = imports \cup {p}
    BY <1>2, <2>1, <2>3, <2>6 DEF PrepareBuiltin
  <2>8. p.builtin /\ p.items = t /\ Len(p.items) <= BuiltinItems
    BY <2>1, <2>2, <2>5, <2>6
  <2> QED BY <2>7, <2>8 DEF BuiltinInv, ImportsBuiltin
<1> QED BY <1>1, <1>2

\* No step brings more of the built-in template than it has.
LEMMA BuiltinStep == RoutingsInv /\ BuiltinInv /\ [RoutingsNext]_routingsVars => BuiltinInv'
<1> SUFFICES ASSUME RoutingsInv, BuiltinInv, [RoutingsNext]_routingsVars PROVE BuiltinInv'
  OBVIOUS
<1>0. /\ RowsShape(routings) /\ DOMAIN routings = 1 .. Len(routings)
      /\ RoutingSet(routings) \subseteq RoutingIds
      /\ imports' = imports => ImportsBuiltin'
  BY RowsOf DEF RoutingsInv, BuiltinInv, ImportsBuiltin
<1>1. ASSUME NEW id \in RoutingSet(routings) \cup NewRoutingIds, NEW builtin \in BOOLEAN, NEW rules,
             id \in NewRoutingIds => ~builtin,
             id \in RoutingSet(routings) /\ builtin => routings[RoutingAt(routings, id)].builtin,
             NEW place \in 1 .. Cardinality(RoutingSet(routings) \ {id}) + 1,
             SaveRouting([id |-> id, builtin |-> builtin, rules |-> rules], place)
      PROVE  BuiltinInv'
  <2>1. PICK item : item = [id |-> id, builtin |-> builtin, rules |-> rules]
    OBVIOUS
  <2>2. RowShape(item) /\ item.id = id /\ item.builtin = builtin
    BY <1>0, <2>1 DEF RowShape, NewRoutingIds
  <2>3. SaveRouting(item, place) /\ imports' = imports
    BY <1>1, <2>1 DEF SaveRouting
  <2>4. Saved(item, place)
    BY <1>1, <2>2, <2>3, SaveStep
  <2>5. builtin => id \in BuiltIds(routings)
    <3> SUFFICES ASSUME builtin PROVE id \in BuiltIds(routings)
      OBVIOUS
    <3>1. PICK k : k = RoutingAt(routings, id)
      OBVIOUS
    <3>2. id \in RoutingSet(routings)
      BY <1>1
    <3>3. k \in DOMAIN routings /\ routings[k].id = id
      BY <3>1, <3>2 DEF RoutingAt, RoutingSet
    <3>4. routings[k].builtin
      BY <1>1, <3>1, <3>2
    <3> QED BY <1>0, <3>3, <3>4, BuiltAre
  <2> QED BY <1>0, <2>2, <2>3, <2>4, <2>5, SaveBuilt
<1>2. ASSUME NEW ids, DeleteRoutings(ids) PROVE BuiltinInv'
  <2>1. Deleted /\ imports' = imports
    BY <1>2, DeleteStep DEF DeleteRoutings
  <2> QED BY <1>0, <2>1, DeleteBuilt
<1>3. ASSUME NEW id \in RoutingSet(routings), SetActiveRouting(id) PROVE BuiltinInv'
  <2>1. CommitRoutings(Activated(Current, id)) /\ imports' = imports
    BY <1>3 DEF SetActiveRouting
  <2>2. ImportsShape'
    BY <2>1 DEF RoutingsInv, ImportsShape
  <2>3. routings' = routings
    BY <2>1, <2>2, ActivateStep
  <2> QED BY <1>0, <2>1, <2>3, BuiltSame
<1>4. ASSUME NEW id \in RoutingSet(routings), NEW rules, WithRules(id, rules) PROVE BuiltinInv'
  <2>1. SameRows(routings, routings') /\ imports' = imports
    BY <1>4, RulesStep DEF WithRules
  <2> QED BY <1>0, <2>1, RulesBuilt
<1>5. ASSUME NEW id \in RoutingSet(routings), NEW rule, SaveRule(id, rule) PROVE BuiltinInv'
  BY <1>4, <1>5 DEF SaveRule
<1>6. ASSUME NEW id \in RoutingSet(routings), NEW ids, DeleteRules(id, ids) PROVE BuiltinInv'
  BY <1>4, <1>6 DEF DeleteRules
<1>7. ASSUME NEW id \in RoutingSet(routings), NEW index, NEW action, NEW position,
             MoveRule(id, index, action, position)
      PROVE  BuiltinInv'
  BY <1>4, <1>7 DEF MoveRule
<1>8. ASSUME (\E template \in Templates : PrepareImport(template)) \/ PrepareBuiltin
      PROVE  BuiltinInv'
  <2>1. routings' = routings
    BY <1>8 DEF PrepareImport, PrepareBuiltin
  <2> QED BY <1>8, <2>1, PreparedBuilt, BuiltSame
<1>9. ASSUME NEW p \in imports, ApplyImport(p) PROVE BuiltinInv'
  <2>1. Len(routings) + Len(p.items) <= MaxRoutings /\ imports' = imports \ {p}
    BY <1>9 DEF ApplyImport
  <2>2. ImportsBuiltin'
    BY <2>1 DEF BuiltinInv, ImportsBuiltin
  <2>3. Appended(p)
    BY <1>9, ApplyStep
  <2> QED BY <2>1, <2>2, <2>3, ApplyBuilt
<1>10. CASE UNCHANGED routingsVars
  BY <1>0, <1>10, BuiltSame DEF routingsVars
<1> QED
  BY <1>1, <1>2, <1>3, <1>5, <1>6, <1>7, <1>8, <1>9, <1>10 DEF RoutingsNext

\* As no id is given twice, the places are no more than the ids.
LEMMA BuiltinIn == RoutingsInv /\ BuiltinInv => BuiltinTemplateOnce
<1> SUFFICES ASSUME RoutingsInv, BuiltinInv PROVE BuiltinTemplateOnce
  OBVIOUS
<1> DEFINE Places == {i \in DOMAIN routings : routings[i].builtin}
           f == [i \in Places |-> routings[i].id]
<1>1. RowsShape(routings) /\ DOMAIN routings = 1 .. Len(routings) /\ IdsOnce(routings)
  BY RowsOf DEF RoutingsInv, BuiltinInv
<1>2. f \in Injection(Places, BuiltIds(routings))
  <2>1. f \in [Places -> BuiltIds(routings)]
    BY <1>1, BuiltAre
  <2>2. \A i, j \in Places : f[i] = f[j] => i = j
    BY <1>1 DEF IdsOnce
  <2> QED BY <2>1, <2>2 DEF Injection, IsInjective
<1> HIDE DEF f, Places
<1>3. IsFiniteSet(BuiltIds(routings)) /\ Cardinality(BuiltIds(routings)) \in Nat
  BY <1>1, BuiltAre, IdsFinite
<1>4. IsFiniteSet(Places) /\ Cardinality(Places) <= Cardinality(BuiltIds(routings))
  BY <1>2, <1>3, FS_Injection
<1>5. PICK a, b, c : a = Cardinality(Places) /\ b = Cardinality(BuiltIds(routings)) /\ c = BuiltinItems
  OBVIOUS
<1>6. a \in Nat /\ b \in Nat /\ c \in Nat /\ a <= b /\ b <= c
  BY <1>3, <1>4, <1>5, FS_CardinalityType, RoutingsBounds DEF BuiltinInv
<1>7. a <= c
  BY ONLY <1>6
<1> QED BY <1>5, <1>7 DEF BuiltinTemplateOnce, Places

\* However many imports are prepared before one is applied, and whatever is
\* saved and deleted between: the routings of the built-in template are there
\* once (routing/manager.rs, apply_prepared_config_template).
THEOREM BuiltinComesOnce == RoutingsSpec => []BuiltinTemplateOnce
<1>1. RoutingsInit => RoutingsInv /\ BuiltinInv
  <2> SUFFICES ASSUME RoutingsInit PROVE RoutingsInv /\ BuiltinInv
    OBVIOUS
  <2>1. <<>> \in Seq(ToSet(<<>>)) /\ ToSet(<<>>) = {} /\ Len(<<>>) = 0
    BY EmptySeq DEF ToSet
  <2>2. RoutingsInv
    BY <2>1 DEF RoutingsInit, RoutingsInv, RowsShape, ImportsShape
  <2>3. IdsOnce(routings) /\ BuiltIds(routings) = {}
    BY <2>1 DEF RoutingsInit, IdsOnce, BuiltIds
  <2>4. Cardinality(BuiltIds(routings)) <= BuiltinItems
    BY <2>3, FS_EmptySet, RoutingsBounds
  <2> QED BY <2>2, <2>3, <2>4 DEF RoutingsInit, BuiltinInv, ImportsBuiltin
<1> QED BY <1>1, RoutingsStep, BuiltinStep, BuiltinIn, PTL DEF RoutingsSpec

-----------------------------------------------------------------------------
(* Profiles and subscriptions.                                              *)

ProfileShape(r) ==
    /\ r = [id |-> r.id, key |-> r.key, sub |-> r.sub]
    /\ r.id \in ProfileIds

\* A table of profiles, each id once.
TableShape(table) ==
    /\ table \in Seq(ToSet(table))
    /\ \A r \in ToSet(table) : ProfileShape(r)
    /\ \A i, j \in 1 .. Len(table) : table[i].id = table[j].id => i = j

Present == {s \in Subs : subItem[s] # "absent"}
\* The profiles of a table are of subscriptions that are there, or of none.
OfSubs(table, subs) == \A r \in ToSet(table) : r.sub \in subs \cup {NoSub}
ActiveIn(table, active) ==
    IF table = <<>> THEN active = NoId ELSE active \in RowIds(table)

\* What is prepared is something for a subscription that was enabled.
PreparedShape(updates) ==
    \A p \in updates : /\ p.sub \in Subs /\ p.item = "on"
                       /\ p.content \subseteq Keys /\ p.content # {}

ProfilesInv ==
    /\ TableShape(rows) /\ OfSubs(rows, Present) /\ ActiveIn(rows, indexId)
    /\ subItem \in [Subs -> SubItems] /\ subIndexId \in Present \cup {NoSub}
    /\ IsFiniteSet(prepared)
    /\ PreparedShape(prepared)

LEMMA TableOf ==
    ASSUME NEW table, TableShape(table)
    PROVE  /\ Len(table) \in Nat /\ DOMAIN table = 1 .. Len(table)
           /\ \A i \in 1 .. Len(table) : table[i] \in ToSet(table) /\ ProfileShape(table[i])
           /\ \A r \in ToSet(table) : \E i \in 1 .. Len(table) : r = table[i]
           /\ RowIds(table) = {r.id : r \in ToSet(table)}
           /\ RowIds(table) \subseteq ProfileIds /\ NoId \notin RowIds(table)
           /\ \A r, s \in ToSet(table) : r.id = s.id => r = s
           /\ table # <<>> => 1 \in 1 .. Len(table) /\ table[1].id \in RowIds(table)
           /\ table = <<>> => RowIds(table) = {}
<1>1. Len(table) \in Nat /\ DOMAIN table = 1 .. Len(table)
  BY LenProperties DEF TableShape
<1>2. \A i \in 1 .. Len(table) : table[i] \in ToSet(table) /\ ProfileShape(table[i])
  BY <1>1 DEF TableShape, ToSet
<1>3. RowIds(table) = {r.id : r \in ToSet(table)}
  BY DEF RowIds, ToSet
<1>4. RowIds(table) \subseteq ProfileIds
  BY <1>3 DEF TableShape, ProfileShape
<1>5. ASSUME table # <<>> PROVE 1 \in 1 .. Len(table) /\ table[1].id \in RowIds(table)
  <2>1. Len(table) # 0
    BY <1>5, EmptySeq DEF TableShape
  <2>2. 1 \in 1 .. Len(table)
    BY <1>1, <2>1
  <2>3. 1 \in DOMAIN table
    BY <1>1, <2>2
  <2> QED BY <2>2, <2>3 DEF RowIds
<1>6. \A r \in ToSet(table) : \E i \in 1 .. Len(table) : r = table[i]
  <2>1. ToSet(table) = {table[i] : i \in 1 .. Len(table)}
    BY <1>1 DEF ToSet
  <2> QED BY <2>1
<1>7. \A r, s \in ToSet(table) : r.id = s.id => r = s
  BY <1>6 DEF TableShape
<1>8. table = <<>> => RowIds(table) = {}
  BY DEF RowIds
<1> QED BY <1>1, <1>2, <1>3, <1>4, <1>5, <1>6, <1>7, <1>8, ProfilesBounds

\* Some profiles of a table are a table.
LEMMA SomeRows ==
    ASSUME NEW table, TableShape(table), NEW wanted, wanted \subseteq ToSet(table),
           NEW t, t = RowsIn(table, wanted)
    PROVE  TableShape(t) /\ ToSet(t) = wanted
<1>1. table \in Seq(ToSet(table))
  BY DEF TableShape
<1>2. t \in Seq(ToSet(table)) /\ ToSet(t) = ToSet(table) \cap wanted
  BY <1>1, RowsInIsRight
<1>3. ToSet(t) = wanted
  BY <1>2
<1>4. t \in Seq(ToSet(t)) /\ DOMAIN t = 1 .. Len(t)
  BY <1>2, OwnSeq, LenProperties
<1>5. \A i, j \in 1 .. Len(table) : table[i] = table[j] => i = j
  BY DEF TableShape
<1>6. \A i, j \in 1 .. Len(t) : t[i] = t[j] => i = j
  BY <1>1, <1>5, RowsInOnce
<1>7. \A i \in 1 .. Len(t) : t[i] \in ToSet(table)
  BY <1>3, <1>4 DEF ToSet
<1>8. \A r, s \in ToSet(table) : r.id = s.id => r = s
  BY TableOf
<1>9. \A i, j \in 1 .. Len(t) : t[i].id = t[j].id => i = j
  BY <1>6, <1>7, <1>8
<1> QED BY <1>3, <1>4, <1>9 DEF TableShape

\* ensure_active_profile finds an active profile when there is any.
LEMMA CatalogueIs ==
    ASSUME NEW table, TableShape(table), NEW active, NEW c, c = Catalogue(table, active)
    PROVE  /\ c = [rows |-> table, active |-> c.active] /\ c.rows = table
           /\ ActiveIn(table, c.active)
           /\ active \in RowIds(table) => c.active = active
<1>1. PICK e : e = EnsureActive(table, active)
  OBVIOUS
<1>2. ActiveIn(table, e)
  <2>1. CASE active \in RowIds(table)
    BY <1>1, <2>1, TableOf DEF EnsureActive, ActiveIn
  <2>2. CASE active \notin RowIds(table) /\ table = <<>>
    BY <1>1, <2>2 DEF EnsureActive, ActiveIn
  <2>3. CASE active \notin RowIds(table) /\ table # <<>>
    <3> DEFINE wanted == {r \in ToSet(table) : r.key \notin ComplexKeys}
    <3>1. PICK ported : ported = RowsIn(table, wanted)
      OBVIOUS
    <3>2. TableShape(ported) /\ ToSet(ported) = wanted
      BY <3>1, SomeRows
    <3>3. RowIds(ported) \subseteq RowIds(table)
      <4>1. RowIds(ported) = {r.id : r \in wanted} /\ RowIds(table) = {r.id : r \in ToSet(table)}
        BY <3>2, TableOf
      <4> QED BY <4>1
    <3>4. ported # <<>> => ported[1].id \in RowIds(table)
      BY <3>2, <3>3, TableOf
    <3>5. table[1].id \in RowIds(table)
      BY <2>3, TableOf
    <3>6. e = IF ported # <<>> THEN ported[1].id ELSE table[1].id
      BY <1>1, <2>3, <3>1 DEF EnsureActive
    <3> QED BY <2>3, <3>4, <3>5, <3>6 DEF ActiveIn
  <2> QED BY <2>1, <2>2, <2>3
<1>3. c = [rows |-> table, active |-> e]
  BY <1>1 DEF Catalogue
<1>4. active \in RowIds(table) => e = active
  BY <1>1 DEF EnsureActive
<1> QED BY <1>2, <1>3, <1>4

\* A command that leaves some of the profiles.
LEMMA LeftIs ==
    ASSUME NEW table, TableShape(table), NEW ids, NEW t, t = Without(table, ids)
    PROVE  TableShape(t) /\ ToSet(t) = {r \in ToSet(table) : r.id \notin ids}
BY SomeRows DEF Without

\* save_profile puts a row in the place of the one with its id, or at the end.
LEMMA SaveIs ==
    ASSUME NEW table, TableShape(table), NEW active, NEW cat,
           cat.rows = table /\ cat.active = active,
           NEW row, ProfileShape(row), NEW c, c = SaveProfile(cat, row)
    PROVE  /\ c = [rows |-> c.rows, active |-> c.active]
           /\ TableShape(c.rows) /\ ActiveIn(c.rows, c.active)
           /\ ToSet(c.rows) = {r \in ToSet(table) : r.id # row.id} \cup {row}
           /\ active \in RowIds(table) => c.active = active
<1> DEFINE S == ToSet(table) \cup {row}
<1>1. PICK t : t = IF row.id \in RowIds(table)
                   THEN [i \in DOMAIN table |-> IF table[i].id = row.id THEN row ELSE table[i]]
                   ELSE Append(table, row)
  OBVIOUS
<1>2. c = Catalogue(t, active)
  BY <1>1 DEF SaveProfile
<1>3. /\ Len(table) \in Nat /\ DOMAIN table = 1 .. Len(table)
      /\ \A i \in 1 .. Len(table) : table[i] \in ToSet(table) /\ ProfileShape(table[i])
      /\ \A r \in ToSet(table) : \E i \in 1 .. Len(table) : r = table[i]
      /\ \A r, s \in ToSet(table) : r.id = s.id => r = s
      /\ RowIds(table) = {r.id : r \in ToSet(table)}
  BY TableOf
<1>4. \A i, j \in 1 .. Len(table) : table[i].id = table[j].id => i = j
  BY DEF TableShape
<1>5. TableShape(t) /\ ToSet(t) = {r \in ToSet(table) : r.id # row.id} \cup {row}
  <2>1. CASE row.id \in RowIds(table)
    <3>1. /\ DOMAIN t = 1 .. Len(table)
          /\ t = [i \in 1 .. Len(table) |-> t[i]]
          /\ \A i \in 1 .. Len(table) : t[i] = IF table[i].id = row.id THEN row ELSE table[i]
      BY <1>1, <1>3, <2>1
    <3>2. PICK k \in 1 .. Len(table) : table[k].id = row.id
      BY <1>3, <2>1
    <3>3. Len(table) \in Nat \ {0}
      BY <1>3, <3>2
    <3>4. t \in Seq(ToSet(t)) /\ Len(t) = Len(table)
      BY <3>1, <3>3, ListOf
    <3>5. ToSet(t) = {r \in ToSet(table) : r.id # row.id} \cup {row}
      <4>1. ToSet(t) = {t[i] : i \in 1 .. Len(table)}
        BY <3>1 DEF ToSet
      <4>2. \A i \in 1 .. Len(table) : t[i] \in {r \in ToSet(table) : r.id # row.id} \cup {row}
        BY <1>3, <3>1
      <4>3. row \in ToSet(t)
        BY <3>1, <3>2, <4>1
      <4>4. ASSUME NEW r \in ToSet(table), r.id # row.id PROVE r \in ToSet(t)
        <5>1. PICK i \in 1 .. Len(table) : r = table[i]
          BY <1>3
        <5>2. t[i] = r
          BY <3>1, <4>4, <5>1
        <5> QED BY <4>1, <5>2
      <4> QED BY <4>1, <4>2, <4>3, <4>4
    <3>6. \A i \in 1 .. Len(table) : t[i].id = table[i].id
      BY <3>1
    <3>7. \A i, j \in 1 .. Len(t) : t[i].id = t[j].id => i = j
      BY <1>4, <3>4, <3>6
    <3>8. \A r \in ToSet(t) : ProfileShape(r)
      BY <3>5 DEF TableShape
    <3> QED BY <3>4, <3>5, <3>7, <3>8 DEF TableShape
  <2>2. CASE row.id \notin RowIds(table)
    <3>1. t = Append(table, row) /\ table \in Seq(S) /\ row \in S
      BY <1>1, <2>2, SeqMonotonic DEF TableShape
    <3> HIDE DEF S
    <3>2. /\ t \in Seq(S) /\ Len(t) = Len(table) + 1 /\ t[Len(table) + 1] = row
          /\ \A i \in 1 .. Len(table) : t[i] = table[i]
      BY <3>1, AppendProperties
    <3>3. t \in Seq(ToSet(t)) /\ ToSet(t) = {t[i] : i \in 1 .. Len(t)}
      BY <3>2, OwnSeq
    <3>4. \A i : i \in 1 .. Len(t) <=> i \in 1 .. Len(table) \/ i = Len(table) + 1
      BY <1>3, <3>2
    <3>5. ToSet(t) = ToSet(table) \cup {row}
      <4>1. ToSet(table) = {table[i] : i \in 1 .. Len(table)}
        BY <1>3 DEF ToSet
      <4> QED BY <3>2, <3>3, <3>4, <4>1
    <3>6. \A r \in ToSet(table) : r.id # row.id
      BY <1>3, <2>2
    <3>7. \A i \in 1 .. Len(table) : t[i].id # row.id
      BY <1>3, <3>2, <3>6
    <3>8. \A i, j \in 1 .. Len(t) : t[i].id = t[j].id => i = j
      BY <1>4, <3>2, <3>4, <3>7
    <3>9. \A r \in ToSet(t) : ProfileShape(r)
      BY <3>5 DEF TableShape
    <3> QED BY <3>3, <3>5, <3>6, <3>8, <3>9 DEF TableShape
  <2> QED BY <2>1, <2>2
<1>6. c.rows = t /\ c = [rows |-> t, active |-> c.active] /\ ActiveIn(t, c.active)
  BY <1>2, <1>5, CatalogueIs
<1>7. ASSUME active \in RowIds(table) PROVE c.active = active
  <2>1. RowIds(t) = {r.id : r \in ToSet(t)}
    BY <1>5, TableOf
  <2>2. active \in RowIds(t)
    BY <1>3, <1>5, <1>7, <2>1
  <2> QED BY <1>2, <1>5, <2>2, CatalogueIs
<1> QED BY <1>5, <1>6, <1>7

\* A match that is chosen is a match, and the active profile when that is one.
LEMMA CanonicalIs ==
    ASSUME NEW table, TableShape(table), NEW matches \in SUBSET RowIds(table), matches # {},
           NEW active, NEW sub
    PROVE  /\ CanonicalMatch(table, matches, active, sub) \in matches
           /\ active \in matches => CanonicalMatch(table, matches, active, sub) = active
<1> DEFINE rank(r) == (IF r.id = active THEN 0 ELSE 2)
                      + (IF sub # NoSub /\ r.sub = sub THEN 0 ELSE 1)
           places == {i \in DOMAIN table : table[i].id \in matches}
           ranks == {rank(table[i]) : i \in places}
           best == {i \in DOMAIN table : table[i].id \in matches
                      /\ \A j \in DOMAIN table : table[j].id \in matches =>
                            rank(table[i]) <= rank(table[j])}
<1>1. places # {}
  BY DEF RowIds
<1>2. \A r : rank(r) \in Nat
  OBVIOUS
<1>3. ranks \in SUBSET Nat /\ ranks # {}
  BY <1>1, <1>2
<1>4. PICK n \in ranks : \A m \in ranks : n <= m
  BY <1>3, LeastIndex
<1>5. PICK k \in places : n = rank(table[k])
  BY <1>4
<1>6. k \in best
  BY <1>4, <1>5
<1>7. best \in SUBSET Nat
  <2>1. DOMAIN table = 1 .. Len(table) /\ Len(table) \in Nat
    BY TableOf
  <2> QED BY <2>1
<1>8. \E i \in best : \A j \in best : i <= j
  BY <1>6, <1>7, LeastIndex
<1>9. PICK b : b = CHOOSE i \in best : \A j \in best : i <= j
  OBVIOUS
<1>10. b \in best
  BY <1>8, <1>9
<1>11. CanonicalMatch(table, matches, active, sub) = table[b].id
  BY <1>9 DEF CanonicalMatch
<1>12. ASSUME active \in matches PROVE table[b].id = active
  <2>1. PICK a \in DOMAIN table : table[a].id = active
    BY <1>12 DEF RowIds
  <2>2. rank(table[b]) <= rank(table[a])
    BY <1>10, <1>12, <2>1
  <2> QED BY <2>1, <2>2
<1> QED BY <1>10, <1>11, <1>12

\* A finite set as a list.
Once(list) == \A i, j \in 1 .. Len(list) : list[i] = list[j] => i = j
HasAll(list, S) == \A x \in S : \E i \in 1 .. Len(list) : list[i] = x

LEMMA ListOfSet ==
    ASSUME NEW S, IsFiniteSet(S), NEW list, list = SetToSeq(S)
    PROVE  /\ list \in Seq(S) /\ Len(list) \in Nat /\ Once(list) /\ HasAll(list, S)
<1>1. PICK n : n = Cardinality(S)
  OBVIOUS
<1>2. n \in Nat /\ ExistsBijection(1 .. n, S)
  BY <1>1, FS_CardinalityType
<1>3. \E f \in [1 .. n -> S] : IsInjective(f)
  <2>1. PICK f : f \in Bijection(1 .. n, S)
    BY <1>2 DEF ExistsBijection
  <2>2. f \in [1 .. n -> S] /\ \A a, b \in 1 .. n : f[a] = f[b] => a = b
    BY <2>1 DEF Bijection, Injection, Surjection, IsInjective
  <2> QED BY <2>2 DEF IsInjective
<1>4. list \in [1 .. n -> S] /\ IsInjective(list)
  BY <1>1, <1>3 DEF SetToSeq
<1>5. list \in Seq(S)
  BY <1>2, <1>4, SeqDef
<1>6. DOMAIN list = 1 .. Len(list) /\ Len(list) \in Nat
  BY <1>5, LenProperties
<1>7. list \in Surjection(1 .. n, S)
  <2>1. 1 \in Int /\ n \in Int
    BY <1>2
  <2>2. IsFiniteSet(1 .. n) /\ Cardinality(1 .. n) = IF 1 > n THEN 0 ELSE n - 1 + 1
    BY <2>1, FS_Interval, Zenon
  <2>3. Cardinality(1 .. n) = Cardinality(S)
    BY <1>1, <1>2, <2>2
  <2>4. list \in Injection(1 .. n, S)
    BY <1>4 DEF Injection, IsInjective
  <2> QED BY <2>3, <2>4, FS_Injection
<1>8. \A x \in S : \E i \in 1 .. Len(list) : list[i] = x
  <2>1. 1 .. Len(list) = 1 .. n
    BY <1>4, <1>6
  <2> QED BY <1>7, <2>1 DEF Surjection
<1> QED BY <1>4, <1>5, <1>6, <1>8 DEF IsInjective, Once, HasAll

KeysIn(table) == {r.key : r \in ToSet(table)}
IdCount(table) == Cardinality(RowIds(table))
KeyCount(table, keys) == Cardinality(keys \ KeysIn(table))

\* There are ids for what is new.
Room(table, keys) == KeyCount(table, keys) + IdCount(table) <= Cardinality(ProfileIds)

LEMMA Counts ==
    ASSUME NEW table, TableShape(table), NEW keys, IsFiniteSet(keys)
    PROVE  /\ IsFiniteSet(RowIds(table)) /\ IsFiniteSet(keys \ KeysIn(table))
           /\ IdCount(table) \in Nat /\ KeyCount(table, keys) \in Nat
           /\ Cardinality(ProfileIds) \in Nat
<1>1. RowIds(table) \in SUBSET ProfileIds /\ keys \ KeysIn(table) \in SUBSET keys
  BY TableOf
<1>2. IsFiniteSet(RowIds(table)) /\ IsFiniteSet(keys \ KeysIn(table))
  BY <1>1, FS_Subset, ProfilesBounds
<1> QED BY <1>2, FS_CardinalityType, ProfilesBounds DEF IdCount, KeyCount

\* A new key finds a new id, and leaves room for the others.
LEMMA RoomForNew ==
    ASSUME NEW table, TableShape(table), NEW keys, IsFiniteSet(keys), Room(table, keys),
           NEW key \in keys, key \notin KeysIn(table)
    PROVE  /\ FreshIds(table) # {}
           /\ \A t : TableShape(t) =>
                 \A id \in FreshIds(table) :
                     RowIds(t) = RowIds(table) \cup {id} /\ KeysIn(t) = KeysIn(table) \cup {key}
                        => Room(t, keys)
<1>1. /\ IsFiniteSet(RowIds(table)) /\ IsFiniteSet(keys \ KeysIn(table))
      /\ IdCount(table) \in Nat /\ KeyCount(table, keys) \in Nat
      /\ Cardinality(ProfileIds) \in Nat
  BY Counts
<1>2. KeyCount(table, keys) # 0
  BY <1>1, FS_EmptySet DEF KeyCount
<1>3. FreshIds(table) # {}
  <2> SUFFICES ASSUME FreshIds(table) = {} PROVE FALSE
    OBVIOUS
  <2>1. RowIds(table) = ProfileIds
    BY TableOf DEF FreshIds
  <2>2. IdCount(table) = Cardinality(ProfileIds)
    BY <2>1 DEF IdCount
  <2> QED BY <1>1, <1>2, <2>2 DEF Room
<1>4. ASSUME NEW t, TableShape(t), NEW id \in FreshIds(table),
             RowIds(t) = RowIds(table) \cup {id}, KeysIn(t) = KeysIn(table) \cup {key}
      PROVE  Room(t, keys)
  <2>1. IdCount(t) = IdCount(table) + 1
    BY <1>1, <1>4, FS_AddElement DEF IdCount, FreshIds
  <2>2. keys \ KeysIn(t) = (keys \ KeysIn(table)) \ {key}
    BY <1>4
  <2>3. KeyCount(t, keys) = KeyCount(table, keys) - 1
    BY <1>1, <2>2, FS_RemoveElement DEF KeyCount
  <2> QED BY <1>1, <2>1, <2>3 DEF Room
<1> QED BY <1>3, <1>4

\* A row that goes takes one key at most with it.
LEMMA RoomStays ==
    ASSUME NEW table, TableShape(table), NEW keys, IsFiniteSet(keys), Room(table, keys),
           NEW t, TableShape(t), ToSet(t) \subseteq ToSet(table)
    PROVE  Room(t, keys)
<1> DEFINE gone == RowIds(table) \ RowIds(t)
           lost == KeysIn(table) \ KeysIn(t)
           Of(i) == (CHOOSE r \in ToSet(table) : r.id = i).key
           f == [i \in {j \in gone : Of(j) \in lost} |-> Of(i)]
<1>1. /\ IsFiniteSet(RowIds(table)) /\ IsFiniteSet(keys \ KeysIn(table))
      /\ IdCount(table) \in Nat /\ KeyCount(table, keys) \in Nat
      /\ Cardinality(ProfileIds) \in Nat
      /\ IdCount(t) \in Nat /\ KeyCount(t, keys) \in Nat
  BY Counts
<1>2. /\ RowIds(table) = {r.id : r \in ToSet(table)} /\ RowIds(t) = {r.id : r \in ToSet(t)}
      /\ \A r, s \in ToSet(table) : r.id = s.id => r = s
  BY TableOf
<1>3. RowIds(t) \subseteq RowIds(table)
  BY <1>2
<1>4. IsFiniteSet(gone) /\ Cardinality(gone) = IdCount(table) - IdCount(t)
  <2>1. RowIds(table) \cap RowIds(t) = RowIds(t)
    BY <1>3
  <2> QED BY <1>1, <2>1, FS_Difference DEF IdCount
<1>5. f \in Surjection({j \in gone : Of(j) \in lost}, lost)
  <2>1. ASSUME NEW k \in lost PROVE \E i \in {j \in gone : Of(j) \in lost} : f[i] = k
    <3>1. PICK r \in ToSet(table) : r.key = k
      BY DEF KeysIn
    <3>2. Of(r.id) = k
      BY <1>2, <3>1
    <3>3. r.id \in gone
      <4>1. r \notin ToSet(t)
        BY <3>1 DEF KeysIn
      <4> QED BY <1>2, <4>1
    <3> QED BY <3>2, <3>3
  <2> QED BY <2>1 DEF Surjection
<1> HIDE DEF f
<1>6. IsFiniteSet(lost) /\ Cardinality(lost) \in Nat /\ Cardinality(lost) <= Cardinality(gone)
  <2>1. {j \in gone : Of(j) \in lost} \in SUBSET gone
    OBVIOUS
  <2>2. PICK d : d = {j \in gone : Of(j) \in lost}
    OBVIOUS
  <2>3. IsFiniteSet(d) /\ Cardinality(d) <= Cardinality(gone)
    BY <1>4, <2>1, <2>2, FS_Subset
  <2>4. f \in Surjection(d, lost)
    BY <1>5, <2>2
  <2>5. IsFiniteSet(lost) /\ Cardinality(lost) <= Cardinality(d)
    BY <2>3, <2>4, FS_Surjection
  <2>6. Cardinality(lost) \in Nat /\ Cardinality(d) \in Nat /\ Cardinality(gone) \in Nat
    BY <1>4, <2>3, <2>5, FS_CardinalityType
  <2> QED BY <2>3, <2>5, <2>6
<1>7. KeyCount(t, keys) <= KeyCount(table, keys) + Cardinality(lost)
  <2>1. PICK a, b : a = keys \ KeysIn(table) /\ b = lost
    OBVIOUS
  <2>2. IsFiniteSet(a) /\ IsFiniteSet(b) /\ keys \ KeysIn(t) \in SUBSET (a \cup b)
    BY <1>1, <1>6, <2>1
  <2>3. /\ IsFiniteSet(a \cup b)
        /\ Cardinality(a \cup b) = Cardinality(a) + Cardinality(b) - Cardinality(a \cap b)
    BY <2>2, FS_Union
  <2>4. a \cap b \in SUBSET b
    OBVIOUS
  <2>5. IsFiniteSet(a \cap b)
    BY <2>2, <2>4, FS_Subset
  <2>6. Cardinality(a \cap b) \in Nat
    BY <2>5, FS_CardinalityType
  <2>7. Cardinality(keys \ KeysIn(t)) <= Cardinality(a \cup b)
    BY <2>2, <2>3, FS_Subset
  <2>8. PICK x, y, z, u, v : /\ x = Cardinality(a) /\ y = Cardinality(b) /\ z = Cardinality(a \cap b)
                             /\ u = Cardinality(a \cup b) /\ v = Cardinality(keys \ KeysIn(t))
    OBVIOUS
  <2>9. x \in Nat /\ y \in Nat /\ z \in Nat /\ v \in Nat /\ u = x + y - z /\ v <= u
    BY <1>1, <1>6, <2>1, <2>3, <2>6, <2>7, <2>8 DEF KeyCount
  <2>10. v <= x + y
    BY ONLY <2>9
  <2> QED BY <2>1, <2>8, <2>10 DEF KeyCount
<1>8. PICK a, b, c, d, l, g, n :
         /\ a = IdCount(table) /\ b = KeyCount(table, keys) /\ c = IdCount(t)
         /\ d = KeyCount(t, keys) /\ l = Cardinality(lost) /\ g = Cardinality(gone)
         /\ n = Cardinality(ProfileIds)
  OBVIOUS
<1>9. /\ a \in Nat /\ b \in Nat /\ c \in Nat /\ d \in Nat /\ l \in Nat /\ n \in Nat
      /\ g = a - c /\ l <= g /\ d <= b + l /\ b + a <= n
  BY <1>1, <1>4, <1>6, <1>7, <1>8 DEF Room
<1>10. d + c <= n
  BY ONLY <1>9
<1> QED BY <1>8, <1>10 DEF Room

\* What an import has so far: the table stays right, has room for the keys, and
\* what is to be removed is not of a key that is still to come.
AccInv(acc, subs, keys, rest) ==
    /\ acc = [cat |-> acc.cat, sub |-> acc.sub, imported |-> acc.imported,
              duplicates |-> acc.duplicates]
    /\ acc.cat = [rows |-> acc.cat.rows, active |-> acc.cat.active]
    /\ TableShape(acc.cat.rows) /\ OfSubs(acc.cat.rows, subs)
    /\ ActiveIn(acc.cat.rows, acc.cat.active)
    /\ acc.sub \in subs \cup {NoSub}
    /\ Room(acc.cat.rows, keys)
    /\ \A r \in ToSet(acc.cat.rows) : r.id \in acc.duplicates => r.key \notin rest

\* How a profile of an import finds its id: a new one, or that of its like, the
\* active one if that is of its kind; the other ones of its kind are removed.
Finds(acc, k, id, more) ==
    \/ /\ id \in FreshIds(acc.cat.rows) /\ more = {} /\ k \notin KeysIn(acc.cat.rows)
    \/ /\ id \in RowIds(acc.cat.rows) \ acc.duplicates
       /\ more \subseteq RowIds(acc.cat.rows)
       /\ \A r \in ToSet(acc.cat.rows) :
             /\ r.id = id => r.key = k
             /\ r.id \in more <=> r.key = k /\ r.id # id
             /\ r.id = acc.cat.active /\ r.key = k => id = acc.cat.active

\* What the import of a profile does.
Effect(acc, a, k, id, more) ==
    /\ a = [cat |-> a.cat, sub |-> acc.sub, imported |-> acc.imported \cup {id},
            duplicates |-> acc.duplicates \cup more]
    /\ a.cat = [rows |-> a.cat.rows, active |-> a.cat.active]
    /\ TableShape(a.cat.rows) /\ ActiveIn(a.cat.rows, a.cat.active)
    /\ ToSet(a.cat.rows) = {r \in ToSet(acc.cat.rows) : r.id # id}
                           \cup {[id |-> id, key |-> k, sub |-> acc.sub]}
    /\ acc.cat.active \in RowIds(acc.cat.rows) => a.cat.active = acc.cat.active
    /\ Finds(acc, k, id, more)

LEMMA ImportEffect ==
    ASSUME NEW acc, NEW subs, NEW keys, IsFiniteSet(keys), NEW rest,
           AccInv(acc, subs, keys, rest), NEW k \in keys, k \in rest,
           NEW a, a = ImportProfile(acc, k)
    PROVE  \E id \in ProfileIds : \E more : Effect(acc, a, k, id, more)
<1>1. PICK table, active, sub, dups, imported :
         /\ table = acc.cat.rows /\ active = acc.cat.active /\ sub = acc.sub
         /\ dups = acc.duplicates /\ imported = acc.imported
  OBVIOUS
<1>2. /\ acc = [cat |-> acc.cat, sub |-> sub, imported |-> imported, duplicates |-> dups]
      /\ TableShape(table) /\ Room(table, keys)
      /\ \A r \in ToSet(table) : r.id \in dups => r.key \notin rest
  BY <1>1 DEF AccInv
<1>3. PICK cached : cached = Without(table, dups)
  OBVIOUS
<1>4. TableShape(cached) /\ ToSet(cached) = {r \in ToSet(table) : r.id \notin dups}
  BY <1>2, <1>3, LeftIs
<1>5. PICK matches : matches = {r.id : r \in {x \in ToSet(cached) : x.key = k}}
  OBVIOUS
<1>6. /\ RowIds(table) = {r.id : r \in ToSet(table)} /\ RowIds(table) \subseteq ProfileIds
      /\ \A r, s \in ToSet(table) : r.id = s.id => r = s
      /\ RowIds(cached) = {r.id : r \in ToSet(cached)}
  BY <1>2, <1>4, TableOf
<1>7. ASSUME NEW id \in ProfileIds, NEW row, row = [id |-> id, key |-> k, sub |-> sub],
             NEW c, c = SaveProfile(acc.cat, row), NEW more,
             a = [cat |-> c, sub |-> sub, imported |-> imported \cup {id},
                  duplicates |-> dups \cup more],
             Finds(acc, k, id, more)
      PROVE  Effect(acc, a, k, id, more)
  <2>1. ProfileShape(row) /\ row.id = id
    BY <1>7 DEF ProfileShape
  <2>2. /\ c = [rows |-> c.rows, active |-> c.active]
        /\ TableShape(c.rows) /\ ActiveIn(c.rows, c.active)
        /\ ToSet(c.rows) = {r \in ToSet(table) : r.id # row.id} \cup {row}
        /\ active \in RowIds(table) => c.active = active
    BY <1>1, <1>2, <1>7, <2>1, SaveIs
  <2>3. a.cat = c /\ a.sub = sub /\ a.imported = imported \cup {id} /\ a.duplicates = dups \cup more
    BY <1>7
  <2> QED BY <1>1, <1>7, <2>1, <2>2, <2>3 DEF Effect
<1>8. CASE matches = {}
  <2>1. k \notin KeysIn(table)
    BY <1>2, <1>4, <1>5, <1>8 DEF KeysIn
  <2>2. FreshIds(table) # {}
    BY <1>2, <2>1, RoomForNew
  <2>3. PICK id : id = CHOOSE i \in FreshIds(table) : TRUE
    OBVIOUS
  <2>4. id \in FreshIds(table) /\ id \in ProfileIds
    BY <2>2, <2>3 DEF FreshIds
  <2>5. PICK row : row = [id |-> id, key |-> k, sub |-> sub]
    OBVIOUS
  <2>6. PICK c : c = SaveProfile(acc.cat, row)
    OBVIOUS
  <2>7. a = [acc EXCEPT !.cat = c, !.imported = imported \cup {id}]
    BY <1>1, <1>3, <1>5, <1>8, <2>3, <2>5, <2>6 DEF ImportProfile
  <2>8. PICK none : none = {}
    OBVIOUS
  <2>9. a = [cat |-> c, sub |-> sub, imported |-> imported \cup {id},
             duplicates |-> dups \cup none]
    <3>1. PICK i, e : i = imported \cup {id} /\ e = acc.cat
      OBVIOUS
    <3>2. /\ a = [acc EXCEPT !.cat = c, !.imported = i]
          /\ acc = [cat |-> e, sub |-> sub, imported |-> imported, duplicates |-> dups]
      BY <1>2, <2>7, <3>1
    <3>3. a = [cat |-> c, sub |-> sub, imported |-> i, duplicates |-> dups]
      BY ONLY <3>2
    <3>4. dups = dups \cup none
      BY <2>8
    <3> QED BY <3>1, <3>3, <3>4
  <2>10. Finds(acc, k, id, none)
    BY <1>1, <2>1, <2>4, <2>8 DEF Finds
  <2>11. Effect(acc, a, k, id, none)
    BY <1>7, <2>4, <2>5, <2>6, <2>9, <2>10
  <2> QED BY <2>4, <2>11
<1>9. CASE matches # {}
  <2>1. matches \in SUBSET RowIds(cached)
    BY <1>5, <1>6
  <2>2. PICK id : id = CanonicalMatch(cached, matches, active, sub)
    OBVIOUS
  <2>3. id \in matches /\ (active \in matches => id = active)
    BY <1>4, <1>9, <2>1, <2>2, CanonicalIs
  <2>4. id \in ProfileIds
    BY <1>4, <1>5, <1>6, <2>3
  <2>5. PICK row : row = [id |-> id, key |-> k, sub |-> sub]
    OBVIOUS
  <2>6. PICK c : c = SaveProfile(acc.cat, row)
    OBVIOUS
  <2>7. PICK more : more = matches \ {id}
    OBVIOUS
  <2>8. a = [cat |-> c, sub |-> sub, imported |-> imported \cup {id},
             duplicates |-> dups \cup more]
    <3>1. PICK i, d, e : i = imported \cup {id} /\ d = dups \cup more /\ e = acc.cat
      OBVIOUS
    <3>2. a = [acc EXCEPT !.cat = c, !.imported = i, !.duplicates = d]
      BY <1>1, <1>3, <1>5, <1>9, <2>2, <2>5, <2>6, <2>7, <3>1 DEF ImportProfile
    <3>3. acc = [cat |-> e, sub |-> sub, imported |-> imported, duplicates |-> dups]
      BY <1>2, <3>1
    <3>4. a = [cat |-> c, sub |-> sub, imported |-> i, duplicates |-> d]
      BY ONLY <3>2, <3>3
    <3> QED BY <3>1, <3>4
  <2>9. Finds(acc, k, id, more)
    <3>1. \A r \in ToSet(table) : r.id \in matches <=> r.key = k
      <4>1. ASSUME NEW r \in ToSet(table), r.key = k PROVE r.id \in matches
        <5>1. r \in ToSet(cached)
          BY <1>2, <1>4, <4>1
        <5> QED BY <1>5, <4>1, <5>1
      <4>2. ASSUME NEW r \in ToSet(table), r.id \in matches PROVE r.key = k
        <5>1. PICK x \in ToSet(cached) : x.id = r.id /\ x.key = k
          BY <1>5, <4>2
        <5>2. x = r
          BY <1>4, <1>6, <5>1
        <5> QED BY <5>1, <5>2
      <4> QED BY <4>1, <4>2
    <3>2. id \in RowIds(table) \ dups /\ more \subseteq RowIds(table)
      BY <1>4, <1>5, <1>6, <2>3, <2>7
    <3>3. \A r \in ToSet(table) :
             /\ r.id = id => r.key = k
             /\ r.id \in more <=> r.key = k /\ r.id # id
             /\ r.id = active /\ r.key = k => id = active
      BY <2>3, <2>7, <3>1
    <3> QED BY <1>1, <3>2, <3>3 DEF Finds
  <2>10. Effect(acc, a, k, id, more)
    BY <1>7, <2>4, <2>5, <2>6, <2>8, <2>9
  <2> QED BY <2>4, <2>10
<1> QED BY <1>8, <1>9

\* One profile of an import.
LEMMA ImportStep ==
    ASSUME NEW acc, NEW subs, NEW keys, IsFiniteSet(keys), NEW rest,
           AccInv(acc, subs, keys, rest), NEW k \in keys, k \in rest,
           NEW a, NEW id \in ProfileIds, NEW more, Effect(acc, a, k, id, more)
    PROVE  AccInv(a, subs, keys, rest \ {k})
<1>1. PICK table, t, row :
         /\ table = acc.cat.rows /\ t = a.cat.rows
         /\ row = [id |-> id, key |-> k, sub |-> acc.sub]
  OBVIOUS
<1>2. /\ TableShape(table) /\ OfSubs(table, subs) /\ acc.sub \in subs \cup {NoSub}
      /\ Room(table, keys)
      /\ \A r \in ToSet(table) : r.id \in acc.duplicates => r.key \notin rest
  BY <1>1 DEF AccInv
<1>3. /\ a = [cat |-> a.cat, sub |-> acc.sub, imported |-> acc.imported \cup {id},
              duplicates |-> acc.duplicates \cup more]
      /\ a.cat = [rows |-> a.cat.rows, active |-> a.cat.active]
      /\ TableShape(t) /\ ActiveIn(t, a.cat.active)
      /\ ToSet(t) = {r \in ToSet(table) : r.id # id} \cup {row}
      /\ Finds(acc, k, id, more)
  BY <1>1 DEF Effect
<1>4. row.id = id /\ row.key = k /\ row.sub = acc.sub
  BY <1>1
<1>5. OfSubs(t, subs)
  BY <1>2, <1>3, <1>4 DEF OfSubs
<1>6. a.sub = acc.sub /\ a.duplicates = acc.duplicates \cup more
  BY <1>3
<1>7. \A r \in ToSet(table) : r.id \in more => r.key = k
  BY <1>1, <1>3 DEF Finds
<1>8. \A r \in ToSet(t) : r.id \in a.duplicates => r.key \notin rest \ {k}
  BY <1>2, <1>3, <1>4, <1>6, <1>7
<1>9. /\ RowIds(table) = {r.id : r \in ToSet(table)} /\ RowIds(t) = {r.id : r \in ToSet(t)}
      /\ \A r, s \in ToSet(table) : r.id = s.id => r = s
  BY <1>2, <1>3, TableOf
<1>10. Room(t, keys)
  <2>1. CASE id \in FreshIds(table) /\ k \notin KeysIn(table)
    <3>1. \A r \in ToSet(table) : r.id # id
      BY <1>9, <2>1 DEF FreshIds
    <3>2. ToSet(t) = ToSet(table) \cup {row}
      BY <1>3, <3>1
    <3>3. RowIds(t) = RowIds(table) \cup {id}
      BY <1>4, <1>9, <3>2
    <3>4. KeysIn(t) = KeysIn(table) \cup {k}
      BY <1>4, <3>2 DEF KeysIn
    <3> QED BY <1>2, <1>3, <2>1, <3>3, <3>4, RoomForNew
  <2>2. CASE id \in RowIds(table) /\ \A r \in ToSet(table) : r.id = id => r.key = k
    <3>1. PICK old \in ToSet(table) : old.id = id /\ old.key = k
      BY <1>9, <2>2
    <3>2. RowIds(t) = RowIds(table)
      BY <1>3, <1>4, <1>9, <2>2
    <3>3. KeysIn(t) \subseteq KeysIn(table)
      BY <1>3, <1>4, <3>1 DEF KeysIn
    <3>4. KeysIn(table) \subseteq KeysIn(t)
      BY <1>3, <1>4, <2>2 DEF KeysIn
    <3>5. KeysIn(t) = KeysIn(table)
      BY <3>3, <3>4
    <3> QED BY <1>2, <3>2, <3>5 DEF Room, KeyCount, IdCount
  <2> QED BY <1>1, <1>3, <2>1, <2>2 DEF Finds
<1> QED BY <1>1, <1>2, <1>3, <1>5, <1>6, <1>8, <1>10 DEF AccInv

\* What ImportText and ApplyUpdate say of what they have after each step.
Imports(f, n, list, start) ==
    f = [i \in 0 .. n |-> IF i = 0 THEN start ELSE ImportProfile(f[i - 1], list[i])]
Updates(f, n, list, start) ==
    f = [i \in 0 .. n |-> IF i = 0 THEN start
                          ELSE ImportText(f[i - 1], list[i].content, list[i].sub)]

LEMMA ImportsExists ==
    ASSUME NEW list, NEW start, NEW n \in Nat
    PROVE  \E f : Imports(f, n, list, start)
<1> DEFINE Bad == {m \in Nat : ~\E f : Imports(f, m, list, start)}
<1> SUFFICES ASSUME Bad # {} PROVE FALSE
  OBVIOUS
<1>1. PICK m \in Bad : \A j \in Bad : m <= j
  BY LeastIndex
<1>2. CASE m = 0
  <2> DEFINE g == [i \in 0 .. 0 |-> start]
  <2>1. Imports(g, 0, list, start)
    BY DEF Imports
  <2> QED BY <1>1, <1>2, <2>1
<1>3. CASE m # 0
  <2>1. m - 1 \in Nat /\ m \in Nat /\ ~(m <= m - 1)
    BY <1>1, <1>3
  <2>2. PICK f : Imports(f, m - 1, list, start)
    BY <1>1, <2>1
  <2>3. PICK x : x = ImportProfile(f[m - 1], list[m])
    OBVIOUS
  <2> DEFINE g == [i \in 0 .. m |-> IF i = m THEN x ELSE f[i]]
  <2>4. /\ \A i \in 0 .. m : i # m => i \in 0 .. m - 1
        /\ \A i \in 0 .. m : i # 0 => i - 1 \in 0 .. m - 1 /\ i - 1 # m /\ i - 1 \in 0 .. m
    BY <2>1
  <2>5. \A i \in 0 .. m - 1 :
           f[i] = IF i = 0 THEN start ELSE ImportProfile(f[i - 1], list[i])
    BY <2>2 DEF Imports
  <2>6. \A i \in 0 .. m : g[i] = IF i = 0 THEN start ELSE ImportProfile(g[i - 1], list[i])
    <3> SUFFICES ASSUME NEW i \in 0 .. m
                 PROVE  g[i] = IF i = 0 THEN start ELSE ImportProfile(g[i - 1], list[i])
      OBVIOUS
    <3>1. i # 0 => g[i - 1] = f[i - 1]
      BY <2>4
    <3>2. CASE i = m
      BY <1>3, <2>3, <3>1, <3>2
    <3>3. CASE i # m
      <4>1. g[i] = f[i] /\ i \in 0 .. m - 1
        BY <2>4, <3>3
      <4> HIDE DEF g
      <4> QED BY <2>5, <3>1, <4>1
    <3> QED BY <3>2, <3>3
  <2>7. g = [i \in 0 .. m |-> g[i]]
    OBVIOUS
  <2> HIDE DEF g
  <2>8. Imports(g, m, list, start)
    BY <2>6, <2>7 DEF Imports
  <2> QED BY <1>1, <2>8
<1> QED BY <1>2, <1>3

LEMMA UpdatesExists ==
    ASSUME NEW list, NEW start, NEW n \in Nat
    PROVE  \E f : Updates(f, n, list, start)
<1> DEFINE Bad == {m \in Nat : ~\E f : Updates(f, m, list, start)}
<1> SUFFICES ASSUME Bad # {} PROVE FALSE
  OBVIOUS
<1>1. PICK m \in Bad : \A j \in Bad : m <= j
  BY LeastIndex
<1>2. CASE m = 0
  <2> DEFINE g == [i \in 0 .. 0 |-> start]
  <2>1. Updates(g, 0, list, start)
    BY DEF Updates
  <2> QED BY <1>1, <1>2, <2>1
<1>3. CASE m # 0
  <2>1. m - 1 \in Nat /\ m \in Nat /\ ~(m <= m - 1)
    BY <1>1, <1>3
  <2>2. PICK f : Updates(f, m - 1, list, start)
    BY <1>1, <2>1
  <2>3. PICK x : x = ImportText(f[m - 1], list[m].content, list[m].sub)
    OBVIOUS
  <2> DEFINE g == [i \in 0 .. m |-> IF i = m THEN x ELSE f[i]]
  <2>4. /\ \A i \in 0 .. m : i # m => i \in 0 .. m - 1
        /\ \A i \in 0 .. m : i # 0 => i - 1 \in 0 .. m - 1 /\ i - 1 # m /\ i - 1 \in 0 .. m
    BY <2>1
  <2>5. \A i \in 0 .. m - 1 :
           f[i] = IF i = 0 THEN start
                  ELSE ImportText(f[i - 1], list[i].content, list[i].sub)
    BY <2>2 DEF Updates
  <2>6. \A i \in 0 .. m : g[i] = IF i = 0 THEN start
                                 ELSE ImportText(g[i - 1], list[i].content, list[i].sub)
    <3> SUFFICES ASSUME NEW i \in 0 .. m
                 PROVE  g[i] = IF i = 0 THEN start
                               ELSE ImportText(g[i - 1], list[i].content, list[i].sub)
      OBVIOUS
    <3>1. i # 0 => g[i - 1] = f[i - 1]
      BY <2>4
    <3>2. CASE i = m
      BY <1>3, <2>3, <3>1, <3>2
    <3>3. CASE i # m
      <4>1. g[i] = f[i] /\ i \in 0 .. m - 1
        BY <2>4, <3>3
      <4> HIDE DEF g
      <4> QED BY <2>5, <3>1, <4>1
    <3> QED BY <3>2, <3>3
  <2>7. g = [i \in 0 .. m |-> g[i]]
    OBVIOUS
  <2> HIDE DEF g
  <2>8. Updates(g, m, list, start)
    BY <2>6, <2>7 DEF Updates
  <2> QED BY <1>1, <2>8
<1> QED BY <1>2, <1>3

\* What the import of a text keeps.
CatInv(cat, subs, keys) ==
    /\ cat = [rows |-> cat.rows, active |-> cat.active]
    /\ TableShape(cat.rows) /\ OfSubs(cat.rows, subs) /\ ActiveIn(cat.rows, cat.active)
    /\ Room(cat.rows, keys)

ToCome(content, list, n) == content \ {list[i] : i \in 1 .. n}

LEMMA ImportsAre ==
    ASSUME NEW cat, NEW subs, NEW keys, IsFiniteSet(keys), CatInv(cat, subs, keys),
           NEW content \in SUBSET keys, NEW sub, sub \in subs \cup {NoSub},
           NEW list \in Seq(content), Once(list),
           NEW start,
           start = [cat |-> cat, sub |-> sub, imported |-> {}, duplicates |-> {}],
           NEW f, Imports(f, Len(list), list, start),
           NEW n \in 0 .. Len(list)
    PROVE  AccInv(f[n], subs, keys, ToCome(content, list, n))
<1> DEFINE Rest(m) == ToCome(content, list, m)
           Good(m) == AccInv(f[m], subs, keys, Rest(m))
           Bad == {m \in 0 .. Len(list) : ~Good(m)}
<1>1. Len(list) \in Nat /\ Bad \in SUBSET Nat
  BY LenProperties
<1>2. \A i \in 0 .. Len(list) :
         f[i] = IF i = 0 THEN start ELSE ImportProfile(f[i - 1], list[i])
  BY DEF Imports
<1>3. ASSUME Bad # {} PROVE FALSE
  <2>1. PICK m \in Bad : \A j \in Bad : m <= j
    BY <1>1, <1>3, LeastIndex
  <2>2. m \in 0 .. Len(list) /\ ~Good(m)
    BY <2>1
  <2>3. m # 0
    <3> SUFFICES ASSUME m = 0 PROVE FALSE
      OBVIOUS
    <3>1. f[m] = start
      BY <1>2, <2>2
    <3>2. /\ start.cat = cat /\ start.sub = sub /\ start.imported = {} /\ start.duplicates = {}
          /\ start = [cat |-> start.cat, sub |-> start.sub, imported |-> start.imported,
                      duplicates |-> start.duplicates]
      OBVIOUS
    <3>3. AccInv(start, subs, keys, Rest(m))
      BY <3>2 DEF AccInv, CatInv
    <3> QED BY <2>2, <3>1, <3>3
  <2>4. m \in 1 .. Len(list) /\ m - 1 \in 0 .. Len(list) /\ m \in Nat /\ ~(m <= m - 1)
    BY <1>1, <2>2, <2>3
  <2>5. Good(m - 1)
    BY <2>1, <2>4
  <2>6. f[m] = ImportProfile(f[m - 1], list[m])
    BY <1>2, <2>2, <2>3
  <2>7. PICK a, k, rest : a = f[m - 1] /\ k = list[m] /\ rest = Rest(m - 1)
    OBVIOUS
  <2>8. k \in keys /\ k \in rest
    <3>1. k \in content
      BY <2>4, <2>7, ElementOfSeq
    <3>2. \A i \in 1 .. m - 1 : i \in 1 .. Len(list) /\ i # m
      BY <1>1, <2>4
    <3>3. \A i \in 1 .. m - 1 : list[i] # list[m]
      BY <2>4, <3>2 DEF Once
    <3> QED BY <2>7, <3>1, <3>3 DEF ToCome
  <2>9. rest \ {k} = Rest(m)
    <3>1. \A i : i \in 1 .. m <=> i \in 1 .. m - 1 \/ i = m
      BY <2>4
    <3> QED BY <2>7, <3>1 DEF ToCome
  <2>10. AccInv(a, subs, keys, rest)
    BY <2>5, <2>7
  <2>11. PICK b : b = ImportProfile(a, k)
    OBVIOUS
  <2>12. AccInv(b, subs, keys, rest \ {k})
    <3>1. PICK id \in ProfileIds : \E more : Effect(a, b, k, id, more)
      BY <2>8, <2>10, <2>11, ImportEffect
    <3>2. PICK more : Effect(a, b, k, id, more)
      BY <3>1
    <3> QED BY <2>8, <2>10, <3>2, ImportStep
  <2> QED BY <2>2, <2>6, <2>7, <2>9, <2>11, <2>12
<1>4. Good(n)
  BY <1>3
<1> QED BY <1>4

\* import_profiles_from_text keeps the tables right, and room for what is to come.
LEMMA ImportIs ==
    ASSUME NEW cat, NEW subs, NEW keys, IsFiniteSet(keys), CatInv(cat, subs, keys),
           NEW content \in SUBSET keys, NEW sub, sub \in subs \cup {NoSub},
           NEW c, c = ImportText(cat, content, sub)
    PROVE  CatInv(c, subs, keys)
<1>1. CASE content = {}
  <2>1. PICK table, active : table = cat.rows /\ active = cat.active
    OBVIOUS
  <2>2. c = Catalogue(table, active)
    BY <1>1, <2>1 DEF ImportText
  <2>3. TableShape(table) /\ OfSubs(table, subs) /\ Room(table, keys)
    BY <2>1 DEF CatInv
  <2>4. c = [rows |-> table, active |-> c.active] /\ c.rows = table /\ ActiveIn(table, c.active)
    BY <2>2, <2>3, CatalogueIs
  <2> QED BY <2>3, <2>4 DEF CatInv
<1>2. CASE content # {}
  <2>1. PICK list : list = SetToSeq(content)
    OBVIOUS
  <2>2. IsFiniteSet(content)
    BY FS_Subset
  <2>3. list \in Seq(content) /\ Len(list) \in Nat /\ Once(list)
    BY <2>1, <2>2, ListOfSet
  <2>4. PICK start : start = [cat |-> cat, sub |-> sub, imported |-> {}, duplicates |-> {}]
    OBVIOUS
  <2> DEFINE f == CHOOSE f : Imports(f, Len(list), list, start)
  <2>5. Imports(f, Len(list), list, start)
    BY <2>3, ImportsExists
  <2>6. PICK old : old = RowsIn(cat.rows, {r \in ToSet(cat.rows) : sub # NoSub /\ r.sub = sub})
    OBVIOUS
  <2>7. c = FinishImport(f[Len(list)], old)
    BY <1>2, <2>1, <2>4, <2>6 DEF ImportText, Imports
  <2> HIDE DEF f
  <2>8. PICK n, acc, rest : n = Len(list) /\ acc = f[n] /\ rest = ToCome(content, list, n)
    OBVIOUS
  <2>9. n \in 0 .. Len(list)
    BY <2>3, <2>8
  <2>10. AccInv(acc, subs, keys, rest)
    <3>1. AccInv(f[n], subs, keys, ToCome(content, list, n))
      BY <2>3, <2>4, <2>5, <2>9, ImportsAre
    <3> QED BY <2>8, <3>1
  <2>11. PICK table, gone, t :
           /\ table = acc.cat.rows
           /\ gone = acc.duplicates \cup
                     ({r.id : r \in {x \in ToSet(old) : acc.sub # NoSub /\ x.sub = acc.sub}}
                      \ acc.imported)
           /\ t = Without(table, gone)
    OBVIOUS
  <2>12. c = Catalogue(t, acc.cat.active)
    BY <2>7, <2>8, <2>11 DEF FinishImport
  <2>13. TableShape(table) /\ OfSubs(table, subs) /\ Room(table, keys)
    BY <2>10, <2>11 DEF AccInv
  <2>14. TableShape(t) /\ ToSet(t) \subseteq ToSet(table)
    BY <2>11, <2>13, LeftIs
  <2>15. c = [rows |-> t, active |-> c.active] /\ c.rows = t /\ ActiveIn(t, c.active)
    BY <2>12, <2>14, CatalogueIs
  <2>16. OfSubs(t, subs)
    BY <2>13, <2>14 DEF OfSubs
  <2>17. Room(t, keys)
    BY <2>13, <2>14, RoomStays
  <2> QED BY <2>14, <2>15, <2>16, <2>17 DEF CatInv
<1> QED BY <1>1, <1>2

\* There are as many rows as ids, and there is room for what HasIdsFor lets in.
LEMMA HasRoom ==
    ASSUME ProfilesInv, NEW content, IsFiniteSet(content), HasIdsFor(content)
    PROVE  Room(rows, content)
<1>1. Len(rows) \in Nat /\ DOMAIN rows = 1 .. Len(rows)
  BY TableOf DEF ProfilesInv
<1>2. IsFiniteSet(1 .. Len(rows)) /\ Cardinality(1 .. Len(rows)) = Len(rows)
  <2>1. PICK n \in Nat : n = Len(rows)
    BY <1>1
  <2>2. 1 \in Int /\ n \in Int
    OBVIOUS
  <2>3. IsFiniteSet(1 .. n) /\ Cardinality(1 .. n) = IF 1 > n THEN 0 ELSE n - 1 + 1
    BY <2>2, FS_Interval, Zenon
  <2> QED BY <2>1, <2>3
<1> DEFINE f == [i \in 1 .. Len(rows) |-> rows[i].id]
<1>3. f \in Surjection(1 .. Len(rows), RowIds(rows))
  BY <1>1 DEF Surjection, RowIds
<1> HIDE DEF f
<1>4. Cardinality(RowIds(rows)) <= Cardinality(1 .. Len(rows))
  BY <1>2, <1>3, FS_Surjection
<1>5. /\ IdCount(rows) \in Nat /\ KeyCount(rows, content) \in Nat
      /\ Cardinality(ProfileIds) \in Nat
  BY Counts DEF ProfilesInv
<1>6. KeyCount(rows, content) + Len(rows) <= Cardinality(ProfileIds)
  BY DEF HasIdsFor, KeyCount, KeysIn
<1> QED BY <1>1, <1>2, <1>4, <1>5, <1>6 DEF Room, IdCount

\* What a step has to leave behind.
LEMMA InvNext ==
    ASSUME NEW table, TableShape(table), NEW subs, OfSubs(table, subs),
           NEW active, ActiveIn(table, active),
           rows' = table, indexId' = active, subItem' \in [Subs -> SubItems],
           Present' = subs, subIndexId' \in subs \cup {NoSub}, IsFiniteSet(prepared'),
           PreparedShape(prepared')
    PROVE  ProfilesInv'
<1>1. TableShape(rows') /\ OfSubs(rows', Present') /\ ActiveIn(rows', indexId')
  OBVIOUS
<1> QED BY <1>1 DEF ProfilesInv, TableShape, ProfileShape, OfSubs, ActiveIn, RowIds, PreparedShape

\* A command on profiles alone.
LEMMA Becoming ==
    ASSUME ProfilesInv, NEW c, TableShape(c.rows), OfSubs(c.rows, Present),
           ActiveIn(c.rows, c.active), Becomes(c), NoSubscriptionChange
    PROVE  ProfilesInv'
<1>1. PICK table, active, subs : table = c.rows /\ active = c.active /\ subs = Present
  OBVIOUS
<1>2. rows' = table /\ indexId' = active
  BY <1>1 DEF Becomes
<1>3. /\ subItem' = subItem /\ subIndexId' = subIndexId /\ prepared' = prepared
      /\ Present' = subs
  BY <1>1 DEF NoSubscriptionChange, Present
<1>4. /\ subItem' \in [Subs -> SubItems] /\ subIndexId' \in subs \cup {NoSub}
      /\ IsFiniteSet(prepared')
      /\ PreparedShape(prepared')
  BY <1>1, <1>3 DEF ProfilesInv
<1> QED BY <1>1, <1>2, <1>3, <1>4, InvNext

\* A command that saves one profile.
LEMMA Saving ==
    ASSUME ProfilesInv, NEW row, ProfileShape(row), row.sub \in Present \cup {NoSub},
           Becomes(SaveProfile(Now, row)), NoSubscriptionChange
    PROVE  ProfilesInv'
<1>1. PICK c : c = SaveProfile(Now, row)
  OBVIOUS
<1>2. Now.rows = rows /\ Now.active = indexId
  BY DEF Now
<1>3. /\ TableShape(c.rows) /\ ActiveIn(c.rows, c.active)
      /\ ToSet(c.rows) = {r \in ToSet(rows) : r.id # row.id} \cup {row}
  BY <1>1, <1>2, SaveIs DEF ProfilesInv
<1>4. OfSubs(c.rows, Present)
  BY <1>3 DEF ProfilesInv, OfSubs
<1> QED BY <1>1, <1>3, <1>4, Becoming

\* A command that leaves some of the profiles.
LEMMA Leaving ==
    ASSUME ProfilesInv, NEW t, TableShape(t), ToSet(t) \subseteq ToSet(rows),
           Becomes(Catalogue(t, indexId)), NoSubscriptionChange
    PROVE  ProfilesInv'
<1>1. PICK c : c = Catalogue(t, indexId)
  OBVIOUS
<1>2. c.rows = t /\ ActiveIn(t, c.active)
  BY <1>1, CatalogueIs
<1>3. OfSubs(t, Present)
  BY DEF ProfilesInv, OfSubs
<1> QED BY <1>1, <1>2, <1>3, Becoming

LEMMA NewStep == ASSUME ProfilesInv, NewProfile PROVE ProfilesInv'
<1>1. PICK id : id = CHOOSE i \in FreshIds(rows) : TRUE
  OBVIOUS
<1>2. id \in ProfileIds
  BY <1>1 DEF NewProfile, FreshIds
<1>3. PICK key \in Keys : Becomes(SaveProfile(Now, [id |-> id, key |-> key, sub |-> NoSub]))
  BY <1>1 DEF NewProfile
<1>4. PICK row : row = [id |-> id, key |-> key, sub |-> NoSub]
  OBVIOUS
<1>5. ProfileShape(row) /\ row.sub \in Present \cup {NoSub}
  BY <1>2, <1>4 DEF ProfileShape
<1>6. Becomes(SaveProfile(Now, row)) /\ NoSubscriptionChange
  BY <1>3, <1>4 DEF NewProfile
<1> QED BY <1>5, <1>6, Saving

LEMMA EditStep == ASSUME ProfilesInv, EditProfile PROVE ProfilesInv'
<1>1. PICK i, key : i \in DOMAIN rows /\ Becomes(SaveProfile(Now, [rows[i] EXCEPT !.key = key]))
  BY DEF EditProfile
<1>2. PICK r : r = rows[i]
  OBVIOUS
<1>3. r \in ToSet(rows)
  BY <1>1, <1>2 DEF ToSet
<1>4. ProfileShape(r) /\ r.sub \in Present \cup {NoSub}
  BY <1>3 DEF ProfilesInv, TableShape, OfSubs
<1>5. PICK row, id, old, sub : row = [r EXCEPT !.key = key] /\ id = r.id /\ old = r.key /\ sub = r.sub
  OBVIOUS
<1>6. r = [id |-> id, key |-> old, sub |-> sub]
  BY <1>4, <1>5 DEF ProfileShape
<1>7. row = [id |-> id, key |-> key, sub |-> sub]
  BY ONLY <1>5, <1>6
<1>8. ProfileShape(row) /\ row.sub \in Present \cup {NoSub}
  BY <1>4, <1>5, <1>7 DEF ProfileShape
<1>9. Becomes(SaveProfile(Now, row)) /\ NoSubscriptionChange
  BY <1>1, <1>2, <1>5 DEF EditProfile
<1> QED BY <1>8, <1>9, Saving

LEMMA CopyStep == ASSUME ProfilesInv, CopyProfile PROVE ProfilesInv'
<1>1. PICK id : id = CHOOSE j \in FreshIds(rows) : TRUE
  OBVIOUS
<1>2. id \in ProfileIds
  BY <1>1 DEF CopyProfile, FreshIds
<1>3. PICK i : i \in DOMAIN rows /\ Becomes(SaveProfile(Now, [rows[i] EXCEPT !.id = id]))
  BY <1>1 DEF CopyProfile
<1>4. PICK r : r = rows[i]
  OBVIOUS
<1>5. r \in ToSet(rows)
  BY <1>3, <1>4 DEF ToSet
<1>6. ProfileShape(r) /\ r.sub \in Present \cup {NoSub}
  BY <1>5 DEF ProfilesInv, TableShape, OfSubs
<1>7. PICK row, old, key, sub : row = [r EXCEPT !.id = id] /\ old = r.id /\ key = r.key /\ sub = r.sub
  OBVIOUS
<1>8. r = [id |-> old, key |-> key, sub |-> sub]
  BY <1>6, <1>7 DEF ProfileShape
<1>9. row = [id |-> id, key |-> key, sub |-> sub]
  BY ONLY <1>7, <1>8
<1>10. ProfileShape(row) /\ row.sub \in Present \cup {NoSub}
  BY <1>2, <1>6, <1>7, <1>9 DEF ProfileShape
<1>11. Becomes(SaveProfile(Now, row)) /\ NoSubscriptionChange
  BY <1>3, <1>4, <1>7 DEF CopyProfile
<1> QED BY <1>10, <1>11, Saving

LEMMA DeleteProfilesStep == ASSUME ProfilesInv, DeleteProfiles PROVE ProfilesInv'
<1>1. PICK ids : Becomes(Catalogue(Without(rows, ids), indexId))
  BY DEF DeleteProfiles
<1>2. PICK t : t = Without(rows, ids)
  OBVIOUS
<1>3. TableShape(t) /\ ToSet(t) \subseteq ToSet(rows)
  BY <1>2, LeftIs DEF ProfilesInv
<1> QED BY <1>1, <1>2, <1>3, Leaving DEF DeleteProfiles

LEMMA SetActiveStep == ASSUME ProfilesInv, SetActiveProfile PROVE ProfilesInv'
<1>1. PICK table, active, subs : table = rows /\ active = indexId' /\ subs = Present
  OBVIOUS
<1>2. active \in RowIds(table) /\ rows' = table /\ NoSubscriptionChange
  BY <1>1 DEF SetActiveProfile
<1>3. TableShape(table) /\ OfSubs(table, subs)
  BY <1>1 DEF ProfilesInv
<1>4. ActiveIn(table, active)
  BY <1>2, <1>3, TableOf DEF ActiveIn
<1>5. /\ subItem' = subItem /\ subIndexId' = subIndexId /\ prepared' = prepared
      /\ Present' = subs
  BY <1>1, <1>2 DEF NoSubscriptionChange, Present
<1>6. /\ subItem' \in [Subs -> SubItems] /\ subIndexId' \in subs \cup {NoSub}
      /\ IsFiniteSet(prepared')
      /\ PreparedShape(prepared')
  BY <1>1, <1>5 DEF ProfilesInv
<1> QED BY <1>1, <1>2, <1>3, <1>4, <1>5, <1>6, InvNext

LEMMA DedupeStep == ASSUME ProfilesInv, DedupeProfiles PROVE ProfilesInv'
<1>1. PICK ids : Becomes(Catalogue(Without(rows, ids), indexId))
  BY DEF DedupeProfiles
<1>2. PICK t : t = Without(rows, ids)
  OBVIOUS
<1>3. TableShape(t) /\ ToSet(t) \subseteq ToSet(rows)
  BY <1>2, LeftIs DEF ProfilesInv
<1> QED BY <1>1, <1>2, <1>3, Leaving DEF DedupeProfiles

LEMMA SaveSubStep == ASSUME ProfilesInv, SaveSubscription PROVE ProfilesInv'
<1>1. PICK s, item : /\ s \in Subs /\ item \in SubItems \ {"absent"}
                     /\ subItem' = [subItem EXCEPT ![s] = item]
                     /\ subIndexId' = IF subIndexId = NoSub THEN s ELSE subIndexId
  BY DEF SaveSubscription
<1>2. PICK table, active, subs : table = rows /\ active = indexId /\ subs = Present'
  OBVIOUS
<1>3. subItem \in [Subs -> SubItems] /\ subItem' \in [Subs -> SubItems]
  BY <1>1 DEF ProfilesInv
<1>4. Present \subseteq subs /\ s \in subs
  <2>1. subItem'[s] = item /\ \A t \in Subs \ {s} : subItem'[t] = subItem[t]
    BY <1>1, <1>3
  <2>2. subs = {t \in Subs : subItem'[t] # "absent"}
    BY <1>2 DEF Present
  <2> QED BY <1>1, <2>1, <2>2 DEF Present
<1>5. rows' = table /\ indexId' = active /\ prepared' = prepared
  BY <1>2 DEF SaveSubscription
<1>6. TableShape(table) /\ OfSubs(table, subs) /\ ActiveIn(table, active)
  BY <1>2, <1>4 DEF ProfilesInv, OfSubs
<1>7. subIndexId' \in subs \cup {NoSub}
  BY <1>1, <1>4 DEF ProfilesInv
<1>8. /\ IsFiniteSet(prepared')
      /\ PreparedShape(prepared')
  BY <1>5 DEF ProfilesInv
<1> QED BY <1>2, <1>3, <1>5, <1>6, <1>7, <1>8, InvNext

LEMMA DeleteSubStep == ASSUME ProfilesInv, DeleteSubscription PROVE ProfilesInv'
<1>1. PICK s \in Subs :
         /\ subItem[s] # "absent"
         /\ subItem' = [subItem EXCEPT ![s] = "absent"]
         /\ LET left == {t \in Subs \ {s} : subItem[t] # "absent"}
            IN  subIndexId' \in IF subIndexId # s THEN {subIndexId}
                               ELSE IF left = {} THEN {NoSub} ELSE left
         /\ Becomes(Catalogue(RowsIn(rows, {r \in ToSet(rows) : r.sub # s}), indexId))
  BY DEF DeleteSubscription
<1>2. PICK table, wanted, subs : /\ wanted = {r \in ToSet(rows) : r.sub # s}
                                 /\ table = RowsIn(rows, wanted) /\ subs = Present'
  OBVIOUS
<1>3. subItem \in [Subs -> SubItems] /\ subItem' \in [Subs -> SubItems]
  BY <1>1 DEF ProfilesInv, SubItems
<1>4. subs = {t \in Subs \ {s} : subItem[t] # "absent"} /\ subs = Present \ {s}
  <2>1. subItem'[s] = "absent" /\ \A t \in Subs \ {s} : subItem'[t] = subItem[t]
    BY <1>1, <1>3
  <2>2. subs = {t \in Subs : subItem'[t] # "absent"}
    BY <1>2 DEF Present
  <2> QED BY <2>1, <2>2 DEF Present
<1>5. TableShape(table) /\ ToSet(table) = wanted
  BY <1>2, SomeRows DEF ProfilesInv
<1>6. OfSubs(table, subs)
  BY <1>2, <1>4, <1>5 DEF ProfilesInv, OfSubs
<1>7. PICK c : c = Catalogue(table, indexId)
  OBVIOUS
<1>8. c.rows = table /\ ActiveIn(table, c.active)
  BY <1>5, <1>7, CatalogueIs
<1>9. PICK active : active = c.active
  OBVIOUS
<1>10. rows' = table /\ indexId' = active
  BY <1>1, <1>2, <1>7, <1>8, <1>9 DEF Becomes
<1>11. subIndexId' \in subs \cup {NoSub}
  BY <1>1, <1>4 DEF ProfilesInv
<1>12. prepared' = prepared
  BY DEF DeleteSubscription
<1>13. /\ IsFiniteSet(prepared')
       /\ PreparedShape(prepared')
  BY <1>12 DEF ProfilesInv
<1> QED BY <1>2, <1>3, <1>5, <1>6, <1>8, <1>9, <1>10, <1>11, <1>13, InvNext

\* The catalogue as a command finds it.
LEMMA NowIs ==
    ASSUME ProfilesInv, NEW content, IsFiniteSet(content), HasIdsFor(content), NEW c, c = Now
    PROVE  CatInv(c, Present, content)
<1>1. c.rows = rows /\ c.active = indexId /\ c = [rows |-> c.rows, active |-> c.active]
  BY DEF Now
<1>2. Room(rows, content)
  BY HasRoom
<1> QED BY <1>1, <1>2 DEF CatInv, ProfilesInv

LEMMA ImportFromTextStep == ASSUME ProfilesInv, ImportFromText PROVE ProfilesInv'
<1>1. PICK sub, content :
         /\ sub \in {s \in Subs : subItem[s] # "absent"} \cup {NoSub} /\ content \in SUBSET Keys
         /\ HasIdsFor(content) /\ Becomes(ImportText(Now, content, sub))
  BY DEF ImportFromText
<1>2. PICK subs, cat, c : subs = Present /\ cat = Now /\ c = ImportText(cat, content, sub)
  OBVIOUS
<1>3. sub \in subs \cup {NoSub} /\ content \in SUBSET content
  BY <1>1, <1>2 DEF Present
<1>4. IsFiniteSet(content)
  BY <1>1, FS_Subset, ProfilesBounds
<1>5. CatInv(cat, subs, content)
  BY <1>1, <1>2, <1>4, NowIs
<1>6. CatInv(c, subs, content)
  BY <1>2, <1>3, <1>4, <1>5, ImportIs
<1>7. TableShape(c.rows) /\ OfSubs(c.rows, Present) /\ ActiveIn(c.rows, c.active)
  BY <1>2, <1>6 DEF CatInv
<1>8. Becomes(c) /\ NoSubscriptionChange
  BY <1>1, <1>2 DEF ImportFromText
<1> QED BY <1>7, <1>8, Becoming

\* Nothing but what is prepared changes.
LEMMA PreparedNext ==
    ASSUME ProfilesInv, UNCHANGED <<rows, indexId, subItem, subIndexId>>, IsFiniteSet(prepared'),
           PreparedShape(prepared')
    PROVE  ProfilesInv'
BY DEF ProfilesInv, TableShape, ProfileShape, OfSubs, Present, ActiveIn, RowIds,
   PreparedShape

LEMMA PrepareUpdateStep == ASSUME ProfilesInv, PrepareUpdate PROVE ProfilesInv'
<1>1. PICK fetched \in SUBSET {s \in Subs : subItem[s] = "on"} :
         \E content \in [fetched -> (SUBSET Keys) \ {{}}] :
             prepared' = {[sub |-> s, item |-> "on", content |-> content[s]] : s \in fetched}
  BY DEF PrepareUpdate
<1>2. PICK content \in [fetched -> (SUBSET Keys) \ {{}}] :
         prepared' = {[sub |-> s, item |-> "on", content |-> content[s]] : s \in fetched}
  BY <1>1
<1>3. fetched \in SUBSET Subs
  OBVIOUS
<1>4. IsFiniteSet(fetched)
  BY <1>3, FS_Subset, ProfilesBounds
<1> DEFINE f == [s \in fetched |-> [sub |-> s, item |-> "on", content |-> content[s]]]
<1>5. f \in Surjection(fetched, prepared')
  BY <1>2 DEF Surjection
<1> HIDE DEF f
<1>6. PICK p : p = prepared'
  OBVIOUS
<1>7. IsFiniteSet(p)
  BY <1>4, <1>5, <1>6, FS_Surjection
<1>8. \A s \in fetched : content[s] \subseteq Keys /\ content[s] # {}
  OBVIOUS
<1>9. PreparedShape(prepared')
  BY <1>2, <1>3, <1>8 DEF PreparedShape
<1>10. UNCHANGED <<rows, indexId, subItem, subIndexId>>
  BY DEF PrepareUpdate
<1> QED BY <1>6, <1>7, <1>9, <1>10, PreparedNext

LEMMA UpdatesAre ==
    ASSUME NEW start, NEW subs, NEW keys, IsFiniteSet(keys), CatInv(start, subs, keys),
           NEW list, Len(list) \in Nat,
           \A i \in 1 .. Len(list) : list[i].sub \in subs /\ list[i].content \in SUBSET keys,
           NEW f, Updates(f, Len(list), list, start),
           NEW n \in 0 .. Len(list)
    PROVE  CatInv(f[n], subs, keys)
<1> DEFINE Good(m) == CatInv(f[m], subs, keys)
           Bad == {m \in 0 .. Len(list) : ~Good(m)}
<1>1. Bad \in SUBSET Nat
  OBVIOUS
<1>2. \A i \in 0 .. Len(list) :
         f[i] = IF i = 0 THEN start ELSE ImportText(f[i - 1], list[i].content, list[i].sub)
  BY DEF Updates
<1>3. ASSUME Bad # {} PROVE FALSE
  <2>1. PICK m \in Bad : \A j \in Bad : m <= j
    BY <1>1, <1>3, LeastIndex
  <2>2. m \in 0 .. Len(list) /\ ~Good(m)
    BY <2>1
  <2>3. m # 0
    BY <1>2, <2>2
  <2>4. m \in 1 .. Len(list) /\ m - 1 \in 0 .. Len(list) /\ m \in Nat /\ ~(m <= m - 1)
    BY <2>2, <2>3
  <2>5. Good(m - 1)
    BY <2>1, <2>4
  <2>6. PICK cat, content, sub : cat = f[m - 1] /\ content = list[m].content /\ sub = list[m].sub
    OBVIOUS
  <2>7. CatInv(cat, subs, keys) /\ content \in SUBSET keys /\ sub \in subs \cup {NoSub}
    BY <2>4, <2>5, <2>6
  <2>8. PICK c : c = ImportText(cat, content, sub)
    OBVIOUS
  <2>9. f[m] = c
    BY <1>2, <2>2, <2>3, <2>6, <2>8
  <2>10. CatInv(c, subs, keys)
    BY <2>7, <2>8, ImportIs
  <2> QED BY <2>2, <2>9, <2>10
<1>4. Good(n)
  BY <1>3
<1> QED BY <1>4

LEMMA ApplyUpdateStep == ASSUME ProfilesInv, ApplyUpdate PROVE ProfilesInv'
<1>1. PICK chosenOnes, list, keys, start, subs :
         /\ chosenOnes = {p \in prepared : IsCurrent(p)} /\ list = SetToSeq(chosenOnes)
         /\ keys = UNION {p.content : p \in prepared} /\ start = Now /\ subs = Present
  OBVIOUS
<1>2. chosenOnes \in SUBSET prepared /\ IsFiniteSet(chosenOnes)
  <2>1. chosenOnes \in SUBSET prepared
    BY <1>1
  <2> QED BY <2>1, FS_Subset DEF ProfilesInv
<1>3. list \in Seq(chosenOnes) /\ Len(list) \in Nat
  BY <1>1, <1>2, ListOfSet
<1>4. \A i \in 1 .. Len(list) : list[i].sub \in subs /\ list[i].content \in SUBSET keys
  <2> SUFFICES ASSUME NEW i \in 1 .. Len(list)
               PROVE  list[i].sub \in subs /\ list[i].content \in SUBSET keys
    OBVIOUS
  <2>1. PICK p : p = list[i]
    OBVIOUS
  <2>2. p \in chosenOnes
    BY <1>3, <2>1, ElementOfSeq
  <2>3. p \in prepared /\ IsCurrent(p)
    BY <1>1, <2>2
  <2>4. p.sub \in Subs /\ subItem[p.sub] = "on"
    BY <2>3 DEF ProfilesInv, PreparedShape, IsCurrent
  <2>5. p.sub \in subs
    BY <1>1, <2>4 DEF Present
  <2> QED BY <1>1, <2>1, <2>3, <2>5
<1>5. IsFiniteSet(keys)
  <2>1. keys \in SUBSET Keys
    BY <1>1 DEF ProfilesInv, PreparedShape
  <2> QED BY <2>1, FS_Subset, ProfilesBounds
<1> DEFINE f == CHOOSE f : Updates(f, Len(list), list, start)
<1>6. Updates(f, Len(list), list, start)
  BY <1>3, UpdatesExists
<1>7. HasIdsFor(keys) /\ Becomes(f[Len(list)])
  BY <1>1 DEF ApplyUpdate, Updates
<1> HIDE DEF f
<1>8. CatInv(start, subs, keys)
  BY <1>1, <1>5, <1>7, NowIs
<1>9. PICK n, c : n = Len(list) /\ c = f[n]
  OBVIOUS
<1>10. n \in 0 .. Len(list)
  BY <1>3, <1>9
<1>11. CatInv(c, subs, keys)
  BY <1>3, <1>4, <1>5, <1>6, <1>8, <1>9, <1>10, UpdatesAre
<1>12. TableShape(c.rows) /\ OfSubs(c.rows, subs) /\ ActiveIn(c.rows, c.active)
  BY <1>11 DEF CatInv
<1>13. PICK table, active : table = c.rows /\ active = c.active
  OBVIOUS
<1>14. rows' = table /\ indexId' = active
  BY <1>7, <1>9, <1>13 DEF Becomes
<1>15. prepared' = {} /\ subItem' = subItem /\ subIndexId' = subIndexId /\ Present' = subs
  BY <1>1 DEF ApplyUpdate, Present
<1>16. /\ subItem' \in [Subs -> SubItems] /\ subIndexId' \in subs \cup {NoSub}
       /\ IsFiniteSet(prepared')
       /\ PreparedShape(prepared')
  BY <1>1, <1>15, FS_EmptySet DEF ProfilesInv, PreparedShape
<1> QED BY <1>12, <1>13, <1>14, <1>15, <1>16, InvNext

LEMMA SettingsStep == ASSUME ProfilesInv, SettingsLoaded PROVE ProfilesInv'
BY DEF ProfilesInv, SettingsLoaded, TableShape, ProfileShape, OfSubs, Present, ActiveIn, RowIds,
   PreparedShape

LEMMA ProfilesStep == ProfilesInv /\ [ProfilesNext]_profilesVars => ProfilesInv'
<1> SUFFICES ASSUME ProfilesInv, [ProfilesNext]_profilesVars PROVE ProfilesInv'
  OBVIOUS
<1>1. ASSUME UpdateFails PROVE ProfilesInv'
  <2>1. IsFiniteSet(prepared') /\ PreparedShape(prepared')
    BY <1>1, FS_EmptySet DEF UpdateFails, PreparedShape
  <2> QED BY <1>1, <2>1, PreparedNext DEF UpdateFails
<1>2. CASE UNCHANGED profilesVars
  BY <1>2 DEF profilesVars, ProfilesInv, TableShape, ProfileShape, OfSubs, Present, ActiveIn,
              RowIds, PreparedShape
<1> QED
  BY <1>1, <1>2, NewStep, EditStep, CopyStep, DeleteProfilesStep, SetActiveStep, DedupeStep,
     SaveSubStep, DeleteSubStep, ImportFromTextStep, PrepareUpdateStep, ApplyUpdateStep,
     SettingsStep DEF ProfilesNext

LEMMA NothingDanglesIn == ProfilesInv => NothingDangles
<1> SUFFICES ASSUME ProfilesInv PROVE NothingDangles
  OBVIOUS
<1>1. /\ DOMAIN rows = 1 .. Len(rows) /\ NoId \notin RowIds(rows)
      /\ \A i \in 1 .. Len(rows) : rows[i] \in ToSet(rows)
  BY TableOf DEF ProfilesInv
<1>2. \A i \in DOMAIN rows : rows[i].sub # NoSub => subItem[rows[i].sub] # "absent"
  BY <1>1 DEF ProfilesInv, OfSubs, Present
<1>3. \A i, j \in DOMAIN rows : rows[i].id = rows[j].id => i = j
  BY <1>1 DEF ProfilesInv, TableShape
<1>4. (indexId = NoId <=> rows = <<>>) /\ (indexId # NoId => indexId \in RowIds(rows))
  BY <1>1 DEF ProfilesInv, ActiveIn
<1>5. subIndexId # NoSub => subItem[subIndexId] # "absent"
  BY DEF ProfilesInv, Present
<1> QED BY <1>2, <1>3, <1>4, <1>5 DEF NothingDangles

LEMMA ProfilesStart == ProfilesInit => ProfilesInv
<1> SUFFICES ASSUME ProfilesInit PROVE ProfilesInv
  OBVIOUS
<1>1. <<>> \in Seq(ToSet(<<>>)) /\ ToSet(<<>>) = {}
  BY EmptySeq DEF ToSet
<1>2. TableShape(rows) /\ OfSubs(rows, Present) /\ ActiveIn(rows, indexId)
  BY <1>1, EmptySeq DEF ProfilesInit, TableShape, OfSubs, ActiveIn
<1>3. IsFiniteSet(prepared) /\ PreparedShape(prepared)
  BY FS_EmptySet DEF ProfilesInit, PreparedShape
<1> QED BY <1>2, <1>3 DEF ProfilesInit, ProfilesInv, SubItems

\* Whatever profiles and subscriptions are saved, copied, imported, updated and
\* deleted, in any order, and whatever routings: the configuration names an
\* active profile, routing and subscription that are there, no profile is of a
\* subscription that is gone, and no two have the same id (profiles/manager.rs,
\* subscriptions/manager.rs, routing/manager.rs).
THEOREM NamesHold == ProfilesSpec /\ RoutingsSpec => []NamesAreThere
<1>1. ProfilesSpec => []NothingDangles
  BY ProfilesStart, ProfilesStep, NothingDanglesIn, PTL DEF ProfilesSpec
<1> QED BY <1>1, RoutingIsActive, PTL DEF NamesAreThere

-----------------------------------------------------------------------------
(* What the update of a subscription brings (Profiles).                      *)

\* What an import has made of a table so far: profiles of other kinds are as they
\* were; of each kind that came there is one that stays, and it is imported; and
\* an active profile is still that.
BroughtInv(acc, table, active, sub, done) ==
    /\ acc.sub = sub
    /\ \A r \in ToSet(acc.cat.rows) :
          IF r.key \in done
          THEN r.id \in acc.duplicates \/ (r.id \in acc.imported /\ r.sub = acc.sub)
          ELSE r \in ToSet(table) /\ r.id \notin acc.duplicates \cup acc.imported
    /\ \A r \in ToSet(table) : r.key \notin done => r \in ToSet(acc.cat.rows)
    /\ \A k \in done : \E r \in ToSet(acc.cat.rows) :
          /\ r.key = k /\ r.id \notin acc.duplicates
          /\ \A s \in ToSet(acc.cat.rows) : s.key = k /\ s.id \notin acc.duplicates => s = r
    /\ acc.duplicates \subseteq RowIds(acc.cat.rows)
    /\ active \in RowIds(table) =>
          /\ acc.cat.active = active /\ active \in RowIds(acc.cat.rows) \ acc.duplicates
          /\ \A r \in ToSet(acc.cat.rows), x \in ToSet(table) :
                r.id = active /\ x.id = active => (r.key \in done <=> x.key \in done)

\* Bringing one more kind makes it one of those that came.
LEMMA BroughtStep ==
    ASSUME NEW acc, NEW table, NEW active, NEW sub, NEW done, BroughtInv(acc, table, active, sub, done),
           TableShape(table), TableShape(acc.cat.rows), NEW k, k \notin done,
           NEW a, NEW id, NEW more, Effect(acc, a, k, id, more)
    PROVE  BroughtInv(a, table, active, sub, done \cup {k})
<1>1. PICK old, new, row :
         /\ old = acc.cat.rows /\ new = a.cat.rows
         /\ row = [id |-> id, key |-> k, sub |-> acc.sub]
  OBVIOUS
<1>2. /\ a = [cat |-> a.cat, sub |-> acc.sub, imported |-> acc.imported \cup {id},
              duplicates |-> acc.duplicates \cup more]
      /\ TableShape(new)
      /\ ToSet(new) = {r \in ToSet(old) : r.id # id} \cup {row}
      /\ acc.cat.active \in RowIds(old) => a.cat.active = acc.cat.active
      /\ Finds(acc, k, id, more)
  BY <1>1 DEF Effect
<1>3. a.sub = acc.sub /\ a.imported = acc.imported \cup {id} /\ a.duplicates = acc.duplicates \cup more
  BY <1>2
<1>4. row.id = id /\ row.key = k /\ row.sub = acc.sub
  BY <1>1
<1>5. /\ RowIds(old) = {r.id : r \in ToSet(old)} /\ RowIds(new) = {r.id : r \in ToSet(new)}
      /\ \A r, s \in ToSet(old) : r.id = s.id => r = s
      /\ RowIds(table) = {r.id : r \in ToSet(table)}
      /\ \A r, s \in ToSet(table) : r.id = s.id => r = s
  BY <1>1, <1>2, TableOf
<1>6. /\ \A r \in ToSet(old) : IF r.key \in done
                               THEN r.id \in acc.duplicates \/ (r.id \in acc.imported /\ r.sub = acc.sub)
                               ELSE r \in ToSet(table) /\ r.id \notin acc.duplicates \cup acc.imported
      /\ \A r \in ToSet(table) : r.key \notin done => r \in ToSet(old)
      /\ \A j \in done : \E r \in ToSet(old) :
            /\ r.key = j /\ r.id \notin acc.duplicates
            /\ \A s \in ToSet(old) : s.key = j /\ s.id \notin acc.duplicates => s = r
      /\ acc.duplicates \subseteq RowIds(old)
      /\ active \in RowIds(table) =>
            /\ acc.cat.active = active /\ active \in RowIds(old) \ acc.duplicates
            /\ \A r \in ToSet(old), x \in ToSet(table) :
                  r.id = active /\ x.id = active => (r.key \in done <=> x.key \in done)
  BY <1>1 DEF BroughtInv
\* Whichever way it finds its id.
<1>7. /\ id \notin a.duplicates /\ more \subseteq RowIds(old)
      /\ \A r \in ToSet(old) : r.id = id => r.key = k
      /\ \A r \in ToSet(old) : r.id \in more <=> r.key = k /\ r.id # id
      /\ \A r \in ToSet(old) : r.id = acc.cat.active /\ r.key = k => id = acc.cat.active
  <2>1. CASE id \in FreshIds(old) /\ more = {} /\ k \notin KeysIn(old)
    <3>1. id \notin RowIds(old)
      BY <2>1 DEF FreshIds
    <3>2. \A r \in ToSet(old) : r.id # id /\ r.key # k
      BY <1>5, <2>1, <3>1 DEF KeysIn
    <3> QED BY <1>3, <1>6, <2>1, <3>1, <3>2
  <2>2. CASE /\ id \in RowIds(old) \ acc.duplicates
             /\ more \subseteq RowIds(old)
             /\ \A r \in ToSet(old) :
                   /\ r.id = id => r.key = k
                   /\ r.id \in more <=> r.key = k /\ r.id # id
                   /\ r.id = acc.cat.active /\ r.key = k => id = acc.cat.active
    <3>1. id \notin more
      BY <1>5, <2>2
    <3> QED BY <1>3, <2>2, <3>1
  <2> QED BY <1>1, <1>2, <2>1, <2>2 DEF Finds
<1>8. ASSUME NEW r \in ToSet(new)
      PROVE  IF r.key \in done \cup {k}
             THEN r.id \in a.duplicates \/ (r.id \in a.imported /\ r.sub = a.sub)
             ELSE r \in ToSet(table) /\ r.id \notin a.duplicates \cup a.imported
  <2>1. CASE r = row
    BY <1>3, <1>4, <2>1
  <2>2. CASE r \in ToSet(old) /\ r.id # id
    <3>1. r.id \in more <=> r.key = k
      BY <1>7, <2>2
    <3>2. IF r.key \in done
          THEN r.id \in acc.duplicates \/ (r.id \in acc.imported /\ r.sub = acc.sub)
          ELSE r \in ToSet(table) /\ r.id \notin acc.duplicates \cup acc.imported
      BY <1>6, <2>2
    <3> QED BY <1>3, <2>2, <3>1, <3>2
  <2> QED BY <1>2, <2>1, <2>2
<1>9. \A r \in ToSet(table) : r.key \notin done \cup {k} => r \in ToSet(new)
  BY <1>2, <1>6, <1>7
<1>10. ASSUME NEW j \in done \cup {k}
       PROVE  \E r \in ToSet(new) :
                 /\ r.key = j /\ r.id \notin a.duplicates
                 /\ \A s \in ToSet(new) : s.key = j /\ s.id \notin a.duplicates => s = r
  <2>1. CASE j = k
    <3>1. row \in ToSet(new) /\ row.key = j /\ row.id \notin a.duplicates
      BY <1>2, <1>4, <1>7, <2>1
    <3>2. ASSUME NEW s \in ToSet(new), s.key = j, s.id \notin a.duplicates PROVE s = row
      BY <1>2, <1>3, <1>7, <2>1, <3>2
    <3> QED BY <3>1, <3>2
  <2>2. CASE j # k
    <3>1. PICK r \in ToSet(old) :
             /\ r.key = j /\ r.id \notin acc.duplicates
             /\ \A s \in ToSet(old) : s.key = j /\ s.id \notin acc.duplicates => s = r
      BY <1>6, <2>2
    <3>2. r \in ToSet(new) /\ r.id \notin a.duplicates
      BY <1>2, <1>3, <1>7, <2>2, <3>1
    <3>3. \A s \in ToSet(new) : s.key = j /\ s.id \notin a.duplicates => s = r
      BY <1>2, <1>3, <1>4, <2>2, <3>1
    <3> QED BY <3>1, <3>2, <3>3
  <2> QED BY <2>1, <2>2
<1>11. a.duplicates \subseteq RowIds(new)
  BY <1>2, <1>3, <1>4, <1>5, <1>6, <1>7
<1>12. ASSUME active \in RowIds(table)
       PROVE  /\ a.cat.active = active /\ active \in RowIds(new) \ a.duplicates
              /\ \A r \in ToSet(new), x \in ToSet(table) :
                    r.id = active /\ x.id = active =>
                        (r.key \in done \cup {k} <=> x.key \in done \cup {k})
  <2>1. a.cat.active = active /\ acc.cat.active = active /\ active \in RowIds(old) \ acc.duplicates
    BY <1>2, <1>6, <1>12
  <2>2. PICK x \in ToSet(old) : x.id = active
    BY <1>5, <2>1
  <2>3. active \notin more
    BY <1>7, <2>1, <2>2
  <2>4. active \in RowIds(new) \ a.duplicates
    BY <1>2, <1>3, <1>4, <1>5, <2>1, <2>2, <2>3
  <2>5. \A r \in ToSet(new), y \in ToSet(table) :
           r.id = active /\ y.id = active =>
               (r.key \in done \cup {k} <=> y.key \in done \cup {k})
    <3> SUFFICES ASSUME NEW r \in ToSet(new), NEW y \in ToSet(table), r.id = active, y.id = active
                 PROVE  r.key \in done \cup {k} <=> y.key \in done \cup {k}
      OBVIOUS
    <3>1. x.key \in done <=> y.key \in done
      BY <1>6, <1>12, <2>2
    <3>2. x.key \notin done => x = y
      BY <1>5, <1>6, <2>2
    <3>3. r = x \/ (r = row /\ id = active /\ x.key = k)
      BY <1>2, <1>4, <1>5, <1>7, <2>1, <2>2
    <3> QED BY <1>4, <3>1, <3>2, <3>3
  <2> QED BY <2>1, <2>4, <2>5
<1>13. a.sub = sub
  BY <1>3 DEF BroughtInv
<1> QED BY <1>1, <1>8, <1>9, <1>10, <1>11, <1>12, <1>13 DEF BroughtInv

\* The kinds among the first n of a list.
DoneBy(list, n) == {list[i] : i \in 1 .. n}

\* So it is after every kind of the list.
LEMMA BroughtAll ==
    ASSUME NEW cat, NEW subs, NEW keys, IsFiniteSet(keys), CatInv(cat, subs, keys),
           NEW content \in SUBSET keys, NEW sub, sub \in subs \cup {NoSub},
           NEW list \in Seq(content), Once(list),
           NEW start,
           start = [cat |-> cat, sub |-> sub, imported |-> {}, duplicates |-> {}],
           NEW f, Imports(f, Len(list), list, start),
           NEW n \in 0 .. Len(list)
    PROVE  BroughtInv(f[n], cat.rows, cat.active, sub, DoneBy(list, n))
<1> DEFINE Good(m) == BroughtInv(f[m], cat.rows, cat.active, sub, DoneBy(list, m))
           Bad == {m \in 0 .. Len(list) : ~Good(m)}
<1>1. Len(list) \in Nat /\ Bad \in SUBSET Nat
  BY LenProperties
<1>2. \A i \in 0 .. Len(list) :
         f[i] = IF i = 0 THEN start ELSE ImportProfile(f[i - 1], list[i])
  BY DEF Imports
<1>3. ASSUME Bad # {} PROVE FALSE
  <2>1. PICK m \in Bad : \A j \in Bad : m <= j
    BY <1>1, <1>3, LeastIndex
  <2>2. m \in 0 .. Len(list) /\ ~Good(m)
    BY <2>1
  <2>3. m # 0
    <3> SUFFICES ASSUME m = 0 PROVE FALSE
      OBVIOUS
    <3>1. f[m] = start
      BY <1>2, <2>2
    <3>2. /\ start.cat = cat /\ start.sub = sub /\ start.imported = {} /\ start.duplicates = {}
          /\ DoneBy(list, m) = {}
      BY DEF DoneBy
    <3>3. PICK table, active, none : table = cat.rows /\ active = cat.active /\ none = DoneBy(list, m)
      OBVIOUS
    <3>4. BroughtInv(start, table, active, sub, none)
      BY <3>2, <3>3 DEF BroughtInv
    <3> QED BY <2>2, <3>1, <3>3, <3>4
  <2>4. m \in 1 .. Len(list) /\ m - 1 \in 0 .. Len(list) /\ m \in Nat /\ ~(m <= m - 1)
    BY <1>1, <2>2, <2>3
  <2>5. Good(m - 1)
    BY <2>1, <2>4
  <2>6. f[m] = ImportProfile(f[m - 1], list[m])
    BY <1>2, <2>2, <2>3
  <2>7. PICK a, k, rest, done, table, active :
           /\ a = f[m - 1] /\ k = list[m] /\ rest = ToCome(content, list, m - 1)
           /\ done = DoneBy(list, m - 1) /\ table = cat.rows /\ active = cat.active
    OBVIOUS
  <2>8. k \in keys /\ k \in rest /\ k \notin done
    <3>1. k \in content
      BY <2>4, <2>7, ElementOfSeq
    <3>2. \A i \in 1 .. m - 1 : i \in 1 .. Len(list) /\ i # m
      BY <1>1, <2>4
    <3>3. \A i \in 1 .. m - 1 : list[i] # list[m]
      BY <2>4, <3>2 DEF Once
    <3> QED BY <2>7, <3>1, <3>3 DEF ToCome, DoneBy
  <2>9. DoneBy(list, m) = done \cup {k}
    <3>1. \A i : i \in 1 .. m <=> i \in 1 .. m - 1 \/ i = m
      BY <2>4
    <3> QED BY <2>7, <3>1 DEF DoneBy
  <2>10. AccInv(a, subs, keys, rest)
    <3>1. AccInv(f[m - 1], subs, keys, ToCome(content, list, m - 1))
      BY <2>4, ImportsAre
    <3> QED BY <2>7, <3>1
  <2>11. BroughtInv(a, table, active, sub, done) /\ TableShape(table) /\ TableShape(a.cat.rows)
    BY <2>5, <2>7, <2>10 DEF CatInv, AccInv
  <2>12. PICK b : b = ImportProfile(a, k)
    OBVIOUS
  <2>13. BroughtInv(b, table, active, sub, done \cup {k})
    <3>1. PICK id \in ProfileIds : \E more : Effect(a, b, k, id, more)
      BY <2>8, <2>10, <2>12, ImportEffect
    <3>2. PICK more : Effect(a, b, k, id, more)
      BY <3>1
    <3> QED BY <2>8, <2>11, <3>2, BroughtStep
  <2> QED BY <2>2, <2>6, <2>7, <2>9, <2>12, <2>13
<1>4. Good(n)
  BY <1>3
<1> QED BY <1>4

\* What an import of a subscription makes of a catalogue.
Replaces(cat, content, sub, c) ==
    /\ KeysOf(c.rows, sub) = content
    /\ \A k \in content : \E r \in ToSet(c.rows) :
          r.key = k /\ \A s \in ToSet(c.rows) : s.key = k => s = r
    /\ \A r \in ToSet(cat.rows) : r.sub # sub /\ r.key \notin content => r \in ToSet(c.rows)
    /\ \A r \in ToSet(cat.rows) :
          r.id = cat.active /\ (r.key \in content \/ r.sub # sub) => c.active = cat.active

\* What is deleted at the end, the old rows that were not imported and the
\* duplicates, leaves just that.
LEMMA ImportReplaces ==
    ASSUME NEW cat, NEW subs, NEW keys, IsFiniteSet(keys), CatInv(cat, subs, keys),
           NEW content \in SUBSET keys, content # {}, NEW sub, sub \in subs, sub # NoSub,
           NEW c, c = ImportText(cat, content, sub)
    PROVE  Replaces(cat, content, sub, c)
<1>1. PICK list : list = SetToSeq(content)
  OBVIOUS
<1>2. IsFiniteSet(content)
  BY FS_Subset
<1>3. /\ list \in Seq(content) /\ Len(list) \in Nat /\ Once(list)
      /\ HasAll(list, content)
  BY <1>1, <1>2, ListOfSet
<1>4. PICK start : start = [cat |-> cat, sub |-> sub, imported |-> {}, duplicates |-> {}]
  OBVIOUS
<1> DEFINE f == CHOOSE f : Imports(f, Len(list), list, start)
<1>5. Imports(f, Len(list), list, start)
  BY <1>3, ImportsExists
<1>6. PICK old, before, active :
         /\ before = cat.rows /\ active = cat.active
         /\ old = RowsIn(before, {r \in ToSet(before) : sub # NoSub /\ r.sub = sub})
  OBVIOUS
<1>7. c = FinishImport(f[Len(list)], old)
  BY <1>1, <1>4, <1>6 DEF ImportText, Imports
<1> HIDE DEF f
<1>8. PICK n, acc : n = Len(list) /\ acc = f[n]
  OBVIOUS
<1>9. n \in 0 .. Len(list) /\ sub \in subs \cup {NoSub} /\ list \in Seq(content) /\ Once(list)
  BY <1>3, <1>8
<1>10. AccInv(acc, subs, keys, ToCome(content, list, n))
  <2>1. AccInv(f[n], subs, keys, ToCome(content, list, n))
    BY <1>4, <1>5, <1>9, ImportsAre
  <2> QED BY <1>8, <2>1
<1>11. DoneBy(list, n) = content
  <2>1. \A i \in 1 .. n : list[i] \in content
    BY <1>3, <1>8, ElementOfSeq
  <2> QED BY <1>3, <1>8, <2>1 DEF DoneBy, HasAll
<1>12. BroughtInv(acc, before, active, sub, content)
  <2>1. BroughtInv(f[n], cat.rows, cat.active, sub, DoneBy(list, n))
    BY <1>4, <1>5, <1>9, BroughtAll
  <2> QED BY <1>6, <1>8, <1>11, <2>1
<1>13. PICK table, dups, gone, t :
         /\ table = acc.cat.rows /\ dups = acc.duplicates
         /\ gone = dups \cup ({r.id : r \in {x \in ToSet(old) : acc.sub # NoSub /\ x.sub = acc.sub}}
                              \ acc.imported)
         /\ t = Without(table, gone)
  OBVIOUS
<1>14. c = Catalogue(t, acc.cat.active)
  BY <1>7, <1>8, <1>13 DEF FinishImport
<1>15. TableShape(table) /\ TableShape(before)
  BY <1>6, <1>10, <1>13 DEF AccInv, CatInv
<1>16. TableShape(t) /\ ToSet(t) = {r \in ToSet(table) : r.id \notin gone}
  BY <1>13, <1>15, LeftIs
<1>17. c.rows = t /\ (acc.cat.active \in RowIds(t) => c.active = acc.cat.active)
  BY <1>14, <1>16, CatalogueIs
<1>18. /\ RowIds(t) = {r.id : r \in ToSet(t)} /\ RowIds(table) = {r.id : r \in ToSet(table)}
       /\ RowIds(before) = {r.id : r \in ToSet(before)}
       /\ \A r, s \in ToSet(table) : r.id = s.id => r = s
       /\ \A r, s \in ToSet(before) : r.id = s.id => r = s
  BY <1>15, <1>16, TableOf
<1>19. /\ acc.sub = sub
       /\ \A r \in ToSet(table) :
             IF r.key \in content
             THEN r.id \in dups \/ (r.id \in acc.imported /\ r.sub = sub)
             ELSE r \in ToSet(before) /\ r.id \notin dups \cup acc.imported
       /\ \A r \in ToSet(before) : r.key \notin content => r \in ToSet(table)
       /\ \A k \in content : \E r \in ToSet(table) :
             /\ r.key = k /\ r.id \notin dups
             /\ \A s \in ToSet(table) : s.key = k /\ s.id \notin dups => s = r
       /\ active \in RowIds(before) =>
             /\ acc.cat.active = active /\ active \in RowIds(table) \ dups
             /\ \A r \in ToSet(table), x \in ToSet(before) :
                   r.id = active /\ x.id = active => (r.key \in content <=> x.key \in content)
  BY <1>12, <1>13 DEF BroughtInv
<1>20. ToSet(old) = {r \in ToSet(before) : r.sub = sub}
  BY <1>6, <1>15, SomeRows
<1>21. gone = dups \cup ({r.id : r \in {x \in ToSet(before) : x.sub = sub}} \ acc.imported)
  BY <1>13, <1>19, <1>20
<1>22. \A r \in ToSet(table) : IF r.key \in content THEN r.id \in gone <=> r.id \in dups
                               ELSE r.id \in gone <=> r.sub = sub
  <2> SUFFICES ASSUME NEW r \in ToSet(table)
               PROVE  IF r.key \in content THEN r.id \in gone <=> r.id \in dups
                      ELSE r.id \in gone <=> r.sub = sub
    OBVIOUS
  <2>1. CASE r.key \in content
    BY <1>19, <1>21, <2>1
  <2>2. CASE r.key \notin content
    <3>1. r \in ToSet(before) /\ r.id \notin dups \cup acc.imported
      BY <1>19, <2>2
    <3>2. \A x \in ToSet(before) : x.id = r.id => x = r
      BY <1>18, <3>1
    <3> QED BY <1>21, <2>2, <3>1, <3>2
  <2> QED BY <2>1, <2>2
<1>23. KeysOf(t, sub) = content
  <2>1. ASSUME NEW r \in ToSet(t), r.sub = sub PROVE r.key \in content
    BY <1>16, <1>22, <2>1
  <2>2. ASSUME NEW k \in content PROVE \E r \in ToSet(t) : r.sub = sub /\ r.key = k
    <3>1. PICK r \in ToSet(table) : r.key = k /\ r.id \notin dups
      BY <1>19
    <3> QED BY <1>16, <1>19, <1>22, <3>1
  <2> QED BY <2>1, <2>2 DEF KeysOf
<1>24. ASSUME NEW k \in content
       PROVE  \E r \in ToSet(t) : r.key = k /\ \A s \in ToSet(t) : s.key = k => s = r
  <2>1. PICK r \in ToSet(table) :
           /\ r.key = k /\ r.id \notin dups
           /\ \A s \in ToSet(table) : s.key = k /\ s.id \notin dups => s = r
    BY <1>19
  <2>2. r \in ToSet(t)
    BY <1>16, <1>22, <2>1
  <2>3. \A s \in ToSet(t) : s.key = k => s = r
    BY <1>16, <1>22, <2>1
  <2> QED BY <2>1, <2>2, <2>3
<1>25. \A r \in ToSet(before) : r.sub # sub /\ r.key \notin content => r \in ToSet(t)
  BY <1>16, <1>19, <1>22
<1>26. ASSUME NEW r \in ToSet(before), r.id = active, r.key \in content \/ r.sub # sub
       PROVE  c.active = active
  <2>1. /\ acc.cat.active = active /\ active \in RowIds(table) \ dups
        /\ \A y \in ToSet(table) : y.id = active => (y.key \in content <=> r.key \in content)
    BY <1>18, <1>19, <1>26
  <2>2. PICK y \in ToSet(table) : y.id = active
    BY <1>18, <2>1
  <2>3. CASE r.key \in content
    <3>1. y \in ToSet(t)
      BY <1>16, <1>22, <2>1, <2>2, <2>3
    <3> QED BY <1>17, <1>18, <2>1, <2>2, <3>1
  <2>4. CASE r.key \notin content
    <3>1. r \in ToSet(t)
      BY <1>25, <1>26, <2>4
    <3> QED BY <1>17, <1>18, <1>26, <2>1, <3>1
  <2> QED BY <2>3, <2>4
<1> QED BY <1>6, <1>17, <1>23, <1>24, <1>25, <1>26 DEF Replaces

\* One update is applied to the subscription it was prepared for, if that is
\* as it was.
LEMMA UpdateStep ==
    ASSUME ProfilesInv, ApplyUpdate, NEW p \in prepared, prepared = {p}
    PROVE  IF subItem[p.sub] = p.item
           THEN Replaces(Now, p.content, p.sub, [rows |-> rows', active |-> indexId'])
           ELSE UNCHANGED <<rows, indexId>>
<1>1. PICK current, list, keys, start, subs :
         /\ current = {q \in prepared : IsCurrent(q)} /\ list = SetToSeq(current)
         /\ keys = UNION {q.content : q \in prepared} /\ start = Now /\ subs = Present
  OBVIOUS
<1>2. /\ p.sub \in Subs /\ p.content \subseteq Keys /\ p.content # {} /\ p.item = "on"
      /\ keys = p.content /\ p.sub # NoSub
  BY <1>1, ProfilesBounds DEF ProfilesInv, PreparedShape
<1>3. IsFiniteSet(keys)
  BY <1>2, FS_Subset, ProfilesBounds
<1>4. current = IF subItem[p.sub] = p.item THEN {p} ELSE {}
  BY <1>1 DEF IsCurrent
<1>5. IsFiniteSet(current)
  <2>1. current \in SUBSET prepared
    BY <1>1
  <2> QED BY <2>1, FS_Subset DEF ProfilesInv
<1>6. list \in Seq(current) /\ Len(list) \in Nat /\ Once(list) /\ HasAll(list, current)
  BY <1>1, <1>5, ListOfSet
<1>7. \A i \in 1 .. Len(list) : list[i] \in current
  BY <1>6, ElementOfSeq
<1> DEFINE f == CHOOSE f : Updates(f, Len(list), list, start)
<1>8. Updates(f, Len(list), list, start)
  BY <1>6, UpdatesExists
<1>9. HasIdsFor(keys) /\ Becomes(f[Len(list)])
  BY <1>1 DEF ApplyUpdate, Updates
<1> HIDE DEF f
<1>10. CatInv(start, subs, keys)
  BY <1>1, <1>3, <1>9, NowIs
<1>11. \A i \in 0 .. Len(list) :
          f[i] = IF i = 0 THEN start ELSE ImportText(f[i - 1], list[i].content, list[i].sub)
  BY <1>8 DEF Updates
<1>12. start.rows = rows /\ start.active = indexId
  BY <1>1 DEF Now
<1>13. CASE subItem[p.sub] = p.item
  <2>1. Len(list) = 1 /\ list[1] = p
    <3>1. \A i \in 1 .. Len(list) : list[i] = p
      BY <1>4, <1>7, <1>13
    <3>2. PICK i \in 1 .. Len(list) : list[i] = p
      BY <1>4, <1>6, <1>13 DEF HasAll
    <3>3. \A j, k \in 1 .. Len(list) : j = k
      BY <1>6, <3>1 DEF Once
    <3>4. PICK n \in Nat : n = Len(list)
      BY <1>6
    <3>5. n = 1
      <4>1. i \in 1 .. n /\ \A j, k \in 1 .. n : j = k
        BY <3>2, <3>3, <3>4
      <4>2. 1 \in 1 .. n /\ n \in 1 .. n
        BY <4>1
      <4> QED BY <4>1, <4>2
    <3> QED BY <3>1, <3>4, <3>5
  <2>2. PICK c, content, sub : c = f[Len(list)] /\ content = p.content /\ sub = p.sub
    OBVIOUS
  <2>3. c = ImportText(start, content, sub)
    <3>1. f[0] = start /\ f[1] = ImportText(f[1 - 1], list[1].content, list[1].sub)
      BY <1>11, <2>1
    <3>2. f[1] = ImportText(f[0], list[1].content, list[1].sub)
      BY <3>1
    <3> QED BY <2>1, <2>2, <3>1, <3>2
  <2>4. sub \in subs /\ sub # NoSub /\ content \in SUBSET keys /\ content # {}
    BY <1>1, <1>2, <1>13, <2>2 DEF Present
  <2>5. Replaces(start, content, sub, c)
    BY <1>3, <1>10, <2>3, <2>4, ImportReplaces
  <2>6. PICK d : d = [rows |-> rows', active |-> indexId']
    OBVIOUS
  <2>7. d.rows = c.rows /\ d.active = c.active
    BY <1>9, <2>2, <2>6 DEF Becomes
  <2>8. Replaces(start, content, sub, d)
    BY <2>5, <2>7 DEF Replaces
  <2> QED BY <1>1, <1>13, <2>2, <2>6, <2>8
<1>14. CASE subItem[p.sub] # p.item
  <2>1. Len(list) = 0
    <3>1. \A i \in 1 .. Len(list) : FALSE
      BY <1>4, <1>7, <1>14
    <3>2. PICK n \in Nat : n = Len(list)
      BY <1>6
    <3>3. n = 0
      <4>1. \A i \in 1 .. n : FALSE
        BY <3>1, <3>2
      <4>2. n # 0 => 1 \in 1 .. n
        OBVIOUS
      <4> QED BY <4>1, <4>2
    <3> QED BY <3>2, <3>3
  <2>2. f[Len(list)] = start
    BY <1>11, <2>1
  <2>3. rows' = rows /\ indexId' = indexId
    BY <1>9, <1>12, <2>2 DEF Becomes
  <2> QED BY <1>14, <2>3
<1> QED BY <1>13, <1>14

LEMMA UpdatesReplace == ProfilesInv /\ [ProfilesNext]_profilesVars => [UpdateReplaces]_profilesVars
<1> SUFFICES ASSUME ProfilesInv, ApplyUpdate PROVE UpdateReplaces
  BY DEF UpdateReplaces
<1> SUFFICES ASSUME NEW p \in prepared, prepared = {p}
             PROVE  IF subItem[p.sub] = p.item
                    THEN /\ KeysOf(rows', p.sub) = p.content
                         /\ \A k \in p.content :
                              Cardinality({r \in ToSet(rows') : r.key = k}) = 1
                         /\ \A r \in ToSet(rows) :
                              (r.sub # p.sub /\ r.key \notin p.content) => r \in ToSet(rows')
                         /\ (rows # <<>> /\ (RowOf(rows, indexId).key \in p.content
                               \/ RowOf(rows, indexId).sub # p.sub)) => indexId' = indexId
                    ELSE UNCHANGED <<rows, indexId>>
  BY DEF UpdateReplaces
<1>1. PICK start, c, content, sub :
         /\ start = Now /\ c = [rows |-> rows', active |-> indexId']
         /\ content = p.content /\ sub = p.sub
  OBVIOUS
<1>2. IF subItem[p.sub] = p.item THEN Replaces(start, content, sub, c)
      ELSE UNCHANGED <<rows, indexId>>
  BY <1>1, UpdateStep
<1>3. CASE subItem[p.sub] = p.item
  <2>1. c.rows = rows' /\ c.active = indexId' /\ start.rows = rows /\ start.active = indexId
    BY <1>1 DEF Now
  <2>2. /\ KeysOf(rows', sub) = content
        /\ \A k \in content : \E r \in ToSet(rows') :
              r.key = k /\ \A s \in ToSet(rows') : s.key = k => s = r
        /\ \A r \in ToSet(rows) : r.sub # sub /\ r.key \notin content => r \in ToSet(rows')
        /\ \A r \in ToSet(rows) :
              r.id = indexId /\ (r.key \in content \/ r.sub # sub) => indexId' = indexId
    BY <1>2, <1>3, <2>1 DEF Replaces
  <2>3. ASSUME NEW k \in content PROVE Cardinality({r \in ToSet(rows') : r.key = k}) = 1
    <3>1. PICK r \in ToSet(rows') : r.key = k /\ \A s \in ToSet(rows') : s.key = k => s = r
      BY <2>2
    <3>2. {x \in ToSet(rows') : x.key = k} = {r}
      BY <3>1
    <3> QED BY <3>2, FS_Singleton
  <2>4. ASSUME rows # <<>>, RowOf(rows, indexId).key \in content \/ RowOf(rows, indexId).sub # sub
        PROVE  indexId' = indexId
    <3>1. PICK r : r = RowOf(rows, indexId)
      OBVIOUS
    <3>2. indexId \in RowIds(rows)
      BY <2>4 DEF ProfilesInv, ActiveIn
    <3>3. \E i \in DOMAIN rows : rows[i].id = indexId
      BY <3>2 DEF RowIds
    <3>4. PICK i : i = CHOOSE j \in DOMAIN rows : rows[j].id = indexId
      OBVIOUS
    <3>5. i \in DOMAIN rows /\ rows[i].id = indexId
      BY <3>3, <3>4
    <3>6. r = rows[i]
      BY <3>1, <3>4 DEF RowOf
    <3>7. r \in ToSet(rows) /\ r.id = indexId
      BY <3>5, <3>6 DEF ToSet
    <3> QED BY <2>2, <2>4, <3>1, <3>7
  <2> QED BY <1>1, <1>3, <2>2, <2>3, <2>4
<1>4. CASE subItem[p.sub] # p.item
  BY <1>2, <1>4
<1> QED BY <1>3, <1>4

\* So the names are there and the built-in template is there once; and an update
\* replaces what its subscription had, leaves the profiles it says nothing of
\* and the active one where they were, and is dropped when the subscription was
\* edited while it was downloaded (subscriptions/manager.rs).
THEOREM CatalogueIsRight ==
    ProfilesSpec /\ RoutingsSpec => []CatalogueHolds /\ [][UpdateReplaces]_profilesVars
<1>1. ProfilesSpec => [][UpdateReplaces]_profilesVars
  BY ProfilesStart, ProfilesStep, UpdatesReplace, PTL DEF ProfilesSpec
<1> QED BY <1>1, NamesHold, BuiltinComesOnce, PTL DEF CatalogueHolds

-----------------------------------------------------------------------------
(* Moving one rule.                                                         *)

LEMMA RemovedAt ==
    ASSUME NEW S, NEW s \in Seq(S), NEW i \in 1 .. Len(s)
    PROVE  /\ RemoveAt(s, i) \in Seq(S)
           /\ Len(RemoveAt(s, i)) = Len(s) - 1
           /\ \A j \in 1 .. Len(s) - 1 :
                 RemoveAt(s, i)[j] = IF j < i THEN s[j] ELSE s[j + 1]
<1>1. PICK n \in Nat : n = Len(s)
  BY LenProperties
<1>2. PICK a, b : a = SubSeq(s, 1, i - 1) /\ b = SubSeq(s, i + 1, n)
  OBVIOUS
<1>3. \A j \in 1 .. n : s[j] \in S
  BY <1>1, ElementOfSeq
<1>4. /\ a \in Seq(S) /\ Len(a) = i - 1
      /\ \A j \in 1 .. i - 1 : a[j] = s[j]
  <2>1. i - 1 \in Int /\ 1 \in Int /\ \A j \in 1 .. i - 1 : s[j] \in S
    BY <1>1, <1>3
  <2>2. /\ a \in Seq(S) /\ Len(a) = IF 1 <= i - 1 THEN i - 1 - 1 + 1 ELSE 0
        /\ \A j \in 1 .. i - 1 - 1 + 1 : a[j] = s[1 + j - 1]
    BY <1>2, <2>1, SubSeqProperties
  <2> QED BY <1>1, <2>2
<1>5. /\ b \in Seq(S) /\ Len(b) = n - i
      /\ \A j \in 1 .. n - i : b[j] = s[i + j]
  <2>1. i + 1 \in Int /\ n \in Int /\ \A j \in i + 1 .. n : s[j] \in S
    BY <1>1, <1>3
  <2>2. /\ b \in Seq(S) /\ Len(b) = IF i + 1 <= n THEN n - (i + 1) + 1 ELSE 0
        /\ \A j \in 1 .. n - (i + 1) + 1 : b[j] = s[(i + 1) + j - 1]
    BY <1>2, <2>1, SubSeqProperties
  <2> QED BY <1>1, <2>2
<1>6. RemoveAt(s, i) = a \o b
  BY <1>1, <1>2 DEF RemoveAt
<1>7. /\ a \o b \in Seq(S) /\ Len(a \o b) = Len(a) + Len(b)
      /\ \A j \in 1 .. Len(a) + Len(b) :
            (a \o b)[j] = IF j <= Len(a) THEN a[j] ELSE b[j - Len(a)]
  BY <1>4, <1>5, ConcatProperties
<1>8. ASSUME NEW j \in 1 .. n - 1
      PROVE  (a \o b)[j] = IF j < i THEN s[j] ELSE s[j + 1]
  <2>1. j \in 1 .. Len(a) + Len(b) /\ Len(a) = i - 1 /\ i \in Nat /\ j \in Nat
    BY <1>1, <1>4, <1>5
  <2>2. (a \o b)[j] = IF j <= i - 1 THEN a[j] ELSE b[j - (i - 1)]
    BY <1>7, <2>1
  <2>3. CASE j < i
    <3>1. j \in 1 .. i - 1 /\ j <= i - 1
      BY <2>1, <2>3
    <3> QED BY <1>4, <2>2, <2>3, <3>1
  <2>4. CASE ~(j < i)
    <3>1. j - (i - 1) \in 1 .. n - i /\ ~(j <= i - 1) /\ i + (j - (i - 1)) = j + 1
      BY <1>1, <2>1, <2>4
    <3>2. b[j - (i - 1)] = s[i + (j - (i - 1))]
      BY <1>5, <3>1
    <3> QED BY <2>2, <2>4, <3>1, <3>2
  <2> QED BY <2>3, <2>4
<1> QED BY <1>1, <1>4, <1>5, <1>6, <1>7, <1>8

InsertedRule(list, s, p, e) ==
    /\ Len(list) = Len(s) + 1
    /\ \A j \in 1 .. Len(s) + 1 :
          list[j] = IF j < p THEN s[j] ELSE IF j = p THEN e ELSE s[j - 1]

LEMMA InsertedAt ==
    ASSUME NEW S, NEW s \in Seq(S), NEW p \in 1 .. Len(s) + 1, NEW e \in S
    PROVE  InsertAt(s, p, e) \in Seq(S) /\ InsertedRule(InsertAt(s, p, e), s, p, e)
<1>1. PICK n \in Nat : n = Len(s)
  BY LenProperties
<1>2. PICK a, b : a = SubSeq(s, 1, p - 1) /\ b = SubSeq(s, p, n)
  OBVIOUS
<1>3. \A j \in 1 .. n : s[j] \in S
  BY <1>1, ElementOfSeq
<1>4. /\ a \in Seq(S) /\ Len(a) = p - 1
      /\ \A j \in 1 .. p - 1 : a[j] = s[j]
  <2>1. p - 1 \in Int /\ 1 \in Int /\ \A j \in 1 .. p - 1 : s[j] \in S
    BY <1>1, <1>3
  <2>2. /\ a \in Seq(S) /\ Len(a) = IF 1 <= p - 1 THEN p - 1 - 1 + 1 ELSE 0
        /\ \A j \in 1 .. p - 1 - 1 + 1 : a[j] = s[1 + j - 1]
    BY <1>2, <2>1, SubSeqProperties
  <2> QED BY <1>1, <2>2
<1>5. /\ b \in Seq(S) /\ Len(b) = n - p + 1
      /\ \A j \in 1 .. n - p + 1 : b[j] = s[p + j - 1]
  <2>1. p \in Int /\ n \in Int /\ \A j \in p .. n : s[j] \in S
    BY <1>1, <1>3
  <2>2. /\ b \in Seq(S) /\ Len(b) = IF p <= n THEN n - p + 1 ELSE 0
        /\ \A j \in 1 .. n - p + 1 : b[j] = s[p + j - 1]
    BY <1>2, <2>1, SubSeqProperties
  <2> QED BY <1>1, <2>2
<1>6. InsertAt(s, p, e) = (a \o <<e>>) \o b
  BY <1>1, <1>2 DEF InsertAt
<1>7. PICK c : c = a \o <<e>>
  OBVIOUS
<1>8. /\ c \in Seq(S) /\ Len(c) = p
      /\ \A j \in 1 .. p : c[j] = IF j < p THEN s[j] ELSE e
  <2>1. <<e>> \in Seq(S) /\ Len(<<e>>) = 1 /\ <<e>>[1] = e
    OBVIOUS
  <2>2. PICK o : o = <<e>>
    OBVIOUS
  <2>3. /\ a \o o \in Seq(S) /\ Len(a \o o) = Len(a) + Len(o)
        /\ \A j \in 1 .. Len(a) + Len(o) :
              (a \o o)[j] = IF j <= Len(a) THEN a[j] ELSE o[j - Len(a)]
    BY <1>4, <2>1, <2>2, ConcatProperties
  <2>4. Len(o) = 1 /\ o[1] = e
    BY <2>1, <2>2
  <2>5. c = a \o o /\ Len(c) = p
    BY <1>1, <1>4, <1>7, <2>2, <2>3, <2>4
  <2>6. ASSUME NEW j \in 1 .. p PROVE c[j] = IF j < p THEN s[j] ELSE e
    <3>1. c[j] = IF j <= p - 1 THEN a[j] ELSE o[j - (p - 1)]
      BY <1>1, <1>4, <2>3, <2>4, <2>5
    <3>2. CASE j < p
      <4>1. j \in 1 .. p - 1 /\ j <= p - 1
        BY <1>1, <3>2
      <4> QED BY <1>4, <3>1, <3>2, <4>1
    <3>3. CASE ~(j < p)
      <4>1. j - (p - 1) = 1 /\ ~(j <= p - 1)
        BY <1>1, <3>3
      <4> QED BY <2>4, <3>1, <3>3, <4>1
    <3> QED BY <3>2, <3>3
  <2> QED BY <2>3, <2>5, <2>6
<1>9. /\ c \o b \in Seq(S) /\ Len(c \o b) = Len(c) + Len(b)
      /\ \A j \in 1 .. Len(c) + Len(b) :
            (c \o b)[j] = IF j <= Len(c) THEN c[j] ELSE b[j - Len(c)]
  BY <1>5, <1>8, ConcatProperties
<1>10. ASSUME NEW j \in 1 .. n + 1
       PROVE  (c \o b)[j] = IF j < p THEN s[j] ELSE IF j = p THEN e ELSE s[j - 1]
  BY <1>1, <1>5, <1>8, <1>9
<1>11. InsertAt(s, p, e) = c \o b /\ Len(c \o b) = n + 1
  BY <1>1, <1>5, <1>6, <1>7, <1>8, <1>9
<1> QED BY <1>1, <1>9, <1>10, <1>11 DEF InsertedRule

\* Where a moved rule lands, counting from 1.
Landing(i, n, action, position) ==
    LET next == MovedIndex(i - 1, n, action, position)
    IN  IF next = i - 1 THEN i ELSE IF next > i - 1 THEN next ELSE next + 1

LandsRight(p, n, i, action, position) ==
    /\ p \in 1 .. n
    /\ action = "Top"    => p = 1
    /\ action = "Bottom" => p = n
    /\ action = "Up"     => p = IF i = 1 THEN 1 ELSE i - 1
    /\ action = "Down"   => p = IF i = n THEN i ELSE i + 1
    /\ action = "Position" /\ position < n /\ position # i - 1 =>
          p = IF position > i - 1 THEN position ELSE position + 1

LEMMA LandsWhere ==
    ASSUME NEW n \in Nat, NEW i \in 1 .. n, NEW action \in MoveActions,
           NEW position \in 0 .. n + 1
    PROVE  LandsRight(Landing(i, n, action, position), n, i, action, position)
<1>1. CASE action = "Top"
  BY <1>1 DEF Landing, LandsRight, MovedIndex
<1>2. CASE action = "Up"
  BY <1>2 DEF Landing, LandsRight, MovedIndex
<1>3. CASE action = "Down"
  BY <1>3 DEF Landing, LandsRight, MovedIndex
<1>4. CASE action = "Bottom"
  BY <1>4 DEF Landing, LandsRight, MovedIndex
<1>5. CASE action = "Position"
  BY <1>5 DEF Landing, LandsRight, MovedIndex
<1> QED BY <1>1, <1>2, <1>3, <1>4, <1>5 DEF MoveActions

LEMMA MovedIs ==
    ASSUME NEW S, NEW rules \in Seq(S), IsInjective(rules), NEW i \in 1 .. Len(rules),
           NEW action \in MoveActions, NEW position \in 0 .. Len(rules) + 1,
           NEW p, p = Landing(i, Len(rules), action, position)
    PROVE  /\ p \in 1 .. Len(rules)
           /\ Moved(rules, i - 1, action, position) \in Seq(S)
           /\ Len(Moved(rules, i - 1, action, position)) = Len(rules)
           /\ \A j \in 1 .. Len(rules) :
                 Moved(rules, i - 1, action, position)[j]
                    = IF j < p THEN RemoveAt(rules, i)[j]
                      ELSE IF j = p THEN rules[i] ELSE RemoveAt(rules, i)[j - 1]
<1>1. PICK n \in Nat : n = Len(rules)
  BY LenProperties
<1>2. p \in 1 .. n
  BY <1>1, LandsWhere DEF LandsRight
<1>3. PICK next, others, moved :
         /\ next = MovedIndex(i - 1, n, action, position)
         /\ others = RemoveAt(rules, i) /\ moved = Moved(rules, i - 1, action, position)
  OBVIOUS
<1>4. /\ others \in Seq(S) /\ Len(others) = n - 1
      /\ \A j \in 1 .. n - 1 : others[j] = IF j < i THEN rules[j] ELSE rules[j + 1]
  BY <1>1, <1>3, RemovedAt
<1>5. rules[i] \in S
  BY ElementOfSeq
<1>6. CASE next = i - 1
  <2>1. p = i /\ moved = rules
    BY <1>1, <1>3, <1>6 DEF Landing, Moved
  <2>2. ASSUME NEW j \in 1 .. n
        PROVE  rules[j] = IF j < i THEN others[j] ELSE IF j = i THEN rules[i] ELSE others[j - 1]
    <3>1. CASE j < i
      <4>1. j \in 1 .. n - 1
        BY <1>1, <3>1
      <4> QED BY <1>4, <3>1, <4>1
    <3>2. CASE j > i
      <4>1. j - 1 \in 1 .. n - 1 /\ ~(j - 1 < i) /\ j - 1 + 1 = j
        BY <1>1, <3>2
      <4> QED BY <1>4, <3>2, <4>1
    <3>3. CASE j = i
      BY <1>1, <3>3
    <3> QED BY <1>1, <3>1, <3>2, <3>3
  <2> QED BY <1>1, <1>2, <1>3, <2>1, <2>2
<1>7. CASE next # i - 1
  <2>1. p = IF next > i - 1 THEN next ELSE next + 1
    BY <1>1, <1>3, <1>7 DEF Landing
  <2>2. moved = InsertAt(others, (IF next > i - 1 THEN next - 1 ELSE next) + 1, rules[(i - 1) + 1])
    BY <1>1, <1>3, <1>7 DEF Moved
  <2>3. (i - 1) + 1 = i
    BY <1>1
  <2>4. next \in Int
    BY <1>1, <1>3 DEF MovedIndex, MoveActions
  <2>5. (IF next > i - 1 THEN next - 1 ELSE next) + 1 = p
    BY <1>1, <2>1, <2>4
  <2>6. moved = InsertAt(others, p, rules[i])
    BY <2>2, <2>3, <2>5
  <2>7. /\ moved \in Seq(S) /\ Len(moved) = n - 1 + 1
        /\ \A j \in 1 .. n - 1 + 1 :
              moved[j] = IF j < p THEN others[j] ELSE IF j = p THEN rules[i] ELSE others[j - 1]
    <3>1. p \in 1 .. Len(others) + 1
      BY <1>1, <1>2, <1>4
    <3>2. PICK e \in S : e = rules[i]
      BY <1>5
    <3>3. PICK m : m = InsertAt(others, p, e)
      OBVIOUS
    <3>4. m \in Seq(S) /\ InsertedRule(m, others, p, e)
      BY <1>4, <3>1, <3>3, InsertedAt
    <3>5. m = moved /\ Len(others) + 1 = n - 1 + 1
      BY <1>4, <2>6, <3>2, <3>3
    <3> QED BY <3>2, <3>4, <3>5 DEF InsertedRule
  <2> QED BY <1>1, <1>2, <1>3, <2>7
<1> QED BY <1>6, <1>7

LEMMA OneRuleMoves ==
    ASSUME NEW S, NEW rules \in Seq(S), IsInjective(rules),
           NEW i \in DOMAIN rules, NEW action \in MoveActions,
           NEW position \in 0 .. Len(rules) + 1
    PROVE  LET moved == Moved(rules, i - 1, action, position)
               landed == CHOOSE j \in DOMAIN rules : moved[j] = rules[i]
               others == RemoveAt(rules, i)
           IN  /\ RemoveAt(moved, landed) = others
               /\ CASE action = "Top"    -> landed = 1
                    [] action = "Bottom" -> landed = Len(rules)
                    [] action = "Up"     -> landed = IF i = 1 THEN 1 ELSE i - 1
                    [] action = "Down"   -> landed = IF i = Len(rules) THEN i ELSE i + 1
                    [] action = "Position" ->
                           position < Len(rules) /\ position # i - 1 =>
                               landed < Len(rules) /\ moved[landed + 1] = rules[position + 1]
<1> DEFINE moved == Moved(rules, i - 1, action, position)
           landed == CHOOSE j \in DOMAIN rules : moved[j] = rules[i]
<1> HIDE DEF moved
<1>1. PICK n \in Nat : n = Len(rules) /\ DOMAIN rules = 1 .. n
  BY LenProperties
<1>2. PICK p, others : p = Landing(i, n, action, position) /\ others = RemoveAt(rules, i)
  OBVIOUS
<1>3. /\ p \in 1 .. n /\ moved \in Seq(S) /\ Len(moved) = n
      /\ \A j \in 1 .. n :
            moved[j] = IF j < p THEN others[j] ELSE IF j = p THEN rules[i] ELSE others[j - 1]
  BY <1>1, <1>2, MovedIs DEF moved
<1>4. /\ others \in Seq(S) /\ Len(others) = n - 1
      /\ \A j \in 1 .. n - 1 : others[j] = IF j < i THEN rules[j] ELSE rules[j + 1]
  BY <1>1, <1>2, RemovedAt
<1>5. \A j \in 1 .. n - 1 : others[j] # rules[i]
  <2> SUFFICES ASSUME NEW j \in 1 .. n - 1, others[j] = rules[i] PROVE FALSE
    OBVIOUS
  <2>1. PICK k \in 1 .. n : k # i /\ others[j] = rules[k]
    BY <1>1, <1>4
  <2> QED BY <1>1, <2>1 DEF IsInjective
<1>6. landed = p
  <2>1. moved[p] = rules[i]
    BY <1>3
  <2>2. ASSUME NEW j \in 1 .. n, j # p PROVE moved[j] # rules[i]
    <3>1. CASE j < p
      <4>1. j \in 1 .. n - 1 /\ moved[j] = others[j]
        BY <1>3, <2>2, <3>1
      <4> QED BY <1>5, <4>1
    <3>2. CASE ~(j < p)
      <4>1. j - 1 \in 1 .. n - 1 /\ moved[j] = others[j - 1]
        BY <1>3, <2>2, <3>2
      <4> QED BY <1>5, <4>1
    <3> QED BY <3>1, <3>2
  <2> QED BY <1>1, <1>3, <2>1, <2>2
<1> HIDE DEF landed
<1>7. RemoveAt(moved, p) = others
  <2>1. PICK back : back = RemoveAt(moved, p)
    OBVIOUS
  <2>2. /\ back \in Seq(S) /\ Len(back) = n - 1
        /\ \A j \in 1 .. n - 1 : back[j] = IF j < p THEN moved[j] ELSE moved[j + 1]
    BY <1>3, <2>1, RemovedAt
  <2>3. ASSUME NEW j \in 1 .. n - 1 PROVE back[j] = others[j]
    <3>1. j \in 1 .. n /\ j + 1 \in 1 .. n /\ (j + 1) - 1 = j
      BY <1>1
    <3>2. CASE j < p
      BY <1>3, <2>2, <3>1, <3>2
    <3>3. CASE ~(j < p)
      <4>1. ~(j + 1 < p) /\ j + 1 # p
        BY <1>3, <3>1, <3>3
      <4>2. moved[j + 1] = others[(j + 1) - 1]
        BY <1>3, <3>1, <4>1
      <4> QED BY <2>2, <3>1, <3>3, <4>2
    <3> QED BY <3>2, <3>3
  <2> QED BY <1>4, <2>1, <2>2, <2>3, SeqEqual
<1>8. /\ action = "Top"    => p = 1
      /\ action = "Bottom" => p = n
      /\ action = "Up"     => p = IF i = 1 THEN 1 ELSE i - 1
      /\ action = "Down"   => p = IF i = n THEN i ELSE i + 1
      /\ action = "Position" /\ position < n /\ position # i - 1 =>
            p = IF position > i - 1 THEN position ELSE position + 1
  <2>1. n \in Nat /\ i \in 1 .. n /\ position \in 0 .. n + 1 /\ action \in MoveActions
    BY <1>1
  <2>2. p = Landing(i, n, action, position)
    BY <1>2
  <2>3. LandsRight(p, n, i, action, position)
    BY <2>1, <2>2, LandsWhere
  <2> QED BY <2>3 DEF LandsRight
<1>9. ASSUME action = "Position", position < n, position # i - 1
      PROVE  p < n /\ moved[p + 1] = rules[position + 1]
  <2>1. position \in Nat /\ p = IF position > i - 1 THEN position ELSE position + 1
    BY <1>8, <1>9
  <2>2. p < n
    BY <1>1, <1>9, <2>1
  <2>3. moved[p + 1] = others[(p + 1) - 1] /\ (p + 1) - 1 = p /\ p \in 1 .. n - 1
    BY <1>3, <2>2
  <2>4. others[p] = rules[position + 1]
    BY <1>1, <1>4, <1>9, <2>1, <2>3
  <2> QED BY <2>2, <2>3, <2>4
<1>10. CASE action = "Position"
  BY <1>1, <1>2, <1>6, <1>7, <1>9, <1>10 DEF moved, landed
<1>11. CASE action # "Position"
  BY <1>1, <1>2, <1>6, <1>7, <1>8, <1>11 DEF moved, landed, MoveActions
<1> QED BY <1>10, <1>11

\* A moved rule lands between the rules it was moved between and the others keep
\* their order, in every list of rules (moved_index, move_rule).
THEOREM RulesMove == \A S : \A rules \in Seq(S) : IsInjective(rules) => MovesOneRule(rules)
BY OneRuleMoves DEF MovesOneRule
=============================================================================
