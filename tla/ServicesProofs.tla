---------------------------- MODULE ServicesProofs ----------------------------
(* Theorems about TunnelService, Statistics, AppSettings, ProxyRuntime,       *)
(* UdpTest, LeafOutbounds and SingboxConfig.                                 *)
EXTENDS TunnelService, Statistics, AppSettings, ProxyRuntime, UdpTest,
        LeafOutbounds, SingboxConfig, FiniteSetTheorems, SequenceTheorems,
        WellFoundedInduction, TLAPS

-----------------------------------------------------------------------------
(* The tunnel service.                                                      *)

\* What each step of the service has behind it.
GuardInv ==
    /\ reported \in {"none", "StartPending", "Running", "StopPending", "Stopped"}
    /\ accepts = (reported = "Running")
    /\ child # "none" => config.inside /\ config.checks
    /\ servicePc \in {"new", "pending"} => child = "none" /\ reported # "Stopped"
    /\ servicePc = "run" => reported = "Running" /\ child # "none"
    /\ servicePc = "stopping" => reported = "StopPending" /\ child # "none"
    /\ reported = "Stopped" => child \in {"exited", "killed"} /\ servicePc = "ended"
    /\ child \in {"none", "runs", "exited", "killed"}

\* A sing-box of the tunnel service runs what was checked, can be stopped while
\* it is served, and has ended when the service says it stopped.
THEOREM ServiceGuards == ServiceSpec => []ServiceGuardsItsCore
<1>1. ServiceInit => GuardInv
  BY DEF ServiceInit, GuardInv
<1>2. GuardInv /\ [ServiceNext]_serviceVars => GuardInv'
  <2> SUFFICES ASSUME GuardInv, [ServiceNext]_serviceVars PROVE GuardInv'
    OBVIOUS
  <2> USE DEF GuardInv, Reports
  <2>1. CASE TunnelStarts
    BY <2>1 DEF TunnelStarts
  <2>2. CASE TunnelRuns
    BY <2>2 DEF TunnelRuns, PlanIsValid
  <2>3. CASE TunnelNoticesEnd
    BY <2>3 DEF TunnelNoticesEnd
  <2>4. CASE TunnelStops
    BY <2>4 DEF TunnelStops, StopChild
  <2>5. ASSUME NEW kind \in {"stop", "shutdown"}, ControlArrives(kind) PROVE GuardInv'
    BY <2>5 DEF ControlArrives
  <2>6. CASE ChildExits
    BY <2>6 DEF ChildExits
  <2>7. CASE UNCHANGED serviceVars
    BY <2>7 DEF serviceVars
  <2> QED BY <2>1, <2>2, <2>3, <2>4, <2>5, <2>6, <2>7 DEF ServiceNext
<1>3. GuardInv => ServiceGuardsItsCore
  BY DEF GuardInv, ServiceGuardsItsCore
<1> QED BY <1>1, <1>2, <1>3, PTL DEF ServiceSpec

-----------------------------------------------------------------------------
(* Traffic statistics: the sessions.                                        *)

\* A session that read of a core that was replaced has seen it and gives up
\* before its next read: cores are numbered as they start.
SessionInv ==
    /\ core \in Nat /\ service.core \in Nat /\ service.core <= core
    /\ service = [pc |-> service.pc, core |-> service.core, stale |-> service.stale]
    /\ service.stale \in {0, 1}
    /\ service.stale = 1 => service.core < core /\ service.pc \notin {"connecting", "select"}

\* The statistics session takes at most one sample of a core that is not its own.
THEOREM SessionsFollowTheCore == StatisticsSpec => []SessionIsOfItsCore
<1>1. StatisticsInit => SessionInv
  BY DEF StatisticsInit, SessionInv
<1>2. SessionInv /\ [StatisticsNext]_statisticsVars => SessionInv'
  <2> SUFFICES ASSUME SessionInv, [StatisticsNext]_statisticsVars PROVE SessionInv'
    OBVIOUS
  <2> USE DEF SessionInv
  <2>1. CASE World
    BY <2>1 DEF World, CoreStarts, Configure, DayEnds
  <2>2. CASE Close \/ Aggregator \/ UNCHANGED statisticsVars
    BY <2>2 DEF Close, Aggregator, InitializeData, AggregatorStops, Receive, Tick,
       AggregatorOnly, worldVars, statisticsVars
  <2>3. CASE ServiceTop
    BY <2>3 DEF ServiceTop, ServiceOnly, worldVars
  <2>4. CASE ServiceReads
    <3>1. service.stale = 0 /\ core' = core
      BY <2>4 DEF ServiceReads, ServiceAt, ServiceOnly, worldVars
    <3>2. service'.pc = "send" /\ service'.core = service.core
      BY <2>4 DEF ServiceReads
    <3>3. service'.stale = 0 + (IF core # service.core THEN 1 ELSE 0)
      BY <2>4, <3>1 DEF ServiceReads
    <3>4. service' = [pc |-> service'.pc, core |-> service'.core, stale |-> service'.stale]
      BY <2>4 DEF ServiceReads
    <3> QED BY <3>1, <3>2, <3>3, <3>4
  <2>5. CASE ServiceChecks
    BY <2>5 DEF ServiceChecks, ServiceAt, ServiceGoes, ServiceOnly, worldVars
  <2>6. CASE ServiceStops \/ ServiceReadsNothing \/ ServiceReadFails
    BY <2>6 DEF ServiceStops, ServiceReadsNothing, ServiceReadFails, ServiceAt,
       ServiceGoes, ServiceOnly, worldVars
  <2>7. CASE ServiceConnects \/ ServiceSends
    BY <2>7 DEF ServiceConnects, ServiceSends, ServiceAt, ServiceGoes, ServiceOnly, worldVars
  <2> QED BY <2>1, <2>2, <2>3, <2>4, <2>5, <2>6, <2>7 DEF StatisticsNext, Service
<1>3. SessionInv => SessionIsOfItsCore
  BY DEF SessionInv, SessionIsOfItsCore
<1> QED BY <1>1, <1>2, <1>3, PTL DEF StatisticsSpec

-----------------------------------------------------------------------------
(* Sums over finite sets, added up as SumFunction of module Functions does.  *)

\* Some numbers have a least one.
LEMMA LeastNumber ==
    ASSUME NEW S \in SUBSET Nat, S # {}
    PROVE  \E i \in S : \A j \in S : i <= j
<1>1. IsWellFoundedOn(OpToRel(<, Nat), Nat)
  BY NatLessThanWellFounded
<1>2. PICK i \in S : \A j \in S : ~(<<j, i>> \in OpToRel(<, Nat))
  BY <1>1, WFMin
<1>3. \A j \in S : ~(j < i)
  BY <1>2 DEF OpToRel
<1> QED BY <1>3

\* The element a sum over s adds first.
OneOf(s) == CHOOSE x \in s : TRUE

\* What a sum of f adds up for the subsets of S; T is all of them, or the small ones.
Adds(f, iter, T) ==
    iter = [s \in T |-> IF s = {} THEN 0 ELSE f[OneOf(s)] + iter[s \ {OneOf(s)}]]
Iter(f, S) == CHOOSE iter : Adds(f, iter, SUBSET S)

LEMMA SumIs ==
    ASSUME NEW f, NEW S
    PROVE  SumFunctionOnSet(f, S) = Iter(f, S)[S]
BY DEF SumFunctionOnSet, FoldFunctionOnSet, MapThenFoldSet, Iter, Adds, OneOf

\* The rest of a set is a smaller one.
LEMMA RestOf ==
    ASSUME NEW s, IsFiniteSet(s), s # {}
    PROVE  /\ OneOf(s) \in s
           /\ IsFiniteSet(s \ {OneOf(s)})
           /\ Cardinality(s) \in Nat
           /\ Cardinality(s \ {OneOf(s)}) = Cardinality(s) - 1
<1>1. OneOf(s) \in s
  BY DEF OneOf
<1> QED BY <1>1, FS_RemoveElement, FS_CardinalityType

\* Of some subsets of a finite set one is empty or its rest is none of them.
LEMMA LeastSubset ==
    ASSUME NEW S, IsFiniteSet(S), NEW B \in SUBSET (SUBSET S), B # {}
    PROVE  \E s \in B : s # {} => s \ {OneOf(s)} \notin B
<1> DEFINE sizes == {Cardinality(s) : s \in B}
<1>1. \A s \in B : IsFiniteSet(s) /\ Cardinality(s) \in Nat
  BY FS_Subset, FS_CardinalityType
<1>2. sizes \in SUBSET Nat /\ sizes # {}
  BY <1>1
<1>3. PICK n \in sizes : \A m \in sizes : n <= m
  BY <1>2, LeastNumber
<1>4. PICK s \in B : Cardinality(s) = n
  BY <1>3
<1>5. ASSUME s # {} PROVE s \ {OneOf(s)} \notin B
  <2>1. Cardinality(s \ {OneOf(s)}) = n - 1 /\ n \in Nat
    BY <1>1, <1>4, <1>5, RestOf
  <2>2. SUFFICES ASSUME s \ {OneOf(s)} \in B PROVE FALSE
    OBVIOUS
  <2>3. n - 1 \in sizes
    BY <2>1, <2>2
  <2> QED BY <1>3, <2>1, <2>3
<1> QED BY <1>4, <1>5

LEMMA AddsExist ==
    ASSUME NEW S, IsFiniteSet(S), NEW f
    PROVE  \E iter : Adds(f, iter, SUBSET S)
<1> DEFINE Small(n) == {s \in SUBSET S : Cardinality(s) <= n}
           bad == {n \in Nat : ~ \E iter : Adds(f, iter, Small(n))}
<1>1. \A s \in SUBSET S : IsFiniteSet(s) /\ Cardinality(s) \in Nat
  BY FS_Subset, FS_CardinalityType
<1>2. bad = {}
  <2> SUFFICES ASSUME bad # {} PROVE FALSE
    OBVIOUS
  <2>1. PICK n \in bad : \A m \in bad : n <= m
    BY LeastNumber
  <2>2. CASE n = 0
    <3>1. \A s \in Small(0) : s = {}
      BY <1>1, FS_EmptySet
    <3>2. Adds(f, [s \in Small(0) |-> 0], Small(0))
      BY <3>1 DEF Adds
    <3> QED BY <2>1, <2>2, <3>2
  <2>3. CASE n # 0
    <3>1. n - 1 \in Nat /\ n - 1 \notin bad
      BY SMTT(30), <2>1, <2>3
    <3>2. PICK iter : Adds(f, iter, Small(n - 1))
      BY <3>1
    <3> DEFINE next == [s \in Small(n) |->
                          IF s = {} THEN 0 ELSE f[OneOf(s)] + iter[s \ {OneOf(s)}]]
    <3>3. ASSUME NEW s \in Small(n - 1) PROVE s \in Small(n) /\ next[s] = iter[s]
      <4>1. s \in Small(n)
        BY <1>1, <2>1, <3>1
      <4>2. next[s] = IF s = {} THEN 0 ELSE f[OneOf(s)] + iter[s \ {OneOf(s)}]
        BY <4>1
      <4>3. iter[s] = IF s = {} THEN 0 ELSE f[OneOf(s)] + iter[s \ {OneOf(s)}]
        BY <3>2 DEF Adds
      <4> QED BY <4>1, <4>2, <4>3
    <3>4. \A s \in Small(n) : s # {} => s \ {OneOf(s)} \in Small(n - 1)
      BY <1>1, <2>1, RestOf
    <3>5. Adds(f, next, Small(n))
      BY <3>3, <3>4 DEF Adds
    <3> QED BY <2>1, <3>5
  <2> QED BY <2>2, <2>3
<1>3. Cardinality(S) \in Nat /\ Small(Cardinality(S)) = SUBSET S
  BY <1>1, FS_Subset
<1> QED BY <1>2, <1>3

\* How a sum over a finite set is added up.
LEMMA IterAdds ==
    ASSUME NEW S, IsFiniteSet(S), NEW f
    PROVE  Adds(f, Iter(f, S), SUBSET S)
BY AddsExist DEF Iter

LEMMA IterIs ==
    ASSUME NEW S, IsFiniteSet(S), NEW f, NEW s \in SUBSET S
    PROVE  /\ s = {} => Iter(f, S)[s] = 0
           /\ s # {} => Iter(f, S)[s] = f[OneOf(s)] + Iter(f, S)[s \ {OneOf(s)}]
<1>1. Adds(f, Iter(f, S), SUBSET S)
  BY IterAdds
<1> QED BY <1>1 DEF Adds

\* A sum of numbers is one.
LEMMA SumType ==
    ASSUME NEW S, IsFiniteSet(S), NEW f \in [S -> Nat]
    PROVE  SumFunction(f) \in Nat
<1> DEFINE bad == {s \in SUBSET S : Iter(f, S)[s] \notin Nat}
<1>1. SUFFICES bad = {}
  <2>1. SumFunction(f) = Iter(f, S)[S]
    BY SumIs DEF SumFunction
  <2> QED BY <1>1, <2>1
<1>2. SUFFICES ASSUME bad # {} PROVE FALSE
  OBVIOUS
<1>3. PICK s \in bad : s # {} => s \ {OneOf(s)} \notin bad
  BY <1>2, LeastSubset
<1>4. s # {} /\ OneOf(s) \in s /\ s \in SUBSET S
  <2>1. s = {} => Iter(f, S)[s] = 0
    BY <1>3, IterIs
  <2> QED BY <1>3, <2>1 DEF OneOf
<1>5. Iter(f, S)[s \ {OneOf(s)}] \in Nat
  BY <1>3, <1>4
<1>6. Iter(f, S)[s] = f[OneOf(s)] + Iter(f, S)[s \ {OneOf(s)}]
  BY ZenonT(40), <1>4, IterIs
<1>7. f[OneOf(s)] \in Nat
  BY <1>4
<1> QED BY <1>3, <1>5, <1>6, <1>7

LEMMA SumOfNothing ==
    ASSUME NEW S, IsFiniteSet(S), NEW f \in [S -> {0}]
    PROVE  SumFunction(f) = 0
<1> DEFINE bad == {s \in SUBSET S : Iter(f, S)[s] # 0}
<1>1. SUFFICES bad = {}
  <2>1. SumFunction(f) = Iter(f, S)[S]
    BY SumIs DEF SumFunction
  <2> QED BY <1>1, <2>1
<1>2. SUFFICES ASSUME bad # {} PROVE FALSE
  OBVIOUS
<1>3. PICK s \in bad : s # {} => s \ {OneOf(s)} \notin bad
  BY <1>2, LeastSubset
<1>4. s # {} /\ OneOf(s) \in s /\ s \in SUBSET S
  <2>1. s = {} => Iter(f, S)[s] = 0
    BY <1>3, IterIs
  <2> QED BY <1>3, <2>1 DEF OneOf
<1>5. Iter(f, S)[s \ {OneOf(s)}] = 0
  BY <1>3, <1>4
<1>6. Iter(f, S)[s] = f[OneOf(s)] + Iter(f, S)[s \ {OneOf(s)}]
  BY <1>4, IterIs
<1>7. f[OneOf(s)] = 0
  BY <1>4
<1> QED BY <1>3, <1>5, <1>6, <1>7

\* A sum grows by what one of its parts grows by.
LEMMA SumGrows ==
    ASSUME NEW S, IsFiniteSet(S), NEW f \in [S -> Nat], NEW p \in S, NEW amount \in Nat,
           NEW g, g = [f EXCEPT ![p] = @ + amount]
    PROVE  SumFunction(g) = SumFunction(f) + amount
<1> DEFINE More(s) == IF p \in s THEN amount ELSE 0
           bad == {s \in SUBSET S : Iter(f, S)[s] \notin Nat
                                    \/ Iter(g, S)[s] # Iter(f, S)[s] + More(s)}
<1>0. g \in [S -> Nat] /\ g[p] = f[p] + amount /\ \A q \in S \ {p} : g[q] = f[q]
  OBVIOUS
<1>1. SUFFICES bad = {}
  <2>1. SumFunction(f) = Iter(f, S)[S] /\ SumFunction(g) = Iter(g, S)[S]
    BY SumIs DEF SumFunction
  <2> QED BY <1>1, <2>1
<1>2. SUFFICES ASSUME bad # {} PROVE FALSE
  OBVIOUS
<1>3. PICK s \in bad : s # {} => s \ {OneOf(s)} \notin bad
  BY <1>2, LeastSubset
<1>4. s # {} /\ OneOf(s) \in s /\ s \in SUBSET S
  <2>1. s = {} => Iter(f, S)[s] = 0 /\ Iter(g, S)[s] = 0 /\ More(s) = 0
    BY <1>3, IterIs
  <2> QED BY <1>3, <2>1 DEF OneOf
<1> DEFINE x == OneOf(s)
           rest == s \ {x}
<1>5. Iter(f, S)[rest] \in Nat /\ Iter(g, S)[rest] = Iter(f, S)[rest] + More(rest)
  BY <1>3, <1>4
<1>6. Iter(f, S)[s] = f[x] + Iter(f, S)[rest] /\ Iter(g, S)[s] = g[x] + Iter(g, S)[rest]
  BY ZenonT(40), <1>4, IterIs
<1>7. g[x] = f[x] + (IF x = p THEN amount ELSE 0) /\ f[x] \in Nat
  BY <1>0, <1>4
<1>8. More(s) = (IF x = p THEN amount ELSE 0) + More(rest)
  BY <1>4
<1> HIDE DEF x, rest
<1>9. Iter(f, S)[s] \in Nat /\ Iter(g, S)[s] = Iter(f, S)[s] + More(s)
  <2> HIDE DEF More
  <2>1. More(rest) \in Nat
    BY DEF More
  <2> QED BY <1>5, <1>6, <1>7, <1>8, <2>1
<1> QED BY <1>3, <1>9

-----------------------------------------------------------------------------
(* Traffic statistics: the rows.                                            *)

\* What was charged to each profile, and its row.
Totals == [p \in StatProfiles |-> stat[p].total]
Rows == [total : Nat, today : Nat, date : Days \cup {0}]

\* The row of a profile is of the last day it was charged on, or later.
RowInv(p) ==
    /\ stat[p].date <= day
    /\ \A d \in Days : d > stat[p].date => charged[p][d] = 0
    /\ stat[p].total = SumFunction(charged[p])
    /\ stat[p].date # 0 => stat[p].today = charged[p][stat[p].date]

TrafficInv ==
    /\ day \in Days /\ activeProfile \in StatProfiles \cup {NoProfile}
    /\ channel \in Nat /\ pending \in Nat /\ lost \in Nat /\ taken \in Nat
    /\ service = [pc |-> service.pc, core |-> service.core, stale |-> service.stale]
    /\ stat \in [StatProfiles -> Rows]
    /\ charged \in [StatProfiles -> [Days -> Nat]]
    /\ taken = InHand + channel + pending + lost + SumFunction(Totals)
    /\ \A p \in StatProfiles : RowInv(p)

LEMMA DaysAreFinite == IsFiniteSet(Days) /\ Days \subseteq Nat \ {0} /\ 1 \in Days
<1>1. MaxDay \in Nat \ {0}
  BY StatisticsBounds
<1> QED BY <1>1, FS_Interval DEF Days

LEMMA TotalsType ==
    ASSUME stat \in [StatProfiles -> Rows]
    PROVE  Totals \in [StatProfiles -> Nat] /\ SumFunction(Totals) \in Nat
<1>1. Totals \in [StatProfiles -> Nat]
  BY DEF Totals, Rows
<1> QED BY <1>1, SumType, StatisticsBounds DEF StatisticsBounds

\* A roll over of a row keeps it of its date.
LEMMA RowRolls ==
    ASSUME TrafficInv, NEW p \in StatProfiles
    PROVE  LET row == Ensured(stat[p])
           IN  /\ row \in Rows /\ row.total = stat[p].total
               /\ row.date = day /\ row.today = charged[p][day]
<1>1. /\ stat[p] \in Rows /\ day \in Days /\ RowInv(p) /\ charged[p] \in [Days -> Nat]
      /\ Days \subseteq Nat \ {0}
  BY DaysAreFinite DEF TrafficInv
<1>2. /\ stat[p].total \in Nat /\ stat[p].today \in Nat /\ stat[p].date \in Days \cup {0}
      /\ stat[p] = [total |-> stat[p].total, today |-> stat[p].today, date |-> stat[p].date]
  BY <1>1 DEF Rows
<1>3. CASE stat[p].date = 0
  <2>1. Ensured(stat[p]) = [total |-> 0, today |-> 0, date |-> day]
    BY <1>3 DEF Ensured, NoRow
  <2>2. \A d \in Days : charged[p][d] = 0
    BY <1>1, <1>3 DEF RowInv
  <2>3. charged[p] \in [Days -> {0}]
    BY <1>1, <2>2
  <2>4. stat[p].total = 0
    BY <1>1, <2>3, SumOfNothing, DaysAreFinite DEF RowInv
  <2> QED BY <1>1, <2>1, <2>2, <2>4 DEF Rows
<1>4. CASE stat[p].date = day
  <2>1. Ensured(stat[p]) = stat[p]
    BY <1>1, <1>4 DEF Ensured, Rolled
  <2> QED BY <1>1, <1>4, <2>1 DEF RowInv
<1>5. CASE stat[p].date # 0 /\ stat[p].date # day
  <2>1. Ensured(stat[p]) = [total |-> stat[p].total, today |-> 0, date |-> day]
    BY <1>2, <1>5 DEF Ensured, Rolled
  <2>2. charged[p][day] = 0
    <3>1. stat[p].date <= day /\ \A d \in Days : d > stat[p].date => charged[p][d] = 0
      BY <1>1 DEF RowInv
    <3>2. stat[p].date \in Nat /\ day \in Nat
      BY <1>1, <1>2, 0 \in Nat
    <3>3. day > stat[p].date
      BY <1>5, <3>1, <3>2
    <3> QED BY <1>1, <3>1, <3>3
  <2> QED BY <1>1, <1>2, <2>1, <2>2 DEF Rows
<1> QED BY <1>3, <1>4, <1>5

\* Of the other rows a step of one row says nothing.
LEMMA OtherRows ==
    ASSUME TrafficInv, NEW p \in StatProfiles,
           stat'[p] = stat[p], charged'[p] = charged[p], day' \in Days, day <= day'
    PROVE  RowInv(p)'
<1>1. stat[p].date \in Nat /\ day \in Nat /\ day' \in Nat
  BY DaysAreFinite DEF TrafficInv, Rows
<1> QED BY <1>1 DEF TrafficInv, RowInv

\* What ensure writes of one profile, or of some of them at once.
LEMMA RowsAreEnsured ==
    ASSUME TrafficInv, NEW f \in [StatProfiles -> Rows], stat' = f,
           \A p \in StatProfiles : f[p] = stat[p] \/ f[p] = Ensured(stat[p]),
           UNCHANGED <<charged, day>>
    PROVE  stat' \in [StatProfiles -> Rows] /\ Totals' = Totals
           /\ \A p \in StatProfiles : RowInv(p)'
<1>1. \A p \in StatProfiles : f[p].total = stat[p].total
  BY RowRolls
<1>2. Totals' = Totals
  BY <1>1 DEF Totals
<1>3. ASSUME NEW p \in StatProfiles PROVE RowInv(p)'
  <2>1. CASE f[p] = stat[p]
    <3>1. day \in Days /\ day <= day
      BY DaysAreFinite DEF TrafficInv
    <3> QED BY <2>1, <3>1, OtherRows
  <2>2. CASE f[p] = Ensured(stat[p])
    <3>1. f[p].date = day /\ f[p].today = charged[p][day] /\ f[p].total = stat[p].total
      BY <2>2, RowRolls
    <3>2. RowInv(p) /\ day \in Nat \ {0} /\ stat[p].date \in Nat /\ Days \subseteq Nat
      BY DaysAreFinite DEF TrafficInv, Rows
    <3>3. ASSUME NEW d \in Days, d > day PROVE charged[p][d] = 0
      <4>1. stat[p].date <= day /\ (d > stat[p].date => charged[p][d] = 0)
        BY <3>2 DEF RowInv
      <4> QED BY <3>2, <3>3, <4>1
    <3> QED BY <3>1, <3>2, <3>3 DEF RowInv
  <2> QED BY <2>1, <2>2
<1> QED BY <1>2, <1>3

\* A tick charges one profile.
LEMMA RowIsCharged ==
    ASSUME TrafficInv, NEW p \in StatProfiles,
           stat' = [stat EXCEPT ![p] = Added(Ensured(@), pending)],
           charged' = [charged EXCEPT ![p][day] = @ + pending], day' = day
    PROVE  /\ stat' \in [StatProfiles -> Rows] /\ charged' \in [StatProfiles -> [Days -> Nat]]
           /\ SumFunction(Totals)' = SumFunction(Totals) + pending
           /\ \A q \in StatProfiles : RowInv(q)'
<1>1. /\ pending \in Nat /\ day \in Days /\ RowInv(p) /\ stat \in [StatProfiles -> Rows]
      /\ charged \in [StatProfiles -> [Days -> Nat]]
  BY DEF TrafficInv
<1>2. PICK row : row = Ensured(stat[p])
  OBVIOUS
<1>3. row \in Rows /\ row.total = stat[p].total /\ row.date = day /\ row.today = charged[p][day]
  BY <1>2, RowRolls
<1>4. stat'[p] = [total |-> row.total + pending, today |-> row.today + pending, date |-> day]
  BY <1>1, <1>2 DEF Added
<1>5. stat'[p] \in Rows
  BY <1>1, <1>3, <1>4 DEF Rows
<1>6. stat' \in [StatProfiles -> Rows] /\ \A q \in StatProfiles \ {p} : stat'[q] = stat[q]
  BY <1>1, <1>5
<1>7. /\ charged' \in [StatProfiles -> [Days -> Nat]]
      /\ charged'[p] = [charged[p] EXCEPT ![day] = @ + pending]
      /\ \A q \in StatProfiles \ {p} : charged'[q] = charged[q]
  BY <1>1
<1>8. SumFunction(charged'[p]) = SumFunction(charged[p]) + pending
  <2>1. PICK f, g : f = charged[p] /\ g = charged'[p]
    OBVIOUS
  <2>2. f \in [Days -> Nat] /\ g = [f EXCEPT ![day] = @ + pending]
    BY <1>1, <1>7, <2>1
  <2>3. SumFunction(g) = SumFunction(f) + pending
    <3>1. IsFiniteSet(Days) /\ day \in Days /\ pending \in Nat
      BY <1>1, DaysAreFinite
    <3> QED BY ONLY <2>2, <3>1, SumGrows, ZenonT(40)
  <2> QED BY <2>1, <2>3
<1>9. SumFunction(Totals)' = SumFunction(Totals) + pending
  <2>1. PICK f, g : f = Totals /\ g = Totals'
    OBVIOUS
  <2>2. f \in [StatProfiles -> Nat] /\ \A q \in StatProfiles : f[q] = stat[q].total
    BY <1>1, <2>1, TotalsType DEF Totals
  <2>3. g = [q \in StatProfiles |-> stat'[q].total]
    BY <2>1 DEF Totals
  <2>4. stat'[p].total = f[p] + pending /\ \A q \in StatProfiles \ {p} : stat'[q].total = f[q]
    BY <1>3, <1>4, <1>6, <2>2
  <2>5. g = [f EXCEPT ![p] = @ + pending]
    BY <2>2, <2>3, <2>4
  <2>6. SumFunction(g) = SumFunction(f) + pending
    <3>1. IsFiniteSet(StatProfiles) /\ p \in StatProfiles /\ pending \in Nat
      BY <1>1, StatisticsBounds DEF StatisticsBounds
    <3> QED BY ONLY <2>2, <2>5, <3>1, SumGrows, ZenonT(40)
  <2> QED BY <2>1, <2>6
<1>10. RowInv(p)'
  <2>1. stat'[p].date = day /\ stat'[p].today = charged'[p][day] /\ day \in Nat \ {0}
    BY <1>1, <1>3, <1>4, <1>7, DaysAreFinite
  <2>2. stat'[p].total = SumFunction(charged'[p])
    BY <1>1, <1>3, <1>4, <1>8 DEF RowInv
  <2>3. ASSUME NEW d \in Days, d > day PROVE charged'[p][d] = 0
    <3>1. stat[p].date <= day /\ (d > stat[p].date => charged[p][d] = 0)
      BY <1>1 DEF RowInv
    <3>2. stat[p].date \in Nat /\ d \in Nat /\ day \in Nat
      <4>1. stat[p].date \in Days \cup {0}
        BY <1>1 DEF Rows
      <4>2. Days \subseteq Nat /\ 0 \in Nat /\ d \in Days /\ day \in Days
        BY <1>1, <2>3, DaysAreFinite
      <4> QED BY <4>1, <4>2
    <3>3. d > stat[p].date /\ d # day
      BY <2>3, <3>1, <3>2
    <3>4. charged'[p][d] = charged[p][d]
      BY <1>1, <1>7, <3>3
    <3> QED BY <3>1, <3>3, <3>4
  <2> QED BY <2>1, <2>2, <2>3 DEF RowInv
<1>11. ASSUME NEW q \in StatProfiles \ {p} PROVE RowInv(q)'
  <2>1. day' \in Days /\ day <= day'
    BY <1>1, DaysAreFinite
  <2> QED BY <1>6, <1>7, <2>1, OtherRows
<1> QED BY <1>6, <1>7, <1>9, <1>10, <1>11

\* Every sample is charged once or dropped where the code drops it, and what a
\* row says of its day is what was charged on it; a session reads at most one
\* sample of a core that was replaced (statistics.rs).
THEOREM StatisticsHold == StatisticsSpec => []StatisticsAreRight
<1>1. StatisticsInit => TrafficInv
  <2> SUFFICES ASSUME StatisticsInit PROVE TrafficInv
    OBVIOUS
  <2>1. /\ day = 1 /\ activeProfile = NoProfile /\ channel = 0 /\ pending = 0
        /\ lost = 0 /\ taken = 0 /\ InHand = 0
        /\ service = [pc |-> service.pc, core |-> service.core, stale |-> service.stale]
        /\ stat = [p \in StatProfiles |-> NoRow]
        /\ charged = [p \in StatProfiles |-> [d \in Days |-> 0]]
    BY DEF StatisticsInit, InHand
  <2>2. NoRow \in Rows /\ NoRow.total = 0 /\ NoRow.date = 0
    BY DEF NoRow, Rows
  <2>3. stat \in [StatProfiles -> Rows] /\ charged \in [StatProfiles -> [Days -> Nat]]
    BY <2>1, <2>2
  <2>4. SumFunction(Totals) = 0
    <3>1. Totals \in [StatProfiles -> {0}]
      BY <2>1, <2>2 DEF Totals
    <3> QED BY <3>1, SumOfNothing, StatisticsBounds DEF StatisticsBounds
  <2>5. ASSUME NEW p \in StatProfiles PROVE RowInv(p)
    <3>1. charged[p] \in [Days -> {0}] /\ stat[p].total = 0 /\ stat[p].date = 0
      BY <2>1, <2>2
    <3>2. SumFunction(charged[p]) = 0
      BY <3>1, SumOfNothing, DaysAreFinite
    <3> QED BY <2>1, <3>1, <3>2 DEF RowInv
  <2> QED BY <2>1, <2>3, <2>4, <2>5, DaysAreFinite DEF TrafficInv
<1>2. TrafficInv /\ [StatisticsNext]_statisticsVars => TrafficInv'
  <2> SUFFICES ASSUME TrafficInv, [StatisticsNext]_statisticsVars PROVE TrafficInv'
    OBVIOUS
  <2>1. SumFunction(Totals) \in Nat /\ day \in Days /\ day \in Nat /\ day <= day
    BY TotalsType, DaysAreFinite DEF TrafficInv
  \* Every step but those of the rows leaves them.
  <2>2. ASSUME UNCHANGED <<stat, charged>>, day' \in Days, day <= day'
        PROVE  /\ stat' \in [StatProfiles -> Rows] /\ charged' \in [StatProfiles -> [Days -> Nat]]
               /\ SumFunction(Totals)' = SumFunction(Totals)
               /\ \A p \in StatProfiles : RowInv(p)'
    <3>1. Totals' = Totals
      BY <2>2 DEF Totals
    <3>2. ASSUME NEW p \in StatProfiles PROVE RowInv(p)'
      BY <2>2, OtherRows
    <3> QED BY <2>2, <3>1, <3>2 DEF TrafficInv
  <2>3. CASE World
    <3>1. /\ day' \in Days /\ day <= day'
          /\ activeProfile' \in StatProfiles \cup {NoProfile}
      BY <2>1, <2>3, StatisticsBounds
      DEF World, CoreStarts, Configure, DayEnds, TrafficInv, Days, StatisticsBounds
    <3>2. UNCHANGED <<service, channel, pending, stat, charged, taken, lost>>
      BY <2>3 DEF World, historyVars
    <3> QED BY <3>1, <3>2, <2>2 DEF TrafficInv, InHand
  <2>4. CASE Close \/ AggregatorStops \/ UNCHANGED statisticsVars
    <3>1. UNCHANGED <<day, activeProfile, service, channel, pending, stat, charged, taken, lost>>
      BY <2>4 DEF Close, AggregatorStops, AggregatorOnly, worldVars, historyVars, statisticsVars
    <3> QED BY <3>1, <2>1, <2>2 DEF TrafficInv, InHand
  <2>5. ASSUME ServiceOnly, UNCHANGED historyVars, channel' = channel,
               service' = [pc |-> service'.pc, core |-> service'.core, stale |-> service'.stale],
               service.pc # "send", service'.pc # "send"
        PROVE  TrafficInv'
    <3>1. UNCHANGED <<day, activeProfile, channel, pending, stat, charged, taken, lost>>
      BY <2>5 DEF ServiceOnly, worldVars, historyVars
    <3>2. InHand = 0 /\ InHand' = 0
      BY <2>5 DEF InHand
    <3> QED BY <3>1, <3>2, <2>1, <2>2, <2>5 DEF TrafficInv
  <2>6. CASE ServiceStops \/ ServiceTop
    BY <2>5, <2>6 DEF ServiceStops, ServiceTop, ServiceGoes, TrafficInv
  <2>7. CASE ServiceConnects \/ ServiceChecks \/ ServiceReadsNothing \/ ServiceReadFails
    BY <2>5, <2>7 DEF ServiceConnects, ServiceChecks, ServiceReadsNothing, ServiceReadFails,
       ServiceGoes, ServiceAt, TrafficInv
  <2>8. CASE ServiceReads
    <3>1. /\ service.pc = "select" /\ service'.pc = "send" /\ taken' = taken + 1
          /\ service' = [pc |-> service'.pc, core |-> service'.core, stale |-> service'.stale]
          /\ UNCHANGED <<day, activeProfile, channel, pending, stat, charged, lost>>
      BY <2>8 DEF ServiceReads, ServiceAt, ServiceOnly, worldVars, TrafficInv
    <3>2. InHand = 0 /\ InHand' = 1
      BY <3>1 DEF InHand
    <3> QED BY <3>1, <3>2, <2>1, <2>2 DEF TrafficInv
  <2>9. CASE ServiceSends
    <3>1. /\ service.pc = "send" /\ service'.pc = "check"
          /\ service' = [pc |-> service'.pc, core |-> service'.core, stale |-> service'.stale]
          /\ UNCHANGED <<day, activeProfile, pending, stat, charged, taken>>
          /\ \/ channel' = channel + 1 /\ lost' = lost
             \/ lost' = lost + 1 /\ channel' = channel
      BY <2>9 DEF ServiceSends, ServiceAt, ServiceGoes, ServiceOnly, worldVars, TrafficInv
    <3>2. InHand = 1 /\ InHand' = 0
      BY <3>1 DEF InHand
    <3> QED BY <3>1, <3>2, <2>1, <2>2 DEF TrafficInv
  <2>10. CASE InitializeData
    <3>1. UNCHANGED <<day, activeProfile, service, channel, pending, charged, taken, lost>>
      BY <2>10 DEF InitializeData, AggregatorOnly, worldVars, historyVars
    <3>2. CASE stat' = stat
      BY <3>1, <3>2, <2>1, <2>2 DEF TrafficInv, InHand
    <3>3. CASE stat' = [p \in StatProfiles |-> Rolled(stat[p])]
      <4>1. ASSUME NEW p \in StatProfiles
            PROVE  stat'[p] \in Rows /\ (stat'[p] = stat[p] \/ stat'[p] = Ensured(stat[p]))
        <5>1. stat[p] \in Rows /\ Ensured(stat[p]) \in Rows
          BY RowRolls DEF TrafficInv
        <5>2. stat'[p] = Rolled(stat[p])
          BY <3>3
        <5> QED BY <5>1, <5>2 DEF Ensured, Rolled
      <4>2. stat' \in [StatProfiles -> Rows]
        BY <3>3, <4>1
      <4>3. PICK f : f = stat'
        OBVIOUS
      <4>4. Totals' = Totals /\ \A p \in StatProfiles : RowInv(p)'
        BY <3>1, <4>1, <4>2, <4>3, RowsAreEnsured
      <4> QED BY <3>1, <4>2, <4>4 DEF TrafficInv, InHand
    <3> QED BY <2>10, <3>2, <3>3 DEF InitializeData
  <2>11. CASE Receive
    <3>1. /\ UNCHANGED <<day, activeProfile, service, stat, charged, taken, lost>>
          /\ channel > 0 /\ channel' = channel - 1 /\ pending' = pending + 1
      BY <2>11 DEF Receive, AggregatorOnly, worldVars, historyVars
    <3>2. InHand' = InHand /\ InHand \in Nat
      BY <3>1 DEF InHand
    <3> QED BY <3>1, <3>2, <2>1, <2>2 DEF TrafficInv
  <2>12. CASE Tick
    <3>1. /\ UNCHANGED <<day, activeProfile, service, channel, taken>> /\ pending' = 0
      BY <2>12 DEF Tick, AggregatorOnly, worldVars
    <3>2. InHand' = InHand /\ InHand \in Nat
      BY <3>1 DEF InHand
    <3>3. CASE activeProfile # NoProfile
               /\ stat' = [stat EXCEPT ![activeProfile] = Added(Ensured(@), pending)]
               /\ charged' = [charged EXCEPT ![activeProfile][day] = @ + pending]
               /\ lost' = lost
      <4>1. activeProfile \in StatProfiles
        BY <3>3 DEF TrafficInv
      <4>2. /\ stat' \in [StatProfiles -> Rows] /\ charged' \in [StatProfiles -> [Days -> Nat]]
            /\ SumFunction(Totals)' = SumFunction(Totals) + pending
            /\ \A q \in StatProfiles : RowInv(q)'
        BY <3>1, <3>3, <4>1, RowIsCharged
      <4> QED BY <3>1, <3>2, <3>3, <4>2, <2>1 DEF TrafficInv
    <3>4. CASE lost' = lost + pending /\ charged' = charged /\ stat' = stat
      BY <3>1, <3>2, <3>4, <2>1, <2>2 DEF TrafficInv
    <3>5. CASE lost' = lost + pending /\ charged' = charged /\ activeProfile # NoProfile
               /\ stat' = [stat EXCEPT ![activeProfile] = Ensured(@)]
      <4>1. activeProfile \in StatProfiles /\ stat \in [StatProfiles -> Rows]
        BY <3>5 DEF TrafficInv
      <4>2. Ensured(stat[activeProfile]) \in Rows
        BY <4>1, RowRolls
      <4>3. PICK f : f = stat'
        OBVIOUS
      <4>4. /\ f \in [StatProfiles -> Rows]
            /\ \A p \in StatProfiles : f[p] = stat[p] \/ f[p] = Ensured(stat[p])
        BY <3>5, <4>1, <4>2, <4>3
      <4>5. Totals' = Totals /\ \A p \in StatProfiles : RowInv(p)'
        BY <3>1, <3>5, <4>3, <4>4, RowsAreEnsured
      <4> QED BY <3>1, <3>2, <3>5, <4>3, <4>4, <4>5, <2>1 DEF TrafficInv
    <3> QED BY <2>12, <3>3, <3>4, <3>5 DEF Tick
  <2> QED
    BY <2>3, <2>4, <2>6, <2>7, <2>8, <2>9, <2>10, <2>11, <2>12
    DEF StatisticsNext, Service, Aggregator
<1>3. TrafficInv => TrafficIsConserved /\ TodayIsOfItsDate
  BY DEF TrafficInv, RowInv, TrafficIsConserved, TodayIsOfItsDate, Totals
<1>4. StatisticsSpec => []SessionIsOfItsCore
  BY SessionsFollowTheCore
<1> QED BY <1>1, <1>2, <1>3, <1>4, PTL DEF StatisticsSpec, StatisticsAreRight

-----------------------------------------------------------------------------
(* Settings.                                                                *)

\* The shapes of a configuration.
IsState(c) ==
    /\ c = [index |-> c.index, sub |-> c.sub, shortcut |-> c.shortcut, item |-> c.item]
    /\ c.item = [i \in Items |-> c.item[i]]

LEMMA StateShape ==
    ASSUME NEW s, NEW profile, NEW routing, NEW c \in ConfigsFrom(s, profile, routing)
    PROVE  IsState(c)
<1>1. PICK proxy, traffic : c = ConfigFrom(s, profile, routing, proxy, traffic)
  BY DEF ConfigsFrom
<1>2. c.item = [i \in Items |-> ItemKept(i, s.item[i], routing, proxy, traffic)]
  BY <1>1 DEF ConfigFrom
<1>3. c.item = [i \in Items |-> c.item[i]]
  BY <1>2
<1>4. c = [index |-> c.index, sub |-> c.sub, shortcut |-> c.shortcut, item |-> c.item]
  BY <1>1 DEF ConfigFrom
<1> QED BY <1>3, <1>4 DEF IsState

\* What a command changes besides a save of the window: a field of one item.
LEMMA OneItem ==
    ASSUME NEW c, IsState(c), NEW k \in Items, NEW v, NEW d,
           d = [c EXCEPT !.item[k] = v]
    PROVE  /\ IsState(d)
           /\ \A i \in Items \ {k} : d.item[i] = c.item[i]
<1>1. d.item = [c.item EXCEPT ![k] = v]
  BY DEF IsState
<1>2. d = [index |-> c.index, sub |-> c.sub, shortcut |-> c.shortcut, item |-> d.item]
  BY DEF IsState
<1>3. d.item = [i \in Items |-> d.item[i]]
  BY <1>1 DEF IsState
<1>4. \A i \in Items \ {k} : d.item[i] = c.item[i]
  BY <1>1 DEF IsState
<1> QED BY <1>2, <1>3, <1>4 DEF IsState

\* A core that runs and that no restart failed for.
FollowInv == IsState(appState) /\ CoreFollowsSettings

\* The items of choices that need no restart are not generated.
LEMMA GeneratedItems == ItemsGenerated \subseteq Items \ {"proxyUi", "systemProxy"}
BY DEF ItemsGenerated, Items

\* A start leaves the core with the configuration it was given, or does not count.
LEMMA StartsFollow ==
    ASSUME NEW c, appState' = c, StartsCore(c)
    PROVE  CoreFollowsSettings'
BY DEF StartsCore, CoreFollowsSettings

LEMMA RestartFollows ==
    ASSUME NEW c, appState' = c, RestartIfConnected(c)
    PROVE  CoreFollowsSettings'
BY StartsFollow DEF RestartIfConnected, NothingStarts, CoreFollowsSettings

\* A save that needs no restart changes nothing the core was generated from.
LEMMA NoRestartNeeded ==
    ASSUME NEW c, ~RequiresRestart(appState, c), CoreFollowsSettings, appState' = c,
           IF appState.item["systemProxy"] # c.item["systemProxy"]
           THEN ReapplyIfConnected(c) ELSE NothingStarts
    PROVE  CoreFollowsSettings'
<1>1. \A i \in ItemsGenerated : appState.item[i] = c.item[i]
  BY DEF ItemsGenerated, RestartItems, RequiresRestart
<1> QED BY <1>1 DEF ReapplyIfConnected, AppliesProxy, NothingStarts, CoreFollowsSettings

\* The running core was generated from what is saved, and the proxy is the one
\* that is saved, through every save, restart, connection and start of the
\* application.
THEOREM CoreFollows == SettingsSpec => []CoreFollowsSettings
<1>1. SettingsInit => FollowInv
  BY StateShape DEF SettingsInit, FollowInv, CoreFollowsSettings
<1>2. FollowInv /\ [SettingsNext]_settingsVars => FollowInv'
  <2> SUFFICES ASSUME FollowInv, [SettingsNext]_settingsVars PROVE FollowInv'
    OBVIOUS
  <2>1. CASE LoadConfig
    BY <2>1, StateShape DEF LoadConfig, FollowInv, CoreFollowsSettings
  <2>2. CASE LoadAppSettings \/ DisconnectCore \/ UNCHANGED settingsVars
    BY <2>2 DEF LoadAppSettings, DisconnectCore, settingsVars, FollowInv, CoreFollowsSettings
  <2>3. CASE ConnectCore
    BY <2>3, StartsFollow DEF ConnectCore, FollowInv
  <2>4. CASE SaveAppSettings
    <3>1. PICK settings : \E new \in ConfigsFrom(settings, appState.index,
                                              appState.item["routing"].id) :
             /\ Commits(new)
             /\ \/ RestartIfConnected(new)
                \/ /\ ~RequiresRestart(appState, new)
                   /\ IF appState.item["systemProxy"] # new.item["systemProxy"]
                      THEN ReapplyIfConnected(new) ELSE NothingStarts
      BY <2>4 DEF SaveAppSettings
    <3> QED BY <3>1, StateShape, RestartFollows, NoRestartNeeded DEF FollowInv, Commits
  <2>5. CASE SaveOneItem
    <3>1. PICK new \in {[appState EXCEPT !.item["tun"].rest = 2],
                        [appState EXCEPT !.item["dns"].rest = 2],
                        [appState EXCEPT !.item["routing"].id = "r"]} :
             appState' = new /\ RestartIfConnected(new)
      BY <2>5 DEF SaveOneItem, Commits
    <3>2. \E k \in Items : \E v : new = [appState EXCEPT !.item[k] = v]
      <4>1. {"tun", "dns", "routing"} \subseteq Items
        BY DEF Items
      <4>2. \A k, f : \E v : [appState EXCEPT !.item[k][f] = 2] = [appState EXCEPT !.item[k] = v]
        OBVIOUS
      <4>3. \A k, f : \E v : [appState EXCEPT !.item[k][f] = "r"] = [appState EXCEPT !.item[k] = v]
        OBVIOUS
      <4>4. \/ new = [appState EXCEPT !.item["tun"]["rest"] = 2]
            \/ new = [appState EXCEPT !.item["dns"]["rest"] = 2]
            \/ new = [appState EXCEPT !.item["routing"]["id"] = "r"]
        BY <3>1
      <4> QED BY <4>1, <4>2, <4>3, <4>4
    <3>3. IsState(new)
      BY SMTT(30), <3>2, OneItem DEF FollowInv
    <3> QED BY <3>1, <3>3, RestartFollows DEF FollowInv
  <2>6. CASE SaveOneChoice
    <3>1. CASE appState' \in {[appState EXCEPT !.index = "p"], [appState EXCEPT !.sub = "s"]}
               /\ NothingStarts
      BY <3>1 DEF FollowInv, IsState, NothingStarts, CoreFollowsSettings
    <3>2. CASE appState' = [appState EXCEPT !.item["proxyUi"].mode = "Direct"] /\ NothingStarts
      <4>1. \E v : appState' = [appState EXCEPT !.item["proxyUi"] = v]
        BY <3>2
      <4>2. IsState(appState') /\ \A i \in Items \ {"proxyUi"} : appState'.item[i] = appState.item[i]
        BY <4>1, OneItem DEF FollowInv, Items
      <4> QED BY <3>2, <4>2, GeneratedItems DEF FollowInv, NothingStarts, CoreFollowsSettings
    <3>3. CASE appState' = [appState EXCEPT !.item["systemProxy"].mode = "ForcedChange"]
               /\ AppliesProxy(appState')
      <4>1. \E v : appState' = [appState EXCEPT !.item["systemProxy"] = v]
        BY <3>3
      <4>2. IsState(appState') /\ \A i \in Items \ {"systemProxy"} : appState'.item[i] = appState.item[i]
        BY <4>1, OneItem DEF FollowInv, Items
      <4> QED BY <3>3, <4>2, GeneratedItems DEF FollowInv, AppliesProxy, CoreFollowsSettings
    <3> QED BY <2>6, <3>1, <3>2, <3>3 DEF SaveOneChoice, Commits
  <2> QED BY <2>1, <2>2, <2>3, <2>4, <2>5, <2>6 DEF SettingsNext
<1>3. FollowInv => CoreFollowsSettings
  BY DEF FollowInv
<1> QED BY <1>1, <1>2, <1>3, PTL DEF SettingsSpec

\* What a configuration that was saved or loaded is made of.
Themes == {"Light", "Dark", "FollowSystem"}
KeptItems(item) ==
    /\ item["tun"] = [mtu |-> item["tun"].mtu, rest |-> item["tun"].rest]
    /\ item["routing"] = [id |-> item["routing"].id, rest |-> item["routing"].rest]
    /\ item["ui"] = [theme |-> item["ui"].theme, language |-> item["ui"].language]
    /\ item["ui"].theme \in Themes
    /\ item["proxyUi"] = [mode |-> item["proxyUi"].mode, rest |-> item["proxyUi"].rest]
    /\ item["proxyUi"].mode \in DOMAIN TrafficText
    /\ item["systemProxy"] = [mode |-> item["systemProxy"].mode, rest |-> item["systemProxy"].rest]
    /\ item["systemProxy"].mode \in DOMAIN SystemProxyText
ValidItems(item) == ValidSettings([schema |-> 1, item |-> item])
KeptState(c) ==
    /\ IsState(c)
    /\ \A s \in c.shortcut : s.key # NoText
    /\ KeptItems(c.item)
    /\ ValidItems(c.item)

\* What a window shows, and what may be saved of it.
ShownSettings(s) ==
    /\ s = [schema |-> s.schema, shortcut |-> s.shortcut, item |-> s.item]
    /\ \A x \in s.shortcut : x.key # NoText
    /\ s.item = [i \in Items |-> s.item[i]]
    /\ s.item["tun"] = [mtu |-> s.item["tun"].mtu, rest |-> s.item["tun"].rest]

\* A mode is read from the text it is written as.
LEMMA ModesAreRead ==
    /\ \A m \in DOMAIN TrafficText : ModesOf(TrafficText, TrafficText[m]) = {m}
    /\ \A m \in DOMAIN SystemProxyText : ModesOf(SystemProxyText, SystemProxyText[m]) = {m}
BY DEF ModesOf, TrafficText, SystemProxyText

LEMMA ThemesAreKept == \A t \in Themes : ThemeKept(ThemeShown(t)) = t
BY DEF Themes, ThemeKept, ThemeShown

\* An item is kept as it was shown.
LEMMA ItemReturns ==
    ASSUME NEW item, KeptItems(item), NEW i \in Items
    PROVE  ItemKept(i, ItemShown(i, item[i]), item["routing"].id, item["systemProxy"].mode,
                    item["proxyUi"].mode) = item[i]
<1>1. CASE i = "routing"
  BY <1>1 DEF ItemKept, ItemShown, KeptItems
<1>2. CASE i = "ui"
  BY <1>2, ThemesAreKept DEF ItemKept, ItemShown, KeptItems
<1>3. CASE i = "proxyUi"
  BY <1>3 DEF ItemKept, ItemShown, KeptItems
<1>4. CASE i = "systemProxy"
  BY <1>4 DEF ItemKept, ItemShown, KeptItems
<1>5. CASE i \notin {"routing", "ui", "proxyUi", "systemProxy"}
  BY <1>5 DEF ItemKept, ItemShown
<1> QED BY <1>1, <1>2, <1>3, <1>4, <1>5

\* Another subscription that is shown.
LEMMA ShownIsLost ==
    ASSUME NEW c, NEW index, NEW sub, NEW shortcut, NEW item, NEW other,
           c = [index |-> index, sub |-> sub, shortcut |-> shortcut, item |-> item]
    PROVE  [c EXCEPT !.sub = other]
             = [index |-> index, sub |-> other, shortcut |-> shortcut, item |-> item]
OBVIOUS

\* What the database keeps of a configuration loads as that configuration.
LEMMA StateReturns ==
    ASSUME NEW c, KeptState(c)
    PROVE  ConfigsFrom(SettingsFrom(c), c.index, c.item["routing"].id) = {[c EXCEPT !.sub = NoText]}
<1> DEFINE settings == SettingsFrom(c)
           proxy == c.item["systemProxy"].mode
           traffic == c.item["proxyUi"].mode
<1>1. {"routing", "ui", "proxyUi", "systemProxy"} \subseteq Items
  BY DEF Items
<1>2. /\ settings.item = [i \in Items |-> ItemShown(i, c.item[i])]
      /\ settings.shortcut = {s \in c.shortcut : s.key # NoText}
  BY DEF SettingsFrom
<1>3. /\ settings.item["systemProxy"].mode = SystemProxyText[proxy]
      /\ settings.item["proxyUi"].mode = TrafficText[traffic]
  <2>1. /\ settings.item["systemProxy"] = ItemShown("systemProxy", c.item["systemProxy"])
        /\ settings.item["proxyUi"] = ItemShown("proxyUi", c.item["proxyUi"])
    BY <1>1, <1>2
  <2> HIDE DEF settings
  <2> QED BY <2>1 DEF ItemShown
<1>4. /\ ModesOf(SystemProxyText, settings.item["systemProxy"].mode) = {proxy}
      /\ ModesOf(TrafficText, settings.item["proxyUi"].mode) = {traffic}
  BY <1>3, ModesAreRead DEF KeptState, KeptItems
<1>5. settings.shortcut = c.shortcut
  BY <1>2 DEF KeptState
<1>6. ASSUME NEW i \in Items
      PROVE  ItemKept(i, settings.item[i], c.item["routing"].id, proxy, traffic) = c.item[i]
  BY <1>2, ItemReturns DEF KeptState
<1> HIDE DEF settings
<1>7. ConfigFrom(settings, c.index, c.item["routing"].id, proxy, traffic) = [c EXCEPT !.sub = NoText]
  <2>1. c = [index |-> c.index, sub |-> c.sub, shortcut |-> c.shortcut, item |-> c.item]
        /\ c.item = [i \in Items |-> c.item[i]]
    BY DEF KeptState, IsState
  <2>2. [i \in Items |-> ItemKept(i, settings.item[i], c.item["routing"].id, proxy, traffic)]
          = c.item
    BY <1>6, <2>1
  <2>3. [c EXCEPT !.sub = NoText]
          = [index |-> c.index, sub |-> NoText, shortcut |-> c.shortcut, item |-> c.item]
    <3>1. PICK index, sub, shortcut, item :
             c = [index |-> index, sub |-> sub, shortcut |-> shortcut, item |-> item]
      BY <2>1
    <3> QED BY <3>1, ShownIsLost
  <2> QED BY <1>5, <2>2, <2>3 DEF ConfigFrom
<1>8. ConfigsFrom(settings, c.index, c.item["routing"].id)
        = {ConfigFrom(settings, c.index, c.item["routing"].id, proxy, traffic)}
  BY <1>4 DEF ConfigsFrom
<1> QED BY <1>7, <1>8 DEF settings

LEMMA ValidIs ==
    ASSUME NEW s
    PROVE  ValidSettings(s) <=> s.schema = 1 /\ ValidItems(s.item)
BY DEF ValidSettings, ValidItems

\* Whether items are valid is a question about a few of them.
LEMMA ValidOf ==
    ASSUME NEW a, NEW b, a["ui"].language = b["ui"].language,
           a["const"] = b["const"], a["tun"].mtu = b["tun"].mtu, a["hysteria"] = b["hysteria"]
    PROVE  ValidItems(a) <=> ValidItems(b)
BY DEF ValidSettings, ValidItems

LEMMA ShownIsValid ==
    ASSUME NEW c
    PROVE  ValidSettings(SettingsFrom(c)) <=> ValidItems(c.item)
<1>1. {"ui", "const", "tun", "hysteria"} \subseteq Items
  BY DEF Items
<1>2. SettingsFrom(c).schema = 1 /\ SettingsFrom(c).item = [i \in Items |-> ItemShown(i, c.item[i])]
  BY DEF SettingsFrom
<1>3. /\ SettingsFrom(c).item["ui"].language = c.item["ui"].language
      /\ \A i \in {"const", "tun", "hysteria"} : SettingsFrom(c).item[i] = c.item[i]
  BY <1>1, <1>2 DEF ItemShown
<1> QED BY <1>2, <1>3, ValidIs, ValidOf

\* What is saved of a window is kept.
LEMMA SavedIsKept ==
    ASSUME NEW s, ShownSettings(s), ValidSettings(s), NEW profile, NEW routing,
           NEW c \in ConfigsFrom(s, profile, routing)
    PROVE  KeptState(c)
<1>1. PICK proxy \in DOMAIN SystemProxyText, traffic \in DOMAIN TrafficText :
         c = ConfigFrom(s, profile, routing, proxy, traffic)
  BY DEF ConfigsFrom, ModesOf
<1>2. /\ c.item = [i \in Items |-> ItemKept(i, s.item[i], routing, proxy, traffic)]
      /\ c.shortcut = s.shortcut
  BY <1>1 DEF ConfigFrom
<1>3. {"ui", "const", "tun", "hysteria", "routing", "proxyUi", "systemProxy"} \subseteq Items
  BY DEF Items
<1>4. /\ c.item["routing"] = [id |-> routing, rest |-> s.item["routing"].rest]
      /\ c.item["ui"] = [theme |-> ThemeKept(s.item["ui"].theme),
                         language |-> s.item["ui"].language]
      /\ c.item["proxyUi"] = [mode |-> traffic, rest |-> s.item["proxyUi"].rest]
      /\ c.item["systemProxy"] = [mode |-> proxy, rest |-> s.item["systemProxy"].rest]
      /\ \A i \in {"const", "tun", "hysteria"} : c.item[i] = s.item[i]
  BY <1>2, <1>3 DEF ItemKept
<1>5. ThemeKept(s.item["ui"].theme) \in Themes
  BY DEF ThemeKept, Themes
<1>6. KeptItems(c.item)
  <2>1. c.item["tun"] = [mtu |-> c.item["tun"].mtu, rest |-> c.item["tun"].rest]
    BY <1>4 DEF ShownSettings
  <2>2. c.item["ui"].theme \in Themes
    BY <1>4, <1>5
  <2>3. c.item["proxyUi"].mode \in DOMAIN TrafficText
    BY <1>4
  <2>4. c.item["systemProxy"].mode \in DOMAIN SystemProxyText
    BY <1>4
  <2>5. /\ c.item["routing"] = [id |-> c.item["routing"].id, rest |-> c.item["routing"].rest]
        /\ c.item["ui"] = [theme |-> c.item["ui"].theme, language |-> c.item["ui"].language]
        /\ c.item["proxyUi"] = [mode |-> c.item["proxyUi"].mode, rest |-> c.item["proxyUi"].rest]
        /\ c.item["systemProxy"] = [mode |-> c.item["systemProxy"].mode,
                                    rest |-> c.item["systemProxy"].rest]
    BY <1>4
  <2> QED BY <2>1, <2>2, <2>3, <2>4, <2>5 DEF KeptItems
<1>7. ValidItems(c.item)
  <2>1. c.item["ui"].language = s.item["ui"].language
    BY <1>4
  <2> QED BY <1>4, <2>1, ValidIs, ValidOf
<1> QED BY <1>2, <1>6, <1>7, StateShape DEF KeptState, ShownSettings

LEMMA ShownIsShown ==
    ASSUME NEW c, KeptState(c)
    PROVE  ShownSettings(SettingsFrom(c))
<1>1. SettingsFrom(c).item = [i \in Items |-> ItemShown(i, c.item[i])]
  BY DEF SettingsFrom
<1>2. SettingsFrom(c).item["tun"] = c.item["tun"]
  BY <1>1 DEF Items, ItemShown
<1> QED BY <1>1, <1>2 DEF SettingsFrom, ShownSettings, KeptState, KeptItems

\* An edit of what is shown is of the same shape.
LEMMA EditIsShown ==
    ASSUME NEW s, ShownSettings(s), NEW e \in Edited(s)
    PROVE  ShownSettings(e)
<1>1. /\ s = [schema |-> s.schema, shortcut |-> s.shortcut, item |-> s.item]
      /\ \A x \in s.shortcut : x.key # NoText
      /\ s.item = [i \in Items |-> s.item[i]] /\ DOMAIN s.item = Items
      /\ s.item["tun"] = [mtu |-> s.item["tun"].mtu, rest |-> s.item["tun"].rest]
  BY DEF ShownSettings
<1>2. ASSUME NEW k \in Items, NEW f, NEW v, k = "tun" => f \in {"mtu", "rest"},
             e = [s EXCEPT !.item[k][f] = v]
      PROVE  ShownSettings(e)
  <2>1. e = [schema |-> e.schema, shortcut |-> e.shortcut, item |-> e.item]
        /\ e.shortcut = s.shortcut
    BY <1>1, <1>2
  <2>2. e.item = [s.item EXCEPT ![k] = [s.item[k] EXCEPT ![f] = v]]
    BY <1>1, <1>2
  <2>3. e.item = [i \in Items |-> e.item[i]]
    BY <1>1, <2>2
  <2>4. CASE k # "tun"
    <3>1. e.item["tun"] = s.item["tun"]
      BY <1>1, <2>2, <2>4 DEF Items
    <3> QED BY <1>1, <2>1, <2>3, <3>1 DEF ShownSettings
  <2>5. CASE k = "tun"
    <3>1. e.item["tun"] = [s.item["tun"] EXCEPT ![f] = v]
      BY <1>1, <2>2, <2>5
    <3>2. e.item["tun"] = [mtu |-> e.item["tun"].mtu, rest |-> e.item["tun"].rest]
      BY <1>1, <1>2, <2>5, <3>1
    <3> QED BY <1>1, <2>1, <2>3, <3>2 DEF ShownSettings
  <2> QED BY <2>4, <2>5
<1>3. {"tun", "hysteria", "ui", "const", "systemProxy", "proxyUi"} \subseteq Items
  BY DEF Items
<1>4. CASE \E i \in Items : e = [s EXCEPT !.item[i]["rest"] = 2]
  BY <1>2, <1>4
<1>5. CASE \E k \in Items \ {"tun"} : \E f, v : e = [s EXCEPT !.item[k][f] = v]
  BY <1>2, <1>5
<1>6. CASE \E m : e = [s EXCEPT !.item["tun"]["mtu"] = m]
  BY <1>2, <1>3, <1>6
<1>7. CASE e \in {[s EXCEPT !.schema = 2], s, [s EXCEPT !.shortcut = {[key |-> "v"]}]}
  <2>1. "v" # NoText
    BY Zenon DEF NoText
  <2> QED BY <1>1, <1>7, <2>1 DEF ShownSettings
<1>8. \/ \E i \in Items : e = [s EXCEPT !.item[i]["rest"] = 2]
      \/ \E m : e = [s EXCEPT !.item["tun"]["mtu"] = m]
      \/ \E k \in {"hysteria", "ui", "const", "systemProxy", "proxyUi"} : \E f, v :
            e = [s EXCEPT !.item[k][f] = v]
      \/ e \in {[s EXCEPT !.schema = 2], s, [s EXCEPT !.shortcut = {[key |-> "v"]}]}
  <2> DEFINE rests == {[s EXCEPT !.item[i].rest = 2] :
                         i \in {i \in DOMAIN s.item : "rest" \in DOMAIN s.item[i]}}
             mtus == {[s EXCEPT !.item["tun"].mtu = m] : m \in {575, 576, 65535, 65536}}
             rates == {[s EXCEPT !.item["hysteria"][f] = n] :
                         f \in {"up", "down", "hop"}, n \in {-1, 4, 5}}
             languages == {[s EXCEPT !.item["ui"].language = l] : l \in {"blank", "zh"}}
             wholes == {[s EXCEPT !.item["ui"].theme = "dark"], [s EXCEPT !.schema = 2], s,
                        [s EXCEPT !.shortcut = {[key |-> "v"]}]}
             sources == {[s EXCEPT !.item["const"][f] = a] :
                           f \in {"geo", "srs", "template", "converter"},
                           a \in {"http", "https", "ftp", "control"}}
             withProxies == {[s EXCEPT !.item["systemProxy"].mode = m] : m \in {"pac", "PAC"}}
             traffics == {[s EXCEPT !.item["proxyUi"].mode = m] : m \in {"global", "tun"}}
  <2>1. e \in rests \cup mtus \cup rates \cup languages \cup wholes \cup sources
               \cup withProxies \cup traffics
    <3>1. Edited(s) = rests \cup mtus \cup rates \cup languages \cup wholes \cup sources
                      \cup withProxies \cup traffics
      BY SMTT(60) DEF Edited
    <3> HIDE DEF rests, mtus, rates, languages, wholes, sources, withProxies, traffics
    <3> QED BY <3>1
  <2>2. e \in rests => \E i \in Items : e = [s EXCEPT !.item[i]["rest"] = 2]
    BY <1>1
  <2>3. e \in mtus => \E m : e = [s EXCEPT !.item["tun"]["mtu"] = m]
    OBVIOUS
  <2>4. e \in rates => \E f, v : e = [s EXCEPT !.item["hysteria"][f] = v]
    OBVIOUS
  <2>5. e \in languages => \E f, v : e = [s EXCEPT !.item["ui"][f] = v]
    OBVIOUS
  <2>6. e \in wholes => \/ \E f, v : e = [s EXCEPT !.item["ui"][f] = v]
                        \/ e \in {[s EXCEPT !.schema = 2], s,
                                  [s EXCEPT !.shortcut = {[key |-> "v"]}]}
    OBVIOUS
  <2>7. e \in sources => \E f, v : e = [s EXCEPT !.item["const"][f] = v]
    OBVIOUS
  <2>8. e \in withProxies => \E f, v : e = [s EXCEPT !.item["systemProxy"][f] = v]
    OBVIOUS
  <2>9. e \in traffics => \E f, v : e = [s EXCEPT !.item["proxyUi"][f] = v]
    OBVIOUS
  <2> HIDE DEF rests, mtus, rates, languages, wholes, sources, withProxies, traffics
  <2> QED BY <2>1, <2>2, <2>3, <2>4, <2>5, <2>6, <2>7, <2>8, <2>9
<1> QED BY <1>3, <1>4, <1>5, <1>6, <1>7, <1>8

\* What is stored is what is shared but for the subscription that is shown, and
\* what a window shows was once shared.
StoredInv ==
    /\ KeptState(appState)
    /\ storedSettings = [settings |-> SettingsFrom(appState), profile |-> appState.index,
                         routing |-> appState.item["routing"].id]
    /\ \A s \in window : ShownSettings(s)

\* Another subscription that is shown is no other configuration.
LEMMA OtherShown ==
    ASSUME NEW c, KeptState(c), NEW sub, NEW d, d = [c EXCEPT !.sub = sub]
    PROVE  /\ KeptState(d) /\ SettingsFrom(d) = SettingsFrom(c)
           /\ d.index = c.index /\ d.item = c.item
<1>1. d.index = c.index /\ d.shortcut = c.shortcut /\ d.item = c.item /\ d.sub = sub
      /\ d = [index |-> d.index, sub |-> d.sub, shortcut |-> d.shortcut, item |-> d.item]
  BY DEF KeptState, IsState
<1> QED BY <1>1 DEF KeptState, IsState, SettingsFrom

\* A field of an item that is shown as it is, or of a mode, that a command changes.
LEMMA OtherItem ==
    ASSUME NEW c, KeptState(c), NEW k \in Items, NEW f, NEW v, NEW d,
           d = [c EXCEPT !.item[k][f] = v],
           \/ <<k, f>> \in {<<"tun", "rest">>, <<"dns", "rest">>, <<"routing", "id">>}
           \/ k = "proxyUi" /\ f = "mode" /\ v \in DOMAIN TrafficText
           \/ k = "systemProxy" /\ f = "mode" /\ v \in DOMAIN SystemProxyText
    PROVE  KeptState(d)
<1>1. d = [c EXCEPT !.item[k] = [c.item[k] EXCEPT ![f] = v]]
  BY DEF KeptState, IsState
<1>2. IsState(d) /\ \A i \in Items \ {k} : d.item[i] = c.item[i]
  BY <1>1, OneItem DEF KeptState
<1>3. d.shortcut = c.shortcut /\ d.item[k] = [c.item[k] EXCEPT ![f] = v]
  BY DEF KeptState, IsState
<1>4. {"ui", "const", "tun", "hysteria", "routing", "proxyUi", "systemProxy"} \subseteq Items
  BY DEF Items
<1>5. KeptItems(c.item) /\ ValidItems(c.item)
  BY DEF KeptState
<1>6. CASE k = "tun" /\ f = "rest"
  <2>1. /\ d.item["tun"] = [mtu |-> d.item["tun"].mtu, rest |-> d.item["tun"].rest]
        /\ d.item["tun"].mtu = c.item["tun"].mtu
    BY <1>3, <1>5, <1>6 DEF KeptItems
  <2>2. \A i \in {"ui", "const", "hysteria", "routing", "proxyUi", "systemProxy"} :
           d.item[i] = c.item[i]
    BY <1>2, <1>4, <1>6
  <2>3. KeptItems(d.item)
    BY <1>5, <2>1, <2>2 DEF KeptItems
  <2>4. ValidItems(d.item)
    BY <1>5, <2>1, <2>2, ValidOf
  <2> QED BY <1>2, <1>3, <2>3, <2>4 DEF KeptState
<1>7. CASE k \in {"dns", "routing", "proxyUi", "systemProxy"}
  <2>1. \A i \in {"ui", "const", "tun", "hysteria", "routing", "proxyUi", "systemProxy"} \ {k} :
           d.item[i] = c.item[i]
    BY <1>2, <1>4
  <2>2. ValidItems(d.item)
    BY <1>5, <1>7, <2>1, ValidOf
  <2>3. KeptItems(d.item)
    <3>1. CASE k = "dns"
      BY <1>5, <2>1, <3>1 DEF KeptItems
    <3>2. CASE k = "routing"
      BY <1>3, <1>5, <2>1, <3>2 DEF KeptItems
    <3>3. CASE k = "proxyUi"
      BY <1>3, <1>5, <2>1, <3>3 DEF KeptItems
    <3>4. CASE k = "systemProxy"
      BY <1>3, <1>5, <2>1, <3>4 DEF KeptItems
    <3> QED BY <1>7, <3>1, <3>2, <3>3, <3>4
  <2> QED BY <1>2, <1>3, <2>2, <2>3 DEF KeptState
<1> QED BY <1>6, <1>7

LEMMA CommitsStore ==
    ASSUME NEW c, KeptState(c), Commits(c), \A s \in window' : ShownSettings(s)
    PROVE  StoredInv'
BY DEF Commits, StoredInv

\* What the database keeps is the configuration, and could be saved again:
\* through every save, command and start of the application.
THEOREM StoredIsRight == SettingsSpec => []StoredIsTheConfiguration
<1>1. SettingsInit => StoredInv
  <2> SUFFICES ASSUME SettingsInit PROVE StoredInv
    OBVIOUS
  <2> DEFINE first == SettingsFrom(DefaultState)
  <2>0. first.item = [i \in Items |-> ItemShown(i, DefaultItem(i))]
        /\ first.schema = 1 /\ first.shortcut = {}
        /\ first = [schema |-> first.schema, shortcut |-> first.shortcut, item |-> first.item]
    BY DEF SettingsFrom, DefaultState
  <2> HIDE DEF first
  <2>1. ShownSettings(first) /\ ValidSettings(first)
    <3>1. /\ first.item["tun"] = [mtu |-> 1500, rest |-> 1]
          /\ first.item["hysteria"] = [up |-> 100, down |-> 100, hop |-> 30]
          /\ first.item["const"] = [geo |-> NoText, srs |-> NoText, template |-> NoText,
                                    converter |-> NoText]
          /\ first.item["ui"].language = "en"
      BY <2>0 DEF Items, ItemShown, DefaultItem
    <3>2. NoText \in HttpAddresses /\ NoText \in HttpsAddresses
      BY DEF HttpAddresses, HttpsAddresses
    <3>3. "en" \notin {NoText, "blank"}
      BY Zenon DEF NoText
    <3>4. 1500 \in TunnelMtus
      BY DEF TunnelMtus
    <3>5. ValidSettings(first)
      BY <2>0, <3>1, <3>2, <3>3, <3>4 DEF ValidSettings
    <3>6. ShownSettings(first)
      BY <2>0, <3>1 DEF ShownSettings
    <3> QED BY <3>5, <3>6
  <2>2. KeptState(appState)
    BY <2>1, SavedIsKept DEF SettingsInit, first
  <2>3. PICK proxy, traffic : /\ SystemProxyText[proxy] = first.item["systemProxy"].mode
                             /\ TrafficText[traffic] = first.item["proxyUi"].mode
                             /\ appState = ConfigFrom(first, NoText, NoText, proxy, traffic)
    BY DEF SettingsInit, ConfigsFrom, ModesOf, first
  <2>4. /\ appState.item = [i \in Items |-> ItemKept(i, first.item[i], NoText, proxy, traffic)]
        /\ appState.index = NoText /\ appState.shortcut = {}
    BY <2>0, <2>3 DEF ConfigFrom
  <2>5. ASSUME NEW i \in Items PROVE ItemShown(i, appState.item[i]) = first.item[i]
    <3>1. /\ first.item[i] = ItemShown(i, DefaultItem(i))
          /\ appState.item[i] = ItemKept(i, first.item[i], NoText, proxy, traffic)
      BY <2>0, <2>4
    <3>2. CASE i \in {"routing", "systemProxy", "proxyUi"}
      BY <2>3, <3>1, <3>2 DEF ItemShown, ItemKept
    <3>3. CASE i = "ui"
      BY <3>1, <3>3 DEF ItemShown, ItemKept, DefaultItem, ThemeShown, ThemeKept
    <3>4. CASE i \notin {"routing", "ui", "systemProxy", "proxyUi"}
      BY <3>1, <3>4 DEF ItemShown, ItemKept
    <3> QED BY <3>2, <3>3, <3>4
  <2>6. SettingsFrom(appState) = first
    BY <2>0, <2>4, <2>5 DEF SettingsFrom
  <2>7. appState.item["routing"].id = NoText
    BY <2>4 DEF Items, ItemKept
  <2> QED BY <2>2, <2>4, <2>6, <2>7 DEF SettingsInit, StoredInv, first
<1>2. StoredInv /\ [SettingsNext]_settingsVars => StoredInv'
  <2> SUFFICES ASSUME StoredInv, [SettingsNext]_settingsVars PROVE StoredInv'
    OBVIOUS
  <2>1. CASE LoadConfig
    <3>1. appState' = [appState EXCEPT !.sub = NoText]
      BY <2>1, StateReturns DEF LoadConfig, StoredInv
    <3>2. /\ KeptState(appState') /\ SettingsFrom(appState') = SettingsFrom(appState)
          /\ appState'.index = appState.index /\ appState'.item = appState.item
      BY <3>1, OtherShown DEF StoredInv
    <3> QED BY <2>1, <3>2 DEF LoadConfig, StoredInv
  <2>2. CASE LoadAppSettings
    BY <2>2, ShownIsShown DEF LoadAppSettings, StoredInv
  <2>3. CASE ConnectCore \/ DisconnectCore \/ UNCHANGED settingsVars
    BY <2>3 DEF ConnectCore, DisconnectCore, settingsVars, StoredInv
  <2>4. CASE SaveAppSettings
    <3>1. PICK shown \in window : \E settings \in Edited(shown) :
             /\ ValidSettings(settings)
             /\ \E new \in ConfigsFrom(settings, appState.index, appState.item["routing"].id) :
                   Commits(new) /\ window' = {SettingsFrom(new)}
      BY <2>4 DEF SaveAppSettings
    <3>2. PICK settings \in Edited(shown) :
             /\ ValidSettings(settings)
             /\ \E new \in ConfigsFrom(settings, appState.index, appState.item["routing"].id) :
                   Commits(new) /\ window' = {SettingsFrom(new)}
      BY <3>1
    <3>3. PICK new \in ConfigsFrom(settings, appState.index, appState.item["routing"].id) :
             Commits(new) /\ window' = {SettingsFrom(new)}
      BY <3>2
    <3>4. ShownSettings(settings)
      BY <3>1, EditIsShown DEF StoredInv
    <3>5. KeptState(new)
      BY <3>2, <3>3, <3>4, SavedIsKept
    <3> QED BY <3>3, <3>5, ShownIsShown, CommitsStore
  <2>5. CASE SaveOneItem
    <3>1. PICK new \in {[appState EXCEPT !.item["tun"].rest = 2],
                        [appState EXCEPT !.item["dns"].rest = 2],
                        [appState EXCEPT !.item["routing"].id = "r"]} :
             Commits(new) /\ window' = window
      BY <2>5 DEF SaveOneItem
    <3>2. {"tun", "dns", "routing"} \subseteq Items
      BY DEF Items
    <3>3. KeptState(new)
      BY <3>1, <3>2, OtherItem DEF StoredInv
    <3> QED BY <3>1, <3>3, CommitsStore DEF StoredInv
  <2>6. CASE SaveOneChoice
    <3>1. PICK new \in {[appState EXCEPT !.index = "p"], [appState EXCEPT !.sub = "s"],
                        [appState EXCEPT !.item["proxyUi"].mode = "Direct"],
                        [appState EXCEPT !.item["systemProxy"].mode = "ForcedChange"]} :
             Commits(new) /\ window' = window
      BY <2>6 DEF SaveOneChoice
    <3>2. CASE new = [appState EXCEPT !.index = "p"]
      <4>1. /\ new.shortcut = appState.shortcut /\ new.item = appState.item
            /\ new = [index |-> new.index, sub |-> new.sub, shortcut |-> new.shortcut,
                      item |-> new.item]
        BY <3>2 DEF StoredInv, KeptState, IsState
      <4>2. KeptState(new)
        BY <4>1 DEF StoredInv, KeptState, IsState
      <4> QED BY <3>1, <4>2, CommitsStore DEF StoredInv
    <3>3. CASE new = [appState EXCEPT !.sub = "s"]
      BY <3>1, <3>3, OtherShown, CommitsStore DEF StoredInv
    <3>4. CASE new = [appState EXCEPT !.item["proxyUi"].mode = "Direct"]
      <4>1. "proxyUi" \in Items /\ "Direct" \in DOMAIN TrafficText
        BY DEF Items, TrafficText
      <4>2. KeptState(new)
        BY <3>4, <4>1, OtherItem DEF StoredInv
      <4> QED BY <3>1, <4>2, CommitsStore DEF StoredInv
    <3>5. CASE new = [appState EXCEPT !.item["systemProxy"].mode = "ForcedChange"]
      <4>1. "systemProxy" \in Items /\ "ForcedChange" \in DOMAIN SystemProxyText
        BY DEF Items, SystemProxyText
      <4>2. KeptState(new)
        BY <3>5, <4>1, OtherItem DEF StoredInv
      <4> QED BY <3>1, <4>2, CommitsStore DEF StoredInv
    <3> QED BY <3>1, <3>2, <3>3, <3>4, <3>5
  <2> QED BY <2>1, <2>2, <2>3, <2>4, <2>5, <2>6 DEF SettingsNext
<1>3. StoredInv => StoredIsTheConfiguration
  BY StateReturns, ShownIsValid DEF StoredInv, StoredIsTheConfiguration, KeptState
<1> QED BY <1>1, <1>2, <1>3, PTL DEF SettingsSpec

\* A window saves what the database keeps, and the core that runs was generated
\* from it (settings_save.rs, services.rs).
THEOREM SettingsHold == SettingsSpec => []SettingsAreKept
BY StoredIsRight, CoreFollows, PTL DEF SettingsAreKept

-----------------------------------------------------------------------------
(* The monitor and the traffic mode.                                        *)

Tasks == [pc : {"connecting", "open", "sleep", "route", "done"}, aborted : BOOLEAN,
          attempt : Nat]

\* A task that is aborted is being polled or over; the handle is that of a
\* monitor that was started.
MonitorInv ==
    /\ started \in Nat
    /\ monitor.id \in 0 .. started /\ monitor.id <= MaxMonitors
    /\ stream \in [MonitorIds -> [Resources -> Tasks]]
    /\ MonitorIsAlive

\* Of a task that the controller lets go of nothing is left but its poll.
LEMMA StoppedTasks ==
    ASSUME MonitorInv
    PROVE  /\ StopHandle \in [MonitorIds -> [Resources -> Tasks]]
           /\ \A m \in MonitorIds, r \in Resources :
                 StopHandle[m][r].pc = "done" \/ StopHandle[m][r].aborted
<1>1. ASSUME NEW t \in Tasks PROVE Aborted(t) \in Tasks /\ (Aborted(t).pc = "done" \/ Aborted(t).aborted)
  BY DEF Tasks, Aborted
<1>2. CASE monitor.id = NoMonitor
  BY <1>2, ProxyRuntimeBounds DEF MonitorInv, MonitorIsAlive, StopHandle, NoMonitor, MonitorIds
<1>3. CASE monitor.id # NoMonitor
  <2>1. monitor.id \in MonitorIds
    BY <1>3, ProxyRuntimeBounds DEF MonitorInv, NoMonitor, MonitorIds
  <2>2. StopHandle = [stream EXCEPT ![monitor.id] =
                         [r \in Resources |-> Aborted(stream[monitor.id][r])]]
    BY <1>3 DEF StopHandle
  <2>3. \A r \in Resources : stream[monitor.id][r] \in Tasks
    BY <2>1 DEF MonitorInv
  <2>4. \A r \in Resources : StopHandle[monitor.id][r] = Aborted(stream[monitor.id][r])
    BY <2>1, <2>2 DEF MonitorInv
  <2>5. \A m \in MonitorIds \ {monitor.id} : StopHandle[m] = stream[m]
    BY <2>2 DEF MonitorInv
  <2>6. StopHandle \in [MonitorIds -> [Resources -> Tasks]]
    BY <1>1, <2>1, <2>2, <2>3 DEF MonitorInv
  <2> QED
    BY <1>1, <2>3, <2>4, <2>5, <2>6 DEF MonitorInv, MonitorIsAlive
<1> QED
  BY <1>2, <1>3

\* A failure of the socket sends a task to sleep or to its next connect, never
\* to its end.
LEMMA TasksGoOn ==
    ASSUME NEW t \in Tasks, NEW u \in TaskSteps(t), MaxAttempt \in Nat
    PROVE  /\ u \in Tasks /\ t.pc # "done"
           /\ t.aborted => u.aborted
           /\ ~t.aborted => u.pc # "done" /\ ~u.aborted
<1>1. t.pc \in {"connecting", "open", "sleep", "route", "done"} /\ t.attempt \in Nat
  BY DEF Tasks
<1>2. Reconnect(t.attempt) \in Nat
  BY <1>1 DEF Reconnect
<1>3. CASE t.pc = "connecting"
  <2>1. \/ u = [t EXCEPT !.pc = "open"]
        \/ u = [t EXCEPT !.pc = "sleep", !.attempt = Reconnect(t.attempt)]
    BY <1>3 DEF TaskSteps
  <2> QED
    BY <1>2, <1>3, <2>1 DEF Tasks
<1>4. CASE t.pc = "open"
  <2>1. \/ u = [t EXCEPT !.pc = "route", !.attempt = 0]
        \/ u = [t EXCEPT !.pc = "sleep", !.attempt = Reconnect(t.attempt)]
    BY <1>4 DEF TaskSteps
  <2>2. CASE u = [t EXCEPT !.pc = "route", !.attempt = 0]
    <3>1. u.pc = "route" /\ u.attempt = 0 /\ u.aborted = t.aborted
      BY <2>2 DEF Tasks
    <3>2. u \in Tasks
      BY <2>2 DEF Tasks
    <3> QED
      BY <1>4, <3>1, <3>2
  <2> QED
    BY <1>2, <1>4, <2>1, <2>2 DEF Tasks
<1>5. CASE t.pc = "sleep"
  BY <1>5 DEF Tasks, TaskSteps
<1>6. CASE t.pc = "route"
  BY <1>6 DEF Tasks, TaskSteps
<1>7. CASE t.pc = "done"
  BY <1>7 DEF TaskSteps
<1> QED
  BY <1>1, <1>3, <1>4, <1>5, <1>6, <1>7

LEMMA MonitorStays == MonitorInv /\ [ProxyRuntimeNext]_proxyRuntimeVars => MonitorInv'
<1> SUFFICES ASSUME MonitorInv, [ProxyRuntimeNext]_proxyRuntimeVars PROVE MonitorInv'
  OBVIOUS
<1>1. CASE UNCHANGED monitorVars
  BY <1>1 DEF monitorVars, MonitorInv, MonitorIsAlive
<1>2. CASE ChangeStatePort
  BY <1>2 DEF ChangeStatePort, MonitorInv, MonitorIsAlive
<1>3. CASE StartWithoutPort \/ StopMonitor
  <2>1. stream' = StopHandle /\ monitor'.id = 0 /\ UNCHANGED started
    BY <1>3 DEF StartWithoutPort, StopMonitor, NoHandle, NoMonitor
  <2>2. 0 \notin MonitorIds
    BY ProxyRuntimeBounds DEF MonitorIds
  <2> QED
    BY <2>1, <2>2, StoppedTasks, ProxyRuntimeBounds DEF MonitorInv, MonitorIsAlive
<1>4. CASE StartMonitor
  <2> DEFINE m == started + 1
  <2>1. m \in MonitorIds /\ m \in Nat /\ m <= MaxMonitors /\ started' = m /\ monitor'.id = m
    BY <1>4, ProxyRuntimeBounds DEF StartMonitor, MonitorInv, MonitorIds
  <2>2. stream' = [StopHandle EXCEPT ![m] = [r \in Resources |-> NewTask]]
    BY <1>4 DEF StartMonitor
  <2>3. NewTask \in Tasks /\ NewTask.pc # "done" /\ ~NewTask.aborted
    BY DEF NewTask, Tasks
  <2>4. stream' \in [MonitorIds -> [Resources -> Tasks]]
    BY <2>1, <2>2, <2>3, StoppedTasks
  <2>5. MonitorIsAlive'
    BY <2>1, <2>2, <2>3, StoppedTasks DEF MonitorIsAlive
  <2> QED
    BY <2>1, <2>4, <2>5 DEF MonitorInv
<1>5. ASSUME NEW m \in MonitorIds, NEW r \in Resources, MonitorStep(m, r) PROVE MonitorInv'
  <2>1. PICK u \in TaskSteps(stream[m][r]) : stream' = [stream EXCEPT ![m][r] = u]
    BY <1>5 DEF MonitorStep
  <2>2. stream[m][r] \in Tasks
    BY DEF MonitorInv
  <2>3. /\ u \in Tasks /\ stream[m][r].pc # "done"
        /\ stream[m][r].aborted => u.aborted
        /\ ~stream[m][r].aborted => u.pc # "done" /\ ~u.aborted
    BY <2>2, TasksGoOn, ProxyRuntimeBounds
  <2>4. stream' \in [MonitorIds -> [Resources -> Tasks]]
    BY <2>1, <2>3 DEF MonitorInv
  <2>5. /\ stream'[m][r] = u
        /\ \A n \in MonitorIds, q \in Resources :
              n # m \/ q # r => stream'[n][q] = stream[n][q]
    BY <2>1 DEF MonitorInv
  <2>6. UNCHANGED <<monitor, started>>
    BY <1>5 DEF MonitorStep
  <2>7. MonitorIsAlive'
    BY <2>3, <2>5, <2>6 DEF MonitorInv, MonitorIsAlive
  <2> QED
    BY <2>4, <2>6, <2>7 DEF MonitorInv
<1> QED
  BY <1>1, <1>2, <1>3, <1>4, <1>5
  DEF ProxyRuntimeNext, MonitorNext, ModeNext, CommitMode, CommitModeFails, SendMode,
      SendModeFails, LateUpdate, ModeOfNewCore, ReloadCore, CoreEnds, SaveSettingsMode,
      proxyRuntimeVars

Calls == [pc : {"new", "failed", "send", "lost", "ok", "warned"},
          mode : Modes \cup {ModeUnchanged}]

\* The last call that changed the mode wants the one that is saved; unless one
\* was on its way before it, it is the only one that still is, and when it is
\* through the core has its mode, or there is no core, or a new one.
ModeInv ==
    /\ setter \in [Setters -> Calls]
    /\ savedBy \in Setters =>
          /\ setter[savedBy].pc \notin {"new", "failed"}
          /\ setter[savedBy].mode = savedMode
          /\ ~overlap =>
                /\ \A o \in Setters : OnItsWay(o) => o = savedBy
                /\ (setter[savedBy].pc = "ok" /\ ~newCore /\ savedMode # ModeUnchanged) =>
                      coreMode \in {savedMode, NoCore}

\* A step that changes one call keeps the others and their modes.
LEMMA OneCallGoesOn ==
    ASSUME ModeInv, NEW s \in Setters, NEW pc \in {"failed", "lost", "ok", "warned"},
           setter' = [setter EXCEPT ![s].pc = pc]
    PROVE  /\ setter' \in [Setters -> Calls]
           /\ setter'[s].pc = pc /\ setter'[s].mode = setter[s].mode
           /\ \A t \in Setters \ {s} : setter'[t] = setter[t]
<1>1. setter \in [Setters -> Calls]
  BY DEF ModeInv
<1> QED
  BY <1>1 DEF Calls

LEMMA CommitStep ==
    ASSUME ModeInv, NEW s \in Setters, NEW mode \in Modes \cup {ModeUnchanged},
           CommitMode(s, mode)
    PROVE  ModeInv'
<1>1. PICK pc \in {"send", "ok"} :
         /\ setter' = [setter EXCEPT ![s] = [pc |-> pc, mode |-> mode]]
         /\ pc = "send" <=> mode # savedMode /\ mode # ModeUnchanged
  BY DEF CommitMode
<1>2. setter[s].pc = "new" /\ savedMode' = mode /\ coreMode' = coreMode /\ SavedAnew(s, mode)
  BY DEF CommitMode
<1>3. setter \in [Setters -> Calls]
  BY DEF ModeInv
<1>4. /\ setter' \in [Setters -> Calls]
      /\ setter'[s].pc = pc /\ setter'[s].mode = mode
      /\ \A t \in Setters \ {s} : setter'[t] = setter[t]
  BY <1>1, <1>3 DEF Calls
<1>5. CASE mode = savedMode
  <2>1. UNCHANGED <<savedBy, overlap, newCore, savedMode, coreMode>> /\ pc = "ok"
    BY <1>1, <1>2, <1>5 DEF SavedAnew
  <2>2. savedBy \in Setters => savedBy # s
    BY <1>2 DEF ModeInv
  <2>3. savedBy \in Setters => setter'[savedBy] = setter[savedBy]
    BY <1>4, <2>2
  <2>4. \A o \in Setters : OnItsWay(o)' => OnItsWay(o)
    BY <1>4, <2>1 DEF OnItsWay
  <2> QED
    BY <1>4, <2>1, <2>3, <2>4 DEF ModeInv
<1>6. CASE mode # savedMode
  <2>1. savedBy' = s /\ (overlap' <=> \E o \in Setters : OnItsWay(o))
    BY <1>2, <1>6 DEF SavedAnew
  <2>2. \A o \in Setters : ~overlap' /\ OnItsWay(o)' => o = s
    BY <1>4, <2>1 DEF OnItsWay
  <2>3. pc = "ok" => savedMode' = ModeUnchanged
    BY <1>1, <1>2, <1>6
  <2> QED
    BY <1>2, <1>4, <2>1, <2>2, <2>3 DEF ModeInv
<1> QED
  BY <1>5, <1>6

\* The answer to a request, its loss, and what the core makes of one late.
LEMMA CallStep ==
    ASSUME ModeInv, NEW s \in Setters,
           CommitModeFails(s) \/ SendMode(s) \/ SendModeFails(s) \/ LateUpdate(s)
    PROVE  ModeInv'
<1>1. CASE CommitModeFails(s)
  <2>1. /\ setter[s].pc = "new" /\ setter' = [setter EXCEPT ![s].pc = "failed"]
        /\ UNCHANGED <<savedMode, coreMode, savedBy, overlap, newCore>>
    BY <1>1 DEF CommitModeFails
  <2>2. /\ setter' \in [Setters -> Calls] /\ setter'[s].pc = "failed"
        /\ \A t \in Setters \ {s} : setter'[t] = setter[t]
    BY <2>1, OneCallGoesOn
  <2>3. savedBy \in Setters => savedBy # s
    BY <2>1 DEF ModeInv
  <2> QED
    BY <2>1, <2>2, <2>3 DEF ModeInv, OnItsWay
<1>2. CASE SendMode(s) \/ SendModeFails(s) \/ LateUpdate(s)
  <2>1. PICK pc \in {"lost", "ok", "warned"} :
           /\ setter' = [setter EXCEPT ![s].pc = pc]
           /\ pc = "ok" => coreMode' = setter[s].mode
           /\ OnItsWay(s) /\ UNCHANGED <<savedMode, savedBy, overlap>>
           /\ pc # "ok" => setter[s].pc = "lost" \/ UNCHANGED <<coreMode, newCore>>
    BY <1>2 DEF SendMode, SendModeFails, LateUpdate, OnItsWay
  <2>2. /\ setter' \in [Setters -> Calls] /\ setter'[s].pc = pc
        /\ setter'[s].mode = setter[s].mode
        /\ \A t \in Setters \ {s} : setter'[t] = setter[t]
    BY <2>1, OneCallGoesOn
  <2>3. \A o \in Setters : OnItsWay(o)' => OnItsWay(o)
    BY <2>1, <2>2 DEF OnItsWay
  <2>4. (savedBy \in Setters /\ ~overlap) => savedBy = s
    BY <2>1 DEF ModeInv
  <2>5. savedBy \in Setters =>
           setter'[savedBy].pc \notin {"new", "failed"} /\ setter'[savedBy].mode = savedMode
    <3>1. CASE savedBy = s
      BY <2>2, <3>1 DEF ModeInv
    <3>2. CASE savedBy # s
      BY <2>2, <3>2 DEF ModeInv
    <3> QED BY <3>1, <3>2
  <2>6. (savedBy \in Setters /\ ~overlap /\ setter'[savedBy].pc = "ok") => coreMode' = savedMode
    BY <2>1, <2>2, <2>4 DEF ModeInv
  <2>7. (savedBy \in Setters /\ ~overlap) => \A o \in Setters : OnItsWay(o)' => o = savedBy
    BY <2>3 DEF ModeInv
  <2> QED
    BY <2>1, <2>2, <2>5, <2>6, <2>7 DEF ModeInv
<1> QED
  BY <1>1, <1>2

\* A core that starts, reloads or ends, and the settings window.
LEMMA OtherModeStep ==
    ASSUME ModeInv,
           \/ \E mode \in Modes : ModeOfNewCore(mode) \/ ReloadCore(mode)
           \/ CoreEnds
           \/ \E mode \in Modes \cup {ModeUnchanged} : SaveSettingsMode(mode)
    PROVE  ModeInv'
<1>1. CASE \E mode \in Modes : ModeOfNewCore(mode) \/ ReloadCore(mode)
  <2>1. newCore' = TRUE /\ UNCHANGED <<savedMode, setter, savedBy, overlap>>
    BY <1>1 DEF ModeOfNewCore, ReloadCore
  <2> QED
    BY <2>1 DEF ModeInv, OnItsWay
<1>2. CASE CoreEnds
  <2>1. /\ coreMode' = NoCore /\ UNCHANGED <<savedMode, savedBy, overlap, newCore>>
        /\ setter' = [s \in Setters |->
                         [setter[s] EXCEPT !.pc = IF @ = "lost" THEN "warned" ELSE @]]
    BY <1>2 DEF CoreEnds
  <2>2. setter \in [Setters -> Calls]
    BY DEF ModeInv
  <2>3. setter' \in [Setters -> Calls]
    BY <2>1, <2>2 DEF Calls
  <2>4. \A s \in Setters : /\ setter'[s].mode = setter[s].mode
                           /\ setter'[s].pc = setter[s].pc \/ setter'[s].pc = "warned"
    BY <2>1, <2>2 DEF Calls
  <2>5. \A o \in Setters : OnItsWay(o)' => OnItsWay(o)
    BY <2>4 DEF OnItsWay
  <2> QED
    BY <2>1, <2>3, <2>4, <2>5 DEF ModeInv
<1>3. CASE \E mode \in Modes \cup {ModeUnchanged} : SaveSettingsMode(mode)
  <2>1. savedBy' = NoSetter /\ UNCHANGED setter
    BY <1>3 DEF SaveSettingsMode
  <2> QED
    BY <2>1, NoSetterIsNone DEF ModeInv
<1> QED
  BY <1>1, <1>2, <1>3

LEMMA ModeStays == ModeInv /\ [ProxyRuntimeNext]_proxyRuntimeVars => ModeInv'
<1> SUFFICES ASSUME ModeInv, [ProxyRuntimeNext]_proxyRuntimeVars PROVE ModeInv'
  OBVIOUS
<1>1. CASE UNCHANGED modeVars
  BY <1>1 DEF modeVars, ModeInv, OnItsWay
<1>2. CASE MonitorNext
  BY <1>1, <1>2 DEF MonitorNext, ChangeStatePort, StartWithoutPort, StartMonitor, StopMonitor,
      MonitorStep
<1>3. CASE ModeNext
  BY <1>3, CommitStep, CallStep, OtherModeStep DEF ModeNext
<1> QED
  BY <1>1, <1>2, <1>3 DEF ProxyRuntimeNext, proxyRuntimeVars

\* However often its sockets fail the monitor that is said to run does, and a
\* stopped one is over but for the poll it was in; and a call that changed the
\* saved mode and had no warning has put the core in it until the next change,
\* unless another was on its way before it or a core has started since.
THEOREM MonitorAndModeHold == ProxyRuntimeSpec => MonitorAndModeAreRight
<1>1. ProxyRuntimeInit => MonitorInv /\ ModeInv
  <2> SUFFICES ASSUME ProxyRuntimeInit PROVE MonitorInv /\ ModeInv
    OBVIOUS
  <2>1. NoTask \in Tasks /\ NoTask.pc = "done"
    BY DEF NoTask, Tasks
  <2>2. MonitorInv
    BY <2>1, ProxyRuntimeBounds
    DEF ProxyRuntimeInit, MonitorInv, MonitorIsAlive, NoHandle, NoMonitor, MonitorIds
  <2>3. ModeInv
    BY NoSetterIsNone DEF ProxyRuntimeInit, ModeInv, Calls
  <2> QED
    BY <2>2, <2>3
<1>2. MonitorInv /\ ModeInv => MonitorIsAlive /\ SavedModeIsApplied
  BY DEF MonitorInv, ModeInv, SavedModeIsApplied
<1>3. MonitorInv /\ ModeInv /\ [ProxyRuntimeNext]_proxyRuntimeVars => (MonitorInv /\ ModeInv)'
  BY MonitorStays, ModeStays
<1> QED
  BY <1>1, <1>2, <1>3, PTL DEF ProxyRuntimeSpec, MonitorAndModeAreRight

-----------------------------------------------------------------------------
(* The UDP test.                                                            *)

\* An answer is read for its own request or for a later one, and what is counted
\* is no more than what it took, and that where it is its own.
Reads == {r \in [attempt : {0, 1}, right : BOOLEAN, request : {0, 1},
                 elapsed : Nat, travelled : Nat] :
             /\ r.attempt <= r.request /\ r.elapsed <= r.travelled
             /\ r.attempt = r.request => r.elapsed = r.travelled}
Early == {"connect", "hello", "associate", "relay", "first"}

InOrder(log) == \A i, j \in DOMAIN log : i < j => log[i].request < log[j].request
AllBefore(log, request) == \A i \in DOMAIN log : log[i].request < request

\* The second request is sent after the first, an answer comes after the request
\* it answers, and what was read was read for the requests before this one.
UdpInv ==
    /\ udpTime \in Nat
    /\ sentAt \in [{0, 1} -> Int] /\ \A a \in {0, 1} : -1 <= sentAt[a] /\ sentAt[a] <= udpTime
    /\ sentAt[1] # -1 => sentAt[0] <= sentAt[1]
    /\ answers \subseteq [attempt : {0, 1}, right : BOOLEAN]
    /\ \A a \in answers : sentAt[a.attempt] # -1
    /\ received \in Seq(Reads) /\ InOrder(received)
    /\ udpPc \in Early => sentAt[0] = -1 /\ sentAt[1] = -1 /\ AllBefore(received, 0)
    /\ udpPc = "second" => sentAt[1] = -1 /\ AllBefore(received, 1)
    /\ udpPc = "wait" => sentAt[Waiting] # -1 /\ AllBefore(received, Waiting)
    /\ udpPc \in Early \cup {"second", "wait", "done"}
    /\ udpPc # "done" => udpResult.end = "none"
    /\ udpPc = "done" => TimesAreOfRightAnswers

\* What was read before the first request was read before the second.
LEMMA BeforeTheSecond ==
    ASSUME NEW log \in Seq(Reads), AllBefore(log, 0)
    PROVE  AllBefore(log, 1)
<1> SUFFICES ASSUME NEW i \in DOMAIN log PROVE log[i].request < 1
  BY DEF AllBefore
<1>1. log[i] \in Reads
  OBVIOUS
<1> QED BY <1>1 DEF AllBefore, Reads

LEMMA AnswersAreTrueOrFalse ==
    ASSUME NEW r \in UdpResponses
    PROVE  Verified(r.kind, r) \in BOOLEAN
BY UdpBounds DEF Verified

\* The best time of some reads is one of their times, and none is better.
LEMMA BestTimeIs ==
    ASSUME NEW log \in Seq(Reads), log # <<>>
    PROVE  /\ BestTime(log) \in Nat
           /\ \A i \in DOMAIN log : BestTime(log) <= log[i].elapsed
           /\ \E i \in DOMAIN log : BestTime(log) = log[i].elapsed
<1> DEFINE times == {log[i].elapsed : i \in DOMAIN log}
<1>1. times \in SUBSET Nat
  <2>1. \A i \in DOMAIN log : log[i] \in Reads
    OBVIOUS
  <2>2. \A i \in DOMAIN log : log[i].elapsed \in Nat
    BY <2>1 DEF Reads
  <2> QED BY <2>2
<1>2. times # {}
  <2>1. 1 \in DOMAIN log
    OBVIOUS
  <2> QED BY <2>1
<1>3. \E t \in times : \A u \in times : t <= u
  BY <1>1, <1>2, LeastNumber
<1>4. BestTime(log) \in times /\ \A u \in times : BestTime(log) <= u
  BY <1>3 DEF BestTime
<1> QED BY <1>1, <1>4

\* It is no more than what any of them took, and what one did or one was late.
LEMMA BestTimeIsTaken ==
    ASSUME NEW log \in Seq(Reads), log # <<>>
    PROVE  /\ BestTime(log) \in Nat
           /\ \A i \in DOMAIN log : BestTime(log) <= log[i].travelled
           /\ \E i \in DOMAIN log : BestTime(log) = log[i].travelled \/ Late(log[i])
<1>1. \A i \in DOMAIN log :
         /\ log[i].elapsed \in Nat /\ log[i].travelled \in Nat
         /\ log[i].elapsed <= log[i].travelled
         /\ log[i].elapsed = log[i].travelled \/ Late(log[i])
  <2> SUFFICES ASSUME NEW i \in DOMAIN log
               PROVE  /\ log[i].elapsed \in Nat /\ log[i].travelled \in Nat
                      /\ log[i].elapsed <= log[i].travelled
                      /\ log[i].elapsed = log[i].travelled \/ Late(log[i])
    OBVIOUS
  <2>1. log[i] \in Reads
    OBVIOUS
  <2> HIDE DEF Late
  <2>2. log[i].attempt < log[i].request => Late(log[i])
    BY DEF Late
  <2> QED BY <2>1, <2>2 DEF Reads
<1> QED BY <1>1, BestTimeIs

\* A read is put after the others.
LEMMA NextRead ==
    ASSUME UdpInv, udpPc = "wait", NEW answer \in answers,
           received' = Append(received, Read(answer))
    PROVE  /\ received' \in Seq(Reads) /\ received' # <<>> /\ InOrder(received')
           /\ Last(received').request = Waiting /\ Last(received').right = answer.right
           /\ Waiting = 0 => AllBefore(received', 1)
<1>1. /\ Waiting \in {0, 1} /\ sentAt[Waiting] # -1 /\ sentAt[answer.attempt] # -1
      /\ answer.attempt \in {0, 1} /\ answer.right \in BOOLEAN
      /\ Waiting = 0 => sentAt[1] = -1
  BY DEF UdpInv, Waiting
<1>2. /\ sentAt[0] \in Int /\ sentAt[1] \in Int /\ udpTime \in Nat
      /\ sentAt[0] <= udpTime /\ sentAt[1] <= udpTime
      /\ sentAt[1] # -1 => sentAt[0] <= sentAt[1]
  BY DEF UdpInv
<1>3. Read(answer) \in Reads
  <2>1. answer.attempt <= Waiting
    BY <1>1
  <2>2. /\ udpTime - sentAt[Waiting] \in Nat /\ udpTime - sentAt[answer.attempt] \in Nat
        /\ udpTime - sentAt[Waiting] <= udpTime - sentAt[answer.attempt]
    <3>1. CASE Waiting = 0
      <4>1. answer.attempt = 0
        BY <1>1, <3>1
      <4> QED BY <1>2, <3>1, <4>1
    <3>2. CASE Waiting = 1 /\ answer.attempt = 0
      <4>1. sentAt[0] <= sentAt[1]
        BY <1>1, <1>2, <3>2
      <4> QED BY <1>2, <3>2, <4>1
    <3>3. CASE Waiting = 1 /\ answer.attempt = 1
      BY <1>2, <3>3
    <3> QED BY <1>1, <3>1, <3>2, <3>3
  <2> QED BY <1>1, <2>1, <2>2 DEF Reads, Read
<1>4. Read(answer).request = Waiting /\ Read(answer).right = answer.right
  BY DEF Read
<1>5. received \in Seq(Reads) /\ InOrder(received) /\ AllBefore(received, Waiting)
  BY DEF UdpInv
<1> DEFINE read == Read(answer)
<1> HIDE DEF read
<1>6. received' = Append(received, read) /\ read \in Reads
  BY <1>3 DEF read
<1>7. /\ received' \in Seq(Reads) /\ Len(received') = Len(received) + 1
      /\ received'[Len(received')] = read
      /\ \A i \in DOMAIN received : received'[i] = received[i]
      /\ \A i \in DOMAIN received' : i \in DOMAIN received \/ i = Len(received')
  BY <1>5, <1>6
<1>8. read.request = Waiting /\ read.right = answer.right
  BY <1>4 DEF read
<1>9. \A i \in DOMAIN received : received[i].request < Waiting
  BY <1>5 DEF AllBefore
<1>10. InOrder(received')
  <2> SUFFICES ASSUME NEW i \in DOMAIN received', NEW j \in DOMAIN received', i < j
               PROVE  received'[i].request < received'[j].request
    BY DEF InOrder
  <2>1. i \in DOMAIN received
    BY <1>5, <1>7
  <2>2. CASE j \in DOMAIN received
    BY <2>1, <2>2, <1>5, <1>7 DEF InOrder
  <2>3. CASE j = Len(received')
    BY <2>1, <2>3, <1>7, <1>8, <1>9
  <2> QED BY <1>7, <2>2, <2>3
<1>11. Waiting = 0 => AllBefore(received', 1)
  <2> SUFFICES ASSUME Waiting = 0, NEW i \in DOMAIN received' PROVE received'[i].request < 1
    BY DEF AllBefore
  <2>1. \A k \in DOMAIN received : received[k] \in Reads
    BY <1>5
  <2>2. CASE i = Len(received')
    <3>1. received'[i] = read
      BY <2>2, <1>7
    <3>2. read.request = 0
      BY <1>8
    <3> QED BY <3>1, <3>2
  <2>3. CASE i \in DOMAIN received
    <3>1. received[i].request < Waiting
      BY <2>3, <1>9
    <3>2. received'[i].request = received[i].request
      BY <2>3, <1>7
    <3>3. received[i].request \in {0, 1}
      BY <2>1, <2>3 DEF Reads
    <3> QED BY <3>1, <3>2, <3>3
  <2> QED BY <1>7, <2>2, <2>3
<1>12. Last(received') = read /\ received' # <<>>
  BY <1>5, <1>7 DEF Last
<1> QED BY <1>7, <1>8, <1>10, <1>11, <1>12

\* Only what is read for the second request ends the test, with a time if it
\* verifies.
LEMMA ReadStep ==
    ASSUME UdpInv, NEW answer \in answers, ReadAnswer(answer)
    PROVE  UdpInv'
<1>1. /\ udpPc = "wait" /\ answers' = answers \ {answer} /\ UNCHANGED <<udpTime, sentAt>>
      /\ received' = Append(received, Read(answer))
  BY DEF ReadAnswer
<1>2. /\ received' \in Seq(Reads) /\ received' # <<>> /\ InOrder(received')
      /\ Last(received').request = Waiting /\ Last(received').right = answer.right
      /\ Waiting = 0 => AllBefore(received', 1)
  BY <1>1, NextRead
<1>3. /\ Waiting \in {0, 1} /\ answer.right \in BOOLEAN
      /\ Waiting = 0 => sentAt[1] = -1
  BY <1>1 DEF UdpInv, Waiting
<1>4. /\ udpTime' \in Nat /\ sentAt' \in [{0, 1} -> Int]
      /\ \A a \in {0, 1} : -1 <= sentAt'[a] /\ sentAt'[a] <= udpTime'
      /\ sentAt'[1] # -1 => sentAt'[0] <= sentAt'[1]
      /\ answers' \subseteq [attempt : {0, 1}, right : BOOLEAN]
      /\ \A a \in answers' : sentAt'[a.attempt] # -1
  BY <1>1 DEF UdpInv
<1>5. ASSUME udpPc' = "done", TimesAreOfRightAnswers' PROVE UdpInv'
  BY <1>2, <1>4, <1>5 DEF UdpInv, Early
<1>6. CASE Waiting = 0
  <2>1. udpPc' = "second" /\ udpResult' = udpResult
    BY <1>6 DEF ReadAnswer
  <2>2. udpResult'.end = "none"
    BY <1>1, <2>1 DEF UdpInv
  <2> QED BY <1>1, <1>2, <1>3, <1>4, <1>6, <2>1, <2>2 DEF UdpInv, Early
<1>7. CASE Waiting = 1 /\ answer.right = TRUE
  <2>1. udpPc' = "done" /\ udpResult'.end = "ok" /\ udpResult'.time = BestTime(received')
    BY <1>7 DEF ReadAnswer, UdpEnds
  <2>2. /\ BestTime(received') \in Nat
        /\ \A i \in DOMAIN received' : BestTime(received') <= received'[i].travelled
        /\ \E i \in DOMAIN received' :
              BestTime(received') = received'[i].travelled \/ Late(received'[i])
    BY <1>2, BestTimeIsTaken
  <2>3. TimesAreOfRightAnswers'
    BY <1>2, <1>7, <2>1, <2>2 DEF TimesAreOfRightAnswers, InOrder, Late
  <2> QED BY <1>5, <2>1, <2>3
<1>8. CASE Waiting = 1 /\ answer.right = FALSE
  <2>1. udpPc' = "done" /\ udpResult'.end = "unverified"
    BY <1>8 DEF ReadAnswer, UdpEnds
  <2>2. TimesAreOfRightAnswers'
    BY <1>2, <1>8, <2>1 DEF TimesAreOfRightAnswers, InOrder
  <2> QED BY <1>5, <2>1, <2>2
<1> QED BY <1>3, <1>6, <1>7, <1>8

\* A UDP test reports a time if and only if what it read for its second request
\* verifies, and the time is one an answer took or an answer came late, however
\* late, twofold or wrong the answers are.
THEOREM TimesAreRight == UdpSpec => []TimesAreOfRightAnswers
<1>1. UdpInit => UdpInv
  BY DEF UdpInit, UdpInv, Early, InOrder, AllBefore
<1>2. UdpInv /\ [UdpNext]_udpVars => UdpInv'
  <2> SUFFICES ASSUME UdpInv, [UdpNext]_udpVars PROVE UdpInv'
    OBVIOUS
  <2>1. CASE UNCHANGED udpVars
    BY <2>1 DEF udpVars, UdpInv, TimesAreOfRightAnswers, Waiting, InOrder, AllBefore, Late
  <2>2. ASSUME UdpEnds("error", 0) \/ UdpEnds("timeout", 0), udpPc # "done",
               UNCHANGED <<udpTime, sentAt, answers, received>>
        PROVE  UdpInv'
    <3>1. udpPc' = "done" /\ udpResult'.end \in {"error", "timeout"}
      BY <2>2 DEF UdpEnds
    <3>2. TimesAreOfRightAnswers'
      BY <2>2, <3>1 DEF UdpInv, TimesAreOfRightAnswers, InOrder
    <3> QED BY <2>2, <3>1, <3>2 DEF UdpInv, Early, InOrder
  <2>3. ASSUME NEW relay, Associate(relay) PROVE UdpInv'
    <3>1. CASE UdpEnds("error", 0)
      BY <2>2, <2>3, <3>1 DEF Associate
    <3>2. CASE udpPc' \in Early /\ udpPc \in Early /\ UNCHANGED udpResult
      BY <2>3, <3>2 DEF Associate, UdpInv, Early, Waiting, InOrder, AllBefore
    <3> QED BY <2>3, <3>1, <3>2 DEF Associate, Early
  <2>4. CASE SendRequest
    <3>1. CASE UdpEnds("error", 0)
      <4>1. udpPc # "done" /\ UNCHANGED <<udpTime, sentAt, answers, received>>
        BY <2>4, <3>1 DEF SendRequest, UdpEnds
      <4> QED BY <2>2, <3>1, <4>1
    <3>2. CASE udpPc = "first" /\ udpPc' = "second" /\ UNCHANGED <<sentAt, udpResult>>
      <4>1. AllBefore(received, 1) /\ UNCHANGED received
        BY <2>4, <3>2, BeforeTheSecond DEF SendRequest, UdpInv, Early
      <4>2. AllBefore(received, 1)'
        BY <4>1
      <4> QED BY <2>4, <3>2, <4>2 DEF SendRequest, UdpInv, Early, InOrder
    <3>3. CASE udpPc' = "wait" /\ UNCHANGED udpResult
      <4>1. CASE udpPc = "first"
        <5>1. /\ udpTime \in Nat /\ sentAt \in [{0, 1} -> Int]
              /\ sentAt[0] = -1 /\ sentAt[1] = -1 /\ AllBefore(received, 0)
          BY <4>1 DEF UdpInv, Early
        <5>2. sentAt' = [sentAt EXCEPT ![0] = udpTime] /\ UNCHANGED received
          BY <2>4, <3>3, <4>1 DEF SendRequest, UdpEnds
        <5>3. sentAt'[0] = udpTime /\ sentAt'[1] = -1
          BY <5>1, <5>2
        <5>4. Waiting' = 0
          BY <5>1, <5>3 DEF Waiting
        <5>5. AllBefore(received, Waiting)'
          BY <5>1, <5>2, <5>4 DEF AllBefore
        <5> QED BY <2>4, <3>3, <4>1, <5>1, <5>3, <5>4, <5>5
                DEF SendRequest, UdpInv, Early, InOrder
      <4>2. CASE udpPc = "second"
        <5>1. /\ udpTime \in Nat /\ sentAt \in [{0, 1} -> Int]
              /\ sentAt[0] <= udpTime /\ AllBefore(received, 1)
              /\ \A a \in {0, 1} : -1 <= sentAt[a] /\ sentAt[a] <= udpTime
              /\ \A a \in answers : sentAt[a.attempt] # -1
              /\ answers \subseteq [attempt : {0, 1}, right : BOOLEAN]
          BY <4>2 DEF UdpInv, Early
        <5>2. sentAt' = [sentAt EXCEPT ![1] = udpTime] /\ UNCHANGED received
          BY <2>4, <3>3, <4>2 DEF SendRequest, UdpEnds
        <5>3. sentAt'[1] = udpTime /\ sentAt'[0] = sentAt[0] /\ sentAt' \in [{0, 1} -> Int]
          BY <5>1, <5>2
        <5>4. sentAt'[1] # -1
          BY <5>1, <5>3
        <5>5. Waiting' = 1
          BY <5>4 DEF Waiting
        <5>6. AllBefore(received, Waiting)'
          BY <5>1, <5>2, <5>5 DEF AllBefore
        <5>7. /\ UNCHANGED <<udpTime, answers, received, udpResult>> /\ udpPc' = "wait"
          BY <2>4, <3>3 DEF SendRequest
        <5>8. \A a \in answers : sentAt'[a.attempt] # -1
          BY <5>1, <5>3, <5>4
        <5>9. /\ \A a \in {0, 1} : -1 <= sentAt'[a] /\ sentAt'[a] <= udpTime
              /\ sentAt'[0] <= sentAt'[1]
          BY <5>1, <5>3
        <5> QED BY <5>1, <5>3, <5>4, <5>5, <5>6, <5>7, <5>8, <5>9, <4>2
                DEF UdpInv, Early, InOrder
      <4> QED BY <2>4, <4>1, <4>2 DEF SendRequest
    <3> QED BY <2>4, <3>1, <3>2, <3>3 DEF SendRequest
  <2>5. CASE ReceiveFails
    <3>1. CASE UdpEnds("error", 0)
      BY <2>2, <2>5, <3>1 DEF ReceiveFails
    <3>2. CASE Waiting = 0 /\ udpPc' = "second" /\ UNCHANGED udpResult
      <4>1. sentAt[1] = -1
        BY <3>2 DEF Waiting
      <4>2. AllBefore(received, 1) /\ UNCHANGED received
        BY <2>5, <3>2, BeforeTheSecond DEF ReceiveFails, UdpInv
      <4>3. AllBefore(received, 1)'
        BY <4>2
      <4> QED BY <2>5, <3>2, <4>1, <4>3 DEF ReceiveFails, UdpInv, Early, InOrder
    <3> QED BY <2>5, <3>1, <3>2 DEF ReceiveFails
  <2>6. CASE DeadlinePasses
    BY <2>2, <2>6 DEF DeadlinePasses
  <2>7. CASE TimePasses
    BY <2>7 DEF TimePasses, UdpInv, Early, Waiting, InOrder, AllBefore
  <2>8. ASSUME NEW a \in {0, 1}, NEW r \in UdpResponses, RelayAnswers(a, r) PROVE UdpInv'
    <3>1. Verified(r.kind, r) \in BOOLEAN
      BY AnswersAreTrueOrFalse
    <3>2. answers' = answers \cup {[attempt |-> a, right |-> Verified(r.kind, r)]}
          /\ udpPc # "done" /\ UNCHANGED <<udpPc, udpTime, sentAt, received, udpResult>>
      BY <2>8 DEF RelayAnswers
    <3> QED BY <3>1, <3>2 DEF UdpInv, Waiting, InOrder, AllBefore
  <2> QED BY <2>1, <2>3, <2>4, <2>5, <2>6, <2>7, <2>8, ReadStep DEF UdpNext
<1>3. UdpInv => TimesAreOfRightAnswers
  <2> SUFFICES ASSUME UdpInv, udpPc # "done" PROVE TimesAreOfRightAnswers
    BY DEF UdpInv
  <2> QED BY DEF UdpInv, TimesAreOfRightAnswers, InOrder
<1> QED BY <1>1, <1>2, <1>3, PTL DEF UdpSpec
-----------------------------------------------------------------------------
(* The outbound of a profile.                                               *)

\* The empty word is none of those of protocols and modes.
LEMMA UnsetIsNoWord ==
    /\ Unset # "tls" /\ Unset # "reality" /\ Unset # "obfs-local" /\ Unset # "v2ray-plugin"
    /\ Unset # "chain"
BY Zenon DEF Unset

\* What an outbound promises about the profile it was built of, apart from what
\* stands before it and what it is bound to.
Fits(o, p, s) ==
    /\ o.tls.insecure => s.insecure /\ ~p.tls.pem /\ p.tls.mode = "tls"
    /\ (p.tls.pem /\ ((o.tls.on /\ ~o.tls.reality) \/ o.plugin.tls)) =>
          o.tls.pinned \/ o.plugin.pinned
    /\ p.tls.mode = "tls" =>
          Is(p, {"socks", "wireguard"}) \/ o.tls.on \/ o.plugin.tls \/ o.plugin.name = "obfs-local"
    /\ ~(o.mux /\ (p.flow # Unset /\ o.type = "vless"))
    /\ o.plugin.name # Unset => o.transport.kind = Unset /\ ~o.tls.on
    /\ (o.ports = "hops") = (o.interval >= 5)
    /\ Len(o.transport.hosts) > 1 => o.transport.kind = "http"

LEMMA TlsFits ==
    ASSUME NEW p \in OutboundProfiles, NEW s \in CoreSettings, NEW t, t = Tls(p, s)
    PROVE  /\ t.insecure => s.insecure /\ ~p.tls.pem /\ p.tls.mode = "tls"
           /\ p.tls.pem /\ t.on /\ ~t.reality => t.pinned
           /\ t.on <=> p.tls.mode # Unset /\ ~Is(p, {"ss", "socks", "wireguard"})
<1>1. /\ p.tls.mode \in {Unset, "tls", "reality"} /\ p.tls.pem \in BOOLEAN
      /\ s.insecure \in BOOLEAN
  BY OutboundBounds
<1>2. CASE p.tls.mode = Unset \/ Is(p, {"ss", "socks", "wireguard"})
  <2>1. t = NoTls
    BY <1>2 DEF Tls
  <2>2. ~t.insecure /\ ~t.on
    BY <2>1 DEF NoTls
  <2> QED BY <1>2, <2>2
<1>3. CASE ~(p.tls.mode = Unset \/ Is(p, {"ss", "socks", "wireguard"}))
  <2>1. /\ t.on
        /\ t.insecure <=> s.insecure /\ ~(p.tls.mode = "tls" /\ p.tls.pem) /\ ~(p.tls.mode = "reality")
        /\ t.pinned <=> p.tls.mode = "tls" /\ p.tls.pem
        /\ t.reality <=> p.tls.mode = "reality"
    BY <1>1, <1>3 DEF Tls
  <2> QED BY <1>1, <1>3, <2>1
<1> QED BY <1>2, <1>3

LEMMA PluginFits ==
    ASSUME NEW p \in OutboundProfiles, NEW g, g = Plugin(p)
    PROVE  /\ g.name # Unset => p.type = "ss"
           /\ g.tls => p.tls.mode = "tls" /\ (p.tls.pem => g.pinned)
           /\ p.type = "ss" /\ p.tls.mode = "tls" => g.tls \/ g.name = "obfs-local"
<1>1. p.tls.mode \in {Unset, "tls", "reality"} /\ p.tls.pem \in BOOLEAN
  BY OutboundBounds
<1>2. NoPlugin.name = Unset /\ ~NoPlugin.tls
  BY DEF NoPlugin
<1>3. CASE p.type # "ss"
  <2>1. g = NoPlugin
    BY <1>3 DEF Plugin
  <2> QED BY <1>2, <1>3, <2>1
<1>4. CASE p.type = "ss" /\ p.transport.kind = "raw" /\ p.transport.http
  <2>1. PICK host : host = FirstOf(p.transport.host)
    OBVIOUS
  <2>2. g = [NoPlugin EXCEPT !.name = "obfs-local", !.host = host]
    BY <1>4, <2>1 DEF Plugin
  <2>3. g.name = "obfs-local" /\ ~g.tls
    BY <2>2 DEF NoPlugin
  <2> QED BY <1>4, <2>3
<1>5. CASE p.type = "ss" /\ ~(p.transport.kind = "raw" /\ p.transport.http)
           /\ (p.transport.kind = "ws" \/ p.tls.mode = "tls")
  <2>1. /\ g.tls <=> p.tls.mode = "tls"
        /\ g.pinned <=> p.tls.mode = "tls" /\ p.tls.pem
    BY <1>1, <1>5 DEF Plugin
  <2> QED BY <1>1, <1>5, <2>1
<1>6. CASE p.type = "ss" /\ ~(p.transport.kind = "raw" /\ p.transport.http)
           /\ ~(p.transport.kind = "ws" \/ p.tls.mode = "tls")
  <2>1. g = NoPlugin
    BY <1>6 DEF Plugin
  <2> QED BY <1>2, <1>6, <2>1
<1> QED BY <1>3, <1>4, <1>5, <1>6

LEMMA TransportFits ==
    ASSUME NEW p \in OutboundProfiles, NEW s, NEW t, t = Transport(p, s)
    PROVE  /\ p.type = "ss" => t.kind = Unset
           /\ Len(t.hosts) > 1 => t.kind = "http"
<1> DEFINE ws == WebsocketTransport(p.transport, s)
<1>1. NoTransport.kind = Unset /\ Len(NoTransport.hosts) = 0
  BY DEF NoTransport
<1>2. Len(ws.hosts) \in {0, 1}
  <2>1. PICK h : h = Head(p.transport.host)
    OBVIOUS
  <2>2. Len(<<>>) = 0 /\ Len(<<h>>) = 1
    OBVIOUS
  <2> QED BY <2>1, <2>2 DEF WebsocketTransport
<1>3. HttpUpgradeTransport(p.transport, s).hosts = ws.hosts
  BY DEF HttpUpgradeTransport, WebsocketTransport
<1>4. GrpcTransport.hosts = NoTransport.hosts
  BY DEF GrpcTransport, NoTransport
<1>5. HttpTransport(p.transport, s).kind = "http"
  BY DEF HttpTransport
<1> HIDE DEF ws
<1>6. CASE ~Is(p, {"vmess", "vless", "trojan"})
  <2>1. t = NoTransport
    BY <1>6 DEF Transport
  <2> QED BY <1>1, <2>1
<1>7. CASE Is(p, {"vmess", "vless", "trojan"})
  <2>1. p.type # "ss"
    BY <1>7 DEF Is
  <2>2. \/ t = HttpTransport(p.transport, s) \/ t = ws
        \/ t = HttpUpgradeTransport(p.transport, s) \/ t = GrpcTransport
        \/ t = NoTransport
    BY <1>7 DEF Transport, ws
  <2>3. t.kind = "http" \/ Len(t.hosts) \in {0, 1}
    <3>1. CASE t = HttpTransport(p.transport, s)
      BY <1>5, <3>1
    <3>2. CASE t = ws
      BY <1>2, <3>2
    <3>3. CASE t = HttpUpgradeTransport(p.transport, s)
      BY <1>2, <1>3, <3>3
    <3>4. CASE t = GrpcTransport
      <4>1. t.hosts = NoTransport.hosts
        BY <1>4, <3>4
      <4> QED BY <1>1, <4>1
    <3>5. CASE t = NoTransport
      BY <1>1, <3>5
    <3> QED BY <2>2, <3>1, <3>2, <3>3, <3>4, <3>5
  <2>4. Len(t.hosts) > 1 => t.kind = "http"
    <3>1. PICK n : n = Len(t.hosts)
      OBVIOUS
    <3>2. n \in {0, 1} => ~(n > 1)
      OBVIOUS
    <3> QED BY <2>3, <3>1, <3>2
  <2> QED BY <2>1, <2>4
<1> QED BY <1>6, <1>7

\* The fields of an outbound, and what was built.
OutboundShape(o) ==
    o = [type |-> o.type, server |-> o.server, ports |-> o.ports, login |-> o.login,
         mux |-> o.mux, transport |-> o.transport, plugin |-> o.plugin, tls |-> o.tls,
         reserved |-> o.reserved, udp |-> o.udp, rate |-> o.rate, interval |-> o.interval,
         obfs |-> o.obfs, quic |-> o.quic, detour |-> o.detour, bound |-> o.bound,
         through |-> o.through]

LEMMA BuiltFits ==
    ASSUME NEW p \in OutboundProfiles, NEW s \in CoreSettings, NEW o, o = BuiltOutbound(p, s),
           o # NoOutbound
    PROVE  OutboundShape(o) /\ Fits(o, p, s) /\ ~o.bound /\ ~o.through
<1>0. s.hop \in Nat /\ p.tls.mode \in {Unset, "tls", "reality"}
  BY OutboundBounds
<1>1. CASE p.type = "wireguard"
  <2>1. PICK login, server, reserved :
           login = Login(p) /\ server = p.server /\ reserved = (p.reserved = "three")
    OBVIOUS
  <2>2. o = [type |-> "wireguard", server |-> server, ports |-> "one", login |-> login,
             mux |-> FALSE, transport |-> NoTransport, plugin |-> NoPlugin, tls |-> NoTls,
             reserved |-> reserved, udp |-> FALSE, rate |-> FALSE, interval |-> 0,
             obfs |-> FALSE, quic |-> FALSE, detour |-> Unset, bound |-> FALSE,
             through |-> FALSE]
    BY <1>1, <2>1 DEF BuiltOutbound, WireguardEndpoint
  <2>3. OutboundShape(o)
    BY ONLY <2>2 DEF OutboundShape
  <2>4. /\ o.type = "wireguard" /\ o.ports = "one" /\ ~o.mux /\ o.transport = NoTransport
        /\ o.plugin = NoPlugin /\ o.tls = NoTls /\ o.interval = 0 /\ ~o.bound /\ ~o.through
    BY ONLY <2>2
  <2>5. /\ ~NoTls.insecure /\ ~NoTls.on /\ ~NoPlugin.tls /\ NoPlugin.name = Unset
        /\ Len(NoTransport.hosts) = 0
    BY DEF NoTls, NoPlugin, NoTransport
  <2>6. Is(p, {"socks", "wireguard"})
    BY <1>1 DEF Is
  <2>7. Fits(o, p, s)
    BY <2>4, <2>5, <2>6 DEF Fits
  <2> QED BY <2>3, <2>4, <2>7
<1>2. CASE p.type # "wireguard"
  <2>1. PICK type, server, ports, login, mux, transport, plugin, tls :
           /\ type = p.type /\ server = p.server /\ ports = (IF Hops(p) THEN "hops" ELSE "one")
           /\ login = Login(p) /\ mux = Multiplexed(p, s) /\ transport = Transport(p, s)
           /\ plugin = Plugin(p) /\ tls = Tls(p, s)
    OBVIOUS
  <2>2. PICK udp, rate, interval, obfs, quic :
           /\ udp = (Is(p, {"ss", "naive"}) /\ p.uot)
           /\ rate = (p.type = "hysteria2" /\ s.up > 0)
           /\ interval = HopInterval(p, s) /\ obfs = Obfuscated(p)
           /\ quic = (p.type = "naive" /\ p.quic)
    OBVIOUS
  <2>3. o = [type |-> type, server |-> server, ports |-> ports, login |-> login,
             mux |-> mux, transport |-> transport, plugin |-> plugin, tls |-> tls,
             reserved |-> FALSE, udp |-> udp, rate |-> rate, interval |-> interval,
             obfs |-> obfs, quic |-> quic, detour |-> Unset, bound |-> FALSE,
             through |-> FALSE]
    BY <1>2, <2>1, <2>2 DEF BuiltOutbound
  <2>4. OutboundShape(o)
    BY ONLY <2>3 DEF OutboundShape
  <2>5. /\ o.type = type /\ o.ports = ports /\ o.mux = mux /\ o.transport = transport
        /\ o.plugin = plugin /\ o.tls = tls /\ o.interval = interval
        /\ ~o.bound /\ ~o.through
    BY ONLY <2>3
  <2>6. (ports = "hops") = (interval >= 5)
    BY <1>0, <2>1, <2>2 DEF HopInterval
  <2>7. mux => ~(p.flow # Unset /\ type = "vless")
    BY <2>1 DEF Multiplexed, Is
  <2>8. /\ tls.insecure => s.insecure /\ ~p.tls.pem /\ p.tls.mode = "tls"
        /\ p.tls.pem /\ tls.on /\ ~tls.reality => tls.pinned
        /\ tls.on <=> p.tls.mode # Unset /\ ~Is(p, {"ss", "socks", "wireguard"})
    BY <2>1, TlsFits
  <2>9. /\ plugin.name # Unset => p.type = "ss"
        /\ plugin.tls => p.tls.mode = "tls" /\ (p.tls.pem => plugin.pinned)
        /\ p.type = "ss" /\ p.tls.mode = "tls" => plugin.tls \/ plugin.name = "obfs-local"
    BY <2>1, PluginFits
  <2>10. /\ p.type = "ss" => transport.kind = Unset
         /\ Len(transport.hosts) > 1 => transport.kind = "http"
    BY <2>1, TransportFits
  <2>11. /\ Is(p, {"ss", "socks", "wireguard"}) <=> p.type = "ss" \/ Is(p, {"socks", "wireguard"})
    BY DEF Is
  <2>12. Fits(o, p, s)
    BY <2>5, <2>6, <2>7, <2>8, <2>9, <2>10, <2>11, UnsetIsNoWord DEF Fits
  <2> QED BY <2>4, <2>5, <2>12
<1> QED BY <1>1, <1>2

\* An outbound that is there has its fields, fits the profile it was built of,
\* and is not tied to an interface when it is behind another or on this machine.
FitsAndIsFree(o, p, s) ==
    /\ OutboundShape(o)
    /\ Fits(o, p, s)
    /\ o.bound \/ o.through => o.detour = Unset /\ o.server # "localhost"

OutInv ==
    /\ profileBuilt \in OutboundProfiles
    /\ coreSettings \in CoreSettings
    /\ outbound # NoOutbound => FitsAndIsFree(outbound, profileBuilt, coreSettings)

LEMMA DetourKeeps ==
    ASSUME NEW o, NEW p, NEW s, NEW q, OutboundShape(o), Fits(o, p, s), ~o.bound, ~o.through,
           q = [o EXCEPT !.detour = "chain"]
    PROVE  FitsAndIsFree(q, p, s)
<1>1. PICK type, server, ports, login, mux, transport, plugin, tls, reserved, udp, rate,
           interval, obfs, quic, detour, bound, through :
           o = [type |-> type, server |-> server, ports |-> ports, login |-> login,
                mux |-> mux, transport |-> transport, plugin |-> plugin, tls |-> tls,
                reserved |-> reserved, udp |-> udp, rate |-> rate, interval |-> interval,
                obfs |-> obfs, quic |-> quic, detour |-> detour, bound |-> bound,
                through |-> through]
  BY DEF OutboundShape
<1>2. q = [type |-> type, server |-> server, ports |-> ports, login |-> login,
           mux |-> mux, transport |-> transport, plugin |-> plugin, tls |-> tls,
           reserved |-> reserved, udp |-> udp, rate |-> rate, interval |-> interval,
           obfs |-> obfs, quic |-> quic, detour |-> "chain", bound |-> bound,
           through |-> through]
  BY ONLY <1>1, q = [o EXCEPT !.detour = "chain"]
<1>3. OutboundShape(q)
  BY ONLY <1>2 DEF OutboundShape
<1>4. /\ q.tls = o.tls /\ q.plugin = o.plugin /\ q.mux = o.mux /\ q.type = o.type
      /\ q.transport = o.transport /\ q.ports = o.ports /\ q.interval = o.interval
      /\ q.bound = o.bound /\ q.through = o.through
  BY ONLY <1>1, <1>2
<1>5. Fits(q, p, s)
  BY <1>4 DEF Fits
<1> QED BY <1>3, <1>4, <1>5 DEF FitsAndIsFree

LEMMA BindKeeps ==
    ASSUME NEW o, NEW p, NEW s, NEW q, NEW b, NEW t, OutboundShape(o), Fits(o, p, s),
           q = [o EXCEPT !.bound = b, !.through = t],
           b \/ t => ShouldBind(o)
    PROVE  FitsAndIsFree(q, p, s)
<1>1. PICK type, server, ports, login, mux, transport, plugin, tls, reserved, udp, rate,
           interval, obfs, quic, detour, bound, through :
           o = [type |-> type, server |-> server, ports |-> ports, login |-> login,
                mux |-> mux, transport |-> transport, plugin |-> plugin, tls |-> tls,
                reserved |-> reserved, udp |-> udp, rate |-> rate, interval |-> interval,
                obfs |-> obfs, quic |-> quic, detour |-> detour, bound |-> bound,
                through |-> through]
  BY DEF OutboundShape
<1>2. q = [type |-> type, server |-> server, ports |-> ports, login |-> login,
           mux |-> mux, transport |-> transport, plugin |-> plugin, tls |-> tls,
           reserved |-> reserved, udp |-> udp, rate |-> rate, interval |-> interval,
           obfs |-> obfs, quic |-> quic, detour |-> detour, bound |-> b,
           through |-> t]
  BY ONLY <1>1, q = [o EXCEPT !.bound = b, !.through = t]
<1>3. OutboundShape(q)
  BY ONLY <1>2 DEF OutboundShape
<1>4. /\ q.tls = o.tls /\ q.plugin = o.plugin /\ q.mux = o.mux /\ q.type = o.type
      /\ q.transport = o.transport /\ q.ports = o.ports /\ q.interval = o.interval
      /\ q.detour = o.detour /\ q.server = o.server
      /\ q.bound = b /\ q.through = t
  BY ONLY <1>1, <1>2
<1>5. Fits(q, p, s)
  BY <1>4 DEF Fits
<1>6. b \/ t => o.detour = Unset /\ o.server # "localhost"
  BY DEF ShouldBind
<1> QED BY <1>3, <1>4, <1>5, <1>6 DEF FitsAndIsFree

LEMMA OutInvInit == OutboundInit => OutInv
BY DEF OutboundInit, OutInv

LEMMA OutInvNext == OutInv /\ [OutboundNext]_outboundVars => OutInv'
<1> SUFFICES ASSUME OutInv, [OutboundNext]_outboundVars PROVE OutInv'
  OBVIOUS
<1>0. /\ profileBuilt \in OutboundProfiles /\ coreSettings \in CoreSettings
      /\ outbound # NoOutbound => FitsAndIsFree(outbound, profileBuilt, coreSettings)
  BY DEF OutInv
<1>1. CASE Build
  <2>1. /\ outbound' = BuiltOutbound(profileBuilt, coreSettings) /\ outbound' # NoOutbound
        /\ profileBuilt' = profileBuilt /\ coreSettings' = coreSettings
    BY <1>1 DEF Build
  <2>2. PICK o : o = outbound'
    OBVIOUS
  <2>3. OutboundShape(o) /\ Fits(o, profileBuilt, coreSettings) /\ ~o.bound /\ ~o.through
    BY ONLY <1>0, <2>1, <2>2, BuiltFits
  <2>4. FitsAndIsFree(o, profileBuilt, coreSettings)
    BY <2>3 DEF FitsAndIsFree
  <2> QED BY <1>0, <2>1, <2>2, <2>4 DEF OutInv
<1>2. CASE Detour
  <2>1. /\ outbound # NoOutbound /\ ~outbound.bound /\ ~outbound.through
        /\ outbound' = [outbound EXCEPT !.detour = "chain"]
        /\ profileBuilt' = profileBuilt /\ coreSettings' = coreSettings
    BY <1>2 DEF Detour
  <2>2. OutboundShape(outbound) /\ Fits(outbound, profileBuilt, coreSettings)
    BY <1>0, <2>1 DEF FitsAndIsFree
  <2>3. PICK q : q = outbound'
    OBVIOUS
  <2>4. FitsAndIsFree(q, profileBuilt, coreSettings)
    BY <2>1, <2>2, <2>3, DetourKeeps
  <2> QED BY <1>0, <2>1, <2>3, <2>4 DEF OutInv
<1>3. CASE Bind
  <2>1. PICK b, t :
           /\ b = (coreSettings.bind /\ (coreSettings.tun \/ coreSettings.windows)
                   /\ ShouldBind(outbound))
           /\ t = (coreSettings.through /\ ShouldBind(outbound))
    OBVIOUS
  <2>2. /\ outbound # NoOutbound
        /\ outbound' = [outbound EXCEPT !.bound = b, !.through = t]
        /\ profileBuilt' = profileBuilt /\ coreSettings' = coreSettings
    BY <1>3, <2>1 DEF Bind
  <2>3. OutboundShape(outbound) /\ Fits(outbound, profileBuilt, coreSettings)
    BY <1>0, <2>2 DEF FitsAndIsFree
  <2>4. b \/ t => ShouldBind(outbound)
    BY <2>1
  <2>5. PICK q : q = outbound'
    OBVIOUS
  <2>6. FitsAndIsFree(q, profileBuilt, coreSettings)
    BY <2>2, <2>3, <2>4, <2>5, BindKeeps
  <2> QED BY <1>0, <2>2, <2>5, <2>6 DEF OutInv
<1>4. CASE UNCHANGED outboundVars
  BY <1>4 DEF OutInv, outboundVars
<1> QED BY <1>1, <1>2, <1>3, <1>4 DEF OutboundNext

\* What is written for one profile verifies its server, keeps its TLS and holds
\* only parts that go together, for every profile and every setting
\* (build_outbound, set_detour, apply_outbound_bind_interface).
THEOREM OutboundHolds == OutboundSpec => []OutboundFitsItsProfile
<1>1. OutInv => OutboundFitsItsProfile
  BY DEF OutInv, FitsAndIsFree, Fits, OutboundFitsItsProfile, ServersAreVerified,
         TlsIsNotLost, PartsFitTogether
<1> QED BY OutInvInit, OutInvNext, <1>1, PTL DEF OutboundSpec

-----------------------------------------------------------------------------
(* Where traffic goes: lists of rules.                                      *)

\* A list of some elements.
IsList(list) == \E S : list \in Seq(S)

LEMMA ListFacts ==
    ASSUME NEW list, IsList(list)
    PROVE  Len(list) \in Nat /\ DOMAIN list = 1 .. Len(list)
BY LenProperties DEF IsList

LEMMA Joined ==
    ASSUME NEW a, NEW b, IsList(a), IsList(b)
    PROVE  /\ IsList(a \o b)
           /\ Len(a \o b) = Len(a) + Len(b)
           /\ \A i \in 1 .. Len(a) : (a \o b)[i] = a[i]
           /\ \A i \in 1 .. Len(b) : (a \o b)[Len(a) + i] = b[i]
<1>1. PICK A : a \in Seq(A)
  BY DEF IsList
<1>2. PICK B : b \in Seq(B)
  BY DEF IsList
<1> DEFINE S == A \cup B
<1>3. a \in Seq(S) /\ b \in Seq(S)
  BY <1>1, <1>2, SeqMonotonic
<1> HIDE DEF S
<1>4. /\ a \o b \in Seq(S)
      /\ Len(a \o b) = Len(a) + Len(b)
      /\ \A i \in 1 .. Len(a) + Len(b) :
            (a \o b)[i] = IF i <= Len(a) THEN a[i] ELSE b[i - Len(a)]
  BY <1>3, ConcatProperties
<1>5. Len(a) \in Nat /\ Len(b) \in Nat
  BY ListFacts
<1>6. \A i \in 1 .. Len(a) : i \in 1 .. Len(a) + Len(b) /\ i <= Len(a)
  BY <1>5
<1>7. \A i \in 1 .. Len(b) : /\ Len(a) + i \in 1 .. Len(a) + Len(b) /\ ~(Len(a) + i <= Len(a))
                             /\ Len(a) + i - Len(a) = i
  BY <1>5
<1> QED BY <1>4, <1>6, <1>7 DEF IsList

LEMMA EmptyIsList == IsList(<<>>) /\ Len(<<>>) = 0
BY EmptySeq DEF IsList

LEMMA OneIsList ==
    ASSUME NEW r
    PROVE  IsList(<<r>>) /\ Len(<<r>>) = 1 /\ <<r>>[1] = r
<1>1. <<r>> \in Seq({r})
  OBVIOUS
<1> QED BY <1>1 DEF IsList

-----------------------------------------------------------------------------
(* Rules that are passed one after the other.                               *)

Run(f, n, rules, start, flow, mode) ==
    f = [i \in 0 .. n |-> IF i = 0 THEN start ELSE Passes(f[i - 1], rules[i], flow, mode)]

LEMMA RunExists ==
    ASSUME NEW rules, NEW start, NEW flow, NEW mode, NEW n \in Nat
    PROVE  \E f : Run(f, n, rules, start, flow, mode)
<1> DEFINE Bad == {m \in Nat : ~\E f : Run(f, m, rules, start, flow, mode)}
<1> SUFFICES ASSUME Bad # {} PROVE FALSE
  OBVIOUS
<1>1. PICK m \in Bad : \A j \in Bad : m <= j
  BY LeastNumber
<1>2. CASE m = 0
  <2> DEFINE g == [i \in 0 .. 0 |-> start]
  <2>1. Run(g, 0, rules, start, flow, mode)
    BY DEF Run
  <2> QED BY <1>1, <1>2, <2>1
<1>3. CASE m # 0
  <2>1. m - 1 \in Nat /\ m \in Nat /\ ~(m <= m - 1)
    BY <1>1, <1>3
  <2>2. PICK f : Run(f, m - 1, rules, start, flow, mode)
    BY <1>1, <2>1
  <2>3. PICK x : x = Passes(f[m - 1], rules[m], flow, mode)
    OBVIOUS
  <2> DEFINE g == [i \in 0 .. m |-> IF i = m THEN x ELSE f[i]]
  <2>4. /\ \A i \in 0 .. m : i # m => i \in 0 .. m - 1
        /\ \A i \in 0 .. m : i # 0 => i - 1 \in 0 .. m - 1 /\ i - 1 # m /\ i - 1 \in 0 .. m
    BY <2>1
  <2>5. \A i \in 0 .. m - 1 :
           f[i] = IF i = 0 THEN start ELSE Passes(f[i - 1], rules[i], flow, mode)
    BY <2>2 DEF Run
  <2>6. \A i \in 0 .. m :
           g[i] = IF i = 0 THEN start ELSE Passes(g[i - 1], rules[i], flow, mode)
    <3> SUFFICES ASSUME NEW i \in 0 .. m
                 PROVE  g[i] = IF i = 0 THEN start ELSE Passes(g[i - 1], rules[i], flow, mode)
      OBVIOUS
    <3>1. i # 0 => g[i - 1] = f[i - 1]
      BY <2>4
    <3>2. CASE i = m
      BY <1>3, <2>3, <3>1, <3>2
    <3>3. CASE i # m
      <4>1. g[i] = f[i] /\ i \in 0 .. m - 1
        BY <2>4, <3>3
      <4> HIDE DEF g
      <4> QED BY <2>5, <3>1, <4>1
    <3> QED BY <3>2, <3>3
  <2>7. g = [i \in 0 .. m |-> g[i]]
    OBVIOUS
  <2> HIDE DEF g
  <2>8. Run(g, m, rules, start, flow, mode)
    BY <2>6, <2>7 DEF Run
  <2> QED BY <1>1, <2>8
<1> QED BY <1>2, <1>3

\* What two runs have at the same place is the same, as far as the rules are.
LEMMA RunsAgree ==
    ASSUME NEW a, NEW b, NEW start, NEW flow, NEW mode, NEW k \in Nat, NEW n \in Nat, NEW f, NEW g,
           Run(f, k, a, start, flow, mode), Run(g, n, b, start, flow, mode),
           k <= n, \A i \in 1 .. k : a[i] = b[i]
    PROVE  f[k] = g[k]
<1> DEFINE Bad == {m \in 0 .. k : f[m] # g[m]}
<1> SUFFICES ASSUME Bad # {} PROVE FALSE
  OBVIOUS
<1>1. Bad \in SUBSET Nat
  OBVIOUS
<1>2. PICK m \in Bad : \A j \in Bad : m <= j
  BY <1>1, LeastNumber
<1>3. /\ \A i \in 0 .. k : f[i] = IF i = 0 THEN start ELSE Passes(f[i - 1], a[i], flow, mode)
      /\ \A i \in 0 .. n : g[i] = IF i = 0 THEN start ELSE Passes(g[i - 1], b[i], flow, mode)
  BY DEF Run
<1>4. m \in 0 .. k /\ m \in 0 .. n /\ m \in Nat
  BY <1>2
<1>5. m # 0
  BY <1>2, <1>3, <1>4
<1>6. m \in 1 .. k /\ m - 1 \in 0 .. k /\ ~(m <= m - 1)
  BY <1>4, <1>5
<1>7. f[m - 1] = g[m - 1]
  BY <1>2, <1>6
<1>8. a[m] = b[m]
  BY <1>6
<1> QED BY <1>2, <1>3, <1>4, <1>5, <1>7, <1>8

LEMMA PassedIsRun ==
    ASSUME NEW rules, IsList(rules), NEW start, NEW flow, NEW mode,
           NEW f, Run(f, Len(rules), rules, start, flow, mode)
    PROVE  Passed(rules, start, flow, mode) = f[Len(rules)]
<1> DEFINE g == CHOOSE g : Run(g, Len(rules), rules, start, flow, mode)
<1>1. Len(rules) \in Nat /\ Len(rules) <= Len(rules)
  BY ListFacts
<1>2. Run(g, Len(rules), rules, start, flow, mode)
  BY <1>1, RunExists
<1>3. Passed(rules, start, flow, mode) = g[Len(rules)]
  BY DEF Passed, Run
<1> HIDE DEF g
<1>4. f[Len(rules)] = g[Len(rules)]
  <2>1. PICK n \in Nat : n = Len(rules)
    BY <1>1
  <2>2. Run(f, n, rules, start, flow, mode) /\ Run(g, n, rules, start, flow, mode) /\ n <= n
    BY <1>2, <2>1
  <2>3. f[n] = g[n]
    BY <2>2, RunsAgree
  <2> QED BY <2>1, <2>3
<1> QED BY <1>3, <1>4

LEMMA PassedNone ==
    ASSUME NEW start, NEW flow, NEW mode
    PROVE  Passed(<<>>, start, flow, mode) = start
<1> DEFINE g == [i \in 0 .. 0 |-> start]
<1>1. Run(g, 0, <<>>, start, flow, mode)
  BY DEF Run
<1>2. g[0] = start
  OBVIOUS
<1> HIDE DEF g
<1> QED BY <1>1, <1>2, EmptyIsList, PassedIsRun

LEMMA PassedOne ==
    ASSUME NEW r, NEW start, NEW flow, NEW mode
    PROVE  Passed(<<r>>, start, flow, mode) = Passes(start, r, flow, mode)
<1>1. PICK x : x = Passes(start, r, flow, mode)
  OBVIOUS
<1> DEFINE g == [i \in 0 .. 1 |-> IF i = 0 THEN start ELSE x]
<1>2. g = [i \in 0 .. 1 |-> g[i]] /\ g[0] = start /\ g[1] = x
  OBVIOUS
<1>3. <<r>>[1] = r /\ \A i \in 0 .. 1 : i # 0 => i = 1 /\ i - 1 = 0
  OBVIOUS
<1> HIDE DEF g
<1>4. \A i \in 0 .. 1 : g[i] = IF i = 0 THEN start ELSE Passes(g[i - 1], <<r>>[i], flow, mode)
  BY <1>1, <1>2, <1>3
<1>5. Run(g, 1, <<r>>, start, flow, mode)
  BY <1>2, <1>4 DEF Run
<1> QED BY <1>1, <1>2, <1>5, OneIsList, PassedIsRun

LEMMA PassedBoth ==
    ASSUME NEW a, NEW b, IsList(a), IsList(b), NEW start, NEW flow, NEW mode
    PROVE  Passed(a \o b, start, flow, mode)
              = Passed(b, Passed(a, start, flow, mode), flow, mode)
<1>1. PICK k, n \in Nat : k = Len(a) /\ n = Len(b)
  BY ListFacts
<1>2. PICK c : c = a \o b
  OBVIOUS
<1>3. /\ IsList(c) /\ Len(c) = k + n
      /\ \A i \in 1 .. k : c[i] = a[i]
      /\ \A i \in 1 .. n : c[k + i] = b[i]
  BY <1>1, <1>2, Joined
<1>4. PICK f : Run(f, k + n, c, start, flow, mode)
  BY RunExists
<1>5. \A i \in 0 .. k + n :
         f[i] = IF i = 0 THEN start ELSE Passes(f[i - 1], c[i], flow, mode)
  BY <1>4 DEF Run
<1>6. Passed(c, start, flow, mode) = f[k + n]
  BY <1>3, <1>4, PassedIsRun
<1>7. PICK g : Run(g, k, a, start, flow, mode)
  BY RunExists
<1>8. f[k] = g[k]
  BY <1>3, <1>4, <1>7, RunsAgree
<1>9. Passed(a, start, flow, mode) = f[k]
  BY <1>1, <1>7, <1>8, PassedIsRun
<1>10. PICK middle : middle = f[k]
  OBVIOUS
<1> DEFINE h == [i \in 0 .. n |-> f[k + i]]
<1>11. h = [i \in 0 .. n |-> h[i]] /\ h[0] = middle /\ h[n] = f[k + n]
  BY <1>10
<1>12. ASSUME NEW i \in 0 .. n, i # 0
       PROVE  h[i] = Passes(h[i - 1], b[i], flow, mode)
  <2>1. /\ i \in 1 .. n /\ k + i \in 0 .. k + n /\ k + i # 0 /\ k + i - 1 = k + (i - 1)
        /\ i - 1 \in 0 .. n
    BY <1>12
  <2>2. h[i] = f[k + i] /\ h[i - 1] = f[k + (i - 1)]
    BY <2>1
  <2> HIDE DEF h
  <2>3. f[k + i] = Passes(f[k + i - 1], c[k + i], flow, mode)
    BY <1>5, <2>1
  <2>4. c[k + i] = b[i]
    BY <1>3, <2>1
  <2> QED BY <2>1, <2>2, <2>3, <2>4
<1> HIDE DEF h
<1>13. Run(h, n, b, middle, flow, mode)
  BY <1>11, <1>12 DEF Run
<1>14. Passed(b, middle, flow, mode) = h[n]
  BY <1>1, <1>13, PassedIsRun
<1> QED BY <1>2, <1>6, <1>9, <1>10, <1>11, <1>14

\* Lists that are put together one after the other, up to the n-th.
Flattens(f, n, lists) == f = [i \in 1 .. n |-> IF i = 1 THEN lists[i] ELSE f[i - 1] \o lists[i]]

LEMMA FlattensExists ==
    ASSUME NEW lists, NEW n \in Nat
    PROVE  \E f : Flattens(f, n, lists)
<1> DEFINE Bad == {m \in Nat : ~\E f : Flattens(f, m, lists)}
<1> SUFFICES ASSUME Bad # {} PROVE FALSE
  OBVIOUS
<1>1. PICK m \in Bad : \A j \in Bad : m <= j
  BY LeastNumber
<1>2. CASE m = 0
  <2> DEFINE g == [i \in 1 .. 0 |-> lists]
  <2>1. Flattens(g, 0, lists)
    BY DEF Flattens
  <2> QED BY <1>1, <1>2, <2>1
<1>3. CASE m # 0
  <2>1. m - 1 \in Nat /\ m \in Nat /\ ~(m <= m - 1)
    BY <1>1, <1>3
  <2>2. PICK f : Flattens(f, m - 1, lists)
    BY <1>1, <2>1
  <2>3. PICK x : x = IF m = 1 THEN lists[m] ELSE f[m - 1] \o lists[m]
    OBVIOUS
  <2> DEFINE g == [i \in 1 .. m |-> IF i = m THEN x ELSE f[i]]
  <2>4. /\ \A i \in 1 .. m : i # m => i \in 1 .. m - 1
        /\ \A i \in 1 .. m : i # 1 => i - 1 \in 1 .. m - 1 /\ i - 1 # m /\ i - 1 \in 1 .. m
    BY <2>1
  <2>5. \A i \in 1 .. m - 1 : f[i] = IF i = 1 THEN lists[i] ELSE f[i - 1] \o lists[i]
    BY <2>2 DEF Flattens
  <2>6. \A i \in 1 .. m : g[i] = IF i = 1 THEN lists[i] ELSE g[i - 1] \o lists[i]
    <3> SUFFICES ASSUME NEW i \in 1 .. m
                 PROVE  g[i] = IF i = 1 THEN lists[i] ELSE g[i - 1] \o lists[i]
      OBVIOUS
    <3>1. i # 1 => g[i - 1] = f[i - 1]
      BY <2>4
    <3>2. CASE i = m
      BY <2>3, <3>1, <3>2
    <3>3. CASE i # m
      <4>1. g[i] = f[i] /\ i \in 1 .. m - 1
        BY <2>4, <3>3
      <4> HIDE DEF g
      <4> QED BY <2>5, <3>1, <4>1
    <3> QED BY <3>2, <3>3
  <2>7. g = [i \in 1 .. m |-> g[i]]
    OBVIOUS
  <2> HIDE DEF g
  <2>8. Flattens(g, m, lists)
    BY <2>6, <2>7 DEF Flattens
  <2> QED BY <1>1, <2>8
<1> QED BY <1>2, <1>3

\* FlattenSeq adds the lists to nothing, one after the other.
AllLists(lists) == IsList(lists) /\ \A i \in 1 .. Len(lists) : IsList(lists[i])
Steps(f, n, lists) ==
    /\ f[0] = <<>> /\ f[n] = FlattenSeq(lists)
    /\ \A i \in 1 .. n : f[i] = f[i - 1] \o lists[i]
    /\ \A i \in 0 .. n : IsList(f[i])

LEMMA FlattenSteps ==
    ASSUME NEW lists, AllLists(lists)
    PROVE  \E f : Steps(f, Len(lists), lists)
<1> SUFFICES ASSUME NEW n \in Nat, IsList(lists), Len(lists) = n,
                    \A i \in 1 .. n : IsList(lists[i])
             PROVE  \E f : Steps(f, n, lists)
  BY ListFacts DEF AllLists
<1> DEFINE g == CHOOSE g : Flattens(g, n, lists)
           f == [i \in 0 .. n |-> IF i = 0 THEN <<>> ELSE g[i]]
<1>1. Flattens(g, n, lists)
  BY FlattensExists
<1>2. n # 0 => FlattenSeq(lists) = g[n]
  BY DEF FlattenSeq, Flattens
<1>3. n = 0 => FlattenSeq(lists) = <<>>
  <2>1. n = 0 => FlattenSeq(lists) = lists
    BY DEF FlattenSeq
  <2>2. n = 0 => lists = <<>>
    BY EmptySeq DEF IsList
  <2> QED BY <2>1, <2>2
<1> HIDE DEF g
<1>4. f[0] = <<>> /\ f[n] = FlattenSeq(lists)
  BY <1>2, <1>3
<1>5. \A i \in 1 .. n : g[i] = IF i = 1 THEN lists[i] ELSE g[i - 1] \o lists[i]
  BY <1>1 DEF Flattens
<1>6. ASSUME NEW i \in 1 .. n PROVE f[i] = f[i - 1] \o lists[i]
  <2>1. /\ f[i] = g[i] /\ i \in 0 .. n /\ i - 1 \in 0 .. n
        /\ f[i - 1] = IF i - 1 = 0 THEN <<>> ELSE g[i - 1]
    OBVIOUS
  <2> HIDE DEF f
  <2>2. <<>> \o lists[i] = lists[i]
    <3>1. PICK x : x = lists[i]
      OBVIOUS
    <3>2. PICK S : x \in Seq(S)
      BY <3>1 DEF IsList
    <3> QED BY <3>1, <3>2, ConcatEmptySeq
  <2>3. CASE i = 1
    BY <1>5, <2>1, <2>2, <2>3
  <2>4. CASE i # 1
    <3>1. f[i - 1] = g[i - 1]
      BY <2>1, <2>4
    <3> QED BY <1>5, <2>1, <2>4, <3>1
  <2> QED BY <2>3, <2>4
<1> HIDE DEF f
<1>7. ASSUME NEW k \in 0 .. n PROVE IsList(f[k])
  <2> DEFINE Bad == {m \in 0 .. n : ~IsList(f[m])}
  <2> SUFFICES ASSUME Bad # {} PROVE FALSE
    OBVIOUS
  <2>1. Bad \in SUBSET Nat
    OBVIOUS
  <2>2. PICK m \in Bad : \A j \in Bad : m <= j
    BY <2>1, LeastNumber
  <2>3. m # 0
    BY <1>4, <2>2, EmptyIsList
  <2>4. m \in 1 .. n /\ m - 1 \in 0 .. n /\ m \in Nat /\ ~(m <= m - 1)
    BY <2>2, <2>3
  <2>5. IsList(f[m - 1]) /\ IsList(lists[m])
    BY <2>2, <2>4
  <2>6. PICK a, b : a = f[m - 1] /\ b = lists[m]
    OBVIOUS
  <2>7. IsList(a \o b)
    BY <2>5, <2>6, Joined
  <2>8. f[m] = a \o b
    BY <1>6, <2>4, <2>6
  <2> QED BY <2>2, <2>7, <2>8
<1>8. Steps(f, n, lists)
  BY <1>4, <1>6, <1>7 DEF Steps
<1> QED BY <1>8

-----------------------------------------------------------------------------
(* What a rule does to a connection.                                        *)

LEMMA NoWordIsNone ==
    /\ NoWord # "reject" /\ NoWord # "sniff" /\ NoWord # "resolve" /\ NoWord # "hijack-dns"
    /\ NoWord # "Rule" /\ NoWord # "Global" /\ NoWord # "Direct" /\ NoWord # "53"
    /\ NoWord # "mdns" /\ NoWord # "icmp"
BY Zenon DEF NoWord

At(verdict, resolved) == [verdict |-> verdict, resolved |-> resolved]

\* A rule by its fields, and the connections that match them.
Full(out, action, mode, port, domain, ip, except, process) ==
    [out |-> out, action |-> action, mode |-> mode, port |-> port, domain |-> domain,
     ip |-> ip, except |-> except, process |-> process]
Hits(port, domain, ip, except, process, flow, resolved) ==
    /\ port \in {NoWord, "all", flow.port}
    /\ process = {} \/ process \cap flow.process # {}
    /\ \/ domain = {} /\ ip = {}
       \/ domain \cap flow.domain # {}
       \/ resolved /\ ip \cap flow.ip # {} /\ except \cap flow.ip = {}

LEMMA FullMatches ==
    ASSUME NEW out, NEW action, NEW only, NEW port, NEW domain, NEW ip, NEW except, NEW process,
           NEW flow, NEW resolved, NEW mode
    PROVE  Matches(Full(out, action, only, port, domain, ip, except, process), flow, resolved, mode)
              <=> /\ only \in {NoWord, mode}
                  /\ Hits(port, domain, ip, except, process, flow, resolved)
<1>1. PICK r : r = Full(out, action, only, port, domain, ip, except, process)
  OBVIOUS
<1>2. /\ r.mode = only /\ r.port = port /\ r.domain = domain /\ r.ip = ip
      /\ r.except = except /\ r.process = process
  BY <1>1 DEF Full
<1>3. Matches(r, flow, resolved, mode)
         <=> /\ only \in {NoWord, mode}
             /\ Hits(port, domain, ip, except, process, flow, resolved)
  BY <1>2 DEF Matches, Hits
<1> QED BY <1>1, <1>3

LEMMA PassesNot ==
    ASSUME NEW now, NEW rule, NEW flow, NEW mode, ~Matches(rule, flow, now.resolved, mode)
    PROVE  Passes(now, rule, flow, mode) = now
BY DEF Passes

LEMMA PassesWon ==
    ASSUME NEW now, now.verdict # <<>>, NEW rule, NEW flow, NEW mode
    PROVE  Passes(now, rule, flow, mode) = now
BY DEF Passes

\* A connection that has its verdict keeps it.
LEMMA PassedWon ==
    ASSUME NEW now, now.verdict # <<>>, NEW rules, IsList(rules), NEW flow, NEW mode
    PROVE  Passed(rules, now, flow, mode) = now
<1>1. PICK n \in Nat : n = Len(rules)
  BY ListFacts
<1>2. PICK f : Run(f, n, rules, now, flow, mode)
  BY RunExists
<1>3. \A i \in 0 .. n : f[i] = IF i = 0 THEN now ELSE Passes(f[i - 1], rules[i], flow, mode)
  BY <1>2 DEF Run
<1> DEFINE Bad == {m \in 0 .. n : f[m] # now}
<1>4. ASSUME Bad # {} PROVE FALSE
  <2>1. Bad \in SUBSET Nat
    OBVIOUS
  <2>2. PICK m \in Bad : \A j \in Bad : m <= j
    BY <1>4, <2>1, LeastNumber
  <2>3. m # 0 /\ m \in 0 .. n
    BY <1>3, <2>2
  <2>4. m - 1 \in 0 .. n /\ ~(m <= m - 1)
    BY <2>3
  <2>5. f[m - 1] = now
    BY <2>2, <2>4
  <2>6. f[m] = Passes(now, rules[m], flow, mode)
    BY <1>3, <2>3, <2>5
  <2> QED BY <2>2, <2>6, PassesWon
<1>5. f[n] = now
  BY <1>4
<1> QED BY <1>1, <1>2, <1>5, PassedIsRun

LEMMA AtFields ==
    ASSUME NEW v, NEW r
    PROVE  At(v, r).verdict = v /\ At(v, r).resolved = r
BY DEF At

\* What takes a connection that has no verdict yet gives it one.
LEMMA PassesTakes ==
    ASSUME NEW resolved, NEW rule, NEW flow, NEW mode, Matches(rule, flow, resolved, mode),
           rule.action \notin {"sniff", "resolve"}
    PROVE  Passes(At(<<>>, resolved), rule, flow, mode)
              = At(IF rule.action = NoWord THEN rule.out ELSE <<rule.action>>, resolved)
<1>1. PICK now : now = At(<<>>, resolved)
  OBVIOUS
<1>2. now.verdict = <<>> /\ now.resolved = resolved
  BY <1>1, AtFields
<1>3. \A v : [now EXCEPT !.verdict = v] = At(v, resolved)
  BY <1>1 DEF At
<1>4. CASE rule.action = NoWord
  <2>1. Passes(now, rule, flow, mode) = [now EXCEPT !.verdict = rule.out]
    BY <1>2, <1>4, NoWordIsNone DEF Passes
  <2> QED BY <1>1, <1>3, <1>4, <2>1
<1>5. CASE rule.action # NoWord
  <2>1. Passes(now, rule, flow, mode) = [now EXCEPT !.verdict = <<rule.action>>]
    BY <1>2, <1>5 DEF Passes
  <2> QED BY <1>1, <1>3, <1>5, <2>1
<1> QED BY <1>4, <1>5

-----------------------------------------------------------------------------
(* The rules that are written for one rule of the user.                     *)

\* An outbound has a name.
IsTag(target) == target # <<>>
Goal(target) == IF target = <<"block">> THEN <<"reject">> ELSE target
Common(target, port) ==
    [(IF target = <<"block">> THEN Does("reject") ELSE Goes(target)) EXCEPT !.port = port]
OutOf(target) == IF target = <<"block">> THEN <<>> ELSE target
ActionOf(target) == IF target = <<"block">> THEN "reject" ELSE NoWord
Mine(target, port, domain, ip, except, process) ==
    Full(OutOf(target), ActionOf(target), NoWord, port, domain, ip, except, process)

\* A rule with another value of a field.
WithOut(r, v) == [r EXCEPT !.out = v]
WithAction(r, v) == [r EXCEPT !.action = v]
WithMode(r, v) == [r EXCEPT !.mode = v]
WithPort(r, v) == [r EXCEPT !.port = v]
WithDomain(r, v) == [r EXCEPT !.domain = v]
WithAddresses(r, v, w) == [r EXCEPT !.ip = v, !.except = w]
WithAddress(r, v) == [r EXCEPT !.ip = v]
WithProcess(r, v) == [r EXCEPT !.process = v]

LEMMA FullWithOut ==
    ASSUME NEW o, NEW a, NEW m, NEW p, NEW d, NEW i, NEW x, NEW q, NEW v
    PROVE  WithOut(Full(o, a, m, p, d, i, x, q), v)
              = Full(v, a, m, p, d, i, x, q)
<1>1. PICK r : r = Full(o, a, m, p, d, i, x, q)
  OBVIOUS
<1>2. r = [out |-> o, action |-> a, mode |-> m, port |-> p, domain |-> d,
           ip |-> i, except |-> x, process |-> q]
  BY <1>1 DEF Full
<1>3. PICK s : s = [r EXCEPT !.out = v]
  OBVIOUS
<1>4. s = [out |-> v, action |-> a, mode |-> m, port |-> p, domain |-> d,
           ip |-> i, except |-> x, process |-> q]
  BY ONLY <1>2, <1>3
<1>5. s = WithOut(r, v)
  BY ONLY <1>3 DEF WithOut
<1>6. s = Full(v, a, m, p, d, i, x, q)
  BY ONLY <1>4 DEF Full
<1> QED BY <1>1, <1>5, <1>6

LEMMA FullWithAction ==
    ASSUME NEW o, NEW a, NEW m, NEW p, NEW d, NEW i, NEW x, NEW q, NEW v
    PROVE  WithAction(Full(o, a, m, p, d, i, x, q), v)
              = Full(o, v, m, p, d, i, x, q)
<1>1. PICK r : r = Full(o, a, m, p, d, i, x, q)
  OBVIOUS
<1>2. r = [out |-> o, action |-> a, mode |-> m, port |-> p, domain |-> d,
           ip |-> i, except |-> x, process |-> q]
  BY <1>1 DEF Full
<1>3. PICK s : s = [r EXCEPT !.action = v]
  OBVIOUS
<1>4. s = [out |-> o, action |-> v, mode |-> m, port |-> p, domain |-> d,
           ip |-> i, except |-> x, process |-> q]
  BY ONLY <1>2, <1>3
<1>5. s = WithAction(r, v)
  BY ONLY <1>3 DEF WithAction
<1>6. s = Full(o, v, m, p, d, i, x, q)
  BY ONLY <1>4 DEF Full
<1> QED BY <1>1, <1>5, <1>6

LEMMA FullWithMode ==
    ASSUME NEW o, NEW a, NEW m, NEW p, NEW d, NEW i, NEW x, NEW q, NEW v
    PROVE  WithMode(Full(o, a, m, p, d, i, x, q), v)
              = Full(o, a, v, p, d, i, x, q)
<1>1. PICK r : r = Full(o, a, m, p, d, i, x, q)
  OBVIOUS
<1>2. r = [out |-> o, action |-> a, mode |-> m, port |-> p, domain |-> d,
           ip |-> i, except |-> x, process |-> q]
  BY <1>1 DEF Full
<1>3. PICK s : s = [r EXCEPT !.mode = v]
  OBVIOUS
<1>4. s = [out |-> o, action |-> a, mode |-> v, port |-> p, domain |-> d,
           ip |-> i, except |-> x, process |-> q]
  BY ONLY <1>2, <1>3
<1>5. s = WithMode(r, v)
  BY ONLY <1>3 DEF WithMode
<1>6. s = Full(o, a, v, p, d, i, x, q)
  BY ONLY <1>4 DEF Full
<1> QED BY <1>1, <1>5, <1>6

LEMMA FullWithPort ==
    ASSUME NEW o, NEW a, NEW m, NEW p, NEW d, NEW i, NEW x, NEW q, NEW v
    PROVE  WithPort(Full(o, a, m, p, d, i, x, q), v)
              = Full(o, a, m, v, d, i, x, q)
<1>1. PICK r : r = Full(o, a, m, p, d, i, x, q)
  OBVIOUS
<1>2. r = [out |-> o, action |-> a, mode |-> m, port |-> p, domain |-> d,
           ip |-> i, except |-> x, process |-> q]
  BY <1>1 DEF Full
<1>3. PICK s : s = [r EXCEPT !.port = v]
  OBVIOUS
<1>4. s = [out |-> o, action |-> a, mode |-> m, port |-> v, domain |-> d,
           ip |-> i, except |-> x, process |-> q]
  BY ONLY <1>2, <1>3
<1>5. s = WithPort(r, v)
  BY ONLY <1>3 DEF WithPort
<1>6. s = Full(o, a, m, v, d, i, x, q)
  BY ONLY <1>4 DEF Full
<1> QED BY <1>1, <1>5, <1>6

LEMMA FullWithDomain ==
    ASSUME NEW o, NEW a, NEW m, NEW p, NEW d, NEW i, NEW x, NEW q, NEW v
    PROVE  WithDomain(Full(o, a, m, p, d, i, x, q), v)
              = Full(o, a, m, p, v, i, x, q)
<1>1. PICK r : r = Full(o, a, m, p, d, i, x, q)
  OBVIOUS
<1>2. r = [out |-> o, action |-> a, mode |-> m, port |-> p, domain |-> d,
           ip |-> i, except |-> x, process |-> q]
  BY <1>1 DEF Full
<1>3. PICK s : s = [r EXCEPT !.domain = v]
  OBVIOUS
<1>4. s = [out |-> o, action |-> a, mode |-> m, port |-> p, domain |-> v,
           ip |-> i, except |-> x, process |-> q]
  BY ONLY <1>2, <1>3
<1>5. s = WithDomain(r, v)
  BY ONLY <1>3 DEF WithDomain
<1>6. s = Full(o, a, m, p, v, i, x, q)
  BY ONLY <1>4 DEF Full
<1> QED BY <1>1, <1>5, <1>6

LEMMA FullWithAddresses ==
    ASSUME NEW o, NEW a, NEW m, NEW p, NEW d, NEW i, NEW x, NEW q, NEW v, NEW w
    PROVE  WithAddresses(Full(o, a, m, p, d, i, x, q), v, w)
              = Full(o, a, m, p, d, v, w, q)
<1>1. PICK r : r = Full(o, a, m, p, d, i, x, q)
  OBVIOUS
<1>2. r = [out |-> o, action |-> a, mode |-> m, port |-> p, domain |-> d,
           ip |-> i, except |-> x, process |-> q]
  BY <1>1 DEF Full
<1>3. PICK s : s = [r EXCEPT !.ip = v, !.except = w]
  OBVIOUS
<1>4. s = [out |-> o, action |-> a, mode |-> m, port |-> p, domain |-> d,
           ip |-> v, except |-> w, process |-> q]
  BY ONLY <1>2, <1>3
<1>5. s = WithAddresses(r, v, w)
  BY ONLY <1>3 DEF WithAddresses
<1>6. s = Full(o, a, m, p, d, v, w, q)
  BY ONLY <1>4 DEF Full
<1> QED BY <1>1, <1>5, <1>6

LEMMA FullWithAddress ==
    ASSUME NEW o, NEW a, NEW m, NEW p, NEW d, NEW i, NEW x, NEW q, NEW v
    PROVE  WithAddress(Full(o, a, m, p, d, i, x, q), v)
              = Full(o, a, m, p, d, v, x, q)
<1>1. PICK r : r = Full(o, a, m, p, d, i, x, q)
  OBVIOUS
<1>2. r = [out |-> o, action |-> a, mode |-> m, port |-> p, domain |-> d,
           ip |-> i, except |-> x, process |-> q]
  BY <1>1 DEF Full
<1>3. PICK s : s = [r EXCEPT !.ip = v]
  OBVIOUS
<1>4. s = [out |-> o, action |-> a, mode |-> m, port |-> p, domain |-> d,
           ip |-> v, except |-> x, process |-> q]
  BY ONLY <1>2, <1>3
<1>5. s = WithAddress(r, v)
  BY ONLY <1>3 DEF WithAddress
<1>6. s = Full(o, a, m, p, d, v, x, q)
  BY ONLY <1>4 DEF Full
<1> QED BY <1>1, <1>5, <1>6

LEMMA FullWithProcess ==
    ASSUME NEW o, NEW a, NEW m, NEW p, NEW d, NEW i, NEW x, NEW q, NEW v
    PROVE  WithProcess(Full(o, a, m, p, d, i, x, q), v)
              = Full(o, a, m, p, d, i, x, v)
<1>1. PICK r : r = Full(o, a, m, p, d, i, x, q)
  OBVIOUS
<1>2. r = [out |-> o, action |-> a, mode |-> m, port |-> p, domain |-> d,
           ip |-> i, except |-> x, process |-> q]
  BY <1>1 DEF Full
<1>3. PICK s : s = [r EXCEPT !.process = v]
  OBVIOUS
<1>4. s = [out |-> o, action |-> a, mode |-> m, port |-> p, domain |-> d,
           ip |-> i, except |-> x, process |-> v]
  BY ONLY <1>2, <1>3
<1>5. s = WithProcess(r, v)
  BY ONLY <1>3 DEF WithProcess
<1>6. s = Full(o, a, m, p, d, i, x, v)
  BY ONLY <1>4 DEF Full
<1> QED BY <1>1, <1>5, <1>6

LEMMA NoRuleIs == NoRule = Full(<<>>, NoWord, NoWord, NoWord, {}, {}, {}, {})
BY DEF NoRule, Full

LEMMA GoesAndDoes ==
    ASSUME NEW tag, NEW action
    PROVE  /\ Goes(tag) = Full(tag, NoWord, NoWord, NoWord, {}, {}, {}, {})
           /\ Does(action) = Full(<<>>, action, NoWord, NoWord, {}, {}, {}, {})
<1>1. PICK r : r = NoRule
  OBVIOUS
<1>2. /\ WithOut(r, tag) = Full(tag, NoWord, NoWord, NoWord, {}, {}, {}, {})
      /\ WithAction(r, action) = Full(<<>>, action, NoWord, NoWord, {}, {}, {}, {})
  BY <1>1, NoRuleIs, FullWithOut, FullWithAction
<1>3. Goes(tag) = WithOut(r, tag) /\ Does(action) = WithAction(r, action)
  BY <1>1 DEF Goes, Does, WithOut, WithAction
<1> QED BY <1>2, <1>3

LEMMA CommonIs ==
    ASSUME NEW target, NEW port
    PROVE  Common(target, port) = Mine(target, port, {}, {}, {}, {})
<1>1. PICK r : r = IF target = <<"block">> THEN Does("reject") ELSE Goes(target)
  OBVIOUS
<1>2. r = Full(OutOf(target), ActionOf(target), NoWord, NoWord, {}, {}, {}, {})
  BY <1>1, GoesAndDoes DEF OutOf, ActionOf
<1>3. WithPort(r, port) = Full(OutOf(target), ActionOf(target), NoWord, port, {}, {}, {}, {})
  BY <1>2, FullWithPort
<1>4. Common(target, port) = WithPort(r, port)
  BY <1>1 DEF Common, WithPort
<1> QED BY <1>3, <1>4 DEF Mine

LEMMA MineWithDomain ==
    ASSUME NEW target, NEW port, NEW x
    PROVE  WithDomain(Common(target, port), x) = Mine(target, port, x, {}, {}, {})
<1>1. PICK c : c = Common(target, port)
  OBVIOUS
<1>2. c = Full(OutOf(target), ActionOf(target), NoWord, port, {}, {}, {}, {})
  BY <1>1, CommonIs DEF Mine
<1> QED BY <1>1, <1>2, FullWithDomain DEF Mine

LEMMA MineWithAddresses ==
    ASSUME NEW target, NEW port, NEW x, NEW y
    PROVE  WithAddresses(Common(target, port), x, y) = Mine(target, port, {}, x, y, {})
<1>1. PICK c : c = Common(target, port)
  OBVIOUS
<1>2. c = Full(OutOf(target), ActionOf(target), NoWord, port, {}, {}, {}, {})
  BY <1>1, CommonIs DEF Mine
<1> QED BY <1>1, <1>2, FullWithAddresses DEF Mine

LEMMA MineWithProcess ==
    ASSUME NEW target, NEW port, NEW x
    PROVE  WithProcess(Common(target, port), x) = Mine(target, port, {}, {}, {}, x)
<1>1. PICK c : c = Common(target, port)
  OBVIOUS
<1>2. c = Full(OutOf(target), ActionOf(target), NoWord, port, {}, {}, {}, {})
  BY <1>1, CommonIs DEF Mine
<1> QED BY <1>1, <1>2, FullWithProcess DEF Mine

\* One of the rules gives the verdict of the user's rule to what it matches.
LEMMA MinePasses ==
    ASSUME NEW target, IsTag(target), NEW port, NEW domain, NEW ip, NEW except, NEW process,
           NEW flow, NEW resolved, NEW mode
    PROVE  Passes(At(<<>>, resolved), Mine(target, port, domain, ip, except, process), flow, mode)
              = IF Hits(port, domain, ip, except, process, flow, resolved)
                THEN At(Goal(target), resolved) ELSE At(<<>>, resolved)
<1> DEFINE hit == Hits(port, domain, ip, except, process, flow, resolved)
<1>1. PICK r : r = Mine(target, port, domain, ip, except, process)
  OBVIOUS
<1>2. PICK now : now = At(<<>>, resolved)
  OBVIOUS
<1>3. now.resolved = resolved
  BY <1>2, AtFields
<1>4. Matches(r, flow, resolved, mode) <=> hit
  BY <1>1, FullMatches DEF Mine
<1>5. r.out = OutOf(target) /\ r.action = ActionOf(target)
  BY <1>1 DEF Mine, Full
<1>6. r.action \notin {"sniff", "resolve"}
  BY <1>5, NoWordIsNone DEF ActionOf
<1>7. (IF r.action = NoWord THEN r.out ELSE <<r.action>>) = Goal(target)
  BY <1>5, NoWordIsNone DEF ActionOf, OutOf, Goal
<1>8. CASE hit
  <2>1. Matches(r, flow, resolved, mode)
    BY <1>4, <1>8
  <2>2. Passes(now, r, flow, mode)
           = At(IF r.action = NoWord THEN r.out ELSE <<r.action>>, resolved)
    BY <1>2, <1>6, <2>1, PassesTakes
  <2> QED BY <1>1, <1>2, <1>7, <1>8, <2>2
<1>9. CASE ~hit
  <2>1. Passes(now, r, flow, mode) = now
    BY <1>3, <1>4, <1>9, PassesNot
  <2> QED BY <1>1, <1>2, <1>9, <2>1
<1> QED BY <1>8, <1>9

LEMMA GoalIsOne ==
    ASSUME NEW target, IsTag(target)
    PROVE  Goal(target) # <<>>
<1>1. <<"reject">> # <<>>
  OBVIOUS
<1> QED BY <1>1 DEF Goal, IsTag

\* A list that gives a connection the verdict of the target when a condition
\* holds, and leaves it alone otherwise.
Wins(list, target, flow, resolved, mode, condition) ==
    /\ IsList(list)
    /\ Passed(list, At(<<>>, resolved), flow, mode)
          = IF condition THEN At(Goal(target), resolved) ELSE At(<<>>, resolved)

LEMMA WinsNever ==
    ASSUME NEW target, NEW flow, NEW resolved, NEW mode
    PROVE  Wins(<<>>, target, flow, resolved, mode, FALSE)
BY EmptyIsList, PassedNone DEF Wins

LEMMA WinsOne ==
    ASSUME NEW target, IsTag(target), NEW port, NEW domain, NEW ip, NEW except, NEW process,
           NEW flow, NEW resolved, NEW mode,
           NEW hit \in BOOLEAN, hit <=> Hits(port, domain, ip, except, process, flow, resolved),
           NEW r, r = Mine(target, port, domain, ip, except, process)
    PROVE  Wins(<<r>>, target, flow, resolved, mode, hit)
<1>1. PICK free : free = At(<<>>, resolved)
  OBVIOUS
<1>2. Passed(<<r>>, free, flow, mode) = Passes(free, r, flow, mode)
  BY PassedOne
<1>3. Passes(At(<<>>, resolved), Mine(target, port, domain, ip, except, process), flow, mode)
         = IF Hits(port, domain, ip, except, process, flow, resolved)
           THEN At(Goal(target), resolved) ELSE At(<<>>, resolved)
  BY MinePasses
<1> QED BY <1>1, <1>2, <1>3, OneIsList DEF Wins

LEMMA WinsBoth ==
    ASSUME NEW target, IsTag(target), NEW flow, NEW resolved, NEW mode,
           NEW a, NEW b, NEW c \in BOOLEAN, NEW d \in BOOLEAN,
           Wins(a, target, flow, resolved, mode, c), Wins(b, target, flow, resolved, mode, d)
    PROVE  Wins(a \o b, target, flow, resolved, mode, c \/ d)
<1>1. IsList(a) /\ IsList(b)
  BY DEF Wins
<1>2. IsList(a \o b)
  BY <1>1, Joined
<1>3. PICK free, won : free = At(<<>>, resolved) /\ won = At(Goal(target), resolved)
  OBVIOUS
<1>4. won.verdict # <<>>
  BY <1>3, AtFields, GoalIsOne
<1>5. Passed(a \o b, free, flow, mode) = Passed(b, Passed(a, free, flow, mode), flow, mode)
  BY <1>1, PassedBoth
<1>6. CASE c
  <2>1. Passed(a, free, flow, mode) = won
    BY <1>3, <1>6 DEF Wins
  <2>2. Passed(b, won, flow, mode) = won
    BY <1>1, <1>4, PassedWon
  <2> QED BY <1>2, <1>3, <1>5, <1>6, <2>1, <2>2 DEF Wins
<1>7. CASE ~c
  <2>1. Passed(a, free, flow, mode) = free
    BY <1>3, <1>7 DEF Wins
  <2>2. Passed(b, free, flow, mode) = IF d THEN won ELSE free
    BY <1>3 DEF Wins
  <2> QED BY <1>2, <1>3, <1>5, <1>7, <2>1, <2>2 DEF Wins
<1> QED BY <1>6, <1>7

-----------------------------------------------------------------------------
(* What of a connection the rules of one rule take.                         *)

\* Exclusions are of addresses, unless nothing is excluded.
Excludes(rule) == (\E e \in rule.ip : e.not) => ParsedAddresses(rule.ip, TRUE) # {}
NotIsTruth(rule) == \A e \in rule.ip : e.not \in BOOLEAN

TakesAddress(rule, flow, resolved) ==
    /\ rule.port \in {NoWord, "all", flow.port}
    /\ resolved
    /\ ParsedAddresses(rule.ip, FALSE) \cap flow.ip # {}
    /\ ParsedAddresses(rule.ip, TRUE) \cap flow.ip = {}

LEMMA AddressesWin ==
    ASSUME NEW rule, Excludes(rule), NEW target, IsTag(target), NEW flow, NEW resolved \in BOOLEAN,
           NEW mode
    PROVE  /\ Wins(AddressRules(Common(target, rule.port), rule.ip), target, flow, resolved, mode,
                   TakesAddress(rule, flow, resolved))
           /\ AddressRules(Common(target, rule.port), rule.ip) = <<>>
                 <=> ParsedAddresses(rule.ip, FALSE) = {}
<1>1. PICK positive, negative, c :
         /\ positive = ParsedAddresses(rule.ip, FALSE) /\ negative = ParsedAddresses(rule.ip, TRUE)
         /\ c = Common(target, rule.port)
  OBVIOUS
<1>2. PICK hit \in BOOLEAN : hit <=> TakesAddress(rule, flow, resolved)
  BY DEF TakesAddress
<1>3. hit <=> /\ rule.port \in {NoWord, "all", flow.port}
              /\ resolved /\ positive \cap flow.ip # {} /\ negative \cap flow.ip = {}
  BY <1>1, <1>2 DEF TakesAddress
<1>4. PICK list : list = AddressRules(c, rule.ip)
  OBVIOUS
<1>5. Wins(list, target, flow, resolved, mode, hit) /\ (list = <<>> <=> positive = {})
  <2>1. CASE positive = {}
    <3>1. list = <<>>
      BY <1>1, <1>4, <2>1 DEF AddressRules
    <3>2. hit = FALSE
      BY <1>3, <2>1
    <3> QED BY <2>1, <3>1, <3>2, WinsNever
  <2>2. CASE positive # {}
    <3>1. PICK r : r = WithAddresses(c, positive, negative)
      OBVIOUS
    <3>2. list = <<r>>
      BY <1>1, <1>4, <2>2, <3>1 DEF AddressRules, Excludes, WithAddresses
    <3>3. r = Mine(target, rule.port, {}, positive, negative, {})
      BY <1>1, <3>1, MineWithAddresses
    <3>4. hit <=> Hits(rule.port, {}, positive, negative, {}, flow, resolved)
      BY <1>3, <2>2 DEF Hits
    <3>5. Wins(<<r>>, target, flow, resolved, mode, hit)
      BY <3>3, <3>4, WinsOne
    <3>6. <<r>> # <<>>
      OBVIOUS
    <3> QED BY <2>2, <3>2, <3>5, <3>6
  <2> QED BY <2>1, <2>2
<1>6. Wins(list, target, flow, resolved, mode, TakesAddress(rule, flow, resolved))
  BY <1>2, <1>5 DEF Wins
<1> QED BY <1>1, <1>4, <1>5, <1>6

\* One rule for names and one for paths, or neither.
LEMMA ProcessesWin ==
    ASSUME NEW rule, NEW target, IsTag(target), NEW flow, NEW resolved, NEW mode,
           NEW hit \in BOOLEAN,
           hit = /\ rule.port \in {NoWord, "all", flow.port}
                 /\ rule.process \cap flow.process # {},
           NEW c, c = Common(target, rule.port)
    PROVE  /\ Wins(ProcessRules(c, rule.process), target, flow, resolved, mode, hit)
           /\ ProcessRules(c, rule.process) = <<>> <=> rule.process = {}
<1> DEFINE names == {p \in rule.process : p[1] = "name"}
           paths == rule.process \ names
<1>1. ASSUME NEW some, NEW list, NEW h \in BOOLEAN,
             list = (IF some # {} THEN <<WithProcess(c, some)>> ELSE <<>>),
             h = (/\ rule.port \in {NoWord, "all", flow.port} /\ some \cap flow.process # {})
      PROVE  /\ Wins(list, target, flow, resolved, mode, h)
             /\ list = <<>> <=> some = {}
  <2>1. CASE some = {}
    <3>1. list = <<>> /\ h = FALSE
      BY <1>1, <2>1
    <3> QED BY <2>1, <3>1, WinsNever
  <2>2. CASE some # {}
    <3>1. PICK r : r = WithProcess(c, some)
      OBVIOUS
    <3>2. list = <<r>> /\ <<r>> # <<>>
      BY <1>1, <2>2, <3>1
    <3>3. r = Mine(target, rule.port, {}, {}, {}, some)
      BY <3>1, MineWithProcess
    <3>4. h <=> Hits(rule.port, {}, {}, {}, some, flow, resolved)
      BY <1>1, <2>2 DEF Hits
    <3>5. Wins(<<r>>, target, flow, resolved, mode, h)
      BY <3>3, <3>4, WinsOne
    <3> QED BY <2>2, <3>2, <3>5
  <2> QED BY <2>1, <2>2
<1>2. PICK a, b : /\ a = (IF names # {} THEN <<WithProcess(c, names)>> ELSE <<>>)
                  /\ b = (IF paths # {} THEN <<WithProcess(c, paths)>> ELSE <<>>)
  OBVIOUS
<1>3. ProcessRules(c, rule.process) = a \o b
  BY <1>2 DEF ProcessRules, WithProcess
<1>4. /\ rule.process = names \cup paths
      /\ rule.process \cap flow.process # {}
            <=> names \cap flow.process # {} \/ paths \cap flow.process # {}
  OBVIOUS
<1> HIDE DEF names, paths
<1>5. PICK g, h \in BOOLEAN :
         /\ g = (/\ rule.port \in {NoWord, "all", flow.port} /\ names \cap flow.process # {})
         /\ h = (/\ rule.port \in {NoWord, "all", flow.port} /\ paths \cap flow.process # {})
  OBVIOUS
<1>6. /\ Wins(a, target, flow, resolved, mode, g) /\ (a = <<>> <=> names = {})
      /\ Wins(b, target, flow, resolved, mode, h) /\ (b = <<>> <=> paths = {})
  BY <1>1, <1>2, <1>5
<1>7. hit = (g \/ h)
  BY <1>4, <1>5
<1>8. Wins(a \o b, target, flow, resolved, mode, g \/ h)
  BY <1>6, WinsBoth
<1>9. a \o b = <<>> <=> a = <<>> /\ b = <<>>
  <2>1. PICK A, B : a \in Seq(A) /\ b \in Seq(B)
    BY <1>6 DEF Wins, IsList
  <2>2. a \in Seq(A \cup B) /\ b \in Seq(A \cup B)
    BY <2>1, SeqMonotonic
  <2> QED BY <2>2
<1> QED BY <1>3, <1>4, <1>6, <1>7, <1>8, <1>9

LEMMA DomainsWin ==
    ASSUME NEW target, IsTag(target), NEW port, NEW domains, NEW flow, NEW resolved, NEW mode,
           NEW hit \in BOOLEAN,
           hit <=> port \in {NoWord, "all", flow.port} /\ domains \cap flow.domain # {},
           NEW list,
           list = IF domains # {} THEN <<WithDomain(Common(target, port), domains)>> ELSE <<>>
    PROVE  Wins(list, target, flow, resolved, mode, hit) /\ (list = <<>> <=> domains = {})
<1>1. CASE domains = {}
  <2>1. list = <<>> /\ hit = FALSE
    BY <1>1
  <2> QED BY <1>1, <2>1, WinsNever
<1>2. CASE domains # {}
  <2>1. PICK r : r = WithDomain(Common(target, port), domains)
    OBVIOUS
  <2>2. list = <<r>> /\ <<r>> # <<>>
    BY <1>2, <2>1
  <2>3. r = Mine(target, port, domains, {}, {}, {})
    BY <2>1, MineWithDomain
  <2>4. hit <=> Hits(port, domains, {}, {}, {}, flow, resolved)
    BY <1>2 DEF Hits
  <2>5. Wins(<<r>>, target, flow, resolved, mode, hit)
    BY <2>3, <2>4, WinsOne
  <2> QED BY <1>2, <2>2, <2>5
<1> QED BY <1>1, <1>2

LEMMA BothEmpty ==
    ASSUME NEW a, NEW b, IsList(a), IsList(b)
    PROVE  a \o b = <<>> <=> a = <<>> /\ b = <<>>
<1>1. PICK A, B : a \in Seq(A) /\ b \in Seq(B)
  BY DEF IsList
<1>2. a \in Seq(A \cup B) /\ b \in Seq(A \cup B)
  BY <1>1, SeqMonotonic
<1> QED BY <1>2

\* The rules written for one rule take a connection exactly if it does.
LEMMA RulesToWin ==
    ASSUME NEW rule, Excludes(rule), NotIsTruth(rule), NEW target, IsTag(target), NEW flow,
           NEW resolved \in BOOLEAN, NEW mode,
           NEW hit \in BOOLEAN, hit <=> Accepts(rule, flow, resolved)
    PROVE  Wins(RulesTo(target, rule), target, flow, resolved, mode, hit)
<1>1. PICK c, domains, positive, negative, process, port :
         /\ c = Common(target, port) /\ domains = ParsedDomains(rule.domain)
         /\ positive = ParsedAddresses(rule.ip, FALSE)
         /\ negative = ParsedAddresses(rule.ip, TRUE)
         /\ process = rule.process /\ port = rule.port
  OBVIOUS
<1>2. PICK a, b, d :
         /\ a = IF domains # {} THEN <<WithDomain(c, domains)>> ELSE <<>>
         /\ b = AddressRules(c, rule.ip)
         /\ d = ProcessRules(c, rule.process)
  <2>1. PICK a : a = IF domains # {} THEN <<WithDomain(c, domains)>> ELSE <<>>
    OBVIOUS
  <2> QED BY <2>1
<1>3. PICK ha, hb, hd \in BOOLEAN :
         /\ ha <=> port \in {NoWord, "all", flow.port} /\ domains \cap flow.domain # {}
         /\ hb <=> /\ port \in {NoWord, "all", flow.port}
                   /\ resolved /\ positive \cap flow.ip # {} /\ negative \cap flow.ip = {}
         /\ hd = (port \in {NoWord, "all", flow.port} /\ process \cap flow.process # {})
  OBVIOUS
<1>4. Wins(a, target, flow, resolved, mode, ha) /\ (a = <<>> <=> domains = {})
  BY <1>1, <1>2, <1>3, DomainsWin
<1>5. Wins(b, target, flow, resolved, mode, hb) /\ (b = <<>> <=> positive = {})
  <2>1. hb <=> TakesAddress(rule, flow, resolved)
    BY <1>1, <1>3 DEF TakesAddress
  <2>2. Wins(b, target, flow, resolved, mode, TakesAddress(rule, flow, resolved))
    BY <1>1, <1>2, AddressesWin
  <2>3. b = <<>> <=> positive = {}
    BY <1>1, <1>2, AddressesWin
  <2> QED BY <2>1, <2>2, <2>3 DEF Wins
<1>6. Wins(d, target, flow, resolved, mode, hd) /\ (d = <<>> <=> process = {})
  BY <1>1, <1>2, <1>3, ProcessesWin
<1>7. PICK lists : lists = a \o b \o d
  OBVIOUS
<1>8. Wins(a \o b, target, flow, resolved, mode, ha \/ hb)
  BY <1>4, <1>5, WinsBoth
<1>9. Wins(lists, target, flow, resolved, mode, ha \/ hb \/ hd)
  <2>1. PICK q, h : q = a \o b /\ h = (ha \/ hb) /\ h \in BOOLEAN
    OBVIOUS
  <2>2. Wins(q \o d, target, flow, resolved, mode, h \/ hd)
    BY <1>6, <1>8, <2>1, WinsBoth
  <2>3. (h \/ hd) = (ha \/ hb \/ hd)
    BY <2>1
  <2> QED BY <1>7, <2>1, <2>2, <2>3
<1>10. lists = <<>> <=> domains = {} /\ positive = {} /\ process = {}
  <2>1. IsList(a) /\ IsList(b) /\ IsList(d) /\ IsList(a \o b)
    BY <1>4, <1>5, <1>6, <1>8 DEF Wins
  <2>2. PICK q : q = a \o b
    OBVIOUS
  <2>3. q = <<>> <=> a = <<>> /\ b = <<>>
    BY <2>1, <2>2, BothEmpty
  <2>4. q \o d = <<>> <=> q = <<>> /\ d = <<>>
    BY <2>1, <2>2, BothEmpty
  <2> QED BY <1>4, <1>5, <1>6, <1>7, <2>2, <2>3, <2>4
<1>11. (\E e \in rule.ip : e.not) <=> negative # {}
  <2>1. (\E e \in rule.ip : e.not) => negative # {}
    BY <1>1 DEF Excludes
  <2>2. ASSUME negative # {} PROVE \E e \in rule.ip : e.not
    <3>1. PICK e \in rule.ip : e.not = TRUE
      BY <1>1, <2>2 DEF ParsedAddresses
    <3> QED BY <3>1
  <2> QED BY <2>1, <2>2
<1>12. PICK alone \in BOOLEAN :
          alone <=> lists = <<>> /\ ~(positive = {} /\ negative # {}) /\ port # NoWord
  OBVIOUS
<1>13. RulesTo(target, rule) = IF alone THEN <<c>> ELSE lists
  BY <1>1, <1>2, <1>7, <1>11, <1>12 DEF RulesTo, Common, WithDomain
<1>14. Accepts(rule, flow, resolved)
          <=> /\ port \in {NoWord, "all", flow.port}
              /\ \/ domains \cap flow.domain # {}
                 \/ process \cap flow.process # {}
                 \/ resolved /\ positive \cap flow.ip # {} /\ negative \cap flow.ip = {}
                 \/ domains \cup positive \cup negative \cup process = {} /\ port # NoWord
  BY <1>1 DEF Accepts
<1>15. domains \cup positive \cup negative \cup process = {}
          <=> domains = {} /\ positive = {} /\ negative = {} /\ process = {}
  OBVIOUS
<1>16. CASE alone
  <2>1. /\ domains = {} /\ positive = {} /\ negative = {} /\ process = {} /\ port # NoWord
    BY <1>10, <1>12, <1>16
  <2>2. hit <=> port \in {NoWord, "all", flow.port}
    BY <1>14, <1>15, <2>1
  <2>3. hit <=> Hits(port, {}, {}, {}, {}, flow, resolved)
    BY <2>2 DEF Hits
  <2>4. c = Mine(target, port, {}, {}, {}, {})
    BY <1>1, CommonIs
  <2>5. Wins(<<c>>, target, flow, resolved, mode, hit)
    BY <2>3, <2>4, WinsOne
  <2> QED BY <1>13, <1>16, <2>5
<1>17. CASE ~alone
  <2>1. ~(domains \cup positive \cup negative \cup process = {} /\ port # NoWord)
    BY <1>10, <1>12, <1>15, <1>17
  <2>2. hit = (ha \/ hb \/ hd)
    BY <1>3, <1>14, <2>1
  <2> QED BY <1>9, <1>13, <1>17, <2>2
<1> QED BY <1>16, <1>17

-----------------------------------------------------------------------------
(* The rules of the user, one after the other.                              *)

\* The rules that are written, and what takes a connection among them.
Asked(rule, addressed) == ForTraffic(rule) /\ (addressed => rule.ip # {})
Takes(rule, addressed, flow, resolved) == Asked(rule, addressed) /\ Accepts(rule, flow, resolved)
FirstTakes(rules, i, addressed, flow, resolved) ==
    /\ i \in DOMAIN rules /\ Takes(rules[i], addressed, flow, resolved)
    /\ \A j \in 1 .. i - 1 : ~Takes(rules[j], addressed, flow, resolved)
NoneTakes(rules, addressed, flow, resolved) ==
    \A i \in DOMAIN rules : ~Takes(rules[i], addressed, flow, resolved)
OrdinaryRules(rules) ==
    IsList(rules) /\ \A i \in DOMAIN rules : Excludes(rules[i]) /\ NotIsTruth(rules[i])

LEMMA FirstOrNone ==
    ASSUME NEW rules, IsList(rules), NEW addressed, NEW flow, NEW resolved
    PROVE  \/ NoneTakes(rules, addressed, flow, resolved)
           \/ \E i \in DOMAIN rules : FirstTakes(rules, i, addressed, flow, resolved)
<1> DEFINE T == {i \in DOMAIN rules : Takes(rules[i], addressed, flow, resolved)}
<1> SUFFICES ASSUME T # {}
             PROVE  \E i \in DOMAIN rules : FirstTakes(rules, i, addressed, flow, resolved)
  BY DEF NoneTakes
<1>1. DOMAIN rules = 1 .. Len(rules) /\ Len(rules) \in Nat
  BY ListFacts
<1>2. T \in SUBSET Nat
  BY <1>1
<1>3. PICK i \in T : \A j \in T : i <= j
  BY <1>2, LeastNumber
<1>4. i \in DOMAIN rules /\ Takes(rules[i], addressed, flow, resolved)
  OBVIOUS
<1>5. ASSUME NEW j \in 1 .. i - 1 PROVE ~Takes(rules[j], addressed, flow, resolved)
  <2>1. j \in DOMAIN rules /\ ~(i <= j)
    BY <1>1, <1>4
  <2> QED BY <1>3, <2>1
<1> QED BY <1>4, <1>5 DEF FirstTakes

LEMMA TargetsAreTags ==
    ASSUME NEW rule
    PROVE  IsTag(RuleTarget(rule))
<1>1. RuleTag(rule.outbound) # <<>> /\ ProxyTag # <<>> /\ <<rule.outbound>> # <<>>
  BY DEF RuleTag, ProxyTag
<1> QED BY <1>1 DEF IsTag, RuleTarget, RuleOutbound

LEMMA OneRuleTakes ==
    ASSUME NEW rule, Excludes(rule), NotIsTruth(rule), NEW flow, NEW resolved \in BOOLEAN, NEW mode
    PROVE  /\ IsList(UserRule(rule))
           /\ Passed(UserRule(rule), At(<<>>, resolved), flow, mode)
                 = IF Accepts(rule, flow, resolved) THEN At(Goal(RuleTarget(rule)), resolved)
                   ELSE At(<<>>, resolved)
<1>1. PICK target : target = RuleTarget(rule)
  OBVIOUS
<1>2. IsTag(target)
  BY <1>1, TargetsAreTags
<1>3. PICK hit \in BOOLEAN : hit <=> Accepts(rule, flow, resolved)
  BY DEF Accepts
<1>4. Wins(RulesTo(target, rule), target, flow, resolved, mode, hit)
  BY <1>2, <1>3, RulesToWin
<1> QED BY <1>1, <1>3, <1>4 DEF Wins, UserRule

\* What is written for the i-th rule.
Lists(rules, addressed) ==
    [i \in DOMAIN rules |-> IF Asked(rules[i], addressed) THEN UserRule(rules[i]) ELSE <<>>]

LEMMA ListsAre ==
    ASSUME NEW rules, OrdinaryRules(rules), NEW addressed
    PROVE  /\ IsList(Lists(rules, addressed)) /\ Len(Lists(rules, addressed)) = Len(rules)
           /\ \A i \in DOMAIN rules : IsList(Lists(rules, addressed)[i])
<1>1. IsList(rules) /\ DOMAIN rules = 1 .. Len(rules) /\ Len(rules) \in Nat
  BY ListFacts DEF OrdinaryRules
<1>2. PICK lists : lists = Lists(rules, addressed)
  OBVIOUS
<1>3. PICK S : S = {IF Asked(rules[i], addressed) THEN UserRule(rules[i]) ELSE <<>> : i \in DOMAIN rules}
  OBVIOUS
<1>4. lists \in [1 .. Len(rules) -> S]
  BY <1>1, <1>2, <1>3 DEF Lists
<1>5. lists \in Seq(S) /\ Len(lists) = Len(rules)
  BY <1>1, <1>4
<1>6. ASSUME NEW i \in DOMAIN rules PROVE IsList(lists[i])
  <2>1. lists[i] = IF Asked(rules[i], addressed) THEN UserRule(rules[i]) ELSE <<>>
    BY <1>2 DEF Lists
  <2>2. IsList(UserRule(rules[i]))
    <3>1. PICK rule : rule = rules[i]
      OBVIOUS
    <3>2. Excludes(rule) /\ NotIsTruth(rule)
      BY <3>1 DEF OrdinaryRules
    <3> QED BY <3>1, <3>2, OneRuleTakes
  <2> QED BY <2>1, <2>2, EmptyIsList
<1> QED BY <1>2, <1>5, <1>6 DEF IsList

LEMMA UserRulesAre ==
    ASSUME NEW settings, NEW addressed
    PROVE  UserRules(settings, addressed) = FlattenSeq(Lists(settings.rules, addressed))
BY DEF UserRules, Lists, Asked

\* The first rule that takes a connection gives its verdict; without one the
\* connection goes on.
LEMMA UserRulesTake ==
    ASSUME NEW settings, OrdinaryRules(settings.rules), NEW addressed, NEW flow,
           NEW resolved \in BOOLEAN, NEW mode
    PROVE  /\ IsList(UserRules(settings, addressed))
           /\ NoneTakes(settings.rules, addressed, flow, resolved) =>
                 Passed(UserRules(settings, addressed), At(<<>>, resolved), flow, mode)
                    = At(<<>>, resolved)
           /\ \A i \in DOMAIN settings.rules :
                 FirstTakes(settings.rules, i, addressed, flow, resolved) =>
                    Passed(UserRules(settings, addressed), At(<<>>, resolved), flow, mode)
                       = At(Goal(RuleTarget(settings.rules[i])), resolved)
<1>1. PICK rules, free, lists :
         /\ rules = settings.rules /\ free = At(<<>>, resolved) /\ lists = Lists(rules, addressed)
  OBVIOUS
<1>2. PICK n \in Nat : n = Len(rules) /\ DOMAIN rules = 1 .. n
  BY <1>1, ListFacts DEF OrdinaryRules
<1>3. IsList(lists) /\ Len(lists) = n /\ \A i \in 1 .. n : IsList(lists[i])
  BY <1>1, <1>2, ListsAre
<1>4. PICK f : /\ f[0] = <<>> /\ f[n] = FlattenSeq(lists)
               /\ \A i \in 1 .. n : f[i] = f[i - 1] \o lists[i]
               /\ \A i \in 0 .. n : IsList(f[i])
  <2>1. AllLists(lists)
    BY <1>3 DEF AllLists
  <2>2. PICK f : Steps(f, Len(lists), lists)
    BY <2>1, FlattenSteps
  <2> QED BY <1>3, <2>2 DEF Steps
<1>5. UserRules(settings, addressed) = f[n]
  BY <1>1, <1>4, UserRulesAre
<1> DEFINE After(m) == Passed(f[m], free, flow, mode)
<1>6. After(0) = free
  BY <1>4, PassedNone
<1>7. ASSUME NEW i \in 1 .. n
      PROVE  After(i) = Passed(lists[i], After(i - 1), flow, mode)
  <2>1. i - 1 \in 0 .. n
    OBVIOUS
  <2>2. PICK a, b : a = f[i - 1] /\ b = lists[i]
    OBVIOUS
  <2>3. IsList(a) /\ IsList(b) /\ f[i] = a \o b
    BY <1>3, <1>4, <2>1, <2>2
  <2> QED BY <2>2, <2>3, PassedBoth
<1>8. ASSUME NEW i \in 1 .. n
      PROVE  Passed(lists[i], free, flow, mode)
                = IF Takes(rules[i], addressed, flow, resolved)
                  THEN At(Goal(RuleTarget(rules[i])), resolved) ELSE free
  <2>1. PICK rule : rule = rules[i]
    OBVIOUS
  <2>2. Excludes(rule) /\ NotIsTruth(rule)
    BY <1>1, <1>2, <2>1 DEF OrdinaryRules
  <2>3. lists[i] = IF Asked(rule, addressed) THEN UserRule(rule) ELSE <<>>
    BY <1>1, <1>2, <2>1 DEF Lists
  <2>4. CASE Asked(rule, addressed)
    <3>1. Passed(UserRule(rule), At(<<>>, resolved), flow, mode)
             = IF Accepts(rule, flow, resolved) THEN At(Goal(RuleTarget(rule)), resolved)
               ELSE At(<<>>, resolved)
      BY <2>2, OneRuleTakes
    <3> QED BY <1>1, <2>1, <2>3, <2>4, <3>1 DEF Takes
  <2>5. CASE ~Asked(rule, addressed)
    <3>1. lists[i] = <<>>
      BY <2>3, <2>5
    <3> QED BY <2>1, <2>5, <3>1, PassedNone DEF Takes
  <2> QED BY <2>4, <2>5
<1> HIDE DEF After
<1>9. ASSUME NEW k \in 0 .. n, \A i \in 1 .. k : ~Takes(rules[i], addressed, flow, resolved)
      PROVE  After(k) = free
  <2> DEFINE Bad == {m \in 0 .. k : After(m) # free}
  <2> SUFFICES ASSUME Bad # {} PROVE FALSE
    OBVIOUS
  <2>1. Bad \in SUBSET Nat
    OBVIOUS
  <2>2. PICK m \in Bad : \A j \in Bad : m <= j
    BY <2>1, LeastNumber
  <2>3. m # 0 /\ m \in 0 .. k
    BY <1>6, <2>2
  <2>4. m \in 1 .. k /\ m \in 1 .. n /\ m - 1 \in 0 .. k /\ ~(m <= m - 1)
    BY <2>3
  <2>5. After(m - 1) = free
    BY <2>2, <2>4
  <2>6. After(m) = free
    BY <1>7, <1>8, <1>9, <2>4, <2>5
  <2> QED BY <2>2, <2>6
<1>10. ASSUME NEW i \in 1 .. n, FirstTakes(rules, i, addressed, flow, resolved)
       PROVE  After(n) = At(Goal(RuleTarget(rules[i])), resolved)
  <2>1. PICK won : won = At(Goal(RuleTarget(rules[i])), resolved)
    OBVIOUS
  <2>2. won.verdict # <<>>
    BY <2>1, AtFields, GoalIsOne, TargetsAreTags
  <2>3. i - 1 \in 0 .. n /\ \A j \in 1 .. i - 1 : ~Takes(rules[j], addressed, flow, resolved)
    BY <1>10 DEF FirstTakes
  <2>4. After(i - 1) = free
    BY <1>9, <2>3
  <2>5. After(i) = won
    BY <1>7, <1>8, <1>10, <2>1, <2>4 DEF FirstTakes
  <2> DEFINE Bad == {m \in i .. n : After(m) # won}
  <2>6. ASSUME Bad # {} PROVE FALSE
    <3>1. Bad \in SUBSET Nat
      OBVIOUS
    <3>2. PICK m \in Bad : \A j \in Bad : m <= j
      BY <2>6, <3>1, LeastNumber
    <3>3. m # i /\ m \in i .. n
      BY <2>5, <3>2
    <3>4. m \in 1 .. n /\ m - 1 \in i .. n /\ ~(m <= m - 1)
      BY <3>3
    <3>5. After(m - 1) = won
      BY <3>2, <3>4
    <3>6. IsList(lists[m])
      BY <1>3, <3>4
    <3>7. Passed(lists[m], won, flow, mode) = won
      BY <2>2, <3>6, PassedWon
    <3>8. After(m) = won
      BY <1>7, <3>4, <3>5, <3>7
    <3> QED BY <3>2, <3>8
  <2>7. n \in i .. n
    OBVIOUS
  <2>8. After(n) = won
    BY <2>6, <2>7
  <2> QED BY <2>1, <2>8
<1>11. IsList(f[n]) /\ n \in 0 .. n
  BY <1>4
<1>12. NoneTakes(rules, addressed, flow, resolved) => After(n) = free
  BY <1>2, <1>9, <1>11 DEF NoneTakes
<1>13. \A i \in 1 .. n : FirstTakes(rules, i, addressed, flow, resolved) =>
          After(n) = At(Goal(RuleTarget(rules[i])), resolved)
  BY <1>10
<1> QED BY <1>1, <1>2, <1>5, <1>11, <1>12, <1>13 DEF After

-----------------------------------------------------------------------------
(* The rules of the route that are the same for all.                        *)

\* Where a connection is after a list of rules.
Ends(list, start, end, flow, mode) ==
    IsList(list) /\ Passed(list, start, flow, mode) = end

LEMMA EndsBoth ==
    ASSUME NEW a, NEW b, NEW start, NEW middle, NEW end, NEW flow, NEW mode,
           Ends(a, start, middle, flow, mode), Ends(b, middle, end, flow, mode)
    PROVE  Ends(a \o b, start, end, flow, mode)
<1>1. IsList(a) /\ IsList(b)
  BY DEF Ends
<1>2. IsList(a \o b)
  BY <1>1, Joined
<1>3. Passed(a \o b, start, flow, mode) = Passed(b, Passed(a, start, flow, mode), flow, mode)
  BY <1>1, PassedBoth
<1> QED BY <1>2, <1>3 DEF Ends

LEMMA EndsWon ==
    ASSUME NEW list, IsList(list), NEW verdict, IsTag(verdict), NEW resolved, NEW flow, NEW mode
    PROVE  Ends(list, At(verdict, resolved), At(verdict, resolved), flow, mode)
<1>1. PICK won : won = At(verdict, resolved)
  OBVIOUS
<1>2. won.verdict # <<>>
  BY <1>1, AtFields DEF IsTag
<1> QED BY <1>1, <1>2, PassedWon DEF Ends

LEMMA EndsNone ==
    ASSUME NEW start, NEW flow, NEW mode
    PROVE  Ends(<<>>, start, start, flow, mode)
BY EmptyIsList, PassedNone DEF Ends

\* Where a connection without a verdict is after a rule that matches it.
Then(out, action, resolved) ==
    IF action = "sniff" THEN At(<<>>, resolved)
    ELSE IF action = "resolve" THEN At(<<>>, TRUE)
    ELSE IF action = NoWord THEN At(out, resolved) ELSE At(<<action>>, resolved)

LEMMA PassesThen ==
    ASSUME NEW resolved, NEW rule, NEW flow, NEW mode, Matches(rule, flow, resolved, mode)
    PROVE  Passes(At(<<>>, resolved), rule, flow, mode) = Then(rule.out, rule.action, resolved)
<1>1. PICK now : now = At(<<>>, resolved)
  OBVIOUS
<1>2. now.verdict = <<>> /\ now.resolved = resolved
  BY <1>1, AtFields
<1>3. \A v : [now EXCEPT !.resolved = v] = At(<<>>, v)
  BY <1>1 DEF At
<1>4. CASE rule.action = "sniff"
  <2>1. Passes(now, rule, flow, mode) = now
    BY <1>2, <1>4 DEF Passes
  <2> QED BY <1>1, <1>4, <2>1 DEF Then
<1>5. CASE rule.action = "resolve"
  <2>1. Passes(now, rule, flow, mode) = [now EXCEPT !.resolved = TRUE]
    BY <1>2, <1>5 DEF Passes
  <2> QED BY <1>3, <1>5, <1>1, <2>1 DEF Then
<1>6. CASE rule.action \notin {"sniff", "resolve"}
  <2>1. Passes(now, rule, flow, mode)
           = At(IF rule.action = NoWord THEN rule.out ELSE <<rule.action>>, resolved)
    BY <1>1, <1>6, PassesTakes
  <2> QED BY <1>1, <1>6, <2>1 DEF Then
<1> QED BY <1>4, <1>5, <1>6

LEMMA RuleEnds ==
    ASSUME NEW out, NEW action, NEW only, NEW port, NEW domain, NEW ip, NEW except, NEW process,
           NEW flow, NEW resolved, NEW mode
    PROVE  Ends(<<Full(out, action, only, port, domain, ip, except, process)>>,
                At(<<>>, resolved),
                IF /\ only \in {NoWord, mode}
                   /\ Hits(port, domain, ip, except, process, flow, resolved)
                THEN Then(out, action, resolved) ELSE At(<<>>, resolved), flow, mode)
<1>1. PICK r, now : /\ r = Full(out, action, only, port, domain, ip, except, process)
                    /\ now = At(<<>>, resolved)
  OBVIOUS
<1>2. r.out = out /\ r.action = action /\ now.resolved = resolved
  BY <1>1, AtFields DEF Full
<1>3. Matches(r, flow, resolved, mode)
         <=> /\ only \in {NoWord, mode}
             /\ Hits(port, domain, ip, except, process, flow, resolved)
  BY <1>1, FullMatches
<1>4. Passed(<<r>>, now, flow, mode) = Passes(now, r, flow, mode) /\ IsList(<<r>>)
  BY PassedOne, OneIsList
<1>5. CASE Matches(r, flow, resolved, mode)
  <2>1. Passes(now, r, flow, mode) = Then(out, action, resolved)
    BY <1>1, <1>2, <1>5, PassesThen
  <2> QED BY <1>1, <1>3, <1>4, <1>5, <2>1 DEF Ends
<1>6. CASE ~Matches(r, flow, resolved, mode)
  <2>1. Passes(now, r, flow, mode) = now
    BY <1>2, <1>6, PassesNot
  <2> QED BY <1>1, <1>3, <1>4, <1>6, <2>1 DEF Ends
<1> QED BY <1>5, <1>6

LEMMA DoesWith ==
    ASSUME NEW action, NEW v
    PROVE  /\ WithPort(Does(action), v) = Full(<<>>, action, NoWord, v, {}, {}, {}, {})
           /\ WithDomain(Does(action), v) = Full(<<>>, action, NoWord, NoWord, v, {}, {}, {})
           /\ WithAddress(Does(action), v) = Full(<<>>, action, NoWord, NoWord, {}, v, {}, {})
<1>1. PICK r : r = Does(action)
  OBVIOUS
<1>2. r = Full(<<>>, action, NoWord, NoWord, {}, {}, {}, {})
  BY <1>1, GoesAndDoes
<1> QED BY <1>1, <1>2, FullWithPort, FullWithDomain, FullWithAddress

LEMMA GoesWith ==
    ASSUME NEW tag, NEW v
    PROVE  /\ WithPort(Goes(tag), v) = Full(tag, NoWord, NoWord, v, {}, {}, {}, {})
           /\ WithDomain(Goes(tag), v) = Full(tag, NoWord, NoWord, NoWord, v, {}, {}, {})
           /\ WithMode(Goes(tag), v) = Full(tag, NoWord, v, NoWord, {}, {}, {}, {})
           /\ WithProcess(Goes(tag), v) = Full(tag, NoWord, NoWord, NoWord, {}, {}, {}, v)
<1>1. PICK r : r = Goes(tag)
  OBVIOUS
<1>2. r = Full(tag, NoWord, NoWord, NoWord, {}, {}, {}, {})
  BY <1>1, GoesAndDoes
<1> QED BY <1>1, <1>2, FullWithPort, FullWithDomain, FullWithMode, FullWithProcess

\* The rules by their fields.
MdnsRule == Full(<<>>, "reject", NoWord, "mdns", {}, {}, {}, {})
MulticastRule == Full(<<>>, "reject", NoWord, NoWord, {}, {Multicast}, {}, {})
CoreRule == Full(<<"direct">>, NoWord, NoWord, NoWord, {}, {}, {}, {CoreProcess})
IcmpRules(settings) ==
    CASE settings.icmp = "direct" -> <<Full(<<"direct">>, NoWord, NoWord, "icmp", {}, {}, {}, {})>>
      [] settings.icmp = "reject" -> <<Full(<<>>, "reject", NoWord, "icmp", {}, {}, {}, {})>>
      [] OTHER -> <<>>
DnsPortRule == Full(<<>>, "hijack-dns", NoWord, "53", {}, {}, {}, {})
NamesRule(names) == Full(<<>>, "resolve", NoWord, NoWord, names, {}, {}, {})
ResolveRule == Full(<<>>, "resolve", NoWord, NoWord, {}, {}, {}, {})
SniffRule == Full(<<>>, "sniff", NoWord, NoWord, {}, {}, {}, {})
PriorityIs == Full(ProxyTag, NoWord, NoWord, NoWord, {PriorityDomain}, {}, {}, {})
DirectRule == Full(<<"direct">>, NoWord, "Direct", NoWord, {}, {}, {}, {})
GlobalRule == Full(ProxyTag, NoWord, "Global", NoWord, {}, {}, {}, {})

LEMMA FixedRules ==
    ASSUME NEW settings
    PROVE  /\ TunRules(settings) = <<MdnsRule, MulticastRule, CoreRule>> \o IcmpRules(settings)
           /\ HostsRules(settings) = IF HostNames(settings) = {} THEN <<>>
                                     ELSE <<NamesRule(HostNames(settings))>>
           /\ PriorityRule(ProxyTag) = PriorityIs
           /\ WithPort(Does("hijack-dns"), "53") = DnsPortRule
           /\ WithMode(Goes(<<"direct">>), "Direct") = DirectRule
           /\ WithMode(Goes(ProxyTag), "Global") = GlobalRule
           /\ Does("sniff") = SniffRule /\ Does("resolve") = ResolveRule
<1>1. PICK m, c, p :
         /\ m = WithPort(Does("reject"), "mdns") /\ c = WithAddress(Does("reject"), {Multicast})
         /\ p = WithProcess(Goes(<<"direct">>), {CoreProcess})
  OBVIOUS
<1>2. m = MdnsRule /\ c = MulticastRule /\ p = CoreRule
  BY <1>1, DoesWith, GoesWith DEF MdnsRule, MulticastRule, CoreRule
<1>3. PICK d, r : /\ d = WithPort(Goes(<<"direct">>), "icmp")
                  /\ r = WithPort(Does("reject"), "icmp")
  OBVIOUS
<1>4. /\ d = Full(<<"direct">>, NoWord, NoWord, "icmp", {}, {}, {}, {})
      /\ r = Full(<<>>, "reject", NoWord, "icmp", {}, {}, {}, {})
  BY <1>3, DoesWith, GoesWith
<1>5. PICK icmp : icmp = CASE settings.icmp = "direct" -> <<d>>
                           [] settings.icmp = "reject" -> <<r>>
                           [] OTHER -> <<>>
  OBVIOUS
<1>6. icmp = IcmpRules(settings)
  BY <1>4, <1>5 DEF IcmpRules
<1>7. TunRules(settings) = <<m, c, p>> \o icmp
  BY <1>1, <1>3, <1>5 DEF TunRules, WithPort, WithAddress, WithProcess, Multicast, CoreProcess
<1>8. PICK h : h = WithDomain(Does("resolve"), HostNames(settings))
  OBVIOUS
<1>9. h = NamesRule(HostNames(settings))
  BY <1>8, DoesWith DEF NamesRule
<1>10. HostsRules(settings) = IF HostNames(settings) = {} THEN <<>> ELSE <<h>>
  BY <1>8 DEF HostsRules, WithDomain
<1>11. PriorityRule(ProxyTag) = WithDomain(Goes(ProxyTag), {PriorityDomain})
  BY DEF PriorityRule, WithDomain
<1>12. WithDomain(Goes(ProxyTag), {PriorityDomain}) = PriorityIs
  BY GoesWith DEF PriorityIs
<1>13. /\ WithPort(Does("hijack-dns"), "53") = DnsPortRule
       /\ WithMode(Goes(<<"direct">>), "Direct") = DirectRule
       /\ WithMode(Goes(ProxyTag), "Global") = GlobalRule
  BY DoesWith, GoesWith DEF DnsPortRule, DirectRule, GlobalRule
<1>14. Does("sniff") = SniffRule /\ Does("resolve") = ResolveRule
  BY GoesAndDoes DEF SniffRule, ResolveRule
<1>15. TunRules(settings) = <<MdnsRule, MulticastRule, CoreRule>> \o IcmpRules(settings)
  BY <1>2, <1>6, <1>7
<1>16. HostsRules(settings) = IF HostNames(settings) = {} THEN <<>>
                              ELSE <<NamesRule(HostNames(settings))>>
  BY <1>9, <1>10
<1> QED BY <1>11, <1>12, <1>13, <1>14, <1>15, <1>16

LEMMA ThreeAre ==
    ASSUME NEW a, NEW b, NEW c
    PROVE  <<a, b, c>> = <<a>> \o <<b>> \o <<c>>
<1>1. PICK S : S = {a, b, c}
  OBVIOUS
<1>2. PICK x, y, z : x = <<a>> /\ y = <<b>> /\ z = <<c>>
  OBVIOUS
<1>3. /\ x \in Seq(S) /\ Len(x) = 1 /\ x[1] = a /\ y \in Seq(S) /\ Len(y) = 1 /\ y[1] = b
      /\ z \in Seq(S) /\ Len(z) = 1 /\ z[1] = c
  BY <1>1, <1>2
<1>4. PICK w : w = x \o y
  OBVIOUS
<1>5. w \in Seq(S) /\ Len(w) = 2 /\ w[1] = a /\ w[2] = b
  <2>1. IsList(x) /\ IsList(y)
    BY <1>3 DEF IsList
  <2>2. /\ Len(x \o y) = Len(x) + Len(y) /\ \A i \in 1 .. Len(x) : (x \o y)[i] = x[i]
        /\ \A i \in 1 .. Len(y) : (x \o y)[Len(x) + i] = y[i]
    BY <2>1, Joined
  <2>3. x \o y \in Seq(S)
    BY <1>3
  <2>4. Len(w) = 1 + 1 /\ w[1] = x[1] /\ w[1 + 1] = y[1]
    BY <1>3, <1>4, <2>2
  <2> QED BY <1>3, <1>4, <2>3, <2>4
<1>6. PICK v : v = w \o z
  OBVIOUS
<1>7. v \in Seq(S) /\ Len(v) = 3 /\ v[1] = a /\ v[2] = b /\ v[3] = c
  <2>1. IsList(w) /\ IsList(z)
    BY <1>3, <1>5 DEF IsList
  <2>2. /\ Len(w \o z) = Len(w) + Len(z) /\ \A i \in 1 .. Len(w) : (w \o z)[i] = w[i]
        /\ \A i \in 1 .. Len(z) : (w \o z)[Len(w) + i] = z[i]
    BY <2>1, Joined
  <2>3. w \o z \in Seq(S)
    BY <1>3, <1>5
  <2>4. Len(v) = 2 + 1 /\ v[1] = w[1] /\ v[2] = w[2] /\ v[2 + 1] = z[1]
    BY <1>3, <1>5, <1>6, <2>2
  <2> QED BY <1>3, <1>5, <1>6, <2>3, <2>4
<1>8. PICK u : u = <<a, b, c>>
  OBVIOUS
<1>9. u \in Seq(S) /\ Len(u) = 3 /\ u[1] = a /\ u[2] = b /\ u[3] = c
  BY <1>1, <1>8
<1>10. \A i \in 1 .. 3 : u[i] = v[i]
  BY <1>7, <1>9
<1>11. u = v
  BY <1>7, <1>9, <1>10, SeqEqual
<1> QED BY <1>2, <1>4, <1>6, <1>8, <1>11

LEMMA WordsDiffer ==
    /\ "mdns" # "all" /\ "icmp" # "all" /\ "53" # "all" /\ "Rule" # "Direct" /\ "Rule" # "Global"
    /\ "reject" # "sniff" /\ "reject" # "resolve" /\ "resolve" # "sniff"
OBVIOUS

\* What a rule does to a connection it does not match, and to one it does.
LEMMA RuleLeaves ==
    ASSUME NEW out, NEW action, NEW only, NEW port, NEW domain, NEW ip, NEW except, NEW process,
           NEW flow, NEW resolved, NEW mode,
           \/ only # NoWord /\ only # mode
           \/ ~Hits(port, domain, ip, except, process, flow, resolved)
           \/ action = "sniff"
    PROVE  Ends(<<Full(out, action, only, port, domain, ip, except, process)>>,
                At(<<>>, resolved), At(<<>>, resolved), flow, mode)
<1>1. PICK end : end = IF /\ only \in {NoWord, mode}
                          /\ Hits(port, domain, ip, except, process, flow, resolved)
                       THEN Then(out, action, resolved) ELSE At(<<>>, resolved)
  OBVIOUS
<1>2. Ends(<<Full(out, action, only, port, domain, ip, except, process)>>,
           At(<<>>, resolved), end, flow, mode)
  BY <1>1, RuleEnds
<1>3. end = At(<<>>, resolved)
  BY <1>1 DEF Then
<1> QED BY <1>2, <1>3

LEMMA RuleTakes ==
    ASSUME NEW out, NEW action, NEW port, NEW domain, NEW ip, NEW except, NEW process,
           NEW flow, NEW resolved, NEW mode,
           Hits(port, domain, ip, except, process, flow, resolved)
    PROVE  Ends(<<Full(out, action, NoWord, port, domain, ip, except, process)>>,
                At(<<>>, resolved), Then(out, action, resolved), flow, mode)
<1>1. PICK end : end = IF /\ NoWord \in {NoWord, mode}
                          /\ Hits(port, domain, ip, except, process, flow, resolved)
                       THEN Then(out, action, resolved) ELSE At(<<>>, resolved)
  OBVIOUS
<1>2. Ends(<<Full(out, action, NoWord, port, domain, ip, except, process)>>,
           At(<<>>, resolved), end, flow, mode)
  BY <1>1, RuleEnds
<1>3. end = Then(out, action, resolved)
  BY <1>1
<1> QED BY <1>2, <1>3

\* The rules of a TUN leave alone what is not for them.
LEMMA TunEnds ==
    ASSUME NEW settings, NEW flow, NEW mode, NEW resolved,
           flow.port # "mdns", flow.port # "icmp", Multicast \notin flow.ip,
           CoreProcess \notin flow.process
    PROVE  Ends(TunRules(settings), At(<<>>, resolved), At(<<>>, resolved), flow, mode)
<1>1. PICK free : free = At(<<>>, resolved)
  OBVIOUS
<1>2. Ends(<<MdnsRule>>, free, free, flow, mode)
  <2>1. ~Hits("mdns", {}, {}, {}, {}, flow, resolved)
    BY WordsDiffer, NoWordIsNone DEF Hits
  <2> QED BY <1>1, <2>1, RuleLeaves DEF MdnsRule
<1>3. Ends(<<MulticastRule>>, free, free, flow, mode)
  <2>1. ~Hits(NoWord, {}, {Multicast}, {}, {}, flow, resolved)
    BY DEF Hits
  <2> QED BY <1>1, <2>1, RuleLeaves DEF MulticastRule
<1>4. Ends(<<CoreRule>>, free, free, flow, mode)
  <2>1. ~Hits(NoWord, {}, {}, {}, {CoreProcess}, flow, resolved)
    BY DEF Hits
  <2> QED BY <1>1, <2>1, RuleLeaves DEF CoreRule
<1>5. Ends(IcmpRules(settings), free, free, flow, mode)
  <2>1. ~Hits("icmp", {}, {}, {}, {}, flow, resolved)
    BY WordsDiffer, NoWordIsNone DEF Hits
  <2>2. /\ Ends(<<Full(<<"direct">>, NoWord, NoWord, "icmp", {}, {}, {}, {})>>, free, free, flow, mode)
        /\ Ends(<<Full(<<>>, "reject", NoWord, "icmp", {}, {}, {}, {})>>, free, free, flow, mode)
    BY <1>1, <2>1, RuleLeaves
  <2>3. PICK d, r : /\ d = Full(<<"direct">>, NoWord, NoWord, "icmp", {}, {}, {}, {})
                    /\ r = Full(<<>>, "reject", NoWord, "icmp", {}, {}, {}, {})
    OBVIOUS
  <2>4. IcmpRules(settings) \in {<<d>>, <<r>>, <<>>}
    BY <2>3 DEF IcmpRules
  <2> QED BY <2>2, <2>3, <2>4, EndsNone
<1>6. PICK a, b, c, d : a = <<MdnsRule>> /\ b = <<MulticastRule>> /\ c = <<CoreRule>>
                        /\ d = IcmpRules(settings)
  OBVIOUS
<1>7. TunRules(settings) = a \o b \o c \o d
  BY <1>6, FixedRules, ThreeAre
<1>8. Ends(a \o b, free, free, flow, mode)
  BY <1>2, <1>3, <1>6, EndsBoth
<1>9. Ends(a \o b \o c, free, free, flow, mode)
  BY <1>4, <1>6, <1>8, EndsBoth
<1>10. Ends(a \o b \o c \o d, free, free, flow, mode)
  BY <1>5, <1>6, <1>9, EndsBoth
<1> QED BY <1>1, <1>7, <1>10

\* What the core itself sends with a TUN goes out, in every mode.
LEMMA CoreGoesOut ==
    ASSUME NEW settings, NEW flow, NEW mode, NEW resolved,
           flow.port # "mdns", Multicast \notin flow.ip, CoreProcess \in flow.process
    PROVE  Ends(TunRules(settings), At(<<>>, resolved), At(<<"direct">>, resolved), flow, mode)
<1>1. PICK free, won : free = At(<<>>, resolved) /\ won = At(<<"direct">>, resolved)
  OBVIOUS
<1>2. Ends(<<MdnsRule>>, free, free, flow, mode)
  <2>1. ~Hits("mdns", {}, {}, {}, {}, flow, resolved)
    BY WordsDiffer, NoWordIsNone DEF Hits
  <2> QED BY <1>1, <2>1, RuleLeaves DEF MdnsRule
<1>3. Ends(<<MulticastRule>>, free, free, flow, mode)
  <2>1. ~Hits(NoWord, {}, {Multicast}, {}, {}, flow, resolved)
    BY DEF Hits
  <2> QED BY <1>1, <2>1, RuleLeaves DEF MulticastRule
<1>4. Ends(<<CoreRule>>, free, won, flow, mode)
  <2>1. Hits(NoWord, {}, {}, {}, {CoreProcess}, flow, resolved)
    BY DEF Hits
  <2>2. Then(<<"direct">>, NoWord, resolved) = won
    BY <1>1, NoWordIsNone DEF Then
  <2> QED BY <1>1, <2>1, <2>2, RuleTakes DEF CoreRule
<1>5. IsList(IcmpRules(settings))
  <2>1. PICK d, r : /\ d = Full(<<"direct">>, NoWord, NoWord, "icmp", {}, {}, {}, {})
                    /\ r = Full(<<>>, "reject", NoWord, "icmp", {}, {}, {}, {})
    OBVIOUS
  <2>2. IcmpRules(settings) \in {<<d>>, <<r>>, <<>>}
    BY <2>1 DEF IcmpRules
  <2> QED BY <2>2, OneIsList, EmptyIsList
<1>6. PICK a, b, c, d : a = <<MdnsRule>> /\ b = <<MulticastRule>> /\ c = <<CoreRule>>
                        /\ d = IcmpRules(settings)
  OBVIOUS
<1>7. TunRules(settings) = a \o b \o c \o d
  BY <1>6, FixedRules, ThreeAre
<1>8. Ends(a \o b, free, free, flow, mode)
  BY <1>2, <1>3, <1>6, EndsBoth
<1>9. Ends(a \o b \o c, free, won, flow, mode)
  BY <1>4, <1>6, <1>8, EndsBoth
<1>10. Ends(d, won, won, flow, mode)
  <2>1. IsTag(<<"direct">>)
    BY DEF IsTag
  <2> QED BY <1>1, <1>5, <1>6, <2>1, EndsWon
<1>11. Ends(a \o b \o c \o d, free, won, flow, mode)
  BY <1>9, <1>10, EndsBoth
<1> QED BY <1>1, <1>7, <1>11

-----------------------------------------------------------------------------
(* The rules of the route.                                                  *)

\* The rules before those of the user, and what they know of a connection.
TunPart(settings, tun) == IF tun THEN TunRules(settings) ELSE <<>>
SniffPart(settings) == IF settings.sniff THEN <<SniffRule>> ELSE <<>>
OnDemandPart(settings) == IF settings.strategy = "IPOnDemand" THEN <<ResolveRule>> ELSE <<>>
Known(settings, flow) ==
    \/ flow.literal
    \/ settings.strategy = "IPOnDemand"
    \/ flow.domain \cap HostNames(settings) # {}

LEMMA RouteIs ==
    ASSUME NEW settings, NEW tun
    PROVE  RouteRules(settings, tun)
              = TunPart(settings, tun) \o SniffPart(settings) \o <<DnsPortRule>>
                \o HostsRules(settings) \o <<PriorityIs, DirectRule, GlobalRule>>
                \o OnDemandPart(settings) \o UserRules(settings, FALSE) \o NonMatchRules(settings)
<1>1. PICK s, r, h, p, d, g :
         /\ s = Does("sniff") /\ r = Does("resolve") /\ h = WithPort(Does("hijack-dns"), "53")
         /\ p = PriorityRule(ProxyTag) /\ d = WithMode(Goes(<<"direct">>), "Direct")
         /\ g = WithMode(Goes(ProxyTag), "Global")
  OBVIOUS
<1>2. /\ s = SniffRule /\ r = ResolveRule /\ h = DnsPortRule /\ p = PriorityIs /\ d = DirectRule
      /\ g = GlobalRule
  BY <1>1, FixedRules
<1>3. PICK tunPart, sniff, demand :
         /\ tunPart = (IF tun THEN TunRules(settings) ELSE <<>>)
         /\ sniff = (IF settings.sniff THEN <<s>> ELSE <<>>)
         /\ demand = (IF settings.strategy = "IPOnDemand" THEN <<r>> ELSE <<>>)
  OBVIOUS
<1>4. RouteRules(settings, tun)
         = tunPart \o sniff \o <<h>> \o HostsRules(settings) \o <<p, d, g>>
           \o demand \o UserRules(settings, FALSE) \o NonMatchRules(settings)
  BY <1>1, <1>3 DEF RouteRules, WithPort, WithMode
<1>5. /\ tunPart = TunPart(settings, tun) /\ sniff = SniffPart(settings)
      /\ demand = OnDemandPart(settings)
  BY <1>2, <1>3 DEF TunPart, SniffPart, OnDemandPart
<1> QED BY <1>2, <1>4, <1>5

LEMMA SniffEnds ==
    ASSUME NEW settings, NEW flow, NEW mode, NEW resolved
    PROVE  Ends(SniffPart(settings), At(<<>>, resolved), At(<<>>, resolved), flow, mode)
<1>1. Ends(<<SniffRule>>, At(<<>>, resolved), At(<<>>, resolved), flow, mode)
  BY RuleLeaves DEF SniffRule
<1> QED BY <1>1, EndsNone DEF SniffPart

LEMMA DnsPortEnds ==
    ASSUME NEW flow, flow.port # "53", NEW mode, NEW resolved
    PROVE  Ends(<<DnsPortRule>>, At(<<>>, resolved), At(<<>>, resolved), flow, mode)
<1>1. ~Hits("53", {}, {}, {}, {}, flow, resolved)
  BY WordsDiffer, NoWordIsNone DEF Hits
<1> QED BY <1>1, RuleLeaves DEF DnsPortRule

\* Names of the hosts are resolved.
LEMMA HostsEnd ==
    ASSUME NEW settings, NEW flow, NEW mode, NEW resolved \in BOOLEAN, NEW after \in BOOLEAN,
           after <=> resolved \/ flow.domain \cap HostNames(settings) # {}
    PROVE  Ends(HostsRules(settings), At(<<>>, resolved), At(<<>>, after), flow, mode)
<1>1. PICK names : names = HostNames(settings)
  OBVIOUS
<1>2. HostsRules(settings) = IF names = {} THEN <<>> ELSE <<NamesRule(names)>>
  BY <1>1, FixedRules
<1>3. CASE flow.domain \cap names # {}
  <2>1. names # {} /\ after = TRUE
    BY <1>1, <1>3
  <2>2. Hits(NoWord, names, {}, {}, {}, flow, resolved)
    BY <1>3 DEF Hits
  <2>3. Then(<<>>, "resolve", resolved) = At(<<>>, TRUE)
    BY WordsDiffer DEF Then
  <2>4. Ends(<<NamesRule(names)>>, At(<<>>, resolved), At(<<>>, TRUE), flow, mode)
    <3>1. PICK end : end = Then(<<>>, "resolve", resolved)
      OBVIOUS
    <3>2. Ends(<<Full(<<>>, "resolve", NoWord, NoWord, names, {}, {}, {})>>, At(<<>>, resolved),
               end, flow, mode)
      BY <2>2, <3>1, RuleTakes
    <3>3. end = At(<<>>, TRUE)
      BY <2>3, <3>1
    <3> QED BY <3>2, <3>3 DEF NamesRule
  <2> QED BY <1>2, <2>1, <2>4
<1>4. CASE flow.domain \cap names = {}
  <2>1. after = resolved
    <3>1. after <=> resolved
      BY ONLY <1>1, <1>4, after <=> resolved \/ flow.domain \cap HostNames(settings) # {}
    <3> QED BY ONLY <3>1, after \in BOOLEAN, resolved \in BOOLEAN
  <2>2. CASE names = {}
    BY <1>2, <2>1, <2>2, EndsNone
  <2>3. CASE names # {}
    <3>1. ~Hits(NoWord, names, {}, {}, {}, flow, resolved)
      BY <1>4, <2>3 DEF Hits
    <3>2. Ends(<<NamesRule(names)>>, At(<<>>, resolved), At(<<>>, resolved), flow, mode)
      BY <3>1, RuleLeaves DEF NamesRule
    <3> QED BY <1>2, <2>1, <2>3, <3>2
  <2> QED BY <2>2, <2>3
<1> QED BY <1>3, <1>4

LEMMA ModesEnd ==
    ASSUME NEW flow, PriorityDomain \notin flow.domain, NEW resolved
    PROVE  Ends(<<PriorityIs, DirectRule, GlobalRule>>, At(<<>>, resolved), At(<<>>, resolved),
                flow, "Rule")
<1>1. PICK free : free = At(<<>>, resolved)
  OBVIOUS
<1>2. Ends(<<PriorityIs>>, free, free, flow, "Rule")
  <2>1. ~Hits(NoWord, {PriorityDomain}, {}, {}, {}, flow, resolved)
    BY DEF Hits
  <2> QED BY <1>1, <2>1, RuleLeaves DEF PriorityIs
<1>3. Ends(<<DirectRule>>, free, free, flow, "Rule")
  BY <1>1, RuleLeaves, WordsDiffer, NoWordIsNone DEF DirectRule
<1>4. Ends(<<GlobalRule>>, free, free, flow, "Rule")
  BY <1>1, RuleLeaves, WordsDiffer, NoWordIsNone DEF GlobalRule
<1>5. PICK a, b, c : a = <<PriorityIs>> /\ b = <<DirectRule>> /\ c = <<GlobalRule>>
  OBVIOUS
<1>6. <<PriorityIs, DirectRule, GlobalRule>> = a \o b \o c
  BY <1>5, ThreeAre
<1>7. Ends(a \o b, free, free, flow, "Rule")
  BY <1>2, <1>3, <1>5, EndsBoth
<1>8. Ends(a \o b \o c, free, free, flow, "Rule")
  BY <1>4, <1>5, <1>7, EndsBoth
<1> QED BY <1>1, <1>6, <1>8

LEMMA ResolveEnds ==
    ASSUME NEW flow, NEW mode, NEW resolved
    PROVE  Ends(<<ResolveRule>>, At(<<>>, resolved), At(<<>>, TRUE), flow, mode)
<1>1. Hits(NoWord, {}, {}, {}, {}, flow, resolved)
  BY DEF Hits
<1>2. Then(<<>>, "resolve", resolved) = At(<<>>, TRUE)
  BY WordsDiffer DEF Then
<1> QED BY <1>1, <1>2, RuleTakes DEF ResolveRule

\* What is before the rules of the user.
Before(settings, tun) ==
    TunPart(settings, tun) \o SniffPart(settings) \o <<DnsPortRule>>
    \o HostsRules(settings) \o <<PriorityIs, DirectRule, GlobalRule>> \o OnDemandPart(settings)

LEMMA BeforeEnds ==
    ASSUME NEW settings, NEW tun \in BOOLEAN, NEW flow, flow.literal \in BOOLEAN,
           ~TakenByFixedRule(flow, tun), NEW known \in BOOLEAN, known <=> Known(settings, flow)
    PROVE  Ends(Before(settings, tun), At(<<>>, flow.literal), At(<<>>, known), flow, "Rule")
<1>1. PICK literal \in BOOLEAN : literal = flow.literal
  OBVIOUS
<1>2. PICK named \in BOOLEAN : named <=> literal \/ flow.domain \cap HostNames(settings) # {}
  OBVIOUS
<1>3. PICK a, b, c : a = At(<<>>, literal) /\ b = At(<<>>, named) /\ c = At(<<>>, known)
  OBVIOUS
<1>4. PICK l1, l2, l3, l4, l5, l6 :
         /\ l1 = TunPart(settings, tun) /\ l2 = SniffPart(settings) /\ l3 = <<DnsPortRule>>
         /\ l4 = HostsRules(settings) /\ l5 = <<PriorityIs, DirectRule, GlobalRule>>
         /\ l6 = OnDemandPart(settings)
  OBVIOUS
<1>5. Ends(l1, a, a, flow, "Rule")
  <2>1. CASE tun
    <3>1. /\ flow.port # "mdns" /\ flow.port # "icmp" /\ Multicast \notin flow.ip
          /\ CoreProcess \notin flow.process
      BY <2>1 DEF TakenByFixedRule
    <3>2. Ends(TunRules(settings), a, a, flow, "Rule")
      BY <1>3, <3>1, TunEnds
    <3> QED BY <1>4, <2>1, <3>2 DEF TunPart
  <2>2. CASE ~tun
    <3>1. l1 = <<>>
      BY <1>4, <2>2 DEF TunPart
    <3> QED BY <3>1, EndsNone
  <2> QED BY <2>1, <2>2
<1>6. Ends(l2, a, a, flow, "Rule")
  BY <1>3, <1>4, SniffEnds
<1>7. Ends(l3, a, a, flow, "Rule")
  <2>1. flow.port # "53"
    BY DEF TakenByFixedRule
  <2> QED BY <1>3, <1>4, <2>1, DnsPortEnds
<1>8. Ends(l4, a, b, flow, "Rule")
  BY <1>2, <1>3, <1>4, HostsEnd
<1>9. Ends(l5, b, b, flow, "Rule")
  <2>1. PriorityDomain \notin flow.domain
    BY DEF TakenByFixedRule
  <2> QED BY <1>3, <1>4, <2>1, ModesEnd
<1>10. Ends(l6, b, c, flow, "Rule")
  <2>1. CASE settings.strategy = "IPOnDemand"
    <3>1. known = TRUE /\ l6 = <<ResolveRule>>
      BY <1>4, <2>1 DEF Known, OnDemandPart
    <3>2. Ends(<<ResolveRule>>, At(<<>>, named), At(<<>>, TRUE), flow, "Rule")
      BY ResolveEnds
    <3> QED BY <1>3, <3>1, <3>2
  <2>2. CASE settings.strategy # "IPOnDemand"
    <3>1. l6 = <<>>
      BY <1>4, <2>2 DEF OnDemandPart
    <3>2. known = named
      BY <1>1, <1>2, <2>2 DEF Known
    <3>3. b = c
      BY <1>3, <3>2
    <3> QED BY <3>1, <3>3, EndsNone
  <2> QED BY <2>1, <2>2
<1>11. PICK m2, m3, m4, m5, m6 : m2 = l1 \o l2 /\ m3 = m2 \o l3 /\ m4 = m3 \o l4 /\ m5 = m4 \o l5
                                 /\ m6 = m5 \o l6
  OBVIOUS
<1>12. Ends(m2, a, a, flow, "Rule")
  BY <1>5, <1>6, <1>11, EndsBoth
<1>13. Ends(m3, a, a, flow, "Rule")
  BY <1>7, <1>11, <1>12, EndsBoth
<1>14. Ends(m4, a, b, flow, "Rule")
  BY <1>8, <1>11, <1>13, EndsBoth
<1>15. Ends(m5, a, b, flow, "Rule")
  BY <1>9, <1>11, <1>14, EndsBoth
<1>16. Ends(m6, a, c, flow, "Rule")
  BY <1>10, <1>11, <1>15, EndsBoth
<1>17. Before(settings, tun) = m6
  BY <1>4, <1>11 DEF Before
<1> QED BY <1>1, <1>3, <1>16, <1>17

First(rules, flow, known) ==
    {i \in DOMAIN rules : FirstTakes(rules, i, FALSE, flow, known)}
Later(settings, flow) ==
    IF settings.strategy = "IPIfNonMatch" THEN First(settings.rules, flow, TRUE) ELSE {}
Taken(settings, flow, known) ==
    LET now == First(settings.rules, flow, known)
    IN  IF now # {} THEN now ELSE Later(settings, flow)

LEMMA KnownMatters ==
    ASSUME NEW flow, NEW a, NEW b, a <=> b, NEW rule
    PROVE  Accepts(rule, flow, a) <=> Accepts(rule, flow, b)
BY DEF Accepts

\* The index set of Written, by its condition.
Seen(rules, flow, known) ==
    {i \in DOMAIN rules :
        /\ ForTraffic(rules[i]) /\ Accepts(rules[i], flow, known)
        /\ \A j \in 1 .. i - 1 : ~(ForTraffic(rules[j]) /\ Accepts(rules[j], flow, known))}

LEMMA SeenIsFirst ==
    ASSUME NEW rules, NEW flow, NEW a, NEW b, a <=> b
    PROVE  Seen(rules, flow, a) = First(rules, flow, b)
<1>1. \A rule : (ForTraffic(rule) /\ Accepts(rule, flow, a)) <=> Takes(rule, FALSE, flow, b)
  BY KnownMatters DEF Takes, Asked
<1> QED BY <1>1 DEF Seen, First, FirstTakes

LEMMA WrittenIs ==
    ASSUME NEW settings, NEW flow, NEW known, known <=> Known(settings, flow)
    PROVE  Written(settings, flow)
              = IF Taken(settings, flow, known) = {} THEN ProxyTag
                ELSE Goal(RuleTarget(settings.rules[CHOOSE i \in Taken(settings, flow, known) : TRUE]))
<1>1. PICK rules : rules = settings.rules
  OBVIOUS
<1>2. PICK now, later, takers :
         /\ now = Seen(rules, flow, \/ flow.literal
                                    \/ settings.strategy = "IPOnDemand"
                                    \/ flow.domain \cap HostNames(settings) # {})
         /\ later = (IF settings.strategy = "IPIfNonMatch" THEN Seen(rules, flow, TRUE) ELSE {})
         /\ takers = (IF now # {} THEN now ELSE later)
  OBVIOUS
<1>3. Written(settings, flow)
         = IF takers = {} THEN ProxyTag
           ELSE Goal(RuleTarget(rules[CHOOSE i \in takers : TRUE]))
  BY <1>1, <1>2 DEF Written, Seen, Goal
<1>4. known <=> \/ flow.literal
                \/ settings.strategy = "IPOnDemand"
                \/ flow.domain \cap HostNames(settings) # {}
  BY DEF Known
<1>5. now = First(rules, flow, known)
  BY <1>2, <1>4, SeenIsFirst
<1>6. later = Later(settings, flow)
  BY <1>1, <1>2, SeenIsFirst DEF Later
<1>7. takers = Taken(settings, flow, known)
  BY <1>1, <1>2, <1>5, <1>6 DEF Taken
<1> QED BY <1>1, <1>3, <1>7

\* What only takes a connection when its address is known has addresses, so
\* that asking those again is asking all.
LEMMA AskedAgain ==
    ASSUME NEW rules, NEW flow, NEW known, NoneTakes(rules, FALSE, flow, known), NEW i \in DOMAIN rules
    PROVE  Takes(rules[i], FALSE, flow, TRUE) <=> Takes(rules[i], TRUE, flow, TRUE)
<1>1. PICK rule : rule = rules[i]
  OBVIOUS
<1>2. ~(ForTraffic(rule) /\ Accepts(rule, flow, known))
  BY <1>1 DEF NoneTakes, Takes, Asked
<1>3. ASSUME ForTraffic(rule), Accepts(rule, flow, TRUE) PROVE rule.ip # {}
  <2>1. PICK address : address = ParsedAddresses(rule.ip, FALSE)
    OBVIOUS
  <2>2. address # {}
    BY <1>2, <1>3, <2>1 DEF Accepts
  <2> QED BY <2>1, <2>2 DEF ParsedAddresses
<1> QED BY <1>1, <1>3 DEF Takes, Asked

LEMMA FirstAgain ==
    ASSUME NEW rules, IsList(rules), NEW flow, NEW known, NoneTakes(rules, FALSE, flow, known)
    PROVE  /\ \A i \in DOMAIN rules : FirstTakes(rules, i, FALSE, flow, TRUE)
                                         <=> FirstTakes(rules, i, TRUE, flow, TRUE)
           /\ NoneTakes(rules, FALSE, flow, TRUE) <=> NoneTakes(rules, TRUE, flow, TRUE)
<1>1. DOMAIN rules = 1 .. Len(rules) /\ Len(rules) \in Nat
  BY ListFacts
<1>2. \A i \in DOMAIN rules : \A j \in 1 .. i - 1 : j \in DOMAIN rules
  BY <1>1
<1> QED BY <1>2, AskedAgain DEF FirstTakes, NoneTakes

LEMMA NonMatchIs ==
    ASSUME NEW settings
    PROVE  NonMatchRules(settings)
              = IF settings.strategy = "IPIfNonMatch" THEN <<ResolveRule>> \o UserRules(settings, TRUE)
                ELSE <<>>
<1>1. PICK r : r = Does("resolve")
  OBVIOUS
<1>2. r = ResolveRule
  BY <1>1, FixedRules
<1> QED BY <1>1, <1>2 DEF NonMatchRules

\* What an end of the rules means.
VerdictOf(end) == IF end.verdict = <<>> THEN ProxyTag ELSE end.verdict

LEMMA VerdictIs ==
    ASSUME NEW rules, NEW flow, NEW mode, NEW end,
           Ends(rules, At(<<>>, flow.literal), end, flow, mode)
    PROVE  Verdict(rules, flow, mode) = VerdictOf(end)
BY DEF Verdict, VerdictOf, Ends, At

LEMMA VerdictOfAt ==
    ASSUME NEW resolved, NEW target, IsTag(target)
    PROVE  /\ VerdictOf(At(<<>>, resolved)) = ProxyTag
           /\ VerdictOf(At(Goal(target), resolved)) = Goal(target)
           /\ VerdictOf(At(target, resolved)) = target
BY AtFields, GoalIsOne DEF VerdictOf, IsTag

LEMMA UserRulesEnd ==
    ASSUME NEW settings, OrdinaryRules(settings.rules), NEW addressed, NEW flow,
           NEW resolved \in BOOLEAN, NEW mode
    PROVE  /\ IsList(UserRules(settings, addressed))
           /\ NoneTakes(settings.rules, addressed, flow, resolved) =>
                 Ends(UserRules(settings, addressed), At(<<>>, resolved), At(<<>>, resolved),
                      flow, mode)
           /\ \A i \in DOMAIN settings.rules :
                 FirstTakes(settings.rules, i, addressed, flow, resolved) =>
                    Ends(UserRules(settings, addressed), At(<<>>, resolved),
                         At(Goal(RuleTarget(settings.rules[i])), resolved), flow, mode)
<1>1. PICK list : list = UserRules(settings, addressed)
  OBVIOUS
<1>2. /\ IsList(list)
      /\ NoneTakes(settings.rules, addressed, flow, resolved) =>
            Passed(list, At(<<>>, resolved), flow, mode) = At(<<>>, resolved)
      /\ \A i \in DOMAIN settings.rules :
            FirstTakes(settings.rules, i, addressed, flow, resolved) =>
               Passed(list, At(<<>>, resolved), flow, mode)
                  = At(Goal(RuleTarget(settings.rules[i])), resolved)
  BY <1>1, UserRulesTake
<1> QED BY <1>1, <1>2 DEF Ends

\* The verdict is what is written, for every connection and all rules.
LEMMA VerdictIsWritten ==
    ASSUME NEW settings, OrdinaryRules(settings.rules), NEW tun \in BOOLEAN, NEW flow,
           flow.literal \in BOOLEAN, ~TakenByFixedRule(flow, tun)
    PROVE  Verdict(RouteRules(settings, tun), flow, "Rule") = Written(settings, flow)
<1>1. PICK known \in BOOLEAN : known <=> Known(settings, flow)
  BY DEF Known
<1>2. PICK start, free, rules :
         start = At(<<>>, flow.literal) /\ free = At(<<>>, known) /\ rules = settings.rules
  OBVIOUS
<1>3. PICK b, u, m : /\ b = Before(settings, tun) /\ u = UserRules(settings, FALSE)
                     /\ m = NonMatchRules(settings)
  OBVIOUS
<1>4. RouteRules(settings, tun) = b \o u \o m
  BY <1>3, RouteIs DEF Before
<1>5. Ends(b, start, free, flow, "Rule")
  BY <1>1, <1>2, <1>3, BeforeEnds
<1>6. /\ IsList(u)
      /\ NoneTakes(rules, FALSE, flow, known) => Ends(u, free, free, flow, "Rule")
      /\ \A i \in DOMAIN rules : FirstTakes(rules, i, FALSE, flow, known) =>
            Ends(u, free, At(Goal(RuleTarget(rules[i])), known), flow, "Rule")
  <2>1. /\ IsList(UserRules(settings, FALSE))
        /\ NoneTakes(settings.rules, FALSE, flow, known) =>
              Ends(UserRules(settings, FALSE), At(<<>>, known), At(<<>>, known), flow, "Rule")
        /\ \A i \in DOMAIN settings.rules :
              FirstTakes(settings.rules, i, FALSE, flow, known) =>
                 Ends(UserRules(settings, FALSE), At(<<>>, known),
                      At(Goal(RuleTarget(settings.rules[i])), known), flow, "Rule")
    BY UserRulesEnd
  <2> QED BY <1>2, <1>3, <2>1
<1>7. PICK w : w = UserRules(settings, TRUE)
  OBVIOUS
<1>8. PICK resolved : resolved = At(<<>>, TRUE)
  OBVIOUS
<1>9. /\ IsList(w)
      /\ NoneTakes(rules, TRUE, flow, TRUE) => Ends(w, resolved, resolved, flow, "Rule")
      /\ \A i \in DOMAIN rules : FirstTakes(rules, i, TRUE, flow, TRUE) =>
            Ends(w, resolved, At(Goal(RuleTarget(rules[i])), TRUE), flow, "Rule")
  <2>1. /\ IsList(UserRules(settings, TRUE))
        /\ NoneTakes(settings.rules, TRUE, flow, TRUE) =>
              Ends(UserRules(settings, TRUE), At(<<>>, TRUE), At(<<>>, TRUE), flow, "Rule")
        /\ \A i \in DOMAIN settings.rules :
              FirstTakes(settings.rules, i, TRUE, flow, TRUE) =>
                 Ends(UserRules(settings, TRUE), At(<<>>, TRUE),
                      At(Goal(RuleTarget(settings.rules[i])), TRUE), flow, "Rule")
    BY UserRulesEnd
  <2> QED BY <1>2, <1>7, <1>8, <2>1
<1>10. IsList(m)
  <2>1. PICK r : r = <<ResolveRule>>
    OBVIOUS
  <2>2. IsList(r) /\ IsList(r \o w)
    BY <1>9, <2>1, OneIsList, Joined
  <2> QED BY <1>3, <1>7, <2>1, <2>2, NonMatchIs, EmptyIsList
<1>11. PICK takers : takers = Taken(settings, flow, known)
  OBVIOUS
<1>12. Written(settings, flow)
          = IF takers = {} THEN ProxyTag ELSE Goal(RuleTarget(rules[CHOOSE i \in takers : TRUE]))
  BY <1>1, <1>2, <1>11, WrittenIs
<1>13. PICK v : v = Verdict(RouteRules(settings, tun), flow, "Rule")
  OBVIOUS
<1>14. ASSUME NEW end, Ends(b \o u \o m, start, end, flow, "Rule") PROVE v = VerdictOf(end)
  BY <1>2, <1>4, <1>13, <1>14, VerdictIs
<1>15. IsList(rules)
  BY <1>2 DEF OrdinaryRules
<1>16. CASE \E i \in DOMAIN rules : FirstTakes(rules, i, FALSE, flow, known)
  <2>1. PICK i : i = CHOOSE t \in takers : TRUE
    OBVIOUS
  <2>2. takers # {} /\ takers = First(rules, flow, known)
    BY <1>2, <1>11, <1>16 DEF Taken, First
  <2>3. i \in takers
    BY <2>1, <2>2
  <2>4. i \in DOMAIN rules /\ FirstTakes(rules, i, FALSE, flow, known)
    BY <2>2, <2>3 DEF First
  <2>5. PICK target, won : target = RuleTarget(rules[i]) /\ won = At(Goal(target), known)
    OBVIOUS
  <2>6. IsTag(target) /\ IsTag(Goal(target))
    BY <2>5, TargetsAreTags, GoalIsOne DEF IsTag
  <2>7. Ends(u, free, won, flow, "Rule")
    BY <1>6, <2>4, <2>5
  <2>8. Ends(b \o u, start, won, flow, "Rule")
    BY <1>5, <2>7, EndsBoth
  <2>9. Ends(m, won, won, flow, "Rule")
    BY <1>10, <2>5, <2>6, EndsWon
  <2>10. Ends(b \o u \o m, start, won, flow, "Rule")
    BY <2>8, <2>9, EndsBoth
  <2>11. v = Goal(target)
    BY <1>14, <2>5, <2>6, <2>10, VerdictOfAt
  <2> QED BY <1>12, <1>13, <2>1, <2>2, <2>5, <2>11
<1>17. CASE NoneTakes(rules, FALSE, flow, known)
  <2>1. Ends(b \o u, start, free, flow, "Rule")
    BY <1>5, <1>6, <1>17, EndsBoth
  <2>2. First(rules, flow, known) = {}
    BY <1>17 DEF First, FirstTakes, NoneTakes
  <2>3. takers = Later(settings, flow)
    BY <1>2, <1>11, <2>2 DEF Taken
  <2>4. CASE settings.strategy # "IPIfNonMatch"
    <3>1. m = <<>> /\ takers = {}
      BY <1>3, <2>3, <2>4, NonMatchIs DEF Later
    <3>2. Ends(m, free, free, flow, "Rule")
      BY <3>1, EndsNone
    <3>3. Ends(b \o u \o m, start, free, flow, "Rule")
      BY <2>1, <3>2, EndsBoth
    <3>4. VerdictOf(free) = ProxyTag
      BY <1>2, AtFields DEF VerdictOf
    <3> QED BY <1>12, <1>13, <1>14, <3>1, <3>3, <3>4
  <2>5. CASE settings.strategy = "IPIfNonMatch"
    <3>1. PICK r : r = <<ResolveRule>>
      OBVIOUS
    <3>2. m = r \o w
      BY <1>3, <1>7, <2>5, <3>1, NonMatchIs
    <3>3. Ends(r, free, resolved, flow, "Rule")
      BY <1>2, <1>8, <3>1, ResolveEnds
    <3>4. takers = First(rules, flow, TRUE)
      BY <1>2, <2>3, <2>5 DEF Later
    <3>5. CASE NoneTakes(rules, FALSE, flow, TRUE)
      <4>1. NoneTakes(rules, TRUE, flow, TRUE)
        BY <1>15, <1>17, <3>5, FirstAgain
      <4>2. takers = {}
        BY <3>4, <3>5 DEF First, FirstTakes, NoneTakes
      <4>3. Ends(m, free, resolved, flow, "Rule")
        BY <1>9, <3>2, <3>3, <4>1, EndsBoth
      <4>4. Ends(b \o u \o m, start, resolved, flow, "Rule")
        BY <2>1, <4>3, EndsBoth
      <4>5. VerdictOf(resolved) = ProxyTag
        BY <1>8, AtFields DEF VerdictOf
      <4> QED BY <1>12, <1>13, <1>14, <4>2, <4>4, <4>5
    <3>6. CASE \E i \in DOMAIN rules : FirstTakes(rules, i, FALSE, flow, TRUE)
      <4>1. PICK i : i = CHOOSE t \in takers : TRUE
        OBVIOUS
      <4>2. takers # {}
        BY <3>4, <3>6 DEF First
      <4>3. i \in takers
        BY <4>1, <4>2
      <4>4. i \in DOMAIN rules /\ FirstTakes(rules, i, FALSE, flow, TRUE)
        BY <3>4, <4>3 DEF First
      <4>5. FirstTakes(rules, i, TRUE, flow, TRUE)
        BY <1>15, <1>17, <4>4, FirstAgain
      <4>6. PICK target, won : target = RuleTarget(rules[i]) /\ won = At(Goal(target), TRUE)
        OBVIOUS
      <4>7. IsTag(target)
        BY <4>6, TargetsAreTags
      <4>8. Ends(w, resolved, won, flow, "Rule")
        BY <1>9, <4>4, <4>5, <4>6
      <4>9. Ends(m, free, won, flow, "Rule")
        BY <3>2, <3>3, <4>8, EndsBoth
      <4>10. Ends(b \o u \o m, start, won, flow, "Rule")
        BY <2>1, <4>9, EndsBoth
      <4>11. v = Goal(target)
        BY <1>14, <4>6, <4>7, <4>10, VerdictOfAt
      <4> QED BY <1>12, <1>13, <4>1, <4>2, <4>6, <4>11
    <3> QED BY <1>15, <3>5, <3>6, FirstOrNone
  <2> QED BY <2>4, <2>5
<1> QED BY <1>15, <1>16, <1>17, FirstOrNone

LEMMA NonMatchIsList ==
    ASSUME NEW settings, OrdinaryRules(settings.rules)
    PROVE  IsList(NonMatchRules(settings)) /\ IsList(UserRules(settings, FALSE))
<1>1. PICK w, u, r : w = UserRules(settings, TRUE) /\ u = UserRules(settings, FALSE)
                     /\ r = <<ResolveRule>>
  OBVIOUS
<1>2. IsList(UserRules(settings, TRUE)) /\ IsList(UserRules(settings, FALSE))
  BY UserRulesEnd
<1>3. IsList(r) /\ IsList(r \o w)
  BY <1>1, <1>2, OneIsList, Joined
<1> QED BY <1>1, <1>2, <1>3, NonMatchIs, EmptyIsList

LEMMA PartsAreLists ==
    ASSUME NEW settings
    PROVE  /\ IsList(SniffPart(settings)) /\ IsList(<<DnsPortRule>>)
           /\ IsList(HostsRules(settings)) /\ IsList(<<PriorityIs, DirectRule, GlobalRule>>)
           /\ IsList(OnDemandPart(settings))
<1>1. \A r : IsList(<<r>>)
  BY OneIsList
<1>2. PICK names : names = HostNames(settings)
  OBVIOUS
<1>3. HostsRules(settings) = IF names = {} THEN <<>> ELSE <<NamesRule(names)>>
  BY <1>2, FixedRules
<1>4. IsList(<<PriorityIs, DirectRule, GlobalRule>>)
  <2>1. PICK a, b, c : a = PriorityIs /\ b = DirectRule /\ c = GlobalRule
    OBVIOUS
  <2>2. <<a, b, c>> \in Seq({a, b, c})
    OBVIOUS
  <2>3. IsList(<<a, b, c>>)
    BY <2>2 DEF IsList
  <2> QED BY <2>1, <2>3
<1> QED BY <1>1, <1>3, <1>4, EmptyIsList DEF SniffPart, OnDemandPart

LEMMA CoreStaysOut ==
    ASSUME NEW settings, OrdinaryRules(settings.rules), NEW flow, NEW mode,
           flow.port # "mdns", Multicast \notin flow.ip, CoreProcess \in flow.process
    PROVE  Verdict(RouteRules(settings, TRUE), flow, mode) = <<"direct">>
<1>1. PICK start, won : start = At(<<>>, flow.literal) /\ won = At(<<"direct">>, flow.literal)
  OBVIOUS
<1>2. PICK l1, l2, l3, l4, l5, l6, l7, l8 :
         /\ l1 = TunPart(settings, TRUE) /\ l2 = SniffPart(settings) /\ l3 = <<DnsPortRule>>
         /\ l4 = HostsRules(settings) /\ l5 = <<PriorityIs, DirectRule, GlobalRule>>
         /\ l6 = OnDemandPart(settings) /\ l7 = UserRules(settings, FALSE)
         /\ l8 = NonMatchRules(settings)
  OBVIOUS
<1>3. /\ IsList(l2) /\ IsList(l3) /\ IsList(l4) /\ IsList(l5) /\ IsList(l6) /\ IsList(l7)
      /\ IsList(l8)
  BY <1>2, PartsAreLists, NonMatchIsList
<1>4. Ends(l1, start, won, flow, mode)
  <2>1. l1 = TunRules(settings)
    BY <1>2 DEF TunPart
  <2> QED BY <1>1, <2>1, CoreGoesOut
<1>5. \A list : IsList(list) => Ends(list, won, won, flow, mode)
  <2>1. IsTag(<<"direct">>)
    BY DEF IsTag
  <2> QED BY <1>1, <2>1, EndsWon
<1>6. \A a, b : Ends(a, start, won, flow, mode) /\ IsList(b) => Ends(a \o b, start, won, flow, mode)
  BY <1>5, EndsBoth
<1>7. PICK m2, m3, m4, m5, m6, m7, m8 :
         /\ m2 = l1 \o l2 /\ m3 = m2 \o l3 /\ m4 = m3 \o l4 /\ m5 = m4 \o l5 /\ m6 = m5 \o l6
         /\ m7 = m6 \o l7 /\ m8 = m7 \o l8
  OBVIOUS
<1>8. Ends(m4, start, won, flow, mode)
  BY <1>3, <1>4, <1>6, <1>7
<1>9. Ends(m8, start, won, flow, mode)
  BY <1>3, <1>6, <1>7, <1>8
<1>10. RouteRules(settings, TRUE) = m8
  BY <1>2, <1>7, RouteIs
<1>11. Verdict(m8, flow, mode) = VerdictOf(won)
  BY <1>1, <1>9, VerdictIs
<1>12. VerdictOf(won) = <<"direct">>
  BY <1>1, AtFields DEF VerdictOf
<1> QED BY <1>10, <1>11, <1>12

LEMMA RulesAlwaysDecide ==
    ASSUME NEW settings, OrdinaryRules(settings.rules), \A flow \in Flows : flow.literal \in BOOLEAN,
           NEW tun \in BOOLEAN
    PROVE  RulesDecide(settings, tun)
<1>1. ASSUME NEW flow \in Flows, ~TakenByFixedRule(flow, tun)
      PROVE  Verdict(RouteRules(settings, tun), flow, "Rule") = Written(settings, flow)
  BY <1>1, VerdictIsWritten
<1>2. ASSUME NEW flow \in Flows, tun, CoreProcess \in flow.process, flow.port # "mdns",
             Multicast \notin flow.ip, NEW mode
      PROVE  Verdict(RouteRules(settings, tun), flow, mode) = <<"direct">>
  <2>1. tun = TRUE
    BY <1>2
  <2>2. Verdict(RouteRules(settings, TRUE), flow, mode) = <<"direct">>
    BY <1>2, CoreStaysOut
  <2> QED BY <2>1, <2>2
<1> QED BY <1>1, <1>2 DEF RulesDecide

-----------------------------------------------------------------------------
(* The first DNS rule that takes a name.                                    *)

AnswerOf(rule) == IF rule.action # NoWord THEN rule.action ELSE rule.out

\* All allowed of a list are some of those; without any the list is silent.
Keeps(list, allowed, name, hosts, region, mode) ==
    /\ IsList(list)
    /\ \A i \in 1 .. Len(list) :
          TakesName(list[i], name, hosts, region, mode) => AnswerOf(list[i]) \in allowed
Says(list, answer, name, hosts, region, mode) ==
    /\ IsList(list)
    /\ \E k \in 1 .. Len(list) :
          /\ TakesName(list[k], name, hosts, region, mode) /\ AnswerOf(list[k]) = answer
          /\ \A j \in 1 .. k - 1 : ~TakesName(list[j], name, hosts, region, mode)

LEMMA KeepsVerdict ==
    ASSUME NEW rules, NEW allowed, NEW name, NEW hosts, NEW region, NEW mode,
           Keeps(rules, allowed, name, hosts, region, mode)
    PROVE  DnsVerdict(rules, name, hosts, region, mode) \in allowed \cup {"final"}
<1>1. PICK taking :
         taking = {i \in DOMAIN rules : TakesName(rules[i], name, hosts, region, mode)}
  OBVIOUS
<1>2. PICK i : i = CHOOSE t \in taking : \A j \in taking : t <= j
  OBVIOUS
<1>3. DOMAIN rules = 1 .. Len(rules) /\ Len(rules) \in Nat
  BY ListFacts DEF Keeps
<1>4. CASE taking = {}
  <2>1. DnsVerdict(rules, name, hosts, region, mode) = "final"
    BY <1>1, <1>4 DEF DnsVerdict
  <2> QED BY <2>1
<1>5. CASE taking # {}
  <2>1. taking \in SUBSET Nat
    BY <1>1, <1>3
  <2>2. \E k \in taking : \A j \in taking : k <= j
    BY <1>5, <2>1, LeastNumber
  <2>3. i \in taking
    BY <1>2, <2>2
  <2>4. AnswerOf(rules[i]) \in allowed
    BY <1>1, <1>3, <2>3 DEF Keeps
  <2>5. DnsVerdict(rules, name, hosts, region, mode) = AnswerOf(rules[i])
    BY <1>1, <1>2, <1>5 DEF DnsVerdict, AnswerOf
  <2> QED BY <2>4, <2>5
<1> QED BY <1>4, <1>5

LEMMA SaysVerdict ==
    ASSUME NEW rules, NEW answer, NEW name, NEW hosts, NEW region, NEW mode,
           Says(rules, answer, name, hosts, region, mode)
    PROVE  DnsVerdict(rules, name, hosts, region, mode) = answer
<1>1. PICK taking :
         taking = {i \in DOMAIN rules : TakesName(rules[i], name, hosts, region, mode)}
  OBVIOUS
<1>2. PICK i : i = CHOOSE t \in taking : \A j \in taking : t <= j
  OBVIOUS
<1>3. DOMAIN rules = 1 .. Len(rules) /\ Len(rules) \in Nat
  BY ListFacts DEF Says
<1>4. PICK k \in 1 .. Len(rules) :
         /\ TakesName(rules[k], name, hosts, region, mode) /\ AnswerOf(rules[k]) = answer
         /\ \A j \in 1 .. k - 1 : ~TakesName(rules[j], name, hosts, region, mode)
  BY DEF Says
<1>5. k \in taking
  BY <1>1, <1>3, <1>4
<1>6. ASSUME NEW j \in taking PROVE k <= j
  <2>1. j \in 1 .. Len(rules) /\ TakesName(rules[j], name, hosts, region, mode)
    BY <1>1, <1>3
  <2>2. j \notin 1 .. k - 1
    BY <1>4, <2>1
  <2> QED BY <1>3, <2>1, <2>2
<1>7. i \in taking /\ \A j \in taking : i <= j
  BY <1>2, <1>5, <1>6
<1>8. i = k
  <2>1. i <= k /\ k <= i
    BY <1>5, <1>6, <1>7
  <2>2. i \in Int /\ k \in Int
    BY <1>1, <1>3, <1>4, <1>7
  <2> QED BY <2>1, <2>2
<1>9. DnsVerdict(rules, name, hosts, region, mode) = AnswerOf(rules[i])
  BY <1>1, <1>2, <1>5 DEF DnsVerdict, AnswerOf
<1> QED BY <1>4, <1>8, <1>9

LEMMA KeepsBoth ==
    ASSUME NEW a, NEW b, NEW allowed, NEW name, NEW hosts, NEW region, NEW mode,
           Keeps(a, allowed, name, hosts, region, mode),
           Keeps(b, allowed, name, hosts, region, mode)
    PROVE  Keeps(a \o b, allowed, name, hosts, region, mode)
<1>1. PICK c : c = a \o b
  OBVIOUS
<1>2. IsList(a) /\ IsList(b)
  BY DEF Keeps
<1>3. /\ IsList(c) /\ Len(c) = Len(a) + Len(b)
      /\ \A i \in 1 .. Len(a) : c[i] = a[i]
      /\ \A i \in 1 .. Len(b) : c[Len(a) + i] = b[i]
  BY <1>1, <1>2, Joined
<1>4. Len(a) \in Nat /\ Len(b) \in Nat
  BY <1>2, ListFacts
<1>5. ASSUME NEW i \in 1 .. Len(c), TakesName(c[i], name, hosts, region, mode)
      PROVE  AnswerOf(c[i]) \in allowed
  <2>1. CASE i \in 1 .. Len(a)
    BY <1>3, <1>5, <2>1 DEF Keeps
  <2>2. CASE i \notin 1 .. Len(a)
    <3>1. i - Len(a) \in 1 .. Len(b) /\ Len(a) + (i - Len(a)) = i
      BY <1>3, <1>4, <2>2
    <3>2. c[i] = b[i - Len(a)]
      BY <1>3, <3>1
    <3> QED BY <1>5, <3>1, <3>2 DEF Keeps
  <2> QED BY <2>1, <2>2
<1> QED BY <1>1, <1>3, <1>5 DEF Keeps

LEMMA SaysAfter ==
    ASSUME NEW a, NEW b, NEW answer, NEW name, NEW hosts, NEW region, NEW mode,
           Keeps(a, {}, name, hosts, region, mode), Says(b, answer, name, hosts, region, mode)
    PROVE  Says(a \o b, answer, name, hosts, region, mode)
<1>1. PICK c : c = a \o b
  OBVIOUS
<1>2. IsList(a) /\ IsList(b)
  BY DEF Keeps, Says
<1>3. /\ IsList(c) /\ Len(c) = Len(a) + Len(b)
      /\ \A i \in 1 .. Len(a) : c[i] = a[i]
      /\ \A i \in 1 .. Len(b) : c[Len(a) + i] = b[i]
  BY <1>1, <1>2, Joined
<1>4. Len(a) \in Nat /\ Len(b) \in Nat
  BY <1>2, ListFacts
<1>5. PICK k \in 1 .. Len(b) :
         /\ TakesName(b[k], name, hosts, region, mode) /\ AnswerOf(b[k]) = answer
         /\ \A j \in 1 .. k - 1 : ~TakesName(b[j], name, hosts, region, mode)
  BY DEF Says
<1>6. PICK m : m = Len(a) + k
  OBVIOUS
<1>7. m \in 1 .. Len(c) /\ c[m] = b[k]
  BY <1>3, <1>4, <1>6
<1>8. ASSUME NEW j \in 1 .. m - 1 PROVE ~TakesName(c[j], name, hosts, region, mode)
  <2>1. CASE j \in 1 .. Len(a)
    BY <1>3, <2>1 DEF Keeps
  <2>2. CASE j \notin 1 .. Len(a)
    <3>1. /\ j - Len(a) \in 1 .. k - 1 /\ j - Len(a) \in 1 .. Len(b)
          /\ Len(a) + (j - Len(a)) = j
      BY <1>4, <1>6, <2>2
    <3>2. c[j] = b[j - Len(a)]
      BY <1>3, <3>1
    <3> QED BY <1>5, <3>1, <3>2
  <2> QED BY <2>1, <2>2
<1> QED BY <1>1, <1>3, <1>5, <1>7, <1>8 DEF Says

LEMMA SaysBefore ==
    ASSUME NEW a, NEW b, NEW answer, NEW name, NEW hosts, NEW region, NEW mode,
           Says(a, answer, name, hosts, region, mode), IsList(b)
    PROVE  Says(a \o b, answer, name, hosts, region, mode)
<1>1. PICK c : c = a \o b
  OBVIOUS
<1>2. IsList(a) /\ IsList(b)
  BY DEF Says
<1>3. IsList(c) /\ Len(c) = Len(a) + Len(b) /\ \A i \in 1 .. Len(a) : c[i] = a[i]
  BY <1>1, <1>2, Joined
<1>4. Len(a) \in Nat /\ Len(b) \in Nat
  BY <1>2, ListFacts
<1>5. PICK k \in 1 .. Len(a) :
         /\ TakesName(a[k], name, hosts, region, mode) /\ AnswerOf(a[k]) = answer
         /\ \A j \in 1 .. k - 1 : ~TakesName(a[j], name, hosts, region, mode)
  BY DEF Says
<1>6. k \in 1 .. Len(c) /\ \A j \in 1 .. k - 1 : j \in 1 .. Len(a)
  BY <1>3, <1>4
<1> QED BY <1>1, <1>3, <1>5, <1>6 DEF Says

LEMMA KeepsNone ==
    ASSUME NEW allowed, NEW name, NEW hosts, NEW region, NEW mode
    PROVE  Keeps(<<>>, allowed, name, hosts, region, mode)
<1>1. 1 .. 0 = {}
  OBVIOUS
<1> QED BY <1>1, EmptyIsList DEF Keeps

LEMMA KeepsOne ==
    ASSUME NEW r, NEW allowed, NEW name, NEW hosts, NEW region, NEW mode,
           TakesName(r, name, hosts, region, mode) => AnswerOf(r) \in allowed
    PROVE  Keeps(<<r>>, allowed, name, hosts, region, mode)
<1>1. PICK list : list = <<r>>
  OBVIOUS
<1>2. IsList(list) /\ Len(list) = 1 /\ list[1] = r
  BY <1>1, OneIsList
<1>3. \A i \in 1 .. Len(list) : i = 1
  BY <1>2
<1> QED BY <1>1, <1>2, <1>3 DEF Keeps

LEMMA SaysOne ==
    ASSUME NEW r, NEW name, NEW hosts, NEW region, NEW mode,
           TakesName(r, name, hosts, region, mode)
    PROVE  Says(<<r>>, AnswerOf(r), name, hosts, region, mode)
<1>1. PICK list : list = <<r>>
  OBVIOUS
<1>2. IsList(list) /\ Len(list) = 1 /\ list[1] = r
  BY <1>1, OneIsList
<1>3. 1 \in 1 .. Len(list) /\ 1 .. 1 - 1 = {}
  BY <1>2
<1> QED BY <1>1, <1>2, <1>3 DEF Says

\* A list that is put together of lists.
LEMMA KeepsAll ==
    ASSUME NEW n \in Nat, NEW lists, IsList(lists), Len(lists) = n,
           NEW allowed, NEW name, NEW hosts, NEW region, NEW mode,
           \A i \in 1 .. n : Keeps(lists[i], allowed, name, hosts, region, mode)
    PROVE  Keeps(FlattenSeq(lists), allowed, name, hosts, region, mode)
<1>1. \A i \in 1 .. n : IsList(lists[i])
  BY DEF Keeps
<1>2. PICK f : Steps(f, n, lists)
  BY <1>1, FlattenSteps DEF AllLists
<1> USE <1>2 DEF Steps
<1> DEFINE Kept(i) == Keeps(f[i], allowed, name, hosts, region, mode)
           Bad == {m \in 0 .. n : ~Kept(m)}
<1>3. Kept(0)
  BY <1>2, KeepsNone
<1>4. ASSUME NEW i \in 1 .. n, Kept(i - 1) PROVE Kept(i)
  <2>1. PICK a, b : a = f[i - 1] /\ b = lists[i]
    OBVIOUS
  <2>2. /\ Keeps(a, allowed, name, hosts, region, mode)
        /\ Keeps(b, allowed, name, hosts, region, mode)
    BY <1>4, <2>1
  <2>3. f[i] = a \o b
    BY <1>2, <2>1
  <2> QED BY <2>2, <2>3, KeepsBoth
<1> HIDE DEF Kept
<1>5. ASSUME Bad # {} PROVE FALSE
  <2>1. Bad \in SUBSET Nat
    OBVIOUS
  <2>2. PICK m \in Bad : \A j \in Bad : m <= j
    BY <1>5, <2>1, LeastNumber
  <2>3. m # 0 /\ m \in 0 .. n
    BY <1>3, <2>2
  <2>4. m \in 1 .. n /\ m - 1 \in 0 .. n /\ ~(m <= m - 1)
    BY <2>3
  <2> QED BY <1>4, <2>2, <2>4
<1>6. Kept(n)
  BY <1>5
<1> QED BY <1>2, <1>6 DEF Kept

LEMMA SaysFirst ==
    ASSUME NEW n \in Nat, NEW lists, IsList(lists), Len(lists) = n,
           \A i \in 1 .. n : IsList(lists[i]),
           NEW answer, NEW name, NEW hosts, NEW region, NEW mode, NEW k \in 1 .. n,
           Says(lists[k], answer, name, hosts, region, mode),
           \A i \in 1 .. k - 1 : Keeps(lists[i], {}, name, hosts, region, mode)
    PROVE  Says(FlattenSeq(lists), answer, name, hosts, region, mode)
<1>1. PICK f : Steps(f, n, lists)
  BY FlattenSteps DEF AllLists
<1> USE <1>1 DEF Steps
<1> DEFINE Kept(i) == Keeps(f[i], {}, name, hosts, region, mode)
           Said(i) == Says(f[i], answer, name, hosts, region, mode)
<1>2. Kept(0)
  BY <1>1, KeepsNone
<1>3. ASSUME NEW i \in 1 .. k - 1, Kept(i - 1) PROVE Kept(i)
  <2> i \in 1 .. n
    OBVIOUS
  <2>1. PICK a, b : a = f[i - 1] /\ b = lists[i]
    OBVIOUS
  <2>2. /\ Keeps(a, {}, name, hosts, region, mode)
        /\ Keeps(b, {}, name, hosts, region, mode)
    BY <1>3, <2>1
  <2>3. f[i] = a \o b
    BY <1>1, <2>1
  <2> QED BY <2>2, <2>3, KeepsBoth
<1>4. Kept(k - 1) => Said(k)
  <2>1. PICK a, b : a = f[k - 1] /\ b = lists[k]
    OBVIOUS
  <2>2. f[k] = a \o b
    BY <1>1, <2>1
  <2>3. Says(b, answer, name, hosts, region, mode)
    BY <2>1
  <2> QED BY <2>1, <2>2, <2>3, SaysAfter
<1>5. ASSUME NEW i \in 1 .. n, Said(i - 1) PROVE Said(i)
  <2>1. PICK a, b : a = f[i - 1] /\ b = lists[i]
    OBVIOUS
  <2>2. Says(a, answer, name, hosts, region, mode) /\ IsList(b)
    BY <1>5, <2>1
  <2>3. f[i] = a \o b
    BY <1>1, <2>1
  <2> QED BY <2>2, <2>3, SaysBefore
<1> HIDE DEF Kept, Said
<1>6. Kept(k - 1)
  <2> DEFINE Bad == {m \in 0 .. k - 1 : ~Kept(m)}
  <2>1. ASSUME Bad # {} PROVE FALSE
    <3>1. Bad \in SUBSET Nat
      OBVIOUS
    <3>2. PICK m \in Bad : \A j \in Bad : m <= j
      BY <2>1, <3>1, LeastNumber
    <3>3. m # 0 /\ m \in 0 .. k - 1
      BY <1>2, <3>2
    <3>4. m \in 1 .. k - 1 /\ m - 1 \in 0 .. k - 1 /\ ~(m <= m - 1)
      BY <3>3
    <3> QED BY <1>3, <3>2, <3>4
  <2> QED BY <2>1
<1>7. Said(n)
  <2> DEFINE Bad == {m \in k .. n : ~Said(m)}
  <2>1. ASSUME Bad # {} PROVE FALSE
    <3>1. Bad \in SUBSET Nat
      OBVIOUS
    <3>2. PICK m \in Bad : \A j \in Bad : m <= j
      BY <2>1, <3>1, LeastNumber
    <3>3. m # k /\ m \in k .. n
      BY <1>4, <1>6, <3>2
    <3>4. m \in 1 .. n /\ m - 1 \in k .. n /\ ~(m <= m - 1)
      BY <3>3
    <3> QED BY <1>5, <3>2, <3>4
  <2>2. n \in k .. n
    OBVIOUS
  <2> QED BY <2>1, <2>2
<1> QED BY <1>1, <1>7 DEF Said

-----------------------------------------------------------------------------
(* The rules of the DNS.                                                    *)

Accepting(server, domain) == [DnsRule(server, domain) EXCEPT !.accepts = TRUE]
OfMode(server, domain, m) == [DnsRule(server, domain) EXCEPT !.mode = m]
OfQuery(server, domain) == [DnsRule(server, domain) EXCEPT !.query = "a"]
Doing(server, domain, action) == [DnsRule(server, domain) EXCEPT !.action = action]
OfRegions(server, domain, regions) == [DnsRule(server, domain) EXCEPT !.regions = regions]
InDomain(domain, name) == domain = {} \/ domain \cap name # {}

LEMMA DnsRuleIs ==
    ASSUME NEW server, NEW domain, NEW r, r = DnsRule(server, domain)
    PROVE  r = [out |-> server, action |-> NoWord, mode |-> NoWord, domain |-> domain, ip |-> {},
                except |-> {}, query |-> NoWord, regions |-> {}, accepts |-> FALSE]
BY DEF DnsRule

LEMMA DnsPlain ==
    ASSUME NEW server, NEW domain, NEW name, NEW hosts, NEW region, NEW mode
    PROVE  /\ TakesName(DnsRule(server, domain), name, hosts, region, mode) <=> InDomain(domain, name)
           /\ AnswerOf(DnsRule(server, domain)) = server
<1>1. PICK r : r = DnsRule(server, domain)
  OBVIOUS
<1>2. /\ r.out = server /\ r.action = NoWord /\ r.mode = NoWord /\ r.domain = domain
      /\ r.regions = {} /\ r.accepts = FALSE
  BY <1>1 DEF DnsRule
<1>3. /\ TakesName(r, name, hosts, region, mode) <=> InDomain(domain, name)
      /\ AnswerOf(r) = server
  BY <1>2 DEF TakesName, AnswerOf, InDomain
<1> QED BY <1>1, <1>3

LEMMA DnsAccepting ==
    ASSUME NEW server, NEW domain, NEW name, NEW hosts, NEW region, NEW mode
    PROVE  /\ TakesName(Accepting(server, domain), name, hosts, region, mode)
                 <=> hosts /\ InDomain(domain, name)
           /\ AnswerOf(Accepting(server, domain)) = server
<1>1. PICK r : r = DnsRule(server, domain)
  OBVIOUS
<1>2. r = [out |-> server, action |-> NoWord, mode |-> NoWord, domain |-> domain, ip |-> {},
           except |-> {}, query |-> NoWord, regions |-> {}, accepts |-> FALSE]
  BY <1>1, DnsRuleIs
<1>3. PICK s : s = [r EXCEPT !.accepts = TRUE]
  OBVIOUS
<1>4. /\ s.out = server /\ s.action = NoWord /\ s.mode = NoWord /\ s.domain = domain
      /\ s.regions = {} /\ s.accepts = TRUE
  BY ONLY <1>2, <1>3
<1>5. /\ TakesName(s, name, hosts, region, mode) <=> hosts /\ InDomain(domain, name)
      /\ AnswerOf(s) = server
  BY <1>4 DEF TakesName, AnswerOf, InDomain
<1>6. s = Accepting(server, domain)
  BY <1>1, <1>3 DEF Accepting
<1> QED BY <1>5, <1>6

LEMMA DnsOfMode ==
    ASSUME NEW server, NEW domain, NEW m, NEW name, NEW hosts, NEW region, NEW mode
    PROVE  /\ TakesName(OfMode(server, domain, m), name, hosts, region, mode)
                 <=> m \in {NoWord, mode} /\ InDomain(domain, name)
           /\ AnswerOf(OfMode(server, domain, m)) = server
<1>1. PICK r : r = DnsRule(server, domain)
  OBVIOUS
<1>2. r = [out |-> server, action |-> NoWord, mode |-> NoWord, domain |-> domain, ip |-> {},
           except |-> {}, query |-> NoWord, regions |-> {}, accepts |-> FALSE]
  BY <1>1, DnsRuleIs
<1>3. PICK s : s = [r EXCEPT !.mode = m]
  OBVIOUS
<1>4. /\ s.out = server /\ s.action = NoWord /\ s.mode = m /\ s.domain = domain
      /\ s.regions = {} /\ s.accepts = FALSE
  BY ONLY <1>2, <1>3
<1>5. /\ TakesName(s, name, hosts, region, mode)
            <=> m \in {NoWord, mode} /\ InDomain(domain, name)
      /\ AnswerOf(s) = server
  BY <1>4 DEF TakesName, AnswerOf, InDomain
<1>6. s = OfMode(server, domain, m)
  BY <1>1, <1>3 DEF OfMode
<1> QED BY <1>5, <1>6

LEMMA DnsOfQuery ==
    ASSUME NEW server, NEW domain, NEW name, NEW hosts, NEW region, NEW mode
    PROVE  /\ TakesName(OfQuery(server, domain), name, hosts, region, mode) <=> InDomain(domain, name)
           /\ AnswerOf(OfQuery(server, domain)) = server
<1>1. PICK r : r = DnsRule(server, domain)
  OBVIOUS
<1>2. r = [out |-> server, action |-> NoWord, mode |-> NoWord, domain |-> domain, ip |-> {},
           except |-> {}, query |-> NoWord, regions |-> {}, accepts |-> FALSE]
  BY <1>1, DnsRuleIs
<1>3. PICK s : s = [r EXCEPT !.query = "a"]
  OBVIOUS
<1>4. /\ s.out = server /\ s.action = NoWord /\ s.mode = NoWord /\ s.domain = domain
      /\ s.regions = {} /\ s.accepts = FALSE
  BY ONLY <1>2, <1>3
<1>5. /\ TakesName(s, name, hosts, region, mode) <=> InDomain(domain, name)
      /\ AnswerOf(s) = server
  BY <1>4 DEF TakesName, AnswerOf, InDomain
<1>6. s = OfQuery(server, domain)
  BY <1>1, <1>3 DEF OfQuery
<1> QED BY <1>5, <1>6

LEMMA DnsDoing ==
    ASSUME NEW server, NEW domain, NEW action, action # NoWord, NEW name, NEW hosts, NEW region,
           NEW mode
    PROVE  /\ TakesName(Doing(server, domain, action), name, hosts, region, mode)
                 <=> InDomain(domain, name)
           /\ AnswerOf(Doing(server, domain, action)) = action
<1>1. PICK r : r = DnsRule(server, domain)
  OBVIOUS
<1>2. r = [out |-> server, action |-> NoWord, mode |-> NoWord, domain |-> domain, ip |-> {},
           except |-> {}, query |-> NoWord, regions |-> {}, accepts |-> FALSE]
  BY <1>1, DnsRuleIs
<1>3. PICK s : s = [r EXCEPT !.action = action]
  OBVIOUS
<1>4. /\ s.out = server /\ s.action = action /\ s.mode = NoWord /\ s.domain = domain
      /\ s.regions = {} /\ s.accepts = FALSE
  BY ONLY <1>2, <1>3
<1>5. /\ TakesName(s, name, hosts, region, mode) <=> InDomain(domain, name)
      /\ AnswerOf(s) = action
  BY <1>4 DEF TakesName, AnswerOf, InDomain
<1>6. s = Doing(server, domain, action)
  BY <1>1, <1>3 DEF Doing
<1> QED BY <1>5, <1>6

LEMMA DnsOfRegions ==
    ASSUME NEW server, NEW domain, NEW g, NEW name, NEW hosts, NEW region, NEW mode
    PROVE  /\ TakesName(OfRegions(server, domain, {g}), name, hosts, region, mode)
                 <=> region = g /\ InDomain(domain, name)
           /\ AnswerOf(OfRegions(server, domain, {g})) = server
<1>1. PICK r : r = DnsRule(server, domain)
  OBVIOUS
<1>2. r = [out |-> server, action |-> NoWord, mode |-> NoWord, domain |-> domain, ip |-> {},
           except |-> {}, query |-> NoWord, regions |-> {}, accepts |-> FALSE]
  BY <1>1, DnsRuleIs
<1>3. PICK one : one = {g}
  OBVIOUS
<1>4. PICK s : s = [r EXCEPT !.regions = one]
  OBVIOUS
<1>5. /\ s.out = server /\ s.action = NoWord /\ s.mode = NoWord /\ s.domain = domain
      /\ s.regions = one /\ s.accepts = FALSE
  BY ONLY <1>2, <1>4
<1>6. /\ TakesName(s, name, hosts, region, mode)
            <=> region = g /\ InDomain(domain, name)
      /\ AnswerOf(s) = server
  BY <1>3, <1>5 DEF TakesName, AnswerOf, InDomain
<1>7. s = OfRegions(server, domain, {g})
  BY <1>1, <1>3, <1>4 DEF OfRegions
<1> QED BY <1>6, <1>7

LEMMA NamesWords ==
    /\ "nxdomain" # NoWord /\ "predefined" # NoWord /\ "predefined" # "direct_dns"
    /\ "fake_dns" # "direct_dns" /\ "remote_dns" # "direct_dns" /\ "nxdomain" # "direct_dns"
    /\ "final" # "direct_dns"
BY Zenon DEF NoWord

-----------------------------------------------------------------------------
(* The rules of one rule of the user.                                       *)

\* Where the names of a rule are asked.
Server(settings, rule) ==
    CASE rule.outbound = "direct" -> "direct_dns"
      [] rule.outbound = "block"  -> "nxdomain"
      [] OTHER -> IF settings.fake = "rules" THEN "fake_dns" ELSE "remote_dns"

NamesOf(settings, rule, domains, regional, plain, inRegion) ==
    /\ domains = ParsedDomains(rule.domain)
    /\ regional = RegionalNames(settings, domains)
    /\ plain = domains \ regional
    /\ inRegion = domains \ {d \in plain : d[1] = "geosite"}

DirectRules(region, inRegion, regional, plain) ==
    (IF regional # {} THEN <<OfRegions("direct_dns", inRegion, {region})>> ELSE <<>>)
    \o (IF plain # {} THEN <<DnsRule("direct_dns", plain)>> ELSE <<>>)
BlockedRules(domains) == <<Doing(NoWord, domains, "nxdomain")>>
ProxiedRules(fake, domains) ==
    (IF fake = "rules" THEN <<OfQuery("fake_dns", domains)>> ELSE <<>>)
    \o <<DnsRule("remote_dns", domains)>>

LEMMA DnsUserRuleIs ==
    ASSUME NEW settings, NEW rule, NEW domains, NEW regional, NEW plain, NEW inRegion,
           NamesOf(settings, rule, domains, regional, plain, inRegion)
    PROVE  DnsUserRule(settings, rule)
              = IF domains = {} THEN <<>>
                ELSE IF rule.outbound = "direct"
                     THEN DirectRules(settings.region, inRegion, regional, plain)
                ELSE IF rule.outbound = "block" THEN BlockedRules(domains)
                ELSE ProxiedRules(settings.fake, domains)
<1>1. CASE domains = {}
  BY <1>1 DEF NamesOf, DnsUserRule
<1>2. CASE domains # {} /\ rule.outbound = "direct"
  BY <1>2 DEF NamesOf, DnsUserRule, OfRegions, DirectRules
<1>3. CASE domains # {} /\ rule.outbound = "block"
  BY <1>3 DEF NamesOf, DnsUserRule, Doing, BlockedRules
<1>4. CASE domains # {} /\ rule.outbound \notin {"direct", "block"}
  BY <1>4 DEF NamesOf, DnsUserRule, OfQuery, ProxiedRules
<1> QED BY <1>1, <1>2, <1>3, <1>4

LEMMA InDomainOf ==
    ASSUME NEW domain, NEW d
    PROVE  InDomain(domain, {d}) <=> domain = {} \/ d \in domain
BY DEF InDomain

LEMMA KeepsSilent ==
    ASSUME NEW r, NEW name, NEW hosts, NEW region, NEW mode,
           ~TakesName(r, name, hosts, region, mode)
    PROVE  Keeps(<<r>>, {}, name, hosts, region, mode)
BY KeepsOne

\* A name that is not of a rule is not takers by what is written for it.
LEMMA OtherNames ==
    ASSUME NEW settings, NEW rule, NEW d, d \notin ParsedDomains(rule.domain),
           NEW hosts, NEW region, NEW mode
    PROVE  Keeps(DnsUserRule(settings, rule), {}, {d}, hosts, region, mode)
<1>1. PICK domains : domains = ParsedDomains(rule.domain)
  OBVIOUS
<1>2. PICK regional : regional = RegionalNames(settings, domains)
  OBVIOUS
<1>3. PICK plain : plain = domains \ regional
  OBVIOUS
<1>4. PICK inRegion : inRegion = domains \ {e \in plain : e[1] = "geosite"}
  OBVIOUS
<1> NamesOf(settings, rule, domains, regional, plain, inRegion)
  BY <1>1, <1>2, <1>3, <1>4 DEF NamesOf
<1>5. PICK list : list = DnsUserRule(settings, rule)
  OBVIOUS
<1>6. list = IF domains = {} THEN <<>>
             ELSE IF rule.outbound = "direct"
                  THEN DirectRules(settings.region, inRegion, regional, plain)
             ELSE IF rule.outbound = "block" THEN BlockedRules(domains)
             ELSE ProxiedRules(settings.fake, domains)
  BY <1>5, DnsUserRuleIs
<1>7. d \notin domains /\ d \notin plain /\ d \notin inRegion
  BY <1>1, <1>3, <1>4
<1>8. regional \subseteq domains
  BY <1>2 DEF RegionalNames
<1>9. CASE domains = {}
  BY <1>5, <1>6, <1>9, KeepsNone
<1>10. CASE domains # {} /\ rule.outbound = "direct"
  <2>1. PICK a, b : /\ a = (IF regional # {}
                            THEN <<OfRegions("direct_dns", inRegion, {settings.region})>> ELSE <<>>)
                    /\ b = (IF plain # {} THEN <<DnsRule("direct_dns", plain)>> ELSE <<>>)
    OBVIOUS
  <2>2. Keeps(a, {}, {d}, hosts, region, mode)
    <3>1. CASE regional # {}
      <4>1. inRegion # {}
        BY <1>3, <1>4, <1>8, <3>1
      <4>2. ~InDomain(inRegion, {d})
        BY <1>7, <4>1, InDomainOf
      <4>3. ~TakesName(OfRegions("direct_dns", inRegion, {settings.region}), {d}, hosts, region, mode)
        BY <4>2, DnsOfRegions
      <4> QED BY <2>1, <3>1, <4>3, KeepsSilent
    <3>2. CASE regional = {}
      BY <2>1, <3>2, KeepsNone
    <3> QED BY <3>1, <3>2
  <2>3. Keeps(b, {}, {d}, hosts, region, mode)
    <3>1. CASE plain # {}
      <4>1. ~InDomain(plain, {d})
        BY <1>7, <3>1, InDomainOf
      <4>2. ~TakesName(DnsRule("direct_dns", plain), {d}, hosts, region, mode)
        BY <4>1, DnsPlain
      <4> QED BY <2>1, <3>1, <4>2, KeepsSilent
    <3>2. CASE plain = {}
      BY <2>1, <3>2, KeepsNone
    <3> QED BY <3>1, <3>2
  <2>4. list = a \o b
    BY <1>6, <1>10, <2>1 DEF DirectRules
  <2> QED BY <1>5, <2>2, <2>3, <2>4, KeepsBoth
<1>11. CASE domains # {} /\ rule.outbound = "block"
  <2>1. ~InDomain(domains, {d})
    BY <1>7, <1>11, InDomainOf
  <2>2. ~TakesName(Doing(NoWord, domains, "nxdomain"), {d}, hosts, region, mode)
    BY <2>1, DnsDoing, NamesWords
  <2> QED BY <1>5, <1>6, <1>11, <2>2, KeepsSilent DEF BlockedRules
<1>12. CASE domains # {} /\ rule.outbound \notin {"direct", "block"}
  <2>1. PICK a, b : /\ a = (IF settings.fake = "rules" THEN <<OfQuery("fake_dns", domains)>> ELSE <<>>)
                    /\ b = <<DnsRule("remote_dns", domains)>>
    OBVIOUS
  <2>2. ~InDomain(domains, {d})
    BY <1>7, <1>12, InDomainOf
  <2>3. /\ ~TakesName(OfQuery("fake_dns", domains), {d}, hosts, region, mode)
        /\ ~TakesName(DnsRule("remote_dns", domains), {d}, hosts, region, mode)
    BY <2>2, DnsOfQuery, DnsPlain
  <2>4. Keeps(a, {}, {d}, hosts, region, mode)
    BY <2>1, <2>3, KeepsSilent, KeepsNone
  <2>5. Keeps(b, {}, {d}, hosts, region, mode)
    BY <2>1, <2>3, KeepsSilent
  <2>6. list = a \o b
    BY <1>6, <1>12, <2>1 DEF ProxiedRules
  <2> QED BY <1>5, <2>4, <2>5, <2>6, KeepsBoth
<1> QED BY <1>9, <1>10, <1>11, <1>12

\* A name of a rule is asked where its traffic goes.
LEMMA OwnNames ==
    ASSUME NEW settings, NEW rule, NEW d, d \in ParsedDomains(rule.domain), NEW hosts, NEW mode
    PROVE  Says(DnsUserRule(settings, rule), Server(settings, rule), {d}, hosts, settings.region, mode)
<1>1. PICK domains : domains = ParsedDomains(rule.domain)
  OBVIOUS
<1>2. PICK regional : regional = RegionalNames(settings, domains)
  OBVIOUS
<1>3. PICK plain : plain = domains \ regional
  OBVIOUS
<1>4. PICK inRegion : inRegion = domains \ {e \in plain : e[1] = "geosite"}
  OBVIOUS
<1> NamesOf(settings, rule, domains, regional, plain, inRegion)
  BY <1>1, <1>2, <1>3, <1>4 DEF NamesOf
<1>5. PICK list, region : list = DnsUserRule(settings, rule) /\ region = settings.region
  OBVIOUS
<1>6. d \in domains /\ domains # {}
  BY <1>1
<1>7. list = IF domains = {} THEN <<>>
             ELSE IF rule.outbound = "direct" THEN DirectRules(region, inRegion, regional, plain)
             ELSE IF rule.outbound = "block" THEN BlockedRules(domains)
             ELSE ProxiedRules(settings.fake, domains)
  BY <1>5, DnsUserRuleIs
<1>8. CASE rule.outbound = "direct"
  <2>1. PICK a, b : /\ a = (IF regional # {}
                            THEN <<OfRegions("direct_dns", inRegion, {region})>> ELSE <<>>)
                    /\ b = (IF plain # {} THEN <<DnsRule("direct_dns", plain)>> ELSE <<>>)
    OBVIOUS
  <2>2. list = a \o b
    BY <1>6, <1>7, <1>8, <2>1 DEF DirectRules
  <2>3. regional \subseteq domains
    BY <1>2 DEF RegionalNames
  <2>4. IsList(b)
    BY <2>1, OneIsList, EmptyIsList
  <2>5. Server(settings, rule) = "direct_dns"
    BY <1>8 DEF Server
  <2>6. CASE d \in inRegion /\ regional # {}
    <3>1. PICK r : r = OfRegions("direct_dns", inRegion, {region})
      OBVIOUS
    <3>2. InDomain(inRegion, {d})
      BY <2>6, InDomainOf
    <3>3. TakesName(r, {d}, hosts, region, mode) /\ AnswerOf(r) = "direct_dns"
      BY <3>1, <3>2, DnsOfRegions
    <3>4. a = <<r>>
      BY <2>1, <2>6, <3>1
    <3>5. Says(a, "direct_dns", {d}, hosts, region, mode)
      BY <3>3, <3>4, SaysOne
    <3> QED BY <1>5, <2>2, <2>4, <2>5, <3>5, SaysBefore
  <2>7. CASE ~(d \in inRegion /\ regional # {})
    <3>1. d \in plain
      BY <1>3, <1>4, <1>6, <2>7
    <3>2. PICK r : r = DnsRule("direct_dns", plain)
      OBVIOUS
    <3>3. InDomain(plain, {d})
      BY <3>1, InDomainOf
    <3>4. TakesName(r, {d}, hosts, region, mode) /\ AnswerOf(r) = "direct_dns"
      BY <3>2, <3>3, DnsPlain
    <3>5. b = <<r>>
      BY <2>1, <3>1, <3>2
    <3>6. Says(b, "direct_dns", {d}, hosts, region, mode)
      BY <3>4, <3>5, SaysOne
    <3>7. Keeps(a, {}, {d}, hosts, region, mode)
      <4>1. CASE regional = {}
        BY <2>1, <4>1, KeepsNone
      <4>2. CASE regional # {}
        <5>1. d \notin inRegion /\ inRegion # {}
          BY <1>3, <1>4, <2>3, <2>7, <4>2
        <5>2. ~InDomain(inRegion, {d})
          BY <5>1, InDomainOf
        <5>3. ~TakesName(OfRegions("direct_dns", inRegion, {region}), {d}, hosts, region, mode)
          BY <5>2, DnsOfRegions
        <5> QED BY <2>1, <4>2, <5>3, KeepsSilent
      <4> QED BY <4>1, <4>2
    <3> QED BY <1>5, <2>2, <2>5, <3>6, <3>7, SaysAfter
  <2> QED BY <2>6, <2>7
<1>9. CASE rule.outbound = "block"
  <2>1. PICK r : r = Doing(NoWord, domains, "nxdomain")
    OBVIOUS
  <2>2. InDomain(domains, {d})
    BY <1>6, InDomainOf
  <2>3. TakesName(r, {d}, hosts, region, mode) /\ AnswerOf(r) = "nxdomain"
    BY <2>1, <2>2, DnsDoing, NamesWords
  <2>4. Says(<<r>>, "nxdomain", {d}, hosts, region, mode)
    BY <2>3, SaysOne
  <2>5. Server(settings, rule) = "nxdomain"
    BY <1>9 DEF Server
  <2> QED BY <1>5, <1>6, <1>7, <1>9, <2>1, <2>4, <2>5 DEF BlockedRules
<1>10. CASE rule.outbound \notin {"direct", "block"}
  <2>1. PICK a, b : /\ a = (IF settings.fake = "rules" THEN <<OfQuery("fake_dns", domains)>> ELSE <<>>)
                    /\ b = <<DnsRule("remote_dns", domains)>>
    OBVIOUS
  <2>2. list = a \o b
    BY <1>6, <1>7, <1>10, <2>1 DEF ProxiedRules
  <2>3. InDomain(domains, {d})
    BY <1>6, InDomainOf
  <2>4. PICK q, p : q = OfQuery("fake_dns", domains) /\ p = DnsRule("remote_dns", domains)
    OBVIOUS
  <2>5. /\ TakesName(q, {d}, hosts, region, mode) /\ AnswerOf(q) = "fake_dns"
        /\ TakesName(p, {d}, hosts, region, mode) /\ AnswerOf(p) = "remote_dns"
    BY <2>3, <2>4, DnsOfQuery, DnsPlain
  <2>6. Says(b, "remote_dns", {d}, hosts, region, mode)
    BY <2>1, <2>4, <2>5, SaysOne
  <2>7. CASE settings.fake = "rules"
    <3>1. a = <<q>> /\ Server(settings, rule) = "fake_dns"
      BY <1>10, <2>1, <2>4, <2>7 DEF Server
    <3>2. Says(a, "fake_dns", {d}, hosts, region, mode)
      BY <2>5, <3>1, SaysOne
    <3>3. IsList(b)
      BY <2>6 DEF Says
    <3> QED BY <1>5, <2>2, <3>1, <3>2, <3>3, SaysBefore
  <2>8. CASE settings.fake # "rules"
    <3>1. a = <<>> /\ Server(settings, rule) = "remote_dns"
      BY <1>10, <2>1, <2>8 DEF Server
    <3>2. Keeps(a, {}, {d}, hosts, region, mode)
      BY <3>1, KeepsNone
    <3> QED BY <1>5, <2>2, <2>6, <3>1, <3>2, SaysAfter
  <2> QED BY <2>7, <2>8
<1> QED BY <1>8, <1>9, <1>10

\* The names of the region are not asked directly when the answer is elsewhere.
LEMMA RegionalElsewhere ==
    ASSUME NEW settings, settings.region # NoWord, settings.region # "elsewhere", NEW rule,
           rule.outbound = "direct", NEW d, d = <<"geosite", settings.region>>,
           d \in ParsedDomains(rule.domain), NEW hosts, NEW mode
    PROVE  Keeps(DnsUserRule(settings, rule), {}, {d}, hosts, "elsewhere", mode)
<1>1. PICK domains : domains = ParsedDomains(rule.domain)
  OBVIOUS
<1>2. PICK regional : regional = RegionalNames(settings, domains)
  OBVIOUS
<1>3. PICK plain : plain = domains \ regional
  OBVIOUS
<1>4. PICK inRegion : inRegion = domains \ {e \in plain : e[1] = "geosite"}
  OBVIOUS
<1> NamesOf(settings, rule, domains, regional, plain, inRegion)
  BY <1>1, <1>2, <1>3, <1>4 DEF NamesOf
<1>5. domains # {}
  BY <1>1
<1>6. PICK a, b : /\ a = (IF regional # {}
                          THEN <<OfRegions("direct_dns", inRegion, {settings.region})>> ELSE <<>>)
                  /\ b = (IF plain # {} THEN <<DnsRule("direct_dns", plain)>> ELSE <<>>)
  OBVIOUS
<1>7. DnsUserRule(settings, rule) = a \o b
  <2>1. DnsUserRule(settings, rule) = DirectRules(settings.region, inRegion, regional, plain)
    BY <1>5, DnsUserRuleIs
  <2> QED BY <1>6, <2>1 DEF DirectRules
<1>8. d \in regional /\ d \notin plain
  BY <1>1, <1>2, <1>3 DEF RegionalNames
<1>9. Keeps(a, {}, {d}, hosts, "elsewhere", mode)
  <2>1. PICK g, other : g = settings.region /\ other = "elsewhere"
    OBVIOUS
  <2>2. TakesName(OfRegions("direct_dns", inRegion, {g}), {d}, hosts, other, mode)
           <=> other = g /\ InDomain(inRegion, {d})
    BY DnsOfRegions
  <2>3. ~TakesName(OfRegions("direct_dns", inRegion, {g}), {d}, hosts, other, mode)
    BY <2>1, <2>2
  <2>4. Keeps(<<OfRegions("direct_dns", inRegion, {g})>>, {}, {d}, hosts, other, mode)
    BY <2>3, KeepsSilent
  <2> QED BY <1>6, <2>1, <2>4, KeepsNone
<1>10. Keeps(b, {}, {d}, hosts, "elsewhere", mode)
  <2>1. CASE plain = {}
    BY <1>6, <2>1, KeepsNone
  <2>2. CASE plain # {}
    <3>1. ~InDomain(plain, {d})
      BY <1>8, <2>2, InDomainOf
    <3>2. ~TakesName(DnsRule("direct_dns", plain), {d}, hosts, "elsewhere", mode)
      BY <3>1, DnsPlain
    <3> QED BY <1>6, <2>2, <3>2, KeepsSilent
  <2> QED BY <2>1, <2>2
<1> QED BY <1>7, <1>9, <1>10, KeepsBoth

FixedDns == <<DnsRule("remote_dns", {PriorityDomain}), OfMode("remote_dns", {}, "Global"),
              OfMode("direct_dns", {}, "Direct")>>
ProtectedDns ==
    IF protect # {} THEN <<DnsRule("direct_dns", {<<"full", p>> : p \in protect})>> ELSE <<>>
FakeDns(settings) == IF settings.fake = "global" THEN <<OfQuery("fake_dns", {})>> ELSE <<>>
FakeLast(settings) ==
    IF settings.fake = "rules" /\ ~FinalIsDirect(settings) THEN <<OfQuery("fake_dns", {})>> ELSE <<>>

LEMMA DnsRulesAre ==
    ASSUME NEW settings
    PROVE  DnsRules(settings)
              = <<Accepting("hosts_dns", {})>> \o ProtectedDns \o FixedDns \o HostAnswers(settings)
                \o FakeDns(settings) \o DnsUserRules(settings) \o FakeLast(settings)
BY DEF DnsRules, Accepting, ProtectedDns, FixedDns, OfMode, OfQuery, FakeDns, FakeLast

\* What is written for the names of the i-th rule.
NameLists(settings) ==
    [i \in DOMAIN settings.rules |->
        IF ForNames(settings.rules[i]) THEN DnsUserRule(settings, settings.rules[i]) ELSE <<>>]

LEMMA NameListsAre ==
    ASSUME NEW settings, IsList(settings.rules), NEW lists, lists = NameLists(settings)
    PROVE  /\ IsList(lists) /\ Len(lists) = Len(settings.rules)
           /\ \A i \in 1 .. Len(settings.rules) :
                 lists[i] = IF ForNames(settings.rules[i])
                            THEN DnsUserRule(settings, settings.rules[i]) ELSE <<>>
           /\ DnsUserRules(settings) = FlattenSeq(lists)
<1>1. PICK rules, n : rules = settings.rules /\ n = Len(rules)
  OBVIOUS
<1>2. DOMAIN rules = 1 .. n /\ n \in Nat
  BY <1>1, ListFacts
<1>3. PICK S : S = {IF ForNames(rules[i]) THEN DnsUserRule(settings, rules[i]) ELSE <<>> : i \in 1 .. n}
  OBVIOUS
<1>4. lists = [i \in 1 .. n |->
                 IF ForNames(rules[i]) THEN DnsUserRule(settings, rules[i]) ELSE <<>>]
  BY <1>1, <1>2 DEF NameLists
<1>5. lists \in [1 .. n -> S]
  BY <1>3, <1>4
<1>6. lists \in Seq(S) /\ Len(lists) = n
  BY <1>2, <1>5
<1>7. \A i \in 1 .. n : lists[i] = IF ForNames(rules[i]) THEN DnsUserRule(settings, rules[i])
                                   ELSE <<>>
  BY <1>4
<1>8. DnsUserRules(settings) = FlattenSeq(lists)
  BY DEF DnsUserRules, NameLists
<1>9. IsList(lists)
  BY <1>6 DEF IsList
<1> QED BY <1>1, <1>6, <1>7, <1>8, <1>9

LEMMA DnsUserRuleIsList ==
    ASSUME NEW settings, NEW rule
    PROVE  IsList(DnsUserRule(settings, rule))
<1>1. CASE "x" \in ParsedDomains(rule.domain)
  <2>1. Says(DnsUserRule(settings, rule), Server(settings, rule), {"x"}, TRUE, settings.region, "Rule")
    BY <1>1, OwnNames
  <2> QED BY <2>1 DEF Says
<1>2. CASE "x" \notin ParsedDomains(rule.domain)
  <2>1. Keeps(DnsUserRule(settings, rule), {}, {"x"}, TRUE, settings.region, "Rule")
    BY <1>2, OtherNames
  <2> QED BY <2>1 DEF Keeps
<1> QED BY <1>1, <1>2

LEMMA NameListsAreLists ==
    ASSUME NEW settings, IsList(settings.rules)
    PROVE  AllLists(NameLists(settings)) /\ IsList(DnsUserRules(settings))
<1>1. PICK lists, n : lists = NameLists(settings) /\ n = Len(settings.rules)
  OBVIOUS
<1>2. /\ IsList(lists) /\ Len(lists) = n
      /\ \A i \in 1 .. n : lists[i] = IF ForNames(settings.rules[i])
                                      THEN DnsUserRule(settings, settings.rules[i]) ELSE <<>>
      /\ DnsUserRules(settings) = FlattenSeq(lists)
  BY <1>1, NameListsAre
<1>3. ASSUME NEW i \in 1 .. n PROVE IsList(lists[i])
  <2>1. PICK rule : rule = settings.rules[i]
    OBVIOUS
  <2>2. IsList(DnsUserRule(settings, rule))
    BY DnsUserRuleIsList
  <2> QED BY <1>2, <2>1, <2>2, EmptyIsList
<1>4. AllLists(lists)
  BY <1>2, <1>3 DEF AllLists
<1>5. PICK f : Steps(f, Len(lists), lists)
  BY <1>4, FlattenSteps
<1>6. Len(lists) \in Nat
  BY <1>2, ListFacts
<1>7. IsList(f[Len(lists)]) /\ f[Len(lists)] = FlattenSeq(lists)
  BY <1>5, <1>6 DEF Steps
<1> QED BY <1>1, <1>2, <1>4, <1>7

\* The names in the hosts, as they are asked.
NamesOfHosts(settings) == ParsedDomains({HostDomain(h.name) : h \in settings.hosts})

LEMMA HostNamesParse ==
    ASSUME NEW settings, NEW h \in settings.hosts, ParsedDomains({h.name}) # {}
    PROVE  /\ ParsedDomains({HostDomain(h.name)}) # {}
           /\ ParsedDomains({HostDomain(h.name)}) \subseteq NamesOfHosts(settings)
<1>1. PICK x, y : x = h.name /\ y = HostDomain(h.name)
  OBVIOUS
<1>2. x[1] \notin {"comment", "ext"}
  BY <1>1 DEF ParsedDomains
<1>3. y[1] \notin {"comment", "ext"}
  BY <1>1, <1>2 DEF HostDomain
<1>4. ParsedDomains({y}) # {}
  BY <1>3 DEF ParsedDomains
<1>5. PICK T : T = {HostDomain(g.name) : g \in settings.hosts}
  OBVIOUS
<1>6. y \in T
  BY <1>1, <1>5
<1>7. ParsedDomains({y}) \subseteq ParsedDomains(T)
  BY <1>6 DEF ParsedDomains
<1> QED BY <1>1, <1>4, <1>5, <1>7 DEF NamesOfHosts

LEMMA HostsAnswer ==
    ASSUME NEW settings, IsFiniteSet(settings.hosts), NEW d, NEW hosts, NEW region, NEW mode
    PROVE  /\ Keeps(HostAnswers(settings), {"predefined"}, {d}, hosts, region, mode)
           /\ d \notin NamesOfHosts(settings) =>
                 Keeps(HostAnswers(settings), {}, {d}, hosts, region, mode)
<1>1. PICK H : H = {x \in settings.hosts : ParsedDomains({x.name}) # {}
                                            /\ (x.answer = "ip" => HostDomain(x.name)[1] # "full")}
  OBVIOUS
<1> DEFINE Answer(h) == Doing(NoWord, ParsedDomains({HostDomain(h.name)}), "predefined")
<1>2. PICK S : S = {Answer(h) : h \in H}
  OBVIOUS
<1>3. PICK list : list = HostAnswers(settings)
  OBVIOUS
<1>4. list = SetToSeq(S)
  BY <1>1, <1>2, <1>3 DEF HostAnswers, Doing
<1> HIDE DEF Answer
<1>5. IsFiniteSet(H)
  <2>1. H \subseteq settings.hosts
    BY <1>1
  <2> QED BY <2>1, FS_Subset
<1>6. IsFiniteSet(S)
  <2>1. PICK f : f = [h \in H |-> Answer(h)]
    OBVIOUS
  <2>2. f \in [H -> S] /\ \A s \in S : \E h \in H : f[h] = s
    BY <1>2, <2>1
  <2>3. f \in Surjection(H, S)
    BY <2>2 DEF Surjection
  <2> QED BY <1>5, <2>3, FS_Surjection
<1>7. list \in Seq(S)
  <2>1. PICK n : n = Cardinality(S)
    OBVIOUS
  <2>2. n \in Nat /\ ExistsBijection(1 .. n, S)
    BY <1>6, <2>1, FS_CardinalityType
  <2>3. \E f \in [1 .. n -> S] : IsInjective(f)
    <3>1. PICK f : f \in Bijection(1 .. n, S)
      BY <2>2 DEF ExistsBijection
    <3>2. f \in [1 .. n -> S] /\ \A a, b \in 1 .. n : f[a] = f[b] => a = b
      BY <3>1 DEF Bijection, Injection, Surjection, IsInjective
    <3> QED BY <3>2 DEF IsInjective
  <2>4. list \in [1 .. n -> S]
    BY <1>4, <2>1, <2>3 DEF SetToSeq
  <2> QED BY <2>2, <2>4, SeqDef
<1>8. IsList(list) /\ \A i \in 1 .. Len(list) : list[i] \in S
  BY <1>7 DEF IsList
<1>9. ASSUME NEW i \in 1 .. Len(list)
      PROVE  /\ AnswerOf(list[i]) = "predefined"
             /\ TakesName(list[i], {d}, hosts, region, mode) => d \in NamesOfHosts(settings)
  <2>1. PICK h \in H : list[i] = Answer(h)
    BY <1>2, <1>8
  <2>2. PICK domain : domain = ParsedDomains({HostDomain(h.name)})
    OBVIOUS
  <2>3. domain # {} /\ domain \subseteq NamesOfHosts(settings)
    BY <1>1, <2>2, HostNamesParse
  <2>4. list[i] = Doing(NoWord, domain, "predefined")
    BY <2>1, <2>2 DEF Answer
  <2>5. /\ AnswerOf(Doing(NoWord, domain, "predefined")) = "predefined"
        /\ TakesName(Doing(NoWord, domain, "predefined"), {d}, hosts, region, mode)
              <=> InDomain(domain, {d})
    BY DnsDoing, NamesWords
  <2>6. InDomain(domain, {d}) => d \in NamesOfHosts(settings)
    BY <2>3, InDomainOf
  <2> QED BY <2>4, <2>5, <2>6
<1> QED BY <1>3, <1>8, <1>9 DEF Keeps

LEMMA PartsOfDns ==
    ASSUME NEW settings, IsList(settings.rules), IsFiniteSet(settings.hosts)
    PROVE  /\ IsList(<<Accepting("hosts_dns", {})>>) /\ IsList(ProtectedDns) /\ IsList(FixedDns)
           /\ IsList(HostAnswers(settings)) /\ IsList(FakeDns(settings))
           /\ IsList(DnsUserRules(settings)) /\ IsList(FakeLast(settings))
<1>1. \A r : IsList(<<r>>)
  BY OneIsList
<1>2. IsList(FixedDns)
  <2>1. PICK a, b, c : /\ a = DnsRule("remote_dns", {PriorityDomain})
                       /\ b = OfMode("remote_dns", {}, "Global") /\ c = OfMode("direct_dns", {}, "Direct")
    OBVIOUS
  <2>2. <<a, b, c>> \in Seq({a, b, c})
    OBVIOUS
  <2>3. IsList(<<a, b, c>>)
    BY <2>2 DEF IsList
  <2> QED BY <2>1, <2>3 DEF FixedDns
<1>3. IsList(HostAnswers(settings))
  <2>1. Keeps(HostAnswers(settings), {"predefined"}, {"x"}, TRUE, "x", "Rule")
    BY HostsAnswer
  <2> QED BY <2>1 DEF Keeps
<1>4. IsList(DnsUserRules(settings))
  BY NameListsAreLists
<1> QED BY <1>1, <1>2, <1>3, <1>4, EmptyIsList DEF ProtectedDns, FakeDns, FakeLast

\* A proxy's own name is never asked through the proxy.
LEMMA OwnNameIsDirect ==
    ASSUME NEW settings, IsList(settings.rules), IsFiniteSet(settings.hosts),
           NEW p \in protect, NEW mode, NEW hosts \in BOOLEAN, NEW region
    PROVE  DnsVerdict(DnsRules(settings), {<<"full", p>>}, hosts, region, mode)
              \in {"hosts_dns", "direct_dns"}
<1>1. PICK d, a, b, c, e, f, g, h :
         /\ d = <<"full", p>> /\ a = <<Accepting("hosts_dns", {})>> /\ b = ProtectedDns
         /\ c = FixedDns /\ e = HostAnswers(settings) /\ f = FakeDns(settings)
         /\ g = DnsUserRules(settings) /\ h = FakeLast(settings)
  OBVIOUS
<1>2. /\ IsList(b) /\ IsList(c) /\ IsList(e) /\ IsList(f) /\ IsList(g) /\ IsList(h)
  BY <1>1, PartsOfDns
<1>3. DnsRules(settings) = a \o b \o c \o e \o f \o g \o h
  BY <1>1, DnsRulesAre
<1>4. ASSUME NEW answer, Says(a \o b, answer, {d}, hosts, region, mode)
      PROVE  DnsVerdict(DnsRules(settings), {d}, hosts, region, mode) = answer
  <2>1. PICK m2, m3, m4, m5, m6, m7 :
           /\ m2 = a \o b /\ m3 = m2 \o c /\ m4 = m3 \o e /\ m5 = m4 \o f /\ m6 = m5 \o g
           /\ m7 = m6 \o h
    OBVIOUS
  <2>2. Says(m4, answer, {d}, hosts, region, mode)
    BY <1>2, <1>4, <2>1, SaysBefore
  <2>3. Says(m7, answer, {d}, hosts, region, mode)
    BY <1>2, <2>1, <2>2, SaysBefore
  <2>4. DnsRules(settings) = m7
    BY <1>3, <2>1
  <2> QED BY <2>3, <2>4, SaysVerdict
<1>5. InDomain({}, {d})
  BY InDomainOf
<1>6. PICK r : r = Accepting("hosts_dns", {})
  OBVIOUS
<1>7. TakesName(r, {d}, hosts, region, mode) <=> hosts
  BY <1>5, <1>6, DnsAccepting
<1>8. AnswerOf(r) = "hosts_dns"
  BY <1>6, DnsAccepting
<1>9. CASE hosts
  <2>1. Says(a, "hosts_dns", {d}, hosts, region, mode)
    BY <1>1, <1>6, <1>7, <1>8, <1>9, SaysOne
  <2>2. Says(a \o b, "hosts_dns", {d}, hosts, region, mode)
    BY <1>2, <2>1, SaysBefore
  <2> QED BY <1>1, <1>4, <2>2
<1>10. CASE ~hosts
  <2>1. Keeps(a, {}, {d}, hosts, region, mode)
    BY <1>1, <1>6, <1>7, <1>10, KeepsSilent
  <2>2. PICK own : own = {<<"full", q>> : q \in protect}
    OBVIOUS
  <2>3. PICK s : s = DnsRule("direct_dns", own)
    OBVIOUS
  <2>4. d \in own /\ protect # {}
    BY <1>1, <2>2
  <2>5. b = <<s>>
    BY <1>1, <2>2, <2>3, <2>4 DEF ProtectedDns
  <2>6. InDomain(own, {d})
    BY <2>4, InDomainOf
  <2>7. TakesName(s, {d}, hosts, region, mode) /\ AnswerOf(s) = "direct_dns"
    BY <2>3, <2>6, DnsPlain
  <2>8. Says(b, "direct_dns", {d}, hosts, region, mode)
    BY <2>5, <2>7, SaysOne
  <2>9. Says(a \o b, "direct_dns", {d}, hosts, region, mode)
    BY <2>1, <2>8, SaysAfter
  <2> QED BY <1>1, <1>4, <2>9
<1> QED BY <1>9, <1>10

\* What is asked before the rules of the user in mode Rule.
LEMMA BeforeNames ==
    ASSUME NEW d, d \notin {<<"full", p>> : p \in protect}, d # PriorityDomain, NEW region
    PROVE  /\ Keeps(<<Accepting("hosts_dns", {})>>, {}, {d}, FALSE, region, "Rule")
           /\ Keeps(ProtectedDns, {}, {d}, FALSE, region, "Rule")
           /\ Keeps(FixedDns, {}, {d}, FALSE, region, "Rule")
<1>1. Keeps(<<Accepting("hosts_dns", {})>>, {}, {d}, FALSE, region, "Rule")
  <2>1. PICK r : r = Accepting("hosts_dns", {})
    OBVIOUS
  <2>2. ~TakesName(r, {d}, FALSE, region, "Rule")
    BY <2>1, DnsAccepting
  <2> QED BY <2>1, <2>2, KeepsSilent
<1>2. Keeps(ProtectedDns, {}, {d}, FALSE, region, "Rule")
  <2>1. PICK own : own = {<<"full", p>> : p \in protect}
    OBVIOUS
  <2>2. CASE protect = {}
    BY <2>2, KeepsNone DEF ProtectedDns
  <2>3. CASE protect # {}
    <3>1. PICK s : s = DnsRule("direct_dns", own)
      OBVIOUS
    <3>2. own # {} /\ d \notin own
      BY <2>1, <2>3
    <3>3. ~InDomain(own, {d})
      BY <3>2, InDomainOf
    <3>4. ~TakesName(s, {d}, FALSE, region, "Rule")
      BY <3>1, <3>3, DnsPlain
    <3>5. ProtectedDns = <<s>>
      BY <2>1, <2>3, <3>1 DEF ProtectedDns
    <3> QED BY <3>4, <3>5, KeepsSilent
  <2> QED BY <2>2, <2>3
<1>3. Keeps(FixedDns, {}, {d}, FALSE, region, "Rule")
  <2>1. PICK a, b, c : /\ a = DnsRule("remote_dns", {PriorityDomain})
                       /\ b = OfMode("remote_dns", {}, "Global") /\ c = OfMode("direct_dns", {}, "Direct")
    OBVIOUS
  <2>2. ~TakesName(a, {d}, FALSE, region, "Rule")
    <3>1. ~InDomain({PriorityDomain}, {d})
      BY DEF InDomain
    <3> QED BY <2>1, <3>1, DnsPlain
  <2>3. ~TakesName(b, {d}, FALSE, region, "Rule")
    <3>1. "Global" \notin {NoWord, "Rule"}
      BY NoWordIsNone
    <3> QED BY <2>1, <3>1, DnsOfMode
  <2>4. ~TakesName(c, {d}, FALSE, region, "Rule")
    <3>1. "Direct" \notin {NoWord, "Rule"}
      BY NoWordIsNone
    <3> QED BY <2>1, <3>1, DnsOfMode
  <2>5. /\ Keeps(<<a>>, {}, {d}, FALSE, region, "Rule") /\ Keeps(<<b>>, {}, {d}, FALSE, region, "Rule")
        /\ Keeps(<<c>>, {}, {d}, FALSE, region, "Rule")
    BY <2>2, <2>3, <2>4, KeepsSilent
  <2>6. PICK x, y, z : x = <<a>> /\ y = <<b>> /\ z = <<c>>
    OBVIOUS
  <2>7. Keeps(x \o y, {}, {d}, FALSE, region, "Rule")
    BY <2>5, <2>6, KeepsBoth
  <2>8. Keeps(x \o y \o z, {}, {d}, FALSE, region, "Rule")
    BY <2>5, <2>6, <2>7, KeepsBoth
  <2>9. FixedDns = x \o y \o z
    <3>1. FixedDns = <<a, b, c>>
      BY <2>1 DEF FixedDns
    <3>2. <<a, b, c>> = <<a>> \o <<b>> \o <<c>>
      BY ThreeAre
    <3> QED BY ONLY <2>6, <3>1, <3>2
  <2> QED BY <2>8, <2>9
<1> QED BY <1>1, <1>2, <1>3

\* The first rule that has a name says where it is asked.
HasName(rule, d) == ForNames(rule) /\ d \in ParsedDomains(rule.domain)

LEMMA FirstNameSays ==
    ASSUME NEW settings, IsList(settings.rules), IsFiniteSet(settings.hosts),
           settings.fake # "global", NEW d, d \notin {<<"full", p>> : p \in protect},
           d # PriorityDomain, d \notin NamesOfHosts(settings),
           NEW i \in DOMAIN settings.rules, HasName(settings.rules[i], d),
           \A j \in 1 .. i - 1 : ~HasName(settings.rules[j], d)
    PROVE  DnsVerdict(DnsRules(settings), {d}, FALSE, settings.region, "Rule")
              = Server(settings, settings.rules[i])
<1>1. PICK a, b, c, e, f, g, h :
         /\ a = <<Accepting("hosts_dns", {})>> /\ b = ProtectedDns
         /\ c = FixedDns /\ e = HostAnswers(settings) /\ f = FakeDns(settings)
         /\ g = DnsUserRules(settings) /\ h = FakeLast(settings)
  OBVIOUS
<1>2. PICK region, answer : region = settings.region /\ answer = Server(settings, settings.rules[i])
  OBVIOUS
<1>3. DnsRules(settings) = a \o b \o c \o e \o f \o g \o h
  BY <1>1, DnsRulesAre
<1>4. /\ Keeps(a, {}, {d}, FALSE, region, "Rule") /\ Keeps(b, {}, {d}, FALSE, region, "Rule")
      /\ Keeps(c, {}, {d}, FALSE, region, "Rule")
  BY <1>1, BeforeNames
<1>5. Keeps(e, {}, {d}, FALSE, region, "Rule")
  BY <1>1, HostsAnswer
<1>6. Keeps(f, {}, {d}, FALSE, region, "Rule")
  BY <1>1, KeepsNone DEF FakeDns
<1>7. Says(g, answer, {d}, FALSE, region, "Rule")
  <2>1. PICK lists, n : lists = NameLists(settings) /\ n = Len(settings.rules)
    OBVIOUS
  <2>2. /\ IsList(lists) /\ Len(lists) = n
        /\ \A j \in 1 .. n : lists[j] = IF ForNames(settings.rules[j])
                                        THEN DnsUserRule(settings, settings.rules[j]) ELSE <<>>
        /\ DnsUserRules(settings) = FlattenSeq(lists)
    BY <2>1, NameListsAre
  <2>3. n \in Nat /\ DOMAIN settings.rules = 1 .. n /\ i \in 1 .. n
    BY <2>1, ListFacts
  <2>4. \A j \in 1 .. n : IsList(lists[j])
    BY <2>1, <2>2, NameListsAreLists DEF AllLists
  <2>5. Says(lists[i], answer, {d}, FALSE, region, "Rule")
    <3>1. PICK rule : rule = settings.rules[i]
      OBVIOUS
    <3>2. Says(DnsUserRule(settings, rule), Server(settings, rule), {d}, FALSE, settings.region, "Rule")
      BY <3>1, OwnNames DEF HasName
    <3>3. lists[i] = DnsUserRule(settings, rule)
      BY <2>2, <2>3, <3>1 DEF HasName
    <3> QED BY <1>2, <3>1, <3>2, <3>3
  <2>6. ASSUME NEW j \in 1 .. i - 1 PROVE Keeps(lists[j], {}, {d}, FALSE, region, "Rule")
    <3>1. j \in 1 .. n
      BY <2>3
    <3>2. PICK rule : rule = settings.rules[j]
      OBVIOUS
    <3>3. CASE ForNames(rule)
      <4>1. d \notin ParsedDomains(rule.domain)
        BY <3>2, <3>3 DEF HasName
      <4>2. Keeps(DnsUserRule(settings, rule), {}, {d}, FALSE, region, "Rule")
        BY <4>1, OtherNames
      <4> QED BY <2>2, <3>1, <3>2, <3>3, <4>2
    <3>4. CASE ~ForNames(rule)
      <4>1. lists[j] = <<>>
        BY <2>2, <3>1, <3>2, <3>4
      <4> QED BY <4>1, KeepsNone
    <3> QED BY <3>3, <3>4
  <2>7. Says(FlattenSeq(lists), answer, {d}, FALSE, region, "Rule")
    BY <2>2, <2>3, <2>4, <2>5, <2>6, SaysFirst
  <2> QED BY <1>1, <2>2, <2>7
<1>8. IsList(h)
  BY <1>1, PartsOfDns
<1>9. PICK m2, m3, m4, m5, m6, m7 :
         /\ m2 = a \o b /\ m3 = m2 \o c /\ m4 = m3 \o e /\ m5 = m4 \o f /\ m6 = m5 \o g
         /\ m7 = m6 \o h
  OBVIOUS
<1>10. Keeps(m3, {}, {d}, FALSE, region, "Rule")
  BY <1>4, <1>9, KeepsBoth
<1>11. Keeps(m5, {}, {d}, FALSE, region, "Rule")
  BY <1>5, <1>6, <1>9, <1>10, KeepsBoth
<1>12. Says(m6, answer, {d}, FALSE, region, "Rule")
  BY <1>7, <1>9, <1>11, SaysAfter
<1>13. Says(m7, answer, {d}, FALSE, region, "Rule")
  BY <1>8, <1>9, <1>12, SaysBefore
<1>14. DnsRules(settings) = m7
  BY <1>3, <1>9
<1> QED BY <1>2, <1>13, <1>14, SaysVerdict

\* The names of the region are not asked directly when the answer is elsewhere.
LEMMA RegionStays ==
    ASSUME NEW settings, IsList(settings.rules), IsFiniteSet(settings.hosts),
           settings.region # NoWord, settings.region # "elsewhere",
           NEW d, d = <<"geosite", settings.region>>,
           \A i \in DOMAIN settings.rules :
              HasName(settings.rules[i], d) => settings.rules[i].outbound = "direct"
    PROVE  DnsVerdict(DnsRules(settings), {d}, FALSE, "elsewhere", "Rule") # "direct_dns"
<1>1. PICK a, b, c, e, f, g, h :
         /\ a = <<Accepting("hosts_dns", {})>> /\ b = ProtectedDns
         /\ c = FixedDns /\ e = HostAnswers(settings) /\ f = FakeDns(settings)
         /\ g = DnsUserRules(settings) /\ h = FakeLast(settings)
  OBVIOUS
<1>2. PICK region, allowed : region = "elsewhere" /\ allowed = {"predefined", "fake_dns"}
  OBVIOUS
<1>3. DnsRules(settings) = a \o b \o c \o e \o f \o g \o h
  BY <1>1, DnsRulesAre
<1>4. \A list : Keeps(list, {}, {d}, FALSE, region, "Rule")
                   => Keeps(list, allowed, {d}, FALSE, region, "Rule")
  BY DEF Keeps
<1>5. /\ Keeps(a, allowed, {d}, FALSE, region, "Rule") /\ Keeps(b, allowed, {d}, FALSE, region, "Rule")
      /\ Keeps(c, allowed, {d}, FALSE, region, "Rule")
  <2>1. d # PriorityDomain
    BY DEF PriorityDomain
  <2>2. \A p : d # <<"full", p>>
    OBVIOUS
  <2>3. d \notin {<<"full", p>> : p \in protect}
    BY <2>2
  <2> QED BY <1>1, <1>4, <2>1, <2>3, BeforeNames
<1>6. Keeps(e, allowed, {d}, FALSE, region, "Rule")
  <2>1. Keeps(e, {"predefined"}, {d}, FALSE, region, "Rule")
    BY <1>1, HostsAnswer
  <2> QED BY <1>2, <2>1 DEF Keeps
<1>7. Keeps(f, allowed, {d}, FALSE, region, "Rule") /\ Keeps(h, allowed, {d}, FALSE, region, "Rule")
  <2>1. PICK r : r = OfQuery("fake_dns", {})
    OBVIOUS
  <2>2. AnswerOf(r) \in allowed
    BY <1>2, <2>1, DnsOfQuery
  <2>3. Keeps(<<r>>, allowed, {d}, FALSE, region, "Rule")
    BY <2>2, KeepsOne
  <2> QED BY <1>1, <2>1, <2>3, KeepsNone DEF FakeDns, FakeLast
<1>8. Keeps(g, allowed, {d}, FALSE, region, "Rule")
  <2>1. PICK lists, n : lists = NameLists(settings) /\ n = Len(settings.rules)
    OBVIOUS
  <2>2. /\ IsList(lists) /\ Len(lists) = n
        /\ \A j \in 1 .. n : lists[j] = IF ForNames(settings.rules[j])
                                        THEN DnsUserRule(settings, settings.rules[j]) ELSE <<>>
        /\ DnsUserRules(settings) = FlattenSeq(lists)
    BY <2>1, NameListsAre
  <2>3. n \in Nat /\ DOMAIN settings.rules = 1 .. n
    BY <2>1, ListFacts
  <2>4. ASSUME NEW j \in 1 .. n PROVE Keeps(lists[j], {}, {d}, FALSE, region, "Rule")
    <3>1. PICK rule : rule = settings.rules[j]
      OBVIOUS
    <3>2. CASE ~ForNames(rule)
      <4>1. lists[j] = <<>>
        BY <2>2, <3>1, <3>2
      <4> QED BY <4>1, KeepsNone
    <3>3. CASE ForNames(rule) /\ d \notin ParsedDomains(rule.domain)
      <4>1. Keeps(DnsUserRule(settings, rule), {}, {d}, FALSE, region, "Rule")
        BY <3>3, OtherNames
      <4> QED BY <2>2, <3>1, <3>3, <4>1
    <3>4. CASE ForNames(rule) /\ d \in ParsedDomains(rule.domain)
      <4>1. rule.outbound = "direct"
        BY <2>3, <3>1, <3>4 DEF HasName
      <4>2. Keeps(DnsUserRule(settings, rule), {}, {d}, FALSE, "elsewhere", "Rule")
        BY <3>4, <4>1, RegionalElsewhere
      <4> QED BY <1>2, <2>2, <3>1, <3>4, <4>2
    <3> QED BY <3>2, <3>3, <3>4
  <2>5. \A j \in 1 .. n : Keeps(lists[j], {}, {d}, FALSE, region, "Rule")
    BY <2>4
  <2>6. Keeps(FlattenSeq(lists), {}, {d}, FALSE, region, "Rule")
    BY <2>2, <2>3, <2>5, KeepsAll
  <2> QED BY <1>1, <1>4, <2>2, <2>6
<1>9. PICK m2, m3, m4, m5, m6, m7 :
         /\ m2 = a \o b /\ m3 = m2 \o c /\ m4 = m3 \o e /\ m5 = m4 \o f /\ m6 = m5 \o g
         /\ m7 = m6 \o h
  OBVIOUS
<1>10. Keeps(m4, allowed, {d}, FALSE, region, "Rule")
  BY <1>5, <1>6, <1>9, KeepsBoth
<1>11. Keeps(m7, allowed, {d}, FALSE, region, "Rule")
  BY <1>7, <1>8, <1>9, <1>10, KeepsBoth
<1>12. DnsRules(settings) = m7
  BY <1>3, <1>9
<1>13. DnsVerdict(m7, {d}, FALSE, region, "Rule") \in allowed \cup {"final"}
  BY <1>11, KeepsVerdict
<1> QED BY <1>2, <1>12, <1>13, NamesWords

LEMMA NamesAreAsked ==
    ASSUME NEW settings, IsList(settings.rules), IsFiniteSet(settings.hosts),
           settings.region # "elsewhere"
    PROVE  NamesAreAskedWhereTheyGo(settings)
<1> DEFINE user == settings.rules
           rules == DnsRules(settings)
<1>1. user = settings.rules /\ rules = DnsRules(settings)
  OBVIOUS
<1> HIDE DEF user, rules
<1> DEFINE has(i, d) == ForNames(user[i]) /\ d \in ParsedDomains(user[i].domain)
           names == UNION {ParsedDomains(user[i].domain) :
                              i \in {j \in DOMAIN user : ForNames(user[j])}}
           chosen(d) == CHOOSE i \in DOMAIN user : has(i, d) /\ \A j \in 1 .. i - 1 : ~has(j, d)
           first(d) == user[chosen(d)]
           once(d) == \A i, j \in DOMAIN user : has(i, d) /\ has(j, d) => i = j
           asked(d, region) == DnsVerdict(rules, {d}, FALSE, region, "Rule")
           own == {<<"full", p>> : p \in protect} \cup NamesOfHosts(settings) \cup {PriorityDomain}
<1>2. ASSUME NEW d \in names
      PROVE  /\ chosen(d) \in DOMAIN user /\ has(chosen(d), d)
             /\ \A j \in 1 .. chosen(d) - 1 : ~has(j, d)
  <2>1. PICK i : i = chosen(d)
    OBVIOUS
  <2> DEFINE T == {j \in DOMAIN user : has(j, d)}
  <2>2. T # {}
    OBVIOUS
  <2>3. DOMAIN user = 1 .. Len(user) /\ Len(user) \in Nat
    BY <1>1, ListFacts
  <2>4. T \in SUBSET Nat
    BY <2>3
  <2>5. PICK k \in T : \A j \in T : k <= j
    BY <2>2, <2>4, LeastNumber
  <2>6. k \in DOMAIN user /\ has(k, d)
    OBVIOUS
  <2>7. ASSUME NEW j \in 1 .. k - 1 PROVE ~has(j, d)
    <3>1. j \in DOMAIN user /\ ~(k <= j)
      BY <2>3, <2>6
    <3> QED BY <2>5, <3>1
  <2> HIDE DEF has, T
  <2>8. i \in DOMAIN user /\ has(i, d) /\ \A j \in 1 .. i - 1 : ~has(j, d)
    BY <2>1, <2>6, <2>7
  <2> QED BY <2>1, <2>8
<1>3. ASSUME NEW p \in protect, NEW mode \in ClashModes, NEW hosts \in BOOLEAN
      PROVE  DnsVerdict(rules, {<<"full", p>>}, hosts, NoWord, mode) \in {"hosts_dns", "direct_dns"}
  BY <1>1, OwnNameIsDirect
<1>4. ASSUME settings.fake # "global", NEW d \in names \ own
      PROVE  asked(d, settings.region) = Server(settings, first(d))
  <2>1. PICK i : i = chosen(d)
    OBVIOUS
  <2>2. /\ i \in DOMAIN user /\ HasName(user[i], d)
        /\ \A j \in 1 .. i - 1 : ~HasName(user[j], d)
    BY <1>2, <2>1 DEF HasName
  <2>3. /\ d \notin {<<"full", p>> : p \in protect} /\ d # PriorityDomain
        /\ d \notin NamesOfHosts(settings)
    OBVIOUS
  <2> HIDE DEF names, own, chosen
  <2>4. DnsVerdict(DnsRules(settings), {d}, FALSE, settings.region, "Rule")
           = Server(settings, settings.rules[i])
    BY <1>1, <1>4, <2>2, <2>3, FirstNameSays
  <2> QED BY <1>1, <2>1, <2>4
<1>5. ASSUME NEW d \in names, settings.region # NoWord, d = <<"geosite", settings.region>>,
             once(d), first(d).outbound = "direct"
      PROVE  asked(d, "elsewhere") # "direct_dns"
  <2>1. PICK i : i = chosen(d)
    OBVIOUS
  <2>2. i \in DOMAIN user /\ has(i, d)
    BY <1>2, <2>1
  <2>3. user[i].outbound = "direct"
    BY <1>5, <2>1
  <2>4. \A j \in DOMAIN user : HasName(user[j], d) => user[j].outbound = "direct"
    BY <1>5, <2>2, <2>3 DEF HasName
  <2> HIDE DEF names, own, chosen
  <2>5. DnsVerdict(DnsRules(settings), {d}, FALSE, "elsewhere", "Rule") # "direct_dns"
    BY <1>1, <1>5, <2>4, RegionStays
  <2> QED BY <1>1, <2>5
<1> HIDE DEF asked
<1>6. /\ \A p \in protect, mode \in ClashModes, hosts \in BOOLEAN :
            DnsVerdict(rules, {<<"full", p>>}, hosts, NoWord, mode) \in {"hosts_dns", "direct_dns"}
      /\ settings.fake # "global" => \A d \in names \ own :
            asked(d, settings.region) = Server(settings, first(d))
      /\ \A d \in names :
            (/\ settings.region # NoWord /\ d = <<"geosite", settings.region>>
             /\ once(d) /\ first(d).outbound = "direct") => asked(d, "elsewhere") # "direct_dns"
  BY <1>3, <1>4, <1>5
<1> QED BY <1>6 DEF NamesAreAskedWhereTheyGo, NamesOfHosts, Server, asked, user, rules

\* The configuration is generated of one of the settings, and they do not
\* change meanwhile.
ConfigInv == appConfig \in Settings

\* Routing and DNS do what the user wrote, for every list of rules, any hosts
\* and every strategy: gen_routing sends a connection no fixed rule takes to the
\* outbound of the first rule that accepts it, and with a TUN what the core
\* itself sends directly, in every mode; gen_dns_rules asks a name where the
\* traffic of its first rule goes, and that of a proxy never through the proxy.
THEOREM TrafficHolds == ConfigSpec => []TrafficGoesWhereWritten
<1>1. ConfigInit => ConfigInv
  BY DEF ConfigInit, ConfigInv
<1>2. ConfigInv /\ [ConfigNext]_configVars => ConfigInv'
  BY DEF ConfigInv, ConfigNext, configVars
<1>3. ConfigInv => TrafficGoesWhereWritten
  <2> SUFFICES ASSUME ConfigInv, Generated(appConfig)
               PROVE  /\ \A tun \in BOOLEAN : RulesDecide(appConfig, tun)
                      /\ NamesAreAskedWhereTheyGo(appConfig)
    BY DEF TrafficGoesWhereWritten
  <2>1. PICK s : s = appConfig
    OBVIOUS
  <2>2. /\ s.rules \in Seq(ToSet(s.rules)) /\ IsFiniteSet(s.hosts) /\ s.region # "elsewhere"
        /\ \A r \in ToSet(s.rules) : \A e \in r.ip : e.not \in BOOLEAN
        /\ \A f \in Flows : f.literal \in BOOLEAN
    BY <2>1, SettingsBounds DEF ConfigInv
  <2>3. \A r \in ToSet(s.rules) : Excludes(r)
    BY <2>1 DEF Generated, Excludes
  <2>4. \A r \in ToSet(s.rules) : NotIsTruth(r)
    BY <2>2 DEF NotIsTruth
  <2>5. IsList(s.rules)
    BY <2>2 DEF IsList
  <2>6. \A i \in DOMAIN s.rules : s.rules[i] \in ToSet(s.rules)
    BY DEF ToSet
  <2>7. OrdinaryRules(s.rules)
    BY <2>3, <2>4, <2>5, <2>6 DEF OrdinaryRules
  <2>8. \A tun \in BOOLEAN : RulesDecide(s, tun)
    BY <2>2, <2>7, RulesAlwaysDecide
  <2>9. NamesAreAskedWhereTheyGo(s)
    BY <2>2, <2>5, NamesAreAsked
  <2> QED BY <2>1, <2>8, <2>9
<1> QED BY <1>1, <1>2, <1>3, PTL DEF ConfigSpec

-----------------------------------------------------------------------------
(* The packets of the UDP test.                                             *)

\* An address of the type it says.
IsHost(host) ==
    /\ host = [type |-> host.type, bytes |-> host.bytes]
    /\ host.type \in {"v4", "v6", "domain"} /\ host.bytes \in Seq(Nat)
    /\ host.type = "v4" => Len(host.bytes) = 4
    /\ host.type = "v6" => Len(host.bytes) = 16

LengthBytes(host) == IF host.type = "domain" THEN 1 ELSE 0
HeadLength(host) == 6 + LengthBytes(host) + Len(host.bytes)

PortNumbers == {n \in Nat : n < 65536}
Octets == {n \in Nat : n < 256}

\* Lists of numbers, one after the other.
FollowedBy(list, a, b) ==
    /\ list \in Seq(Nat) /\ Len(list) = Len(a) + Len(b)
    /\ \A j \in 1 .. Len(a) : list[j] = a[j]
    /\ \A j \in 1 .. Len(b) : list[Len(a) + j] = b[j]

LEMMA BytesFollow ==
    ASSUME NEW a \in Seq(Nat), NEW b \in Seq(Nat)
    PROVE  a \o b \in Seq(Nat) /\ FollowedBy(a \o b, a, b)
<1>1. PICK m, n : m = Len(a) /\ n = Len(b) /\ m \in Nat /\ n \in Nat
  BY LenProperties
<1>2. PICK c : c = a \o b
  OBVIOUS
<1>3. /\ c \in Seq(Nat) /\ Len(c) = m + n
      /\ \A j \in 1 .. m + n : c[j] = IF j <= m THEN a[j] ELSE b[j - m]
  BY <1>1, <1>2, ConcatProperties
<1>4. ASSUME NEW j \in 1 .. m PROVE c[j] = a[j]
  <2>1. j \in 1 .. m + n /\ j <= m
    BY <1>1
  <2> QED BY <1>3, <2>1
<1>5. ASSUME NEW j \in 1 .. n PROVE c[m + j] = b[j]
  <2>1. m + j \in 1 .. m + n /\ ~(m + j <= m) /\ (m + j) - m = j
    BY <1>1
  <2> QED BY <1>3, <2>1
<1> QED BY <1>1, <1>2, <1>3, <1>4, <1>5 DEF FollowedBy

\* What is where in a packet.
PacketShape(packet, host, port, data) ==
    LET l == LengthBytes(host)
        b == Len(host.bytes)
        h == HeadLength(host)
    IN  /\ packet \in Seq(Nat) /\ Len(packet) = h + Len(data)
        /\ packet[3] = 0 /\ packet[4] = TypeByte[host.type]
        /\ host.type = "domain" => packet[5] = b
        /\ \A j \in 1 .. b : packet[4 + l + j] = host.bytes[j]
        /\ packet[h - 1] = port \div 256 /\ packet[h] = port % 256
        /\ \A j \in 1 .. Len(data) : packet[h + j] = data[j]

LEMMA PacketHasShape ==
    ASSUME NEW host, IsHost(host), NEW port \in Nat, NEW data \in Seq(Nat)
    PROVE  PacketShape(Packet(host, port, data), host, port, data)
<1>1. PICK zeros, type, length, bytes, portBytes :
         /\ zeros = <<0, 0, 0>> /\ type = <<TypeByte[host.type]>>
         /\ length = (IF host.type = "domain" THEN <<Len(host.bytes)>> ELSE <<>>)
         /\ bytes = host.bytes /\ portBytes = <<port \div 256, port % 256>>
  OBVIOUS
<1>2. PICK l, b \in Nat : l = LengthBytes(host) /\ b = Len(bytes)
  BY <1>1, LenProperties DEF IsHost, LengthBytes
<1>3. zeros \in Seq(Nat) /\ Len(zeros) = 3 /\ zeros[3] = 0
  BY <1>1
<1>4. TypeByte[host.type] \in Nat
  BY DEF TypeByte, IsHost
<1>5. type \in Seq(Nat) /\ Len(type) = 1 /\ type[1] = TypeByte[host.type]
  BY <1>1, <1>4
<1>6. length \in Seq(Nat) /\ Len(length) = l /\ (host.type = "domain" => l = 1 /\ length[1] = b)
  BY <1>1, <1>2 DEF LengthBytes
<1>7. bytes \in Seq(Nat) /\ Len(bytes) = b
  BY <1>1, <1>2 DEF IsHost
<1>8. /\ portBytes \in Seq(Nat) /\ Len(portBytes) = 2
      /\ portBytes[1] = port \div 256 /\ portBytes[2] = port % 256
  <2>1. port \div 256 \in Nat /\ port % 256 \in Nat
    OBVIOUS
  <2> QED BY <1>1, <2>1
<1>9. PICK a1, a2, a3, a4, a5 :
         /\ a1 = type \o length /\ a2 = a1 \o bytes /\ a3 = a2 \o portBytes
         /\ a4 = zeros \o a3 /\ a5 = a4 \o data
  OBVIOUS
<1>10. Packet(host, port, data) = a5
  BY <1>1, <1>9 DEF Packet, Encoded
<1>11. a1 \in Seq(Nat) /\ FollowedBy(a1, type, length)
  <2>1. type \in Seq(Nat) /\ length \in Seq(Nat)
    BY <1>5, <1>6
  <2>2. type \o length \in Seq(Nat) /\ FollowedBy(type \o length, type, length)
    BY <2>1, BytesFollow
  <2>3. a1 = type \o length
    BY <1>9
  <2> QED BY <2>2, <2>3
<1>12. a2 \in Seq(Nat) /\ FollowedBy(a2, a1, bytes)
  <2>1. a1 \in Seq(Nat) /\ bytes \in Seq(Nat)
    BY <1>7, <1>11
  <2>2. a1 \o bytes \in Seq(Nat) /\ FollowedBy(a1 \o bytes, a1, bytes)
    BY <2>1, BytesFollow
  <2>3. a2 = a1 \o bytes
    BY <1>9
  <2> QED BY <2>2, <2>3
<1>13. a3 \in Seq(Nat) /\ FollowedBy(a3, a2, portBytes)
  <2>1. a2 \in Seq(Nat) /\ portBytes \in Seq(Nat)
    BY <1>8, <1>12
  <2>2. a2 \o portBytes \in Seq(Nat) /\ FollowedBy(a2 \o portBytes, a2, portBytes)
    BY <2>1, BytesFollow
  <2>3. a3 = a2 \o portBytes
    BY <1>9
  <2> QED BY <2>2, <2>3
<1>14. a4 \in Seq(Nat) /\ FollowedBy(a4, zeros, a3)
  <2>1. zeros \in Seq(Nat) /\ a3 \in Seq(Nat)
    BY <1>3, <1>13
  <2>2. zeros \o a3 \in Seq(Nat) /\ FollowedBy(zeros \o a3, zeros, a3)
    BY <2>1, BytesFollow
  <2>3. a4 = zeros \o a3
    BY <1>9
  <2> QED BY <2>2, <2>3
<1>15. a5 \in Seq(Nat) /\ FollowedBy(a5, a4, data)
  <2>1. a4 \in Seq(Nat) /\ data \in Seq(Nat)
    BY <1>14
  <2>2. a4 \o data \in Seq(Nat) /\ FollowedBy(a4 \o data, a4, data)
    BY <2>1, BytesFollow
  <2>3. a5 = a4 \o data
    BY <1>9
  <2> QED BY <2>2, <2>3
<1>16. PICK d \in Nat : d = Len(data)
  BY LenProperties
<1>17. /\ Len(a1) = 1 + l /\ Len(a2) = 1 + l + b /\ Len(a3) = 3 + l + b
       /\ Len(a4) = 6 + l + b /\ Len(a5) = 6 + l + b + d
  <2>1. /\ Len(a1) = Len(type) + Len(length) /\ Len(a2) = Len(a1) + Len(bytes)
        /\ Len(a3) = Len(a2) + Len(portBytes) /\ Len(a4) = Len(zeros) + Len(a3)
        /\ Len(a5) = Len(a4) + Len(data)
    BY <1>11, <1>12, <1>13, <1>14, <1>15 DEF FollowedBy
  <2>2. Len(a1) = 1 + l
    BY <1>5, <1>6, <2>1
  <2>3. Len(a2) = 1 + l + b
    BY <1>7, <2>1, <2>2
  <2>4. Len(a3) = 3 + l + b
    <3>1. l \in Nat /\ b \in Nat /\ Len(a3) = Len(a2) + 2
      BY <1>8, <2>1
    <3> QED BY ONLY <2>3, <3>1
  <2>5. Len(a4) = 6 + l + b
    <3>1. l \in Nat /\ b \in Nat /\ Len(a4) = 3 + Len(a3)
      BY <1>3, <2>1
    <3> QED BY ONLY <2>4, <3>1
  <2> QED BY <1>16, <2>1, <2>2, <2>3, <2>4, <2>5
<1>18. \A j \in 1 .. 6 + l + b : a5[j] = a4[j]
  BY <1>15, <1>17 DEF FollowedBy
<1>19. \A j \in 1 .. 3 + l + b : a4[3 + j] = a3[j]
  BY <1>3, <1>14, <1>17 DEF FollowedBy
<1>20. \A j \in 1 .. 3 + l + b : a5[3 + j] = a3[j]
  <2> TAKE j \in 1 .. 3 + l + b
  <2>1. 3 + j \in 1 .. 6 + l + b
    BY <1>2
  <2> QED BY <1>18, <1>19, <2>1
<1>21. \A j \in 1 .. 1 + l + b : a3[j] = a2[j]
  BY <1>13, <1>17 DEF FollowedBy
<1>22. \A j \in 1 .. 2 : a3[1 + l + b + j] = portBytes[j]
  BY <1>8, <1>13, <1>17 DEF FollowedBy
<1>23. \A j \in 1 .. 1 + l : a2[j] = a1[j]
  BY <1>12, <1>17 DEF FollowedBy
<1>24. \A j \in 1 .. b : a2[1 + l + j] = bytes[j]
  BY <1>7, <1>12, <1>17 DEF FollowedBy
<1>25. a1[1] = TypeByte[host.type] /\ (host.type = "domain" => a1[2] = b)
  <2>1. a1[1] = type[1]
    BY <1>5, <1>11 DEF FollowedBy
  <2>2. host.type = "domain" => a1[1 + 1] = length[1]
    BY <1>5, <1>6, <1>11 DEF FollowedBy
  <2> QED BY <1>5, <1>6, <2>1, <2>2
<1>26. a5[3] = 0
  <2>1. a4[3] = zeros[3]
    BY <1>3, <1>14 DEF FollowedBy
  <2> QED BY <1>2, <1>3, <1>18, <2>1
<1>27. a5[4] = TypeByte[host.type]
  <2>1. a5[3 + 1] = a3[1] /\ a3[1] = a2[1] /\ a2[1] = a1[1]
    BY <1>2, <1>20, <1>21, <1>23
  <2> QED BY <1>25, <2>1
<1>28. host.type = "domain" => a5[5] = b
  <2> SUFFICES ASSUME host.type = "domain" PROVE a5[5] = b
    OBVIOUS
  <2>1. l = 1
    BY <1>6
  <2>2. a5[3 + 2] = a3[2] /\ a3[2] = a2[2] /\ a2[2] = a1[2]
    BY <1>2, <1>20, <1>21, <1>23, <2>1
  <2> QED BY <1>25, <2>2
<1>29. ASSUME NEW j \in 1 .. b PROVE a5[4 + l + j] = bytes[j]
  <2>1. /\ 1 + l + j \in 1 .. 1 + l + b /\ 1 + l + j \in 1 .. 3 + l + b
        /\ 3 + (1 + l + j) = 4 + l + j
    BY <1>2
  <2>2. a5[3 + (1 + l + j)] = a3[1 + l + j] /\ a3[1 + l + j] = a2[1 + l + j]
    BY <1>20, <1>21, <2>1
  <2> QED BY <1>24, <2>1, <2>2
<1>30. a5[(6 + l + b) - 1] = port \div 256 /\ a5[6 + l + b] = port % 256
  <2>1. /\ 1 + l + b + 1 \in 1 .. 3 + l + b /\ 3 + (1 + l + b + 1) = (6 + l + b) - 1
        /\ 1 + l + b + 2 \in 1 .. 3 + l + b /\ 3 + (1 + l + b + 2) = 6 + l + b
    BY <1>2
  <2>2. /\ a5[3 + (1 + l + b + 1)] = a3[1 + l + b + 1]
        /\ a5[3 + (1 + l + b + 2)] = a3[1 + l + b + 2]
    BY <1>20, <2>1
  <2> QED BY <1>8, <1>22, <2>1, <2>2
<1>31. \A j \in 1 .. d : a5[6 + l + b + j] = data[j]
  BY <1>15, <1>16, <1>17 DEF FollowedBy
<1> QED BY <1>1, <1>2, <1>10, <1>15, <1>16, <1>17, <1>26, <1>27, <1>28, <1>29, <1>30, <1>31
        DEF PacketShape, HeadLength

\* Reading what is at least as long as the head of a packet gives the parts of
\* the packet, and what is shorter is refused.
LEMMA HeadIsRead ==
    ASSUME NEW host, IsHost(host), Encodable(host), NEW port \in Nat, NEW data \in Seq(Nat),
           NEW packet, PacketShape(packet, host, port, data)
    PROVE  ParsedPacket(packet) = [ok |-> TRUE, host |-> host, port |-> port, data |-> data]
<1>1. PICK l, b, d \in Nat : l = LengthBytes(host) /\ b = Len(host.bytes) /\ d = Len(data)
  BY LenProperties DEF IsHost, LengthBytes
<1>2. PICK h \in Nat : h = HeadLength(host) /\ h = 6 + l + b
  BY <1>1 DEF HeadLength
<1>3. /\ packet \in Seq(Nat) /\ Len(packet) = h + d
      /\ packet[3] = 0 /\ packet[4] = TypeByte[host.type]
      /\ host.type = "domain" => packet[5] = b
      /\ \A j \in 1 .. b : packet[4 + l + j] = host.bytes[j]
      /\ packet[h - 1] = port \div 256 /\ packet[h] = port % 256
      /\ \A j \in 1 .. d : packet[h + j] = data[j]
  BY <1>1, <1>2 DEF PacketShape
<1>4. PICK bytes, rest : /\ bytes = SubSeq(packet, 5 + l, 5 + l + b - 1)
                         /\ rest = SubSeq(packet, h + 1, h + d)
  OBVIOUS
<1>5. \A j \in 1 .. h + d : packet[j] \in Nat
  BY <1>3, ElementOfSeq
<1>6. bytes = host.bytes
  <2>1. 5 + l \in Int /\ 5 + l + b - 1 \in Int /\ \A j \in 5 + l .. 5 + l + b - 1 : packet[j] \in Nat
    BY <1>2, <1>5
  <2>2. /\ bytes \in Seq(Nat)
        /\ Len(bytes) = IF 5 + l <= 5 + l + b - 1 THEN 5 + l + b - 1 - (5 + l) + 1 ELSE 0
        /\ \A j \in 1 .. 5 + l + b - 1 - (5 + l) + 1 : bytes[j] = packet[5 + l + j - 1]
    BY <1>4, <2>1, SubSeqProperties
  <2>3. Len(bytes) = b
    BY <2>2
  <2>4. ASSUME NEW j \in 1 .. b PROVE bytes[j] = host.bytes[j]
    <3>1. j \in 1 .. 5 + l + b - 1 - (5 + l) + 1 /\ 5 + l + j - 1 = 4 + l + j
      OBVIOUS
    <3>2. bytes[j] = packet[4 + l + j]
      BY <2>2, <3>1
    <3> QED BY <1>3, <3>2
  <2>5. host.bytes \in Seq(Nat)
    BY DEF IsHost
  <2> QED BY <1>1, <2>2, <2>3, <2>4, <2>5, SeqEqual
<1>7. rest = data
  <2>1. h + 1 \in Int /\ h + d \in Int /\ \A j \in h + 1 .. h + d : packet[j] \in Nat
    BY <1>2, <1>5
  <2>2. /\ rest \in Seq(Nat)
        /\ Len(rest) = IF h + 1 <= h + d THEN h + d - (h + 1) + 1 ELSE 0
        /\ \A j \in 1 .. h + d - (h + 1) + 1 : rest[j] = packet[h + 1 + j - 1]
    BY <1>4, <2>1, SubSeqProperties
  <2>3. Len(rest) = d
    BY <2>2
  <2>4. ASSUME NEW j \in 1 .. d PROVE rest[j] = data[j]
    <3>1. j \in 1 .. h + d - (h + 1) + 1 /\ h + 1 + j - 1 = h + j
      OBVIOUS
    <3>2. rest[j] = packet[h + j]
      BY <2>2, <3>1
    <3> QED BY <1>3, <3>2
  <2> QED BY <1>1, <2>2, <2>3, <2>4, SeqEqual
<1>8. packet[h - 1] * 256 + packet[h] = port
  BY <1>3
<1>9. PICK type : type = host.type
  OBVIOUS
<1>10. TakenAddress(packet, type, 5 + l, b)
         = [ok |-> TRUE, host |-> host, port |-> port, data |-> data]
  <2>1. /\ ~(Len(packet) < (5 + l) + b + 1) /\ (5 + l) + b = h - 1 /\ (5 + l) + b + 1 = h
        /\ (5 + l) + b + 2 = h + 1
    BY <1>2, <1>3
  <2>2. [type |-> type, bytes |-> bytes] = host
    BY <1>6, <1>9 DEF IsHost
  <2>3. TakenAddress(packet, type, 5 + l, b)
          = [ok |-> TRUE, host |-> [type |-> type, bytes |-> bytes],
             port |-> packet[h - 1] * 256 + packet[h], data |-> rest]
    BY <1>3, <1>4, <2>1 DEF TakenAddress
  <2>4. TakenAddress(packet, type, 5 + l, b)
          = [ok |-> TRUE, host |-> host, port |-> port, data |-> rest]
    BY ONLY <1>8, <2>2, <2>3
  <2> QED BY ONLY <1>7, <2>4
<1>11. ~(Len(packet) < 4) /\ ~(Len(packet) < 5)
  <2>1. l \in Nat /\ b \in Nat /\ d \in Nat /\ Len(packet) = 6 + l + b + d
    BY <1>2, <1>3
  <2> QED BY ONLY <2>1
<1>12. ParsedAddress(packet) = TakenAddress(packet, type, 5 + l, b)
  <2>1. CASE type = "v4"
    <3>1. packet[4] = 1 /\ l = 0 /\ b = 4
      BY <1>1, <1>3, <1>9, <2>1 DEF TypeByte, IsHost, LengthBytes
    <3> QED BY <1>11, <2>1, <3>1 DEF ParsedAddress, AddressLength
  <2>2. CASE type = "v6"
    <3>1. packet[4] = 4 /\ l = 0 /\ b = 16
      BY <1>1, <1>3, <1>9, <2>2 DEF TypeByte, IsHost, LengthBytes
    <3> QED BY <1>11, <2>2, <3>1 DEF ParsedAddress, AddressLength
  <2>3. CASE type = "domain"
    <3>1. packet[4] = 3 /\ l = 1 /\ packet[5] = b
      BY <1>1, <1>3, <1>9, <2>3 DEF TypeByte, LengthBytes
    <3> QED BY <1>11, <2>3, <3>1 DEF ParsedAddress
  <2> QED BY <1>9, <2>1, <2>2, <2>3 DEF IsHost
<1>13. ParsedPacket(packet) = ParsedAddress(packet)
  BY <1>3, <1>11 DEF ParsedPacket
<1> QED BY ONLY <1>10, <1>12, <1>13

LEMMA CutIsRefused ==
    ASSUME NEW host, IsHost(host), NEW port \in Nat, NEW data \in Seq(Nat),
           NEW packet, PacketShape(packet, host, port, data),
           NEW n \in Nat, n < HeadLength(host)
    PROVE  ParsedPacket(SubSeq(packet, 1, n)) = Refused("short")
<1>1. PICK l, b, d \in Nat : l = LengthBytes(host) /\ b = Len(host.bytes) /\ d = Len(data)
  BY LenProperties DEF IsHost, LengthBytes
<1>2. PICK h \in Nat : h = HeadLength(host) /\ h = 6 + l + b
  BY <1>1 DEF HeadLength
<1>3. /\ packet \in Seq(Nat) /\ Len(packet) = h + d
      /\ packet[3] = 0 /\ packet[4] = TypeByte[host.type]
      /\ host.type = "domain" => packet[5] = b
  BY <1>1, <1>2 DEF PacketShape
<1>4. PICK cut : cut = SubSeq(packet, 1, n)
  OBVIOUS
<1>5. \A j \in 1 .. h + d : packet[j] \in Nat
  BY <1>3, ElementOfSeq
<1>6. Len(cut) = n /\ \A j \in 1 .. n : cut[j] = packet[j]
  <2>1. 1 \in Int /\ n \in Int /\ \A j \in 1 .. n : packet[j] \in Nat
    BY <1>2, <1>5
  <2>2. /\ Len(cut) = IF 1 <= n THEN n - 1 + 1 ELSE 0
        /\ \A j \in 1 .. n - 1 + 1 : cut[j] = packet[1 + j - 1]
    BY <1>4, <2>1, SubSeqProperties
  <2> QED BY <2>2
<1>7. CASE n < 4
  BY <1>4, <1>6, <1>7 DEF ParsedPacket
<1>8. CASE ~(n < 4)
  <2>1. ~(Len(cut) < 4) /\ cut[3] = 0 /\ cut[4] = TypeByte[host.type]
    BY <1>3, <1>6, <1>8
  <2>2. ParsedPacket(cut) = ParsedAddress(cut)
    BY <2>1 DEF ParsedPacket
  <2>3. CASE host.type = "v4"
    <3>1. cut[4] = 1 /\ l = 0 /\ b = 4
      BY <1>1, <2>1, <2>3 DEF TypeByte, IsHost, LengthBytes
    <3>2. Len(cut) = n /\ n < 6 + l + b
      BY ONLY <1>2, <1>6, n < HeadLength(host)
    <3>3. Len(cut) < 5 + 4 + 1
      BY ONLY <3>1, <3>2, n \in Nat
    <3>4. ParsedAddress(cut) = TakenAddress(cut, "v4", 5, 4)
      BY ONLY <2>1, <3>1 DEF ParsedAddress, AddressLength
    <3>5. TakenAddress(cut, "v4", 5, 4) = Refused("short")
      BY ONLY <3>3 DEF TakenAddress
    <3> QED BY ONLY <1>4, <2>2, <3>4, <3>5
  <2>4. CASE host.type = "v6"
    <3>1. cut[4] = 4 /\ l = 0 /\ b = 16
      BY <1>1, <2>1, <2>4 DEF TypeByte, IsHost, LengthBytes
    <3>2. Len(cut) = n /\ n < 6 + l + b
      BY ONLY <1>2, <1>6, n < HeadLength(host)
    <3>3. Len(cut) < 5 + 16 + 1
      BY ONLY <3>1, <3>2, n \in Nat
    <3>4. ParsedAddress(cut) = TakenAddress(cut, "v6", 5, 16)
      BY ONLY <2>1, <3>1 DEF ParsedAddress, AddressLength
    <3>5. TakenAddress(cut, "v6", 5, 16) = Refused("short")
      BY ONLY <3>3 DEF TakenAddress
    <3> QED BY ONLY <1>4, <2>2, <3>4, <3>5
  <2>5. CASE host.type = "domain"
    <3>1. cut[4] = 3 /\ Len(cut) < 6 + b + 1
      BY <1>1, <1>2, <1>6, <2>1, <2>5 DEF TypeByte, LengthBytes
    <3>2. CASE Len(cut) < 5
      BY <1>4, <2>1, <2>2, <3>1, <3>2 DEF ParsedAddress
    <3>3. CASE ~(Len(cut) < 5)
      <4>1. cut[5] = b
        BY <1>3, <1>6, <2>5, <3>3
      <4>2. ParsedAddress(cut) = TakenAddress(cut, "domain", 6, b)
        BY <2>1, <3>1, <3>3, <4>1 DEF ParsedAddress
      <4>3. TakenAddress(cut, "domain", 6, b) = Refused("short")
        BY <3>1 DEF TakenAddress
      <4> QED BY <1>4, <2>2, <4>2, <4>3
    <3> QED BY <3>2, <3>3
  <2> QED BY <2>3, <2>4, <2>5 DEF IsHost
<1> QED BY <1>7, <1>8

\* What build_socks5_udp_packet packs parse_socks5_udp_packet unpacks, for every
\* address, port and data, and a packet cut anywhere before its data is refused.
THEOREM PacketsHold ==
    \A host : \A port \in PortNumbers : \A data \in Seq(Octets) :
        IsHost(host) /\ Encodable(host) => PacketIsRead(host, port, data)
<1> SUFFICES ASSUME NEW host, NEW port \in PortNumbers, NEW data \in Seq(Octets),
                    IsHost(host), Encodable(host)
             PROVE  PacketIsRead(host, port, data)
  OBVIOUS
<1>1. PICK packet : packet = Packet(host, port, data)
  OBVIOUS
<1>2. port \in Nat /\ data \in Seq(Nat)
  <2>1. port \in Nat
    BY ONLY port \in PortNumbers DEF PortNumbers
  <2>2. Octets \subseteq Nat
    BY ONLY DEF Octets
  <2>3. data \in Seq(Nat)
    BY <2>2, SeqMonotonic
  <2> QED BY ONLY <2>1, <2>3
<1>3. PacketShape(packet, host, port, data)
  BY <1>1, <1>2, PacketHasShape
<1>4. ParsedPacket(packet) = [ok |-> TRUE, host |-> host, port |-> port, data |-> data]
  BY <1>2, <1>3, HeadIsRead
<1>5. Len(packet) - Len(data) = HeadLength(host) /\ HeadLength(host) \in Nat
  <2>1. PICK b, d \in Nat : b = Len(host.bytes) /\ d = Len(data)
    BY <1>2, LenProperties DEF IsHost
  <2>2. LengthBytes(host) \in Nat
    BY DEF LengthBytes
  <2>3. HeadLength(host) \in Nat
    BY ONLY <2>1, <2>2 DEF HeadLength
  <2>4. Len(packet) = HeadLength(host) + d
    BY <1>3, <2>1 DEF PacketShape
  <2> QED BY ONLY <2>1, <2>3, <2>4
<1>6. ASSUME NEW n \in 0 .. HeadLength(host) - 1
      PROVE  ParsedPacket(SubSeq(packet, 1, n)) = Refused("short")
  <2>1. n \in Nat /\ n < HeadLength(host)
    BY <1>5
  <2> QED BY <1>2, <1>3, <2>1, CutIsRefused
<1> QED BY <1>1, <1>4, <1>5, <1>6 DEF PacketIsRead
=============================================================================
