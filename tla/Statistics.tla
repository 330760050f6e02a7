------------------------------ MODULE Statistics ------------------------------
(***************************************************************************)
(* Traffic statistics: voya-app statistics.rs and the repository            *)
(* voya-db repos/server_stat.rs.                                           *)
(*                                                                         *)
(* The service reads the traffic of the running core from a websocket and   *)
(* sends samples over a bounded channel; the aggregator adds them up and    *)
(* once a second charges the sum to the profile that is active then.        *)
(* A sample is one unit of traffic.                                         *)
(***************************************************************************)
EXTENDS Naturals, FiniteSets, Functions

CONSTANTS
    StatProfiles,
    NoProfile,
    ChannelSize,    \* STATISTICS_CHANNEL_SIZE
    MaxSamples,     \* bound: samples taken
    MaxCores,       \* bound: cores started
    MaxDay          \* bound: days

ASSUME StatisticsBounds ==
    /\ IsFiniteSet(StatProfiles) /\ NoProfile \notin StatProfiles
    /\ ChannelSize \in Nat /\ MaxDay \in Nat \ {0}

Days == 1 .. MaxDay

VARIABLES
    core,       \* the identity of the running core; 0 is none
    enabled,    \* enable_statistics or display_real_time_speed
    activeProfile,
    day,        \* current_day_marker
    service,    \* run_singbox_statistics_service: [pc, core, stale]
    channel,    \* samples in the channel
    aggregator, \* run_statistics_aggregator: "start", "loop", "done"
    pending,
    stat,       \* server_stat_items: [StatProfiles -> [total, today, date]]
    closing,    \* the shutdown channel
    taken,      \* history: samples taken from a websocket
    lost,       \* history: samples nobody was charged for
    charged     \* history: [StatProfiles -> [Days -> samples]]

statisticsVars == <<core, enabled, activeProfile, day, service, channel,
                    aggregator, pending, stat, closing, taken, lost, charged>>
worldVars == <<core, enabled, activeProfile, day>>
historyVars == <<taken, lost, charged>>

\* date 0: the profile has no row.
NoRow == [total |-> 0, today |-> 0, date |-> 0]

StatisticsInit ==
    /\ core = 0
    /\ enabled = TRUE
    /\ activeProfile = NoProfile
    /\ day = 1
    /\ service = [pc |-> "wait", core |-> 0, stale |-> 0]
    /\ channel = 0
    /\ aggregator = "start"
    /\ pending = 0
    /\ stat = [p \in StatProfiles |-> NoRow]
    /\ closing = FALSE
    /\ taken = 0
    /\ lost = 0
    /\ charged = [p \in StatProfiles |-> [d \in Days |-> 0]]

-----------------------------------------------------------------------------
(* What the rest of the application does meanwhile.                         *)

CoreStarts ==
    /\ core < MaxCores
    /\ core' = core + 1
    /\ UNCHANGED <<enabled, activeProfile, day>>

Configure ==
    /\ \/ enabled' = ~enabled /\ UNCHANGED activeProfile
       \/ activeProfile' \in (StatProfiles \cup {NoProfile}) \ {activeProfile}
          /\ UNCHANGED enabled
    /\ UNCHANGED <<core, day>>

DayEnds ==
    /\ day < MaxDay
    /\ day' = day + 1
    /\ UNCHANGED <<core, enabled, activeProfile>>

World ==
    /\ CoreStarts \/ Configure \/ DayEnds
    /\ UNCHANGED <<service, channel, aggregator, pending, stat, closing,
                   historyVars>>

Close ==
    /\ ~closing
    /\ closing' = TRUE
    /\ UNCHANGED <<worldVars, service, channel, aggregator, pending, stat,
                   historyVars>>

-----------------------------------------------------------------------------
(* The service.                                                             *)

ServiceAt(pc) == service.pc = pc
ServiceGoes(pc) == service' = [service EXCEPT !.pc = pc]
ServiceOnly == UNCHANGED <<worldVars, aggregator, pending, stat, closing>>

\* The first delay, each pause between two tries and the wait for an event
\* see the shutdown; the connect does not.
ServiceStops ==
    /\ closing
    /\ service.pc \in {"wait", "sleep", "select"}
    /\ ServiceGoes("done")
    /\ ServiceOnly /\ UNCHANGED <<channel, historyVars>>

\* The top of the loop: disabled statistics, no core or no port make it pause.
ServiceTop ==
    /\ service.pc \in {"wait", "sleep"}
    /\ ~closing
    /\ service' = IF enabled /\ core # 0
                  THEN [pc |-> "connecting", core |-> core, stale |-> 0]
                  ELSE [pc |-> "sleep", core |-> 0, stale |-> 0]
    /\ ServiceOnly /\ UNCHANGED <<channel, historyVars>>

ServiceConnects ==
    /\ ServiceAt("connecting")
    /\ \E pc \in {"check", "sleep"} : ServiceGoes(pc)
    /\ ServiceOnly /\ UNCHANGED <<channel, historyVars>>

Mut_ServiceChecks ==
    /\ ServiceAt("check")
    /\ ServiceGoes("select")
    /\ ServiceOnly /\ UNCHANGED <<channel, historyVars>>

\* Before each event the supervisor is asked which core runs: the session of
\* another core is given up.
ServiceChecks ==
    /\ ServiceAt("check")
    /\ ServiceGoes(IF core = service.core THEN "select" ELSE "sleep")
    /\ ServiceOnly /\ UNCHANGED <<channel, historyVars>>

ServiceReads ==
    /\ ServiceAt("select")
    /\ taken < MaxSamples
    /\ service' = [service EXCEPT
                     !.pc = "send",
                     !.stale = @ + (IF core # service.core THEN 1 ELSE 0)]
    /\ taken' = taken + 1
    /\ ServiceOnly /\ UNCHANGED <<channel, lost, charged>>

\* No event within a second, or a connections event.
ServiceReadsNothing ==
    /\ ServiceAt("select")
    /\ ServiceGoes("check")
    /\ ServiceOnly /\ UNCHANGED <<channel, historyVars>>

ServiceReadFails ==
    /\ ServiceAt("select")
    /\ ServiceGoes("sleep")
    /\ ServiceOnly /\ UNCHANGED <<channel, historyVars>>

\* The send waits for room; when the aggregator has ended it fails at once.
ServiceSends ==
    /\ ServiceAt("send")
    /\ \/ /\ aggregator # "done" /\ channel < ChannelSize
          /\ channel' = channel + 1
          /\ UNCHANGED lost
       \/ /\ aggregator = "done"
          /\ lost' = lost + 1
          /\ UNCHANGED channel
    /\ ServiceGoes("check")
    /\ ServiceOnly /\ UNCHANGED <<taken, charged>>

Service ==
    \/ ServiceStops \/ ServiceTop \/ ServiceConnects \/ ServiceChecks
    \/ ServiceReads \/ ServiceReadsNothing \/ ServiceReadFails \/ ServiceSends

-----------------------------------------------------------------------------
(* The aggregator.                                                          *)

AggregatorOnly == UNCHANGED <<worldVars, service, closing>>

\* reset_rollover: what was counted on another day is not of today.
Rolled(row) == IF row.date = 0 \/ row.date = day THEN row
               ELSE [row EXCEPT !.today = 0, !.date = day]

\* ensure: a missing row is made, one of another day starts at zero.
Ensured(row) == IF row.date = 0 THEN [NoRow EXCEPT !.date = day] ELSE Rolled(row)

Added(row, amount) ==
    [total |-> row.total + amount, today |-> row.today + amount, date |-> day]

\* initialize_data; when it fails the aggregator goes on without.
InitializeData ==
    /\ aggregator = "start"
    /\ aggregator' = "loop"
    /\ stat' \in {[p \in StatProfiles |-> Rolled(stat[p])], stat}
    /\ AggregatorOnly /\ UNCHANGED <<channel, pending, historyVars>>

AggregatorStops ==
    /\ aggregator = "loop"
    /\ closing
    /\ aggregator' = "done"
    /\ AggregatorOnly /\ UNCHANGED <<channel, pending, stat, historyVars>>

\* The select is biased: a sample is not taken once shutdown is seen.
Receive ==
    /\ aggregator = "loop"
    /\ ~closing
    /\ channel > 0
    /\ channel' = channel - 1
    /\ pending' = pending + 1
    /\ AggregatorOnly /\ UNCHANGED <<aggregator, stat, historyVars>>

\* The sum is kept when it could not be written.
Mut_Tick ==
    /\ aggregator = "loop"
    /\ ~closing /\ channel = 0 /\ pending > 0
    /\ \/ /\ enabled /\ activeProfile # NoProfile
          /\ stat' = [stat EXCEPT ![activeProfile] = Added(Ensured(@), pending)]
          /\ charged' = [charged EXCEPT ![activeProfile][day] = @ + pending]
          /\ UNCHANGED lost
       \/ lost' = lost + pending /\ UNCHANGED <<stat, charged>>
    /\ AggregatorOnly /\ UNCHANGED <<aggregator, channel, pending, taken>>

\* A tick takes what is pending and charges the profile that is active now.
\* Traffic is lost when statistics are off, no profile is active, or the
\* database fails: before or after ensure wrote its row.
Tick ==
    /\ aggregator = "loop"
    /\ ~closing /\ channel = 0 /\ pending > 0
    /\ pending' = 0
    /\ LET p == activeProfile
       IN  \/ /\ enabled /\ p # NoProfile
              /\ stat' = [stat EXCEPT ![p] = Added(Ensured(@), pending)]
              /\ charged' = [charged EXCEPT ![p][day] = @ + pending]
              /\ UNCHANGED lost
           \/ /\ stat' \in IF enabled /\ p # NoProfile
                           THEN {stat, [stat EXCEPT ![p] = Ensured(@)]}
                           ELSE {stat}
              /\ lost' = lost + pending
              /\ UNCHANGED charged
    /\ AggregatorOnly /\ UNCHANGED <<aggregator, channel, taken>>

Aggregator == InitializeData \/ AggregatorStops \/ Receive \/ Tick

StatisticsNext == World \/ Close \/ Service \/ Aggregator

StatisticsSpec == StatisticsInit /\ [][StatisticsNext]_statisticsVars

-----------------------------------------------------------------------------
(* Properties.                                                              *)

InHand == IF service.pc = "send" THEN 1 ELSE 0

\* Every sample is charged once, or waits, or was dropped where the code
\* drops it: no reconnect, tick or change of profile counts one twice.
TrafficIsConserved ==
    taken = InHand + channel + pending + lost
            + SumFunction([p \in StatProfiles |-> stat[p].total])

\* today is what was charged on the date of the row, total what was ever
\* charged, over every rollover.
TodayIsOfItsDate ==
    \A p \in StatProfiles :
        /\ stat[p].total = SumFunction(charged[p])
        /\ stat[p].date # 0 => stat[p].today = charged[p][stat[p].date]

\* A session outlives its core by one sample: the identity is asked before
\* every event, and the core may be replaced between the two.
SessionIsOfItsCore == service.stale <= 1

\* run_statistics_aggregator and run_singbox_statistics_service.
StatisticsAreRight == TrafficIsConserved /\ TodayIsOfItsDate /\ SessionIsOfItsCore
=============================================================================
