------------------------------ MODULE Monitor ------------------------------
(* Who notices that something has stopped: the heartbeat job                   *)
(* (app/orchestration/heartbeat.py), which runs in the scheduler it reports on  *)
(* and sends one message through a sink that may fail, and the health endpoint  *)
(* (app/api/routes/health.py), which reaches the same verdicts from another     *)
(* process.  The jobs they watch poll sources that publish a period, labelled   *)
(* by its date, some time after it closes, and now and then miss one.           *)
(*                                                                             *)
(* Time is counted in ticks.  The submission of runs is module Scheduler's      *)
(* matter: here a job runs at its fire time, or fails, as long as the scheduler *)
(* is alive.                                                                   *)
EXTENDS Integers, FiniteSets

CONSTANTS Tables,        \* the tables of the registry FRESHNESS, each with its own job
          Heartbeat,     \* the heartbeat's own entry in CADENCES
          Interval, OverdueAfter,       \* CADENCES: job -> ticks
          Cycle, Lag, MaxStaleness,     \* FRESHNESS: table -> ticks
          Anchor,        \* how long before its period closes the date of a label begins:
                         \* a day of a date column, nothing of a timestamp
          MaxTime,       \* bound: the clock
          MaxFaults,     \* bound: deaths, outages, failed runs, unreadable tables,
                         \* periods not published
          None

Jobs == Tables \cup {Heartbeat}  \* a table's job goes by the table's name

\* derived_minimum: a floor, so that nobody tightens a threshold unseen.
DerivedMinimum(t) == Cycle[t] + Lag[t] + Cycle[t]

\* __post_init__ of Cadence, and the floor of Freshness.
ASSUME RegistryAssumption ==
  /\ Heartbeat \notin Tables /\ None \notin Int /\ MaxTime \in Nat
  /\ Interval \in [Jobs -> Nat \ {0}] /\ OverdueAfter \in [Jobs -> Nat]
  /\ Cycle \in [Tables -> Nat \ {0}] /\ Lag \in [Tables -> Nat]
  /\ MaxStaleness \in [Tables -> Nat] /\ Anchor \in [Tables -> Nat]
  /\ \A j \in Jobs : OverdueAfter[j] > Interval[j]
  /\ \A t \in Tables : MaxStaleness[t] >= DerivedMinimum(t)

\* No source closes periods more often than its job polls: where one does, the
\* registry gives the poll's interval for the cycle (the entry of usgs_ingest).
ASSUME PollsEachCycle == \A t \in Tables : Interval[t] <= Cycle[t]

\* A label is a date of the period it stands for.
ASSUME LabelledWithin == \A t \in Tables : Anchor[t] <= Cycle[t]

VARIABLES now,
          alive,        \* the scheduler's main loop runs
          due,          \* next fire time of each job
          finished,     \* newest finished_at of a job's successful runs
          active,       \* newest finished_at of a job's runs of any status
          next,         \* the next period each source closes
          published,    \* the newest period it has published
          missed,       \* history: the periods it has left out
          newest,       \* the newest row of each table, by the close of its period
          broken,       \* tables a query fails on
          sinkUp,
          sent,         \* the last message delivered, and when
          hindered,     \* history: when a heartbeat last was, or may have been, kept from reporting
          unpolled,     \* history: tables whose job has failed or not run at a fire time
          faults        \* what MaxFaults counts

sourceVars == <<next, published, missed>>
vars == <<now, alive, due, finished, active, sourceVars, newest, broken, sinkUp, sent,
          hindered, unpolled, faults>>

Init == /\ now = 0 /\ alive = TRUE
        /\ due \in [Jobs -> 0..MaxTime] /\ \A j \in Jobs : due[j] < Interval[j]
        /\ finished = [j \in Jobs |-> None] /\ active = finished
        /\ next = [t \in Tables |-> Cycle[t]]
        /\ published = [t \in Tables |-> 0] /\ missed = [t \in Tables |-> 0]
        /\ newest = [t \in Tables |-> None] /\ broken = {}
        /\ sinkUp = TRUE
        /\ sent = [at |-> None, jobs |-> {}, tables |-> {}]
        /\ hindered = 0 /\ unpolled = {}
        /\ faults = 0

-----------------------------------------------------------------------------
(* The verdicts, which the heartbeat and the endpoint share. *)

\* last_success: the newest successful run.
LastSuccess(j) == finished[j]

\* check: no success on record, or too long ago.
Overdue(j) == \/ LastSuccess(j) = None
              \/ now - LastSuccess(j) > OverdueAfter[j]

\* Only the jobs that ingest: "the heartbeat need not watch itself".
IngestJobs == Tables

\* check: one verdict for each entry of CADENCES, the heartbeat's included.
WatchedJobs == Jobs

\* A threshold without the missed publication.
TightThreshold(t) == Cycle[t] + Lag[t]

Threshold(t) == MaxStaleness[t]

\* _as_utc_datetime: a label without a time of day is read as its midnight.
AsUtcDatetime(t) == newest[t] - Anchor[t]

\* check_freshness: unreadable, empty, or older than the threshold.
Stale(t) == \/ t \in broken
            \/ newest[t] = None
            \/ now - AsUtcDatetime(t) > Threshold(t)

\* The first error leaves the transaction unusable for the rest.
CheckedUntilError == IF broken = {} THEN Tables ELSE broken

\* check_freshness rolls back after an error and goes on to the next entry.
CheckedTables == Tables

OverdueJobs == {j \in WatchedJobs : Overdue(j)}
StaleTables == {t \in CheckedTables : Stale(t)}
Problems == OverdueJobs # {} \/ StaleTables # {}

\* get_health answers any request at any time: one OR over the same verdicts.
Degraded == Problems

-----------------------------------------------------------------------------
(* The scheduled jobs. *)

Fault == faults < MaxFaults /\ faults' = faults + 1

Fires(j) == alive /\ due[j] = now
Rescheduled(j) == due' = [due EXCEPT ![j] = now + Interval[j]]

\* An ingest run stores what its source has published by now.
Ingest(t) ==
  /\ Fires(t) /\ Rescheduled(t)
  /\ newest' = [newest EXCEPT ![t] = published[t]]
  /\ finished' = [finished EXCEPT ![t] = now]
  /\ active' = [active EXCEPT ![t] = now]
  /\ UNCHANGED <<now, alive, sourceVars, broken, sinkUp, sent, hindered, unpolled, faults>>

IngestFails(t) ==
  /\ Fires(t) /\ Rescheduled(t)
  /\ Fault
  /\ active' = [active EXCEPT ![t] = now]
  /\ unpolled' = unpolled \cup {t}
  /\ UNCHANGED <<now, alive, finished, sourceVars, newest, broken, sinkUp, sent,
                 hindered>>

\* One message for all problems; a sink that raises is logged and passed over.
Emit == IF Problems /\ sinkUp
        THEN sent' = [at |-> now, jobs |-> OverdueJobs, tables |-> StaleTables]
        ELSE UNCHANGED sent

\* The verdicts are reached before the run's own row is closed.
HeartbeatRuns ==
  /\ Fires(Heartbeat) /\ Rescheduled(Heartbeat)
  /\ Emit
  /\ finished' = [finished EXCEPT ![Heartbeat] = now]
  /\ active' = [active EXCEPT ![Heartbeat] = now]
  /\ hindered' = IF sinkUp THEN hindered ELSE now
  /\ UNCHANGED <<now, alive, sourceVars, newest, broken, sinkUp, unpolled, faults>>

\* The database cannot be reached, or the query of job_runs fails.
HeartbeatFails ==
  /\ Fires(Heartbeat) /\ Rescheduled(Heartbeat)
  /\ Fault
  /\ active' = [active EXCEPT ![Heartbeat] = now]
  /\ hindered' = now
  /\ UNCHANGED <<now, alive, finished, sourceVars, newest, broken, sinkUp, sent,
                 unpolled>>

-----------------------------------------------------------------------------
(* The world. *)

\* A source publishes or misses each period before its lag has passed.
Publish(t) ==
  /\ next[t] <= now
  /\ published' = [published EXCEPT ![t] = next[t]]
  /\ next' = [next EXCEPT ![t] = @ + Cycle[t]]
  /\ UNCHANGED <<now, alive, due, finished, active, missed, newest, broken, sinkUp, sent,
                  hindered, unpolled, faults>>

Miss(t) ==
  /\ next[t] + Lag[t] = now /\ Fault
  /\ next' = [next EXCEPT ![t] = @ + Cycle[t]]
  /\ missed' = [missed EXCEPT ![t] = @ + 1]
  /\ UNCHANGED <<now, alive, due, finished, active, published, newest, broken, sinkUp, sent,
                  hindered, unpolled>>

Tick ==
  /\ now < MaxTime
  /\ \A j \in Jobs : ~Fires(j)
  /\ \A t \in Tables : now < next[t] + Lag[t]
  /\ now' = now + 1
  /\ hindered' = IF alive THEN hindered ELSE now'
  /\ UNCHANGED <<alive, due, finished, active, sourceVars, newest, broken, sinkUp, sent,
                  unpolled, faults>>

Die ==
  /\ alive /\ Fault
  /\ alive' = FALSE
  /\ hindered' = now
  /\ UNCHANGED <<now, due, finished, active, sourceVars, newest, broken, sinkUp, sent,
                 unpolled>>

\* A restarted scheduler runs what is past due at once, or at its next slot.
Restart ==
  /\ ~alive /\ alive' = TRUE
  /\ hindered' = now
  /\ \E late \in SUBSET {j \in Jobs : due[j] < now} :
       /\ due' = [j \in Jobs |->
                    IF due[j] >= now THEN due[j]
                    ELSE IF j \in late THEN now
                    ELSE due[j] + Interval[j] * ((now - due[j]) \div Interval[j] + 1)]
       /\ unpolled' = unpolled \cup {t \in Tables : due[t] < now}
  /\ UNCHANGED <<now, finished, active, sourceVars, newest, broken, sinkUp, sent, faults>>

SinkFails ==
  /\ sinkUp /\ Fault
  /\ sinkUp' = FALSE
  /\ UNCHANGED <<now, alive, due, finished, active, sourceVars, newest, broken, sent,
                 hindered, unpolled>>

SinkReturns ==
  /\ ~sinkUp /\ sinkUp' = TRUE
  /\ UNCHANGED <<now, alive, due, finished, active, sourceVars, newest, broken, sent,
                 hindered, unpolled, faults>>

\* A permission is withdrawn, or a table renamed.
Break(t) ==
  /\ t \notin broken /\ Fault
  /\ broken' = broken \cup {t}
  /\ UNCHANGED <<now, alive, due, finished, active, sourceVars, newest, sinkUp, sent,
                 hindered, unpolled>>

Next == \/ \E t \in Tables : \/ Ingest(t) \/ IngestFails(t)
                             \/ Publish(t) \/ Miss(t) \/ Break(t)
        \/ HeartbeatRuns \/ HeartbeatFails
        \/ Tick \/ Die \/ Restart \/ SinkFails \/ SinkReturns

Spec == Init /\ [][Next]_vars

-----------------------------------------------------------------------------
(* Properties. *)

Times == 0..MaxTime
\* The type invariant; a fire time may lie an interval past the bound.
TypeOK ==
  /\ now \in Times /\ alive \in BOOLEAN /\ sinkUp \in BOOLEAN
  /\ \A j \in Jobs : due[j] \in 0..MaxTime + Interval[j]
  /\ finished \in [Jobs -> Times \cup {None}] /\ active \in [Jobs -> Times \cup {None}]
  /\ newest \in [Tables -> Times \cup {None}] /\ published \in [Tables -> Times]
  /\ \A t \in Tables : next[t] \in 0..MaxTime + Cycle[t]
  /\ missed \in [Tables -> Nat] /\ broken \subseteq Tables
  /\ sent \in [at : Times \cup {None}, jobs : SUBSET Jobs, tables : SUBSET Tables]
  /\ hindered \in Times /\ unpolled \subseteq Tables

\* The scheduler and the sink have worked for a heartbeat interval since.
Elapsed(moment) == /\ now > moment + Interval[Heartbeat]
                   /\ now > hindered + Interval[Heartbeat]
Reported == sent.at # None /\ sent.at + Interval[Heartbeat] >= now

\* A job without a success for longer than its threshold is in a delivered
\* message one heartbeat later, and stays in every message: failed runs do not
\* count as life, and a message lost with the sink is sent again (check, _emit).
SilentJobIsReported ==
  \A t \in Tables :
    Elapsed(IF finished[t] = None THEN 0 ELSE finished[t] + OverdueAfter[t] + 1)
      => Reported /\ t \in sent.jobs

\* A table whose newest row is too old, or that has none, is reported in the
\* same way although its job succeeds, and whatever other table cannot be read
\* (check_freshness).
SilentSourceIsReported ==
  \A t \in Tables :
    Elapsed(IF newest[t] = None THEN 0 ELSE newest[t] - Anchor[t] + MaxStaleness[t] + 1)
      => Reported /\ t \in sent.tables

\* Together: whatever has fallen silent, job or source, is reported.
SilenceIsReported == TypeOK /\ SilentJobIsReported /\ SilentSourceIsReported

\* The heartbeat cannot report the death of the scheduler it runs in: the
\* endpoint does, once the heartbeat's own threshold has passed (get_health).
DeathShowsOnHealth ==
  ~alive /\ now > due[Heartbeat] - Interval[Heartbeat] + OverdueAfter[Heartbeat] => Degraded

\* The table has a row, can be read, and its job has run at every fire time.
Polled(t) == alive /\ newest[t] # None /\ t \notin unpolled \cup broken

\* Hardly an alarm in normal operation: while a source misses no period and the
\* job misses no fire time, the job is not overdue, and the table is stale at most
\* for its anchoring before the next poll, so never where the label has a time of
\* day (max_staleness, overdue_after).  That holds however the polls fall between
\* the publications and whatever happens to the sink.
QuietWhenOnTime ==
  \A t \in Tables : Polled(t) /\ missed[t] = 0 =>
    /\ t \notin OverdueJobs
    /\ t \in StaleTables => due[t] < now + Anchor[t]
=============================================================================
