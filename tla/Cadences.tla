------------------------------ MODULE Cadences ------------------------------
(* The two registries the scheduler, the heartbeat and the health endpoint are *)
(* driven by, with the values that are deployed: CADENCES                      *)
(* (app/orchestration/cadence.py), the functions registered for it             *)
(* (scheduler.py), and FRESHNESS (heartbeat.py).  Times are in seconds.        *)
(*                                                                             *)
(* Scheduler and Monitor take their intervals and thresholds as constants;     *)
(* that the deployed ones satisfy what those modules assume of them is proved  *)
(* in SchedulerProofs and MonitorProofs.                                       *)
EXTENDS Integers, FiniteSets

Minutes(n) == 60 * n
Hours(n) == 3600 * n
Days(n) == 86400 * n

Cadence(name, interval, overdue) ==
  [job_name |-> name, interval |-> interval, overdue_after |-> overdue]

CADENCES ==
  { Cadence("heartbeat",             Minutes(15), Minutes(45)),
    Cadence("usgs_ingest",           Hours(1),    Hours(3)),
    Cadence("usgs_daily_ingest",     Days(1),     Days(3)),
    Cadence("usda_rates_ingest",     Days(7),     Days(14)),
    Cadence("usda_movements_ingest", Days(7),     Days(14)),
    Cadence("features_build",        Days(1),     Days(3)),
    Cadence("backup_nightly",        Days(1),     Hours(30)),
    Cadence("restore_test_monthly",  Days(30),    Days(45)) }

MINIMUM_MISFIRE_GRACE_SECONDS == 60

\* misfire_grace_time: half the interval, but not under the floor.
MisfireGraceTime(c) ==
  LET half == c.interval \div 2
  IN IF half >= MINIMUM_MISFIRE_GRACE_SECONDS THEN half ELSE MINIMUM_MISFIRE_GRACE_SECONDS

\* Cadence.__post_init__ raises unless both hold.
WellFormed(c) == c.overdue_after > c.interval /\ MisfireGraceTime(c) < c.interval

JobNames == {c.job_name : c \in CADENCES}
ByName(name) == CHOOSE c \in CADENCES : c.job_name = name

\* No name is given twice: a name is the join key into job_runs.
DistinctNames == \A c, d \in CADENCES : c.job_name = d.job_name => c = d

\* The names JOB_FUNCTIONS has a function for.
JOB_FUNCTIONS ==
  {"heartbeat", "usgs_ingest", "usgs_daily_ingest", "usda_rates_ingest",
   "usda_movements_ingest", "features_build", "backup_nightly", "restore_test_monthly"}

\* check_cadence_agreement: build_scheduler and run_once refuse to start without.
CadencesAgree == JobNames = JOB_FUNCTIONS

Freshness(name, table, column, cycle, lag, max) ==
  [job_name |-> name, table |-> table, timestamp_column |-> column, cycle |-> cycle,
   observed_lag |-> lag, max_staleness |-> max]

FRESHNESS ==
  { Freshness("usgs_ingest",           "gauge_readings_iv",    "ts",          Hours(1), Hours(2), Hours(6)),
    Freshness("usgs_daily_ingest",     "gauge_readings_daily", "date",        Days(1),  Days(2),  Days(4)),
    Freshness("usda_rates_ingest",     "barge_rates",          "week_ending", Days(7),  Days(3),  Days(17)),
    Freshness("usda_movements_ingest", "lock_movements",       "week_ending", Days(7),  Days(3),  Days(17)),
    Freshness("features_build",        "features",             "date",        Days(1),  Days(2),  Days(4)) }

\* Every table has a job that writes it, refused at import otherwise; and here
\* each job at most one table, so a table may go by its job's name.
FreshnessScheduled ==
  /\ {f.job_name : f \in FRESHNESS} \subseteq JobNames
  /\ \A f, g \in FRESHNESS : f.job_name = g.job_name => f = g

\* A column with a time of day; the others hold dates, anchored at midnight UTC.
Anchoring(f) == IF f.timestamp_column = "ts" THEN 0 ELSE Days(1)

PollNames == {f.job_name : f \in FRESHNESS}
FreshnessOf(name) == CHOOSE f \in FRESHNESS : f.job_name = name
=============================================================================
