# Domestic Waterway Signals: a TLA+ verification project

The repository under `src/` is a river-and-barge data system: a scheduler process polls USGS
gauges and USDA datasets into TimescaleDB, derives features, records every run, watches itself
with a heartbeat, backs itself up every night and restores a backup every month; a read-only API
serves an "analog" conclusion computed from the stored record, behind a rate limiter and a cache.
This directory holds TLA+ modules for the parts of it whose correctness depends on the order in
which things happen, TLC configurations that check them on small instances, and TLAPS proofs for
the parts that matter most.

## 1. The system

| Part (sources under `src/`) | State it keeps | Operations | Talks to |
|---|---|---|---|
| Scheduler, job records, one-shot runs (`app/orchestration/{scheduler,job,cadence,run_once,session}.py`) | `apscheduler_jobs` (persistent fire times), `job_runs`, the executor's instance counts | start paused / reconcile / resume, submit a due run, open and close its row, record a missed run, `run_once`, stop on SIGTERM | every job; the database; Docker restarts it |
| Gauge ingest and USGS clients (`app/ingest/{usgs_*,daily_backfill,backfill,gauges}.py`) | `gauge_readings_daily`, `gauge_readings_iv`; the resume point is `MAX(date)` in the table | poll all sites, backfill one site window by window, accept or refuse an answer, upsert | USGS; the scheduler or an operator starts it |
| USDA ingest (`app/ingest/{usda_*,socrata_client}.py`) | `barge_rates`, `barge_movements` | page through a dataset, upsert what differs, backfill in full | USDA; the scheduler |
| Features (`app/features`) | rollups, features, targets, seasonal statistics | rebuild in one transaction | reads the ingest tables |
| Analogs (`app/analogs`) | none (pure), reads features | collapse events, similarity, outcomes, the gate | API |
| Signals (`app/signals`) | `signal_runs`, `signals`, append-only | pair enumeration, walk-forward, multiple-testing correction | operator |
| Heartbeat and health (`app/orchestration/heartbeat.py`, `app/api/routes/health.py`) | none of their own: verdicts over `job_runs` and table freshness | check cadences, check freshness, emit one alert | `job_runs`; a webhook; an external monitor |
| Backup, restore test (`app/orchestration/{backup,restore_test}.py`) | the S3 archive, table `backups`, staging files, a throwaway database | dump from an exported snapshot, verify, upload, record; download, restore, compare, mark, drop | PostgreSQL, S3 |
| Migrations (`app/orchestration/migrate.py`) | `schema_migrations` | discover, check, apply in or out of a transaction | PostgreSQL; deploy |
| API (`app/api`) | token buckets, a TTL cache, both in memory | rate limit, look up or compute, serve | reads only |
| Deploy and provisioning (`infra`, `verify`) | the host | guarded pull/build/up, mount a data volume, firewall | operator |
| Frontend (`frontend`) | the browser's view | render what the API says | API |

What interacts: the scheduler's main loop and its pool threads share the job store and the
executor's counts; `run_once` and the scheduler share only `job_runs` and the tables the jobs
write; poll and backfill share one table and through it each other's resume point; the heartbeat
and the health endpoint read `job_runs` while the jobs write it; backup and restore test share the
table `backups`, S3 and the staging directory; API threads share the cache, API requests the buckets.

What is hard: a process killed between two writes (scheduler, ingest, backup, migration); the job
store and `job_runs` being different transactions; a slow run meeting its next fire time; the
database going away under the main loop; answers fetched before and written after somebody else's;
a resume point that moves past data nobody fetched; a verdict read from a table that says nothing
about a process that no longer writes it.

What makes each part correct:

* scheduler - no fire time is lost in silence, no job runs twice at once in the pool, the row of a
  run is written before the run and closed by that run only, everything due is eventually dealt with;
* ingest - what the source published is stored in the end, no walk reports a history it has not
  stored, a stored value is not replaced by an older answer;
* monitor - silence of any job is reported by somebody within its `overdue_after`;
* backup - `verified` means restored and compared; the newest usable archive is never the one deleted;
* migrations - a transactional file is applied exactly once, all in order, and an edited file is noticed;
* USDA - a paged read never takes a prefix for the dataset, a horizon resumes from its own newest
  week, the rows a run reports are the rows it changed;
* features, analogs, signals - a row of a window is what the whole record gives, nothing looks past
  its date, an answer that passes the gate rests on separate events that were over, a sweep's
  denominator is its whole grid, for whoever reads it while the next one is under way;
* host - a filesystem is never formatted over, the filters are never half on, the volume is mounted as
  its one line of `fstab` names it;
* API - the rate promised per client holds through eviction, a cached answer says truthfully when
  it was computed.

## 2. Modules

| Module | Kind | Models |
|---|---|---|
| `RunLedger` | abstract specification | what `job_runs` promises its readers |
| `Scheduler`, `MCScheduler` | specification, instance | the scheduler process, its pool, `@job`, the missed-run listener, `run_once`, kills, stops, outages |
| `SchedulerProofs` | proofs | type correctness, the ownership of rows, the exactness of the instance count; `Scheduler` implements `RunLedger`; orphaned rows have a cause; no fire time is lost in silence; a late run yields to the next one; a repeated slot needs a death; the deployed cadences qualify |
| `Cadences` | operators | the deployed registries: every job's cadence, every watched table's thresholds |
| `Monitor`, `MCMonitor` | specification, instance | the heartbeat, the health endpoint, the jobs and sources they watch |
| `MonitorProofs` | proofs | silence is reported, death shows, no false alarm beyond the anchoring of a date; the deployed registries qualify |
| `UsgsAnswers` | operators | which USGS bodies are refused and what is read out of the others |
| `GaugeIngest`, `MCGaugeIngest` | specification, 3 configurations | poll and backfill over one table, daily and instantaneous |
| `GaugeIngestProofs` | proofs | every safety and action property of `GaugeIngest` but the finding |
| `UsdaIngest`, `MCUsdaIngest` | specification, instance | paged reads of the USDA datasets, the two polls, the backfill |
| `UsdaIngestProofs` | proofs | every property of `UsdaIngest` |
| `Features` | operators | rollup, anomalies, days below a percentile, forward returns, joins |
| `Analogs` | operators | events, nearest neighbours, outcomes, the gate |
| `Signals` | operators | the grid, regimes, folds, the adjustment over all tests, the gate |
| `Research`, `MCResearch` | specification, instance | builds, sweeps and questions over data that arrives and is revised |
| `ResearchProofs` | proofs | every property of `Research`, and what the operators of `Features`, `Signals` and `Analogs` return |
| `BackupCatalog` | abstract specification | what the table `backups` promises somebody who rebuilds the database |
| `Backup`, `MCBackup` | specification, instance | nightly backup and monthly restore test over one table and one bucket |
| `BackupProofs` | proofs | every safety and action property of `Backup`, and that it implements `BackupCatalog` |
| `Migrate`, `MCMigrate` | specification, instance | the migration runner, two at once, over a changing checkout |
| `Host`, `MCHost` | specification, instance | the data volume, the packet filters and the stack, under three scripts and boots |
| `DeploymentProofs` | proofs | every property of `Host` and of `Migrate` |
| `TokenBucket` | abstract specification | what the rate limiter promises each client |
| `RateLimiter`, `MCRateLimiter` | specification, instance | the two bounded bucket stores: refill, expiry, eviction, refusal, restart |
| `ApiCache`, `MCApiCache` | specification, instance | the response cache under the thread pool, the conclusion route's reads, a committing build |
| `ApiProofs` | proofs | the stores of `RateLimiter` stay sound and implement `TokenBucket`; every property of `ApiCache` |

`Scheduler` implements `RunLedger`, `RateLimiter` implements `TokenBucket`, `Backup` implements
`BackupCatalog`; each refinement is stated in the detailed module as `INSTANCE ... WITH`, checked
as a PROPERTY and proved. `DeploymentProofs` and `ApiProofs` each extend two specifications, so those of
`Migrate` and `ApiCache` carry their own names (`MigrateSpec`, `CacheSpec`). `GaugeIngest` composes two programs over the table they
share, `Backup` two jobs over the table and the bucket, `Research` the builds, the sweeps and the
analog engine over the tables the builds write, `Monitor` the heartbeat, the endpoint and the jobs
they report on.

A definition called a *variant* in a comment, or described as what the code does not do, is not part
of the model: it is what a mutant puts in the place of the definition below it.

The twelve runs, eleven that pass and one that shows a claim violated, and what each one shows
are in `PROJECT.json`; the sections below give their bounds.
`CHECK_DEADLOCK FALSE` stands where the modelled programs are commands that end, or where a bound on
days or events ends the behaviour. A run with `SYMMETRY` checks no liveness.

### Scheduler

State to code: `next_run_time` is the column of `apscheduler_jobs`; `instances` the executor's
`_instances`; `run[r]` is what a pool thread or a one-shot process is doing (`queued`, `working`,
`returned`, `raised`, `finished`, and `misfired`, `notifying` for a run that came too late);
`job_runs` is the table in `run_id` order; `proc` the process (`dead` is a process whose main-loop
thread has ended while `main()` waits for a signal); `updating` is the window inside APScheduler
between handing a run to the pool and writing the new `next_run_time`. `first`, `unrecorded` and
the four counters are histories.

Actions to code: `StartPaused`, `RegisterJob`, `StartFails`, `Resume` are `start()` and
`register_jobs()`; `SubmitJob`, `SkipBusyJob`, `UpdateJob`, `LoopDies` are APScheduler's
`_process_jobs` under the options `job_kwargs` gives it (coalesce, max_instances, misfire grace);
`Misfire` is the check made in the worker thread; `OpenRun`, `WorkEnds`, `CloseRun` and their
failures are the decorator in `job.py`; `ReleaseInstance`, `RecordMissed` are the completion
callback and `_on_job_missed`; `StartOnce`, `ExitOnce` are `run_once`; `Crash`, `KillOnce`,
`Terminate`, `ShutdownDone` end processes. APScheduler itself is not in the repository: its
actions are marked external in `PROJECT.json` and follow how `scheduler.py` configures it.

*Run* `scheduler_faults`. One job, two pool threads, a one-shot process, and any two events among
kills, stops, outages and one-shot runs (`MaxEvents` 2), so that a fault can fall between any two
steps and a second one on top of it. `MaxTime` 4 with an interval of 2 lets a fire time come, be
missed by more than the grace, be coalesced with the next one, and leaves room for the one after.
The interval and the grace are those of the daily build in
`Cadences`, in ticks of half a day. One job is enough for TLC: what several jobs with different intervals could do to each other is
covered for any number of them by the theorems of section 4.

*Fairness.* `FairSpec` asks for weak fairness of the database's return, of booting (Compose's
`restart: unless-stopped`), of the main loop, of the end of a graceful shutdown and of each pool
thread (a job's function ends, because every network call in it has a timeout). Nothing makes the
clock advance, a fault happen or an operator act. A main loop that has died is not restarted,
because its process has not ended: `DueSlotIsConsumed` says so.

### Monitor

State to code: `finished[j]` and `active[j]` are the newest `finished_at` of a job's successful runs
and of its runs of any status; `newest[t]` the newest row of a table of the registry `FRESHNESS`, by the
time its period closed, and `Anchor[t]` how long before that the midnight lies which `_as_utc_datetime`
reads its date as (a day for the four date-keyed tables, nothing for `gauge_readings_iv`);
`sent` the last message the sink took. `next`, `published` and `missed` are the source's periods.
`hindered` and `unpolled` are histories of when the heartbeat or a poll was kept from its work.

Actions to code: `HeartbeatRuns` is the heartbeat job (both checks, then one message through
`_emit`), `HeartbeatFails` a run of it that raises; `OverdueJobs` and `StaleTables` are `check` and
`check_freshness`, which `get_health` shares (`Degraded`); `Ingest`, `IngestFails` are runs of a poll
and `Die`, `Restart` the scheduler's end and return; `SinkFails`, `Break` are a webhook that refuses
and a table that cannot be queried. The submission of runs is the business of `Scheduler`; here a job
runs at its fire time while the scheduler is alive.

`RegistryAssumption`, `PollsEachCycle` and `LabelledWithin` say what is assumed of the registries: the thresholds leave
room for the interval, the cycle and the lag, a table is polled at least once in its source's
cycle (the comment on the `usgs_ingest` cadence; without it a source on time can look stale), and a
date begins within the period it labels. `MonitorProofs` proves that the deployed registries of
`Cadences` satisfy them.

*Run* `monitor_faults`. Two tables with the deployed cadence and threshold of the weekly rates, two
ticks to the week, any offset between polls, heartbeats and publications, any two faults.
Seven ticks hold the longest threshold and the heartbeat after it, and, for a job or a table without
anything yet, a lost message and the ones after it.
`SilenceIsReported` is a bounded-response property in place of a liveness one: one heartbeat interval
after the threshold, the delivered message names what is silent, provided the scheduler and the sink
have worked for that interval. A dead scheduler sends nothing: `DeathShowsOnHealth` is about the
other process. `QuietWhenOnTime` gives the thresholds what they have: no job that is on time is
reported, and no table whose label has a time of day; a date-keyed table on time may look stale, but
only when its next poll is less than its anchoring away. A day of anchoring is a whole tick here.

### GaugeIngest and UsgsAnswers

State to code: `service` is the pair looked at, fixed in a behaviour: `"dv"` (`usgs_daily_ingest`,
`daily_backfill`: dates, windows inclusive at both ends), `"iv"` (`usgs_ingest`, `backfill`: instants,
half-open windows) or `"rolling"` (an instantaneous site without `iv_record_start`). `source` is what
USGS serves (per site, parameter and date a version: none, provisional, revised), `table` is
`gauge_readings_daily` or `gauge_readings_iv`, `proc[p]` a run of the poll or of the backfill command
(what it has to do, the first day of its next request, the readings it holds, what it will report).
`cold`, `skipped`, `behind` and the field `stale` are histories.

Actions to code: `StartPoll`, `ReadNewest`, `PollFetch`, `PollWrite` are `ingest` and `poll_site`;
`StartBackfill`, `ReadResumePoint`, `TakeOverride` (`--start`, of any date), `WindowFetch`, `WindowEmpty`,
`WindowFails`, `WindowWrite`, `EndWalk`, `Report` are `backfill_site` and what the command prints;
`UpsertedValue` is the `ON CONFLICT DO UPDATE`; `FetchFails` a request that raises; `Kill` a process
that dies before its commit. The fetch, a network round trip, is a step of its own between the read
of the resume point and the commit: that is where another process gets in.

`UsgsAnswers` says what a 200 answer may be: blocks of series that were asked for, volunteered
(another statistic, another parameter, unnamed) or missing, with values, sentinels, or several
values for a date. `Refused` is what the parsers raise on, `Readings` what they keep: a set of
readings, each with its place in the body (series and entry), so that "the last occurrence of a key"
(`_deduplicate`) is the reading no other one of its key comes after.

*Runs.* `ingest_walk`: a poll and a walk of one site, any number of refused requests and kills, a
source that publishes a day late and revises, a known gap that ends within a window; three services.
Three days after the record start are a resume point, a day inside and one beyond the overlap, and
several windows of two days; a `--start` names the record's second day: the walk fetches again what is
stored, or passes over the first day if that is not. `ingest_polls`: polls alone under `FairSpec` with one fault.
`ingest_cold_claim`: the violation of section 3. `MaxLag` is at most the overlap: a value published
later than that is fetched by nobody, which is what the overlap means. A value published behind a
walk already under way is excused by the history `behind`. A `--start` later than something that is
not stored leaves it behind for good, since the next walk resumes from `MAX`: the history `skipped`
names the site, and `WalkIsComplete` then promises only what lies at or after a walk's own `--start`.
The options `--end` and `--dry-run` are left out: a walk ends on the day it was started.

One site and one parameter are enough for these questions: a backfill of several sites is a sequence
of one-site runs, and a poll handles its sites one after the other with a commit each.

*Fairness.* Weak fairness of each poller's steps: the scheduler fires the poll again and again. The
number of faults is bounded there, so a poll eventually gets through; an operator need not run the
backfill, and USGS need not publish anything.

### UsdaIngest

State to code: `published[d]` is what the publisher holds of a dataset (a row is a place and a week,
with a measure that may be unpublished), `table` what is committed, keyed by dataset (the horizon, or
the lock table) and row; `run[j]` is a job's run: the datasets still to read, its offset, what it has
received, what its transaction holds. `everPublished`, `excused`, and the fields `there`, `withheld`,
`moved`, `missed`, `alone` are histories.

Actions to code: `Page` and `PageFails` are one request of `SocrataClient.fetch_all` (offset by the
limit asked for, until an empty page, up to the cap); `NotResolved` is `resolve_dataset`; `Start`
and `Since` are `latest_week` less the overlap, the cold start, or the whole dataset for a backfill;
`Upsert` parses what was received and writes what `IS DISTINCT FROM` says is different; `Commit` ends
the one transaction over all datasets of a job. `Publish` and `Correct` are the publisher's, at any
moment of a read.

*Run* `usda_polls`: the rates job over two horizons, the movements job and a backfill of one horizon,
any two of them at once, one publication or correction at any moment, pages of two rows of a dataset
with two rows in one week, so that a week lies across a page boundary. The calendar stands still: a
run lasts seconds and a week is its unit. `ReadLossHasACause` names what a paged read without a
unique order can lose, and shows that nothing else is lost.

### Features, Analogs, Signals and Research

`Features` translates the rollup of the two records (`rollup.py`), the anomaly (`seasonal.py`), the
runs below a percentile (`thresholds.py`), the forward returns (`targets.py`) and the joins that must
not look ahead. `Analogs` is the engine's `query`: detections, their collapse into events, which are
eligible, the nearest of them (each dimension in units of its own spread up to the day, in whole
numbers over a common denominator, so that nothing is rounded), what the rate did after each, the
gate, and the median and range it lets through. `Signals` is one sweep:
the grid, the regimes, aligned rows, folds with their gap, Benjamini and Hochberg's adjustment over
every test, and the gate. All three are operators; a rate stands for its logarithm, so a return is a
difference.

`Research` is the state machine around them: readings and rates arrive and are revised (`Read`,
`PublishRate`); the scheduled build and an operator's build take their statements in the code's order
(`StartBuild`, whose rollup statement sees what is committed then, `Roll`, `WriteFeature` once for each
feature and with the last the read of the rates, `CommitBuild`, `DieBuild`). Nothing but its rows keeps
a build from another: an upsert waits while the other holds a row in common (`RolledDays`,
`FeatureDays`), and builds with none in common run side by side; each history is read anew, with the
build's own rows and what is committed by then. `crossed` is the history of another build having
committed since this one began to write. Sweeps, any number at once, each commit the row of a run of
their own, of the features its `--feature` matches (`Filters`; an empty grid is refused), read one
feature after another, and write all results with the close of the run (`OpenRun`, `Scan`, `CloseRun`,
`DieSweep`). A build is one transaction; a sweep is not one snapshot. A request for a run's results
(`AskSignals`, `ReadSummary`, `CountRows`, `ReadRows`: `/api/signals`) takes a statement for the
summary, one for the count and one for a page of the rows, by limit and offset in the order of the
q-values (`PageOf`), and a sweep may close its run between any two; `SweepVerdict` is what every
conclusion says of the newest sweep that has rows of the feature it is about.

*Run* `research` starts from every record of eight days of two levels, whole or with a gap, with two
price series, in which nothing more happens, so that the pure rules meet each shape of a short
record; and from one busy past in which three more events (builds, sweeps, arrivals, deaths,
requests) happen: two builders whose windows share days or share none, two sweepers with all features
or the discharge alone, pages of five rows from the first or the sixth. That one build waits for the
rows of a single feature of another takes a fourth event; the theorems have it. The parameters (a run of one day, a separation and an outcome window of one, two neighbours, a year
of three days) are the least with which each rule can bind. The properties compare with a definition
of their own: events a day apart without a day on record that is not below (`PassedMeansEvidence`),
the step-up procedure stated by counting (`FinishedRunIsWhole`), the rows of a whole run
(`AnswersAreOfAWholeRun`, `VerdictIsOfAnEndedRun`), a target's last day
(`FoldsDoNotLeak`).

### Backup and BackupCatalog

State to code: `objects` is the bucket under its two prefixes, `staging` and `scratch` the archive
files of the two jobs, `pgpass` and `testPass` their password files, `rows` the table `backups`,
`throwaways` the databases of restore tests and `evidence` those an error message has named. The data
is a version number with its row counts and its archive's size. `expired` marks an object the
lifecycle rule has removed.

Actions to code, in the order of `backup_nightly_job`: `Start` (the checks), `WritePgpass`,
`ExportSnapshot` (the counts), `Dump`, `EndDump` (the `finally` around it), `Verify` (the size floor
and the list), `Upload`, `UploadFails`, `CopyToMonthly`, `Record`, `Unlink`; and of
`restore_test_monthly_job`: `Choose`, `Download`, `Prepare`, `CreateThrowaway`,
`Restore`, `Compare`, `MarkVerified`, `CleanUp` (its `finally`). A step may fail where the code raises;
`CREATE DATABASE` may also take effect and lose its reply, which leaves a database nobody drops. `Commit` is
production, `NextDay` and `Expire` the lifecycle rule, `Kill` ends a run anywhere.

*Run* `backup_catalog`: three runs of the two jobs in any mix and at any moment of one another (they
may be one-shot processes beside the scheduler's), one kill, one commit that halves the archive, a
day that passes and a lifecycle of one day. Three runs are two backups and a test of either, or two
tests of one archive. `BackupCatalog` is implemented with the bucket's whole archives as `written`.

### Migrate

State to code: `files` is `migrations/` (a content stands for its checksum), `schema` the sequence of
files the database has taken, `table` is `schema_migrations`, `halfBuilt` the indexes an interrupted
`CREATE INDEX CONCURRENTLY IF NOT EXISTS` has left, `runner[r]` an invocation with the files it
read (`plan`), the rows it read (`seen`) and the versions it has to do, of which it takes the least
first. Whether a file runs outside a transaction is said by its first line, so it is a matter of its
content (`NoTransaction`). `overlapped` is the history of two runs at work at once, `unrecorded` that of
the versions a run has taken and not got to record.

Actions to code: `Discover` (`discover`), `Plan` (`verify_applied_checksums` and the order check),
`ApplyInTransaction`, `ExecuteAutocommit` and `Record` (the two ways of applying a file), `Kill`,
`ChangeFile` (a pull or an edit between any two steps). The connection may be lost under each
statement: before it has taken effect, or after, when the run fails of what it has done.

*Run* `migrate_runs`: two runners over versions 1, 2 and 10 (10 sorts before 2 as text), 10 an unguarded
no-transaction file, 2 a guarded one in one of its contents and transactional in the other; two
changes of the checkout, one kill, and a connection lost under any statement
of either run.

### Host

State to code: `volume`, `attached`, `fstab`, `mounted` are the data volume and what the system knows
of it (a filesystem by its UUID, nothing that `blkid` recognises, or something it recognises that has no
`TYPE`, such as a partition table); `stack` is the containers, absent or with their database on the
volume or on the root disk; `ufw`, `chains`, `docker` the two packet filters; `script` the command a
run of one of the three scripts has reached.

Actions to code: `StartMount` to `Mount` are `mount_data_volume.py` (probe with `blkid`, whose exit 0
with nothing printed is read like its exit 2, `mkfs`, UUID, one line of `fstab`,
`findmnt --verify`, mount); `StartFirewall` to `AppendRule`
are `configure_firewall.py`; `StartDeploy`, `DeployUp` are `deploy.sh`; `Interrupt` ends a script or
fails a command anywhere; `Boot` is a shutdown or a power cut and what systemd and Docker start then;
`ReplaceVolume` is the operator's.

*Run* `host_scripts`: two filesystems in the life of the volume and two boots, scripts in any order.

### RateLimiter

State to code: `store[k]` is the `OrderedDict` of one `BucketStore`, least recently used first, a
bucket being `key`, `tokens`, `refilled` (`last_refill`) and `seen` (`last_seen`). Tokens are
integers of which `Unit` make one, so that a refill by a fraction of a token is exact (the code uses
floats, whose rounding is not modelled). `answer` is the response to the last request, so that a
refusal that has cost something cannot pass for another request's admission. A client is what
`client_key` yields for it. `touched` is the history of when a client last used a store.

Actions to code: `Admit` and `Refuse` are `check` with both outcomes of its loop, including what
`get` does on the way (move to the end, or expire the idle, evict the oldest, make a full bucket);
the middleware's `dispatch` runs it on the event loop without an `await`, which is why a request is
one step. `Restart` is a new process.

`TokenBucket` is the promise: a bucket per client that refills at every tick and is forgotten only
when as many other clients as there is `Room` for have used the store since, or by a restart.
`RateLimiter` maps a client without a stored bucket to a full one and a stored bucket to what its
next refill would make of it. Idle expiry is invisible in this mapping, which is what the comment on
`IDLE_EVICTION_SECONDS` claims and the module's assumption states.

*Run* `limiter`: three clients, room for two, a general burst of two and one for the conclusion (the
least with which one limit is short while the other is not), refills of a fraction of a token so that
a wait is not a whole number, a restart.

### ApiCache

State to code: `entries` is the dict of `TTLCache`, by cache key; `thread[t]` is the request a pool
thread serves (`computing` after a miss, `reading` after the first query of the conclusion,
`computed`, `serving`); `committed[b]` is when feature build number `b` committed, so the content of
the tables is a number and an answer carries the first and the last content it was read from.

Actions to code: `Hit`, `Miss` are the first locked block of `get_or_compute`, `Store` the second;
`FirstRead`, `LastRead` are the queries of `engine.query` and of the route's sweep verdict, which run
in one READ COMMITTED transaction and see what commits between them; `ComputeFails` is a query that
raises; `CommitBuild` is the single transaction of `features_build`. `KeyOf` counts parameters, which
is what sorting `multi_items()` keeps of them; `Question` is what FastAPI hands a route that declares
a scalar parameter (the last value given), and is marked external.

*Run* `cache_threads`: two threads are enough for two concurrent misses of one key; one build for an
answer that is old, new or mixed; the clock runs to twice the TTL, so an entry expires and is
replaced. `MaxCompute` bounds a computation in time: without it no staleness is bounded, because the
lifetime of an entry starts when it is stored and not when it was computed.

## 3. Findings

*A cold poll defeats the backfill it asks for* (`ingest_cold_claim`). On an empty site the poll
stores the last days and says to run the backfill; the backfill resumes from `MAX(date)`, which is
now one of those days, and reports success. Only `--start` fetches the history.

Other disagreements between what the code does and what is said of it, or limits of a mechanism, met
while modelling. Each is part of the model; where a property excuses one, a history variable names it:

* A `missed` row may stand for a slot that ran (`scheduler.py:100-111` says it produced nothing): a
  kill or a failed job-store write between the submission of a run and the update of
  `next_run_time` leaves the old fire time in the store. `SlotRepeatsNeedADeath` bounds it.
* The loop over the gauges of a poll does not catch: one site's failure ends the poll of the sites
  after it, until the next poll.
* Two query strings that repeat a parameter in another order share a cache key (`cache.py:73`)
  and ask different questions; `PlainQuestionIsAnswered` is stated for the others.
* One publication that is left out raises a staleness alarm (`heartbeat.py:82`): `QuietWhenOnTime`
  needs `missed[t] = 0`.
* The thresholds do not price in the anchoring. A date is read as its midnight, a day before its period
  closes (`heartbeat.py:538`); the docstring says that the threshold is set with this priced in
  (`heartbeat.py:524`), but the derivation (`heartbeat.py:78`) has no term for it, and the four
  date-keyed entries are on their floor. A period published at the end of the measured lag and polled
  once a cycle can be up to a day over its threshold before the next poll; `QuietWhenOnTime` says when.
* A recognised device without a type is formatted. `blkid` that exits 0 and prints no `TYPE` is read as
  no filesystem (`mount_data_volume.py:116`), and `mkfs` runs on the whole device; the docstring says
  "only if genuinely absent" (`mount_data_volume.py:150`). `FilesystemIsKept` is about filesystems, which
  have a type.
* The containers come back without the unit whose `RequiresMountsFor` "makes the mount's absence STOP THE
  APPLICATION" (`dws-stack.service:13`): after a power cut Docker restarts those it still has
  (`restart: unless-stopped`, `docker-compose.yml:96`), mounted or not, and `deploy.sh:164` starts
  them with Compose itself. The database then begins an empty cluster on the root disk.
* A `--start` later than a day that is not stored leaves that day behind for good: every later run
  resumes from `MAX(date)` (`backfill.py:289`), fetches nothing and reports success. `skipped` names the
  sites, and `WalkIsComplete` says what is then still promised.
* Nothing but rows in common makes one build wait for another (`rollup.py:58`, `build.py:211`). Two builds
  whose windows share no rows each compute from a history without the other's, and the later commit
  leaves features that do not match the rollup until a build of those days runs again: `crossed`.
* A no-transaction file whose row is lost with the connection (`migrate.py:286`), or with the process, is
  applied again by the next run: `unrecorded`.
* A percentile is of the full record (`thresholds.py:93`), so the runs below it that are stored for
  a past day change with later days, although an event is decided on the rows up to its day
  (`events.py:1`). `AnswersFromThePast` is about the rows stored.
* A page of `/api/signals` may name a run as unfinished with nothing scanned and show all its rows,
  when the sweep closes the run between the statements (`signals.py:121-137`); the two halves of the
  answer are each true of a moment. While a sweep is under way the page of the newest run is empty,
  and the conclusion still names the run before (`engine.py:101`).
* `usda_backfill.py:204` counts the records it received when it compares with the seeded count, repeats
  included: a row a paged read lost can be made up for by one it was given twice.
* `backfill.py:259` refuses an empty site without `iv_record_start`; such a site can only be filled
  by the poll's cold start or `--start`.
* A cache entry is replaced and never removed (`cache.py:77`), so the dict grows with the distinct
  questions asked; `register_jobs` never removes a stored job that has left `CADENCES`; `run_once`
  shares no lock with the scheduler, so two copies of a job may run at once. The last is part of
  `Scheduler`, `GaugeIngest`, `UsdaIngest`, `Research` and `Backup`.

## 4. What is proved

Every theorem is about a specification as TLC runs it, for all values of its constants that satisfy
the named assumptions. Each rests on an inductive invariant that says more than the property; the
lemmas are grouped in the proof modules by the group of variables a step may disturb.

*Scheduler* (`SchedulerProofs`), for any number of jobs, threads and one-shot
processes, any intervals and graces that satisfy `CadenceAssumption`, and any bounds:

* `TypeCorrect`: `Spec => []TypeOK`. Split by the group of variables a step may disturb
  (`RunTypeStep`, `TablesTypeStep`, `ControlTypeStep`).
* `RecordsAreOwned`: `Spec => []WorkIsRecorded`. Inductive together with `TypeOK`; rows are
  appended or replaced in place, so an owned row stays where it is, and a new row's number is
  larger than every owned one.
* `InstancesAreExact`: `Spec => []OneInstance`. Inductive together with `TypeOK`: a submission
  needs a count of zero, that is no occupant, and an idle thread; releasing takes the only occupant
  away.
* `ImplementsLedger`: `Spec => LedgerSpec`, with `rows <- job_runs` and `live <- LiveRows` (the rows
  whose opener is still at work). Each step opens, closes or abandons rows, appends a missed row,
  or stutters; uses the two invariants above so that a closed row is one that was live and running.
* `OrphansNeedAFault`: `Spec => []OrphansHaveACause`. Not inductive alone; strengthened with
  `OutagesAreCounted` (the database is down only if an outage has been counted), from which
  `CloseRunFails` needs a fault.
* `NoSlotIsLost`: `Spec => []SlotsAccounted`. Not inductive alone, because the main loop hands a run
  over before it moves `next_run_time` past the slots it consumed. `ScheduleInv` adds that every
  fire time between the stored one and the slot handed over is already dealt with
  (`UpdatingIsHandled`), and that the stored fire time and every queued slot lie a whole number of
  intervals after the first one (`StoreOnGrid`, `QueuedOnGrid`). What is dealt with stays so
  (`HandledStays`: rows keep their slot, losses are never forgotten, a slot in a thread's hands
  leaves them for one or the other); and no slot lies strictly between two neighbours of the grid
  (`GridGap`), so moving on by one interval passes nothing else.
* `LateRunsYield`: `Spec => LateRunYieldsToNext`, from the same invariant: a run starts within its
  grace, the grace is shorter than the interval, and the next fire time is an interval away.
* `RepeatsNeedADeath`: `Spec => []SlotRepeatsNeedADeath`. `RepeatInv` counts together what may still
  become a row of a slot: its rows, the threads that hold it, one if the schedule has yet to hand it
  over (`Ahead`), and one if an outage may yet end the main loop before it has moved on (`Exposed`).
  The sum never exceeds one more than the deaths: a submission turns the third into the second, a row
  the second into the first, and only a kill, or an outage counted before, gives a turn back.
* `DeployedCadencesQualify`: the cadences of `cadence.py`, with the graces it derives, satisfy
  `CadenceAssumption`, name no job twice and are the functions `register_jobs` has. So the theorems
  above are about the schedule that is deployed.

*Monitor* (`MonitorProofs`), for any jobs, tables, lags and faults:

* `SilenceReachesTheSink`, `DeathShows`, `NoFalseAlarm`: the three properties of the run.
  `MonitorInv` adds what ties the clock to the histories: fire times lie at most an interval ahead
  and a live scheduler is not past one (`OnSchedule`); a source that missed nothing closes its
  periods one cycle apart (`SourcesInStep`); a job that missed nothing ran an interval before its
  next fire time and stored what was published by then (`PollsInStep`); and unless something has
  hindered it since, the last heartbeat delivered everything silent by then (`Delivered`).
  `NoFalseAlarm` is the sum of lag, cycle and interval against the thresholds, and what of the
  anchoring is left over.
* `DeployedRegistryQualifies`: the deployed cadences and thresholds satisfy what these assume.

*Host* (`DeploymentProofs`), for any number of filesystems and boots:

* `NoRunFormatsAFilesystem`, `RunsOfScriptsAreWhole`. `HostInv` says what may be at each command of each
  script: `mkfs` is reached only with a volume that has no filesystem (`VolumeInv`), the UUID in hand is the volume's (`FstabInv`), a chain being filled holds a prefix of its rules and
  the other family is complete or untouched (`ChainsInv`), the filter is enabled last (`UfwInv`).

*Response cache* (`ApiProofs`), for any threads, query strings, builds, TTL and times:

* `PlainQuestionsAreAnswered`, `AnswersSayTruly`, `HitsAreBounded`. `CacheInv` gives what a thread
  carries from one of its steps to the next (what it has read was current at its `at`), and what an
  entry may be: an honest answer to some question of the same key, whose expiry is bounded by its own
  `computed_at`, which is why a late `Store` cannot prolong an old answer.

*Rate limiter* (`ApiProofs`), for any clients, rates, bursts and store sizes:

* `StoresStaySound`: the stores and `Retry-After`. `LimiterInv`: a store lists distinct clients in the
  order of their last use, each refilled when it was last seen, as the history of uses has it.
* `StoresImplementBuckets`: `Spec => IdealBuckets`. Lazy refill is the refill at every tick because
  it is linear up to the cap; idle expiry forgets only what would be full; an evicted client is
  the one used longest ago, so that `StoreCapacity` distinct others have used the store since (a
  counting argument over the list).

*Migrations* (`DeploymentProofs`), for any versions, runners, changes and kills:

* `SchemaStaysOrdered`, `TableTellsTheTruth`, `NothingOnADisagreement`. `MigrateInv`: what a working
  run has read agrees with its files and lies below all it has left; and as long as no two runs have
  overlapped, it is alone at work, everything recorded lies below what it has left, what is in the
  schema without a row is being recorded or is one of `unrecorded`, and all but those ascend
  (`Orderly`).

*Backup and restore test* (`BackupProofs`), for any runs, tests, contents, days, commits and kills:

* `NothingStaysStranded`, `TheOnlyCopyIsKept`, `MarksMeanRestored`, and `RowsImplementTheCatalog`:
  `Spec => RowsAreACatalog`, with `written` the whole archives under the daily prefix. `BackupInv`
  ties all of it to the snapshot of the run: a local file is its dump or damaged and whole from the
  check on (`FilesAreDumps`); a run has one daily object, whole if it went on (`ObjectsAreDumps`); a
  row has its run's day and contents and was inserted after its objects (`RowsAreTrue`); a test past
  its start has a row, and past the comparison a throwaway that is what that row's dump restores to
  (`TestsAreTrue`). An upload of whole bytes is a step of the catalogue, the insertion of a row and
  the mark are the others, and all else stutters.

*Gauge ingest* (`GaugeIngestProofs`), for any sites, parameters, polls and backfills, any overlap,
windows and calendar, known gaps and number of faults:

* `NothingIsPassedOver`, `WalksAreComplete`, `OnlyThePublishedIsStored`, `WalksReportTruly` and
  `RevisionsAreUndoneByOverlapOnly`: the five properties of `ingest_walk`. `IngestInvariant` is
  `IngestInv`, which TLC also finds on that run's instance. None of the five is inductive, because
  between a fetch and its commit the days it covers are neither stored nor given up. `IngestInv` adds,
  for each process: what it holds was published, and is no older than the table unless another
  process has written since (`HoldsPublished`); what it lacks is not further than the overlap behind
  what it has (`HoldsAllBut`), so that the new `MAX(date)` hides nothing; an answer to a walk lacks
  nothing of its window (`HoldsWindow`); a poll starts within the overlap of the newest row
  (`PollStartsBehind`); and the days behind a walk's next request are stored (`WalkHasStored`),
  accounted for (`WalkHasExplained`) and not before the first date it will report
  (`WalkHasSeenFirst`).
* `AnswerIs` carries the argument from bodies to readings: of all a service may send, a body that is
  not refused gives for each parameter and day exactly the published value, once.
* The one assumption on the source, `MaxLag <= OverlapDays`, is what `OVERLAP_DAYS` is for
  (`usgs_daily_ingest.py`). A `--start` may name any day.

*USDA ingest* (`UsdaIngestProofs`), for any datasets, jobs, places, weeks, page lengths, published
histories, changes, faults and kills:

* `UsdaTables`, `UsdaReads`, `UsdaReports`: `TablesAreFaithful`, `ReadLossHasACause` and
  `ReportsWhatChanged`. Their invariant is `UsdaInv` (`UsdaIsKept`), in five parts beside the types: a
  run's place in its list of datasets (`Plans`); what the table and the runs hold was published
  (`Faithful`); a hole older than the overlap has a cause, what a run has written leaves none that its
  commit would not account for, and a read begins the overlap behind a stored row (`Whole`); the rows
  of a week that no page boundary cuts have all been received or all lie ahead of the offset, unless
  the source changed during the read (`Reading`); and what a run alone in its datasets has counted
  as written is what its commit will change (`Reporting`).
* The heart of it is a counting argument about pages, each of which may come in another order of the
  rows within a week: the place of a row in such an order is the number of rows before it, places have
  no gaps (`PlacesHaveNoGaps`), and a week that no boundary cuts lies in one page of every order
  (`PageMeetsTheWeek`). So a row can be lost in a read only from a cut week.

*Research* (`ResearchProofs`), for any days, levels, readings, rates, horizons, lags, regimes, neighbours,
folds, gates and limits, and any number of builds, arrivals and deaths:

* `AnswersRestOnEvidence`, `RunsStayWhole`, `FoldsStayApart`, `CommitsAreCurrent`: the four properties of
  `research`. Their invariant is `ResearchInv` (`ResearchIsKept`), in three parts. `Tables` says what
  builds may hold: one that has rolled holds, of its window, what its statement saw, and, of each feature
  it has come to, rows that unless it was crossed are what the rules make of its days over the committed
  ones. `Sweeps` says that each sweep has a run of its own, open and without rows, that a scan has
  done whole features of the run's grid, and that the rows of a finished run are what `AdjustAndGate`
  makes of one scan of its grid. `Pages` says that what a request has read fits its run; it survives
  the sweeps' steps because a finished run never changes.
* `CommitsAreCurrent` is the invariant's step: the committed rollup changes only with a commit, and one
  by another build is a crossing, so what a build overlays in its window is what it computed. The other
  three need what the operators of `Features`, `Signals` and `Analogs` return for any arguments.
* A page of a finished run is as full as limit and total allow because the order of the rows is strict and
  compares any two of them, so that their places fill a range without gaps (`RanksFill`): the pages
  miss no row and repeat none.
* No feature and no rate dated later changes an answer, because every day a query reads is at most its
  own (`TablesAnswerFromThePast`), through the events, the spreads, the nearest and their outcomes.
* An answer that passes rests on separate events because a run below the percentile grows by one a day:
  if every day between two events were below, the day before the second would itself be a
  detection near it, and the second would not have been an event (`ZeroBetweenEvents`). This needs a separation of at
  least a day (`MIN_EVENT_SEPARATION_DAYS` is 90, `analogs/parameters.py`); with none, every day of one
  crossing would count as an event. That the median has the sign of the range it passes with rests on
  a consistency above one half (it is 0.70): more than half of the outcomes lie on its side
  (`MedianAgrees`).
* The adjusted values accept the same tests as the step-up procedure stated by counting, because
  a rounded-up quotient is at most `q` exactly when the quotient is (`RoundedUp`), and the minimum over
  the ranks above is attained at one of them, or is the cap of 1, which the largest p-value passes too.
* Folds are blocks of places in the order of the weeks; places grow with the weeks and have no gaps, so
  the test days of the folds follow one another up to the last, each is tested once, and none is empty.

The assumptions are what the code gives: `CadenceAssumption` (an interval is positive, a grace is
shorter) is `Cadence.misfire_grace_time`; `RegistryAssumption` and `PollsEachCycle` are proved of the
deployed registries; the others say that limits, times and sizes are numbers and that the sets of
runs or clients they bound are finite where something is counted. TLC evaluates each on its
instance.

Not proved, and why:

* liveness under fairness (`DueSlotIsConsumed`, `InstanceIsReturned`, `PublishedIsStored`) and `ENABLED`
  are out of the prover's reach, and stay with TLC;
* what a recursive definition computes for every input would need an induction over data. What the
  theorems need of one (a sum is a number, a run below the percentile is one more than that of the day
  before, a list of a finite set exists in order) is proved from its equation and, for existence,
  from a least counterexample. That a sum is the total one means by it is not proved.

No module declares a `RECURSIVE` operator, so each can be proved about.

## 5. Not modelled, and why

* The API routes that list or return series (`app/api/routes/series.py`, the list of runs), response
  models and error bodies: each is one or two reads with no state of
  its own. What a computation reads from several statements is in `ApiCache` and `Research`.
* Schema declarations (`migrations/*.sql`): the constraints that matter are part of the modules that
  write the tables. Terraform, Compose files and systemd units: declarations; what they start is in `Host`.
* `verify/*` and `infra/provision/discover_external_interface.py` read a live deployment and keep nothing;
  `install_docker.py` installs pinned packages once.
* `frontend`: renders what the API returns.
* Arithmetic of real numbers: a token, a median and a distance are exact integers in their own unit;
  a p-value is any decreasing function of the squared correlation (`statistics.py:164-249` integrates
  Student's density); the smoothing of the climatology over neighbouring days (`seasonal.py`) and the
  fold of a leap day are left out: the anomaly of a day is against the median of its own day of the
  year, guarded by the years that have that day rather than those that have its window.
* What changes no decision: the wording of sentences and log lines, `parameters_hash`, the audit rows
  of `analog_queries` and `analog_matches` (written only by the command, after the answer is formed), the
  git state of a run, compression statistics, the layout of reports, `--dry-run`.
* What is a parameter of another model: parsing the seed and the gaps out of the migration files
  (`gauges.py:177-750`, used by tests alone; sites, record starts and gaps are constants of
  `GaugeIngest`).
* A deploy that changes an interval or removes a job between two boots of `Scheduler`: `CADENCES` is
  constant there. `register_jobs` would keep the stored fire time of a changed job and the whole
  schedule of a removed one.
* In `Research` a sweep reads the targets of all horizons at once, where the code reads those of a
  horizon when it comes to it (one horizon in the runs); the reads of one analog query are one step; that a build may commit between them is
  the subject of `ApiCache`. `UsdaIngest` has one moment of publication within a run, and `Backup`
  one database.

## 6. Plan

Modelled and checked: every component that changes state, but for the analog engine's audit rows and
the installation of Docker. Proved: every safety and action property that a passing run checks, of all
nine specifications, and the three refinements. The three liveness properties stay with TLC.

The models leave one extension open: a change of `CADENCES` between two boots of `Scheduler`.
