------------------------------ MODULE Scheduler ------------------------------
(***************************************************************************)
(* The scheduler process of src/app/orchestration: APScheduler with its    *)
(* persistent job store, driven by the cadence table, the @job decorator   *)
(* that records every run in job_runs, the listener that records missed    *)
(* runs, and the one-shot command (run_once) that runs a job beside it.    *)
(*                                                                         *)
(* Actors: the scheduler's main loop, the threads of its pool, the         *)
(* one-shot processes, the database (which may be unreachable for a        *)
(* while), the clock, and the operator or the machine that kills, stops    *)
(* and starts the process.  Two things are persistent and survive a crash: *)
(* next_run_time (the table apscheduler_jobs) and job_runs.                *)
(***************************************************************************)
EXTENDS Integers, Sequences, FiniteSets

CONSTANTS
  Jobs,        \* CADENCES, which check_cadence_agreement equates with JOB_FUNCTIONS
  Threads,     \* the threads of the scheduler's pool
  Operators,   \* one-shot processes (python -m app.orchestration.run_once)
  Interval,    \* Cadence.interval, per job
  Grace,       \* Cadence.misfire_grace_time, per job
  MaxTime,     \* bound: the last instant of the clock
  MaxEvents,   \* bound: kills, stops, outages and one-shot runs together
  None         \* no value (a NULL, or no job)

(* The two constraints Cadence.__post_init__ derives its rows from; the    *)
(* second is what makes one late run, and never two, possible.             *)
ASSUME CadenceAssumption ==
  /\ Interval \in [Jobs -> Nat \ {0}]
  /\ Grace \in [Jobs -> Nat]
  /\ \A j \in Jobs : Grace[j] < Interval[j]

ASSUME BoundsAssumption ==
  MaxTime \in Nat /\ MaxEvents \in Nat

ASSUME NamesAssumption ==
  /\ None \notin Jobs /\ None \notin Nat
  /\ Threads \cap Operators = {}

(* What updating holds is told from what it is without a slot.            *)
ASSUME SlotAssumption == None \notin [job : Jobs, slot : Nat]

VARIABLES
  now,            \* the clock
  db,             \* "up", or "down" while no connection can be made
  proc,           \* the scheduler process, see ProcStates
  todo,           \* the cadences register_jobs has yet to reconcile
  next_run_time,  \* apscheduler_jobs: None until the job is first registered
  updating,       \* the slot submitted but not yet moved past in the job store
  instances,      \* the executor's count of live runs of each job
  run,            \* what each thread and each one-shot process is doing
  job_runs,       \* the table, in run_id order
  first,          \* history: the first fire time each job was given
  unrecorded,     \* history: the slots that left no row, and why
  crashes, stops, outages, manuals  \* what MaxEvents counts

store   == <<next_run_time, first>>
history == <<crashes, stops, outages, manuals>>
vars == <<now, db, proc, todo, next_run_time, updating, instances, run,
          job_runs, first, unrecorded, crashes, stops, outages, manuals>>

MoreEvents == crashes + stops + outages + manuals < MaxEvents

Runners == Threads \cup Operators

(* "paused": started, reconciling.  "dead": the process is alive but its   *)
(* main-loop thread is not.  "stopping": shutdown(wait=True).              *)
ProcStates == {"down", "paused", "up", "dead", "stopping"}

Instants == 0 .. MaxTime

(* A runner with nothing to do, and one that has been handed slot s of j.  *)
(* The slot is not a column of job_runs: it is the fire time the run was   *)
(* submitted for, and None for a run somebody asked for by hand.           *)
Idle == [pc |-> "idle", job |-> None, slot |-> None, row |-> 0]
Queued(j, s) == [pc |-> "queued", job |-> j, slot |-> s, row |-> 0]

(* The states in which a runner owns a row of job_runs: its function is    *)
(* running, has returned, or has raised.                                   *)
Owning == {"working", "returned", "raised"}

PcStates == {"idle", "queued", "finished", "misfired", "notifying"} \cup Owning

Row(j, s, st) == [job |-> j, slot |-> s, status |-> st]
Statuses == {"running", "success", "failed", "missed"}

(* Why a slot that has been passed has no row.                             *)
Reasons == {"coalesced", "max_instances", "no_database", "killed"}

Init ==
  /\ now = 0 /\ db = "up" /\ proc = "down" /\ todo = {}
  /\ next_run_time = [j \in Jobs |-> None]
  /\ first = [j \in Jobs |-> None]
  /\ updating = None
  /\ instances = [j \in Jobs |-> 0]
  /\ run = [r \in Runners |-> Idle]
  /\ job_runs = <<>>
  /\ unrecorded = {}
  /\ crashes = 0 /\ stops = 0 /\ outages = 0 /\ manuals = 0

-----------------------------------------------------------------------------
(* The environment: the clock and the database.                            *)

Tick ==
  /\ now < MaxTime
  /\ now' = now + 1
  /\ UNCHANGED <<db, proc, todo, store, updating, instances, run, job_runs,
                 unrecorded, history>>

LoseDatabase ==
  /\ db = "up" /\ MoreEvents
  /\ db' = "down" /\ outages' = outages + 1
  /\ UNCHANGED <<now, proc, todo, store, updating, instances, run, job_runs,
                 unrecorded, crashes, stops, manuals>>

RestoreDatabase ==
  /\ db = "down"
  /\ db' = "up"
  /\ UNCHANGED <<now, proc, todo, store, updating, instances, run, job_runs,
                 unrecorded, history>>

-----------------------------------------------------------------------------
(* start(): start paused, reconcile every cadence, resume.                 *)

StartPaused ==
  /\ proc = "down" /\ db = "up"
  /\ proc' = "paused" /\ todo' = Jobs
  /\ UNCHANGED <<now, db, store, updating, instances, run, job_runs,
                 unrecorded, history>>

(* Variant: add_job(replace_existing=True), the form register_jobs avoids. *)
ReplaceExisting(j) == now + Interval[j]

(* modify_job touches the trigger and the settings, not next_run_time.     *)
Reconciled(j) == next_run_time[j]

(* A job the store has never seen fires one interval from now; a job it    *)
(* knows keeps its next_run_time, past due or not.                         *)
RegisterJob(j) ==
  /\ proc = "paused" /\ j \in todo /\ db = "up"
  /\ todo' = todo \ {j}
  /\ \/ /\ next_run_time[j] = None
        /\ next_run_time' = [next_run_time EXCEPT ![j] = now + Interval[j]]
        /\ first' = [first EXCEPT ![j] = now + Interval[j]]
     \/ /\ next_run_time[j] # None
        /\ next_run_time' = [next_run_time EXCEPT ![j] = Reconciled(j)]
        /\ UNCHANGED first
  /\ UNCHANGED <<now, db, proc, updating, instances, run, job_runs,
                 unrecorded, history>>

(* The job store cannot be reached: the exception leaves main().           *)
StartFails ==
  /\ proc = "paused" /\ todo # {} /\ db = "down"
  /\ proc' = "down" /\ todo' = {}
  /\ UNCHANGED <<now, db, store, updating, instances, run, job_runs,
                 unrecorded, history>>

(* Variant: resume() forgotten.                                            *)
StillPaused == "paused"

Started == "up"

Resume ==
  /\ proc = "paused" /\ todo = {}
  /\ proc' = Started
  /\ UNCHANGED <<now, db, todo, store, updating, instances, run, job_runs,
                 unrecorded, history>>

-----------------------------------------------------------------------------
(* The main loop, one due job at a time: hand the run to the pool, then    *)
(* write the new next_run_time.  The two are separate steps, and the pool  *)
(* does not wait for the second.                                           *)

(* The fire times of j that have come, oldest first.                       *)
DueTimes(j) ==
  {s \in Instants : /\ next_run_time[j] <= s /\ s <= now
                    /\ (s - next_run_time[j]) % Interval[j] = 0}

(* coalesce=True: of several fire times only the last one, s, counts.      *)
IsLastDue(j, s) ==
  /\ next_run_time[j] # None /\ next_run_time[j] <= now
  /\ s \in DueTimes(j)
  /\ \A d \in DueTimes(j) : d <= s

Coalesced(j, s) == {<<j, d, "coalesced">> : d \in DueTimes(j) \ {s}}

LoopReady == proc = "up" /\ updating = None /\ db = "up"

(* Variant: no limit on the instances of a job.                            *)
AnyNumber(j) == TRUE

(* max_instances=1.                                                        *)
HasRoom(j) == instances[j] = 0

SubmitJob(j, s) ==
  /\ LoopReady
  /\ IsLastDue(j, s)
  /\ HasRoom(j)
  /\ \E t \in Threads : run[t] = Idle
  /\ LET t == CHOOSE t \in Threads : run[t] = Idle
     IN  run' = [run EXCEPT ![t] = Queued(j, s)]
  /\ instances' = [instances EXCEPT ![j] = @ + 1]
  /\ updating' = [job |-> j, slot |-> s]
  /\ unrecorded' = unrecorded \cup Coalesced(j, s)
  /\ UNCHANGED <<now, db, proc, todo, store, job_runs, history>>

(* The previous run is still live, and the slot is lost.  *)
(* The event this raises is not the one the listener subscribes to.        *)
SkipBusyJob(j, s) ==
  /\ LoopReady
  /\ IsLastDue(j, s)
  /\ ~HasRoom(j)
  /\ updating' = [job |-> j, slot |-> s]
  /\ unrecorded' = unrecorded \cup Coalesced(j, s) \cup {<<j, s, "max_instances">>}
  /\ UNCHANGED <<now, db, proc, todo, store, instances, run, job_runs, history>>

(* Variant: one interval past the stored fire time however many were due.  *)
OneIntervalOn(j, s) == next_run_time[j] + Interval[j]

(* IntervalTrigger.get_next_fire_time: from the slot, not from the clock.  *)
NextFireTime(j, s) == s + Interval[j]

UpdateJob ==
  /\ updating # None /\ db = "up"
  /\ next_run_time' = [next_run_time EXCEPT
                         ![updating.job] = NextFireTime(updating.job, updating.slot)]
  /\ updating' = None
  /\ UNCHANGED <<now, db, proc, todo, instances, run, job_runs, first,
                 unrecorded, history>>

(* The job store's write fails: the exception ends the main-loop thread,   *)
(* while main() goes on waiting for a signal.                              *)
LoopDies ==
  /\ updating # None /\ db = "down"
  /\ proc' = "dead" /\ updating' = None
  /\ UNCHANGED <<now, db, todo, store, instances, run, job_runs, unrecorded,
                 history>>

-----------------------------------------------------------------------------
(* A runner: a pool thread holding a slot, or a one-shot process.  Both    *)
(* call the same decorated function.                                       *)

(* Variant: misfire_grace_time=None, the run is never too late.            *)
NeverTooLate(r) == TRUE

InGrace(r) == run[r].slot # None => now - run[r].slot <= Grace[run[r].job]

(* A thread looks at the clock when it picks the run up, not when it was   *)
(* submitted; past the grace the function is never called.                 *)
Misfire(t) ==
  /\ run[t].pc = "queued" /\ ~InGrace(t)
  /\ run' = [run EXCEPT ![t].pc = "misfired"]
  /\ UNCHANGED <<now, db, proc, todo, store, updating, instances, job_runs,
                 unrecorded, history>>

(* _open_run: the running row is committed before the function is called.  *)
OpenRun(r) ==
  /\ run[r].pc = "queued" /\ InGrace(r) /\ db = "up"
  /\ job_runs' = Append(job_runs, Row(run[r].job, run[r].slot, "running"))
  /\ run' = [run EXCEPT ![r].pc = "working", ![r].row = Len(job_runs) + 1]
  /\ UNCHANGED <<now, db, proc, todo, store, updating, instances, unrecorded,
                 history>>

(* The row cannot be written, so the function is not called either.        *)
OpenRunFails(r) ==
  /\ run[r].pc = "queued" /\ InGrace(r) /\ db = "down"
  /\ run' = [run EXCEPT ![r].pc = "finished"]
  /\ unrecorded' = unrecorded \cup
       IF run[r].slot = None THEN {} ELSE {<<run[r].job, run[r].slot, "no_database">>}
  /\ UNCHANGED <<now, db, proc, todo, store, updating, instances, job_runs,
                 history>>

(* Variant: "except Exception", which a KeyboardInterrupt gets past.       *)
WorkEndsUncaught(r, outcome) ==
  /\ run[r].pc = "working"
  /\ run' = [run EXCEPT ![r].pc = IF outcome = "raised" THEN "finished" ELSE outcome]
  /\ UNCHANGED <<now, db, proc, todo, store, updating, instances, job_runs,
                 unrecorded, history>>

(* The wrapped function returns, or raises any BaseException.              *)
WorkEnds(r, outcome) ==
  /\ run[r].pc = "working"
  /\ run' = [run EXCEPT ![r].pc = outcome]
  /\ UNCHANGED <<now, db, proc, todo, store, updating, instances, job_runs,
                 unrecorded, history>>

Outcome(r) == IF run[r].pc = "returned" THEN "success" ELSE "failed"

(* Variant: UPDATE ... WHERE job_name = ... AND status = 'running'.        *)
ClosedByName(r) ==
  [i \in DOMAIN job_runs |->
     IF job_runs[i].job = run[r].job /\ job_runs[i].status = "running"
     THEN [job_runs[i] EXCEPT !.status = Outcome(r)] ELSE job_runs[i]]

(* UPDATE job_runs ... WHERE run_id = ...                                  *)
ClosedRows(r) == [job_runs EXCEPT ![run[r].row].status = Outcome(r)]

(* Variant: no "raise" after the failed run is closed, so that control     *)
(* falls through to the success path.                                      *)
FallsThrough(r) ==
  IF run[r].pc = "raised" THEN [run[r] EXCEPT !.pc = "returned"]
                          ELSE [run[r] EXCEPT !.pc = "finished", !.row = 0]

(* The exception goes on its way, or the result is returned.               *)
Left(r) == [run[r] EXCEPT !.pc = "finished", !.row = 0]

(* _close_run, on a connection of its own.                                 *)
CloseRun(r) ==
  /\ run[r].pc \in {"returned", "raised"} /\ db = "up"
  /\ job_runs' = ClosedRows(r)
  /\ run' = [run EXCEPT ![r] = Left(r)]
  /\ UNCHANGED <<now, db, proc, todo, store, updating, instances, unrecorded,
                 history>>

(* The row stays "running", whatever the function did.                     *)
CloseRunFails(r) ==
  /\ run[r].pc \in {"returned", "raised"} /\ db = "down"
  /\ run' = [run EXCEPT ![r] = Left(r)]
  /\ UNCHANGED <<now, db, proc, todo, store, updating, instances, job_runs,
                 unrecorded, history>>

(* Variant: a misfired run keeps its instance.                             *)
ReleasedIfRun(t) ==
  [instances EXCEPT ![run[t].job] = IF run[t].pc = "misfired" THEN @ ELSE @ - 1]

(* The executor's completion callback: the instance is given back first,   *)
(* and only then is the listener told of a misfire.                        *)
Released(t) == [instances EXCEPT ![run[t].job] = @ - 1]

ReleaseInstance(t) ==
  /\ run[t].pc \in {"finished", "misfired"}
  /\ instances' = Released(t)
  /\ run' = [run EXCEPT ![t] = IF run[t].pc = "misfired"
                               THEN [run[t] EXCEPT !.pc = "notifying"] ELSE Idle]
  /\ UNCHANGED <<now, db, proc, todo, store, updating, job_runs, unrecorded,
                 history>>

(* _on_job_missed: the missed row, stamped with the slot; a failure to     *)
(* write it is swallowed.                                                  *)
RecordMissed(t) ==
  /\ run[t].pc = "notifying"
  /\ run' = [run EXCEPT ![t] = Idle]
  /\ \/ /\ db = "up"
        /\ job_runs' = Append(job_runs, Row(run[t].job, run[t].slot, "missed"))
        /\ UNCHANGED unrecorded
     \/ /\ db = "down"
        /\ unrecorded' = unrecorded \cup {<<run[t].job, run[t].slot, "no_database">>}
        /\ UNCHANGED job_runs
  /\ UNCHANGED <<now, db, proc, todo, store, updating, instances, history>>

-----------------------------------------------------------------------------
(* run_once: the decorated function in a process of its own.  Neither the  *)
(* job store nor the scheduler's instance count knows of it.               *)

StartOnce(o, j) ==
  /\ run[o] = Idle /\ MoreEvents
  /\ run' = [run EXCEPT ![o] = Queued(j, None)]
  /\ manuals' = manuals + 1
  /\ UNCHANGED <<now, db, proc, todo, store, updating, instances, job_runs,
                 unrecorded, crashes, stops, outages>>

ExitOnce(o) ==
  /\ run[o].pc = "finished"
  /\ run' = [run EXCEPT ![o] = Idle]
  /\ UNCHANGED <<now, db, proc, todo, store, updating, instances, job_runs,
                 unrecorded, history>>

-----------------------------------------------------------------------------
(* The end of a process.                                                   *)

(* What a kill takes from the slots the threads T hold without a row.      *)
Killed(T) ==
  {<<run[t].job, run[t].slot, "killed">> :
     t \in {u \in T : run[u].pc \in {"queued", "misfired", "notifying"}}}

(* The scheduler is killed (or its machine stops) anywhere.                *)
Crash ==
  /\ proc # "down" /\ MoreEvents
  /\ proc' = "down" /\ todo' = {} /\ updating' = None
  /\ instances' = [j \in Jobs |-> 0]
  /\ run' = [r \in Runners |-> IF r \in Threads THEN Idle ELSE run[r]]
  /\ unrecorded' = unrecorded \cup Killed(Threads)
  /\ crashes' = crashes + 1
  /\ UNCHANGED <<now, db, store, job_runs, stops, outages, manuals>>

(* A one-shot process is killed.                                           *)
KillOnce(o) ==
  /\ run[o] # Idle /\ MoreEvents
  /\ run' = [run EXCEPT ![o] = Idle]
  /\ crashes' = crashes + 1
  /\ UNCHANGED <<now, db, proc, todo, store, updating, instances, job_runs,
                 unrecorded, stops, outages, manuals>>

(* SIGTERM: main() calls shutdown(wait=True), which takes the lock the     *)
(* main loop holds while it processes due jobs.                            *)
Terminate ==
  /\ proc \in {"up", "dead"} /\ updating = None /\ MoreEvents
  /\ proc' = "stopping" /\ stops' = stops + 1
  /\ UNCHANGED <<now, db, todo, store, updating, instances, run, job_runs,
                 unrecorded, crashes, outages, manuals>>

ShutdownDone ==
  /\ proc = "stopping" /\ \A t \in Threads : run[t] = Idle
  /\ proc' = "down"
  /\ UNCHANGED <<now, db, todo, store, updating, instances, run, job_runs,
                 unrecorded, history>>

-----------------------------------------------------------------------------
Boot == StartPaused \/ (\E j \in Jobs : RegisterJob(j)) \/ StartFails \/ Resume

Loop == \/ \E j \in Jobs, s \in Instants : SubmitJob(j, s) \/ SkipBusyJob(j, s)
        \/ UpdateJob \/ LoopDies

Decorated(r) ==
  \/ OpenRun(r) \/ OpenRunFails(r)
  \/ \E outcome \in {"returned", "raised"} : WorkEnds(r, outcome)
  \/ CloseRun(r) \/ CloseRunFails(r)

Pool(t) == Misfire(t) \/ Decorated(t) \/ ReleaseInstance(t) \/ RecordMissed(t)

OneShot(o) == (\E j \in Jobs : StartOnce(o, j)) \/ Decorated(o) \/ ExitOnce(o)

Environment == Tick \/ LoseDatabase \/ RestoreDatabase

Stop == Crash \/ (\E o \in Operators : KillOnce(o)) \/ Terminate \/ ShutdownDone

Next ==
  \/ Environment \/ Boot \/ Loop \/ Stop
  \/ \E t \in Threads : Pool(t)
  \/ \E o \in Operators : OneShot(o)

(* The clock has reached its bound and nothing is left to do.  Any other   *)
(* state without a step would be a deadlock.                               *)
Settled ==
  /\ now = MaxTime /\ db = "up" /\ updating = None
  /\ \A r \in Runners : run[r] = Idle
  /\ \/ proc = "dead"
     \/ proc = "up" /\ \A j \in Jobs : next_run_time[j] > now
  /\ UNCHANGED vars

Spec == Init /\ [][Next \/ Settled]_vars

(* Docker restarts the container (restart: unless-stopped) and the         *)
(* database; the loop and the pool threads are scheduled; every job's      *)
(* function ends, its network calls having timeouts.  Nothing makes the    *)
(* clock, a fault or an operator act.                                      *)
FairSpec ==
  /\ Spec
  /\ WF_vars(RestoreDatabase) /\ WF_vars(Boot) /\ WF_vars(Loop)
  /\ WF_vars(ShutdownDone)
  /\ \A t \in Threads : WF_vars(Pool(t))

-----------------------------------------------------------------------------
(* Properties.                                                             *)

RunStates == [pc : PcStates, job : Jobs \cup {None},
              slot : Instants \cup {None}, row : Nat]
Rows == [job : Jobs, slot : Instants \cup {None}, status : Statuses]

RunTypeOK ==
  /\ run \in [Runners -> RunStates]
  /\ \A r \in Runners : run[r].pc = "idle" \/ run[r].job \in Jobs
  /\ \A t \in Threads : run[t].pc = "idle" \/ run[t].slot \in Instants

TablesTypeOK ==
  /\ next_run_time \in [Jobs -> Nat \cup {None}]
  /\ first \in [Jobs -> Nat \cup {None}]
  /\ job_runs \in Seq(Rows)
  /\ unrecorded \subseteq (Jobs \X Instants \X Reasons)

ControlTypeOK ==
  /\ now \in Instants /\ db \in {"up", "down"} /\ proc \in ProcStates
  /\ todo \subseteq Jobs
  /\ updating \in {None} \cup [job : Jobs, slot : Instants]
  /\ instances \in [Jobs -> Int]
  /\ crashes \in Nat /\ stops \in Nat /\ outages \in Nat /\ manuals \in Nat

(* The type of every variable, and that only an idle runner has no job.    *)
TypeOK == RunTypeOK /\ TablesTypeOK /\ ControlTypeOK

Owns(r) == run[r].pc \in Owning

(* job.py's central claim: the running row is committed before the         *)
(* function is called, and each run closes the row it opened and no other. *)
(* So whatever the threads and one-shot processes of one job do at once,   *)
(* each of them holds a row of its own, of its job, still running.         *)
WorkIsRecorded ==
  /\ \A r \in Runners : Owns(r) =>
       /\ run[r].row \in DOMAIN job_runs
       /\ job_runs[run[r].row] = Row(run[r].job, run[r].slot, "running")
  /\ \A q, r \in Runners : Owns(q) /\ Owns(r) /\ q # r => run[q].row # run[r].row

Occupies(t, j) == run[t].job = j /\ run[t].pc \notin {"idle", "notifying"}

(* max_instances=1 (job_kwargs): however submissions, misfires, failures   *)
(* to write and restarts interleave, no two threads of the pool run one    *)
(* job, and the count that decides it is exact: a count too high would     *)
(* lock the job out until the next restart.                                *)
OneInstance ==
  \A j \in Jobs :
    /\ \A t, u \in Threads : Occupies(t, j) /\ Occupies(u, j) => t = u
    /\ instances[j] = IF \E t \in Threads : Occupies(t, j) THEN 1 ELSE 0

HasRow(j, s) == \E i \in DOMAIN job_runs : job_runs[i].job = j /\ job_runs[i].slot = s

InHand(j, s) == \E t \in Threads :
  /\ run[t].job = j /\ run[t].slot = s
  /\ run[t].pc \in {"queued", "misfired", "notifying"}

(* The persistent job store and register_jobs: no restart, crash or outage *)
(* makes the schedule jump over a fire time in silence.  Each one passed   *)
(* since the job's first registration has a row, is in a thread's hands,   *)
(* or is one of the listed losses.                                         *)
SlotsAccounted ==
  \A j \in Jobs : next_run_time[j] # None =>
    \A s \in first[j] .. next_run_time[j] - 1 :
      (s - first[j]) % Interval[j] = 0 =>
        \/ HasRow(j, s) \/ InHand(j, s)
        \/ \E why \in Reasons : <<j, s, why>> \in unrecorded

RowsOf(j, s) == {i \in DOMAIN job_runs : job_runs[i].job = j /\ job_runs[i].slot = s}

(* A slot is recorded once.  Only a process that dies between handing the  *)
(* run over and writing next_run_time hands it over again, once per death. *)
SlotRepeatsNeedADeath ==
  \A j \in Jobs, s \in Instants :
    Cardinality(RowsOf(j, s)) <= 1 + crashes + outages

(* Cadence.misfire_grace_time, "short enough that a run does not fire so   *)
(* late it overlaps the next one": whatever the queue, an outage or a      *)
(* restart cost it, a thread never starts a run of a slot when the job     *)
(* store already holds a later fire time that has come.                    *)
LateRunYieldsToNext ==
  [][\A t \in Threads :
       run[t].pc = "queued" /\ run'[t].pc = "working" =>
         next_run_time[run[t].job] \notin run[t].slot + 1 .. now]_vars

Owned(i) == \E r \in Runners : Owns(r) /\ run[r].row = i

(* A row that stays "running" although nobody runs it is evidence of a     *)
(* killed process or an unreachable database, never of how a job ended:    *)
(* returning and raising any BaseException both close it.                  *)
OrphansHaveACause ==
  crashes = 0 /\ outages = 0 =>
    \A i \in DOMAIN job_runs : job_runs[i].status = "running" => Owned(i)

(* The rows whose opener can still close them.                             *)
LiveRows == {run[r].row : r \in {q \in Runners : Owns(q)}}

Ledger == INSTANCE RunLedger WITH rows <- job_runs, live <- LiveRows, Slots <- Instants

(* job_runs is the ledger RunLedger promises, whatever the processes do.   *)
LedgerSpec == Ledger!Spec

(* A fire time that has come is eventually dealt with, through crashes,    *)
(* restarts and outages; the exception is the scheduler whose main loop    *)
(* has ended while its process lives, which Docker does not restart.       *)
DueSlotIsConsumed ==
  \A j \in Jobs, s \in Instants :
    (next_run_time[j] = s /\ s <= now) ~> (next_run_time[j] # s \/ proc = "dead")

(* A run that has been handed over gives its instance back, so that no job *)
(* is locked out of its own schedule for ever.                             *)
InstanceIsReturned == \A j \in Jobs : instances[j] > 0 ~> instances[j] = 0
=============================================================================
