--------------------------- MODULE SchedulerProofs ---------------------------
(***************************************************************************)
(* What TLAPS proves of Scheduler, for any jobs, threads, one-shot         *)
(* processes, cadences and bounds.                                         *)
(***************************************************************************)
EXTENDS Scheduler, FiniteSetTheorems, SequenceTheorems, TLAPS

USE CadenceAssumption, BoundsAssumption, NamesAssumption

(* What an UPDATE of one row's status does to the table.                   *)
LEMMA StatusUpdate ==
  ASSUME NEW q \in Seq(Rows), NEW i \in DOMAIN q, NEW st \in Statuses
  PROVE  /\ [q EXCEPT ![i].status = st] \in Seq(Rows)
         /\ Len([q EXCEPT ![i].status = st]) = Len(q)
         /\ \A k \in DOMAIN q : k # i => [q EXCEPT ![i].status = st][k] = q[k]
<1> DEFINE w == [q[i] EXCEPT !.status = st]
<1>1. i \in 1 .. Len(q) /\ DOMAIN q = 1 .. Len(q)
  BY LenProperties
<1>2. q[i] \in Rows
  BY <1>1, ElementOfSeq
<1>3. w \in Rows
  BY <1>2 DEF Rows
<1>4. [q EXCEPT ![i].status = st] = [q EXCEPT ![i] = w]
  OBVIOUS
<1>5. /\ [q EXCEPT ![i] = w] \in Seq(Rows)
      /\ Len([q EXCEPT ![i] = w]) = Len(q)
      /\ \A k \in DOMAIN q : k # i => [q EXCEPT ![i] = w][k] = q[k]
  <2> HIDE DEF w
  <2> QED
    BY <1>1, <1>3, ExceptSeq
<1> QED
  BY ONLY <1>4, <1>5, Zenon

(* Every step keeps the type of the scalar control state and the counts.   *)
LEMMA ControlTypeStep ==
  ASSUME TypeOK, Next \/ Settled
  PROVE  ControlTypeOK'
<1> USE DEF TypeOK, ControlTypeOK, Instants, ProcStates, store, history
<1>1. CASE Environment
  BY <1>1 DEF Environment, Tick, LoseDatabase, RestoreDatabase
<1>2. CASE Boot
  BY <1>2 DEF Boot, StartPaused, RegisterJob, StartFails, Resume, Started
<1>3. CASE Loop
  BY <1>3 DEF Loop, SubmitJob, SkipBusyJob, UpdateJob, LoopDies
<1>4. CASE Stop
  BY <1>4 DEF Stop, Crash, KillOnce, Terminate, ShutdownDone
<1>5. ASSUME NEW r \in Runners, Decorated(r)
      PROVE  ControlTypeOK'
  BY <1>5 DEF Decorated, OpenRun, OpenRunFails, WorkEnds, CloseRun, CloseRunFails
<1>6. ASSUME NEW t \in Threads, Pool(t)
      PROVE  ControlTypeOK'
  <2>1. CASE ReleaseInstance(t)
    <3>1. run[t].job \in Jobs
      BY <2>1 DEF ReleaseInstance, RunTypeOK, Runners
    <3>2. instances' \in [Jobs -> Int]
      BY <2>1, <3>1 DEF ReleaseInstance, Released
    <3> QED
      BY <2>1, <3>2 DEF ReleaseInstance
  <2> QED
    BY <1>5, <1>6, <2>1 DEF Pool, Misfire, RecordMissed, Runners
<1>7. ASSUME NEW o \in Operators, OneShot(o)
      PROVE  ControlTypeOK'
  BY <1>5, <1>7 DEF OneShot, StartOnce, ExitOnce, Runners
<1>8. CASE Settled
  BY <1>8 DEF Settled, vars
<1> QED
  BY <1>1, <1>2, <1>3, <1>4, <1>6, <1>7, <1>8 DEF Next

(* Every step keeps the type of the tables: rows enter by Append, change   *)
(* only in their status, and the losses are slots of the schedule.         *)
LEMMA TablesTypeStep ==
  ASSUME TypeOK, Next \/ Settled
  PROVE  TablesTypeOK'
<1> USE DEF TypeOK, TablesTypeOK, store
<1>1. CASE Environment
  BY <1>1 DEF Environment, Tick, LoseDatabase, RestoreDatabase
<1>2. CASE Boot
  <2>1. ASSUME NEW j \in Jobs, RegisterJob(j)
        PROVE  TablesTypeOK'
    <3>1. now + Interval[j] \in Nat
      BY DEF ControlTypeOK, Instants
    <3>2. /\ next_run_time \in [Jobs -> Nat \cup {None}] /\ first \in [Jobs -> Nat \cup {None}]
          /\ next_run_time[j] \in Nat \cup {None}
      OBVIOUS
    <3>3. /\ \E x \in Nat \cup {None} : next_run_time' = [next_run_time EXCEPT ![j] = x]
          /\ first' = first \/ first' = [first EXCEPT ![j] = now + Interval[j]]
      BY <2>1, <3>1, <3>2 DEF RegisterJob, Reconciled
    <3>4. next_run_time' \in [Jobs -> Nat \cup {None}]
      BY <3>2, <3>3
    <3>5. first' \in [Jobs -> Nat \cup {None}]
      BY <3>1, <3>2, <3>3
    <3>6. job_runs' = job_runs /\ unrecorded' = unrecorded
      BY <2>1 DEF RegisterJob
    <3> QED
      BY <3>6, <3>4, <3>5
  <2> QED
    BY <1>2, <2>1 DEF Boot, StartPaused, StartFails, Resume
<1>3. CASE Loop
  <2>1. ASSUME NEW j \in Jobs, NEW s \in Instants
        PROVE  Coalesced(j, s) \subseteq Jobs \X Instants \X Reasons
    BY DEF Coalesced, DueTimes, Reasons
  <2>2. ASSUME NEW j \in Jobs, NEW s \in Instants, SubmitJob(j, s)
        PROVE  TablesTypeOK'
    BY <2>1, <2>2 DEF SubmitJob
  <2>3. ASSUME NEW j \in Jobs, NEW s \in Instants, SkipBusyJob(j, s)
        PROVE  TablesTypeOK'
    <3>1. <<j, s, "max_instances">> \in Jobs \X Instants \X Reasons
      BY DEF Reasons
    <3> QED
      BY <2>1, <2>3, <3>1 DEF SkipBusyJob
  <2>4. CASE UpdateJob
    <3>1. NextFireTime(updating.job, updating.slot) \in Nat
      BY <2>4 DEF UpdateJob, NextFireTime, ControlTypeOK, Instants
    <3> QED
      BY <2>4, <3>1 DEF UpdateJob
  <2> QED
    BY <1>3, <2>2, <2>3, <2>4 DEF Loop, LoopDies
<1>4. CASE Stop
  <2>1. Killed(Threads) \subseteq Jobs \X Instants \X Reasons
    BY DEF Killed, RunTypeOK, Runners, Reasons
  <2> QED
    BY <1>4, <2>1 DEF Stop, Crash, KillOnce, Terminate, ShutdownDone
<1>5. ASSUME NEW r \in Runners, Decorated(r)
      PROVE  TablesTypeOK'
  <2>1. CASE OpenRun(r)
    <3>1. Row(run[r].job, run[r].slot, "running") \in Rows
      BY <2>1 DEF OpenRun, RunTypeOK, RunStates, Row, Rows, Statuses
    <3> QED
      BY <2>1, <3>1 DEF OpenRun
  <2>2. CASE OpenRunFails(r)
    <3>1. run[r].job \in Jobs /\ run[r].slot \in Instants \cup {None}
      BY <2>2 DEF OpenRunFails, RunTypeOK, RunStates
    <3>2. unrecorded' \subseteq Jobs \X Instants \X Reasons
      BY <2>2, <3>1 DEF OpenRunFails, Reasons
    <3> QED
      BY <2>2, <3>2 DEF OpenRunFails
  <2>3. CASE CloseRun(r)
    <3>1. Outcome(r) \in Statuses
      BY DEF Outcome, Statuses
    <3>2. job_runs' \in Seq(Rows)
      <4>1. CASE run[r].row \in DOMAIN job_runs
        <5>1. [job_runs EXCEPT ![run[r].row].status = Outcome(r)] \in Seq(Rows)
          BY <3>1, <4>1, StatusUpdate
        <5> QED
          BY <2>3, <5>1, Zenon DEF CloseRun, ClosedRows
      <4>2. CASE run[r].row \notin DOMAIN job_runs
        <5>1. \A e : [job_runs EXCEPT ![run[r].row] = e] = job_runs
          BY <4>2
        <5>2. job_runs' = [job_runs EXCEPT ![run[r].row] = [job_runs[run[r].row] EXCEPT !.status = Outcome(r)]]
          BY <2>3, Zenon DEF CloseRun, ClosedRows
        <5> QED
          BY <5>1, <5>2
      <4> QED
        BY <4>1, <4>2
    <3> QED
      BY <2>3, <3>2 DEF CloseRun
  <2> QED
    BY <1>5, <2>1, <2>2, <2>3 DEF Decorated, WorkEnds, CloseRunFails
<1>6. ASSUME NEW t \in Threads, Pool(t)
      PROVE  TablesTypeOK'
  <2>1. CASE RecordMissed(t)
    <3>1. run[t].job \in Jobs /\ run[t].slot \in Instants
      BY <2>1 DEF RecordMissed, RunTypeOK, Runners
    <3>2. Row(run[t].job, run[t].slot, "missed") \in Rows
      BY <3>1 DEF Row, Rows, Statuses
    <3>3. <<run[t].job, run[t].slot, "no_database">> \in Jobs \X Instants \X Reasons
      BY <3>1 DEF Reasons
    <3>4. job_runs' \in Seq(Rows)
      <4>1. \/ job_runs' = Append(job_runs, Row(run[t].job, run[t].slot, "missed"))
            \/ job_runs' = job_runs
        BY <2>1, Zenon DEF RecordMissed
      <4>2. Append(job_runs, Row(run[t].job, run[t].slot, "missed")) \in Seq(Rows)
        BY <3>2, AppendProperties
      <4> QED
        BY <4>1, <4>2
    <3>5. unrecorded' \subseteq Jobs \X Instants \X Reasons
      BY <2>1, <3>3 DEF RecordMissed
    <3> QED
      BY <2>1, <3>4, <3>5 DEF RecordMissed
  <2> QED
    BY <1>5, <1>6, <2>1 DEF Pool, Misfire, ReleaseInstance, Runners
<1>7. ASSUME NEW o \in Operators, OneShot(o)
      PROVE  TablesTypeOK'
  BY <1>5, <1>7 DEF OneShot, StartOnce, ExitOnce, Runners
<1>8. CASE Settled
  BY <1>8 DEF Settled, vars
<1> QED
  BY <1>1, <1>2, <1>3, <1>4, <1>6, <1>7, <1>8 DEF Next

(* The entry of one runner is replaced; those of the others are kept.      *)
LEMMA Replaced ==
  ASSUME RunTypeOK, NEW r \in Runners, NEW w \in RunStates,
         run' = [run EXCEPT ![r] = w]
  PROVE  /\ run' \in [Runners -> RunStates]
         /\ run'[r] = w
         /\ \A q \in Runners : q # r => run'[q] = run[q]
BY DEF RunTypeOK

(* One runner moves to another point of its run, with the same job, slot   *)
(* and row.                                                                *)
LEMMA Moved ==
  ASSUME RunTypeOK, NEW r \in Runners, NEW p \in PcStates,
         run' = [run EXCEPT ![r].pc = p]
  PROVE  /\ run' \in [Runners -> RunStates]
         /\ run'[r].pc = p /\ run'[r].job = run[r].job
         /\ run'[r].slot = run[r].slot /\ run'[r].row = run[r].row
         /\ \A q \in Runners : q # r => run'[q] = run[q]
<1> DEFINE w == [run[r] EXCEPT !.pc = p]
<1>1. run[r] \in RunStates
  BY DEF RunTypeOK
<1>2. /\ w \in RunStates /\ w.pc = p
      /\ w.job = run[r].job /\ w.slot = run[r].slot /\ w.row = run[r].row
  BY <1>1 DEF RunStates
<1>3. run' = [run EXCEPT ![r] = w]
  OBVIOUS
<1> HIDE DEF w
<1> QED
  BY <1>2, <1>3, Replaced

(* Opening a run enters its row and gives it to the runner.                *)
LEMMA Opened ==
  ASSUME TypeOK, NEW r \in Runners, OpenRun(r)
  PROVE  /\ run' \in [Runners -> RunStates]
         /\ run'[r].pc = "working" /\ run'[r].job = run[r].job
         /\ run'[r].slot = run[r].slot /\ run'[r].row = Len(job_runs) + 1
         /\ \A q \in Runners : q # r => run'[q] = run[q]
<1> USE DEF TypeOK
<1> DEFINE w == [run[r] EXCEPT !.pc = "working", !.row = Len(job_runs) + 1]
<1>1. run[r] \in RunStates
  BY DEF RunTypeOK
<1>2. Len(job_runs) + 1 \in Nat
  BY LenProperties DEF TablesTypeOK
<1>3. /\ w \in RunStates /\ w.pc = "working"
      /\ w.job = run[r].job /\ w.slot = run[r].slot /\ w.row = Len(job_runs) + 1
  BY <1>1, <1>2 DEF RunStates, PcStates, Owning
<1>4. run' = [run EXCEPT ![r] = w]
  <2>1. run' = [run EXCEPT ![r].pc = "working", ![r].row = Len(job_runs) + 1]
    BY DEF OpenRun
  <2>2. DOMAIN run = Runners
    BY DEF RunTypeOK
  <2> QED
    BY <2>1, <2>2, <1>1
<1> HIDE DEF w
<1> QED
  BY <1>3, <1>4, Replaced

(* A run that leaves the decorator keeps its job and slot, not its row.    *)
LEMMA Leaves ==
  ASSUME TypeOK, NEW r \in Runners, run' = [run EXCEPT ![r] = Left(r)]
  PROVE  /\ run' \in [Runners -> RunStates]
         /\ run'[r].pc = "finished" /\ run'[r].job = run[r].job
         /\ run'[r].slot = run[r].slot
         /\ \A q \in Runners : q # r => run'[q] = run[q]
<1> USE DEF TypeOK
<1>1. run[r] \in RunStates
  BY DEF RunTypeOK
<1>2. /\ Left(r) \in RunStates /\ Left(r).pc = "finished"
      /\ Left(r).job = run[r].job /\ Left(r).slot = run[r].slot
  BY <1>1 DEF Left, RunStates, PcStates
<1> QED
  BY <1>2, Replaced

(* What a step of the decorated function does to the runner that takes it. *)
LEMMA DecoratedStep ==
  ASSUME TypeOK, NEW r \in Runners, Decorated(r)
  PROVE  /\ run' \in [Runners -> RunStates]
         /\ run[r].pc \in {"queued", "working", "returned", "raised"}
         /\ run'[r].pc \in {"working", "returned", "raised", "finished"}
         /\ run'[r].job = run[r].job /\ run'[r].slot = run[r].slot
         /\ \A q \in Runners : q # r => run'[q] = run[q]
<1>1. CASE OpenRun(r)
  BY <1>1, Opened DEF OpenRun
<1>2. CASE OpenRunFails(r)
  BY <1>2, Moved DEF OpenRunFails, TypeOK, PcStates
<1>3. ASSUME NEW o \in {"returned", "raised"}, WorkEnds(r, o)
      PROVE  /\ run' \in [Runners -> RunStates]
             /\ run[r].pc = "working" /\ run'[r].pc = o
             /\ run'[r].job = run[r].job /\ run'[r].slot = run[r].slot
             /\ \A q \in Runners : q # r => run'[q] = run[q]
  <2>1. o \in PcStates
    BY <1>3 DEF PcStates, Owning
  <2> QED
    BY <1>3, <2>1, Moved DEF WorkEnds, TypeOK
<1>4. CASE CloseRun(r)
  BY <1>4, Leaves DEF CloseRun
<1>5. CASE CloseRunFails(r)
  BY <1>5, Leaves DEF CloseRunFails
<1> QED
  BY <1>1, <1>2, <1>3, <1>4, <1>5, Zenon DEF Decorated

(* The executor's callback gives a runner up, or keeps it for the listener. *)
LEMMA Releases ==
  ASSUME TypeOK, NEW t \in Threads, ReleaseInstance(t)
  PROVE  /\ run' \in [Runners -> RunStates]
         /\ \/ run'[t] = Idle
            \/ /\ run'[t].pc = "notifying"
               /\ run'[t].job = run[t].job /\ run'[t].slot = run[t].slot
         /\ \A q \in Runners : q # t => run'[q] = run[q]
<1> DEFINE w == IF run[t].pc = "misfired"
                THEN [run[t] EXCEPT !.pc = "notifying"] ELSE Idle
<1>1. t \in Runners /\ run[t] \in RunStates
  BY DEF TypeOK, RunTypeOK, Runners
<1>2. Idle \in RunStates
  BY DEF Idle, RunStates, PcStates
<1>3. [run[t] EXCEPT !.pc = "notifying"] \in RunStates
  BY <1>1 DEF RunStates, PcStates
<1>4. /\ w \in RunStates
      /\ \/ w = Idle
         \/ w.pc = "notifying" /\ w.job = run[t].job /\ w.slot = run[t].slot
  BY <1>1, <1>2, <1>3 DEF RunStates
<1>5. run' = [run EXCEPT ![t] = w]
  BY Zenon DEF ReleaseInstance
<1> HIDE DEF w
<1> QED
  BY <1>1, <1>4, <1>5, Replaced DEF TypeOK

(* Every step keeps the type of the runners, and a runner that is not idle *)
(* has a job, one of the pool a slot.                                      *)
LEMMA RunTypeStep ==
  ASSUME TypeOK, Next \/ Settled
  PROVE  RunTypeOK'
<1> USE DEF TypeOK, store
<1>1. ASSUME UNCHANGED run
      PROVE  RunTypeOK'
  BY <1>1 DEF RunTypeOK
<1>2. ASSUME NEW r \in Runners,
             run' \in [Runners -> RunStates],
             \A q \in Runners : q # r => run'[q] = run[q],
             \/ run'[r].pc = "idle"
             \/ /\ run'[r].job \in Jobs
                /\ r \in Threads => run'[r].slot \in Instants
      PROVE  RunTypeOK'
  BY <1>2 DEF RunTypeOK, Runners
<1>3. \A q \in Runners : run[q] \in RunStates
  BY DEF RunTypeOK
<1>4. Idle \in RunStates /\ Idle.pc = "idle"
  BY DEF Idle, RunStates, PcStates
<1>5. \A j \in Jobs, s \in Instants \cup {None} :
        Queued(j, s) \in RunStates /\ Queued(j, s).job = j /\ Queued(j, s).slot = s
  BY DEF Queued, RunStates, PcStates
<1>6. ASSUME NEW r \in Runners, NEW j \in Jobs, NEW s \in Instants \cup {None},
              run' = [run EXCEPT ![r] = Queued(j, s)],
              r \in Threads => s \in Instants
       PROVE  RunTypeOK'
  <2>1. /\ run' \in [Runners -> RunStates]
        /\ run'[r] = Queued(j, s)
        /\ \A q \in Runners : q # r => run'[q] = run[q]
    BY <1>5, <1>6, Replaced
  <2>2. run'[r].job \in Jobs /\ (r \in Threads => run'[r].slot \in Instants)
    BY <1>5, <1>6, <2>1
  <2> QED
    BY <1>2, <2>1, <2>2
<1>7. ASSUME NEW j \in Jobs, NEW s \in Instants, SubmitJob(j, s)
      PROVE  RunTypeOK'
  <2>1. PICK t \in Threads : run' = [run EXCEPT ![t] = Queued(j, s)]
    BY <1>7 DEF SubmitJob
  <2> QED
    BY <1>6, <2>1 DEF Runners
<1>8. CASE Crash
  BY <1>8, <1>3, <1>4 DEF Crash, RunTypeOK, Runners
<1>9. ASSUME NEW o \in Operators, NEW j \in Jobs, StartOnce(o, j)
      PROVE  RunTypeOK'
  BY <1>6, <1>9 DEF StartOnce, Runners, NamesAssumption
<1>10. ASSUME NEW r \in Runners, run' = [run EXCEPT ![r] = Idle]
      PROVE  RunTypeOK'
  BY <1>2, <1>4, <1>10, Replaced
<1>11. ASSUME NEW r \in Runners, Decorated(r)
       PROVE  RunTypeOK'
  BY <1>2, <1>11, DecoratedStep DEF RunTypeOK
<1>12. ASSUME NEW t \in Threads, Misfire(t)
       PROVE  RunTypeOK'
  BY <1>2, <1>12, Moved DEF Misfire, Runners, PcStates, RunTypeOK
<1>13. ASSUME NEW t \in Threads, ReleaseInstance(t)
       PROVE  RunTypeOK'
  BY <1>2, <1>4, <1>13, Releases DEF ReleaseInstance, Runners, RunTypeOK
<1>14. CASE Environment
  BY <1>1, <1>14 DEF Environment, Tick, LoseDatabase, RestoreDatabase
<1>15. CASE Boot
  BY <1>1, <1>15 DEF Boot, StartPaused, RegisterJob, StartFails, Resume
<1>16. CASE Loop
  BY <1>1, <1>7, <1>16 DEF Loop, SkipBusyJob, UpdateJob, LoopDies
<1>17. CASE Stop
  BY <1>1, <1>8, <1>10, <1>17 DEF Stop, KillOnce, Terminate, ShutdownDone, Runners
<1>18. ASSUME NEW t \in Threads, Pool(t)
       PROVE  RunTypeOK'
  BY <1>10, <1>11, <1>12, <1>13, <1>18 DEF Pool, RecordMissed, Runners
<1>19. ASSUME NEW o \in Operators, OneShot(o)
       PROVE  RunTypeOK'
  BY <1>9, <1>10, <1>11, <1>19 DEF OneShot, ExitOnce, Runners
<1>20. CASE Settled
  BY <1>1, <1>20 DEF Settled, vars
<1> QED
  BY <1>14, <1>15, <1>16, <1>17, <1>18, <1>19, <1>20 DEF Next

(* Every variable keeps its type, and a runner that is not idle its job:   *)
(* the values the decorator, the listener and the executor read are there. *)
THEOREM TypeCorrect == Spec => []TypeOK
<1>1. Init => TypeOK
  <2>1. Init => RunTypeOK
    <3>1. Idle \in RunStates /\ Idle.pc = "idle"
      BY DEF Idle, RunStates, PcStates
    <3> QED
      BY <3>1 DEF Init, RunTypeOK, Runners
  <2>2. Init => TablesTypeOK
    BY EmptySeq DEF Init, TablesTypeOK
  <2>3. Init => ControlTypeOK
    BY DEF Init, ControlTypeOK, Instants, ProcStates
  <2> QED
    BY <2>1, <2>2, <2>3 DEF TypeOK
<1>2. TypeOK /\ [Next \/ Settled]_vars => TypeOK'
  <2>1. CASE Next \/ Settled
    BY <2>1, ControlTypeStep, TablesTypeStep, RunTypeStep DEF TypeOK
  <2>2. CASE UNCHANGED vars
    BY <2>2 DEF vars, TypeOK, RunTypeOK, TablesTypeOK, ControlTypeOK
  <2> QED
    BY <2>1, <2>2
<1> QED
  BY <1>1, <1>2, PTL DEF Spec

-----------------------------------------------------------------------------
(* Each run closes the row it opened.                                      *)

(* A step that adds no owner and touches no row keeps WorkIsRecorded.      *)
LEMMA RecordsKept ==
  ASSUME WorkIsRecorded,
         \A i \in DOMAIN job_runs : i \in DOMAIN job_runs' /\ job_runs'[i] = job_runs[i],
         \A r \in Runners : Owns(r)' =>
           /\ Owns(r) /\ run'[r].row = run[r].row
           /\ run'[r].job = run[r].job /\ run'[r].slot = run[r].slot
  PROVE  WorkIsRecorded'
BY DEF WorkIsRecorded, Row

(* A row that is added leaves the others where they are.                   *)
LEMMA Appended ==
  ASSUME TypeOK, NEW w \in Rows, job_runs' = Append(job_runs, w)
  PROVE  /\ \A i \in DOMAIN job_runs : i \in DOMAIN job_runs' /\ job_runs'[i] = job_runs[i]
         /\ DOMAIN job_runs = 1 .. Len(job_runs)
         /\ DOMAIN job_runs' = 1 .. Len(job_runs) + 1
         /\ job_runs'[Len(job_runs) + 1] = w
BY AppendProperties, LenProperties DEF TypeOK, TablesTypeOK

LEMMA WorkIsRecordedOpen ==
  ASSUME TypeOK, WorkIsRecorded, NEW r \in Runners, OpenRun(r)
  PROVE  WorkIsRecorded'
<1>1. Row(run[r].job, run[r].slot, "running") \in Rows
  BY DEF OpenRun, TypeOK, RunTypeOK, RunStates, Row, Rows, Statuses
<1>2. /\ run'[r].job = run[r].job /\ run'[r].slot = run[r].slot
      /\ run'[r].row = Len(job_runs) + 1
      /\ \A q \in Runners : q # r => run'[q] = run[q]
  BY Opened
<1>3. /\ \A i \in DOMAIN job_runs : i \in DOMAIN job_runs' /\ job_runs'[i] = job_runs[i]
      /\ DOMAIN job_runs = 1 .. Len(job_runs)
      /\ DOMAIN job_runs' = 1 .. Len(job_runs) + 1
      /\ job_runs'[Len(job_runs) + 1] = Row(run[r].job, run[r].slot, "running")
  BY <1>1, Appended DEF OpenRun
<1>4. Len(job_runs) \in Nat
  BY LenProperties DEF TypeOK, TablesTypeOK
<1>5. ASSUME NEW q \in Runners, q # r, Owns(q)'
      PROVE  /\ run'[q].row \in DOMAIN job_runs
             /\ run'[q].row \in DOMAIN job_runs'
             /\ job_runs'[run'[q].row] = Row(run'[q].job, run'[q].slot, "running")
  BY <1>2, <1>3, <1>5 DEF WorkIsRecorded, Owns
<1>6. ASSUME NEW p \in Runners, NEW q \in Runners, p # r, q # r, p # q,
             Owns(p)', Owns(q)'
      PROVE  run'[p].row # run'[q].row
  BY <1>2, <1>6 DEF WorkIsRecorded, Owns
<1> QED
  BY <1>2, <1>3, <1>4, <1>5, <1>6 DEF WorkIsRecorded

LEMMA WorkIsRecordedClose ==
  ASSUME TypeOK, WorkIsRecorded, NEW r \in Runners, CloseRun(r)
  PROVE  WorkIsRecorded'
<1>1. Owns(r) /\ run[r].row \in DOMAIN job_runs
  BY DEF CloseRun, Owns, Owning, WorkIsRecorded
<1>2. Outcome(r) \in Statuses
  BY DEF Outcome, Statuses
<1>3. /\ job_runs' \in Seq(Rows) /\ Len(job_runs') = Len(job_runs)
      /\ \A k \in DOMAIN job_runs : k # run[r].row => job_runs'[k] = job_runs[k]
  BY <1>1, <1>2, StatusUpdate DEF CloseRun, ClosedRows, TypeOK, TablesTypeOK
<1>4. DOMAIN job_runs' = DOMAIN job_runs
  BY <1>3, LenProperties DEF TypeOK, TablesTypeOK
<1>5. run'[r].pc = "finished" /\ \A q \in Runners : q # r => run'[q] = run[q]
  BY Leaves DEF CloseRun
<1>6. ~Owns(r)'
  BY <1>5 DEF Owns, Owning
<1>7. \A q \in Runners : Owns(q)' =>
        Owns(q) /\ run'[q] = run[q] /\ run[q].row # run[r].row
  BY <1>1, <1>5, <1>6 DEF Owns, WorkIsRecorded
<1>8. ASSUME NEW q \in Runners, Owns(q)'
      PROVE  /\ run'[q].row \in DOMAIN job_runs'
             /\ job_runs'[run'[q].row] = Row(run'[q].job, run'[q].slot, "running")
  <2>1. /\ run[q].row \in DOMAIN job_runs
        /\ job_runs[run[q].row] = Row(run[q].job, run[q].slot, "running")
    BY <1>7, <1>8 DEF WorkIsRecorded
  <2> QED
    BY <1>3, <1>4, <1>7, <1>8, <2>1
<1>9. ASSUME NEW p \in Runners, NEW q \in Runners, p # q, Owns(p)', Owns(q)'
      PROVE  run'[p].row # run'[q].row
  BY <1>7, <1>9 DEF WorkIsRecorded
<1> QED
  BY <1>8, <1>9 DEF WorkIsRecorded

LEMMA WorkIsRecordedStep ==
  ASSUME TypeOK, WorkIsRecorded, Next \/ Settled
  PROVE  WorkIsRecorded'
<1> USE DEF store, Owns, Owning
<1>1. ASSUME UNCHANGED job_runs,
             \A r \in Runners : Owns(r)' =>
               /\ Owns(r) /\ run'[r].row = run[r].row
               /\ run'[r].job = run[r].job /\ run'[r].slot = run[r].slot
      PROVE  WorkIsRecorded'
  BY <1>1, RecordsKept
<1>2. ASSUME UNCHANGED <<job_runs, run>>
      PROVE  WorkIsRecorded'
  BY <1>1, <1>2
<1>3. ASSUME NEW r \in Runners, NEW w \in RunStates, w.pc \notin Owning,
             run' = [run EXCEPT ![r] = w], UNCHANGED job_runs
      PROVE  WorkIsRecorded'
  BY <1>1, <1>3, Replaced DEF TypeOK
<1>4. Idle \in RunStates /\ Idle.pc \notin Owning
  BY DEF Idle, RunStates, PcStates
<1>5. \A j \in Jobs, s \in Instants \cup {None} :
        Queued(j, s) \in RunStates /\ Queued(j, s).pc \notin Owning
  BY DEF Queued, RunStates, PcStates
<1>6. ASSUME NEW r \in Runners, NEW p \in PcStates, p \notin Owning \/ Owns(r),
             run' = [run EXCEPT ![r].pc = p], UNCHANGED job_runs
      PROVE  WorkIsRecorded'
  BY <1>1, <1>6, Moved DEF TypeOK
<1>7. CASE Environment
  BY <1>2, <1>7 DEF Environment, Tick, LoseDatabase, RestoreDatabase
<1>8. CASE Boot
  BY <1>2, <1>8 DEF Boot, StartPaused, RegisterJob, StartFails, Resume
<1>9. CASE Loop
  <2>1. ASSUME NEW j \in Jobs, NEW s \in Instants, SubmitJob(j, s)
        PROVE  WorkIsRecorded'
    <3>1. PICK t \in Threads : run' = [run EXCEPT ![t] = Queued(j, s)]
      BY <2>1 DEF SubmitJob
    <3> QED
      BY <1>3, <1>5, <2>1, <3>1 DEF SubmitJob, Runners
  <2> QED
    BY <1>2, <1>9, <2>1 DEF Loop, SkipBusyJob, UpdateJob, LoopDies
<1>10. CASE Stop
  <2>1. CASE Crash
    BY <1>1, <1>4, <2>1 DEF Crash, TypeOK, RunTypeOK, Runners
  <2> QED
    BY <1>2, <1>3, <1>4, <1>10, <2>1
       DEF Stop, KillOnce, Terminate, ShutdownDone, Runners
<1>11. ASSUME NEW r \in Runners, Decorated(r)
       PROVE  WorkIsRecorded'
  <2>1. CASE OpenRunFails(r)
    BY <1>6, <2>1 DEF OpenRunFails, PcStates
  <2>2. ASSUME NEW o \in {"returned", "raised"}, WorkEnds(r, o)
        PROVE  WorkIsRecorded'
    BY <1>6, <2>2 DEF WorkEnds, PcStates
  <2>3. CASE CloseRunFails(r)
    <3>1. /\ run'[r].pc = "finished"
          /\ \A q \in Runners : q # r => run'[q] = run[q]
      BY <2>3, Leaves DEF CloseRunFails
    <3> QED
      BY <1>1, <2>3, <3>1 DEF CloseRunFails
  <2> QED
    BY <1>11, <2>1, <2>2, <2>3, WorkIsRecordedOpen, WorkIsRecordedClose
       DEF Decorated
<1>12. ASSUME NEW t \in Threads, Pool(t)
       PROVE  WorkIsRecorded'
  <2>1. CASE Misfire(t)
    BY <1>6, <2>1 DEF Misfire, PcStates, Runners
  <2>2. CASE ReleaseInstance(t)
    <3>1. /\ run'[t].pc \in {"idle", "notifying"}
          /\ \A q \in Runners : q # t => run'[q] = run[q]
      BY <2>2, Releases DEF Idle
    <3> QED
      BY <1>1, <2>2, <3>1 DEF ReleaseInstance
  <2>3. CASE RecordMissed(t)
    <3>1. t \in Runners /\ run[t].job \in Jobs /\ run[t].slot \in Instants
      BY <2>3 DEF RecordMissed, TypeOK, RunTypeOK, Runners
    <3>2. Row(run[t].job, run[t].slot, "missed") \in Rows
      BY <3>1 DEF Row, Rows, Statuses
    <3>3. \/ job_runs' = Append(job_runs, Row(run[t].job, run[t].slot, "missed"))
          \/ job_runs' = job_runs
      BY <2>3, Zenon DEF RecordMissed
    <3>4. \A i \in DOMAIN job_runs : i \in DOMAIN job_runs' /\ job_runs'[i] = job_runs[i]
      BY <3>2, <3>3, Appended
    <3>5. /\ run'[t].pc = "idle"
          /\ \A q \in Runners : q # t => run'[q] = run[q]
      BY <2>3, <3>1, <1>4, Replaced DEF RecordMissed, TypeOK, Idle
    <3> QED
      BY <3>4, <3>5, RecordsKept
  <2> QED
    BY <1>11, <1>12, <2>1, <2>2, <2>3 DEF Pool, Runners
<1>13. ASSUME NEW o \in Operators, OneShot(o)
       PROVE  WorkIsRecorded'
  <2>1. o \in Runners
    BY DEF Runners
  <2>2. ASSUME NEW j \in Jobs, StartOnce(o, j)
        PROVE  WorkIsRecorded'
    BY <1>3, <1>5, <2>1, <2>2 DEF StartOnce
  <2>3. CASE ExitOnce(o)
    BY <1>3, <1>4, <2>1, <2>3 DEF ExitOnce
  <2> QED
    BY <1>11, <1>13, <2>1, <2>2, <2>3 DEF OneShot
<1>14. CASE Settled
  BY <1>2, <1>14 DEF Settled, vars
<1> QED
  BY <1>7, <1>8, <1>9, <1>10, <1>12, <1>13, <1>14 DEF Next

(* The running row is committed before the function is called, and each    *)
(* run closes the row it opened and no other, whatever the pool and the    *)
(* one-shot processes do at once.                                          *)
THEOREM RecordsAreOwned == Spec => []WorkIsRecorded
<1>1. Init => WorkIsRecorded
  BY DEF Init, WorkIsRecorded, Owns, Owning, Idle
<1>2. TypeOK /\ WorkIsRecorded /\ [Next \/ Settled]_vars => WorkIsRecorded'
  <2>1. CASE UNCHANGED vars
    BY <2>1 DEF vars, WorkIsRecorded, Owns
  <2> QED
    BY <2>1, WorkIsRecordedStep
<1> QED
  BY <1>1, <1>2, TypeCorrect, PTL DEF Spec

-----------------------------------------------------------------------------
(* The count of instances is exact, and no two threads run one job.        *)

LEMMA OneInstanceSubmit ==
  ASSUME TypeOK, OneInstance, NEW j \in Jobs, NEW s \in Instants, SubmitJob(j, s)
  PROVE  OneInstance'
<1>1. PICK t \in Threads : run[t] = Idle /\ run' = [run EXCEPT ![t] = Queued(j, s)]
  BY DEF SubmitJob
<1>2. Queued(j, s) \in RunStates /\ Queued(j, s).pc = "queued" /\ Queued(j, s).job = j
  BY DEF Queued, RunStates, PcStates
<1>3. run'[t].pc = "queued" /\ run'[t].job = j
  BY <1>1, <1>2, Replaced DEF TypeOK, Runners
<1>4. \A u \in Threads : u # t => run'[u] = run[u]
  BY <1>1, <1>2, Replaced DEF TypeOK, Runners
<1>5. \A u \in Threads : ~Occupies(u, j)
  BY DEF SubmitJob, HasRoom, OneInstance
<1>6. \A k \in Jobs : ~Occupies(t, k)
  BY <1>1 DEF Occupies, Idle
<1>7. \A u \in Threads, k \in Jobs :
        Occupies(u, k)' <=> IF u = t THEN k = j ELSE Occupies(u, k)
  BY <1>3, <1>4 DEF Occupies
<1>8. /\ instances' = [instances EXCEPT ![j] = @ + 1]
      /\ instances[j] = 0 /\ instances \in [Jobs -> Int]
  BY DEF SubmitJob, HasRoom, TypeOK, ControlTypeOK
<1>9. ASSUME NEW k \in Jobs, k # j
      PROVE  /\ instances'[k] = instances[k]
             /\ \A u \in Threads : Occupies(u, k)' <=> Occupies(u, k)
  BY <1>6, <1>7, <1>8, <1>9
<1>10. instances'[j] = 1 /\ \A u \in Threads : Occupies(u, j)' <=> u = t
  BY <1>5, <1>7, <1>8
<1> QED
  BY <1>9, <1>10 DEF OneInstance

LEMMA OneInstanceRelease ==
  ASSUME TypeOK, OneInstance, NEW t \in Threads, ReleaseInstance(t)
  PROVE  OneInstance'
<1>1. PICK j \in Jobs : j = run[t].job /\ Occupies(t, j)
  BY DEF ReleaseInstance, Occupies, TypeOK, RunTypeOK, Runners
<1>2. \A u \in Threads : u # t => run'[u] = run[u]
  BY Releases DEF Runners
<1>3. \A k \in Jobs : ~Occupies(t, k)'
  BY Releases DEF Occupies, Idle
<1>4. \A u \in Threads, k \in Jobs : Occupies(u, k)' <=> u # t /\ Occupies(u, k)
  BY <1>2, <1>3 DEF Occupies
<1>5. \A u \in Threads : Occupies(u, j) => u = t
  BY <1>1 DEF OneInstance
<1>6. instances[j] = 1
  BY <1>1 DEF OneInstance
<1>7. /\ instances' = [instances EXCEPT ![j] = @ - 1]
      /\ instances \in [Jobs -> Int]
  BY <1>1 DEF ReleaseInstance, Released, TypeOK, ControlTypeOK
<1>8. ASSUME NEW k \in Jobs, k # j
      PROVE  /\ instances'[k] = instances[k]
             /\ \A u \in Threads : Occupies(u, k)' <=> Occupies(u, k)
  <2>1. ~Occupies(t, k)
    BY <1>1, <1>8 DEF Occupies
  <2> QED
    BY <1>4, <1>7, <1>8, <2>1
<1>9. instances'[j] = 0 /\ \A u \in Threads : ~Occupies(u, j)'
  BY <1>1, <1>4, <1>5, <1>6, <1>7
<1> QED
  BY <1>8, <1>9 DEF OneInstance

LEMMA OneInstanceStep ==
  ASSUME TypeOK, OneInstance, Next \/ Settled
  PROVE  OneInstance'
<1> USE DEF store
<1>1. ASSUME UNCHANGED instances,
             \A t \in Threads, j \in Jobs : Occupies(t, j)' <=> Occupies(t, j)
      PROVE  OneInstance'
  BY <1>1 DEF OneInstance
<1>2. ASSUME UNCHANGED <<instances, run>>
      PROVE  OneInstance'
  BY <1>1, <1>2 DEF Occupies
<1>3. ASSUME UNCHANGED instances, NEW t \in Threads,
             \A u \in Threads : u # t => run'[u] = run[u],
             \/ /\ run'[t].job = run[t].job
                /\ (run[t].pc \in {"idle", "notifying"}) <=> (run'[t].pc \in {"idle", "notifying"})
             \/ run[t].pc \in {"idle", "notifying"} /\ run'[t].pc \in {"idle", "notifying"}
      PROVE  OneInstance'
  BY <1>1, <1>3 DEF Occupies
<1>4. ASSUME NEW o \in Operators, UNCHANGED instances,
             \A q \in Runners : q # o => run'[q] = run[q]
      PROVE  OneInstance'
  <2>1. \A t \in Threads : run'[t] = run[t]
    BY <1>4 DEF Runners, NamesAssumption
  <2> QED
    BY <1>1, <1>4, <2>1 DEF Occupies
<1>5. Idle \in RunStates /\ Idle.pc = "idle"
  BY DEF Idle, RunStates, PcStates
<1>6. ASSUME NEW r \in Runners, Decorated(r)
      PROVE  OneInstance'
  <2>1. UNCHANGED instances
    BY <1>6 DEF Decorated, OpenRun, OpenRunFails, WorkEnds, CloseRun, CloseRunFails
  <2>2. CASE r \in Operators
    BY <1>4, <1>6, <2>1, <2>2, DecoratedStep
  <2>3. CASE r \in Threads
    <3>1. /\ run'[r].job = run[r].job
          /\ run[r].pc \notin {"idle", "notifying"}
          /\ run'[r].pc \notin {"idle", "notifying"}
          /\ \A q \in Runners : q # r => run'[q] = run[q]
      BY <1>6, DecoratedStep
    <3> QED
      BY <1>3, <2>1, <2>3, <3>1 DEF Runners
  <2> QED
    BY <2>2, <2>3 DEF Runners
<1>7. CASE Environment
  BY <1>2, <1>7 DEF Environment, Tick, LoseDatabase, RestoreDatabase
<1>8. CASE Boot
  BY <1>2, <1>8 DEF Boot, StartPaused, RegisterJob, StartFails, Resume
<1>9. CASE Loop
  BY <1>2, <1>9, OneInstanceSubmit DEF Loop, SkipBusyJob, UpdateJob, LoopDies
<1>10. CASE Stop
  <2>1. CASE Crash
    <3>1. \A t \in Threads, j \in Jobs : ~Occupies(t, j)'
      BY <1>5, <2>1 DEF Crash, Occupies, Runners
    <3> QED
      BY <2>1, <3>1 DEF Crash, OneInstance
  <2>2. ASSUME NEW o \in Operators, KillOnce(o)
        PROVE  OneInstance'
    BY <1>4, <1>5, <2>2, Replaced DEF KillOnce, Runners, TypeOK
  <2> QED
    BY <1>2, <1>10, <2>1, <2>2 DEF Stop, Terminate, ShutdownDone
<1>11. ASSUME NEW t \in Threads, Pool(t)
       PROVE  OneInstance'
  <2>1. t \in Runners
    BY DEF Runners
  <2>2. CASE Misfire(t)
    <3>1. /\ run'[t].pc = "misfired" /\ run'[t].job = run[t].job
          /\ \A q \in Runners : q # t => run'[q] = run[q]
      BY <2>1, <2>2, Moved DEF Misfire, TypeOK, PcStates
    <3> QED
      BY <1>3, <2>2, <3>1 DEF Misfire, Runners
  <2>3. CASE RecordMissed(t)
    <3>1. /\ run'[t].pc = "idle"
          /\ \A q \in Runners : q # t => run'[q] = run[q]
      BY <1>5, <2>1, <2>3, Replaced DEF RecordMissed, TypeOK
    <3> QED
      BY <1>3, <2>3, <3>1 DEF RecordMissed, Runners
  <2> QED
    BY <1>6, <1>11, <2>1, <2>2, <2>3, OneInstanceRelease DEF Pool
<1>12. ASSUME NEW o \in Operators, OneShot(o)
       PROVE  OneInstance'
  <2>1. o \in Runners
    BY DEF Runners
  <2>2. ASSUME NEW j \in Jobs, StartOnce(o, j)
        PROVE  OneInstance'
    <3>1. Queued(j, None) \in RunStates
      BY DEF Queued, RunStates, PcStates
    <3> QED
      BY <1>4, <2>1, <2>2, <3>1, Replaced DEF StartOnce, TypeOK
  <2>3. CASE ExitOnce(o)
    BY <1>4, <1>5, <2>1, <2>3, Replaced DEF ExitOnce, TypeOK
  <2> QED
    BY <1>6, <1>12, <2>1, <2>2, <2>3 DEF OneShot
<1>13. CASE Settled
  BY <1>2, <1>13 DEF Settled, vars
<1> QED
  BY <1>7, <1>8, <1>9, <1>10, <1>11, <1>12, <1>13 DEF Next

(* max_instances=1: no two threads of the pool ever run one job, and the   *)
(* count that decides it is neither too low nor, which would lock the job  *)
(* out, too high.                                                          *)
THEOREM InstancesAreExact == Spec => []OneInstance
<1>1. Init => OneInstance
  BY DEF Init, OneInstance, Occupies, Idle, Runners
<1>2. TypeOK /\ OneInstance /\ [Next \/ Settled]_vars => OneInstance'
  <2>1. CASE UNCHANGED vars
    BY <2>1 DEF vars, OneInstance, Occupies
  <2> QED
    BY <2>1, OneInstanceStep
<1> QED
  BY <1>1, <1>2, TypeCorrect, PTL DEF Spec

-----------------------------------------------------------------------------
(* The scheduler, its pool and the one-shot processes together implement   *)
(* RunLedger: job_runs is the append-only ledger its readers take it for.  *)

(* A step that leaves the table alone and takes no row over either leaves  *)
(* the live rows alone or abandons some of them.                           *)
LEMMA LedgerAbandon ==
  ASSUME UNCHANGED job_runs, LiveRows' \subseteq LiveRows
  PROVE  [Ledger!Next]_Ledger!vars
<1>1. Ledger!Abandon(LiveRows \ LiveRows')
  BY DEF Ledger!Abandon
<1>2. LiveRows \ LiveRows' \in SUBSET LiveRows
  OBVIOUS
<1> QED
  BY <1>1, <1>2 DEF Ledger!Next

(* The row is owned by one run only, so that giving it up ends its life.   *)
LEMMA LiveRowsWithout ==
  ASSUME WorkIsRecorded, NEW r \in Runners, Owns(r), ~Owns(r)',
         \A q \in Runners : q # r => run'[q] = run[q]
  PROVE  LiveRows' = LiveRows \ {run[r].row}
<1>1. \A q \in Runners : Owns(q)' <=> q # r /\ Owns(q)
  BY DEF Owns
<1>2. \A q \in Runners : q # r /\ Owns(q) => run[q].row # run[r].row
  BY DEF WorkIsRecorded
<1> QED
  BY <1>1, <1>2 DEF LiveRows

(* The runners other than r keep their rows, and r takes none.             *)
LEMMA LiveRowsShrink ==
  ASSUME NEW r \in Runners, ~Owns(r)',
         \A q \in Runners : q # r => run'[q] = run[q]
  PROVE  LiveRows' \subseteq LiveRows
BY DEF LiveRows, Owns

LEMMA LedgerOpen ==
  ASSUME TypeOK, NEW r \in Runners, OpenRun(r)
  PROVE  \E j \in Jobs, s \in Instants \cup {None} : Ledger!Open(j, s)
<1>1. run[r].job \in Jobs /\ run[r].slot \in Instants \cup {None} /\ ~Owns(r)
  BY DEF OpenRun, TypeOK, RunTypeOK, RunStates, Owns, Owning
<1>2. /\ run'[r].pc = "working" /\ run'[r].row = Len(job_runs) + 1
      /\ \A q \in Runners : q # r => run'[q] = run[q]
  BY Opened
<1>3. \A q \in Runners : Owns(q)' <=> q = r \/ Owns(q)
  BY <1>2 DEF Owns, Owning
<1>4. LiveRows' = LiveRows \cup {Len(job_runs) + 1}
  BY <1>1, <1>2, <1>3 DEF LiveRows
<1>5. job_runs' = Append(job_runs, Row(run[r].job, run[r].slot, "running"))
  BY DEF OpenRun
<1>6. Ledger!Open(run[r].job, run[r].slot)
  BY <1>4, <1>5 DEF Ledger!Open, Ledger!Row, Row
<1> QED
  BY <1>1, <1>6

LEMMA LedgerClose ==
  ASSUME TypeOK, WorkIsRecorded, NEW r \in Runners, CloseRun(r)
  PROVE  \E i \in LiveRows, st \in {"success", "failed"} : Ledger!Close(i, st)
<1>1. Owns(r)
  BY DEF CloseRun, Owns, Owning
<1>2. run[r].row \in LiveRows
  BY <1>1 DEF LiveRows
<1>3. job_runs[run[r].row].status = "running"
  <2>1. job_runs[run[r].row] = Row(run[r].job, run[r].slot, "running")
    BY <1>1 DEF WorkIsRecorded
  <2> QED
    BY <2>1 DEF Row
<1>4. /\ run'[r].pc = "finished"
      /\ \A q \in Runners : q # r => run'[q] = run[q]
  BY Leaves DEF CloseRun
<1>5. LiveRows' = LiveRows \ {run[r].row}
  BY <1>1, <1>4, LiveRowsWithout DEF Owns, Owning
<1>6. job_runs' = [job_runs EXCEPT ![run[r].row].status = Outcome(r)]
  BY DEF CloseRun, ClosedRows
<1>7. Ledger!Close(run[r].row, Outcome(r))
  BY <1>2, <1>3, <1>5, <1>6, Zenon DEF Ledger!Close
<1>8. Outcome(r) \in {"success", "failed"}
  BY DEF Outcome
<1> QED
  BY <1>2, <1>7, <1>8

LEMMA LedgerMiss ==
  ASSUME TypeOK, NEW t \in Threads, RecordMissed(t)
  PROVE  [Ledger!Next]_Ledger!vars
<1>1. t \in Runners /\ run[t].job \in Jobs /\ run[t].slot \in Instants /\ ~Owns(t)
  BY DEF RecordMissed, TypeOK, RunTypeOK, Runners, Owns, Owning
<1>2. Idle \in RunStates /\ Idle.pc = "idle"
  BY DEF Idle, RunStates, PcStates
<1>3. /\ run'[t].pc = "idle"
      /\ \A q \in Runners : q # t => run'[q] = run[q]
  BY <1>1, <1>2, Replaced DEF RecordMissed, TypeOK
<1>4. LiveRows' = LiveRows
  BY <1>1, <1>3 DEF LiveRows, Owns, Owning
<1>5. \/ job_runs' = Append(job_runs, Row(run[t].job, run[t].slot, "missed"))
      \/ job_runs' = job_runs
  BY Zenon DEF RecordMissed
<1>6. ASSUME job_runs' = Append(job_runs, Row(run[t].job, run[t].slot, "missed"))
      PROVE  \E j \in Jobs, s \in Instants : Ledger!Miss(j, s)
  BY <1>1, <1>4, <1>6 DEF Ledger!Miss, Ledger!Row, Row
<1> QED
  BY <1>4, <1>5, <1>6 DEF Ledger!Next, Ledger!vars

LEMMA LedgerStep ==
  ASSUME TypeOK, WorkIsRecorded, Next \/ Settled
  PROVE  [Ledger!Next]_Ledger!vars
<1> USE DEF store
<1>1. ASSUME UNCHANGED <<job_runs, run>>
      PROVE  [Ledger!Next]_Ledger!vars
  BY <1>1, LedgerAbandon DEF LiveRows, Owns
<1>2. ASSUME UNCHANGED job_runs, NEW r \in Runners, NEW w \in RunStates,
             w.pc \notin Owning, run' = [run EXCEPT ![r] = w]
      PROVE  [Ledger!Next]_Ledger!vars
  BY <1>2, Replaced, LiveRowsShrink, LedgerAbandon DEF TypeOK, Owns
<1>3. ASSUME UNCHANGED job_runs, NEW r \in Runners, NEW p \in PcStates,
             p \notin Owning \/ Owns(r), run' = [run EXCEPT ![r].pc = p]
      PROVE  [Ledger!Next]_Ledger!vars
  <2>1. \A q \in Runners : Owns(q)' => Owns(q) /\ run'[q].row = run[q].row
    BY <1>3, Moved DEF Owns, TypeOK
  <2>2. LiveRows' \subseteq LiveRows
    BY <2>1 DEF LiveRows
  <2> QED
    BY <1>3, <2>2, LedgerAbandon
<1>4. Idle \in RunStates /\ Idle.pc \notin Owning
  BY DEF Idle, RunStates, PcStates, Owning
<1>5. \A j \in Jobs, s \in Instants \cup {None} :
        Queued(j, s) \in RunStates /\ Queued(j, s).pc \notin Owning
  BY DEF Queued, RunStates, PcStates, Owning
<1>6. CASE Environment
  BY <1>1, <1>6 DEF Environment, Tick, LoseDatabase, RestoreDatabase
<1>7. CASE Boot
  BY <1>1, <1>7 DEF Boot, StartPaused, RegisterJob, StartFails, Resume
<1>8. CASE Loop
  <2>1. ASSUME NEW j \in Jobs, NEW s \in Instants, SubmitJob(j, s)
        PROVE  [Ledger!Next]_Ledger!vars
    <3>1. PICK t \in Threads : run' = [run EXCEPT ![t] = Queued(j, s)]
      BY <2>1 DEF SubmitJob
    <3> QED
      BY <1>2, <1>5, <2>1, <3>1 DEF SubmitJob, Runners
  <2> QED
    BY <1>1, <1>8, <2>1 DEF Loop, SkipBusyJob, UpdateJob, LoopDies
<1>9. CASE Stop
  <2>1. CASE Crash
    <3>1. \A q \in Runners : Owns(q)' => Owns(q) /\ run'[q].row = run[q].row
      BY <1>4, <2>1 DEF Crash, Owns, Runners
    <3>2. LiveRows' \subseteq LiveRows
      BY <3>1 DEF LiveRows
    <3> QED
      BY <2>1, <3>2, LedgerAbandon DEF Crash
  <2> QED
    BY <1>1, <1>2, <1>4, <1>9, <2>1
       DEF Stop, KillOnce, Terminate, ShutdownDone, Runners
<1>10. ASSUME NEW r \in Runners, Decorated(r)
       PROVE  [Ledger!Next]_Ledger!vars
  <2>1. CASE OpenRun(r)
    BY <2>1, LedgerOpen DEF Ledger!Next
  <2>2. CASE OpenRunFails(r)
    BY <1>3, <2>2 DEF OpenRunFails, PcStates, Owning
  <2>3. ASSUME NEW o \in {"returned", "raised"}, WorkEnds(r, o)
        PROVE  [Ledger!Next]_Ledger!vars
    BY <1>3, <2>3 DEF WorkEnds, PcStates, Owns, Owning
  <2>4. CASE CloseRun(r)
    BY <2>4, LedgerClose DEF Ledger!Next
  <2>5. CASE CloseRunFails(r)
    <3>1. /\ ~Owns(r)'
          /\ \A q \in Runners : q # r => run'[q] = run[q]
      BY <2>5, Leaves DEF CloseRunFails, Owns, Owning
    <3> QED
      BY <2>5, <3>1, LiveRowsShrink, LedgerAbandon DEF CloseRunFails
  <2> QED
    BY <1>10, <2>1, <2>2, <2>3, <2>4, <2>5, Zenon DEF Decorated
<1>11. ASSUME NEW t \in Threads, Pool(t)
       PROVE  [Ledger!Next]_Ledger!vars
  <2>1. t \in Runners
    BY DEF Runners
  <2>2. CASE Misfire(t)
    BY <1>3, <2>1, <2>2 DEF Misfire, PcStates, Owning
  <2>3. CASE ReleaseInstance(t)
    <3>1. /\ ~Owns(t)'
          /\ \A q \in Runners : q # t => run'[q] = run[q]
      BY <2>3, Releases DEF Owns, Owning, Idle
    <3> QED
      BY <2>1, <2>3, <3>1, LiveRowsShrink, LedgerAbandon DEF ReleaseInstance
  <2> QED
    BY <1>10, <1>11, <2>1, <2>2, <2>3, LedgerMiss, Zenon DEF Pool
<1>12. ASSUME NEW o \in Operators, OneShot(o)
       PROVE  [Ledger!Next]_Ledger!vars
  <2>1. o \in Runners
    BY DEF Runners
  <2>2. ASSUME NEW j \in Jobs, StartOnce(o, j)
        PROVE  [Ledger!Next]_Ledger!vars
    BY <1>2, <1>5, <2>1, <2>2 DEF StartOnce
  <2>3. CASE ExitOnce(o)
    BY <1>2, <1>4, <2>1, <2>3 DEF ExitOnce
  <2> QED
    BY <1>10, <1>12, <2>1, <2>2, <2>3, Zenon DEF OneShot
<1>13. CASE Settled
  BY <1>1, <1>13 DEF Settled, vars
<1> QED
  BY <1>6, <1>7, <1>8, <1>9, <1>11, <1>12, <1>13, Zenon DEF Next

(* job_runs is the ledger RunLedger promises: every row enters as running  *)
(* or missed, is closed at most once and by its opener only, and never     *)
(* changes or goes away otherwise.                                         *)
THEOREM ImplementsLedger == Spec => LedgerSpec
<1>1. Init => Ledger!Init
  BY DEF Init, Ledger!Init, LiveRows, Owns, Owning, Idle
<1>2. TypeOK /\ WorkIsRecorded /\ [Next \/ Settled]_vars => [Ledger!Next]_Ledger!vars
  <2>1. CASE UNCHANGED vars
    BY <2>1 DEF vars, Ledger!vars, LiveRows, Owns
  <2> QED
    BY <2>1, LedgerStep
<1> QED
  BY <1>1, <1>2, TypeCorrect, RecordsAreOwned, PTL DEF Spec, LedgerSpec, Ledger!Spec

-----------------------------------------------------------------------------
(* No row stays running without a kill or an outage.                       *)

(* An outage is counted, so that a write can only fail after one.          *)
OutagesAreCounted == db = "down" => outages > 0

LEMMA OutagesAreCountedStep ==
  ASSUME TypeOK, OutagesAreCounted, Next \/ Settled
  PROVE  OutagesAreCounted'
<1> USE DEF store, history, OutagesAreCounted
<1>1. CASE Environment
  BY <1>1 DEF Environment, Tick, LoseDatabase, RestoreDatabase, TypeOK, ControlTypeOK
<1>2. CASE Boot
  BY <1>2 DEF Boot, StartPaused, RegisterJob, StartFails, Resume
<1>3. CASE Loop
  BY <1>3 DEF Loop, SubmitJob, SkipBusyJob, UpdateJob, LoopDies
<1>4. CASE Stop
  BY <1>4 DEF Stop, Crash, KillOnce, Terminate, ShutdownDone
<1>5. ASSUME NEW r \in Runners, Decorated(r)
      PROVE  OutagesAreCounted'
  BY <1>5 DEF Decorated, OpenRun, OpenRunFails, WorkEnds, CloseRun, CloseRunFails
<1>6. ASSUME NEW t \in Threads, Pool(t)
      PROVE  OutagesAreCounted'
  BY <1>5, <1>6 DEF Pool, Misfire, ReleaseInstance, RecordMissed, Runners
<1>7. ASSUME NEW o \in Operators, OneShot(o)
      PROVE  OutagesAreCounted'
  BY <1>5, <1>7 DEF OneShot, StartOnce, ExitOnce, Runners
<1>8. CASE Settled
  BY <1>8 DEF Settled, vars
<1> QED
  BY <1>1, <1>2, <1>3, <1>4, <1>6, <1>7, <1>8 DEF Next

(* Counts of faults never go down, so that a run without one has had none. *)
LEMMA FaultsOnlyGrow ==
  ASSUME TypeOK, Next \/ Settled, crashes' = 0, outages' = 0
  PROVE  /\ crashes = 0 /\ outages = 0
         /\ ~Crash /\ \A o \in Operators : ~KillOnce(o)
<1> USE DEF store, history, TypeOK, ControlTypeOK
<1>1. CASE Environment
  BY <1>1 DEF Environment, Tick, LoseDatabase, RestoreDatabase, Crash, KillOnce
<1>2. CASE Boot
  BY <1>2 DEF Boot, StartPaused, RegisterJob, StartFails, Resume, Crash, KillOnce
<1>3. CASE Loop
  BY <1>3 DEF Loop, SubmitJob, SkipBusyJob, UpdateJob, LoopDies, Crash, KillOnce
<1>4. CASE Stop
  BY <1>4 DEF Stop, Crash, KillOnce, Terminate, ShutdownDone
<1>5. ASSUME NEW r \in Runners, Decorated(r)
      PROVE  crashes' = crashes /\ outages' = outages
  BY <1>5 DEF Decorated, OpenRun, OpenRunFails, WorkEnds, CloseRun, CloseRunFails
<1>6. ASSUME NEW t \in Threads, Pool(t)
      PROVE  crashes' = crashes /\ outages' = outages
  BY <1>5, <1>6 DEF Pool, Misfire, ReleaseInstance, RecordMissed, Runners
<1>7. ASSUME NEW o \in Operators, OneShot(o)
      PROVE  crashes' = crashes /\ outages' = outages
  BY <1>5, <1>7 DEF OneShot, StartOnce, ExitOnce, Runners
<1>8. CASE Settled
  BY <1>8 DEF Settled, vars, Crash, KillOnce
<1>9. ASSUME crashes' = crashes
      PROVE  ~Crash /\ \A o \in Operators : ~KillOnce(o)
  BY <1>9 DEF Crash, KillOnce
<1> QED
  BY <1>1, <1>2, <1>3, <1>4, <1>6, <1>7, <1>8, <1>9 DEF Next

(* The rows that are running have an owner. *)
RunningIsOwned ==
  \A i \in DOMAIN job_runs : job_runs[i].status = "running" => Owned(i)

LEMMA RunningIsOwnedDecorated ==
  ASSUME TypeOK, WorkIsRecorded, RunningIsOwned, db = "up",
         NEW r \in Runners, Decorated(r)
  PROVE  RunningIsOwned'
<1> USE DEF RunningIsOwned, Owned, Owns, Owning
<1>1. CASE OpenRun(r)
  <2>1. Row(run[r].job, run[r].slot, "running") \in Rows
    BY <1>1 DEF OpenRun, TypeOK, RunTypeOK, RunStates, Row, Rows, Statuses
  <2>2. /\ \A i \in DOMAIN job_runs : job_runs'[i] = job_runs[i]
        /\ \A i \in DOMAIN job_runs' : i \in DOMAIN job_runs \/ i = Len(job_runs) + 1
    <3>1. Len(job_runs) \in Nat
      BY LenProperties DEF TypeOK, TablesTypeOK
    <3> QED
      BY <1>1, <2>1, <3>1, Appended DEF OpenRun
  <2>3. /\ run[r].pc = "queued"
        /\ run'[r].pc = "working" /\ run'[r].row = Len(job_runs) + 1
        /\ \A q \in Runners : q # r => run'[q] = run[q]
    BY <1>1, Opened DEF OpenRun
  <2> QED
    BY <2>2, <2>3
<1>2. CASE OpenRunFails(r)
  BY <1>2 DEF OpenRunFails
<1>3. ASSUME NEW o \in {"returned", "raised"}, WorkEnds(r, o)
      PROVE  RunningIsOwned'
  <2>1. /\ run'[r].pc = o /\ run'[r].row = run[r].row
        /\ \A q \in Runners : q # r => run'[q] = run[q]
        /\ UNCHANGED job_runs
    <3>1. RunTypeOK /\ o \in PcStates
      BY DEF TypeOK, PcStates
    <3>2. run' = [run EXCEPT ![r].pc = o] /\ UNCHANGED job_runs
      BY <1>3 DEF WorkEnds
    <3> QED
      BY <3>1, <3>2, Moved
  <2> QED
    BY <2>1
<1>4. CASE CloseRun(r)
  <2>1. Outcome(r) \in Statuses /\ Outcome(r) # "running"
    BY DEF Outcome, Statuses
  <2>2. run[r].row \in DOMAIN job_runs
    BY <1>4 DEF CloseRun, WorkIsRecorded
  <2>3. /\ job_runs' \in Seq(Rows) /\ Len(job_runs') = Len(job_runs)
        /\ \A k \in DOMAIN job_runs : k # run[r].row => job_runs'[k] = job_runs[k]
    BY <1>4, <2>1, <2>2, StatusUpdate DEF CloseRun, ClosedRows, TypeOK, TablesTypeOK
  <2>4. DOMAIN job_runs' = DOMAIN job_runs
    BY <2>3, LenProperties DEF TypeOK, TablesTypeOK
  <2>5. job_runs'[run[r].row].status = Outcome(r)
    <3>1. job_runs[run[r].row] \in Rows
      BY <2>2, ElementOfSeq, LenProperties DEF TypeOK, TablesTypeOK
    <3>2. job_runs'[run[r].row] = [job_runs[run[r].row] EXCEPT !.status = Outcome(r)]
      BY <1>4, <2>2, Zenon DEF CloseRun, ClosedRows
    <3> QED
      BY <3>1, <3>2 DEF Rows
  <2>6. \A q \in Runners : q # r => run'[q] = run[q]
    BY <1>4, Leaves DEF CloseRun
  <2> QED
    BY <2>1, <2>3, <2>4, <2>5, <2>6
<1>5. ~CloseRunFails(r)
  BY DEF CloseRunFails
<1> QED
  BY <1>1, <1>2, <1>3, <1>4, <1>5, Zenon DEF Decorated

LEMMA RunningIsOwnedStep ==
  ASSUME TypeOK, WorkIsRecorded, RunningIsOwned, db = "up", Next \/ Settled,
         ~Crash, \A o \in Operators : ~KillOnce(o)
  PROVE  RunningIsOwned'
<1> USE DEF store
<1>1. ASSUME UNCHANGED job_runs,
             \A q \in Runners : Owns(q) => run'[q] = run[q]
      PROVE  RunningIsOwned'
  BY <1>1 DEF RunningIsOwned, Owned, Owns
<1>2. ASSUME UNCHANGED <<job_runs, run>>
      PROVE  RunningIsOwned'
  BY <1>1, <1>2
<1>3. ASSUME UNCHANGED job_runs, NEW r \in Runners, NEW w \in RunStates,
             ~Owns(r), run' = [run EXCEPT ![r] = w]
      PROVE  RunningIsOwned'
  BY <1>1, <1>3, Replaced DEF TypeOK
<1>4. Idle \in RunStates /\ Idle.pc = "idle"
  BY DEF Idle, RunStates, PcStates
<1>5. \A j \in Jobs, s \in Instants \cup {None} : Queued(j, s) \in RunStates
  BY DEF Queued, RunStates, PcStates
<1>6. CASE Environment
  BY <1>2, <1>6 DEF Environment, Tick, LoseDatabase, RestoreDatabase
<1>7. CASE Boot
  BY <1>2, <1>7 DEF Boot, StartPaused, RegisterJob, StartFails, Resume
<1>8. CASE Loop
  <2>1. ASSUME NEW j \in Jobs, NEW s \in Instants, SubmitJob(j, s)
        PROVE  RunningIsOwned'
    <3>1. PICK t \in Threads : run[t] = Idle /\ run' = [run EXCEPT ![t] = Queued(j, s)]
      BY <2>1 DEF SubmitJob
    <3>2. ~Owns(t)
      BY <1>4, <3>1 DEF Owns, Owning
    <3> QED
      BY <1>3, <1>5, <2>1, <3>1, <3>2 DEF SubmitJob, Runners
  <2> QED
    BY <1>2, <1>8, <2>1 DEF Loop, SkipBusyJob, UpdateJob, LoopDies
<1>9. CASE Stop
  BY <1>2, <1>9 DEF Stop, Terminate, ShutdownDone
<1>10. ASSUME NEW t \in Threads, Pool(t)
       PROVE  RunningIsOwned'
  <2>1. t \in Runners
    BY DEF Runners
  <2>2. CASE Misfire(t)
    <3>1. ~Owns(t) /\ \A q \in Runners : q # t => run'[q] = run[q]
      BY <2>1, <2>2, Moved DEF Misfire, PcStates, Owns, Owning, TypeOK
    <3> QED
      BY <1>1, <2>2, <3>1 DEF Misfire
  <2>3. CASE ReleaseInstance(t)
    <3>1. ~Owns(t) /\ \A q \in Runners : q # t => run'[q] = run[q]
      BY <2>3, Releases DEF ReleaseInstance, Owns, Owning
    <3> QED
      BY <1>1, <2>3, <3>1 DEF ReleaseInstance
  <2>4. CASE RecordMissed(t)
    <3>1. run[t].job \in Jobs /\ run[t].slot \in Instants /\ ~Owns(t)
      BY <2>1, <2>4 DEF RecordMissed, TypeOK, RunTypeOK, Owns, Owning
    <3>2. /\ Row(run[t].job, run[t].slot, "missed") \in Rows
          /\ Row(run[t].job, run[t].slot, "missed").status # "running"
      BY <3>1 DEF Row, Rows, Statuses
    <3>3. job_runs' = Append(job_runs, Row(run[t].job, run[t].slot, "missed"))
      BY <2>4, Zenon DEF RecordMissed
    <3>4. /\ \A i \in DOMAIN job_runs : job_runs'[i] = job_runs[i]
          /\ \A i \in DOMAIN job_runs' : i \in DOMAIN job_runs \/ i = Len(job_runs) + 1
          /\ job_runs'[Len(job_runs) + 1].status # "running"
      <4>1. Len(job_runs) \in Nat
        BY LenProperties DEF TypeOK, TablesTypeOK
      <4> QED
        BY <3>2, <3>3, <4>1, Appended
    <3>5. \A q \in Runners : Owns(q) => run'[q] = run[q]
      BY <1>4, <2>1, <2>4, <3>1, Replaced DEF RecordMissed, TypeOK
    <3> QED
      BY <3>4, <3>5 DEF RunningIsOwned, Owned, Owns
  <2> QED
    BY <1>10, <2>1, <2>2, <2>3, <2>4, RunningIsOwnedDecorated, Zenon DEF Pool
<1>11. ASSUME NEW o \in Operators, OneShot(o)
       PROVE  RunningIsOwned'
  <2>1. o \in Runners
    BY DEF Runners
  <2>2. ASSUME NEW j \in Jobs, StartOnce(o, j)
        PROVE  RunningIsOwned'
    BY <1>3, <1>4, <1>5, <2>1, <2>2 DEF StartOnce, Owns, Owning
  <2>3. CASE ExitOnce(o)
    BY <1>3, <1>4, <2>1, <2>3 DEF ExitOnce, Owns, Owning
  <2> QED
    BY <1>11, <2>1, <2>2, <2>3, RunningIsOwnedDecorated, Zenon DEF OneShot
<1>12. CASE Settled
  BY <1>2, <1>12 DEF Settled, vars
<1> QED
  BY <1>6, <1>7, <1>8, <1>9, <1>10, <1>11, <1>12, Zenon DEF Next

(* Without a kill or an outage no row is left running by a job that ended, *)
(* however it ended.                                                       *)
THEOREM OrphansNeedAFault == Spec => []OrphansHaveACause
<1> DEFINE IInv == OutagesAreCounted /\ OrphansHaveACause
<1>1. Init => IInv
  BY DEF Init, OutagesAreCounted, OrphansHaveACause
<1>2. TypeOK /\ WorkIsRecorded /\ IInv /\ [Next \/ Settled]_vars => IInv'
  <2>1. CASE UNCHANGED vars
    BY <2>1 DEF vars, OutagesAreCounted, OrphansHaveACause, Owned, Owns
  <2>2. ASSUME TypeOK, WorkIsRecorded, IInv, Next \/ Settled,
               crashes' = 0, outages' = 0
        PROVE  RunningIsOwned'
    <3>1. /\ crashes = 0 /\ outages = 0
          /\ ~Crash /\ \A o \in Operators : ~KillOnce(o)
      BY <2>2, FaultsOnlyGrow
    <3>2. db = "up"
      BY <2>2, <3>1 DEF OutagesAreCounted, TypeOK, ControlTypeOK
    <3>3. RunningIsOwned
      BY <2>2, <3>1 DEF OrphansHaveACause, RunningIsOwned
    <3> QED
      BY <2>2, <3>1, <3>2, <3>3, RunningIsOwnedStep
  <2>3. ASSUME TypeOK, WorkIsRecorded, IInv, Next \/ Settled
        PROVE  IInv'
    <3>1. OutagesAreCounted'
      BY <2>3, OutagesAreCountedStep
    <3>2. OrphansHaveACause'
      BY <2>2, <2>3 DEF OrphansHaveACause, RunningIsOwned
    <3> QED
      BY <3>1, <3>2
  <2> QED
    BY <2>1, <2>3
<1> QED
  BY <1>1, <1>2, TypeCorrect, RecordsAreOwned, PTL DEF Spec

-----------------------------------------------------------------------------
(* No fire time is lost in silence, and a late run never overlaps the next *)
(* one, for any jobs, threads, cadences and bounds.  Both rest on the fact *)
(* that every slot the scheduler handles lies on one grid per job: whole   *)
(* intervals from the job's first fire time.                               *)

OnGrid(j, s) == (s - first[j]) % Interval[j] = 0

Handled(j, s) ==
  \/ HasRow(j, s) \/ InHand(j, s)
  \/ \E why \in Reasons : <<j, s, why>> \in unrecorded

StoreOnGrid ==
  \A j \in Jobs : next_run_time[j] # None =>
    /\ first[j] # None /\ first[j] <= next_run_time[j]
    /\ OnGrid(j, next_run_time[j])

(* Between the submission and the write of the new next_run_time.          *)
UpdatingIsHandled ==
  updating # None =>
    LET j == updating.job  s == updating.slot
    IN  /\ next_run_time[j] # None /\ next_run_time[j] <= s
        /\ OnGrid(j, s)
        /\ \A d \in next_run_time[j] .. s : OnGrid(j, d) => Handled(j, d)

QueuedOnGrid ==
  \A t \in Threads : run[t].pc = "queued" =>
    next_run_time[run[t].job] # None /\ OnGrid(run[t].job, run[t].slot)

(* The inductive invariant: SlotsAccounted alone does not say what a main  *)
(* loop that has submitted a slot is about to jump over.                   *)
ScheduleInv == SlotsAccounted /\ StoreOnGrid /\ UpdatingIsHandled /\ QueuedOnGrid

-----------------------------------------------------------------------------
(* Arithmetic of the grid.                                                 *)

(* A remainder of zero means a whole number of intervals.                 *)
LEMMA Whole ==
  ASSUME NEW n \in Nat \ {0}, NEW a \in Int
  PROVE  a % n = 0 <=> \E k \in Int : a = k * n
<1>1. a = n * (a \div n) + (a % n) /\ a % n \in 0 .. n - 1 /\ a \div n \in Int
  OBVIOUS
<1>2. ASSUME NEW k \in Int, a = k * n
      PROVE  a % n = 0
  <2> DEFINE d == k - (a \div n)
  <2>1. d \in Int /\ d * n = a % n
    BY <1>1, <1>2
  <2> HIDE DEF d
  <2>2. d * n \in 0 .. n - 1
    BY <1>1, <2>1
  <2>3. ~(d >= 1) /\ ~(d <= -1)
    <3>1. ASSUME d >= 1 PROVE FALSE
      <4>1. d * n >= n
        BY <2>1, <3>1
      <4> QED
        BY <2>2, <4>1
    <3>2. ASSUME d <= -1 PROVE FALSE
      <4>1. d * n <= -n
        BY <2>1, <3>2
      <4> QED
        BY <2>2, <4>1
    <3> QED
      BY <3>1, <3>2
  <2> QED
    BY <2>1, <2>3
<1>3. ASSUME a % n = 0
      PROVE  \E k \in Int : a = k * n
  <2>1. a = (a \div n) * n /\ a \div n \in Int
    BY <1>1, <1>3
  <2> QED
    BY <2>1, Zenon
<1> QED
  BY <1>2, <1>3, Zenon

(* Whole numbers of intervals add up and leave whole numbers.              *)
LEMMA GridDifference ==
  ASSUME NEW n \in Nat \ {0}, NEW a \in Int, NEW b \in Int, a % n = 0, b % n = 0
  PROVE  (a - b) % n = 0 /\ (a + b) % n = 0
<1>1. PICK k \in Int : a = k * n
  BY Whole
<1>2. PICK l \in Int : b = l * n
  BY Whole
<1>3. a - b = (k - l) * n /\ a + b = (k + l) * n
  BY <1>1, <1>2
<1>4. k - l \in Int /\ k + l \in Int /\ a - b \in Int /\ a + b \in Int
  OBVIOUS
<1> QED
  BY <1>3, <1>4, Whole

(* The next point of a grid is a whole interval away.                      *)
LEMMA GridGap ==
  ASSUME NEW n \in Nat \ {0}, NEW a \in Int, a % n = 0, a > 0
  PROVE  a >= n
<1>1. PICK k \in Int : a = k * n
  BY Whole
<1>2. k >= 1
  BY <1>1
<1> QED
  BY <1>1, <1>2

-----------------------------------------------------------------------------
(* A slot that is handled stays handled.                                   *)

(* Rows are never removed and never change their job or slot.              *)
LEMMA RowsKeepTheirSlot ==
  ASSUME TypeOK, Next \/ Settled, NEW i \in DOMAIN job_runs
  PROVE  /\ i \in DOMAIN job_runs'
         /\ job_runs'[i].job = job_runs[i].job /\ job_runs'[i].slot = job_runs[i].slot
<1> USE DEF store
<1> DEFINE Kept == /\ i \in DOMAIN job_runs'
                   /\ job_runs'[i].job = job_runs[i].job
                   /\ job_runs'[i].slot = job_runs[i].slot
<1>1. ASSUME NEW w \in Rows, job_runs' = Append(job_runs, w)
      PROVE  Kept
  BY <1>1, Appended
<1>2. ASSUME NEW r \in Runners, CloseRun(r)
      PROVE  Kept
  <2>1. job_runs[i] \in Rows
    BY ElementOfSeq, LenProperties DEF TypeOK, TablesTypeOK
  <2> QED
    BY <1>2, <2>1 DEF CloseRun, ClosedRows, Rows
<1>3. ASSUME NEW r \in Runners, Decorated(r)
      PROVE  Kept
  <2>1. CASE OpenRun(r)
    <3>1. Row(run[r].job, run[r].slot, "running") \in Rows
      BY <2>1 DEF OpenRun, TypeOK, RunTypeOK, RunStates, Row, Rows, Statuses
    <3> QED
      BY <1>1, <2>1, <3>1 DEF OpenRun
  <2> QED
    BY <1>2, <1>3, <2>1 DEF Decorated, OpenRunFails, WorkEnds, CloseRunFails
<1>4. ASSUME NEW t \in Threads, Pool(t)
      PROVE  Kept
  <2>1. CASE RecordMissed(t)
    <3>1. Row(run[t].job, run[t].slot, "missed") \in Rows
      BY <2>1 DEF RecordMissed, TypeOK, RunTypeOK, RunStates, Runners, Row, Rows, Statuses
    <3> QED
      BY <1>1, <2>1, <3>1 DEF RecordMissed
  <2> QED
    BY <1>3, <1>4, <2>1 DEF Pool, Misfire, ReleaseInstance, Runners
<1>5. ASSUME NEW o \in Operators, OneShot(o)
      PROVE  Kept
  BY <1>3, <1>5 DEF OneShot, StartOnce, ExitOnce, Runners
<1>6. CASE Environment
  BY <1>6 DEF Environment, Tick, LoseDatabase, RestoreDatabase
<1>7. CASE Boot
  BY <1>7 DEF Boot, StartPaused, RegisterJob, StartFails, Resume
<1>8. CASE Loop
  BY <1>8 DEF Loop, SubmitJob, SkipBusyJob, UpdateJob, LoopDies
<1>9. CASE Stop
  BY <1>9 DEF Stop, Crash, KillOnce, Terminate, ShutdownDone
<1>10. CASE Settled
  BY <1>10 DEF Settled, vars
<1> QED
  BY <1>4, <1>5, <1>6, <1>7, <1>8, <1>9, <1>10 DEF Next

(* A loss is never forgotten.                                              *)
LEMMA LossesStay ==
  ASSUME Next \/ Settled
  PROVE  unrecorded \subseteq unrecorded'
<1> USE DEF store
<1>1. ASSUME NEW r \in Runners, Decorated(r)
      PROVE  unrecorded \subseteq unrecorded'
  BY <1>1 DEF Decorated, OpenRun, OpenRunFails, WorkEnds, CloseRun, CloseRunFails
<1>2. ASSUME NEW t \in Threads, Pool(t)
      PROVE  unrecorded \subseteq unrecorded'
  BY <1>1, <1>2 DEF Pool, Misfire, ReleaseInstance, RecordMissed, Runners
<1>3. ASSUME NEW o \in Operators, OneShot(o)
      PROVE  unrecorded \subseteq unrecorded'
  BY <1>1, <1>3 DEF OneShot, StartOnce, ExitOnce, Runners
<1>4. CASE Environment
  BY <1>4 DEF Environment, Tick, LoseDatabase, RestoreDatabase
<1>5. CASE Boot
  BY <1>5 DEF Boot, StartPaused, RegisterJob, StartFails, Resume
<1>6. CASE Loop
  BY <1>6 DEF Loop, SubmitJob, SkipBusyJob, UpdateJob, LoopDies
<1>7. CASE Stop
  BY <1>7 DEF Stop, Crash, KillOnce, Terminate, ShutdownDone
<1>8. CASE Settled
  BY <1>8 DEF Settled, vars
<1> QED
  BY <1>2, <1>3, <1>4, <1>5, <1>6, <1>7, <1>8 DEF Next

(* A slot in a thread's hands stays there until it has a row or is lost.   *)
LEMMA InHandStays ==
  ASSUME TypeOK, Next \/ Settled, NEW t \in Threads, NEW j, NEW s,
         run[t].job = j, run[t].slot = s,
         run[t].pc \in {"queued", "misfired", "notifying"}
  PROVE  Handled(j, s)'
<1> USE DEF store
<1>1. t \in Runners /\ t \notin Operators
  BY NamesAssumption DEF Runners
<1>2. j \in Jobs /\ s \in Instants /\ s # None
  BY <1>1, NamesAssumption, BoundsAssumption DEF TypeOK, RunTypeOK, Instants
<1>3. ASSUME run'[t] = run[t]
      PROVE  Handled(j, s)'
  BY <1>3 DEF Handled, InHand
<1>4. ASSUME NEW w \in Rows, w.job = j, w.slot = s, job_runs' = Append(job_runs, w)
      PROVE  Handled(j, s)'
  BY <1>4, Appended DEF Handled, HasRow
<1>5. ASSUME NEW why \in Reasons, <<j, s, why>> \in unrecorded'
      PROVE  Handled(j, s)'
  BY <1>5 DEF Handled
<1>6. ASSUME run'[t].pc \in {"misfired", "notifying"},
             run'[t].job = j, run'[t].slot = s
      PROVE  Handled(j, s)'
  BY <1>6 DEF Handled, InHand
<1>7. ASSUME NEW st \in Statuses
      PROVE  /\ Row(j, s, st) \in Rows
             /\ Row(j, s, st).job = j /\ Row(j, s, st).slot = s
  BY <1>2 DEF Row, Rows
<1>8. CASE Misfire(t)
  BY <1>1, <1>6, <1>8, Moved DEF Misfire, PcStates, TypeOK
<1>9. CASE Decorated(t)
  <2>1. CASE OpenRun(t)
    BY <1>4, <1>7, <2>1 DEF OpenRun, Statuses
  <2>2. CASE OpenRunFails(t)
    BY <1>2, <1>5, <2>2 DEF OpenRunFails, Reasons
  <2> QED
    BY <1>9, <2>1, <2>2 DEF Decorated, WorkEnds, CloseRun, CloseRunFails
<1>10. CASE ReleaseInstance(t)
  <2>1. run[t].pc = "misfired"
    BY <1>10 DEF ReleaseInstance
  <2>2. run' = [run EXCEPT ![t] = [run[t] EXCEPT !.pc = "notifying"]]
    BY <1>10, <2>1 DEF ReleaseInstance
  <2>3. run[t] \in RunStates /\ DOMAIN run = Runners
    BY <1>1 DEF TypeOK, RunTypeOK
  <2> QED
    BY <1>1, <1>6, <2>2, <2>3 DEF RunStates
<1>11. CASE RecordMissed(t)
  <2>1. CASE job_runs' = Append(job_runs, Row(run[t].job, run[t].slot, "missed"))
    BY <1>4, <1>7, <2>1 DEF Statuses
  <2>2. CASE unrecorded' = unrecorded \cup {<<run[t].job, run[t].slot, "no_database">>}
    BY <1>5, <2>2 DEF Reasons
  <2> QED
    BY <1>11, <2>1, <2>2 DEF RecordMissed
<1>12. ASSUME NEW r \in Runners, r # t, Decorated(r)
       PROVE  Handled(j, s)'
  BY <1>1, <1>3, <1>12, DecoratedStep
<1>13. ASSUME NEW u \in Threads, Pool(u)
       PROVE  Handled(j, s)'
  <2>1. CASE u = t
    BY <1>8, <1>9, <1>10, <1>11, <1>13, <2>1 DEF Pool
  <2>2. CASE u # t
    BY <1>1, <1>3, <1>12, <1>13, <2>2, Releases
    DEF Pool, Misfire, ReleaseInstance, RecordMissed, Runners, TypeOK, RunTypeOK
  <2> QED
    BY <2>1, <2>2
<1>14. ASSUME NEW o \in Operators, OneShot(o)
       PROVE  Handled(j, s)'
  BY <1>1, <1>3, <1>12, <1>14 DEF OneShot, StartOnce, ExitOnce, Runners, TypeOK, RunTypeOK
<1>15. CASE Environment
  BY <1>3, <1>15 DEF Environment, Tick, LoseDatabase, RestoreDatabase
<1>16. CASE Boot
  BY <1>3, <1>16 DEF Boot, StartPaused, RegisterJob, StartFails, Resume
<1>17. CASE Loop
  <2>1. ASSUME NEW i \in Jobs, NEW d \in Instants, SubmitJob(i, d)
        PROVE  run'[t] = run[t]
    <3>1. PICK u \in Threads : run[u] = Idle /\ run' = [run EXCEPT ![u] = Queued(i, d)]
      BY <2>1 DEF SubmitJob
    <3>2. u # t
      BY <3>1 DEF Idle
    <3> QED
      BY <1>1, <3>1, <3>2 DEF TypeOK, RunTypeOK
  <2> QED
    BY <1>3, <1>17, <2>1 DEF Loop, SkipBusyJob, UpdateJob, LoopDies
<1>18. CASE Crash
  <2>1. <<j, s, "killed">> \in Killed(Threads)
    BY DEF Killed
  <2> QED
    BY <1>5, <1>18, <2>1 DEF Crash, Reasons
<1>19. CASE Stop
  BY <1>1, <1>3, <1>18, <1>19 DEF Stop, KillOnce, Terminate, ShutdownDone, TypeOK, RunTypeOK
<1>20. CASE Settled
  BY <1>3, <1>20 DEF Settled, vars
<1> QED
  BY <1>13, <1>14, <1>15, <1>16, <1>17, <1>19, <1>20 DEF Next

(* A slot that is dealt with never comes back unexplained.                 *)
LEMMA HandledStays ==
  ASSUME TypeOK, Next \/ Settled, NEW j, NEW s, Handled(j, s)
  PROVE  Handled(j, s)'
<1>1. CASE HasRow(j, s)
  BY <1>1, RowsKeepTheirSlot DEF HasRow, Handled
<1>2. CASE InHand(j, s)
  BY <1>2, InHandStays DEF InHand
<1>3. CASE \E why \in Reasons : <<j, s, why>> \in unrecorded
  BY <1>3, LossesStay DEF Handled
<1> QED
  BY <1>1, <1>2, <1>3 DEF Handled

(* A thread that holds a queued run held it before, or has just been       *)
(* handed it.                                                              *)
LEMMA QueuedBefore ==
  ASSUME TypeOK, Next \/ Settled, NEW t \in Threads, run'[t].pc = "queued"
  PROVE  \/ run'[t] = run[t]
         \/ \E j \in Jobs, s \in Instants :
              SubmitJob(j, s) /\ run'[t].job = j /\ run'[t].slot = s
<1> USE DEF store
<1> DEFINE Goal == \/ run'[t] = run[t]
                   \/ \E j \in Jobs, s \in Instants :
                        SubmitJob(j, s) /\ run'[t].job = j /\ run'[t].slot = s
<1>1. t \in Runners /\ t \notin Operators
  BY NamesAssumption DEF Runners
<1>2. ASSUME NEW r \in Runners, Decorated(r)
      PROVE  Goal
  BY <1>1, <1>2, DecoratedStep
<1>3. ASSUME NEW u \in Threads, Pool(u)
      PROVE  Goal
  <2>1. CASE Misfire(u)
    BY <1>1, <2>1, Moved DEF Misfire, PcStates, Runners, TypeOK
  <2>2. CASE ReleaseInstance(u)
    BY <1>1, <2>2, Releases DEF Idle
  <2>3. CASE RecordMissed(u)
    BY <1>1, <2>3 DEF RecordMissed, Idle, TypeOK, RunTypeOK
  <2> QED
    BY <1>2, <1>3, <2>1, <2>2, <2>3 DEF Pool, Runners
<1>4. ASSUME NEW o \in Operators, OneShot(o)
      PROVE  Goal
  BY <1>1, <1>2, <1>4 DEF OneShot, StartOnce, ExitOnce, Runners, TypeOK, RunTypeOK
<1>5. CASE Environment
  BY <1>5 DEF Environment, Tick, LoseDatabase, RestoreDatabase
<1>6. CASE Boot
  BY <1>6 DEF Boot, StartPaused, RegisterJob, StartFails, Resume
<1>7. CASE Loop
  <2>1. ASSUME NEW j \in Jobs, NEW s \in Instants, SubmitJob(j, s)
        PROVE  Goal
    <3>1. PICK u \in Threads : run' = [run EXCEPT ![u] = Queued(j, s)]
      BY <2>1 DEF SubmitJob
    <3>2. CASE u = t
      BY <1>1, <2>1, <3>1, <3>2 DEF Queued, TypeOK, RunTypeOK
    <3>3. CASE u # t
      BY <1>1, <3>1, <3>3 DEF TypeOK, RunTypeOK
    <3> QED
      BY <3>2, <3>3
  <2> QED
    BY <1>7, <2>1 DEF Loop, SkipBusyJob, UpdateJob, LoopDies
<1>8. CASE Stop
  BY <1>1, <1>8 DEF Stop, Crash, KillOnce, Terminate, ShutdownDone, Idle, TypeOK, RunTypeOK
<1>9. CASE Settled
  BY <1>9 DEF Settled, vars
<1> QED
  BY <1>3, <1>4, <1>5, <1>6, <1>7, <1>8, <1>9 DEF Next

-----------------------------------------------------------------------------
(* The schedule.                                                           *)

(* Every step but four leaves the job store alone, and what the main loop  *)
(* is about to write at most forgotten.                                    *)
LEMMA ScheduleMoves ==
  ASSUME Next \/ Settled
  PROVE  \/ UNCHANGED <<next_run_time, first>> /\ (updating' = updating \/ updating' = None)
         \/ \E j \in Jobs : RegisterJob(j)
         \/ \E j \in Jobs, s \in Instants : SubmitJob(j, s) \/ SkipBusyJob(j, s)
         \/ UpdateJob
<1> USE DEF store
<1> DEFINE Calm == UNCHANGED <<next_run_time, first>> /\ (updating' = updating \/ updating' = None)
<1>1. ASSUME NEW r \in Runners, Decorated(r)
      PROVE  Calm
  BY <1>1 DEF Decorated, OpenRun, OpenRunFails, WorkEnds, CloseRun, CloseRunFails
<1>2. ASSUME NEW t \in Threads, Pool(t)
      PROVE  Calm
  BY <1>1, <1>2 DEF Pool, Misfire, ReleaseInstance, RecordMissed, Runners
<1>3. ASSUME NEW o \in Operators, OneShot(o)
      PROVE  Calm
  BY <1>1, <1>3 DEF OneShot, StartOnce, ExitOnce, Runners
<1>4. CASE Environment
  BY <1>4 DEF Environment, Tick, LoseDatabase, RestoreDatabase
<1>5. CASE StartPaused \/ StartFails \/ Resume
  BY <1>5 DEF StartPaused, StartFails, Resume
<1>6. CASE LoopDies
  BY <1>6 DEF LoopDies
<1>7. CASE Stop
  BY <1>7 DEF Stop, Crash, KillOnce, Terminate, ShutdownDone
<1>8. CASE Settled
  BY <1>8 DEF Settled, vars
<1> QED
  BY <1>2, <1>3, <1>4, <1>5, <1>6, <1>7, <1>8 DEF Next, Boot, Loop

(* Steps that leave the job store alone.                                   *)
LEMMA ScheduleCalm ==
  ASSUME TypeOK, ScheduleInv, Next \/ Settled,
         UNCHANGED <<next_run_time, first>>, updating' = updating \/ updating' = None,
         \A j \in Jobs, s \in Instants : ~SubmitJob(j, s)
  PROVE  ScheduleInv'
<1> USE DEF ScheduleInv
<1>1. \A j, s : OnGrid(j, s)' <=> OnGrid(j, s)
  BY DEF OnGrid
<1>2. \A j, s : Handled(j, s) => Handled(j, s)'
  BY HandledStays
<1>3. SlotsAccounted'
  BY <1>2 DEF SlotsAccounted, Handled
<1>4. StoreOnGrid'
  BY <1>1 DEF StoreOnGrid
<1>5. UpdatingIsHandled'
  BY <1>1, <1>2 DEF UpdatingIsHandled
<1>6. QueuedOnGrid'
  BY <1>1, QueuedBefore DEF QueuedOnGrid
<1> QED
  BY <1>3, <1>4, <1>5, <1>6

(* The fire times up to the last one due are the points of the job's grid. *)
LEMMA LastDueOnGrid ==
  ASSUME TypeOK, StoreOnGrid, NEW j \in Jobs, NEW s \in Instants, IsLastDue(j, s)
  PROVE  /\ next_run_time[j] \in Nat /\ first[j] \in Nat /\ next_run_time[j] <= s
         /\ OnGrid(j, s)
         /\ \A d \in next_run_time[j] .. s : OnGrid(j, d) => d \in DueTimes(j)
<1>1. /\ next_run_time[j] \in Nat /\ first[j] \in Nat /\ Interval[j] \in Nat \ {0}
      /\ now \in Nat /\ now <= MaxTime /\ MaxTime \in Nat /\ s \in Nat
  BY CadenceAssumption, BoundsAssumption
  DEF IsLastDue, StoreOnGrid, TypeOK, TablesTypeOK, ControlTypeOK, Instants
<1>2. /\ next_run_time[j] <= s /\ s <= now /\ (s - next_run_time[j]) % Interval[j] = 0
      /\ (next_run_time[j] - first[j]) % Interval[j] = 0
  BY <1>1, NamesAssumption DEF IsLastDue, DueTimes, StoreOnGrid, OnGrid
<1>3. OnGrid(j, s)
  <2>1. (s - next_run_time[j]) + (next_run_time[j] - first[j]) = s - first[j]
    BY <1>1
  <2>2. s - next_run_time[j] \in Int /\ next_run_time[j] - first[j] \in Int
    BY <1>1
  <2> QED
    BY <1>1, <1>2, <2>1, <2>2, GridDifference DEF OnGrid
<1>4. ASSUME NEW d \in next_run_time[j] .. s, OnGrid(j, d)
      PROVE  d \in DueTimes(j)
  <2>1. (d - first[j]) - (next_run_time[j] - first[j]) = d - next_run_time[j]
    BY <1>1
  <2>2. d - first[j] \in Int /\ next_run_time[j] - first[j] \in Int
    BY <1>1
  <2>3. (d - next_run_time[j]) % Interval[j] = 0
    BY <1>1, <1>2, <1>4, <2>1, <2>2, GridDifference DEF OnGrid
  <2> QED
    BY <1>1, <1>2, <2>3 DEF DueTimes, Instants
<1> QED
  BY <1>1, <1>2, <1>3, <1>4

(* The main loop hands a run over, or skips a busy job: every fire time it *)
(* is about to pass is in a thread's hands or listed among the losses.     *)
LEMMA ScheduleConsumes ==
  ASSUME TypeOK, ScheduleInv, NEW j \in Jobs, NEW s \in Instants,
         SubmitJob(j, s) \/ SkipBusyJob(j, s)
  PROVE  ScheduleInv'
<1> USE DEF ScheduleInv, store
<1>1. Next
  BY DEF Next, Loop
<1>2. UNCHANGED <<next_run_time, first>> /\ updating' = [job |-> j, slot |-> s]
  BY DEF SubmitJob, SkipBusyJob
<1>3. \A i, d : OnGrid(i, d)' <=> OnGrid(i, d)
  BY <1>2 DEF OnGrid
<1>4. \A i, d : Handled(i, d) => Handled(i, d)'
  BY <1>1, HandledStays
<1>5. SlotsAccounted'
  BY <1>2, <1>4 DEF SlotsAccounted, Handled
<1>6. StoreOnGrid'
  BY <1>2, <1>3 DEF StoreOnGrid
<1>7. IsLastDue(j, s)
  BY DEF SubmitJob, SkipBusyJob
<1>8. Handled(j, s)'
  <2>1. CASE SubmitJob(j, s)
    <3>1. PICK t \in Threads : run' = [run EXCEPT ![t] = Queued(j, s)]
      BY <2>1 DEF SubmitJob
    <3>2. run'[t] = Queued(j, s)
      BY <3>1 DEF TypeOK, RunTypeOK, Runners
    <3> QED
      BY <3>2 DEF Queued, Handled, InHand
  <2>2. CASE SkipBusyJob(j, s)
    BY <2>2 DEF SkipBusyJob, Handled, Reasons
  <2> QED
    BY <2>1, <2>2
<1>9. ASSUME NEW d \in next_run_time[j] .. s, OnGrid(j, d)
      PROVE  Handled(j, d)'
  <2>1. CASE d = s
    BY <1>8, <2>1
  <2>2. CASE d # s
    <3>1. <<j, d, "coalesced">> \in Coalesced(j, s)
      BY <1>7, <1>9, <2>2, LastDueOnGrid DEF Coalesced
    <3> QED
      BY <3>1 DEF SubmitJob, SkipBusyJob, Handled, Reasons
  <2> QED
    BY <2>1, <2>2
<1>10. UpdatingIsHandled'
  <2>1. next_run_time[j] # None /\ next_run_time[j] <= s /\ OnGrid(j, s)
    BY <1>7, LastDueOnGrid DEF IsLastDue
  <2> QED
    BY <1>2, <1>3, <1>9, <2>1 DEF UpdatingIsHandled
<1>11. QueuedOnGrid'
  <2> SUFFICES ASSUME NEW t \in Threads, run'[t].pc = "queued"
               PROVE  next_run_time[run'[t].job] # None /\ OnGrid(run'[t].job, run'[t].slot)
    BY <1>2, <1>3 DEF QueuedOnGrid, OnGrid
  <2>1. CASE run'[t] = run[t]
    BY <2>1 DEF QueuedOnGrid
  <2>2. ASSUME NEW i \in Jobs, NEW d \in Instants, SubmitJob(i, d),
               run'[t].job = i, run'[t].slot = d
        PROVE  next_run_time[run'[t].job] # None /\ OnGrid(run'[t].job, run'[t].slot)
    <3>1. IsLastDue(i, d)
      BY <2>2 DEF SubmitJob
    <3> QED
      BY <2>2, <3>1, LastDueOnGrid DEF IsLastDue
  <2> QED
    BY <1>1, <2>1, <2>2, QueuedBefore
<1> QED
  BY <1>5, <1>6, <1>10, <1>11

(* The main loop writes the new next_run_time: it passes the fire times up *)
(* to the slot it handed over, and no other lies before the next one.      *)
LEMMA ScheduleAdvances ==
  ASSUME TypeOK, ScheduleInv, UpdateJob
  PROVE  ScheduleInv'
<1> USE DEF ScheduleInv
<1>0. PICK j \in Jobs, s \in Instants : updating.job = j /\ updating.slot = s
  BY DEF UpdateJob, TypeOK, ControlTypeOK
<1>1. /\ UNCHANGED <<first, run, job_runs, unrecorded>> /\ updating' = None
      /\ next_run_time' = [next_run_time EXCEPT ![j] = s + Interval[j]]
  BY <1>0 DEF UpdateJob, NextFireTime
<1>2. /\ next_run_time[j] \in Nat /\ first[j] \in Nat /\ first[j] <= next_run_time[j]
      /\ next_run_time[j] <= s /\ OnGrid(j, s)
      /\ \A d \in next_run_time[j] .. s : OnGrid(j, d) => Handled(j, d)
  <2>1. /\ next_run_time[j] # None /\ next_run_time[j] <= s /\ OnGrid(j, s)
        /\ \A d \in next_run_time[j] .. s : OnGrid(j, d) => Handled(j, d)
    BY <1>0, Zenon DEF UpdateJob, UpdatingIsHandled
  <2> QED
    BY <2>1 DEF StoreOnGrid, TypeOK, TablesTypeOK
<1>3. s \in Nat /\ Interval[j] \in Nat \ {0}
  BY CadenceAssumption, BoundsAssumption DEF Instants
<1>4. next_run_time'[j] = s + Interval[j] /\ \A i \in Jobs \ {j} : next_run_time'[i] = next_run_time[i]
  BY <1>1 DEF TypeOK, TablesTypeOK
<1>5. \A i, d : (OnGrid(i, d)' <=> OnGrid(i, d)) /\ (Handled(i, d)' <=> Handled(i, d))
  BY <1>1 DEF OnGrid, Handled, HasRow, InHand
<1>6. ASSUME NEW d \in first[j] .. s + Interval[j] - 1, OnGrid(j, d)
      PROVE  Handled(j, d)
  <2>1. CASE d < next_run_time[j]
    <3>1. d \in first[j] .. next_run_time[j] - 1 /\ next_run_time[j] # None
      BY <1>2, <1>3, <2>1, NamesAssumption
    <3> QED
      BY <1>6, <3>1 DEF SlotsAccounted, OnGrid, Handled
  <2>2. CASE next_run_time[j] <= d /\ d <= s
    BY <1>2, <1>3, <1>6, <2>2
  <2>3. CASE s < d
    <3>1. (d - first[j]) - (s - first[j]) = d - s
      BY <1>2, <1>3
    <3>2. d - first[j] \in Int /\ s - first[j] \in Int /\ d - s \in Int /\ d - s > 0
      BY <1>2, <1>3, <2>3
    <3>3. (d - s) % Interval[j] = 0
      BY <1>2, <1>3, <1>6, <3>1, <3>2, GridDifference DEF OnGrid
    <3>4. d - s >= Interval[j]
      BY <1>2, <1>3, <3>2, <3>3, GridGap
    <3> QED
      BY <1>2, <1>3, <3>4
  <2> QED
    BY <1>2, <1>3, <2>1, <2>2, <2>3
<1>7. SlotsAccounted'
  <2> DEFINE Accounted(i) == \A d \in first[i] .. next_run_time'[i] - 1 : OnGrid(i, d) => Handled(i, d)
  <2>1. Accounted(j)
    BY <1>2, <1>3, <1>4, <1>6
  <2>2. ASSUME NEW i \in Jobs \ {j}, next_run_time[i] # None
        PROVE  Accounted(i)
    BY <1>4, <2>2 DEF SlotsAccounted, OnGrid, Handled
  <2>3. \A i \in Jobs : next_run_time'[i] # None => Accounted(i)
    <3> HIDE DEF Accounted
    <3> QED
      BY <1>4, <2>1, <2>2
  <2> QED
    BY <1>1, <1>5, <2>3 DEF SlotsAccounted, OnGrid, Handled
<1>8. StoreOnGrid'
  <2>1. OnGrid(j, s + Interval[j])
    <3>1. (s - first[j]) + Interval[j] = (s + Interval[j]) - first[j]
      BY <1>2, <1>3
    <3>2. Interval[j] = 1 * Interval[j] /\ Interval[j] \in Int /\ s - first[j] \in Int
      BY <1>2, <1>3
    <3>3. Interval[j] % Interval[j] = 0
      BY <1>2, <1>3, <3>2, Whole
    <3> QED
      BY <1>2, <1>3, <3>1, <3>2, <3>3, GridDifference DEF OnGrid
  <2>2. first[j] # None /\ first[j] <= s + Interval[j]
    BY <1>2, <1>3, NamesAssumption
  <2>3. ASSUME NEW i \in Jobs, next_run_time'[i] # None
        PROVE  first[i] # None /\ first[i] <= next_run_time'[i] /\ OnGrid(i, next_run_time'[i])
    BY <1>4, <2>1, <2>2, <2>3 DEF StoreOnGrid
  <2> QED
    BY <1>1, <1>5, <2>3 DEF StoreOnGrid, OnGrid
<1>9. UpdatingIsHandled'
  BY <1>1 DEF UpdatingIsHandled
<1>10. QueuedOnGrid'
  <2>1. next_run_time'[j] # None
    BY <1>2, <1>3, <1>4, NamesAssumption
  <2>2. \A i \in Jobs : next_run_time[i] # None => next_run_time'[i] # None
    BY <1>4, <2>1
  <2>3. \A t \in Threads : run[t].pc = "queued" => run[t].job \in Jobs
    BY DEF TypeOK, RunTypeOK, Runners
  <2> QED
    BY <1>1, <2>2, <2>3 DEF QueuedOnGrid, OnGrid
<1> QED
  BY <1>7, <1>8, <1>9, <1>10

(* A job is registered: a new one has no past, and a known one keeps its   *)
(* fire time.                                                              *)
LEMMA ScheduleRegisters ==
  ASSUME TypeOK, ScheduleInv, NEW i \in Jobs, RegisterJob(i)
  PROVE  ScheduleInv'
<1> USE DEF ScheduleInv
<1>1. CASE next_run_time[i] # None
  <2>1. UNCHANGED <<next_run_time, first, updating>>
    BY <1>1 DEF RegisterJob, Reconciled, TypeOK, TablesTypeOK
  <2>2. \A j \in Jobs, s \in Instants : ~SubmitJob(j, s)
    BY DEF RegisterJob, SubmitJob, LoopReady
  <2>3. Next
    BY DEF Next, Boot
  <2> QED
    BY <2>1, <2>2, <2>3, ScheduleCalm
<1>2. CASE next_run_time[i] = None
  <2>0. PICK f \in Nat : f = now + Interval[i]
    BY CadenceAssumption, BoundsAssumption DEF TypeOK, ControlTypeOK, Instants
  <2>1. /\ UNCHANGED <<updating, run, job_runs, unrecorded>> /\ f # None
        /\ next_run_time'[i] = f /\ first'[i] = f
        /\ \A j \in Jobs \ {i} : next_run_time'[j] = next_run_time[j] /\ first'[j] = first[j]
    BY <1>2, <2>0, NamesAssumption DEF RegisterJob, TypeOK, TablesTypeOK
  <2>2. \A j \in Jobs \ {i} : \A d : (OnGrid(j, d)' <=> OnGrid(j, d)) /\ (Handled(j, d)' <=> Handled(j, d))
    BY <2>1 DEF OnGrid, Handled, HasRow, InHand
  <2>3. OnGrid(i, f)'
    <3>1. f - f = 0 * Interval[i] /\ f - f \in Int
      BY CadenceAssumption
    <3>2. (f - f) % Interval[i] = 0
      BY <3>1, CadenceAssumption, Whole
    <3> QED
      BY <2>1, <3>2 DEF OnGrid
  <2>4. SlotsAccounted'
    <3>1. first'[i] .. next_run_time'[i] - 1 = {}
      BY <2>1
    <3> QED
      BY <2>1, <3>1 DEF SlotsAccounted, HasRow, InHand
  <2>5. StoreOnGrid'
    BY <2>1, <2>2, <2>3 DEF StoreOnGrid
  <2>6. UpdatingIsHandled'
    <3>1. updating # None => updating.job \in Jobs \ {i}
      BY <1>2 DEF UpdatingIsHandled, TypeOK, ControlTypeOK
    <3> QED
      BY <2>1, <2>2, <3>1 DEF UpdatingIsHandled
  <2>7. QueuedOnGrid'
    <3>1. \A t \in Threads : run[t].pc = "queued" => run[t].job \in Jobs \ {i}
      BY <1>2 DEF QueuedOnGrid, TypeOK, RunTypeOK, Runners
    <3> QED
      BY <2>1, <3>1 DEF QueuedOnGrid, OnGrid
  <2> QED
    BY <2>4, <2>5, <2>6, <2>7
<1> QED
  BY <1>1, <1>2

LEMMA ScheduleStep ==
  ASSUME TypeOK, ScheduleInv, Next \/ Settled
  PROVE  ScheduleInv'
<1>1. CASE \E j \in Jobs, s \in Instants : SubmitJob(j, s) \/ SkipBusyJob(j, s)
  BY <1>1, ScheduleConsumes
<1>2. CASE \E j \in Jobs : RegisterJob(j)
  BY <1>2, ScheduleRegisters
<1>3. CASE UpdateJob
  BY <1>3, ScheduleAdvances
<1>4. CASE /\ UNCHANGED <<next_run_time, first>> /\ (updating' = updating \/ updating' = None)
           /\ \A j \in Jobs, s \in Instants : ~SubmitJob(j, s)
  BY <1>4, ScheduleCalm
<1> QED
  BY <1>1, <1>2, <1>3, <1>4, ScheduleMoves

-----------------------------------------------------------------------------
(* The theorems.                                                           *)

LEMMA ScheduleIsKept == Spec => []ScheduleInv
<1>1. Init => ScheduleInv
  BY DEF Init, ScheduleInv, SlotsAccounted, StoreOnGrid, UpdatingIsHandled, QueuedOnGrid,
         Idle, Runners
<1>2. TypeOK /\ ScheduleInv /\ [Next \/ Settled]_vars => ScheduleInv'
  <2>1. CASE UNCHANGED vars
    BY <2>1 DEF vars, ScheduleInv, SlotsAccounted, StoreOnGrid, UpdatingIsHandled,
                QueuedOnGrid, OnGrid, Handled, HasRow, InHand
  <2> QED
    BY <2>1, ScheduleStep
<1> QED
  BY <1>1, <1>2, TypeCorrect, PTL DEF Spec

(* No restart, kill, stop or outage makes the schedule jump over a fire    *)
(* time in silence: each one passed has a row, is in a thread's hands, or  *)
(* is one of the listed losses.                                            *)
THEOREM NoSlotIsLost == Spec => []SlotsAccounted
  BY ScheduleIsKept, PTL DEF ScheduleInv

(* A thread starts a run only through OpenRun, which looks at the clock.   *)
LEMMA StartsInGrace ==
  ASSUME TypeOK, Next \/ Settled, NEW t \in Threads,
         run[t].pc = "queued", run'[t].pc = "working"
  PROVE  InGrace(t)
<1> USE DEF store
<1>1. t \in Runners /\ t \notin Operators
  BY NamesAssumption DEF Runners
<1>2. run'[t] # run[t]
  OBVIOUS
<1>3. ASSUME NEW r \in Runners, Decorated(r)
      PROVE  InGrace(t)
  <2>1. r = t
    BY <1>1, <1>2, <1>3, DecoratedStep
  <2>2. CASE OpenRunFails(t)
    BY <1>1, <2>2, Moved DEF OpenRunFails, PcStates, TypeOK
  <2> QED
    BY <1>3, <2>1, <2>2 DEF Decorated, OpenRun, WorkEnds, CloseRun, CloseRunFails
<1>4. ASSUME NEW u \in Threads, Pool(u)
      PROVE  InGrace(t)
  <2>1. CASE Misfire(u)
    BY <1>1, <1>2, <2>1, Moved DEF Misfire, PcStates, Runners, TypeOK
  <2>2. CASE ReleaseInstance(u)
    BY <1>1, <1>2, <2>2, Releases DEF ReleaseInstance
  <2>3. CASE RecordMissed(u)
    BY <1>1, <1>2, <2>3 DEF RecordMissed, Idle, TypeOK, RunTypeOK
  <2> QED
    BY <1>3, <1>4, <2>1, <2>2, <2>3 DEF Pool, Runners
<1>5. ASSUME NEW o \in Operators, OneShot(o)
      PROVE  InGrace(t)
  BY <1>1, <1>2, <1>3, <1>5 DEF OneShot, StartOnce, ExitOnce, Runners, TypeOK, RunTypeOK
<1>6. CASE Environment
  BY <1>2, <1>6 DEF Environment, Tick, LoseDatabase, RestoreDatabase
<1>7. CASE Boot
  BY <1>2, <1>7 DEF Boot, StartPaused, RegisterJob, StartFails, Resume
<1>8. CASE Loop
  <2>1. ASSUME NEW j \in Jobs, NEW s \in Instants, SubmitJob(j, s)
        PROVE  FALSE
    <3>1. PICK u \in Threads : run' = [run EXCEPT ![u] = Queued(j, s)]
      BY <2>1 DEF SubmitJob
    <3> QED
      BY <1>1, <1>2, <3>1 DEF Queued, TypeOK, RunTypeOK
  <2> QED
    BY <1>2, <1>8, <2>1 DEF Loop, SkipBusyJob, UpdateJob, LoopDies
<1>9. CASE Stop
  BY <1>1, <1>2, <1>9 DEF Stop, Crash, KillOnce, Terminate, ShutdownDone, Idle, TypeOK, RunTypeOK
<1>10. CASE Settled
  BY <1>2, <1>10 DEF Settled, vars
<1> QED
  BY <1>4, <1>5, <1>6, <1>7, <1>8, <1>9, <1>10 DEF Next

(* The grace is shorter than the interval, and on the grid nothing is      *)
(* closer than an interval: a run within its grace has no successor due.   *)
LEMMA GraceEndsBeforeNext ==
  ASSUME TypeOK, ScheduleInv, NEW t \in Threads, run[t].pc = "queued", InGrace(t)
  PROVE  next_run_time[run[t].job] \notin run[t].slot + 1 .. now
<1>0. PICK j \in Jobs, s \in Instants : run[t].job = j /\ run[t].slot = s
  BY DEF TypeOK, RunTypeOK, Runners
<1>1. /\ s \in Nat /\ now \in Nat
      /\ Interval[j] \in Nat \ {0} /\ Grace[j] \in Nat /\ Grace[j] < Interval[j]
  BY CadenceAssumption, BoundsAssumption
  DEF TypeOK, ControlTypeOK, Instants
<1>2. next_run_time[j] \in Nat /\ first[j] \in Nat /\ OnGrid(j, next_run_time[j]) /\ OnGrid(j, s)
  BY <1>0 DEF ScheduleInv, StoreOnGrid, QueuedOnGrid, TypeOK, TablesTypeOK
<1>3. now - s <= Grace[j]
  BY <1>0, NamesAssumption, BoundsAssumption DEF InGrace, Instants
<1>4. ASSUME next_run_time[j] \in s + 1 .. now
      PROVE  FALSE
  <2>1. (next_run_time[j] - first[j]) - (s - first[j]) = next_run_time[j] - s
    BY <1>1, <1>2
  <2>2. /\ next_run_time[j] - first[j] \in Int /\ s - first[j] \in Int
        /\ next_run_time[j] - s \in Int /\ next_run_time[j] - s > 0
    BY <1>1, <1>2, <1>4
  <2>3. (next_run_time[j] - s) % Interval[j] = 0
    <3>1. (next_run_time[j] - first[j]) % Interval[j] = 0 /\ (s - first[j]) % Interval[j] = 0
      BY <1>2 DEF OnGrid
    <3>2. ((next_run_time[j] - first[j]) - (s - first[j])) % Interval[j] = 0
      BY <1>1, <2>2, <3>1, GridDifference
    <3> QED
      BY <2>1, <3>2
  <2>4. next_run_time[j] - s >= Interval[j]
    BY <1>1, <2>2, <2>3, GridGap
  <2> QED
    BY <1>1, <1>2, <1>3, <1>4, <2>4
<1> QED
  BY <1>0, <1>4

(* Whatever the queue, an outage or a restart cost it, a thread never      *)
(* starts a run of a slot when the job store already holds a later fire    *)
(* time that has come.                                                     *)
THEOREM LateRunsYield == Spec => LateRunYieldsToNext
<1> DEFINE Yields == \A t \in Threads :
       run[t].pc = "queued" /\ run'[t].pc = "working" =>
         next_run_time[run[t].job] \notin run[t].slot + 1 .. now
<1>1. TypeOK /\ ScheduleInv /\ [Next \/ Settled]_vars => [Yields]_vars
  <2>1. TypeOK /\ ScheduleInv /\ (Next \/ Settled) => Yields
    BY StartsInGrace, GraceEndsBeforeNext
  <2> QED
    BY <2>1
<1> QED
  BY <1>1, TypeCorrect, ScheduleIsKept, PTL DEF Spec, LateRunYieldsToNext

-----------------------------------------------------------------------------
(* How often a slot is recorded: its rows and the threads that hold it are *)
(* counted together, since a step turns the one into the other.            *)

(* The threads that have slot s of j and have not recorded it.             *)
HoldersOf(j, s) == {t \in Threads :
  /\ run[t].job = j /\ run[t].slot = s
  /\ run[t].pc \in {"queued", "misfired", "notifying"}}

(* The schedule has not passed the slot, nor handed it over.               *)
Ahead(j, s) ==
  /\ next_run_time[j] = None \/ next_run_time[j] <= s
  /\ ~(updating # None /\ updating.job = j /\ s <= updating.slot)

(* An outage that may yet end the main loop before it has moved on.        *)
Exposed == db = "down" /\ proc \in {"paused", "up"}

One(b) == IF b THEN 1 ELSE 0

Records(j, s) == Cardinality(RowsOf(j, s)) + Cardinality(HoldersOf(j, s))

(* A slot has as many rows, holders and submissions still to come as there *)
(* were deaths to have it handed over again, and one.                      *)
RepeatInv ==
  /\ updating # None => proc = "up"
  /\ \A o \in Operators : run[o].slot = None
  /\ \A j \in Jobs, s \in Instants :
       /\ IsFiniteSet(HoldersOf(j, s))
       /\ Records(j, s) + One(Ahead(j, s)) + One(Exposed) <= 1 + crashes + outages

LEMMA NumbersUpToAreFinite == \A n \in Nat : IsFiniteSet(1 .. n)
<1> TAKE n \in Nat
<1>1. 1 \in Int /\ n \in Int
  OBVIOUS
<1> QED
  BY <1>1, FS_Interval

LEMMA RowsAreFinite ==
  ASSUME TypeOK, NEW j, NEW s
  PROVE  IsFiniteSet(RowsOf(j, s))
<1>1. RowsOf(j, s) \subseteq 1 .. Len(job_runs) /\ Len(job_runs) \in Nat
  BY LenProperties DEF RowsOf, TypeOK, TablesTypeOK
<1>2. IsFiniteSet(1 .. Len(job_runs))
  BY <1>1, NumbersUpToAreFinite
<1> QED
  BY <1>1, <1>2, FS_Subset

(* A row that is added counts for its own slot alone.                      *)
LEMMA RowsOfAppended ==
  ASSUME TypeOK, NEW w \in Rows, job_runs' = Append(job_runs, w), NEW j, NEW s
  PROVE  /\ RowsOf(j, s)' = IF w.job = j /\ w.slot = s
                            THEN RowsOf(j, s) \cup {Len(job_runs) + 1} ELSE RowsOf(j, s)
         /\ Len(job_runs) + 1 \notin RowsOf(j, s)
<1>1. /\ \A i \in DOMAIN job_runs : i \in DOMAIN job_runs' /\ job_runs'[i] = job_runs[i]
      /\ DOMAIN job_runs = 1 .. Len(job_runs)
      /\ DOMAIN job_runs' = 1 .. Len(job_runs) + 1
      /\ job_runs'[Len(job_runs) + 1] = w
  BY Appended
<1>2. Len(job_runs) \in Nat
  BY LenProperties DEF TypeOK, TablesTypeOK
<1>3. /\ DOMAIN job_runs' = DOMAIN job_runs \cup {Len(job_runs) + 1}
      /\ Len(job_runs) + 1 \notin DOMAIN job_runs
  BY <1>1, <1>2
<1> QED
  BY <1>1, <1>3 DEF RowsOf

(* Closing a row changes its status only.                                  *)
LEMMA RowsOfClosed ==
  ASSUME TypeOK, WorkIsRecorded, NEW r \in Runners, CloseRun(r), NEW j, NEW s
  PROVE  RowsOf(j, s)' = RowsOf(j, s)
<1>1. run[r].row \in DOMAIN job_runs
  BY DEF CloseRun, WorkIsRecorded, Owns, Owning
<1>2. Outcome(r) \in Statuses
  BY DEF Outcome, Statuses
<1>3. /\ Len(job_runs') = Len(job_runs) /\ job_runs' \in Seq(Rows)
      /\ \A k \in DOMAIN job_runs : k # run[r].row => job_runs'[k] = job_runs[k]
  BY <1>1, <1>2, StatusUpdate DEF CloseRun, ClosedRows, TypeOK, TablesTypeOK
<1>4. DOMAIN job_runs' = DOMAIN job_runs
  BY <1>3, LenProperties DEF TypeOK, TablesTypeOK
<1>5. \A k \in DOMAIN job_runs : job_runs'[k].job = job_runs[k].job /\ job_runs'[k].slot = job_runs[k].slot
  BY RowsKeepTheirSlot DEF Next, Pool, OneShot, Decorated, Runners
<1> QED
  BY <1>4, <1>5 DEF RowsOf

(* What a step leaves of the rows and the holders of a slot, counted.      *)
LEMMA SameCount ==
  ASSUME NEW j, NEW s, RowsOf(j, s)' = RowsOf(j, s), IsFiniteSet(RowsOf(j, s)),
         IsFiniteSet(HoldersOf(j, s)), HoldersOf(j, s)' \subseteq HoldersOf(j, s)
  PROVE  IsFiniteSet(HoldersOf(j, s)') /\ Records(j, s)' <= Records(j, s)
<1>1. /\ IsFiniteSet(HoldersOf(j, s)')
      /\ Cardinality(HoldersOf(j, s)') <= Cardinality(HoldersOf(j, s))
      /\ Cardinality(HoldersOf(j, s)') \in Nat
      /\ Cardinality(HoldersOf(j, s)) \in Nat
      /\ Cardinality(RowsOf(j, s)) \in Nat
  BY FS_Subset, FS_CardinalityType
<1>2. Records(j, s)' = Cardinality(RowsOf(j, s)) + Cardinality(HoldersOf(j, s)')
  BY DEF Records
<1> QED
  BY <1>1, <1>2 DEF Records

LEMMA RecordedCount ==
  ASSUME NEW j, NEW s, NEW t \in HoldersOf(j, s), NEW i,
         IsFiniteSet(RowsOf(j, s)), IsFiniteSet(HoldersOf(j, s)),
         RowsOf(j, s)' = RowsOf(j, s) \cup {i}, i \notin RowsOf(j, s),
         HoldersOf(j, s)' = HoldersOf(j, s) \ {t}
  PROVE  IsFiniteSet(HoldersOf(j, s)') /\ Records(j, s)' <= Records(j, s)
<1>1. /\ IsFiniteSet(HoldersOf(j, s)')
      /\ Cardinality(HoldersOf(j, s)') = Cardinality(HoldersOf(j, s)) - 1
  BY FS_RemoveElement
<1>2. Cardinality(RowsOf(j, s)') = Cardinality(RowsOf(j, s)) + 1
  BY FS_AddElement
<1>3. Cardinality(HoldersOf(j, s)) \in Nat /\ Cardinality(RowsOf(j, s)) \in Nat
  BY FS_CardinalityType
<1>4. Records(j, s)' = Cardinality(RowsOf(j, s)') + Cardinality(HoldersOf(j, s)')
  BY DEF Records
<1> QED
  BY <1>1, <1>2, <1>3, <1>4 DEF Records

LEMMA HandedCount ==
  ASSUME NEW j, NEW s, NEW t, RowsOf(j, s)' = RowsOf(j, s), IsFiniteSet(RowsOf(j, s)),
         IsFiniteSet(HoldersOf(j, s)), HoldersOf(j, s)' \subseteq HoldersOf(j, s) \cup {t}
  PROVE  IsFiniteSet(HoldersOf(j, s)') /\ Records(j, s)' <= Records(j, s) + 1
<1>1. /\ IsFiniteSet(HoldersOf(j, s) \cup {t})
      /\ Cardinality(HoldersOf(j, s) \cup {t}) <= Cardinality(HoldersOf(j, s)) + 1
  <2>1. Cardinality(HoldersOf(j, s)) \in Nat
    BY FS_CardinalityType
  <2>2. /\ IsFiniteSet(HoldersOf(j, s) \cup {t})
        /\ \/ Cardinality(HoldersOf(j, s) \cup {t}) = Cardinality(HoldersOf(j, s))
           \/ Cardinality(HoldersOf(j, s) \cup {t}) = Cardinality(HoldersOf(j, s)) + 1
    BY FS_AddElement
  <2> QED
    BY <2>1, <2>2
<1>2. /\ IsFiniteSet(HoldersOf(j, s)')
      /\ Cardinality(HoldersOf(j, s)') <= Cardinality(HoldersOf(j, s) \cup {t})
  BY <1>1, FS_Subset
<1>3. /\ Cardinality(HoldersOf(j, s)) \in Nat /\ Cardinality(RowsOf(j, s)) \in Nat
      /\ Cardinality(HoldersOf(j, s)') \in Nat /\ Cardinality(HoldersOf(j, s) \cup {t}) \in Nat
  BY <1>1, <1>2, FS_CardinalityType
<1>4. Records(j, s)' = Cardinality(RowsOf(j, s)) + Cardinality(HoldersOf(j, s)')
  BY DEF Records
<1> QED
  BY <1>1, <1>2, <1>3, <1>4 DEF Records

(* One runner's step changes the holders of the slot it has and no others. *)
LEMMA OneHolder ==
  ASSUME NEW j, NEW s, NEW r \in Runners, \A q \in Runners : q # r => run'[q] = run[q]
  PROVE  \A t \in Threads : t # r => (t \in HoldersOf(j, s)' <=> t \in HoldersOf(j, s))
BY DEF HoldersOf, Runners

(* No step but the submission of the slot itself adds to its count.        *)
LEMMA CountKept ==
  ASSUME TypeOK, WorkIsRecorded, RepeatInv, Next \/ Settled,
         NEW j \in Jobs, NEW s \in Instants, ~SubmitJob(j, s)
  PROVE  IsFiniteSet(HoldersOf(j, s)') /\ Records(j, s)' <= Records(j, s)
<1> USE DEF store
<1> DEFINE Kept == IsFiniteSet(HoldersOf(j, s)') /\ Records(j, s)' <= Records(j, s)
<1>1. /\ IsFiniteSet(RowsOf(j, s)) /\ IsFiniteSet(HoldersOf(j, s))
      /\ s # None /\ \A o \in Operators : run[o].slot = None
      /\ Threads \cap Operators = {}
  BY RowsAreFinite, NamesAssumption, BoundsAssumption DEF RepeatInv, Instants
<1>2. ASSUME UNCHANGED job_runs, HoldersOf(j, s)' \subseteq HoldersOf(j, s)
      PROVE  Kept
  <2>1. RowsOf(j, s)' = RowsOf(j, s)
    BY <1>2 DEF RowsOf
  <2> QED
    BY <1>1, <1>2, <2>1, SameCount
<1>3. ASSUME UNCHANGED job_runs, \A t \in Threads : run'[t] = run[t]
      PROVE  Kept
  BY <1>2, <1>3 DEF HoldersOf
<1>4. ASSUME UNCHANGED job_runs, NEW r \in Runners, r \notin HoldersOf(j, s)',
             \A q \in Runners : q # r => run'[q] = run[q]
      PROVE  Kept
  <2>1. HoldersOf(j, s)' \subseteq HoldersOf(j, s)
    BY <1>4, OneHolder DEF HoldersOf
  <2> QED
    BY <1>2, <1>4, <2>1
<1>5. ASSUME NEW r \in Runners, NEW st \in Statuses,
             run[r].job \in Jobs, run[r].slot \in Instants \cup {None},
             run[r].pc \in {"queued", "notifying"},
             run'[r].pc \notin {"queued", "misfired", "notifying"},
             \A q \in Runners : q # r => run'[q] = run[q],
             job_runs' = Append(job_runs, Row(run[r].job, run[r].slot, st))
      PROVE  Kept
  <2> DEFINE w == Row(run[r].job, run[r].slot, st)
  <2>1. w \in Rows /\ w.job = run[r].job /\ w.slot = run[r].slot
    BY <1>5 DEF Row, Rows
  <2>2. /\ RowsOf(j, s)' = IF run[r].job = j /\ run[r].slot = s
                           THEN RowsOf(j, s) \cup {Len(job_runs) + 1} ELSE RowsOf(j, s)
        /\ Len(job_runs) + 1 \notin RowsOf(j, s)
    BY <1>5, <2>1, RowsOfAppended
  <2>3. r \notin HoldersOf(j, s)'
    BY <1>5 DEF HoldersOf
  <2>4. \A t \in Threads : t # r => (t \in HoldersOf(j, s)' <=> t \in HoldersOf(j, s))
    BY <1>5, OneHolder
  <2>5. CASE run[r].job = j /\ run[r].slot = s
    <3>1. r \in HoldersOf(j, s)
      BY <1>1, <1>5, <2>5 DEF HoldersOf, Runners
    <3>2. HoldersOf(j, s)' = HoldersOf(j, s) \ {r}
      <4>1. HoldersOf(j, s)' \subseteq Threads /\ HoldersOf(j, s) \subseteq Threads
        BY DEF HoldersOf
      <4> QED
        BY <2>3, <2>4, <4>1
    <3> QED
      BY <1>1, <2>2, <2>5, <3>1, <3>2, RecordedCount
  <2>6. CASE ~(run[r].job = j /\ run[r].slot = s)
    <3>1. HoldersOf(j, s)' \subseteq HoldersOf(j, s)
      BY <2>3, <2>4 DEF HoldersOf
    <3> QED
      BY <1>1, <2>2, <2>6, <3>1, SameCount
  <2> QED
    BY <2>5, <2>6
<1>6. ASSUME NEW r \in Runners, Decorated(r)
      PROVE  Kept
  <2>1. /\ run'[r].pc \in {"working", "returned", "raised", "finished"}
        /\ \A q \in Runners : q # r => run'[q] = run[q]
        /\ run[r].pc # "idle"
    BY <1>6, DecoratedStep
  <2>2. r \notin HoldersOf(j, s)'
    BY <2>1 DEF HoldersOf
  <2>3. CASE OpenRun(r)
    <3>1. run[r].job \in Jobs /\ run[r].slot \in Instants \cup {None} /\ "running" \in Statuses
      BY <2>1 DEF TypeOK, RunTypeOK, RunStates, Statuses
    <3>2. run[r].pc = "queued" /\ job_runs' = Append(job_runs, Row(run[r].job, run[r].slot, "running"))
      BY <2>3 DEF OpenRun
    <3> QED
      BY <1>5, <2>1, <3>1, <3>2
  <2>4. CASE CloseRun(r)
    <3>1. HoldersOf(j, s)' \subseteq HoldersOf(j, s)
      BY <2>1, <2>2, OneHolder DEF HoldersOf
    <3> QED
      BY <1>1, <2>4, <3>1, RowsOfClosed, SameCount
  <2>5. CASE OpenRunFails(r) \/ CloseRunFails(r) \/ \E o \in {"returned", "raised"} : WorkEnds(r, o)
    <3>1. UNCHANGED job_runs
      BY <2>5 DEF OpenRunFails, CloseRunFails, WorkEnds
    <3> QED
      BY <1>4, <2>1, <2>2, <3>1
  <2> QED
    BY <1>6, <2>3, <2>4, <2>5 DEF Decorated
<1>7. ASSUME NEW t \in Threads, Pool(t)
      PROVE  Kept
  <2>1. t \in Runners
    BY DEF Runners
  <2>2. CASE Misfire(t)
    <3>1. /\ run'[t].job = run[t].job /\ run'[t].slot = run[t].slot
          /\ run[t].pc = "queued" /\ UNCHANGED job_runs
          /\ \A q \in Runners : q # t => run'[q] = run[q]
      BY <2>1, <2>2, Moved DEF Misfire, TypeOK, PcStates
    <3>2. HoldersOf(j, s)' \subseteq HoldersOf(j, s)
      BY <2>1, <3>1, OneHolder DEF HoldersOf
    <3> QED
      BY <1>2, <3>1, <3>2
  <2>3. CASE ReleaseInstance(t)
    <3>1. /\ UNCHANGED job_runs
          /\ run[t].pc = "misfired" \/ run' = [run EXCEPT ![t] = Idle]
      BY <2>3 DEF ReleaseInstance
    <3>2. /\ \A q \in Runners : q # t => run'[q] = run[q]
          /\ \/ run'[t] = Idle
             \/ run'[t].job = run[t].job /\ run'[t].slot = run[t].slot
      BY <2>3, Releases
    <3>3. run[t].pc = "misfired" \/ run'[t].pc = "idle"
      BY <2>1, <3>1 DEF Idle, TypeOK, RunTypeOK
    <3>4. HoldersOf(j, s)' \subseteq HoldersOf(j, s)
      BY <2>1, <3>2, <3>3, OneHolder DEF HoldersOf, Idle
    <3> QED
      BY <1>2, <3>1, <3>4
  <2>4. CASE RecordMissed(t)
    <3>1. run' = [run EXCEPT ![t] = Idle] /\ run[t].pc = "notifying"
      BY <2>4 DEF RecordMissed
    <3>2. run'[t].pc = "idle" /\ \A q \in Runners : q # t => run'[q] = run[q]
      BY <2>1, <3>1 DEF Idle, TypeOK, RunTypeOK
    <3>3. run[t].job \in Jobs /\ run[t].slot \in Instants \cup {None} /\ "missed" \in Statuses
      BY <2>1, <3>1 DEF TypeOK, RunTypeOK, RunStates, Statuses
    <3>4. CASE job_runs' = Append(job_runs, Row(run[t].job, run[t].slot, "missed"))
      BY <1>5, <2>1, <3>1, <3>2, <3>3, <3>4
    <3>5. CASE UNCHANGED job_runs
      <4>1. t \notin HoldersOf(j, s)'
        BY <3>2 DEF HoldersOf
      <4> QED
        BY <1>4, <2>1, <3>2, <3>5, <4>1
    <3> QED
      BY <2>4, <3>4, <3>5 DEF RecordMissed
  <2> QED
    BY <1>6, <1>7, <2>1, <2>2, <2>3, <2>4 DEF Pool
<1>8. ASSUME NEW o \in Operators, OneShot(o)
      PROVE  Kept
  <2>1. o \in Runners /\ o \notin Threads
    BY <1>1 DEF Runners
  <2>2. ASSUME NEW w, run' = [run EXCEPT ![o] = w], UNCHANGED job_runs
        PROVE  Kept
    <3>1. \A t \in Threads : run'[t] = run[t]
      BY <2>1, <2>2 DEF TypeOK, RunTypeOK, Runners
    <3> QED
      BY <1>3, <2>2, <3>1
  <2> QED
    BY <1>6, <1>8, <2>1, <2>2 DEF OneShot, StartOnce, ExitOnce
<1>9. ASSUME NEW i \in Jobs, NEW u \in Instants, SubmitJob(i, u)
      PROVE  Kept
  <2>1. PICK t \in Threads : run' = [run EXCEPT ![t] = Queued(i, u)]
    BY <1>9 DEF SubmitJob
  <2>2. /\ \A q \in Runners : q # t => run'[q] = run[q]
        /\ run'[t] = Queued(i, u)
    BY <2>1 DEF TypeOK, RunTypeOK, Runners
  <2>3. UNCHANGED job_runs /\ ~(i = j /\ u = s)
    BY <1>9 DEF SubmitJob
  <2>4. t \notin HoldersOf(j, s)'
    BY <2>2, <2>3 DEF HoldersOf, Queued
  <2> QED
    BY <1>4, <2>2, <2>3, <2>4 DEF Runners
<1>10. CASE Crash
  <2>1. \A t \in Threads : run'[t].pc = "idle"
    BY <1>10 DEF Crash, Idle, Runners
  <2>2. HoldersOf(j, s)' \subseteq HoldersOf(j, s) /\ UNCHANGED job_runs
    BY <1>10, <2>1 DEF HoldersOf, Crash
  <2> QED
    BY <1>2, <2>2
<1>11. ASSUME NEW o \in Operators, KillOnce(o)
       PROVE  Kept
  <2>1. o \notin Threads
    BY <1>1
  <2>2. UNCHANGED job_runs /\ \A t \in Threads : run'[t] = run[t]
    BY <1>11, <2>1 DEF KillOnce, TypeOK, RunTypeOK, Runners
  <2> QED
    BY <1>3, <2>2
<1>12. CASE UNCHANGED <<run, job_runs>>
  BY <1>3, <1>12
<1>13. CASE Environment \/ Boot
  BY <1>12, <1>13 DEF Environment, Tick, LoseDatabase, RestoreDatabase,
                      Boot, StartPaused, RegisterJob, StartFails, Resume
<1>14. CASE Loop
  BY <1>9, <1>12, <1>14 DEF Loop, SkipBusyJob, UpdateJob, LoopDies
<1>15. CASE Stop
  BY <1>10, <1>11, <1>12, <1>15 DEF Stop, Terminate, ShutdownDone
<1>16. CASE Settled
  BY <1>12, <1>16 DEF Settled, vars
<1> QED
  BY <1>7, <1>8, <1>13, <1>14, <1>15, <1>16 DEF Next

(* Submitting a slot spends its one turn.                                  *)
LEMMA TurnIsSpent ==
  ASSUME TypeOK, NEW j \in Jobs, NEW s \in Instants, SubmitJob(j, s)
  PROVE  /\ Ahead(j, s) /\ ~Ahead(j, s)' /\ Exposed' = Exposed
         /\ UNCHANGED <<crashes, outages>>
<1>1. updating = None /\ next_run_time[j] <= s /\ updating' = [job |-> j, slot |-> s]
  BY DEF SubmitJob, LoopReady, IsLastDue, DueTimes
<1>2. UNCHANGED <<db, proc, crashes, outages>>
  BY DEF SubmitJob, history
<1>3. [job |-> j, slot |-> s] # None /\ s <= s
  <2>1. s \in Nat
    BY BoundsAssumption DEF Instants
  <2>2. [job |-> j, slot |-> s] \in [job : Jobs, slot : Nat]
    BY <2>1
  <2> QED
    BY <2>1, <2>2, SlotAssumption
<1>4. Ahead(j, s)
  BY <1>1 DEF Ahead
<1>5. ~Ahead(j, s)'
  BY <1>1, <1>3 DEF Ahead
<1> QED
  BY <1>2, <1>4, <1>5 DEF Exposed

(* Any other step gives a slot another turn only at the price of a death,  *)
(* and a death is counted, or was when the database went away.             *)
LEMMA TurnHasAPrice ==
  ASSUME TypeOK, ScheduleInv, RepeatInv, Next \/ Settled, NEW j \in Jobs, NEW s \in Instants
  PROVE  \/ /\ Ahead(j, s)' => Ahead(j, s)
            /\ Exposed' => Exposed
            /\ crashes + outages <= crashes' + outages'
         \/ /\ crashes' + outages' = crashes + outages + 1
            /\ Ahead(j, s)' => Ahead(j, s)
         \/ /\ crashes' + outages' = crashes + outages + 1 /\ ~Exposed'
         \/ /\ crashes' + outages' = crashes + outages /\ Exposed /\ ~Exposed'
<1> USE DEF store, history
<1>1. crashes \in Nat /\ outages \in Nat /\ (updating # None => proc = "up")
  BY DEF TypeOK, ControlTypeOK, RepeatInv
<1>2. ASSUME UNCHANGED <<next_run_time, updating>>
      PROVE  Ahead(j, s)' <=> Ahead(j, s)
  BY <1>2 DEF Ahead
<1>3. ASSUME UNCHANGED <<next_run_time, updating, db, proc, crashes, outages>>
      PROVE  /\ Ahead(j, s)' => Ahead(j, s)
             /\ Exposed' => Exposed
             /\ crashes + outages <= crashes' + outages'
  BY <1>1, <1>2, <1>3 DEF Exposed
<1>4. CASE Environment
  <2>1. CASE Tick
    BY <1>3, <2>1 DEF Tick
  <2>2. CASE LoseDatabase
    BY <1>1, <1>2, <2>2 DEF LoseDatabase
  <2>3. CASE RestoreDatabase
    BY <1>1, <1>2, <2>3 DEF RestoreDatabase, Exposed
  <2> QED
    BY <1>4, <2>1, <2>2, <2>3 DEF Environment
<1>5. CASE Boot
  <2>1. CASE StartPaused
    BY <1>1, <1>2, <2>1 DEF StartPaused, Exposed
  <2>2. CASE StartFails
    BY <1>1, <1>2, <2>2 DEF StartFails, Exposed
  <2>3. CASE Resume
    <3>1. Exposed' => Exposed
      BY <2>3 DEF Resume, Exposed
    <3> QED
      BY <1>1, <1>2, <2>3, <3>1 DEF Resume
  <2>4. ASSUME NEW i \in Jobs, RegisterJob(i)
        PROVE  /\ Ahead(j, s)' => Ahead(j, s)
               /\ Exposed' => Exposed
               /\ crashes + outages <= crashes' + outages'
    <3>1. updating = None /\ UNCHANGED <<updating, db, proc, crashes, outages>>
      BY <1>1, <2>4 DEF RegisterJob
    <3>2. next_run_time[j] = None \/ next_run_time'[j] = next_run_time[j]
      BY <2>4 DEF RegisterJob, Reconciled, TypeOK, TablesTypeOK
    <3>3. Ahead(j, s)' => Ahead(j, s)
      BY <3>1, <3>2 DEF Ahead
    <3> QED
      BY <1>1, <3>1, <3>3 DEF Exposed
  <2> QED
    BY <1>5, <2>1, <2>2, <2>3, <2>4 DEF Boot
<1>6. ASSUME NEW i \in Jobs, NEW u \in Instants, SubmitJob(i, u) \/ SkipBusyJob(i, u)
      PROVE  /\ Ahead(j, s)' => Ahead(j, s)
             /\ Exposed' => Exposed
             /\ crashes + outages <= crashes' + outages'
  <2>1. updating = None /\ UNCHANGED <<next_run_time, db, proc, crashes, outages>>
    BY <1>6 DEF SubmitJob, SkipBusyJob, LoopReady
  <2>2. Ahead(j, s)' => Ahead(j, s)
    BY <2>1 DEF Ahead
  <2> QED
    BY <1>1, <2>1, <2>2 DEF Exposed
<1>7. CASE UpdateJob
  <2>1. PICK i \in Jobs, u \in Instants :
          /\ updating # None /\ updating.job = i /\ updating.slot = u
          /\ next_run_time' = [next_run_time EXCEPT ![i] = u + Interval[i]]
          /\ updating' = None /\ UNCHANGED <<db, proc, crashes, outages>>
    BY <1>7 DEF UpdateJob, NextFireTime, TypeOK, ControlTypeOK
  <2>2. next_run_time[i] # None /\ next_run_time[i] <= u
    BY <2>1 DEF ScheduleInv, UpdatingIsHandled
  <2>3. CASE i = j
    <3>1. next_run_time'[j] = u + Interval[j]
      BY <2>1, <2>3 DEF TypeOK, TablesTypeOK
    <3>2. u \in Nat /\ s \in Nat /\ Interval[j] \in Nat \ {0} /\ next_run_time[j] \in Nat
      BY <2>2, <2>3, CadenceAssumption, BoundsAssumption DEF TypeOK, TablesTypeOK, Instants
    <3>3. u + Interval[j] # None
      BY <3>2, NamesAssumption
    <3>4. ASSUME Ahead(j, s)'
          PROVE  u + Interval[j] <= s
      BY <3>1, <3>3, <3>4 DEF Ahead
    <3>5. Ahead(j, s)' => next_run_time[j] <= s /\ ~(s <= u)
      BY <2>2, <2>3, <3>2, <3>4
    <3>6. Ahead(j, s)' => Ahead(j, s)
      BY <2>1, <3>5 DEF Ahead
    <3> QED
      BY <1>1, <2>1, <3>6 DEF Exposed
  <2>4. CASE i # j
    <3>1. next_run_time'[j] = next_run_time[j]
      BY <2>1, <2>4 DEF TypeOK, TablesTypeOK
    <3>2. Ahead(j, s)' => Ahead(j, s)
      BY <2>1, <2>4, <3>1 DEF Ahead
    <3> QED
      BY <1>1, <2>1, <3>2 DEF Exposed
  <2> QED
    BY <2>3, <2>4
<1>8. CASE LoopDies
  BY <1>1, <1>8 DEF LoopDies, Exposed
<1>9. CASE Stop
  <2>1. CASE Crash
    BY <1>1, <2>1 DEF Crash, Exposed
  <2>2. ASSUME NEW o \in Operators, KillOnce(o)
        PROVE  /\ crashes' + outages' = crashes + outages + 1
               /\ Ahead(j, s)' => Ahead(j, s)
    BY <1>1, <1>2, <2>2 DEF KillOnce
  <2>3. CASE Terminate
    BY <1>1, <1>2, <2>3 DEF Terminate, Exposed
  <2>4. CASE ShutdownDone
    BY <1>1, <1>2, <2>4 DEF ShutdownDone, Exposed
  <2> QED
    BY <1>9, <2>1, <2>2, <2>3, <2>4 DEF Stop
<1>10. ASSUME NEW r \in Runners, Decorated(r)
       PROVE  UNCHANGED <<next_run_time, updating, db, proc, crashes, outages>>
  BY <1>10 DEF Decorated, OpenRun, OpenRunFails, WorkEnds, CloseRun, CloseRunFails
<1>11. ASSUME NEW t \in Threads, Pool(t)
       PROVE  UNCHANGED <<next_run_time, updating, db, proc, crashes, outages>>
  BY <1>10, <1>11 DEF Pool, Misfire, ReleaseInstance, RecordMissed, Runners
<1>12. ASSUME NEW o \in Operators, OneShot(o)
       PROVE  UNCHANGED <<next_run_time, updating, db, proc, crashes, outages>>
  BY <1>10, <1>12 DEF OneShot, StartOnce, ExitOnce, Runners
<1>13. CASE Settled
  BY <1>3, <1>13 DEF Settled, vars
<1>14. CASE Loop
  BY <1>6, <1>7, <1>8, <1>14 DEF Loop
<1> QED
  BY <1>3, <1>4, <1>5, <1>9, <1>11, <1>12, <1>13, <1>14 DEF Next

(* The main loop updates only while it is up, and a run by hand has no     *)
(* slot.                                                                   *)
LEMMA LoopAndHandsKept ==
  ASSUME TypeOK, RepeatInv, Next \/ Settled
  PROVE  (updating' # None => proc' = "up") /\ \A o \in Operators : run'[o].slot = None
<1> USE DEF store, history
<1>1. /\ updating # None => proc = "up"
      /\ \A o \in Operators : o \in Runners /\ run[o].slot = None /\ o \notin Threads
      /\ \A t \in Threads : t \in Runners
      /\ DOMAIN run = Runners
  BY NamesAssumption DEF RepeatInv, Runners, TypeOK, RunTypeOK
<1>2. updating' # None => proc' = "up"
  <2>1. ASSUME NEW r \in Runners, Decorated(r)
        PROVE  UNCHANGED <<updating, proc>>
    BY <2>1 DEF Decorated, OpenRun, OpenRunFails, WorkEnds, CloseRun, CloseRunFails
  <2>2. ASSUME NEW t \in Threads, Pool(t)
        PROVE  UNCHANGED <<updating, proc>>
    BY <2>1, <2>2 DEF Pool, Misfire, ReleaseInstance, RecordMissed, Runners
  <2>3. ASSUME NEW o \in Operators, OneShot(o)
        PROVE  UNCHANGED <<updating, proc>>
    BY <2>1, <2>3 DEF OneShot, StartOnce, ExitOnce, Runners
  <2>4. CASE Environment \/ Boot \/ Settled
    BY <1>1, <2>4 DEF Environment, Tick, LoseDatabase, RestoreDatabase, Boot, StartPaused,
                      RegisterJob, StartFails, Resume, Settled, vars, Started
  <2>5. CASE Loop
    BY <1>1, <2>5 DEF Loop, SubmitJob, SkipBusyJob, UpdateJob, LoopDies, LoopReady
  <2>6. CASE Stop
    BY <1>1, <2>6 DEF Stop, Crash, KillOnce, Terminate, ShutdownDone
  <2> QED
    BY <1>1, <2>2, <2>3, <2>4, <2>5, <2>6 DEF Next
<1>3. ASSUME NEW o \in Operators
      PROVE  run'[o].slot = None
  <2>1. CASE run' = run
    BY <1>1, <2>1
  <2>2. ASSUME NEW r \in Runners, Decorated(r)
        PROVE  run'[o].slot = None
    <3>1. run'[r].slot = run[r].slot /\ \A q \in Runners : q # r => run'[q] = run[q]
      BY <2>2, DecoratedStep
    <3> QED
      BY <1>1, <3>1
  <2>3. ASSUME NEW t \in Threads, NEW w, run' = [run EXCEPT ![t] = w]
        PROVE  run'[o].slot = None
    BY <1>1, <2>3
  <2>4. ASSUME NEW t \in Threads, Pool(t)
        PROVE  run'[o].slot = None
    <3>1. Misfire(t) => run'[o] = run[o]
      BY <1>1 DEF Misfire
    <3>2. ReleaseInstance(t) => run'[o] = run[o]
      BY <1>1, Releases
    <3>3. RecordMissed(t) => run'[o] = run[o]
      BY <1>1 DEF RecordMissed
    <3> QED
      BY <1>1, <2>2, <2>4, <3>1, <3>2, <3>3 DEF Pool
  <2>5. ASSUME NEW q \in Operators, OneShot(q)
        PROVE  run'[o].slot = None
    <3>1. ASSUME NEW j \in Jobs, StartOnce(q, j)
          PROVE  run'[o].slot = None
      BY <1>1, <3>1 DEF StartOnce, Queued
    <3>2. CASE ExitOnce(q)
      BY <1>1, <3>2 DEF ExitOnce, Idle
    <3> QED
      BY <1>1, <2>2, <2>5, <3>1, <3>2 DEF OneShot
  <2>6. CASE Environment \/ Boot \/ Settled
    BY <2>1, <2>6 DEF Environment, Tick, LoseDatabase, RestoreDatabase, Boot, StartPaused,
                      RegisterJob, StartFails, Resume, Settled, vars
  <2>7. CASE Loop
    BY <2>1, <2>3, <2>7 DEF Loop, SubmitJob, SkipBusyJob, UpdateJob, LoopDies
  <2>8. CASE Stop
    <3>1. Crash => run'[o].slot = None
      BY <1>1 DEF Crash
    <3>2. ASSUME NEW q \in Operators, KillOnce(q)
          PROVE  run'[o].slot = None
      BY <1>1, <3>2 DEF KillOnce, Idle
    <3> QED
      BY <2>1, <2>8, <3>1, <3>2 DEF Stop, Terminate, ShutdownDone
  <2> QED
    BY <2>4, <2>5, <2>6, <2>7, <2>8 DEF Next
<1> QED
  BY <1>2, <1>3

LEMMA PriceCovers ==
  ASSUME NEW a \in Int, NEW b \in Int, NEW e \in Int, NEW f \in Int, NEW m \in Int, NEW n \in Int,
         0 <= a, b <= 1, 0 <= e, f <= 1,
         \/ b <= a /\ f <= e /\ m <= n
         \/ n = m + 1 /\ b <= a
         \/ n = m + 1 /\ f = 0
         \/ n = m /\ e = 1 /\ f = 0
  PROVE  b + f + m <= a + e + n
OBVIOUS

LEMMA RepeatStep ==
  ASSUME TypeOK, TypeOK', WorkIsRecorded, ScheduleInv, RepeatInv, Next \/ Settled
  PROVE  RepeatInv'
<1>1. ASSUME NEW j \in Jobs, NEW s \in Instants
      PROVE  /\ IsFiniteSet(HoldersOf(j, s)')
             /\ Records(j, s)' + One(Ahead(j, s)') + One(Exposed') <= 1 + crashes' + outages'
  <2>1. /\ IsFiniteSet(HoldersOf(j, s)) /\ IsFiniteSet(RowsOf(j, s)) /\ IsFiniteSet(RowsOf(j, s)')
        /\ Records(j, s) + One(Ahead(j, s)) + One(Exposed) <= 1 + crashes + outages
        /\ crashes \in Nat /\ outages \in Nat /\ crashes' \in Nat /\ outages' \in Nat
    <3>1. IsFiniteSet(RowsOf(j, s)')
      <4>1. RowsOf(j, s)' \subseteq 1 .. Len(job_runs') /\ Len(job_runs') \in Nat
        BY LenProperties DEF RowsOf, TypeOK, TablesTypeOK
      <4>2. IsFiniteSet(1 .. Len(job_runs'))
        BY <4>1, NumbersUpToAreFinite
      <4> QED
        BY <4>1, <4>2, FS_Subset
    <3> QED
      BY <3>1, RowsAreFinite DEF RepeatInv, TypeOK, ControlTypeOK
  <2>2. Records(j, s) \in Nat
    BY <2>1, FS_CardinalityType DEF Records
  <2>3. ASSUME IsFiniteSet(HoldersOf(j, s)')
        PROVE  Records(j, s)' \in Nat
    BY <2>1, <2>3, FS_CardinalityType DEF Records
  <2>4. CASE SubmitJob(j, s)
    <3>1. PICK t \in Threads : run' = [run EXCEPT ![t] = Queued(j, s)]
      BY <2>4 DEF SubmitJob
    <3>2. HoldersOf(j, s)' \subseteq HoldersOf(j, s) \cup {t}
      BY <3>1 DEF HoldersOf, TypeOK, RunTypeOK, Runners
    <3>3. RowsOf(j, s)' = RowsOf(j, s)
      BY <2>4 DEF SubmitJob, RowsOf
    <3>4. IsFiniteSet(HoldersOf(j, s)') /\ Records(j, s)' <= Records(j, s) + 1
      BY <2>1, <3>2, <3>3, HandedCount
    <3>5. /\ Ahead(j, s) /\ ~Ahead(j, s)' /\ Exposed' = Exposed
          /\ crashes' = crashes /\ outages' = outages
      BY <2>4, TurnIsSpent
    <3> QED
      BY <2>1, <2>2, <2>3, <3>4, <3>5 DEF One
  <2>5. CASE ~SubmitJob(j, s)
    <3>1. IsFiniteSet(HoldersOf(j, s)') /\ Records(j, s)' <= Records(j, s)
      BY <2>5, CountKept
    <3>2. One(Ahead(j, s)') + One(Exposed') + crashes + outages
             <= One(Ahead(j, s)) + One(Exposed) + crashes' + outages'
      <4> DEFINE a == One(Ahead(j, s))   a1 == One(Ahead(j, s)')
                 e == One(Exposed)       e1 == One(Exposed')
      <4>1. /\ a \in 0 .. 1 /\ a1 \in 0 .. 1 /\ e \in 0 .. 1 /\ e1 \in 0 .. 1
            /\ (Ahead(j, s)' => Ahead(j, s)) => a1 <= a
            /\ (Exposed' => Exposed) => e1 <= e
            /\ ~Exposed' => e1 = 0
            /\ Exposed => e = 1
        BY DEF One
      <4>2. \/ a1 <= a /\ e1 <= e /\ crashes + outages <= crashes' + outages'
            \/ crashes' + outages' = crashes + outages + 1 /\ a1 <= a
            \/ crashes' + outages' = crashes + outages + 1 /\ e1 = 0
            \/ crashes' + outages' = crashes + outages /\ e = 1 /\ e1 = 0
        BY <4>1, TurnHasAPrice
      <4> HIDE DEF a, a1, e, e1
      <4>3. /\ a \in Int /\ 0 <= a /\ a <= 1 /\ a1 \in Int /\ 0 <= a1 /\ a1 <= 1
            /\ e \in Int /\ 0 <= e /\ e <= 1 /\ e1 \in Int /\ 0 <= e1 /\ e1 <= 1
        BY <4>1
      <4>4. PICK m, n : m = crashes + outages /\ n = crashes' + outages' /\ m \in Int /\ n \in Int
        <5>1. crashes \in Nat /\ outages \in Nat /\ crashes' \in Nat /\ outages' \in Nat
          BY <2>1
        <5>2. crashes + outages \in Int /\ crashes' + outages' \in Int
          BY <5>1
        <5> QED
          BY <5>2
      <4>5. \/ a1 <= a /\ e1 <= e /\ m <= n
            \/ n = m + 1 /\ a1 <= a
            \/ n = m + 1 /\ e1 = 0
            \/ n = m /\ e = 1 /\ e1 = 0
        BY <4>2, <4>4
      <4>6. a1 + e1 + m <= a + e + n
        BY <4>3, <4>4, <4>5, PriceCovers
      <4> QED
        BY <2>1, <4>3, <4>4, <4>6 DEF a, a1, e, e1
    <3>3. One(Ahead(j, s)) \in Nat /\ One(Ahead(j, s)') \in Nat /\ One(Exposed) \in Nat /\ One(Exposed') \in Nat
      BY DEF One
    <3> QED
      BY <2>1, <2>2, <2>3, <3>1, <3>2, <3>3
  <2> QED
    BY <2>4, <2>5
<1>2. \A j, s : One(Ahead(j, s))' = One(Ahead(j, s)') /\ One(Exposed)' = One(Exposed')
  BY DEF One
<1> QED
  BY <1>1, <1>2, LoopAndHandsKept DEF RepeatInv

(* A slot has more than one row only if the scheduler died, or lost the    *)
(* database, between handing the run over and writing the next fire time:  *)
(* one row more for each time at most.                                     *)
THEOREM RepeatsNeedADeath == Spec => []SlotRepeatsNeedADeath
<1>1. Init => RepeatInv
  <2> SUFFICES ASSUME Init, NEW j \in Jobs, NEW s \in Instants
               PROVE  /\ IsFiniteSet(HoldersOf(j, s))
                      /\ Records(j, s) + One(Ahead(j, s)) + One(Exposed) <= 1 + crashes + outages
    BY DEF RepeatInv, Init, Idle, Runners
  <2>1. HoldersOf(j, s) = {} /\ RowsOf(j, s) = {}
    BY DEF Init, HoldersOf, RowsOf, Idle, Runners
  <2>2. IsFiniteSet(HoldersOf(j, s)) /\ Records(j, s) = 0
    BY <2>1, FS_EmptySet DEF Records
  <2>3. ~Exposed /\ crashes = 0 /\ outages = 0
    BY DEF Init, Exposed
  <2> QED
    BY <2>2, <2>3 DEF One
<1>2. RepeatInv /\ UNCHANGED vars => RepeatInv'
  BY DEF vars, RepeatInv, HoldersOf, Records, RowsOf, Ahead, Exposed, One
<1>3. TypeOK /\ TypeOK' /\ WorkIsRecorded /\ ScheduleInv /\ RepeatInv /\ [Next \/ Settled]_vars => RepeatInv'
  BY <1>2, RepeatStep
<1>4. TypeOK /\ RepeatInv => SlotRepeatsNeedADeath
  <2> SUFFICES ASSUME TypeOK, RepeatInv, NEW j \in Jobs, NEW s \in Instants
               PROVE  Cardinality(RowsOf(j, s)) <= 1 + crashes + outages
    BY DEF SlotRepeatsNeedADeath
  <2>1. /\ IsFiniteSet(HoldersOf(j, s)) /\ IsFiniteSet(RowsOf(j, s))
        /\ Records(j, s) + One(Ahead(j, s)) + One(Exposed) <= 1 + crashes + outages
        /\ crashes \in Nat /\ outages \in Nat
    BY RowsAreFinite DEF RepeatInv, TypeOK, ControlTypeOK
  <2>2. Cardinality(HoldersOf(j, s)) \in Nat /\ Cardinality(RowsOf(j, s)) \in Nat
    BY <2>1, FS_CardinalityType
  <2>3. One(Ahead(j, s)) \in Nat /\ One(Exposed) \in Nat
    BY DEF One
  <2> QED
    BY <2>1, <2>2, <2>3 DEF Records
<1> QED
  BY <1>1, <1>3, <1>4, TypeCorrect, RecordsAreOwned, ScheduleIsKept, PTL DEF Spec

-----------------------------------------------------------------------------
(* The cadences that are deployed.                                         *)

Registry == INSTANCE Cadences
Deployed == INSTANCE Scheduler WITH
  Jobs <- Registry!JobNames,
  Interval <- [j \in Registry!JobNames |-> Registry!ByName(j).interval],
  Grace <- [j \in Registry!JobNames |-> Registry!MisfireGraceTime(Registry!ByName(j))]

(* No row of the table makes Cadence.__post_init__ raise.                  *)
LEMMA CadencesAreWellFormed ==
  \A c \in Registry!CADENCES :
    /\ Registry!WellFormed(c)
    /\ c.interval \in Nat \ {0} /\ Registry!MisfireGraceTime(c) \in Nat
BY DEF Registry!CADENCES, Registry!Cadence, Registry!WellFormed, Registry!MisfireGraceTime,
       Registry!MINIMUM_MISFIRE_GRACE_SECONDS, Registry!Minutes, Registry!Hours, Registry!Days

LEMMA EntryOfAName ==
  \A j \in Registry!JobNames : Registry!ByName(j) \in Registry!CADENCES
BY DEF Registry!ByName, Registry!JobNames

(* CADENCES of cadence.py satisfies what the theorems above assume of a    *)
(* schedule, names no job twice, and passes check_cadence_agreement: the   *)
(* theorems hold of the deployed scheduler.                                *)
THEOREM DeployedCadencesQualify ==
  Deployed!CadenceAssumption /\ Registry!DistinctNames /\ Registry!CadencesAgree
<1>1. Deployed!CadenceAssumption
  BY CadencesAreWellFormed, EntryOfAName DEF Deployed!CadenceAssumption, Registry!WellFormed
<1>2. Registry!DistinctNames
  BY DEF Registry!DistinctNames, Registry!CADENCES, Registry!Cadence
<1>3. Registry!CadencesAgree
  BY DEF Registry!CadencesAgree, Registry!JobNames, Registry!JOB_FUNCTIONS, Registry!CADENCES,
         Registry!Cadence
<1>. QED BY <1>1, <1>2, <1>3
=============================================================================
