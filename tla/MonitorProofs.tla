--------------------------- MODULE MonitorProofs ---------------------------
(***************************************************************************)
(* The properties of module Monitor, for any jobs, tables, cadences and    *)
(* thresholds the registries accept, and any number of faults: what falls  *)
(* silent is reported, the death of the scheduler shows on the health      *)
(* endpoint, and while all is on time a table is reported at most for its  *)
(* anchoring, a job never.                                                 *)
(***************************************************************************)
EXTENDS Monitor, TLAPS

(* When the heartbeat last was to run: its due time less its interval.     *)
LastBeat == due[Heartbeat] - Interval[Heartbeat]

(* The first moments at which a job counts as silent, or a table as stale. *)
JobFrom(t) == IF finished[t] = None THEN 0 ELSE finished[t] + OverdueAfter[t] + 1
TableFrom(t) == IF newest[t] = None THEN 0 ELSE newest[t] - Anchor[t] + MaxStaleness[t] + 1

(* A fire time lies at most an interval ahead, and no live scheduler is    *)
(* past one.                                                               *)
OnSchedule ==
  /\ \A j \in Jobs : due[j] <= now + Interval[j]
  /\ alive => \A j \in Jobs : now <= due[j]
  /\ ~alive => hindered = now

(* A source that has missed no period closes them one cycle apart, each    *)
(* within its lag.                                                         *)
SourcesInStep ==
  \A t \in Tables : /\ now <= next[t] + Lag[t]
                    /\ missed[t] = 0 => next[t] = published[t] + Cycle[t]
                    /\ published[t] <= next[t]
                    /\ newest[t] # None => newest[t] <= published[t]

(* A job that has missed no fire time has last run an interval before its  *)
(* next one, and stored what its source had published by then.             *)
PollsInStep ==
  \A t \in Tables \ unpolled :
    /\ newest[t] = None <=> finished[t] = None
    /\ finished[t] # None =>
         /\ due[t] = finished[t] + Interval[t]
         /\ missed[t] = 0 => finished[t] <= newest[t] + Cycle[t] + Lag[t]

BeatsInStep == finished[Heartbeat] # None => finished[Heartbeat] <= LastBeat

(* Unless something has kept it from reporting since, the last heartbeat   *)
(* delivered every job and table that was silent by then.                  *)
Delivered ==
  hindered < LastBeat =>
    \A t \in Tables :
      /\ JobFrom(t) <= LastBeat => sent.at = LastBeat /\ t \in sent.jobs
      /\ TableFrom(t) <= LastBeat => sent.at = LastBeat /\ t \in sent.tables

MonitorInv ==
  /\ TypeOK /\ due \in [Jobs -> Nat] /\ next \in [Tables -> Nat]
  /\ OnSchedule /\ SourcesInStep /\ PollsInStep /\ BeatsInStep /\ Delivered

-----------------------------------------------------------------------------
(* The registries, and fire times.                                         *)

LEMMA Registries ==
  /\ Jobs = Tables \cup {Heartbeat} /\ Heartbeat \notin Tables /\ None \notin Int /\ MaxTime \in Nat
  /\ \A j \in Jobs : /\ Interval[j] \in Nat /\ Interval[j] > 0
                     /\ OverdueAfter[j] \in Nat /\ OverdueAfter[j] > Interval[j]
  /\ \A t \in Tables : /\ Cycle[t] \in Nat /\ Lag[t] \in Nat /\ MaxStaleness[t] \in Nat
                       /\ MaxStaleness[t] >= Cycle[t] + Lag[t] + Cycle[t]
                       /\ Interval[t] <= Cycle[t]
                       /\ Anchor[t] \in Nat /\ Anchor[t] <= Cycle[t]
BY RegistryAssumption, PollsEachCycle, LabelledWithin DEF Jobs, DerivedMinimum

(* The next slot after a past one lies within an interval from now.        *)
LEMMA NextSlot ==
  ASSUME NEW d \in Nat, NEW n \in Nat, NEW i \in Nat, i > 0, d < n
  PROVE  LET s == d + i * ((n - d) \div i + 1) IN s \in Nat /\ n < s /\ s <= n + i
<1> DEFINE k == (n - d) \div i
<1>1. n - d = i * k + ((n - d) % i) /\ (n - d) % i \in 0 .. i - 1 /\ k \in Int
  OBVIOUS
<1> HIDE DEF k
<1>2. i * k \in Int /\ i * (k + 1) = i * k + i
  BY <1>1
<1>3. i * k <= n - d /\ n - d < i * k + i
  <2>1. PICK m \in 0 .. i - 1 : n - d = i * k + m
    BY <1>1
  <2> QED
    BY <1>2, <2>1
<1>4. d + i * (k + 1) \in Nat /\ n < d + i * (k + 1) /\ d + i * (k + 1) <= n + i
  BY <1>2, <1>3
<1> QED
  BY <1>4 DEF k

LEMMA FireTimes ==
  ASSUME MonitorInv, NEW j \in Jobs, Fires(j), Rescheduled(j)
  PROVE  /\ alive /\ due[j] = now /\ now \in Nat
         /\ due' \in [Jobs -> Nat] /\ due'[j] = now + Interval[j]
         /\ \A k \in Jobs : k # j => due'[k] = due[k]
BY Registries DEF MonitorInv, TypeOK, Times, Fires, Rescheduled

LEMMA RestartTimes ==
  ASSUME MonitorInv, Restart
  PROVE  /\ due' \in [Jobs -> Nat] /\ now \in Nat
         /\ \A j \in Jobs : /\ now <= due'[j] /\ due[j] <= due'[j] /\ due'[j] <= now + Interval[j]
                            /\ now <= due[j] => due'[j] = due[j]
<1>1. PICK late : due' = [j \in Jobs |->
                    IF due[j] >= now THEN due[j]
                    ELSE IF j \in late THEN now
                    ELSE due[j] + Interval[j] * ((now - due[j]) \div Interval[j] + 1)]
  BY DEF Restart
<1>2. now \in Nat
  BY DEF MonitorInv, TypeOK, Times
<1>3. ASSUME NEW j \in Jobs
      PROVE  /\ due'[j] \in Nat
             /\ now <= due'[j] /\ due[j] <= due'[j] /\ due'[j] <= now + Interval[j]
             /\ now <= due[j] => due'[j] = due[j]
  <2>1. due[j] \in Nat /\ Interval[j] \in Nat /\ Interval[j] > 0 /\ due[j] <= now + Interval[j]
    BY Registries DEF MonitorInv, OnSchedule
  <2>2. CASE due[j] >= now
    BY <1>1, <1>2, <2>1, <2>2
  <2>3. CASE due[j] < now
    <3>1. PICK s : s = due[j] + Interval[j] * ((now - due[j]) \div Interval[j] + 1)
      OBVIOUS
    <3>2. s \in Nat /\ now < s /\ s <= now + Interval[j]
      BY <1>2, <2>1, <2>3, <3>1, NextSlot
    <3>3. due'[j] = now \/ due'[j] = s
      BY <1>1, <1>2, <2>1, <2>3, <3>1
    <3> QED
      BY <1>2, <2>1, <2>3, <3>2, <3>3
  <2> QED
    BY <1>2, <2>1, <2>2, <2>3
<1>4. due' \in [Jobs -> Nat]
  BY <1>1, <1>3
<1> QED
  BY <1>2, <1>3, <1>4

-----------------------------------------------------------------------------
(* The parts of the invariant, step by step.                               *)

LEMMA TypesStep ==
  ASSUME MonitorInv, Next
  PROVE  TypeOK' /\ due' \in [Jobs -> Nat] /\ next' \in [Tables -> Nat]
<1> USE Registries
<1>1. /\ now \in 0..MaxTime /\ due \in [Jobs -> Nat] /\ next \in [Tables -> Nat]
      /\ \A j \in Jobs : due[j] <= MaxTime + Interval[j]
  BY DEF MonitorInv, TypeOK, Times
<1>2. ASSUME NEW j \in Jobs, Fires(j), Rescheduled(j)
      PROVE  due' \in [Jobs -> Nat] /\ \A k \in Jobs : due'[k] \in 0..MaxTime + Interval[k]
  BY <1>1, <1>2, FireTimes
<1>3. ASSUME NEW t \in Tables, Ingest(t)
      PROVE  TypeOK' /\ due' \in [Jobs -> Nat] /\ next' \in [Tables -> Nat]
  <2>1. finished' \in [Jobs -> Times \cup {None}] /\ active' \in [Jobs -> Times \cup {None}]
    BY <1>3 DEF Ingest, MonitorInv, TypeOK
  <2>2. newest' \in [Tables -> Times \cup {None}]
    BY <1>3 DEF Ingest, MonitorInv, TypeOK
  <2> QED
    BY <1>1, <1>2, <1>3, <2>1, <2>2 DEF Ingest, MonitorInv, TypeOK, Times, sourceVars
<1>4. ASSUME NEW t \in Tables, IngestFails(t)
      PROVE  TypeOK' /\ due' \in [Jobs -> Nat] /\ next' \in [Tables -> Nat]
  <2>1. active' \in [Jobs -> Times \cup {None}]
    BY <1>4 DEF IngestFails, MonitorInv, TypeOK
  <2> QED
    BY <1>1, <1>2, <1>4, <2>1 DEF IngestFails, MonitorInv, TypeOK, Times, sourceVars
<1>5. ASSUME NEW t \in Tables, Publish(t)
      PROVE  TypeOK' /\ due' \in [Jobs -> Nat] /\ next' \in [Tables -> Nat]
  <2>1. published' \in [Tables -> Times]
    BY <1>1, <1>5 DEF Publish, MonitorInv, TypeOK, Times
  <2>2. next' \in [Tables -> Nat] /\ \A u \in Tables : next'[u] \in 0..MaxTime + Cycle[u]
    BY <1>1, <1>5 DEF Publish, MonitorInv, TypeOK, Times
  <2> QED
    BY <1>1, <1>5, <2>1, <2>2 DEF Publish, MonitorInv, TypeOK, Times
<1>6. ASSUME NEW t \in Tables, Miss(t)
      PROVE  TypeOK' /\ due' \in [Jobs -> Nat] /\ next' \in [Tables -> Nat]
  <2>1. missed' \in [Tables -> Nat]
    BY <1>6 DEF Miss, MonitorInv, TypeOK
  <2>2. next' \in [Tables -> Nat] /\ \A u \in Tables : next'[u] \in 0..MaxTime + Cycle[u]
    BY <1>1, <1>6 DEF Miss, MonitorInv, TypeOK, Times
  <2> QED
    BY <1>1, <1>6, <2>1, <2>2 DEF Miss, MonitorInv, TypeOK, Times
<1>7. ASSUME NEW t \in Tables, Break(t)
      PROVE  TypeOK' /\ due' \in [Jobs -> Nat] /\ next' \in [Tables -> Nat]
  BY <1>1, <1>7 DEF Break, MonitorInv, TypeOK, sourceVars
<1>8. CASE HeartbeatRuns
  <2>1. finished' \in [Jobs -> Times \cup {None}] /\ active' \in [Jobs -> Times \cup {None}]
    BY <1>8 DEF HeartbeatRuns, MonitorInv, TypeOK
  <2>2. sent' \in [at : Times \cup {None}, jobs : SUBSET Jobs, tables : SUBSET Tables]
    <3>1. OverdueJobs \subseteq Jobs /\ StaleTables \subseteq Tables
      BY DEF OverdueJobs, StaleTables, WatchedJobs, CheckedTables
    <3> QED
      BY <1>8, <3>1 DEF HeartbeatRuns, Emit, MonitorInv, TypeOK
  <2> QED
    BY <1>1, <1>2, <1>8, <2>1, <2>2 DEF HeartbeatRuns, MonitorInv, TypeOK, Times, sourceVars
<1>9. CASE HeartbeatFails
  <2>1. active' \in [Jobs -> Times \cup {None}]
    BY <1>9 DEF HeartbeatFails, MonitorInv, TypeOK
  <2> QED
    BY <1>1, <1>2, <1>9, <2>1 DEF HeartbeatFails, MonitorInv, TypeOK, Times, sourceVars
<1>10. CASE Tick
  BY <1>1, <1>10 DEF Tick, MonitorInv, TypeOK, Times, sourceVars
<1>11. CASE Die \/ SinkFails \/ SinkReturns
  BY <1>1, <1>11 DEF Die, SinkFails, SinkReturns, MonitorInv, TypeOK, Times, sourceVars
<1>12. CASE Restart
  <2>1. unpolled' \subseteq Tables /\ alive' \in BOOLEAN /\ hindered' \in Times
    BY <1>12 DEF Restart, MonitorInv, TypeOK
  <2>2. due' \in [Jobs -> Nat] /\ \A j \in Jobs : due'[j] \in 0..MaxTime + Interval[j]
    BY <1>1, <1>12, RestartTimes
  <2>3. UNCHANGED <<now, finished, active, sourceVars, newest, broken, sinkUp, sent>>
    BY <1>12 DEF Restart
  <2> QED
    BY <1>1, <2>1, <2>2, <2>3 DEF MonitorInv, TypeOK, Times, sourceVars
<1> QED
  BY <1>3, <1>4, <1>5, <1>6, <1>7, <1>8, <1>9, <1>10, <1>11, <1>12 DEF Next

LEMMA ScheduleStep ==
  ASSUME MonitorInv, Next
  PROVE  OnSchedule'
<1> USE Registries
<1>1. /\ now \in Nat /\ due \in [Jobs -> Nat]
      /\ \A j \in Jobs : due[j] <= now + Interval[j]
      /\ alive => \A j \in Jobs : now <= due[j]
      /\ ~alive => hindered = now
  BY DEF MonitorInv, TypeOK, Times, OnSchedule
<1>2. ASSUME NEW j \in Jobs, Fires(j), Rescheduled(j), now' = now, alive' = alive
      PROVE  OnSchedule'
  BY <1>1, <1>2, FireTimes DEF OnSchedule
<1>3. CASE \/ \E t \in Tables : Ingest(t) \/ IngestFails(t)
           \/ HeartbeatRuns \/ HeartbeatFails
  BY <1>2, <1>3 DEF Ingest, IngestFails, HeartbeatRuns, HeartbeatFails
<1>4. CASE Tick
  <2>1. now' = now + 1 /\ due' = due /\ alive' = alive /\ (~alive => hindered' = now')
    BY <1>4 DEF Tick
  <2>2. alive => \A j \in Jobs : due[j] # now
    BY <1>4 DEF Tick, Fires
  <2> QED
    BY <1>1, <2>1, <2>2 DEF OnSchedule
<1>5. CASE Restart
  <2>1. alive' /\ now' = now
    BY <1>5 DEF Restart
  <2> QED
    BY <1>5, <2>1, RestartTimes DEF OnSchedule
<1>6. CASE Die
  BY <1>1, <1>6 DEF Die, OnSchedule
<1>7. CASE SinkFails \/ SinkReturns \/ \E t \in Tables : Publish(t) \/ Miss(t) \/ Break(t)
  BY <1>1, <1>7 DEF SinkFails, SinkReturns, Publish, Miss, Break, OnSchedule
<1> QED
  BY <1>3, <1>4, <1>5, <1>6, <1>7 DEF Next

LEMMA SourcesStep ==
  ASSUME MonitorInv, Next
  PROVE  SourcesInStep'
<1> USE Registries
<1>1. /\ now \in Nat /\ next \in [Tables -> Nat] /\ published \in [Tables -> Times]
      /\ missed \in [Tables -> Nat] /\ newest \in [Tables -> Times \cup {None}] /\ Times \subseteq Nat
  BY DEF MonitorInv, TypeOK, Times
<1>2. \A t \in Tables : /\ now <= next[t] + Lag[t]
                        /\ missed[t] = 0 => next[t] = published[t] + Cycle[t]
                        /\ published[t] <= next[t]
                        /\ newest[t] # None => newest[t] <= published[t]
  BY DEF MonitorInv, SourcesInStep
<1>3. ASSUME NEW u \in Tables, Ingest(u) PROVE SourcesInStep'
  <2>1. newest' = [newest EXCEPT ![u] = published[u]] /\ UNCHANGED <<now, next, published, missed>>
    BY <1>3 DEF Ingest, sourceVars
  <2>2. ASSUME NEW t \in Tables, newest'[t] # None PROVE newest'[t] <= published[t]
    <3>1. published[t] \in Nat
      BY <1>1
    <3> QED
      BY <1>1, <1>2, <2>1, <2>2, <3>1
  <2> QED
    BY <1>2, <2>1, <2>2 DEF SourcesInStep
<1>4. ASSUME NEW u \in Tables, Publish(u) PROVE SourcesInStep'
  <2>1. /\ next[u] <= now /\ published' = [published EXCEPT ![u] = next[u]]
        /\ next' = [next EXCEPT ![u] = @ + Cycle[u]] /\ UNCHANGED <<now, missed, newest>>
    BY <1>4 DEF Publish
  <2>2. ASSUME NEW t \in Tables
        PROVE  /\ now <= next'[t] + Lag[t]
               /\ missed[t] = 0 => next'[t] = published'[t] + Cycle[t]
               /\ published'[t] <= next'[t]
    BY <1>1, <1>2, <2>1
  <2>3. ASSUME NEW t \in Tables, newest[t] # None PROVE newest[t] <= published'[t]
    <3>1. CASE t # u
      BY <1>1, <1>2, <2>1, <2>3, <3>1
    <3>2. CASE t = u
      <4>1. newest[u] \in Nat /\ published[u] \in Nat /\ next[u] \in Nat
        BY <1>1, <2>3, <3>2
      <4>2. newest[u] <= published[u] /\ published[u] <= next[u]
        BY <1>2, <2>3, <3>2
      <4>3. published'[u] = next[u]
        BY <1>1, <2>1
      <4> QED
        BY <3>2, <4>1, <4>2, <4>3
    <3> QED
      BY <3>1, <3>2
  <2> QED
    BY <2>1, <2>2, <2>3 DEF SourcesInStep
<1>5. ASSUME NEW u \in Tables, Miss(u) PROVE SourcesInStep'
  <2>1. /\ missed' = [missed EXCEPT ![u] = @ + 1] /\ next' = [next EXCEPT ![u] = @ + Cycle[u]]
        /\ UNCHANGED <<now, published, newest>>
    BY <1>5 DEF Miss
  <2>2. ASSUME NEW t \in Tables
        PROVE  /\ now <= next'[t] + Lag[t]
               /\ missed'[t] = 0 => next'[t] = published[t] + Cycle[t]
               /\ published[t] <= next'[t]
    <3>1. CASE t = u
      <4>1. missed[t] \in Nat /\ missed'[t] = missed[t] + 1 /\ next'[t] = next[t] + Cycle[t]
        BY <1>1, <2>1, <3>1
      <4>2. missed'[t] # 0
        BY <4>1
      <4>3. next[t] \in Nat /\ published[t] \in Nat /\ Cycle[t] \in Nat /\ Lag[t] \in Nat
        BY <1>1
      <4> QED
        BY <1>1, <1>2, <4>1, <4>2, <4>3
    <3>2. CASE t # u
      BY <1>1, <1>2, <2>1, <3>2
    <3> QED
      BY <3>1, <3>2
  <2> QED
    BY <1>2, <2>1, <2>2 DEF SourcesInStep
<1>6. CASE Tick
  <2>1. now' = now + 1 /\ UNCHANGED <<next, published, missed, newest>> /\ \A t \in Tables : now < next[t] + Lag[t]
    BY <1>6 DEF Tick, sourceVars
  <2> QED
    BY <1>1, <1>2, <2>1 DEF SourcesInStep
<1>7. CASE \/ \E t \in Tables : IngestFails(t) \/ Break(t)
           \/ HeartbeatRuns \/ HeartbeatFails \/ Die \/ Restart \/ SinkFails \/ SinkReturns
  <2>1. UNCHANGED <<now, next, published, missed, newest>>
    BY <1>7 DEF IngestFails, Break, HeartbeatRuns, HeartbeatFails, Die, Restart,
                SinkFails, SinkReturns, sourceVars
  <2> QED
    BY <1>2, <2>1 DEF SourcesInStep
<1> QED
  BY <1>3, <1>4, <1>5, <1>6, <1>7 DEF Next

LEMMA PollsStep ==
  ASSUME MonitorInv, Next
  PROVE  PollsInStep' /\ BeatsInStep'
<1> USE Registries
<1>1. /\ now \in Nat /\ due \in [Jobs -> Nat] /\ published \in [Tables -> Times]
      /\ missed \in [Tables -> Nat] /\ newest \in [Tables -> Times \cup {None}]
      /\ finished \in [Jobs -> Times \cup {None}] /\ Times \subseteq Nat /\ None \notin Times
      /\ \A t \in Tables : next[t] \in Nat
  BY DEF MonitorInv, TypeOK, Times
<1>2. PollsInStep /\ BeatsInStep
  BY DEF MonitorInv
<1>3. ASSUME NEW u \in Tables, Ingest(u) PROVE PollsInStep' /\ BeatsInStep'
  <2>1. /\ newest' = [newest EXCEPT ![u] = published[u]] /\ finished' = [finished EXCEPT ![u] = now]
        /\ UNCHANGED <<missed, unpolled>> /\ Fires(u) /\ Rescheduled(u)
    BY <1>3 DEF Ingest, sourceVars
  <2>2. /\ due' \in [Jobs -> Nat] /\ due'[u] = now + Interval[u]
        /\ \A k \in Jobs : k # u => due'[k] = due[k]
    BY <2>1, FireTimes
  <2>3. missed[u] = 0 => now <= published[u] + Cycle[u] + Lag[u]
    BY <1>1 DEF MonitorInv, SourcesInStep
  <2>4. ASSUME NEW t \in Tables \ unpolled
        PROVE  /\ newest'[t] = None <=> finished'[t] = None
               /\ finished'[t] # None =>
                    /\ due'[t] = finished'[t] + Interval[t]
                    /\ missed[t] = 0 => finished'[t] <= newest'[t] + Cycle[t] + Lag[t]
    <3>1. CASE t = u
      BY <1>1, <2>1, <2>2, <2>3, <3>1
    <3>2. CASE t # u
      BY <1>1, <1>2, <2>1, <2>2, <3>2 DEF PollsInStep
    <3> QED
      BY <3>1, <3>2
  <2>5. BeatsInStep'
    BY <1>1, <1>2, <2>1, <2>2 DEF BeatsInStep, LastBeat
  <2> QED
    BY <2>1, <2>4, <2>5 DEF PollsInStep
<1>4. ASSUME NEW u \in Tables, IngestFails(u) PROVE PollsInStep' /\ BeatsInStep'
  <2>1. /\ unpolled' = unpolled \cup {u} /\ UNCHANGED <<missed, newest, finished>>
        /\ Fires(u) /\ Rescheduled(u)
    BY <1>4 DEF IngestFails, sourceVars
  <2>2. \A k \in Jobs : k # u => due'[k] = due[k]
    BY <2>1, FireTimes
  <2>3. PollsInStep'
    BY <1>1, <1>2, <2>1, <2>2 DEF PollsInStep
  <2> QED
    BY <1>2, <2>1, <2>2, <2>3 DEF BeatsInStep, LastBeat
<1>5. CASE HeartbeatRuns \/ HeartbeatFails
  <2>1. /\ finished' = finished \/ finished' = [finished EXCEPT ![Heartbeat] = now]
        /\ UNCHANGED <<missed, newest, unpolled>> /\ Fires(Heartbeat) /\ Rescheduled(Heartbeat)
    BY <1>5 DEF HeartbeatRuns, HeartbeatFails, sourceVars
  <2>2. /\ due[Heartbeat] = now /\ due'[Heartbeat] = now + Interval[Heartbeat]
        /\ \A k \in Jobs : k # Heartbeat => due'[k] = due[k]
    BY <2>1, FireTimes
  <2>3. \A t \in Tables : due'[t] = due[t] /\ finished'[t] = finished[t]
    BY <1>1, <2>1, <2>2
  <2>4. PollsInStep'
    BY <1>2, <2>1, <2>3 DEF PollsInStep
  <2>5. finished[Heartbeat] # None => finished[Heartbeat] <= due[Heartbeat] - Interval[Heartbeat]
    BY <1>2 DEF BeatsInStep, LastBeat
  <2>6. finished'[Heartbeat] = now \/ finished'[Heartbeat] = finished[Heartbeat]
    BY <1>1, <2>1
  <2>7. finished'[Heartbeat] # None => finished'[Heartbeat] <= due'[Heartbeat] - Interval[Heartbeat]
    <3>1. CASE finished'[Heartbeat] = now
      BY <1>1, <2>2, <3>1
    <3>2. CASE finished'[Heartbeat] = finished[Heartbeat] /\ finished[Heartbeat] # None
      <4>1. finished[Heartbeat] \in Nat
        BY <1>1, <3>2
      <4> QED
        BY <1>1, <2>2, <2>5, <3>2, <4>1
    <3> QED
      BY <2>6, <3>1, <3>2
  <2> QED
    BY <2>4, <2>7 DEF BeatsInStep, LastBeat
<1>6. CASE Restart
  <2>1. /\ UNCHANGED <<now, finished, missed, newest>>
        /\ unpolled' = unpolled \cup {t \in Tables : due[t] < now}
    BY <1>6 DEF Restart, sourceVars
  <2>2. \A j \in Jobs : due[j] <= due'[j] /\ (now <= due[j] => due'[j] = due[j]) /\ due'[j] \in Nat
    BY <1>6, RestartTimes
  <2>3. \A t \in Tables \ unpolled' : t \notin unpolled /\ due'[t] = due[t]
    BY <1>1, <2>1, <2>2
  <2>4. PollsInStep'
    BY <1>2, <2>1, <2>3 DEF PollsInStep
  <2>5. ASSUME finished[Heartbeat] # None PROVE finished[Heartbeat] <= due'[Heartbeat] - Interval[Heartbeat]
    <3>1. finished[Heartbeat] \in Nat /\ due[Heartbeat] \in Nat /\ due'[Heartbeat] \in Nat
      BY <1>1, <2>2, <2>5
    <3>2. finished[Heartbeat] <= due[Heartbeat] - Interval[Heartbeat] /\ due[Heartbeat] <= due'[Heartbeat]
      BY <1>2, <2>2, <2>5 DEF BeatsInStep, LastBeat
    <3> QED
      BY <3>1, <3>2
  <2> QED
    BY <2>1, <2>4, <2>5 DEF BeatsInStep, LastBeat
<1>7. ASSUME NEW u \in Tables, Miss(u) PROVE PollsInStep' /\ BeatsInStep'
  <2>1. missed' = [missed EXCEPT ![u] = @ + 1] /\ UNCHANGED <<due, finished, newest, unpolled>>
    BY <1>7 DEF Miss
  <2>2. \A t \in Tables : missed'[t] = 0 => missed[t] = 0
    BY <1>1, <2>1
  <2> QED
    BY <1>2, <2>1, <2>2 DEF PollsInStep, BeatsInStep, LastBeat
<1>8. CASE \/ \E t \in Tables : Publish(t) \/ Break(t)
           \/ Tick \/ Die \/ SinkFails \/ SinkReturns
  <2>1. UNCHANGED <<due, finished, missed, newest, unpolled>>
    BY <1>8 DEF Publish, Break, Tick, Die, SinkFails, SinkReturns, sourceVars
  <2> QED
    BY <1>2, <2>1 DEF PollsInStep, BeatsInStep, LastBeat
<1> QED
  BY <1>3, <1>4, <1>5, <1>6, <1>7, <1>8 DEF Next

(* While nothing the verdicts and the messages rest on changes, and the    *)
(* heartbeat is not hindered the less, what was delivered stays so.        *)
LEMMA DeliveredStays ==
  ASSUME MonitorInv, UNCHANGED <<due, finished, newest, sent>>,
         hindered' \in Nat, hindered' = hindered \/ hindered' >= LastBeat
  PROVE  Delivered'
<1>1. LastBeat' = LastBeat /\ LastBeat \in Int /\ hindered \in Nat
  BY Registries DEF LastBeat, MonitorInv, TypeOK, Times
<1>2. \A t \in Tables : JobFrom(t)' = JobFrom(t) /\ TableFrom(t)' = TableFrom(t)
  BY DEF JobFrom, TableFrom
<1>3. Delivered
  BY DEF MonitorInv
<1>4. CASE hindered' = hindered
  BY <1>1, <1>2, <1>3, <1>4 DEF Delivered
<1>5. CASE hindered' >= LastBeat /\ hindered' # hindered
  <2>1. ~(hindered' < LastBeat')
    BY <1>1, <1>5
  <2> QED
    BY <2>1 DEF Delivered
<1> QED
  BY <1>4, <1>5

LEMMA DeliveredStep ==
  ASSUME MonitorInv, Next, TypeOK'
  PROVE  Delivered'
<1> USE Registries
<1>1. /\ now \in Nat /\ now' \in Nat /\ due \in [Jobs -> Nat] /\ hindered \in Nat /\ hindered' \in Nat
      /\ published \in [Tables -> Times] /\ newest \in [Tables -> Times \cup {None}]
      /\ finished \in [Jobs -> Times \cup {None}] /\ Times \subseteq Nat /\ None \notin Times
  BY DEF MonitorInv, TypeOK, Times
<1>2. LastBeat \in Int /\ LastBeat <= now
  BY <1>1 DEF LastBeat, MonitorInv, OnSchedule
<1>3. ASSUME NEW u \in Tables, Ingest(u) PROVE Delivered'
  <2>1. /\ newest' = [newest EXCEPT ![u] = published[u]] /\ finished' = [finished EXCEPT ![u] = now]
        /\ UNCHANGED <<hindered, sent>> /\ Fires(u) /\ Rescheduled(u)
    BY <1>3 DEF Ingest, sourceVars
  <2>2. LastBeat' = LastBeat
    BY <2>1, FireTimes DEF LastBeat
  <2> SUFFICES ASSUME hindered < LastBeat, NEW t \in Tables
               PROVE  /\ JobFrom(t)' <= LastBeat => sent.at = LastBeat /\ t \in sent.jobs
                      /\ TableFrom(t)' <= LastBeat => sent.at = LastBeat /\ t \in sent.tables
    BY <2>1, <2>2 DEF Delivered
  <2>3. /\ JobFrom(t) <= LastBeat => sent.at = LastBeat /\ t \in sent.jobs
        /\ TableFrom(t) <= LastBeat => sent.at = LastBeat /\ t \in sent.tables
    BY DEF MonitorInv, Delivered
  <2>4. CASE t # u
    BY <1>1, <2>1, <2>3, <2>4 DEF JobFrom, TableFrom
  <2>5. CASE t = u
    <3>1. JobFrom(t)' = now + OverdueAfter[t] + 1
      BY <1>1, <2>1, <2>5 DEF JobFrom
    <3>2. ~(JobFrom(t)' <= LastBeat)
      BY <1>1, <1>2, <3>1
    <3>3. TableFrom(t)' = published[t] - Anchor[t] + MaxStaleness[t] + 1
      BY <1>1, <2>1, <2>5 DEF TableFrom
    <3>4. newest[t] # None => newest[t] <= published[t]
      BY DEF MonitorInv, SourcesInStep
    <3>5. TableFrom(t)' <= LastBeat => TableFrom(t) <= LastBeat
      <4>1. CASE newest[t] = None
        BY <1>1, <1>2, <4>1 DEF TableFrom
      <4>2. CASE newest[t] # None
        <5>1. newest[t] \in Nat /\ published[t] \in Nat
          BY <1>1, <4>2
        <5>2. TableFrom(t) = newest[t] - Anchor[t] + MaxStaleness[t] + 1
          BY <4>2 DEF TableFrom
        <5> QED
          BY <1>2, <3>3, <3>4, <4>2, <5>1, <5>2
      <4> QED
        BY <4>1, <4>2
    <3> QED
      BY <2>3, <3>2, <3>5
  <2> QED
    BY <2>4, <2>5
<1>4. ASSUME NEW u \in Tables, IngestFails(u) PROVE Delivered'
  <2>1. UNCHANGED <<hindered, finished, newest, sent>> /\ Fires(u) /\ Rescheduled(u)
    BY <1>4 DEF IngestFails
  <2>2. LastBeat' = LastBeat
    BY <2>1, FireTimes DEF LastBeat
  <2>3. \A t \in Tables : JobFrom(t)' = JobFrom(t) /\ TableFrom(t)' = TableFrom(t)
    BY <2>1 DEF JobFrom, TableFrom
  <2>4. Delivered
    BY DEF MonitorInv
  <2> QED
    BY <2>1, <2>2, <2>3, <2>4 DEF Delivered
<1>5. CASE HeartbeatRuns
  <2>1. /\ finished' = [finished EXCEPT ![Heartbeat] = now] /\ newest' = newest /\ Emit
        /\ hindered' = (IF sinkUp THEN hindered ELSE now) /\ Fires(Heartbeat) /\ Rescheduled(Heartbeat)
    BY <1>5 DEF HeartbeatRuns
  <2>2. LastBeat' = now
    BY <1>1, <2>1, FireTimes DEF LastBeat
  <2> SUFFICES ASSUME hindered' < now, NEW t \in Tables
               PROVE  /\ JobFrom(t)' <= now => sent'.at = now /\ t \in sent'.jobs
                      /\ TableFrom(t)' <= now => sent'.at = now /\ t \in sent'.tables
    BY <2>2 DEF Delivered
  <2>3. sinkUp
    BY <1>1, <2>1
  <2>4. JobFrom(t)' <= now => t \in OverdueJobs
    <3>1. finished'[t] = finished[t]
      BY <1>1, <2>1
    <3>2. CASE finished[t] = None
      BY <3>2 DEF OverdueJobs, WatchedJobs, Overdue, LastSuccess
    <3>3. CASE finished[t] # None
      <4>1. finished[t] \in Nat /\ JobFrom(t)' = finished[t] + OverdueAfter[t] + 1
        BY <1>1, <3>1, <3>3 DEF JobFrom
      <4> QED
        BY <1>1, <4>1 DEF OverdueJobs, WatchedJobs, Overdue, LastSuccess
    <3> QED
      BY <3>2, <3>3
  <2>5. TableFrom(t)' <= now => t \in StaleTables
    <3>1. CASE newest[t] = None
      BY <3>1 DEF StaleTables, CheckedTables, Stale
    <3>2. CASE newest[t] # None
      <4>1. newest[t] \in Nat /\ TableFrom(t)' = newest[t] - Anchor[t] + MaxStaleness[t] + 1
        BY <1>1, <2>1, <3>2 DEF TableFrom
      <4> QED
        BY <1>1, <4>1 DEF StaleTables, CheckedTables, Stale, Threshold, AsUtcDatetime
    <3> QED
      BY <3>1, <3>2
  <2>6. OverdueJobs # {} \/ StaleTables # {} =>
          sent'.at = now /\ sent'.jobs = OverdueJobs /\ sent'.tables = StaleTables
    BY <2>1, <2>3 DEF Emit, Problems
  <2> QED
    BY <2>4, <2>5, <2>6
<1>6. CASE HeartbeatFails
  <2>1. hindered' = now /\ Fires(Heartbeat) /\ Rescheduled(Heartbeat)
    BY <1>6 DEF HeartbeatFails
  <2>2. LastBeat' = now
    BY <1>1, <2>1, FireTimes DEF LastBeat
  <2> QED
    BY <1>1, <2>1, <2>2 DEF Delivered
<1>7. CASE Restart
  <2>1. hindered' = now
    BY <1>7 DEF Restart
  <2>2. due'[Heartbeat] \in Nat /\ due'[Heartbeat] <= now + Interval[Heartbeat]
    BY <1>7, RestartTimes
  <2>3. ~(hindered' < LastBeat')
    BY <1>1, <2>1, <2>2 DEF LastBeat
  <2> QED
    BY <2>3 DEF Delivered
<1>8. CASE Tick
  <2>1. now' = now + 1 /\ UNCHANGED <<due, finished, newest, sent>> /\ (hindered' = hindered \/ hindered' = now')
    BY <1>8 DEF Tick
  <2> QED
    BY <1>1, <1>2, <2>1, DeliveredStays
<1>9. CASE Die
  <2>1. UNCHANGED <<due, finished, newest, sent>> /\ hindered' = now
    BY <1>9 DEF Die
  <2> QED
    BY <1>1, <1>2, <2>1, DeliveredStays
<1>10. CASE SinkFails \/ SinkReturns \/ \E t \in Tables : Publish(t) \/ Miss(t) \/ Break(t)
  <2>1. UNCHANGED <<due, finished, newest, sent, hindered>>
    BY <1>10 DEF SinkFails, SinkReturns, Publish, Miss, Break
  <2> QED
    BY <1>1, <2>1, DeliveredStays
<1> QED
  BY <1>3, <1>4, <1>5, <1>6, <1>7, <1>8, <1>9, <1>10 DEF Next

THEOREM MonitorInvariant == Spec => []MonitorInv
<1>1. Init => MonitorInv
  <2> SUFFICES ASSUME Init PROVE MonitorInv
    OBVIOUS
  <2>1. /\ due \in [Jobs -> Nat] /\ next \in [Tables -> Nat] /\ \A j \in Jobs : due[j] < Interval[j]
        /\ \A t \in Tables : next[t] = Cycle[t] /\ published[t] = 0 /\ newest[t] = None /\ finished[t] = None
        /\ finished[Heartbeat] = None /\ now = 0 /\ alive /\ hindered = 0
    BY Registries DEF Init
  <2>2. TypeOK
    BY Registries DEF Init, TypeOK, Times
  <2>3. OnSchedule /\ SourcesInStep /\ PollsInStep /\ BeatsInStep
    BY <2>1, Registries DEF OnSchedule, SourcesInStep, PollsInStep, BeatsInStep
  <2>4. ~(hindered < LastBeat)
    BY <2>1, Registries DEF LastBeat
  <2> QED
    BY <2>1, <2>2, <2>3, <2>4 DEF MonitorInv, Delivered
<1>2. MonitorInv /\ [Next]_vars => MonitorInv'
  <2> SUFFICES ASSUME MonitorInv, [Next]_vars PROVE MonitorInv'
    OBVIOUS
  <2>1. CASE Next
    BY <2>1, TypesStep, ScheduleStep, SourcesStep, PollsStep, DeliveredStep DEF MonitorInv
  <2>2. CASE UNCHANGED vars
    <3>1. UNCHANGED <<now, alive, due, finished, active, next, published, missed, newest, broken,
                      sinkUp, sent, hindered, unpolled, faults>>
      BY <2>2 DEF vars, sourceVars
    <3>2. LastBeat' = LastBeat /\ \A t \in Tables : JobFrom(t)' = JobFrom(t) /\ TableFrom(t)' = TableFrom(t)
      BY <3>1 DEF LastBeat, JobFrom, TableFrom
    <3> QED
      BY <3>1, <3>2 DEF MonitorInv, TypeOK, Times, OnSchedule, SourcesInStep, PollsInStep, BeatsInStep, Delivered
  <2> QED
    BY <2>1, <2>2
<1> QED
  BY <1>1, <1>2, PTL DEF Spec

-----------------------------------------------------------------------------
(* What the run checks, of every instance.                                 *)

(* Whatever falls silent, a job or a source, is in a delivered message one *)
(* heartbeat after its threshold, whichever faults came before, as long as *)
(* scheduler and sink have worked for that one interval (check, _emit,     *)
(* check_freshness): no failed run, lost message or unreadable table hides *)
(* it for longer.                                                          *)
THEOREM SilenceReachesTheSink == Spec => []SilenceIsReported
<1>1. MonitorInv => SilenceIsReported
  <2> SUFFICES ASSUME MonitorInv PROVE SilenceIsReported
    OBVIOUS
  <2>1. /\ now \in Nat /\ hindered \in Nat /\ due[Heartbeat] \in Nat
        /\ Interval[Heartbeat] \in Nat /\ Interval[Heartbeat] > 0 /\ None \notin Int
    BY Registries DEF MonitorInv, TypeOK, Times
  <2>2. LastBeat \in Int /\ LastBeat + Interval[Heartbeat] = due[Heartbeat]
    BY <2>1 DEF LastBeat
  <2>3. ASSUME NEW m \in Nat, Elapsed(m)
        PROVE  m <= LastBeat /\ hindered < LastBeat /\ now <= LastBeat + Interval[Heartbeat]
    <3>1. now > m + Interval[Heartbeat] /\ now > hindered + Interval[Heartbeat]
      BY <2>3 DEF Elapsed
    <3>2. hindered # now
      BY <2>1, <3>1
    <3>3. now <= due[Heartbeat]
      BY <3>2, Registries DEF MonitorInv, OnSchedule
    <3> QED
      BY <2>1, <2>2, <3>1, <3>3
  <2>4. ASSUME NEW t \in Tables
        PROVE  JobFrom(t) \in Nat /\ TableFrom(t) \in Nat
    <3>1. finished[t] \in Nat \cup {None} /\ newest[t] \in Nat \cup {None}
      BY Registries DEF MonitorInv, TypeOK, Times
    <3> QED
      BY <3>1, Registries DEF JobFrom, TableFrom
  <2>5. ASSUME NEW t \in Tables, Elapsed(JobFrom(t))
        PROVE  Reported /\ t \in sent.jobs
    <3>1. JobFrom(t) <= LastBeat /\ hindered < LastBeat /\ now <= LastBeat + Interval[Heartbeat]
      BY <2>3, <2>4, <2>5
    <3>2. sent.at = LastBeat /\ t \in sent.jobs
      BY <3>1 DEF MonitorInv, Delivered
    <3> QED
      BY <2>1, <2>2, <3>1, <3>2 DEF Reported
  <2>6. ASSUME NEW t \in Tables, Elapsed(TableFrom(t))
        PROVE  Reported /\ t \in sent.tables
    <3>1. TableFrom(t) <= LastBeat /\ hindered < LastBeat /\ now <= LastBeat + Interval[Heartbeat]
      BY <2>3, <2>4, <2>6
    <3>2. sent.at = LastBeat /\ t \in sent.tables
      BY <3>1 DEF MonitorInv, Delivered
    <3> QED
      BY <2>1, <2>2, <3>1, <3>2 DEF Reported
  <2>7. SilentJobIsReported
    BY <2>5 DEF SilentJobIsReported, JobFrom
  <2>8. SilentSourceIsReported
    BY <2>6 DEF SilentSourceIsReported, TableFrom
  <2> QED
    BY <2>7, <2>8 DEF MonitorInv, SilenceIsReported
<1> QED
  BY <1>1, MonitorInvariant, PTL

(* A dead scheduler shows on the health endpoint once the heartbeat's own  *)
(* threshold has passed since it last was to run (get_health): nothing     *)
(* else that goes on working can keep the endpoint green.                  *)
THEOREM DeathShows == Spec => []DeathShowsOnHealth
<1>1. MonitorInv => DeathShowsOnHealth
  <2> SUFFICES ASSUME MonitorInv, now > LastBeat + OverdueAfter[Heartbeat]
               PROVE  Heartbeat \in OverdueJobs
    BY DEF DeathShowsOnHealth, Degraded, Problems, LastBeat
  <2>1. /\ now \in Nat /\ LastBeat \in Int /\ OverdueAfter[Heartbeat] \in Nat
        /\ finished[Heartbeat] \in Nat \cup {None} /\ None \notin Int
    BY Registries DEF MonitorInv, TypeOK, Times, LastBeat
  <2>2. finished[Heartbeat] # None => finished[Heartbeat] <= LastBeat
    BY DEF MonitorInv, BeatsInStep
  <2>3. Overdue(Heartbeat)
    BY <2>1, <2>2 DEF Overdue, LastSuccess
  <2> QED
    BY <2>3, Registries DEF OverdueJobs, WatchedJobs
<1> QED
  BY <1>1, MonitorInvariant, PTL

(* How far the thresholds of the two registries are wide enough, for every *)
(* instance that keeps them: where a source publishes each period within   *)
(* its lag and is polled at every fire time, its job is never reported,    *)
(* and its table at most for its anchoring before the next poll: never if  *)
(* its label has a time of day, up to a day if it is a date                *)
(* (Cadence.__post_init__, Freshness.derived_minimum, _as_utc_datetime).   *)
THEOREM NoFalseAlarm == Spec => []QuietWhenOnTime
<1>1. MonitorInv => QuietWhenOnTime
  <2> SUFFICES ASSUME MonitorInv, NEW t \in Tables, Polled(t), missed[t] = 0
               PROVE  ~Overdue(t) /\ (Stale(t) => due[t] < now + Anchor[t])
    BY DEF QuietWhenOnTime, OverdueJobs, StaleTables
  <2>1. alive /\ newest[t] # None /\ t \in Tables \ unpolled /\ t \notin broken
    BY DEF Polled
  <2>2. /\ finished[t] # None /\ due[t] = finished[t] + Interval[t]
        /\ finished[t] <= newest[t] + Cycle[t] + Lag[t]
    BY <2>1 DEF MonitorInv, PollsInStep
  <2>3. /\ now \in Nat /\ finished[t] \in Nat /\ newest[t] \in Nat
        /\ now <= due[t]
    BY <2>1, <2>2, Registries DEF MonitorInv, TypeOK, Times, OnSchedule
  <2>4. ~Overdue(t)
    BY <2>2, <2>3, Registries DEF Overdue, LastSuccess
  <2>5. ASSUME now - (newest[t] - Anchor[t]) > MaxStaleness[t] PROVE due[t] < now + Anchor[t]
    <3>1. /\ Interval[t] \in Nat /\ Cycle[t] \in Nat /\ Lag[t] \in Nat /\ MaxStaleness[t] \in Nat
          /\ Interval[t] <= Cycle[t] /\ MaxStaleness[t] >= Cycle[t] + Lag[t] + Cycle[t]
          /\ Anchor[t] \in Nat
      BY Registries
    <3>2. due[t] <= newest[t] + Cycle[t] + Lag[t] + Cycle[t]
      BY <2>2, <2>3, <3>1
    <3> QED
      BY <2>2, <2>3, <2>5, <3>1, <3>2
  <2> QED
    BY <2>1, <2>3, <2>4, <2>5 DEF Stale, Threshold, AsUtcDatetime
<1> QED
  BY <1>1, MonitorInvariant, PTL

-----------------------------------------------------------------------------
(* The registries that are deployed.                                       *)

Registry == INSTANCE Cadences
Watched == Registry!PollNames \cup {"heartbeat"}
Deployed == INSTANCE Monitor WITH
  Tables <- Registry!PollNames,
  Heartbeat <- "heartbeat",
  Interval <- [j \in Watched |-> Registry!ByName(j).interval],
  OverdueAfter <- [j \in Watched |-> Registry!ByName(j).overdue_after],
  Cycle <- [t \in Registry!PollNames |-> Registry!FreshnessOf(t).cycle],
  Lag <- [t \in Registry!PollNames |-> Registry!FreshnessOf(t).observed_lag],
  MaxStaleness <- [t \in Registry!PollNames |-> Registry!FreshnessOf(t).max_staleness],
  Anchor <- [t \in Registry!PollNames |-> Registry!Anchoring(Registry!FreshnessOf(t))]

(* No row of CADENCES makes __post_init__ raise, and no entry of FRESHNESS  *)
(* is tighter than its derivation.                                         *)
LEMMA EntriesAreSound ==
  /\ \A c \in Registry!CADENCES :
       c.interval \in Nat \ {0} /\ c.overdue_after \in Nat /\ c.overdue_after > c.interval
  /\ \A f \in Registry!FRESHNESS :
       /\ f.cycle \in Nat \ {0} /\ f.observed_lag \in Nat /\ f.max_staleness \in Nat
       /\ f.max_staleness >= f.cycle + f.observed_lag + f.cycle
       /\ Registry!Anchoring(f) \in Nat /\ Registry!Anchoring(f) <= f.cycle
<1> USE DEF Registry!Minutes, Registry!Hours, Registry!Days
<1>1. \A c \in Registry!CADENCES :
        c.interval \in Nat \ {0} /\ c.overdue_after \in Nat /\ c.overdue_after > c.interval
  BY DEF Registry!CADENCES, Registry!Cadence
<1>2. \A f \in Registry!FRESHNESS :
        /\ f.cycle \in Nat \ {0} /\ f.observed_lag \in Nat /\ f.max_staleness \in Nat
        /\ f.max_staleness >= f.cycle + f.observed_lag + f.cycle
        /\ Registry!Anchoring(f) \in Nat /\ Registry!Anchoring(f) <= f.cycle
  BY DEF Registry!FRESHNESS, Registry!Freshness, Registry!Anchoring
<1> QED
  BY <1>1, <1>2

(* Every table's job is in CADENCES, and polls at least once a cycle.      *)
LEMMA EntriesAgree ==
  /\ Watched \subseteq Registry!JobNames /\ "heartbeat" \notin Registry!PollNames
  /\ \A f \in Registry!FRESHNESS, c \in Registry!CADENCES :
       c.job_name = f.job_name => c.interval <= f.cycle
<1> USE DEF Registry!CADENCES, Registry!Cadence, Registry!FRESHNESS, Registry!Freshness
<1>1. Watched \subseteq Registry!JobNames /\ "heartbeat" \notin Registry!PollNames
  BY DEF Watched, Registry!JobNames, Registry!PollNames
<1>2. \A f \in Registry!FRESHNESS, c \in Registry!CADENCES :
        c.job_name = f.job_name => c.interval <= f.cycle
  BY DEF Registry!Minutes, Registry!Hours, Registry!Days
<1> QED
  BY <1>1, <1>2

LEMMA EntriesByName ==
  /\ \A j \in Registry!JobNames : /\ Registry!ByName(j) \in Registry!CADENCES
                                  /\ Registry!ByName(j).job_name = j
  /\ \A t \in Registry!PollNames : /\ Registry!FreshnessOf(t) \in Registry!FRESHNESS
                                   /\ Registry!FreshnessOf(t).job_name = t
BY DEF Registry!ByName, Registry!JobNames, Registry!FreshnessOf, Registry!PollNames

(* CADENCES and FRESHNESS as they are deployed satisfy everything the      *)
(* theorems above assume of the registries: the theorems hold of the       *)
(* deployed heartbeat and health endpoint.                                 *)
THEOREM DeployedRegistryQualifies ==
  Deployed!RegistryAssumption /\ Deployed!PollsEachCycle /\ Deployed!LabelledWithin
<1>1. None \notin Int /\ MaxTime \in Nat
  BY Registries
<1>2. Deployed!Jobs = Watched
  BY DEF Deployed!Jobs, Watched
<1>3. ASSUME NEW j \in Watched
      PROVE  /\ Registry!ByName(j).interval \in Nat \ {0}
             /\ Registry!ByName(j).overdue_after \in Nat
             /\ Registry!ByName(j).overdue_after > Registry!ByName(j).interval
  BY EntriesAreSound, EntriesAgree, EntriesByName
<1>4. ASSUME NEW t \in Registry!PollNames
      PROVE  LET f == Registry!FreshnessOf(t)
             IN  /\ f.cycle \in Nat \ {0} /\ f.observed_lag \in Nat /\ f.max_staleness \in Nat
                 /\ f.max_staleness >= f.cycle + f.observed_lag + f.cycle
                 /\ Registry!Anchoring(f) \in Nat /\ Registry!Anchoring(f) <= f.cycle
  BY EntriesAreSound, EntriesByName
<1>5. Deployed!RegistryAssumption
  BY <1>1, <1>2, <1>3, <1>4, EntriesAgree DEF Deployed!RegistryAssumption, Deployed!DerivedMinimum, Watched
<1>6. ASSUME NEW t \in Registry!PollNames
      PROVE  Registry!ByName(t).interval <= Registry!FreshnessOf(t).cycle
  <2>1. t \in Registry!JobNames
    BY EntriesAgree DEF Watched
  <2> QED
    BY <2>1, EntriesAgree, EntriesByName
<1>7. Deployed!PollsEachCycle
  BY <1>6 DEF Deployed!PollsEachCycle, Watched
<1>8. Deployed!LabelledWithin
  BY <1>4 DEF Deployed!LabelledWithin
<1> QED
  BY <1>5, <1>7, <1>8
=============================================================================
