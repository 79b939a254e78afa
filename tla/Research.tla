------------------------------ MODULE Research ------------------------------
(* From the readings to an answer: readings and rates that arrive late and are *)
(* revised, the feature build over a trailing window (app/features/build.py),  *)
(* scheduled and by hand, the sweep that measures every pair of its grid       *)
(* (app/signals/sweep.py), the analog engine, which may be asked about any day *)
(* at any time (app/analogs/engine.py), and a request for the sweep's results  *)
(* (app/api/routes/signals.py).                                                *)
(*                                                                             *)
(* Builds, sweeps and the request are connections of their own: each statement *)
(* reads what is committed when it starts, and a build holds the rows it has   *)
(* written until it ends.                                                      *)
EXTENDS Analogs, Signals

CONSTANTS MaxDay,      \* bound: days
          Levels,      \* what a gauge reads
          Rates,       \* what a week's rate may be
          ChangeDays,  \* bound: days whose readings and rates move during the run
          WindowDays,  \* DEFAULT_WINDOW_DAYS
          Sweepers,    \* the processes that sweep
          Filters,     \* the features each --feature matches, all of them without one
          PageBounds,  \* the limit and the offset of a request
          Pasts        \* where the model starts; its effort bounds what happens then

Days == 1..MaxDay
Builders == {"job", "cli"}

ASSUME ResearchAssumption ==
  /\ MaxDay \in Nat \ {0} /\ WindowDays \in Nat /\ ChangeDays \subseteq Days
  /\ Filters \subseteq SUBSET FeatureNames
  /\ \A bound \in PageBounds : bound.limit \in Nat \ {0} /\ bound.offset \in Nat
  /\ Levels \subseteq Int /\ IsFiniteSet(Levels) /\ Rates \ {NULL} \subseteq Int
  /\ \A p \in Pasts :
       /\ p.today \in Days /\ p.effort \in Nat
       /\ DOMAIN p.iv \cup DOMAIN p.dv \cup DOMAIN p.rates \subseteq Days
       /\ \A d \in DOMAIN p.iv : p.iv[d] \in (SUBSET Levels) \ {{}}
       /\ \A d \in DOMAIN p.dv : p.dv[d] \in Levels
       /\ \A w \in DOMAIN p.rates : p.rates[w] = NULL \/ p.rates[w] \in Int

VARIABLES today,
          iv, dv,     \* day -> samples, day -> published daily mean
          rates,      \* day -> rate, or NULL
          daily, features, targets,  \* the tables of the build, as committed
          build,      \* builder -> what its transaction holds
          sweep,      \* sweeper -> what it holds
          runs,       \* signal_runs, each with its rows of signals
          page,       \* the request for a run's rows, and what it answers
          effort      \* bound: what may still happen

vars == <<today, iv, dv, rates, daily, features, targets, build, sweep, runs, page, effort>>
tables == <<daily, features, targets>>

NoBuild == [pc |-> "idle"]
NoSweep == [pc |-> "idle"]
NoPage == [pc |-> "idle"]

Init ==
  \E p \in Pasts :
    /\ today = p.today /\ iv = p.iv /\ dv = p.dv /\ rates = p.rates /\ effort = p.effort
    /\ daily = Observed(iv, dv) /\ features = FeatureRows(daily) /\ targets = TargetRows(rates)
    /\ build = [b \in Builders |-> NoBuild] /\ runs = << >> /\ page = NoPage
    /\ sweep = [s \in Sweepers |-> NoSweep]

Spend == effort > 0 /\ effort' = effort - 1
Set(s, d, v) == [e \in DOMAIN s \cup {d} |-> IF e = d THEN v ELSE s[e]]
Overlay(new, old) == [e \in DOMAIN new \cup DOMAIN old |-> IF e \in DOMAIN new THEN new[e] ELSE old[e]]

-----------------------------------------------------------------------------
(* What ingest commits *)

\* A reading of either record, of any day so far: new, late or revised.
Read ==
  /\ Spend
  /\ \E d \in ChangeDays \cap 1..today :
       \/ \E S \in (SUBSET Levels) \ {{}} : iv' = Set(iv, d, S) /\ iv' # iv /\ UNCHANGED dv
       \/ \E v \in Levels : dv' = Set(dv, d, v) /\ dv' # dv /\ UNCHANGED iv
  /\ UNCHANGED <<today, rates, daily, features, targets, build, sweep, runs, page>>

PublishRate ==
  /\ Spend
  /\ \E w \in ChangeDays \cap 1..today, r \in Rates : rates' = Set(rates, w, r) /\ rates' # rates
  /\ UNCHANGED <<today, iv, dv, daily, features, targets, build, sweep, runs, page>>

NextDay ==
  /\ today < MaxDay /\ today' = today + 1
  /\ UNCHANGED <<iv, dv, rates, daily, features, targets, build, sweep, runs, page, effort>>

-----------------------------------------------------------------------------
(* The build *)

Within(s, b) == Restrict(s, {d \in DOMAIN s : d >= build[b].start /\ d <= build[b].end})

\* window_for: the job's trailing window, or the start an operator states.  The
\* rollup's statement has begun: it sees the readings of now.
StartBuild(b) ==
  /\ build[b].pc = "idle" /\ Spend
  /\ \E start \in IF b = "job" THEN {today - WindowDays} ELSE {1, today} :
       build' = [build EXCEPT ![b] = [pc |-> "rolling", start |-> start, end |-> today,
                                      seen |-> Observed(iv, dv)]]
  /\ UNCHANGED <<today, iv, dv, rates, daily, features, targets, sweep, runs, page>>

\* The days of the rollup, and of the k-th feature, whose rows a build has
\* written and not committed: an upsert of one of them waits.
RolledDays(c) == IF build[c].pc \in {"writing", "built"} THEN DOMAIN build[c].daily ELSE {}
FeatureDays(c, k) ==
  IF \/ build[c].pc = "built"
     \/ build[c].pc = "writing" /\ k < Len(build[c].rows)
  THEN DOMAIN build[c].rows[k] ELSE {}

\* A baseline that moves with the window it is computed over.
HistoryOfTheWindow(b, own) == Within(Overlay(own, daily), b)

\* observations: the full record, the transaction's own rows among it.
History(b, own) == Overlay(own, daily)

\* build_features, of one feature: computed over everything, kept within the window.
Computed(b, own, k) == Within(FeatureRows(History(b, own))[Registry[k]], b)

\* Each of a build's steps below writes what the one before it has read, and
\* reads for the next.
\*
\* rollup: one upsert of the window; and the first history.
Roll(b) ==
  /\ build[b].pc = "rolling"
  /\ LET own == Within(build[b].seen, b)
     IN /\ \A c \in Builders \ {b} : RolledDays(c) \cap DOMAIN own = {}
        /\ build' = [build EXCEPT ![b] = [pc |-> "writing", start |-> @.start, end |-> @.end,
                       seen |-> @.seen, daily |-> own, rows |-> <<Computed(b, own, 1)>>,
                       crossed |-> FALSE]]
  /\ UNCHANGED <<today, iv, dv, rates, daily, features, targets, sweep, runs, page, effort>>

\* The rows of one feature; and the history of the next, or all the rates.
WriteFeature(b) ==
  /\ build[b].pc = "writing"
  /\ LET k == Len(build[b].rows)
         weeks == TargetRows(rates)
         kept == {x \in DOMAIN weeks : x[1] >= build[b].start /\ x[1] <= build[b].end}
     IN /\ \A c \in Builders \ {b} : FeatureDays(c, k) \cap DOMAIN build[b].rows[k] = {}
        /\ build' =
             IF k < Len(Registry)
             THEN [build EXCEPT ![b].rows = Append(@, Computed(b, build[b].daily, k + 1))]
             ELSE [build EXCEPT ![b] =
                    [pc |-> "built", start |-> @.start, end |-> @.end, seen |-> @.seen,
                     daily |-> @.daily, rows |-> @.rows, crossed |-> @.crossed,
                     targets |-> Restrict(weeks, kept)]]
  /\ UNCHANGED <<today, iv, dv, rates, daily, features, targets, sweep, runs, page, effort>>

\* The rows of the targets, and one commit for the three tables.  History: a
\* build that had rows of its own meanwhile is crossed by this one.
CommitBuild(b) ==
  /\ build[b].pc = "built"
  /\ daily' = Overlay(build[b].daily, daily)
  /\ features' = [f \in FeatureNames |->
                   LET k == CHOOSE i \in DOMAIN Registry : Registry[i] = f
                   IN Overlay(build[b].rows[k], features[f])]
  /\ targets' = Overlay(build[b].targets, targets)
  /\ build' = [c \in Builders |->
                CASE c = b -> NoBuild
                  [] c # b /\ build[c].pc \in {"writing", "built"} ->
                       [build[c] EXCEPT !.crossed = TRUE]
                  [] OTHER -> build[c]]
  /\ UNCHANGED <<today, iv, dv, rates, sweep, runs, page, effort>>

DieBuild(b) ==
  /\ build[b].pc # "idle" /\ Spend
  /\ build' = [build EXCEPT ![b] = NoBuild]
  /\ UNCHANGED <<today, iv, dv, rates, daily, features, targets, sweep, runs, page>>

-----------------------------------------------------------------------------
(* The sweep *)

\* open_run: the row of a run that has not ended, and has no results.
Opened(names) == [finished |-> FALSE, rows |-> << >>, grid |-> Pairs(names)]

\* run: the grid, measured on this database, of the features --feature matches,
\* and its row, committed before the scan.  An empty grid is refused.
OpenRun(s) ==
  /\ sweep[s].pc = "idle" /\ Spend
  /\ \E filter \in Filters :
       LET names == Scanned(daily) \cap filter
       IN /\ names # {}
          /\ sweep' = [sweep EXCEPT ![s] =
               [pc |-> "scanning", run |-> Len(runs) + 1, names |-> names,
                scanned |-> << >>, targets |-> NULL,
                columns |-> [f \in names |-> SeriesColumn(features[f])]]]
          /\ runs' = Append(runs, Opened(names))
  /\ UNCHANGED <<today, iv, dv, rates, daily, features, targets, build, page>>

Left(s) == {f \in sweep[s].names : \A x \in DOMAIN sweep[s].scanned : x[1] # f}
NextFeature(s) == Registry[Min({i \in DOMAIN Registry : Registry[i] \in Left(s)})]

\* feature_series: the whole of one feature, from the column its pairs state.
FeatureSeries(s, f) ==
  [d \in DOMAIN features[f] |->
    IF sweep[s].columns[f] = "anomaly" THEN features[f][d].anomaly ELSE features[f][d].value]

\* target_series: read once for a horizon, and here once for all, with the first feature.
TargetSeries(s) == IF sweep[s].targets = NULL THEN targets ELSE sweep[s].targets

\* scan: the blocks of one feature, read now.
Scan(s) ==
  /\ sweep[s].pc = "scanning" /\ Left(s) # {}
  /\ LET f == NextFeature(s)
         series == FeatureSeries(s, f)
         rows == [x \in Pairs({f}) |->
                   ScanOne(Aligned(series, TargetSeries(s), x[2], x[3], x[4]), x[2])]
     IN sweep' = [sweep EXCEPT ![s].targets = TargetSeries(s), ![s].scanned = Overlay(rows, @)]
  /\ UNCHANGED <<today, iv, dv, rates, daily, features, targets, build, runs, page, effort>>

Written(scanned) == AdjustAndGate(scanned)

\* write_rows and the close of the sweep's own run, in one commit.
CloseRun(s) ==
  /\ sweep[s].pc = "scanning" /\ Left(s) = {}
  /\ runs' = [runs EXCEPT ![sweep[s].run] = [@ EXCEPT !.finished = TRUE,
                                                     !.rows = Written(sweep[s].scanned)]]
  /\ sweep' = [sweep EXCEPT ![s] = NoSweep]
  /\ UNCHANGED <<today, iv, dv, rates, daily, features, targets, build, page, effort>>

\* A sweep that dies leaves the row of its run, and no other.
DieSweep(s) ==
  /\ sweep[s].pc = "scanning" /\ Spend
  /\ sweep' = [sweep EXCEPT ![s] = NoSweep]
  /\ UNCHANGED <<today, iv, dv, rates, daily, features, targets, build, runs, page>>

-----------------------------------------------------------------------------
(* The answer to a request for a run's rows *)

\* latest_run_id: the newest run, finished or not.
LatestRun == IF runs = << >> THEN NULL ELSE Len(runs)

Matching(rows, passing) == {x \in DOMAIN rows : passing => rows[x].passes}

\* The order of the rows of a run: q_value, those without one last, and then the
\* columns that tell the rows of a run apart, text by its alphabet.
Alphabet == <<"all", "days_below", "discharge_mean", "discharge_min", "onset", "recovery">>
Letter(name) == CHOOSE i \in DOMAIN Alphabet : Alphabet[i] = name
SortKey(rows, x) ==
  << IF rows[x].q = NULL THEN 1 ELSE 0, IF rows[x].q = NULL THEN 0 ELSE rows[x].q,
     Letter(x[1]), x[2], x[3], Letter(x[4]) >>
Before(rows, x, y) ==
  \E i \in 1..6 : /\ SortKey(rows, x)[i] < SortKey(rows, y)[i]
                  /\ \A j \in 1..(i - 1) : SortKey(rows, x)[j] = SortKey(rows, y)[j]

\* LIMIT and OFFSET.
PageOf(rows, passing, bound) ==
  LET place(x) == Cardinality({y \in Matching(rows, passing) : Before(rows, y, x)})
  IN {x \in Matching(rows, passing) :
       bound.offset <= place(x) /\ place(x) < bound.offset + bound.limit}

\* run_summary: the run, and how many rows it has and how many pass; a run
\* without rows has none of either.
RunSummary(i) ==
  IF i \notin DOMAIN runs THEN NULL
  ELSE [run |-> i, finished |-> runs[i].finished, grid |-> Cardinality(runs[i].grid),
        scanned |-> Cardinality(DOMAIN runs[i].rows),
        passing |-> Cardinality(Matching(runs[i].rows, TRUE))]

\* get_signals: a page of a run that is named, or of the newest.  Without any run
\* it is empty.
AskSignals ==
  /\ page.pc \in {"idle", "answered", "not_found"} /\ Spend
  /\ \E named \in {NULL, 1}, passing \in BOOLEAN, bound \in PageBounds :
       LET run == IF named = NULL THEN LatestRun ELSE named
       IN page' = IF run = NULL
                  THEN [pc |-> "answered", passing |-> passing, bound |-> bound,
                        summary |-> NULL, total |-> 0, rows |-> {}]
                  ELSE [pc |-> "resolved", passing |-> passing, bound |-> bound, run |-> run]
  /\ UNCHANGED <<today, iv, dv, rates, daily, features, targets, build, sweep, runs>>

\* _signals reads the summary, the count and the rows in three statements, and
\* a sweep may close its run between any two.
ReadSummary ==
  /\ page.pc = "resolved"
  /\ page' = IF RunSummary(page.run) = NULL THEN [pc |-> "not_found"]
             ELSE [pc |-> "summarised", passing |-> page.passing, bound |-> page.bound,
                   summary |-> RunSummary(page.run)]
  /\ UNCHANGED <<today, iv, dv, rates, daily, features, targets, build, sweep, runs, effort>>

CountRows ==
  /\ page.pc = "summarised"
  /\ page' = [pc |-> "counted", passing |-> page.passing, bound |-> page.bound,
              summary |-> page.summary,
              total |-> Cardinality(Matching(runs[page.summary.run].rows, page.passing))]
  /\ UNCHANGED <<today, iv, dv, rates, daily, features, targets, build, sweep, runs, effort>>

ReadRows ==
  /\ page.pc = "counted"
  /\ page' = [pc |-> "answered", passing |-> page.passing, bound |-> page.bound,
              summary |-> page.summary, total |-> page.total,
              rows |-> PageOf(runs[page.summary.run].rows, page.passing, page.bound)]
  /\ UNCHANGED <<today, iv, dv, rates, daily, features, targets, build, sweep, runs, effort>>

\* _strongest_signal: of the newest run with rows of the feature an event is
\* detected on, the least of the q-values there are.
StrongestSignal ==
  LET of(i) == {x \in DOMAIN runs[i].rows : x[1] = "days_below"}
      scanned == {i \in DOMAIN runs : of(i) # {}}
      newest == runs[Max(scanned)].rows
      qs == {newest[x].q : x \in of(Max(scanned))} \ {NULL}
  IN IF scanned = {} \/ qs = {} THEN NULL ELSE [run |-> Max(scanned), q |-> Min(qs)]

\* _sweep_verdict: what every conclusion says of the sweep.
SweepVerdict ==
  IF StrongestSignal = NULL THEN NULL
  ELSE [q |-> StrongestSignal.q, summary |-> RunSummary(StrongestSignal.run)]

Next == \/ Read \/ PublishRate \/ NextDay
        \/ \E b \in Builders :
             StartBuild(b) \/ Roll(b) \/ WriteFeature(b) \/ CommitBuild(b) \/ DieBuild(b)
        \/ \E s \in Sweepers : OpenRun(s) \/ Scan(s) \/ CloseRun(s) \/ DieSweep(s)
        \/ AskSignals \/ ReadSummary \/ CountRows \/ ReadRows

Spec == Init /\ [][Next]_vars

-----------------------------------------------------------------------------
TypeOK ==
  /\ today \in Days /\ effort \in Nat
  /\ DOMAIN iv \cup DOMAIN dv \cup DOMAIN rates \cup DOMAIN daily \subseteq Days
  /\ \A d \in DOMAIN daily : daily[d].min <= daily[d].mean
  /\ \A f \in FeatureNames : DOMAIN features[f] \subseteq DOMAIN daily
  /\ \A x \in DOMAIN targets : x[1] \in Days /\ x[2] \in Horizons
  /\ \A b \in Builders : build[b].pc \in {"idle", "rolling", "writing", "built"}
  /\ \A s \in Sweepers : sweep[s].pc \in {"idle", "scanning"}
  /\ page.pc \in {"idle", "resolved", "not_found", "summarised", "counted", "answered"}

\* A build leaves its window as one build: the rollup is that of the readings its
\* statement saw, whatever another build committed meanwhile, and every feature
\* is what the whole committed rollup gives, not what the window alone would;
\* unless a build with no row in common with it, which row locks do not keep out,
\* committed after this one had begun to read.
CommitMakesTheWindowCurrent ==
  [][\A b \in Builders :
       (build[b].pc = "built" /\ build'[b].pc = "idle" /\ effort' = effort) =>
         \A d \in Days : (build[b].start <= d /\ d <= build[b].end /\ d \in DOMAIN build[b].seen) =>
           /\ daily'[d] = build[b].seen[d]
           /\ \/ build[b].crossed
              \/ \A f \in FeatureNames : features'[f][d] = FeatureRows(daily')[f][d]]_vars

\* What is answered for each day so far.
Answers == {[day |-> t, is |-> Query(features, rates, t)] : t \in 1..today}

\* The answer for a day is from the rows of the days up to it: no feature dated
\* later, and no rate of a later week, changes it.
FromThePast(answer) ==
  LET t == answer.day
  IN answer.is = Query([f \in FeatureNames |-> Through(features[f], t)],
                       [w \in DOMAIN rates |-> IF w <= t THEN rates[w] ELSE NULL], t)

\* What passes the gate rests on enough distinct events, over before the event
\* that is asked about began, between any two of which, and before that event,
\* the river is on record as not below, where the rows are of one build; and the
\* median it reports moves the way of the events that agree.
PassedMeansEvidence(answer) ==
  LET a == answer.is
      t == answer.day
      events == DOMAIN a.outcomes
      runsOf == [d \in DOMAIN features.days_below |-> features.days_below[d].value]
  IN a.gate.result = "passed" =>
       /\ Cardinality({s \in events : a.outcomes[s] * a.summary.median > 0}) = a.gate.consistent
       /\ t \in DOMAIN runsOf /\ NULL \notin Range(a.outcomes)
       /\ Cardinality(events) >= MinAnalogs
       /\ \A s \in events : s + OutcomeWindow < a.own /\ a.own <= t
       /\ features = FeatureRows(daily) =>
            \A s \in events \cup {a.own} : \A e \in events :
              e < s => \E d \in e..s : d \in DOMAIN runsOf /\ runsOf[d] = 0

\* Together: an answer is of its day, and one that passes is supported.
AnswersAreEvidence ==
  TypeOK /\ \A answer \in Answers : FromThePast(answer) /\ PassedMeansEvidence(answer)

\* A run that is finished has a row for every pair of its grid, and its q-values
\* are adjusted over all of them: the rows under the threshold are those the
\* step-up procedure rejects.  A run that is not finished has none.
FinishedRunIsWhole ==
  \A i \in DOMAIN runs :
    LET rows == runs[i].rows
        tested == {x \in DOMAIN rows : rows[x].p # NULL}
        rank(x) == Cardinality({y \in tested : rows[y].p <= rows[x].p})
        rejected == {x \in tested : \E y \in tested :
                       /\ rows[x].p <= rows[y].p
                       /\ rows[y].p * Cardinality(tested) <= MaxQ * rank(y)}
    IN /\ ~runs[i].finished => rows = << >>
       /\ runs[i].finished =>
            /\ DOMAIN rows = runs[i].grid
            /\ \A x \in DOMAIN rows :
                 /\ (x \in tested /\ rows[x].q <= MaxQ) <=> x \in rejected
                 /\ rows[x].passes => x \in rejected /\ rows[x].tests = Cardinality(tested)

\* An answer is a page of a whole run, or empty, whatever the sweeps commit
\* meanwhile.  One that says its run is finished is exact: its total is that of
\* the whole grid, or of what passed of it, and its page is as full as the limit
\* and the total allow, so that the pages of a finished run miss no row.  Only one
\* that says it is not may show rows the summary does not know of, those of a run
\* closed since.
AnswersAreOfAWholeRun ==
  page.pc = "answered" /\ page.summary # NULL =>
    LET summary == page.summary
        rows == runs[summary.run].rows
        matching == Matching(rows, page.passing)
        room == page.bound.offset..(page.bound.offset + page.bound.limit - 1)
    IN /\ page.rows \in {{}, PageOf(rows, page.passing, page.bound)}
       /\ summary.finished =>
            /\ summary.scanned = summary.grid
            /\ page.total = IF page.passing THEN summary.passing ELSE summary.scanned
            /\ Cardinality(page.rows) = Cardinality(room \cap 0..(page.total - 1))
       /\ ~summary.finished => summary.scanned = 0
       /\ page.total \in {0, Cardinality(matching)}
       /\ page.rows # {} => runs[summary.run].finished

\* The verdict beside a conclusion is that of the newest run that has ended with
\* the feature in its grid, out of its whole grid, also while a newer sweep is
\* under way, after one has died, or after one of other features; if a row of the
\* feature passed, so does the q-value it names.
VerdictIsOfAnEndedRun ==
  SweepVerdict # NULL =>
    LET run == SweepVerdict.summary.run
        rows == runs[run].rows
    IN /\ runs[run].finished /\ SweepVerdict.summary.scanned = SweepVerdict.summary.grid
       /\ \A i \in DOMAIN runs :
            runs[i].finished /\ (\E x \in runs[i].grid : x[1] = "days_below") => i <= run
       /\ (\E x \in DOMAIN rows : x[1] = "days_below" /\ rows[x].passes)
            => SweepVerdict.q <= MaxQ

\* Together: whoever reads a run reads a whole one.
RunsAreWhole == FinishedRunIsWhole /\ AnswersAreOfAWholeRun /\ VerdictIsOfAnEndedRun

\* No fold trains on a target that reaches into its test days, whichever weeks
\* are published; the folds test consecutive days, each once, to the last.
FoldsDoNotLeak ==
  \A h \in Horizons :
    LET weeks == {x[1] : x \in {y \in Known(targets) : y[2] = h}}
        folds == Splits(weeks, h)
    IN folds # << >> =>
         /\ \A k \in DOMAIN folds : \A d \in folds[k].train, e \in folds[k].test : d + h < e
         /\ \A k \in DOMAIN folds : Cardinality(folds[k].train) >= MinTrain /\ folds[k].test # {}
         /\ \A d \in weeks : (\E k \in DOMAIN folds : d \in folds[k].test)
                             <=> d >= Min(folds[1].test)
         /\ \A k, l \in DOMAIN folds : k < l => Max(folds[k].test) < Min(folds[l].test)
=============================================================================
