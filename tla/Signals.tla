------------------------------- MODULE Signals ------------------------------
(* One sweep (app/signals), as pure operators: the grid of pairs (pairs.py),   *)
(* the regimes of a feature (regimes.py), the aligned rows of a pair and its   *)
(* measurement, the walk-forward folds (walkforward.py), the adjustment over   *)
(* every test of the run (statistics.py) and the gate (sweep.py).              *)
(*                                                                             *)
(* A p-value is in percent, and any decreasing function of the square of the   *)
(* correlation would do for it.                                                *)
EXTENDS Features, Sequences

CONSTANTS Lags, Regimes,
          Period,        \* days between two targets
          MinEffective,  \* effective observations a p-value needs more than
          NFolds, MinTrain,
          MaxQ, MinFoldConsistency  \* the gate, in percent

ASSUME SignalsAssumption ==
  /\ Lags \subseteq Int /\ IsFiniteSet(Lags) /\ Regimes \subseteq {"all", "onset", "recovery"}
  /\ Period \in Nat \ {0} /\ MinEffective \in Nat /\ NFolds \in Nat \ {0}
  /\ MinTrain \in Nat \ {0} /\ MaxQ \in 0..100 /\ MinFoldConsistency \in 0..100

-----------------------------------------------------------------------------
(* The grid *)

\* skips_for_site: where every day has one observation the minimum is the mean,
\* and is scanned once, under the mean's name.
Degenerate(daily) == daily # << >> /\ \A d \in DOMAIN daily : daily[d].n = 1
Scanned(daily) == FeatureNames \ (IF Degenerate(daily) THEN {"discharge_min"} ELSE {})

\* The order in which the registry lists them.
Registry == << "discharge_mean", "discharge_min", "days_below" >>

\* series_columns_by_pair.
SeriesColumn(rows) ==
  IF \E d \in DOMAIN rows : rows[d].anomaly # NULL THEN "anomaly" ELSE "value"

Pairs(names) == names \X Horizons \X Lags \X Regimes

-----------------------------------------------------------------------------
(* Rows of a pair *)

\* classify: a direction is read between neighbouring days that both have a value.
RegimeDays(s, regime) ==
  {d \in Known(s) :
     \/ regime = "all"
     \/ /\ d - 1 \in Known(s)
        /\ IF regime = "onset" THEN s[d] > s[d - 1] ELSE s[d] < s[d - 1]}

\* scan and scan_one: each published target with the last feature on or before
\* its day less the lag, where that feature is of the regime.
Aligned(s, targets, horizon, lag, regime) ==
  LET weeks == {x[1] : x \in {y \in Known(targets) : y[2] = horizon}}
      matched(w) == LastOnOrBefore(Known(s), w - lag)
  IN [w \in {v \in weeks : matched(v) \in RegimeDays(s, regime)} |->
        [x |-> s[matched(w)], y |-> targets[<<w, horizon>>]]]

Total(rows, f) == MapThenSumSet(LAMBDA w : rows[w][f], DOMAIN rows)
Scatter(rows, f, g) ==
  Cardinality(DOMAIN rows) * MapThenSumSet(LAMBDA w : rows[w][f] * rows[w][g], DOMAIN rows)
    - Total(rows, f) * Total(rows, g)

\* pearson is undefined on a constant series; its sign is that of the covariance.
Varies(rows) == Scatter(rows, "x", "x") > 0 /\ Scatter(rows, "y", "y") > 0
Sign(n) == IF n > 0 THEN 1 ELSE IF n < 0 THEN -1 ELSE 0
Direction(rows) == IF Varies(rows) THEN Sign(Scatter(rows, "x", "y")) ELSE NULL

\* overlap_factor and effective_n: a horizon longer than the period overlaps.
Measurable(rows, horizon) ==
  /\ Varies(rows)
  /\ Cardinality(DOMAIN rows) * Period > MinEffective * Max({horizon, Period})

PValue(rows) ==
  100 - (100 * Scatter(rows, "x", "y") * Scatter(rows, "x", "y"))
        \div (Scatter(rows, "x", "x") * Scatter(rows, "y", "y"))

-----------------------------------------------------------------------------
(* Folds *)

\* Training up to the test, whatever its targets reach.
TrainUngapped(days, start, horizon) == {d \in days : d < start}

\* The gap is the horizon: a target of the day before the gap ends before the test.
Train(days, start, horizon) == {d \in days : d < start - horizon}

\* splits: blocks of equal size, the last with what remains, from the first day
\* whose training window, shortened by the horizon, is large enough.
Splits(days, horizon) ==
  LET enough == {d \in days : Cardinality(Train(days, d, horizon)) >= MinTrain}
      testable == {d \in days : enough # {} /\ d >= Min(enough)}
      block == Cardinality(testable) \div NFolds
      place(d) == Cardinality({e \in testable : e < d})
      test(k) == {d \in testable : /\ place(d) >= (k - 1) * block
                                   /\ k = NFolds \/ place(d) < k * block}
  IN IF block = 0 THEN << >>
     ELSE [k \in 1..NFolds |->
            [test |-> test(k), train |-> Train(days, Min(test(k)), horizon)]]

\* directional_consistency: of the folds that have a direction, those that share
\* the whole sample's; a fold without slope counts against.
Consistency(rows, folds) ==
  LET directions == [k \in DOMAIN folds |-> Direction(Restrict(rows, folds[k].test))]
      matching == {k \in Known(directions) : directions[k] = Direction(rows)}
  IN IF Known(directions) = {} \/ Direction(rows) = 0 THEN NULL
     ELSE [matching |-> Cardinality(matching), folds |-> Cardinality(Known(directions))]

\* scan_one.
ScanOne(rows, horizon) ==
  LET folds == Splits(DOMAIN rows, horizon)
  IN CASE ~Measurable(rows, horizon) ->
            [status |-> "insufficient_observations", p |-> NULL, consistency |-> NULL]
       [] Measurable(rows, horizon) /\ folds = << >> ->
            [status |-> "insufficient_folds", p |-> PValue(rows), consistency |-> NULL]
       [] OTHER ->
            [status |-> "scanned", p |-> PValue(rows), consistency |-> Consistency(rows, folds)]

-----------------------------------------------------------------------------
(* The adjustment *)

Tested(scanned) == {x \in DOMAIN scanned : scanned[x].p # NULL}

\* Each p-value times the tests over its rank, without the running minimum.
QUnswept(scanned, x) ==
  LET rank == Cardinality({y \in Tested(scanned) : scanned[y].p <= scanned[x].p})
  IN (scanned[x].p * Cardinality(Tested(scanned))) \div rank

\* benjamini_hochberg: p-values are equal where ranks are tied, so that the
\* running minimum from above is over the p-values no smaller.  The quotient is
\* rounded up: it is compared with a whole number of percent.
Q(scanned, x) ==
  LET m == Cardinality(Tested(scanned))
      rank(y) == Cardinality({z \in Tested(scanned) : scanned[z].p <= scanned[y].p})
      candidates == {-((-(scanned[y].p * m)) \div rank(y)) :
                      y \in {z \in Tested(scanned) : scanned[z].p >= scanned[x].p}}
  IN Min(candidates \cup {100})

\* passes_gate.
Passes(q, consistency) ==
  /\ q # NULL /\ consistency # NULL
  /\ q <= MaxQ
  /\ consistency.folds >= NFolds
  /\ 100 * consistency.matching >= MinFoldConsistency * consistency.folds

\* adjust_and_gate: one row out for each in; the adjustment is over all of them.
AdjustAndGate(scanned) ==
  [x \in DOMAIN scanned |->
    LET q == IF scanned[x].p = NULL THEN NULL ELSE Q(scanned, x)
    IN [status |-> scanned[x].status, p |-> scanned[x].p, q |-> q,
        consistency |-> scanned[x].consistency, tests |-> Cardinality(Tested(scanned)),
        passes |-> Passes(q, scanned[x].consistency)]]
=============================================================================
