------------------------------ MODULE Features ------------------------------
(* What the feature build computes from the readings and the rates, as pure    *)
(* operators: the daily rollup of the two records (app/features/rollup.py),    *)
(* the anomaly (seasonal.py), the days below a percentile of the record        *)
(* (thresholds.py), the forward returns (targets.py), the join that does not   *)
(* look ahead (build.py).                                                      *)
(*                                                                             *)
(* Days are numbers; a series is a function from the days it has to values.    *)
(* There is one site and one percentile.  A rate stands for its logarithm, so  *)
(* that a return is a difference.                                              *)
EXTENDS Integers, FiniteSets, FiniteSetsExt, Functions

CONSTANTS NULL,      \* no value
          Percent,   \* the percentile of the threshold feature
          Year,      \* days in a year
          MinYears,  \* years behind an anomaly
          Horizons   \* days ahead a target looks

ASSUME FeaturesAssumption ==
  /\ Percent \in 0..100 /\ Year \in Nat \ {0} /\ MinYears \in Nat \ {0}
  /\ Horizons \subseteq Nat \ {0} /\ IsFiniteSet(Horizons) /\ NULL \notin Int

Known(s) == {d \in DOMAIN s : s[d] # NULL}
Through(s, t) == Restrict(s, {d \in DOMAIN s : d <= t})

\* The view gauge_series: one row for a day, the mean of its instantaneous
\* samples before the published daily mean.
GaugeSeries(iv, dv) ==
  [d \in DOMAIN iv \cup DOMAIN dv |->
    IF d \in DOMAIN iv THEN [mean |-> SumSet(iv[d]) \div Cardinality(iv[d]), source |-> "iv"]
                      ELSE [mean |-> dv[d], source |-> "dv"]]

\* The rollup: the value and source of the view, the spread of the samples, which
\* for a day without samples is the value.
Observed(iv, dv) ==
  LET series == GaugeSeries(iv, dv)
      samples(d) == IF d \in DOMAIN iv THEN iv[d] ELSE {series[d].mean}
  IN [d \in DOMAIN series |->
       [mean |-> series[d].mean, min |-> Min(samples(d)), source |-> series[d].source,
        n |-> Cardinality(samples(d))]]

Column(daily, c) == [d \in DOMAIN daily |-> daily[d][c]]

\* The k-th smallest of the values of a series.
OrderStatistic(s, k) ==
  CHOOSE v \in Range(s) : /\ Cardinality({d \in DOMAIN s : s[d] < v}) < k
                          /\ k <= Cardinality({d \in DOMAIN s : s[d] <= v})

\* percentile, times a hundred: interpolated between two order statistics.
HundredPercentile(s, level) ==
  LET position == (Cardinality(DOMAIN s) - 1) * level
      lower == position \div 100
      weight == position % 100
  IN OrderStatistic(s, lower + 1) * (100 - weight)
     + (IF weight = 0 THEN 0 ELSE OrderStatistic(s, lower + 2) * weight)

\* thresholds_for and days_below: strictly below a percentile of the whole
\* record.  Across a gap the run is unknown until a day that is not below.
DaysBelow(s) ==
  LET threshold == HundredPercentile(s, Percent)
      run[d \in DOMAIN s] ==
        IF 100 * s[d] >= threshold THEN 0
        ELSE IF {e \in DOMAIN s : e < d} = {} THEN 1
        ELSE IF d - 1 \in DOMAIN s /\ run[d - 1] # NULL THEN run[d - 1] + 1 ELSE NULL
  IN run

DayOfYear(d) == d % Year

\* climatology and build_anomalies, in halves of the unit: the value less the
\* median of its day over the years, unless too few years stand behind it.
\* (Left out: the window of neighbouring days, whose medians are averaged and
\* whose years are counted, and the folding of a leap day.)
Anomalies(s) ==
  LET same(d) == Restrict(s, {e \in DOMAIN s : DayOfYear(e) = DayOfYear(d)})
  IN [d \in DOMAIN s |->
       LET years == Cardinality(DOMAIN same(d))
       IN IF years < MinYears THEN NULL
          ELSE 2 * s[d] - OrderStatistic(same(d), (years + 1) \div 2)
                        - OrderStatistic(same(d), years \div 2 + 1)]

\* The registry: what each feature reads and what computes it.
FeatureNames == {"discharge_mean", "discharge_min", "days_below"}

FeatureRows(daily) ==
  LET mean == Column(daily, "mean")
      min == Column(daily, "min")
      row(s, anomaly) == [d \in DOMAIN s |-> [value |-> s[d], anomaly |-> anomaly[d]]]
      none == [d \in DOMAIN daily |-> NULL]
  IN IF daily = << >> THEN [f \in FeatureNames |-> << >>]
     ELSE [discharge_mean |-> row(mean, Anomalies(mean)),
           discharge_min |-> row(min, Anomalies(min)),
           days_below |-> row(DaysBelow(min), none)]

\* forward_log_return: none where an endpoint is not published.
Return(from, to) == IF NULL \in {from, to} THEN NULL ELSE to - from

\* forward_log_returns: the forward week is looked up by its date.
TargetRows(rates) ==
  [x \in (DOMAIN rates) \X Horizons |->
    IF x[1] + x[2] \in DOMAIN rates THEN Return(rates[x[1]], rates[x[1] + x[2]]) ELSE NULL]

Nearest(S, day) == CHOOSE d \in S : \A e \in S : (d - day) * (d - day) <= (e - day) * (e - day)
NearestOrNone(S, day) == IF S = {} THEN NULL ELSE Nearest(S, day)

\* last_on_or_before, align_lagged, rate_at: never the nearest.
LastOnOrBefore(S, day) ==
  IF {d \in S : d <= day} = {} THEN NULL ELSE Max({d \in S : d <= day})
=============================================================================
