------------------------------- MODULE Analogs ------------------------------
(* The analog engine (app/analogs): from the run lengths stored for a site,    *)
(* the events the river has had up to a date; those that may be compared with  *)
(* the event of that date; what the rate did after each; and the gate.         *)
EXTENDS Features

CONSTANTS EntryRunLength,  \* days below the threshold that make a detection
          Separation,      \* days without a detection between two events
          OutcomeWindow,   \* days after an event over which the rate is measured
          Neighbours,      \* how many of the nearest events are taken
          Lookback,        \* days back to which the condition of a day is compared
          MinAnalogs, MinConsistency  \* the gate; the second in percent

ASSUME AnalogsAssumption ==
  /\ EntryRunLength \in Nat \ {0} /\ Separation \in Nat \ {0} /\ OutcomeWindow \in Nat \ {0}
  /\ Neighbours \in Nat \ {0} /\ Lookback \in Nat \ {0} /\ MinAnalogs \in Nat \ {0} /\ MinConsistency \in 51..100

-----------------------------------------------------------------------------
(* Events *)

\* is_entry on each prefix: a day is a detection by its own value.
Detections(runs) == {d \in Known(runs) : runs[d] >= EntryRunLength}

\* collapse: a detection opens an event unless the one before it is near.
Starts(days) == {d \in days : ~\E e \in days : e < d /\ d - e <= Separation}

\* is_entry on the last row there is: the river is in the condition.
InCondition(runs) ==
  /\ DOMAIN runs # {}
  /\ Max(DOMAIN runs) \in Detections(runs)

\* eligible_events: the outcome is over, and was before the query's event began.
Eligible(starts, own, t) ==
  {s \in starts : s + OutcomeWindow <= t /\ s + OutcomeWindow < own}

-----------------------------------------------------------------------------
(* Similarity: one dimension per feature, each counting alike. *)

\* _series_for: a feature is compared by its anomaly where any of its rows has one.
Compared(rows) ==
  IF \E d \in DOMAIN rows : rows[d].anomaly # NULL
  THEN [d \in DOMAIN rows |-> rows[d].anomaly] ELSE [d \in DOMAIN rows |-> rows[d].value]

\* _vectors and is_comparable: the days on which no feature is missing.
Vectors(features) ==
  LET s == [f \in FeatureNames |-> Compared(features[f])]
      days == {d \in UNION {DOMAIN s[f] : f \in FeatureNames} :
                 \A f \in FeatureNames : d \in Known(s[f])}
  IN [d \in days |-> [f \in FeatureNames |-> s[f][d]]]

\* scale_from: how far each dimension spreads over the population, as a variance
\* times the square of its size.
Squares(s) == MapThenSumSet(LAMBDA d : s[d] * s[d], DOMAIN s)
Variance(s) ==
  LET total == MapThenSumSet(LAMBDA d : s[d], DOMAIN s)
  IN Cardinality(DOMAIN s) * Squares(s) - total * total

Spread(vectors) ==
  [f \in FeatureNames |-> Variance([d \in DOMAIN vectors |-> vectors[d][f]])]

\* z_score: a difference counts in units of its dimension's spread, and one that
\* does not vary counts for nothing.  Over the common denominator of the
\* dimensions that vary, so that distances compare as they are.
Weight(spread, f) ==
  MapThenFoldSet(LAMBDA x, y : x * y, 1, LAMBDA g : spread[g], LAMBDA T : CHOOSE g \in T : TRUE,
                 {g \in FeatureNames \ {f} : spread[g] # 0})

\* distance, squared.
Distance(v, w, spread) ==
  MapThenSumSet(LAMBDA f : (v[f] - w[f]) * (v[f] - w[f]) * Weight(spread, f),
                {f \in FeatureNames : spread[f] # 0})

\* k_nearest: every candidate with its distance; ties go to the earlier event.
KNearest(vectors, events, t) ==
  LET scored == {[key |-> e, distance |-> Distance(vectors[e], vectors[t], spread)] :
                   e \in events, spread \in {Spread(vectors)}}
      before(m, n) == \/ m.distance < n.distance
                      \/ m.distance = n.distance /\ m.key < n.key
      nearest == {n \in scored : Cardinality({m \in scored : before(m, n)}) < Neighbours}
  IN {n.key : n \in nearest}

-----------------------------------------------------------------------------
(* Outcomes and the gate *)

RateAtNearest(rates, day) == NearestOrNone(DOMAIN rates, day)

\* rate_at: the week, not its rate; the last of those on or before the day.
RateAt(rates, day) == LastOnOrBefore(DOMAIN rates, day)

\* measure: NULL where the series does not reach the end of the window, or where
\* the week found at either end has no rate.
Measure(rates, s) ==
  LET end == s + OutcomeWindow
  IN IF {w \in DOMAIN rates : w >= end} = {} \/ RateAt(rates, s) = NULL THEN NULL
     ELSE Return(rates[RateAt(rates, s)], rates[RateAt(rates, end)])

Verdict(result, n, consistent) == [result |-> result, n |-> n, consistent |-> consistent]

\* evaluate: an outcome that is missing refuses before anything is counted.
Evaluate(outcomes) ==
  LET n == Cardinality(DOMAIN outcomes)
      up == Cardinality({s \in Known(outcomes) : outcomes[s] > 0})
      down == Cardinality({s \in Known(outcomes) : outcomes[s] < 0})
      consistent == Max({up, down})
  IN CASE n = 0 -> Verdict("insufficient_analogs", 0, 0)
       [] n > 0 /\ Known(outcomes) # DOMAIN outcomes ->
            Verdict("incomplete_outcomes", Cardinality(Known(outcomes)), 0)
       [] n > 0 /\ Known(outcomes) = DOMAIN outcomes ->
            Verdict(IF n < MinAnalogs THEN "insufficient_analogs"
                    ELSE IF 100 * consistent < MinConsistency * n THEN "inconsistent_direction"
                    ELSE "passed", n, consistent)

\* summarize, of outcomes none of which is missing; the median in halves.
Summary(outcomes) ==
  LET n == Cardinality(DOMAIN outcomes)
  IN [n |-> n, low |-> Min(Range(outcomes)), high |-> Max(Range(outcomes)),
      median |-> OrderStatistic(outcomes, (n + 1) \div 2) + OrderStatistic(outcomes, n \div 2 + 1)]

\* _condition: the change since the day before, where both days are on record.
Condition(rows, t) ==
  LET value(d) == IF d \in DOMAIN rows THEN rows[d].value ELSE NULL
  IN [change |-> Return(value(t - Lookback), value(t)),
      anomaly |-> IF t \in DOMAIN rows THEN rows[t].anomaly ELSE NULL]

\* query: what is asked of the rows stored up to the day t, and of the rates.
Query(features, rates, t) ==
  LET seen == [f \in FeatureNames |-> Through(features[f], t)]
      runs == [d \in DOMAIN seen.days_below |-> seen.days_below[d].value]
      starts == Starts(Detections(runs))
      own == IF InCondition(runs) THEN Max(starts) ELSE NULL
      vectors == Vectors(seen)
      candidates == Eligible(starts, own, t) \cap DOMAIN vectors
      chosen == IF own # NULL /\ t \in DOMAIN vectors
                THEN KNearest(vectors, candidates, t) ELSE {}
      outcomes == [s \in chosen |-> Measure(rates, s)]
      gate == IF own = NULL THEN Verdict("no_current_event", 0, 0) ELSE Evaluate(outcomes)
  IN [condition |-> Condition(features.discharge_mean, t), own |-> own,
      raw |-> Cardinality(Detections(runs)), collapsed |-> Cardinality(starts),
      outcomes |-> outcomes, gate |-> gate,
      summary |-> IF gate.result = "passed" THEN Summary(outcomes) ELSE NULL]
=============================================================================
