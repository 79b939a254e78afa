----------------------------- MODULE MCMonitor -----------------------------
(* Two tables of weekly rates, on a scale of two ticks to the week, each polled *)
(* once a cycle: the thresholds are the smallest the registry's derivation      *)
(* allows.                                                                      *)
EXTENDS Monitor, TLC

Registry == INSTANCE Cadences
Weekly == Registry!ByName("usda_rates_ingest")
Rates == Registry!FreshnessOf("usda_rates_ingest")

\* In ticks of half a week, a part of a tick counted as one.
Ticks(seconds) == (seconds + 302399) \div 302400

\* The heartbeat's own times do not fit the scale: an interval of one tick, three to be overdue.
MCInterval == [j \in Jobs |-> IF j = Heartbeat THEN 1 ELSE Ticks(Weekly.interval)]
MCOverdue  == [j \in Jobs |-> IF j = Heartbeat THEN 3 ELSE Ticks(Weekly.overdue_after)]
MCCycle    == [t \in Tables |-> Ticks(Rates.cycle)]
MCLag      == [t \in Tables |-> Ticks(Rates.observed_lag)]
MCStale    == [t \in Tables |-> Ticks(Rates.max_staleness)]
MCAnchor   == [t \in Tables |-> Ticks(Registry!Anchoring(Rates))]
Symmetry   == Permutations(Tables)
=============================================================================
