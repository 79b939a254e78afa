----------------------------- MODULE MCResearch -----------------------------
(* Instances of Research: many pasts in which nothing more is published, so     *)
(* that the rules that are pure meet each shape of a short record; and one in   *)
(* which builds, sweeps and what is published meanwhile take their steps.       *)
EXTENDS Research, TLC

MCMaxDay == 8
MCLevels == {2, 4}
MCRates == {NULL, 0, 1}
MCHorizons == {1}
MCChangeDays == {2, 7}
MCLags == {0, 1}
Symmetry == Permutations(Sweepers)
MCFilters == {FeatureNames, {"discharge_mean", "discharge_min"}}
MCPageBounds == {[limit |-> 5, offset |-> o] : o \in {0, 5}}
MCRegimes == {"all", "onset"}

\* Every record of lows and highs, whole or with a gap; a rate for every week,
\* or a week without one among weeks that are missing.
Records == {[d \in Days \ gap |-> s[d]] : s \in [Days -> MCLevels], gap \in {{}, {4, 5}}}
Prices == {[w \in Days |-> w % 3], [w \in Days \ 3..6 |-> IF w = 1 THEN NULL ELSE w]}
Quiet == {[today |-> MCMaxDay, iv |-> << >>, dv |-> r, rates |-> p, effort |-> 0] :
           r \in Records, p \in Prices}

\* A record whose anomalies are the returns of the rates, and that is a day behind.
Busy(steps) ==
  [today |-> 7, iv |-> << >>, dv |-> <<4, 2, 4, 2, 4, 2>>,
   rates |-> <<0, 0, -2, 0, -4, -2, -4>>, effort |-> steps]

MCPasts == Quiet \cup {Busy(3)}
=============================================================================
