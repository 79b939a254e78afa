---------------------------- MODULE MCGaugeIngest ----------------------------
(***************************************************************************)
(* Instances of GaugeIngest for TLC: one site and one parameter,           *)
(* windows of two days, an overlap of one, a gap that straddles windows.   *)
(***************************************************************************)
EXTENDS GaugeIngest

CONSTANTS s1, q1

OneSite == <<s1>>
Sentinel == -1

(* A day of which the first of the record lies behind, stored or not.      *)
Starts == {1}

OneGap == {[site |-> s1, first |-> 1, last |-> 2]}
=============================================================================
