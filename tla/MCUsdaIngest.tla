---------------------------- MODULE MCUsdaIngest ----------------------------
(* The rates job over two horizons, the movements job, and a backfill of one    *)
(* horizon.  The publisher starts with nothing, or with three weeks of which    *)
(* the second has a row for each of the two places: pages of two rows cut it.   *)
EXTENDS UsdaIngest, TLC

JobKeys == [rates |-> <<"nearby", "forward">>, movements |-> <<"lock">>, backfill |-> <<"nearby">>]
Refusals == [nearby |-> {0}, forward |-> {0}, lock |-> {}]
Past == (<<"p", 1>> :> 1) @@ (<<"p", 2>> :> Unpublished) @@ (<<"q", 2>> :> 1) @@ (<<"p", 3>> :> 1)
Pasts == [nearby |-> {Past}, forward |-> {<<"p", 1>> :> 1}, lock |-> {<<"p", 1>> :> 0}]
=============================================================================
