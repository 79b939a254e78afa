----------------------------- MODULE MCApiCache -----------------------------
(***************************************************************************)
(* Instances of ApiCache for TLC: questions about two sites on one date.   *)
(***************************************************************************)
EXTENDS ApiCache, TLC

Site(s) == [name |-> "site_id", value |-> s]
AsOf == [name |-> "as_of", value |-> "2022-10-11"]

(* One question in two orders, and another.                                *)
MCPlain == {<<Site("Memphis"), AsOf>>, <<AsOf, Site("Memphis")>>, <<Site("Cairo"), AsOf>>}

(* No thread is treated specially.                                         *)
ThreadSymmetry == Permutations(Threads)
=============================================================================
