---------------------------- MODULE MCRateLimiter ----------------------------
(***************************************************************************)
(* An instance of RateLimiter for TLC: buckets of little more than one     *)
(* request, refilled by fractions of a token, the general one faster.      *)
(***************************************************************************)
EXTENDS RateLimiter, TLC

MCFull == [k \in Kinds |-> IF k = "general" THEN Unit + 1 ELSE Unit]
MCRefill == [k \in Kinds |-> IF k = "general" THEN Unit ELSE Unit - 1]

(* No client is treated specially.                                         *)
ClientSymmetry == Permutations(Clients)
=============================================================================
