---------------------------- MODULE MCScheduler ----------------------------
(***************************************************************************)
(* Instances of Scheduler for TLC: one job, a pool of two threads, a       *)
(* one-shot process or none.  The safety theorems cover any number of jobs *)
(* with any intervals.                                                     *)
(***************************************************************************)
EXTENDS Scheduler

CONSTANT a  \* a job

(* The daily build's cadence, in ticks of half a day.                      *)
Registry == INSTANCE Cadences
Daily == Registry!ByName("features_build")
HalfDay == 43200
MCInterval == [j \in Jobs |-> Daily.interval \div HalfDay]
MCGrace == [j \in Jobs |-> Registry!MisfireGraceTime(Daily) \div HalfDay]
=============================================================================
