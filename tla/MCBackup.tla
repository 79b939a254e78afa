------------------------------ MODULE MCBackup ------------------------------
(* Two backup runs and a restore test at any moment of one another, a database *)
(* that grows, then halves, one kill, and days enough for an object to expire. *)
EXTENDS Backup, TLC

ContentOf == 0 :> [jobs |-> 1, gauge |-> 1]
          @@ 1 :> [jobs |-> 2, gauge |-> 2]
SizeOf == 0 :> 3 @@ 1 :> 1
MonthDays == {0}
Symmetry == Permutations(Runs) \cup Permutations(Tests)
=============================================================================
