------------------------------ MODULE MCMigrate ------------------------------
(* Two invocations over files 1, 2 and 10.  The file 10 runs outside a          *)
(* transaction whatever its content; the file 2 builds an index IF NOT EXISTS  *)
(* outside a transaction in one of its contents and is transactional in the    *)
(* other, so that an edit may move it from one kind to the other.              *)
EXTENDS Migrate, TLC

CONSTANTS a, b

Marked == {Applied(2, a), Applied(10, a), Applied(10, b)}
IndexBuilds == {Applied(2, a)}
Symmetry == Permutations(Runners)
=============================================================================
