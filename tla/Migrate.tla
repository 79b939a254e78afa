------------------------------ MODULE Migrate ------------------------------
(* The migration runner (app/orchestration/migrate.py): a command a person     *)
(* starts, which applies the numbered files of migrations/ that the table      *)
(* schema_migrations does not name.  Nothing locks: two people may run it at   *)
(* once; the checkout may change under it; a kill may end it anywhere, and the *)
(* connection may be lost under any statement, before or after its effect.     *)
(*                                                                             *)
(* The content of a file stands for its checksum, which is over exact bytes.   *)
(* A transactional file and its row commit together, so that is one step; the  *)
(* row's primary key makes a second runner's transaction fail.                 *)
EXTENDS Integers, Sequences, FiniteSets, Functions

CONSTANTS Runners,        \* invocations of the runner
          Versions,       \* version numbers files may carry
          Contents,       \* contents a file may have
          NoTransaction,  \* the files (of a version, with a content) whose first line is the marker
          Guarded,        \* of those, the ones written IF NOT EXISTS
          MaxChanges,     \* bound: changes of the checkout
          MaxKills        \* bound: kills

Files == [version : Versions, content : Contents]

ASSUME MigrateAssumption ==
  /\ Versions \subseteq Nat /\ IsFiniteSet(Versions)
  /\ Guarded \subseteq NoTransaction /\ NoTransaction \subseteq Files
  /\ MaxChanges \in Nat /\ MaxKills \in Nat

VARIABLES files,    \* the directory migrations/: version -> content
          schema,   \* the files the database has taken, in the order it took them
          halfBuilt,\* versions whose index an interrupted build left invalid
          table,    \* schema_migrations: version -> checksum
          runner,   \* what each invocation holds
          changes, kills,
          overlapped, \* history: two runs were at work at once
          unrecorded  \* history: versions taken whose row the run that took them did not write

migrateVars == <<files, schema, halfBuilt, table, runner, changes, kills, overlapped, unrecorded>>

Applied(v, c) == [version |-> v, content |-> c]
With(f, v, c) == [x \in DOMAIN f \cup {v} |-> IF x = v THEN c ELSE f[x]]
Taken(v) == \E i \in DOMAIN schema : schema[i].version = v
Over == {"done", "failed", "refused", "killed"}
Idle == [pc |-> "idle", plan |-> << >>, seen |-> << >>, todo |-> {}]

MigrateInit ==
  /\ \E d \in SUBSET Versions : files \in [d -> Contents]
  /\ schema = << >> /\ halfBuilt = {} /\ table = << >>
  /\ runner = [r \in Runners |-> Idle]
  /\ changes = 0 /\ kills = 0 /\ overlapped = FALSE /\ unrecorded = {}

\* A pull, a checkout or an edit changes one file.
ChangeFile ==
  /\ changes < MaxChanges
  /\ \E v \in Versions :
       \/ \E c \in Contents : files' = With(files, v, c)
       \/ v \in DOMAIN files /\ files' = Restrict(files, DOMAIN files \ {v})
  /\ changes' = changes + 1
  /\ UNCHANGED <<schema, halfBuilt, table, runner, kills, overlapped, unrecorded>>

\* In the order of strings, in which a longer number may come first.
FirstAsString(S) == CHOOSE v \in S : \A w \in S : v % 10 < w % 10 \/ (v % 10 = w % 10 /\ v <= w)

\* discover sorts by number, so the file a run comes to is the least it has left.
First(S) == CHOOSE v \in S : \A w \in S : v <= w

\* discover: every file is read, once, before the database is looked at.  A
\* name without a number, or two files of one number, refuse the run.
Discover(r) ==
  /\ runner[r].pc = "idle"
  /\ \E pc \in {"discovered", "refused"} :
       runner' = [runner EXCEPT ![r].pc = pc, ![r].plan = files]
  /\ overlapped' = (overlapped \/ \E q \in Runners \ {r} : runner[q].pc \notin Over \cup {"idle"})
  /\ UNCHANGED <<files, schema, halfBuilt, table, changes, kills, unrecorded>>

\* Only the file names are compared.
UnchangedNames(plan, seen) == DOMAIN seen \subseteq DOMAIN plan

\* verify_applied_checksums: every recorded version has its file, unchanged.
UnchangedFiles(plan, seen) ==
  \A v \in DOMAIN seen : v \in DOMAIN plan /\ plan[v] = seen[v]

\* The files the table does not name.
Pending(plan, seen) == DOMAIN plan \ DOMAIN seen

\* check_ordering: no pending version lies below the highest recorded one.
InOrder(plan, seen) ==
  \A v \in Pending(plan, seen), w \in DOMAIN seen : w < v

Fail(r) == runner' = [runner EXCEPT ![r].pc = "failed"]

\* run: bootstrap, read the rows, make both checks, then fix which files to apply.
Plan(r) ==
  /\ runner[r].pc = "discovered"
  /\ LET plan == runner[r].plan
         sound == UnchangedFiles(plan, table) /\ InOrder(plan, table)
         todo == Pending(plan, table)
     IN \/ runner' = [runner EXCEPT ![r].seen = table,
                        ![r].pc = CASE ~sound -> "refused"
                                    [] sound /\ todo = {} -> "done"
                                    [] OTHER -> "applying",
                        ![r].todo = IF sound THEN todo ELSE {}]
        \/ Fail(r)
  /\ UNCHANGED <<files, schema, halfBuilt, table, changes, kills, overlapped, unrecorded>>

\* The file a run has come to, as it read it.
Current(r) == LET v == First(runner[r].todo) IN Applied(v, runner[r].plan[v])

\* The runner after the file it had come to is recorded.
Advance(r) ==
  LET left == runner[r].todo \ {First(runner[r].todo)}
  IN runner' = [runner EXCEPT ![r].todo = left, ![r].pc = IF left = {} THEN "done" ELSE "applying"]

\* The row is committed: the run goes on, or never hears of it and fails.
WriteRow(r) ==
  LET f == Current(r)
  IN /\ f.version \notin DOMAIN table
     /\ table' = With(table, f.version, f.content)
     /\ Advance(r) \/ Fail(r)

\* _apply_in_transaction: the file and its row commit together, or neither does.
ApplyInTransaction(r) ==
  /\ runner[r].pc = "applying" /\ Current(r) \notin NoTransaction
  /\ \/ WriteRow(r) /\ schema' = Append(schema, Current(r))
     \/ Fail(r) /\ UNCHANGED <<schema, table>>
  /\ UNCHANGED <<files, halfBuilt, changes, kills, overlapped, unrecorded>>

\* _apply_without_transaction, its first half: the statement under autocommit.
\* An IF NOT EXISTS statement passes over what is there, whole or half-built.
\* It takes effect and the run goes on; it takes effect and the connection is
\* lost before the reply, or closing it raises; or it fails, and an interrupted
\* concurrent build leaves its index behind, invalid.
ExecuteAutocommit(r) ==
  /\ runner[r].pc = "applying" /\ Current(r) \in NoTransaction
  /\ LET v == Current(r).version
         skips == Current(r) \in Guarded /\ (Taken(v) \/ v \in halfBuilt)
     IN \/ /\ schema' = IF skips THEN schema ELSE Append(schema, Current(r))
           /\ \/ runner' = [runner EXCEPT ![r].pc = "recording"] /\ UNCHANGED unrecorded
              \/ Fail(r) /\ unrecorded' = unrecorded \cup {v}
           /\ UNCHANGED halfBuilt
        \/ /\ Fail(r)
           /\ halfBuilt' = IF Current(r) \in Guarded /\ ~skips THEN halfBuilt \cup {v} ELSE halfBuilt
           /\ UNCHANGED <<schema, unrecorded>>
  /\ UNCHANGED <<files, table, changes, kills, overlapped>>

\* The row inserted ON CONFLICT DO NOTHING.
RecordUnlessThere(r) ==
  /\ runner[r].pc = "recording"
  /\ LET f == Current(r)
     IN table' = IF f.version \in DOMAIN table THEN table ELSE With(table, f.version, f.content)
  /\ Advance(r)
  /\ UNCHANGED <<files, schema, halfBuilt, changes, kills, overlapped, unrecorded>>

\* Its second half: the row, in a transaction of its own.  The INSERT or its
\* COMMIT may fail, on a row that is there or with the connection; the file is
\* then taken and no row of this run says so.
Record(r) ==
  /\ runner[r].pc = "recording"
  /\ \/ WriteRow(r) /\ UNCHANGED unrecorded
     \/ Fail(r) /\ unrecorded' = unrecorded \cup {Current(r).version} /\ UNCHANGED table
  /\ UNCHANGED <<files, schema, halfBuilt, changes, kills, overlapped>>

\* A kill in the window between the two halves leaves a file that no row names.
Kill(r) ==
  /\ kills < MaxKills
  /\ runner[r].pc \notin Over \cup {"idle"}
  /\ kills' = kills + 1
  /\ runner' = [runner EXCEPT ![r].pc = "killed"]
  /\ unrecorded' = IF runner[r].pc = "recording" THEN unrecorded \cup {Current(r).version} ELSE unrecorded
  /\ UNCHANGED <<files, schema, halfBuilt, table, changes, overlapped>>

MigrateNext ==
  \/ ChangeFile
  \/ \E r \in Runners :
       \/ Discover(r) \/ Plan(r)
       \/ ApplyInTransaction(r) \/ ExecuteAutocommit(r) \/ Record(r)
       \/ Kill(r)

MigrateSpec == MigrateInit /\ [][MigrateNext]_migrateVars

-----------------------------------------------------------------------------
MigrateTypeOK ==
  /\ DOMAIN files \subseteq Versions /\ Range(files) \subseteq Contents
  /\ schema \in Seq(Files)
  /\ halfBuilt \subseteq Versions
  /\ DOMAIN table \subseteq Versions /\ Range(table) \subseteq Contents
  /\ \A r \in Runners :
       /\ runner[r].pc \in Over \cup {"idle", "discovered", "applying", "recording"}
       /\ runner[r].todo \subseteq DOMAIN runner[r].plan
       /\ (runner[r].pc \in {"applying", "recording"} => runner[r].todo # {})
  /\ changes \in 0..MaxChanges /\ kills \in 0..MaxKills
  /\ overlapped \in BOOLEAN /\ unrecorded \subseteq Versions

\* A file applied in a transaction is in the schema exactly when its row is in
\* the table, once, and with the content the row's checksum is of, whoever was
\* killed, whatever reply was lost and whoever else was running: the row commits
\* with the file.
TransactionalOnce ==
  \A v \in Versions :
    LET at == {i \in DOMAIN schema : schema[i].version = v /\ schema[i] \notin NoTransaction}
        named == v \in DOMAIN table /\ Applied(v, table[v]) \notin NoTransaction
    IN /\ named => \E i \in at : at = {i} /\ schema[i].content = table[v]
       /\ ~named => at = {}

\* The schema is the ordered application of the files, as long as no two runs
\* overlap: leaving out the no-transaction versions some run took and did not
\* get to record, the database has taken the files in ascending order and each
\* of them once, whatever failed, whatever was killed and whatever was re-run.
SchemaIsOrdered ==
  ~overlapped =>
    \A i, j \in DOMAIN schema :
      (i < j /\ {schema[i].version, schema[j].version} \cap unrecorded = {})
        => schema[i].version < schema[j].version

\* A row never stands for a file the database has not met: what a row names was
\* taken, or is an IF NOT EXISTS index an earlier, interrupted build left.
RecordedWasMet ==
  \A v \in DOMAIN table : Taken(v) \/ v \in halfBuilt

\* A run that ends well leaves nothing it had discovered out of the table, and
\* no row there disagrees with the file it read: not skipped, not late.
DoneMeansApplied ==
  \A r \in Runners : runner[r].pc = "done" =>
    \A v \in DOMAIN runner[r].plan :
      v \in DOMAIN table /\ table[v] = runner[r].plan[v]

\* Together: what schema_migrations says of the schema.
RecordsAreTrue == MigrateTypeOK /\ TransactionalOnce /\ RecordedWasMet /\ DoneMeansApplied

\* Nothing is applied on top of a disagreement: the step that adds to the schema
\* belongs to a run whose files agree with every row it read, and adds a version
\* above them all.
AppliesOnAgreement ==
  [][\A r \in Runners :
       (schema' # schema /\ runner'[r] # runner[r]) =>
         \A w \in DOMAIN runner[r].seen :
           /\ w \in DOMAIN runner[r].plan /\ runner[r].plan[w] = runner[r].seen[w]
           /\ w < First(runner[r].todo)]_migrateVars
=============================================================================
