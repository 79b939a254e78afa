------------------------------- MODULE Backup -------------------------------
(* The nightly backup (app/orchestration/backup.py), the monthly restore test  *)
(* (app/orchestration/restore_test.py), the table backups and the bucket they  *)
(* share.  A run of either job may be the scheduler's or a one-shot process    *)
(* beside it; nothing keeps two runs apart, and a kill may end a run anywhere. *)
(*                                                                             *)
(* A run of the backup names its archive by its start time; runs do not start  *)
(* within the same second, so the run itself stands for the name.  The data    *)
(* of the database is a version number; Content gives the rows of each table   *)
(* of a version, Size the bytes of its dump.                                   *)
EXTENDS Integers, FiniteSets, Functions

CONSTANTS Runs,          \* runs of backup_nightly
          Tests,         \* runs of restore_test_monthly
          MaxVersion,    \* bound: commits to the database
          Content,       \* version -> (table -> number of rows)
          Size,          \* version -> bytes of its archive
          SchedulerTable,\* EXCLUDED_DATA_TABLE: its rows are in no dump
          FirstDays,     \* the days that are the first of a month
          MaxDay,        \* bound: days that pass
          DailyKept,     \* days the lifecycle rule keeps a daily object
          MaxKills,      \* bound: kills
          MaxStarted,    \* bound: runs of either job
          Damaged,       \* an archive pg_restore cannot read to its end
          None

Versions == 0..MaxVersion

ASSUME BackupAssumption ==
  /\ IsFiniteSet(Runs) /\ MaxVersion \in Nat /\ MaxDay \in Nat /\ MaxKills \in Nat /\ MaxStarted \in Nat
  /\ DailyKept \in Nat \ {0}
  /\ FirstDays \subseteq Nat
  /\ Size \in [Versions -> Nat]
  /\ \A v \in Versions : SchedulerTable \in DOMAIN Content[v]
  /\ Damaged \notin Versions /\ None \notin Runs

VARIABLES today,      \* days passed
          version,    \* the committed state of the production database
          objects,    \* the bucket: what lies, or lay, under each key
          staging,    \* archive files in STAGING_DIR: run -> data
          pgpass,     \* STAGING_DIR/.pgpass-backup exists
          rows,       \* the table backups
          run,        \* what each backup run holds
          scratch,    \* archive files in SCRATCH_DIR: run -> data
          testPass,   \* SCRATCH_DIR/.pgpass-restore-test exists
          throwaways, \* throwaway databases on the server: test -> tables
          evidence,   \* throwaways an error message has named
          test        \* what each restore test holds

backupVars == <<staging, pgpass, run>>
testVars   == <<scratch, testPass, throwaways, evidence, test>>
vars == <<today, version, objects, rows, backupVars, testVars>>

Tiers == {"daily", "monthly"}

Init == /\ today = 0 /\ version = 0
        /\ objects = {} /\ rows = {}
        /\ staging = << >> /\ pgpass = FALSE
        /\ run = [r \in Runs |-> [pc |-> "idle", day |-> 0, start |-> 0,
                                  last |-> None, snapshot |-> 0]]
        /\ scratch = << >> /\ testPass = FALSE
        /\ throwaways = << >> /\ evidence = {}
        /\ test = [t \in Tests |-> [pc |-> "idle", record |-> None]]

Over == {"done", "failed", "killed"}
At(r, pc) == run[r].pc = pc
Goto(r, pc) == run' = [run EXCEPT ![r].pc = pc]
With(f, a, d) == [x \in DOMAIN f \cup {a} |-> IF x = a THEN d ELSE f[x]]
Without(f, a) == Restrict(f, DOMAIN f \ {a})

Started == Cardinality({r \in Runs : ~At(r, "idle")} \cup {t \in Tests : test[t].pc # "idle"})

\* last_verified_backup and most_recent_verified: the row started last.
Newest(S) == CHOOSE r \in S : \A q \in S : q.start <= r.start
RowOf(a) == CHOOSE r \in rows : r.archive = a

-----------------------------------------------------------------------------
(* The nightly backup. *)

\* The checks that come before anything is written, each of which may refuse.
Refusals == {"not writable", "versions differ", "no table to exclude", "no space"}

Start(r) ==
  /\ At(r, "idle") /\ Started < MaxStarted
  /\ \E refusal \in Refusals \cup {None} :
       run' = [run EXCEPT ![r] =
         [pc |-> IF refusal = None THEN "checked" ELSE "failed", day |-> today,
          start |-> 1 + Cardinality({q \in Runs : ~At(q, "idle")}),
          last |-> IF rows = {} THEN None ELSE Newest(rows).archive,
          snapshot |-> 0]]
  /\ UNCHANGED <<today, version, objects, rows, staging, pgpass, testVars>>

WritePgpass(r) ==
  /\ At(r, "checked")
  /\ pgpass' = TRUE
  /\ Goto(r, "credentials")
  /\ UNCHANGED <<today, version, objects, rows, staging, testVars>>

\* One REPEATABLE READ transaction exports the snapshot and counts in it.
ExportSnapshot(r) ==
  /\ At(r, "credentials")
  /\ run' = [run EXCEPT ![r].pc = "counted", ![r].snapshot = version]
  /\ UNCHANGED <<today, version, objects, rows, staging, pgpass, testVars>>

\* pg_dump without --snapshot reads what is committed when it runs.
UnpinnedVersion(r) == version

\* What pg_dump reads: --snapshot pins it to the counting transaction.
DumpedVersion(r) == run[r].snapshot

\* pg_dump connects with the password file that is there at that moment, and
\* can leave a short file behind whatever its exit code.
Dump(r) ==
  /\ At(r, "counted")
  /\ IF pgpass
     THEN \E data \in {DumpedVersion(r), Damaged} :
            /\ staging' = With(staging, r, data)
            /\ Goto(r, "dumping")
     ELSE Goto(r, "undumped") /\ UNCHANGED staging
  /\ UNCHANGED <<today, version, objects, rows, pgpass, testVars>>

\* The password file removed after the try, not in a finally.
EndDumpNoFinally(r) ==
  /\ \/ At(r, "dumping") /\ Goto(r, "dumped") /\ pgpass' = FALSE
     \/ At(r, "dumping") /\ Goto(r, "failed") /\ UNCHANGED pgpass
     \/ At(r, "undumped") /\ Goto(r, "failed") /\ UNCHANGED pgpass
  /\ UNCHANGED <<today, version, objects, rows, staging, testVars>>

\* pg_dump has ended; the finally clause removes the password file.
EndDump(r) ==
  /\ \/ At(r, "dumping") /\ \E pc \in {"dumped", "failed"} : Goto(r, pc)
     \/ At(r, "undumped") /\ Goto(r, "failed")
  /\ pgpass' = FALSE
  /\ UNCHANGED <<today, version, objects, rows, staging, testVars>>

\* SIZE_FLOOR_FRACTION of the row read before the dump.
SizeFloorHolds(r) ==
  \/ run[r].last = None
  \/ Size[staging[r]] >= Size[RowOf(run[r].last).content] \div 2

\* verify_archive reads the whole archive, check_size_floor compares its size.
Verify(r) ==
  /\ At(r, "dumped")
  /\ IF staging[r] # Damaged /\ SizeFloorHolds(r)
     THEN Goto(r, "verified")
     ELSE Goto(r, "failed")
  /\ UNCHANGED <<today, version, objects, rows, staging, pgpass, testVars>>

Object(tier, r, data) ==
  [tier |-> tier, archive |-> r, data |-> data, day |-> today, expired |-> FALSE]

\* upload_and_verify: an object of another size than the file ends the run.
Upload(r) ==
  /\ At(r, "verified")
  /\ \E data \in {staging[r], Damaged} :
       /\ objects' = objects \cup {Object("daily", r, data)}
       /\ Goto(r, IF data = staging[r] THEN "uploaded" ELSE "failed")
  /\ UNCHANGED <<today, version, rows, staging, pgpass, testVars>>

UploadFails(r) ==
  /\ At(r, "verified")
  /\ Goto(r, "failed")
  /\ UNCHANGED <<today, version, objects, rows, staging, pgpass, testVars>>

\* The first of the month by the run's start, not by the hour of the copy.
CopyToMonthly(r) ==
  /\ At(r, "uploaded") /\ run[r].day \in FirstDays
  /\ \/ \E o \in objects :
          /\ o.archive = r /\ o.tier = "daily" /\ ~o.expired
          /\ objects' = objects \cup {Object("monthly", r, o.data)}
          /\ Goto(r, "copied")
     \/ Goto(r, "failed") /\ UNCHANGED objects
  /\ UNCHANGED <<today, version, rows, staging, pgpass, testVars>>

\* The local file removed whether or not the row could be committed.
RecordThenUnlinkAnyway(r) ==
  /\ \/ At(r, "copied")
     \/ At(r, "uploaded") /\ run[r].day \notin FirstDays
  /\ Goto(r, "recorded")
  /\ UNCHANGED <<today, version, objects, rows, staging, pgpass, testVars>>

\* The row is inserted and committed after everything else has succeeded.
Record(r) ==
  /\ \/ At(r, "copied")
     \/ At(r, "uploaded") /\ run[r].day \notin FirstDays
  /\ \/ /\ rows' = rows \cup {[archive |-> r, start |-> run[r].start, day |-> run[r].day,
                               content |-> run[r].snapshot, marked |-> FALSE]}
        /\ Goto(r, "recorded")
     \/ Goto(r, "failed") /\ UNCHANGED rows
  /\ UNCHANGED <<today, version, objects, staging, pgpass, testVars>>

Unlink(r) ==
  /\ At(r, "recorded")
  /\ staging' = Without(staging, r)
  /\ Goto(r, "done")
  /\ UNCHANGED <<today, version, objects, rows, pgpass, testVars>>

BackupStep(r) == \/ Start(r) \/ WritePgpass(r) \/ ExportSnapshot(r) \/ Dump(r) \/ EndDump(r)
                 \/ Verify(r) \/ Upload(r) \/ UploadFails(r) \/ CopyToMonthly(r)
                 \/ Record(r) \/ Unlink(r)

-----------------------------------------------------------------------------
(* The monthly restore test. *)

TestAt(t, pc) == test[t].pc = pc
TestGoto(t, pc) == test' = [test EXCEPT ![t].pc = pc]

\* What a dump of content c gives back: the scheduler's table comes back empty.
Restored(c) == [x \in DOMAIN c |-> IF x = SchedulerTable THEN 0 ELSE c[x]]

\* What a restore can lose while pg_restore exits 0: a table, or some rows.
Losses(c) == {Without(c, x) : x \in DOMAIN c}
             \cup {[c EXCEPT ![x] = @ - 1] : x \in {y \in DOMAIN c : c[y] > 0}}

\* Only the tables found on both sides compared.
CommonCountsAgree(recorded, restored) ==
  \A x \in DOMAIN recorded \cap DOMAIN restored :
     restored[x] = IF x = SchedulerTable THEN 0 ELSE recorded[x]

\* compare_counts: the same tables, the same rows, none in the scheduler's.
CountsAgree(recorded, restored) ==
  /\ DOMAIN recorded = DOMAIN restored
  /\ \A x \in DOMAIN recorded :
       restored[x] = IF x = SchedulerTable THEN 0 ELSE recorded[x]

\* The newest row, a writable directory, three times its size free.
Choose(t) ==
  /\ TestAt(t, "idle") /\ Started < MaxStarted
  /\ \/ /\ rows # {}
        /\ test' = [test EXCEPT ![t] = [pc |-> "chosen", record |-> Newest(rows).archive]]
     \/ TestGoto(t, "failed")
  /\ UNCHANGED <<today, version, objects, rows, backupVars, scratch, testPass,
                 throwaways, evidence>>

\* The row's own daily key; the object may be gone.
Download(t) ==
  /\ TestAt(t, "chosen")
  /\ \/ \E o \in objects :
          /\ o.archive = test[t].record /\ o.tier = "daily" /\ ~o.expired
          /\ scratch' = With(scratch, o.archive, o.data)
          /\ TestGoto(t, "downloaded")
     \/ TestGoto(t, "failed") /\ UNCHANGED scratch
  /\ UNCHANGED <<today, version, objects, rows, backupVars, testPass, throwaways, evidence>>

\* roles_in_archive reads the file, then the password file is written.
Prepare(t) ==
  /\ TestAt(t, "downloaded")
  /\ \/ /\ test[t].record \in DOMAIN scratch
        /\ testPass' = TRUE
        /\ TestGoto(t, "prepared")
     \/ TestGoto(t, "failed") /\ UNCHANGED testPass
  /\ UNCHANGED <<today, version, objects, rows, backupVars, scratch, throwaways, evidence>>

\* CREATE DATABASE under a fresh name; without it there is nothing to keep.  One
\* whose reply is lost leaves a database the run has no name of.
CreateThrowaway(t) ==
  /\ TestAt(t, "prepared")
  /\ \/ /\ throwaways' = With(throwaways, t, << >>)
        /\ TestGoto(t, "created")
        /\ UNCHANGED testPass
     \/ /\ testPass' = FALSE
        /\ TestGoto(t, "failed")
        /\ UNCHANGED throwaways
     \/ /\ throwaways' = With(throwaways, t, << >>)
        /\ testPass' = FALSE
        /\ TestGoto(t, "uncreated")
  /\ UNCHANGED <<today, version, objects, rows, backupVars, scratch, evidence>>

\* pg_restore needs the file and the password file; a restore that exits 0 may
\* still have lost something.
Restore(t) ==
  LET a == test[t].record IN
  /\ TestAt(t, "created")
  /\ \/ /\ a \in DOMAIN scratch /\ testPass
        /\ scratch[a] # Damaged
        /\ LET whole == Restored(Content[scratch[a]]) IN
           \E c \in {whole} \cup Losses(whole) : throwaways' = With(throwaways, t, c)
        /\ TestGoto(t, "restored")
     \/ TestGoto(t, "wrong") /\ UNCHANGED throwaways
  /\ UNCHANGED <<today, version, objects, rows, backupVars, scratch, testPass, evidence>>

\* ANALYZE, the counts, the compressed chunks, the read-only role.
Compare(t) ==
  /\ TestAt(t, "restored")
  /\ \/ /\ CountsAgree(Content[RowOf(test[t].record).content], throwaways[t])
        /\ TestGoto(t, "compared")
     \/ TestGoto(t, "wrong")
  /\ UNCHANGED <<today, version, objects, rows, backupVars, scratch, testPass,
                 throwaways, evidence>>

\* The row read at the start is marked, which need not be the newest any more.
MarkedArchive(t) == test[t].record
MarkVerified(t) ==
  /\ TestAt(t, "compared")
  /\ \/ /\ rows' = {[q EXCEPT !.marked = @ \/ q.archive = MarkedArchive(t)] : q \in rows}
        /\ TestGoto(t, "marked")
     \/ TestGoto(t, "wrong") /\ UNCHANGED rows
  /\ UNCHANGED <<today, version, objects, backupVars, scratch, testPass, throwaways, evidence>>

\* The finally clause: a failed test keeps its throwaway and names it, a passed
\* one drops it; a DROP that fails is named by nobody.
CleanUp(t) ==
  /\ testPass' = FALSE
  /\ \/ /\ TestAt(t, "wrong")
        /\ evidence' = evidence \cup {t}
        /\ TestGoto(t, "failed")
        /\ UNCHANGED <<throwaways, scratch>>
     \/ /\ TestAt(t, "marked")
        /\ throwaways' = Without(throwaways, t)
        /\ scratch' = Without(scratch, test[t].record)
        /\ TestGoto(t, "done")
        /\ UNCHANGED evidence
     \/ /\ TestAt(t, "marked")
        /\ TestGoto(t, "undropped")
        /\ UNCHANGED <<throwaways, scratch, evidence>>
  /\ UNCHANGED <<today, version, objects, rows, backupVars>>

TestStep(t) == \/ Choose(t) \/ Download(t) \/ Prepare(t) \/ CreateThrowaway(t) \/ Restore(t)
               \/ Compare(t) \/ MarkVerified(t) \/ CleanUp(t)

-----------------------------------------------------------------------------
(* What happens around them. *)

Commit == /\ version < MaxVersion
          /\ version' = version + 1
          /\ UNCHANGED <<today, objects, rows, backupVars, testVars>>

NextDay == /\ today < MaxDay
           /\ today' = today + 1
           /\ UNCHANGED <<version, objects, rows, backupVars, testVars>>

\* The lifecycle rule of the daily prefix; the monthly one outlasts the bound.
Expire == \E o \in objects :
            /\ o.tier = "daily" /\ ~o.expired
            /\ today - o.day >= DailyKept
            /\ objects' = (objects \ {o}) \cup {[o EXCEPT !.expired = TRUE]}
            /\ UNCHANGED <<today, version, rows, backupVars, testVars>>

Killed == {r \in Runs : At(r, "killed")} \cup {t \in Tests : TestAt(t, "killed")}

Kill == /\ Cardinality(Killed) < MaxKills
        /\ \/ /\ \E r \in Runs : run[r].pc \notin Over \cup {"idle"} /\ Goto(r, "killed")
              /\ UNCHANGED test
           \/ /\ \E t \in Tests : /\ test[t].pc \notin Over \cup {"idle", "uncreated", "undropped"}
                                  /\ TestGoto(t, "killed")
              /\ UNCHANGED run
        /\ UNCHANGED <<today, version, objects, rows, staging, pgpass, scratch, testPass,
                       throwaways, evidence>>

Next == \/ \E r \in Runs : BackupStep(r)
        \/ \E t \in Tests : TestStep(t)
        \/ Commit \/ NextDay \/ Expire \/ Kill

Spec == Init /\ [][Next]_vars

-----------------------------------------------------------------------------
(* Properties. *)

RunPcs == Over \cup {"idle", "checked", "credentials", "counted", "dumping", "undumped",
                     "dumped", "verified", "uploaded", "copied", "recorded"}
TestPcs == Over \cup {"idle", "chosen", "downloaded", "prepared", "created", "restored",
                      "wrong", "compared", "marked", "uncreated", "undropped"}

\* The type invariant: what each file, row, object and run can hold.
TypeOK ==
  /\ today \in 0..MaxDay /\ version \in Versions
  /\ objects \subseteq [tier : Tiers, archive : Runs, data : Versions \cup {Damaged},
                         day : 0..MaxDay, expired : BOOLEAN]
  /\ rows \subseteq [archive : Runs, start : 1..Cardinality(Runs), day : 0..MaxDay,
                      content : Versions, marked : BOOLEAN]
  /\ DOMAIN staging \subseteq Runs /\ Range(staging) \subseteq Versions \cup {Damaged}
  /\ DOMAIN scratch \subseteq Runs /\ Range(scratch) \subseteq Versions \cup {Damaged}
  /\ pgpass \in BOOLEAN /\ testPass \in BOOLEAN
  /\ run \in [Runs -> [pc : RunPcs, day : 0..MaxDay, start : 0..Cardinality(Runs),
                       last : Runs \cup {None}, snapshot : Versions]]
  /\ test \in [Tests -> [pc : TestPcs, record : Runs \cup {None}]]
  /\ DOMAIN throwaways \subseteq Tests /\ evidence \subseteq Tests

\* Until the lifecycle rule may take it, the object a row names is in the
\* bucket, whatever concurrent runs, kills and failed uploads did
\* (upload_and_verify before record_backup).
YoungRowHasItsObject ==
  \A q \in rows : today - q.day < DailyKept =>
    \E o \in objects : o.tier = "daily" /\ o.archive = q.archive /\ ~o.expired

\* The first backup of a month is kept a second time, and whole, before its
\* row exists: the row outlives the daily object (copy_to_monthly).
MonthlyOutlivesDaily ==
  \A q \in rows : q.day \in FirstDays =>
    \E o \in objects : /\ o.tier = "monthly" /\ o.archive = q.archive
                       /\ o.data = q.content /\ ~o.expired

\* A local archive known to restore is unlinked only when the bucket holds the
\* same bytes (or held them until the lifecycle rule took them) and a row says so; until then the file stays, through a kill and
\* through every failure ("the only copy known to restore").
OnlyCopyIsKept ==
  [][\A r \in DOMAIN staging \ DOMAIN staging' :
        /\ \E q \in rows : q.archive = r /\ q.content = staging[r]
        /\ \E o \in objects : o.archive = r /\ o.data = staging[r]]_vars

\* A throwaway database nobody is working on has been named in an error
\* message, or its test was killed, or its DROP failed, or its CREATE's reply was lost
\* (the finally clause of restore_test_monthly_job).
ThrowawayIsAccountedFor ==
  \A t \in DOMAIN throwaways :
    test[t].pc \in Over => t \in evidence \/ TestAt(t, "killed")

\* A password file outlives the runs that wrote it only through a kill, though
\* runs share its path and remove each other's (pgpass_path.unlink).
CredentialsAreRemoved ==
  /\ pgpass /\ (\A r \in Runs : run[r].pc \notin {"credentials", "counted", "dumping", "undumped"})
       => \E r \in Runs : At(r, "killed")
  /\ testPass /\ (\A t \in Tests : test[t].pc \in Over \cup {"idle", "chosen", "downloaded", "uncreated", "undropped"})
       => \E t \in Tests : TestAt(t, "killed")

\* Together: no row is without its object while it may be asked for, and no run
\* leaves anything behind that nobody is told of.
NothingIsStranded ==
  /\ TypeOK
  /\ YoungRowHasItsObject /\ MonthlyOutlivesDaily
  /\ ThrowawayIsAccountedFor /\ CredentialsAreRemoved

\* What the bucket has held whole, what the rows say, what is confirmed.
Catalog == INSTANCE BackupCatalog WITH
  Archives  <- Runs,
  Contents  <- Versions,
  written   <- [r \in {o.archive : o \in {x \in objects : x.tier = "daily" /\ x.data # Damaged}} |->
                  (CHOOSE o \in objects : o.archive = r /\ o.tier = "daily").data],
  listed    <- [r \in {q.archive : q \in rows} |-> RowOf(r).content],
  confirmed <- {q.archive : q \in {x \in rows : x.marked}}

\* The rows keep the promise of the catalogue: every row lists a whole archive
\* with its true counts, and confirms one only when it was so.
RowsAreACatalog == Catalog!Spec

\* A row is marked only by a test that restored that row's own archive, to the
\* last table and row its counts name, into a database of its own, although a
\* newer row may have appeared while it ran (mark_verified).
MarkMeansRestored ==
  [][\A q \in rows' : q.marked /\ (\E p \in rows : p.archive = q.archive /\ ~p.marked) =>
       \E t \in Tests : /\ test[t].record = q.archive
                        /\ t \in DOMAIN throwaways
                        /\ throwaways[t] = Restored(Content[q.content])]_vars
=============================================================================
