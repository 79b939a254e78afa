---------------------------- MODULE BackupProofs ----------------------------
(***************************************************************************)
(* The properties of module Backup, for any number of backup runs and      *)
(* restore tests, any contents and sizes of the database, and any number   *)
(* of commits, days and kills: the table backups is a true catalogue of    *)
(* the bucket, the only good copy of an archive is never removed, a row is *)
(* marked only by a restore of that row, and nothing is left behind that   *)
(* nobody is told of.                                                      *)
(***************************************************************************)
EXTENDS Backup, FiniteSetTheorems, WellFoundedInduction, TLAPS

(* The states of a run before it has exported its snapshot, before it has  *)
(* put anything in the bucket, and from there to the row.                  *)
Early == {"idle", "checked", "credentials"}
Before == Early \cup {"counted", "dumping", "undumped", "dumped", "verified"}
Stored == {"uploaded", "copied", "recorded"}
WithPassword == {"credentials", "counted", "dumping", "undumped"}

(* A local archive is the dump of its run's snapshot, or damaged; from the *)
(* check of the whole archive on it is there and undamaged.                *)
FilesAreDumps ==
  \A r \in Runs :
    /\ r \in DOMAIN staging => ~(run[r].pc \in Early) /\ staging[r] \in {run[r].snapshot, Damaged}
    /\ run[r].pc \in {"dumping", "dumped"} => r \in DOMAIN staging
    /\ run[r].pc \in {"verified"} \cup Stored => r \in DOMAIN staging /\ staging[r] = run[r].snapshot

Holds(tier, r) == \E o \in objects : o.tier = tier /\ o.archive = r /\ o.data = run[r].snapshot

(* Each run puts one object under its daily key, and that is the dump of    *)
(* its snapshot if the run goes on.                                        *)
ObjectsAreDumps ==
  /\ \A o \in objects :
       /\ run[o.archive].pc \notin Before /\ run[o.archive].day <= o.day
       /\ o.data \in {run[o.archive].snapshot, Damaged}
       /\ o.expired => o.tier = "daily" /\ today - o.day >= DailyKept
  /\ \A o, p \in objects : o.tier = "daily" /\ p.tier = "daily" /\ o.archive = p.archive => o = p
  /\ \A r \in Runs : /\ run[r].pc \in Stored => Holds("daily", r)
                     /\ run[r].pc = "copied" => Holds("monthly", r)

(* Each run inserts one row, of its own day and snapshot, after its        *)
(* objects.                                                                *)
RowsAreTrue ==
  /\ \A q \in rows :
       /\ run[q.archive].pc \in {"recorded", "done", "killed"}
       /\ q.day = run[q.archive].day /\ q.content = run[q.archive].snapshot
       /\ Holds("daily", q.archive)
       /\ q.day \in FirstDays => Holds("monthly", q.archive)
  /\ \A p, q \in rows : p.archive = q.archive => p = q
  /\ \A r \in Runs : run[r].pc = "recorded" => \E q \in rows : q.archive = r

(* A restore test restores the archive of a row into a database of its     *)
(* own, and has compared it with that row's counts before it marks it.     *)
TestsAreTrue ==
  \A t \in Tests :
    /\ test[t].pc \notin {"idle", "failed", "killed"} => \E q \in rows : q.archive = test[t].record
    /\ test[t].pc \in {"restored", "compared"} =>
         t \in DOMAIN throwaways /\ throwaways[t] = [x \in DOMAIN throwaways[t] |-> throwaways[t][x]]
    /\ test[t].pc = "compared" => throwaways[t] = Restored(Content[run[test[t].record].snapshot])
    /\ t \in DOMAIN throwaways =>
         \/ test[t].pc \in {"created", "restored", "wrong", "compared", "marked", "uncreated", "undropped", "killed"}
         \/ test[t].pc = "failed" /\ t \in evidence

(* A password file has a run that will remove it, or one that was killed.  *)
PasswordsAreOwned ==
  /\ pgpass => \E r \in Runs : run[r].pc \in WithPassword \cup {"killed"}
  /\ testPass => \E t \in Tests : test[t].pc \notin {"idle", "chosen", "downloaded", "uncreated", "undropped", "done", "failed"}

BackupInv ==
  /\ TypeOK
  /\ FilesAreDumps /\ ObjectsAreDumps /\ RowsAreTrue
  /\ TestsAreTrue /\ PasswordsAreOwned
  /\ \A r \in Runs : run[r].day <= today /\ (run[r].pc # "idle" => run[r].start > 0)

-----------------------------------------------------------------------------
(* Functions that change at a point, and the newest row.                   *)

LEMMA WithIs ==
  ASSUME NEW f, NEW a, NEW d
  PROVE  /\ DOMAIN With(f, a, d) = DOMAIN f \cup {a} /\ With(f, a, d)[a] = d
         /\ \A x \in DOMAIN f : x # a => With(f, a, d)[x] = f[x]
BY DEF With

LEMMA WithoutIs ==
  ASSUME NEW f, NEW a
  PROVE  /\ DOMAIN Without(f, a) = DOMAIN f \ {a}
         /\ \A x \in DOMAIN f : x # a => Without(f, a)[x] = f[x]
BY DEF Without, Restrict

LEMMA RangeIs ==
  ASSUME NEW f, NEW S
  PROVE  Range(f) \subseteq S <=> \A x \in DOMAIN f : f[x] \in S
BY DEF Range

RunSet == [pc : RunPcs, day : 0..MaxDay, start : 0..Cardinality(Runs),
           last : Runs \cup {None}, snapshot : Versions]
RowSet == [archive : Runs, start : 1..Cardinality(Runs), day : 0..MaxDay,
           content : Versions, marked : BOOLEAN]
ObjectSet == [tier : Tiers, archive : Runs, data : Versions \cup {Damaged},
              day : 0..MaxDay, expired : BOOLEAN]
TestSet == [pc : TestPcs, record : Runs \cup {None}]

LEMMA GotoIs ==
  ASSUME run \in [Runs -> RunSet], NEW r \in Runs, NEW p \in RunPcs, Goto(r, p)
  PROVE  /\ run' \in [Runs -> RunSet] /\ run'[r].pc = p
         /\ run'[r].snapshot = run[r].snapshot /\ run'[r].day = run[r].day
         /\ \A q \in Runs : q # r => run'[q] = run[q]
BY DEF Goto, RunSet

LEMMA TestGotoIs ==
  ASSUME test \in [Tests -> TestSet], NEW t \in Tests, NEW p \in TestPcs, TestGoto(t, p)
  PROVE  /\ test' \in [Tests -> TestSet] /\ test'[t].pc = p /\ test'[t].record = test[t].record
         /\ \A u \in Tests : u # t => test'[u] = test[u]
BY DEF TestGoto, TestSet

(* Of the rows there are, one was started last.                            *)
LEMMA NewestIsARow ==
  ASSUME NEW S \in SUBSET RowSet, S # {}
  PROVE  Newest(S) \in S
<1> DEFINE n == Cardinality(Runs)
           T == {n - q.start : q \in S}
<1>1. n \in Nat
  BY BackupAssumption, FS_CardinalityType
<1> HIDE DEF n
<1>2. \A q \in S : q.start \in 1..n
  BY DEF RowSet, n
<1>3. T \subseteq Nat /\ T # {}
  BY <1>1, <1>2
<1>4. PICK x \in T : \A y \in T : ~(<<y, x>> \in OpToRel(<, Nat))
  BY <1>3, NatLessThanWellFounded, WFMin
<1>5. \A y \in T : ~(y < x)
  BY <1>3, <1>4 DEF OpToRel
<1>6. PICK r \in S : x = n - r.start
  BY <1>4
<1>7. \A q \in S : q.start <= r.start
  <2> SUFFICES ASSUME NEW q \in S PROVE q.start <= r.start
    OBVIOUS
  <2>1. ~(n - q.start < n - r.start)
    BY <1>5, <1>6
  <2> QED
    BY <1>1, <1>2, <2>1
<1> QED
  BY <1>7 DEF Newest

(* A run that starts is one more than those that have.                     *)
LEMMA StartNumber ==
  ASSUME run \in [Runs -> RunSet], NEW r \in Runs, At(r, "idle")
  PROVE  1 + Cardinality({q \in Runs : ~At(q, "idle")}) \in 1..Cardinality(Runs)
<1> DEFINE S == {q \in Runs : ~At(q, "idle")}
<1>1. IsFiniteSet(Runs) /\ S \subseteq Runs \ {r}
  BY BackupAssumption DEF At
<1>2. IsFiniteSet(Runs \ {r}) /\ Cardinality(Runs \ {r}) = Cardinality(Runs) - 1 /\ Cardinality(Runs) \in Nat
  BY <1>1, FS_RemoveElement, FS_CardinalityType
<1>3. Cardinality(S) <= Cardinality(Runs \ {r}) /\ Cardinality(S) \in Nat
  BY <1>1, <1>2, FS_Subset, FS_CardinalityType
<1> QED
  BY <1>2, <1>3

-----------------------------------------------------------------------------
(* Types.                                                                  *)

Typed ==
  /\ today \in 0..MaxDay /\ version \in Versions
  /\ objects \subseteq ObjectSet /\ rows \subseteq RowSet
  /\ DOMAIN staging \subseteq Runs /\ \A r \in DOMAIN staging : staging[r] \in Versions \cup {Damaged}
  /\ DOMAIN scratch \subseteq Runs /\ \A r \in DOMAIN scratch : scratch[r] \in Versions \cup {Damaged}
  /\ pgpass \in BOOLEAN /\ testPass \in BOOLEAN
  /\ run \in [Runs -> RunSet] /\ test \in [Tests -> TestSet]
  /\ DOMAIN throwaways \subseteq Tests /\ evidence \subseteq Tests

LEMMA TypedIs == TypeOK <=> Typed
<1>1. /\ Range(staging) \subseteq Versions \cup {Damaged}
          <=> \A r \in DOMAIN staging : staging[r] \in Versions \cup {Damaged}
      /\ Range(scratch) \subseteq Versions \cup {Damaged}
          <=> \A r \in DOMAIN scratch : scratch[r] \in Versions \cup {Damaged}
  BY RangeIs
<1> QED
  BY <1>1 DEF TypeOK, Typed, RunSet, RowSet, ObjectSet, TestSet

LEMMA TypedNext == Typed' => TypeOK'
<1>1. /\ Range(staging') \subseteq Versions \cup {Damaged}
          <=> \A r \in DOMAIN staging' : staging'[r] \in Versions \cup {Damaged}
      /\ Range(scratch') \subseteq Versions \cup {Damaged}
          <=> \A r \in DOMAIN scratch' : scratch'[r] \in Versions \cup {Damaged}
  BY RangeIs
<1> QED
  BY <1>1 DEF TypeOK, Typed, RunSet, RowSet, ObjectSet, TestSet

LEMMA BackupRunTyped ==
  ASSUME Typed, NEW r \in Runs, BackupStep(r)
  PROVE  run' \in [Runs -> RunSet] /\ \A q \in Runs : q # r => run'[q] = run[q]
<1> USE DEF RunPcs, Over
<1>1. ASSUME NEW p \in RunPcs, Goto(r, p)
      PROVE  run' \in [Runs -> RunSet] /\ \A q \in Runs : q # r => run'[q] = run[q]
  BY <1>1, GotoIs DEF Typed
<1>2. CASE Start(r)
  <2>1. PICK n : n = 1 + Cardinality({q \in Runs : ~At(q, "idle")})
    OBVIOUS
  <2>2. PICK last : last = IF rows = {} THEN None ELSE Newest(rows).archive
    OBVIOUS
  <2>3. PICK refusal \in Refusals \cup {None} :
          run' = [run EXCEPT ![r] = [pc |-> IF refusal = None THEN "checked" ELSE "failed",
                                     day |-> today, start |-> n, last |-> last, snapshot |-> 0]]
    BY <1>2, <2>1, <2>2 DEF Start
  <2>4. n \in 0..Cardinality(Runs)
    BY <1>2, <2>1, StartNumber DEF Start, Typed
  <2>5. last \in Runs \cup {None}
    <3>1. rows # {} => Newest(rows) \in RowSet
      BY NewestIsARow DEF Typed
    <3> QED
      BY <2>2, <3>1 DEF RowSet
  <2>6. 0 \in Versions /\ today \in 0..MaxDay
    BY BackupAssumption DEF Versions, Typed
  <2>7. run \in [Runs -> RunSet]
    BY DEF Typed
  <2>8. [pc |-> IF refusal = None THEN "checked" ELSE "failed",
         day |-> today, start |-> n, last |-> last, snapshot |-> 0] \in RunSet
    BY <2>4, <2>5, <2>6 DEF RunSet
  <2> QED
    BY <2>3, <2>7, <2>8
<1>3. CASE ExportSnapshot(r)
  <2>1. run' = [run EXCEPT ![r] = [run[r] EXCEPT !.pc = "counted", !.snapshot = version]]
    BY <1>3 DEF ExportSnapshot, Typed
  <2>2. run \in [Runs -> RunSet] /\ version \in Versions
    BY DEF Typed
  <2>3. [run[r] EXCEPT !.pc = "counted", !.snapshot = version] \in RunSet
    BY <2>2 DEF RunSet
  <2> QED
    BY <2>1, <2>2, <2>3
<1>4. CASE WritePgpass(r) \/ Dump(r) \/ EndDump(r) \/ Verify(r) \/ Upload(r)
  BY <1>1, <1>4 DEF WritePgpass, Dump, EndDump, Verify, Upload
<1>5. CASE UploadFails(r) \/ CopyToMonthly(r) \/ Record(r) \/ Unlink(r)
  BY <1>1, <1>5 DEF UploadFails, CopyToMonthly, Record, Unlink
<1> QED
  BY <1>2, <1>3, <1>4, <1>5 DEF BackupStep

LEMMA ObjectTyped ==
  ASSUME NEW tier \in Tiers, NEW r \in Runs, NEW data \in Versions \cup {Damaged}, today \in 0..MaxDay
  PROVE  Object(tier, r, data) \in ObjectSet
BY DEF Object, ObjectSet

LEMMA BackupTyped ==
  ASSUME BackupInv, NEW r \in Runs, BackupStep(r)
  PROVE  Typed'
<1>1. Typed
  BY TypedIs DEF BackupInv
<1>2. run' \in [Runs -> RunSet]
  BY <1>1, BackupRunTyped
<1>3. UNCHANGED testVars /\ today' = today /\ version' = version
  BY DEF BackupStep, Start, WritePgpass, ExportSnapshot, Dump, EndDump, Verify, Upload, UploadFails,
         CopyToMonthly, Record, Unlink
<1>4. pgpass' \in BOOLEAN
  BY <1>1 DEF Typed, BackupStep, Start, WritePgpass, ExportSnapshot, Dump, EndDump, Verify, Upload,
              UploadFails, CopyToMonthly, Record, Unlink
<1>5. DOMAIN staging' \subseteq Runs /\ \A q \in DOMAIN staging' : staging'[q] \in Versions \cup {Damaged}
  <2>1. CASE Dump(r)
    <3>1. run[r].snapshot \in Versions
      BY <1>1 DEF Typed, RunSet
    <3>2. ASSUME NEW data \in {run[r].snapshot, Damaged}, staging' = With(staging, r, data)
          PROVE  DOMAIN staging' \subseteq Runs /\ \A q \in DOMAIN staging' : staging'[q] \in Versions \cup {Damaged}
      BY <1>1, <3>1, <3>2 DEF Typed, With
    <3> QED
      BY <1>1, <2>1, <3>2 DEF Dump, DumpedVersion, Typed
  <2>2. CASE Unlink(r)
    BY <1>1, <2>2 DEF Unlink, Typed, Without, Restrict
  <2>3. CASE staging' = staging
    BY <1>1, <2>3 DEF Typed
  <2> QED
    BY <2>1, <2>2, <2>3 DEF BackupStep, Start, WritePgpass, ExportSnapshot, EndDump, Verify, Upload,
                            UploadFails, CopyToMonthly, Record
<1>6. objects' \subseteq ObjectSet
  <2>1. CASE Upload(r)
    <3>1. staging[r] \in Versions \cup {Damaged}
      BY <1>1, <2>1 DEF Upload, At, BackupInv, FilesAreDumps, Typed
    <3>2. PICK data \in {staging[r], Damaged} : objects' = objects \cup {Object("daily", r, data)}
      BY <2>1 DEF Upload
    <3>3. Object("daily", r, data) \in ObjectSet
      BY <1>1, <3>1, <3>2, ObjectTyped DEF Typed, Tiers
    <3> QED
      BY <1>1, <3>2, <3>3 DEF Typed
  <2>2. ASSUME NEW o \in objects, objects' = objects \cup {Object("monthly", r, o.data)}
        PROVE  objects' \subseteq ObjectSet
    <3>1. o.data \in Versions \cup {Damaged}
      BY <1>1 DEF Typed, ObjectSet
    <3>2. Object("monthly", r, o.data) \in ObjectSet
      BY <1>1, <3>1, ObjectTyped DEF Typed, Tiers
    <3> QED
      BY <1>1, <2>2, <3>2 DEF Typed
  <2>3. CASE objects' = objects
    BY <1>1, <2>3 DEF Typed
  <2> QED
    BY <2>1, <2>2, <2>3 DEF BackupStep, Start, WritePgpass, ExportSnapshot, Dump, EndDump, Verify,
                            UploadFails, CopyToMonthly, Record, Unlink
<1>7. rows' \subseteq RowSet
  <2>1. CASE Record(r)
    <3>1. run[r] \in RunSet /\ run[r].start > 0
      BY <1>1, <2>1 DEF Record, At, BackupInv, Typed
    <3>2. Cardinality(Runs) \in Nat
      BY BackupAssumption, FS_CardinalityType
    <3>3. [archive |-> r, start |-> run[r].start, day |-> run[r].day,
           content |-> run[r].snapshot, marked |-> FALSE] \in RowSet
      BY <3>1, <3>2 DEF RunSet, RowSet
    <3> QED
      BY <1>1, <2>1, <3>3 DEF Record, Typed
  <2>2. CASE rows' = rows
    BY <1>1, <2>2 DEF Typed
  <2> QED
    BY <2>1, <2>2 DEF BackupStep, Start, WritePgpass, ExportSnapshot, Dump, EndDump, Verify, Upload,
                      UploadFails, CopyToMonthly, Unlink
<1> QED
  BY <1>1, <1>2, <1>3, <1>4, <1>5, <1>6, <1>7 DEF Typed, testVars

LEMMA TestRunTyped ==
  ASSUME Typed, NEW t \in Tests, TestStep(t)
  PROVE  test' \in [Tests -> TestSet] /\ \A u \in Tests : u # t => test'[u] = test[u]
<1> USE DEF TestPcs, Over
<1>1. ASSUME NEW p \in TestPcs, TestGoto(t, p)
      PROVE  test' \in [Tests -> TestSet] /\ \A u \in Tests : u # t => test'[u] = test[u]
  BY <1>1, TestGotoIs DEF Typed
<1>2. CASE Choose(t)
  <2>1. CASE rows # {} /\ test' = [test EXCEPT ![t] = [pc |-> "chosen", record |-> Newest(rows).archive]]
    <3>1. Newest(rows).archive \in Runs
      BY <2>1, NewestIsARow DEF Typed, RowSet
    <3> QED
      BY <2>1, <3>1 DEF Typed, TestSet
  <2> QED
    BY <1>1, <1>2, <2>1 DEF Choose
<1>3. CASE Download(t) \/ Prepare(t) \/ CreateThrowaway(t) \/ Restore(t)
  BY <1>1, <1>3 DEF Download, Prepare, CreateThrowaway, Restore
<1>4. CASE Compare(t) \/ MarkVerified(t) \/ CleanUp(t)
  BY <1>1, <1>4 DEF Compare, MarkVerified, CleanUp
<1> QED
  BY <1>2, <1>3, <1>4 DEF TestStep

(* A mark changes nothing else of its row.                                 *)
Marked(q, a) == [q EXCEPT !.marked = @ \/ q.archive = a]

LEMMA MarkedIs ==
  ASSUME NEW q \in RowSet, NEW a
  PROVE  /\ Marked(q, a) \in RowSet /\ Marked(q, a).archive = q.archive
         /\ Marked(q, a).day = q.day /\ Marked(q, a).content = q.content
         /\ Marked(q, a).marked <=> (q.marked \/ q.archive = a)
BY DEF Marked, RowSet

LEMMA TestTyped ==
  ASSUME BackupInv, NEW t \in Tests, TestStep(t)
  PROVE  Typed'
<1>1. Typed
  BY TypedIs DEF BackupInv
<1>2. test' \in [Tests -> TestSet]
  BY <1>1, TestRunTyped
<1>3. UNCHANGED <<today, version, objects, backupVars>>
  BY DEF TestStep, Choose, Download, Prepare, CreateThrowaway, Restore, Compare, MarkVerified, CleanUp
<1>4. testPass' \in BOOLEAN /\ evidence' \subseteq Tests
  BY <1>1 DEF Typed, TestStep, Choose, Download, Prepare, CreateThrowaway, Restore, Compare,
              MarkVerified, CleanUp
<1>5. DOMAIN scratch' \subseteq Runs /\ \A q \in DOMAIN scratch' : scratch'[q] \in Versions \cup {Damaged}
  <2>1. ASSUME NEW o \in objects, scratch' = With(scratch, o.archive, o.data)
        PROVE  DOMAIN scratch' \subseteq Runs /\ \A q \in DOMAIN scratch' : scratch'[q] \in Versions \cup {Damaged}
    <3>1. o.archive \in Runs /\ o.data \in Versions \cup {Damaged}
      BY <1>1 DEF Typed, ObjectSet
    <3> QED
      BY <1>1, <2>1, <3>1 DEF Typed, With
  <2>2. CASE scratch' = Without(scratch, test[t].record)
    BY <1>1, <2>2 DEF Typed, Without, Restrict
  <2>3. CASE scratch' = scratch
    BY <1>1, <2>3 DEF Typed
  <2> QED
    BY <2>1, <2>2, <2>3 DEF TestStep, Choose, Download, Prepare, CreateThrowaway, Restore, Compare,
                            MarkVerified, CleanUp
<1>6. DOMAIN throwaways' \subseteq Tests
  <2>1. ASSUME NEW c, throwaways' = With(throwaways, t, c) PROVE DOMAIN throwaways' \subseteq Tests
    BY <1>1, <2>1 DEF Typed, With
  <2>2. CASE throwaways' = Without(throwaways, t)
    BY <1>1, <2>2 DEF Typed, Without, Restrict
  <2>3. CASE throwaways' = throwaways
    BY <1>1, <2>3 DEF Typed
  <2> QED
    BY <2>1, <2>2, <2>3 DEF TestStep, Choose, Download, Prepare, CreateThrowaway, Restore, Compare,
                            MarkVerified, CleanUp
<1>7. rows' \subseteq RowSet
  <2>1. CASE rows' = {Marked(q, MarkedArchive(t)) : q \in rows}
    BY <1>1, <2>1, MarkedIs DEF Typed
  <2>2. CASE rows' = rows
    BY <1>1, <2>2 DEF Typed
  <2> QED
    BY <2>1, <2>2 DEF TestStep, Choose, Download, Prepare, CreateThrowaway, Restore, Compare,
                      MarkVerified, CleanUp, Marked
<1> QED
  BY <1>1, <1>2, <1>3, <1>4, <1>5, <1>6, <1>7 DEF Typed, backupVars

LEMMA WorldTyped ==
  ASSUME BackupInv, Commit \/ NextDay \/ Expire \/ Kill
  PROVE  Typed'
<1>1. Typed
  BY TypedIs DEF BackupInv
<1>2. CASE Commit
  BY <1>1, <1>2, BackupAssumption DEF Commit, Typed, Versions, backupVars, testVars
<1>3. CASE NextDay
  BY <1>1, <1>3, BackupAssumption DEF NextDay, Typed, backupVars, testVars
<1>4. CASE Expire
  <2>1. PICK o \in objects : objects' = (objects \ {o}) \cup {[o EXCEPT !.expired = TRUE]}
    BY <1>4 DEF Expire
  <2>2. [o EXCEPT !.expired = TRUE] \in ObjectSet
    BY <1>1 DEF Typed, ObjectSet
  <2> QED
    BY <1>1, <1>4, <2>1, <2>2 DEF Expire, Typed, backupVars, testVars
<1>5. CASE Kill
  <2>1. run' \in [Runs -> RunSet] /\ test' \in [Tests -> TestSet]
    BY <1>1, <1>5, GotoIs, TestGotoIs DEF Kill, Typed, RunPcs, TestPcs, Over
  <2> QED
    BY <1>1, <1>5, <2>1 DEF Kill, Typed
<1> QED
  BY <1>2, <1>3, <1>4, <1>5

-----------------------------------------------------------------------------
(* What the runs do to the files, the bucket and the table.                *)

FileIsDump(r) ==
  /\ r \in DOMAIN staging => ~(run[r].pc \in Early) /\ staging[r] \in {run[r].snapshot, Damaged}
  /\ run[r].pc \in {"dumping", "dumped"} => r \in DOMAIN staging
  /\ run[r].pc \in {"verified"} \cup Stored => r \in DOMAIN staging /\ staging[r] = run[r].snapshot

LEMMA FilesStep ==
  ASSUME BackupInv, NEW r \in Runs, BackupStep(r)
  PROVE  FilesAreDumps'
<1> USE DEF Early, Stored
<1>1. Typed /\ run \in [Runs -> RunSet] /\ \A q \in Runs : FileIsDump(q)
  BY TypedIs DEF BackupInv, FilesAreDumps, FileIsDump, Typed
<1>2. \A q \in Runs : q # r => run'[q] = run[q]
  BY <1>1, BackupRunTyped
<1>3. ASSUME NEW p \in RunPcs, Goto(r, p)
      PROVE  run'[r].pc = p /\ run'[r].snapshot = run[r].snapshot
  BY <1>1, <1>3, GotoIs
<1>4. \A q \in Runs : q # r => /\ q \in DOMAIN staging' <=> q \in DOMAIN staging
                               /\ q \in DOMAIN staging => staging'[q] = staging[q]
  <2>1. CASE Dump(r)
    BY <2>1 DEF Dump, With
  <2>2. CASE Unlink(r)
    BY <2>2 DEF Unlink, Without, Restrict
  <2> QED
    BY <2>1, <2>2 DEF BackupStep, Start, WritePgpass, ExportSnapshot, EndDump, Verify, Upload, UploadFails,
                      CopyToMonthly, Record
<1>5. FileIsDump(r)'
  <2> USE DEF RunPcs, Over, FileIsDump, At
  <2>1. CASE Start(r)
    <3>1. r \notin DOMAIN staging /\ staging' = staging
      BY <1>1, <2>1 DEF Start
    <3>2. run'[r].pc \in {"checked", "failed"}
      BY <1>1, <2>1 DEF Start
    <3> QED
      BY <3>1, <3>2
  <2>2. CASE WritePgpass(r)
    BY <1>1, <1>3, <2>2 DEF WritePgpass
  <2>3. CASE ExportSnapshot(r)
    <3>1. r \notin DOMAIN staging /\ staging' = staging
      BY <1>1, <2>3 DEF ExportSnapshot
    <3>2. run'[r].pc = "counted"
      BY <1>1, <2>3 DEF ExportSnapshot
    <3> QED
      BY <3>1, <3>2
  <2>4. CASE Dump(r)
    <3>1. CASE Goto(r, "undumped") /\ staging' = staging
      BY <1>1, <1>3, <2>4, <3>1 DEF Dump
    <3>2. ASSUME NEW data \in {run[r].snapshot, Damaged}, staging' = With(staging, r, data), Goto(r, "dumping")
          PROVE  FileIsDump(r)'
      <4>1. r \in DOMAIN staging' /\ staging'[r] = data
        BY <3>2 DEF With
      <4> QED
        BY <1>3, <3>2, <4>1
    <3> QED
      BY <2>4, <3>1, <3>2 DEF Dump, DumpedVersion
  <2>5. CASE EndDump(r)
    BY <1>1, <1>3, <2>5 DEF EndDump
  <2>6. CASE Verify(r)
    BY <1>1, <1>3, <2>6 DEF Verify
  <2>7. CASE Upload(r) \/ UploadFails(r)
    BY <1>1, <1>3, <2>7 DEF Upload, UploadFails
  <2>8. CASE CopyToMonthly(r) \/ Record(r)
    BY <1>1, <1>3, <2>8 DEF CopyToMonthly, Record
  <2>9. CASE Unlink(r)
    <3>1. r \notin DOMAIN staging'
      BY <2>9 DEF Unlink, Without, Restrict
    <3>2. run'[r].pc = "done"
      BY <1>3, <2>9 DEF Unlink
    <3> QED
      BY <3>1, <3>2
  <2> QED
    BY <2>1, <2>2, <2>3, <2>4, <2>5, <2>6, <2>7, <2>8, <2>9 DEF BackupStep
<1>6. \A q \in Runs : FileIsDump(q)'
  BY <1>1, <1>2, <1>4, <1>5 DEF FileIsDump
<1> QED
  BY <1>6 DEF FilesAreDumps, FileIsDump

(* What the steps before the bucket leave alone.                           *)
LEMMA EarlyStep ==
  ASSUME BackupInv, NEW r \in Runs,
         \/ Start(r) \/ WritePgpass(r) \/ ExportSnapshot(r) \/ Dump(r) \/ EndDump(r) \/ Verify(r)
         \/ UploadFails(r)
  PROVE  /\ run[r].pc \in Before /\ run'[r].pc \in Before \cup {"failed"}
         /\ UNCHANGED <<today, objects, rows>>
         /\ \A q \in Runs : q # r => run'[q] = run[q]
<1> USE DEF Before, Early, RunPcs, Over, At
<1>1. Typed /\ run \in [Runs -> RunSet]
  BY TypedIs DEF BackupInv, Typed
<1>2. BackupStep(r)
  BY DEF BackupStep
<1>3. \A q \in Runs : q # r => run'[q] = run[q]
  BY <1>1, <1>2, BackupRunTyped
<1>4. UNCHANGED <<today, objects, rows>>
  BY DEF Start, WritePgpass, ExportSnapshot, Dump, EndDump, Verify, UploadFails
<1>5. ASSUME NEW p \in RunPcs, Goto(r, p) PROVE run'[r].pc = p
  BY <1>1, <1>5, GotoIs
<1>6. run[r].pc \in Before /\ run'[r].pc \in Before \cup {"failed"}
  <2>1. CASE Start(r)
    <3>1. run'[r].pc \in {"checked", "failed"}
      BY <1>1, <2>1 DEF Start
    <3> QED
      BY <2>1, <3>1 DEF Start
  <2>2. CASE ExportSnapshot(r)
    <3>1. run'[r].pc = "counted"
      BY <1>1, <2>2 DEF ExportSnapshot
    <3> QED
      BY <2>2, <3>1 DEF ExportSnapshot
  <2>3. CASE WritePgpass(r)
    BY <1>5, <2>3 DEF WritePgpass
  <2>4. CASE Dump(r)
    BY <1>5, <2>4 DEF Dump
  <2>5. CASE EndDump(r)
    BY <1>5, <2>5 DEF EndDump
  <2>6. CASE Verify(r)
    BY <1>5, <2>6 DEF Verify
  <2>7. CASE UploadFails(r)
    BY <1>5, <2>7 DEF UploadFails
  <2> QED
    BY <2>1, <2>2, <2>3, <2>4, <2>5, <2>6, <2>7
<1> QED
  BY <1>3, <1>4, <1>6

(* A run that has put nothing in the bucket has no object and no row.      *)
LEMMA NothingBefore ==
  ASSUME BackupInv, NEW r \in Runs, run[r].pc \in Before
  PROVE  (\A o \in objects : o.archive # r) /\ (\A q \in rows : q.archive # r)
BY DEF BackupInv, ObjectsAreDumps, RowsAreTrue, Before, Early

LEMMA Archives ==
  ASSUME BackupInv
  PROVE  /\ \A o \in objects : o.archive \in Runs /\ o \in ObjectSet
         /\ \A q \in rows : q.archive \in Runs /\ q \in RowSet
BY TypedIs DEF BackupInv, Typed, ObjectSet, RowSet

LEMMA EarlyKeeps ==
  ASSUME BackupInv, NEW r \in Runs,
         \/ Start(r) \/ WritePgpass(r) \/ ExportSnapshot(r) \/ Dump(r) \/ EndDump(r) \/ Verify(r)
         \/ UploadFails(r)
  PROVE  ObjectsAreDumps' /\ RowsAreTrue'
<1>1. /\ run[r].pc \in Before /\ run'[r].pc \in Before \cup {"failed"}
      /\ UNCHANGED <<today, objects, rows>>
      /\ \A q \in Runs : q # r => run'[q] = run[q]
  BY EarlyStep
<1>2. \A o \in objects : o.archive \in Runs /\ o.archive # r
  BY <1>1, NothingBefore, Archives
<1>3. \A q \in rows : q.archive \in Runs /\ q.archive # r
  BY <1>1, NothingBefore, Archives
<1>4. \A tier, q : q \in Runs /\ q # r => (Holds(tier, q)' <=> Holds(tier, q))
  BY <1>1 DEF Holds
<1>5. ObjectsAreDumps /\ RowsAreTrue
  BY DEF BackupInv
<1>6. ObjectsAreDumps'
  <2>1. \A o \in objects : run'[o.archive] = run[o.archive]
    BY <1>1, <1>2
  <2>2. ASSUME NEW q \in Runs
        PROVE  /\ run'[q].pc \in Stored => Holds("daily", q)'
               /\ run'[q].pc = "copied" => Holds("monthly", q)'
    <3>1. CASE q = r
      BY <1>1, <3>1 DEF Stored, Before, Early
    <3>2. CASE q # r
      BY <1>1, <1>4, <1>5, <3>2 DEF ObjectsAreDumps
    <3> QED
      BY <3>1, <3>2
  <2> QED
    BY <1>1, <1>5, <2>1, <2>2 DEF ObjectsAreDumps
<1>7. RowsAreTrue'
  <2>1. ASSUME NEW q \in rows
        PROVE  /\ run'[q.archive] = run[q.archive]
               /\ Holds("daily", q.archive)' /\ (q.day \in FirstDays => Holds("monthly", q.archive)')
    BY <1>1, <1>3, <1>4, <1>5 DEF RowsAreTrue
  <2>2. ASSUME NEW q \in Runs, run'[q].pc = "recorded" PROVE \E x \in rows : x.archive = q
    <3>1. q # r
      BY <1>1, <2>2 DEF Before, Early
    <3> QED
      BY <1>1, <1>5, <2>2, <3>1 DEF RowsAreTrue
  <2> QED
    BY <1>1, <1>5, <2>1, <2>2 DEF RowsAreTrue
<1> QED
  BY <1>6, <1>7

(* A step that changes only where a run stands, and may add to the bucket. *)
LEMMA HoldsGrows ==
  ASSUME objects \subseteq objects', \A q \in Runs : run'[q].snapshot = run[q].snapshot
  PROVE  \A tier : \A q \in Runs : Holds(tier, q) => Holds(tier, q)'
BY DEF Holds

LEMMA MovesOnly ==
  ASSUME BackupInv, NEW r \in Runs, NEW p \in RunPcs, Goto(r, p)
  PROVE  /\ run'[r].pc = p /\ \A q \in Runs : q # r => run'[q].pc = run[q].pc
         /\ \A q \in Runs : run'[q].snapshot = run[q].snapshot /\ run'[q].day = run[q].day
BY TypedIs, GotoIs DEF BackupInv, Typed

LEMMA UploadKeeps ==
  ASSUME BackupInv, NEW r \in Runs, Upload(r)
  PROVE  ObjectsAreDumps' /\ RowsAreTrue'
<1>1. run[r].pc = "verified" /\ rows' = rows /\ today' = today
  BY DEF Upload, At
<1>2. staging[r] = run[r].snapshot
  BY <1>1 DEF BackupInv, FilesAreDumps
<1>3. PICK data \in {run[r].snapshot, Damaged} :
        /\ objects' = objects \cup {Object("daily", r, data)}
        /\ Goto(r, IF data = run[r].snapshot THEN "uploaded" ELSE "failed")
  BY <1>2 DEF Upload
<1> DEFINE p == IF data = run[r].snapshot THEN "uploaded" ELSE "failed"
           new == Object("daily", r, data)
<1>4. /\ run'[r].pc = p /\ \A q \in Runs : q # r => run'[q].pc = run[q].pc
      /\ \A q \in Runs : run'[q].snapshot = run[q].snapshot /\ run'[q].day = run[q].day
  BY <1>3, MovesOnly DEF RunPcs, Over
<1>5. p \in {"uploaded", "failed"} /\ (p = "uploaded" => data = run[r].snapshot)
  OBVIOUS
<1>6. new.tier = "daily" /\ new.archive = r /\ new.data = data /\ new.day = today /\ ~new.expired
  BY DEF Object
<1>7. objects' = objects \cup {new}
  BY <1>3
<1> HIDE DEF p, new
<1>8. (\A o \in objects : o.archive # r) /\ (\A q \in rows : q.archive # r)
  BY <1>1, NothingBefore DEF Before
<1>9. \A tier : \A q \in Runs : Holds(tier, q) => Holds(tier, q)'
  BY <1>4, <1>7, HoldsGrows
<1>10. ObjectsAreDumps /\ RowsAreTrue /\ run[r].day <= today
  BY DEF BackupInv
<1>11. ObjectsAreDumps'
  <2>1. ASSUME NEW o \in objects
        PROVE  /\ run'[o.archive].pc \notin Before /\ run'[o.archive].day <= o.day
               /\ o.data \in {run'[o.archive].snapshot, Damaged}
               /\ o.expired => o.tier = "daily" /\ today' - o.day >= DailyKept
    BY <1>1, <1>4, <1>8, <1>10, Archives DEF ObjectsAreDumps
  <2>2. /\ run'[new.archive].pc \notin Before /\ run'[new.archive].day <= new.day
        /\ new.data \in {run'[new.archive].snapshot, Damaged} /\ ~new.expired
    BY <1>4, <1>5, <1>6, <1>10 DEF Before, Early
  <2>3. \A o, x \in objects' : o.tier = "daily" /\ x.tier = "daily" /\ o.archive = x.archive => o = x
    BY <1>6, <1>7, <1>8, <1>10 DEF ObjectsAreDumps
  <2>4. ASSUME NEW q \in Runs
        PROVE  /\ run'[q].pc \in Stored => Holds("daily", q)'
               /\ run'[q].pc = "copied" => Holds("monthly", q)'
    <3>1. CASE q = r
      BY <1>4, <1>5, <1>6, <1>7, <3>1 DEF Stored, Holds
    <3>2. CASE q # r
      BY <1>4, <1>9, <1>10, <3>2 DEF ObjectsAreDumps
    <3> QED
      BY <3>1, <3>2
  <2> QED
    BY <1>7, <2>1, <2>2, <2>3, <2>4 DEF ObjectsAreDumps
<1>12. RowsAreTrue'
  <2>1. \A q \in Runs : run'[q].pc = "recorded" => run[q].pc = "recorded"
    BY <1>4, <1>5
  <2> QED
    BY <1>1, <1>4, <1>8, <1>9, <1>10, <2>1, Archives DEF RowsAreTrue
<1> QED
  BY <1>11, <1>12

LEMMA CopyKeeps ==
  ASSUME BackupInv, NEW r \in Runs, CopyToMonthly(r)
  PROVE  ObjectsAreDumps' /\ RowsAreTrue'
<1>1. run[r].pc = "uploaded" /\ rows' = rows /\ today' = today
  BY DEF CopyToMonthly, At
<1>2. ObjectsAreDumps /\ RowsAreTrue /\ run[r].day <= today
  BY DEF BackupInv
<1>3. PICK p \in {"copied", "failed"} : Goto(r, p) /\ (p = "failed" => objects' = objects)
        /\ (p = "copied" => \E o \in objects : /\ o.archive = r /\ o.tier = "daily"
                                               /\ objects' = objects \cup {Object("monthly", r, o.data)})
  BY DEF CopyToMonthly
<1>4. /\ run'[r].pc = p /\ \A q \in Runs : q # r => run'[q].pc = run[q].pc
      /\ \A q \in Runs : run'[q].snapshot = run[q].snapshot /\ run'[q].day = run[q].day
  BY <1>3, MovesOnly DEF RunPcs, Over
<1>5. \A o \in objects : o.tier = "daily" /\ o.archive = r => o.data = run[r].snapshot
  BY <1>1, <1>2 DEF ObjectsAreDumps, Stored, Holds
<1>6. PICK new : /\ new.tier = "monthly" /\ new.archive = r /\ new.data = run[r].snapshot
                 /\ new.day = today /\ new.expired = FALSE
                 /\ p = "copied" => objects' = objects \cup {new}
  <2>1. p = "copied" => objects' = objects \cup {Object("monthly", r, run[r].snapshot)}
    BY <1>3, <1>5
  <2>2. PICK o : o = Object("monthly", r, run[r].snapshot)
    OBVIOUS
  <2>3. /\ o.tier = "monthly" /\ o.archive = r /\ o.data = run[r].snapshot
        /\ o.day = today /\ o.expired = FALSE
    BY <2>2 DEF Object
  <2> QED
    BY <2>1, <2>2, <2>3
<1>7. objects \subseteq objects' /\ objects' \subseteq objects \cup {new} /\ (p = "copied" => new \in objects')
  BY <1>3, <1>6
<1>8. \A tier : \A q \in Runs : Holds(tier, q) => Holds(tier, q)'
  BY <1>4, <1>7, HoldsGrows
<1>9. run'[r].pc \notin Before /\ run'[r].pc # "recorded"
  BY <1>3, <1>4 DEF Before, Early
<1>10. ObjectsAreDumps'
  <2>1. ASSUME NEW o \in objects
        PROVE  /\ run'[o.archive].pc \notin Before /\ run'[o.archive].day <= o.day
               /\ o.data \in {run'[o.archive].snapshot, Damaged}
               /\ o.expired => o.tier = "daily" /\ today' - o.day >= DailyKept
    BY <1>1, <1>2, <1>4, <1>9, Archives DEF ObjectsAreDumps
  <2>2. /\ run'[new.archive].pc \notin Before /\ run'[new.archive].day <= new.day
        /\ new.data \in {run'[new.archive].snapshot, Damaged} /\ ~new.expired
    BY <1>2, <1>4, <1>6, <1>9
  <2>3. \A o, x \in objects' : o.tier = "daily" /\ x.tier = "daily" /\ o.archive = x.archive => o = x
    BY <1>2, <1>6, <1>7 DEF ObjectsAreDumps
  <2>4. ASSUME NEW q \in Runs
        PROVE  /\ run'[q].pc \in Stored => Holds("daily", q)'
               /\ run'[q].pc = "copied" => Holds("monthly", q)'
    <3>1. CASE q = r
      <4>1. Holds("daily", r)'
        BY <1>1, <1>2, <1>8 DEF ObjectsAreDumps, Stored
      <4>2. p = "copied" => Holds("monthly", r)'
        BY <1>4, <1>6, <1>7 DEF Holds
      <4> QED
        BY <1>4, <3>1, <4>1, <4>2
    <3>2. CASE q # r
      BY <1>2, <1>4, <1>8, <3>2 DEF ObjectsAreDumps
    <3> QED
      BY <3>1, <3>2
  <2> QED
    BY <1>7, <2>1, <2>2, <2>3, <2>4 DEF ObjectsAreDumps
<1>11. RowsAreTrue'
  <2>1. \A q \in rows : q.archive # r /\ q.archive \in Runs
    BY <1>1, <1>2, Archives DEF RowsAreTrue
  <2>2. \A q \in Runs : run'[q].pc = "recorded" => run[q].pc = "recorded"
    BY <1>4, <1>9
  <2> QED
    BY <1>1, <1>2, <1>4, <1>8, <2>1, <2>2 DEF RowsAreTrue
<1> QED
  BY <1>10, <1>11

LEMMA RecordKeeps ==
  ASSUME BackupInv, NEW r \in Runs, Record(r)
  PROVE  ObjectsAreDumps' /\ RowsAreTrue'
<1>1. /\ run[r].pc = "copied" \/ (run[r].pc = "uploaded" /\ run[r].day \notin FirstDays)
      /\ objects' = objects /\ today' = today
  BY DEF Record, At
<1>2. ObjectsAreDumps /\ RowsAreTrue
  BY DEF BackupInv
<1>3. PICK p \in {"recorded", "failed"} : Goto(r, p) /\ (p = "failed" => rows' = rows)
        /\ (p = "recorded" => rows' = rows \cup {[archive |-> r, start |-> run[r].start, day |-> run[r].day,
                                                  content |-> run[r].snapshot, marked |-> FALSE]})
  BY DEF Record
<1>4. /\ run'[r].pc = p /\ \A q \in Runs : q # r => run'[q].pc = run[q].pc
      /\ \A q \in Runs : run'[q].snapshot = run[q].snapshot /\ run'[q].day = run[q].day
  BY <1>3, MovesOnly DEF RunPcs, Over
<1>5. PICK new : /\ new.archive = r /\ new.day = run[r].day /\ new.content = run[r].snapshot
                 /\ p = "recorded" => rows' = rows \cup {new}
  <2>1. PICK q : q = [archive |-> r, start |-> run[r].start, day |-> run[r].day,
                      content |-> run[r].snapshot, marked |-> FALSE]
    OBVIOUS
  <2>2. q.archive = r /\ q.day = run[r].day /\ q.content = run[r].snapshot
    BY <2>1
  <2> QED
    BY <1>3, <2>1, <2>2
<1>6. \A tier : \A q \in Runs : Holds(tier, q) <=> Holds(tier, q)'
  BY <1>1, <1>4 DEF Holds
<1>7. Holds("daily", r) /\ (run[r].day \in FirstDays => Holds("monthly", r))
  BY <1>1, <1>2 DEF ObjectsAreDumps, Stored
<1>8. \A q \in rows : q.archive # r /\ q.archive \in Runs
  BY <1>1, <1>2, Archives DEF RowsAreTrue
<1>9. ObjectsAreDumps'
  <2>1. ASSUME NEW o \in objects
        PROVE  /\ run'[o.archive].pc \notin Before /\ run'[o.archive].day <= o.day
               /\ o.data \in {run'[o.archive].snapshot, Damaged}
               /\ o.expired => o.tier = "daily" /\ today' - o.day >= DailyKept
    BY <1>1, <1>2, <1>3, <1>4, Archives DEF ObjectsAreDumps, Before, Early
  <2>2. ASSUME NEW q \in Runs
        PROVE  /\ run'[q].pc \in Stored => Holds("daily", q)'
               /\ run'[q].pc = "copied" => Holds("monthly", q)'
    <3>1. CASE q = r
      BY <1>3, <1>4, <1>6, <1>7, <3>1
    <3>2. CASE q # r
      BY <1>2, <1>4, <1>6, <3>2 DEF ObjectsAreDumps
    <3> QED
      BY <3>1, <3>2
  <2> QED
    BY <1>1, <1>2, <2>1, <2>2 DEF ObjectsAreDumps
<1>10. RowsAreTrue'
  <2>1. rows \subseteq rows' /\ rows' \subseteq rows \cup {new} /\ (p = "recorded" <=> new \in rows')
    BY <1>3, <1>5, <1>8
  <2>2. ASSUME NEW q \in rows
        PROVE  /\ run'[q.archive].pc \in {"recorded", "done", "killed"}
               /\ q.day = run'[q.archive].day /\ q.content = run'[q.archive].snapshot
               /\ Holds("daily", q.archive)' /\ (q.day \in FirstDays => Holds("monthly", q.archive)')
    BY <1>2, <1>4, <1>6, <1>8 DEF RowsAreTrue
  <2>3. p = "recorded" =>
           /\ run'[new.archive].pc = "recorded"
           /\ new.day = run'[new.archive].day /\ new.content = run'[new.archive].snapshot
           /\ Holds("daily", new.archive)' /\ (new.day \in FirstDays => Holds("monthly", new.archive)')
    BY <1>4, <1>5, <1>6, <1>7
  <2>4. \A x, q \in rows' : x.archive = q.archive => x = q
    BY <1>2, <1>5, <1>8, <2>1 DEF RowsAreTrue
  <2>5. ASSUME NEW q \in Runs, run'[q].pc = "recorded" PROVE \E x \in rows' : x.archive = q
    <3>1. CASE q = r
      BY <1>4, <1>5, <2>1, <2>5, <3>1
    <3>2. CASE q # r
      BY <1>2, <1>4, <2>1, <2>5, <3>2 DEF RowsAreTrue
    <3> QED
      BY <3>1, <3>2
  <2>6. \A q \in rows' : q \in rows \/ (q = new /\ p = "recorded")
    BY <2>1
  <2> QED
    BY <2>2, <2>3, <2>4, <2>5, <2>6 DEF RowsAreTrue
<1> QED
  BY <1>9, <1>10

(* Steps of runs that leave the bucket and the table alone: an end, a kill. *)
LEMMA EndKeeps ==
  ASSUME BackupInv, UNCHANGED <<objects, rows, today>>,
         NEW r \in Runs, NEW p \in {"done", "killed"}, Goto(r, p),
         p = "done" => run[r].pc = "recorded",
         run[r].pc \notin Over \cup {"idle"}
  PROVE  ObjectsAreDumps' /\ RowsAreTrue'
<1>1. /\ run'[r].pc = p /\ \A q \in Runs : q # r => run'[q].pc = run[q].pc
      /\ \A q \in Runs : run'[q].snapshot = run[q].snapshot /\ run'[q].day = run[q].day
  BY MovesOnly DEF RunPcs, Over
<1>2. ObjectsAreDumps /\ RowsAreTrue
  BY DEF BackupInv
<1>3. \A tier : \A q \in Runs : Holds(tier, q) <=> Holds(tier, q)'
  BY <1>1 DEF Holds
<1>4. ObjectsAreDumps'
  <2>1. ASSUME NEW o \in objects
        PROVE  /\ run'[o.archive].pc \notin Before /\ run'[o.archive].day <= o.day
               /\ o.data \in {run'[o.archive].snapshot, Damaged}
               /\ o.expired => o.tier = "daily" /\ today' - o.day >= DailyKept
    BY <1>1, <1>2, Archives DEF ObjectsAreDumps, Before, Early
  <2>2. \A q \in Runs : /\ run'[q].pc \in Stored => run[q].pc = run'[q].pc
                        /\ run'[q].pc = "copied" => run[q].pc = run'[q].pc
    BY <1>1 DEF Stored
  <2> QED
    BY <1>2, <1>3, <2>1, <2>2 DEF ObjectsAreDumps
<1>5. RowsAreTrue'
  <2>1. \A q \in Runs : run'[q].pc = "recorded" => run[q].pc = "recorded"
    BY <1>1
  <2>2. ASSUME NEW q \in rows
        PROVE  /\ run'[q.archive].pc \in {"recorded", "done", "killed"}
               /\ q.day = run'[q.archive].day /\ q.content = run'[q.archive].snapshot
    BY <1>1, <1>2, Archives DEF RowsAreTrue
  <2> QED
    BY <1>2, <1>3, <2>1, <2>2, Archives DEF RowsAreTrue
<1> QED
  BY <1>4, <1>5

LEMMA BackupKeeps ==
  ASSUME BackupInv, NEW r \in Runs, BackupStep(r)
  PROVE  ObjectsAreDumps' /\ RowsAreTrue'
<1>1. CASE Unlink(r)
  BY <1>1, EndKeeps DEF Unlink, At, Over
<1> QED
  BY <1>1, EarlyKeeps, UploadKeeps, CopyKeeps, RecordKeeps DEF BackupStep

(* A row stays, and so does what its run dumped.                           *)
LEMMA BackupRowsGrow ==
  ASSUME BackupInv, NEW r \in Runs, BackupStep(r)
  PROVE  rows \subseteq rows' /\ \A q \in rows : run'[q.archive].snapshot = run[q.archive].snapshot
<1>1. rows \subseteq rows'
  BY DEF BackupStep, Start, WritePgpass, ExportSnapshot, Dump, EndDump, Verify, Upload, UploadFails,
         CopyToMonthly, Record, Unlink
<1>2. ASSUME NEW q \in rows PROVE run'[q.archive].snapshot = run[q.archive].snapshot
  <2>1. q.archive \in Runs /\ run[q.archive].pc \in {"recorded", "done", "killed"}
    BY <1>2, Archives DEF BackupInv, RowsAreTrue
  <2>2. CASE q.archive # r
    BY <2>1, <2>2, TypedIs, BackupRunTyped DEF BackupInv
  <2>3. CASE q.archive = r
    <3>1. Unlink(r)
      BY <2>1, <2>3 DEF BackupStep, Start, WritePgpass, ExportSnapshot, Dump, EndDump, Verify, Upload,
                        UploadFails, CopyToMonthly, Record, At
    <3> QED
      BY <2>3, <3>1, MovesOnly DEF Unlink, RunPcs, Over
  <2> QED
    BY <2>2, <2>3
<1> QED
  BY <1>1, <1>2

-----------------------------------------------------------------------------
(* What a restore test does to the table, and to its own database.         *)

LEMMA MarkKeeps ==
  ASSUME BackupInv, NEW a, rows' = {Marked(q, a) : q \in rows},
         UNCHANGED <<today, objects, run>>
  PROVE  RowsAreTrue'
<1>1. RowsAreTrue
  BY DEF BackupInv
<1>2. \A q \in rows : /\ Marked(q, a).archive = q.archive /\ Marked(q, a).day = q.day
                      /\ Marked(q, a).content = q.content
  BY Archives, MarkedIs
<1>3. \A q \in rows' : \E x \in rows : q = Marked(x, a)
  OBVIOUS
<1>4. \A q \in rows : Marked(q, a) \in rows'
  OBVIOUS
<1>5. \A tier, q : Holds(tier, q)' <=> Holds(tier, q)
  BY DEF Holds
<1>6. ASSUME NEW q \in rows'
      PROVE  /\ run[q.archive].pc \in {"recorded", "done", "killed"}
             /\ q.day = run[q.archive].day /\ q.content = run[q.archive].snapshot
             /\ Holds("daily", q.archive)' /\ (q.day \in FirstDays => Holds("monthly", q.archive)')
  <2>1. PICK x \in rows : q = Marked(x, a)
    BY <1>3
  <2> QED
    BY <1>1, <1>2, <1>5, <2>1 DEF RowsAreTrue
<1>7. \A x, q \in rows' : x.archive = q.archive => x = q
  <2> SUFFICES ASSUME NEW x \in rows', NEW q \in rows', x.archive = q.archive PROVE x = q
    OBVIOUS
  <2>1. PICK y \in rows : x = Marked(y, a)
    BY <1>3
  <2>2. PICK z \in rows : q = Marked(z, a)
    BY <1>3
  <2>3. y = z
    BY <1>1, <1>2, <2>1, <2>2 DEF RowsAreTrue
  <2> QED
    BY <2>1, <2>2, <2>3
<1>8. ASSUME NEW q \in Runs, run'[q].pc = "recorded" PROVE \E x \in rows' : x.archive = q
  <2>1. PICK x \in rows : x.archive = q
    BY <1>1, <1>8 DEF RowsAreTrue
  <2> QED
    BY <1>2, <1>4, <2>1
<1> QED
  BY <1>6, <1>7, <1>8 DEF RowsAreTrue

LEMMA TestStepKeeps ==
  ASSUME BackupInv, NEW t \in Tests, TestStep(t)
  PROVE  /\ FilesAreDumps' /\ ObjectsAreDumps' /\ RowsAreTrue'
         /\ UNCHANGED <<today, objects, backupVars>>
         /\ \A q \in rows : \E x \in rows' : x.archive = q.archive
         /\ rows' = rows \/ (MarkVerified(t) /\ rows' = {Marked(q, test[t].record) : q \in rows})
<1>1. UNCHANGED <<today, objects, staging, pgpass, run>>
  BY DEF TestStep, Choose, Download, Prepare, CreateThrowaway, Restore, Compare, MarkVerified, CleanUp,
         backupVars
<1>2. FilesAreDumps' /\ ObjectsAreDumps'
  BY <1>1 DEF BackupInv, FilesAreDumps, ObjectsAreDumps, Holds
<1>3. rows' = rows \/ (MarkVerified(t) /\ rows' = {Marked(q, test[t].record) : q \in rows})
  <2>1. MarkVerified(t) => rows' = rows \/ rows' = {Marked(q, test[t].record) : q \in rows}
    BY DEF MarkVerified, Marked, MarkedArchive
  <2> QED
    BY <2>1 DEF TestStep, Choose, Download, Prepare, CreateThrowaway, Restore, Compare, CleanUp
<1>4. RowsAreTrue'
  <2>1. CASE rows' = rows
    BY <1>1, <2>1 DEF BackupInv, RowsAreTrue, Holds
  <2> QED
    BY <1>1, <1>3, <2>1, MarkKeeps
<1>5. \A q \in rows : \E x \in rows' : x.archive = q.archive
  <2>1. ASSUME NEW q \in rows, rows' = {Marked(x, test[t].record) : x \in rows}
        PROVE  \E x \in rows' : x.archive = q.archive
    <3>1. Marked(q, test[t].record).archive = q.archive
      BY Archives, MarkedIs
    <3> QED
      BY <2>1, <3>1
  <2> QED
    BY <1>3, <2>1
<1> QED
  BY <1>1, <1>2, <1>3, <1>4, <1>5 DEF backupVars

(* The row of an archive says what its run dumped.                         *)
LEMMA RowOfIs ==
  ASSUME BackupInv, NEW a, \E q \in rows : q.archive = a
  PROVE  RowOf(a) \in rows /\ RowOf(a).archive = a /\ RowOf(a).content = run[a].snapshot
<1>1. RowOf(a) \in rows /\ RowOf(a).archive = a
  BY DEF RowOf
<1> QED
  BY <1>1 DEF BackupInv, RowsAreTrue

(* A restored database that agrees with the counts is the whole one.       *)
LEMMA AgreeIsWhole ==
  ASSUME NEW c, NEW f, f = [x \in DOMAIN f |-> f[x]], CountsAgree(c, f)
  PROVE  f = Restored(c)
<1>1. DOMAIN c = DOMAIN f
  BY DEF CountsAgree
<1>2. \A x \in DOMAIN c : f[x] = IF x = SchedulerTable THEN 0 ELSE c[x]
  BY DEF CountsAgree
<1>3. [x \in DOMAIN f |-> f[x]] = [x \in DOMAIN c |-> IF x = SchedulerTable THEN 0 ELSE c[x]]
  BY <1>1, <1>2
<1> QED
  BY <1>3 DEF Restored

LEMMA LossesAreFunctions ==
  ASSUME NEW c, NEW f \in {Restored(c)} \cup Losses(Restored(c))
  PROVE  f = [x \in DOMAIN f |-> f[x]]
<1> DEFINE w == Restored(c)
<1>1. w = [x \in DOMAIN w |-> w[x]]
  BY DEF Restored
<1> HIDE DEF w
<1>2. \A x : Without(w, x) = [y \in DOMAIN Without(w, x) |-> Without(w, x)[y]]
  BY DEF Without, Restrict
<1>3. \A x : LET g == [w EXCEPT ![x] = @ - 1] IN g = [y \in DOMAIN g |-> g[y]]
  BY <1>1
<1>4. f = w \/ (\E x \in DOMAIN w : f = Without(w, x)) \/ (\E x \in DOMAIN w : f = [w EXCEPT ![x] = @ - 1])
  BY DEF w, Losses
<1> QED
  BY <1>1, <1>2, <1>3, <1>4

TestIsTrue(t) ==
  /\ test[t].pc \notin {"idle", "failed", "killed"} => \E q \in rows : q.archive = test[t].record
  /\ test[t].pc \in {"restored", "compared"} =>
       t \in DOMAIN throwaways /\ throwaways[t] = [x \in DOMAIN throwaways[t] |-> throwaways[t][x]]
  /\ test[t].pc = "compared" => throwaways[t] = Restored(Content[run[test[t].record].snapshot])
  /\ t \in DOMAIN throwaways =>
       \/ test[t].pc \in {"created", "restored", "wrong", "compared", "marked", "uncreated", "undropped", "killed"}
       \/ test[t].pc = "failed" /\ t \in evidence

LEMMA OwnTestStep ==
  ASSUME BackupInv, NEW t \in Tests, TestStep(t)
  PROVE  TestIsTrue(t)'
<1> USE DEF TestPcs, Over, TestAt
<1>1. test \in [Tests -> TestSet] /\ TestIsTrue(t)
  BY TypedIs DEF BackupInv, Typed, TestsAreTrue, TestIsTrue
<1>2. ASSUME NEW p \in TestPcs, TestGoto(t, p)
      PROVE  test'[t].pc = p /\ test'[t].record = test[t].record
  BY <1>1, <1>2, TestGotoIs
<1>3. run' = run /\ \A a : (\E q \in rows : q.archive = a) => \E q \in rows' : q.archive = a
  BY TestStepKeeps DEF backupVars
<1>4. CASE Choose(t)
  <2>1. throwaways' = throwaways /\ rows' = rows /\ t \notin DOMAIN throwaways
    BY <1>1, <1>4 DEF Choose, TestIsTrue
  <2>2. CASE TestGoto(t, "failed")
    BY <1>2, <2>1, <2>2 DEF TestIsTrue
  <2>3. CASE rows # {} /\ test' = [test EXCEPT ![t] = [pc |-> "chosen", record |-> Newest(rows).archive]]
    <3>1. Newest(rows) \in rows
      BY <2>3, TypedIs, NewestIsARow DEF BackupInv, Typed
    <3>2. test'[t].pc = "chosen" /\ test'[t].record = Newest(rows).archive
      BY <1>1, <2>3
    <3> QED
      BY <2>1, <3>1, <3>2 DEF TestIsTrue
  <2> QED
    BY <1>4, <2>2, <2>3 DEF Choose
<1>5. CASE Download(t) \/ Prepare(t)
  <2>1. throwaways' = throwaways /\ t \notin DOMAIN throwaways
    BY <1>1, <1>5 DEF Download, Prepare, TestIsTrue
  <2>2. PICK p \in {"downloaded", "prepared", "failed"} : TestGoto(t, p)
    BY <1>5 DEF Download, Prepare
  <2>3. \E q \in rows : q.archive = test[t].record
    BY <1>1, <1>5 DEF Download, Prepare, TestIsTrue
  <2> QED
    BY <1>2, <1>3, <2>1, <2>2, <2>3 DEF TestIsTrue
<1>6. CASE CreateThrowaway(t)
  <2>1. t \notin DOMAIN throwaways /\ \E q \in rows : q.archive = test[t].record
    BY <1>1, <1>6 DEF CreateThrowaway, TestIsTrue
  <2>2. CASE TestGoto(t, "created")
    BY <1>2, <1>3, <2>1, <2>2 DEF TestIsTrue
  <2>3. CASE TestGoto(t, "failed") /\ throwaways' = throwaways
    BY <1>2, <2>1, <2>3 DEF TestIsTrue
  <2>4. CASE TestGoto(t, "uncreated")
    BY <1>2, <1>3, <2>1, <2>4 DEF TestIsTrue
  <2> QED
    BY <1>6, <2>2, <2>3, <2>4 DEF CreateThrowaway
<1>7. CASE Restore(t)
  <2>1. \E q \in rows' : q.archive = test[t].record
    BY <1>1, <1>3, <1>7 DEF Restore, TestIsTrue
  <2>2. CASE TestGoto(t, "wrong")
    BY <1>2, <2>1, <2>2 DEF TestIsTrue
  <2>3. CASE /\ \E c \in {Restored(Content[scratch[test[t].record]])}
                          \cup Losses(Restored(Content[scratch[test[t].record]])) :
                   throwaways' = With(throwaways, t, c)
             /\ TestGoto(t, "restored")
    <3>1. PICK c \in {Restored(Content[scratch[test[t].record]])}
                       \cup Losses(Restored(Content[scratch[test[t].record]])) :
                throwaways' = With(throwaways, t, c)
      BY <2>3
    <3>2. c = [x \in DOMAIN c |-> c[x]]
      BY LossesAreFunctions
    <3>3. t \in DOMAIN throwaways' /\ throwaways'[t] = c
      BY <3>1 DEF With
    <3>4. test'[t].pc = "restored" /\ test'[t].record = test[t].record
      BY <1>2, <2>3
    <3> QED
      BY <2>1, <3>2, <3>3, <3>4 DEF TestIsTrue
  <2> QED
    BY <1>7, <2>2, <2>3 DEF Restore
<1>8. CASE Compare(t)
  <2>1. \E q \in rows : q.archive = test[t].record
    BY <1>1, <1>8 DEF Compare, TestIsTrue
  <2>2. rows' = rows /\ throwaways' = throwaways
    BY <1>8 DEF Compare
  <2>3. t \in DOMAIN throwaways /\ throwaways[t] = [x \in DOMAIN throwaways[t] |-> throwaways[t][x]]
    BY <1>1, <1>8 DEF Compare, TestIsTrue
  <2>4. CASE TestGoto(t, "wrong")
    BY <1>2, <2>1, <2>2, <2>3, <2>4 DEF TestIsTrue
  <2>5. CASE CountsAgree(Content[RowOf(test[t].record).content], throwaways[t]) /\ TestGoto(t, "compared")
    <3>1. throwaways[t] = Restored(Content[RowOf(test[t].record).content])
      BY <2>3, <2>5, AgreeIsWhole
    <3>2. RowOf(test[t].record).content = run[test[t].record].snapshot
      BY <2>1, RowOfIs
    <3>3. test'[t].pc = "compared" /\ test'[t].record = test[t].record
      BY <1>2, <2>5
    <3> QED
      BY <1>3, <2>1, <2>2, <2>3, <3>1, <3>2, <3>3 DEF TestIsTrue
  <2> QED
    BY <1>8, <2>4, <2>5 DEF Compare
<1>9. CASE MarkVerified(t)
  <2>1. PICK p \in {"marked", "wrong"} : TestGoto(t, p)
    BY <1>9 DEF MarkVerified
  <2>2. \E q \in rows' : q.archive = test[t].record
    BY <1>1, <1>3, <1>9 DEF MarkVerified, TestIsTrue
  <2> QED
    BY <1>2, <2>1, <2>2 DEF TestIsTrue
<1>10. CASE CleanUp(t)
  <2>1. CASE TestGoto(t, "failed") /\ evidence' = evidence \cup {t}
    BY <1>2, <2>1 DEF TestIsTrue
  <2>2. CASE TestGoto(t, "done") /\ throwaways' = Without(throwaways, t) /\ TestAt(t, "marked")
    <3>1. t \notin DOMAIN throwaways'
      BY <2>2 DEF Without, Restrict
    <3>2. \E q \in rows' : q.archive = test[t].record
      BY <1>1, <1>3, <2>2 DEF TestIsTrue
    <3> QED
      BY <1>2, <2>2, <3>1, <3>2 DEF TestIsTrue
  <2>3. CASE TestGoto(t, "undropped") /\ TestAt(t, "marked")
    <3>1. \E q \in rows' : q.archive = test[t].record
      BY <1>1, <1>3, <2>3 DEF TestIsTrue
    <3> QED
      BY <1>2, <2>3, <3>1 DEF TestIsTrue
  <2> QED
    BY <1>10, <2>1, <2>2, <2>3 DEF CleanUp
<1> QED
  BY <1>4, <1>5, <1>6, <1>7, <1>8, <1>9, <1>10 DEF TestStep

LEMMA TestsStep ==
  ASSUME BackupInv, NEW t \in Tests, TestStep(t)
  PROVE  TestsAreTrue'
<1>1. \A u \in Tests : TestIsTrue(u)
  BY DEF BackupInv, TestsAreTrue, TestIsTrue
<1>2. \A u \in Tests : u # t => test'[u] = test[u]
  BY TypedIs, TestRunTyped DEF BackupInv
<1>3. run' = run /\ \A a : (\E q \in rows : q.archive = a) => \E q \in rows' : q.archive = a
  BY TestStepKeeps DEF backupVars
<1>4. /\ evidence \subseteq evidence'
      /\ \A u \in Tests : u # t => /\ u \in DOMAIN throwaways' <=> u \in DOMAIN throwaways
                                   /\ u \in DOMAIN throwaways => throwaways'[u] = throwaways[u]
  <2>1. ASSUME NEW c, throwaways' = With(throwaways, t, c)
        PROVE  \A u \in Tests : u # t => /\ u \in DOMAIN throwaways' <=> u \in DOMAIN throwaways
                                         /\ u \in DOMAIN throwaways => throwaways'[u] = throwaways[u]
    BY <2>1 DEF With
  <2>2. CASE CreateThrowaway(t) \/ Restore(t)
    BY <2>1, <2>2 DEF CreateThrowaway, Restore
  <2>3. CASE CleanUp(t)
    BY <2>3 DEF CleanUp, Without, Restrict
  <2> QED
    BY <2>2, <2>3 DEF TestStep, Choose, Download, Prepare, Compare, MarkVerified
<1>5. ASSUME NEW u \in Tests, u # t PROVE TestIsTrue(u)'
  <2>1. /\ TestIsTrue(u) /\ test'[u] = test[u] /\ (u \in evidence => u \in evidence')
        /\ u \in DOMAIN throwaways' <=> u \in DOMAIN throwaways
        /\ u \in DOMAIN throwaways => throwaways'[u] = throwaways[u]
    BY <1>1, <1>2, <1>4, <1>5
  <2>2. test[u].pc \notin {"idle", "failed", "killed"} => \E q \in rows' : q.archive = test[u].record
    BY <1>3, <2>1 DEF TestIsTrue
  <2>3. test[u].pc \in {"restored", "compared"} =>
           u \in DOMAIN throwaways' /\ throwaways'[u] = [x \in DOMAIN throwaways'[u] |-> throwaways'[u][x]]
    BY <2>1 DEF TestIsTrue
  <2>4. test[u].pc = "compared" => throwaways'[u] = Restored(Content[run'[test[u].record].snapshot])
    BY <1>3, <2>1 DEF TestIsTrue
  <2> QED
    BY <2>1, <2>2, <2>3, <2>4 DEF TestIsTrue
<1>6. \A u \in Tests : TestIsTrue(u)'
  BY <1>5, OwnTestStep
<1> QED
  BY <1>6 DEF TestsAreTrue, TestIsTrue

LEMMA TestsThroughBackups ==
  ASSUME BackupInv, UNCHANGED testVars, rows \subseteq rows',
         \A q \in rows : run'[q.archive].snapshot = run[q.archive].snapshot
  PROVE  TestsAreTrue'
<1>1. \A t \in Tests : TestIsTrue(t)
  BY DEF BackupInv, TestsAreTrue, TestIsTrue
<1>2. test' = test /\ throwaways' = throwaways /\ evidence' = evidence
  BY DEF testVars
<1>3. ASSUME NEW t \in Tests, test[t].pc = "compared"
      PROVE  run'[test[t].record].snapshot = run[test[t].record].snapshot
  <2>1. PICK q \in rows : q.archive = test[t].record
    BY <1>1, <1>3 DEF TestIsTrue
  <2>2. run'[q.archive].snapshot = run[q.archive].snapshot
    OBVIOUS
  <2> QED
    BY <2>1, <2>2
<1>4. \A t \in Tests : TestIsTrue(t)'
  BY <1>1, <1>2, <1>3 DEF TestIsTrue
<1> QED
  BY <1>4 DEF TestsAreTrue, TestIsTrue

-----------------------------------------------------------------------------
(* The password files.                                                     *)

LEMMA BackupPasswords ==
  ASSUME BackupInv, NEW r \in Runs, BackupStep(r)
  PROVE  PasswordsAreOwned'
<1> USE DEF RunPcs, Over, At, WithPassword
<1>1. Typed /\ run \in [Runs -> RunSet]
  BY TypedIs DEF BackupInv, Typed
<1>2. /\ testPass' = testPass /\ test' = test
      /\ testPass => \E t \in Tests : test[t].pc \notin {"idle", "chosen", "downloaded", "uncreated", "undropped", "done", "failed"}
  BY DEF BackupInv, PasswordsAreOwned, testVars, BackupStep, Start, WritePgpass, ExportSnapshot, Dump,
         EndDump, Verify, Upload, UploadFails, CopyToMonthly, Record, Unlink
<1>3. pgpass => \E q \in Runs : run[q].pc \in WithPassword \cup {"killed"}
  BY DEF BackupInv, PasswordsAreOwned
<1>4. \A q \in Runs : q # r => run'[q] = run[q]
  BY <1>1, BackupRunTyped
<1>5. ASSUME NEW p \in RunPcs, Goto(r, p) PROVE run'[r].pc = p
  BY <1>1, <1>5, GotoIs
<1>6. pgpass' => \E q \in Runs : run'[q].pc \in WithPassword \cup {"killed"}
  <2>1. CASE WritePgpass(r)
    BY <1>5, <2>1 DEF WritePgpass
  <2>2. CASE EndDump(r)
    BY <2>2 DEF EndDump
  <2>3. CASE ExportSnapshot(r)
    <3>1. run'[r].pc = "counted"
      BY <1>1, <2>3 DEF ExportSnapshot
    <3> QED
      BY <3>1
  <2>4. CASE Dump(r)
    <3>1. run'[r].pc \in {"dumping", "undumped"}
      BY <1>5, <2>4 DEF Dump
    <3> QED
      BY <3>1
  <2>5. CASE pgpass' = pgpass /\ run[r].pc \notin WithPassword \cup {"killed"}
    BY <1>3, <1>4, <2>5
  <2>6. Start(r) \/ Verify(r) \/ Upload(r) \/ UploadFails(r)
          => pgpass' = pgpass /\ run[r].pc \notin WithPassword \cup {"killed"}
    BY DEF Start, Verify, Upload, UploadFails
  <2>7. CopyToMonthly(r) \/ Record(r) \/ Unlink(r)
          => pgpass' = pgpass /\ run[r].pc \notin WithPassword \cup {"killed"}
    BY DEF CopyToMonthly, Record, Unlink
  <2> QED
    BY <2>1, <2>2, <2>3, <2>4, <2>5, <2>6, <2>7 DEF BackupStep
<1> QED
  BY <1>2, <1>6 DEF PasswordsAreOwned

LEMMA TestPasswords ==
  ASSUME BackupInv, NEW t \in Tests, TestStep(t)
  PROVE  PasswordsAreOwned'
<1> USE DEF TestPcs, Over, TestAt
<1> DEFINE NoPassword == {"idle", "chosen", "downloaded", "uncreated", "undropped", "done", "failed"}
<1>1. Typed /\ test \in [Tests -> TestSet]
  BY TypedIs DEF BackupInv, Typed
<1>2. /\ pgpass' = pgpass /\ run' = run
      /\ pgpass => \E q \in Runs : run[q].pc \in WithPassword \cup {"killed"}
      /\ testPass => \E u \in Tests : test[u].pc \notin NoPassword
  BY TestStepKeeps DEF BackupInv, PasswordsAreOwned, backupVars
<1>3. \A u \in Tests : u # t => test'[u] = test[u]
  BY <1>1, TestRunTyped
<1>4. ASSUME NEW p \in TestPcs, TestGoto(t, p) PROVE test'[t].pc = p
  BY <1>1, <1>4, TestGotoIs
<1>5. testPass' => \E u \in Tests : test'[u].pc \notin NoPassword
  <2>1. CASE CleanUp(t)
    BY <2>1 DEF CleanUp
  <2>2. CASE testPass' = testPass /\ test[t].pc \in NoPassword
    BY <1>2, <1>3, <2>2
  <2>3. Choose(t) \/ Download(t) => testPass' = testPass /\ test[t].pc \in NoPassword
    BY DEF Choose, Download
  <2>4. CASE Prepare(t)
    <3>1. CASE TestGoto(t, "prepared")
      BY <1>4, <3>1
    <3>2. CASE testPass' = testPass /\ TestAt(t, "downloaded")
      BY <2>2, <3>2
    <3> QED
      BY <2>4, <3>1, <3>2 DEF Prepare
  <2>5. CASE CreateThrowaway(t)
    BY <1>4, <2>5 DEF CreateThrowaway
  <2>6. CASE Restore(t) \/ Compare(t) \/ MarkVerified(t)
    <3>1. test'[t].pc \in {"restored", "wrong", "compared", "marked"}
      BY <1>4, <2>6 DEF Restore, Compare, MarkVerified
    <3> QED
      BY <3>1
  <2> QED
    BY <2>1, <2>2, <2>3, <2>4, <2>5, <2>6 DEF TestStep
<1> QED
  BY <1>2, <1>5 DEF PasswordsAreOwned

-----------------------------------------------------------------------------
(* What happens around the runs.                                           *)

(* The parts of the invariant that speak of neither time nor expiry.       *)
LEMMA WorldKeepsTheRest ==
  ASSUME BackupInv, UNCHANGED <<rows, backupVars, testVars>>
  PROVE  /\ FilesAreDumps' /\ TestsAreTrue' /\ PasswordsAreOwned'
         /\ (\A tier, r : Holds(tier, r) => Holds(tier, r)') => RowsAreTrue'
<1>1. UNCHANGED <<rows, staging, pgpass, run, testPass, throwaways, evidence, test>>
  BY DEF backupVars, testVars
<1>2. FilesAreDumps'
  BY <1>1 DEF BackupInv, FilesAreDumps
<1>3. TestsAreTrue'
  BY <1>1, TestsThroughBackups
<1>4. PasswordsAreOwned'
  BY <1>1 DEF BackupInv, PasswordsAreOwned
<1>5. (\A tier, r : Holds(tier, r) => Holds(tier, r)') => RowsAreTrue'
  BY <1>1 DEF BackupInv, RowsAreTrue
<1> QED
  BY <1>2, <1>3, <1>4, <1>5

LEMMA TimePasses ==
  ASSUME BackupInv, UNCHANGED <<objects, rows, backupVars, testVars>>, today' \in Nat, today' >= today
  PROVE  ObjectsAreDumps' /\ RowsAreTrue' /\ \A r \in Runs : run'[r].day <= today'
<1>1. run' = run /\ \A tier, r : Holds(tier, r)' <=> Holds(tier, r)
  BY DEF backupVars, Holds
<1>2. today \in Nat /\ (\A r \in Runs : run[r].day \in Nat) /\ DailyKept \in Nat
  BY TypedIs, BackupAssumption DEF BackupInv, Typed, RunSet
<1>3. ASSUME NEW o \in objects, today - o.day >= DailyKept PROVE today' - o.day >= DailyKept
  <2>1. o.day \in Nat
    BY Archives DEF ObjectSet
  <2> QED
    BY <1>2, <1>3, <2>1
<1>4. ObjectsAreDumps'
  BY <1>1, <1>3 DEF BackupInv, ObjectsAreDumps
<1>5. RowsAreTrue'
  BY <1>1, WorldKeepsTheRest
<1>6. \A r \in Runs : run'[r].day <= today'
  BY <1>1, <1>2 DEF BackupInv
<1> QED
  BY <1>4, <1>5, <1>6

LEMMA ExpireKeeps ==
  ASSUME BackupInv, Expire
  PROVE  ObjectsAreDumps' /\ RowsAreTrue'
<1>1. PICK o \in objects : /\ o.tier = "daily" /\ today - o.day >= DailyKept
                           /\ objects' = (objects \ {o}) \cup {[o EXCEPT !.expired = TRUE]}
  BY DEF Expire
<1>2. UNCHANGED <<today, rows, backupVars, testVars>> /\ run' = run
  BY DEF Expire, backupVars
<1>3. PICK new : /\ new.tier = o.tier /\ new.archive = o.archive /\ new.data = o.data /\ new.day = o.day
                 /\ new.expired /\ objects' = (objects \ {o}) \cup {new}
  <2>1. o \in ObjectSet
    BY Archives
  <2>2. PICK n : n = [o EXCEPT !.expired = TRUE]
    OBVIOUS
  <2>3. n.tier = o.tier /\ n.archive = o.archive /\ n.data = o.data /\ n.day = o.day /\ n.expired
    BY <2>1, <2>2 DEF ObjectSet
  <2> QED
    BY <1>1, <2>2, <2>3
<1>4. \A tier, r : Holds(tier, r) <=> Holds(tier, r)'
  BY <1>2, <1>3 DEF Holds
<1>5. ObjectsAreDumps
  BY DEF BackupInv
<1>6. ObjectsAreDumps'
  <2>1. \A x \in objects' : x \in objects \/ x = new
    BY <1>3
  <2>2. ASSUME NEW x \in objects'
        PROVE  /\ run[x.archive].pc \notin Before /\ run[x.archive].day <= x.day
               /\ x.data \in {run[x.archive].snapshot, Damaged}
               /\ x.expired => x.tier = "daily" /\ today - x.day >= DailyKept
    BY <1>1, <1>3, <1>5, <2>1 DEF ObjectsAreDumps
  <2>3. \A x, y \in objects' : x.tier = "daily" /\ y.tier = "daily" /\ x.archive = y.archive => x = y
    BY <1>1, <1>3, <1>5 DEF ObjectsAreDumps
  <2> QED
    BY <1>2, <1>4, <1>5, <2>2, <2>3 DEF ObjectsAreDumps
<1> QED
  BY <1>2, <1>4, <1>6, WorldKeepsTheRest

LEMMA KillKeeps ==
  ASSUME BackupInv, Kill
  PROVE  /\ FilesAreDumps' /\ ObjectsAreDumps' /\ RowsAreTrue' /\ TestsAreTrue' /\ PasswordsAreOwned'
         /\ \A r \in Runs : run'[r].day = run[r].day /\ run'[r].start = run[r].start
                            /\ (run[r].pc = "idle" => run'[r].pc = "idle")
<1> USE DEF RunPcs, TestPcs, Over
<1>1. Typed
  BY TypedIs DEF BackupInv
<1>2. UNCHANGED <<today, version, objects, rows, staging, pgpass, scratch, testPass, throwaways, evidence>>
  BY DEF Kill
<1>3. ASSUME NEW r \in Runs, run[r].pc \notin Over \cup {"idle"}, Goto(r, "killed"), test' = test
      PROVE  /\ FilesAreDumps' /\ ObjectsAreDumps' /\ RowsAreTrue' /\ TestsAreTrue' /\ PasswordsAreOwned'
             /\ \A q \in Runs : run'[q].day = run[q].day /\ run'[q].start = run[q].start
                                /\ (run[q].pc = "idle" => run'[q].pc = "idle")
  <2>1. /\ run'[r].pc = "killed" /\ \A q \in Runs : q # r => run'[q].pc = run[q].pc
        /\ \A q \in Runs : run'[q].snapshot = run[q].snapshot /\ run'[q].day = run[q].day
    BY <1>3, MovesOnly
  <2>2. \A q \in Runs : run'[q].start = run[q].start
    BY <1>1, <1>3 DEF Goto, Typed, RunSet
  <2>3. FilesAreDumps'
    <3>1. \A q \in Runs : FileIsDump(q)
      BY DEF BackupInv, FilesAreDumps, FileIsDump
    <3>2. \A q \in Runs : FileIsDump(q)'
      BY <1>2, <2>1, <3>1 DEF FileIsDump, Early, Stored
    <3> QED
      BY <3>2 DEF FilesAreDumps, FileIsDump
  <2>4. ObjectsAreDumps' /\ RowsAreTrue'
    BY <1>2, <1>3, EndKeeps
  <2>5. TestsAreTrue'
    BY <1>2, <1>3, <2>1, Archives, TestsThroughBackups DEF testVars
  <2>6. PasswordsAreOwned'
    BY <1>2, <1>3, <2>1 DEF BackupInv, PasswordsAreOwned, WithPassword
  <2> QED
    BY <1>3, <2>1, <2>2, <2>3, <2>4, <2>5, <2>6
<1>4. ASSUME NEW t \in Tests, TestGoto(t, "killed"), test[t].pc \notin Over \cup {"idle", "uncreated", "undropped"}, run' = run
      PROVE  /\ FilesAreDumps' /\ ObjectsAreDumps' /\ RowsAreTrue' /\ TestsAreTrue' /\ PasswordsAreOwned'
  <2>1. /\ test'[t].pc = "killed" /\ test'[t].record = test[t].record
        /\ \A u \in Tests : u # t => test'[u] = test[u]
    BY <1>1, <1>4, TestGotoIs DEF Typed
  <2>2. FilesAreDumps' /\ ObjectsAreDumps' /\ RowsAreTrue'
    BY <1>2, <1>4 DEF BackupInv, FilesAreDumps, ObjectsAreDumps, RowsAreTrue, Holds
  <2>3. TestsAreTrue'
    <3>1. \A u \in Tests : TestIsTrue(u)
      BY DEF BackupInv, TestsAreTrue, TestIsTrue
    <3>2. TestIsTrue(t)'
      BY <2>1 DEF TestIsTrue
    <3>3. \A u \in Tests : u # t => TestIsTrue(u)'
      BY <1>2, <1>4, <2>1, <3>1 DEF TestIsTrue
    <3>4. \A u \in Tests : TestIsTrue(u)'
      BY <3>2, <3>3
    <3> QED
      BY <3>4 DEF TestsAreTrue, TestIsTrue
  <2>4. PasswordsAreOwned'
    BY <1>2, <1>4, <2>1 DEF BackupInv, PasswordsAreOwned
  <2> QED
    BY <2>2, <2>3, <2>4
<1> QED
  BY <1>3, <1>4 DEF Kill

-----------------------------------------------------------------------------
(* The inductive invariant.                                                *)

LEMMA InitInv == Init => BackupInv
<1> SUFFICES ASSUME Init PROVE BackupInv
  OBVIOUS
<1>1. Typed
  <2>1. 0 \in Versions /\ 0 \in 0..MaxDay /\ 0 \in 0..Cardinality(Runs)
    BY BackupAssumption, FS_CardinalityType DEF Versions
  <2>2. DOMAIN staging = {} /\ DOMAIN scratch = {} /\ DOMAIN throwaways = {}
    BY DEF Init
  <2>3. run \in [Runs -> RunSet]
    BY <2>1 DEF Init, RunSet, RunPcs
  <2>4. test \in [Tests -> TestSet]
    BY DEF Init, TestSet, TestPcs
  <2> QED
    BY <2>1, <2>2, <2>3, <2>4 DEF Init, Typed
<1>2. DOMAIN staging = {} /\ DOMAIN throwaways = {} /\ objects = {} /\ rows = {}
  BY DEF Init
<1>3. \A r \in Runs : run[r].pc = "idle" /\ run[r].day = 0
  BY DEF Init
<1>4. \A t \in Tests : test[t].pc = "idle"
  BY DEF Init
<1>5. FilesAreDumps /\ ObjectsAreDumps /\ RowsAreTrue
  BY <1>2, <1>3 DEF FilesAreDumps, ObjectsAreDumps, RowsAreTrue, Stored
<1>6. TestsAreTrue /\ PasswordsAreOwned
  BY <1>2, <1>4 DEF Init, TestsAreTrue, PasswordsAreOwned
<1>7. today = 0
  BY DEF Init
<1> QED
  BY <1>1, <1>3, <1>5, <1>6, <1>7, TypedIs DEF BackupInv

LEMMA BackupDays ==
  ASSUME BackupInv, NEW r \in Runs, BackupStep(r)
  PROVE  \A q \in Runs : run'[q].day <= today' /\ (run'[q].pc # "idle" => run'[q].start > 0)
<1>1. Typed /\ run \in [Runs -> RunSet]
  BY TypedIs DEF BackupInv, Typed
<1>2. /\ today' = today /\ today \in Nat
      /\ \A q \in Runs : run[q].day <= today /\ (run[q].pc # "idle" => run[q].start > 0)
  BY <1>1 DEF BackupInv, Typed, BackupStep, Start, WritePgpass, ExportSnapshot, Dump, EndDump, Verify,
              Upload, UploadFails, CopyToMonthly, Record, Unlink
<1>3. \A q \in Runs : q # r => run'[q] = run[q]
  BY <1>1, BackupRunTyped
<1>4. run'[r].day <= today /\ run'[r].start > 0
  <2>1. CASE Start(r)
    <3>1. PICK n : n = 1 + Cardinality({q \in Runs : ~At(q, "idle")})
      OBVIOUS
    <3>2. n > 0
      BY <1>1, <2>1, <3>1, StartNumber, FS_CardinalityType, BackupAssumption DEF Start
    <3>3. run'[r].day = today /\ run'[r].start = n
      BY <1>1, <2>1, <3>1 DEF Start
    <3> QED
      BY <1>2, <3>2, <3>3
  <2>2. ASSUME NEW p, Goto(r, p) PROVE run'[r].day = run[r].day /\ run'[r].start = run[r].start
    BY <1>1, <2>2 DEF Goto, RunSet
  <2>3. CASE ~Start(r)
    <3>1. run[r].pc # "idle"
      BY <2>3 DEF BackupStep, WritePgpass, ExportSnapshot, Dump, EndDump, Verify, Upload, UploadFails,
                  CopyToMonthly, Record, Unlink, At
    <3>2. run'[r].day = run[r].day /\ run'[r].start = run[r].start
      <4>1. ExportSnapshot(r) => run'[r].day = run[r].day /\ run'[r].start = run[r].start
        BY <1>1 DEF ExportSnapshot, RunSet
      <4> QED
        BY <2>2, <2>3, <4>1 DEF BackupStep, WritePgpass, Dump, EndDump, Verify, Upload, UploadFails,
                                CopyToMonthly, Record, Unlink
    <3> QED
      BY <1>2, <3>1, <3>2
  <2> QED
    BY <2>1, <2>3
<1> QED
  BY <1>2, <1>3, <1>4

LEMMA StepInv == BackupInv /\ [Next]_vars => BackupInv'
<1> SUFFICES ASSUME BackupInv, [Next]_vars PROVE BackupInv'
  OBVIOUS
<1>1. ASSUME NEW r \in Runs, BackupStep(r) PROVE BackupInv'
  <2>1. Typed' /\ FilesAreDumps' /\ ObjectsAreDumps' /\ RowsAreTrue' /\ PasswordsAreOwned'
    BY <1>1, BackupTyped, FilesStep, BackupKeeps, BackupPasswords
  <2>2. UNCHANGED testVars
    BY <1>1 DEF BackupStep, Start, WritePgpass, ExportSnapshot, Dump, EndDump, Verify, Upload, UploadFails,
                CopyToMonthly, Record, Unlink
  <2>3. TestsAreTrue'
    BY <1>1, <2>2, BackupRowsGrow, TestsThroughBackups
  <2> QED
    BY <1>1, <2>1, <2>3, BackupDays, TypedNext DEF BackupInv
<1>2. ASSUME NEW t \in Tests, TestStep(t) PROVE BackupInv'
  <2>1. Typed' /\ FilesAreDumps' /\ ObjectsAreDumps' /\ RowsAreTrue' /\ TestsAreTrue' /\ PasswordsAreOwned'
    BY <1>2, TestTyped, TestStepKeeps, TestsStep, TestPasswords
  <2>2. run' = run /\ today' = today
    BY <1>2, TestStepKeeps DEF backupVars
  <2> QED
    BY <2>1, <2>2, TypedNext DEF BackupInv
<1>3. CASE Commit \/ NextDay
  <2>1. Typed' /\ UNCHANGED <<objects, rows, backupVars, testVars>>
    BY <1>3, WorldTyped DEF Commit, NextDay
  <2>2. today' \in Nat /\ today' >= today
    <3>1. today \in Nat
      BY TypedIs DEF BackupInv, Typed
    <3> QED
      BY <1>3, <3>1 DEF Commit, NextDay
  <2>3. run' = run
    BY <2>1 DEF backupVars
  <2> QED
    BY <2>1, <2>2, <2>3, TimePasses, WorldKeepsTheRest, TypedNext DEF BackupInv
<1>4. CASE Expire
  <2>1. Typed' /\ UNCHANGED <<today, rows, backupVars, testVars>> /\ run' = run
    BY <1>4, WorldTyped DEF Expire, backupVars
  <2> QED
    BY <1>4, <2>1, ExpireKeeps, WorldKeepsTheRest, TypedNext DEF BackupInv
<1>5. CASE Kill
  <2>1. Typed' /\ today' = today
    BY <1>5, WorldTyped DEF Kill
  <2> QED
    BY <1>5, <2>1, KillKeeps, TypedNext DEF BackupInv
<1>6. CASE UNCHANGED vars
  <2>1. UNCHANGED <<today, version, objects, rows, staging, pgpass, run, scratch, testPass, throwaways,
                    evidence, test>>
    BY <1>6 DEF vars, backupVars, testVars
  <2>2. Typed'
    BY <2>1, TypedIs DEF BackupInv, Typed
  <2>3. FilesAreDumps' /\ ObjectsAreDumps' /\ RowsAreTrue' /\ TestsAreTrue' /\ PasswordsAreOwned'
    BY <2>1 DEF BackupInv, FilesAreDumps, ObjectsAreDumps, RowsAreTrue, TestsAreTrue, PasswordsAreOwned, Holds
  <2> QED
    BY <2>1, <2>2, <2>3, TypedNext DEF BackupInv
<1> QED
  BY <1>1, <1>2, <1>3, <1>4, <1>5, <1>6 DEF Next

THEOREM BackupInvariant == Spec => []BackupInv
<1> QED
  BY InitInv, StepInv, PTL DEF Spec

(* No row is without its object while it may be asked for, the first of a  *)
(* month is kept a second time, and no run leaves a database or a password *)
(* behind that nobody is told of.                                          *)
THEOREM NothingStaysStranded == Spec => []NothingIsStranded
<1>1. BackupInv => NothingIsStranded
  <2> SUFFICES ASSUME BackupInv PROVE NothingIsStranded
    OBVIOUS
  <2>1. YoungRowHasItsObject
    <3> SUFFICES ASSUME NEW q \in rows, today - q.day < DailyKept
                 PROVE  \E o \in objects : o.tier = "daily" /\ o.archive = q.archive /\ ~o.expired
      BY DEF YoungRowHasItsObject
    <3>1. Holds("daily", q.archive) /\ q.day = run[q.archive].day
      BY DEF BackupInv, RowsAreTrue
    <3>2. PICK o \in objects : o.tier = "daily" /\ o.archive = q.archive
      BY <3>1 DEF Holds
    <3>3. q.day <= o.day /\ (o.expired => today - o.day >= DailyKept)
      BY <3>1, <3>2 DEF BackupInv, ObjectsAreDumps
    <3>4. o.day \in Nat /\ q.day \in Nat /\ today \in Nat /\ DailyKept \in Nat
      BY Archives, TypedIs, BackupAssumption DEF BackupInv, Typed, ObjectSet, RowSet
    <3>5. ~(today - o.day >= DailyKept)
      BY <3>3, <3>4
    <3> QED
      BY <3>2, <3>3, <3>5
  <2>2. MonthlyOutlivesDaily
    <3> SUFFICES ASSUME NEW q \in rows, q.day \in FirstDays
                 PROVE  \E o \in objects : /\ o.tier = "monthly" /\ o.archive = q.archive
                                           /\ o.data = q.content /\ ~o.expired
      BY DEF MonthlyOutlivesDaily
    <3>1. Holds("monthly", q.archive) /\ q.content = run[q.archive].snapshot
      BY DEF BackupInv, RowsAreTrue
    <3>2. \A o \in objects : o.tier = "monthly" => ~o.expired
      BY DEF BackupInv, ObjectsAreDumps
    <3> QED
      BY <3>1, <3>2 DEF Holds
  <2>3. ThrowawayIsAccountedFor
    BY TypedIs DEF BackupInv, Typed, TestsAreTrue, ThrowawayIsAccountedFor, Over, TestAt
  <2>4. CredentialsAreRemoved
    BY DEF BackupInv, PasswordsAreOwned, CredentialsAreRemoved, WithPassword, Over, At, TestAt
  <2> QED
    BY <2>1, <2>2, <2>3, <2>4 DEF NothingIsStranded, BackupInv
<1> QED
  BY <1>1, BackupInvariant, PTL

(* A local archive is removed only by a run whose row is in the table and  *)
(* whose bytes are in the bucket.                                          *)
LEMMA KeepsTheOnlyCopy ==
  ASSUME BackupInv, Next, NEW r \in DOMAIN staging \ DOMAIN staging'
  PROVE  /\ \E q \in rows : q.archive = r /\ q.content = staging[r]
         /\ \E o \in objects : o.archive = r /\ o.data = staging[r]
<1>1. PICK b \in Runs : Unlink(b)
  <2>1. ASSUME NEW b \in Runs, BackupStep(b) PROVE Unlink(b)
    BY <2>1 DEF BackupStep, Start, WritePgpass, ExportSnapshot, Dump, EndDump, Verify, Upload, UploadFails,
                CopyToMonthly, Record, With
  <2>2. \A t \in Tests : ~TestStep(t)
    BY DEF TestStep, Choose, Download, Prepare, CreateThrowaway, Restore, Compare, MarkVerified, CleanUp,
           backupVars
  <2>3. ~(Commit \/ NextDay \/ Expire \/ Kill)
    BY DEF Commit, NextDay, Expire, Kill, backupVars
  <2> QED
    BY <2>1, <2>2, <2>3 DEF Next
<1>2. r = b /\ run[b].pc = "recorded"
  BY <1>1 DEF Unlink, Without, Restrict, At
<1>3. staging[r] = run[r].snapshot /\ Holds("daily", r)
  BY <1>1, <1>2 DEF BackupInv, FilesAreDumps, ObjectsAreDumps, Stored
<1>4. PICK q \in rows : q.archive = r
  BY <1>1, <1>2 DEF BackupInv, RowsAreTrue
<1>5. q.content = run[r].snapshot
  BY <1>4 DEF BackupInv, RowsAreTrue
<1> QED
  BY <1>3, <1>4, <1>5 DEF Holds

THEOREM TheOnlyCopyIsKept == Spec => OnlyCopyIsKept
<1>1. BackupInv /\ [Next]_vars =>
        [\A r \in DOMAIN staging \ DOMAIN staging' :
           /\ \E q \in rows : q.archive = r /\ q.content = staging[r]
           /\ \E o \in objects : o.archive = r /\ o.data = staging[r]]_vars
  BY KeepsTheOnlyCopy
<1> QED
  BY <1>1, BackupInvariant, PTL DEF Spec, OnlyCopyIsKept

(* A mark appears in a row only at the end of a test that restored exactly *)
(* what that row says.                                                     *)
LEMMA MarksAreEarned ==
  ASSUME BackupInv, Next,
         NEW q \in rows', q.marked, NEW p \in rows, p.archive = q.archive, ~p.marked
  PROVE  \E t \in Tests : /\ test[t].record = q.archive
                          /\ t \in DOMAIN throwaways
                          /\ throwaways[t] = Restored(Content[q.content])
<1>1. \A x \in rows : x.archive = q.archive => x = p
  BY DEF BackupInv, RowsAreTrue
<1>2. q \notin rows
  BY <1>1
<1>3. ASSUME NEW r \in Runs, BackupStep(r) PROVE FALSE
  <2>1. Record(r)
    BY <1>2, <1>3 DEF BackupStep, Start, WritePgpass, ExportSnapshot, Dump, EndDump, Verify, Upload,
                      UploadFails, CopyToMonthly, Unlink
  <2>2. q.marked = FALSE
    BY <1>2, <2>1 DEF Record
  <2> QED
    BY <2>2
<1>4. ~(Commit \/ NextDay \/ Expire \/ Kill)
  BY <1>2 DEF Commit, NextDay, Expire, Kill
<1>5. PICK t \in Tests : TestStep(t)
  BY <1>3, <1>4 DEF Next
<1>6. MarkVerified(t) /\ rows' = {Marked(x, test[t].record) : x \in rows}
  BY <1>2, <1>5, TestStepKeeps
<1>7. PICK x \in rows : q = Marked(x, test[t].record)
  BY <1>6
<1>8. x = p
  BY <1>1, <1>7, Archives, MarkedIs
<1>9. q.archive = test[t].record /\ q.content = p.content
  BY <1>7, <1>8, Archives, MarkedIs
<1>10. test[t].pc = "compared" /\ TestIsTrue(t)
  BY <1>6 DEF MarkVerified, TestAt, BackupInv, TestsAreTrue, TestIsTrue
<1>11. p.content = run[p.archive].snapshot
  BY DEF BackupInv, RowsAreTrue
<1> QED
  BY <1>9, <1>10, <1>11 DEF TestIsTrue

THEOREM MarksMeanRestored == Spec => MarkMeansRestored
<1>1. BackupInv /\ [Next]_vars =>
        [\A q \in rows' : q.marked /\ (\E p \in rows : p.archive = q.archive /\ ~p.marked) =>
           \E t \in Tests : /\ test[t].record = q.archive
                            /\ t \in DOMAIN throwaways
                            /\ throwaways[t] = Restored(Content[q.content])]_vars
  BY MarksAreEarned
<1> QED
  BY <1>1, BackupInvariant, PTL DEF Spec, MarkMeansRestored

-----------------------------------------------------------------------------
(* The catalogue: what the bucket has held whole, what the rows say, and   *)
(* what is confirmed, as functions of the objects and of the rows alone.   *)

Whole(O) == {o.archive : o \in {x \in O : x.tier = "daily" /\ x.data # Damaged}}
WrittenOf(O) == [r \in Whole(O) |-> (CHOOSE o \in O : o.archive = r /\ o.tier = "daily").data]
Named(S) == {q.archive : q \in S}
ListedOf(S) == [r \in Named(S) |-> (CHOOSE q \in S : q.archive = r).content]
ConfirmedOf(S) == Named({x \in S : x.marked})

LEMMA WrittenIs ==
  ASSUME NEW O, NEW f, \A o \in O : o.data \in {f[o.archive].snapshot, Damaged},
         \A o, p \in O : o.tier = "daily" /\ p.tier = "daily" /\ o.archive = p.archive => o = p
  PROVE  WrittenOf(O) = [r \in Whole(O) |-> f[r].snapshot]
<1>1. ASSUME NEW r \in Whole(O)
      PROVE  (CHOOSE o \in O : o.archive = r /\ o.tier = "daily").data = f[r].snapshot
  <2>1. PICK x \in O : x.tier = "daily" /\ x.data # Damaged /\ x.archive = r
    BY DEF Whole
  <2>2. x.data = f[r].snapshot
    BY <2>1
  <2>3. PICK c : c = CHOOSE o \in O : o.archive = r /\ o.tier = "daily"
    OBVIOUS
  <2>4. c \in O /\ c.archive = r /\ c.tier = "daily"
    BY <2>1, <2>3
  <2>5. c = x
    BY <2>1, <2>4
  <2> QED
    BY <2>2, <2>3, <2>5
<1> QED
  BY <1>1 DEF WrittenOf

LEMMA ListedIs ==
  ASSUME NEW S, NEW f, \A q \in S : q.content = f[q.archive].snapshot
  PROVE  ListedOf(S) = [r \in Named(S) |-> f[r].snapshot]
<1>1. ASSUME NEW r \in Named(S) PROVE (CHOOSE q \in S : q.archive = r).content = f[r].snapshot
  <2>1. \E q \in S : q.archive = r
    BY DEF Named
  <2> QED
    BY <2>1
<1> QED
  BY <1>1 DEF ListedOf

(* What a step does to the catalogue, seen through the snapshots.          *)
LEMMA CatalogNow ==
  ASSUME BackupInv
  PROVE  /\ WrittenOf(objects) = [r \in Whole(objects) |-> run[r].snapshot]
         /\ ListedOf(rows) = [r \in Named(rows) |-> run[r].snapshot]
         /\ Named(rows) \subseteq Whole(objects) /\ Whole(objects) \subseteq Runs
<1>1. WrittenOf(objects) = [r \in Whole(objects) |-> run[r].snapshot]
  BY WrittenIs DEF BackupInv, ObjectsAreDumps
<1>2. ListedOf(rows) = [r \in Named(rows) |-> run[r].snapshot]
  BY ListedIs DEF BackupInv, RowsAreTrue
<1>3. ASSUME NEW q \in rows PROVE q.archive \in Whole(objects)
  <2>1. Holds("daily", q.archive) /\ q.archive \in Runs
    BY Archives DEF BackupInv, RowsAreTrue
  <2>2. run[q.archive].snapshot # Damaged
    BY <2>1, TypedIs, BackupAssumption DEF BackupInv, Typed, RunSet
  <2> QED
    BY <2>1, <2>2 DEF Holds, Whole
<1>4. Whole(objects) \subseteq Runs
  BY Archives DEF Whole
<1> QED
  BY <1>1, <1>2, <1>3, <1>4 DEF Named

LEMMA CatalogNext ==
  ASSUME BackupInv'
  PROVE  /\ WrittenOf(objects') = [r \in Whole(objects') |-> run'[r].snapshot]
         /\ ListedOf(rows') = [r \in Named(rows') |-> run'[r].snapshot]
<1>1. WrittenOf(objects') = [r \in Whole(objects') |-> run'[r].snapshot]
  BY WrittenIs DEF BackupInv, ObjectsAreDumps
<1>2. ListedOf(rows') = [r \in Named(rows') |-> run'[r].snapshot]
  BY ListedIs DEF BackupInv, RowsAreTrue
<1> QED
  BY <1>1, <1>2

(* The snapshot of a run that has an object is fixed.                      *)
LEMMA SnapshotsStay ==
  ASSUME BackupInv, [Next]_vars
  PROVE  \A r \in Whole(objects) : run'[r].snapshot = run[r].snapshot
<1>1. \A r \in Whole(objects) : r \in Runs /\ run[r].pc \notin Before
  BY Archives DEF Whole, BackupInv, ObjectsAreDumps
<1>2. ASSUME NEW b \in Runs, BackupStep(b), NEW r \in Whole(objects)
      PROVE  run'[r].snapshot = run[r].snapshot
  <2>1. CASE r # b
    BY <1>1, <1>2, <2>1, TypedIs, BackupRunTyped DEF BackupInv
  <2>2. CASE r = b
    <3>1. CopyToMonthly(b) \/ Record(b) \/ Unlink(b)
      BY <1>1, <1>2, <2>2 DEF BackupStep, Start, WritePgpass, ExportSnapshot, Dump, EndDump, Verify,
                              Upload, UploadFails, At, Before, Early
    <3>2. PICK p \in RunPcs : Goto(b, p)
      BY <3>1 DEF CopyToMonthly, Record, Unlink, RunPcs, Over
    <3> QED
      BY <1>1, <3>2, MovesOnly
  <2> QED
    BY <2>1, <2>2
<1>3. ASSUME NEW t \in Tests, TestStep(t) PROVE run' = run
  BY <1>3, TestStepKeeps DEF backupVars
<1>4. Commit \/ NextDay \/ Expire \/ UNCHANGED vars => run' = run
  BY DEF Commit, NextDay, Expire, vars, backupVars
<1>5. ASSUME Kill, NEW r \in Whole(objects) PROVE run'[r].snapshot = run[r].snapshot
  <2>1. CASE run' = run
    BY <2>1
  <2>2. ASSUME NEW b \in Runs, Goto(b, "killed") PROVE run'[r].snapshot = run[r].snapshot
    BY <1>1, <2>2, MovesOnly DEF RunPcs, Over
  <2> QED
    BY <1>5, <2>1, <2>2 DEF Kill
<1> QED
  BY <1>2, <1>3, <1>4, <1>5 DEF Next

(* A step after which the bucket holds the same whole archives and the     *)
(* table names the same, leaves the catalogue as it was.                   *)
LEMMA CatalogStays ==
  ASSUME BackupInv, BackupInv', [Next]_vars
  PROVE  /\ Whole(objects') = Whole(objects) => WrittenOf(objects') = WrittenOf(objects)
         /\ Named(rows') = Named(rows) => ListedOf(rows') = ListedOf(rows)
<1>1. \A r \in Whole(objects) : run'[r].snapshot = run[r].snapshot
  BY SnapshotsStay
<1> QED
  BY <1>1, CatalogNow, CatalogNext

-----------------------------------------------------------------------------
(* Which steps are steps of the catalogue.                                 *)

Entered(f, a, c) == [x \in DOMAIN f \cup {a} |-> IF x = a THEN c ELSE f[x]]

LEMMA UploadEnters ==
  ASSUME BackupInv, BackupInv', NEW r \in Runs, Upload(r)
  PROVE  /\ rows' = rows
         /\ \/ WrittenOf(objects') = WrittenOf(objects)
            \/ /\ r \notin DOMAIN WrittenOf(objects)
               /\ WrittenOf(objects') = Entered(WrittenOf(objects), r, run[r].snapshot)
<1>1. rows' = rows
  BY DEF Upload
<1>2. [Next]_vars
  BY DEF Next, BackupStep
<1>3. PICK new : objects' = objects \cup {new} /\ new.tier = "daily" /\ new.archive = r
  <2>1. \A data : Object("daily", r, data).tier = "daily" /\ Object("daily", r, data).archive = r
    BY DEF Object
  <2> QED
    BY <2>1 DEF Upload
<1>4. r \notin Whole(objects)
  BY NothingBefore DEF Whole, Upload, At, Before
<1>5. CASE new.data = Damaged
  <2>1. Whole(objects') = Whole(objects)
    BY <1>3, <1>5 DEF Whole
  <2> QED
    BY <1>1, <1>2, <2>1, CatalogStays
<1>6. CASE new.data # Damaged
  <2>1. Whole(objects') = Whole(objects) \cup {r}
    BY <1>3, <1>6 DEF Whole
  <2>2. \A q \in Runs : run'[q].snapshot = run[q].snapshot
    <3>1. PICK p \in RunPcs : Goto(r, p)
      BY DEF Upload, RunPcs, Over
    <3> QED
      BY <3>1, MovesOnly
  <2>3. WrittenOf(objects') = [x \in Whole(objects) \cup {r} |-> run'[x].snapshot]
    BY <2>1, CatalogNext
  <2>4. WrittenOf(objects) = [x \in Whole(objects) |-> run[x].snapshot] /\ Whole(objects) \subseteq Runs
    BY CatalogNow
  <2>5. WrittenOf(objects') = Entered(WrittenOf(objects), r, run[r].snapshot)
    BY <1>4, <2>2, <2>3, <2>4 DEF Entered
  <2> QED
    BY <1>1, <1>4, <2>4, <2>5
<1> QED
  BY <1>5, <1>6

LEMMA RecordEnters ==
  ASSUME BackupInv, BackupInv', NEW r \in Runs, Record(r)
  PROVE  /\ objects' = objects
         /\ \/ rows' = rows
            \/ /\ r \in DOMAIN WrittenOf(objects) \ DOMAIN ListedOf(rows)
               /\ ListedOf(rows') = Entered(ListedOf(rows), r, WrittenOf(objects)[r])
               /\ ConfirmedOf(rows') = ConfirmedOf(rows)
<1>1. objects' = objects
  BY DEF Record
<1>2. CASE rows' # rows
  <2>1. PICK new : rows' = rows \cup {new} /\ new.archive = r /\ new.marked = FALSE
    <3>1. PICK q : q = [archive |-> r, start |-> run[r].start, day |-> run[r].day,
                        content |-> run[r].snapshot, marked |-> FALSE]
      OBVIOUS
    <3>2. rows' = rows \cup {q}
      BY <1>2, <3>1 DEF Record
    <3>3. q.archive = r /\ q.marked = FALSE
      BY <3>1
    <3> QED
      BY <3>2, <3>3
  <2>2. \A q \in rows : q.archive # r
    BY DEF Record, At, BackupInv, RowsAreTrue
  <2>3. Named(rows') = Named(rows) \cup {r} /\ r \notin Named(rows)
    BY <2>1, <2>2 DEF Named
  <2>4. ConfirmedOf(rows') = ConfirmedOf(rows)
    BY <2>1 DEF ConfirmedOf, Named
  <2>5. \A q \in Runs : run'[q].snapshot = run[q].snapshot
    <3>1. PICK p \in RunPcs : Goto(r, p)
      BY DEF Record, RunPcs, Over
    <3> QED
      BY <3>1, MovesOnly
  <2>6. r \in Whole(objects)
    <3>1. Holds("daily", r) /\ run[r].snapshot # Damaged
      BY TypedIs, BackupAssumption DEF Record, At, BackupInv, ObjectsAreDumps, Stored, Typed, RunSet
    <3> QED
      BY <3>1 DEF Holds, Whole
  <2>7. /\ WrittenOf(objects) = [x \in Whole(objects) |-> run[x].snapshot]
        /\ ListedOf(rows) = [x \in Named(rows) |-> run[x].snapshot] /\ Named(rows) \subseteq Runs
    BY CatalogNow
  <2>8. ListedOf(rows') = [x \in Named(rows) \cup {r} |-> run'[x].snapshot]
    BY <2>3, CatalogNext
  <2>9. ListedOf(rows') = Entered(ListedOf(rows), r, WrittenOf(objects)[r])
    BY <2>3, <2>5, <2>6, <2>7, <2>8 DEF Entered
  <2> QED
    BY <1>1, <2>3, <2>4, <2>6, <2>7, <2>9
<1> QED
  BY <1>1, <1>2

LEMMA MarkEnters ==
  ASSUME BackupInv, BackupInv', NEW t \in Tests, MarkVerified(t)
  PROVE  /\ objects' = objects
         /\ \/ rows' = rows
            \/ /\ test[t].record \in DOMAIN ListedOf(rows)
               /\ ListedOf(rows)[test[t].record] = WrittenOf(objects)[test[t].record]
               /\ ConfirmedOf(rows') = ConfirmedOf(rows) \cup {test[t].record}
               /\ ListedOf(rows') = ListedOf(rows)
<1>1. objects' = objects
  BY DEF MarkVerified
<1>2. [Next]_vars
  BY DEF Next, TestStep
<1>3. CASE rows' # rows
  <2> DEFINE a == test[t].record
  <2>1. rows' = {Marked(q, a) : q \in rows}
    BY <1>3, TestStepKeeps DEF TestStep
  <2>2. \E q \in rows : q.archive = a
    BY DEF MarkVerified, TestAt, BackupInv, TestsAreTrue
  <2>3. \A q \in rows : Marked(q, a).archive = q.archive /\ (Marked(q, a).marked <=> (q.marked \/ q.archive = a))
    BY Archives, MarkedIs
  <2> HIDE DEF a
  <2>4. Named(rows') = Named(rows)
    BY <2>1, <2>3 DEF Named
  <2>5. ConfirmedOf(rows') = ConfirmedOf(rows) \cup {a}
    BY <2>1, <2>2, <2>3 DEF ConfirmedOf, Named
  <2>6. a \in Named(rows)
    BY <2>2 DEF Named
  <2>7. a \in DOMAIN ListedOf(rows) /\ ListedOf(rows)[a] = WrittenOf(objects)[a]
    BY <2>6, CatalogNow
  <2>8. ListedOf(rows') = ListedOf(rows)
    BY <1>2, <2>4, CatalogStays
  <2> QED
    BY <1>1, <2>5, <2>7, <2>8 DEF a
<1> QED
  BY <1>1, <1>3

(* Every other step leaves the catalogue alone.                            *)
LEMMA OthersStay ==
  ASSUME BackupInv, BackupInv', Next,
         \A r \in Runs : ~Upload(r) /\ ~Record(r), \A t \in Tests : ~MarkVerified(t)
  PROVE  rows' = rows /\ WrittenOf(objects') = WrittenOf(objects)
<1>1. rows' = rows
  <2>1. ASSUME NEW r \in Runs, BackupStep(r) PROVE rows' = rows
    BY <2>1 DEF BackupStep, Start, WritePgpass, ExportSnapshot, Dump, EndDump, Verify, UploadFails,
                CopyToMonthly, Unlink
  <2>2. ASSUME NEW t \in Tests, TestStep(t) PROVE rows' = rows
    BY <2>2, TestStepKeeps
  <2> QED
    BY <2>1, <2>2 DEF Next, Commit, NextDay, Expire, Kill
<1>2. objects' = objects \/ Whole(objects') = Whole(objects)
  <2>1. ASSUME NEW r \in Runs, CopyToMonthly(r) PROVE objects' = objects \/ Whole(objects') = Whole(objects)
    <3>1. \A data : Object("monthly", r, data).tier # "daily"
      BY DEF Object
    <3>2. objects' = objects \/ \E data : objects' = objects \cup {Object("monthly", r, data)}
      BY <2>1 DEF CopyToMonthly
    <3> QED
      BY <3>1, <3>2 DEF Whole
  <2>2. ASSUME NEW r \in Runs, BackupStep(r), ~CopyToMonthly(r) PROVE objects' = objects
    BY <2>2 DEF BackupStep, Start, WritePgpass, ExportSnapshot, Dump, EndDump, Verify, UploadFails,
                Unlink
  <2>3. ASSUME NEW t \in Tests, TestStep(t) PROVE objects' = objects
    BY <2>3, TestStepKeeps
  <2>4. ASSUME Expire PROVE Whole(objects') = Whole(objects)
    <3>1. PICK o \in objects : objects' = (objects \ {o}) \cup {[o EXCEPT !.expired = TRUE]}
      BY <2>4 DEF Expire
    <3>2. PICK n : n = [o EXCEPT !.expired = TRUE]
      OBVIOUS
    <3>3. n.tier = o.tier /\ n.archive = o.archive /\ n.data = o.data
      BY <3>2, Archives DEF ObjectSet
    <3>4. objects' = (objects \ {o}) \cup {n}
      BY <3>1, <3>2
    <3> QED
      BY <3>3, <3>4 DEF Whole
  <2>5. Commit \/ NextDay \/ Kill => objects' = objects
    BY DEF Commit, NextDay, Kill
  <2> QED
    BY <2>1, <2>2, <2>3, <2>4, <2>5 DEF Next
<1>3. [Next]_vars
  OBVIOUS
<1> QED
  BY <1>1, <1>2, <1>3, CatalogStays

LEMMA CatalogStep ==
  ASSUME BackupInv, BackupInv', [Next]_vars
  PROVE  [Catalog!Next]_<<WrittenOf(objects), ListedOf(rows), ConfirmedOf(rows)>>
<1> DEFINE written == WrittenOf(objects)
           listed == ListedOf(rows)
           confirmed == ConfirmedOf(rows)
<1>1. Catalog!Next <=>
        \E a \in Runs :
          \/ /\ a \in DOMAIN written \ DOMAIN listed
             /\ listed' = Entered(listed, a, written[a]) /\ written' = written /\ confirmed' = confirmed
          \/ /\ a \in DOMAIN listed /\ listed[a] = written[a]
             /\ confirmed' = confirmed \cup {a} /\ written' = written /\ listed' = listed
          \/ \E c \in Versions :
               /\ a \notin DOMAIN written
               /\ written' = Entered(written, a, c) /\ listed' = listed /\ confirmed' = confirmed
  BY DEF Catalog!Next, Catalog!List, Catalog!Confirm, Catalog!Write, Catalog!Extended, Entered,
         WrittenOf, ListedOf, ConfirmedOf, Whole, Named, RowOf
<1>2. ASSUME NEW r \in Runs, Upload(r) PROVE Catalog!Next \/ UNCHANGED <<written, listed, confirmed>>
  <2>1. run[r].snapshot \in Versions
    BY TypedIs DEF BackupInv, Typed, RunSet
  <2>2. rows' = rows => listed' = listed /\ confirmed' = confirmed
    OBVIOUS
  <2>3. /\ rows' = rows
        /\ \/ written' = written
           \/ r \notin DOMAIN written /\ written' = Entered(written, r, run[r].snapshot)
    BY <1>2, UploadEnters
  <2> HIDE DEF written, listed, confirmed
  <2> QED
    BY <1>1, <2>1, <2>2, <2>3
<1>3. ASSUME NEW r \in Runs, Record(r) PROVE Catalog!Next \/ UNCHANGED <<written, listed, confirmed>>
  <2>1. (rows' = rows => listed' = listed /\ confirmed' = confirmed) /\ (objects' = objects => written' = written)
    OBVIOUS
  <2>2. /\ objects' = objects
        /\ \/ rows' = rows
           \/ /\ r \in DOMAIN written \ DOMAIN listed
              /\ listed' = Entered(listed, r, written[r]) /\ confirmed' = confirmed
    BY <1>3, RecordEnters
  <2> HIDE DEF written, listed, confirmed
  <2> QED
    BY <1>1, <2>1, <2>2
<1>4. ASSUME NEW t \in Tests, MarkVerified(t) PROVE Catalog!Next \/ UNCHANGED <<written, listed, confirmed>>
  <2>1. (rows' = rows => listed' = listed /\ confirmed' = confirmed) /\ (objects' = objects => written' = written)
    OBVIOUS
  <2>2. /\ objects' = objects
        /\ \/ rows' = rows
           \/ /\ test[t].record \in DOMAIN listed /\ listed[test[t].record] = written[test[t].record]
              /\ confirmed' = confirmed \cup {test[t].record} /\ listed' = listed
    BY <1>4, MarkEnters
  <2>3. DOMAIN listed \subseteq Runs
    BY CatalogNow
  <2> HIDE DEF written, listed, confirmed
  <2> QED
    BY <1>1, <2>1, <2>2, <2>3
<1>5. CASE /\ Next /\ (\A r \in Runs : ~Upload(r) /\ ~Record(r)) /\ (\A t \in Tests : ~MarkVerified(t))
  BY <1>5, OthersStay
<1>6. CASE UNCHANGED vars
  BY <1>6 DEF vars
<1>7. Catalog!Next \/ UNCHANGED <<written, listed, confirmed>>
  BY <1>2, <1>3, <1>4, <1>5, <1>6
<1> QED
  BY <1>7

(* The table of the backups implements the catalogue: a row lists an       *)
(* archive that was put in the bucket whole, with what it holds, and is    *)
(* confirmed only as such.                                                 *)
THEOREM RowsImplementTheCatalog == Spec => RowsAreACatalog
<1>1. Init => Catalog!Init
  <2> SUFFICES ASSUME Init PROVE Catalog!Init
    OBVIOUS
  <2>1. objects = {} /\ rows = {}
    BY DEF Init
  <2>2. /\ {o.archive : o \in {x \in objects : x.tier = "daily" /\ x.data # Damaged}} = {}
        /\ {q.archive : q \in rows} = {} /\ {q.archive : q \in {x \in rows : x.marked}} = {}
    BY <2>1
  <2>3. \A S : S = {} => /\ [r \in S |-> (CHOOSE o \in objects : o.archive = r /\ o.tier = "daily").data] = << >>
                        /\ [r \in S |-> RowOf(r).content] = << >>
    OBVIOUS
  <2> QED
    BY <2>2, <2>3 DEF Catalog!Init
<1>2. BackupInv /\ BackupInv' /\ [Next]_vars
        => [Catalog!Next]_<<[r \in {o.archive : o \in {x \in objects : x.tier = "daily" /\ x.data # Damaged}} |->
                               (CHOOSE o \in objects : o.archive = r /\ o.tier = "daily").data],
                            [r \in {q.archive : q \in rows} |-> RowOf(r).content],
                            {q.archive : q \in {x \in rows : x.marked}}>>
  BY CatalogStep DEF WrittenOf, ListedOf, ConfirmedOf, Whole, Named, RowOf
<1> QED
  BY <1>1, <1>2, BackupInvariant, PTL DEF Spec, RowsAreACatalog, Catalog!Spec, Catalog!vars
=============================================================================
