----------------------------- MODULE UsdaIngest -----------------------------
(* The weekly USDA polls and the USDA backfill: the paged reader               *)
(* (app/ingest/socrata_client.py), the rates job, which reads several datasets *)
(* in one transaction (usda_rates.py), the movements job (usda_movements.py)   *)
(* and the command that reads a dataset in full (usda_backfill.py).            *)
(*                                                                             *)
(* A dataset is a table of the publisher that grows and is corrected while it  *)
(* is read.  A row is a place and a week, with a published measure; the rows   *)
(* of the database carry the dataset they came from as their horizon.          *)
EXTENDS Integers, Sequences, FiniteSets, Functions

CONSTANTS Datasets,     \* dataset keys
          Places,       \* locations or locks
          MaxWeek,      \* this week; the ones before it are 1..MaxWeek
          Measures,     \* published measures; Unpublished among them
          Unpublished,  \* the key is absent, or null
          Unreadable,   \* dataset -> measures its parser refuses
          Keys,         \* job -> the datasets it reads, in order
          Backfills,    \* the jobs that read in full
          OverlapWeeks, ColdStartWeeks, PageLimit, PageCap,
          Histories,    \* dataset -> what the publisher may hold when the model starts
          MaxChanges,   \* bound: publications and corrections
          MaxRuns       \* bound: runs of any job

Weeks == 1..MaxWeek
Rows == Places \X Weeks
Week(r) == r[2]
Jobs == DOMAIN Keys

\* Some of the rows of S, each with a measure.
Partial(S) == UNION {[D -> Measures] : D \in SUBSET S}

ASSUME UsdaAssumption ==
  /\ IsFiniteSet(Places)
  /\ MaxWeek \in Nat /\ OverlapWeeks \in Nat /\ ColdStartWeeks \in Nat
  /\ PageLimit \in Nat \ {0} /\ PageCap \in Nat \ {0}
  /\ MaxChanges \in Nat /\ MaxRuns \in Nat
  /\ Unpublished \in Measures /\ Backfills \subseteq Jobs
  /\ \A j \in Jobs : Keys[j] \in Seq(Datasets) /\ Keys[j] # << >> /\ IsInjective(Keys[j])
  /\ \A d \in Datasets : Unreadable[d] \subseteq Measures \ {Unpublished}
  /\ \A d \in Datasets : Histories[d] \subseteq Partial(Rows)

VARIABLES published,  \* dataset -> (row -> measure): what the publisher holds
          everPublished, \* history: <<dataset, row, measure>>
          table,      \* <<dataset, row>> -> measure: what is committed
          run,        \* what each job's current run holds
          changes, started,
          excused     \* history: <<dataset, row>> a poll could not have been expected to read

vars == <<published, everPublished, table, run, changes, started, excused>>

Idle == [pc |-> "idle", todo |-> << >>, since |-> 0, offset |-> 0, pages |-> 0,
         received |-> << >>, there |-> {}, withheld |-> {}, missed |-> {}, cold |-> FALSE, moved |-> FALSE,
         read |-> << >>, buffer |-> << >>, written |-> 0, alone |-> TRUE]

Entries(p) == UNION {{<<d, r, p[d][r]>> : r \in DOMAIN p[d]} : d \in Datasets}

Init == /\ published \in [Datasets -> UNION Range(Histories)]
        /\ \A d \in Datasets : published[d] \in Histories[d]
        /\ everPublished = Entries(published)
        /\ table = << >> /\ run = [j \in Jobs |-> Idle]
        /\ changes = 0 /\ started = 0 /\ excused = {}

Matching(d, since) == {r \in DOMAIN published[d] : Week(r) >= since}
Active(j) == run[j].pc \notin {"idle", "failed", "done"}
Stored(d) == {x \in DOMAIN table : x[1] = d}
Key(j) == Head(run[j].todo)
Max(S) == CHOOSE m \in S : \A x \in S : x <= m

\* A run loses what it holds, and its transaction is rolled back.
Fail(j) == run' = [run EXCEPT ![j] = [Idle EXCEPT !.pc = "failed"]]

\* Rows of a dataset that a run has read and not yet committed.
Held(d) == UNION {{x \in DOMAIN run[j].buffer : x[1] = d}
                  \cup (IF run[j].pc \in {"reading", "read"} /\ Key(j) = d
                        THEN {d} \X DOMAIN run[j].received ELSE {}) : j \in Jobs}

-----------------------------------------------------------------------------
(* The publisher *)

\* A read of the dataset that is under way sees its rows move.
Moved(d) == [j \in Jobs |->
  IF run[j].pc = "reading" /\ Key(j) = d THEN [run[j] EXCEPT !.moved = TRUE] ELSE run[j]]

\* Rows of one week appear, perhaps late: behind what the polls ask for.
Publish ==
  /\ changes < MaxChanges /\ changes' = changes + 1
  /\ \E d \in Datasets, w \in Weeks, ps \in (SUBSET Places) \ {{}}, m \in Measures :
       LET new == {<<p, w>> : p \in ps} \ DOMAIN published[d]
           newest == Max({0} \cup {Week(x[2]) : x \in Stored(d) \cup Held(d)})
       IN /\ new # {}
          /\ published' = [published EXCEPT ![d] =
               [r \in DOMAIN @ \cup new |-> IF r \in new THEN m ELSE @[r]]]
          /\ everPublished' = everPublished \cup {<<d, r, m>> : r \in new}
          /\ excused' = IF w < newest - OverlapWeeks THEN excused \cup {<<d, r>> : r \in new}
                        ELSE excused
          /\ run' = Moved(d)
  /\ UNCHANGED <<table, started>>

\* A published measure is corrected; the rows keep their places.
Correct ==
  /\ changes < MaxChanges /\ changes' = changes + 1
  /\ \E d \in Datasets : \E r \in DOMAIN published[d] : \E m \in Measures \ {published[d][r]} :
       /\ published' = [published EXCEPT ![d][r] = m]
       /\ everPublished' = everPublished \cup {<<d, r, m>>}
  /\ UNCHANGED <<table, run, started, excused>>

-----------------------------------------------------------------------------
(* One page *)

\* $order names the week and nothing else: rows of one week come in an order of
\* the server's own, which may differ between requests.
Precedes(q, r, rank) == Week(q) < Week(r) \/ (Week(q) = Week(r) /\ rank[q[1]] < rank[r[1]])

\* The rows the service counts off for one request.
Window(d, since, offset, rank) ==
  LET all == Matching(d, since)
      place(r) == Cardinality({q \in all : Precedes(q, r, rank)})
  IN {r \in all : offset <= place(r) /\ place(r) < offset + PageLimit}

Ranks == {f \in [Places -> 1..Cardinality(Places)] : IsInjective(f)}

\* A full page, or a short one that withholds some of its rows.
Pages(window) == IF window = {} THEN {{}} ELSE (SUBSET window) \ {{}}

\* The weeks whose rows lie on both sides of a page boundary of this read.
Straddling(rows) ==
  {w \in Weeks : \E k \in 1..PageCap :
     /\ Cardinality({r \in rows : Week(r) < w}) < k * PageLimit
     /\ k * PageLimit < Cardinality({r \in rows : Week(r) <= w})}

-----------------------------------------------------------------------------
(* The jobs *)


\* One resume point for all the horizons of a table.
NewestOfTheTable(d, view) == {Week(x[2]) : x \in DOMAIN view}

\* latest_week, per horizon; the transaction sees its own writes.
Newest(d, view) == {Week(x[2]) : x \in {y \in DOMAIN view : y[1] = d}}

Cold(j, d, view) == j \notin Backfills /\ Newest(d, view) = {}

\* Where the poll of a dataset starts.
Since(j, d, view) ==
  CASE j \in Backfills -> 1
    [] Cold(j, d, view) -> MaxWeek - ColdStartWeeks
    [] OTHER -> Max(Newest(d, view)) - OverlapWeeks

\* The run turns to the first of the datasets todo.
Ready(j, todo, view) ==
  LET d == Head(todo)
      since == Since(j, d, view)
  IN [Idle EXCEPT !.pc = "reading", !.todo = todo, !.since = since,
                  !.cold = Cold(j, d, view), !.there = Matching(d, since)]

Overlaid(b, t) == [x \in DOMAIN b \cup DOMAIN t |-> IF x \in DOMAIN b THEN b[x] ELSE t[x]]

\* What a read of a dataset has not met: rows that were to be had, and, on a cold
\* start, older ones, which are left to the backfill.
Missed(j, d) ==
  {<<d, r>> : r \in {q \in DOMAIN published[d] \ DOMAIN run[j].received :
     Week(q) >= run[j].since \/ run[j].cold}}

\* A run turns to the first of its datasets.
Start(j) ==
  /\ ~Active(j) /\ started < MaxRuns
  /\ started' = started + 1
  /\ LET shares == {i \in Jobs \ {j} : Active(i) /\ Range(Keys[i]) \cap Range(Keys[j]) # {}}
     IN run' = [i \in Jobs |->
                 IF i = j THEN [Ready(j, Keys[j], table) EXCEPT !.alone = shares = {}]
                 ELSE IF i \in shares THEN [run[i] EXCEPT !.alone = FALSE] ELSE run[i]]
  /\ UNCHANGED <<published, everPublished, table, changes, excused>>

\* resolve_dataset: a dataset whose key has no id yet is refused before any
\* request, and with it what the run has read of the datasets before it.
NotResolved(j) ==
  /\ run[j].pc = "reading" /\ run[j].pages = 0
  /\ Fail(j)
  /\ UNCHANGED <<published, everPublished, table, changes, started, excused>>

\* Rows of a page kept with the measure they carried; of a repeated row the last.
Kept(received, page, d) ==
  [r \in DOMAIN received \cup page |-> IF r \in page THEN published[d][r] ELSE received[r]]

EndsOnShort(page) == Cardinality(page) < PageLimit

\* An empty page is the end; a short one is not.
Ends(page) == page = {}

\* The offset moves by what was asked for, not by what was received.
Advance(page) == PageLimit

\* fetch_all: one request.
Page(j) ==
  /\ run[j].pc = "reading" /\ run[j].pages < PageCap
  /\ \E rank \in Ranks :
       LET window == Window(Key(j), run[j].since, run[j].offset, rank)
       IN \E page \in Pages(window) :
            run' = [run EXCEPT ![j].pc = IF Ends(page) THEN "read" ELSE @,
                               ![j].received = Kept(@, page, Key(j)),
                               ![j].withheld = @ \cup (window \ page),
                               ![j].offset = @ + Advance(page), ![j].pages = @ + 1]
  /\ UNCHANGED <<published, everPublished, table, changes, started, excused>>

\* The cap raises; so does an error document, a body that is no page, a network fault.
PageFails(j) ==
  /\ run[j].pc = "reading"
  /\ Fail(j)
  /\ UNCHANGED <<published, everPublished, table, changes, started, excused>>

\* optional_field: an absent key and a null are one thing, and no value.
Absent(m) == m = Unpublished

\* parse_rate, parse_tons: a value is read as it stands or raises; 0 is a tonnage,
\* and no rate.
Readable(d, m) == m \notin Unreadable[d]

Refused(j) ==
  \E m \in Range(run[j].received) : ~Absent(m) /\ ~Readable(Key(j), m)

\* The comparison of SQL's <>, by which nothing differs from NULL.
ComparedBySql(x, m, view) ==
  x \notin DOMAIN view \/ (view[x] # m /\ Unpublished \notin {view[x], m})

\* IS DISTINCT FROM.
Differs(x, m, view) == x \notin DOMAIN view \/ view[x] # m

\* The rows an upsert returns: those it inserts and those it changes.
Changed(d, received, view) ==
  {<<d, r>> : r \in {q \in DOMAIN received : Differs(<<d, q>>, received[q], view)}}

\* The next dataset of the run, which sees what the run has written; or the end.
NextDataset(j, buffer) ==
  LET rest == Tail(run[j].todo)
  IN IF rest = << >> THEN [Idle EXCEPT !.pc = "written"]
     ELSE Ready(j, rest, Overlaid(buffer, table))

\* Parsing and the upsert, in the transaction of the run.
Upsert(j) ==
  /\ run[j].pc = "read"
  /\ \/ Refused(j) /\ Fail(j)
     \/ /\ ~Refused(j)
        /\ LET d == Key(j)
               received == run[j].received
               changed == Changed(d, received, Overlaid(run[j].buffer, table))
               buffer == Overlaid([x \in changed |-> received[x[2]]], run[j].buffer)
           IN run' = [run EXCEPT ![j] =
                [NextDataset(j, buffer)
                 EXCEPT !.buffer = buffer, !.alone = run[j].alone,
                        !.read = Overlaid([x \in {d} \X DOMAIN received |-> received[x[2]]],
                                          run[j].read),
                        !.written = run[j].written + Cardinality(changed),
                        !.missed = run[j].missed \cup Missed(j, d)]]
  /\ UNCHANGED <<published, everPublished, table, changes, started, excused>>

Commit(j) ==
  /\ run[j].pc = "written"
  /\ table' = Overlaid(run[j].buffer, table)
  /\ run' = [run EXCEPT ![j] = [Idle EXCEPT !.pc = "done"]]
  /\ excused' = excused \cup run[j].missed
  /\ UNCHANGED <<published, everPublished, changes, started>>

Next == \/ Publish \/ Correct
        \/ \E j \in Jobs : Start(j) \/ NotResolved(j) \/ Page(j) \/ PageFails(j) \/ Upsert(j) \/ Commit(j)

Spec == Init /\ [][Next]_vars

-----------------------------------------------------------------------------
TypeOK ==
  /\ \A d \in Datasets : DOMAIN published[d] \subseteq Rows
  /\ DOMAIN table \subseteq Datasets \X Rows /\ Range(table) \subseteq Measures
  /\ \A j \in Jobs :
       /\ run[j].pc \in {"idle", "reading", "read", "written", "done", "failed"}
       /\ run[j].pages \in 0..PageCap /\ run[j].offset = run[j].pages * PageLimit
       /\ (run[j].pc \in {"reading", "read"} => Range(run[j].todo) \subseteq Range(Keys[j]))
  /\ changes \in 0..MaxChanges /\ started \in 0..MaxRuns

\* A read that ends has met every row that was there all the time, but for the
\* rows a short page withheld, rows of a week that lies across two pages, and a
\* table that grew under the read: a prefix is never taken for the dataset.
ReadLossHasACause ==
  \A j \in Jobs : run[j].pc = "read" =>
    \A r \in run[j].there \ DOMAIN run[j].received :
      r \in run[j].withheld \/ run[j].moved \/ Week(r) \in Straddling(run[j].there)

\* Each horizon resumes from its own newest week: behind it no published row is
\* missing from the table that a committed run could have read, whichever other
\* horizon is ahead.
HolesHaveACause ==
  \A d \in Datasets : \A x \in Stored(d) : \A r \in DOMAIN published[d] :
    Week(r) < Week(x[2]) - OverlapWeeks => <<d, r>> \in DOMAIN table \cup excused

\* What is stored under a horizon was once published by the dataset of that
\* horizon, as it stands: an unreadable measure is not stored as a missing one.
StoredWasPublished ==
  \A x \in DOMAIN table : <<x[1], x[2], table[x]>> \in everPublished

\* Together: what stands in the tables, and what is missing from them.
TablesAreFaithful == TypeOK /\ HolesHaveACause /\ StoredWasPublished

\* The rows a run reports are the rows its commit changes, over all its datasets
\* together, and every row it read, corrected from NULL to 0 or to NULL, is then
\* in the table as it was read; unless another run was in the same datasets.
ReportsWhatChanged ==
  [][\A j \in Jobs :
       (run[j].pc = "written" /\ run'[j].pc = "done" /\ run[j].alone) =>
         /\ run[j].written = Cardinality({x \in DOMAIN table' :
                                x \notin DOMAIN table \/ table[x] # table'[x]})
         /\ \A x \in DOMAIN run[j].read : table'[x] = run[j].read[x]]_vars
=============================================================================
