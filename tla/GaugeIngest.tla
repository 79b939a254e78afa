----------------------------- MODULE GaugeIngest -----------------------------
(***************************************************************************)
(* The river-gauge ingest of src/app/ingest: a scheduled poll and a        *)
(* command-line backfill which write one table and take their resume point *)
(* from the newest row in it. There are two such pairs, usgs_daily_ingest  *)
(* with daily_backfill and usgs_ingest with backfill, alike but for        *)
(*   "dv"       dates, and windows inclusive at both ends,                 *)
(*   "iv"       instants, and half-open windows,                           *)
(*   "rolling"  instants of a site with no iv_record_start.                *)
(* A behaviour is of one of them, its table and its sites.                 *)
(*                                                                         *)
(* A value is its version: 0 not published, 1 provisional, 2 revised. A    *)
(* request for one site is answered, as the source is at that moment, or   *)
(* refused; UsgsAnswers says which.                                        *)
(***************************************************************************)
EXTENDS UsgsAnswers, FiniteSets, Functions

CONSTANTS
  Order,         \* the gauges in the order load() returns them (by site id)
  Params,        \* available_params, the same for every site
  Services,      \* the kinds of pair and site looked at
  OverlapDays, ColdStartDays, WindowDays,
  KnownGaps,     \* gauge_known_gaps of the daily service, as [site, first, last]
  Overrides,     \* the days an operator may name with --start, of the record or not
  Pollers,       \* runs of the poll job that can be in progress
  Backfills,     \* runs of the backfill command that can be in progress
  MaxLag,        \* how many days out of date order the source may publish
  Revised,       \* bound: the days the source may revise
  MaxFaults,     \* bound: refused requests and killed processes, None for any number
  MaxDay,        \* bound: the last day of the calendar
  None

ASSUME WindowsAssumption ==
  /\ OverlapDays \in Nat /\ ColdStartDays \in Nat /\ WindowDays \in Nat \ {0}
  /\ MaxDay \in Nat \ {0} /\ MaxLag \in 0 .. OverlapDays
  /\ Revised \subseteq Nat /\ MaxFaults \in Nat \cup {None} /\ NoData \in Int \ Nat
  /\ Services \subseteq {"dv", "iv", "rolling"}
  /\ Overrides \subseteq Int
  /\ None \notin Int /\ Pollers \cap Backfills = {}
  /\ KnownGaps \subseteq [site : Range(Order), first : Nat, last : Nat]

(* load() raises on an empty registry; a gauge has parameters, each once,  *)
(* and what else a series can say it is of is none of them.                *)
ASSUME GaugesAssumption ==
  /\ Order \in Seq(Range(Order)) \ {<<>>}
  /\ IsFiniteSet(Params) /\ Params # {}
  /\ Unnamed \notin Params \cup {Mean} /\ Other \notin Params \cup {Mean}

VARIABLES
  service,  \* which pair, and which kind of site
  today,    \* the calendar
  source,   \* what USGS serves: version of each site's, parameter's and date's value
  table,    \* gauge_readings_daily, or gauge_readings_iv
  proc,     \* the processes
  cold,     \* history: the sites a poll found empty
  skipped,  \* history: the sites of which a --start passed over what was not stored
  behind,   \* history: the sites with a value published late, behind a walk
  faults    \* what MaxFaults counts

vars == <<service, today, source, table, proc, cold, skipped, behind, faults>>

Sites == {Order[i] : i \in DOMAIN Order}
Days == 0 .. MaxDay  \* day 0 is every site's record start
Processes == Pollers \cup Backfills
Versions == 0 .. 3   \* 3 is a value of another statistic or parameter
Values == [Params -> [Days -> Versions]]
Requested == RequestedOf(Params)

Nothing == [q \in Params |-> [d \in Days |-> 0]]
NoReadings == [q \in Params |-> [d \in Days |-> {}]]

(* A process: the sites it has yet to finish, the last day it asks for,    *)
(* the first day of its next request and the readings it holds. Of a walk  *)
(* also the --start it was given, whether it began at the seeded start,    *)
(* the first date it has read, and whether an empty window has been        *)
(* UNEXPLAINED. stale is a history: another process has written the site   *)
(* since the answer it holds.                                              *)
Idle == [pc |-> "idle", todo |-> <<>>, end |-> 0, from |-> 0, got |-> NoReadings,
         start |-> None, seed |-> FALSE, first |-> None, unexplained |-> FALSE,
         stale |-> FALSE]

Site(p) == Head(proc[p].todo)

FirstDay == [q \in Params |-> [d \in Days |-> IF d = 0 THEN 1 ELSE 0]]

(* A new installation, or one whose backfill has run.                      *)
Init ==
  /\ service \in Services
  /\ \/ today = 0 /\ source = [s \in Sites |-> Nothing]
     \/ today = 1 /\ source = [s \in Sites |-> FirstDay]
  /\ table = source
  /\ proc = [p \in Processes |-> Idle]
  /\ cold = {} /\ skipped = {} /\ behind = {} /\ faults = 0

(* The dates with a value of any parameter, and the latest of them.        *)
DatesIn(values) == {d \in Days : \E q \in Params : values[q][d] > 0}

Latest(values) ==
  IF DatesIn(values) = {} THEN None
  ELSE CHOOSE d \in DatesIn(values) : \A e \in DatesIn(values) : e <= d

(* latest_date, latest_ts: MAX of the site, over all of its parameters.    *)
LatestDate(s) == Latest(table[s])

-----------------------------------------------------------------------------
(* The calendar and the source.                                            *)

NextDay ==
  /\ today < MaxDay
  /\ today' = today + 1
  /\ UNCHANGED <<service, source, table, proc, cold, skipped, behind, faults>>

(* The days a walk has left behind it: asked for, or passed over.          *)
Passed(p) ==
  CASE proc[p].pc = "asking" -> proc[p].from - 1
    [] proc[p].pc = "holding" -> proc[p].from + WindowDays - 1
    [] proc[p].pc = "done" -> proc[p].end
    [] OTHER -> -1

(* A value appears once its day has closed, out of order by MaxLag at most. *)
Publish(s, q, d) ==
  /\ d < today /\ source[s][q][d] = 0
  /\ Latest(source[s]) # None => Latest(source[s]) - MaxLag <= d
  /\ source' = [source EXCEPT ![s][q][d] = 1]
  /\ behind' = IF \E p \in Backfills : proc[p].todo = <<s>> /\ d <= Passed(p)
               THEN behind \cup {s} ELSE behind
  /\ UNCHANGED <<service, today, table, proc, cold, skipped, faults>>

Revise(s, q, d) ==
  /\ d \in Revised /\ source[s][q][d] = 1
  /\ source' = [source EXCEPT ![s][q][d] = 2]
  /\ UNCHANGED <<service, today, table, proc, cold, skipped, behind, faults>>

-----------------------------------------------------------------------------
(* A request for [first, last] and what the service may answer: the whole  *)
(* truth, with the sentinel where a closed day has no value; the same from *)
(* two measurement methods, or with a series nobody asked for; or a body   *)
(* the client refuses.                                                     *)

Block(s, q, first, last) ==
  LET from == IF first < 0 THEN 0 ELSE first
      to == IF last < today THEN last ELSE today - 1
  IN  [i \in 1 .. to - from + 1 |->
         [at |-> from + i - 1, formed |-> TRUE,
          value |-> IF source[s][q][from + i - 1] > 0 THEN source[s][q][from + i - 1]
                    ELSE NoData]]

(* The series come in some order.                                          *)
InOrder == CHOOSE f \in Bijection(1 .. Cardinality(Params), Params) : TRUE

Whole(s, first, last) ==
  [json |-> TRUE, list |-> TRUE,
   series |-> [i \in 1 .. Cardinality(Params) |->
                 [param |-> InOrder[i], stat |-> Mean,
                  entries |-> Block(s, InOrder[i], first, last)]]]

Volunteered(q, first) ==
  [param |-> IF service = "dv" THEN q ELSE Other,
   stat |-> IF service = "dv" THEN Other ELSE Mean,
   entries |-> <<[at |-> first, value |-> 3, formed |-> TRUE]>>]

Bodies(s, first, last) ==
  LET whole == Whole(s, first, last)
      stray == Volunteered(whole.series[1].param, first)
  IN  {whole,
       [whole EXCEPT !.series = [i \in DOMAIN @ |->
          [@[i] EXCEPT !.entries = whole.series[i].entries \o whole.series[i].entries]]],
       [whole EXCEPT !.series = Append(@, stray)],
       [whole EXCEPT !.series = Tail(@)],
       [whole EXCEPT !.series[1] = stray],
       [whole EXCEPT !.series[1].param = Unnamed],
       [whole EXCEPT !.series[1].entries =
          <<[at |-> first, value |-> 0, formed |-> FALSE]>>],
       [whole EXCEPT !.json = FALSE], [whole EXCEPT !.list = FALSE]}

\* Variant: one row for every reading received.
AsReceived(readings) == readings

(* _deduplicate: the last reading of each key; its place is forgotten.     *)
Deduplicated(readings) ==
  {[value |-> r.value] : r \in {r \in readings : \A x \in readings : ~Precedes(r, x)}}

(* The rows an answer makes, for each date.                                *)
Received(body) ==
  LET readings == Readings(body, Requested)
  IN  [q \in Params |-> [d \in Days |-> Deduplicated(ReadingsAt(readings, q, d))]]

(* PostgreSQL rejects a statement with two rows of one key.                *)
Accepted(got) == \A q \in Params, d \in Days : Cardinality(got[q][d]) < 2

(* Faults are counted only where they are bounded.                         *)
Fault ==
  \/ MaxFaults = None /\ UNCHANGED faults
  \/ MaxFaults # None /\ faults < MaxFaults /\ faults' = faults + 1

(* A refused body is an exception that ends the run, whatever sites it has *)
(* still to do, and so is a source that cannot be reached.                 *)
Answered(p, first, last) ==
  /\ \E body \in Bodies(Site(p), first, last) :
       /\ ~Refused(body, Requested)
       /\ proc' = [proc EXCEPT ![p].pc = "holding", ![p].got = Received(body)]
  /\ UNCHANGED <<service, today, source, table, cold, skipped, behind, faults>>

FetchFails(p) ==
  /\ proc[p].pc = "asking" /\ Fault
  /\ proc' = [proc EXCEPT ![p] = Idle]
  /\ UNCHANGED <<service, today, source, table, cold, skipped, behind>>

-----------------------------------------------------------------------------
(* The write: upsert_daily_readings and upsert_readings.                   *)

\* Variant: the answer replaces what is stored of the site.
ReplacedValue(old, new) == new

(* ON CONFLICT DO UPDATE: what was fetched replaces what is stored.        *)
UpsertedValue(old, new) == IF new # 0 THEN new ELSE old

(* What a statement has to write for a key, if anything.                   *)
ValueOf(row) == IF row = {} THEN 0 ELSE (CHOOSE r \in row : TRUE).value

Upserted(s, got) ==
  [table EXCEPT ![s] =
     [q \in Params |-> [d \in Days |->
        UpsertedValue(table[s][q][d], ValueOf(got[q][d]))]]]

(* The processes after p has written its site and moved on to state next.  *)
Written(p, next) ==
  [r \in Processes |->
     IF r = p THEN [next EXCEPT !.got = NoReadings, !.stale = FALSE]
     ELSE IF proc[r].pc = "holding" /\ Site(r) = Site(p) THEN [proc[r] EXCEPT !.stale = TRUE]
     ELSE proc[r]]

Commit(p, next) ==
  /\ table' = Upserted(Site(p), proc[p].got)
  /\ proc' = Written(p, next)
  /\ UNCHANGED <<service, today, source, cold, skipped, behind, faults>>

-----------------------------------------------------------------------------
(* The poll: one site after the other, one request and one commit each.    *)

StartPoll(p) ==
  /\ proc[p].pc = "idle"
  /\ proc' = [proc EXCEPT ![p] = [Idle EXCEPT !.pc = "next", !.todo = Order, !.end = today]]
  /\ UNCHANGED <<service, today, source, table, cold, skipped, behind, faults>>

PollFrom(p) == LatestDate(Site(p)) - OverlapDays

(* A site with no rows gets its last ColdStartDays, and no backfill.       *)
ReadNewest(p) ==
  /\ proc[p].pc = "next"
  /\ \/ /\ LatestDate(Site(p)) = None
        /\ proc' = [proc EXCEPT ![p].pc = "asking",
                                ![p].from = proc[p].end - ColdStartDays]
        /\ cold' = cold \cup {Site(p)}
     \/ /\ LatestDate(Site(p)) # None
        /\ proc' = [proc EXCEPT ![p].pc = "asking", ![p].from = PollFrom(p)]
        /\ UNCHANGED cold
  /\ UNCHANGED <<service, today, source, table, skipped, behind, faults>>

PollFetch(p) ==
  /\ proc[p].pc = "asking"
  /\ Answered(p, proc[p].from, proc[p].end)

(* The run ends with its last site.                                        *)
NextSite(run) ==
  IF Len(run.todo) = 1 THEN Idle
  ELSE [run EXCEPT !.pc = "next", !.todo = Tail(@), !.from = 0]

PollWrite(p) ==
  /\ proc[p].pc = "holding" /\ Accepted(proc[p].got)
  /\ Commit(p, NextSite(proc[p]))

-----------------------------------------------------------------------------
(* The backfill of one site: consecutive windows from the resume point to  *)
(* the day it was started, one commit each.                                *)

StartBackfill(p, s) ==
  /\ proc[p].pc = "idle"
  /\ proc' = [proc EXCEPT ![p] = [Idle EXCEPT !.pc = "next", !.todo = <<s>>, !.end = today]]
  /\ UNCHANGED <<service, today, source, table, cold, skipped, behind, faults>>

(* The newest row, or the record start of a site without rows.             *)
ResumePoint(p) == IF LatestDate(Site(p)) = None THEN 0 ELSE LatestDate(Site(p))

(* ResumePoint.from_seed: the walk skips nothing of the record.            *)
FromSeed(p) == service = "dv" /\ LatestDate(Site(p)) = None

Refuses(p) == service = "rolling" /\ LatestDate(Site(p)) = None

(* Something published of the site before a day is not stored.             *)
Lacking(s, first) ==
  \E q \in Params, d \in Days : d < first /\ source[s][q][d] > 0 /\ table[s][q][d] = 0

ReadResumePoint(p) ==
  /\ proc[p].pc = "next"
  /\ \/ /\ Refuses(p)
        /\ proc' = [proc EXCEPT ![p] = Idle]
        /\ UNCHANGED behind
     \/ /\ ~Refuses(p)
        /\ proc' = [proc EXCEPT ![p].pc = "asking", ![p].from = ResumePoint(p),
                                ![p].seed = FromSeed(p)]
        /\ behind' = IF Site(p) \notin cold \cup skipped /\ Lacking(Site(p), ResumePoint(p))
                     THEN behind \cup {Site(p)} ELSE behind
  /\ UNCHANGED <<service, today, source, table, cold, skipped, faults>>

(* start_override: the resume point in the data is ignored, whichever of   *)
(* the two is the later.                                                   *)
TakeOverride(p, start) ==
  /\ proc[p].pc = "next"
  /\ proc' = [proc EXCEPT ![p].pc = "asking", ![p].from = start, ![p].start = start]
  /\ skipped' = IF Lacking(Site(p), start) THEN skipped \cup {Site(p)} ELSE skipped
  /\ UNCHANGED <<service, today, source, table, cold, behind, faults>>

\* Variant: the next window starts one day late, as if ends were shared.
SkippedDay(p) == proc[p].from + WindowDays + 1

(* windows(): inclusive at both ends, the next one starts a day later;     *)
(* half-open, it starts where this one ends.                               *)
NextWindow(p) == proc[p].from + WindowDays

(* The last day a walk asks for: a half-open one stops short of its end.   *)
WalkEnd(p) == IF service = "dv" THEN proc[p].end ELSE proc[p].end - 1

WindowEnd(p) ==
  LET last == proc[p].from + WindowDays - 1
  IN  IF last <= WalkEnd(p) THEN last ELSE WalkEnd(p)

WindowFetch(p) ==
  /\ proc[p].pc = "asking" /\ proc[p].from <= WalkEnd(p)
  /\ Answered(p, proc[p].from, WindowEnd(p))

(* The dates an answer has values for.                                     *)
DatesOf(got) == {d \in Days : \E q \in Params : got[q][d] # {}}

\* Variant: a gap explains a window it touches.
TouchedBy(p) ==
  \E gap \in KnownGaps :
    gap.site = Site(p) /\ gap.first <= WindowEnd(p) /\ proc[p].from <= gap.last

(* KnownGap.contains_window.                                               *)
Covers(gap, first, last) == gap.first <= first /\ last <= gap.last

(* explain_empty_window: the window lies within one known gap of the site. *)
Explained(p) ==
  \E gap \in KnownGaps : gap.site = Site(p) /\ Covers(gap, proc[p].from, WindowEnd(p))

(* An empty answer writes nothing, and the walk goes on.                   *)
WindowEmpty(p) ==
  /\ proc[p].pc = "holding" /\ DatesOf(proc[p].got) = {}
  /\ proc' = [proc EXCEPT ![p] =
       [proc[p] EXCEPT !.pc = "asking", !.from = NextWindow(p), !.stale = FALSE,
                       !.unexplained = @ \/ (service = "dv" /\ ~Explained(p))]]
  /\ UNCHANGED <<service, today, source, table, cold, skipped, behind, faults>>

Earliest(p) ==
  LET dates == DatesOf(proc[p].got) \cup ({proc[p].first} \ {None})
  IN  CHOOSE d \in dates : \A e \in dates : d <= e

(* The line that names a site's first data formats its iv_record_start:    *)
(* without one that is an exception, before anything is written.           *)
WindowFails(p) ==
  /\ proc[p].pc = "holding" /\ DatesOf(proc[p].got) # {}
  /\ service = "rolling"
  /\ proc' = [proc EXCEPT ![p] = Idle]
  /\ UNCHANGED <<service, today, source, table, cold, skipped, behind, faults>>

WindowWrite(p) ==
  /\ proc[p].pc = "holding" /\ DatesOf(proc[p].got) # {}
  /\ service # "rolling" /\ Accepted(proc[p].got)
  /\ Commit(p, [proc[p] EXCEPT !.pc = "asking", !.from = NextWindow(p), !.first = Earliest(p)])

EndWalk(p) ==
  /\ proc[p].pc = "asking" /\ proc[p].from > WalkEnd(p)
  /\ proc' = [proc EXCEPT ![p].pc = "done", ![p].from = 0]
  /\ UNCHANGED <<service, today, source, table, cold, skipped, behind, faults>>

Report(p) ==
  /\ proc[p].pc = "done"
  /\ proc' = [proc EXCEPT ![p] = Idle]
  /\ UNCHANGED <<service, today, source, table, cold, skipped, behind, faults>>

-----------------------------------------------------------------------------
(* The process dies, and with it the transaction it has not committed.     *)
Kill(p) ==
  /\ proc[p].pc \notin {"idle", "done"} /\ Fault
  /\ proc' = [proc EXCEPT ![p] = Idle]
  /\ UNCHANGED <<service, today, source, table, cold, skipped, behind>>

PollStep(p) ==
  \/ StartPoll(p) \/ ReadNewest(p) \/ PollFetch(p) \/ PollWrite(p)
  \/ FetchFails(p)

WalkStep(p) ==
  \/ (\E s \in Sites : StartBackfill(p, s))
  \/ ReadResumePoint(p) \/ (\E start \in Overrides : TakeOverride(p, start))
  \/ WindowFetch(p) \/ WindowEmpty(p) \/ WindowFails(p) \/ WindowWrite(p)
  \/ EndWalk(p) \/ Report(p) \/ FetchFails(p)

Next ==
  \/ NextDay
  \/ \E s \in Sites, q \in Params, d \in Days : Publish(s, q, d) \/ Revise(s, q, d)
  \/ \E p \in Pollers : PollStep(p)
  \/ \E p \in Backfills : WalkStep(p)
  \/ \E p \in Processes : Kill(p)

Spec == Init /\ [][Next]_vars

(* The scheduler runs the poll again and again; an operator need not run   *)
(* the backfill, nor USGS publish anything.                                *)
FairSpec == Spec /\ \A p \in Pollers : WF_vars(PollStep(p))

-----------------------------------------------------------------------------
(* Properties.                                                             *)

(* The type of every variable.                                             *)
TypeOK ==
  /\ service \in Services /\ today \in Days /\ faults \in Nat
  /\ source \in [Sites -> Values] /\ table \in [Sites -> Values]
  /\ \A p \in Processes :
       /\ proc[p].pc \in {"idle", "next", "asking", "holding", "done"}
       /\ proc[p].got \in [Params -> [Days -> SUBSET [value : Versions]]] /\ proc[p].end \in Days
       /\ proc[p].from \in Int /\ proc[p].start \in Int \cup {None}
       /\ proc[p].first \in Days \cup {None}
       /\ {proc[p].seed, proc[p].unexplained, proc[p].stale} \subseteq BOOLEAN
  /\ cold \subseteq Sites /\ skipped \subseteq Sites /\ behind \subseteq Sites

Stored(s, q, d) == table[s][q][d] > 0

(* usgs_daily_ingest, "MAX(date) ... THE RESUME POINT, from the data": a   *)
(* published value that nobody will ask for again, because the newest      *)
(* stored date has moved past it by more than the overlap, is stored.  The *)
(* exceptions are a site whose first rows came from a cold-start poll, one *)
(* of which a --start passed over something, and a value published behind  *)
(* a walk that was under way.                                              *)
HolesHaveACause ==
  \A s \in Sites \ (cold \cup skipped \cup behind), q \in Params, d \in Days :
    source[s][q][d] > 0 /\ LatestDate(s) # None /\ d < LatestDate(s) - OverlapDays
      => Stored(s, q, d)

CompleteFrom(p, first) ==
  \A q \in Params, d \in Days :
    first <= d /\ d <= WalkEnd(p) /\ source[Site(p)][q][d] > 0 => Stored(Site(p), q, d)

(* daily_backfill, "Commits per window ... an interrupted run resumes from *)
(* where it actually got to": when a walk reports its site done, whatever  *)
(* interruptions, earlier walks and polls came before it, every published  *)
(* value up to the day it was started is stored. Of a site whose resume    *)
(* point was set by a cold-start poll, or past what a --start left, that   *)
(* is so only from the --start of the walk itself.                         *)
WalkIsComplete ==
  \A p \in Backfills :
    proc[p].pc = "done" /\ Site(p) \notin behind =>
      /\ Site(p) \notin cold \cup skipped => CompleteFrom(p, 0)
      /\ proc[p].start # None => CompleteFrom(p, proc[p].start)

(* upsert_daily_readings, "DO UPDATE": a stored revision goes back to the  *)
(* provisional value only when the writer's answer is older than another   *)
(* process's write of the site; a poll or a walk alone never undoes one.   *)
RevisionUndoneOnlyByOverlap ==
  [][\A s \in Sites, q \in Params, d \in Days :
       table'[s][q][d] < table[s][q][d]
         => \E p \in Processes : proc[p].stale /\ Site(p) = s]_vars

(* The overlap window: what is published no further back than the overlap  *)
(* reaches, a late value or a revision, is stored in the end, through      *)
(* failed requests and killed polls.                                       *)
PublishedIsStored ==
  \A s \in Sites, q \in Params, d \in Days, v \in {1, 2} :
    (/\ source[s][q][d] = v /\ LatestDate(s) # None
     /\ d >= Latest(source[s]) - OverlapDays)
      ~> table[s][q][d] >= v

(* usgs_daily_client, "the service is under no obligation to return what   *)
(* was asked for": whatever else a body holds, a stored value is one the   *)
(* source has published for that parameter and that day, or an older       *)
(* version of it; never a sentinel, and never another statistic's.         *)
StoredWasPublished ==
  \A s \in Sites, q \in Params, d \in Days : table[s][q][d] \in 0 .. source[s][q][d]

(* gauge_known_gaps, "calling it expected is what hides a real gap edge":  *)
(* after a walk from the seed that reports no UNEXPLAINED window, a day    *)
(* further than a window from stored data is in a known gap.               *)
DarkDaysAreReported ==
  \A p \in Backfills :
    proc[p].pc = "done" /\ proc[p].seed /\ ~proc[p].unexplained
      => \A d \in 0 .. WalkEnd(p) :
           \/ \E gap \in KnownGaps : gap.site = Site(p) /\ d \in gap.first .. gap.last
           \/ \E q \in Params, e \in Days :
                Stored(Site(p), q, e) /\ e - d < WindowDays /\ d - e < WindowDays

(* ResumePoint, "it is the first date of THAT RUN": a date reported as the *)
(* first of the record is the first one stored of it, whatever polls,      *)
(* walks and interruptions came before.                                    *)
FirstDataIsTheRecords ==
  \A p \in Backfills :
    proc[p].pc = "done" /\ proc[p].seed /\ Site(p) \notin behind
      => \A q \in Params, d \in 0 .. WalkEnd(p) :
           Stored(Site(p), q, d) => proc[p].first # None /\ proc[p].first <= d

(* What a walk reports is so, and every variable has its type.             *)
WalkReportsTruly == TypeOK /\ DarkDaysAreReported /\ FirstDataIsTheRecords

(* usgs_daily_ingest, the warning of a cold start: "This job will not      *)
(* backfill it - run `python3 -m app.ingest.daily_backfill` for that".     *)
ColdSiteIsBackfilled ==
  \A p \in Backfills : proc[p].pc = "done" /\ Site(p) \notin behind => CompleteFrom(p, 0)
=============================================================================
