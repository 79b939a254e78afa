-------------------------- MODULE GaugeIngestProofs --------------------------
(***************************************************************************)
(* The safety properties of module GaugeIngest, for any sites, parameters, *)
(* polls and backfills, any overlap, window and calendar, and any number   *)
(* of refused requests and kills.                                          *)
(*                                                                         *)
(* The inductive invariant says of each process what the answer it holds   *)
(* is good for (HoldsPublished, HoldsAllBut, HoldsWindow), where a poll    *)
(* begins (PollStartsBehind), and what a walk has done of the days behind  *)
(* it (WalkHasStored, WalkHasExplained, WalkHasSeenFirst). The answers are *)
(* dealt with once, in AnswerIs: a body that is not refused yields exactly *)
(* what the source had of the window, one value for a day at most.         *)
(***************************************************************************)
EXTENDS GaugeIngest, FiniteSetTheorems, WellFoundedInduction, NaturalsInduction,
        SequenceTheorems, TLAPS

Rows == SUBSET [value : Versions]
RunSet ==
  [pc : {"idle", "next", "asking", "holding", "done"}, todo : Seq(Sites), end : Days,
   from : Int,
   got : [Params -> [Days -> Rows]], start : Int \cup {None}, seed : BOOLEAN,
   first : Days \cup {None}, unexplained : BOOLEAN, stale : BOOLEAN]

Typed ==
  /\ service \in Services /\ today \in Days /\ faults \in Nat
  /\ source \in [Sites -> Values] /\ table \in [Sites -> Values]
  /\ proc \in [Processes -> RunSet]
  /\ cold \subseteq Sites /\ skipped \subseteq Sites /\ behind \subseteq Sites

(* What is served has a closed day and a version; what is stored was       *)
(* served, in that version or a later one.                                 *)
SourceSound ==
  \A s \in Sites, q \in Params, d \in Days :
    source[s][q][d] \in 0 .. 2 /\ (source[s][q][d] > 0 => d < today)

(* A process has its sites; a walk has one, and asks for days of its own.  *)
Shaped(p) ==
  /\ proc[p].pc = "idle" \/ proc[p].todo # <<>>
  /\ proc[p].end <= today
  /\ proc[p].seed => service = "dv"
  /\ p \in Backfills =>
       /\ proc[p].pc # "idle" => proc[p].todo = <<Site(p)>>
       /\ proc[p].pc = "next" => ~proc[p].seed /\ proc[p].start = None
       /\ proc[p].pc = "holding" => proc[p].from <= WalkEnd(p)

(* The last day of the request a process has made.                         *)
LastAsked(p) == IF p \in Backfills THEN WindowEnd(p) ELSE proc[p].end

(* An answer has one published value at most for a day, of the window, and *)
(* none older than what is stored, unless another process wrote meanwhile. *)
HoldsPublished(p) ==
  proc[p].pc = "holding" =>
    \A q \in Params, d \in Days :
      proc[p].got[q][d] # {} =>
        /\ d \in proc[p].from .. LastAsked(p)
        /\ \E v \in 1 .. source[Site(p)][q][d] :
             /\ proc[p].got[q][d] = {[value |-> v]}
             /\ proc[p].stale \/ table[Site(p)][q][d] <= v

(* What an answer lacks is not further than the overlap from what it has.  *)
HoldsAllBut(p) ==
  proc[p].pc = "holding" =>
    \A q \in Params, d \in Days, e \in DatesOf(proc[p].got) :
      d >= proc[p].from /\ d < e - OverlapDays /\ source[Site(p)][q][d] > 0
        => proc[p].got[q][d] # {}

(* An answer to a walk lacks nothing of its window.                        *)
HoldsWindow(p) ==
  proc[p].pc = "holding" /\ p \in Backfills /\ Site(p) \notin behind =>
    \A q \in Params, d \in Days :
      d \in proc[p].from .. WindowEnd(p) /\ source[Site(p)][q][d] > 0
        => proc[p].got[q][d] # {}

(* A poll of a site that was not found empty starts within its rows.       *)
PollStartsBehind(p) ==
  p \in Pollers /\ proc[p].pc \in {"asking", "holding"} /\ Site(p) \notin cold =>
    LatestDate(Site(p)) # None /\ proc[p].from + OverlapDays <= LatestDate(Site(p))

(* The days a walk has been through.                                       *)
Behind(p, d) ==
  /\ d <= WalkEnd(p)
  /\ proc[p].pc \in {"asking", "holding"} => d < proc[p].from

Walking(p) == p \in Backfills /\ proc[p].pc \in {"asking", "holding", "done"}

(* The days a walk answers for: of a site that nothing else has set ahead, *)
(* all of them, and of any site those from its own --start.                *)
AnswersFor(p, d) ==
  \/ Site(p) \notin cold \cup skipped
  \/ proc[p].start # None /\ proc[p].start <= d

WalkHasStored(p) ==
  Walking(p) /\ Site(p) \notin behind =>
    \A q \in Params, d \in Days :
      Behind(p, d) /\ AnswersFor(p, d) /\ source[Site(p)][q][d] > 0 => Stored(Site(p), q, d)

Lit(s, d) == \E q \in Params, e \in Days : Stored(s, q, e) /\ e - d < WindowDays /\ d - e < WindowDays

InKnownGap(s, d) == \E gap \in KnownGaps : gap.site = s /\ d \in gap.first .. gap.last

WalkHasExplained(p) ==
  Walking(p) /\ proc[p].seed /\ ~proc[p].unexplained =>
    \A d \in Days : Behind(p, d) => InKnownGap(Site(p), d) \/ Lit(Site(p), d)

WalkHasSeenFirst(p) ==
  Walking(p) /\ proc[p].seed /\ Site(p) \notin behind =>
    \A q \in Params, d \in Days :
      Behind(p, d) /\ source[Site(p)][q][d] > 0 => proc[p].first # None /\ proc[p].first <= d

Claims(p) ==
  /\ Shaped(p) /\ HoldsPublished(p) /\ HoldsAllBut(p) /\ HoldsWindow(p)
  /\ PollStartsBehind(p)
  /\ WalkHasStored(p) /\ WalkHasExplained(p) /\ WalkHasSeenFirst(p)

IngestInv ==
  /\ Typed /\ SourceSound /\ StoredWasPublished /\ HolesHaveACause
  /\ \A p \in Processes : Claims(p)

-----------------------------------------------------------------------------
(* The operators.                                                          *)

LEMMA Bounds ==
  /\ MaxDay \in Nat /\ MaxDay # 0 /\ OverlapDays \in Nat /\ ColdStartDays \in Nat
  /\ WindowDays \in Nat /\ WindowDays > 0
  /\ MaxLag \in Nat /\ MaxLag <= OverlapDays
  /\ NoData \in Int /\ NoData \notin Nat /\ None \notin Int
BY WindowsAssumption

LEMMA Apart == \A p \in Processes : p \in Pollers <=> p \notin Backfills
BY WindowsAssumption DEF Processes

LEMMA Registry == Order \in Seq(Sites) /\ Order # <<>>
<1>1. Range(Order) = Sites
  BY DEF Range, Sites
<1> QED
  BY <1>1, GaugesAssumption

(* Of days, there is a first and a last.                                   *)
LEMMA FirstOfDays ==
  ASSUME NEW S \in SUBSET Days, S # {}
  PROVE  \E d \in S : \A e \in S : d <= e
<1>1. S \subseteq Nat
  BY Bounds DEF Days
<1>2. PICK x \in S : \A y \in S : ~(<<y, x>> \in OpToRel(<, Nat))
  BY <1>1, NatLessThanWellFounded, WFMin
<1>3. \A y \in S : ~(y < x)
  BY <1>1, <1>2 DEF OpToRel
<1> QED
  BY <1>1, <1>3

LEMMA LastOfNumbers ==
  ASSUME NEW n \in Nat, NEW S \in SUBSET (0 .. n), S # {}
  PROVE  \E d \in S : \A e \in S : e <= d
<1> DEFINE T == {n - d : d \in S}
<1>1. T \subseteq Nat /\ T # {}
  <2>1. \A j \in S : n - j \in Nat
    OBVIOUS
  <2> QED
    BY <2>1
<1>2. PICK x \in T : \A y \in T : ~(<<y, x>> \in OpToRel(<, Nat))
  BY <1>1, NatLessThanWellFounded, WFMin
<1>3. \A y \in T : ~(y < x)
  BY <1>1, <1>2 DEF OpToRel
<1>4. PICK d \in S : x = n - d
  BY <1>2
<1>5. ASSUME NEW e \in S PROVE e <= d
  <2>1. n - e \in T
    OBVIOUS
  <2>2. ~(n - e < n - d)
    BY <1>3, <1>4, <2>1
  <2> QED
    BY <2>2
<1> QED
  BY <1>5

(* Latest is the last of the dates, if there are any.                      *)
LEMMA LatestIs ==
  ASSUME NEW values
  PROVE  /\ DatesIn(values) = {} => Latest(values) = None
         /\ DatesIn(values) # {} =>
              /\ Latest(values) \in DatesIn(values)
              /\ \A e \in DatesIn(values) : e <= Latest(values)
         /\ Latest(values) \in Days \cup {None}
         /\ Latest(values) # None => Latest(values) \in DatesIn(values)
<1>1. DatesIn(values) \subseteq 0 .. MaxDay /\ DatesIn(values) \subseteq Days
  BY DEF DatesIn, Days
<1>2. MaxDay \in Nat /\ None \notin Int
  BY Bounds
<1>3. CASE DatesIn(values) = {}
  BY <1>3 DEF Latest
<1>4. CASE DatesIn(values) # {}
  <2>1. \E d \in DatesIn(values) : \A e \in DatesIn(values) : e <= d
    BY <1>1, <1>2, <1>4, LastOfNumbers
  <2>2. /\ Latest(values) \in DatesIn(values)
        /\ \A e \in DatesIn(values) : e <= Latest(values)
    BY <1>4, <2>1 DEF Latest
  <2> QED
    BY <1>1, <1>2, <1>4, <2>2
<1> QED
  BY <1>3, <1>4

-----------------------------------------------------------------------------
(* Answers: one that is not refused has, for every day of the window, what *)
(* the source has.                                                         *)

Answer(s, first, last) ==
  [q \in Params |-> [d \in Days |->
     IF d \in first .. last /\ source[s][q][d] > 0 THEN {[value |-> source[s][q][d]]} ELSE {}]]

Entries == [at : Int, formed : BOOLEAN, value : Int]

(* Entries that say of every day asked for what the source says, and of no *)
(* other.                                                                  *)
Faithful(entries, s, q, first, last) ==
  /\ entries \in Seq(Entries)
  /\ \A k \in DOMAIN entries :
       /\ entries[k].formed
       /\ entries[k].at \in first .. last /\ entries[k].at \in Days
       /\ entries[k].value = IF source[s][q][entries[k].at] > 0 THEN source[s][q][entries[k].at]
                             ELSE NoData
  /\ \A d \in Days : d \in first .. last /\ d < today => \E k \in DOMAIN entries : entries[k].at = d

LEMMA SeriesInOrder ==
  /\ Cardinality(Params) \in Nat /\ Cardinality(Params) # 0
  /\ InOrder \in [1 .. Cardinality(Params) -> Params]
  /\ \A q \in Params : \E i \in 1 .. Cardinality(Params) : InOrder[i] = q
  /\ \A i, j \in 1 .. Cardinality(Params) : InOrder[i] = InOrder[j] => i = j
<1>1. Cardinality(Params) \in Nat /\ ExistsBijection(1 .. Cardinality(Params), Params)
  BY GaugesAssumption, FS_CardinalityType
<1>2. Cardinality(Params) # 0
  BY GaugesAssumption, FS_EmptySet
<1>3. InOrder \in Bijection(1 .. Cardinality(Params), Params)
  BY <1>1 DEF InOrder, ExistsBijection
<1> HIDE DEF InOrder
<1> QED
  BY <1>1, <1>2, <1>3 DEF Bijection, Injection, Surjection, IsInjective

LEMMA BlockIsFaithful ==
  ASSUME Typed, SourceSound, NEW s \in Sites, NEW q \in Params, NEW first \in Int, NEW last \in Int
  PROVE  Faithful(Block(s, q, first, last), s, q, first, last)
<1> DEFINE from == IF first < 0 THEN 0 ELSE first
           to == IF last < today THEN last ELSE today - 1
           B == Block(s, q, first, last)
<1>1. from \in Nat /\ to \in Int /\ today \in Nat /\ to < today /\ from >= first /\ to <= last
  BY Bounds DEF Typed, Days
<1>2. \A d \in from .. to : d \in Days /\ d \in first .. last
  BY <1>1, Bounds DEF Typed, Days
<1>3. \A d \in Days : source[s][q][d] \in Nat
  BY DEF SourceSound
<1>4. B = [i \in 1 .. to - from + 1 |->
             [at |-> from + i - 1, formed |-> TRUE,
              value |-> IF source[s][q][from + i - 1] > 0 THEN source[s][q][from + i - 1]
                        ELSE NoData]]
  BY DEF Block
<1>5. \A d \in Days : d \in first .. last /\ d < today => d \in from .. to
  BY Bounds DEF Typed, Days
<1>a. NoData \in Int
  BY Bounds
<1> HIDE DEF B, from, to
<1>6. \A i \in 1 .. to - from + 1 : from + i - 1 \in from .. to
  BY <1>1
<1>7. \A k \in DOMAIN B :
        /\ B[k].formed = TRUE
        /\ B[k].at \in first .. last /\ B[k].at \in Days
        /\ B[k].value = IF source[s][q][B[k].at] > 0 THEN source[s][q][B[k].at] ELSE NoData
        /\ B[k] \in Entries
  <2> SUFFICES ASSUME NEW k \in 1 .. to - from + 1
               PROVE  /\ B[k].formed = TRUE
                      /\ B[k].at \in first .. last /\ B[k].at \in Days
                      /\ B[k].value = IF source[s][q][B[k].at] > 0 THEN source[s][q][B[k].at]
                                      ELSE NoData
                      /\ B[k] \in Entries
    BY <1>4
  <2>1. B[k] = [at |-> from + k - 1, formed |-> TRUE,
                value |-> IF source[s][q][from + k - 1] > 0 THEN source[s][q][from + k - 1]
                          ELSE NoData]
    BY <1>4
  <2>2. from + k - 1 \in Days /\ from + k - 1 \in first .. last
    BY <1>2, <1>6
  <2>3. from + k - 1 \in Int /\ source[s][q][from + k - 1] \in Int
    BY <1>1, <1>3, <2>2
  <2> QED
    BY <2>1, <2>2, <2>3, <1>a DEF Entries
<1>8. B \in Seq(Entries)
  <2> DEFINE n == IF to - from + 1 < 0 THEN 0 ELSE to - from + 1
  <2>1. n \in Nat /\ 1 .. n = 1 .. to - from + 1
    BY <1>1
  <2>2. B \in [1 .. n -> Entries]
    BY <1>4, <1>7, <2>1
  <2> HIDE DEF n
  <2> QED
    BY <2>1, <2>2
<1>9. ASSUME NEW d \in Days, d \in first .. last, d < today PROVE \E k \in DOMAIN B : B[k].at = d
  <2>1. d \in from .. to /\ d \in Int
    BY <1>5, <1>9
  <2>2. d - from + 1 \in 1 .. to - from + 1 /\ from + (d - from + 1) - 1 = d
    BY <1>1, <2>1
  <2> QED
    BY <1>4, <2>2
<1> QED
  BY <1>7, <1>8, <1>9 DEF Faithful, B

LEMMA TwiceIsFaithful ==
  ASSUME NEW e, NEW s, NEW q, NEW first, NEW last, Faithful(e, s, q, first, last)
  PROVE  Faithful(e \o e, s, q, first, last)
<1>1. e \in Seq(Entries)
  BY DEF Faithful
<1>2. e \o e \in Seq(Entries)
  BY <1>1
<1>3. \A k \in DOMAIN (e \o e) : \E j \in DOMAIN e : (e \o e)[k] = e[j]
  BY <1>1
<1>4. \A k \in DOMAIN e : k \in DOMAIN (e \o e) /\ (e \o e)[k] = e[k]
  BY <1>1
<1> DEFINE t == e \o e
<1> HIDE DEF t
<1>5. /\ t \in Seq(Entries) /\ \A k \in DOMAIN t : \E j \in DOMAIN e : t[k] = e[j]
      /\ \A k \in DOMAIN e : k \in DOMAIN t /\ t[k] = e[k]
  BY <1>2, <1>3, <1>4 DEF t
<1>6. Faithful(t, s, q, first, last)
  BY <1>5 DEF Faithful
<1> QED
  BY <1>6 DEF t

(* What a body makes that has one faithful series of every parameter.      *)
LEMMA ReceivedOf ==
  ASSUME Typed, SourceSound, NEW s \in Sites, NEW first \in Int, NEW last \in Int, NEW body,
         NEW at \in [Params -> Nat],
         Kept(body, Requested) = {at[q] : q \in Params},
         \A q \in Params : /\ body.series[at[q]].param = q
                           /\ Faithful(body.series[at[q]].entries, s, q, first, last)
  PROVE  Received(body) = Answer(s, first, last)
<1>1. ASSUME NEW q \in Params, NEW d \in Days
      PROVE  Deduplicated(ReadingsAt(Readings(body, Requested), q, d)) =
               IF d \in first .. last /\ source[s][q][d] > 0
               THEN {[value |-> source[s][q][d]]} ELSE {}
  <2> DEFINE entries == body.series[at[q]].entries
             S == {k \in Published(entries) : entries[k].at = d}
             R == ReadingsAt(Readings(body, Requested), q, d)
             r(k) == Reading(body.series[at[q]], at[q], k)
  <2>1. Faithful(entries, s, q, first, last)
    OBVIOUS
  <2>2. R = {r(k) : k \in S}
    <3>1. \A x \in R : \E k \in S : x = r(k)
      <4> SUFFICES ASSUME NEW x \in R PROVE \E k \in S : x = r(k)
        OBVIOUS
      <4>1. x \in Readings(body, Requested) /\ x.param = q /\ x.at = d
        BY DEF ReadingsAt
      <4>2. PICK p \in Params :
              \E k \in Published(body.series[at[p]].entries) :
                x = Reading(body.series[at[p]], at[p], k)
        BY <4>1 DEF Readings
      <4>3. PICK k \in Published(body.series[at[p]].entries) :
              x = Reading(body.series[at[p]], at[p], k)
        BY <4>2
      <4>4. x.param = p /\ x.at = body.series[at[p]].entries[k].at
        BY <4>3 DEF Reading
      <4>5. p = q
        BY <4>1, <4>4
      <4> QED
        BY <4>1, <4>3, <4>4, <4>5
    <3>2. \A k \in S : r(k) \in R
      <4> SUFFICES ASSUME NEW k \in S PROVE r(k) \in R
        OBVIOUS
      <4>1. r(k).param = q /\ r(k).at = d
        BY DEF Reading
      <4>2. at[q] \in Kept(body, Requested)
        OBVIOUS
      <4>3. r(k) \in Readings(body, Requested)
        BY <4>2 DEF Readings
      <4> QED
        BY <4>1, <4>3 DEF ReadingsAt
    <3> QED
      BY <3>1, <3>2
  <2>3. source[s][q][d] \in 0 .. 2 /\ (source[s][q][d] > 0 => d < today)
    BY DEF SourceSound
  <2>4. NoData \in Int \ Nat
    BY Bounds
  <2>5. \A k \in S : /\ d \in first .. last /\ source[s][q][d] > 0
                     /\ entries[k].value = source[s][q][d]
    <3> SUFFICES ASSUME NEW k \in S
                 PROVE  /\ d \in first .. last /\ source[s][q][d] > 0
                        /\ entries[k].value = source[s][q][d]
      OBVIOUS
    <3>1. k \in DOMAIN entries /\ entries[k].at = d /\ entries[k].value # NoData
      BY DEF Published
    <3> HIDE DEF entries
    <3> QED
      BY <2>1, <2>3, <3>1 DEF Faithful
  <2>6. CASE ~(d \in first .. last /\ source[s][q][d] > 0)
    <3>1. S = {}
      BY <2>5, <2>6
    <3>2. R = {}
      BY <2>2, <3>1
    <3> QED
      BY <2>6, <3>2 DEF Deduplicated
  <2>7. CASE d \in first .. last /\ source[s][q][d] > 0
    <3>1. PICK j \in DOMAIN entries : entries[j].at = d
      <4> HIDE DEF entries
      <4> QED
        BY <2>1, <2>3, <2>7 DEF Faithful
    <3>2. entries[j].value = source[s][q][d]
      <4> HIDE DEF entries
      <4> QED
        BY <2>1, <2>7, <3>1 DEF Faithful
    <3>3. j \in S
      BY <2>3, <2>4, <3>1, <3>2 DEF Published
    <3>4. Len(entries) \in Nat /\ S \subseteq 0 .. Len(entries)
      <4>1. entries \in Seq(Entries)
        BY <2>1 DEF Faithful
      <4>2. S \subseteq DOMAIN entries
        BY DEF Published
      <4> HIDE DEF entries, S
      <4> QED
        BY <4>1, <4>2
    <3>5. PICK m \in S : \A k \in S : k <= m
      BY <3>3, <3>4, LastOfNumbers
    <3>6. \A k \in S : k \in Int
      BY <3>4
    <3>7. \A k, l \in S : Precedes(r(k), r(l)) <=> k < l
      <4> SUFFICES ASSUME NEW k \in S, NEW l \in S PROVE Precedes(r(k), r(l)) <=> k < l
        OBVIOUS
      <4>1. r(k).place = <<at[q], k>> /\ r(l).place = <<at[q], l>>
        BY DEF Reading
      <4>2. ~(at[q] < at[q])
        OBVIOUS
      <4> HIDE DEF r
      <4> QED
        BY <4>1, <4>2 DEF Precedes
    <3>8. \A k \in S : r(k).value = source[s][q][d]
      BY <2>5 DEF Reading
    <3> HIDE DEF r, S, R
    <3>9. {x \in R : \A y \in R : ~Precedes(x, y)} = {r(m)}
      BY <2>2, <3>5, <3>6, <3>7
    <3>10. Deduplicated(R) = {[value |-> r(m).value]}
      BY <3>9 DEF Deduplicated
    <3> QED
      BY <2>7, <3>5, <3>8, <3>10 DEF R
  <2> QED
    BY <2>6, <2>7
<1> QED
  BY <1>1 DEF Received, Answer

(* A body that lacks a requested series, or has one of unknown kind or an  *)
(* entry that is no reading, is refused; the others are as good as whole.  *)
LEMMA AnswerIs ==
  ASSUME Typed, SourceSound, NEW s \in Sites, NEW first \in Int, NEW last \in Int,
         NEW body \in Bodies(s, first, last), ~Refused(body, Requested)
  PROVE  Received(body) = Answer(s, first, last)
<1> DEFINE n == Cardinality(Params)
           B(q) == Block(s, q, first, last)
           S == [i \in 1 .. n |-> [param |-> InOrder[i], stat |-> Mean, entries |-> B(InOrder[i])]]
           D == [i \in 1 .. n |->
                   [param |-> InOrder[i], stat |-> Mean, entries |-> B(InOrder[i]) \o B(InOrder[i])]]
           stray == Volunteered(InOrder[1], first)
           whole == Whole(s, first, last)
<1>1. /\ n \in Nat /\ n # 0 /\ 1 \in 1 .. n
      /\ InOrder \in [1 .. n -> Params]
      /\ \A q \in Params : \E i \in 1 .. n : InOrder[i] = q
      /\ \A i, j \in 1 .. n : InOrder[i] = InOrder[j] => i = j
  BY SeriesInOrder
<1> HIDE DEF n
<1>2. whole = [json |-> TRUE, list |-> TRUE, series |-> S]
  BY DEF Whole, n
<1> HIDE DEF B, whole
<1>3. stray.param # InOrder[1] \/ stray.stat # Mean
  BY <1>1, GaugesAssumption DEF Volunteered
<1>4. Triple(stray) \notin Requested
  <2>1. CASE service = "dv"
    BY <2>1, GaugesAssumption DEF Volunteered, Triple, Requested, RequestedOf
  <2>2. CASE service # "dv"
    BY <2>2, GaugesAssumption DEF Volunteered, Triple, Requested, RequestedOf
  <2> QED
    BY <2>1, <2>2
<1> HIDE DEF stray
<1>5. S \in Seq({S[i] : i \in 1 .. n} \cup {stray})
  <2> DEFINE X == {S[i] : i \in 1 .. n} \cup {stray}
  <2>1. S \in [1 .. n -> X]
    OBVIOUS
  <2> HIDE DEF S, X
  <2> QED
    BY <1>1, <2>1 DEF X
<1>6. Len(S) = n /\ DOMAIN S = 1 .. n /\ S # <<>>
  BY <1>1
<1>7. whole.series = S /\ whole.json /\ whole.list
  BY <1>2
<1>8. whole.series[1].param = InOrder[1]
  BY <1>1, <1>7
<1>9. \/ body = whole
      \/ body = [whole EXCEPT !.series = D]
      \/ body = [whole EXCEPT !.series = Append(S, stray)]
      \/ body = [whole EXCEPT !.series = Tail(S)]
      \/ body = [whole EXCEPT !.series[1] = stray]
      \/ body = [whole EXCEPT !.series[1].param = Unnamed]
      \/ body = [whole EXCEPT !.series[1].entries = <<[at |-> first, value |-> 0, formed |-> FALSE]>>]
      \/ body = [whole EXCEPT !.json = FALSE]
      \/ body = [whole EXCEPT !.list = FALSE]
  <2>1. [i \in DOMAIN whole.series |->
           [whole.series[i] EXCEPT !.entries = whole.series[i].entries \o whole.series[i].entries]] = D
    <3>1. \A i \in 1 .. n : [S[i] EXCEPT !.entries = S[i].entries \o S[i].entries] = D[i]
      <4> SUFFICES ASSUME NEW i \in 1 .. n
                   PROVE  [S[i] EXCEPT !.entries = S[i].entries \o S[i].entries] = D[i]
        OBVIOUS
      <4>1. S[i] = [param |-> InOrder[i], stat |-> Mean, entries |-> B(InOrder[i])]
        OBVIOUS
      <4>2. D[i] = [param |-> InOrder[i], stat |-> Mean,
                    entries |-> B(InOrder[i]) \o B(InOrder[i])]
        OBVIOUS
      <4> HIDE DEF S, D
      <4>3. S[i].entries = B(InOrder[i])
        BY <4>1
      <4>4. S[i].entries \o S[i].entries = B(InOrder[i]) \o B(InOrder[i])
        BY <4>3
      <4> DEFINE twice == B(InOrder[i]) \o B(InOrder[i])
      <4>5. [S[i] EXCEPT !.entries = twice] = [param |-> InOrder[i], stat |-> Mean, entries |-> twice]
        <5> HIDE DEF twice
        <5> QED
          BY <4>1
      <4> QED
        BY <4>2, <4>4, <4>5
    <3>2. D = [i \in 1 .. n |-> D[i]]
      OBVIOUS
    <3> HIDE DEF D, S
    <3> QED
      BY <1>6, <1>7, <3>1, <3>2
  <2>2. [whole EXCEPT !.series = [i \in DOMAIN @ |->
           [@[i] EXCEPT !.entries = whole.series[i].entries \o whole.series[i].entries]]]
          = [whole EXCEPT !.series = D]
    BY <1>2, <2>1
  <2>3. Volunteered(whole.series[1].param, first) = stray
    BY <1>8 DEF stray
  <2> QED
    BY <1>2, <1>7, <2>2, <2>3 DEF Bodies, whole
<1>10. PICK at \in [Params -> 1 .. n] : \A q \in Params : InOrder[at[q]] = q
  <2> DEFINE f == [q \in Params |-> CHOOSE i \in 1 .. n : InOrder[i] = q]
  <2>1. \A q \in Params : f[q] \in 1 .. n /\ InOrder[f[q]] = q
    BY <1>1
  <2>2. f \in [Params -> 1 .. n]
    BY <2>1
  <2> QED
    BY <2>1, <2>2
<1>11. {at[q] : q \in Params} = 1 .. n /\ at \in [Params -> Nat]
  <2>1. \A i \in 1 .. n : at[InOrder[i]] = i
    BY <1>1, <1>10
  <2> QED
    BY <1>1, <1>10, <2>1
<1>12. \A q \in Params : Faithful(B(q), s, q, first, last) /\ Faithful(B(q) \o B(q), s, q, first, last)
  BY BlockIsFaithful, TwiceIsFaithful DEF B
<1>13. <<InOrder[1], Mean>> \in Requested
  BY <1>1 DEF Requested, RequestedOf
<1>14. \A i \in 1 .. n : Triple(S[i]) \in Requested /\ Triple(D[i]) \in Requested
  BY <1>1 DEF Triple, Requested, RequestedOf
<1> HIDE DEF S, D
<1>s. /\ \A i \in 1 .. n : S[i] = [param |-> InOrder[i], stat |-> Mean, entries |-> B(InOrder[i])]
      /\ \A i \in 1 .. n : D[i] = [param |-> InOrder[i], stat |-> Mean,
                                   entries |-> B(InOrder[i]) \o B(InOrder[i])]
      /\ DOMAIN D = 1 .. n
  BY DEF S, D
<1>t. /\ \A q \in Params : S[at[q]].param = q /\ S[at[q]].entries = B(q)
      /\ \A q \in Params : D[at[q]].param = q /\ D[at[q]].entries = B(q) \o B(q)
  <2> SUFFICES ASSUME NEW q \in Params
               PROVE  /\ S[at[q]].param = q /\ S[at[q]].entries = B(q)
                      /\ D[at[q]].param = q /\ D[at[q]].entries = B(q) \o B(q)
    OBVIOUS
  <2>1. at[q] \in 1 .. n /\ InOrder[at[q]] = q
    BY <1>10
  <2>2. /\ S[at[q]] = [param |-> q, stat |-> Mean, entries |-> B(q)]
        /\ D[at[q]] = [param |-> q, stat |-> Mean, entries |-> B(q) \o B(q)]
    BY <1>s, <2>1
  <2> QED
    BY <2>2
<1>u. \A i \in 1 .. n : S[i].param = InOrder[i]
  BY DEF S
<1>15. CASE body = whole
  <2>1. body.series = S
    BY <1>2, <1>15
  <2>2. Kept(body, Requested) = {at[q] : q \in Params}
    BY <1>6, <1>11, <1>14, <2>1 DEF Kept
  <2>3. \A q \in Params : body.series[at[q]].param = q /\ body.series[at[q]].entries = B(q)
    BY <1>t, <2>1
  <2> QED
    BY <1>11, <1>12, <2>2, <2>3, ReceivedOf
<1>16. CASE body = [whole EXCEPT !.series = D]
  <2>1. body.series = D
    BY <1>2, <1>16
  <2>2. Kept(body, Requested) = {at[q] : q \in Params}
    BY <1>11, <1>14, <1>s, <2>1 DEF Kept
  <2>3. \A q \in Params : body.series[at[q]].param = q /\ body.series[at[q]].entries = B(q) \o B(q)
    BY <1>t, <2>1
  <2> QED
    BY <1>11, <1>12, <2>2, <2>3, ReceivedOf
<1>17. CASE body = [whole EXCEPT !.series = Append(S, stray)]
  <2>1. body.series = Append(S, stray)
    BY <1>2, <1>17
  <2>2. /\ DOMAIN body.series = 1 .. n + 1 /\ body.series[n + 1] = stray
        /\ \A i \in 1 .. n : body.series[i] = S[i]
    BY <1>1, <1>5, <1>6, <2>1, AppendProperties
  <2>3. Kept(body, Requested) = 1 .. n
    <3>1. \A i \in 1 .. n : i \in Kept(body, Requested)
      BY <1>1, <1>14, <2>2 DEF Kept
    <3>2. \A i \in Kept(body, Requested) : i \in 1 .. n
      <4>1. \A i \in Kept(body, Requested) : i \in 1 .. n + 1 /\ i # n + 1
        BY <1>4, <2>2 DEF Kept
      <4> QED
        BY <1>1, <4>1
    <3> QED
      BY <1>1, <3>1, <3>2
  <2>4. \A q \in Params : body.series[at[q]].param = q /\ body.series[at[q]].entries = B(q)
    BY <1>10, <1>t, <2>2
  <2> QED
    BY <1>11, <1>12, <2>3, <2>4, ReceivedOf
<1>18. CASE body = [whole EXCEPT !.series = Tail(S)]
  <2>1. body.series = Tail(S)
    BY <1>2, <1>18
  <2>2. /\ DOMAIN body.series = 1 .. n - 1
        /\ \A i \in 1 .. n - 1 : body.series[i] = S[i + 1]
    <3>1. Len(Tail(S)) = n - 1 /\ \A i \in 1 .. Len(Tail(S)) : Tail(S)[i] = S[i + 1]
      BY <1>5, <1>6, HeadTailProperties
    <3>2. Tail(S) \in Seq({S[i] : i \in 1 .. n} \cup {stray})
      BY <1>5, <1>6, HeadTailProperties
    <3>3. DOMAIN Tail(S) = 1 .. Len(Tail(S))
      BY <3>2, LenProperties
    <3> QED
      BY <2>1, <3>1, <3>3
  <2>3. <<InOrder[1], Mean>> \notin Present(body)
    <3>1. \A i \in 1 .. n - 1 : InOrder[i + 1] # InOrder[1] /\ S[i + 1].param = InOrder[i + 1]
      <4>1. \A i \in 1 .. n - 1 : i + 1 \in 1 .. n /\ i + 1 # 1
        BY <1>1
      <4> SUFFICES ASSUME NEW i \in 1 .. n - 1
                   PROVE  InOrder[i + 1] # InOrder[1] /\ S[i + 1].param = InOrder[i + 1]
        OBVIOUS
      <4>2. i + 1 \in 1 .. n /\ i + 1 # 1
        BY <4>1
      <4>3. S[i + 1] = [param |-> InOrder[i + 1], stat |-> Mean, entries |-> B(InOrder[i + 1])]
        BY <1>s, <4>2
      <4> QED
        BY <1>1, <4>2, <4>3
    <3> QED
      BY <2>2, <3>1 DEF Present, Triple
  <2> QED
    BY <1>13, <2>3 DEF Refused, Missing
<1>19. CASE body = [whole EXCEPT !.series[1] = stray]
  <2>1. body.series = [S EXCEPT ![1] = stray]
    BY <1>2, <1>19
  <2>2. <<InOrder[1], Mean>> \notin Present(body)
    <3>1. ASSUME NEW i \in 1 .. n PROVE Triple(body.series[i]) # <<InOrder[1], Mean>>
      <4>1. CASE i = 1
        BY <1>3, <1>6, <2>1, <4>1 DEF Triple
      <4>2. CASE i # 1
        <5>1. body.series[i] = S[i] /\ S[i].param = InOrder[i] /\ InOrder[i] # InOrder[1]
          <6>1. body.series[i] = S[i]
            BY <1>6, <2>1, <4>2
          <6> QED
            BY <1>1, <1>u, <4>2, <6>1
        <5> QED
          BY <5>1 DEF Triple
      <4> QED
        BY <4>1, <4>2
    <3>2. DOMAIN body.series = 1 .. n
      BY <1>6, <2>1
    <3> QED
      BY <3>1, <3>2 DEF Present
  <2> QED
    BY <1>13, <2>2 DEF Refused, Missing
<1>20. CASE body = [whole EXCEPT !.series[1].param = Unnamed]
  <2>1. body.series = [S EXCEPT ![1].param = Unnamed]
    BY <1>2, <1>20
  <2>2. 1 \in DOMAIN body.series /\ body.series[1].param = Unnamed
    BY <1>1, <1>6, <1>s, <2>1
  <2> QED
    BY <2>2 DEF Refused, Identified
<1>21. CASE body = [whole EXCEPT !.series[1].entries =
                      <<[at |-> first, value |-> 0, formed |-> FALSE]>>]
  <2>1. body.series = [S EXCEPT ![1].entries = <<[at |-> first, value |-> 0, formed |-> FALSE]>>]
    BY <1>2, <1>21
  <2>2. /\ 1 \in DOMAIN body.series
        /\ body.series[1].param = S[1].param /\ body.series[1].stat = S[1].stat
        /\ body.series[1].entries = <<[at |-> first, value |-> 0, formed |-> FALSE]>>
    <3>1. S[1] = [param |-> InOrder[1], stat |-> Mean, entries |-> B(InOrder[1])]
      BY <1>1, <1>s
    <3>2. /\ 1 \in DOMAIN body.series
          /\ body.series[1] = [S[1] EXCEPT !.entries =
                                 <<[at |-> first, value |-> 0, formed |-> FALSE]>>]
      BY <1>1, <1>6, <2>1
    <3> QED
      BY <3>1, <3>2
  <2>3. 1 \in Kept(body, Requested)
    BY <1>1, <1>14, <2>2 DEF Kept, Triple
  <2>4. /\ 1 \in Published(body.series[1].entries)
        /\ body.series[1].entries[1].formed = FALSE
    BY <2>2, Bounds DEF Published
  <2> QED
    BY <2>3, <2>4 DEF Refused, WellFormed
<1>22. CASE body = [whole EXCEPT !.json = FALSE]
  <2>1. body.json = FALSE
    BY <1>2, <1>22
  <2> QED
    BY <2>1 DEF Refused, Decodes
<1>23. CASE body = [whole EXCEPT !.list = FALSE]
  <2>1. body.list = FALSE
    BY <1>2, <1>23
  <2> QED
    BY <2>1 DEF Refused, Decodes
<1> QED
  BY <1>9, <1>15, <1>16, <1>17, <1>18, <1>19, <1>20, <1>21, <1>22, <1>23

-----------------------------------------------------------------------------
(* What holds of a process that takes no part in a step.                   *)

LEMMA LatestGrows ==
  ASSUME NEW s, \A q \in Params, d \in Days : Stored(s, q, d) => Stored(s, q, d)',
         LatestDate(s) # None
  PROVE  LatestDate(s)' # None /\ LatestDate(s) <= LatestDate(s)'
<1>1. LatestDate(s) \in DatesIn(table[s])
  BY LatestIs DEF LatestDate
<1>2. LatestDate(s) \in DatesIn(table'[s])
  BY <1>1 DEF DatesIn, Stored
<1>3. LatestDate(s)' = Latest(table'[s])
  BY DEF LatestDate
<1>4. LatestDate(s)' \in DatesIn(table'[s]) /\ LatestDate(s) <= LatestDate(s)'
  BY <1>2, <1>3, LatestIs
<1>5. LatestDate(s)' \in Days
  BY <1>4 DEF DatesIn
<1> QED
  BY <1>4, <1>5, Bounds DEF Days

LEMMA IdleIs ==
  /\ Idle \in RunSet /\ Idle.pc = "idle" /\ Idle.todo = <<>> /\ Idle.end = 0 /\ Idle.from = 0
  /\ Idle.start = None /\ ~Idle.seed /\ Idle.first = None /\ ~Idle.unexplained /\ ~Idle.stale
<1>1. 0 \in Days /\ 0 \in Int
  BY Bounds DEF Days
<1>2. NoReadings \in [Params -> [Days -> Rows]]
  BY DEF NoReadings, Rows
<1>3. <<>> \in Seq(Sites)
  OBVIOUS
<1> QED
  BY <1>1, <1>2, <1>3 DEF Idle, RunSet

LEMMA SiteIs ==
  ASSUME Typed, NEW p \in Processes, Shaped(p), proc[p].pc # "idle"
  PROVE  Site(p) \in Sites /\ proc[p].todo # <<>>
<1>1. proc[p].todo \in Seq(Sites) /\ proc[p].todo # <<>>
  BY DEF Typed, RunSet, Shaped
<1> QED
  BY <1>1, HeadTailProperties DEF Site

(* A process that is idle, or has just been given its sites.               *)
LEMMA RestClaims ==
  ASSUME NEW p, proc'[p].pc \in {"idle", "next"}, Shaped(p)'
  PROVE  Claims(p)'
BY DEF Claims, HoldsPublished, HoldsAllBut, HoldsWindow, PollStartsBehind,
       WalkHasStored, WalkHasExplained, WalkHasSeenFirst, Walking

(* One that keeps what it has, while nothing is taken from the table and   *)
(* its site is written only if it is told that its answer is stale.        *)
LEMMA KeptClaims ==
  ASSUME IngestInv, NEW r \in Processes, proc' \in [Processes -> RunSet],
         service' = service, source' = source, today' \in Days, today <= today',
         cold \subseteq cold', skipped \subseteq skipped', behind \subseteq behind',
         \A s \in Sites, q \in Params, d \in Days : Stored(s, q, d) => Stored(s, q, d)',
         \/ /\ proc'[r] = proc[r]
            /\ proc[r].pc = "holding" => table'[Site(r)] = table[Site(r)]
         \/ proc[r].pc = "holding" /\ proc'[r] = [proc[r] EXCEPT !.stale = TRUE]
  PROVE  Claims(r)'
<1> DEFINE x == proc[r]
           y == proc'[r]
<1>1. x \in RunSet /\ y \in RunSet
  BY DEF IngestInv, Typed
<1>2. /\ y.pc = x.pc /\ y.todo = x.todo /\ y.end = x.end /\ y.from = x.from /\ y.got = x.got
      /\ y.start = x.start /\ y.seed = x.seed /\ y.first = x.first /\ y.unexplained = x.unexplained
  BY <1>1 DEF RunSet
<1>3. x.pc = "holding" => y.stale \/ (y.stale = x.stale /\ table'[Site(r)] = table[Site(r)])
  BY <1>1 DEF RunSet
<1>4. Site(r)' = Site(r) /\ WalkEnd(r)' = WalkEnd(r) /\ WindowEnd(r)' = WindowEnd(r)
  BY <1>2 DEF Site, WalkEnd, WindowEnd
<1>5. LastAsked(r)' = LastAsked(r) /\ \A d : Behind(r, d)' <=> Behind(r, d)
  BY <1>2, <1>4 DEF LastAsked, Behind
<1>6. Walking(r)' <=> Walking(r)
  BY <1>2 DEF Walking
<1>7. Claims(r)
  BY DEF IngestInv
<1>8. Shaped(r)'
  <2>1. Shaped(r)
    BY <1>7 DEF Claims
  <2>2. x.end \in Int /\ today \in Int /\ today' \in Int
    BY <1>1, Bounds DEF IngestInv, Typed, RunSet, Days
  <2>3. y.end <= today'
    BY <1>2, <2>1, <2>2 DEF Shaped
  <2> QED
    BY <1>2, <1>4, <2>1, <2>3 DEF Shaped
<1>9. HoldsPublished(r)'
  <2> SUFFICES ASSUME y.pc = "holding", NEW q \in Params, NEW d \in Days, y.got[q][d] # {}
               PROVE  /\ d \in y.from .. LastAsked(r)'
                      /\ \E v \in 1 .. source'[Site(r)'][q][d] :
                           y.got[q][d] = {[value |-> v]} /\ (y.stale \/ table'[Site(r)'][q][d] <= v)
    BY DEF HoldsPublished
  <2>1. HoldsPublished(r) /\ x.pc = "holding" /\ x.got[q][d] # {}
    BY <1>2, <1>7 DEF Claims
  <2>2. d \in x.from .. LastAsked(r)
    BY <2>1 DEF HoldsPublished
  <2>3. PICK v \in 1 .. source[Site(r)][q][d] :
          x.got[q][d] = {[value |-> v]} /\ (x.stale \/ table[Site(r)][q][d] <= v)
    BY <2>1 DEF HoldsPublished
  <2> QED
    BY <1>2, <1>3, <1>4, <1>5, <2>1, <2>2, <2>3
<1>10. HoldsAllBut(r)'
  <2>1. HoldsAllBut(r) /\ DatesOf(y.got) = DatesOf(x.got)
    BY <1>2, <1>7 DEF Claims
  <2> QED
    BY <1>2, <1>4, <2>1 DEF HoldsAllBut
<1>11. HoldsWindow(r)'
  BY <1>2, <1>4, <1>7 DEF Claims, HoldsWindow
<1>12. ASSUME x.pc # "idle" PROVE Site(r) \in Sites
  BY <1>7, <1>12, SiteIs DEF IngestInv, Claims
<1>13. PollStartsBehind(r)'
  <2> SUFFICES ASSUME r \in Pollers, x.pc \in {"asking", "holding"}, Site(r) \notin cold'
               PROVE  /\ Latest(table'[Site(r)]) # None
                      /\ x.from + OverlapDays <= Latest(table'[Site(r)])
    BY <1>2, <1>4 DEF PollStartsBehind, LatestDate
  <2>1. Site(r) \in Sites
    BY <1>12
  <2>2. LatestDate(Site(r)) # None /\ x.from + OverlapDays <= LatestDate(Site(r))
    BY <1>7 DEF Claims, PollStartsBehind
  <2> DEFINE s == Site(r)
  <2>3. LatestDate(s) = Latest(table[s])
    BY <1>4 DEF LatestDate
  <2>4. Latest(table[s]) \in DatesIn(table[s])
    BY <2>2, <2>3, LatestIs
  <2>5. Latest(table[s]) \in DatesIn(table'[s])
    BY <2>1, <2>4 DEF DatesIn, Stored
  <2>6. Latest(table'[s]) \in DatesIn(table'[s]) /\ Latest(table[s]) <= Latest(table'[s])
    BY <2>5, LatestIs
  <2>7. Latest(table[s]) \in Int /\ Latest(table'[s]) \in Int
    BY <2>5, <2>6, Bounds DEF DatesIn, Days
  <2>8. x.from \in Int /\ OverlapDays \in Int /\ None \notin Int
    BY <1>1, Bounds DEF RunSet
  <2> QED
    BY <2>2, <2>3, <2>6, <2>7, <2>8
<1>14. WalkHasStored(r)'
  <2> SUFFICES ASSUME Walking(r), Site(r) \notin behind', NEW q \in Params, NEW d \in Days,
                      Behind(r, d), AnswersFor(r, d), source[Site(r)][q][d] > 0
               PROVE  Stored(Site(r), q, d)'
    BY <1>2, <1>4, <1>5, <1>6 DEF WalkHasStored, AnswersFor, Stored
  <2>1. Site(r) \in Sites
    BY <1>12 DEF Walking
  <2>2. Stored(Site(r), q, d)
    BY <1>7 DEF Claims, WalkHasStored
  <2> QED
    BY <1>4, <2>1, <2>2 DEF Stored
<1>15. WalkHasExplained(r)'
  <2> SUFFICES ASSUME Walking(r), x.seed, ~x.unexplained, NEW d \in Days, Behind(r, d)
               PROVE  InKnownGap(Site(r), d) \/ Lit(Site(r), d)'
    BY <1>2, <1>4, <1>5, <1>6 DEF WalkHasExplained, Lit, Stored, InKnownGap
  <2>1. Site(r) \in Sites
    BY <1>12 DEF Walking
  <2>2. InKnownGap(Site(r), d) \/ Lit(Site(r), d)
    BY <1>7 DEF Claims, WalkHasExplained
  <2> QED
    BY <1>4, <2>1, <2>2 DEF Lit, Stored
<1>16. WalkHasSeenFirst(r)'
  BY <1>2, <1>4, <1>5, <1>6, <1>7 DEF Claims, WalkHasSeenFirst
<1> QED
  BY <1>8, <1>9, <1>10, <1>11, <1>13, <1>14, <1>15, <1>16 DEF Claims

-----------------------------------------------------------------------------
(* The source.                                                             *)

LEMMA WalkHasPassed ==
  ASSUME Typed, NEW p \in Backfills, Shaped(p), NEW d \in Days,
         \/ Walking(p) /\ Behind(p, d)
         \/ proc[p].pc = "holding" /\ d <= WindowEnd(p)
  PROVE  d <= Passed(p) /\ proc[p].todo = <<Site(p)>>
<1>1. proc[p] \in RunSet
  BY DEF Typed, Processes
<1>2. /\ proc[p].from \in Int /\ proc[p].end \in Int /\ WindowDays \in Int /\ WindowDays > 0
      /\ d \in Int
  BY <1>1, Bounds DEF RunSet, Days
<1>3. proc[p].todo = <<Site(p)>>
  BY DEF Shaped, Walking
<1> QED
  BY <1>2, <1>3 DEF Passed, Walking, Behind, WindowEnd, WalkEnd

LEMMA ServedClaims ==
  ASSUME IngestInv, NEW r \in Processes, source' \in [Sites -> Values],
         UNCHANGED <<service, today, table, proc, cold, skipped>>, behind \subseteq behind',
         \A s \in Sites, q \in Params, d \in Days :
           source'[s][q][d] \in Nat /\ source[s][q][d] <= source'[s][q][d],
         \A s \in Sites, q \in Params, d \in Days :
           source'[s][q][d] > 0 =>
             \/ source[s][q][d] > 0
             \/ /\ \A e \in DatesIn(source[s]) : e - OverlapDays <= d
                /\ \A p \in Backfills : proc[p].todo = <<s>> /\ d <= Passed(p) => s \in behind'
  PROVE  Claims(r)'
<1> DEFINE x == proc[r]
<1>1. x \in RunSet
  BY DEF IngestInv, Typed
<1>2. /\ Site(r)' = Site(r) /\ WalkEnd(r)' = WalkEnd(r) /\ WindowEnd(r)' = WindowEnd(r)
      /\ x' = x
  BY DEF Site, WalkEnd, WindowEnd
<1>3. LastAsked(r)' = LastAsked(r) /\ (Walking(r)' <=> Walking(r)) /\ \A d : Behind(r, d)' <=> Behind(r, d)
  BY <1>2 DEF LastAsked, Behind, Walking
<1>4. Claims(r)
  BY DEF IngestInv
<1>5. Typed /\ SourceSound
  BY DEF IngestInv
<1>6. x.pc # "idle" => Site(r) \in Sites
  BY <1>4, <1>5, SiteIs DEF Claims
<1>7. Shaped(r)'
  BY <1>2, <1>4 DEF Claims, Shaped
<1>8. HoldsPublished(r)'
  <2> SUFFICES ASSUME x.pc = "holding", NEW q \in Params, NEW d \in Days, x.got[q][d] # {}
               PROVE  /\ d \in x.from .. LastAsked(r)
                      /\ \E v \in 1 .. source'[Site(r)][q][d] :
                           x.got[q][d] = {[value |-> v]} /\ (x.stale \/ table[Site(r)][q][d] <= v)
    BY <1>2, <1>3 DEF HoldsPublished
  <2>1. d \in x.from .. LastAsked(r)
    BY <1>4 DEF Claims, HoldsPublished
  <2>2. PICK v \in 1 .. source[Site(r)][q][d] :
          x.got[q][d] = {[value |-> v]} /\ (x.stale \/ table[Site(r)][q][d] <= v)
    BY <1>4 DEF Claims, HoldsPublished
  <2>3. source[Site(r)][q][d] \in Nat /\ source'[Site(r)][q][d] \in Nat
        /\ source[Site(r)][q][d] <= source'[Site(r)][q][d]
    BY <1>5, <1>6 DEF SourceSound
  <2>4. v \in 1 .. source'[Site(r)][q][d]
    BY <2>3
  <2> QED
    BY <2>1, <2>2, <2>4
<1>9. HoldsAllBut(r)'
  <2> SUFFICES ASSUME x.pc = "holding", NEW q \in Params, NEW d \in Days,
                      NEW e \in DatesOf(x.got),
                      d >= x.from, d < e - OverlapDays, source'[Site(r)][q][d] > 0
               PROVE  x.got[q][d] # {}
    BY <1>2 DEF HoldsAllBut
  <2>1. CASE source[Site(r)][q][d] > 0
    BY <1>4, <2>1 DEF Claims, HoldsAllBut
  <2>2. CASE ~(source[Site(r)][q][d] > 0)
    <3>1. PICK k \in Params : x.got[k][e] # {}
      BY DEF DatesOf
    <3>2. e \in Days
      BY DEF DatesOf
    <3>3. PICK v \in 1 .. source[Site(r)][k][e] : TRUE
      BY <1>4, <3>1, <3>2 DEF Claims, HoldsPublished
    <3>4. source[Site(r)][k][e] \in Nat
      BY <1>5, <1>6, <3>2 DEF SourceSound
    <3>5. e \in DatesIn(source[Site(r)])
      BY <3>2, <3>3, <3>4 DEF DatesIn
    <3>6. e - OverlapDays <= d
      BY <1>6, <2>2, <3>5
    <3>7. e \in Int /\ d \in Int /\ OverlapDays \in Int
      BY <3>2, Bounds DEF Days
    <3> QED
      BY <3>6, <3>7
  <2> QED
    BY <2>1, <2>2
<1>10. ASSUME r \in Backfills, Site(r) \notin behind', NEW q \in Params, NEW d \in Days,
              \/ Walking(r) /\ Behind(r, d)
              \/ x.pc = "holding" /\ d <= WindowEnd(r),
              source'[Site(r)][q][d] > 0
       PROVE  source[Site(r)][q][d] > 0
  <2>1. d <= Passed(r) /\ x.todo = <<Site(r)>>
    BY <1>4, <1>5, <1>10, WalkHasPassed DEF Claims
  <2>2. Site(r) \in Sites
    BY <1>6, <1>10 DEF Walking
  <2> QED
    BY <1>10, <2>1, <2>2
<1>11. HoldsWindow(r)'
  <2> SUFFICES ASSUME x.pc = "holding", r \in Backfills, Site(r) \notin behind',
                      NEW q \in Params, NEW d \in Days,
                      d \in x.from .. WindowEnd(r), source'[Site(r)][q][d] > 0
               PROVE  x.got[q][d] # {}
    BY <1>2 DEF HoldsWindow
  <2>1. d <= WindowEnd(r)
    OBVIOUS
  <2>2. source[Site(r)][q][d] > 0
    BY <1>10, <2>1
  <2> QED
    BY <1>4, <2>2 DEF Claims, HoldsWindow
<1>12. PollStartsBehind(r)'
  BY <1>2, <1>4 DEF Claims, PollStartsBehind, LatestDate
<1>13. WalkHasStored(r)'
  <2> SUFFICES ASSUME Walking(r), Site(r) \notin behind', NEW q \in Params, NEW d \in Days,
                      Behind(r, d), AnswersFor(r, d), source'[Site(r)][q][d] > 0
               PROVE  Stored(Site(r), q, d)
    BY <1>2, <1>3 DEF WalkHasStored, AnswersFor, Stored
  <2>1. source[Site(r)][q][d] > 0
    BY <1>10 DEF Walking
  <2> QED
    BY <1>4, <2>1 DEF Claims, WalkHasStored
<1>14. WalkHasExplained(r)'
  BY <1>2, <1>3, <1>4 DEF Claims, WalkHasExplained, Lit, Stored, InKnownGap
<1>15. WalkHasSeenFirst(r)'
  <2> SUFFICES ASSUME Walking(r), x.seed, Site(r) \notin behind',
                      NEW q \in Params, NEW d \in Days, Behind(r, d), source'[Site(r)][q][d] > 0
               PROVE  x.first # None /\ x.first <= d
    BY <1>2, <1>3 DEF WalkHasSeenFirst
  <2>1. source[Site(r)][q][d] > 0
    BY <1>10 DEF Walking
  <2> QED
    BY <1>4, <2>1 DEF Claims, WalkHasSeenFirst
<1> QED
  BY <1>7, <1>8, <1>9, <1>11, <1>12, <1>13, <1>14, <1>15 DEF Claims

LEMMA StoredIsServed ==
  ASSUME IngestInv, NEW s \in Sites, NEW e \in DatesIn(table[s])
  PROVE  e \in DatesIn(source[s])
<1>1. PICK q \in Params : table[s][q][e] > 0
  BY DEF DatesIn
<1>2. e \in Days /\ table[s][q][e] \in 0 .. source[s][q][e] /\ source[s][q][e] \in Nat
  BY DEF DatesIn, IngestInv, StoredWasPublished, SourceSound
<1> QED
  BY <1>1, <1>2 DEF DatesIn

LEMMA NextDayKeeps ==
  ASSUME IngestInv, NextDay
  PROVE  IngestInv'
<1>1. today' \in Days /\ today < today' /\ today \in Days
  BY Bounds DEF IngestInv, Typed, NextDay, Days
<1>2. Typed'
  BY <1>1 DEF IngestInv, Typed, NextDay
<1>3. SourceSound'
  BY <1>1, Bounds DEF IngestInv, SourceSound, NextDay, Days
<1>4. StoredWasPublished' /\ HolesHaveACause'
  BY DEF IngestInv, StoredWasPublished, HolesHaveACause, NextDay, LatestDate, Stored
<1>5. today <= today'
  BY <1>1, Bounds DEF Days
<1>6. ASSUME NEW r \in Processes PROVE Claims(r)'
  BY <1>1, <1>2, <1>5, KeptClaims DEF NextDay, Stored, Typed
<1> QED
  BY <1>2, <1>3, <1>4, <1>6 DEF IngestInv

LEMMA PublishKeeps ==
  ASSUME IngestInv, NEW s \in Sites, NEW q \in Params, NEW d \in Days, Publish(s, q, d)
  PROVE  IngestInv'
<1>1. source \in [Sites -> [Params -> [Days -> Versions]]]
  BY DEF IngestInv, Typed, Values
<1>2. /\ source' \in [Sites -> [Params -> [Days -> Versions]]]
      /\ \A t \in Sites, k \in Params, e \in Days :
           source'[t][k][e] = IF t = s /\ k = q /\ e = d THEN 1 ELSE source[t][k][e]
  <2>1. 1 \in Versions /\ source' = [source EXCEPT ![s][q][d] = 1]
    BY DEF Versions, Publish
  <2> QED
    BY <1>1, <2>1
<1>3. behind \subseteq behind' /\ behind' \subseteq Sites
  BY DEF Publish, IngestInv, Typed
<1>4. source[s][q][d] = 0 /\ d < today
  BY DEF Publish
<1>5. \A e \in DatesIn(source[s]) : e - OverlapDays <= d
  <2> SUFFICES ASSUME NEW e \in DatesIn(source[s]) PROVE e - OverlapDays <= d
    OBVIOUS
  <2>1. /\ Latest(source[s]) \in DatesIn(source[s]) /\ e <= Latest(source[s])
        /\ Latest(source[s]) # None
    <3>1. Latest(source[s]) \in DatesIn(source[s]) /\ e <= Latest(source[s])
      BY LatestIs
    <3>2. Latest(source[s]) \in Int
      BY <3>1, Bounds DEF DatesIn, Days
    <3> QED
      BY <3>1, <3>2, Bounds
  <2>2. Latest(source[s]) - MaxLag <= d
    BY <2>1 DEF Publish
  <2>3. Latest(source[s]) \in Int /\ e \in Int /\ d \in Int
    BY <2>1, Bounds DEF DatesIn, Days
  <2>4. MaxLag \in Int /\ OverlapDays \in Int /\ MaxLag <= OverlapDays
    BY Bounds
  <2> QED
    BY <2>1, <2>2, <2>3, <2>4
<1>6. Typed'
  BY <1>2, <1>3 DEF IngestInv, Typed, Publish, Values
<1>7. SourceSound'
  BY <1>2, <1>4 DEF IngestInv, SourceSound, Publish
<1>8. StoredWasPublished'
  <2> SUFFICES ASSUME NEW t \in Sites, NEW k \in Params, NEW e \in Days
               PROVE  table[t][k][e] \in 0 .. source'[t][k][e]
    BY DEF StoredWasPublished, Publish
  <2>1. table[t][k][e] \in 0 .. source[t][k][e]
    BY DEF IngestInv, StoredWasPublished
  <2> QED
    BY <1>2, <1>4, <2>1
<1>9. HolesHaveACause'
  <2> SUFFICES ASSUME NEW t \in Sites \ (cold \cup skipped \cup behind'), NEW k \in Params, NEW e \in Days,
                      source'[t][k][e] > 0, LatestDate(t) # None, e < LatestDate(t) - OverlapDays
               PROVE  Stored(t, k, e)
    BY DEF HolesHaveACause, Publish, LatestDate, Stored
  <2>1. CASE source[t][k][e] > 0
    BY <1>3, <2>1 DEF IngestInv, HolesHaveACause
  <2>2. CASE ~(source[t][k][e] > 0)
    <3>1. t = s /\ e = d
      BY <1>2, <2>2
    <3>2. LatestDate(t) \in DatesIn(source[t])
      BY LatestIs, StoredIsServed DEF LatestDate
    <3>3. LatestDate(t) - OverlapDays <= e /\ LatestDate(t) \in Int
      BY <1>5, <3>1, <3>2, Bounds DEF DatesIn, Days
    <3>4. e \in Int /\ OverlapDays \in Int
      BY Bounds DEF Days
    <3> QED
      BY <3>3, <3>4
  <2> QED
    BY <2>1, <2>2
<1>10. ASSUME NEW r \in Processes PROVE Claims(r)'
  <2>1. \A t \in Sites, k \in Params, e \in Days :
          source'[t][k][e] \in Nat /\ source[t][k][e] <= source'[t][k][e]
    <3> SUFFICES ASSUME NEW t \in Sites, NEW k \in Params, NEW e \in Days
                 PROVE  source'[t][k][e] \in Nat /\ source[t][k][e] <= source'[t][k][e]
      OBVIOUS
    <3>1. source[t][k][e] \in 0 .. 2
      BY DEF IngestInv, SourceSound
    <3>2. source'[t][k][e] = IF t = s /\ k = q /\ e = d THEN 1 ELSE source[t][k][e]
      BY <1>2
    <3> QED
      BY <1>4, <3>1, <3>2
  <2>2. ASSUME NEW t \in Sites, NEW k \in Params, NEW e \in Days, source'[t][k][e] > 0
        PROVE  \/ source[t][k][e] > 0
               \/ /\ \A c \in DatesIn(source[t]) : c - OverlapDays <= e
                  /\ \A p \in Backfills : proc[p].todo = <<t>> /\ e <= Passed(p) => t \in behind'
    <3>1. CASE ~(source[t][k][e] > 0)
      <4>1. t = s /\ e = d
        BY <1>2, <2>2, <3>1
      <4>2. \A p \in Backfills : proc[p].todo = <<s>> /\ d <= Passed(p) => s \in behind'
        BY DEF Publish
      <4> QED
        BY <1>5, <4>1, <4>2
    <3> QED
      BY <3>1
  <2>3. source' \in [Sites -> Values] /\ UNCHANGED <<service, today, table, proc, cold, skipped>>
    BY <1>2 DEF Values, Publish
  <2> QED
    BY <1>3, <2>1, <2>2, <2>3, ServedClaims
<1> QED
  BY <1>6, <1>7, <1>8, <1>9, <1>10 DEF IngestInv

LEMMA ReviseKeeps ==
  ASSUME IngestInv, NEW s \in Sites, NEW q \in Params, NEW d \in Days, Revise(s, q, d)
  PROVE  IngestInv'
<1>1. source \in [Sites -> [Params -> [Days -> Versions]]]
  BY DEF IngestInv, Typed, Values
<1>2. /\ source' \in [Sites -> [Params -> [Days -> Versions]]]
      /\ \A t \in Sites, k \in Params, e \in Days :
           source'[t][k][e] = IF t = s /\ k = q /\ e = d THEN 2 ELSE source[t][k][e]
  <2>1. 2 \in Versions /\ source' = [source EXCEPT ![s][q][d] = 2]
    BY DEF Versions, Revise
  <2> QED
    BY <1>1, <2>1
<1>3. source[s][q][d] = 1 /\ UNCHANGED <<service, today, table, proc, cold, skipped, behind, faults>>
  BY DEF Revise
<1>4. \A t \in Sites, k \in Params, e \in Days :
        /\ source'[t][k][e] \in 0 .. 2 /\ source[t][k][e] \in 0 .. 2
        /\ source[t][k][e] <= source'[t][k][e]
        /\ source'[t][k][e] > 0 => source[t][k][e] > 0
  BY <1>2, <1>3 DEF IngestInv, SourceSound
<1>5. Typed'
  BY <1>2, <1>3 DEF IngestInv, Typed, Values
<1>6. SourceSound'
  BY <1>3, <1>4 DEF IngestInv, SourceSound
<1>7. StoredWasPublished'
  <2> SUFFICES ASSUME NEW t \in Sites, NEW k \in Params, NEW e \in Days
               PROVE  table[t][k][e] \in 0 .. source'[t][k][e]
    BY <1>3 DEF StoredWasPublished
  <2>1. table[t][k][e] \in 0 .. source[t][k][e]
    BY DEF IngestInv, StoredWasPublished
  <2> QED
    BY <1>4, <2>1
<1>8. HolesHaveACause'
  BY <1>3, <1>4 DEF IngestInv, HolesHaveACause, LatestDate, Stored
<1>9. ASSUME NEW r \in Processes PROVE Claims(r)'
  <2>1. \A t \in Sites, k \in Params, e \in Days :
          source'[t][k][e] \in Nat /\ source[t][k][e] <= source'[t][k][e]
    <3> SUFFICES ASSUME NEW t \in Sites, NEW k \in Params, NEW e \in Days
                 PROVE  source'[t][k][e] \in Nat /\ source[t][k][e] <= source'[t][k][e]
      OBVIOUS
    <3>1. source'[t][k][e] \in 0 .. 2 /\ source[t][k][e] <= source'[t][k][e]
      BY <1>4
    <3> QED
      BY <3>1
  <2>2. source' \in [Sites -> Values] /\ behind \subseteq behind'
    BY <1>2, <1>3 DEF Values
  <2> QED
    BY <1>3, <1>4, <2>1, <2>2, ServedClaims
<1> QED
  BY <1>5, <1>6, <1>7, <1>8, <1>9 DEF IngestInv

-----------------------------------------------------------------------------
(* Steps of a process that write nothing.                                  *)

LEMMA RunStep ==
  ASSUME IngestInv, NEW p \in Processes, NEW run \in RunSet, proc' = [proc EXCEPT ![p] = run],
         UNCHANGED <<service, today, source, table>>, faults' \in Nat,
         cold \subseteq cold', cold' \subseteq Sites,
         skipped \subseteq skipped', skipped' \subseteq Sites,
         behind \subseteq behind', behind' \subseteq Sites,
         Claims(p)'
  PROVE  IngestInv'
<1>1. /\ proc' \in [Processes -> RunSet]
      /\ \A r \in Processes : r # p => proc'[r] = proc[r]
  BY DEF IngestInv, Typed
<1>2. Typed'
  BY <1>1 DEF IngestInv, Typed
<1>3. SourceSound' /\ StoredWasPublished'
  BY DEF IngestInv, SourceSound, StoredWasPublished
<1>4. HolesHaveACause'
  BY DEF IngestInv, HolesHaveACause, LatestDate, Stored
<1>5. today' \in Days /\ today <= today'
  BY Bounds DEF IngestInv, Typed, Days
<1>6. ASSUME NEW r \in Processes PROVE Claims(r)'
  <2>1. CASE r = p
    BY <2>1
  <2>2. CASE r # p
    BY <1>1, <1>5, <2>2, KeptClaims DEF Stored
  <2> QED
    BY <2>1, <2>2
<1> QED
  BY <1>2, <1>3, <1>4, <1>6 DEF IngestInv

(* The end of a run.                                                       *)
LEMMA IdleStep ==
  ASSUME IngestInv, NEW p \in Processes, proc' = [proc EXCEPT ![p] = Idle],
         UNCHANGED <<service, today, source, table, cold, skipped, behind>>, faults' \in Nat
  PROVE  IngestInv'
<1>1. proc'[p] = Idle /\ today' \in Days
  BY DEF IngestInv, Typed
<1>2. 0 <= today'
  BY <1>1, Bounds DEF Days
<1>3. Shaped(p)'
  BY <1>1, <1>2, IdleIs DEF Shaped
<1>4. Claims(p)'
  BY <1>1, <1>3, IdleIs, RestClaims
<1> QED
  BY <1>4, IdleIs, RunStep DEF IngestInv, Typed

LEMMA FaultIs ==
  ASSUME faults \in Nat, Fault
  PROVE  faults' \in Nat
BY DEF Fault

LEMMA FetchFailsKeeps ==
  ASSUME IngestInv, NEW p \in Processes, FetchFails(p)
  PROVE  IngestInv'
<1>1. faults' \in Nat
  BY FaultIs DEF IngestInv, Typed, FetchFails
<1> QED
  BY <1>1, IdleStep DEF FetchFails

LEMMA KillKeeps ==
  ASSUME IngestInv, NEW p \in Processes, Kill(p)
  PROVE  IngestInv'
<1>1. faults' \in Nat
  BY FaultIs DEF IngestInv, Typed, Kill
<1> QED
  BY <1>1, IdleStep DEF Kill

LEMMA ReportKeeps ==
  ASSUME IngestInv, NEW p \in Processes, Report(p)
  PROVE  IngestInv'
<1>1. faults' \in Nat
  BY DEF IngestInv, Typed, Report
<1> QED
  BY <1>1, IdleStep DEF Report

LEMMA WindowFailsKeeps ==
  ASSUME IngestInv, NEW p \in Processes, WindowFails(p)
  PROVE  IngestInv'
<1>1. faults' \in Nat
  BY DEF IngestInv, Typed, WindowFails
<1> QED
  BY <1>1, IdleStep DEF WindowFails

(* A run that starts has the sites it is started for.                      *)
LEMMA StartStep ==
  ASSUME IngestInv, NEW p \in Processes, NEW todo \in Seq(Sites), todo # <<>>,
         p \in Backfills => \E s \in Sites : todo = <<s>>,
         proc' = [proc EXCEPT ![p] = [Idle EXCEPT !.pc = "next", !.todo = todo, !.end = today]],
         UNCHANGED <<service, today, source, table, cold, skipped, behind, faults>>
  PROVE  IngestInv'
<1> DEFINE run == [Idle EXCEPT !.pc = "next", !.todo = todo, !.end = today]
<1>1. today \in Days /\ today <= today
  BY Bounds DEF IngestInv, Typed, Days
<1>2. /\ run \in RunSet /\ run.pc = "next" /\ run.todo = todo /\ run.end = today /\ ~run.seed
      /\ run.start = None
  <2>1. Idle \in RunSet /\ ~Idle.seed /\ Idle.start = None
    BY IdleIs
  <2> HIDE DEF Idle
  <2> QED
    BY <1>1, <2>1 DEF RunSet
<1>3. proc'[p] = run
  BY DEF IngestInv, Typed
<1> HIDE DEF run
<1>4. p \in Backfills => todo = <<Site(p)'>>
  BY <1>2, <1>3 DEF Site
<1>5. Shaped(p)'
  BY <1>1, <1>2, <1>3, <1>4 DEF Shaped
<1>6. Claims(p)'
  BY <1>2, <1>3, <1>5, RestClaims
<1> QED
  BY <1>2, <1>6, RunStep DEF IngestInv, Typed, run

LEMMA StartPollKeeps ==
  ASSUME IngestInv, NEW p \in Pollers, StartPoll(p)
  PROVE  IngestInv'
<1>1. p \in Processes /\ p \notin Backfills
  BY Apart DEF Processes
<1> QED
  BY <1>1, Registry, StartStep DEF StartPoll

LEMMA StartBackfillKeeps ==
  ASSUME IngestInv, NEW p \in Backfills, NEW s \in Sites, StartBackfill(p, s)
  PROVE  IngestInv'
<1>1. p \in Processes /\ <<s>> \in Seq(Sites) /\ <<s>> # <<>>
  BY DEF Processes
<1> QED
  BY <1>1, StartStep DEF StartBackfill

LEMMA ReadNewestKeeps ==
  ASSUME IngestInv, NEW p \in Pollers, ReadNewest(p)
  PROVE  IngestInv'
<1> DEFINE x == proc[p]
           s == Site(p)
           L == LatestDate(s)
<1>1. /\ p \in Processes /\ p \notin Backfills /\ x \in RunSet /\ Claims(p) /\ x.pc = "next"
      /\ proc \in [Processes -> RunSet]
  BY Apart DEF IngestInv, Typed, Processes, ReadNewest
<1>2. s \in Sites
  BY <1>1, SiteIs DEF IngestInv, Claims
<1>3. L \in Days \cup {None}
  BY LatestIs DEF LatestDate
<1>4. PICK f : /\ f \in Int
               /\ proc' = [proc EXCEPT ![p] = [x EXCEPT !.pc = "asking", !.from = f]]
               /\ s \notin cold' => L # None /\ f + OverlapDays <= L
               /\ cold \subseteq cold' /\ cold' \subseteq Sites
  <2>1. CASE L = None
    <3>1. /\ proc' = [proc EXCEPT ![p].pc = "asking", ![p].from = x.end - ColdStartDays]
          /\ cold' = cold \cup {s}
      BY <2>1 DEF ReadNewest
    <3>2. proc' = [proc EXCEPT ![p] = [x EXCEPT !.pc = "asking", !.from = x.end - ColdStartDays]]
      BY <1>1, <3>1 DEF RunSet
    <3>3. x.end - ColdStartDays \in Int
      BY <1>1, Bounds DEF RunSet, Days
    <3> QED
      BY <1>2, <3>1, <3>2, <3>3 DEF IngestInv, Typed
  <2>2. CASE L # None
    <3>1. /\ proc' = [proc EXCEPT ![p].pc = "asking", ![p].from = L - OverlapDays]
          /\ cold' = cold
      BY <2>2 DEF ReadNewest, PollFrom
    <3>2. proc' = [proc EXCEPT ![p] = [x EXCEPT !.pc = "asking", !.from = L - OverlapDays]]
      BY <1>1, <3>1 DEF RunSet
    <3>3. L \in Days
      BY <1>3, <2>2
    <3> HIDE DEF L
    <3>4. /\ L - OverlapDays \in Int
          /\ (L - OverlapDays) + OverlapDays <= L
      BY <3>3, Bounds DEF Days
    <3> QED
      BY <2>2, <3>1, <3>2, <3>4 DEF IngestInv, Typed
  <2> QED
    BY <2>1, <2>2
<1> DEFINE run == [x EXCEPT !.pc = "asking", !.from = f]
<1>5. /\ run \in RunSet /\ run.pc = "asking" /\ run.from = f /\ run.todo = x.todo
      /\ run.end = x.end /\ run.seed = x.seed
  BY <1>1, <1>4 DEF RunSet
<1>6. proc'[p] = run
  BY <1>1, <1>4
<1> HIDE DEF run
<1>7. Site(p)' = s /\ UNCHANGED <<service, today, source, table, skipped, behind, faults>>
  BY <1>5, <1>6 DEF Site, ReadNewest
<1>8. Shaped(p)'
  BY <1>1, <1>5, <1>6, <1>7 DEF Claims, Shaped
<1>9. PollStartsBehind(p)'
  BY <1>4, <1>5, <1>6, <1>7 DEF PollStartsBehind, LatestDate
<1>10. Claims(p)'
  BY <1>1, <1>5, <1>6, <1>8, <1>9 DEF Claims, HoldsPublished, HoldsAllBut, HoldsWindow,
       WalkHasStored, WalkHasExplained, WalkHasSeenFirst, Walking
<1> QED
  BY <1>1, <1>4, <1>5, <1>7, <1>10, RunStep DEF IngestInv, Typed, run

(* A walk that starts reading at day f.                                    *)
LEMMA WalkStarts ==
  ASSUME IngestInv, NEW p \in Backfills, proc[p].pc = "next", NEW f \in Int,
         NEW seed \in BOOLEAN, NEW start \in Int \cup {None},
         proc' = [proc EXCEPT ![p] = [proc[p] EXCEPT !.pc = "asking", !.from = f, !.seed = seed,
                                                     !.start = start]],
         seed => service = "dv" /\ f = 0,
         UNCHANGED <<service, today, source, table, cold, faults>>,
         skipped \subseteq skipped', skipped' \subseteq Sites,
         behind \subseteq behind', behind' \subseteq Sites,
         start # None => start = f,
         Site(p) \notin cold \cup skipped' \cup behind' =>
           \A q \in Params, d \in Days :
             d < f /\ source[Site(p)][q][d] > 0 => Stored(Site(p), q, d)
  PROVE  IngestInv'
<1> DEFINE x == proc[p]
           run == [x EXCEPT !.pc = "asking", !.from = f, !.seed = seed, !.start = start]
<1>1. p \in Processes /\ p \notin Pollers /\ x \in RunSet /\ Claims(p)
  BY Apart DEF IngestInv, Typed, Processes
<1>3. /\ run \in RunSet /\ run.pc = "asking" /\ run.from = f /\ run.todo = x.todo
      /\ run.end = x.end /\ run.seed = seed /\ run.start = start
  BY <1>1 DEF RunSet
<1>4. proc'[p] = run
  BY <1>1 DEF IngestInv, Typed
<1> HIDE DEF run
<1>5. Site(p)' = Site(p) /\ WalkEnd(p)' = WalkEnd(p)
  BY <1>3, <1>4 DEF Site, WalkEnd
<1>6. Shaped(p)'
  BY <1>1, <1>3, <1>4, <1>5 DEF Claims, Shaped
<1>7. \A d : Behind(p, d)' => d < f
  BY <1>3, <1>4 DEF Behind
<1>8. WalkHasStored(p)'
  <2> SUFFICES ASSUME Site(p) \notin behind', NEW q \in Params, NEW d \in Days, d < f,
                      Site(p) \notin cold \cup skipped' \/ (start # None /\ start <= d),
                      source[Site(p)][q][d] > 0
               PROVE  Stored(Site(p), q, d)
    BY <1>3, <1>4, <1>5, <1>7 DEF WalkHasStored, AnswersFor, Stored
  <2>1. ~(start # None /\ start <= d)
    BY Bounds DEF Days
  <2> QED
    BY <2>1
<1>9. \A d \in Days : seed => ~(d < f)
  BY Bounds DEF Days
<1>10. WalkHasExplained(p)' /\ WalkHasSeenFirst(p)'
  BY <1>3, <1>4, <1>7, <1>9 DEF WalkHasExplained, WalkHasSeenFirst
<1>11. Claims(p)'
  BY <1>1, <1>3, <1>4, <1>6, <1>8, <1>10 DEF Claims, HoldsPublished, HoldsAllBut, HoldsWindow,
       PollStartsBehind
<1> QED
  BY <1>1, <1>3, <1>11, RunStep DEF IngestInv, Typed, run

LEMMA ReadResumePointKeeps ==
  ASSUME IngestInv, NEW p \in Backfills, ReadResumePoint(p)
  PROVE  IngestInv'
<1> DEFINE x == proc[p]
           s == Site(p)
           f == ResumePoint(p)
<1>1. p \in Processes /\ x \in RunSet /\ Claims(p) /\ x.pc = "next" /\ proc \in [Processes -> RunSet]
  BY DEF IngestInv, Typed, Processes, ReadResumePoint
<1>2. s \in Sites
  BY <1>1, SiteIs DEF IngestInv, Claims
<1>3. f \in Days /\ (LatestDate(s) = None => f = 0)
  BY LatestIs, Bounds DEF ResumePoint, LatestDate, Days
<1>4. CASE Refuses(p)
  BY <1>1, <1>4, IdleStep DEF ReadResumePoint, IngestInv, Typed
<1>5. CASE ~Refuses(p)
  <2>1. /\ proc' = [proc EXCEPT ![p].pc = "asking", ![p].from = f, ![p].seed = FromSeed(p)]
        /\ behind' = IF s \notin cold \cup skipped /\ Lacking(s, f)
                     THEN behind \cup {s} ELSE behind
        /\ UNCHANGED <<service, today, source, table, cold, skipped, faults>>
    BY <1>5 DEF ReadResumePoint
  <2>2. FromSeed(p) \in BOOLEAN /\ (FromSeed(p) => service = "dv" /\ f = 0)
    BY <1>3 DEF FromSeed
  <2>3. x.start = None
    BY <1>1 DEF Claims, Shaped
  <2> HIDE DEF f
  <2>4. proc' = [proc EXCEPT ![p] = [x EXCEPT !.pc = "asking", !.from = f, !.seed = FromSeed(p),
                                              !.start = None]]
    BY <1>1, <2>1, <2>3 DEF RunSet
  <2>5. behind \subseteq behind' /\ behind' \subseteq Sites
    BY <1>2, <2>1 DEF IngestInv, Typed
  <2>6. ASSUME s \notin behind', s \notin cold \cup skipped, NEW q \in Params, NEW d \in Days,
               d < f, source[s][q][d] > 0
        PROVE  Stored(s, q, d)
    <3>1. ~Lacking(s, f)
      BY <1>2, <2>1, <2>6
    <3>2. table[s][q][d] # 0
      BY <2>6, <3>1 DEF Lacking
    <3>3. table[s][q][d] \in 0 .. source[s][q][d] /\ source[s][q][d] \in Nat
      BY <1>2 DEF IngestInv, StoredWasPublished, SourceSound
    <3> QED
      BY <3>2, <3>3 DEF Stored
  <2>7. f \in Int /\ skipped \subseteq skipped' /\ skipped' \subseteq Sites
    BY <1>3, <2>1, Bounds DEF Days, IngestInv, Typed
  <2>8. s \notin cold \cup skipped' \cup behind' =>
          \A q \in Params, d \in Days : d < f /\ source[s][q][d] > 0 => Stored(s, q, d)
    BY <2>1, <2>6
  <2> QED
    BY <1>1, <2>1, <2>2, <2>4, <2>5, <2>7, <2>8, WalkStarts
<1> QED
  BY <1>4, <1>5

LEMMA TakeOverrideKeeps ==
  ASSUME IngestInv, NEW p \in Backfills, NEW start \in Overrides, TakeOverride(p, start)
  PROVE  IngestInv'
<1> DEFINE x == proc[p]
<1>1. p \in Processes /\ x \in RunSet /\ Claims(p) /\ x.pc = "next" /\ proc \in [Processes -> RunSet]
  BY DEF IngestInv, Typed, Processes, TakeOverride
<1>2. start \in Int /\ Site(p) \in Sites
  BY <1>1, SiteIs, WindowsAssumption DEF IngestInv, Claims
<1>3. ~x.seed
  BY <1>1 DEF Claims, Shaped
<1>4. proc' = [proc EXCEPT ![p] = [x EXCEPT !.pc = "asking", !.from = start, !.seed = FALSE,
                                            !.start = start]]
  BY <1>1, <1>2, <1>3 DEF RunSet, TakeOverride
<1>5. /\ UNCHANGED <<service, today, source, table, cold, behind, faults>>
      /\ skipped' = IF Lacking(Site(p), start) THEN skipped \cup {Site(p)} ELSE skipped
  BY DEF TakeOverride
<1>6. ASSUME Site(p) \notin skipped', NEW q \in Params, NEW d \in Days,
             d < start, source[Site(p)][q][d] > 0
      PROVE  Stored(Site(p), q, d)
  <2>1. table[Site(p)][q][d] # 0
    BY <1>5, <1>6 DEF Lacking
  <2>2. table[Site(p)][q][d] \in 0 .. source[Site(p)][q][d] /\ source[Site(p)][q][d] \in Nat
    BY <1>2 DEF IngestInv, StoredWasPublished, SourceSound
  <2> QED
    BY <2>1, <2>2 DEF Stored
<1> QED
  BY <1>1, <1>2, <1>4, <1>5, <1>6, WalkStarts DEF IngestInv, Typed

(* A request is answered.                                                  *)
LEMMA AnsweredKeeps ==
  ASSUME IngestInv, NEW p \in Processes, proc[p].pc = "asking",
         p \in Backfills => proc[p].from <= WalkEnd(p),
         Answered(p, proc[p].from, LastAsked(p))
  PROVE  IngestInv'
<1> DEFINE x == proc[p]
           s == Site(p)
           got == Answer(s, x.from, LastAsked(p))
           run == [x EXCEPT !.pc = "holding", !.got = got]
<1>1. x \in RunSet /\ Claims(p) /\ proc \in [Processes -> RunSet] /\ s \in Sites
  BY SiteIs DEF IngestInv, Typed, Claims
<1>2. x.from \in Int /\ LastAsked(p) \in Int
  BY <1>1, Bounds DEF RunSet, LastAsked, WindowEnd, WalkEnd, Days
<1>3. UNCHANGED <<service, today, source, table, cold, skipped, behind, faults>>
  BY DEF Answered
<1>4. PICK body \in Bodies(s, x.from, LastAsked(p)) :
        /\ ~Refused(body, Requested)
        /\ proc' = [proc EXCEPT ![p].pc = "holding", ![p].got = Received(body)]
  BY DEF Answered
<1>5. Received(body) = got
  BY <1>1, <1>2, <1>4, AnswerIs DEF IngestInv
<1>6. \A q \in Params, d \in Days :
        got[q][d] = IF d \in x.from .. LastAsked(p) /\ source[s][q][d] > 0
                    THEN {[value |-> source[s][q][d]]} ELSE {}
  BY DEF Answer
<1>7. \A q \in Params, d \in Days : source[s][q][d] \in 0 .. 2 /\ table[s][q][d] \in 0 .. source[s][q][d]
  BY <1>1 DEF IngestInv, SourceSound, StoredWasPublished
<1>8. got \in [Params -> [Days -> Rows]]
  <2>1. \A q \in Params, d \in Days : source[s][q][d] \in Versions
    BY <1>7 DEF Versions
  <2>2. \A q \in Params, d \in Days : got[q][d] \in Rows
    <3> SUFFICES ASSUME NEW q \in Params, NEW d \in Days PROVE got[q][d] \in Rows
      OBVIOUS
    <3>1. {[value |-> source[s][q][d]]} \in Rows /\ {} \in Rows
      BY <2>1 DEF Rows
    <3> HIDE DEF got
    <3> QED
      BY <1>6, <3>1
  <2> QED
    BY <2>2 DEF Answer
<1> HIDE DEF got
<1>9. proc' = [proc EXCEPT ![p] = run]
  BY <1>1, <1>4, <1>5 DEF RunSet
<1>10. /\ run \in RunSet /\ run.pc = "holding" /\ run.got = got /\ run.todo = x.todo
       /\ run.from = x.from /\ run.end = x.end /\ run.start = x.start /\ run.seed = x.seed
       /\ run.first = x.first /\ run.unexplained = x.unexplained
  BY <1>1, <1>8 DEF RunSet
<1>11. proc'[p] = run
  BY <1>1, <1>9
<1> HIDE DEF run
<1>12. /\ Site(p)' = s /\ WalkEnd(p)' = WalkEnd(p) /\ WindowEnd(p)' = WindowEnd(p)
       /\ LastAsked(p)' = LastAsked(p)
  BY <1>3, <1>10, <1>11 DEF Site, WalkEnd, WindowEnd, LastAsked
<1>13. (Walking(p)' <=> Walking(p)) /\ \A d : Behind(p, d)' <=> Behind(p, d)
  BY <1>10, <1>11, <1>12 DEF Walking, Behind
<1>14. Shaped(p)'
  BY <1>1, <1>3, <1>10, <1>11, <1>12 DEF Claims, Shaped
<1>15. HoldsPublished(p)'
  <2> SUFFICES ASSUME NEW q \in Params, NEW d \in Days, got[q][d] # {}
               PROVE  /\ d \in x.from .. LastAsked(p)
                      /\ \E v \in 1 .. source[s][q][d] :
                           got[q][d] = {[value |-> v]} /\ (run.stale \/ table[s][q][d] <= v)
    BY <1>3, <1>10, <1>11, <1>12 DEF HoldsPublished
  <2>1. /\ d \in x.from .. LastAsked(p) /\ source[s][q][d] > 0
        /\ got[q][d] = {[value |-> source[s][q][d]]}
    BY <1>6
  <2> QED
    BY <1>7, <2>1
<1>16. HoldsAllBut(p)'
  <2> SUFFICES ASSUME NEW q \in Params, NEW d \in Days, NEW e \in DatesOf(got),
                      d >= x.from, d < e - OverlapDays, source[s][q][d] > 0
               PROVE  got[q][d] # {}
    BY <1>3, <1>10, <1>11, <1>12 DEF HoldsAllBut
  <2>1. e \in x.from .. LastAsked(p)
    BY <1>6 DEF DatesOf
  <2>2. d \in x.from .. LastAsked(p)
    BY <1>2, <2>1, Bounds DEF Days
  <2> QED
    BY <1>6, <2>2
<1>17. HoldsWindow(p)'
  <2> SUFFICES ASSUME p \in Backfills, NEW q \in Params, NEW d \in Days,
                      d \in x.from .. WindowEnd(p), source[s][q][d] > 0
               PROVE  got[q][d] # {}
    BY <1>3, <1>10, <1>11, <1>12 DEF HoldsWindow
  <2>1. LastAsked(p) = WindowEnd(p)
    BY DEF LastAsked
  <2>2. got[q][d] = {[value |-> source[s][q][d]]}
    BY <1>6, <2>1
  <2> QED
    BY <2>2
<1>18. PollStartsBehind(p)'
  BY <1>1, <1>3, <1>10, <1>11, <1>12 DEF Claims, PollStartsBehind, LatestDate
<1>19. WalkHasStored(p)' /\ WalkHasExplained(p)' /\ WalkHasSeenFirst(p)'
  <2>1. WalkHasStored(p)'
    BY <1>1, <1>3, <1>10, <1>11, <1>12, <1>13 DEF Claims, WalkHasStored, AnswersFor, Stored
  <2>2. WalkHasExplained(p)'
    BY <1>1, <1>3, <1>10, <1>11, <1>12, <1>13 DEF Claims, WalkHasExplained, Lit, Stored, InKnownGap
  <2>3. WalkHasSeenFirst(p)'
    BY <1>1, <1>3, <1>10, <1>11, <1>12, <1>13 DEF Claims, WalkHasSeenFirst
  <2> QED
    BY <2>1, <2>2, <2>3
<1>20. Claims(p)'
  BY <1>14, <1>15, <1>16, <1>17, <1>18, <1>19 DEF Claims
<1> QED
  BY <1>3, <1>9, <1>10, <1>20, RunStep DEF IngestInv, Typed

LEMMA PollFetchKeeps ==
  ASSUME IngestInv, NEW p \in Pollers, PollFetch(p)
  PROVE  IngestInv'
<1>1. p \in Processes /\ p \notin Backfills
  BY Apart DEF Processes
<1> QED
  BY <1>1, AnsweredKeeps DEF PollFetch, LastAsked

LEMMA WindowFetchKeeps ==
  ASSUME IngestInv, NEW p \in Backfills, WindowFetch(p)
  PROVE  IngestInv'
<1>1. p \in Processes
  BY DEF Processes
<1> QED
  BY <1>1, AnsweredKeeps DEF WindowFetch, LastAsked

-----------------------------------------------------------------------------
(* A walk goes on to its next window, and ends.                            *)

LEMMA WalkGoesOn ==
  ASSUME IngestInv, NEW p \in Backfills, proc[p].pc = "holding",
         proc'[p] \in RunSet, proc'[p].pc = "asking", proc'[p].from = NextWindow(p),
         proc'[p].todo = proc[p].todo, proc'[p].end = proc[p].end,
         proc'[p].start = proc[p].start, proc'[p].seed = proc[p].seed,
         UNCHANGED <<service, today, source, cold, skipped, behind>>,
         \A q \in Params, d \in Days :
           Stored(Site(p), q, d) \/ proc[p].got[q][d] # {} => table'[Site(p)][q][d] > 0,
         service = "dv" /\ ~proc'[p].unexplained =>
           ~proc[p].unexplained /\ (DatesOf(proc[p].got) # {} \/ Explained(p)),
         \A d \in DatesOf(proc[p].got) \cup ({proc[p].first} \ {None}) :
           proc'[p].first # None /\ proc'[p].first <= d
  PROVE  Claims(p)'
<1> DEFINE x == proc[p]
           y == proc'[p]
           s == Site(p)
<1>1. p \in Processes /\ p \notin Pollers /\ x \in RunSet /\ Claims(p) /\ SourceSound
  BY Apart DEF IngestInv, Typed, Processes
<1>2. /\ x.from \in Int /\ x.end \in Int /\ x.from <= WalkEnd(p) /\ WalkEnd(p) \in Int
      /\ WindowDays \in Int /\ WindowDays > 0
  BY <1>1, Bounds DEF Claims, Shaped, RunSet, Days, WalkEnd
<1>3. s \in Sites
  BY <1>1, SiteIs DEF IngestInv, Claims
<1>4. Site(p)' = s /\ WalkEnd(p)' = WalkEnd(p) /\ y.from = x.from + WindowDays
  BY DEF Site, WalkEnd, NextWindow
<1>5. /\ WindowEnd(p) \in Int /\ WindowEnd(p) < x.from + WindowDays
      /\ \A d \in Days : d \in Int
      /\ \A d \in Days : d >= x.from /\ d <= WalkEnd(p) /\ d < x.from + WindowDays
                            => d \in x.from .. WindowEnd(p)
  BY <1>2, Bounds DEF WindowEnd, Days
<1>6. ASSUME NEW d \in Days, Behind(p, d)'
      PROVE  Behind(p, d) \/ d \in x.from .. WindowEnd(p)
  <2>1. d <= WalkEnd(p) /\ d < x.from + WindowDays
    BY <1>4, <1>6 DEF Behind
  <2>2. CASE d < x.from
    BY <2>1, <2>2 DEF Behind
  <2>3. CASE ~(d < x.from)
    BY <1>2, <1>5, <2>1, <2>3
  <2> QED
    BY <2>2, <2>3
<1>7. Walking(p)
  BY DEF Walking
<1>8. Shaped(p)'
  BY <1>1, <1>4 DEF Claims, Shaped
<1>9. ASSUME s \notin behind, NEW q \in Params, NEW d \in Days, d \in x.from .. WindowEnd(p),
             source[s][q][d] > 0
      PROVE  x.got[q][d] # {} /\ d \in DatesOf(x.got)
  BY <1>1, <1>9 DEF Claims, HoldsWindow, DatesOf
<1>10. WalkHasStored(p)'
  <2> SUFFICES ASSUME s \notin behind, NEW q \in Params, NEW d \in Days,
                      Behind(p, d)', AnswersFor(p, d), source[s][q][d] > 0
               PROVE  table'[s][q][d] > 0
    BY <1>4 DEF WalkHasStored, AnswersFor, Stored
  <2>1. CASE Behind(p, d)
    BY <1>1, <1>7, <2>1 DEF Claims, WalkHasStored
  <2>2. CASE d \in x.from .. WindowEnd(p)
    BY <1>9, <2>2
  <2> QED
    BY <1>6, <2>1, <2>2
<1>11. WalkHasExplained(p)'
  <2> SUFFICES ASSUME x.seed, ~y.unexplained, NEW d \in Days, Behind(p, d)'
               PROVE  InKnownGap(s, d) \/ \E q \in Params, e \in Days :
                        table'[s][q][e] > 0 /\ e - d < WindowDays /\ d - e < WindowDays
    BY <1>4 DEF WalkHasExplained, Lit, Stored, InKnownGap
  <2>1. ~x.unexplained /\ (DatesOf(x.got) # {} \/ Explained(p))
    BY <1>1 DEF Claims, Shaped
  <2>2. CASE Behind(p, d)
    <3>1. InKnownGap(s, d) \/ Lit(s, d)
      BY <1>1, <1>7, <2>1, <2>2 DEF Claims, WalkHasExplained
    <3> QED
      BY <3>1 DEF Lit
  <2>3. CASE d \in x.from .. WindowEnd(p)
    <3>1. CASE DatesOf(x.got) # {}
      <4>1. PICK e \in Days, q \in Params : x.got[q][e] # {}
        BY <3>1 DEF DatesOf
      <4>2. e \in x.from .. WindowEnd(p)
        BY <1>1, <4>1 DEF Claims, HoldsPublished, LastAsked
      <4>3. e - d < WindowDays /\ d - e < WindowDays
        BY <1>2, <1>5, <2>3, <4>2
      <4> QED
        BY <4>1, <4>3
    <3>2. CASE Explained(p)
      <4>1. PICK gap \in KnownGaps : gap.site = s /\ gap.first <= x.from /\ WindowEnd(p) <= gap.last
        BY <3>2 DEF Explained, Covers
      <4>2. gap.first \in Int /\ gap.last \in Int
        BY WindowsAssumption
      <4>3. d \in gap.first .. gap.last
        BY <1>2, <1>5, <2>3, <4>1, <4>2
      <4> QED
        BY <4>1, <4>3 DEF InKnownGap
    <3> QED
      BY <2>1, <3>1, <3>2
  <2> QED
    BY <1>6, <2>2, <2>3
<1>12. WalkHasSeenFirst(p)'
  <2> SUFFICES ASSUME x.seed, s \notin behind, NEW q \in Params, NEW d \in Days,
                      Behind(p, d)', source[s][q][d] > 0
               PROVE  y.first # None /\ y.first <= d
    BY <1>4 DEF WalkHasSeenFirst
  <2>1. CASE Behind(p, d)
    <3>1. x.first # None /\ x.first <= d
      BY <1>1, <1>7, <2>1 DEF Claims, WalkHasSeenFirst
    <3>2. y.first # None /\ y.first <= x.first
      BY <3>1
    <3>3. x.first \in Int /\ y.first \in Int /\ d \in Int
      BY <1>1, <1>5, <3>1, <3>2 DEF RunSet
    <3> QED
      BY <3>1, <3>2, <3>3
  <2>2. CASE d \in x.from .. WindowEnd(p)
    BY <1>9, <2>2
  <2> QED
    BY <1>6, <2>1, <2>2
<1> QED
  BY <1>1, <1>8, <1>10, <1>11, <1>12 DEF Claims, HoldsPublished, HoldsAllBut, HoldsWindow,
     PollStartsBehind

LEMMA NextWindowIs ==
  ASSUME IngestInv, NEW p \in Backfills, proc[p].pc = "holding"
  PROVE  NextWindow(p) \in Int
<1>1. p \in Processes /\ proc[p] \in RunSet /\ Shaped(p)
  BY DEF IngestInv, Typed, Claims, Processes
<1>2. proc[p].from \in Int /\ WindowDays \in Int
  BY <1>1, Bounds DEF RunSet
<1> QED
  BY <1>2 DEF NextWindow

LEMMA WindowEmptyKeeps ==
  ASSUME IngestInv, NEW p \in Backfills, WindowEmpty(p)
  PROVE  IngestInv'
<1> DEFINE x == proc[p]
           u == x.unexplained \/ (service = "dv" /\ ~Explained(p))
           f == NextWindow(p)
           run == [x EXCEPT !.pc = "asking", !.from = f, !.stale = FALSE, !.unexplained = u]
<1>1. /\ p \in Processes /\ x \in RunSet /\ proc \in [Processes -> RunSet] /\ Claims(p)
      /\ x.pc = "holding" /\ DatesOf(x.got) = {} /\ proc' = [proc EXCEPT ![p] = run]
      /\ UNCHANGED <<service, today, source, table, cold, skipped, behind, faults>>
  <2>1. p \in Processes /\ x \in RunSet /\ proc \in [Processes -> RunSet] /\ Claims(p)
    BY DEF IngestInv, Typed, Processes
  <2>2. x.pc = "holding" /\ DatesOf(x.got) = {}
    BY DEF WindowEmpty
  <2>3. UNCHANGED <<service, today, source, table, cold, skipped, behind, faults>>
    BY DEF WindowEmpty
  <2>4. proc' = [proc EXCEPT ![p] = run]
    BY DEF WindowEmpty
  <2> QED
    BY <2>1, <2>2, <2>3, <2>4
<1>2. f \in Int
  BY <1>1, NextWindowIs
<1>3. u \in BOOLEAN
  OBVIOUS
<1> HIDE DEF u, f
<1>4. /\ run \in RunSet /\ run.pc = "asking" /\ run.from = f /\ run.todo = x.todo
      /\ run.end = x.end /\ run.seed = x.seed /\ run.start = x.start /\ run.first = x.first
      /\ run.unexplained = u
  BY <1>1, <1>2, <1>3 DEF RunSet
<1>5. proc'[p] = run
  BY <1>1
<1> HIDE DEF run
<1>6. service = "dv" /\ ~u => ~x.unexplained /\ Explained(p)
  BY DEF u
<1>7. \A d \in {x.first} \ {None} : x.first # None /\ x.first <= d
  <2>1. x.first # None => x.first \in Int
    BY <1>1 DEF RunSet, Days
  <2> QED
    BY <2>1
<1>8. \A q \in Params, d \in Days : x.got[q][d] = {}
  BY <1>1 DEF DatesOf
<1>9. Claims(p)'
  BY <1>1, <1>4, <1>5, <1>6, <1>7, <1>8, WalkGoesOn DEF f, Stored
<1> QED
  BY <1>1, <1>4, <1>9, RunStep DEF IngestInv, Typed

LEMMA EndWalkKeeps ==
  ASSUME IngestInv, NEW p \in Backfills, EndWalk(p)
  PROVE  IngestInv'
<1> DEFINE x == proc[p]
           run == [x EXCEPT !.pc = "done", !.from = 0]
<1>1. /\ p \in Processes /\ p \notin Pollers
      /\ x \in RunSet /\ proc \in [Processes -> RunSet] /\ Claims(p)
      /\ x.pc = "asking" /\ x.from > WalkEnd(p)
      /\ UNCHANGED <<service, today, source, table, cold, skipped, behind, faults>>
  BY Apart DEF IngestInv, Typed, Processes, EndWalk
<1>2. proc' = [proc EXCEPT ![p] = run]
  BY <1>1 DEF EndWalk, RunSet
<1>3. 0 \in Int
  BY Bounds
<1>4. /\ run \in RunSet /\ run.pc = "done" /\ run.todo = x.todo
      /\ run.end = x.end /\ run.seed = x.seed /\ run.start = x.start /\ run.first = x.first
      /\ run.unexplained = x.unexplained
  BY <1>1, <1>3 DEF RunSet
<1>5. proc'[p] = run
  BY <1>1, <1>2
<1> HIDE DEF run
<1>6. Site(p)' = Site(p) /\ WalkEnd(p)' = WalkEnd(p) /\ Walking(p)
  BY <1>1, <1>4, <1>5 DEF Site, WalkEnd, Walking
<1>7. ASSUME NEW d \in Days, Behind(p, d)' PROVE Behind(p, d)
  <2>1. d <= WalkEnd(p)
    BY <1>6, <1>7 DEF Behind
  <2>2. d \in Int /\ WalkEnd(p) \in Int /\ x.from \in Int
    BY <1>1, Bounds DEF RunSet, WalkEnd, Days
  <2>3. d < x.from
    BY <1>1, <2>1, <2>2
  <2> QED
    BY <2>1, <2>3 DEF Behind
<1>8. Shaped(p)'
  BY <1>1, <1>4, <1>5, <1>6 DEF Claims, Shaped
<1>9. WalkHasStored(p)'
  BY <1>1, <1>4, <1>5, <1>6, <1>7 DEF Claims, WalkHasStored, AnswersFor, Stored
<1>10. WalkHasExplained(p)'
  BY <1>1, <1>4, <1>5, <1>6, <1>7 DEF Claims, WalkHasExplained, Lit, Stored, InKnownGap
<1>11. WalkHasSeenFirst(p)'
  BY <1>1, <1>4, <1>5, <1>6, <1>7 DEF Claims, WalkHasSeenFirst
<1>12. Claims(p)'
  BY <1>1, <1>4, <1>5, <1>8, <1>9, <1>10, <1>11 DEF Claims, HoldsPublished, HoldsAllBut, HoldsWindow,
     PollStartsBehind
<1> QED
  BY <1>1, <1>2, <1>4, <1>12, RunStep DEF IngestInv, Typed

-----------------------------------------------------------------------------
(* The write.                                                              *)

LEMMA CommitIs ==
  ASSUME IngestInv, NEW p \in Processes, proc[p].pc = "holding",
         table' = Upserted(Site(p), proc[p].got), source' = source
  PROVE  /\ Site(p) \in Sites
         /\ table' \in [Sites -> Values]
         /\ \A s \in Sites : s # Site(p) => table'[s] = table[s]
         /\ \A q \in Params, d \in Days : proc[p].got[q][d] = {} =>
              table'[Site(p)][q][d] = table[Site(p)][q][d]
         /\ \A q \in Params, d \in Days : proc[p].got[q][d] # {} =>
              /\ table'[Site(p)][q][d] \in 1 .. source[Site(p)][q][d]
              /\ proc[p].got[q][d] = {[value |-> table'[Site(p)][q][d]]}
              /\ proc[p].stale \/ table[Site(p)][q][d] <= table'[Site(p)][q][d]
         /\ StoredWasPublished'
         /\ \A s \in Sites, q \in Params, d \in Days : Stored(s, q, d) => Stored(s, q, d)'
<1> DEFINE x == proc[p]
           s == Site(p)
<1>1. x \in RunSet /\ Claims(p) /\ s \in Sites
  BY SiteIs DEF IngestInv, Typed, Claims
<1>2. \A t \in Sites, q \in Params, d \in Days :
        table[t][q][d] \in 0 .. source[t][q][d] /\ source[t][q][d] \in 0 .. 2
  BY DEF IngestInv, StoredWasPublished, SourceSound
<1>3. table \in [Sites -> Values]
  BY DEF IngestInv, Typed
<1>4. /\ \A t \in Sites : t # s => table'[t] = table[t]
      /\ table'[s] = [q \in Params |-> [d \in Days |->
                        UpsertedValue(table[s][q][d], ValueOf(x.got[q][d]))]]
      /\ table' = [table EXCEPT ![s] = table'[s]]
  BY <1>1, <1>3 DEF Upserted
<1>5. \A q \in Params, d \in Days :
        table'[s][q][d] = UpsertedValue(table[s][q][d], ValueOf(x.got[q][d]))
  BY <1>4
<1>6. ASSUME NEW q \in Params, NEW d \in Days, x.got[q][d] = {}
      PROVE  table'[s][q][d] = table[s][q][d]
  BY <1>5, <1>6 DEF UpsertedValue, ValueOf
<1>7. ASSUME NEW q \in Params, NEW d \in Days, x.got[q][d] # {}
      PROVE  /\ table'[s][q][d] \in 1 .. source[s][q][d]
             /\ x.got[q][d] = {[value |-> table'[s][q][d]]}
             /\ x.stale \/ table[s][q][d] <= table'[s][q][d]
  <2>1. PICK v \in 1 .. source[s][q][d] :
          x.got[q][d] = {[value |-> v]} /\ (x.stale \/ table[s][q][d] <= v)
    BY <1>1, <1>7 DEF Claims, HoldsPublished
  <2>2. ValueOf(x.got[q][d]) = v
    <3>1. (CHOOSE r \in {[value |-> v]} : TRUE) = [value |-> v]
      OBVIOUS
    <3> QED
      BY <2>1, <3>1 DEF ValueOf
  <2>3. v # 0
    OBVIOUS
  <2>4. table'[s][q][d] = v
    BY <1>5, <2>2, <2>3 DEF UpsertedValue
  <2> QED
    BY <2>1, <2>4
<1>8. \A q \in Params, d \in Days :
        /\ table'[s][q][d] \in 0 .. source[s][q][d]
        /\ table[s][q][d] > 0 => table'[s][q][d] > 0
  <2> SUFFICES ASSUME NEW q \in Params, NEW d \in Days
               PROVE  /\ table'[s][q][d] \in 0 .. source[s][q][d]
                      /\ table[s][q][d] > 0 => table'[s][q][d] > 0
    OBVIOUS
  <2>1. table[s][q][d] \in 0 .. source[s][q][d] /\ source[s][q][d] \in 0 .. 2
    BY <1>1, <1>2
  <2>2. CASE x.got[q][d] = {}
    BY <1>6, <2>1, <2>2
  <2>3. CASE x.got[q][d] # {}
    <3>1. table'[s][q][d] \in 1 .. source[s][q][d]
      BY <1>7, <2>3
    <3> QED
      BY <2>1, <3>1
  <2> QED
    BY <2>2, <2>3
<1>9. table'[s] \in Values
  <2>1. \A q \in Params, d \in Days : table'[s][q][d] \in Versions
    <3> SUFFICES ASSUME NEW q \in Params, NEW d \in Days PROVE table'[s][q][d] \in Versions
      OBVIOUS
    <3>1. table'[s][q][d] \in 0 .. source[s][q][d] /\ source[s][q][d] \in 0 .. 2
      BY <1>1, <1>2, <1>8
    <3> QED
      BY <3>1 DEF Versions
  <2>2. table'[s] = [q \in Params |-> [d \in Days |-> table'[s][q][d]]]
    BY <1>4
  <2> QED
    BY <2>1, <2>2 DEF Values
<1>10. table' \in [Sites -> Values]
  BY <1>1, <1>3, <1>4, <1>9
<1>11. StoredWasPublished'
  BY <1>1, <1>2, <1>4, <1>8 DEF StoredWasPublished
<1>12. \A t \in Sites, q \in Params, d \in Days : Stored(t, q, d) => Stored(t, q, d)'
  BY <1>1, <1>4, <1>8 DEF Stored
<1> QED
  BY <1>1, <1>4, <1>6, <1>7, <1>10, <1>11, <1>12

(* A commit of what has been read from where every older value is stored.  *)
LEMMA CommitStep ==
  ASSUME IngestInv, NEW p \in Processes, proc[p].pc = "holding", NEW next \in RunSet,
         Commit(p, next),
         Site(p) \notin cold \cup skipped \cup behind =>
           \A q \in Params, d \in Days :
             d < proc[p].from /\ source[Site(p)][q][d] > 0 => Stored(Site(p), q, d),
         Claims(p)'
  PROVE  IngestInv'
<1> DEFINE x == proc[p]
           s == Site(p)
<1>1. /\ table' = Upserted(s, x.got) /\ proc' = Written(p, next)
      /\ UNCHANGED <<service, today, source, cold, skipped, behind, faults>>
  BY DEF Commit
<1>2. /\ s \in Sites /\ table' \in [Sites -> Values] /\ StoredWasPublished'
      /\ \A t \in Sites : t # s => table'[t] = table[t]
      /\ \A q \in Params, d \in Days :
           /\ x.got[q][d] = {} => table'[s][q][d] = table[s][q][d]
           /\ x.got[q][d] # {} => table'[s][q][d] \in 1 .. source[s][q][d]
      /\ \A t \in Sites, q \in Params, d \in Days : Stored(t, q, d) => Stored(t, q, d)'
  BY <1>1, CommitIs
<1>3. proc \in [Processes -> RunSet] /\ Claims(p)
  BY DEF IngestInv, Typed
<1>4. \A r \in Processes : r # p =>
        proc'[r] = IF proc[r].pc = "holding" /\ Site(r) = s THEN [proc[r] EXCEPT !.stale = TRUE]
                   ELSE proc[r]
  BY <1>1 DEF Written
<1>5. proc' \in [Processes -> RunSet]
  <2>1. NoReadings \in [Params -> [Days -> Rows]]
    BY DEF NoReadings, Rows
  <2>2. [next EXCEPT !.got = NoReadings, !.stale = FALSE] \in RunSet
    BY <2>1 DEF RunSet
  <2>3. \A r \in Processes : [proc[r] EXCEPT !.stale = TRUE] \in RunSet
    BY <1>3 DEF RunSet
  <2> QED
    BY <1>1, <1>3, <2>2, <2>3 DEF Written
<1>6. Typed' /\ SourceSound'
  BY <1>1, <1>2, <1>5 DEF IngestInv, Typed, SourceSound
<1>7. today' \in Days /\ today <= today'
  BY <1>1, Bounds DEF IngestInv, Typed, Days
<1>8. ASSUME NEW r \in Processes, r # p PROVE Claims(r)'
  <2>1. proc[r].pc # "idle" => Site(r) \in Sites
    BY SiteIs DEF IngestInv, Claims
  <2>2. CASE proc[r].pc = "holding" /\ Site(r) = s
    BY <1>1, <1>2, <1>4, <1>5, <1>7, <1>8, <2>2, KeptClaims
  <2>3. CASE ~(proc[r].pc = "holding" /\ Site(r) = s)
    <3>1. proc'[r] = proc[r]
      BY <1>4, <1>8, <2>3
    <3>2. proc[r].pc = "holding" => table'[Site(r)] = table[Site(r)]
      BY <1>2, <2>1, <2>3
    <3> QED
      BY <1>1, <1>2, <1>5, <1>7, <3>1, <3>2, KeptClaims
  <2> QED
    BY <2>2, <2>3
<1>9. HolesHaveACause'
  <2> SUFFICES ASSUME NEW t \in Sites \ (cold \cup skipped \cup behind), NEW q \in Params, NEW d \in Days,
                      source[t][q][d] > 0, Latest(table'[t]) # None,
                      d < Latest(table'[t]) - OverlapDays
               PROVE  table'[t][q][d] > 0
    BY <1>1 DEF HolesHaveACause, LatestDate, Stored
  <2> DEFINE e == Latest(table'[t])
  <2>1. CASE t # s
    BY <1>2, <2>1 DEF IngestInv, HolesHaveACause, LatestDate, Stored
  <2>2. CASE t = s /\ d < x.from
    BY <1>2, <2>2 DEF Stored
  <2>3. CASE t = s /\ ~(d < x.from)
    <3>1. e \in DatesIn(table'[s]) /\ e \in Days
      BY <2>3, LatestIs DEF DatesIn
    <3>2. d \in Int /\ e \in Int /\ x.from \in Int /\ OverlapDays \in Int
      BY <1>3, <3>1, Bounds DEF RunSet, Days
    <3>3. PICK k \in Params : table'[s][k][e] > 0
      BY <3>1 DEF DatesIn
    <3>4. CASE x.got[k][e] # {}
      <4>1. e \in DatesOf(x.got)
        BY <3>1, <3>4 DEF DatesOf
      <4>2. d >= x.from /\ d < e - OverlapDays
        BY <2>3, <3>2
      <4>3. x.got[q][d] # {}
        BY <1>3, <2>3, <4>1, <4>2 DEF Claims, HoldsAllBut
      <4> QED
        BY <1>2, <2>3, <4>3
    <3>5. CASE x.got[k][e] = {}
      <4>1. e \in DatesIn(table[s])
        BY <1>2, <3>1, <3>3, <3>5 DEF DatesIn
      <4>2. Latest(table[s]) # None /\ e <= Latest(table[s]) /\ Latest(table[s]) \in Int
        BY <4>1, LatestIs, Bounds DEF DatesIn, Days
      <4> DEFINE f == Latest(table[s])
      <4> HIDE DEF e, f
      <4>3. d < f - OverlapDays
        BY <3>2, <4>2 DEF e, f
      <4>4. Stored(s, q, d)
        BY <2>3, <4>2, <4>3 DEF IngestInv, HolesHaveACause, LatestDate, f
      <4> QED
        BY <1>2, <2>3, <4>4 DEF Stored
    <3> QED
      BY <3>4, <3>5
  <2> QED
    BY <2>1, <2>2, <2>3
<1> QED
  BY <1>2, <1>6, <1>8, <1>9 DEF IngestInv

LEMMA PollWriteKeeps ==
  ASSUME IngestInv, NEW p \in Pollers, PollWrite(p)
  PROVE  IngestInv'
<1> DEFINE x == proc[p]
           s == Site(p)
           next == NextSite(x)
           run == [next EXCEPT !.got = NoReadings, !.stale = FALSE]
<1>1. /\ p \in Processes /\ p \notin Backfills /\ x \in RunSet /\ Claims(p) /\ x.pc = "holding"
      /\ Commit(p, next)
  BY Apart DEF IngestInv, Typed, Processes, PollWrite
<1>2. x.todo \in Seq(Sites) /\ x.todo # <<>> /\ 0 <= today /\ x.end <= today
  BY <1>1, Bounds DEF Claims, Shaped, RunSet, IngestInv, Typed, Days
<1>3. 0 \in Int
  BY Bounds
<1>4. /\ next \in RunSet /\ next.pc \in {"idle", "next"} /\ next.end <= today
      /\ next.pc = "next" => next.todo # <<>>
      /\ next.seed => service = "dv"
  <2>1. CASE Len(x.todo) = 1
    BY <1>2, <2>1, IdleIs DEF NextSite
  <2>2. CASE Len(x.todo) # 1
    <3>1. Tail(x.todo) \in Seq(Sites) /\ Tail(x.todo) # <<>>
      <4>1. /\ Tail(x.todo) \in Seq(Sites) /\ Len(Tail(x.todo)) = Len(x.todo) - 1
            /\ Len(x.todo) \in Nat
        BY <1>2, HeadTailProperties, LenProperties
      <4>2. Len(Tail(x.todo)) # 0
        BY <2>2, <4>1
      <4> QED
        BY <4>1, <4>2, EmptySeq
    <3>2. next = [x EXCEPT !.pc = "next", !.todo = Tail(x.todo), !.from = 0]
      BY <2>2 DEF NextSite
    <3>3. x.seed => service = "dv"
      BY <1>1 DEF Claims, Shaped
    <3> HIDE DEF next
    <3> QED
      BY <1>1, <1>2, <1>3, <3>1, <3>2, <3>3 DEF RunSet
  <2> QED
    BY <2>1, <2>2
<1> HIDE DEF next
<1>5. run.pc = next.pc /\ run.todo = next.todo /\ run.end = next.end /\ run.seed = next.seed
  BY <1>4 DEF RunSet
<1>6. proc'[p] = run
  BY <1>1 DEF Commit, Written
<1> HIDE DEF run
<1>7. today' = today /\ service' = service
  BY <1>1 DEF Commit
<1>8. Shaped(p)'
  BY <1>1, <1>4, <1>5, <1>6, <1>7 DEF Shaped
<1>9. Claims(p)'
  BY <1>4, <1>5, <1>6, <1>8, RestClaims
<1>10. ASSUME s \notin cold \cup skipped \cup behind, NEW q \in Params, NEW d \in Days,
              d < x.from, source[s][q][d] > 0
       PROVE  Stored(s, q, d)
  <2>1. s \in Sites
    BY <1>1, SiteIs DEF IngestInv, Claims
  <2> DEFINE f == LatestDate(s)
  <2>2. f # None /\ x.from + OverlapDays <= f
    BY <1>1, <1>10 DEF Claims, PollStartsBehind
  <2>3. f \in Days
    BY <2>2, LatestIs DEF LatestDate
  <2> HIDE DEF f
  <2>4. d < f - OverlapDays
    BY <1>1, <1>10, <2>2, <2>3, Bounds DEF RunSet, Days
  <2> QED
    BY <1>10, <2>1, <2>2, <2>4 DEF f, IngestInv, HolesHaveACause
<1> QED
  BY <1>1, <1>4, <1>9, <1>10, CommitStep

LEMMA EarliestIs ==
  ASSUME NEW p, proc[p] \in RunSet, DatesOf(proc[p].got) # {}
  PROVE  /\ Earliest(p) \in Days
         /\ \A d \in DatesOf(proc[p].got) \cup ({proc[p].first} \ {None}) : Earliest(p) <= d
<1> DEFINE dates == DatesOf(proc[p].got) \cup ({proc[p].first} \ {None})
<1>1. dates \subseteq Days /\ dates # {}
  BY DEF DatesOf, RunSet
<1>2. \E d \in dates : \A e \in dates : d <= e
  BY <1>1, FirstOfDays
<1>3. Earliest(p) \in dates /\ \A e \in dates : Earliest(p) <= e
  BY <1>2 DEF Earliest
<1> QED
  BY <1>1, <1>3

LEMMA WindowWriteKeeps ==
  ASSUME IngestInv, NEW p \in Backfills, WindowWrite(p)
  PROVE  IngestInv'
<1> DEFINE x == proc[p]
           s == Site(p)
           f == NextWindow(p)
           e == Earliest(p)
           next == [x EXCEPT !.pc = "asking", !.from = f, !.first = e]
           run == [next EXCEPT !.got = NoReadings, !.stale = FALSE]
<1>1. /\ p \in Processes /\ x \in RunSet /\ Claims(p) /\ x.pc = "holding"
      /\ DatesOf(x.got) # {} /\ Commit(p, next)
  BY DEF IngestInv, Typed, Processes, WindowWrite
<1>2. f \in Int
  BY <1>1, NextWindowIs
<1>3. /\ e \in Days /\ e # None
      /\ \A d \in DatesOf(x.got) \cup ({x.first} \ {None}) : e <= d
  BY <1>1, EarliestIs, Bounds DEF Days
<1> HIDE DEF f, e
<1>4. next \in RunSet
  BY <1>1, <1>2, <1>3 DEF RunSet
<1>5. NoReadings \in [Params -> [Days -> Rows]]
  BY DEF NoReadings, Rows
<1>6. /\ run \in RunSet /\ run.pc = "asking" /\ run.from = f /\ run.first = e
      /\ run.todo = x.todo /\ run.end = x.end /\ run.seed = x.seed /\ run.start = x.start
      /\ run.unexplained = x.unexplained
  BY <1>1, <1>2, <1>3, <1>5 DEF RunSet
<1>7. proc'[p] = run
  BY <1>1 DEF Commit, Written
<1> HIDE DEF run, next
<1>8. /\ UNCHANGED <<service, today, source, cold, skipped, behind, faults>>
      /\ table' = Upserted(s, x.got)
  BY <1>1 DEF Commit
<1>9. s \in Sites
  BY <1>1, SiteIs DEF IngestInv, Claims
<1>10. ASSUME NEW q \in Params, NEW d \in Days, Stored(s, q, d) \/ x.got[q][d] # {}
       PROVE  table'[s][q][d] > 0
  <2>1. CASE x.got[q][d] # {}
    <3>1. table'[s][q][d] \in 1 .. source[s][q][d]
      BY <1>1, <1>8, <2>1, CommitIs
    <3> QED
      BY <3>1
  <2>2. CASE Stored(s, q, d)
    <3>1. \A t \in Sites : table[t][q][d] > 0 => table'[t][q][d] > 0
      BY <1>1, <1>8, CommitIs DEF Stored
    <3> QED
      BY <1>9, <2>2, <3>1 DEF Stored
  <2> QED
    BY <1>10, <2>1, <2>2
<1>11. service = "dv" /\ ~run.unexplained =>
         ~x.unexplained /\ (DatesOf(x.got) # {} \/ Explained(p))
  BY <1>1, <1>6
<1>12. Claims(p)'
  BY <1>1, <1>3, <1>6, <1>7, <1>8, <1>10, <1>11, WalkGoesOn DEF f
<1>13. ASSUME s \notin cold \cup skipped \cup behind, NEW q \in Params, NEW d \in Days,
              d < x.from, source[s][q][d] > 0
       PROVE  Stored(s, q, d)
  <2>1. x.from <= WalkEnd(p)
    BY <1>1 DEF Claims, Shaped
  <2>2. d <= WalkEnd(p)
    BY <1>1, <1>13, <2>1, Bounds DEF RunSet, WalkEnd, Days
  <2> QED
    BY <1>1, <1>13, <2>2 DEF Claims, WalkHasStored, AnswersFor, Walking, Behind
<1> QED
  BY <1>1, <1>4, <1>12, <1>13, CommitStep

-----------------------------------------------------------------------------
(* The inductive invariant.                                                *)

LEMMA InitEstablishes ==
  ASSUME Init
  PROVE  IngestInv
<1>1. /\ service \in Services /\ today \in 0 .. 1 /\ faults = 0 /\ cold = {} /\ skipped = {} /\ behind = {}
      /\ proc = [p \in Processes |-> Idle] /\ table = source
  BY DEF Init
<1>2. today \in Days
  BY <1>1, Bounds DEF Days
<1>3. source \in [Sites -> Values]
  <2>1. 0 \in Versions /\ 1 \in Versions
    BY DEF Versions
  <2>2. Nothing \in Values /\ FirstDay \in Values
    BY <2>1 DEF Nothing, FirstDay, Values
  <2> QED
    BY <2>2 DEF Init
<1>4. Typed
  BY <1>1, <1>2, <1>3, IdleIs DEF Typed
<1>5. ASSUME NEW s \in Sites, NEW q \in Params, NEW d \in Days
      PROVE  source[s][q][d] \in 0 .. 1 /\ (source[s][q][d] > 0 => d < today /\ d = 0)
  <2>1. CASE today = 0 /\ source = [t \in Sites |-> Nothing]
    <3>1. source[s][q][d] = 0
      BY <2>1 DEF Nothing
    <3> QED
      BY <3>1
  <2>2. CASE today = 1 /\ source = [t \in Sites |-> FirstDay]
    <3>1. source[s][q][d] = IF d = 0 THEN 1 ELSE 0
      BY <2>2 DEF FirstDay
    <3> QED
      BY <2>2, <3>1
  <2> QED
    BY <2>1, <2>2 DEF Init
<1>6. SourceSound
  BY <1>5 DEF SourceSound
<1>7. StoredWasPublished
  <2> SUFFICES ASSUME NEW s \in Sites, NEW q \in Params, NEW d \in Days
               PROVE  table[s][q][d] \in 0 .. source[s][q][d]
    BY DEF StoredWasPublished
  <2>1. source[s][q][d] \in 0 .. 1
    BY <1>5
  <2> QED
    BY <1>1, <2>1
<1>8. HolesHaveACause
  BY <1>1 DEF HolesHaveACause, Stored
<1>9. ASSUME NEW p \in Processes PROVE Claims(p)
  <2>1. proc[p] = Idle /\ 0 <= today
    BY <1>1
  <2>2. Shaped(p)
    BY <2>1, IdleIs DEF Shaped
  <2> QED
    BY <2>1, <2>2, IdleIs DEF Claims, HoldsPublished, HoldsAllBut, HoldsWindow, PollStartsBehind,
       WalkHasStored, WalkHasExplained, WalkHasSeenFirst, Walking
<1> QED
  BY <1>4, <1>6, <1>7, <1>8, <1>9 DEF IngestInv

LEMMA StutterKeeps ==
  ASSUME IngestInv, UNCHANGED vars
  PROVE  IngestInv'
<1>1. UNCHANGED <<service, today, source, table, proc, cold, skipped, behind, faults>>
  BY DEF vars
<1>2. Typed' /\ SourceSound' /\ StoredWasPublished' /\ HolesHaveACause'
  BY <1>1 DEF IngestInv, Typed, SourceSound, StoredWasPublished, HolesHaveACause, LatestDate, Stored
<1>3. today' \in Days /\ today <= today' /\ proc' \in [Processes -> RunSet]
  BY <1>1, Bounds DEF IngestInv, Typed, Days
<1>4. ASSUME NEW r \in Processes PROVE Claims(r)'
  BY <1>1, <1>3, KeptClaims DEF Stored
<1> QED
  BY <1>2, <1>4 DEF IngestInv

LEMMA NextKeeps ==
  ASSUME IngestInv, Next
  PROVE  IngestInv'
<1>1. CASE NextDay
  BY <1>1, NextDayKeeps
<1>2. ASSUME NEW s \in Sites, NEW q \in Params, NEW d \in Days, Publish(s, q, d) \/ Revise(s, q, d)
      PROVE  IngestInv'
  BY <1>2, PublishKeeps, ReviseKeeps
<1>3. ASSUME NEW p \in Pollers, PollStep(p) PROVE IngestInv'
  BY <1>3, StartPollKeeps, ReadNewestKeeps, PollFetchKeeps, PollWriteKeeps, FetchFailsKeeps
     DEF PollStep, Processes
<1>4. ASSUME NEW p \in Backfills, WalkStep(p) PROVE IngestInv'
  <2>1. p \in Processes
    BY DEF Processes
  <2>2. CASE \E s \in Sites : StartBackfill(p, s)
    BY <2>2, StartBackfillKeeps
  <2>3. CASE ReadResumePoint(p)
    BY <2>3, ReadResumePointKeeps
  <2>4. CASE \E start \in Overrides : TakeOverride(p, start)
    BY <2>4, TakeOverrideKeeps
  <2>5. CASE WindowFetch(p)
    BY <2>5, WindowFetchKeeps
  <2>6. CASE WindowEmpty(p)
    BY <2>6, WindowEmptyKeeps
  <2>7. CASE WindowFails(p)
    BY <2>1, <2>7, WindowFailsKeeps
  <2>8. CASE WindowWrite(p)
    BY <2>8, WindowWriteKeeps
  <2>9. CASE EndWalk(p)
    BY <2>9, EndWalkKeeps
  <2>10. CASE Report(p)
    BY <2>1, <2>10, ReportKeeps
  <2>11. CASE FetchFails(p)
    BY <2>1, <2>11, FetchFailsKeeps
  <2> QED
    BY <1>4, <2>2, <2>3, <2>4, <2>5, <2>6, <2>7, <2>8, <2>9, <2>10, <2>11 DEF WalkStep
<1>5. ASSUME NEW p \in Processes, Kill(p) PROVE IngestInv'
  BY <1>5, KillKeeps
<1> QED
  BY <1>1, <1>2, <1>3, <1>4, <1>5 DEF Next

(* Any number of polls and backfills, of any sites, started, killed and    *)
(* refused anywhere, keep what the properties below are read from: what    *)
(* each holds is sound and lacks nothing it will be taken not to lack, and *)
(* behind a walk everything published is stored.                           *)
THEOREM IngestInvariant == Spec => []IngestInv
<1>1. Init => IngestInv
  BY InitEstablishes
<1>2. IngestInv /\ [Next]_vars => IngestInv'
  BY NextKeeps, StutterKeeps
<1> QED
  BY <1>1, <1>2, PTL DEF Spec

(* No published value further back than the overlap is missing, but where  *)
(* a first poll, a --start that passed over something, or a value          *)
(* published behind a walk is the cause.                                   *)
THEOREM NothingIsPassedOver == Spec => []HolesHaveACause
<1>1. IngestInv => HolesHaveACause
  BY DEF IngestInv
<1> QED
  BY <1>1, IngestInvariant, PTL

(* A walk that reports its site done has stored every value up to the day  *)
(* it was started, whatever its windows, failures and neighbours were; of  *)
(* a site that a cold-start poll or a --start has set ahead, every value   *)
(* from the --start it was given itself.                                   *)
THEOREM WalksAreComplete == Spec => []WalkIsComplete
<1>1. ASSUME IngestInv PROVE WalkIsComplete
  <2>1. ASSUME NEW p \in Backfills, proc[p].pc = "done", Site(p) \notin behind,
               NEW q \in Params, NEW d \in Days, d <= WalkEnd(p), AnswersFor(p, d),
               source[Site(p)][q][d] > 0
        PROVE  Stored(Site(p), q, d)
    <3>1. WalkHasStored(p) /\ Behind(p, d) /\ Walking(p)
      BY <1>1, <2>1 DEF IngestInv, Claims, Processes, Behind, Walking
    <3> QED
      BY <2>1, <3>1 DEF WalkHasStored
  <2> QED
    BY <2>1 DEF WalkIsComplete, CompleteFrom, AnswersFor
<1> QED
  BY <1>1, IngestInvariant, PTL

(* Whatever a body holds, what is stored was published for that parameter  *)
(* and day, in the stored version or an earlier one than is served now.    *)
THEOREM OnlyThePublishedIsStored == Spec => []StoredWasPublished
<1>1. IngestInv => StoredWasPublished
  BY DEF IngestInv
<1> QED
  BY <1>1, IngestInvariant, PTL

LEMMA DoneWalk ==
  ASSUME IngestInv, NEW p \in Backfills, proc[p].pc = "done", NEW d \in 0 .. WalkEnd(p)
  PROVE  /\ Claims(p) /\ Walking(p) /\ Behind(p, d) /\ d \in Days /\ Site(p) \in Sites
<1>1. p \in Processes /\ proc[p] \in RunSet /\ Claims(p)
  BY DEF IngestInv, Typed, Processes
<1>2. Site(p) \in Sites
  BY <1>1, SiteIs DEF IngestInv, Claims
<1> QED
  BY <1>1, <1>2, Bounds DEF RunSet, Days, WalkEnd, Behind, Walking

(* A walk that reports no unexplained window has left no dark day outside  *)
(* a known gap, and what it reports as the first of the record is.         *)
THEOREM WalksReportTruly == Spec => []WalkReportsTruly
<1>1. ASSUME IngestInv PROVE TypeOK
  <2>1. \A p \in Processes : proc[p] \in RunSet
    BY <1>1 DEF IngestInv, Typed
  <2> QED
    BY <1>1, <2>1 DEF IngestInv, Typed, TypeOK, RunSet, Rows
<1>2. ASSUME IngestInv PROVE DarkDaysAreReported
  <2> SUFFICES ASSUME NEW p \in Backfills, proc[p].pc = "done", proc[p].seed,
                      ~proc[p].unexplained, NEW d \in 0 .. WalkEnd(p)
               PROVE  InKnownGap(Site(p), d) \/ Lit(Site(p), d)
    BY DEF DarkDaysAreReported, InKnownGap, Lit
  <2> QED
    BY <1>2, DoneWalk DEF Claims, WalkHasExplained
<1>3. ASSUME IngestInv PROVE FirstDataIsTheRecords
  <2> SUFFICES ASSUME NEW p \in Backfills, proc[p].pc = "done", proc[p].seed, Site(p) \notin behind,
                      NEW q \in Params, NEW d \in 0 .. WalkEnd(p), Stored(Site(p), q, d)
               PROVE  proc[p].first # None /\ proc[p].first <= d
    BY DEF FirstDataIsTheRecords
  <2>1. Claims(p) /\ Walking(p) /\ Behind(p, d) /\ d \in Days /\ Site(p) \in Sites
    BY <1>3, DoneWalk
  <2>2. /\ table[Site(p)][q][d] \in 0 .. source[Site(p)][q][d]
        /\ source[Site(p)][q][d] \in 0 .. 2
    BY <1>3, <2>1 DEF IngestInv, StoredWasPublished, SourceSound
  <2>3. source[Site(p)][q][d] > 0
    BY <2>2 DEF Stored
  <2> QED
    BY <2>1, <2>3 DEF Claims, WalkHasSeenFirst
<1>4. IngestInv => WalkReportsTruly
  BY <1>1, <1>2, <1>3 DEF WalkReportsTruly
<1> QED
  BY <1>4, IngestInvariant, PTL

(* What a commit makes of a revision that is stored.                       *)
LEMMA CommitUndoes ==
  ASSUME IngestInv, NEW p \in Processes, proc[p].pc = "holding", NEW next, Commit(p, next),
         NEW s \in Sites, NEW q \in Params, NEW d \in Days, table'[s][q][d] < table[s][q][d]
  PROVE  proc[p].stale /\ Site(p) = s
<1>1. table' = Upserted(Site(p), proc[p].got) /\ source' = source
  BY DEF Commit
<1>2. table[s][q][d] \in 0 .. 2
  <2>1. table[s][q][d] \in 0 .. source[s][q][d] /\ source[s][q][d] \in 0 .. 2
    BY DEF IngestInv, StoredWasPublished, SourceSound
  <2> QED
    BY <2>1
<1>3. ~(table'[s][q][d] = table[s][q][d])
  BY <1>2
<1>4. Site(p) = s
  BY <1>1, <1>3, CommitIs
<1>5. proc[p].got[q][d] # {}
  BY <1>1, <1>3, <1>4, CommitIs
<1>6. table'[s][q][d] \in 1 .. source[s][q][d] /\ (proc[p].stale \/ table[s][q][d] <= table'[s][q][d])
  BY <1>1, <1>4, <1>5, CommitIs
<1>7. source[s][q][d] \in 0 .. 2
  BY DEF IngestInv, SourceSound
<1> QED
  BY <1>2, <1>4, <1>6, <1>7

(* A stored revision is undone by no poll or walk whose answer is younger  *)
(* than every other process's write of its site.                           *)
THEOREM RevisionsAreUndoneByOverlapOnly == Spec => RevisionUndoneOnlyByOverlap
<1> DEFINE Undone == \A s \in Sites, q \in Params, d \in Days :
                       table'[s][q][d] < table[s][q][d]
                         => \E p \in Processes : proc[p].stale /\ Site(p) = s
<1>1. ASSUME IngestInv, [Next]_vars PROVE [Undone]_vars
  <2> SUFFICES ASSUME NEW s \in Sites, NEW q \in Params, NEW d \in Days,
                      table'[s][q][d] < table[s][q][d]
               PROVE  \E p \in Processes : proc[p].stale /\ Site(p) = s
    OBVIOUS
  <2>1. table' # table
    <3>1. table[s][q][d] \in 0 .. source[s][q][d] /\ source[s][q][d] \in 0 .. 2
      BY <1>1 DEF IngestInv, StoredWasPublished, SourceSound
    <3>2. ~(table[s][q][d] < table[s][q][d])
      BY <3>1
    <3> QED
      BY <3>2
  <2>2. \/ \E p \in Pollers : PollWrite(p)
        \/ \E p \in Backfills : WindowWrite(p)
    BY <1>1, <2>1 DEF Next, vars, NextDay, Publish, Revise, PollStep, WalkStep, StartPoll, ReadNewest,
       PollFetch, Answered, StartBackfill, ReadResumePoint, TakeOverride, WindowFetch, WindowEmpty,
       WindowFails, EndWalk, Report, FetchFails, Kill
  <2>3. PICK p \in Processes : /\ proc[p].pc = "holding"
                               /\ \E next : Commit(p, next)
    BY <2>2 DEF PollWrite, WindowWrite, Processes
  <2> QED
    BY <1>1, <2>3, CommitUndoes
<1>2. Spec => [][Undone]_vars
  BY <1>1, IngestInvariant, PTL DEF Spec
<1> QED
  BY <1>2 DEF RevisionUndoneOnlyByOverlap
==============================================================================
