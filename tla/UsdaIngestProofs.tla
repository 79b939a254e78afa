-------------------------- MODULE UsdaIngestProofs --------------------------
(* The properties of module UsdaIngest, for any datasets, jobs, places, weeks,  *)
(* lengths of a page and histories: whatever two runs, the publisher and the    *)
(* database do between the statements of a run, a read that ends has met every  *)
(* row that was there or has a reason not to, no horizon has a hole without a   *)
(* reason, what is stored was published, and what a run reports is what its     *)
(* commit changes.                                                              *)
EXTENDS UsdaIngest, FiniteSetTheorems, SequenceTheorems, TLAPS

-----------------------------------------------------------------------------
(* Rows, weeks and functions on some of them                                    *)

(* A row has one of the weeks.                                                  *)
LEMMA WeekOfRow ==
  ASSUME NEW r \in Rows
  PROVE  Week(r) \in 1..MaxWeek /\ r[1] \in Places
BY DEF Rows, Weeks, Week

(* The rows are finitely many, and so are any of them.                          *)
LEMMA RowsAreFinite ==
  ASSUME NEW S \in SUBSET Rows
  PROVE  IsFiniteSet(S) /\ Cardinality(S) \in Nat
<1>1. IsFiniteSet(Places) /\ IsFiniteSet(Weeks)
  BY UsdaAssumption, FS_Interval DEF Weeks
<1>2. IsFiniteSet(Rows)
  BY <1>1, FS_Product DEF Rows
<1> QED
  BY <1>2, FS_Subset, FS_CardinalityType

(* A set of naturals with a bound has a greatest, and Max finds it.             *)
LEMMA MaxIs ==
  ASSUME NEW n \in Nat, NEW S \in SUBSET (0..n), S # {}
  PROVE  Max(S) \in S /\ \A x \in S : x <= Max(S)
<1> DEFINE T == {n - x : x \in S}
<1>1. T \subseteq Nat /\ T # {}
  <2>1. \A x \in S : n - x \in Nat
    OBVIOUS
  <2> QED
    BY <2>1
<1>2. PICK m \in T : \A y \in T : ~(<<y, m>> \in OpToRel(<, Nat))
  BY <1>1, NatLessThanWellFounded, WFMin
<1>3. \A y \in T : ~(y < m)
  BY <1>1, <1>2 DEF OpToRel
<1>4. PICK x \in S : m = n - x
  BY <1>2
<1>5. \A y \in S : y <= x
  BY <1>3, <1>4
<1> QED
  BY <1>5 DEF Max

(* What it is to hold some of the rows of S.                                    *)
LEMMA PartialIs ==
  ASSUME NEW S, NEW f
  PROVE  f \in Partial(S) <=>
           /\ f = [x \in DOMAIN f |-> f[x]] /\ DOMAIN f \subseteq S
           /\ \A x \in DOMAIN f : f[x] \in Measures
<1>1. ASSUME f \in Partial(S)
      PROVE  f = [x \in DOMAIN f |-> f[x]] /\ DOMAIN f \subseteq S /\ \A x \in DOMAIN f : f[x] \in Measures
  BY <1>1 DEF Partial
<1>2. ASSUME f = [x \in DOMAIN f |-> f[x]], DOMAIN f \subseteq S, \A x \in DOMAIN f : f[x] \in Measures
      PROVE  f \in Partial(S)
  <2>1. f \in [DOMAIN f -> Measures]
    BY <1>2
  <2> QED
    BY <1>2, <2>1 DEF Partial
<1> QED
  BY <1>1, <1>2

(* Nothing is held of any rows by an empty table.                               *)
LEMMA NothingHeld ==
  ASSUME NEW S
  PROVE  << >> \in Partial(S) /\ DOMAIN << >> = {}
<1>1. DOMAIN << >> = {} /\ << >> = [x \in {} |-> x]
  OBVIOUS
<1> QED
  BY <1>1, PartialIs

(* One table laid over another.                                                 *)
LEMMA OverlaidIs ==
  ASSUME NEW S, NEW b \in Partial(S), NEW t \in Partial(S)
  PROVE  /\ Overlaid(b, t) \in Partial(S)
         /\ DOMAIN Overlaid(b, t) = DOMAIN b \cup DOMAIN t
         /\ \A x \in DOMAIN b : Overlaid(b, t)[x] = b[x]
         /\ \A x \in DOMAIN t \ DOMAIN b : Overlaid(b, t)[x] = t[x]
<1>1. DOMAIN Overlaid(b, t) = DOMAIN b \cup DOMAIN t
  BY DEF Overlaid
<1>2. \A x \in DOMAIN b : Overlaid(b, t)[x] = b[x]
  BY DEF Overlaid
<1>3. \A x \in DOMAIN t \ DOMAIN b : Overlaid(b, t)[x] = t[x]
  BY DEF Overlaid
<1>4. Overlaid(b, t) = [x \in DOMAIN Overlaid(b, t) |-> Overlaid(b, t)[x]]
  BY <1>1 DEF Overlaid
<1>5. DOMAIN b \subseteq S /\ DOMAIN t \subseteq S
  BY PartialIs
<1>6. \A x \in DOMAIN Overlaid(b, t) : Overlaid(b, t)[x] \in Measures
  BY <1>1, <1>2, <1>3, PartialIs
<1> QED
  BY <1>1, <1>2, <1>3, <1>4, <1>5, <1>6, PartialIs
-----------------------------------------------------------------------------
(* The inductive invariant                                                      *)

Pcs == {"idle", "reading", "read", "written", "done", "failed"}

RunSet ==
  [pc : Pcs, todo : Seq(Datasets),
   since : Int, offset : Nat, pages : Nat, received : Partial(Rows), there : SUBSET Rows,
   withheld : SUBSET Rows, missed : SUBSET (Datasets \X Rows), cold : BOOLEAN, moved : BOOLEAN,
   read : Partial(Datasets \X Rows), buffer : Partial(Datasets \X Rows), written : Nat,
   alone : BOOLEAN]

Typed ==
  /\ published \in [Datasets -> Partial(Rows)] /\ table \in Partial(Datasets \X Rows)
  /\ run \in [Jobs -> RunSet]
  /\ changes \in 0..MaxChanges /\ started \in 0..MaxRuns

Works(h) == h.pc \in {"reading", "read"}
Runs(h) == h.pc \notin {"idle", "failed", "done"}

(* A run takes the datasets of its job one after the other, none of them twice, *)
(* and has written rows of those only which are behind it.                      *)
Planned(j, h) ==
  /\ h.offset = h.pages * PageLimit /\ h.pages <= PageCap
  /\ Works(h) => h.todo # << >> /\ Range(h.todo) \subseteq Range(Keys[j]) /\ IsInjective(h.todo)
  /\ \A x \in DOMAIN h.buffer \cup DOMAIN h.read :
       x[1] \in Range(Keys[j]) /\ (Works(h) => x[1] \notin Range(h.todo))

(* What a run holds was published by the dataset it stands under.               *)
HeldWasPublished(h) ==
  /\ \A x \in DOMAIN h.buffer : <<x[1], x[2], h.buffer[x]>> \in everPublished
  /\ Works(h) => \A r \in DOMAIN h.received : <<Head(h.todo), r, h.received[r]>> \in everPublished

IsPublished == \A d \in Datasets : \A r \in DOMAIN published[d] : <<d, r, published[d][r]>> \in everPublished

(* What a run has written leaves no hole that its commit would not account for. *)
HolesOf(h) ==
  \A x \in DOMAIN h.buffer : \A r \in DOMAIN published[x[1]] :
    Week(r) < Week(x[2]) - OverlapWeeks =>
      <<x[1], r>> \in DOMAIN table \cup DOMAIN h.buffer \cup excused \cup h.missed

(* A read begins with the first week, or behind a row of its dataset that is    *)
(* stored; a cold start has no such row, and accounts for what it leaves.       *)
ResumesFrom(h, d, stored) ==
  \/ h.cold \/ h.since <= 1
  \/ \E x \in stored : x[1] = d /\ h.since = Week(x[2]) - OverlapWeeks

Resumes(h) == Works(h) => ResumesFrom(h, Head(h.todo), DOMAIN table \cup DOMAIN h.buffer)

(* The rows of one week lie in one page, if no boundary cuts them: they are met *)
(* together, or all still ahead of the offset.                                  *)
ReadSoFar(h) ==
  Works(h) /\ ~h.moved =>
    /\ h.pc = "reading" => h.there = Matching(Head(h.todo), h.since)
    /\ \A r \in h.there \ (DOMAIN h.received \cup h.withheld) :
         Week(r) \notin Straddling(h.there) =>
           h.pc = "reading" /\ h.offset <= Cardinality({q \in h.there : Week(q) < Week(r)})

(* Of a run that is alone in its datasets, each row written differs from the    *)
(* table, and each row read is what its commit will leave there.                *)
Reports(h) ==
  /\ h.written = Cardinality(DOMAIN h.buffer)
  /\ Runs(h) /\ h.alone =>
       /\ \A x \in DOMAIN h.buffer : Differs(x, h.buffer[x], table)
       /\ \A x \in DOMAIN h.read : ~Differs(x, h.read[x], Overlaid(h.buffer, table))

(* Who is alone shares no dataset with another run under way.                   *)
Alone ==
  \A i, j \in Jobs :
    i # j /\ Runs(run[i]) /\ Runs(run[j]) /\ run[i].alone => Range(Keys[i]) \cap Range(Keys[j]) = {}

Faithful == IsPublished /\ StoredWasPublished /\ \A j \in Jobs : HeldWasPublished(run[j])
Whole == HolesHaveACause /\ \A j \in Jobs : HolesOf(run[j]) /\ Resumes(run[j])
Plans == \A j \in Jobs : Planned(j, run[j])
Reading == \A j \in Jobs : ReadSoFar(run[j])
Reporting == Alone /\ \A j \in Jobs : Reports(run[j])

UsdaInv == Typed /\ Plans /\ Faithful /\ Whole /\ Reading /\ Reporting

-----------------------------------------------------------------------------
(* Places in the order of one request                                           *)

Place(S, r, rank) == Cardinality({q \in S : Precedes(q, r, rank)})
Before(S, w) == Cardinality({q \in S : Week(q) < w})
UpTo(S, w) == Cardinality({q \in S : Week(q) <= w})

(* The order of one request is total on the rows, whatever the server's ranks.  *)
LEMMA PrecedesIsTotal ==
  ASSUME NEW rank \in Ranks
  PROVE  /\ \A q \in Rows : ~Precedes(q, q, rank)
         /\ \A p, q \in Rows : p # q => Precedes(p, q, rank) \/ Precedes(q, p, rank)
         /\ \A p, q, r \in Rows : Precedes(p, q, rank) /\ Precedes(q, r, rank) => Precedes(p, r, rank)
<1>1. \A q \in Rows : q[1] \in Places /\ Week(q) \in Int /\ q = <<q[1], Week(q)>>
  BY UsdaAssumption DEF Rows, Weeks, Week
<1>2. Cardinality(Places) \in Nat
  BY UsdaAssumption, FS_CardinalityType
<1>3. \A p \in Places : rank[p] \in Int
  BY <1>2 DEF Ranks
<1>4. \A p, q \in Places : rank[p] = rank[q] => p = q
  BY DEF Ranks, IsInjective
<1>5. \A q \in Rows : ~Precedes(q, q, rank)
  BY <1>1, <1>3 DEF Precedes
<1>6. \A p, q \in Rows : p # q => Precedes(p, q, rank) \/ Precedes(q, p, rank)
  <2> SUFFICES ASSUME NEW p \in Rows, NEW q \in Rows, p # q
               PROVE  Precedes(p, q, rank) \/ Precedes(q, p, rank)
    OBVIOUS
  <2>1. Week(p) # Week(q) \/ p[1] # q[1]
    BY <1>1
  <2>2. Week(p) # Week(q) \/ rank[p[1]] # rank[q[1]]
    BY <2>1, <1>1, <1>4
  <2>3. Week(p) \in Int /\ Week(q) \in Int /\ rank[p[1]] \in Int /\ rank[q[1]] \in Int
    BY <1>1, <1>3
  <2> QED
    BY <2>2, <2>3 DEF Precedes
<1>7. ASSUME NEW p \in Rows, NEW q \in Rows, NEW r \in Rows,
             Precedes(p, q, rank), Precedes(q, r, rank)
      PROVE  Precedes(p, r, rank)
  <2>1. Week(p) \in Int /\ Week(q) \in Int /\ Week(r) \in Int
    BY <1>1
  <2>2. rank[p[1]] \in Int /\ rank[q[1]] \in Int /\ rank[r[1]] \in Int
    BY <1>1, <1>3
  <2> QED
    BY <1>7, <2>1, <2>2 DEF Precedes
<1> QED
  BY <1>5, <1>6, <1>7

(* The rows that precede a row are fewer than those that precede a later one.   *)
LEMMA PlacesGrow ==
  ASSUME NEW S \in SUBSET Rows, NEW rank \in Ranks, NEW p \in S, NEW q \in S, Precedes(p, q, rank)
  PROVE  /\ Place(S, p, rank) \in Nat /\ Place(S, q, rank) \in Nat
         /\ Place(S, p, rank) < Place(S, q, rank)
<1> DEFINE P == {x \in S : Precedes(x, p, rank)}
           Q == {x \in S : Precedes(x, q, rank)}
<1>1. P \in SUBSET Rows /\ Q \in SUBSET Rows /\ P \subseteq Q
  BY PrecedesIsTotal
<1>2. p \in Q /\ p \notin P
  BY PrecedesIsTotal
<1>3. IsFiniteSet(Q) /\ Cardinality(P) \in Nat /\ Cardinality(Q) \in Nat
  BY <1>1, RowsAreFinite
<1>4. Cardinality(P) <= Cardinality(Q) /\ Cardinality(P) # Cardinality(Q)
  BY <1>1, <1>2, <1>3, FS_Subset
<1> QED
  BY <1>3, <1>4 DEF Place

(* A page that begins behind no row's place, or at it, has the row of its first *)
(* place: the places of one request have no gaps.                               *)
LEMMA PlacesHaveNoGaps ==
  ASSUME NEW S \in SUBSET Rows, NEW rank \in Ranks, NEW n \in Nat,
         NEW r \in S, n <= Place(S, r, rank)
  PROVE  \E q \in S : Place(S, q, rank) = n
<1> DEFINE T == {q \in S : n <= Place(S, q, rank)}
           N == {Place(S, q, rank) : q \in T}
<1>0. \A q \in S : Place(S, q, rank) \in Nat
  BY RowsAreFinite DEF Place
<1>1. N \subseteq Nat /\ N # {}
  BY <1>0
<1>2. PICK m \in N : \A y \in N : ~(<<y, m>> \in OpToRel(<, Nat))
  BY <1>1, NatLessThanWellFounded, WFMin
<1>3. \A y \in N : ~(y < m)
  BY <1>1, <1>2 DEF OpToRel
<1>4. PICK q \in T : m = Place(S, q, rank)
  BY <1>2
<1>5. m \in Nat /\ n <= m
  BY <1>0, <1>4
<1>6. CASE m = n
  BY <1>4, <1>6
<1>7. CASE m > n
  <2> DEFINE P == {x \in S : Precedes(x, q, rank)}
             M == {Place(S, x, rank) : x \in P}
  <2>1. IsFiniteSet(P) /\ Cardinality(P) = m /\ P # {}
    <3>1. P \in SUBSET Rows
      OBVIOUS
    <3>2. IsFiniteSet(P) /\ Cardinality(P) = m
      BY <3>1, <1>4, RowsAreFinite DEF Place
    <3> QED
      BY <3>2, <1>5, <1>7, FS_EmptySet
  <2>2. \A x \in P : Place(S, x, rank) < m
    BY <1>4, PlacesGrow
  <2>3. \A x \in P : Place(S, x, rank) < n
    <3> SUFFICES ASSUME NEW x \in P, ~(Place(S, x, rank) < n) PROVE FALSE
      OBVIOUS
    <3>1. x \in T
      BY <1>0
    <3> QED
      BY <3>1, <1>3, <2>2
  <2>4. M \in SUBSET (0..n) /\ M # {}
    <3>1. \A x \in P : Place(S, x, rank) \in 0..n
      BY <2>3, <1>0
    <3> QED
      BY <3>1, <2>1
  <2>5. Max(M) \in M /\ \A x \in M : x <= Max(M)
    BY <2>4, MaxIs
  <2>6. PICK p \in P : Place(S, p, rank) = Max(M)
    BY <2>5
  <2>7. P \ {p} \subseteq {x \in S : Precedes(x, p, rank)}
    <3> SUFFICES ASSUME NEW x \in P, x # p, ~Precedes(x, p, rank) PROVE FALSE
      OBVIOUS
    <3>1. Precedes(p, x, rank)
      BY PrecedesIsTotal
    <3>2. Place(S, p, rank) < Place(S, x, rank)
      BY <3>1, PlacesGrow
    <3>3. Place(S, x, rank) <= Max(M)
      BY <2>5
    <3> QED
      BY <3>2, <3>3, <2>6, <1>0
  <2>8. Cardinality(P \ {p}) = m - 1
    BY <2>1, FS_RemoveElement
  <2>9. Cardinality(P \ {p}) <= Place(S, p, rank)
    <3>1. IsFiniteSet({x \in S : Precedes(x, p, rank)})
      BY RowsAreFinite
    <3> QED
      BY <3>1, <2>7, FS_Subset DEF Place
  <2> QED
    BY <2>3, <2>8, <2>9, <1>0, <1>5, <1>7
<1> QED
  BY <1>5, <1>6, <1>7

(* A row comes after those of the weeks before it, and with those of its own.   *)
LEMMA PlaceInTheWeek ==
  ASSUME NEW S \in SUBSET Rows, NEW rank \in Ranks, NEW r \in S
  PROVE  /\ Before(S, Week(r)) \in Nat /\ UpTo(S, Week(r)) \in Nat /\ Place(S, r, rank) \in Nat
         /\ Before(S, Week(r)) <= Place(S, r, rank) /\ Place(S, r, rank) < UpTo(S, Week(r))
<1> DEFINE B == {q \in S : Week(q) < Week(r)}
           P == {q \in S : Precedes(q, r, rank)}
           U == {q \in S : Week(q) <= Week(r)}
<1>1. \A q \in Rows : Week(q) \in Int
  BY UsdaAssumption, WeekOfRow
<1>2. B \subseteq P
  BY DEF Precedes
<1>3. P \subseteq U /\ r \in U /\ r \notin P
  BY <1>1, PrecedesIsTotal DEF Precedes
<1>4. IsFiniteSet(P) /\ IsFiniteSet(U)
  BY RowsAreFinite
<1>5. Cardinality(B) \in Nat /\ Cardinality(P) \in Nat /\ Cardinality(U) \in Nat
  BY RowsAreFinite
<1>6. Cardinality(B) <= Cardinality(P)
  BY <1>2, <1>4, FS_Subset
<1>7. Cardinality(P) <= Cardinality(U) /\ Cardinality(P) # Cardinality(U)
  BY <1>3, <1>4, FS_Subset
<1> QED
  BY <1>5, <1>6, <1>7 DEF Before, UpTo, Place

(* The page meets a week that no boundary cuts whole, or comes before all of it. *)
LEMMA PageMeetsTheWeek ==
  ASSUME NEW S \in SUBSET Rows, NEW rank \in Ranks, NEW r \in S,
         NEW pages \in Nat, pages < PageCap,
         Week(r) \notin Straddling(S), pages * PageLimit <= Before(S, Week(r))
  PROVE  \/ /\ pages * PageLimit <= Place(S, r, rank)
            /\ Place(S, r, rank) < pages * PageLimit + PageLimit
         \/ pages * PageLimit + PageLimit <= Before(S, Week(r))
<1>1. Week(r) \in Weeks /\ pages + 1 \in 1..PageCap /\ PageLimit \in Nat /\ PageCap \in Nat
  BY UsdaAssumption, WeekOfRow DEF Weeks
<1>2. (pages + 1) * PageLimit = pages * PageLimit + PageLimit /\ pages * PageLimit \in Nat
  BY <1>1
<1>3. ~(Before(S, Week(r)) < (pages + 1) * PageLimit /\ (pages + 1) * PageLimit < UpTo(S, Week(r)))
  BY <1>1 DEF Straddling, Before, UpTo
<1>4. /\ Before(S, Week(r)) \in Nat /\ UpTo(S, Week(r)) \in Nat /\ Place(S, r, rank) \in Nat
      /\ Before(S, Week(r)) <= Place(S, r, rank) /\ Place(S, r, rank) < UpTo(S, Week(r))
  BY PlaceInTheWeek
<1> QED
  BY <1>1, <1>2, <1>3, <1>4

-----------------------------------------------------------------------------
(* Datasets and runs                                                            *)

(* What a job reads is a list of datasets without repetition.                   *)
LEMMA KeysAre ==
  ASSUME NEW j \in Jobs
  PROVE  Keys[j] \in Seq(Datasets) /\ Keys[j] # << >> /\ IsInjective(Keys[j])
BY UsdaAssumption

(* A job reads finitely many datasets.                                          *)
LEMMA RangeIsFinite ==
  ASSUME NEW s \in Seq(Datasets)
  PROVE  IsFiniteSet(Range(s))
<1>1. DOMAIN s = 1..Len(s) /\ Len(s) \in Nat
  OBVIOUS
<1>2. s \in [1..Len(s) -> Range(s)] /\ \A t \in Range(s) : \E i \in 1..Len(s) : s[i] = t
  BY <1>1 DEF Range
<1>3. s \in Surjection(1..Len(s), Range(s))
  BY <1>2 DEF Surjection
<1>4. IsFiniteSet(1..Len(s))
  BY <1>1, FS_Interval
<1> QED
  BY <1>3, <1>4, FS_Surjection

(* The dataset in hand is none of those that follow it.                         *)
LEMMA HeadIsNotInTail ==
  ASSUME NEW todo \in Seq(Datasets), todo # << >>, IsInjective(todo)
  PROVE  /\ Head(todo) \in Datasets /\ Head(todo) \in Range(todo)
         /\ Tail(todo) \in Seq(Datasets) /\ IsInjective(Tail(todo))
         /\ Range(Tail(todo)) \subseteq Range(todo) \ {Head(todo)}
<1>1. Len(todo) \in Nat /\ Len(todo) >= 1 /\ DOMAIN todo = 1..Len(todo) /\ Head(todo) = todo[1]
  OBVIOUS
<1>2. /\ Head(todo) \in Datasets /\ Tail(todo) \in Seq(Datasets) /\ Len(Tail(todo)) = Len(todo) - 1
      /\ \A i \in 1..Len(Tail(todo)) : Tail(todo)[i] = todo[i + 1]
  BY HeadTailProperties
<1>3. DOMAIN Tail(todo) = 1..Len(todo) - 1
  BY <1>2
<1>4. \A i \in DOMAIN Tail(todo) : i + 1 \in DOMAIN todo /\ i + 1 # 1 /\ Tail(todo)[i] = todo[i + 1]
  BY <1>1, <1>2, <1>3
<1>5. IsInjective(Tail(todo))
  BY <1>3, <1>4 DEF IsInjective
<1>6. Range(Tail(todo)) \subseteq Range(todo) \ {Head(todo)}
  BY <1>1, <1>4 DEF IsInjective, Range
<1> QED
  BY <1>1, <1>2, <1>5, <1>6 DEF Range

(* Each field of a run has its kind.                                            *)
LEMMA RunIs ==
  ASSUME Typed, NEW j \in Jobs
  PROVE  run[j] \in RunSet
BY DEF Typed

(* What the publisher holds of a dataset are some of its rows.                  *)
LEMMA PublishedIs ==
  ASSUME Typed, NEW d \in Datasets
  PROVE  published[d] \in Partial(Rows) /\ DOMAIN published[d] \in SUBSET Rows
<1>1. published[d] \in Partial(Rows)
  BY DEF Typed
<1> QED
  BY <1>1, PartialIs

(* A stopped run is a run.                                                      *)
LEMMA StoppedRun ==
  ASSUME NEW p \in Pcs
  PROVE  [Idle EXCEPT !.pc = p] \in RunSet
<1> DEFINE nothing == << >>
<1>1. /\ nothing \in Partial(Rows) /\ nothing \in Partial(Datasets \X Rows)
      /\ nothing \in Seq(Datasets)
  BY NothingHeld
<1>2. Idle = [pc |-> "idle", todo |-> nothing, since |-> 0, offset |-> 0, pages |-> 0,
         received |-> nothing, there |-> {}, withheld |-> {}, missed |-> {}, cold |-> FALSE, moved |-> FALSE,
         read |-> nothing, buffer |-> nothing, written |-> 0, alone |-> TRUE]
  BY DEF Idle
<1> HIDE DEF nothing
<1>3. "idle" \in Pcs
  BY DEF Pcs
<1>4. Idle \in RunSet
  BY <1>1, <1>2, <1>3 DEF RunSet
<1>5. [Idle EXCEPT !.pc = p] \in RunSet
  BY <1>4 DEF RunSet
<1> QED
  BY <1>5

(* A stopped run holds nothing, of which nothing can be wrong.                  *)
LEMMA StoppedIs ==
  ASSUME NEW j \in Jobs, NEW pc \in {"idle", "failed", "done", "written"}, NEW h,
         h = [Idle EXCEPT !.pc = pc]
  PROVE  /\ h \in RunSet /\ h.pc = pc /\ ~Works(h) /\ h.buffer = << >> /\ h.read = << >>
         /\ h.pages = 0 /\ h.offset = 0 /\ h.written = 0
         /\ Planned(j, h) /\ HeldWasPublished(h) /\ HolesOf(h) /\ Resumes(h) /\ ReadSoFar(h) /\ Reports(h)
<1>1. DOMAIN << >> = {}
  OBVIOUS
<1>2. << >> \in Partial(Rows) /\ << >> \in Partial(Datasets \X Rows) /\ << >> \in Seq(Datasets)
  BY NothingHeld
<1>3. h \in RunSet
  BY StoppedRun DEF Pcs
<1>4. /\ h.pc = pc /\ h.buffer = << >> /\ h.read = << >> /\ h.pages = 0 /\ h.offset = 0
      /\ h.written = 0
  BY DEF Idle
<1>5. ~Works(h)
  BY <1>4 DEF Works
<1>6. DOMAIN h.buffer = {} /\ DOMAIN h.read = {}
  BY <1>1, <1>4
<1>7. Planned(j, h)
  BY <1>4, <1>5, <1>6, UsdaAssumption DEF Planned
<1>8. HeldWasPublished(h) /\ HolesOf(h) /\ Resumes(h) /\ ReadSoFar(h)
  BY <1>5, <1>6 DEF HeldWasPublished, HolesOf, Resumes, ReadSoFar
<1>9. Reports(h)
  BY <1>4, <1>6, FS_EmptySet DEF Reports
<1> QED
  BY <1>3, <1>4, <1>5, <1>7, <1>8, <1>9

(* The newest week of a dataset is one of its rows' weeks.                      *)
LEMMA NewestIs ==
  ASSUME NEW d, NEW view \in Partial(Datasets \X Rows), Newest(d, view) # {}
  PROVE  Max(Newest(d, view)) \in Int
         /\ \E x \in DOMAIN view : x[1] = d /\ Max(Newest(d, view)) = Week(x[2])
<1>1. DOMAIN view \subseteq Datasets \X Rows
  BY PartialIs
<1>2. \A x \in DOMAIN view : Week(x[2]) \in 0..MaxWeek
  BY <1>1, WeekOfRow, UsdaAssumption
<1>3. MaxWeek \in Nat /\ Newest(d, view) \in SUBSET (0..MaxWeek)
  BY <1>2, UsdaAssumption DEF Newest
<1>4. Max(Newest(d, view)) \in Newest(d, view)
  BY <1>3, MaxIs
<1> QED
  BY <1>3, <1>4 DEF Newest

(* A run that turns to a dataset has read nothing of it; it starts where the    *)
(* rows it sees, the table's and its own, say.                                  *)
LEMMA ReadyIs ==
  ASSUME Typed, NEW j \in Jobs, NEW todo \in Seq(Datasets), todo # << >>,
         NEW view \in Partial(Datasets \X Rows)
  PROVE  LET h == Ready(j, todo, view)
         IN /\ h \in RunSet
            /\ h.pc = "reading" /\ h.todo = todo /\ h.offset = 0 /\ h.pages = 0
            /\ h.received = << >> /\ h.there = Matching(Head(todo), h.since)
            /\ ResumesFrom(h, Head(todo), DOMAIN view)
            /\ h.buffer = << >> /\ h.read = << >> /\ h.written = 0
<1> DEFINE h == Ready(j, todo, view)
           d == Head(todo)
           since == Since(j, d, view)
<1>1. h = [Idle EXCEPT !.pc = "reading", !.todo = todo, !.since = since,
                       !.cold = Cold(j, d, view), !.there = Matching(d, since)]
  BY DEF Ready
<1>2. /\ h.pc = "reading" /\ h.todo = todo /\ h.offset = 0 /\ h.pages = 0
      /\ h.received = << >> /\ h.since = since
      /\ h.cold = Cold(j, d, view) /\ h.there = Matching(d, since)
      /\ h.buffer = << >> /\ h.read = << >> /\ h.written = 0
  BY <1>1 DEF Idle
<1>3. d \in Datasets
  BY HeadTailProperties
<1>4. Matching(d, since) \in SUBSET Rows
  BY <1>3, PublishedIs DEF Matching
<1>5. /\ since \in Int
      /\ \/ Cold(j, d, view) \/ since <= 1
         \/ \E x \in DOMAIN view : x[1] = d /\ since = Week(x[2]) - OverlapWeeks
  <2>1. CASE j \in Backfills
    BY <2>1 DEF Since, Cold
  <2>2. CASE j \notin Backfills /\ Cold(j, d, view)
    BY <2>2, UsdaAssumption DEF Since
  <2>3. CASE j \notin Backfills /\ ~Cold(j, d, view)
    <3> HIDE DEF d, since
    <3>1. Newest(d, view) # {} /\ since = Max(Newest(d, view)) - OverlapWeeks
      BY <2>3 DEF Since, Cold, since
    <3>2. Max(Newest(d, view)) \in Int
      BY <3>1, NewestIs
    <3>3. PICK x \in DOMAIN view : x[1] = d /\ Max(Newest(d, view)) = Week(x[2])
      BY <3>1, NewestIs
    <3>4. since \in Int
      BY <3>1, <3>2, UsdaAssumption
    <3>5. since = Week(x[2]) - OverlapWeeks
      BY <3>1, <3>3
    <3> QED
      BY <3>3, <3>4, <3>5
  <2> QED
    BY <2>1, <2>2, <2>3
<1>6. Cold(j, d, view) \in BOOLEAN
  BY DEF Cold
<1>7. << >> \in Partial(Rows) /\ << >> \in Partial(Datasets \X Rows)
  BY NothingHeld
<1>8. h \in RunSet
  <2> DEFINE nothing == << >>
             cold == Cold(j, d, view)
             there == Matching(d, since)
  <2>1. h = [pc |-> "reading", todo |-> todo, since |-> since, offset |-> 0, pages |-> 0,
             received |-> nothing, there |-> there, withheld |-> {}, missed |-> {},
             cold |-> cold, moved |-> FALSE,
             read |-> nothing, buffer |-> nothing, written |-> 0, alone |-> TRUE]
    BY <1>1, ZenonT(60) DEF Idle
  <2>2. nothing \in Partial(Rows) /\ nothing \in Partial(Datasets \X Rows)
    BY <1>7
  <2>3. cold \in BOOLEAN
    BY <1>6
  <2>4. there \in SUBSET Rows
    BY <1>4
  <2>5. "reading" \in Pcs
    BY DEF Pcs
  <2> HIDE DEF d, since, nothing, cold, there
  <2> QED
    BY <2>1, <2>2, <2>3, <2>4, <2>5, <1>5 DEF RunSet
<1>9. ResumesFrom(h, d, DOMAIN view)
  BY <1>2, <1>5 DEF ResumesFrom
<1> QED
  BY <1>2, <1>8, <1>9

-----------------------------------------------------------------------------
(* Steps of one run                                                             *)

Others == <<published, everPublished, table, changes, started, excused>>

(* What has to be shown of the run that moves, where nothing else does.         *)
Fits(j, h) ==
  /\ h \in RunSet /\ (Runs(h) => Runs(run[j])) /\ (Runs(h) /\ h.alone => run[j].alone)
  /\ Planned(j, h) /\ HeldWasPublished(h) /\ HolesOf(h) /\ Resumes(h) /\ ReadSoFar(h) /\ Reports(h)

LEMMA OneRunMoves ==
  ASSUME UsdaInv, NEW j \in Jobs, NEW h, run' = [run EXCEPT ![j] = h], UNCHANGED Others, Fits(j, h)
  PROVE  UsdaInv'
<1>0. /\ published' = published /\ everPublished' = everPublished /\ table' = table
      /\ changes' = changes /\ started' = started /\ excused' = excused
  BY DEF Others
<1>1. run \in [Jobs -> RunSet] /\ h \in RunSet
  BY DEF UsdaInv, Typed, Fits
<1>2. run'[j] = h /\ \A i \in Jobs \ {j} : run'[i] = run[i]
  BY <1>1
<1>3. Typed'
  BY <1>0, <1>1 DEF UsdaInv, Typed
<1>4. Plans'
  <2>1. \A i \in Jobs : Planned(i, run'[i])
    BY <1>2 DEF UsdaInv, Plans, Fits
  <2> QED
    BY <2>1 DEF Plans, Planned
<1>5. Faithful'
  <2>1. \A i \in Jobs : HeldWasPublished(run'[i])
    BY <1>2 DEF UsdaInv, Faithful, Fits
  <2>2. IsPublished /\ StoredWasPublished
    BY DEF UsdaInv, Faithful
  <2>3. IsPublished' /\ StoredWasPublished'
    BY <2>2, <1>0 DEF IsPublished, StoredWasPublished
  <2> QED
    BY <2>1, <2>3, <1>0 DEF Faithful, HeldWasPublished
<1>6. Whole'
  <2>1. \A i \in Jobs : HolesOf(run'[i]) /\ Resumes(run'[i])
    BY <1>2 DEF UsdaInv, Whole, Fits
  <2>2. HolesHaveACause
    BY DEF UsdaInv, Whole
  <2>3. HolesHaveACause'
    BY <2>2, <1>0 DEF HolesHaveACause, Stored
  <2>4. \A i \in Jobs : HolesOf(run[i])' /\ Resumes(run[i])'
    BY <2>1, <1>0 DEF HolesOf, Resumes, ResumesFrom
  <2> QED
    BY <2>3, <2>4 DEF Whole
<1>7. Reading'
  <2>1. \A i \in Jobs : ReadSoFar(run'[i])
    BY <1>2 DEF UsdaInv, Reading, Fits
  <2>2. \A i \in Jobs : ReadSoFar(run[i])'
    BY <2>1, <1>0 DEF ReadSoFar, Matching
  <2> QED
    BY <2>2 DEF Reading
<1>8. Reporting'
  <2>1. \A i \in Jobs : Reports(run'[i])
    BY <1>2 DEF UsdaInv, Reporting, Fits
  <2>2. \A i \in Jobs : Reports(run[i])'
    BY <2>1, <1>0 DEF Reports
  <2>3. \A i \in Jobs : /\ Runs(run'[i]) => Runs(run[i])
                        /\ Runs(run'[i]) /\ run'[i].alone => run[i].alone
    BY <1>2 DEF Fits
  <2>4. Alone'
    BY <2>3 DEF UsdaInv, Reporting, Alone
  <2> QED
    BY <2>2, <2>4 DEF Reporting
<1> QED
  BY <1>3, <1>4, <1>5, <1>6, <1>7, <1>8 DEF UsdaInv

(* A run that fails, at whatever point.                                         *)
LEMMA FailKeeps ==
  ASSUME UsdaInv, NEW j \in Jobs, Fail(j), UNCHANGED Others
  PROVE  UsdaInv'
<1> DEFINE h == [Idle EXCEPT !.pc = "failed"]
<1>1. /\ h \in RunSet /\ h.pc = "failed" /\ Planned(j, h) /\ HeldWasPublished(h)
      /\ HolesOf(h) /\ Resumes(h) /\ ReadSoFar(h) /\ Reports(h)
  BY StoppedIs
<1>2. ~Runs(h)
  BY <1>1 DEF Runs
<1>3. Fits(j, h)
  BY <1>1, <1>2 DEF Fits
<1>4. run' = [run EXCEPT ![j] = h]
  BY DEF Fail
<1> HIDE DEF h
<1> QED
  BY <1>3, <1>4, OneRunMoves

(* One page: the run keeps its rows, and what a short page withheld is noted.   *)
LEMMA PageKeeps ==
  ASSUME UsdaInv, NEW j \in Jobs, Page(j)
  PROVE  UsdaInv'
<1> DEFINE g == run[j]
           d == Key(j)
<1>1. g \in RunSet /\ g.pc = "reading" /\ g.pages < PageCap /\ Works(g) /\ Runs(g)
  BY RunIs DEF UsdaInv, Page, Works, Runs
<1>2. PICK rank \in Ranks : \E page \in Pages(Window(d, g.since, g.offset, rank)) :
            run' = [run EXCEPT ![j].pc = IF Ends(page) THEN "read" ELSE @,
                               ![j].received = Kept(@, page, d),
                               ![j].withheld = @ \cup (Window(d, g.since, g.offset, rank) \ page),
                               ![j].offset = @ + Advance(page), ![j].pages = @ + 1]
  BY DEF Page
<1> DEFINE window == Window(d, g.since, g.offset, rank)
<1>3. PICK page \in Pages(window) :
            run' = [run EXCEPT ![j].pc = IF Ends(page) THEN "read" ELSE @,
                               ![j].received = Kept(@, page, d),
                               ![j].withheld = @ \cup (window \ page),
                               ![j].offset = @ + Advance(page), ![j].pages = @ + 1]
  BY <1>2
<1> DEFINE h == [g EXCEPT !.pc = IF Ends(page) THEN "read" ELSE @,
                          !.received = Kept(@, page, d),
                          !.withheld = @ \cup (window \ page),
                          !.offset = @ + Advance(page), !.pages = @ + 1]
<1>4. run' = [run EXCEPT ![j] = h]
  BY <1>3, RunIs DEF UsdaInv, Typed
<1>5. UNCHANGED Others
  BY DEF Page, Others
<1>6. Planned(j, g) /\ HeldWasPublished(g) /\ HolesOf(g) /\ Resumes(g) /\ ReadSoFar(g) /\ Reports(g)
  BY DEF UsdaInv, Plans, Faithful, Whole, Reading, Reporting
<1>7. g.todo \in Seq(Datasets) /\ g.todo # << >> /\ d = Head(g.todo) /\ d \in Datasets
  BY <1>1, <1>6, HeadTailProperties DEF Planned, Key, RunSet
<1>8. /\ window \in SUBSET Rows /\ window \subseteq DOMAIN published[d] /\ page \subseteq window
      /\ (page = {} => window = {})
  <2>1. DOMAIN published[d] \in SUBSET Rows
    BY <1>7, PublishedIs DEF UsdaInv
  <2>2. window \subseteq DOMAIN published[d]
    BY DEF Window, Matching
  <2>3. page \subseteq window /\ (page = {} => window = {})
    <3> HIDE DEF window
    <3>1. CASE window = {}
      <4>1. Pages(window) = {{}}
        BY <3>1 DEF Pages
      <4> QED
        BY <4>1, <3>1
    <3>2. CASE window # {}
      <4>1. Pages(window) = (SUBSET window) \ {{}}
        BY <3>2 DEF Pages
      <4> QED
        BY <4>1, <3>2
    <3> QED
      BY <3>1, <3>2
  <2> QED
    BY <2>1, <2>2, <2>3
<1>9. /\ h.pc \in {"reading", "read"} /\ (h.pc = "read" <=> page = {}) /\ h.received = Kept(g.received, page, d)
      /\ h.withheld = g.withheld \cup (window \ page)
      /\ h.offset = g.offset + PageLimit /\ h.pages = g.pages + 1
      /\ h.todo = g.todo /\ h.since = g.since /\ h.there = g.there /\ h.missed = g.missed
      /\ h.cold = g.cold /\ h.moved = g.moved /\ h.read = g.read /\ h.buffer = g.buffer
      /\ h.written = g.written /\ h.alone = g.alone
  <2> HIDE DEF g, d, window
  <2> QED
    BY <1>1 DEF RunSet, Ends, Advance
<1>10. /\ DOMAIN h.received = DOMAIN g.received \cup page
       /\ \A r \in page : h.received[r] = published[d][r]
       /\ \A r \in DOMAIN g.received \ page : h.received[r] = g.received[r]
       /\ h.received \in Partial(Rows)
  <2> DEFINE k == Kept(g.received, page, d)
  <2>1. /\ DOMAIN k = DOMAIN g.received \cup page
        /\ \A r \in page : k[r] = published[d][r]
        /\ \A r \in DOMAIN g.received \ page : k[r] = g.received[r]
        /\ k = [r \in DOMAIN k |-> k[r]]
    BY DEF Kept
  <2>2. g.received \in Partial(Rows) /\ published[d] \in Partial(Rows)
    BY <1>1, <1>7, PublishedIs DEF RunSet, UsdaInv
  <2>3. DOMAIN k \subseteq Rows
    BY <1>8, <2>1, <2>2, PartialIs
  <2>4. \A r \in DOMAIN k : k[r] \in Measures
    BY <1>8, <2>1, <2>2, PartialIs
  <2>5. k \in Partial(Rows)
    BY <2>1, <2>3, <2>4, PartialIs
  <2> QED
    BY <2>1, <2>5, <1>9
<1>11. h \in RunSet
  <2>1. g.withheld \cup (window \ page) \in SUBSET Rows
    BY <1>1, <1>8 DEF RunSet
  <2>2. g.offset + PageLimit \in Nat /\ g.pages + 1 \in Nat
    <3> HIDE DEF g
    <3>1. g.offset \in Nat /\ g.pages \in Nat /\ PageLimit \in Nat
      BY <1>1, UsdaAssumption DEF RunSet
    <3> QED
      BY <3>1
  <2>3. Kept(g.received, page, d) \in Partial(Rows)
    BY <1>9, <1>10
  <2>4. "read" \in Pcs
    BY DEF Pcs
  <2> HIDE DEF g, d, window
  <2> QED
    BY <1>1, <2>1, <2>2, <2>3, <2>4 DEF RunSet, Advance
<1> HIDE DEF h, g, d, window
<1>12. Works(h) /\ Runs(h)
  BY <1>9 DEF Works, Runs
<1>13. Planned(j, h)
  <2>1. g.pages \in Nat /\ g.offset = g.pages * PageLimit /\ PageLimit \in Nat /\ PageCap \in Nat
    BY <1>1, <1>6, UsdaAssumption DEF Planned, RunSet
  <2>2. h.offset = h.pages * PageLimit /\ h.pages <= PageCap
    BY <2>1, <1>1, <1>9
  <2> QED
    BY <2>2, <1>1, <1>6, <1>9, <1>12 DEF Planned
<1>14. HeldWasPublished(h)
  <2>1. \A r \in DOMAIN h.received : <<Head(h.todo), r, h.received[r]>> \in everPublished
    <3> SUFFICES ASSUME NEW r \in DOMAIN h.received
                 PROVE  <<d, r, h.received[r]>> \in everPublished
      BY <1>7, <1>9
    <3>1. CASE r \in page
      BY <3>1, <1>7, <1>8, <1>10 DEF UsdaInv, Faithful, IsPublished
    <3>2. CASE r \notin page
      BY <3>2, <1>1, <1>6, <1>7, <1>10 DEF HeldWasPublished
    <3> QED
      BY <3>1, <3>2
  <2> QED
    BY <2>1, <1>6, <1>9 DEF HeldWasPublished
<1>15. HolesOf(h) /\ Resumes(h)
  BY <1>1, <1>6, <1>9 DEF HolesOf, Resumes, ResumesFrom
<1>16. Reports(h)
  BY <1>1, <1>6, <1>9 DEF Reports
<1>17. ReadSoFar(h)
  <2> SUFFICES ASSUME ~h.moved PROVE ReadSoFar(h)
    BY DEF ReadSoFar
  <2>1. g.there = Matching(d, g.since)
    BY <1>1, <1>6, <1>7, <1>9 DEF ReadSoFar
  <2>2. h.there = Matching(Head(h.todo), h.since)
    BY <2>1, <1>7, <1>9
  <2>3. window = {r \in g.there : g.offset <= Place(g.there, r, rank)
                                    /\ Place(g.there, r, rank) < g.offset + PageLimit}
    BY <2>1 DEF Window, Place, window
  <2>4. g.there \in SUBSET Rows
    BY <1>1 DEF RunSet
  <2>5. /\ g.pages \in Nat /\ g.offset = g.pages * PageLimit /\ g.offset \in Nat
        /\ PageLimit \in Nat \ {0}
    BY <1>1, <1>6, UsdaAssumption DEF RunSet, Planned
  <2>6. ASSUME NEW r \in h.there \ (DOMAIN h.received \cup h.withheld),
               Week(r) \notin Straddling(h.there)
        PROVE  h.pc = "reading" /\ h.offset <= Before(h.there, Week(r))
    <3>1. r \in g.there /\ r \notin DOMAIN g.received /\ r \notin g.withheld /\ r \notin window
      BY <2>6, <1>9, <1>10
    <3>2. g.offset <= Before(g.there, Week(r))
      BY <3>1, <2>6, <1>1, <1>6, <1>9 DEF ReadSoFar, Before
    <3>3. \/ g.offset <= Place(g.there, r, rank) /\ Place(g.there, r, rank) < g.offset + PageLimit
          \/ g.offset + PageLimit <= Before(g.there, Week(r))
      BY <3>1, <3>2, <2>4, <2>5, <2>6, <1>1, <1>9, PageMeetsTheWeek
    <3>4. g.offset + PageLimit <= Before(g.there, Week(r))
      BY <3>1, <3>3, <2>3
    <3>5. window # {}
      <4>1. /\ Before(g.there, Week(r)) \in Nat /\ Place(g.there, r, rank) \in Nat
            /\ Before(g.there, Week(r)) <= Place(g.there, r, rank)
        BY <3>1, <2>4, PlaceInTheWeek
      <4>2. g.offset <= Place(g.there, r, rank)
        BY <4>1, <3>4, <2>5
      <4>3. PICK q \in g.there : Place(g.there, q, rank) = g.offset
        BY <4>2, <3>1, <2>4, <2>5, PlacesHaveNoGaps
      <4>4. q \in window
        BY <4>3, <2>3, <2>5
      <4> QED
        BY <4>4
    <3>6. h.pc = "reading"
      BY <3>5, <1>8, <1>9
    <3> QED
      BY <3>4, <3>6, <1>9
  <2> QED
    BY <2>2, <2>6 DEF ReadSoFar, Before
<1>18. Fits(j, h)
  BY <1>1, <1>9, <1>11, <1>12, <1>13, <1>14, <1>15, <1>16, <1>17 DEF Fits, g
<1> QED
  BY <1>4, <1>5, <1>18, OneRunMoves

(* A transaction sees its own rows over those of the table.                     *)
LEMMA ViewIs ==
  ASSUME Typed, NEW b \in Partial(Datasets \X Rows)
  PROVE  /\ table \in Partial(Datasets \X Rows)
         /\ Overlaid(b, table) \in Partial(Datasets \X Rows)
         /\ DOMAIN Overlaid(b, table) = DOMAIN b \cup DOMAIN table
         /\ \A x \in DOMAIN b : Overlaid(b, table)[x] = b[x]
         /\ \A x \in DOMAIN table \ DOMAIN b : Overlaid(b, table)[x] = table[x]
<1>1. table \in Partial(Datasets \X Rows)
  BY DEF Typed
<1> QED
  BY <1>1, OverlaidIs

(* The run that follows an upsert: it turns to its next dataset, of which it has *)
(* read nothing, or has no more.                                                *)
LEMMA NextDatasetIs ==
  ASSUME Typed, NEW j \in Jobs, run[j].todo \in Seq(Datasets), run[j].todo # << >>,
         NEW buffer \in Partial(Datasets \X Rows)
  PROVE  LET h == NextDataset(j, buffer)
         IN /\ h \in RunSet /\ h.offset = 0 /\ h.pages = 0 /\ Runs(h)
            /\ Works(h) =>
                 /\ h.pc = "reading" /\ h.todo # << >> /\ h.todo = Tail(run[j].todo)
                 /\ h.received = << >> /\ h.there = Matching(Head(h.todo), h.since)
                 /\ ResumesFrom(h, Head(h.todo), DOMAIN buffer \cup DOMAIN table)
<1> DEFINE h == NextDataset(j, buffer)
           rest == Tail(run[j].todo)
           view == Overlaid(buffer, table)
<1>1. rest \in Seq(Datasets)
  BY HeadTailProperties
<1>2. CASE rest = << >>
  <2>1. h = [Idle EXCEPT !.pc = "written"]
    BY <1>2 DEF NextDataset
  <2>2. h \in RunSet /\ h.pc = "written" /\ h.pages = 0 /\ h.offset = 0 /\ ~Works(h)
    BY <2>1, StoppedIs
  <2> HIDE DEF h
  <2>3. Runs(h)
    BY <2>2 DEF Runs
  <2> QED
    BY <2>2, <2>3 DEF h
<1>3. CASE rest # << >>
  <2> DEFINE k == Ready(j, rest, view)
  <2>1. h = k
    BY <1>3 DEF NextDataset
  <2>2. view \in Partial(Datasets \X Rows) /\ DOMAIN view = DOMAIN buffer \cup DOMAIN table
    BY ViewIs
  <2> HIDE DEF rest, view, h
  <2>3. /\ k \in RunSet
        /\ k.pc = "reading" /\ k.todo = rest /\ k.offset = 0 /\ k.pages = 0
        /\ k.received = << >> /\ k.there = Matching(Head(rest), k.since)
        /\ ResumesFrom(k, Head(rest), DOMAIN view)
    BY <2>2, <1>1, <1>3, ReadyIs, ZenonT(60)
  <2> HIDE DEF k
  <2>4. Runs(k)
    BY <2>3 DEF Runs
  <2> QED
    BY <2>1, <2>2, <2>3, <2>4, <1>3 DEF rest, h
<1> QED
  BY <1>2, <1>3

(* The rows of one dataset that are read, under the name of the dataset.        *)
Spread(X, received) == [x \in X |-> received[x[2]]]

LEMMA SpreadIs ==
  ASSUME NEW d \in Datasets, NEW received \in Partial(Rows),
         NEW X \in SUBSET ({d} \X DOMAIN received)
  PROVE  LET new == Spread(X, received)
         IN /\ new \in Partial(Datasets \X Rows) /\ DOMAIN new = X
            /\ \A x \in X : new[x] = received[x[2]]
<1> DEFINE new == Spread(X, received)
<1>1. DOMAIN received \in SUBSET Rows /\ \A r \in DOMAIN received : received[r] \in Measures
  BY PartialIs
<1>2. \A x \in X : x \in Datasets \X Rows /\ received[x[2]] \in Measures
  BY <1>1
<1>3. new = [x \in DOMAIN new |-> new[x]] /\ DOMAIN new = X /\ \A x \in X : new[x] = received[x[2]]
  BY DEF Spread
<1>4. DOMAIN new \subseteq Datasets \X Rows /\ \A x \in DOMAIN new : new[x] \in Measures
  BY <1>2, <1>3
<1> HIDE DEF new
<1>5. new \in Partial(Datasets \X Rows)
  BY <1>3, <1>4, PartialIs
<1> QED
  BY <1>3, <1>5 DEF new

(* The rows of a dataset that an upsert writes are those that differ from what  *)
(* the transaction sees.                                                        *)
LEMMA ChangedIs ==
  ASSUME NEW d \in Datasets, NEW received \in Partial(Rows), NEW view
  PROVE  LET changed == Changed(d, received, view)
         IN /\ changed \in SUBSET ({d} \X DOMAIN received)
            /\ IsFiniteSet(changed) /\ Cardinality(changed) \in Nat
            /\ \A x \in {d} \X DOMAIN received : x \in changed <=> Differs(x, received[x[2]], view)
<1> DEFINE changed == Changed(d, received, view)
<1>1. changed = {<<d, r>> : r \in {q \in DOMAIN received : Differs(<<d, q>>, received[q], view)}}
  BY DEF Changed
<1> HIDE DEF changed
<1>2. \A x \in {d} \X DOMAIN received : x = <<d, x[2]>> /\ x[2] \in DOMAIN received
  OBVIOUS
<1>3. changed \in SUBSET ({d} \X DOMAIN received)
  <2>1. \A r \in DOMAIN received : <<d, r>> \in {d} \X DOMAIN received
    OBVIOUS
  <2> QED
    BY <1>1, <2>1
<1>4. ASSUME NEW x \in {d} \X DOMAIN received
      PROVE  x \in changed <=> Differs(x, received[x[2]], view)
  <2>1. x = <<d, x[2]>> /\ x[2] \in DOMAIN received
    BY <1>2
  <2>2. ASSUME x \in changed PROVE Differs(x, received[x[2]], view)
    <3>1. PICK q \in DOMAIN received : Differs(<<d, q>>, received[q], view) /\ x = <<d, q>>
      BY <1>1, <2>2
    <3>2. x[2] = q
      BY <3>1
    <3> QED
      BY <3>1, <3>2
  <2>3. ASSUME Differs(x, received[x[2]], view) PROVE x \in changed
    <3>1. Differs(<<d, x[2]>>, received[x[2]], view)
      BY <2>1, <2>3
    <3>2. <<d, x[2]>> \in changed
      BY <1>1, <2>1, <3>1
    <3> QED
      BY <3>2, <2>1
  <2> QED
    BY <2>2, <2>3
<1>5. IsFiniteSet({d} \X DOMAIN received)
  <2>1. DOMAIN received \in SUBSET Rows
    BY PartialIs
  <2> QED
    BY <2>1, RowsAreFinite, FS_Singleton, FS_Product
<1>6. IsFiniteSet(changed) /\ Cardinality(changed) \in Nat
  BY <1>3, <1>5, FS_Subset, FS_CardinalityType
<1> QED
  BY <1>3, <1>4, <1>6 DEF changed

(* f has the rows X of one dataset as they were received, over those of b.      *)
LaidOver(f, X, received, b) ==
  /\ DOMAIN f = X \cup DOMAIN b
  /\ \A x \in X : f[x] = received[x[2]]
  /\ \A x \in DOMAIN b \ X : f[x] = b[x]

(* Rows laid over rows, of whatever datasets.                                   *)
LEMMA RowsOverRows ==
  ASSUME NEW a \in Partial(Datasets \X Rows), NEW b \in Partial(Datasets \X Rows)
  PROVE  /\ Overlaid(a, b) \in Partial(Datasets \X Rows)
         /\ DOMAIN Overlaid(a, b) = DOMAIN a \cup DOMAIN b
         /\ \A x \in DOMAIN a : Overlaid(a, b)[x] = a[x]
         /\ \A x \in DOMAIN b \ DOMAIN a : Overlaid(a, b)[x] = b[x]
BY OverlaidIs

LEMMA WrittenIs ==
  ASSUME NEW d \in Datasets, NEW received \in Partial(Rows), NEW b \in Partial(Datasets \X Rows),
         NEW X \in SUBSET ({d} \X DOMAIN received)
  PROVE  /\ Overlaid(Spread(X, received), b) \in Partial(Datasets \X Rows)
         /\ LaidOver(Overlaid(Spread(X, received), b), X, received, b)
<1> DEFINE new == Spread(X, received)
           f == Overlaid(new, b)
<1>1. /\ new \in Partial(Datasets \X Rows) /\ DOMAIN new = X
      /\ \A x \in X : new[x] = received[x[2]]
  BY SpreadIs
<1> HIDE DEF new
<1>2. /\ f \in Partial(Datasets \X Rows) /\ DOMAIN f = DOMAIN new \cup DOMAIN b
      /\ \A x \in DOMAIN new : f[x] = new[x]
      /\ \A x \in DOMAIN b \ DOMAIN new : f[x] = b[x]
  <2>1. new \in Partial(Datasets \X Rows)
    BY <1>1
  <2> QED
    BY <2>1, RowsOverRows
<1> HIDE DEF f
<1>3. f \in Partial(Datasets \X Rows) /\ LaidOver(f, X, received, b)
  BY <1>1, <1>2 DEF LaidOver
<1> QED
  BY <1>3 DEF f, new

(* The rows of a dataset that a run accounts for when it has upserted them: read *)
(* and stored, missed in its window, or behind where it began.                  *)
LEMMA UpsertKeeps ==
  ASSUME UsdaInv, NEW j \in Jobs, Upsert(j)
  PROVE  UsdaInv'
<1> DEFINE g == run[j]
           d == Key(j)
           received == g.received
           view == Overlaid(g.buffer, table)
           changed == Changed(d, received, view)
           new == Spread(changed, received)
           all == Spread({d} \X DOMAIN received, received)
           buffer == Overlaid(new, g.buffer)
           read == Overlaid(all, g.read)
           next == NextDataset(j, buffer)
           h == [next EXCEPT !.buffer = buffer, !.alone = g.alone, !.read = read,
                             !.written = g.written + Cardinality(changed),
                             !.missed = g.missed \cup Missed(j, d)]
<1>1. CASE Refused(j) /\ Fail(j)
  BY <1>1, FailKeeps DEF Upsert, Others
<1>2. CASE run' = [run EXCEPT ![j] = h]
  <2>1. g \in RunSet /\ g.pc = "read" /\ Works(g) /\ Runs(g)
    BY RunIs DEF UsdaInv, Upsert, Works, Runs
  <2>2. Planned(j, g) /\ HeldWasPublished(g) /\ HolesOf(g) /\ Resumes(g) /\ Reports(g)
    BY DEF UsdaInv, Plans, Faithful, Whole, Reporting
  <2>3. Typed
    BY DEF UsdaInv
  <2>4. /\ g.todo \in Seq(Datasets) /\ g.todo # << >> /\ IsInjective(g.todo)
        /\ Range(g.todo) \subseteq Range(Keys[j]) /\ d = Head(g.todo)
    BY <2>1, <2>2 DEF Planned, Key, RunSet
  <2>5. /\ d \in Datasets /\ d \in Range(g.todo)
        /\ Range(Tail(g.todo)) \subseteq Range(g.todo) \ {d}
        /\ Tail(g.todo) \in Seq(Datasets) /\ IsInjective(Tail(g.todo))
    BY <2>4, HeadIsNotInTail
  <2>6. /\ received \in Partial(Rows) /\ g.buffer \in Partial(Datasets \X Rows)
        /\ g.read \in Partial(Datasets \X Rows) /\ g.written \in Nat
        /\ g.missed \in SUBSET (Datasets \X Rows) /\ g.alone \in BOOLEAN
    BY <2>1 DEF RunSet
  <2>7. /\ view \in Partial(Datasets \X Rows) /\ DOMAIN view = DOMAIN g.buffer \cup DOMAIN table
        /\ \A x \in DOMAIN g.buffer : view[x] = g.buffer[x]
        /\ \A x \in DOMAIN table \ DOMAIN g.buffer : view[x] = table[x]
    BY <2>3, <2>6, ViewIs
  <2> HIDE DEF g, d, view, received
  <2>8. /\ changed \in SUBSET ({d} \X DOMAIN received)
        /\ IsFiniteSet(changed) /\ Cardinality(changed) \in Nat
        /\ \A x \in {d} \X DOMAIN received : x \in changed <=> Differs(x, received[x[2]], view)
    BY <2>5, <2>6, ChangedIs
  <2> DEFINE mine == {d} \X DOMAIN received
             wrote == g.buffer
             seen == g.read
  <2> HIDE DEF changed, wrote, seen, mine
  <2>8a. wrote \in Partial(Datasets \X Rows) /\ seen \in Partial(Datasets \X Rows)
    BY <2>6 DEF wrote, seen
  <2>8b. /\ Overlaid(Spread(changed, received), wrote) \in Partial(Datasets \X Rows)
        /\ LaidOver(Overlaid(Spread(changed, received), wrote), changed, received, wrote)
    BY <2>8a, <2>5, <2>6, <2>8, WrittenIs
  <2>8c. /\ Overlaid(Spread(mine, received), seen) \in Partial(Datasets \X Rows)
        /\ LaidOver(Overlaid(Spread(mine, received), seen), mine, received, seen)
    <3>1. mine \in SUBSET ({d} \X DOMAIN received)
      BY DEF mine
    <3> QED
      BY <3>1, <2>8a, <2>5, <2>6, WrittenIs
  <2> HIDE DEF new, all, buffer, read
  <2>9. /\ buffer \in Partial(Datasets \X Rows) /\ DOMAIN buffer = changed \cup DOMAIN g.buffer
        /\ \A x \in changed : buffer[x] = received[x[2]]
        /\ \A x \in DOMAIN g.buffer \ changed : buffer[x] = g.buffer[x]
    <3>1. buffer \in Partial(Datasets \X Rows) /\ LaidOver(buffer, changed, received, wrote)
      BY <2>8b DEF buffer, new, wrote
    <3> QED
      BY <3>1 DEF LaidOver, wrote
  <2>10. /\ read \in Partial(Datasets \X Rows)
         /\ DOMAIN read = ({d} \X DOMAIN received) \cup DOMAIN g.read
         /\ \A x \in {d} \X DOMAIN received : read[x] = received[x[2]]
         /\ \A x \in DOMAIN g.read \ ({d} \X DOMAIN received) : read[x] = g.read[x]
    <3>1. read \in Partial(Datasets \X Rows) /\ LaidOver(read, mine, received, seen)
      BY <2>8c DEF read, all, seen, mine
    <3> QED
      BY <3>1 DEF LaidOver, seen, mine
  <2>11. \A x \in DOMAIN g.buffer \cup DOMAIN g.read : x[1] # d /\ x[1] \in Range(Keys[j])
                                                          /\ x[1] \notin Range(g.todo)
    BY <2>1, <2>2, <2>5 DEF Planned
  <2>12. /\ next \in RunSet /\ next.offset = 0 /\ next.pages = 0 /\ Runs(next)
         /\ Works(next) =>
              /\ next.pc = "reading" /\ next.todo # << >> /\ next.todo = Tail(g.todo)
              /\ next.received = << >> /\ next.there = Matching(Head(next.todo), next.since)
              /\ ResumesFrom(next, Head(next.todo), DOMAIN buffer \cup DOMAIN table)
    BY <2>3, <2>4, <2>9, NextDatasetIs DEF g
  <2> HIDE DEF next
  <2> DEFINE missed == Missed(j, d)
             written == g.written + Cardinality(changed)
  <2>13. missed \in SUBSET (Datasets \X Rows)
    <3>1. DOMAIN published[d] \in SUBSET Rows
      BY <2>3, <2>5, PublishedIs
    <3> QED
      BY <3>1, <2>5 DEF Missed
  <2>14. written \in Nat
    BY <2>6, <2>8
  <2>15. /\ h.pc = next.pc /\ h.todo = next.todo /\ h.since = next.since /\ h.cold = next.cold
         /\ h.offset = 0 /\ h.pages = 0 /\ h.received = next.received /\ h.there = next.there
         /\ h.withheld = next.withheld /\ h.moved = next.moved
         /\ h.buffer = buffer /\ h.read = read /\ h.alone = g.alone /\ h.written = written
         /\ h.missed = g.missed \cup missed
    <3> HIDE DEF written, missed
    <3> QED
      BY <2>12 DEF RunSet, written, missed
  <2>16. h \in RunSet
    <3>1. g.missed \cup missed \in SUBSET (Datasets \X Rows)
      BY <2>6, <2>13
    <3> HIDE DEF written, missed
    <3>2. h = [next EXCEPT !.buffer = buffer, !.alone = g.alone, !.read = read,
                           !.written = written, !.missed = g.missed \cup missed]
      BY DEF written, missed
    <3> HIDE DEF h
    <3> QED
      BY <3>1, <3>2, <2>6, <2>9, <2>10, <2>12, <2>14 DEF RunSet
  <2> HIDE DEF h, written
  <2>17. Runs(h) /\ (Works(h) <=> Works(next)) /\ (Works(h) => h.pc = "reading")
    BY <2>12, <2>15 DEF Runs, Works
  <2>18. Planned(j, h)
    <3>1. h.offset = h.pages * PageLimit /\ h.pages <= PageCap
      BY <2>15, UsdaAssumption
    <3>2. Works(h) => h.todo # << >> /\ Range(h.todo) \subseteq Range(Keys[j]) /\ IsInjective(h.todo)
      BY <2>4, <2>5, <2>12, <2>15, <2>17
    <3>3. ASSUME NEW x \in DOMAIN h.buffer \cup DOMAIN h.read
          PROVE  x[1] \in Range(Keys[j]) /\ (Works(h) => x[1] \notin Range(h.todo))
      <4>1. CASE x \in {d} \X DOMAIN received
        <5>1. x[1] = d
          BY <4>1
        <5> QED
          BY <5>1, <2>4, <2>5, <2>12, <2>15, <2>17
      <4>2. CASE x \in DOMAIN g.buffer \cup DOMAIN g.read
        BY <4>2, <2>5, <2>11, <2>12, <2>15, <2>17
      <4> QED
        BY <4>1, <4>2, <3>3, <2>8, <2>9, <2>10, <2>15
    <3> QED
      BY <3>1, <3>2, <3>3 DEF Planned
  <2>19. HeldWasPublished(h)
    <3>1. ASSUME NEW x \in DOMAIN h.buffer
          PROVE  <<x[1], x[2], h.buffer[x]>> \in everPublished
      <4>1. CASE x \in changed
        <5>1. x[1] = d /\ x[2] \in DOMAIN received
          BY <4>1, <2>8
        <5> QED
          BY <5>1, <4>1, <2>1, <2>2, <2>4, <2>9, <2>15 DEF HeldWasPublished, received
      <4>2. CASE x \notin changed
        BY <4>2, <3>1, <2>2, <2>9, <2>15 DEF HeldWasPublished
      <4> QED
        BY <4>1, <4>2
    <3>2. Works(h) => h.received = << >> /\ DOMAIN << >> = {}
      BY <2>12, <2>15, <2>17
    <3> QED
      BY <3>1, <3>2 DEF HeldWasPublished
  <2>20. Resumes(h)
    BY <2>12, <2>15, <2>17 DEF Resumes, ResumesFrom
  <2>21. ReadSoFar(h)
    <3>1. Works(h) => h.there = Matching(Head(h.todo), h.since)
      BY <2>12, <2>15, <2>17
    <3>2. \A w : Before(h.there, w) \in Nat
      <4>1. h.there \in SUBSET Rows
        BY <2>16 DEF RunSet
      <4> QED
        BY <4>1, RowsAreFinite DEF Before
    <3> QED
      BY <3>1, <3>2, <2>15, <2>17 DEF ReadSoFar, Before
  <2>22. HolesOf(h)
    <3> SUFFICES ASSUME NEW x \in DOMAIN h.buffer, NEW r \in DOMAIN published[x[1]],
                        Week(r) < Week(x[2]) - OverlapWeeks
                 PROVE  <<x[1], r>> \in DOMAIN table \cup DOMAIN h.buffer \cup excused \cup h.missed
      BY DEF HolesOf
    <3>1. CASE x \in changed
      <4>1. x[1] = d
        BY <3>1, <2>8
      <4>2. r \in Rows /\ r \in DOMAIN published[d]
        BY <4>1, <2>3, <2>5, PublishedIs
      <4>3. CASE r \in DOMAIN received
        <5>1. <<d, r>> \in {d} \X DOMAIN received
          BY <4>3
        <5>2. <<d, r>> \in changed \/ <<d, r>> \in DOMAIN view
          BY <5>1, <2>8 DEF Differs
        <5> QED
          BY <5>2, <4>1, <2>7, <2>9, <2>15
      <4>4. CASE r \notin DOMAIN received /\ (Week(r) >= g.since \/ g.cold)
        <5>1. <<d, r>> \in missed
          BY <4>2, <4>4 DEF Missed, g, received
        <5> QED
          BY <5>1, <4>1, <2>15
      <4>5. CASE ~(Week(r) >= g.since) /\ ~g.cold
        <5>1. Week(r) \in 1..MaxWeek /\ g.since \in Int /\ MaxWeek \in Nat
          BY <4>2, <2>1, WeekOfRow, UsdaAssumption DEF RunSet
        <5>2. PICK y \in DOMAIN table \cup DOMAIN g.buffer : y[1] = d /\ g.since = Week(y[2]) - OverlapWeeks
          BY <5>1, <4>5, <2>1, <2>2, <2>4 DEF Resumes, ResumesFrom
        <5>3. Week(r) < Week(y[2]) - OverlapWeeks
          BY <5>1, <5>2, <4>5
        <5>4. <<d, r>> \in DOMAIN table \cup DOMAIN g.buffer \cup excused \cup g.missed
          <6>1. CASE y \in DOMAIN table
            BY <6>1, <5>2, <5>3, <4>2, <2>5 DEF UsdaInv, Whole, HolesHaveACause, Stored
          <6>2. CASE y \in DOMAIN g.buffer
            BY <6>2, <5>2, <5>3, <4>2, <2>2 DEF HolesOf
          <6> QED
            BY <6>1, <6>2, <5>2
        <5> QED
          BY <5>4, <4>1, <2>9, <2>15
      <4> QED
        BY <4>3, <4>4, <4>5
    <3>2. CASE x \notin changed
      <4>1. x \in DOMAIN g.buffer
        BY <3>2, <2>9, <2>15
      <4>2. <<x[1], r>> \in DOMAIN table \cup DOMAIN g.buffer \cup excused \cup g.missed
        BY <4>1, <2>2 DEF HolesOf
      <4> QED
        BY <4>2, <2>9, <2>15
    <3> QED
      BY <3>1, <3>2
  <2>23. Reports(h)
    <3>1. changed \cap DOMAIN g.buffer = {}
      BY <2>8, <2>11
    <3>2. h.written = Cardinality(DOMAIN h.buffer)
      <4>1. g.written = Cardinality(DOMAIN g.buffer)
        BY <2>2 DEF Reports
      <4>2. IsFiniteSet(DOMAIN g.buffer)
        <5>1. DOMAIN g.buffer \in SUBSET (Range(Keys[j]) \X Rows)
          <6>1. DOMAIN g.buffer \subseteq Datasets \X Rows
            BY <2>6, PartialIs
          <6> QED
            BY <6>1, <2>11
        <5>2. IsFiniteSet(Range(Keys[j]))
          BY KeysAre, RangeIsFinite
        <5>3. IsFiniteSet(Range(Keys[j]) \X Rows)
          BY <5>2, RowsAreFinite, FS_Product
        <5> QED
          BY <5>1, <5>3, FS_Subset
      <4>3. /\ Cardinality(changed \cup DOMAIN g.buffer) =
                 Cardinality(changed) + Cardinality(DOMAIN g.buffer) - Cardinality(changed \cap DOMAIN g.buffer)
        BY <4>2, <2>8, FS_Union
      <4>4. Cardinality(changed \cap DOMAIN g.buffer) = 0
        BY <3>1, FS_EmptySet
      <4> QED
        BY <4>1, <4>3, <4>4, <2>6, <2>8, <2>9, <2>15 DEF written
    <3>3. ASSUME h.alone, NEW x \in DOMAIN h.buffer
          PROVE  Differs(x, h.buffer[x], table)
      <4>1. CASE x \in changed
        <5>1. x \in {d} \X DOMAIN received /\ x \notin DOMAIN g.buffer /\ Differs(x, received[x[2]], view)
          BY <4>1, <3>1, <2>8
        <5>2. h.buffer[x] = received[x[2]]
          BY <4>1, <2>9, <2>15
        <5> QED
          BY <5>1, <5>2, <2>7 DEF Differs
      <4>2. CASE x \notin changed
        <5>1. x \in DOMAIN g.buffer /\ h.buffer[x] = g.buffer[x]
          BY <4>2, <3>3, <2>9, <2>15
        <5>2. Differs(x, g.buffer[x], table)
          BY <5>1, <3>3, <2>1, <2>2, <2>15 DEF Reports
        <5> QED
          BY <5>1, <5>2
      <4> QED
        BY <4>1, <4>2
    <3>4. ASSUME h.alone, NEW x \in DOMAIN h.read
          PROVE  ~Differs(x, h.read[x], Overlaid(h.buffer, table))
      <4> DEFINE after == Overlaid(h.buffer, table)
      <4>0. /\ DOMAIN after = DOMAIN h.buffer \cup DOMAIN table
            /\ \A y \in DOMAIN h.buffer : after[y] = h.buffer[y]
            /\ \A y \in DOMAIN table \ DOMAIN h.buffer : after[y] = table[y]
        BY <2>3, <2>9, <2>15, ViewIs
      <4> HIDE DEF after
      <4>1. CASE x \in {d} \X DOMAIN received
        <5>1. h.read[x] = received[x[2]] /\ x \notin DOMAIN g.buffer
          BY <4>1, <2>10, <2>11, <2>15
        <5>2. CASE x \in changed
          BY <5>1, <5>2, <4>0, <2>9, <2>15 DEF Differs, after
        <5>3. CASE x \notin changed
          <6>1. x \in DOMAIN view /\ view[x] = received[x[2]]
            BY <5>3, <4>1, <2>8 DEF Differs
          <6>2. x \in DOMAIN table /\ table[x] = received[x[2]] /\ x \notin DOMAIN h.buffer
            BY <5>1, <5>3, <6>1, <2>7, <2>9, <2>15
          <6> QED
            BY <5>1, <6>2, <4>0 DEF Differs, after
        <5> QED
          BY <5>2, <5>3
      <4>2. CASE x \notin {d} \X DOMAIN received
        <5>1. x \in DOMAIN g.read /\ h.read[x] = g.read[x] /\ x \notin changed
          BY <4>2, <3>4, <2>8, <2>10, <2>15
        <5>2. ~Differs(x, g.read[x], view)
          BY <5>1, <3>4, <2>1, <2>2, <2>15 DEF Reports, view
        <5>3. x \in DOMAIN view /\ view[x] = g.read[x]
          BY <5>2 DEF Differs
        <5>4. x \in DOMAIN after /\ after[x] = view[x]
          BY <5>1, <5>3, <4>0, <2>7, <2>9, <2>15
        <5> QED
          BY <5>1, <5>3, <5>4 DEF Differs, after
      <4> QED
        BY <4>1, <4>2
    <3> QED
      BY <3>2, <3>3, <3>4 DEF Reports
  <2>24. Fits(j, h)
    BY <2>1, <2>15, <2>16, <2>17, <2>18, <2>19, <2>20, <2>21, <2>22, <2>23 DEF Fits, g
  <2>25. UNCHANGED Others
    BY DEF Upsert, Others
  <2> QED
    BY <1>2, <2>24, <2>25, OneRunMoves DEF h
<1> QED
  BY <1>1, <1>2 DEF Upsert, Spread

-----------------------------------------------------------------------------
(* Steps of the publisher, of the database and of several runs                  *)

LEMMA InitHolds ==
  ASSUME Init
  PROVE  UsdaInv
<1>1. DOMAIN << >> = {} /\ << >> \in Partial(Datasets \X Rows)
  BY NothingHeld
<1>2. table = << >> /\ run = [j \in Jobs |-> Idle] /\ changes = 0 /\ started = 0 /\ excused = {}
  BY DEF Init
<1>3. \A d \in Datasets : published[d] \in Partial(Rows)
  BY UsdaAssumption DEF Init
<1>4. \A j \in Jobs : run[j] = [Idle EXCEPT !.pc = "idle"]
  BY <1>2 DEF Idle
<1>5. \A j \in Jobs : /\ run[j] \in RunSet /\ run[j].pc = "idle"
                      /\ Planned(j, run[j]) /\ HeldWasPublished(run[j]) /\ HolesOf(run[j])
                      /\ Resumes(run[j]) /\ ReadSoFar(run[j]) /\ Reports(run[j])
  BY <1>4, StoppedIs
<1>6. Typed
  <2>1. run \in [Jobs -> RunSet]
    BY <1>2, <1>5
  <2>2. published \in [Datasets -> Partial(Rows)]
    <3>1. published = [d \in Datasets |-> published[d]]
      BY DEF Init
    <3> QED
      BY <3>1, <1>3
  <2> QED
    BY <1>1, <1>2, <2>1, <2>2, UsdaAssumption DEF Typed
<1>7. Plans /\ Reading
  BY <1>5 DEF Plans, Reading
<1>8. Faithful
  <2>1. IsPublished
    BY DEF Init, Entries, IsPublished
  <2>2. StoredWasPublished
    BY <1>1, <1>2 DEF StoredWasPublished
  <2> QED
    BY <1>5, <2>1, <2>2 DEF Faithful
<1>9. Whole
  <2>1. HolesHaveACause
    BY <1>1, <1>2 DEF HolesHaveACause, Stored
  <2> QED
    BY <1>5, <2>1 DEF Whole
<1>10. Reporting
  BY <1>5 DEF Reporting, Alone, Runs
<1> QED
  BY <1>6, <1>7, <1>8, <1>9, <1>10 DEF UsdaInv

(* A measure is corrected: the rows keep their places, and what was published   *)
(* before stays what was published.                                             *)
LEMMA CorrectKeeps ==
  ASSUME UsdaInv, Correct
  PROVE  UsdaInv'
<1>1. /\ table' = table /\ run' = run /\ started' = started /\ excused' = excused
      /\ changes < MaxChanges /\ changes' = changes + 1
  BY DEF Correct
<1>2a. PICK d \in Datasets : \E r \in DOMAIN published[d], m \in Measures :
         /\ published' = [published EXCEPT ![d][r] = m]
         /\ everPublished' = everPublished \cup {<<d, r, m>>}
  BY DEF Correct
<1>2. PICK r \in DOMAIN published[d] : \E m \in Measures :
         /\ published' = [published EXCEPT ![d][r] = m]
         /\ everPublished' = everPublished \cup {<<d, r, m>>}
  BY <1>2a
<1>3. PICK m \in Measures :
         /\ published' = [published EXCEPT ![d][r] = m]
         /\ everPublished' = everPublished \cup {<<d, r, m>>}
  BY <1>2
<1>4. published \in [Datasets -> Partial(Rows)]
  BY DEF UsdaInv, Typed
<1> DEFINE p == published[d]
           q == [p EXCEPT ![r] = m]
<1>5. published' = [published EXCEPT ![d] = q]
  BY <1>3
<1>6. DOMAIN q = DOMAIN p /\ q[r] = m /\ \A x \in DOMAIN p \ {r} : q[x] = p[x]
  BY <1>2
<1>7. q \in Partial(Rows)
  <2>1. p \in Partial(Rows)
    BY <1>4
  <2>2. DOMAIN p \subseteq Rows /\ \A x \in DOMAIN p : p[x] \in Measures
    BY <2>1, PartialIs
  <2>3. q = [x \in DOMAIN q |-> q[x]]
    OBVIOUS
  <2>4. \A x \in DOMAIN q : q[x] \in Measures
    BY <2>2, <1>6
  <2> HIDE DEF p, q
  <2> QED
    BY <2>2, <2>3, <2>4, <1>6, PartialIs
<1> HIDE DEF q
<1>8. published' \in [Datasets -> Partial(Rows)]
  BY <1>4, <1>5, <1>7
<1>9. published'[d] = q /\ \A e \in Datasets \ {d} : published'[e] = published[e]
  BY <1>4, <1>5
<1>10. \A e \in Datasets : DOMAIN published'[e] = DOMAIN published[e]
  BY <1>6, <1>9
<1>11. \A e \in Datasets : \A since : Matching(e, since)' = Matching(e, since)
  BY <1>10 DEF Matching
<1>12. Typed'
  BY <1>1, <1>8, UsdaAssumption DEF UsdaInv, Typed
<1>13. Plans'
  BY <1>1 DEF UsdaInv, Plans, Planned
<1>14. \A j \in Jobs :
         /\ DOMAIN run[j].buffer \subseteq Datasets \X Rows
         /\ Works(run[j]) => Head(run[j].todo) \in Datasets
  <2> TAKE j \in Jobs
  <2>1. run[j] \in RunSet /\ Planned(j, run[j])
    BY RunIs DEF UsdaInv, Plans
  <2>2. run[j].buffer \in Partial(Datasets \X Rows) /\ run[j].todo \in Seq(Datasets)
    BY <2>1 DEF RunSet
  <2> QED
    BY <2>1, <2>2, PartialIs, HeadTailProperties DEF Planned
<1>15. Faithful'
  <2>1. everPublished \subseteq everPublished'
    BY <1>3
  <2>2. IsPublished'
    <3> SUFFICES ASSUME NEW e \in Datasets, NEW x \in DOMAIN published'[e]
                 PROVE  <<e, x, published'[e][x]>> \in everPublished'
      BY DEF IsPublished
    <3>1. CASE e = d /\ x = r
      BY <3>1, <1>3, <1>6, <1>9
    <3>2. CASE ~(e = d /\ x = r)
      <4>1. x \in DOMAIN published[e] /\ published'[e][x] = published[e][x]
        BY <3>2, <1>6, <1>9
      <4> QED
        BY <4>1, <2>1 DEF UsdaInv, Faithful, IsPublished
    <3> QED
      BY <3>1, <3>2
  <2>3. StoredWasPublished'
    BY <1>1, <2>1 DEF UsdaInv, Faithful, StoredWasPublished
  <2>4. \A j \in Jobs : HeldWasPublished(run[j])'
    BY <1>1, <2>1 DEF UsdaInv, Faithful, HeldWasPublished
  <2> QED
    BY <2>2, <2>3, <2>4 DEF Faithful
<1>16. Whole'
  <2>1. HolesHaveACause'
    BY <1>1, <1>10 DEF UsdaInv, Whole, HolesHaveACause, Stored
  <2>2. \A j \in Jobs : HolesOf(run[j])'
    <3> SUFFICES ASSUME NEW j \in Jobs PROVE HolesOf(run[j])'
      OBVIOUS
    <3>1. HolesOf(run[j]) /\ \A x \in DOMAIN run[j].buffer : x[1] \in Datasets
      BY <1>14 DEF UsdaInv, Whole
    <3> QED
      BY <3>1, <1>1, <1>10 DEF HolesOf
  <2>3. \A j \in Jobs : Resumes(run[j])'
    BY <1>1 DEF UsdaInv, Whole, Resumes, ResumesFrom
  <2> QED
    BY <2>1, <2>2, <2>3 DEF Whole
<1>17. Reading'
  <2> SUFFICES ASSUME NEW j \in Jobs PROVE ReadSoFar(run[j])'
    BY DEF Reading
  <2>1. ReadSoFar(run[j])
    BY DEF UsdaInv, Reading
  <2>2. Works(run[j]) => Matching(Head(run[j].todo), run[j].since)' = Matching(Head(run[j].todo), run[j].since)
    BY <1>1, <1>11, <1>14
  <2> QED
    BY <2>1, <2>2, <1>1 DEF ReadSoFar, Works
<1>18. Reporting'
  BY <1>1 DEF UsdaInv, Reporting, Alone, Reports
<1> QED
  BY <1>12, <1>13, <1>15, <1>16, <1>17, <1>18 DEF UsdaInv

(* A run commits: its rows are laid over those of the table, and what it could  *)
(* not have read is accounted for; a run beside it in other datasets sees none  *)
(* of its own rows change.                                                      *)
LEMMA CommitKeeps ==
  ASSUME UsdaInv, NEW j \in Jobs, Commit(j)
  PROVE  UsdaInv'
<1> DEFINE g == run[j]
           wrote == g.buffer
           h == [Idle EXCEPT !.pc = "done"]
<1>1. /\ published' = published /\ everPublished' = everPublished /\ changes' = changes
      /\ started' = started /\ g.pc = "written" /\ table' = Overlaid(wrote, table)
      /\ run' = [run EXCEPT ![j] = h] /\ excused' = excused \cup g.missed
  BY DEF Commit
<1>2. g \in RunSet /\ run \in [Jobs -> RunSet] /\ Typed
  BY RunIs DEF UsdaInv, Typed
<1>3. Planned(j, g) /\ HeldWasPublished(g) /\ HolesOf(g) /\ Reports(g) /\ Runs(g)
  BY <1>1 DEF UsdaInv, Plans, Faithful, Whole, Reporting, Runs
<1>4. wrote \in Partial(Datasets \X Rows)
  BY <1>2 DEF RunSet
<1> HIDE DEF wrote
<1>5. /\ table' \in Partial(Datasets \X Rows)
      /\ DOMAIN table' = DOMAIN wrote \cup DOMAIN table
      /\ \A x \in DOMAIN wrote : table'[x] = wrote[x]
      /\ \A x \in DOMAIN table \ DOMAIN wrote : table'[x] = table[x]
  <2>1. /\ Overlaid(wrote, table) \in Partial(Datasets \X Rows)
        /\ DOMAIN Overlaid(wrote, table) = DOMAIN wrote \cup DOMAIN table
        /\ \A x \in DOMAIN wrote : Overlaid(wrote, table)[x] = wrote[x]
        /\ \A x \in DOMAIN table \ DOMAIN wrote : Overlaid(wrote, table)[x] = table[x]
    BY <1>2, <1>4, ViewIs
  <2> QED
    BY <2>1, <1>1
<1>6. /\ h \in RunSet /\ h.pc = "done" /\ Planned(j, h) /\ HeldWasPublished(h)
      /\ HolesOf(h) /\ Resumes(h) /\ ReadSoFar(h) /\ Reports(h) /\ ~Works(h)
  BY StoppedIs
<1>7a. h.buffer = << >> /\ h.read = << >> /\ h.written = 0
  BY StoppedIs
<1> HIDE DEF h
<1>7. ~Runs(h) /\ h.buffer = << >> /\ h.read = << >> /\ h.written = 0 /\ DOMAIN << >> = {}
  BY <1>6, <1>7a DEF Runs
<1>8. run'[j] = h /\ \A i \in Jobs \ {j} : run'[i] = run[i]
  BY <1>1, <1>2
<1>9. Typed'
  <2>1. run' \in [Jobs -> RunSet]
    BY <1>1, <1>2, <1>6
  <2> QED
    BY <2>1, <1>1, <1>5 DEF UsdaInv, Typed
<1>10. Plans'
  BY <1>6, <1>8 DEF UsdaInv, Plans, Planned
<1>11. Faithful'
  <2>1. IsPublished'
    BY <1>1 DEF UsdaInv, Faithful, IsPublished
  <2>2. StoredWasPublished'
    <3> SUFFICES ASSUME NEW x \in DOMAIN table' PROVE <<x[1], x[2], table'[x]>> \in everPublished
      BY <1>1 DEF StoredWasPublished
    <3>1. CASE x \in DOMAIN wrote
      BY <3>1, <1>3, <1>5 DEF HeldWasPublished, wrote
    <3>2. CASE x \in DOMAIN table \ DOMAIN wrote
      BY <3>2, <1>5 DEF UsdaInv, Faithful, StoredWasPublished
    <3> QED
      BY <3>1, <3>2, <1>5
  <2>3. \A i \in Jobs : HeldWasPublished(run'[i])
    BY <1>6, <1>8 DEF UsdaInv, Faithful
  <2> QED
    BY <2>1, <2>2, <2>3, <1>1 DEF Faithful, HeldWasPublished
<1>12. DOMAIN table \subseteq DOMAIN table' /\ excused \subseteq excused'
  BY <1>1, <1>5
<1>13. Whole'
  <2>1. HolesHaveACause'
    <3> SUFFICES ASSUME NEW d \in Datasets, NEW x \in DOMAIN table', x[1] = d,
                        NEW r \in DOMAIN published[d], Week(r) < Week(x[2]) - OverlapWeeks
                 PROVE  <<d, r>> \in DOMAIN table' \cup excused'
      BY <1>1 DEF HolesHaveACause, Stored
    <3>1. CASE x \in DOMAIN wrote
      <4>1. <<d, r>> \in DOMAIN table \cup DOMAIN wrote \cup excused \cup g.missed
        BY <3>1, <1>3 DEF HolesOf, wrote
      <4> QED
        BY <4>1, <1>1, <1>5
    <3>2. CASE x \in DOMAIN table
      <4>1. <<d, r>> \in DOMAIN table \cup excused
        BY <3>2 DEF UsdaInv, Whole, HolesHaveACause, Stored
      <4> QED
        BY <4>1, <1>12
    <3> QED
      BY <3>1, <3>2, <1>5
  <2>2. \A i \in Jobs : HolesOf(run'[i]) /\ Resumes(run'[i])
    BY <1>6, <1>8 DEF UsdaInv, Whole
  <2>3. \A i \in Jobs : HolesOf(run[i])'
    <3> SUFFICES ASSUME NEW i \in Jobs PROVE HolesOf(run[i])'
      OBVIOUS
    <3>1. HolesOf(run'[i])
      BY <2>2
    <3> QED
      BY <3>1, <1>1, <1>12 DEF HolesOf
  <2>4. \A i \in Jobs : Resumes(run[i])'
    <3> SUFFICES ASSUME NEW i \in Jobs PROVE Resumes(run[i])'
      OBVIOUS
    <3>1. Resumes(run'[i])
      BY <2>2
    <3> QED
      BY <3>1, <1>12 DEF Resumes, ResumesFrom
  <2> QED
    BY <2>1, <2>3, <2>4 DEF Whole
<1>14. Reading'
  <2>1. \A i \in Jobs : ReadSoFar(run'[i])
    BY <1>6, <1>8 DEF UsdaInv, Reading
  <2> QED
    BY <2>1, <1>1 DEF Reading, ReadSoFar, Matching
<1>15. Reporting'
  <2>1. ASSUME NEW i \in Jobs
        PROVE  Reports(run[i])'
    <3>1. CASE i = j
      BY <3>1, <1>6, <1>7, <1>8 DEF Reports
    <3>2. CASE i # j
      <4> DEFINE k == run[i]
      <4>1. run'[i] = k /\ k \in RunSet /\ Planned(i, k) /\ Reports(k)
        BY <3>2, <1>2, <1>8, RunIs DEF UsdaInv, Plans, Reporting
      <4>2. k.buffer \in Partial(Datasets \X Rows)
        BY <4>1 DEF RunSet
      <4> DEFINE mine == k.buffer
      <4>3. mine \in Partial(Datasets \X Rows)
        BY <4>2
      <4>4. Typed /\ Typed'
        BY <1>2, <1>9
      <4> SUFFICES ASSUME Runs(k), k.alone
                   PROVE  /\ \A x \in DOMAIN mine : Differs(x, mine[x], table')
                          /\ \A x \in DOMAIN k.read : ~Differs(x, k.read[x], Overlaid(mine, table'))
        BY <4>1 DEF Reports
      <4>5. \A x \in DOMAIN mine \cup DOMAIN k.read : x \notin DOMAIN wrote
        <5>1. Range(Keys[i]) \cap Range(Keys[j]) = {}
          BY <3>2, <1>3 DEF UsdaInv, Reporting, Alone
        <5> QED
          BY <5>1, <4>1, <1>3 DEF Planned, wrote
      <4> HIDE DEF mine
      <4>6. /\ DOMAIN Overlaid(mine, table) = DOMAIN mine \cup DOMAIN table
            /\ \A x \in DOMAIN mine : Overlaid(mine, table)[x] = mine[x]
            /\ \A x \in DOMAIN table \ DOMAIN mine : Overlaid(mine, table)[x] = table[x]
        BY <4>3, <4>4, ViewIs
      <4>7. table' \in Partial(Datasets \X Rows)
        BY <1>5
      <4>8. /\ DOMAIN Overlaid(mine, table') = DOMAIN mine \cup DOMAIN table'
            /\ \A x \in DOMAIN mine : Overlaid(mine, table')[x] = mine[x]
            /\ \A x \in DOMAIN table' \ DOMAIN mine : Overlaid(mine, table')[x] = table'[x]
        BY <4>3, <4>7, RowsOverRows
      <4>9. /\ \A x \in DOMAIN mine : Differs(x, mine[x], table)
            /\ \A x \in DOMAIN k.read : ~Differs(x, k.read[x], Overlaid(mine, table))
        BY <4>1 DEF Reports, mine
      <4>10. ASSUME NEW x \in DOMAIN mine PROVE Differs(x, mine[x], table')
        BY <4>5, <4>9, <1>5 DEF Differs
      <4>11. ASSUME NEW x \in DOMAIN k.read PROVE ~Differs(x, k.read[x], Overlaid(mine, table'))
        <5>1. x \in DOMAIN Overlaid(mine, table) /\ Overlaid(mine, table)[x] = k.read[x]
          BY <4>9 DEF Differs
        <5>2. x \notin DOMAIN wrote
          BY <4>5
        <5>3. x \in DOMAIN Overlaid(mine, table') /\ Overlaid(mine, table')[x] = Overlaid(mine, table)[x]
          BY <5>1, <5>2, <4>6, <4>8, <1>5
        <5> QED
          BY <5>1, <5>3 DEF Differs
      <4> QED
        BY <4>10, <4>11
    <3> QED
      BY <3>1, <3>2
  <2>2. Alone'
    BY <1>7, <1>8 DEF UsdaInv, Reporting, Alone
  <2> QED
    BY <2>1, <2>2 DEF Reporting
<1> QED
  BY <1>9, <1>10, <1>11, <1>13, <1>14, <1>15 DEF UsdaInv

(* A run begins: whoever is under way in its datasets is no longer alone there, *)
(* nor is it.                                                                   *)
LEMMA StartKeeps ==
  ASSUME UsdaInv, NEW j \in Jobs, Start(j)
  PROVE  UsdaInv'
<1> DEFINE shares == {i \in Jobs \ {j} : Active(i) /\ Range(Keys[i]) \cap Range(Keys[j]) # {}}
           ready == Ready(j, Keys[j], table)
           alone == shares = {}
           h == [ready EXCEPT !.alone = alone]
<1>1. /\ published' = published /\ everPublished' = everPublished /\ table' = table
      /\ changes' = changes /\ started < MaxRuns /\ started' = started + 1 /\ excused' = excused
      /\ ~Runs(run[j])
  BY DEF Start, Active, Runs
<1>2. run' = [i \in Jobs |-> IF i = j THEN h
                             ELSE IF i \in shares THEN [run[i] EXCEPT !.alone = FALSE] ELSE run[i]]
  BY DEF Start
<1>3. Typed /\ Keys[j] \in Seq(Datasets) /\ Keys[j] # << >> /\ IsInjective(Keys[j])
      /\ table \in Partial(Datasets \X Rows)
  BY KeysAre DEF UsdaInv, Typed
<1>4. /\ ready \in RunSet /\ ready.pc = "reading" /\ ready.todo = Keys[j] /\ ready.offset = 0 /\ ready.pages = 0
      /\ ready.received = << >> /\ ready.there = Matching(Head(Keys[j]), ready.since)
      /\ ResumesFrom(ready, Head(Keys[j]), DOMAIN table)
      /\ ready.buffer = << >> /\ ready.read = << >> /\ ready.written = 0
  BY <1>3, ReadyIs
<1> HIDE DEF ready
<1>5. alone \in BOOLEAN
  OBVIOUS
<1>6. h \in RunSet
  <2> HIDE DEF alone
  <2> QED
    BY <1>4, <1>5 DEF RunSet
<1>7. /\ h.pc = "reading" /\ h.todo = Keys[j] /\ h.offset = 0 /\ h.pages = 0 /\ h.alone = alone
      /\ h.received = << >> /\ h.there = Matching(Head(Keys[j]), h.since)
      /\ h.since = ready.since /\ h.cold = ready.cold
      /\ h.buffer = << >> /\ h.read = << >> /\ h.written = 0
  BY <1>4 DEF RunSet
<1> HIDE DEF h
<1>8. DOMAIN << >> = {} /\ Works(h)
  BY <1>7 DEF Works
<1>9. run \in [Jobs -> RunSet]
  BY DEF UsdaInv, Typed
<1>10. run'[j] = h
  BY <1>2
<1>11. ASSUME NEW i \in Jobs, i # j
       PROVE  /\ run'[i] \in RunSet
              /\ run'[i] = [run[i] EXCEPT !.alone = run'[i].alone]
              /\ run'[i].alone => run[i].alone /\ i \notin shares
  <2>1. run[i] \in RunSet
    BY <1>9
  <2>2. CASE i \in shares
    <3>1. run'[i] = [run[i] EXCEPT !.alone = FALSE]
      BY <1>2, <1>11, <2>2
    <3> QED
      BY <3>1, <2>1 DEF RunSet
  <2>3. CASE i \notin shares
    <3>1. run'[i] = run[i]
      BY <1>2, <1>11, <2>3
    <3> QED
      BY <3>1, <2>1, <2>3 DEF RunSet
  <2> QED
    BY <2>2, <2>3
<1>12. ASSUME NEW i \in Jobs, i # j
       PROVE  LET a == run[i]
                  b == run'[i]
              IN /\ b.pc = a.pc /\ b.todo = a.todo /\ b.since = a.since /\ b.offset = a.offset
                 /\ b.pages = a.pages /\ b.received = a.received /\ b.there = a.there
                 /\ b.withheld = a.withheld /\ b.missed = a.missed /\ b.cold = a.cold
                 /\ b.moved = a.moved /\ b.read = a.read /\ b.buffer = a.buffer /\ b.written = a.written
  <2> DEFINE a == run[i]
             b == run'[i]
  <2>1. a \in RunSet /\ b = [a EXCEPT !.alone = b.alone]
    BY <1>9, <1>11, <1>12
  <2> HIDE DEF a, b
  <2>2. /\ b.pc = a.pc /\ b.todo = a.todo /\ b.since = a.since /\ b.offset = a.offset
        /\ b.pages = a.pages /\ b.received = a.received /\ b.there = a.there
        /\ b.withheld = a.withheld /\ b.missed = a.missed /\ b.cold = a.cold
        /\ b.moved = a.moved /\ b.read = a.read /\ b.buffer = a.buffer /\ b.written = a.written
    BY <2>1 DEF RunSet
  <2> QED
    BY <2>2 DEF a, b
<1>13. \A i \in Jobs : i # j => (Works(run'[i]) <=> Works(run[i])) /\ (Runs(run'[i]) <=> Runs(run[i]))
  BY <1>12 DEF Works, Runs
<1>14. Typed'
  <2>1. run' \in [Jobs -> RunSet]
    <3>1. run' = [i \in Jobs |-> run'[i]]
      BY <1>2
    <3>2. \A i \in Jobs : run'[i] \in RunSet
      BY <1>6, <1>10, <1>11
    <3> QED
      BY <3>1, <3>2
  <2> QED
    BY <2>1, <1>1, UsdaAssumption DEF UsdaInv, Typed
<1>15. Plans'
  <2>1. Planned(j, h)
    BY <1>3, <1>7, <1>8, UsdaAssumption DEF Planned
  <2>2. ASSUME NEW i \in Jobs, i # j PROVE Planned(i, run'[i])
    <3>1. Planned(i, run[i])
      BY DEF UsdaInv, Plans
    <3> QED
      BY <3>1, <2>2, <1>12, <1>13 DEF Planned
  <2> QED
    BY <2>1, <2>2, <1>10 DEF Plans, Planned
<1>16. Faithful'
  <2>1. IsPublished' /\ StoredWasPublished'
    BY <1>1 DEF UsdaInv, Faithful, IsPublished, StoredWasPublished
  <2>2. ASSUME NEW i \in Jobs PROVE HeldWasPublished(run[i])'
    <3>1. CASE i = j
      BY <3>1, <1>7, <1>8, <1>10 DEF HeldWasPublished
    <3>2. CASE i # j
      <4>1. HeldWasPublished(run[i])
        BY DEF UsdaInv, Faithful
      <4> QED
        BY <4>1, <3>2, <1>1, <1>12, <1>13 DEF HeldWasPublished
    <3> QED
      BY <3>1, <3>2
  <2> QED
    BY <2>1, <2>2 DEF Faithful
<1>17. Whole'
  <2>1. HolesHaveACause'
    BY <1>1 DEF UsdaInv, Whole, HolesHaveACause, Stored
  <2>2. ASSUME NEW i \in Jobs PROVE HolesOf(run[i])' /\ Resumes(run[i])'
    <3>1. CASE i = j
      <4>1. HolesOf(run[j])'
        BY <1>7, <1>8, <1>10 DEF HolesOf
      <4>2. ResumesFrom(h, Head(h.todo), DOMAIN table)
        BY <1>4, <1>7 DEF ResumesFrom
      <4>3. Resumes(run[j])'
        BY <4>2, <1>1, <1>7, <1>10 DEF Resumes, ResumesFrom
      <4> QED
        BY <3>1, <4>1, <4>3
    <3>2. CASE i # j
      <4>1. HolesOf(run[i]) /\ Resumes(run[i])
        BY DEF UsdaInv, Whole
      <4>2. HolesOf(run[i])'
        BY <4>1, <3>2, <1>1, <1>12 DEF HolesOf
      <4>3. Resumes(run[i])'
        BY <4>1, <3>2, <1>1, <1>12, <1>13 DEF Resumes, ResumesFrom
      <4> QED
        BY <4>2, <4>3
    <3> QED
      BY <3>1, <3>2
  <2> QED
    BY <2>1, <2>2 DEF Whole
<1>18. Reading'
  <2>1. ReadSoFar(run[j])'
    <3>1. \A w : Before(h.there, w) \in Nat
      <4>1. h.there \in SUBSET Rows
        BY <1>6 DEF RunSet
      <4> QED
        BY <4>1, RowsAreFinite DEF Before
    <3>2. h.there = Matching(Head(h.todo), h.since) /\ h.pc = "reading" /\ h.offset = 0
      BY <1>7
    <3>3. \A w : h.offset <= Before(h.there, w)
      BY <3>1, <3>2
    <3>4. ReadSoFar(h)
      BY <3>2, <3>3 DEF ReadSoFar, Before
    <3> QED
      BY <3>4, <1>1, <1>10 DEF ReadSoFar, Matching
  <2>2. ASSUME NEW i \in Jobs, i # j PROVE ReadSoFar(run[i])'
    <3>1. ReadSoFar(run[i])
      BY DEF UsdaInv, Reading
    <3> QED
      BY <3>1, <2>2, <1>1, <1>12, <1>13 DEF ReadSoFar, Matching
  <2> QED
    BY <2>1, <2>2 DEF Reading
<1>19. Reporting'
  <2>1. ASSUME NEW i \in Jobs PROVE Reports(run[i])'
    <3>1. CASE i = j
      BY <3>1, <1>7, <1>8, <1>10, FS_EmptySet DEF Reports
    <3>2. CASE i # j
      <4>1. Reports(run[i])
        BY DEF UsdaInv, Reporting
      <4> QED
        BY <4>1, <3>2, <1>1, <1>11, <1>12, <1>13 DEF Reports
    <3> QED
      BY <3>1, <3>2
  <2>2. Alone'
    <3> SUFFICES ASSUME NEW i \in Jobs, NEW k \in Jobs, i # k, Runs(run'[i]), Runs(run'[k]), run'[i].alone
                 PROVE  Range(Keys[i]) \cap Range(Keys[k]) = {}
      BY DEF Alone
    <3>1. CASE i = j
      <4>1. shares = {} /\ Runs(run[k])
        BY <3>1, <1>7, <1>10, <1>13
      <4> QED
        BY <4>1, <3>1 DEF Active, Runs
    <3>2. CASE k = j
      <4>1. i \notin shares /\ Runs(run[i])
        BY <3>2, <1>11, <1>13
      <4> QED
        BY <4>1, <3>2 DEF Active, Runs
    <3>3. CASE i # j /\ k # j
      <4>1. Runs(run[i]) /\ Runs(run[k]) /\ run[i].alone
        BY <3>3, <1>11, <1>13
      <4> QED
        BY <4>1 DEF UsdaInv, Reporting, Alone
    <3> QED
      BY <3>1, <3>2, <3>3
  <2> QED
    BY <2>1, <2>2 DEF Reporting
<1> QED
  BY <1>14, <1>15, <1>16, <1>17, <1>18, <1>19 DEF UsdaInv

(* What a run holds or has read of a dataset are rows of the dataset.           *)
LEMMA HeldAreRows ==
  ASSUME UsdaInv, NEW d \in Datasets
  PROVE  Held(d) \subseteq Datasets \X Rows /\ Stored(d) \subseteq Datasets \X Rows
<1>1. DOMAIN table \subseteq Datasets \X Rows
  BY PartialIs DEF UsdaInv, Typed
<1>2. \A j \in Jobs : DOMAIN run[j].buffer \subseteq Datasets \X Rows /\ DOMAIN run[j].received \subseteq Rows
  <2> TAKE j \in Jobs
  <2>1. run[j] \in RunSet
    BY RunIs DEF UsdaInv
  <2>2. run[j].buffer \in Partial(Datasets \X Rows) /\ run[j].received \in Partial(Rows)
    BY <2>1 DEF RunSet
  <2> QED
    BY <2>2, PartialIs
<1>3. ASSUME NEW x \in Held(d) PROVE x \in Datasets \X Rows
  <2>1. PICK j \in Jobs : x \in {y \in DOMAIN run[j].buffer : y[1] = d} \/ x \in {d} \X DOMAIN run[j].received
    BY <1>3 DEF Held
  <2> QED
    BY <2>1, <1>2
<1> QED
  BY <1>1, <1>3 DEF Stored

(* Rows of a week appear: a read that may not see them in their place is marked, *)
(* and rows behind what the polls ask for are excused.                          *)
LEMMA PublishKeeps ==
  ASSUME UsdaInv, Publish
  PROVE  UsdaInv'
<1>1. table' = table /\ started' = started /\ changes < MaxChanges /\ changes' = changes + 1
  BY DEF Publish
<1>2. PICK d \in Datasets, w \in Weeks, ps \in (SUBSET Places) \ {{}}, m \in Measures :
       LET new == {<<p, w>> : p \in ps} \ DOMAIN published[d]
           newest == Max({0} \cup {Week(x[2]) : x \in Stored(d) \cup Held(d)})
       IN /\ published' = [published EXCEPT ![d] =
               [r \in DOMAIN @ \cup new |-> IF r \in new THEN m ELSE @[r]]]
          /\ everPublished' = everPublished \cup {<<d, r, m>> : r \in new}
          /\ excused' = IF w < newest - OverlapWeeks THEN excused \cup {<<d, r>> : r \in new}
                        ELSE excused
          /\ run' = Moved(d)
  BY ZenonT(60) DEF Publish
<1> DEFINE p == published[d]
           new == {<<q, w>> : q \in ps} \ DOMAIN p
           newest == Max({0} \cup {Week(x[2]) : x \in Stored(d) \cup Held(d)})
           after == [r \in DOMAIN p \cup new |-> IF r \in new THEN m ELSE p[r]]
<1>3. /\ published' = [published EXCEPT ![d] = after]
      /\ everPublished' = everPublished \cup {<<d, r, m>> : r \in new}
      /\ excused' = IF w < newest - OverlapWeeks THEN excused \cup {<<d, r>> : r \in new} ELSE excused
      /\ run' = Moved(d)
  BY <1>2
<1>4. published \in [Datasets -> Partial(Rows)] /\ run \in [Jobs -> RunSet]
  BY DEF UsdaInv, Typed
<1>5. p \in Partial(Rows) /\ DOMAIN p \subseteq Rows /\ \A r \in DOMAIN p : p[r] \in Measures
  BY <1>4, PartialIs
<1>6. /\ new \subseteq Rows /\ new \cap DOMAIN p = {} /\ \A r \in new : Week(r) = w
  BY DEF Rows, Week
<1> HIDE DEF new
<1>7. /\ DOMAIN after = DOMAIN p \cup new /\ \A r \in new : after[r] = m
      /\ \A r \in DOMAIN p : after[r] = p[r]
  BY <1>6
<1>8. after \in Partial(Rows)
  <2>1. after = [r \in DOMAIN after |-> after[r]]
    OBVIOUS
  <2>2. \A r \in DOMAIN after : after[r] \in Measures
    BY <1>5, <1>7
  <2> HIDE DEF after, p
  <2> QED
    BY <2>1, <2>2, <1>5, <1>6, <1>7, PartialIs
<1> HIDE DEF after, newest
<1>9. published' \in [Datasets -> Partial(Rows)]
  BY <1>3, <1>4, <1>8
<1>10. published'[d] = after /\ \A e \in Datasets \ {d} : published'[e] = published[e]
  BY <1>3, <1>4
<1>11. /\ \A e \in Datasets \ {d} : \A since : Matching(e, since)' = Matching(e, since)
       /\ everPublished \subseteq everPublished' /\ excused \subseteq excused'
  BY <1>3, <1>10 DEF Matching
<1>12. \A j \in Jobs : run'[j] = IF run[j].pc = "reading" /\ Key(j) = d
                                 THEN [run[j] EXCEPT !.moved = TRUE] ELSE run[j]
  BY <1>3 DEF Moved
<1>13. ASSUME NEW j \in Jobs
       PROVE  LET a == run[j]
                  b == run'[j]
              IN /\ a \in RunSet /\ b \in RunSet
                 /\ b.pc = a.pc /\ b.todo = a.todo /\ b.since = a.since /\ b.offset = a.offset
                 /\ b.pages = a.pages /\ b.received = a.received /\ b.there = a.there
                 /\ b.withheld = a.withheld /\ b.missed = a.missed /\ b.cold = a.cold
                 /\ b.alone = a.alone /\ b.read = a.read /\ b.buffer = a.buffer /\ b.written = a.written
                 /\ ~b.moved => ~a.moved /\ ~(a.pc = "reading" /\ Key(j) = d)
  <2> DEFINE a == run[j]
             b == run'[j]
  <2>1. a \in RunSet
    BY <1>4
  <2>2. CASE a.pc = "reading" /\ Key(j) = d
    <3>1. b = [a EXCEPT !.moved = TRUE]
      BY <1>12, <2>2
    <3> HIDE DEF a, b
    <3>2. /\ b \in RunSet
          /\ b.pc = a.pc /\ b.todo = a.todo /\ b.since = a.since /\ b.offset = a.offset
          /\ b.pages = a.pages /\ b.received = a.received /\ b.there = a.there
          /\ b.withheld = a.withheld /\ b.missed = a.missed /\ b.cold = a.cold
          /\ b.alone = a.alone /\ b.read = a.read /\ b.buffer = a.buffer /\ b.written = a.written
          /\ b.moved
      BY <2>1, <3>1 DEF RunSet
    <3> QED
      BY <2>1, <3>2 DEF a, b
  <2>3. CASE ~(a.pc = "reading" /\ Key(j) = d)
    <3>1. b = a
      BY <1>12, <2>3
    <3> QED
      BY <3>1, <2>1, <2>3
  <2> QED
    BY <2>2, <2>3
<1>14. \A j \in Jobs : (Works(run'[j]) <=> Works(run[j])) /\ (Runs(run'[j]) <=> Runs(run[j]))
  BY <1>13 DEF Works, Runs
<1>15. Typed'
  <2>1. run' \in [Jobs -> RunSet]
    <3>1. run' = [j \in Jobs |-> run'[j]]
      BY <1>3 DEF Moved
    <3> QED
      BY <3>1, <1>13
  <2> QED
    BY <2>1, <1>1, <1>9, UsdaAssumption DEF UsdaInv, Typed
<1>16. Plans'
  <2> SUFFICES ASSUME NEW j \in Jobs PROVE Planned(j, run'[j])
    BY DEF Plans, Planned
  <2>1. Planned(j, run[j])
    BY DEF UsdaInv, Plans
  <2> QED
    BY <2>1, <1>13, <1>14 DEF Planned
<1>17. Faithful'
  <2>1. IsPublished'
    <3> SUFFICES ASSUME NEW e \in Datasets, NEW r \in DOMAIN published'[e]
                 PROVE  <<e, r, published'[e][r]>> \in everPublished'
      BY DEF IsPublished
    <3>1. CASE e = d /\ r \in new
      BY <3>1, <1>3, <1>7, <1>10
    <3>2. CASE ~(e = d /\ r \in new)
      <4>1. r \in DOMAIN published[e] /\ published'[e][r] = published[e][r]
        BY <3>2, <1>7, <1>10
      <4> QED
        BY <4>1, <1>11 DEF UsdaInv, Faithful, IsPublished
    <3> QED
      BY <3>1, <3>2
  <2>2. StoredWasPublished'
    BY <1>1, <1>11 DEF UsdaInv, Faithful, StoredWasPublished
  <2>3. ASSUME NEW j \in Jobs PROVE HeldWasPublished(run[j])'
    <3>1. HeldWasPublished(run[j])
      BY DEF UsdaInv, Faithful
    <3> QED
      BY <3>1, <1>11, <1>13, <1>14 DEF HeldWasPublished
  <2> QED
    BY <2>1, <2>2, <2>3 DEF Faithful
<1>18. ASSUME NEW x \in Stored(d) \cup Held(d), w < Week(x[2]) - OverlapWeeks, NEW r \in new
       PROVE  <<d, r>> \in excused'
  <2> DEFINE N == {0} \cup {Week(y[2]) : y \in Stored(d) \cup Held(d)}
  <2>1. N \in SUBSET (0..MaxWeek) /\ N # {} /\ MaxWeek \in Nat
    <3>1. \A y \in Stored(d) \cup Held(d) : Week(y[2]) \in 0..MaxWeek
      BY HeldAreRows, WeekOfRow, UsdaAssumption
    <3> QED
      BY <3>1, UsdaAssumption
  <2>2. Week(x[2]) \in N
    OBVIOUS
  <2>3. newest = Max(N)
    BY DEF newest
  <2> HIDE DEF N
  <2>4. newest \in N /\ Week(x[2]) <= newest
    BY <2>1, <2>2, <2>3, MaxIs
  <2>5. w \in Int /\ Week(x[2]) \in Int /\ newest \in Int /\ OverlapWeeks \in Int
    <3>1. newest \in 0..MaxWeek /\ Week(x[2]) \in 0..MaxWeek
      BY <2>1, <2>2, <2>4
    <3>2. w \in 1..MaxWeek
      BY DEF Weeks
    <3> QED
      BY <3>1, <3>2, UsdaAssumption
  <2>6. w < newest - OverlapWeeks
    BY <2>4, <2>5, <1>18
  <2> QED
    BY <2>6, <1>3
<1>19. Whole'
  <2>1. HolesHaveACause'
    <3> SUFFICES ASSUME NEW e \in Datasets, NEW x \in Stored(e), NEW r \in DOMAIN published'[e],
                        Week(r) < Week(x[2]) - OverlapWeeks
                 PROVE  <<e, r>> \in DOMAIN table \cup excused'
      BY <1>1 DEF HolesHaveACause, Stored
    <3>1. CASE e = d /\ r \in new
      BY <3>1, <1>6, <1>18
    <3>2. CASE ~(e = d /\ r \in new)
      <4>1. r \in DOMAIN published[e]
        BY <3>2, <1>7, <1>10
      <4> QED
        BY <4>1, <1>11 DEF UsdaInv, Whole, HolesHaveACause
    <3> QED
      BY <3>1, <3>2
  <2>2. ASSUME NEW j \in Jobs PROVE HolesOf(run[j])' /\ Resumes(run[j])'
    <3> DEFINE b == run'[j]
    <3>1. HolesOf(run[j]) /\ Resumes(run[j])
      BY DEF UsdaInv, Whole
    <3>2. b.buffer = run[j].buffer /\ b.missed = run[j].missed
      BY <1>13
    <3>3. HolesOf(run[j])'
      <4> SUFFICES ASSUME NEW x \in DOMAIN run[j].buffer, NEW r \in DOMAIN published'[x[1]],
                          Week(r) < Week(x[2]) - OverlapWeeks
                   PROVE  <<x[1], r>> \in DOMAIN table \cup DOMAIN run[j].buffer \cup excused' \cup run[j].missed
        BY <1>1, <3>2 DEF HolesOf
      <4>1. x[1] \in Datasets
        <5>1. run[j].buffer \in Partial(Datasets \X Rows)
          BY <1>4 DEF RunSet
        <5> QED
          BY <5>1, PartialIs
      <4>2. CASE x[1] = d /\ r \in new
        <5>1. x \in Held(d)
          BY <4>2 DEF Held
        <5> QED
          BY <5>1, <4>2, <1>6, <1>18
      <4>3. CASE ~(x[1] = d /\ r \in new)
        <5>1. r \in DOMAIN published[x[1]]
          BY <4>1, <4>3, <1>7, <1>10
        <5> QED
          BY <5>1, <3>1, <1>11 DEF HolesOf
      <4> QED
        BY <4>2, <4>3
    <3>4. Resumes(run[j])'
      BY <3>1, <1>1, <1>13, <1>14 DEF Resumes, ResumesFrom
    <3> QED
      BY <3>3, <3>4
  <2> QED
    BY <2>1, <2>2 DEF Whole
<1>20. Reading'
  <2> SUFFICES ASSUME NEW j \in Jobs PROVE ReadSoFar(run[j])'
    BY DEF Reading
  <2> DEFINE a == run[j]
             b == run'[j]
  <2>1. ReadSoFar(a) /\ Planned(j, a) /\ a \in RunSet
    BY <1>4 DEF UsdaInv, Reading, Plans
  <2>2. CASE b.moved
    BY <2>2 DEF ReadSoFar
  <2>3. CASE ~b.moved /\ Works(a)
    <3>1. ~a.moved /\ ~(a.pc = "reading" /\ Key(j) = d)
      BY <2>3, <1>13
    <3>2. Head(a.todo) \in Datasets
      BY <2>1, <2>3, HeadTailProperties DEF Planned, RunSet
    <3>3. a.pc = "reading" => Matching(Head(a.todo), a.since)' = Matching(Head(a.todo), a.since)
      <4>1. a.pc = "reading" => Head(a.todo) \in Datasets \ {d}
        BY <3>1, <3>2 DEF Key
      <4>2. \A e \in Datasets \ {d} : published'[e] = published[e]
        BY <1>10
      <4> HIDE DEF a
      <4> QED
        BY <4>1, <4>2, <1>13 DEF Matching, a
    <3> QED
      BY <2>1, <2>3, <3>1, <3>3, <1>13, <1>14 DEF ReadSoFar
  <2>4. CASE ~Works(a)
    BY <2>4, <1>14 DEF ReadSoFar
  <2> QED
    BY <2>2, <2>3, <2>4
<1>21. Reporting'
  <2>1. ASSUME NEW j \in Jobs PROVE Reports(run[j])'
    <3>1. Reports(run[j])
      BY DEF UsdaInv, Reporting
    <3> QED
      BY <3>1, <1>1, <1>13, <1>14 DEF Reports
  <2>2. \A j \in Jobs : run'[j].alone = run[j].alone
    BY <1>13
  <2>3. Alone'
    BY <2>2, <1>14 DEF UsdaInv, Reporting, Alone
  <2> QED
    BY <2>1, <2>3 DEF Reporting
<1> QED
  BY <1>15, <1>16, <1>17, <1>19, <1>20, <1>21 DEF UsdaInv

(* Every step keeps the invariant.                                              *)
LEMMA NextKeeps ==
  ASSUME UsdaInv, [Next]_vars
  PROVE  UsdaInv'
<1>1. CASE Publish
  BY <1>1, PublishKeeps
<1>2. CASE Correct
  BY <1>2, CorrectKeeps
<1>3. ASSUME NEW j \in Jobs, Start(j) PROVE UsdaInv'
  BY <1>3, StartKeeps
<1>4. ASSUME NEW j \in Jobs, NotResolved(j) PROVE UsdaInv'
  BY <1>4, FailKeeps DEF NotResolved, Others
<1>5. ASSUME NEW j \in Jobs, Page(j) PROVE UsdaInv'
  BY <1>5, PageKeeps
<1>6. ASSUME NEW j \in Jobs, PageFails(j) PROVE UsdaInv'
  BY <1>6, FailKeeps DEF PageFails, Others
<1>7. ASSUME NEW j \in Jobs, Upsert(j) PROVE UsdaInv'
  BY <1>7, UpsertKeeps
<1>8. ASSUME NEW j \in Jobs, Commit(j) PROVE UsdaInv'
  BY <1>8, CommitKeeps
<1>9. CASE UNCHANGED vars
  <2>1. /\ published' = published /\ everPublished' = everPublished /\ table' = table
        /\ run' = run /\ changes' = changes /\ started' = started /\ excused' = excused
    BY <1>9 DEF vars
  <2>2. Typed' /\ Plans'
    BY <2>1 DEF UsdaInv, Typed, Plans, Planned
  <2>3. Faithful'
    BY <2>1 DEF UsdaInv, Faithful, IsPublished, StoredWasPublished, HeldWasPublished
  <2>4. Whole'
    BY <2>1 DEF UsdaInv, Whole, HolesHaveACause, Stored, HolesOf, Resumes, ResumesFrom
  <2>5. Reading'
    BY <2>1 DEF UsdaInv, Reading, ReadSoFar, Matching
  <2>6. Reporting'
    BY <2>1 DEF UsdaInv, Reporting, Alone, Reports
  <2> QED
    BY <2>2, <2>3, <2>4, <2>5, <2>6 DEF UsdaInv
<1> QED
  BY <1>1, <1>2, <1>3, <1>4, <1>5, <1>6, <1>7, <1>8, <1>9 DEF Next

(* The invariant of the polls holds throughout.                                 *)
THEOREM UsdaIsKept == Spec => []UsdaInv
<1>1. Init => UsdaInv
  BY InitHolds
<1>2. UsdaInv /\ [Next]_vars => UsdaInv'
  BY NextKeeps
<1> QED
  BY <1>1, <1>2, PTL DEF Spec

-----------------------------------------------------------------------------
(* The properties                                                               *)

(* What stands in the tables was published by the dataset it stands under, and  *)
(* no row a horizon has passed is missing from them without a reason, whatever  *)
(* the publisher does while a job reads and whatever fails.                     *)
THEOREM UsdaTables == Spec => []TablesAreFaithful
<1>1. UsdaInv => TablesAreFaithful
  <2> SUFFICES ASSUME UsdaInv PROVE TypeOK
    BY DEF UsdaInv, TablesAreFaithful, Whole, Faithful
  <2>1. \A d \in Datasets : DOMAIN published[d] \subseteq Rows
    BY PublishedIs DEF UsdaInv
  <2>2. DOMAIN table \subseteq Datasets \X Rows /\ Range(table) \subseteq Measures
    BY PartialIs DEF UsdaInv, Typed, Range
  <2>3. ASSUME NEW j \in Jobs
        PROVE  /\ run[j].pc \in {"idle", "reading", "read", "written", "done", "failed"}
               /\ run[j].pages \in 0..PageCap /\ run[j].offset = run[j].pages * PageLimit
               /\ run[j].pc \in {"reading", "read"} => Range(run[j].todo) \subseteq Range(Keys[j])
    <3>1. run[j] \in RunSet /\ Planned(j, run[j])
      BY RunIs DEF UsdaInv, Plans
    <3>2. run[j].pages \in Nat /\ run[j].pc \in Pcs /\ PageCap \in Nat
      BY <3>1, UsdaAssumption DEF RunSet
    <3> QED
      BY <3>1, <3>2 DEF Planned, Works, Pcs
  <2> QED
    BY <2>1, <2>2, <2>3 DEF TypeOK, UsdaInv, Typed
<1> QED
  BY <1>1, UsdaIsKept, PTL

(* A read that ends has met every row that was there all the time, or the row   *)
(* was withheld, its week cut by a page boundary, or the dataset grew meanwhile. *)
THEOREM UsdaReads == Spec => []ReadLossHasACause
<1>1. UsdaInv => ReadLossHasACause
  BY DEF UsdaInv, Reading, ReadSoFar, Works, ReadLossHasACause
<1> QED
  BY <1>1, UsdaIsKept, PTL

(* A run that has its datasets to itself reports the rows its commit changes,   *)
(* and leaves every row it read as it read it.                                  *)
THEOREM UsdaReports == Spec => ReportsWhatChanged
<1> DEFINE Step(j) ==
      (run[j].pc = "written" /\ run'[j].pc = "done" /\ run[j].alone) =>
         /\ run[j].written = Cardinality({x \in DOMAIN table' :
                                x \notin DOMAIN table \/ table[x] # table'[x]})
         /\ \A x \in DOMAIN run[j].read : table'[x] = run[j].read[x]
<1>1. ASSUME UsdaInv, Next, NEW j \in Jobs, run[j].pc = "written", run'[j].pc = "done"
      PROVE  Commit(j)
  <2>1. run \in [Jobs -> RunSet]
    BY <1>1 DEF UsdaInv, Typed
  <2>2. ASSUME Publish PROVE FALSE
    <3>1. PICK d \in Datasets : run' = Moved(d)
      BY <2>2 DEF Publish
    <3>2. run'[j] = run[j]
      BY <3>1, <1>1 DEF Moved
    <3> QED
      BY <3>2, <1>1
  <2>3. ASSUME Correct PROVE FALSE
    BY <2>3, <1>1 DEF Correct
  <2>4. ASSUME NEW i \in Jobs, Start(i) PROVE FALSE
    <3>1. i # j
      BY <2>4, <1>1 DEF Start, Active
    <3>2. run'[j] = run[j] \/ run'[j] = [run[j] EXCEPT !.alone = FALSE]
      BY <2>4, <3>1 DEF Start
    <3>3. run'[j].pc = run[j].pc
      BY <3>2, <2>1 DEF RunSet
    <3> QED
      BY <3>3, <1>1
  <2>5. ASSUME NEW i \in Jobs, Fail(i) PROVE FALSE
    <3>1. CASE i = j
      <4>1. run'[j] = [Idle EXCEPT !.pc = "failed"]
        BY <3>1, <2>1, <2>5 DEF Fail
      <4> QED
        BY <4>1, <1>1 DEF Idle
    <3>2. CASE i # j
      BY <3>2, <2>1, <2>5, <1>1 DEF Fail
    <3> QED
      BY <3>1, <3>2
  <2>6. ASSUME NEW i \in Jobs, Page(i) \/ Upsert(i), ~Fail(i) PROVE FALSE
    <3>1. i # j
      BY <2>6, <1>1 DEF Page, Upsert
    <3>2. run'[j] = run[j]
      BY <3>1, <2>1, <2>6 DEF Page, Upsert
    <3> QED
      BY <3>2, <1>1
  <2>7. ASSUME NEW i \in Jobs, Commit(i), i # j PROVE FALSE
    BY <2>7, <2>1, <1>1 DEF Commit
  <2> QED
    BY <2>2, <2>3, <2>4, <2>5, <2>6, <2>7, <1>1 DEF Next, NotResolved, PageFails
<1>2. ASSUME UsdaInv, [Next]_vars, NEW j \in Jobs PROVE Step(j)
  <2> SUFFICES ASSUME run[j].pc = "written", run'[j].pc = "done", run[j].alone PROVE Step(j)
    OBVIOUS
  <2> DEFINE wrote == run[j].buffer
  <2>1. Next
    BY <1>2 DEF vars
  <2>2. Commit(j)
    BY <1>1, <1>2, <2>1
  <2>3. Typed /\ Runs(run[j]) /\ Reports(run[j]) /\ run[j] \in RunSet
    BY <1>2, RunIs DEF UsdaInv, Reporting, Runs
  <2>4. wrote \in Partial(Datasets \X Rows) /\ table' = Overlaid(wrote, table)
    BY <2>2, <2>3 DEF Commit, RunSet
  <2>5. /\ \A x \in DOMAIN wrote : Differs(x, wrote[x], table)
        /\ \A x \in DOMAIN run[j].read : ~Differs(x, run[j].read[x], table')
        /\ run[j].written = Cardinality(DOMAIN wrote)
    BY <2>3, <2>4 DEF Reports
  <2> HIDE DEF wrote
  <2>6. /\ DOMAIN Overlaid(wrote, table) = DOMAIN wrote \cup DOMAIN table
        /\ \A x \in DOMAIN wrote : Overlaid(wrote, table)[x] = wrote[x]
        /\ \A x \in DOMAIN table \ DOMAIN wrote : Overlaid(wrote, table)[x] = table[x]
    BY <2>3, <2>4, ViewIs
  <2>7. {x \in DOMAIN table' : x \notin DOMAIN table \/ table[x] # table'[x]} = DOMAIN wrote
    BY <2>4, <2>5, <2>6 DEF Differs
  <2> QED
    BY <2>5, <2>7 DEF Differs
<1>3. UsdaInv /\ [Next]_vars => [\A j \in Jobs : Step(j)]_vars
  BY <1>2
<1> QED
  BY <1>3, UsdaIsKept, PTL DEF Spec, ReportsWhatChanged
=============================================================================
