------------------------------ MODULE ApiCache ------------------------------
(***************************************************************************)
(* TTLCache of src/app/api/cache.py under the thread pool that runs sync   *)
(* routes: the lookup and the store hold the lock, the computation between *)
(* them does not.  The computation is the conclusion route's: the engine   *)
(* reads the feature tables several times in a READ COMMITTED transaction, *)
(* here twice, while features_build replaces their content.                *)
(*                                                                         *)
(* A query string is a sequence of parameters, each a name and a value;    *)
(* the content of the tables is known by the number of builds that have    *)
(* committed.  The two clocks of the code (monotonic for expiry, UTC for   *)
(* computed_at) are one.                                                   *)
(***************************************************************************)
EXTENDS Integers, Sequences, FiniteSets, Functions

CONSTANTS
  Threads,       \* the threads that serve requests
  QueryStrings,  \* what is asked of the conclusion route
  TTL,           \* DEFAULT_TTL_SECONDS
  MaxCompute,    \* bound: how long one computation takes
  MaxClock,      \* bound: the last instant of the clock
  MaxBuilds,     \* bound: builds committed
  Absent

ASSUME CacheAssumption ==
  /\ {TTL, MaxCompute, MaxClock, MaxBuilds} \subseteq Nat
  /\ QueryStrings \subseteq Seq([name : STRING, value : STRING])
  /\ Absent \notin Nat

VARIABLES
  clock,
  committed,  \* when each build committed; the first content is number 0
  entries,    \* the dict: Absent, or when it expires and the answer it holds
  thread      \* what each thread is doing

cacheVars == <<clock, committed, entries, thread>>

(* How often a query string gives each of its parameters.                  *)
Counted(q) == [p \in Range(q) |-> Cardinality({i \in DOMAIN q : q[i] = p})]

(* Variant: the path alone.                                                *)
PathOnly(q) == "/api/conclusion"

(* key_from_request: every parameter with its repetitions, sorted, so      *)
(* their order is lost.                                                    *)
KeyOf(q) == Counted(q)

CacheKeys == {KeyOf(q) : q \in QueryStrings}

(* What the route is called with: a scalar parameter given several times   *)
(* has the last value given.                                               *)
Question(q) ==
  [n \in {q[i].name : i \in DOMAIN q} |->
     q[CHOOSE i \in DOMAIN q :
         q[i].name = n /\ \A j \in i + 1 .. Len(q) : q[j].name # n].value]

Questions == {Question(q) : q \in QueryStrings}

Instants == 0 .. MaxClock
Builds == 0 .. MaxBuilds
Build == Len(committed)  \* the content the tables have now

Idle == [pc |-> "idle"]

CacheInit ==
  /\ clock = 0
  /\ committed = <<>>
  /\ entries = [key \in CacheKeys |-> Absent]
  /\ thread = [t \in Threads |-> Idle]

(* MaxCompute: no computation is under way for longer.                     *)
ClockTick ==
  /\ clock < MaxClock
  /\ \A t \in Threads :
       thread[t].pc \in {"computing", "reading", "computed"} => clock - thread[t].at < MaxCompute
  /\ clock' = clock + 1
  /\ UNCHANGED <<committed, entries, thread>>

(* features_build commits: everything in one transaction.                  *)
CommitBuild ==
  /\ Build < MaxBuilds
  /\ committed' = Append(committed, clock)
  /\ UNCHANGED <<clock, entries, thread>>

-----------------------------------------------------------------------------
(* get_or_compute.                                                         *)

(* Variant: whatever is in the dict is served.                             *)
AnyEntry(entry) == entry # Absent

Fresh(entry) == entry # Absent /\ entry.expires > clock

Serving(q, answer) == [pc |-> "serving", asked |-> q, answer |-> answer]

Hit(t, q) ==
  /\ thread[t].pc = "idle"
  /\ Fresh(entries[KeyOf(q)])
  /\ thread' = [thread EXCEPT ![t] = Serving(q, entries[KeyOf(q)].answer)]
  /\ UNCHANGED <<clock, committed, entries>>

(* computed_at is taken before the first read.                             *)
Miss(t, q) ==
  /\ thread[t].pc = "idle"
  /\ ~Fresh(entries[KeyOf(q)])
  /\ thread' = [thread EXCEPT ![t] = [pc |-> "computing", asked |-> q, at |-> clock]]
  /\ UNCHANGED <<clock, committed, entries>>

FirstRead(t) ==
  /\ thread[t].pc = "computing"
  /\ thread' = [thread EXCEPT
       ![t] = [pc |-> "reading", asked |-> @.asked, at |-> @.at, first |-> Build]]
  /\ UNCHANGED <<clock, committed, entries>>

(* Variant: computed_at taken when the answer is ready.                    *)
JustNow(t) == clock

ComputedAt(t) == thread[t].at

LastRead(t) ==
  /\ thread[t].pc = "reading"
  /\ thread' = [thread EXCEPT
       ![t] = [pc |-> "computed", asked |-> @.asked, at |-> @.at,
               answer |-> [to |-> Question(@.asked), first |-> @.first, last |-> Build,
                           computed_at |-> ComputedAt(t)]]]
  /\ UNCHANGED <<clock, committed, entries>>

Expiry == clock + TTL

(* A slower computation replaces the answer of a faster one.               *)
Store(t) ==
  /\ thread[t].pc = "computed"
  /\ entries' = [entries EXCEPT
       ![KeyOf(thread[t].asked)] = [expires |-> Expiry, answer |-> thread[t].answer]]
  /\ thread' = [thread EXCEPT ![t] = Serving(thread[t].asked, thread[t].answer)]
  /\ UNCHANGED <<clock, committed>>

(* The engine raises: nothing is stored.                                   *)
ComputeFails(t) ==
  /\ thread[t].pc \in {"computing", "reading"}
  /\ thread' = [thread EXCEPT ![t] = Idle]
  /\ UNCHANGED <<clock, committed, entries>>

Respond(t) ==
  /\ thread[t].pc = "serving"
  /\ thread' = [thread EXCEPT ![t] = Idle]
  /\ UNCHANGED <<clock, committed, entries>>

Serve(t) ==
  \/ \E q \in QueryStrings : Hit(t, q) \/ Miss(t, q)
  \/ FirstRead(t) \/ LastRead(t) \/ Store(t) \/ ComputeFails(t) \/ Respond(t)

CacheNext == ClockTick \/ CommitBuild \/ \E t \in Threads : Serve(t)

CacheSpec == CacheInit /\ [][CacheNext]_cacheVars

-----------------------------------------------------------------------------
(* Properties.                                                             *)

Answers == [to : Questions, first : Builds, last : Builds, computed_at : Instants]

(* The type of every variable.                                             *)
CacheTypeOK ==
  /\ clock \in Instants
  /\ committed \in Seq(Instants) /\ Build \in Builds
  /\ entries \in [CacheKeys -> {Absent} \cup [expires : 0 .. MaxClock + TTL, answer : Answers]]
  /\ \A t \in Threads : thread[t] \in
       {Idle} \cup [pc : {"computing"}, asked : QueryStrings, at : Instants]
              \cup [pc : {"reading"}, asked : QueryStrings, at : Instants, first : Builds]
              \cup [pc : {"computed"}, asked : QueryStrings, at : Instants, answer : Answers]
              \cup [pc : {"serving"}, asked : QueryStrings, answer : Answers]

(* When content number b was replaced, or Absent while it is current.      *)
ReplacedAt(b) == IF b < Build THEN committed[b + 1] ELSE Absent

IsServed(t) == thread[t].pc = "serving"
Served(t) == thread[t].answer

RightAnswer(t) == Served(t).to = Question(thread[t].asked)

(* No parameter is given twice.                                            *)
Plain(q) == \A i, j \in DOMAIN q : q[i].name = q[j].name => i = j

(* "The second caller receives the first caller's conclusion": a query     *)
(* string without repetitions, its parameters in any order, is served only *)
(* the answer to its own question, whatever other threads ask and store.   *)
PlainQuestionIsAnswered == \A t \in Threads : IsServed(t) /\ Plain(thread[t].asked) => RightAnswer(t)

(* "computed_at: the time the VALUE was computed": every table content an  *)
(* answer was computed from was still current at its computed_at; a        *)
(* timestamp later than the data it describes would claim too much.        *)
ComputedAtIsHonest ==
  \A t \in Threads : IsServed(t) =>
    \A b \in {Served(t).first, Served(t).last} :
      ReplacedAt(b) = Absent \/ ReplacedAt(b) >= Served(t).computed_at

(* The lifetime bound: a hit never serves content that had been replaced   *)
(* longer ago than the TTL and one computation, in whatever order the      *)
(* concurrent misses for one key store their answers.                      *)
StalenessIsBounded ==
  [][\A t \in Threads :
       thread[t].pc = "idle" /\ thread'[t].pc = "serving" =>
         \A b \in {thread'[t].answer.first, thread'[t].answer.last} :
           ReplacedAt(b) = Absent \/ clock - ReplacedAt(b) <= TTL + MaxCompute]_cacheVars

(* The engine's reads are not one snapshot: an answer mixes two builds     *)
(* only if a build committed while it was being computed, so after its     *)
(* computed_at; no answer mixes builds by way of the cache.                *)
MixedOnlyByACommit ==
  \A t \in Threads : IsServed(t) =>
    \A b \in Served(t).first + 1 .. Served(t).last : committed[b] >= Served(t).computed_at

(* An answer says truly of when it is, and of one build or two in a row.   *)
AnswersAreHonest == CacheTypeOK /\ ComputedAtIsHonest /\ MixedOnlyByACommit
=============================================================================
