----------------------------- MODULE RateLimiter -----------------------------
(***************************************************************************)
(* The rate limiter of src/app/api/middleware/ratelimit.py: two bounded    *)
(* stores of token buckets, one for the whole API and one for the          *)
(* conclusion endpoint, refilled lazily, ordered by last use, expired when *)
(* idle and evicted when full.  One worker's event loop runs check()       *)
(* without a pause, so a request is one step.                              *)
(*                                                                         *)
(* A client is a bucket key (client_key); time is in ticks, of which       *)
(* SecondTicks make a second, and tokens in units, of which Unit make one. *)
(***************************************************************************)
EXTENDS Integers, Sequences, FiniteSets, FiniteSetsExt

CONSTANTS
  Clients,
  Full,           \* GENERAL_CAPACITY, CONCLUSION_CAPACITY, in units
  Refill,         \* ..._REFILL_PER_SECOND, in units per tick
  Unit,
  StoreCapacity,  \* STORE_CAPACITY
  IdleTicks,      \* IDLE_EVICTION_SECONDS
  SecondTicks,
  MaxTime,        \* bound: the last instant of the clock
  MaxRestarts,    \* bound: restarts of the process
  None

Kinds == {"general", "conclusion"}
Paths == {"conclusion", "other"}
KindsOf(path) == IF path = "conclusion" THEN Kinds ELSE {"general"}

(* "A bucket nobody has touched for this long is full anyway."             *)
ASSUME IdleAssumption ==
  /\ Full \in [Kinds -> Nat] /\ Refill \in [Kinds -> Nat \ {0}]
  /\ \A k \in Kinds : Full[k] >= Unit /\ IdleTicks * Refill[k] >= Full[k]

ASSUME LimitsAssumption ==
  /\ {Unit, StoreCapacity, IdleTicks, SecondTicks} \subseteq Nat \ {0}
  /\ {MaxTime, MaxRestarts} \subseteq Nat
  /\ None \notin Nat

VARIABLES
  now,
  store,     \* per kind, the OrderedDict of buckets, least recently used first
  answer,    \* what the last request was told, "none" when something else happened since
  restarts,
  touched    \* history: when each client last used each store

vars == <<now, store, answer, restarts, touched>>

Never == [k \in Kinds |-> [c \in Clients |-> None]]

Init ==
  /\ now = 0
  /\ store = [k \in Kinds |-> <<>>]
  /\ answer = "none" /\ restarts = 0
  /\ touched = Never

Tick ==
  /\ now < MaxTime
  /\ now' = now + 1 /\ answer' = "none"
  /\ UNCHANGED <<store, restarts, touched>>

-----------------------------------------------------------------------------
(* BucketStore.                                                            *)

Keys(q) == {q[i].key : i \in DOMAIN q}
Place(q, c) == CHOOSE i \in DOMAIN q : q[i].key = c
BucketOf(q, c) == q[Place(q, c)]

(* _expire_idle stops at the first bucket that is still in use.            *)
Unexpired(q) ==
  LET live == {i \in DOMAIN q : q[i].seen > now - IdleTicks}
  IN  IF live = {} THEN <<>> ELSE SubSeq(q, Min(live), Len(q))

(* Least recently used first, until there is room for one more.            *)
Evicted(q) == SubSeq(q, Max({1, Len(q) - StoreCapacity + 2}), Len(q))

(* Variant: last_seen is updated and the bucket is not moved to the end.   *)
LeftInPlace(q, c) ==
  [i \in DOMAIN q |-> IF q[i].key = c THEN [q[i] EXCEPT !.seen = now] ELSE q[i]]

(* move_to_end.                                                            *)
MovedToEnd(q, c) ==
  LET others == [i \in 1 .. Len(q) - 1 |-> IF i < Place(q, c) THEN q[i] ELSE q[i + 1]]
  IN  Append(others, [BucketOf(q, c) EXCEPT !.seen = now])

(* get: the bucket of c, made full if there is none.                       *)
Got(q, c, k) ==
  IF c \in Keys(q) THEN MovedToEnd(q, c)
  ELSE Append(Evicted(Unexpired(q)),
              [key |-> c, tokens |-> Full[k], refilled |-> now, seen |-> now])

-----------------------------------------------------------------------------
(* check.                                                                  *)

Refilled(b, k) ==
  [b EXCEPT !.tokens = Min({Full[k], @ + (now - b.refilled) * Refill[k]}), !.refilled = now]

With(q, b) == [i \in DOMAIN q |-> IF q[i].key = b.key THEN b ELSE q[i]]

Checked(c, k) ==
  LET q == Got(store[k], c, k) IN With(q, Refilled(BucketOf(q, c), k))

Looked(c, path) ==
  [k \in Kinds |-> IF k \in KindsOf(path) THEN Checked(c, k) ELSE store[k]]

(* The kinds of limit a request finds short, in the stores it looked at.   *)
Short(looked, c, path) == {k \in KindsOf(path) : BucketOf(looked[k], c).tokens < Unit}

Charged(q, c) == With(q, [BucketOf(q, c) EXCEPT !.tokens = @ - Unit])

(* Nothing is spent unless everything can be.                              *)
RefusedStore(looked, c, path) == looked

Touch(c, path) ==
  touched' = [k \in Kinds |->
                IF k \in KindsOf(path) THEN [touched[k] EXCEPT ![c] = now] ELSE touched[k]]

Admit(c, path) ==
  /\ LET looked == Looked(c, path)
     IN  /\ Short(looked, c, path) = {}
         /\ store' = [k \in Kinds |-> IF k \in KindsOf(path) THEN Charged(looked[k], c)
                                      ELSE looked[k]]
  /\ answer' = "admitted"
  /\ Touch(c, path)
  /\ UNCHANGED <<now, restarts>>

Missing(looked, c, k) == Unit - BucketOf(looked[k], c).tokens

(* Variant: the wait rounded down.                                         *)
RoundedDown(looked, c, path) ==
  Max({1} \cup {Missing(looked, c, k) \div (Refill[k] * SecondTicks) : k \in Short(looked, c, path)})

(* max(1, int(wait) + 1) of the longest wait, in seconds.                  *)
RetryAfter(looked, c, path) ==
  Max({1 + Missing(looked, c, k) \div (Refill[k] * SecondTicks) : k \in Short(looked, c, path)})

Refuse(c, path) ==
  /\ LET looked == Looked(c, path)
     IN  /\ Short(looked, c, path) # {}
         /\ store' = RefusedStore(looked, c, path)
  /\ answer' = "refused"
  /\ Touch(c, path)
  /\ UNCHANGED <<now, restarts>>

(* The stores are in memory.                                               *)
Restart ==
  /\ restarts < MaxRestarts
  /\ restarts' = restarts + 1
  /\ store' = [k \in Kinds |-> <<>>] /\ answer' = "none"
  /\ touched' = Never
  /\ UNCHANGED now

Next ==
  \/ Tick
  \/ \E c \in Clients, path \in Paths : Admit(c, path) \/ Refuse(c, path)
  \/ Restart

Spec == Init /\ [][Next]_vars

-----------------------------------------------------------------------------
(* Properties.                                                             *)

Buckets(k) == [key : Clients, tokens : 0 .. Full[k], refilled : 0 .. MaxTime, seen : 0 .. MaxTime]

(* The type of every variable; a store never holds more than it may, holds *)
(* a client once, and is ordered by last use.                              *)
TypeOK ==
  /\ now \in 0 .. MaxTime /\ answer \in {"none", "admitted", "refused"}
  /\ restarts \in 0 .. MaxRestarts
  /\ \A k \in Kinds :
       /\ store[k] \in Seq(Buckets(k)) /\ Len(store[k]) <= StoreCapacity
       /\ \A i, j \in DOMAIN store[k] :
            i < j => store[k][i].key # store[k][j].key /\ store[k][i].seen <= store[k][j].seen
       /\ touched[k] \in [Clients -> Nat \cup {None}]

(* What a client could spend now: a bucket that is not stored is full.     *)
Available(c, k) ==
  IF c \in Keys(store[k]) THEN Refilled(BucketOf(store[k], c), k).tokens ELSE Full[k]

(* What a client could spend that makes no request for so many ticks.      *)
Later(c, k, ticks) == Min({Full[k], Available(c, k) + ticks * Refill[k]})

(* dispatch's Retry-After: a client that is refused now and waits as long  *)
(* as it is told, in whole seconds, finds a token in every bucket its      *)
(* request needs, however full the buckets were.                           *)
RetryAfterIsEnough ==
  \A c \in Clients, path \in Paths :
    LET looked == Looked(c, path)
    IN  Short(looked, c, path) # {} =>
          \A k \in KindsOf(path) :
            Later(c, k, SecondTicks * RetryAfter(looked, c, path)) >= Unit

(* Together: what the two stores hold, and what a refusal says of it.      *)
StoresAreSound == TypeOK /\ RetryAfterIsEnough

Ideal == INSTANCE TokenBucket WITH
  avail <- [k \in Kinds |-> [c \in Clients |-> Available(c, k)]],
  used <- touched, Room <- StoreCapacity, Never <- None

(* The lazily refilled, bounded and expiring stores give each client the   *)
(* bucket TokenBucket promises: what it has spent comes back by the refill *)
(* alone, or by an eviction that StoreCapacity other clients' requests     *)
(* explain, or by a restart; _expire_idle forgets nothing that was spent.  *)
IdealBuckets == Ideal!Spec
=============================================================================
