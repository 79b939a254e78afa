------------------------------ MODULE ApiProofs ------------------------------
(* The properties of what stands between a request and its answer: of module    *)
(* RateLimiter, for any clients, limits, rates and store sizes, that the stores *)
(* stay what TypeOK says, Retry-After is long enough, and the lazily refilled,  *)
(* bounded, expiring stores implement the token buckets of module TokenBucket;  *)
(* and of module ApiCache, for any number of threads, query strings, builds and *)
(* lengths of time, that what an answer says of its own question and of its own *)
(* age is true, and the age is bounded.                                         *)
EXTENDS RateLimiter, ApiCache, SequenceTheorems, FiniteSetTheorems, WellFoundedInduction, TLAPS

(* One store, at instant n: a bucket was last refilled when it was last    *)
(* used, and the history of uses agrees.                                   *)
Sound(q, k, n, used) ==
  /\ q \in Seq(Buckets(k)) /\ Len(q) <= StoreCapacity
  /\ \A i, j \in 1 .. Len(q) : i < j => q[i].key # q[j].key /\ q[i].seen <= q[j].seen
  /\ \A i \in 1 .. Len(q) : /\ q[i].refilled = q[i].seen /\ q[i].seen <= n
                            /\ used[q[i].key] = q[i].seen

Users(k) == {c \in Clients : touched[k][c] # None}

LimiterInv ==
  /\ now \in 0 .. MaxTime /\ answer \in {"none", "admitted", "refused"}
  /\ restarts \in 0 .. MaxRestarts
  /\ store = [k \in Kinds |-> store[k]]
  /\ touched \in [Kinds -> [Clients -> Nat \cup {None}]]
  /\ \A k \in Kinds : Sound(store[k], k, now, touched[k]) /\ IsFiniteSet(Users(k))

-----------------------------------------------------------------------------
(* Arithmetic.                                                             *)

LEMMA LeastExists ==
  ASSUME NEW S \in SUBSET Nat, S # {}
  PROVE  Min(S) \in S /\ \A n \in S : Min(S) <= n
<1>1. PICK x \in S : \A y \in S : ~(<<y, x>> \in OpToRel(<, Nat))
  BY NatLessThanWellFounded, WFMin
<1>2. \A y \in S : ~(y < x)
  BY <1>1 DEF OpToRel
<1>3. \E m \in S : \A n \in S : m <= n
  BY <1>2
<1> QED
  BY <1>3 DEF Min

LEMMA MinOfTwo ==
  ASSUME NEW a \in Int, NEW b \in Int
  PROVE  Min({a, b}) = IF a <= b THEN a ELSE b
<1>1. \E m \in {a, b} : \A n \in {a, b} : m <= n
  OBVIOUS
<1>2. Min({a, b}) \in {a, b} /\ \A n \in {a, b} : Min({a, b}) <= n
  BY <1>1 DEF Min
<1> QED
  BY <1>2

LEMMA MaxOfTwo ==
  ASSUME NEW a \in Int, NEW b \in Int
  PROVE  Max({a, b}) = IF a >= b THEN a ELSE b
<1>1. \E m \in {a, b} : \A n \in {a, b} : m >= n
  OBVIOUS
<1>2. Max({a, b}) \in {a, b} /\ \A n \in {a, b} : Max({a, b}) >= n
  BY <1>1 DEF Max
<1> QED
  BY <1>2

LEMMA Product ==
  ASSUME NEW m \in Nat, NEW n \in Nat, NEW r \in Nat
  PROVE  /\ m * r \in Nat /\ (m + 1) * r = m * r + r
         /\ m <= n => m * r <= n * r
<1>1. m * r \in Nat /\ (m + 1) * r = m * r + r
  OBVIOUS
<1>2. ASSUME m <= n PROVE m * r <= n * r
  <2>1. n - m \in Nat /\ n = m + (n - m)
    BY <1>2
  <2>2. (n - m) * r \in Nat
    BY <2>1
  <2>3. n * r = m * r + (n - m) * r
    BY <2>1
  <2> QED
    BY <1>1, <2>2, <2>3
<1> QED
  BY <1>1, <1>2

(* One more than the quotient is enough.                                   *)
LEMMA QuotientAndOne ==
  ASSUME NEW m \in Nat, NEW d \in Nat \ {0}
  PROVE  m \div d \in Nat /\ d * (1 + m \div d) >= m
<1>1. m = d * (m \div d) + (m % d) /\ m % d \in 0 .. d - 1 /\ m \div d \in Int
  OBVIOUS
<1>2. m \div d \in Nat
  OBVIOUS
<1>3. d * (1 + m \div d) = d + d * (m \div d)
  BY <1>2
<1> QED
  BY <1>1, <1>2, <1>3

LEMMA Limits ==
  /\ \A k \in Kinds : /\ Full[k] \in Nat /\ Refill[k] \in Nat \ {0} /\ Full[k] >= Unit
                      /\ IdleTicks * Refill[k] >= Full[k]
  /\ Unit \in Nat \ {0} /\ StoreCapacity \in Nat \ {0} /\ IdleTicks \in Nat \ {0}
  /\ SecondTicks \in Nat \ {0} /\ MaxTime \in Nat /\ MaxRestarts \in Nat /\ None \notin Nat
BY IdleAssumption, LimitsAssumption

LEMMA RefilledIs ==
  ASSUME NEW k \in Kinds, NEW b \in Buckets(k), b.refilled <= now, now \in 0 .. MaxTime
  PROVE  /\ Refilled(b, k).tokens =
              IF Full[k] <= b.tokens + (now - b.refilled) * Refill[k]
              THEN Full[k] ELSE b.tokens + (now - b.refilled) * Refill[k]
         /\ Refilled(b, k) = [key |-> b.key, tokens |-> Refilled(b, k).tokens, refilled |-> now, seen |-> b.seen]
         /\ Refilled(b, k).tokens \in 0 .. Full[k]
         /\ Refilled(b, k).tokens >= b.tokens
<1>1. now - b.refilled \in Nat /\ b.tokens \in Nat /\ b.tokens <= Full[k] /\ Full[k] \in Nat /\ Refill[k] \in Nat
  BY Limits DEF Buckets
<1>2. (now - b.refilled) * Refill[k] \in Nat
  BY <1>1
<1>3. Min({Full[k], b.tokens + (now - b.refilled) * Refill[k]}) =
        IF Full[k] <= b.tokens + (now - b.refilled) * Refill[k]
        THEN Full[k] ELSE b.tokens + (now - b.refilled) * Refill[k]
  BY <1>1, <1>2, MinOfTwo
<1>4. Refilled(b, k) = [b EXCEPT !.tokens = Min({Full[k], b.tokens + (now - b.refilled) * Refill[k]}), !.refilled = now]
  BY DEF Refilled
<1>5. /\ Refilled(b, k).tokens = Min({Full[k], b.tokens + (now - b.refilled) * Refill[k]})
      /\ Refilled(b, k) = [key |-> b.key, tokens |-> Refilled(b, k).tokens, refilled |-> now, seen |-> b.seen]
  BY <1>4 DEF Buckets
<1> QED
  BY <1>1, <1>2, <1>3, <1>5

-----------------------------------------------------------------------------
(* Looking a bucket up, and putting one at the end.                        *)

LEMMA BucketAt ==
  ASSUME NEW k \in Kinds, NEW q \in Seq(Buckets(k)), NEW i \in 1 .. Len(q),
         \A m, n \in 1 .. Len(q) : m < n => q[m].key # q[n].key
  PROVE  Place(q, q[i].key) = i /\ BucketOf(q, q[i].key) = q[i] /\ q[i].key \in Keys(q)
<1>1. DOMAIN q = 1 .. Len(q) /\ Len(q) \in Nat
  BY LenProperties
<1>2. \A j \in DOMAIN q : q[j].key = q[i].key => j = i
  BY <1>1
<1>3. Place(q, q[i].key) = i
  BY <1>1, <1>2 DEF Place
<1> QED
  BY <1>1, <1>3 DEF BucketOf, Keys

LEMMA KeyPlaced ==
  ASSUME NEW k \in Kinds, NEW q \in Seq(Buckets(k)), NEW c \in Keys(q)
  PROVE  /\ Place(q, c) \in 1 .. Len(q) /\ q[Place(q, c)].key = c
         /\ BucketOf(q, c) = q[Place(q, c)] /\ BucketOf(q, c) \in Buckets(k)
<1>1. DOMAIN q = 1 .. Len(q)
  BY LenProperties
<1>2. \E i \in DOMAIN q : q[i].key = c
  BY DEF Keys
<1>3. Place(q, c) \in 1 .. Len(q) /\ q[Place(q, c)].key = c
  BY <1>1, <1>2 DEF Place
<1> QED
  BY <1>3, ElementOfSeq DEF BucketOf

(* Only the last bucket is of c: it is the one found, and the one replaced.*)
LEMMA LastBucket ==
  ASSUME NEW k \in Kinds, NEW s \in Seq(Buckets(k)), NEW c, c \notin Keys(s),
         NEW b \in Buckets(k), NEW d \in Buckets(k), b.key = c, d.key = c
  PROVE  BucketOf(Append(s, b), c) = b /\ With(Append(s, b), d) = Append(s, d)
<1> DEFINE g == Append(s, b)
           h == Append(s, d)
<1>1. /\ g \in Seq(Buckets(k)) /\ Len(g) = Len(s) + 1 /\ g[Len(s) + 1] = b
      /\ \A i \in 1 .. Len(s) : g[i] = s[i]
  BY AppendProperties
<1>2. /\ h \in Seq(Buckets(k)) /\ Len(h) = Len(s) + 1 /\ h[Len(s) + 1] = d
      /\ \A i \in 1 .. Len(s) : h[i] = s[i]
  BY AppendProperties
<1> HIDE DEF g, h
<1>3. Len(s) \in Nat /\ DOMAIN s = 1 .. Len(s) /\ DOMAIN g = 1 .. Len(s) + 1
  BY <1>1, LenProperties
<1>4. \A i \in 1 .. Len(s) : s[i].key # c
  BY <1>3 DEF Keys
<1>5. \A i \in 1 .. Len(s) + 1 : g[i].key = c <=> i = Len(s) + 1
  BY <1>1, <1>3, <1>4
<1>6. Place(g, c) = Len(s) + 1
  BY <1>3, <1>5 DEF Place
<1>7. With(g, d) = [i \in 1 .. Len(s) + 1 |-> h[i]]
  BY <1>1, <1>2, <1>3, <1>5 DEF With
<1>8. h = [i \in 1 .. Len(s) + 1 |-> h[i]]
  BY <1>2, <1>3, LenProperties
<1>9. BucketOf(g, c) = b /\ With(g, d) = h
  BY <1>1, <1>6, <1>7, <1>8 DEF BucketOf
<1> QED
  BY <1>9 DEF g, h

-----------------------------------------------------------------------------
(* BucketStore.get.                                                        *)

(* What is left of a store in front of the bucket of c: some of its other  *)
(* buckets, in their order, and room for one more.                         *)
Rest(q, k, c, s) ==
  /\ s \in Seq(Buckets(k)) /\ Len(s) < StoreCapacity
  /\ \E f \in [1 .. Len(s) -> 1 .. Len(q)] :
       /\ \A i, j \in 1 .. Len(s) : i < j => f[i] < f[j]
       /\ \A i \in 1 .. Len(s) : s[i] = q[f[i]] /\ q[f[i]].key # c

Bucket(c, t) == [key |-> c, tokens |-> t, refilled |-> now, seen |-> now]

(* A bucket that may be forgotten: nobody has used it for long, or it is   *)
(* the least recently used of a full store.                                *)
Forgettable(q, c, i) ==
  \/ q[i].seen <= now - IdleTicks
  \/ /\ Len(q) = StoreCapacity /\ c \notin Keys(q)
     /\ \A j \in 1 .. Len(q) : q[i].seen <= q[j].seen

LEMMA HitRest ==
  ASSUME NEW k \in Kinds, NEW q, NEW used, Sound(q, k, now, used), NEW c \in Keys(q)
  PROVE  \E s : /\ Rest(q, k, c, s)
                /\ Got(q, c, k) = Append(s, [BucketOf(q, c) EXCEPT !.seen = now])
                /\ \A i \in 1 .. Len(q) : q[i].key # c => q[i].key \in Keys(s)
<1> DEFINE p == Place(q, c)
           n == Len(q)
           s == [i \in 1 .. n - 1 |-> IF i < p THEN q[i] ELSE q[i + 1]]
           f == [i \in 1 .. n - 1 |-> IF i < p THEN i ELSE i + 1]
<1>1. p \in 1 .. n /\ q[p].key = c /\ n \in Nat /\ n <= StoreCapacity /\ q \in Seq(Buckets(k))
      /\ StoreCapacity \in Nat
  BY KeyPlaced, LenProperties, Limits DEF Sound
<1>2. \A i \in 1 .. n : q[i] \in Buckets(k)
  BY <1>1, ElementOfSeq
<1>3. \A i \in 1 .. n : i # p => q[i].key # c
  BY <1>1, BucketAt DEF Sound
<1> HIDE DEF p, n
<1>4. s \in Seq(Buckets(k)) /\ Len(s) = n - 1
  <2>1. n - 1 \in Nat /\ \A i \in 1 .. n - 1 : i \in 1 .. n /\ i + 1 \in 1 .. n
    BY <1>1
  <2>2. \A i \in 1 .. n - 1 : (IF i < p THEN q[i] ELSE q[i + 1]) \in Buckets(k)
    BY <1>2, <2>1
  <2>3. s \in Seq(Buckets(k))
    BY <2>1, <2>2, IsASeq
  <2>4. DOMAIN s = 1 .. n - 1
    OBVIOUS
  <2> HIDE DEF s
  <2> QED
    BY <2>1, <2>3, <2>4, LenProperties
<1>5. f \in [1 .. n - 1 -> 1 .. n] /\ \A i, j \in 1 .. n - 1 : i < j => f[i] < f[j]
  BY <1>1
<1>6. \A i \in 1 .. n - 1 : f[i] # p /\ s[i] = q[f[i]]
  BY <1>1
<1>7. Got(q, c, k) = Append(s, [BucketOf(q, c) EXCEPT !.seen = now])
  BY DEF Got, MovedToEnd, p, n
<1>8. ASSUME NEW i \in 1 .. n, q[i].key # c PROVE q[i].key \in Keys(s)
  <2>1. i # p
    BY <1>1, <1>8
  <2>2. \E j \in 1 .. n - 1 : f[j] = i
    <3>1. CASE i < p
      <4>1. i \in 1 .. n - 1 /\ f[i] = i
        BY <1>1, <3>1
      <4> QED
        BY <4>1
    <3>2. CASE i > p
      <4>1. i - 1 \in 1 .. n - 1 /\ f[i - 1] = i
        BY <1>1, <3>2
      <4> QED
        BY <4>1
    <3> QED
      BY <1>1, <2>1, <3>1, <3>2
  <2>3. DOMAIN s = 1 .. n - 1
    OBVIOUS
  <2> HIDE DEF s, f
  <2> QED
    BY <1>6, <2>2, <2>3 DEF Keys
<1>9. \A i \in 1 .. n - 1 : q[f[i]].key # c
  BY <1>3, <1>5, <1>6
<1> HIDE DEF s, f
<1>10. Rest(q, k, c, s)
  <2>1. f \in [1 .. Len(s) -> 1 .. Len(q)] /\ \A i, j \in 1 .. Len(s) : i < j => f[i] < f[j]
    BY <1>4, <1>5 DEF n
  <2>2. \A i \in 1 .. Len(s) : s[i] = q[f[i]] /\ q[f[i]].key # c
    BY <1>4, <1>6, <1>9
  <2>3. Len(s) < StoreCapacity
    BY <1>1, <1>4
  <2> QED
    BY <1>4, <2>1, <2>2, <2>3 DEF Rest
<1> QED
  BY <1>7, <1>8, <1>10 DEF n

(* Two drops from the front are one.                                       *)
LEMMA DroppedFromTheFront ==
  ASSUME NEW k \in Kinds, NEW q, NEW used, Sound(q, k, now, used), now \in 0 .. MaxTime
  PROVE  \E m \in 1 .. Len(q) + 1 :
           /\ Evicted(Unexpired(q)) = SubSeq(q, m, Len(q))
           /\ Len(q) - m + 1 < StoreCapacity
           /\ \A i \in 1 .. m - 1 :
                \/ q[i].seen <= now - IdleTicks
                \/ Len(q) = StoreCapacity /\ i = 1
<1> DEFINE n == Len(q)
           live == {i \in DOMAIN q : q[i].seen > now - IdleTicks}
           u == Unexpired(q)
<1>1. q \in Seq(Buckets(k)) /\ n \in Nat /\ DOMAIN q = 1 .. n /\ n <= StoreCapacity
      /\ StoreCapacity \in Nat \ {0} /\ IdleTicks \in Nat /\ now \in Nat
  BY LenProperties, Limits DEF Sound
<1>2. \A i \in 1 .. n : q[i] \in Buckets(k) /\ q[i].seen \in Nat
  <2>1. \A i \in 1 .. n : q[i] \in Buckets(k)
    BY <1>1, ElementOfSeq
  <2> QED
    BY <2>1 DEF Buckets
<1> DEFINE Drops(m) ==
      /\ Evicted(u) = SubSeq(q, m, n) /\ n - m + 1 < StoreCapacity
      /\ \A i \in 1 .. m - 1 : \/ q[i].seen <= now - IdleTicks
                               \/ n = StoreCapacity /\ i = 1
<1> SUFFICES \E m \in 1 .. n + 1 : Drops(m)
  OBVIOUS
<1>3. CASE live = {}
  <2>1. u = << >> /\ Len(u) = 0
    BY <1>3 DEF Unexpired
  <2>2. Max({1, Len(u) - StoreCapacity + 2}) = 1
    BY <1>1, <2>1, MaxOfTwo
  <2>3. Evicted(u) = << >>
    BY <2>1, <2>2, SubSeqEmpty DEF Evicted
  <2>4. SubSeq(q, n + 1, n) = << >>
    BY <1>1, SubSeqEmpty
  <2>5. \A i \in 1 .. n : q[i].seen <= now - IdleTicks
    BY <1>1, <1>2, <1>3
  <2>6. n + 1 \in 1 .. n + 1 /\ n - (n + 1) + 1 < StoreCapacity /\ (n + 1) - 1 = n
    BY <1>1
  <2>7. Drops(n + 1)
    BY <2>3, <2>4, <2>5, <2>6
  <2> QED
    BY <2>6, <2>7
<1>4. CASE live # {}
  <2> DEFINE l == Min(live)
             e == Max({1, Len(u) - StoreCapacity + 2})
  <2>1. l \in live /\ \A i \in live : l <= i
    <3>1. live \in SUBSET Nat
      BY <1>1
    <3> QED
      BY <1>4, <3>1, LeastExists
  <2>2. l \in 1 .. n
    BY <1>1, <2>1
  <2>3. u = SubSeq(q, l, n)
    BY <1>4 DEF Unexpired
  <2>4. \A i \in 1 .. l - 1 : q[i].seen <= now - IdleTicks
    <3> SUFFICES ASSUME NEW i \in 1 .. l - 1 PROVE q[i].seen <= now - IdleTicks
      OBVIOUS
    <3>1. i \in 1 .. n /\ ~(l <= i)
      BY <1>1, <2>2
    <3>2. i \notin live
      BY <2>1, <3>1
    <3>3. ~(q[i].seen > now - IdleTicks)
      BY <1>1, <3>1, <3>2
    <3> QED
      BY <1>1, <1>2, <3>1, <3>3
  <2> HIDE DEF l, u, live
  <2>5. u \in Seq(Buckets(k)) /\ Len(u) = n - l + 1
    <3>1. \A i \in l .. n : q[i] \in Buckets(k)
      BY <1>1, <1>2, <2>2
    <3> QED
      BY <1>1, <2>2, <2>3, <3>1, SubSeqProperties
  <2>6. e = IF n - l + 1 = StoreCapacity THEN 2 ELSE 1
    BY <1>1, <2>2, <2>5, MaxOfTwo
  <2>7. Evicted(u) = SubSeq(u, e, Len(u))
    BY DEF Evicted
  <2> HIDE DEF e
  <2>8. CASE n - l + 1 # StoreCapacity
    <3>1. Evicted(u) = SubSeq(q, l, n)
      BY <2>3, <2>5, <2>6, <2>7, <2>8, SubSeqFull
    <3>2. l \in 1 .. n + 1 /\ n - l + 1 < StoreCapacity
      BY <1>1, <2>2, <2>8
    <3>3. Drops(l)
      BY <2>4, <3>1, <3>2
    <3> QED
      BY <3>2, <3>3
  <2>9. CASE n - l + 1 = StoreCapacity
    <3>1. l = 1 /\ n = StoreCapacity
      <4>1. n \in Nat /\ n <= StoreCapacity /\ StoreCapacity \in Nat
        BY <1>1
      <4>2. l \in Int /\ 1 <= l
        BY <2>2, <4>1
      <4> HIDE DEF n
      <4> QED
        BY <2>9, <4>1, <4>2
    <3>2. u = q
      BY <1>1, <2>3, <3>1, SubSeqFull
    <3>3. Evicted(u) = SubSeq(q, 2, n)
      BY <2>6, <2>7, <2>9, <3>2
    <3>4. 2 \in 1 .. n + 1 /\ n - 2 + 1 < StoreCapacity /\ \A i \in 1 .. 2 - 1 : i = 1
      BY <1>1, <2>2
    <3>5. Drops(2)
      BY <3>1, <3>3, <3>4
    <3> QED
      BY <3>4, <3>5
  <2> QED
    BY <2>8, <2>9
<1> QED
  BY <1>3, <1>4

LEMMA MissRest ==
  ASSUME NEW k \in Kinds, NEW q, NEW used, Sound(q, k, now, used), now \in 0 .. MaxTime,
         NEW c, c \notin Keys(q)
  PROVE  \E s : /\ Rest(q, k, c, s) /\ Got(q, c, k) = Append(s, Bucket(c, Full[k]))
                /\ \A i \in 1 .. Len(q) : q[i].key \in Keys(s) \/ Forgettable(q, c, i)
<1> DEFINE n == Len(q)
<1>1. PICK m \in 1 .. n + 1 :
        /\ Evicted(Unexpired(q)) = SubSeq(q, m, n)
        /\ n - m + 1 < StoreCapacity
        /\ \A i \in 1 .. m - 1 : \/ q[i].seen <= now - IdleTicks
                                 \/ n = StoreCapacity /\ i = 1
  BY DroppedFromTheFront
<1> DEFINE s == SubSeq(q, m, n)
           f == [i \in 1 .. n - m + 1 |-> m + i - 1]
<1>2. q \in Seq(Buckets(k)) /\ n \in Nat /\ DOMAIN q = 1 .. n
  BY LenProperties DEF Sound
<1>3. \A i \in 1 .. n : q[i] \in Buckets(k) /\ q[i].key # c /\ q[i].seen \in Nat
  <2>1. \A i \in 1 .. n : q[i] \in Buckets(k)
    BY <1>2, ElementOfSeq
  <2>2. \A i \in 1 .. n : q[i].seen \in Nat
    BY <2>1 DEF Buckets
  <2>3. \A i \in 1 .. n : q[i].key # c
    BY <1>2 DEF Keys
  <2> QED
    BY <2>1, <2>2, <2>3
<1>4. s \in Seq(Buckets(k)) /\ Len(s) = n - m + 1 /\ \A i \in 1 .. n - m + 1 : s[i] = q[m + i - 1]
  <2>1. \A i \in m .. n : q[i] \in Buckets(k)
    BY <1>2, <1>3
  <2> QED
    BY <1>2, <2>1, SubSeqProperties
<1>5. f \in [1 .. n - m + 1 -> 1 .. n] /\ \A i, j \in 1 .. n - m + 1 : i < j => f[i] < f[j]
  BY <1>2
<1>6. \A i \in 1 .. n - m + 1 : f[i] = m + i - 1
  OBVIOUS
<1>7. Got(q, c, k) = Append(s, Bucket(c, Full[k]))
  BY <1>1 DEF Got, Bucket
<1> HIDE DEF s, f
<1>8. Rest(q, k, c, s)
  <2>1. \A i \in 1 .. Len(s) : s[i] = q[f[i]] /\ q[f[i]].key # c
    BY <1>3, <1>4, <1>5, <1>6
  <2> QED
    BY <1>1, <1>4, <1>5, <2>1 DEF Rest
<1>9. ASSUME NEW i \in 1 .. n PROVE q[i].key \in Keys(s) \/ Forgettable(q, c, i)
  <2>1. CASE i >= m
    <3>1. i - m + 1 \in 1 .. Len(s) /\ s[i - m + 1] = q[i]
      <4>1. i - m + 1 \in 1 .. n - m + 1 /\ m + (i - m + 1) - 1 = i
        BY <1>2, <2>1
      <4> QED
        BY <1>4, <4>1
    <3>2. DOMAIN s = 1 .. Len(s)
      BY <1>4, LenProperties
    <3> QED
      BY <3>1, <3>2 DEF Keys
  <2>2. CASE i < m
    <3>1. CASE n = StoreCapacity /\ i = 1
      <4>1. \A j \in 1 .. n : q[i].seen <= q[j].seen
        BY <1>2, <1>3, <3>1 DEF Sound
      <4> QED
        BY <3>1, <4>1 DEF Forgettable
    <3>2. CASE q[i].seen <= now - IdleTicks
      BY <3>2 DEF Forgettable
    <3> QED
      BY <1>1, <1>2, <2>2, <3>1, <3>2
  <2> QED
    BY <1>2, <2>1, <2>2
<1> QED
  BY <1>7, <1>8, <1>9

-----------------------------------------------------------------------------
(* One store after a request of c.                                         *)

LEMMA RestKeeps ==
  ASSUME NEW k \in Kinds, NEW q, NEW used, Sound(q, k, now, used), NEW c, NEW s, Rest(q, k, c, s)
  PROVE  /\ c \notin Keys(s)
         /\ \A i \in 1 .. Len(s) : \E j \in 1 .. Len(q) : s[i] = q[j]
         /\ \A i, j \in 1 .. Len(s) : i < j => s[i].key # s[j].key /\ s[i].seen <= s[j].seen
         /\ \A d \in Keys(s) : d \in Keys(q) /\ d # c /\ BucketOf(s, d) = BucketOf(q, d)
<1>1. PICK f \in [1 .. Len(s) -> 1 .. Len(q)] :
        /\ \A i, j \in 1 .. Len(s) : i < j => f[i] < f[j]
        /\ \A i \in 1 .. Len(s) : s[i] = q[f[i]] /\ q[f[i]].key # c
  BY DEF Rest
<1>2. s \in Seq(Buckets(k)) /\ q \in Seq(Buckets(k))
  BY DEF Rest, Sound
<1>3. DOMAIN s = 1 .. Len(s) /\ DOMAIN q = 1 .. Len(q)
  BY <1>2, LenProperties
<1>4. ASSUME NEW i \in 1 .. Len(s), NEW j \in 1 .. Len(s), i < j
      PROVE  s[i].key # s[j].key /\ s[i].seen <= s[j].seen
  <2>1. f[i] \in 1 .. Len(q) /\ f[j] \in 1 .. Len(q) /\ f[i] < f[j]
    BY <1>1, <1>4
  <2>2. q[f[i]].key # q[f[j]].key /\ q[f[i]].seen <= q[f[j]].seen
    BY <2>1 DEF Sound
  <2> QED
    BY <1>1, <2>2
<1>5. c \notin Keys(s)
  BY <1>1, <1>3 DEF Keys
<1>6. ASSUME NEW d \in Keys(s) PROVE d \in Keys(q) /\ d # c /\ BucketOf(s, d) = BucketOf(q, d)
  <2>1. PICK i \in 1 .. Len(s) : s[i].key = d
    BY <1>3, <1>6 DEF Keys
  <2>2. BucketOf(s, d) = s[i]
    BY <1>2, <1>4, <2>1, BucketAt
  <2>3. f[i] \in 1 .. Len(q) /\ q[f[i]].key = d /\ q[f[i]] = s[i]
    BY <1>1, <2>1
  <2>4. BucketOf(q, d) = q[f[i]] /\ d \in Keys(q)
    BY <1>2, <2>3, BucketAt DEF Sound
  <2> QED
    BY <1>5, <1>6, <2>2, <2>3, <2>4
<1> QED
  BY <1>1, <1>4, <1>5, <1>6

LEMMA RestSound ==
  ASSUME NEW k \in Kinds, NEW q, NEW used \in [Clients -> Nat \cup {None}], now \in 0 .. MaxTime,
         Sound(q, k, now, used), NEW c \in Clients, NEW s, Rest(q, k, c, s), NEW t \in 0 .. Full[k]
  PROVE  Sound(Append(s, Bucket(c, t)), k, now, [used EXCEPT ![c] = now])
<1> DEFINE b == Bucket(c, t)
           g == Append(s, b)
           u == [used EXCEPT ![c] = now]
<1>1. b \in Buckets(k) /\ b.key = c /\ b.seen = now /\ b.refilled = now
  BY Limits DEF Bucket, Buckets
<1>2. s \in Seq(Buckets(k)) /\ Len(s) \in Nat /\ Len(s) < StoreCapacity /\ StoreCapacity \in Nat
  BY LenProperties, Limits DEF Rest
<1> HIDE DEF b
<1>3. /\ g \in Seq(Buckets(k)) /\ Len(g) = Len(s) + 1 /\ g[Len(s) + 1] = b
      /\ \A i \in 1 .. Len(s) : g[i] = s[i]
  BY <1>1, <1>2, AppendProperties
<1> HIDE DEF g
<1>4. \A i \in 1 .. Len(s) : s[i] \in Buckets(k)
  BY <1>2, ElementOfSeq
<1>5. ASSUME NEW i \in 1 .. Len(s)
      PROVE  /\ s[i].refilled = s[i].seen /\ s[i].seen <= now /\ used[s[i].key] = s[i].seen
             /\ s[i].key # c /\ s[i].key \in Clients /\ s[i].seen \in Nat
  <2>1. PICK j \in 1 .. Len(q) : s[i] = q[j]
    BY RestKeeps
  <2>2. s[i].refilled = s[i].seen /\ s[i].seen <= now /\ used[s[i].key] = s[i].seen
    BY <2>1 DEF Sound
  <2>3. s[i].key # c
    <3>1. DOMAIN s = 1 .. Len(s)
      BY <1>2, LenProperties
    <3> QED
      BY <3>1, RestKeeps DEF Keys
  <2>4. s[i].key \in Clients /\ s[i].seen \in Nat
    BY <1>4 DEF Buckets
  <2> QED
    BY <2>2, <2>3, <2>4
<1>6. \A i \in 1 .. Len(g) : /\ g[i].refilled = g[i].seen /\ g[i].seen <= now
                            /\ u[g[i].key] = g[i].seen
  <2> SUFFICES ASSUME NEW i \in 1 .. Len(g)
               PROVE  /\ g[i].refilled = g[i].seen /\ g[i].seen <= now
                      /\ u[g[i].key] = g[i].seen
    OBVIOUS
  <2>1. CASE i = Len(s) + 1
    BY <1>1, <1>3, <2>1
  <2>2. CASE i # Len(s) + 1
    <3>1. i \in 1 .. Len(s)
      BY <1>2, <1>3, <2>2
    <3> QED
      BY <1>3, <1>5, <3>1
  <2> QED
    BY <2>1, <2>2
<1>7. ASSUME NEW i \in 1 .. Len(g), NEW j \in 1 .. Len(g), i < j
      PROVE  g[i].key # g[j].key /\ g[i].seen <= g[j].seen
  <2>1. i \in 1 .. Len(s)
    BY <1>2, <1>3, <1>7
  <2>2. CASE j = Len(s) + 1
    BY <1>1, <1>3, <1>5, <2>1, <2>2
  <2>3. CASE j # Len(s) + 1
    <3>1. j \in 1 .. Len(s)
      BY <1>2, <1>3, <2>3
    <3>2. s[i].key # s[j].key /\ s[i].seen <= s[j].seen
      BY <1>7, <2>1, <3>1, RestKeeps
    <3> QED
      BY <1>3, <2>1, <3>1, <3>2
  <2> QED
    BY <2>2, <2>3
<1>8. Len(g) <= StoreCapacity
  BY <1>2, <1>3
<1>9. Sound(g, k, now, u)
  BY <1>3, <1>6, <1>7, <1>8 DEF Sound
<1> QED
  BY <1>9 DEF g, b

(* What a client has is between nothing and the limit, and all of it once  *)
(* its bucket has been idle.                                               *)
LEMMA AvailableIs ==
  ASSUME LimiterInv, NEW k \in Kinds, NEW c \in Clients
  PROVE  /\ Available(c, k) \in 0 .. Full[k]
         /\ c \in Keys(store[k]) =>
              LET b == BucketOf(store[k], c)
              IN  /\ b \in Buckets(k) /\ b.refilled = b.seen /\ b.seen <= now /\ b.key = c
                  /\ touched[k][c] = b.seen
                  /\ Available(c, k) = Refilled(b, k).tokens
                  /\ b.seen <= now - IdleTicks => Available(c, k) = Full[k]
<1> DEFINE b == BucketOf(store[k], c)
<1>1. CASE c \notin Keys(store[k])
  BY <1>1, Limits DEF Available
<1>2. CASE c \in Keys(store[k])
  <2>1. Sound(store[k], k, now, touched[k]) /\ now \in 0 .. MaxTime
    BY DEF LimiterInv
  <2>2. store[k] \in Seq(Buckets(k))
    BY <2>1 DEF Sound
  <2>3. Place(store[k], c) \in 1 .. Len(store[k]) /\ b = store[k][Place(store[k], c)]
        /\ b \in Buckets(k) /\ b.key = c
    BY <1>2, <2>2, KeyPlaced
  <2>4. b.refilled = b.seen /\ b.seen <= now /\ touched[k][c] = b.seen
    BY <2>1, <2>3 DEF Sound
  <2> HIDE DEF b
  <2>5. Available(c, k) = Refilled(b, k).tokens
    BY <1>2 DEF Available, b
  <2>6. Refilled(b, k).tokens \in 0 .. Full[k]
    BY <2>1, <2>3, <2>4, RefilledIs
  <2>7. ASSUME b.seen <= now - IdleTicks PROVE Refilled(b, k).tokens = Full[k]
    <3>1. /\ now \in Nat /\ b.seen \in Nat /\ IdleTicks \in Nat /\ b.tokens \in Nat /\ Refill[k] \in Nat
          /\ Full[k] \in Nat /\ IdleTicks * Refill[k] >= Full[k] /\ b.refilled = b.seen
      BY <2>1, <2>3, <2>4, Limits DEF Buckets
    <3>2. now - b.seen \in Nat /\ IdleTicks <= now - b.seen
      BY <2>7, <3>1
    <3>3. IdleTicks * Refill[k] <= (now - b.seen) * Refill[k] /\ (now - b.seen) * Refill[k] \in Nat
          /\ IdleTicks * Refill[k] \in Nat
      BY <3>1, <3>2, Product
    <3>4. Full[k] <= b.tokens + (now - b.refilled) * Refill[k]
      BY <3>1, <3>3
    <3> QED
      BY <2>1, <2>3, <2>4, <3>4, RefilledIs
  <2> QED
    BY <1>2, <2>3, <2>4, <2>5, <2>6, <2>7 DEF b
<1> QED
  BY <1>1, <1>2

(* check looks a store up and leaves the client's bucket at its end, with  *)
(* what the client has.                                                    *)
LEMMA CheckedIs ==
  ASSUME LimiterInv, NEW k \in Kinds, NEW c \in Clients
  PROVE  \E s : /\ Rest(store[k], k, c, s)
                /\ Checked(c, k) = Append(s, Bucket(c, Available(c, k)))
                /\ \A i \in 1 .. Len(store[k]) :
                     store[k][i].key # c =>
                       store[k][i].key \in Keys(s) \/ Forgettable(store[k], c, i)
<1> DEFINE q == store[k]
           a == Available(c, k)
<1>1. Sound(q, k, now, touched[k]) /\ now \in 0 .. MaxTime
  BY DEF LimiterInv
<1>2. Bucket(c, a) \in Buckets(k) /\ Bucket(c, a).key = c
  <2>1. a \in 0 .. Full[k]
    BY AvailableIs
  <2> HIDE DEF a
  <2> QED
    BY <1>1, <2>1 DEF Bucket, Buckets
<1>3. CASE c \in Keys(q)
  <2> DEFINE b == BucketOf(q, c)
             b0 == [b EXCEPT !.seen = now]
  <2>1. PICK s : /\ Rest(q, k, c, s) /\ Got(q, c, k) = Append(s, b0)
                 /\ \A i \in 1 .. Len(q) : q[i].key # c => q[i].key \in Keys(s)
    BY <1>1, <1>3, HitRest
  <2>2. b \in Buckets(k) /\ b.refilled = b.seen /\ b.seen <= now /\ b.key = c /\ a = Refilled(b, k).tokens
    BY <1>3, AvailableIs
  <2> HIDE DEF b
  <2>3. b0 \in Buckets(k) /\ b0.key = c /\ b0.refilled = b.refilled /\ b0.tokens = b.tokens /\ b0.seen = now
    BY <1>1, <2>2 DEF Buckets
  <2> HIDE DEF b0
  <2>4. Refilled(b0, k) = Bucket(c, a)
    <3>1. Refilled(b0, k).tokens = a
      BY <1>1, <2>2, <2>3, RefilledIs
    <3>2. Refilled(b0, k) = [key |-> b0.key, tokens |-> Refilled(b0, k).tokens, refilled |-> now, seen |-> b0.seen]
      BY <1>1, <2>2, <2>3, RefilledIs
    <3> QED
      BY <2>3, <3>1, <3>2 DEF Bucket
  <2>5. s \in Seq(Buckets(k)) /\ c \notin Keys(s)
    <3>1. Rest(q, k, c, s)
      BY <2>1
    <3>2. c \notin Keys(s)
      BY <1>1, <3>1, RestKeeps
    <3> QED
      BY <3>1, <3>2 DEF Rest
  <2>6. Checked(c, k) = Append(s, Bucket(c, a))
    <3>1. BucketOf(Append(s, b0), c) = b0 /\ With(Append(s, b0), Bucket(c, a)) = Append(s, Bucket(c, a))
      BY <1>2, <2>3, <2>5, LastBucket
    <3> QED
      BY <2>1, <2>4, <3>1 DEF Checked, b0
  <2> QED
    BY <2>1, <2>6
<1>4. CASE c \notin Keys(q)
  <2> DEFINE b0 == Bucket(c, Full[k])
  <2>1. PICK s : /\ Rest(q, k, c, s) /\ Got(q, c, k) = Append(s, b0)
                 /\ \A i \in 1 .. Len(q) : q[i].key \in Keys(s) \/ Forgettable(q, c, i)
    BY <1>1, <1>4, MissRest
  <2>2. a = Full[k]
    BY <1>4 DEF Available
  <2>3. b0 \in Buckets(k) /\ b0.key = c /\ b0.refilled = now /\ b0.tokens = Full[k] /\ b0.seen = now
    BY <1>2, <2>2 DEF Bucket
  <2> HIDE DEF b0
  <2>4. Refilled(b0, k) = Bucket(c, a)
    <3>1. Refilled(b0, k).tokens \in 0 .. Full[k] /\ Refilled(b0, k).tokens >= b0.tokens /\ Full[k] \in Nat
      BY <1>1, <2>3, RefilledIs, Limits
    <3>2. Refilled(b0, k) = [key |-> b0.key, tokens |-> Refilled(b0, k).tokens, refilled |-> now, seen |-> b0.seen]
      BY <1>1, <2>3, RefilledIs
    <3>3. Refilled(b0, k).tokens = a
      BY <2>2, <2>3, <3>1
    <3> QED
      BY <2>3, <3>2, <3>3 DEF Bucket
  <2>5. s \in Seq(Buckets(k)) /\ c \notin Keys(s)
    <3>1. Rest(q, k, c, s)
      BY <2>1
    <3>2. c \notin Keys(s)
      BY <1>1, <3>1, RestKeeps
    <3> QED
      BY <3>1, <3>2 DEF Rest
  <2>6. Checked(c, k) = Append(s, Bucket(c, a))
    <3>1. BucketOf(Append(s, b0), c) = b0 /\ With(Append(s, b0), Bucket(c, a)) = Append(s, Bucket(c, a))
      BY <1>2, <2>3, <2>5, LastBucket
    <3> QED
      BY <2>1, <2>4, <3>1 DEF Checked
  <2> QED
    BY <2>1, <2>6
<1> QED
  BY <1>3, <1>4

LEMMA LookedHas ==
  ASSUME LimiterInv, NEW k \in Kinds, NEW c \in Clients
  PROVE  BucketOf(Checked(c, k), c) = Bucket(c, Available(c, k))
<1>1. PICK s : Rest(store[k], k, c, s) /\ Checked(c, k) = Append(s, Bucket(c, Available(c, k)))
  BY CheckedIs
<1>2. s \in Seq(Buckets(k)) /\ c \notin Keys(s)
  <2>1. Sound(store[k], k, now, touched[k])
    BY DEF LimiterInv
  <2> QED
    BY <1>1, <2>1, RestKeeps DEF Rest
<1>3. Bucket(c, Available(c, k)) \in Buckets(k) /\ Bucket(c, Available(c, k)).key = c
  BY AvailableIs DEF Bucket, Buckets, LimiterInv
<1> QED
  BY <1>1, <1>2, <1>3, LastBucket

-----------------------------------------------------------------------------
(* Retry-After.                                                            *)

LEMMA LongestWait ==
  ASSUME NEW W \in [Kinds -> Nat], NEW S \in SUBSET Kinds, S # {}
  PROVE  /\ Max({1 + W[k] : k \in S}) \in Nat
         /\ \A k \in S : 1 + W[k] <= Max({1 + W[j] : j \in S})
<1> DEFINE T == {1 + W[k] : k \in S}
<1>1. T \subseteq Nat
  OBVIOUS
<1>2. \E m \in T : \A n \in T : m >= n
  <2>1. ASSUME NEW j \in Kinds, S = {j} PROVE \E m \in T : \A n \in T : m >= n
    <3>1. T = {1 + W[j]} /\ 1 + W[j] \in Nat
      BY <2>1
    <3> HIDE DEF T
    <3> QED
      BY <3>1
  <2>2. CASE S = Kinds
    <3>1. W["general"] \in Nat /\ W["conclusion"] \in Nat
      BY DEF Kinds
    <3>2. T = {1 + W["general"], 1 + W["conclusion"]}
      BY <2>2 DEF Kinds
    <3>3. CASE W["general"] >= W["conclusion"]
      <4>1. 1 + W["general"] \in T /\ \A n \in T : 1 + W["general"] >= n
        BY <3>1, <3>2, <3>3
      <4> QED
        BY <4>1
    <3>4. CASE W["conclusion"] >= W["general"]
      <4>1. 1 + W["conclusion"] \in T /\ \A n \in T : 1 + W["conclusion"] >= n
        BY <3>1, <3>2, <3>4
      <4> QED
        BY <4>1
    <3> QED
      BY <3>1, <3>3, <3>4
  <2> QED
    BY <2>1, <2>2 DEF Kinds
<1>3. Max(T) \in T /\ \A n \in T : Max(T) >= n
  BY <1>2 DEF Max
<1> QED
  BY <1>1, <1>3

LEMMA RetryIsEnough == LimiterInv => RetryAfterIsEnough
<1> SUFFICES ASSUME LimiterInv, NEW c \in Clients, NEW path \in Paths,
                    Short(Looked(c, path), c, path) # {}, NEW k \in KindsOf(path)
             PROVE  Later(c, k, SecondTicks * RetryAfter(Looked(c, path), c, path)) >= Unit
  BY DEF RetryAfterIsEnough
<1> DEFINE looked == Looked(c, path)
           S == Short(looked, c, path)
           W == [j \in Kinds |-> (Unit - Available(c, j)) \div (Refill[j] * SecondTicks)]
           ra == RetryAfter(looked, c, path)
<1>1. KindsOf(path) \subseteq Kinds
  BY DEF KindsOf, Kinds
<1>2. \A j \in KindsOf(path) : BucketOf(looked[j], c).tokens = Available(c, j)
  <2> SUFFICES ASSUME NEW j \in KindsOf(path) PROVE BucketOf(looked[j], c).tokens = Available(c, j)
    OBVIOUS
  <2>1. looked[j] = Checked(c, j)
    BY <1>1 DEF Looked
  <2>2. Bucket(c, Available(c, j)).tokens = Available(c, j)
    BY DEF Bucket
  <2> QED
    BY <1>1, <2>1, <2>2, LookedHas
<1> HIDE DEF looked
<1>3. S \subseteq KindsOf(path) /\ \A j \in KindsOf(path) : j \in S <=> Available(c, j) < Unit
  BY <1>2 DEF Short
<1>4. ASSUME NEW j \in S
      PROVE  /\ Unit - Available(c, j) \in Nat /\ Refill[j] * SecondTicks \in Nat \ {0}
             /\ W[j] \in Nat
             /\ Refill[j] * SecondTicks * (1 + W[j]) >= Unit - Available(c, j)
  <2>1. j \in Kinds /\ Available(c, j) \in Nat /\ Available(c, j) < Unit
    <3>1. j \in Kinds
      BY <1>1, <1>3
    <3> QED
      BY <1>3, <3>1, AvailableIs, Limits
  <2>2. Unit - Available(c, j) \in Nat
    BY <2>1, Limits
  <2>3. Refill[j] * SecondTicks \in Nat \ {0}
    <3>1. Refill[j] \in Nat \ {0} /\ SecondTicks \in Nat \ {0}
      BY <2>1, Limits
    <3> QED
      BY <3>1
  <2>4. W[j] = (Unit - Available(c, j)) \div (Refill[j] * SecondTicks)
    BY <2>1
  <2> HIDE DEF W
  <2> QED
    BY <2>2, <2>3, <2>4, QuotientAndOne
<1>5. /\ ra \in Nat
      /\ \A j \in S : 1 + W[j] <= ra
  <2> DEFINE V == [j \in Kinds |-> IF j \in S THEN W[j] ELSE 0]
  <2>1. V \in [Kinds -> Nat]
    BY <1>4
  <2>2. \A j \in S : V[j] = W[j] /\ j \in Kinds
    BY <1>1, <1>3
  <2>3. \A j \in S : 1 + Missing(looked, c, j) \div (Refill[j] * SecondTicks) = 1 + V[j]
    <3> SUFFICES ASSUME NEW j \in S
                 PROVE  Missing(looked, c, j) \div (Refill[j] * SecondTicks) = V[j]
      OBVIOUS
    <3>1. Missing(looked, c, j) = Unit - Available(c, j)
      BY <1>2, <1>3 DEF Missing
    <3>2. V[j] = (Unit - Available(c, j)) \div (Refill[j] * SecondTicks)
      BY <2>2
    <3> QED
      BY <3>1, <3>2
  <2> HIDE DEF V, W
  <2>4. ra = Max({1 + V[j] : j \in S})
    <3>1. {1 + Missing(looked, c, j) \div (Refill[j] * SecondTicks) : j \in S} = {1 + V[j] : j \in S}
      BY <2>3
    <3> QED
      BY <3>1 DEF RetryAfter
  <2>5. S \in SUBSET Kinds /\ S # {}
    BY <1>1, <1>3 DEF looked
  <2> HIDE DEF S, ra
  <2> QED
    BY <2>1, <2>2, <2>4, <2>5, LongestWait
<1>6. k \in Kinds /\ Available(c, k) \in Nat /\ Full[k] \in Nat /\ Full[k] >= Unit /\ Unit \in Nat
      /\ Refill[k] \in Nat \ {0} /\ SecondTicks \in Nat \ {0}
  <2>1. k \in Kinds
    BY <1>1
  <2> QED
    BY <2>1, AvailableIs, Limits
<1> HIDE DEF W, ra
<1>7. SecondTicks * ra \in Nat /\ (SecondTicks * ra) * Refill[k] \in Nat
  BY <1>5, <1>6
<1>8. Later(c, k, SecondTicks * ra) =
        IF Full[k] <= Available(c, k) + (SecondTicks * ra) * Refill[k]
        THEN Full[k] ELSE Available(c, k) + (SecondTicks * ra) * Refill[k]
  <2>1. Available(c, k) + (SecondTicks * ra) * Refill[k] \in Int /\ Full[k] \in Int
    BY <1>6, <1>7
  <2> QED
    BY <2>1, MinOfTwo DEF Later
<1>9. Available(c, k) + (SecondTicks * ra) * Refill[k] >= Unit
  <2>1. CASE k \in S
    <3>1. W[k] \in Nat /\ 1 + W[k] <= ra /\ Unit - Available(c, k) \in Nat
          /\ Refill[k] * SecondTicks \in Nat
          /\ Refill[k] * SecondTicks * (1 + W[k]) >= Unit - Available(c, k)
      BY <1>4, <1>5, <2>1
    <3>2. (1 + W[k]) * (Refill[k] * SecondTicks) <= ra * (Refill[k] * SecondTicks)
      BY <1>5, <3>1, Product
    <3>3. ra * (Refill[k] * SecondTicks) = (SecondTicks * ra) * Refill[k]
      BY <1>5, <1>6
    <3>4. Refill[k] * SecondTicks * (1 + W[k]) = (1 + W[k]) * (Refill[k] * SecondTicks)
      BY <1>6, <3>1
    <3> QED
      BY <1>6, <1>7, <3>1, <3>2, <3>3, <3>4
  <2>2. CASE k \notin S
    BY <1>3, <1>6, <1>7, <2>2
  <2> QED
    BY <2>1, <2>2
<1>10. Later(c, k, SecondTicks * ra) >= Unit
  BY <1>6, <1>8, <1>9
<1> QED
  BY <1>10 DEF ra, looked

LEMMA LimiterInvImplies == LimiterInv => StoresAreSound
<1> SUFFICES ASSUME LimiterInv PROVE StoresAreSound
  OBVIOUS
<1>1. ASSUME NEW k \in Kinds
      PROVE  /\ store[k] \in Seq(Buckets(k)) /\ Len(store[k]) <= StoreCapacity
             /\ \A i, j \in DOMAIN store[k] :
                  i < j => store[k][i].key # store[k][j].key /\ store[k][i].seen <= store[k][j].seen
             /\ touched[k] \in [Clients -> Nat \cup {None}]
  <2>1. Sound(store[k], k, now, touched[k])
    BY DEF LimiterInv
  <2>2. DOMAIN store[k] = 1 .. Len(store[k])
    BY <2>1, LenProperties DEF Sound
  <2> QED
    BY <2>1, <2>2 DEF Sound, LimiterInv
<1>2. TypeOK
  BY <1>1 DEF TypeOK, LimiterInv
<1> QED
  BY <1>2, RetryIsEnough DEF StoresAreSound

-----------------------------------------------------------------------------
(* What a request does to one store.                                       *)

(* The others that have used a store since d last did.                     *)
UsersSince(k, d) ==
  {e \in Clients \ {d} : touched'[k][e] # None /\ touched'[k][e] >= touched[k][d]}

(* A full store has as many keys as buckets.                               *)
LEMMA KeysCounted ==
  ASSUME NEW k \in Kinds, NEW q, NEW n, NEW used, Sound(q, k, n, used)
  PROVE  IsFiniteSet(Keys(q)) /\ Cardinality(Keys(q)) = Len(q)
<1> DEFINE f == [i \in 1 .. Len(q) |-> q[i].key]
<1>1. DOMAIN q = 1 .. Len(q) /\ Len(q) \in Nat
  BY LenProperties DEF Sound
<1>2. f \in Bijection(1 .. Len(q), Keys(q))
  <2>1. f \in Surjection(1 .. Len(q), Keys(q))
    BY <1>1 DEF Surjection, Keys
  <2>2. \A i, j \in 1 .. Len(q) : f[i] = f[j] => i = j
    BY <1>1 DEF Sound
  <2> QED
    BY <2>1, <2>2 DEF Bijection, Injection, Surjection, IsInjective
<1>3. ExistsBijection(1 .. Len(q), Keys(q))
  BY <1>2 DEF ExistsBijection
<1>4. IsFiniteSet(1 .. Len(q)) /\ Cardinality(1 .. Len(q)) = Len(q)
  <2>1. IsFiniteSet(1 .. Len(q))
    BY <1>1, FS_Interval
  <2>2. Cardinality(1 .. Len(q)) = IF 1 > Len(q) THEN 0 ELSE Len(q) - 1 + 1
    BY <1>1, FS_Interval
  <2> QED
    BY <1>1, <2>1, <2>2
<1> QED
  BY <1>3, <1>4, FS_Bijection

LEMMA KindServed ==
  ASSUME LimiterInv, NEW k \in Kinds, NEW c \in Clients, NEW t \in 0 .. Full[k],
         NEW s, Rest(store[k], k, c, s), store'[k] = Append(s, Bucket(c, t)),
         \A i \in 1 .. Len(store[k]) :
           store[k][i].key # c => store[k][i].key \in Keys(s) \/ Forgettable(store[k], c, i),
         now' = now, touched'[k] = [touched[k] EXCEPT ![c] = now]
  PROVE  /\ Sound(store'[k], k, now, touched'[k]) /\ IsFiniteSet(Users(k)')
         /\ touched'[k] \in [Clients -> Nat \cup {None}]
         /\ Available(c, k)' = t
         /\ \A d \in Clients \ {c} :
              \/ Available(d, k)' = Available(d, k)
              \/ Available(d, k)' = Full[k] /\ Cardinality(UsersSince(k, d)) >= StoreCapacity
<1> DEFINE q == store[k]
           g == store'[k]
<1>1. Sound(q, k, now, touched[k]) /\ now \in 0 .. MaxTime /\ touched[k] \in [Clients -> Nat \cup {None}]
      /\ IsFiniteSet(Users(k))
  BY DEF LimiterInv
<1>2. Sound(g, k, now, touched'[k])
  BY <1>1, RestSound
<1>3. touched'[k] \in [Clients -> Nat \cup {None}] /\ touched'[k][c] = now /\ now \in Nat
      /\ \A e \in Clients \ {c} : touched'[k][e] = touched[k][e]
  BY <1>1, Limits
<1>4. IsFiniteSet(Users(k)')
  <2>1. Users(k)' \subseteq Users(k) \cup {c}
    BY <1>3 DEF Users
  <2>2. IsFiniteSet(Users(k) \cup {c})
    BY <1>1, FS_AddElement
  <2> QED
    BY <2>1, <2>2, FS_Subset
<1>5. Bucket(c, t) \in Buckets(k) /\ Bucket(c, t).key = c /\ Bucket(c, t).tokens = t
      /\ Bucket(c, t).refilled = now
  BY <1>1 DEF Bucket, Buckets
<1>6. /\ s \in Seq(Buckets(k)) /\ c \notin Keys(s)
      /\ \A d \in Keys(s) : d \in Keys(q) /\ d # c /\ BucketOf(s, d) = BucketOf(q, d)
  <2>1. s \in Seq(Buckets(k))
    BY DEF Rest
  <2>2. c \notin Keys(s)
    BY <1>1, RestKeeps
  <2>3. \A d \in Keys(s) : d \in Keys(q) /\ d # c /\ BucketOf(s, d) = BucketOf(q, d)
    BY <1>1, RestKeeps
  <2> QED
    BY <2>1, <2>2, <2>3
<1>7. /\ g \in Seq(Buckets(k)) /\ Len(g) = Len(s) + 1 /\ g[Len(s) + 1] = Bucket(c, t)
      /\ \A i \in 1 .. Len(s) : g[i] = s[i]
  BY <1>5, <1>6, AppendProperties
<1>8. Len(s) \in Nat /\ DOMAIN s = 1 .. Len(s) /\ DOMAIN g = 1 .. Len(s) + 1
  BY <1>6, <1>7, LenProperties
<1>9. \A m, n \in 1 .. Len(g) : m < n => g[m].key # g[n].key
  BY <1>2 DEF Sound
<1>10. \A i \in 1 .. Len(g) : BucketOf(g, g[i].key) = g[i] /\ g[i].key \in Keys(g)
  BY <1>7, <1>9, BucketAt
<1>11. Keys(g) = Keys(s) \cup {c}
  <2>1. Keys(g) = {g[i].key : i \in 1 .. Len(s) + 1} /\ Keys(s) = {s[i].key : i \in 1 .. Len(s)}
    BY <1>8 DEF Keys
  <2>2. \A i \in 1 .. Len(s) + 1 : i \in 1 .. Len(s) \/ i = Len(s) + 1
    BY <1>8
  <2>3. Keys(g) \subseteq Keys(s) \cup {c}
    BY <1>5, <1>7, <2>1, <2>2
  <2>4. Len(s) + 1 \in 1 .. Len(s) + 1 /\ \A i \in 1 .. Len(s) : i \in 1 .. Len(s) + 1
    BY <1>8
  <2>5. Keys(s) \cup {c} \subseteq Keys(g)
    BY <1>5, <1>7, <2>1, <2>4
  <2> QED
    BY <2>3, <2>5
<1>12. BucketOf(g, c) = Bucket(c, t)
  <2>1. Len(s) + 1 \in 1 .. Len(g)
    BY <1>7, <1>8
  <2> QED
    BY <1>5, <1>7, <1>10, <2>1
<1>13. Available(c, k)' = t
  <2>1. Available(c, k)' = Refilled(Bucket(c, t), k).tokens
    BY <1>11, <1>12 DEF Available, Refilled
  <2>2. now - now = 0 /\ 0 * Refill[k] = 0 /\ t \in Nat /\ t <= Full[k] /\ Full[k] \in Nat
    BY <1>1, Limits
  <2>3. Refilled(Bucket(c, t), k).tokens = t
    BY <1>1, <1>5, <2>2, RefilledIs
  <2> QED
    BY <2>1, <2>3
<1>14. ASSUME NEW d \in Clients \ {c}
       PROVE  \/ Available(d, k)' = Available(d, k)
              \/ Available(d, k)' = Full[k] /\ Cardinality(UsersSince(k, d)) >= StoreCapacity
  <2>1. CASE d \in Keys(s)
    <3>1. PICK i \in 1 .. Len(s) : s[i].key = d
      BY <1>8, <2>1 DEF Keys
    <3>2. i \in 1 .. Len(g) /\ g[i] = s[i]
      BY <1>7, <1>8
    <3>3. BucketOf(g, d) = s[i] /\ d \in Keys(g)
      BY <1>10, <3>1, <3>2
    <3>4. BucketOf(s, d) = s[i]
      <4>1. \A m, n \in 1 .. Len(s) : m < n => s[m].key # s[n].key
        BY <1>1, RestKeeps
      <4> QED
        BY <1>6, <3>1, <4>1, BucketAt
    <3>5. d \in Keys(q) /\ BucketOf(g, d) = BucketOf(q, d)
      BY <1>6, <2>1, <3>3, <3>4
    <3> QED
      BY <3>3, <3>5 DEF Available, Refilled
  <2>2. CASE d \notin Keys(s)
    <3>1. Available(d, k)' = Full[k]
      BY <1>11, <2>2 DEF Available
    <3>2. CASE d \notin Keys(q)
      BY <3>1, <3>2 DEF Available
    <3>3. CASE d \in Keys(q)
      <4> DEFINE i == Place(q, d)
                 b == BucketOf(q, d)
      <4>1. i \in 1 .. Len(q) /\ q[i].key = d /\ b = q[i] /\ b \in Buckets(k)
        BY <1>1, <3>3, KeyPlaced DEF Sound
      <4>2. touched[k][d] = b.seen /\ b.seen <= now /\ (b.seen <= now - IdleTicks => Available(d, k) = Full[k])
        BY <3>3, AvailableIs
      <4> HIDE DEF i, b
      <4>3. Forgettable(q, c, i)
        BY <2>2, <4>1
      <4>4. CASE b.seen <= now - IdleTicks
        BY <3>1, <4>2, <4>4
      <4>5. CASE Len(q) = StoreCapacity /\ c \notin Keys(q) /\ \A j \in 1 .. Len(q) : b.seen <= q[j].seen
        <5> DEFINE E == (Keys(q) \ {d}) \cup {c}
        <5>1. E \subseteq UsersSince(k, d)
          <6>1. ASSUME NEW e \in Keys(q) \ {d} PROVE e \in UsersSince(k, d)
            <7>1. PICK j \in 1 .. Len(q) : q[j].key = e
              <8>1. DOMAIN q = 1 .. Len(q)
                BY <1>1, LenProperties DEF Sound
              <8> QED
                BY <8>1 DEF Keys
            <7>2. touched[k][e] = q[j].seen /\ q[j].seen \in Nat /\ e \in Clients
              <8>1. q[j] \in Buckets(k)
                BY <1>1, ElementOfSeq DEF Sound
              <8>2. q[j].seen \in Nat /\ e \in Clients
                BY <7>1, <8>1 DEF Buckets
              <8>3. touched[k][q[j].key] = q[j].seen
                BY <1>1, <7>1 DEF Sound
              <8> QED
                BY <7>1, <8>2, <8>3
            <7>3. e # c
              BY <4>5
            <7>4. touched'[k][e] = q[j].seen /\ q[j].seen >= touched[k][d] /\ q[j].seen # None
              <8>1. b.seen \in Nat
                BY <4>1 DEF Buckets
              <8> QED
                BY <1>3, <4>2, <4>5, <7>2, <7>3, <8>1, Limits
            <7> QED
              BY <7>2, <7>4 DEF UsersSince
          <6>2. c \in UsersSince(k, d)
            <7>1. b.seen \in Nat
              BY <4>1 DEF Buckets
            <7>2. touched'[k][c] = now /\ now >= touched[k][d] /\ now # None
              BY <1>3, <4>2, <7>1, Limits
            <7> QED
              BY <7>2 DEF UsersSince
          <6> QED
            BY <6>1, <6>2
        <5>2. IsFiniteSet(UsersSince(k, d))
          <6>1. UsersSince(k, d) \subseteq Users(k)'
            BY DEF UsersSince, Users
          <6> QED
            BY <1>4, <6>1, FS_Subset
        <5>3. Cardinality(E) = StoreCapacity
          <6>1. IsFiniteSet(Keys(q)) /\ Cardinality(Keys(q)) = StoreCapacity
            BY <1>1, <4>5, KeysCounted
          <6>2. IsFiniteSet(Keys(q) \ {d}) /\ Cardinality(Keys(q) \ {d}) = StoreCapacity - 1
            BY <3>3, <6>1, FS_RemoveElement
          <6>3. c \notin Keys(q) \ {d}
            BY <4>5
          <6>4. Cardinality(E) = Cardinality(Keys(q) \ {d}) + 1
            BY <6>2, <6>3, FS_AddElement
          <6> QED
            BY <6>2, <6>4, Limits
        <5>4. Cardinality(E) <= Cardinality(UsersSince(k, d))
          BY <5>1, <5>2, FS_Subset
        <5>5. Cardinality(UsersSince(k, d)) \in Nat
          BY <5>2, FS_CardinalityType
        <5> QED
          BY <3>1, <5>3, <5>4, <5>5, Limits
      <4> QED
        BY <4>1, <4>3, <4>4, <4>5 DEF Forgettable
    <3> QED
      BY <3>2, <3>3
  <2> QED
    BY <2>1, <2>2
<1> QED
  BY <1>2, <1>3, <1>4, <1>13, <1>14

-----------------------------------------------------------------------------
(* What a request does to both.                                            *)

LEMMA RequestServed ==
  ASSUME LimiterInv, NEW c \in Clients, NEW path \in Paths, NEW pay \in {0, Unit},
         \A k \in KindsOf(path) : Available(c, k) >= pay,
         Touch(c, path), UNCHANGED <<now, restarts>>, answer' \in {"admitted", "refused"},
         store' = [k \in Kinds |-> store'[k]],
         \A k \in Kinds \ KindsOf(path) : store'[k] = store[k],
         \A k \in KindsOf(path) : \A s :
           Rest(store[k], k, c, s) /\ Checked(c, k) = Append(s, Bucket(c, Available(c, k))) =>
             store'[k] = Append(s, Bucket(c, Available(c, k) - pay))
  PROVE  /\ LimiterInv'
         /\ \A k \in Kinds : Available(c, k)' = IF k \in KindsOf(path) THEN Available(c, k) - pay
                                                 ELSE Available(c, k)
         /\ \A k \in Kinds, d \in Clients \ {c} :
              \/ Available(d, k)' = Available(d, k)
              \/ Available(d, k)' = Full[k] /\ Cardinality(UsersSince(k, d)) >= StoreCapacity
<1> DEFINE Answered(k) ==
      /\ Sound(store'[k], k, now, touched'[k]) /\ IsFiniteSet(Users(k)')
      /\ touched'[k] \in [Clients -> Nat \cup {None}]
      /\ Available(c, k)' = IF k \in KindsOf(path) THEN Available(c, k) - pay ELSE Available(c, k)
      /\ \A d \in Clients \ {c} :
           \/ Available(d, k)' = Available(d, k)
           \/ Available(d, k)' = Full[k] /\ Cardinality(UsersSince(k, d)) >= StoreCapacity
<1>1. ASSUME NEW k \in Kinds PROVE Answered(k)
  <2>1. CASE k \notin KindsOf(path)
    <3>1. store'[k] = store[k] /\ touched'[k] = touched[k] /\ now' = now
      BY <2>1 DEF Touch
    <3>2. Sound(store[k], k, now, touched[k]) /\ IsFiniteSet(Users(k))
          /\ touched[k] \in [Clients -> Nat \cup {None}]
      BY DEF LimiterInv
    <3>3. \A d \in Clients : Available(d, k)' = Available(d, k)
      BY <3>1 DEF Available, Refilled
    <3>4. Users(k)' = Users(k)
      BY <3>1 DEF Users
    <3> QED
      BY <2>1, <3>1, <3>2, <3>3, <3>4
  <2>2. CASE k \in KindsOf(path)
    <3>1. PICK s : /\ Rest(store[k], k, c, s)
                   /\ Checked(c, k) = Append(s, Bucket(c, Available(c, k)))
                   /\ \A i \in 1 .. Len(store[k]) :
                        store[k][i].key # c =>
                          store[k][i].key \in Keys(s) \/ Forgettable(store[k], c, i)
      BY CheckedIs
    <3>2. PICK t : t = Available(c, k) - pay
      OBVIOUS
    <3>3. t \in 0 .. Full[k]
      <4>1. Available(c, k) \in 0 .. Full[k] /\ Available(c, k) >= pay /\ pay \in Nat /\ Full[k] \in Nat
        BY <2>2, AvailableIs, Limits
      <4> QED
        BY <3>2, <4>1
    <3>4. store'[k] = Append(s, Bucket(c, t))
      BY <2>2, <3>1, <3>2
    <3>5. touched'[k] = [touched[k] EXCEPT ![c] = now]
      BY <2>2 DEF Touch
    <3>6. now' = now
      OBVIOUS
    <3>7. /\ Sound(store'[k], k, now, touched'[k]) /\ IsFiniteSet(Users(k)')
          /\ touched'[k] \in [Clients -> Nat \cup {None}]
          /\ Available(c, k)' = t
          /\ \A d \in Clients \ {c} :
               \/ Available(d, k)' = Available(d, k)
               \/ Available(d, k)' = Full[k] /\ Cardinality(UsersSince(k, d)) >= StoreCapacity
      BY <3>1, <3>3, <3>4, <3>5, <3>6, KindServed
    <3> QED
      BY <2>2, <3>2, <3>7
  <2> QED
    BY <2>1, <2>2
<1>2. touched' \in [Kinds -> [Clients -> Nat \cup {None}]]
  <2>1. touched' = [k \in Kinds |-> touched'[k]]
    BY DEF Touch
  <2> QED
    BY <1>1, <2>1
<1>3. LimiterInv'
  <2>1. \A k \in Kinds : Sound(store'[k], k, now', touched'[k]) /\ IsFiniteSet(Users(k)')
    BY <1>1
  <2>2. now' \in 0 .. MaxTime /\ answer' \in {"none", "admitted", "refused"} /\ restarts' \in 0 .. MaxRestarts
    BY DEF LimiterInv
  <2> QED
    BY <1>2, <2>1, <2>2 DEF LimiterInv
<1> QED
  BY <1>1, <1>3

(* Whether a request is short of tokens is what the clients have.          *)
LEMMA ShortIs ==
  ASSUME LimiterInv, NEW c \in Clients, NEW path \in Paths
  PROVE  /\ KindsOf(path) \subseteq Kinds
         /\ Short(Looked(c, path), c, path) = {k \in KindsOf(path) : Available(c, k) < Unit}
<1>1. KindsOf(path) \subseteq Kinds
  BY DEF KindsOf, Kinds
<1>2. \A k \in KindsOf(path) : BucketOf(Looked(c, path)[k], c).tokens = Available(c, k)
  <2> SUFFICES ASSUME NEW k \in KindsOf(path)
               PROVE  BucketOf(Looked(c, path)[k], c).tokens = Available(c, k)
    OBVIOUS
  <2>1. Looked(c, path)[k] = Checked(c, k)
    BY <1>1 DEF Looked
  <2>2. Bucket(c, Available(c, k)).tokens = Available(c, k)
    BY DEF Bucket
  <2> QED
    BY <1>1, <2>1, <2>2, LookedHas
<1> QED
  BY <1>1, <1>2 DEF Short

LEMMA AdmitServes ==
  ASSUME LimiterInv, NEW c \in Clients, NEW path \in Paths, Admit(c, path)
  PROVE  /\ LimiterInv'
         /\ \A k \in KindsOf(path) : Available(c, k) >= Unit
         /\ \A k \in Kinds : Available(c, k)' = IF k \in KindsOf(path) THEN Available(c, k) - Unit
                                                 ELSE Available(c, k)
         /\ \A k \in Kinds, d \in Clients \ {c} :
              \/ Available(d, k)' = Available(d, k)
              \/ Available(d, k)' = Full[k] /\ Cardinality(UsersSince(k, d)) >= StoreCapacity
<1>1. KindsOf(path) \subseteq Kinds
  BY ShortIs
<1>2. ASSUME NEW k \in KindsOf(path) PROVE Available(c, k) >= Unit
  <2>1. ~(Available(c, k) < Unit)
    BY ShortIs DEF Admit
  <2> QED
    BY <1>1, <2>1, AvailableIs, Limits
<1>3. store' = [k \in Kinds |-> IF k \in KindsOf(path) THEN Charged(Looked(c, path)[k], c)
                                 ELSE Looked(c, path)[k]]
  BY DEF Admit
<1>4. ASSUME NEW k \in KindsOf(path), NEW s, Rest(store[k], k, c, s),
             Checked(c, k) = Append(s, Bucket(c, Available(c, k)))
      PROVE  store'[k] = Append(s, Bucket(c, Available(c, k) - Unit))
  <2> DEFINE a == Available(c, k)
  <2>1. k \in Kinds /\ store'[k] = Charged(Checked(c, k), c)
    BY <1>1, <1>3 DEF Looked
  <2>2. BucketOf(Checked(c, k), c) = Bucket(c, a)
    BY <2>1, LookedHas
  <2>3. [Bucket(c, a) EXCEPT !.tokens = @ - Unit] = Bucket(c, a - Unit)
    BY DEF Bucket
  <2>4. s \in Seq(Buckets(k)) /\ c \notin Keys(s)
    <3>1. Sound(store[k], k, now, touched[k])
      BY <2>1 DEF LimiterInv
    <3> QED
      BY <1>4, <2>1, <3>1, RestKeeps DEF Rest
  <2>5. /\ Bucket(c, a) \in Buckets(k) /\ Bucket(c, a).key = c
        /\ Bucket(c, a - Unit) \in Buckets(k) /\ Bucket(c, a - Unit).key = c
    <3>1. a \in 0 .. Full[k] /\ a >= Unit /\ Unit \in Nat /\ Full[k] \in Nat
      BY <1>2, <2>1, AvailableIs, Limits
    <3>2. now \in 0 .. MaxTime
      BY DEF LimiterInv
    <3> HIDE DEF a
    <3>3. a - Unit \in 0 .. Full[k]
      BY <3>1
    <3> QED
      BY <3>1, <3>2, <3>3 DEF Bucket, Buckets
  <2>6. With(Append(s, Bucket(c, a)), Bucket(c, a - Unit)) = Append(s, Bucket(c, a - Unit))
    BY <2>1, <2>4, <2>5, LastBucket
  <2> QED
    BY <1>4, <2>1, <2>2, <2>3, <2>6 DEF Charged
<1>5. \A k \in Kinds \ KindsOf(path) : store'[k] = store[k]
  BY <1>3 DEF Looked
<1>6. store' = [k \in Kinds |-> store'[k]]
  BY <1>3
<1>7. Touch(c, path) /\ UNCHANGED <<now, restarts>> /\ answer' \in {"admitted", "refused"}
  BY DEF Admit
<1> QED
  BY <1>2, <1>4, <1>5, <1>6, <1>7, RequestServed

LEMMA RefuseServes ==
  ASSUME LimiterInv, NEW c \in Clients, NEW path \in Paths, Refuse(c, path)
  PROVE  /\ LimiterInv'
         /\ \E k \in KindsOf(path) : Available(c, k) < Unit
         /\ \A k \in Kinds : Available(c, k)' = Available(c, k)
         /\ \A k \in Kinds, d \in Clients \ {c} :
              \/ Available(d, k)' = Available(d, k)
              \/ Available(d, k)' = Full[k] /\ Cardinality(UsersSince(k, d)) >= StoreCapacity
<1>1. KindsOf(path) \subseteq Kinds
  BY ShortIs
<1>2. \E k \in KindsOf(path) : Available(c, k) < Unit
  BY ShortIs DEF Refuse
<1>3. store' = Looked(c, path)
  BY DEF Refuse, RefusedStore
<1>4. \A k \in Kinds : Available(c, k) \in Nat /\ Available(c, k) - 0 = Available(c, k)
  BY AvailableIs, Limits
<1>5. \A k \in KindsOf(path) : \A s :
        Rest(store[k], k, c, s) /\ Checked(c, k) = Append(s, Bucket(c, Available(c, k))) =>
          store'[k] = Append(s, Bucket(c, Available(c, k) - 0))
  BY <1>1, <1>3, <1>4 DEF Looked
<1>6. \A k \in Kinds \ KindsOf(path) : store'[k] = store[k]
  BY <1>3 DEF Looked
<1>7. store' = [k \in Kinds |-> store'[k]]
  BY <1>3 DEF Looked
<1>8. Touch(c, path) /\ UNCHANGED <<now, restarts>> /\ answer' \in {"admitted", "refused"}
  BY DEF Refuse
<1>9. \A k \in KindsOf(path) : Available(c, k) >= 0
  BY <1>1, <1>4
<1>10. /\ LimiterInv'
       /\ \A k \in Kinds : Available(c, k)' = IF k \in KindsOf(path) THEN Available(c, k) - 0
                                              ELSE Available(c, k)
       /\ \A k \in Kinds, d \in Clients \ {c} :
            \/ Available(d, k)' = Available(d, k)
            \/ Available(d, k)' = Full[k] /\ Cardinality(UsersSince(k, d)) >= StoreCapacity
  BY <1>5, <1>6, <1>7, <1>8, <1>9, RequestServed
<1>11. \A k \in Kinds : Available(c, k)' = Available(c, k)
  BY <1>4, <1>10
<1> QED
  BY <1>2, <1>10, <1>11

-----------------------------------------------------------------------------
(* The clock, and restarts.                                                *)

LEMMA EmptyStores ==
  ASSUME store = [k \in Kinds |-> <<>>], touched = Never
  PROVE  /\ store = [k \in Kinds |-> store[k]]
         /\ touched \in [Kinds -> [Clients -> Nat \cup {None}]]
         /\ \A k \in Kinds : Sound(store[k], k, now, touched[k]) /\ IsFiniteSet(Users(k))
         /\ \A k \in Kinds, c \in Clients : Available(c, k) = Full[k]
<1>1. ASSUME NEW k \in Kinds
      PROVE  Sound(store[k], k, now, touched[k]) /\ IsFiniteSet(Users(k))
  <2>1. store[k] = <<>> /\ store[k] \in Seq(Buckets(k)) /\ Len(store[k]) = 0
    BY EmptySeq
  <2>2. Users(k) = {}
    BY DEF Users, Never
  <2> QED
    BY <2>1, <2>2, FS_EmptySet, Limits DEF Sound
<1>2. ASSUME NEW k \in Kinds, NEW c \in Clients PROVE Available(c, k) = Full[k]
  <2>1. Keys(store[k]) = {}
    BY DEF Keys
  <2> QED
    BY <2>1 DEF Available
<1> QED
  BY <1>1, <1>2 DEF Never

LEMMA LimiterInit == Init => LimiterInv
BY EmptyStores, Limits DEF Init, LimiterInv

LEMMA RestartServes ==
  ASSUME LimiterInv, Restart
  PROVE  LimiterInv' /\ \A k \in Kinds, c \in Clients : Available(c, k)' = Full[k]
<1>1. store' = [k \in Kinds |-> <<>>] /\ touched' = Never'
  BY DEF Restart, Never
<1>2. /\ store' = [k \in Kinds |-> store'[k]]
      /\ touched' \in [Kinds -> [Clients -> Nat \cup {None}]]
      /\ \A k \in Kinds : Sound(store'[k], k, now', touched'[k]) /\ IsFiniteSet(Users(k)')
      /\ \A k \in Kinds, c \in Clients : Available(c, k)' = Full[k]
  <2>1. ASSUME NEW k \in Kinds
        PROVE  Sound(store'[k], k, now', touched'[k]) /\ IsFiniteSet(Users(k)')
    <3>1. store'[k] = <<>> /\ store'[k] \in Seq(Buckets(k)) /\ Len(store'[k]) = 0
      BY <1>1, EmptySeq
    <3>2. Users(k)' = {}
      BY <1>1 DEF Users, Never
    <3> QED
      BY <3>1, <3>2, FS_EmptySet, Limits DEF Sound
  <2>2. ASSUME NEW k \in Kinds, NEW c \in Clients PROVE Available(c, k)' = Full[k]
    <3>1. Keys(store'[k]) = {}
      BY <1>1 DEF Keys
    <3> QED
      BY <3>1 DEF Available
  <2> QED
    BY <1>1, <2>1, <2>2 DEF Never
<1>3. now' \in 0 .. MaxTime /\ answer' \in {"none", "admitted", "refused"} /\ restarts' \in 0 .. MaxRestarts
  BY Limits DEF LimiterInv, Restart
<1> QED
  BY <1>2, <1>3 DEF LimiterInv

LEMMA TickServes ==
  ASSUME LimiterInv, Tick
  PROVE  /\ LimiterInv'
         /\ \A k \in Kinds, c \in Clients :
              Available(c, k)' = IF Available(c, k) + Refill[k] <= Full[k]
                                 THEN Available(c, k) + Refill[k] ELSE Full[k]
<1>1. now' = now + 1 /\ now' \in 0 .. MaxTime /\ now \in Nat /\ now \in 0 .. MaxTime
      /\ store' = store /\ touched' = touched
  BY Limits DEF Tick, LimiterInv
<1>2. ASSUME NEW k \in Kinds
      PROVE  Sound(store'[k], k, now', touched'[k]) /\ IsFiniteSet(Users(k)')
  <2>1. Sound(store[k], k, now, touched[k]) /\ IsFiniteSet(Users(k))
    BY DEF LimiterInv
  <2>2. ASSUME NEW i \in 1 .. Len(store[k]) PROVE store[k][i].seen <= now + 1
    <3>1. store[k][i].seen \in Nat
      <4>1. store[k][i] \in Buckets(k)
        BY <2>1, ElementOfSeq DEF Sound
      <4> QED
        BY <4>1 DEF Buckets
    <3>2. store[k][i].seen <= now
      BY <2>1 DEF Sound
    <3> QED
      BY <1>1, <3>1, <3>2
  <2>3. Users(k)' = Users(k)
    BY <1>1 DEF Users
  <2> QED
    BY <1>1, <2>1, <2>2, <2>3 DEF Sound
<1>3. LimiterInv'
  <2>1. answer' \in {"none", "admitted", "refused"} /\ restarts' \in 0 .. MaxRestarts
    BY DEF Tick, LimiterInv
  <2> QED
    BY <1>1, <1>2, <2>1 DEF LimiterInv
<1>4. ASSUME NEW k \in Kinds, NEW c \in Clients
      PROVE  Available(c, k)' = IF Available(c, k) + Refill[k] <= Full[k]
                                THEN Available(c, k) + Refill[k] ELSE Full[k]
  <2>1. CASE c \notin Keys(store[k])
    <3>1. Available(c, k) = Full[k] /\ Available(c, k)' = Full[k]
      BY <1>1, <2>1 DEF Available
    <3> QED
      BY <3>1, Limits
  <2>2. CASE c \in Keys(store[k])
    <3>1. PICK b : b = BucketOf(store[k], c)
      OBVIOUS
    <3>2. b \in Buckets(k) /\ b.refilled = b.seen /\ b.seen <= now /\ Available(c, k) = Refilled(b, k).tokens
      BY <2>2, <3>1, AvailableIs
    <3> DEFINE old == b.tokens + (now - b.refilled) * Refill[k]
               new == b.tokens + (now + 1 - b.refilled) * Refill[k]
    <3>3. Available(c, k) = IF Full[k] <= old THEN Full[k] ELSE old
      BY <1>1, <3>2, RefilledIs
    <3>4. /\ now - b.refilled \in Nat /\ b.tokens \in Nat /\ Refill[k] \in Nat /\ Full[k] \in Nat
          /\ now + 1 - b.refilled = (now - b.refilled) + 1
      BY <1>1, <3>2, Limits DEF Buckets
    <3>5. (now - b.refilled) * Refill[k] \in Nat
          /\ (now + 1 - b.refilled) * Refill[k] = (now - b.refilled) * Refill[k] + Refill[k]
      BY <3>4, Product
    <3>6. old \in Nat /\ new = old + Refill[k]
      BY <3>4, <3>5
    <3>7. Available(c, k)' = Min({Full[k], new})
      <4>1. Available(c, k)' = Refilled(b, k)'.tokens
        BY <1>1, <2>2, <3>1 DEF Available, Refilled
      <4>2. Refilled(b, k)' =
              [b EXCEPT !.tokens = Min({Full[k], b.tokens + (now' - b.refilled) * Refill[k]}), !.refilled = now']
        BY DEF Refilled
      <4>3. Refilled(b, k)'.tokens = Min({Full[k], b.tokens + (now' - b.refilled) * Refill[k]})
        BY <3>2, <4>2 DEF Buckets
      <4> QED
        <5>1. b.tokens + (now' - b.refilled) * Refill[k] = new
          <6>1. now' = now + 1 /\ now \in Nat /\ b.refilled \in Nat
            BY <1>1, <3>2 DEF Buckets
          <6>2. now' - b.refilled = now + 1 - b.refilled
            BY <6>1
          <6> QED
            BY <6>2
        <5> HIDE DEF new
        <5> QED
          BY <4>1, <4>3, <5>1
    <3> HIDE DEF old, new
    <3>8. Min({Full[k], new}) = IF Full[k] <= new THEN Full[k] ELSE new
      BY <3>4, <3>6, MinOfTwo
    <3> QED
      BY <3>3, <3>4, <3>6, <3>7, <3>8
  <2> QED
    BY <2>1, <2>2
<1> QED
  BY <1>3, <1>4

-----------------------------------------------------------------------------
LEMMA LimiterStep == LimiterInv /\ [Next]_vars => LimiterInv'
<1> SUFFICES ASSUME LimiterInv, [Next]_vars PROVE LimiterInv'
  OBVIOUS
<1>1. CASE Tick
  BY <1>1, TickServes
<1>2. CASE \E c \in Clients, path \in Paths : Admit(c, path) \/ Refuse(c, path)
  BY <1>2, AdmitServes, RefuseServes
<1>3. CASE Restart
  BY <1>3, RestartServes
<1>4. CASE UNCHANGED vars
  BY <1>4 DEF vars, LimiterInv, Users
<1> QED
  BY <1>1, <1>2, <1>3, <1>4 DEF Next

LEMMA LimiterInvariant == Spec => []LimiterInv
BY LimiterInit, LimiterStep, PTL DEF Spec

(* The two stores never hold more than they may or one client twice, stay  *)
(* in the order of last use, which expiry and eviction rely on, and the    *)
(* Retry-After of every refusal is enough.                                 *)
THEOREM StoresStaySound == Spec => []StoresAreSound
BY LimiterInvariant, LimiterInvImplies, PTL

(* Step by step, the stores implement TokenBucket: under the mapping that  *)
(* counts what each client could spend now, expiry and eviction included.  *)
LEMMA IdealInit == Init => Ideal!Init
<1> SUFFICES ASSUME Init PROVE Ideal!Init
  OBVIOUS
<1>1. \A k \in Kinds, c \in Clients : Available(c, k) = Full[k]
  BY EmptyStores DEF Init
<1> QED
  BY <1>1 DEF Init, Never, Kinds, Ideal!Init, Ideal!Unused, Ideal!Kinds

LEMMA IdealStep ==
  LimiterInv /\ [Next]_vars =>
    [Ideal!Next]_<<now, [k \in Kinds |-> [c \in Clients |-> Available(c, k)]], touched, answer>>
<1> DEFINE avail == [k \in Kinds |-> [c \in Clients |-> Available(c, k)]]
<1> SUFFICES ASSUME LimiterInv, [Next]_vars
             PROVE  Ideal!Next \/ UNCHANGED <<now, avail, touched, answer>>
  OBVIOUS
<1>1. Ideal!Kinds = Kinds /\ Ideal!Paths = Paths /\ \A path : Ideal!KindsOf(path) = KindsOf(path)
  BY DEF Kinds, Ideal!Kinds, Paths, Ideal!Paths, KindsOf, Ideal!KindsOf
<1>2. \A k \in Kinds, c \in Clients : avail[k][c] = Available(c, k) /\ avail'[k][c] = Available(c, k)'
  OBVIOUS
<1>3. avail' = [k \in Kinds |-> [c \in Clients |-> Available(c, k)']]
  OBVIOUS
<1>4. CASE Tick
  <2>1. avail' = [k \in Kinds |-> [c \in Clients |-> Ideal!AtMost(Full[k], avail[k][c] + Refill[k])]]
    BY <1>2, <1>3, <1>4, TickServes DEF Ideal!AtMost
  <2>2. Ideal!Tick
    BY <1>1, <1>4, <2>1 DEF Tick, Ideal!Tick
  <2> QED
    BY <2>2 DEF Ideal!Next
<1>5. ASSUME NEW c \in Clients, NEW path \in Paths, Touch(c, path),
             \A k \in Kinds : Available(c, k)' \in Int,
             \A k \in Kinds, d \in Clients \ {c} :
               \/ Available(d, k)' = Available(d, k)
               \/ Available(d, k)' = Full[k] /\ Cardinality(UsersSince(k, d)) >= StoreCapacity
      PROVE  Ideal!Use(c, path) /\ Ideal!KeptBut(c) /\ avail' \in [Kinds -> [Clients -> Int]]
  <2>1. Ideal!Use(c, path)
    BY <1>1, <1>5 DEF Touch, Ideal!Use
  <2>2. \A k \in Kinds, d \in Clients : Ideal!Since(k, d) = UsersSince(k, d)
    BY DEF Ideal!Since, UsersSince
  <2>3. ASSUME NEW k \in Kinds, NEW d \in Clients \ {c} PROVE Ideal!Kept(k, d)
    <3>1. avail[k][d] = Available(d, k) /\ avail'[k][d] = Available(d, k)'
      BY <1>2
    <3>2. \/ Available(d, k)' = Available(d, k)
          \/ Available(d, k)' = Full[k] /\ Cardinality(Ideal!Since(k, d)) >= StoreCapacity
      BY <1>5, <2>2
    <3>3. \A S : Ideal!Cardinality(S) = Cardinality(S)
      BY DEF Cardinality, Ideal!Cardinality
    <3> QED
      BY <3>1, <3>2, <3>3 DEF Ideal!Kept
  <2>4. Ideal!KeptBut(c)
    BY <1>1, <2>3 DEF Ideal!KeptBut
  <2>5. \A k \in Kinds, d \in Clients : Available(d, k)' \in Int
    <3>1. \A k \in Kinds, d \in Clients : Available(d, k) \in Int /\ Full[k] \in Int
      BY AvailableIs, Limits
    <3> QED
      BY <1>5, <3>1
  <2> QED
    BY <1>3, <2>1, <2>4, <2>5
<1>6. ASSUME NEW c \in Clients, NEW path \in Paths, Admit(c, path) PROVE Ideal!Admit(c, path)
  <2>0. \A k \in Kinds : Available(c, k)' \in Int
    <3>1. \A k \in Kinds : Available(c, k) \in Int /\ Available(c, k) - Unit \in Int
      BY AvailableIs, Limits
    <3> QED
      BY <1>6, <3>1, AdmitServes
  <2>1. Ideal!Use(c, path) /\ Ideal!KeptBut(c) /\ avail' \in [Kinds -> [Clients -> Int]]
    BY <1>5, <1>6, <2>0, AdmitServes DEF Admit
  <2>2. Ideal!Admissible(c, path)
    BY <1>1, <1>2, <1>6, AdmitServes, ShortIs DEF Ideal!Admissible
  <2>3. \A k \in Kinds : avail'[k][c] = IF k \in KindsOf(path) THEN avail[k][c] - Unit ELSE avail[k][c]
    BY <1>2, <1>6, AdmitServes
  <2> QED
    BY <1>1, <1>6, <2>1, <2>2, <2>3 DEF Admit, Ideal!Admit
<1>7. ASSUME NEW c \in Clients, NEW path \in Paths, Refuse(c, path) PROVE Ideal!Refuse(c, path)
  <2>0. \A k \in Kinds : Available(c, k)' \in Int
    <3>1. \A k \in Kinds : Available(c, k) \in Int
      BY AvailableIs, Limits
    <3> QED
      BY <1>7, <3>1, RefuseServes
  <2>1. Ideal!Use(c, path) /\ Ideal!KeptBut(c) /\ avail' \in [Kinds -> [Clients -> Int]]
    BY <1>5, <1>7, <2>0, RefuseServes DEF Refuse
  <2>2. ~Ideal!Admissible(c, path)
    <3>1. PICK k \in KindsOf(path) : Available(c, k) < Unit
      BY <1>7, RefuseServes
    <3>2. k \in Kinds
      BY ShortIs
    <3>3. ~(Available(c, k) >= Unit)
      <4>1. Available(c, k) \in Nat /\ Unit \in Nat
        BY <3>2, AvailableIs, Limits
      <4> QED
        BY <3>1, <4>1
    <3>4. ~(avail[k][c] >= Unit)
      BY <1>2, <3>2, <3>3
    <3> HIDE DEF avail
    <3> QED
      BY <1>1, <3>1, <3>4 DEF Ideal!Admissible, avail
  <2>3. \A k \in Kinds : avail'[k][c] = avail[k][c]
    BY <1>2, <1>7, RefuseServes
  <2> QED
    BY <1>1, <1>7, <2>1, <2>2, <2>3 DEF Refuse, Ideal!Refuse
<1>8. CASE \E c \in Clients, path \in Paths : Admit(c, path) \/ Refuse(c, path)
  BY <1>1, <1>6, <1>7, <1>8 DEF Ideal!Next
<1>9. CASE Restart
  <2>1. avail' = [k \in Kinds |-> [c \in Clients |-> Full[k]]]
    BY <1>3, <1>9, RestartServes
  <2>2. Ideal!Restart
    BY <1>1, <1>9, <2>1 DEF Restart, Never, Ideal!Restart, Ideal!Unused
  <2> QED
    BY <2>2 DEF Ideal!Next
<1>10. CASE UNCHANGED vars
  <2>1. \A k \in Kinds, c \in Clients : Available(c, k)' = Available(c, k)
    BY <1>10 DEF vars, Available, Refilled
  <2> QED
    BY <1>3, <1>10, <2>1 DEF vars
<1> QED
  BY <1>4, <1>8, <1>9, <1>10 DEF Next

(* Each client is given the bucket it is promised, by stores that keep     *)
(* only what is in use: what was spent comes back by the refill, or by an  *)
(* eviction for which as many other clients have asked as the store holds, *)
(* or by a restart.                                                        *)
THEOREM StoresImplementBuckets == Spec => IdealBuckets
<1>1. Init => Ideal!Init
  BY IdealInit
<1>2. LimiterInv /\ [Next]_vars =>
        [Ideal!Next]_<<now, [k \in Kinds |-> [c \in Clients |-> Available(c, k)]], touched, answer>>
  BY IdealStep
<1> QED
  BY <1>1, <1>2, LimiterInvariant, PTL DEF Spec, IdealBuckets, Ideal!Spec

-----------------------------------------------------------------------------
(* The cache                                                               *)

(* From content number b on, nothing was replaced before the instant at.   *)
CurrentAt(b, at) == b <= Build /\ at <= clock /\ \A c \in b + 1 .. Build : committed[c] >= at

HonestAnswer(a) ==
  a \in Answers /\ a.first <= a.last /\ a.last <= Build /\ CurrentAt(a.first, a.computed_at)

Computing == [pc : {"computing"}, asked : QueryStrings, at : Instants]
Reading == [pc : {"reading"}, asked : QueryStrings, at : Instants, first : Builds]
Computed == [pc : {"computed"}, asked : QueryStrings, at : Instants, answer : Answers]
Answering == [pc : {"serving"}, asked : QueryStrings, answer : Answers]

InTime(at) == at <= clock /\ clock - at <= MaxCompute

(* What a thread carries from one of its steps to the next.                *)
ThreadInv(h) ==
  \/ h = Idle
  \/ h \in Computing /\ InTime(h.at)
  \/ h \in Reading /\ InTime(h.at) /\ CurrentAt(h.first, h.at)
  \/ /\ h \in Computed /\ InTime(h.at)
     /\ HonestAnswer(h.answer) /\ h.answer.computed_at = h.at /\ h.answer.to = Question(h.asked)
  \/ /\ h \in Answering
     /\ HonestAnswer(h.answer) /\ (Plain(h.asked) => h.answer.to = Question(h.asked))

Entries == [expires : 0 .. MaxClock + TTL, answer : Answers]

(* What the dict keeps: an answer to some question of the same key, not to *)
(* be served for longer than it took to compute and the TTL.               *)
EntryInv(key, e) ==
  \/ e = Absent
  \/ /\ e \in Entries /\ HonestAnswer(e.answer)
     /\ e.expires <= e.answer.computed_at + MaxCompute + TTL
     /\ \E q \in QueryStrings : KeyOf(q) = key /\ e.answer.to = Question(q)

CacheInv ==
  /\ clock \in Instants
  /\ committed \in Seq(Instants) /\ Build \in Builds
  /\ entries = [key \in CacheKeys |-> entries[key]]
  /\ \A key \in CacheKeys : EntryInv(key, entries[key])
  /\ thread = [t \in Threads |-> thread[t]]
  /\ \A t \in Threads : ThreadInv(thread[t])

-----------------------------------------------------------------------------
(* Questions and keys.                                                     *)

(* A set of indices that is not empty has a last one.                      *)
LEMMA LastOfIndices ==
  ASSUME NEW n \in Nat, NEW S \in SUBSET (1 .. n), S # {}
  PROVE  \E i \in S : \A j \in S : j <= i
<1> DEFINE T == {n - i : i \in S}
<1>1. T \subseteq Nat /\ T # {}
  <2>1. PICK i \in S : TRUE
    OBVIOUS
  <2>2. \A j \in S : n - j \in Nat
    OBVIOUS
  <2> QED
    BY <2>1, <2>2
<1>2. PICK x \in T : \A y \in T : ~(<<y, x>> \in OpToRel(<, Nat))
  BY <1>1, NatLessThanWellFounded, WFMin
<1>3. \A y \in T : ~(y < x)
  BY <1>1, <1>2 DEF OpToRel
<1>4. PICK i \in S : x = n - i
  BY <1>2
<1>5. ASSUME NEW j \in S PROVE j <= i
  BY <1>3, <1>4
<1> QED
  BY <1>5

(* Two query strings of one key have the same parameters.                  *)
LEMMA OneKeyOneRange ==
  \A q, r \in QueryStrings : KeyOf(q) = KeyOf(r) => Range(q) = Range(r)
BY DEF KeyOf, Counted

(* What the route is called with is a parameter that was given.            *)
LEMMA QuestionIsGiven ==
  ASSUME NEW q \in QueryStrings
  PROVE  /\ DOMAIN Question(q) = {p.name : p \in Range(q)}
         /\ \A n \in DOMAIN Question(q) :
              \E p \in Range(q) : p.name = n /\ p.value = Question(q)[n]
<1>1. q \in Seq([name : STRING, value : STRING]) /\ Len(q) \in Nat /\ DOMAIN q = 1 .. Len(q)
  BY CacheAssumption, LenProperties
<1>2. DOMAIN Question(q) = {q[i].name : i \in DOMAIN q}
  BY DEF Question
<1>3. ASSUME NEW n \in DOMAIN Question(q)
      PROVE  \E p \in Range(q) : p.name = n /\ p.value = Question(q)[n]
  <2> DEFINE S == {i \in DOMAIN q : q[i].name = n}
             Last(i) == q[i].name = n /\ \A j \in i + 1 .. Len(q) : q[j].name # n
  <2>1. S # {} /\ S \in SUBSET (1 .. Len(q))
    BY <1>1, <1>2, <1>3
  <2>2. PICK i \in S : \A j \in S : j <= i
    BY <1>1, <2>1, LastOfIndices
  <2>3. Last(i)
    <3>1. ASSUME NEW j \in i + 1 .. Len(q) PROVE q[j].name # n
      <4>1. j \in DOMAIN q /\ ~(j <= i)
        BY <1>1, <2>1, <2>2
      <4> QED
        BY <2>2, <4>1
    <3> QED
      BY <2>2, <3>1
  <2>4. i \in DOMAIN q
    BY <2>2
  <2> DEFINE k == CHOOSE j \in DOMAIN q : Last(j)
  <2>5. k \in DOMAIN q /\ Last(k)
    BY <2>3, <2>4
  <2>6. Question(q)[n] = q[k].value
    BY <1>2, <1>3 DEF Question
  <2> QED
    BY <2>5, <2>6 DEF Range
<1>4. {q[i].name : i \in DOMAIN q} = {p.name : p \in Range(q)}
  BY DEF Range
<1> QED
  BY <1>2, <1>3, <1>4

(* A query string without repetitions asks the same as any other of its key.*)
LEMMA OneKeyOneQuestion ==
  ASSUME NEW q \in QueryStrings, NEW r \in QueryStrings, KeyOf(q) = KeyOf(r), Plain(q)
  PROVE  Question(r) = Question(q)
<1>1. Range(q) = Range(r)
  BY OneKeyOneRange
<1>2. DOMAIN Question(q) = DOMAIN Question(r)
  BY <1>1, QuestionIsGiven
<1>3. ASSUME NEW n \in DOMAIN Question(q) PROVE Question(q)[n] = Question(r)[n]
  <2>1. PICK p \in Range(q) : p.name = n /\ p.value = Question(q)[n]
    BY QuestionIsGiven
  <2>2. PICK s \in Range(q) : s.name = n /\ s.value = Question(r)[n]
    <3>1. n \in DOMAIN Question(r)
      BY <1>2
    <3>2. \E s \in Range(r) : s.name = n /\ s.value = Question(r)[n]
      BY <3>1, QuestionIsGiven
    <3> QED
      BY <1>1, <3>2
  <2>3. p = s
    BY <2>1, <2>2 DEF Plain, Range
  <2> QED
    BY <2>1, <2>2, <2>3
<1>4. /\ Question(q) = [n \in DOMAIN Question(q) |-> Question(q)[n]]
      /\ Question(r) = [n \in DOMAIN Question(r) |-> Question(r)[n]]
  BY DEF Question
<1> QED
  BY <1>2, <1>3, <1>4

-----------------------------------------------------------------------------
(* The invariant says what the run checks.                                 *)

LEMMA CacheInvImplies == CacheInv => PlainQuestionIsAnswered /\ AnswersAreHonest
<1> SUFFICES ASSUME CacheInv PROVE PlainQuestionIsAnswered /\ AnswersAreHonest
  OBVIOUS
<1> USE DEF CacheInv
<1>1. ASSUME NEW t \in Threads, IsServed(t)
      PROVE  /\ thread[t] \in Answering /\ HonestAnswer(Served(t))
             /\ (Plain(thread[t].asked) => RightAnswer(t))
  BY <1>1 DEF IsServed, Served, RightAnswer, ThreadInv, Computing, Reading, Computed, Answering, Idle
<1>2. PlainQuestionIsAnswered
  BY <1>1 DEF PlainQuestionIsAnswered
<1>3. CacheTypeOK
  <2>1. entries \in [CacheKeys -> {Absent} \cup Entries]
    BY DEF EntryInv
  <2>2. \A t \in Threads : thread[t] \in {Idle} \cup Computing \cup Reading \cup Computed \cup Answering
    BY DEF ThreadInv
  <2> QED
    BY <2>1, <2>2 DEF CacheTypeOK, Entries, Computing, Reading, Computed, Answering
<1>4. ComputedAtIsHonest
  <2> SUFFICES ASSUME NEW t \in Threads, IsServed(t), NEW b \in {Served(t).first, Served(t).last}
               PROVE  ReplacedAt(b) = Absent \/ ReplacedAt(b) >= Served(t).computed_at
    BY DEF ComputedAtIsHonest
  <2>1. b \in Builds /\ Served(t).first <= b /\ Served(t).first \in Builds
        /\ CurrentAt(Served(t).first, Served(t).computed_at)
    BY <1>1 DEF HonestAnswer, Answers, Builds
  <2> QED
    BY <2>1, CacheAssumption DEF CurrentAt, ReplacedAt, Builds
<1>5. MixedOnlyByACommit
  <2> SUFFICES ASSUME NEW t \in Threads, IsServed(t),
                      NEW b \in Served(t).first + 1 .. Served(t).last
               PROVE  committed[b] >= Served(t).computed_at
    BY DEF MixedOnlyByACommit
  <2>1. Served(t).first \in Builds /\ Served(t).last \in Builds /\ Served(t).last <= Build
        /\ CurrentAt(Served(t).first, Served(t).computed_at)
    BY <1>1 DEF HonestAnswer, Answers
  <2> QED
    BY <2>1, CacheAssumption DEF CurrentAt, Builds
<1> QED
  BY <1>2, <1>3, <1>4, <1>5 DEF AnswersAreHonest

LEMMA InitialCache == CacheInit => CacheInv
<1> SUFFICES ASSUME CacheInit PROVE CacheInv
  OBVIOUS
<1> USE CacheAssumption DEF CacheInit
<1>1. clock \in Instants /\ committed \in Seq(Instants) /\ Build \in Builds
  BY DEF Instants, Builds, Build
<1> QED
  BY <1>1 DEF CacheInv, EntryInv, ThreadInv

-----------------------------------------------------------------------------
(* The clock and the builds.                                               *)

(* What was current at an instant stays so: a later build commits later.   *)
LEMMA CurrentStays ==
  ASSUME CacheInv, clock' \in Instants, clock' >= clock,
         \/ committed' = committed
         \/ committed' = Append(committed, clock),
         NEW b \in Builds, NEW at \in Instants, CurrentAt(b, at)
  PROVE  CurrentAt(b, at)' /\ Build' >= Build
<1>1. CASE committed' = committed
  BY <1>1, CacheAssumption DEF Build, CacheInv, CurrentAt, Builds, Instants
<1>2. CASE committed' = Append(committed, clock)
  <2>1. Build' = Build + 1 /\ \A c \in 1 .. Build : committed'[c] = committed[c]
    BY <1>2, CacheAssumption, AppendProperties DEF Build, CacheInv, Instants
  <2>2. committed'[Build + 1] = clock
    BY <1>2, CacheAssumption, AppendProperties DEF Build, CacheInv, Instants
  <2>3. b \in Nat /\ b <= Build /\ Build \in Nat /\ at <= clock /\ clock \in Nat /\ at \in Nat
        /\ clock' \in Nat
    BY CacheAssumption DEF CacheInv, CurrentAt, Builds, Instants
  <2>4. ASSUME NEW c \in b + 1 .. Build + 1 PROVE committed'[c] >= at
    <3>1. CASE c = Build + 1
      BY <2>2, <2>3, <3>1
    <3>2. CASE c # Build + 1
      <4>1. c \in b + 1 .. Build /\ c \in 1 .. Build
        BY <2>3, <3>2
      <4> QED
        BY <2>1, <4>1 DEF CurrentAt
    <3> QED
      BY <3>1, <3>2
  <2> QED
    BY <2>1, <2>3, <2>4 DEF CurrentAt
<1> QED
  BY <1>1, <1>2

LEMMA HonestStays ==
  ASSUME CacheInv, clock' \in Instants, clock' >= clock,
         \/ committed' = committed
         \/ committed' = Append(committed, clock),
         Build' \in Builds,
         NEW a, HonestAnswer(a)
  PROVE  HonestAnswer(a)'
<1>1. a.first \in Builds /\ a.computed_at \in Instants /\ a.last \in Builds
  BY DEF HonestAnswer, Answers
<1>2. CurrentAt(a.first, a.computed_at)' /\ Build' >= Build
  BY <1>1, CurrentStays DEF HonestAnswer
<1> QED
  BY <1>1, <1>2, CacheAssumption DEF HonestAnswer, Builds, CacheInv

(* Neither the clock nor a build disturbs what threads and entries hold.   *)
LEMMA TimePasses ==
  ASSUME CacheInv, clock' \in Instants, clock' >= clock,
         \/ committed' = committed
         \/ committed' = Append(committed, clock) /\ Build' \in Builds,
         UNCHANGED <<entries, thread>>,
         \A t \in Threads : thread[t].pc \in {"computing", "reading", "computed"} =>
                              clock' - thread[t].at <= MaxCompute
  PROVE  CacheInv'
<1>1. Build' \in Builds /\ committed' \in Seq(Instants)
  BY AppendProperties DEF CacheInv, Build
<1>2. ASSUME NEW key \in CacheKeys PROVE EntryInv(key, entries[key])'
  <2>1. EntryInv(key, entries[key])
    BY DEF CacheInv
  <2> QED
    BY <1>1, <2>1, HonestStays DEF EntryInv
<1>3. ASSUME NEW t \in Threads PROVE ThreadInv(thread[t])'
  <2> DEFINE h == thread[t]
  <2>1. ThreadInv(h) /\ thread'[t] = h
    BY DEF CacheInv
  <2>2. CASE h = Idle
    BY <2>1, <2>2 DEF ThreadInv
  <2>3. CASE h \in Computing /\ InTime(h.at)
    <3>0. h.pc = "computing" /\ h.at \in Instants /\ h.at <= clock
      BY <2>3 DEF Computing, InTime
    <3>1. InTime(h.at)'
      BY <2>1, <3>0, CacheAssumption DEF InTime, Instants, CacheInv
    <3> QED
      BY <2>1, <2>3, <3>1 DEF ThreadInv
  <2>4. CASE h \in Reading /\ InTime(h.at) /\ CurrentAt(h.first, h.at)
    <3>0. h.pc = "reading" /\ h.at \in Instants /\ h.at <= clock
      BY <2>4 DEF Reading, InTime
    <3>1. InTime(h.at)'
      BY <2>1, <3>0, CacheAssumption DEF InTime, Instants, CacheInv
    <3>2. CurrentAt(h.first, h.at)'
      BY <2>1, <2>4, CurrentStays DEF Reading
    <3> QED
      BY <2>1, <2>4, <3>1, <3>2 DEF ThreadInv
  <2>5. CASE /\ h \in Computed /\ InTime(h.at)
             /\ HonestAnswer(h.answer) /\ h.answer.computed_at = h.at /\ h.answer.to = Question(h.asked)
    <3>0. h.pc = "computed" /\ h.at \in Instants /\ h.at <= clock
      BY <2>5 DEF Computed, InTime
    <3>1. InTime(h.at)'
      BY <2>1, <3>0, CacheAssumption DEF InTime, Instants, CacheInv
    <3>2. HonestAnswer(h.answer)'
      BY <1>1, <2>1, <2>5, HonestStays
    <3> QED
      BY <2>1, <2>5, <3>1, <3>2 DEF ThreadInv
  <2>6. CASE /\ h \in Answering
             /\ HonestAnswer(h.answer) /\ (Plain(h.asked) => h.answer.to = Question(h.asked))
    <3>1. HonestAnswer(h.answer)'
      BY <1>1, <2>1, <2>6, HonestStays
    <3> QED
      BY <2>1, <2>6, <3>1 DEF ThreadInv
  <2> QED
    BY <2>1, <2>2, <2>3, <2>4, <2>5, <2>6 DEF ThreadInv
<1> QED
  BY <1>1, <1>2, <1>3 DEF CacheInv

-----------------------------------------------------------------------------
(* The threads.                                                            *)

(* A step of one thread that leaves the dict alone.                        *)
LEMMA ThreadMoves ==
  ASSUME CacheInv, UNCHANGED <<clock, committed, entries>>,
         NEW t \in Threads, NEW h, thread' = [thread EXCEPT ![t] = h], ThreadInv(h)
  PROVE  CacheInv'
<1>1. ASSUME NEW u \in Threads PROVE ThreadInv(thread'[u])
  <2>1. thread'[u] = IF u = t THEN h ELSE thread[u]
    BY DEF CacheInv
  <2> QED
    BY <2>1 DEF CacheInv
<1>2. thread' = [u \in Threads |-> thread'[u]]
  BY DEF CacheInv
<1>3. /\ \A a : HonestAnswer(a)' <=> HonestAnswer(a)
      /\ \A b, at : CurrentAt(b, at)' <=> CurrentAt(b, at)
      /\ \A at : InTime(at)' <=> InTime(at)
  BY DEF HonestAnswer, CurrentAt, InTime, Build
<1>4. \A u \in Threads : ThreadInv(thread[u])'
  BY <1>1, <1>3 DEF ThreadInv
<1>5. \A key \in CacheKeys : EntryInv(key, entries[key])'
  BY <1>3 DEF CacheInv, EntryInv
<1> QED
  BY <1>2, <1>4, <1>5 DEF CacheInv, Build

(* What is stored and served is the answer just computed.                  *)
LEMMA StoreKeeps == ASSUME CacheInv, NEW t \in Threads, Store(t) PROVE CacheInv'
<1> DEFINE h == thread[t]
           key == KeyOf(h.asked)
           e == [expires |-> Expiry, answer |-> h.answer]
           served == Serving(h.asked, h.answer)
<1> USE CacheAssumption
<1>1. /\ h \in Computed /\ InTime(h.at) /\ HonestAnswer(h.answer)
      /\ h.answer.computed_at = h.at /\ h.answer.to = Question(h.asked)
  BY DEF Store, CacheInv, ThreadInv, Idle, Computing, Reading, Computed, Answering
<1>2. key \in CacheKeys
  BY <1>1 DEF CacheKeys, Computed
<1>3. /\ entries' = [entries EXCEPT ![key] = e] /\ thread' = [thread EXCEPT ![t] = served]
      /\ UNCHANGED <<clock, committed>>
  BY DEF Store
<1>4. EntryInv(key, e)
  <2>1. e \in Entries
    BY <1>1 DEF Entries, Expiry, Computed, CacheInv, Instants
  <2>2. e.expires <= e.answer.computed_at + MaxCompute + TTL
    <3>1. clock \in Nat /\ h.at \in Nat /\ clock - h.at <= MaxCompute
      BY <1>1 DEF InTime, CacheInv, Computed, Instants
    <3> QED
      BY <1>1, <3>1 DEF Expiry
  <2>3. h.asked \in QueryStrings
    BY <1>1 DEF Computed
  <2> QED
    BY <1>1, <2>1, <2>2, <2>3 DEF EntryInv
<1>5. ThreadInv(served)
  BY <1>1 DEF ThreadInv, Serving, Answering, Computed
<1> HIDE DEF e, served, key
<1>6. \A k \in CacheKeys : entries'[k] = IF k = key THEN e ELSE entries[k]
  BY <1>2, <1>3 DEF CacheInv
<1>7. \A u \in Threads : thread'[u] = IF u = t THEN served ELSE thread[u]
  BY <1>3 DEF CacheInv
<1>8. /\ \A a : HonestAnswer(a)' <=> HonestAnswer(a)
      /\ \A b, at : CurrentAt(b, at)' <=> CurrentAt(b, at)
      /\ \A at : InTime(at)' <=> InTime(at)
  BY <1>3 DEF HonestAnswer, CurrentAt, InTime, Build
<1>9. \A u \in Threads : ThreadInv(thread[u])'
  <2>1. \A u \in Threads : ThreadInv(thread'[u])
    BY <1>5, <1>7 DEF CacheInv
  <2> QED
    BY <1>8, <2>1 DEF ThreadInv
<1>10. \A k \in CacheKeys : EntryInv(k, entries[k])'
  <2>1. \A k \in CacheKeys : EntryInv(k, entries'[k])
    BY <1>4, <1>6 DEF CacheInv
  <2> QED
    BY <1>8, <2>1 DEF EntryInv
<1>11. entries' = [k \in CacheKeys |-> entries'[k]] /\ thread' = [u \in Threads |-> thread'[u]]
  BY <1>3 DEF CacheInv
<1> QED
  BY <1>3, <1>9, <1>10, <1>11 DEF CacheInv, Build

LEMMA ServeKeeps == ASSUME CacheInv, NEW t \in Threads, Serve(t) PROVE CacheInv'
<1> USE CacheAssumption
<1> DEFINE h == thread[t]
<1>0. ThreadInv(h) /\ clock \in Instants /\ Build \in Builds
  BY DEF CacheInv
<1>1. ASSUME NEW q \in QueryStrings, Hit(t, q) PROVE CacheInv'
  <2> DEFINE entry == entries[KeyOf(q)]
  <2>1. KeyOf(q) \in CacheKeys /\ entry # Absent
    BY <1>1 DEF CacheKeys, Hit, Fresh
  <2>2. /\ entry \in Entries /\ HonestAnswer(entry.answer)
        /\ \E r \in QueryStrings : KeyOf(r) = KeyOf(q) /\ entry.answer.to = Question(r)
    BY <2>1 DEF CacheInv, EntryInv
  <2>3. PICK r \in QueryStrings : KeyOf(r) = KeyOf(q) /\ entry.answer.to = Question(r)
    BY <2>2
  <2>4. Plain(q) => entry.answer.to = Question(q)
    BY <2>3, OneKeyOneQuestion
  <2>5. ThreadInv(Serving(q, entry.answer))
    BY <2>2, <2>4 DEF ThreadInv, Serving, Answering, Entries
  <2> QED
    BY <1>1, <2>5, ThreadMoves DEF Hit
<1>2. ASSUME NEW q \in QueryStrings, Miss(t, q) PROVE CacheInv'
  <2>1. ThreadInv([pc |-> "computing", asked |-> q, at |-> clock])
    BY <1>0 DEF ThreadInv, Computing, InTime, Instants
  <2> QED
    BY <1>2, <2>1, ThreadMoves DEF Miss
<1>3. CASE FirstRead(t)
  <2>1. h \in Computing /\ InTime(h.at)
    BY <1>0, <1>3 DEF FirstRead, ThreadInv, Idle, Computing, Reading, Computed, Answering
  <2> DEFINE n == [pc |-> "reading", asked |-> h.asked, at |-> h.at, first |-> Build]
  <2>2. CurrentAt(Build, h.at)
    BY <1>0, <2>1 DEF CurrentAt, InTime, Builds
  <2>3. ThreadInv(n)
    BY <1>0, <2>1, <2>2 DEF ThreadInv, Reading, Computing
  <2>4. thread' = [thread EXCEPT ![t] = n] /\ UNCHANGED <<clock, committed, entries>>
    BY <1>3 DEF FirstRead
  <2> QED
    BY <2>3, <2>4, ThreadMoves
<1>4. CASE LastRead(t)
  <2>1. h \in Reading /\ InTime(h.at) /\ CurrentAt(h.first, h.at)
    BY <1>0, <1>4 DEF LastRead, ThreadInv, Idle, Computing, Reading, Computed, Answering
  <2> DEFINE a == [to |-> Question(h.asked), first |-> h.first, last |-> Build, computed_at |-> h.at]
             n == [pc |-> "computed", asked |-> h.asked, at |-> h.at, answer |-> a]
  <2>2. thread' = [thread EXCEPT ![t] = n] /\ UNCHANGED <<clock, committed, entries>>
    BY <1>4 DEF LastRead, ComputedAt
  <2>3. a \in Answers
    BY <1>0, <2>1 DEF Answers, Reading, Questions
  <2>4. HonestAnswer(a)
    BY <1>0, <2>1, <2>3 DEF HonestAnswer, CurrentAt, Builds
  <2>5. ThreadInv(n)
    BY <1>0, <2>1, <2>3, <2>4 DEF ThreadInv, Computed, Reading
  <2> QED
    BY <2>2, <2>5, ThreadMoves
<1>5. CASE Store(t)
  BY <1>5, StoreKeeps
<1>6. CASE ComputeFails(t) \/ Respond(t)
  BY <1>6, ThreadMoves DEF ComputeFails, Respond, ThreadInv
<1> QED
  BY <1>1, <1>2, <1>3, <1>4, <1>5, <1>6 DEF Serve

LEMMA CacheStep == CacheInv /\ [CacheNext]_cacheVars => CacheInv'
<1> SUFFICES ASSUME CacheInv, [CacheNext]_cacheVars PROVE CacheInv'
  OBVIOUS
<1>1. CASE ClockTick
  <2>1. clock' \in Instants /\ clock' = clock + 1
    BY <1>1, CacheAssumption DEF ClockTick, CacheInv, Instants
  <2>2. ASSUME NEW t \in Threads, thread[t].pc \in {"computing", "reading", "computed"}
        PROVE  clock' - thread[t].at <= MaxCompute
    <3>1. thread[t].at \in Instants
      <4>1. ThreadInv(thread[t])
        BY DEF CacheInv
      <4> QED
        BY <2>2, <4>1 DEF ThreadInv, Idle, Computing, Reading, Computed, Answering
    <3>2. clock - thread[t].at < MaxCompute
      BY <1>1, <2>2 DEF ClockTick
    <3> QED
      BY <2>1, <3>1, <3>2, CacheAssumption DEF Instants, CacheInv
  <2> QED
    BY <1>1, <2>1, <2>2, CacheAssumption, TimePasses DEF ClockTick, Instants, CacheInv
<1>2. CASE CommitBuild
  <2>1. Build' \in Builds
    BY <1>2, CacheAssumption, AppendProperties DEF CommitBuild, CacheInv, Build, Builds
  <2>2. ASSUME NEW t \in Threads, thread[t].pc \in {"computing", "reading", "computed"}
        PROVE  clock - thread[t].at <= MaxCompute
    <3>1. ThreadInv(thread[t])
      BY DEF CacheInv
    <3> QED
      BY <2>2, <3>1 DEF ThreadInv, Idle, Computing, Reading, Computed, Answering, InTime
  <2> QED
    BY <1>2, <2>1, <2>2, CacheAssumption, TimePasses DEF CommitBuild, CacheInv, Instants
<1>3. CASE \E t \in Threads : Serve(t)
  BY <1>3, ServeKeeps
<1>4. CASE UNCHANGED cacheVars
  <2>1. /\ \A a : HonestAnswer(a)' <=> HonestAnswer(a)
        /\ \A b, at : CurrentAt(b, at)' <=> CurrentAt(b, at)
        /\ \A at : InTime(at)' <=> InTime(at)
    BY <1>4 DEF cacheVars, HonestAnswer, CurrentAt, InTime, Build
  <2> QED
    BY <1>4, <2>1 DEF cacheVars, CacheInv, EntryInv, ThreadInv, Build
<1> QED
  BY <1>1, <1>2, <1>3, <1>4 DEF CacheNext

LEMMA CacheInvariant == CacheSpec => []CacheInv
BY InitialCache, CacheStep, PTL DEF CacheSpec

(* get_or_compute never answers another question: the key loses the order  *)
(* of the parameters, which a question without repetitions does not depend *)
(* on.                                                                     *)
THEOREM PlainQuestionsAreAnswered == CacheSpec => []PlainQuestionIsAnswered
BY CacheInvariant, CacheInvImplies, PTL

(* computed_at is never later than the data an answer was computed from,   *)
(* and two builds meet in one answer only if the second committed while it *)
(* was computed, whatever answers the cache has kept and in what order.    *)
THEOREM AnswersSayTruly == CacheSpec => []AnswersAreHonest
BY CacheInvariant, CacheInvImplies, PTL

(* Only a hit takes an idle thread to an answer, and what it finds was     *)
(* stored at most MaxCompute after its computed_at and TTL ago.            *)
LEMMA HitsAreRecent ==
  ASSUME CacheInv, [CacheNext]_cacheVars,
         NEW t \in Threads, thread[t].pc = "idle", thread'[t].pc = "serving",
         NEW b \in {thread'[t].answer.first, thread'[t].answer.last}
  PROVE  ReplacedAt(b) = Absent \/ clock - ReplacedAt(b) <= TTL + MaxCompute
<1> USE CacheAssumption
<1>1. PICK q \in QueryStrings : Hit(t, q)
  <2>1. ASSUME NEW u \in Threads, NEW h, thread' = [thread EXCEPT ![u] = h] PROVE u = t /\ h.pc = "serving"
    <3>1. thread'[t] = IF u = t THEN h ELSE thread[t]
      BY <2>1 DEF CacheInv
    <3> QED
      BY <3>1
  <2>2. ~UNCHANGED thread
    OBVIOUS
  <2>3. PICK u \in Threads : Serve(u)
    BY <2>2 DEF CacheNext, cacheVars, ClockTick, CommitBuild
  <2>4. u = t
    BY <2>1, <2>3 DEF Serve, Hit, Miss, FirstRead, LastRead, Store, ComputeFails, Respond
  <2>5. \A q \in QueryStrings : ~Miss(t, q)
    BY <2>1 DEF Miss
  <2> QED
    BY <2>3, <2>4, <2>5 DEF Serve, FirstRead, LastRead, Store, ComputeFails, Respond
<1> DEFINE e == entries[KeyOf(q)]
<1>2. e # Absent /\ e.expires > clock /\ thread' = [thread EXCEPT ![t] = Serving(q, e.answer)]
  BY <1>1 DEF Hit, Fresh
<1>3. thread'[t].answer = e.answer
  BY <1>2 DEF CacheInv, Serving
<1>4. /\ e \in Entries /\ HonestAnswer(e.answer)
      /\ e.expires <= e.answer.computed_at + MaxCompute + TTL
  BY <1>2 DEF CacheInv, EntryInv, CacheKeys
<1> HIDE DEF e
<1>5. /\ e.answer.first \in Nat /\ e.answer.last \in Nat /\ e.answer.first <= b /\ b <= Build /\ b \in Nat
      /\ e.answer.computed_at \in Nat /\ e.expires \in Nat /\ clock \in Nat /\ Build \in Nat
  <2>1. e.expires \in Nat /\ e.answer \in Answers
    BY <1>4 DEF Entries
  <2>2. e.answer.first \in Nat /\ e.answer.last \in Nat /\ e.answer.computed_at \in Nat
    BY <2>1 DEF Answers, Builds, Instants
  <2>3. clock \in Nat /\ Build \in Nat
    BY DEF CacheInv, Builds, Instants
  <2>4. e.answer.first <= e.answer.last /\ e.answer.last <= Build
    BY <1>4 DEF HonestAnswer
  <2> QED
    BY <1>3, <2>1, <2>2, <2>3, <2>4
<1>6. CASE b < Build
  <2>1. committed[b + 1] \in Nat
    <3>1. b + 1 \in 1 .. Len(committed)
      BY <1>5, <1>6 DEF Build
    <3> QED
      BY <3>1, ElementOfSeq DEF CacheInv, Instants
  <2>2. committed[b + 1] >= e.answer.computed_at
    <3>1. b + 1 \in e.answer.first + 1 .. Build
      BY <1>5, <1>6
    <3> QED
      BY <1>4, <3>1 DEF HonestAnswer, CurrentAt
  <2>3. MaxCompute \in Nat /\ TTL \in Nat
    OBVIOUS
  <2>4. ReplacedAt(b) = committed[b + 1]
    BY <1>6 DEF ReplacedAt
  <2>5. clock < e.expires /\ e.expires <= e.answer.computed_at + MaxCompute + TTL
    BY <1>2, <1>4, <1>5
  <2> HIDE CacheAssumption
  <2> QED
    BY <1>5, <2>1, <2>2, <2>3, <2>4, <2>5
<1> QED
  BY <1>5, <1>6 DEF ReplacedAt

(* The order in which concurrent misses store their answers, a slow one    *)
(* over a faster, cannot make a hit older than the TTL and one computation.*)
THEOREM HitsAreBounded == CacheSpec => StalenessIsBounded
<1>1. CacheInv /\ [CacheNext]_cacheVars =>
        [\A t \in Threads :
           thread[t].pc = "idle" /\ thread'[t].pc = "serving" =>
             \A b \in {thread'[t].answer.first, thread'[t].answer.last} :
               ReplacedAt(b) = Absent \/ clock - ReplacedAt(b) <= TTL + MaxCompute]_cacheVars
  BY HitsAreRecent
<1> QED
  BY <1>1, CacheInvariant, PTL DEF CacheSpec, StalenessIsBounded
=============================================================================
