----------------------------- MODULE TokenBucket -----------------------------
(***************************************************************************)
(* What the rate limiter of src/app/api/middleware/ratelimit.py promises   *)
(* each client: for each kind of limit a bucket of Full[k] units that      *)
(* refills by Refill[k] at every tick of the clock and is never dropped.   *)
(* A request costs one token, Unit units, of every bucket it applies to,   *)
(* or nothing at all.                                                      *)
(*                                                                         *)
(* A forgotten client has a full bucket again. A limiter with room for     *)
(* Room clients forgets one that has used it only when that many others    *)
(* have used it since; one that restarts forgets everybody.                *)
(***************************************************************************)
EXTENDS Integers, FiniteSets

CONSTANTS
  Clients,
  Full, Refill,  \* per kind of limit
  Unit,          \* what one request costs
  Room,          \* how many clients are remembered, at least
  Never          \* no time of use

Kinds == {"general", "conclusion"}
Paths == {"conclusion", "other"}

(* A conclusion request consumes from both buckets.                        *)
KindsOf(path) == IF path = "conclusion" THEN Kinds ELSE {"general"}

VARIABLES
  now,
  avail,  \* the units each client could spend now, per kind
  used,   \* when each client last made a request, per kind
  answer  \* what the last request was told, "none" when something else happened since

Unused == [k \in Kinds |-> [c \in Clients |-> Never]]

Init ==
  /\ now = 0
  /\ avail = [k \in Kinds |-> [c \in Clients |-> Full[k]]]
  /\ used = Unused
  /\ answer = "none"

AtMost(limit, n) == IF n <= limit THEN n ELSE limit

Tick ==
  /\ now' = now + 1
  /\ avail' = [k \in Kinds |-> [c \in Clients |-> AtMost(Full[k], avail[k][c] + Refill[k])]]
  /\ answer' = "none"
  /\ UNCHANGED used

Use(c, path) ==
  used' = [k \in Kinds |->
             IF k \in KindsOf(path) THEN [used[k] EXCEPT ![c] = now] ELSE used[k]]

(* The others that have used a limit since d last did.                     *)
Since(k, d) == {e \in Clients \ {d} : used'[k][e] # Never /\ used'[k][e] >= used[k][d]}

(* A client that is not being served keeps its bucket, or is forgotten.    *)
Kept(k, d) ==
  \/ avail'[k][d] = avail[k][d]
  \/ avail'[k][d] = Full[k] /\ Cardinality(Since(k, d)) >= Room

KeptBut(c) == \A k \in Kinds, d \in Clients \ {c} : Kept(k, d)

Admissible(c, path) == \A k \in KindsOf(path) : avail[k][c] >= Unit

Admit(c, path) ==
  /\ answer' = "admitted" /\ Use(c, path) /\ UNCHANGED now
  /\ Admissible(c, path)
  /\ \A k \in Kinds :
       avail'[k][c] = IF k \in KindsOf(path) THEN avail[k][c] - Unit ELSE avail[k][c]
  /\ KeptBut(c)
  /\ avail' \in [Kinds -> [Clients -> Int]]

(* A refused request costs nothing.                                        *)
Refuse(c, path) ==
  /\ answer' = "refused" /\ Use(c, path) /\ UNCHANGED now
  /\ ~Admissible(c, path)
  /\ \A k \in Kinds : avail'[k][c] = avail[k][c]
  /\ KeptBut(c)
  /\ avail' \in [Kinds -> [Clients -> Int]]

Restart ==
  /\ avail' = [k \in Kinds |-> [c \in Clients |-> Full[k]]]
  /\ used' = Unused /\ answer' = "none"
  /\ UNCHANGED now

Next ==
  \/ Tick
  \/ \E c \in Clients, path \in Paths : Admit(c, path) \/ Refuse(c, path)
  \/ Restart

Spec == Init /\ [][Next]_<<now, avail, used, answer>>
=============================================================================
