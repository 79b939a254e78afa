--------------------------- MODULE BackupCatalog ---------------------------
(* What the table backups promises to somebody who has to rebuild the         *)
(* database: a listed archive was written to S3 whole, what the row says of    *)
(* it is what the archive holds, and a row is confirmed only by a restore that *)
(* gave back exactly that.                                                     *)
CONSTANTS Archives, Contents
VARIABLES written,    \* the whole archives ever put in S3: archive -> content
          listed,     \* the rows of backups: archive -> recorded content
          confirmed   \* the rows a restore test has marked

Init == /\ written = << >>
        /\ listed = << >>
        /\ confirmed = {}

Extended(f, a, c) == [x \in DOMAIN f \cup {a} |-> IF x = a THEN c ELSE f[x]]

Write(a, c) == /\ a \notin DOMAIN written
               /\ written' = Extended(written, a, c)
               /\ UNCHANGED <<listed, confirmed>>

List(a) == /\ a \in DOMAIN written \ DOMAIN listed
           /\ listed' = Extended(listed, a, written[a])
           /\ UNCHANGED <<written, confirmed>>

Confirm(a) == /\ a \in DOMAIN listed
              /\ listed[a] = written[a]
              /\ confirmed' = confirmed \cup {a}
              /\ UNCHANGED <<written, listed>>

Next == \E a \in Archives : List(a) \/ Confirm(a) \/ \E c \in Contents : Write(a, c)

vars == <<written, listed, confirmed>>
Spec == Init /\ [][Next]_vars
=============================================================================
