------------------------------ MODULE RunLedger ------------------------------
(***************************************************************************)
(* What the table job_runs promises to everything that reads it (the       *)
(* heartbeat, the health endpoint, an operator): an append-only ledger.    *)
(*                                                                         *)
(*   - a row enters either as "running", before its work starts, or as     *)
(*     "missed", complete from the start;                                  *)
(*   - a running row is closed at most once, to "success" or "failed",     *)
(*     and only by the run that opened it;                                 *)
(*   - a run that can no longer close its row abandons it, and an          *)
(*     abandoned row stays "running" for ever: nothing reconciles it;      *)
(*   - no row is ever deleted (the trigger of 0002_job_runs.sql), and a    *)
(*     closed row never changes.                                           *)
(*                                                                         *)
(* Scheduler.tla is shown to implement this specification.                 *)
(***************************************************************************)
EXTENDS Naturals, Sequences

CONSTANTS
  Jobs,  \* the names in the column job_name
  Slots, \* the fire times of the schedule
  None   \* the slot of a run that no fire time asked for

VARIABLES
  rows,  \* the rows of job_runs in run_id order
  live   \* the run_ids whose opener can still close them

vars == <<rows, live>>

Row(j, s, st) == [job |-> j, slot |-> s, status |-> st]

Init == rows = <<>> /\ live = {}

(* A run opens its row. *)
Open(j, s) ==
  /\ rows' = Append(rows, Row(j, s, "running"))
  /\ live' = live \cup {Len(rows) + 1}

(* A run closes the row it opened. *)
Close(i, st) ==
  /\ i \in live
  /\ rows[i].status = "running"
  /\ rows' = [rows EXCEPT ![i].status = st]
  /\ live' = live \ {i}

(* The opener is gone, or could not write: the rows S stay as they are. *)
Abandon(S) ==
  /\ S \subseteq live
  /\ live' = live \ S
  /\ UNCHANGED rows

(* A fire time that was not run leaves a row that is complete at once. *)
Miss(j, s) ==
  /\ rows' = Append(rows, Row(j, s, "missed"))
  /\ UNCHANGED live

Next ==
  \/ \E j \in Jobs, s \in Slots \cup {None} : Open(j, s)
  \/ \E i \in live, st \in {"success", "failed"} : Close(i, st)
  \/ \E S \in SUBSET live : Abandon(S)
  \/ \E j \in Jobs, s \in Slots : Miss(j, s)

Spec == Init /\ [][Next]_vars
=============================================================================
