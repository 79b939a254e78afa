----------------------------- MODULE UsgsAnswers -----------------------------
(***************************************************************************)
(* What the two USGS clients of src/app/ingest (usgs_client and            *)
(* usgs_daily_client) make of the body of a 200 response: refuse it, or    *)
(* return the readings of the series that were asked for.                  *)
(*                                                                         *)
(* A body is [json, list, series]: whether it decodes, whether it has the  *)
(* list value.timeSeries, and the series in the order sent. A series is    *)
(* [param, stat, entries]: what it says it is of, and the entries of its   *)
(* blocks (one per measurement method), one block after the other. An      *)
(* entry is [at, value, formed]: its date or instant, its value, and       *)
(* whether its value is a number and its time has the form this endpoint   *)
(* states (an offset for an instant, none for a date). The instantaneous   *)
(* service states no statistic; its series carry the one constant Mean.    *)
(* Requests are for one site.                                              *)
(***************************************************************************)
EXTENDS Integers, Sequences

CONSTANTS
  Unnamed,   \* the parameter or the statistic of a series that does not say
  Mean,      \* the statistic that is asked for
  Other,     \* a statistic or a parameter nobody asked for
  NoData     \* noDataValue, which the service sends as an ordinary value

(* The requested set: the cross product, over the parameters of one site.  *)
RequestedOf(params) == {<<q, Mean>> : q \in params}

\* Variant: what was asked for is taken to be what was sent.
TripleAsRequested(series) == <<series.param, Mean>>

(* _series_triple, _series_pair: read from the series, never assumed.      *)
Triple(series) == <<series.param, series.stat>>

Identified(body) ==
  \A i \in DOMAIN body.series :
    body.series[i].param # Unnamed /\ body.series[i].stat # Unnamed

Present(body) == {Triple(body.series[i]) : i \in DOMAIN body.series}

\* Variant: whatever has arrived is the answer.
MissingUnchecked(body, requested) == {}

(* verify_triples, verify_pairs: present but empty is not missing.         *)
Missing(body, requested) == requested \ Present(body)

(* The series that were asked for, by their index in the order sent.       *)
Kept(body, requested) == {i \in DOMAIN body.series : Triple(body.series[i]) \in requested}

(* It decodes, and has the list value.timeSeries.                          *)
Decodes(body) == body.json /\ body.list

(* _readings_in: an entry with the sentinel was never published.           *)
Published(entries) == {k \in DOMAIN entries : entries[k].value # NoData}

(* Every value kept is a number; the time of an entry with the sentinel is *)
(* not looked at.                                                          *)
WellFormed(body, requested) ==
  \A i \in Kept(body, requested) :
    \A k \in Published(body.series[i].entries) : body.series[i].entries[k].formed

(* A body is refused whole, before any of it is written.                   *)
Refused(body, requested) ==
  \/ ~Decodes(body) \/ ~Identified(body)
  \/ Missing(body, requested) # {}
  \/ ~WellFormed(body, requested)

(* A reading and its place, the series and the entry it was read from.     *)
Reading(series, i, k) ==
  [param |-> series.param, at |-> series.entries[k].at, value |-> series.entries[k].value,
   place |-> <<i, k>>]

(* _yield_readings: the readings of every series kept, by series and entry. *)
Readings(body, requested) ==
  UNION {{Reading(body.series[i], i, k) : k \in Published(body.series[i].entries)} :
           i \in Kept(body, requested)}

Precedes(r, x) ==
  r.place[1] < x.place[1] \/ (r.place[1] = x.place[1] /\ r.place[2] < x.place[2])

(* The readings of one key.                                                *)
ReadingsAt(readings, q, d) == {r \in readings : r.param = q /\ r.at = d}
=============================================================================
