\* One job, every actor, and any two kills, stops, outages or one-shot runs.
SPECIFICATION FairSpec
CONSTANTS
  a = a
  Jobs = {a}
  Threads = {t1, t2}
  Operators = {o1}
  None = None
  Interval <- MCInterval
  Grace <- MCGrace
  MaxTime = 4
  MaxEvents = 2
INVARIANTS WorkIsRecorded OneInstance SlotsAccounted SlotRepeatsNeedADeath OrphansHaveACause
PROPERTIES LateRunYieldsToNext LedgerSpec DueSlotIsConsumed InstanceIsReturned
