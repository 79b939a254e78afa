SPECIFICATION Spec
CONSTANTS
  rates = rates
  moves = moves
  heartbeat = heartbeat
  None = None
  Tables = {rates, moves}
  Heartbeat = heartbeat
  Interval <- MCInterval
  OverdueAfter <- MCOverdue
  Cycle <- MCCycle
  Lag <- MCLag
  MaxStaleness <- MCStale
  Anchor <- MCAnchor
  MaxTime = 7
  MaxFaults = 2
SYMMETRY Symmetry
CHECK_DEADLOCK FALSE
INVARIANTS SilenceIsReported DeathShowsOnHealth QuietWhenOnTime
