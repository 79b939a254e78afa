\* A first poll before the first backfill.
CONSTANTS
  s1 = s1
  q1 = q1
  None = None
  Unnamed = Unnamed
  Mean = Mean
  Other = Other
  NoData <- Sentinel
  Order <- OneSite
  Params = {q1}
  Services = {"dv", "iv"}
  OverlapDays = 1
  ColdStartDays = 1
  WindowDays = 2
  KnownGaps = {}
  Overrides = {}
  Pollers = {p1}
  Backfills = {b1}
  MaxLag = 0
  Revised = {}
  MaxDay = 4
  MaxFaults = 0
SPECIFICATION Spec
INVARIANTS ColdSiteIsBackfilled
