\* A poll and a walk of one site, side by side.
CONSTANTS
  s1 = s1
  q1 = q1
  None = None
  Unnamed = Unnamed
  Mean = Mean
  Other = Other
  NoData <- Sentinel
  Order <- OneSite
  Params = {q1}
  Services = {"dv", "iv", "rolling"}
  OverlapDays = 1
  ColdStartDays = 1
  WindowDays = 2
  KnownGaps <- OneGap
  Overrides <- Starts
  Pollers = {p1}
  Backfills = {b1}
  MaxLag = 1
  Revised = {1}
  MaxDay = 3
  MaxFaults = None
SPECIFICATION Spec
INVARIANTS HolesHaveACause WalkIsComplete StoredWasPublished WalkReportsTruly
PROPERTIES RevisionUndoneOnlyByOverlap
