\* Polls alone, run again and again, of a source that publishes out of date
\* order and revises.
CONSTANTS
  s1 = s1
  q1 = q1
  None = None
  Unnamed = Unnamed
  Mean = Mean
  Other = Other
  NoData <- Sentinel
  Order <- OneSite
  Params = {q1}
  Services = {"dv"}
  OverlapDays = 1
  ColdStartDays = 1
  WindowDays = 2
  KnownGaps = {}
  Overrides = {}
  Pollers = {p1}
  Backfills = {}
  MaxLag = 1
  Revised = {2}
  MaxDay = 4
  MaxFaults = 1
SPECIFICATION FairSpec
PROPERTIES PublishedIsStored
