SPECIFICATION Spec
CONSTANTS
  b1 = b1
  b2 = b2
  t1 = t1
  t2 = t2
  Runs = {b1, b2}
  Tests = {t1, t2}
  MaxVersion = 1
  MaxDay = 1
  DailyKept = 1
  MaxKills = 1
  MaxStarted = 3
  SchedulerTable = "jobs"
  Damaged = Damaged
  None = None
  Content <- ContentOf
  Size <- SizeOf
  FirstDays <- MonthDays
SYMMETRY Symmetry
CHECK_DEADLOCK FALSE
INVARIANTS NothingIsStranded
PROPERTIES OnlyCopyIsKept RowsAreACatalog MarkMeansRestored
