CONSTANTS
  NULL = NULL
  Percent = 75
  Year = 3
  MinYears = 2
  Horizons <- MCHorizons
  EntryRunLength = 1
  Separation = 1
  OutcomeWindow = 1
  Neighbours = 2
  Lookback = 2
  MinAnalogs = 2
  MinConsistency = 70
  Lags <- MCLags
  Regimes <- MCRegimes
  Period = 1
  MinEffective = 2
  NFolds = 2
  MinTrain = 1
  MaxQ = 20
  MinFoldConsistency = 60
  MaxDay <- MCMaxDay
  Levels <- MCLevels
  Rates <- MCRates
  ChangeDays <- MCChangeDays
  WindowDays = 3
  Sweepers = {s1, s2}
  Filters <- MCFilters
  PageBounds <- MCPageBounds
  Pasts <- MCPasts

SPECIFICATION Spec
SYMMETRY Symmetry
INVARIANTS RunsAreWhole AnswersAreEvidence FoldsDoNotLeak
PROPERTIES CommitMakesTheWindowCurrent
CHECK_DEADLOCK FALSE
