SPECIFICATION Spec
CONSTANTS
  Datasets = {"nearby", "forward", "lock"}
  Places = {"p", "q"}
  MaxWeek = 3
  Unpublished = Unpublished
  Measures = {Unpublished, 0, 1}
  Unreadable <- Refusals
  Keys <- JobKeys
  Backfills = {"backfill"}
  OverlapWeeks = 1
  ColdStartWeeks = 1
  PageLimit = 2
  PageCap = 3
  Histories <- Pasts
  MaxChanges = 1
  MaxRuns = 2
CHECK_DEADLOCK FALSE
INVARIANTS ReadLossHasACause TablesAreFaithful
PROPERTIES ReportsWhatChanged
