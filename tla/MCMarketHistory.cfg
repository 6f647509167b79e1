SPECIFICATION Spec
CONSTANTS
  s1 = s1
  s2 = s2
  Symbols = {s1, s2}
  Prices = {1, 2}
  Days = 3
  Horizon <- MCHorizon
  Spans = {2}
  WindowDays = 2
  PageLimit = 1
  MaxSplitDepth = 1
  Capacity = 2
  MaxRestarts = 1
  MaxJobs = 1
INVARIANTS
  CandlesAreFinal
  NoBarDropped
  HistoryIsTrue
PROPERTIES
  BackfillReports
CHECK_DEADLOCK FALSE
