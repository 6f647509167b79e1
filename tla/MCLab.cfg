INIT Init
NEXT Next
CONSTANTS
  Universe <- MCUniverse
  Quantity = 2
  InitialCash = 40
  Unit = 10
  CommissionRate = 1
  TaxRate = 2
  HistoryCapacity = 4
  Strategy <- MCStrategy
  Grid <- MCGrid
  Scripts <- MCScripts
  Closes <- MCCloses
  Stored <- MCStored
  MinBars = 1
  Feeds <- MCFeeds
  MinFeed = 10
  MinTrain = 6
  MinValidation = 3
  TrainTenths = 7
  Survivors = 1
INVARIANTS
  EquityExplained
  DrawdownIsWorst
  TripsExplainReturn
  SuggestionSurvives
CHECK_DEADLOCK FALSE
