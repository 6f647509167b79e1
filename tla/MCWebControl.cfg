SPECIFICATION FairWebSpec
CHECK_DEADLOCK FALSE
CONSTANTS
  r1 = r1
  r2 = r2
  s1 = s1
  s2 = s2
  Requests <- MCRequests
  Kinds <- MCKinds
  Symbols <- MCSymbols
  Configured <- MCSymbols
  Top = 1
  MaxCommands = 1
  Validated = {"backtest"}
  Unannounced = {"screener"}
  Venue = {"screener", "backfill"}
INVARIANTS
  TypeOK
  RunningMeansBusy
  HiddenOnlyByOverlap
  StartsAudited
  ScreeningApplied
PROPERTY
  StatusSettles
