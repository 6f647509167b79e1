SPECIFICATION RecoverySpec
CONSTANTS
  None = None
  b1 = b1
  b2 = b2
  s1 = s1
  Symbols <- MCSymbols
  Quantities <- MCQuantities
  BrokerIds <- MCBrokerIds
  Lives <- MCLives
  MaxOrders = 2
  MaxPosition = 4
  MaxCrashes = 1
  Idempotent = TRUE
SYMMETRY MCSymmetry
INVARIANTS
  RecoveryTypeOK
  ReconciledNeverResubmitted
  RecoveredSettled
  OnlyHalfFilledBookedTwice
