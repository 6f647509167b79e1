SPECIFICATION FairSpec
CONSTANTS
  None = None
  b1 = b1
  b2 = b2
  s1 = s1
  Symbols <- MCSymbols
  Quantities <- MCQuantities
  BrokerIds <- MCBrokerIds
  Lives <- MCLives
  MaxOrders = 2
  MaxPosition = 3
  Idempotent = FALSE
INVARIANTS
  TypeOK
  AuditTrail
  SettledByVenue
  NoDoubleOrder
  IdsAreFresh
  OpenSetExact
  BookedOnce
  ReportsAreLegalSteps
  KillSwitchBound
PROPERTY
  ImplementsLifecycle
