SPECIFICATION PaperSpec
CONSTANTS
  s1 = s1
  s2 = s2
  Symbols <- MCSymbols
  Quantities <- MCQuantities
  Lives <- MCLives
  MaxOrders = 2
  None = None
  NoSettings = NoSettings
  Lot = 1
  Bars = 2
  MaxErrors = 1
INVARIANTS
  LayersAgree
  RowsTellTheTruth
  BooksAgree
PROPERTY OrdersSettle
CHECK_DEADLOCK FALSE
