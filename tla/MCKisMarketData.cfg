SPECIFICATION FairSpec
CONSTANTS
  s1 = s1
  s2 = s2
  Symbols <- MCSymbols
  LastDelay = 2
INVARIANTS
  TypeOK
  ConnectionCarriesDesired
  BackoffGrows
PROPERTY
  Resubscribed
