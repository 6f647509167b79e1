SPECIFICATION Spec
CONSTANTS
  c1 = c1
  c2 = c2
  Callers <- MCCallers
  Tokens <- MCTokens
  NoToken = NoToken
  PageLimit = 2
  MaxPages = 3
INVARIANTS
  TypeOK
  DefinitiveAnswers
  RetryUsesAnotherToken
  PositionsWhole
