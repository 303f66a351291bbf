SPECIFICATION Spec
CHECK_DEADLOCK FALSE
CONSTANTS
  NrActions <- MCNrActions
  NrDomainElements <- MCNrDomainElements
  Games <- MCGames
  Bounds <- MCBounds
  Infinite = 100
  IndexRange = 1000
  MinusMax <- MCMinusMax
  NoPolicy = NoPolicy
INVARIANTS
  TypeOK
  SearchKeepsTheBestTried
PROPERTIES
  IncrementFollowsIndex
  IsIncrementalSolver
