SPECIFICATION Spec
CHECK_DEADLOCK FALSE
CONSTANTS
  Agents = {1, 2}
  Types <- MCTypes
  Actions = {0, 1}
  Games <- MCGames
  Bounds <- MCBounds
  MinusMax <- MCMinusMax
  NoPolicy = NoPolicy
INVARIANTS
  TypeOK
  OpenNodesBoundTheirCompletions
  NoPolicyTwice
  LowerBoundIsBestSolution
PROPERTIES
  IsIncrementalSolver
