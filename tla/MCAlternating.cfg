SPECIFICATION Spec
CHECK_DEADLOCK FALSE
CONSTANTS
  Problems <- MCProblems
  Planners <- MCPlanners
  MaxRounds = 3
  Cap = 5
  NrDesired = 2
  IndexRange = 100
  MinusMax <- MCMinusMax
INVARIANTS
  TypeOK
  ResultIsAchieved
  ResultIsEquilibrium
  SolutionsAreTheBestRestarts
PROPERTIES
  SearchEnds
