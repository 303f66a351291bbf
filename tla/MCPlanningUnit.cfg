SPECIFICATION Spec
CHECK_DEADLOCK FALSE
CONSTANTS
  Problems <- MCProblems
  Nothing = Nothing
  Horizons <- MCHorizons
  MAXHORIZON = 999999
  Params <- MCParams
  Throws = Throws
  MaxCalls = 4
INVARIANTS
  TypeOK
  CachesDescribeTheProblem
  AnswersAgree
  JointHistoriesAreTheAgents
PROPERTIES
  StartsAfresh
