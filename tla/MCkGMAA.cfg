SPECIFICATION Spec
CONSTANTS
  Horizon = 3
  NrJPolBGs = 3
  MinusMax <- MCMinusMax
  PlusMax = 1000
  Problems <- MCProblemSet
  Reward <- MCReward
  Payoff <- MCPayoff
  Weight <- MCWeight
  Slack = 0
  Deadline = TRUE
  Null = Null
  NrPoliciesToProcess = 2
INVARIANTS
  PoolIsBounded
  ResultIsAchieved
PROPERTIES
  PlanEnds
