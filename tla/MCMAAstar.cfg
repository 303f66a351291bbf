SPECIFICATION Spec
CONSTANTS
  Horizon = 3
  NrJPolBGs = 2
  MinusMax <- MCMinusMax
  PlusMax = 1000
  Problems <- MixedOrPositiveProblems
  Reward <- MCReward
  Payoff <- MCPayoff
  Weight <- MCWeight
  Slack = 0
  Deadline = TRUE
  Null = Null
INVARIANTS
  NoBetterPolicyLost
  NoPolicyTwiceInPool
  UnreturnedChildrenAreBounded
  ParentOnlyGoesDown
PROPERTIES
  IsOptimalSearch
