SPECIFICATION Spec
CONSTANTS
  Horizon = 3
  NrJPolBGs = 2
  MinusMax <- MCMinusMax
  PlusMax = 1000
  Problems <- NegativeProblems
  Reward <- MCReward
  Payoff <- MCPayoff
  Weight <- MCWeight
  Slack = 0
  Deadline = FALSE
  Null = Null
INVARIANT
  ResultIsOptimal
