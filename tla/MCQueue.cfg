SPECIFICATION Spec
CHECK_DEADLOCK FALSE
CONSTANTS
  JPolicies <- MCPolicies
  Value <- MCValue
  PolicyIndex <- MCIndex
  IndexRange = 100
  Overflows = FALSE
  Capacities <- MCCapacities
  Infinite = Infinite
INVARIANTS
  TypeOK
  QueueHoldsTheBest
  NeverReturnedTwice
