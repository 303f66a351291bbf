SPECIFICATION Spec
CHECK_DEADLOCK FALSE
CONSTANTS
  NrActions <- MCNrActions
  NrDomainElements <- MCNrDomainElements
  Value <- MCValue
  MinusMax <- MCMinusMax
INVARIANTS
  StoresThePolicyOfTheHighestValue
