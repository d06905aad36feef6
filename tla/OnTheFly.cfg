SPECIFICATION Spec
CONSTANTS
  Requests <- SmallRequests
  Operands <- SmallOperands
  Length = 3
  MaxStates = 12
INVARIANTS AsPromised NewButInCompose
PROPERTIES ImplementsExploration Terminates
CHECK_DEADLOCK FALSE
