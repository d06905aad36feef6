SPECIFICATION Spec
CONSTANTS
  MaxStates = 4
  MaxTransitions = 3
  Label = {la}
  prepost = prepost
  Weight = {0, 1}
  zero = 0
  add <- F2Add
  mul <- F2Mul
INVARIANTS TypeOK FreeStoresExact Incidence SentinelsAlone ArcsAreFunction CountersExact
PROPERTIES HandlesStable ImplementsGraph
VIEW LiveView
