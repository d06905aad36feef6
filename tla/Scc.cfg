SPECIFICATION Spec
CONSTANTS
  State = {1, 2, 3, 4}
  Relations <- SmallRelations
  Algorithms <- Scc_algo_t
INVARIANTS StacksArePending LowIsReachable NextRootIsBottom
PROPERTIES ImplementsStrongComponents
