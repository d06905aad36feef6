SPECIFICATION Spec
CONSTANTS
  State = {1, 2, 3, 4}
  Relations <- SmallRelations
  Algorithms = {"dijkstra"}
INVARIANT UnassignedHaveNoComponent
