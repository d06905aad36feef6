SPECIFICATION Spec
CONSTANTS
  Requests <- SmallRequests
  Networks <- SmallNetworks
INVARIANTS LightestPathFound KPathsInOrder WordsInOrder
PROPERTIES PoppedIsFinal
