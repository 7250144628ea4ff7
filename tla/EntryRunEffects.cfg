SPECIFICATION Spec
CONSTANTS
  MaxRevision = 3
  LeafCount = 3
INVARIANT
  SuccessMeansEveryLeafRan
CHECK_DEADLOCK FALSE
