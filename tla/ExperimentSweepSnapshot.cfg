SPECIFICATION Spec
CONSTANTS
  NumPairs = 1
  MaxInvocations = 2
INVARIANTS
  SnapshotProducedResults
CHECK_DEADLOCK FALSE
