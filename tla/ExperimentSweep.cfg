SPECIFICATION Spec
CONSTANTS
  NumPairs = 1
  MaxInvocations = 3
INVARIANTS
  OkMeansValid
  NothingLeftRunning
  VerifiersSnapshotMatches
CHECK_DEADLOCK FALSE
