SPECIFICATION WorkSpec
CONSTANTS
  Senders = {"owner"}
  Owner = "owner"
  PoolPerSender = 3
  PoolSize = 3
  Attesters = {2, 3}
  Operators = {0, 1}
  Thresholds = {0, 2}
  TValues <- MCTValues
  Relays = 1
  MaxTools = 3
  MaxMishaps = 1
  Sweep <- MCSweep
  Groups <- MCGroups
  BatchChunk = 2
  NumAccounts = 2
  BlockSize = 3
INVARIANTS
  FileIsProvisioned
  SignersSuffice
  PointsAreEnforced
  RestoredForGood
  SessionsReadAsPlanned
  RowsAreBacked
  EstimateCoversLeg
CHECK_DEADLOCK FALSE
