SPECIFICATION LegsSpec
CONSTANTS
  Senders = {"a", "b"}
  PoolPerSender = 2
  Workers = 2
  FuturesPerWorker = 1
  ReceiptWorkers = 1
  MaxMishaps = 1
  Legs <- MCLegList
  Chunk = 3
  PerSender = 2
INVARIANTS
  WindowBounded
  NonceUsable
  NonceNotReused
  SetupStandsBehind
PROPERTIES
  RunEnds
CHECK_DEADLOCK FALSE
