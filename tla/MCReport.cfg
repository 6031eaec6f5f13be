SPECIFICATION BenchSpec
CONSTANTS
  Senders = {"a", "b"}
  PoolPerSender = 2
  Workers = 1
  FuturesPerWorker = 2
  ReceiptWorkers = 1
  MaxMishaps = 1
  MaxSamples = 2
  Accounts <- MCAccounts
  Endpoints <- MCEndpoints
  NumTx = 2
  MaxClock = 1
  ValueLists <- MCValueLists
  TimedLegs <- MCTimedLegs
INVARIANTS
  PercentilesAgree
  BlockTimeNeverLonger
  TalliesAgree
  NoDrift
CHECK_DEADLOCK FALSE
