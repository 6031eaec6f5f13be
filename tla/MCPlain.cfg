SPECIFICATION PlainFairSpec
CONSTANTS
  UEs = {ue1, ue2, ue3}
  Mno1 = mno1
  Mno2 = mno2
  Self = self
  NoAddress = noaddress
  Signers <- MCSigners
  Rates <- MCRates
  Usages <- MCUsages
  CDRHashOf <- MCCDRHashOf
  Hashes = {101, 102}
  InitialFunds <- MCInitialFunds
  Estimates = {1, 2}
  Expiry = 1
  MaxSessions = 3
  MaxTime = 0
  MaxDonation = 0
  MaxBatch = 3
INVARIANTS
  ChargedAsRecorded
PROPERTIES
  BatchImplementsEscrow
  BatchesSettleAll
CHECK_DEADLOCK FALSE
