SPECIFICATION Spec
CONSTANTS
  UEs = {ue1, ue2}
  Mno1 = mno1
  Mno2 = mno2
  Self = self
  NoAddress = noaddress
  Signers <- MCSigners
  Rates <- MCRates
  Usages <- MCUsages
  CDRHashOf <- MCCDRHashOf
  Hashes <- MCHashes
  InitialFunds <- MCInitialFunds
  Estimates <- MCEstimates
  Expiry = 1
  MaxSessions = 3
  MaxTime = 1
  MaxDonation = 0
INVARIANT OneOngoingSession
CHECK_DEADLOCK FALSE
