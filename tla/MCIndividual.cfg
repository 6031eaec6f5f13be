SPECIFICATION FairSpec
CONSTANTS
  UEs = {ue1, ue2}
  Mno1 = mno1
  Mno2 = mno2
  Outsider = outsider
  Self = self
  NoAddress = noaddress
  Signers <- MCSigners
  Rates <- MCRates
  Usages <- MCUsages
  CDRHashOf <- MCCDRHashOf
  Hashes <- MCHashes
  InitialFunds <- MCInitialFunds
  Estimates <- MCEstimates
  Expiry = 1
  MaxSessions = 3
  MaxTime = 1
  MaxDonation = 1
INVARIANTS
  Solvent
  OneActivePerUE
  MessageStartsOneSession
  ChargedAsCommitted
PROPERTIES
  SessionLifecycle
  ImplementsEscrow
  CommittedIsSettled
CHECK_DEADLOCK FALSE
