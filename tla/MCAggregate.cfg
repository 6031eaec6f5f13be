SPECIFICATION Spec
CONSTANTS
  UEs = {ue1, ue2}
  Mno1 = mno1
  Mno2 = mno2
  Self = self
  NoAddress = noaddress
  Signers <- MCSigners
  Rates <- MCRates
  Usages <- MCUsages
  CDRHashOf <- MCCDRHashOf
  Hashes = {101, 102}
  InitialFunds <- MCInitialFunds
  Estimates = {2}
  Expiry = 1
  MaxSessions = 2
  MaxTime = 0
  MaxDonation = 0
  Batches <- MCBatches
  Commitment <- MCCommitment
  SettlementIdOf <- MCSettlementIdOf
  NoCommitment = "zero"
  NoAttestation = "none"
  Verifiers = {v1, v2, v3}
  Mistaken = {v3}
  Threshold = 2
  MAX_BATCH_SIZE = 2
SYMMETRY Symmetry
INVARIANTS
  ChargedAsProvedAndSigned
  SettledAsAnchored
PROPERTIES
  AggregateImplementsEscrow
CHECK_DEADLOCK FALSE
