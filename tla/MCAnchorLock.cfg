SPECIFICATION ProvisionedSpec
CONSTANTS
  Verifiers = {v1, v2, v3}
  InitialVerifier = v1
  Threshold = 2
  SettlementIds = {sid1}
  Commitments = {c1, c2}
  NoCommitment = zero
  NoAttestation = none
  MAX_BATCH_SIZE = 2
INVARIANT ThresholdAgreementIsFinal
CHECK_DEADLOCK FALSE
