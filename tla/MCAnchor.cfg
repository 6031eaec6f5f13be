SPECIFICATION Spec
CONSTANTS
  Verifiers = {v1, v2, v3}
  InitialVerifier = v1
  SettlementIds = {sid1, sid2}
  Commitments = {c1, c2, zero}
  NoCommitment = zero
  NoAttestation = none
  MAX_BATCH_SIZE = 2
SYMMETRY Symmetry
INVARIANTS
  TypeOK
  CountMatchesVotes
  TallyIsTheLoop
PROPERTIES
  FinalizedByQuorum
  FinalityIsStable
CHECK_DEADLOCK FALSE
