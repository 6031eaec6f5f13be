------------------------------ MODULE MCAnchorLock ------------------------------
(***************************************************************************)
(* The anchor as ensure_attesters leaves it: every verifier added, then    *)
(* the threshold set; from there on verifiers only attest.                 *)
(***************************************************************************)
EXTENDS SnarkPackAggregateAnchor

CONSTANT Threshold   \* in 1 .. Cardinality(Verifiers)

InitProvisioned ==
  /\ threshold = Threshold
  /\ isVerifier = Verifiers
  /\ attestations = [id \in SettlementIds |-> [v \in Verifiers |-> NoAttestation]]
  /\ agreementCount = [id \in SettlementIds |-> 0]
  /\ finalizedCommitment = [id \in SettlementIds |-> NoCommitment]
  /\ isFinalized = {}

ProvisionedSpec == InitProvisioned /\ [][Attest]_anchorVars

\* "Once `threshold` authorized verifiers agree on the same commitment for a given
\* settlement id, it's considered anchored/final" (SnarkPackAggregateAnchor.sol:24).
ThresholdAgreementIsFinal ==
  \A id \in SettlementIds, c \in Commitments :
    Cardinality(Votes(id, c) \cap isVerifier) >= threshold =>
      id \in isFinalized /\ finalizedCommitment[id] = c
==================================================================================
