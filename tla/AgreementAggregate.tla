--------------------------- MODULE AgreementAggregate ---------------------------
(***************************************************************************)
(* experiments/contracts/AgreementAggregate.sol with the anchor it reads.  *)
(* A batch of sessions is settled in one transaction when verifiers have   *)
(* anchored its commitment; in place of submitCDR each user signs the hash *)
(* of the session's record off chain.                                      *)
(*                                                                         *)
(* A batch is a record: its id, and the session ids, costs and hashes in   *)
(* the order proved.  The commitment is a keccak256 over all of it (and    *)
(* over constants of the agreement), so equal commitments are equal        *)
(* batches.                                                                *)
(***************************************************************************)
EXTENDS AgreementBase

CONSTANTS
  Batches,          \* batches that are built: [batchId, ids, costs, hashes]
  Commitment,       \* the commitment of each batch
  SettlementIdOf,   \* the settlement id of each batch id
  NoCommitment,     \* bytes32(0)
  NoAttestation,    \* an entry of the anchor that nobody has written
  Verifiers,        \* the anchor's authorised verifiers
  Mistaken,         \* verifiers that attest without checking the proofs
  Threshold,        \* how many must agree
  MAX_BATCH_SIZE    \* signers in one relay

BatchIds == {b.batchId : b \in Batches}
SettlementIds == {SettlementIdOf[i] : i \in BatchIds}
Commitments == {Commitment[b] : b \in Batches}

ASSUME BatchAssumption ==
  \A b \in Batches :
    b.ids \in Seq(SessionIds) /\ b.costs \in Seq(Nat) /\ b.hashes \in Seq(Hashes)

\* Both hashes are collision resistant, and the commitment of no batch is known to be zero.
ASSUME CommitmentIsInjective ==
  /\ \A b, c \in Batches : Commitment[b] = Commitment[c] => b = c
  /\ \A i, j \in BatchIds : SettlementIdOf[i] = SettlementIdOf[j] => i = j
  /\ NoCommitment \notin Commitments

ASSUME AttestationAssumption == NoAttestation \notin Commitments \cup {NoCommitment}

\* Fewer verifiers than the threshold are mistaken.
ASSUME QuorumAssumption ==
  /\ Mistaken \subseteq Verifiers /\ IsFiniteSet(Verifiers)
  /\ Threshold \in 1 .. Cardinality(Verifiers)
  /\ Cardinality(Mistaken) < Threshold

ASSUME RelaySizeAssumption == MAX_BATCH_SIZE \in Nat \ {0}

VARIABLES
  threshold, isVerifier, attestations, agreementCount, finalizedCommitment, isFinalized,
  ueSigned         \* <<user, session id, hash>> that users have signed

aggVars == <<threshold, isVerifier, attestations, agreementCount, finalizedCommitment,
             isFinalized>>
allVars == <<vars, aggVars, ueSigned>>

\* The anchor compares what is attested to with nothing: it may as well be zero.
Attestable == Commitments \cup {NoCommitment}

Anchor == INSTANCE SnarkPackAggregateAnchor WITH
  InitialVerifier <- CHOOSE v \in Verifiers : TRUE,
  Commitments <- Attestable

\* The anchor as ensure_attesters leaves it before the first batch.
InitAggregate ==
  /\ Init
  /\ threshold = Threshold
  /\ isVerifier = Verifiers
  /\ attestations = [id \in SettlementIds |-> [v \in Verifiers |-> NoAttestation]]
  /\ agreementCount = [id \in SettlementIds |-> 0]
  /\ finalizedCommitment = [id \in SettlementIds |-> NoCommitment]
  /\ isFinalized = {}
  /\ ueSigned = {}

------------------------------------------------------------------------------
\* Off chain.

\* The aggregate proof of a batch verifies: each cost is the price of a record with
\* the hash beside it, at the agreement's rates.
Proved(b) ==
  \A i \in DOMAIN b.ids :
    \E u \in Usages : b.costs[i] = UsageCost(u) /\ b.hashes[i] = CDRHashOf[u]

\* A verifier that is not mistaken attests to proved batches, under their own id.
WouldAttest(v, sid, c) ==
  v \in Mistaken \/ \E b \in Batches :
    c = Commitment[b] /\ Proved(b) /\ sid = SettlementIdOf[b.batchId]

AttestTo(sid, c, vs) ==
  /\ \A v \in vs : WouldAttest(v, sid, c)
  /\ \/ \E v \in vs : vs = {v} /\ Anchor!AnchorAggregateProof(sid, c, v)
     \/ Anchor!RelayAggregateProof(sid, c, vs)
  /\ UNCHANGED <<vars, ueSigned>>

\* A user signs the hash of its session's record; nothing keeps it from signing twice.
SignCDR(ue, id, hash) ==
  /\ sessions[id].ueAddress = ue
  /\ ueSigned' = ueSigned \cup {<<ue, id, hash>>}
  /\ UNCHANGED <<vars, aggVars>>

------------------------------------------------------------------------------
\* Settling.

\* Mutant: the signatures are not checked.
SignaturesUnchecked(b) == TRUE

\* Every hash of the batch is signed by the user of its session.
CheckUESignatures(b) ==
  \A i \in DOMAIN b.ids : <<sessions[b.ids[i]].ueAddress, b.ids[i], b.hashes[i]>> \in ueSigned

\* Mutant: the commitment is compared before it is final.
AnchoredOnFirstAttestation(b) ==
  finalizedCommitment[SettlementIdOf[b.batchId]] = Commitment[b]

\* The batch is exactly what the verifiers attested to.
Anchored(b) ==
  LET sid == SettlementIdOf[b.batchId] IN
  sid \in isFinalized /\ finalizedCommitment[sid] = Commitment[b]

SettleBatch(b) ==
  /\ b.ids # <<>>
  /\ Len(b.costs) = Len(b.ids) /\ Len(b.hashes) = Len(b.ids)
  /\ CheckUESignatures(b)
  /\ Anchored(b)
  /\ SettleSessions(b.ids, b.costs)
  /\ UNCHANGED <<sessionCounter, nonces, ueRoamingSessions, startMsg, now, donated,
                 aggVars, ueSigned>>

Next ==
  \/ BaseNext /\ UNCHANGED <<aggVars, ueSigned>>
  \/ \E ue \in UEs, id \in SessionIds, hash \in Hashes : SignCDR(ue, id, hash)
  \/ \E sid \in SettlementIds, c \in Attestable, vs \in SUBSET Verifiers : AttestTo(sid, c, vs)
  \/ \E b \in Batches : SettleBatch(b)

Spec == InitAggregate /\ [][Next]_allVars

------------------------------------------------------------------------------

\* However many verifiers below the threshold are mistaken, a settled session was
\* charged the price of a record whose hash its own user signed for that session.
ChargedAsProvedAndSigned ==
  \A id \in SessionIds : sessions[id].status = COMPLETED =>
    \E u \in Usages :
      /\ UsageCost(u) = sessions[id].actualCost
      /\ <<sessions[id].ueAddress, id, CDRHashOf[u]>> \in ueSigned

\* The two contracts agree: each settled session is an entry, at its charged cost, of a
\* batch that is final on the anchor, and all sessions of that batch are settled.
SettledAsAnchored ==
  \A id \in SessionIds : sessions[id].status = COMPLETED =>
    \E b \in Batches :
      /\ SettlementIdOf[b.batchId] \in isFinalized
      /\ finalizedCommitment[SettlementIdOf[b.batchId]] = Commitment[b]
      /\ \E i \in DOMAIN b.ids : b.ids[i] = id /\ b.costs[i] = sessions[id].actualCost
      /\ \A i \in DOMAIN b.ids : sessions[b.ids[i]].status = COMPLETED

\* Netted or not, the contract implements the escrow it promises.
AggregateImplementsEscrow == Promise!ESpec
==============================================================================
