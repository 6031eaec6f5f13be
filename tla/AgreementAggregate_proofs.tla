-------------------------- MODULE AgreementAggregate_proofs --------------------------
(***************************************************************************)
(* What the aggregate settlement path guarantees for any number of users,  *)
(* verifiers and batches, as long as fewer verifiers than the threshold    *)
(* attest without checking.  What holds of the anchor is taken from its    *)
(* own proofs.                                                             *)
(***************************************************************************)
EXTENDS AgreementAggregate, AgreementBase_proofs

AnchorFacts == INSTANCE SnarkPackAggregateAnchor_proofs WITH
  InitialVerifier <- CHOOSE v \in Verifiers : TRUE,
  Commitments <- Attestable

VotesFor(id, c) == {v \in Verifiers : attestations[id][v] = c}

\* A verifier that is not mistaken has attested to proved batches only, and never to zero.
VotesChecked ==
  \A id \in SettlementIds, v \in Verifiers \ Mistaken :
    /\ \A b \in Batches : attestations[id][v] = Commitment[b] => Proved(b)
    /\ attestations[id][v] # NoCommitment

\* What is final has a quorum behind it, in which zero counts for any commitment.
CountedFor(id) == VotesFor(id, finalizedCommitment[id]) \cup VotesFor(id, NoCommitment)

QuorumBehindFinal ==
  \A id \in isFinalized : Cardinality(CountedFor(id)) >= Threshold

\* The owner has authorised all the verifiers and set the threshold.
AnchorReady ==
  AnchorFacts!AnchorInv /\ threshold = Threshold /\ isVerifier = Verifiers

AttestInv == AnchorReady /\ VotesChecked /\ QuorumBehindFinal

\* What the anchor promises of a final settlement id, and a session of its sessions.
IInv == BaseInv /\ AttestInv /\ ChargedAsProvedAndSigned /\ SettledAsAnchored

------------------------------------------------------------------------------
\* The anchor.

\* The anchor's assumptions hold of the constants it is given here.
LEMMA AnchorAssumptions ==
  /\ (CHOOSE v \in Verifiers : TRUE) \in Verifiers
  /\ IsFiniteSet(Verifiers) /\ AnchorFacts!IsFiniteSet(Verifiers)
  /\ NoAttestation \notin Attestable \cup {NoCommitment}
  /\ MAX_BATCH_SIZE \in Nat \ {0}
<1>1. IsFiniteSet(Verifiers) /\ Verifiers # {}
  BY QuorumAssumption, FS_EmptySet
<1>2. AnchorFacts!IsFiniteSet(Verifiers)
  BY <1>1 DEF AnchorFacts!IsFiniteSet, IsFiniteSet
<1> QED
  BY <1>1, <1>2, AttestationAssumption, RelaySizeAssumption DEF Attestable

\* It counts as this module does.
LEMMA SameCardinality == ASSUME NEW T PROVE AnchorFacts!Cardinality(T) = Cardinality(T)
  BY DEF AnchorFacts!Cardinality, Cardinality

\* Attesting is a step of the anchor.
LEMMA AttestIsAnchorStep ==
  ASSUME AttestInv, NEW sid \in SettlementIds, NEW c \in Attestable,
         NEW vs \in SUBSET Verifiers, AttestTo(sid, c, vs)
  PROVE  /\ AnchorFacts!RecordAttestations(sid, c, vs)
         /\ UNCHANGED <<threshold, isVerifier, vars, ueSigned>>
<1>1. /\ Anchor!RecordAttestations(sid, c, vs)
      /\ UNCHANGED <<threshold, isVerifier, vars, ueSigned>>
  BY DEF AttestTo, Anchor!AnchorAggregateProof, Anchor!RelayAggregateProof
<1>2. AnchorFacts!Cardinality(vs) = Anchor!Cardinality(vs)
  BY DEF AnchorFacts!Cardinality, Anchor!Cardinality
<1> QED
  BY <1>1, <1>2 DEF Anchor!RecordAttestations, AnchorFacts!RecordAttestations,
    Anchor!Tally, AnchorFacts!Tally, Anchor!TallyOf, AnchorFacts!TallyOf

\* What a step of attesting keeps: the anchor's own invariant, what is final, and every
\* earlier attestation.
LEMMA AttestKeeps ==
  ASSUME AttestInv, NEW sid \in SettlementIds, NEW c \in Attestable,
         NEW vs \in SUBSET Verifiers, AttestTo(sid, c, vs)
  PROVE  /\ AnchorReady' /\ AnchorFacts!FinalizingStep /\ AnchorFacts!KeepingStep
         /\ \A id \in SettlementIds, v \in Verifiers :
              attestations'[id][v] = IF id = sid /\ v \in vs THEN c
                                     ELSE attestations[id][v]
<1>1. /\ AnchorFacts!RecordAttestations(sid, c, vs)
      /\ UNCHANGED <<threshold, isVerifier, vars, ueSigned>>
  BY AttestIsAnchorStep
<1>2. /\ AnchorFacts!AnchorInv /\ vs \in SUBSET isVerifier /\ c \in Attestable
      /\ threshold = Threshold /\ isVerifier = Verifiers
  BY DEF AttestInv, AnchorReady
<1>3. AnchorFacts!AnchorInv' /\ AnchorFacts!FinalizingStep /\ AnchorFacts!KeepingStep
  BY <1>1, <1>2, AnchorAssumptions, AnchorFacts!RecordPreserves
<1>4. \A id \in SettlementIds, v \in Verifiers :
        attestations'[id][v] = IF id = sid /\ v \in vs THEN c
                               ELSE attestations[id][v]
  <2>1. attestations \in [SettlementIds -> [Verifiers -> Attestable \cup {NoAttestation}]]
    BY <1>2 DEF AnchorFacts!AnchorInv, AnchorFacts!TypeOK
  <2> QED
    BY <1>1, <2>1 DEF AnchorFacts!RecordAttestations
<1> QED
  BY <1>1, <1>2, <1>3, <1>4 DEF AnchorReady

\* Attesting preserves what holds of the attestations.
LEMMA AttestPreserves ==
  ASSUME AttestInv, NEW sid \in SettlementIds, NEW c \in Attestable,
         NEW vs \in SUBSET Verifiers, AttestTo(sid, c, vs)
  PROVE  AttestInv' /\ AnchorFacts!KeepingStep
<1>1. /\ AnchorReady' /\ AnchorFacts!FinalizingStep /\ AnchorFacts!KeepingStep
      /\ \A id \in SettlementIds, v \in Verifiers :
           attestations'[id][v] = IF id = sid /\ v \in vs THEN c ELSE attestations[id][v]
  BY AttestKeeps
<1>2. \A v \in vs : v \in Mistaken \/ \E b \in Batches : c = Commitment[b] /\ Proved(b)
  BY DEF AttestTo, WouldAttest
<1>3. VotesChecked'
  <2> SUFFICES ASSUME NEW id \in SettlementIds, NEW v \in Verifiers \ Mistaken
               PROVE  /\ \A d \in Batches : attestations'[id][v] = Commitment[d] => Proved(d)
                      /\ attestations'[id][v] # NoCommitment
    BY DEF VotesChecked, Proved, UsageCost
  <2>1. CASE id = sid /\ v \in vs
    <3>1. PICK b \in Batches : c = Commitment[b] /\ Proved(b)
      BY <1>2, <2>1
    <3> QED
      BY <1>1, <2>1, <3>1, CommitmentIsInjective DEF Commitments
  <2>2. CASE ~(id = sid /\ v \in vs)
    BY <1>1, <2>2 DEF AttestInv, VotesChecked
  <2> QED
    BY <2>1, <2>2
<1>4. QuorumBehindFinal'
  <2> SUFFICES ASSUME NEW id \in isFinalized'
               PROVE  Cardinality(CountedFor(id)') >= Threshold
    BY DEF QuorumBehindFinal
  <2> DEFINE counted == CountedFor(id)
  <2>1. counted' \in SUBSET Verifiers
    BY DEF CountedFor, VotesFor
  <2>2. IsFiniteSet(counted') /\ Cardinality(counted') \in Nat
    BY <2>1, QuorumAssumption, FS_Subset, FS_CardinalityType
  <2>3. CASE id \in isFinalized
    <3>1. /\ id \in SettlementIds /\ finalizedCommitment'[id] = finalizedCommitment[id]
          /\ finalizedCommitment[id] \in Attestable \cup {NoCommitment}
      BY <1>1, <2>3 DEF AttestInv, AnchorReady, AnchorFacts!AnchorInv, AnchorFacts!TypeOK,
                        AnchorFacts!KeepingStep
    <3>2. finalizedCommitment[id] # NoAttestation /\ NoCommitment # NoAttestation
      BY <3>1, AttestationAssumption DEF Attestable
    <3>3. counted \in SUBSET (counted')
      BY <1>1, <3>1, <3>2 DEF CountedFor, VotesFor, AnchorFacts!KeepingStep
    <3>4. Cardinality(counted) >= Threshold
      BY <2>3 DEF AttestInv, QuorumBehindFinal
    <3>5. Cardinality(counted) <= Cardinality(counted') /\ Cardinality(counted) \in Nat
      BY <2>2, <3>3, FS_Subset, FS_CardinalityType
    <3>6. Threshold \in Nat
      BY QuorumAssumption, FS_CardinalityType
    <3> QED
      BY <2>2, <3>4, <3>5, <3>6
  <2>4. CASE id \notin isFinalized
    <3>1. AnchorFacts!Cardinality(AnchorFacts!Counted(id)') >= threshold
      BY <1>1, <2>4 DEF AnchorFacts!FinalizingStep
    <3>2. AnchorFacts!Counted(id)' = counted'
      BY DEF AnchorFacts!Counted, AnchorFacts!Votes, CountedFor, VotesFor
    <3>3. threshold = Threshold
      BY DEF AttestInv, AnchorReady
    <3> QED
      BY <3>1, <3>2, <3>3, SameCardinality
  <2> QED
    BY <2>3, <2>4
<1> QED
  BY <1>1, <1>3, <1>4 DEF AttestInv

\* Steps that leave the anchor alone keep all of that.
LEMMA AnchorUnchanged ==
  ASSUME AttestInv, UNCHANGED aggVars
  PROVE  AttestInv' /\ AnchorFacts!KeepingStep
<1>1. /\ threshold' = threshold /\ isVerifier' = isVerifier /\ attestations' = attestations
      /\ agreementCount' = agreementCount /\ finalizedCommitment' = finalizedCommitment
      /\ isFinalized' = isFinalized
  BY DEF aggVars
<1>2. AnchorFacts!AnchorInv'
  BY <1>1 DEF AttestInv, AnchorReady, AnchorFacts!AnchorInv, AnchorFacts!TypeOK,
    AnchorFacts!VotersAuthorised, AnchorFacts!NothingBeforeTheFirst,
    AnchorFacts!CountMatchesVotes, AnchorFacts!Votes, AnchorFacts!Counted
<1>3. AnchorReady' /\ VotesChecked' /\ QuorumBehindFinal'
  BY <1>1, <1>2
  DEF AttestInv, AnchorReady, VotesChecked, QuorumBehindFinal, CountedFor, VotesFor, Proved,
    UsageCost
<1> QED
  BY <1>1, <1>3 DEF AttestInv, AnchorFacts!KeepingStep

\* The argument for the threshold: among those counted for a final batch there is one that
\* is not mistaken; it did not attest to zero, so it attested to the batch, which is proved.
LEMMA FinalIsProved ==
  ASSUME AttestInv, NEW b \in Batches, Anchored(b)
  PROVE  Proved(b)
<1> DEFINE sid == SettlementIdOf[b.batchId]
           counted == CountedFor(sid)
<1>1. sid \in SettlementIds /\ finalizedCommitment[sid] = Commitment[b]
  BY DEF SettlementIds, BatchIds, Anchored
<1>2. Cardinality(counted) >= Threshold
  BY DEF Anchored, AttestInv, QuorumBehindFinal
<1>3. ~(counted \subseteq Mistaken)
  <2>1. /\ IsFiniteSet(Mistaken) /\ Cardinality(Mistaken) \in Nat
        /\ Cardinality(Mistaken) < Threshold /\ Threshold \in Nat
    <3>1. IsFiniteSet(Mistaken)
      BY QuorumAssumption, FS_Subset
    <3> QED
      BY <3>1, QuorumAssumption, FS_CardinalityType
  <2>2. ASSUME counted \in SUBSET Mistaken PROVE FALSE
    <3>1. Cardinality(counted) <= Cardinality(Mistaken) /\ Cardinality(counted) \in Nat
      BY <2>1, <2>2, FS_Subset, FS_CardinalityType
    <3> HIDE DEF counted
    <3> QED
      BY <1>2, <2>1, <3>1
  <2> QED
    BY <2>2
<1>4. PICK v \in Verifiers \ Mistaken : v \in counted
  BY <1>3 DEF CountedFor, VotesFor
<1>5. attestations[sid][v] = Commitment[b]
  BY <1>1, <1>4 DEF CountedFor, VotesFor, AttestInv, VotesChecked
<1> QED
  BY <1>1, <1>4, <1>5 DEF AttestInv, VotesChecked

------------------------------------------------------------------------------
\* The sessions.

\* What a settled session id was charged for, and the final batch that settled it.
ChargedFor(id) ==
  \E u \in Usages :
    /\ UsageCost(u) = sessions[id].actualCost
    /\ <<sessions[id].ueAddress, id, CDRHashOf[u]>> \in ueSigned

SettledBy(b, id) ==
  /\ SettlementIdOf[b.batchId] \in isFinalized
  /\ finalizedCommitment[SettlementIdOf[b.batchId]] = Commitment[b]
  /\ \E i \in DOMAIN b.ids : b.ids[i] = id /\ b.costs[i] = sessions[id].actualCost
  /\ \A i \in DOMAIN b.ids : sessions[b.ids[i]].status = COMPLETED

\* The two safety properties say this of every settled session.
LEMMA ChargedMeans ==
  /\ ChargedAsProvedAndSigned <=>
       \A id \in SessionIds : sessions[id].status = COMPLETED => ChargedFor(id)
  /\ SettledAsAnchored <=>
       \A id \in SessionIds :
         sessions[id].status = COMPLETED => \E b \in Batches : SettledBy(b, id)
BY DEF ChargedAsProvedAndSigned, ChargedFor, SettledAsAnchored, SettledBy

\* The sessions and costs of a batch, as the loop over it reads them.
LEMMA BatchShape ==
  ASSUME NEW b \in Batches, Len(b.costs) = Len(b.ids)
  PROVE  /\ Len(b.ids) \in Nat /\ DOMAIN b.ids = 1 .. Len(b.ids)
         /\ b.ids \in [1 .. Len(b.ids) -> SessionIds]
         /\ \A i \in 1 .. Len(b.ids) : b.costs[i] \in Nat /\ b.ids[i] \in SessionIds
  BY BatchAssumption

\* What settling a batch leaves untouched, and what it makes of its sessions.
LEMMA SettleBatchEffect ==
  ASSUME IInv, NEW b \in Batches, SettleBatch(b)
  PROVE  /\ BaseInv' /\ SessionStep
         /\ \A i \in DOMAIN b.ids :
              /\ b.ids[i] \in SessionIds
              /\ sessions'[b.ids[i]].status = COMPLETED
              /\ sessions'[b.ids[i]].actualCost = b.costs[i]
              /\ sessions'[b.ids[i]].ueAddress = sessions[b.ids[i]].ueAddress
         /\ \A id \in SessionIds :
              (\A i \in DOMAIN b.ids : b.ids[i] # id) => sessions'[id] = sessions[id]
<1> DEFINE n == Len(b.ids)
<1>1. /\ n \in Nat /\ DOMAIN b.ids = 1 .. n /\ b.ids \in [1 .. n -> SessionIds]
      /\ \A i \in 1 .. n : b.costs[i] \in Nat
      /\ \A i \in 1 .. n : b.ids[i] \in SessionIds
  BY BatchShape DEF SettleBatch
<1>2. SettleSessions(b.ids, b.costs) /\ SettleBatchOf(b.ids, b.costs) /\ BaseInv
  BY DEF SettleBatch, SettleBatchOf, IInv
<1> HIDE DEF n
<1> DEFINE ids == b.ids
           costs == b.costs
<1>3. /\ ids \in [1 .. n -> SessionIds] /\ \A i \in 1 .. n : costs[i] \in Nat
      /\ SettleSessions(ids, costs) /\ SettleBatchOf(ids, costs)
  BY <1>1, <1>2
<1> HIDE DEF ids, costs
<1>4. BaseInv' /\ SessionStep
  BY <1>1, <1>2, <1>3, BatchPreserves, BatchKeepsSessions
<1>5. /\ \A i \in 1 .. n :
           /\ sessions[ids[i]] \in Session /\ sessions[ids[i]].status = PENDING
           /\ costs[i] <= sessions[ids[i]].estimatedCost
           /\ sessions'[ids[i]] = Settled(sessions[ids[i]], costs[i])
      /\ \A id \in SessionIds :
           (\A i \in 1 .. n : ids[i] # id) => sessions'[id] = sessions[id]
  BY <1>1, <1>2, <1>3, BatchEffect, SMTT(30)
<1>6. ASSUME NEW i \in 1 .. n
      PROVE  /\ sessions'[ids[i]].status = COMPLETED
             /\ sessions'[ids[i]].actualCost = costs[i]
             /\ sessions'[ids[i]].ueAddress = sessions[ids[i]].ueAddress
  <2>1. /\ sessions[ids[i]] \in Session /\ costs[i] \in Nat
        /\ sessions'[ids[i]] = Settled(sessions[ids[i]], costs[i])
    BY <1>3, <1>5
  <2>2. /\ Settled(sessions[ids[i]], costs[i]).status = COMPLETED
        /\ Settled(sessions[ids[i]], costs[i]).actualCost = costs[i]
        /\ Settled(sessions[ids[i]], costs[i]).ueAddress = sessions[ids[i]].ueAddress
    BY <2>1, SettledFields
  <2> QED
    BY <2>1, <2>2
<1> QED
  BY <1>1, <1>4, <1>5, <1>6 DEF ids, costs

\* What was charged and anchored stays so when a step completes no session.
LEMMA ChargedStays ==
  ASSUME IInv, BaseInv', SessionStep, AttestInv', AnchorFacts!KeepingStep,
         ueSigned \subseteq ueSigned',
         \A i \in SessionIds : sessions'[i].status = COMPLETED => sessions'[i] = sessions[i]
  PROVE  IInv'
<1>1. \A id \in SessionIds : sessions'[id].status = COMPLETED => ChargedFor(id)'
  BY ChargedMeans DEF IInv, ChargedFor, UsageCost
<1>2. \A id \in isFinalized : id \in isFinalized' /\ finalizedCommitment'[id] = finalizedCommitment[id]
  BY DEF AnchorFacts!KeepingStep
<1>3. \A id \in SessionIds : sessions[id].status = COMPLETED => sessions'[id] = sessions[id]
  BY DEF SessionStep
<1>4. ASSUME NEW b \in Batches, NEW id \in SessionIds, SettledBy(b, id),
             sessions[id].status = COMPLETED
      PROVE  SettledBy(b, id)'
  <2>1. \A i \in DOMAIN b.ids : b.ids[i] \in SessionIds
    BY BatchAssumption
  <2> QED
    BY <1>2, <1>3, <1>4, <2>1 DEF SettledBy
<1>5. \A id \in SessionIds :
        sessions'[id].status = COMPLETED => \E b \in Batches : SettledBy(b, id)'
  BY <1>4, ChargedMeans DEF IInv
<1>6. ChargedAsProvedAndSigned' /\ SettledAsAnchored'
  BY <1>1, <1>5
  DEF ChargedAsProvedAndSigned, SettledAsAnchored, ChargedFor, SettledBy, UsageCost
<1> QED
  BY <1>6 DEF IInv

\* Settling a batch that is final charges its sessions as proved and signed.
LEMMA SettleBatchPreserves ==
  ASSUME IInv, NEW b \in Batches, SettleBatch(b)
  PROVE  IInv' /\ SessionStep
<1>1. /\ BaseInv' /\ SessionStep
      /\ \A i \in DOMAIN b.ids :
           /\ b.ids[i] \in SessionIds
           /\ sessions'[b.ids[i]].status = COMPLETED
           /\ sessions'[b.ids[i]].actualCost = b.costs[i]
           /\ sessions'[b.ids[i]].ueAddress = sessions[b.ids[i]].ueAddress
      /\ \A id \in SessionIds :
           (\A i \in DOMAIN b.ids : b.ids[i] # id) => sessions'[id] = sessions[id]
  BY SettleBatchEffect
<1>2. UNCHANGED <<aggVars, ueSigned>> /\ CheckUESignatures(b) /\ Anchored(b)
  BY DEF SettleBatch
<1>3. AttestInv'
  BY <1>2, AnchorUnchanged DEF IInv
<1>4. Proved(b)
  BY <1>2, FinalIsProved DEF IInv
<1>5. ASSUME NEW i \in DOMAIN b.ids
      PROVE  ChargedFor(b.ids[i])'
  <2>1. PICK u \in Usages : b.costs[i] = UsageCost(u) /\ b.hashes[i] = CDRHashOf[u]
    BY <1>4 DEF Proved
  <2>2. <<sessions[b.ids[i]].ueAddress, b.ids[i], b.hashes[i]>> \in ueSigned
    BY <1>2 DEF CheckUESignatures
  <2> QED
    BY <1>1, <1>2, <2>1, <2>2 DEF ChargedFor, UsageCost
<1>6. ASSUME NEW id \in SessionIds, sessions'[id].status = COMPLETED,
             \A i \in DOMAIN b.ids : b.ids[i] # id
      PROVE  ChargedFor(id)' /\ \E d \in Batches : SettledBy(d, id)'
  <2>1. sessions'[id] = sessions[id] /\ sessions[id].status = COMPLETED
    BY <1>1, <1>6
  <2>2. ChargedFor(id)'
    BY <1>2, <2>1, ChargedMeans DEF IInv, ChargedFor, UsageCost
  <2>3. PICK d \in Batches : SettledBy(d, id)
    BY <2>1, ChargedMeans DEF IInv
  <2>4. \A i \in DOMAIN d.ids : d.ids[i] \in SessionIds
    BY BatchAssumption
  <2>5. \A j \in SessionIds : sessions[j].status = COMPLETED => sessions'[j] = sessions[j]
    BY <1>1 DEF SessionStep
  <2>6. SettledBy(d, id)'
    BY <1>2, <2>1, <2>3, <2>4, <2>5 DEF SettledBy, aggVars
  <2> QED
    BY <2>2, <2>6
<1>7. ASSUME NEW i \in DOMAIN b.ids
      PROVE  SettledBy(b, b.ids[i])'
  BY <1>1, <1>2 DEF SettledBy, Anchored, aggVars
<1>8. ChargedAsProvedAndSigned'
  <2>1. \A id \in SessionIds : sessions'[id].status = COMPLETED => ChargedFor(id)'
    BY <1>5, <1>6
  <2> QED
    BY <2>1 DEF ChargedAsProvedAndSigned, ChargedFor, UsageCost
<1>9. SettledAsAnchored'
  <2>1. \A id \in SessionIds :
          sessions'[id].status = COMPLETED => \E d \in Batches : SettledBy(d, id)'
    BY <1>6, <1>7
  <2> QED
    BY <2>1 DEF SettledAsAnchored, SettledBy
<1> QED
  BY <1>1, <1>3, <1>8, <1>9 DEF IInv

------------------------------------------------------------------------------

\* Initially nothing is attested and nothing settled.
LEMMA AggregateInit == InitAggregate => IInv
<1> SUFFICES ASSUME InitAggregate PROVE IInv
  OBVIOUS
<1>1. BaseInv /\ \A id \in SessionIds : sessions[id].status # COMPLETED
  BY BaseInit DEF InitAggregate, Init, NoSession, UNKNOWN, COMPLETED
<1>2. AnchorFacts!AnchorInv
  <2>1. threshold \in 1 .. AnchorFacts!Cardinality(isVerifier) /\ isVerifier \subseteq Verifiers
    BY QuorumAssumption, SameCardinality DEF InitAggregate
  <2>2. AnchorFacts!CountMatchesVotes
    <3> SUFFICES ASSUME NEW id \in SettlementIds
                 PROVE  /\ 0 <= Cardinality(AnchorFacts!Counted(id))
                        /\ Cardinality(AnchorFacts!Votes(id, finalizedCommitment[id])) <= 0
      BY SameCardinality DEF InitAggregate, AnchorFacts!CountMatchesVotes
    <3>1. AnchorFacts!Counted(id) \in SUBSET Verifiers
      BY DEF AnchorFacts!Counted, AnchorFacts!Votes
    <3>2. Cardinality(AnchorFacts!Counted(id)) \in Nat
      BY <3>1, QuorumAssumption, FS_Subset, FS_CardinalityType
    <3>3. AnchorFacts!Votes(id, finalizedCommitment[id]) = {}
      BY AttestationAssumption DEF InitAggregate, AnchorFacts!Votes
    <3> QED
      BY <3>2, <3>3, FS_EmptySet
  <2> QED
    BY <2>1, <2>2 DEF InitAggregate, AnchorFacts!AnchorInv, AnchorFacts!TypeOK,
      AnchorFacts!VotersAuthorised, AnchorFacts!NothingBeforeTheFirst
<1>3. VotesChecked
  BY AttestationAssumption DEF InitAggregate, VotesChecked, Commitments
<1>4. AttestInv
  BY <1>2, <1>3 DEF InitAggregate, AttestInv, AnchorReady, QuorumBehindFinal
<1> QED
  BY <1>1, <1>4 DEF IInv, ChargedAsProvedAndSigned, SettledAsAnchored

\* Every step preserves the invariant, follows the life cycle of every session and undoes
\* nothing on the anchor.
LEMMA AggregateStep ==
  IInv /\ [Next]_allVars => IInv' /\ SessionStep /\ AnchorFacts!KeepingStep
<1> SUFFICES ASSUME IInv, [Next]_allVars
             PROVE  IInv' /\ SessionStep /\ AnchorFacts!KeepingStep
  OBVIOUS
<1>1. BaseInv /\ AttestInv
  BY DEF IInv
<1>2. CASE BaseNext /\ UNCHANGED <<aggVars, ueSigned>>
  <2>1. /\ BaseInv' /\ SessionStep
        /\ \A i \in SessionIds : sessions'[i].status = COMPLETED => sessions'[i] = sessions[i]
    BY <1>1, <1>2, BaseNextPreserves
  <2>2. AttestInv' /\ AnchorFacts!KeepingStep
    BY <1>1, <1>2, AnchorUnchanged
  <2> QED
    BY <1>2, <2>1, <2>2, ChargedStays
<1>3. ASSUME NEW ue \in UEs, NEW id \in SessionIds, NEW hash \in Hashes, SignCDR(ue, id, hash)
      PROVE  IInv' /\ SessionStep /\ AnchorFacts!KeepingStep
  <2>1. UNCHANGED <<vars, aggVars>> /\ ueSigned \subseteq ueSigned'
    BY <1>3 DEF SignCDR
  <2>2. BaseInv' /\ SessionStep /\ UNCHANGED sessions
    BY <1>1, <2>1, StutterKeepsSessions
  <2>3. AttestInv' /\ AnchorFacts!KeepingStep
    BY <1>1, <2>1, AnchorUnchanged
  <2> QED
    BY <2>1, <2>2, <2>3, ChargedStays
<1>4. ASSUME NEW sid \in SettlementIds, NEW c \in Attestable, NEW vs \in SUBSET Verifiers,
             AttestTo(sid, c, vs)
      PROVE  IInv' /\ SessionStep /\ AnchorFacts!KeepingStep
  <2>1. UNCHANGED <<vars, ueSigned>>
    BY <1>4 DEF AttestTo
  <2>2. BaseInv' /\ SessionStep /\ UNCHANGED sessions
    BY <1>1, <2>1, StutterKeepsSessions
  <2>3. AttestInv' /\ AnchorFacts!KeepingStep
    BY <1>1, <1>4, AttestPreserves
  <2> QED
    BY <2>1, <2>2, <2>3, ChargedStays
<1>5. ASSUME NEW b \in Batches, SettleBatch(b)
      PROVE  IInv' /\ SessionStep /\ AnchorFacts!KeepingStep
  BY <1>1, <1>5, SettleBatchPreserves, AnchorUnchanged DEF SettleBatch
<1>6. CASE UNCHANGED allVars
  <2>1. UNCHANGED <<vars, aggVars, ueSigned>>
    BY <1>6 DEF allVars
  <2>2. BaseInv' /\ SessionStep /\ UNCHANGED sessions
    BY <1>1, <2>1, StutterKeepsSessions
  <2>3. AttestInv' /\ AnchorFacts!KeepingStep
    BY <1>1, <2>1, AnchorUnchanged
  <2> QED
    BY <2>1, <2>2, <2>3, ChargedStays
<1> QED
  BY <1>2, <1>3, <1>4, <1>5, <1>6 DEF Next

\* The invariant holds in every reachable state.
LEMMA AggregateInvariant == Spec => []IInv
<1>1. IInv /\ [Next]_allVars => IInv'
  BY AggregateStep
<1> QED
  BY <1>1, AggregateInit, PTL DEF Spec

------------------------------------------------------------------------------

\* The variables of the agreement and those of the anchor keep their types.
THEOREM TypeCorrect == Spec => [](TypeOK /\ Anchor!TypeOK)
<1>1. IInv => TypeOK /\ Anchor!TypeOK
  <2>1. AnchorFacts!Cardinality(isVerifier) = Anchor!Cardinality(isVerifier)
    BY DEF AnchorFacts!Cardinality, Anchor!Cardinality
  <2> QED
    BY <2>1 DEF IInv, BaseInv, AttestInv, AnchorReady, AnchorFacts!AnchorInv,
      AnchorFacts!TypeOK, Anchor!TypeOK
<1> QED
  BY <1>1, AggregateInvariant, PTL

\* However sessions are put into anchored batches, the contract holds exactly the escrow
\* of the sessions still pending.
THEOREM AlwaysSolvent == Spec => []Solvent
<1>1. IInv => Solvent
  BY DEF IInv, BaseInv
<1> QED
  BY <1>1, AggregateInvariant, PTL

\* No user is in two pending sessions, also when batches settle them.
THEOREM OneActiveSession == Spec => []OneActivePerUE
<1>1. IInv => OneActivePerUE
  BY DEF IInv, BaseInv, ActiveIsLatest, OneActivePerUE
<1> QED
  BY <1>1, AggregateInvariant, PTL

\* With fewer mistaken verifiers than the threshold, every charge is the price of a record
\* whose hash the session's own user signed: the anchor's quorum stands for the proof, the
\* signature for submitCDR.
THEOREM ChargedRight == Spec => []ChargedAsProvedAndSigned
<1>1. IInv => ChargedAsProvedAndSigned
  BY DEF IInv
<1> QED
  BY <1>1, AggregateInvariant, PTL

\* Every settled session is an entry of a batch that is final on the anchor and settled as
\* a whole; neither contract undoes its part.
THEOREM ContractsAgree == Spec => []SettledAsAnchored
<1>1. IInv => SettledAsAnchored
  BY DEF IInv
<1> QED
  BY <1>1, AggregateInvariant, PTL

\* A batch settles no session a second time.
THEOREM LifecycleFollowed == Spec => SessionLifecycle
<1>1. IInv /\ [Next]_allVars => [SessionStep]_vars
  BY AggregateStep
<1> QED
  BY <1>1, AggregateInvariant, PTL DEF Spec, SessionLifecycle

\* Every step of the contract is a step of the promised escrow, or not seen there.
LEMMA StepRefines ==
  IInv /\ [Next]_allVars => [Promise!ENext]_(<<LedgerView, bal>>)
<1> SUFFICES ASSUME IInv, BaseInv, [Next]_allVars
             PROVE  Promise!ENext \/ UNCHANGED <<LedgerView, bal>>
  BY DEF IInv
<1>1. ASSUME NEW b \in Batches, SettleBatch(b)
      PROVE  Promise!ENext
  <2> DEFINE n == Len(b.ids)
             ids == b.ids
             costs == b.costs
  <2>1. /\ n \in Nat /\ ids \in [1 .. n -> SessionIds] /\ \A i \in 1 .. n : costs[i] \in Nat
        /\ SettleSessions(ids, costs)
    BY <1>1, BatchShape DEF SettleBatch
  <2>2. n \in Nat \ {0}
    BY <1>1, BatchAssumption DEF SettleBatch
  <2> HIDE DEF n, ids, costs
  <2> QED
    BY <2>1, <2>2, BatchSettles
<1>2. ASSUME UNCHANGED vars
      PROVE  UNCHANGED <<LedgerView, bal>>
  BY <1>2, StutterRefines
<1>3. (UNCHANGED allVars \/ (\E ue \in UEs, id \in SessionIds, hash \in Hashes :
                              SignCDR(ue, id, hash))
       \/ (\E sid \in SettlementIds, c \in Attestable, vs \in SUBSET Verifiers :
             AttestTo(sid, c, vs)))
      => UNCHANGED vars
  BY DEF allVars, SignCDR, AttestTo
<1> QED
  BY <1>1, <1>2, <1>3, BaseNextRefines DEF Next

\* Anchored batches implement the escrow that RoamingEscrow promises: attesting and signing
\* do not show there, and a batch settles all its sessions in one step.
THEOREM EscrowImplemented == Spec => AggregateImplementsEscrow
<1>1. IInv /\ [Next]_allVars => [Promise!ENext]_(Promise!evars)
  BY StepRefines DEF Promise!evars
<1>2. InitAggregate => Promise!EInit
  BY InitRefines DEF InitAggregate
<1> QED
  BY <1>1, <1>2, AggregateInit, AggregateInvariant, PTL
  DEF Spec, AggregateImplementsEscrow, Promise!ESpec
==============================================================================
