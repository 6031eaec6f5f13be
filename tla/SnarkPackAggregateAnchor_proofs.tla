------------------- MODULE SnarkPackAggregateAnchor_proofs -------------------
(***************************************************************************)
(* The anchor for any number of verifiers, settlement ids and commitments: *)
(* counts are votes, finality needs a quorum and is never undone.  Also    *)
(* bytes32(0) may be attested to.                                          *)
(***************************************************************************)
EXTENDS SnarkPackAggregateAnchor, FiniteSetTheorems, WellFoundedInduction, TLAPS

\* Only authorised verifiers have attested.
VotersAuthorised ==
  \A id \in SettlementIds, v \in Verifiers :
    attestations[id][v] # NoAttestation => v \in isVerifier

\* As long as an open id has no commitment nobody has attested to another one than zero.
NothingBeforeTheFirst ==
  \A id \in SettlementIds :
    id \notin isFinalized /\ finalizedCommitment[id] = NoCommitment =>
      \A v \in Verifiers : attestations[id][v] \in {NoAttestation, NoCommitment}

\* The voters after a step.
NextVotes(id, c) == {v \in Verifiers : attestations'[id][v] = c}
NextCounted(id, c) == NextVotes(id, c) \cup NextVotes(id, NoCommitment)

AnchorInv == TypeOK /\ VotersAuthorised /\ NothingBeforeTheFirst /\ CountMatchesVotes

\* Sets of verifiers are finite, and a part of one has no more members.
LEMMA PartsCount ==
  ASSUME NEW S \in SUBSET Verifiers, NEW T \in SUBSET S
  PROVE  /\ IsFiniteSet(S) /\ Cardinality(S) \in Nat
         /\ IsFiniteSet(T) /\ Cardinality(T) \in Nat
         /\ Cardinality(T) <= Cardinality(S)
<1>1. IsFiniteSet(S)
  BY VerifierAssumption, FS_Subset
<1>2. IsFiniteSet(T) /\ Cardinality(T) <= Cardinality(S)
  BY <1>1, FS_Subset
<1> QED
  BY <1>1, <1>2, FS_CardinalityType

\* Verifiers that were not among the others add up with them.
LEMMA ApartAddUp ==
  ASSUME NEW S \in SUBSET Verifiers, NEW T \in SUBSET Verifiers, S \cap T = {}
  PROVE  /\ Cardinality(S) \in Nat /\ Cardinality(T) \in Nat
         /\ Cardinality(S \cup T) = Cardinality(S) + Cardinality(T)
<1>1. /\ IsFiniteSet(S) /\ Cardinality(S) \in Nat
      /\ IsFiniteSet(T) /\ Cardinality(T) \in Nat
  BY PartsCount
<1> DEFINE common == S \cap T
<1>2. Cardinality(S \cup T) = Cardinality(S) + Cardinality(T) - Cardinality(common)
  BY <1>1, FS_Union
<1>3. common = {}
  OBVIOUS
<1> HIDE DEF common
<1>4. Cardinality(common) = 0
  BY <1>3, FS_EmptySet
<1> QED
  BY <1>1, <1>2, <1>4

\* What _recordAttestation counts: nothing, or up to the attestation that makes the
\* id final and all of them if none does.
LEMMA TallyCounts ==
  ASSUME NEW tally, NEW c, NEW n \in Nat, threshold \in Nat \ {0}, tally.count \in Nat,
         ~tally.final, tally.commitment \in {NoCommitment, c}
  PROVE  LET t == Tally(tally, c, n) IN
         /\ t.commitment = c
         /\ t.count \in Nat /\ t.count <= tally.count + n
         /\ t.final => t.count >= threshold
         /\ ~t.final => t.count = tally.count + n
<1> DEFINE missing == IF threshold > tally.count THEN threshold - tally.count ELSE 1
           counted == IF n < missing THEN n ELSE missing
<1>1. Tally(tally, c, n) = [count |-> tally.count + counted, commitment |-> c,
                            final |-> tally.count + counted >= threshold]
  BY DEF Tally
<1>2. missing \in Nat /\ counted \in Nat /\ counted <= n
  OBVIOUS
<1>3. counted # n => tally.count + counted >= threshold
  OBVIOUS
<1> DEFINE total == tally.count + counted
           final == total >= threshold
<1>4. Tally(tally, c, n) = [count |-> total, commitment |-> c, final |-> final]
  BY <1>1
<1>5. /\ total \in Nat /\ total <= tally.count + n
      /\ final => total >= threshold
      /\ ~final => total = tally.count + n
  BY <1>2, <1>3
<1> HIDE DEF missing, counted, total, final
<1>6. /\ Tally(tally, c, n).commitment = c
      /\ Tally(tally, c, n).count = total
      /\ Tally(tally, c, n).final = final
  BY <1>4
<1> QED
  BY <1>5, <1>6

\* An id that is final or counts another commitment keeps its tally.
LEMMA TallyStays ==
  ASSUME NEW tally, NEW c, NEW n,
         tally.final \/ tally.commitment \notin {NoCommitment, c}
  PROVE  Tally(tally, c, n) = tally
  BY DEF Tally

\* The constructor establishes the invariant.
LEMMA AnchorInit == Init => AnchorInv
<1> SUFFICES ASSUME Init PROVE AnchorInv
  OBVIOUS
<1>1. Cardinality(isVerifier) = 1
  BY FS_Singleton DEF Init
<1>2. CountMatchesVotes
  <2> SUFFICES ASSUME NEW id \in SettlementIds
               PROVE  /\ 0 <= Cardinality(Counted(id))
                      /\ Cardinality(Votes(id, finalizedCommitment[id])) <= 0
    BY DEF Init, CountMatchesVotes
  <2>1. Counted(id) \in SUBSET Verifiers
    BY DEF Counted, Votes
  <2>2. Cardinality(Counted(id)) \in Nat
    BY <2>1, PartsCount
  <2>3. Votes(id, finalizedCommitment[id]) = {}
    BY AttestationAssumption DEF Init, Votes
  <2> QED
    BY <2>2, <2>3, FS_EmptySet
<1> QED
  BY <1>1, <1>2, VerifierAssumption
  DEF Init, AnchorInv, TypeOK, VotersAuthorised, NothingBeforeTheFirst

\* What _recordAttestation makes of the tally of an id, told by the votes before and after:
\* the two bounds of CountMatchesVotes, and what making it final takes.
LEMMA TallyOfVotes ==
  ASSUME AnchorInv, NEW id \in SettlementIds, NEW c \in Commitments,
         NEW vs \in SUBSET Verifiers, \A v \in vs : attestations[id][v] = NoAttestation,
         \A v \in Verifiers :
           attestations'[id][v] = IF v \in vs THEN c ELSE attestations[id][v],
         NEW new, new = Tally(TallyOf(id), c, Cardinality(vs))
  PROVE  /\ new.count \in Nat /\ new.commitment \in Commitments \cup {NoCommitment}
         /\ id \in isFinalized =>
              new.commitment = finalizedCommitment[id] /\ new.final = TRUE
         /\ new.final # TRUE /\ new.commitment = NoCommitment =>
              finalizedCommitment[id] = NoCommitment /\ c = NoCommitment
         /\ new.count <= Cardinality(NextCounted(id, new.commitment))
         /\ id \notin isFinalized /\ new.final # TRUE =>
              Cardinality(NextVotes(id, new.commitment)) <= new.count
         /\ id \notin isFinalized /\ new.final => new.count >= threshold
<1> DEFINE old == TallyOf(id)
           k == finalizedCommitment[id]
<1>1. old.count = agreementCount[id] /\ old.commitment = k /\ old.final = (id \in isFinalized)
  BY DEF TallyOf
<1>2. /\ TypeOK /\ NothingBeforeTheFirst /\ CountMatchesVotes
      /\ old.count \in Nat /\ k \in Commitments \cup {NoCommitment}
      /\ c # NoAttestation /\ k # NoAttestation /\ NoCommitment # NoAttestation
  BY <1>1, AttestationAssumption DEF AnchorInv, TypeOK
<1>3. /\ old.count <= Cardinality(Counted(id))
      /\ id \notin isFinalized => Cardinality(Votes(id, k)) <= old.count
  BY <1>1, <1>2 DEF CountMatchesVotes
<1>4. threshold \in Nat \ {0} /\ Cardinality(vs) \in Nat
  <2>1. isVerifier \in SUBSET Verifiers
    BY <1>2 DEF TypeOK
  <2>2. Cardinality(isVerifier) \in Nat /\ Cardinality(vs) \in Nat
    BY <2>1, PartsCount
  <2> QED
    BY <1>2, <2>2 DEF TypeOK
\* The verifiers stay verifiers, and every vote for what can be attested to stays.
<1>5. ASSUME NEW d \in Commitments \cup {NoCommitment}
      PROVE  /\ NextVotes(id, d) = IF d = c THEN Votes(id, d) \cup vs ELSE Votes(id, d)
             /\ Votes(id, d) \cap vs = {}
             /\ Votes(id, d) \in SUBSET Verifiers /\ NextVotes(id, d) \in SUBSET Verifiers
  BY AttestationAssumption DEF Votes, NextVotes
<1>6. Counted(id) \in SUBSET Verifiers /\ Counted(id) \cap vs = {}
  BY <1>2, <1>5 DEF Counted
<1> HIDE DEF old, k
<1>7. CASE id \in isFinalized \/ k \notin {NoCommitment, c}
  <2>1. new = old
    BY <1>1, <1>7, TallyStays DEF old
  <2>2. Counted(id) \in SUBSET NextCounted(id, k) /\ NextCounted(id, k) \in SUBSET Verifiers
    BY <1>2, <1>5 DEF Counted, NextCounted, k
  <2>3. /\ Cardinality(Counted(id)) \in Nat /\ Cardinality(NextCounted(id, k)) \in Nat
        /\ Cardinality(Counted(id)) <= Cardinality(NextCounted(id, k))
    BY <2>2, PartsCount
  <2>4. id \notin isFinalized => NextVotes(id, k) = Votes(id, k)
    BY <1>2, <1>5, <1>7
  <2>5. new.final = (id \in isFinalized) /\ new.commitment = k /\ new.count = old.count
    BY <1>1, <2>1
  <2>6. k = NoCommitment => id \in isFinalized
    BY <1>7
  <2>7. (id \in isFinalized => new.final = TRUE) /\ (id \notin isFinalized => ~new.final)
    <3> DEFINE final == id \in isFinalized
    <3>1. new.final = final /\ final \in BOOLEAN
      BY <2>5
    <3> HIDE DEF final
    <3>2. (final => new.final = TRUE) /\ (~final => ~new.final)
      BY <3>1
    <3> QED
      BY <3>2 DEF final
  <2>8. /\ new.count \in Nat /\ new.count <= Cardinality(NextCounted(id, k))
        /\ id \notin isFinalized => Cardinality(NextVotes(id, k)) <= new.count
    BY <1>2, <1>3, <2>3, <2>4, <2>5
  <2> QED
    BY <1>2, <2>5, <2>6, <2>7, <2>8 DEF k
<1>8. CASE id \notin isFinalized /\ k \in {NoCommitment, c}
  <2>1. /\ new.commitment = c /\ new.count \in Nat
        /\ new.count <= old.count + Cardinality(vs)
        /\ new.final => new.count >= threshold
        /\ ~new.final => new.count = old.count + Cardinality(vs)
    <3>1. ~old.final /\ old.commitment \in {NoCommitment, c}
      BY <1>1, <1>8
    <3>2. new = Tally(old, c, Cardinality(vs))
      BY DEF old
    <3> QED
      BY <1>2, <1>4, <3>1, <3>2, TallyCounts
  <2>2. NextVotes(id, c) = Votes(id, c) \cup vs
    BY <1>5
  \* Nothing counted is lost: what was counted for zero is counted for c.
  <2>3. Counted(id) \cup vs \in SUBSET NextCounted(id, c)
        /\ NextCounted(id, c) \in SUBSET Verifiers
    BY <1>2, <1>5, <1>8 DEF Counted, NextCounted, k
  <2>4. /\ Cardinality(Counted(id)) \in Nat
        /\ Cardinality(Counted(id) \cup vs) = Cardinality(Counted(id)) + Cardinality(vs)
    BY <1>6, ApartAddUp
  <2>5. /\ Cardinality(Counted(id) \cup vs) <= Cardinality(NextCounted(id, c))
        /\ Cardinality(NextCounted(id, c)) \in Nat
    BY <2>3, PartsCount
  <2>6. new.count <= Cardinality(NextCounted(id, c))
    BY <1>2, <1>3, <1>4, <2>1, <2>4, <2>5
  <2>7. /\ Cardinality(Votes(id, c)) \in Nat
        /\ Cardinality(NextVotes(id, c)) = Cardinality(Votes(id, c)) + Cardinality(vs)
    BY <1>5, <2>2, ApartAddUp
  <2>8. Cardinality(Votes(id, c)) <= old.count
    <3>1. CASE k = c
      BY <1>3, <1>8, <3>1
    <3>2. CASE k = NoCommitment /\ c # NoCommitment
      <4>1. Votes(id, c) = {}
        BY <1>2, <1>8, <3>2 DEF NothingBeforeTheFirst, Votes, k
      <4> QED
        BY <1>2, <4>1, FS_EmptySet
    <3> QED
      BY <1>8, <3>1, <3>2
  <2>9. ~new.final => Cardinality(NextVotes(id, c)) <= new.count
    BY <1>2, <1>4, <2>1, <2>7, <2>8
  <2>10. c = NoCommitment => k = NoCommitment
    BY <1>8
  <2> QED
    BY <1>8, <2>1, <2>6, <2>9, <2>10 DEF k
<1> QED
  BY <1>7, <1>8

\* Attestations of authorised verifiers keep the invariant, need a quorum to make an id
\* final, and undo nothing.
LEMMA RecordPreserves ==
  ASSUME AnchorInv, NEW id \in SettlementIds, NEW c \in Commitments,
         NEW vs \in SUBSET isVerifier, RecordAttestations(id, c, vs),
         UNCHANGED <<threshold, isVerifier>>
  PROVE  AnchorInv' /\ FinalizingStep /\ KeepingStep
<1>1. PICK new : new = Tally(TallyOf(id), c, Cardinality(vs))
  OBVIOUS
<1>2. /\ \A v \in vs : attestations[id][v] = NoAttestation
      /\ attestations' = [attestations EXCEPT ![id] =
           [v \in Verifiers |-> IF v \in vs THEN c ELSE @[v]]]
      /\ agreementCount' = [agreementCount EXCEPT ![id] = new.count]
      /\ finalizedCommitment' = [finalizedCommitment EXCEPT ![id] = new.commitment]
      /\ isFinalized' = IF new.final THEN isFinalized \cup {id} ELSE isFinalized
      /\ threshold' = threshold /\ isVerifier' = isVerifier
  BY <1>1 DEF RecordAttestations
<1>3. /\ TypeOK /\ VotersAuthorised /\ NothingBeforeTheFirst /\ CountMatchesVotes
      /\ isVerifier \subseteq Verifiers /\ vs \in SUBSET Verifiers
      /\ c # NoAttestation /\ NoCommitment # NoAttestation
  BY AttestationAssumption DEF AnchorInv, TypeOK
<1>4. /\ \A v \in Verifiers :
           attestations'[id][v] = IF v \in vs THEN c ELSE attestations[id][v]
      /\ \A i \in SettlementIds \ {id} : attestations'[i] = attestations[i]
      /\ attestations' \in [SettlementIds -> [Verifiers -> Commitments \cup {NoAttestation}]]
  BY <1>2, <1>3 DEF TypeOK
<1>5. /\ new.count \in Nat /\ new.commitment \in Commitments \cup {NoCommitment}
      /\ id \in isFinalized =>
           new.commitment = finalizedCommitment[id] /\ new.final = TRUE
      /\ new.final # TRUE /\ new.commitment = NoCommitment =>
           finalizedCommitment[id] = NoCommitment /\ c = NoCommitment
      /\ new.count <= Cardinality(NextCounted(id, new.commitment))
      /\ id \notin isFinalized /\ new.final # TRUE =>
           Cardinality(NextVotes(id, new.commitment)) <= new.count
      /\ id \notin isFinalized /\ new.final => new.count >= threshold
  BY <1>1, <1>2, <1>3, <1>4, TallyOfVotes
<1>6. /\ agreementCount'[id] = new.count /\ finalizedCommitment'[id] = new.commitment
      /\ \A i \in SettlementIds \ {id} :
           /\ agreementCount'[i] = agreementCount[i]
           /\ finalizedCommitment'[i] = finalizedCommitment[i]
           /\ i \in isFinalized' <=> i \in isFinalized
      /\ id \in isFinalized' <=> (id \in isFinalized \/ new.final)
  BY <1>2, <1>3 DEF TypeOK
<1>7. TypeOK'
  BY <1>2, <1>3, <1>4, <1>5 DEF TypeOK
<1>8. VotersAuthorised'
  BY <1>2, <1>3, <1>4 DEF VotersAuthorised
<1>9. NothingBeforeTheFirst'
  <2> SUFFICES ASSUME NEW i \in SettlementIds, NEW v \in Verifiers,
                      i \notin isFinalized', finalizedCommitment'[i] = NoCommitment
               PROVE  attestations'[i][v] \in {NoAttestation, NoCommitment}
    BY DEF NothingBeforeTheFirst
  <2>1. CASE i = id
    <3>1. id \notin isFinalized /\ finalizedCommitment[id] = NoCommitment /\ c = NoCommitment
      BY <2>1, <1>5, <1>6
    <3> QED
      BY <2>1, <3>1, <1>3, <1>4 DEF NothingBeforeTheFirst
  <2>2. CASE i # id
    BY <2>2, <1>3, <1>4, <1>6 DEF NothingBeforeTheFirst
  <2> QED
    BY <2>1, <2>2
<1>10. \A i \in SettlementIds :
         /\ Votes(i, finalizedCommitment[i])' = NextVotes(i, finalizedCommitment'[i])
         /\ Counted(i)' = NextCounted(i, finalizedCommitment'[i])
  BY DEF Votes, NextVotes, Counted, NextCounted
<1>11. CountMatchesVotes'
  <2> SUFFICES ASSUME NEW i \in SettlementIds
               PROVE  /\ agreementCount'[i] <= Cardinality(Counted(i)')
                      /\ i \notin isFinalized' =>
                           Cardinality(Votes(i, finalizedCommitment[i])') <= agreementCount'[i]
    BY DEF CountMatchesVotes
  <2>1. CASE i = id
    BY <2>1, <1>5, <1>6, <1>10
  <2>2. CASE i # id
    <3>1. /\ Votes(i, finalizedCommitment[i])' = Votes(i, finalizedCommitment[i])
          /\ Counted(i)' = Counted(i)
      BY <2>2, <1>4, <1>6 DEF Votes, Counted
    <3> QED
      BY <2>2, <3>1, <1>3, <1>6 DEF CountMatchesVotes
  <2> QED
    BY <2>1, <2>2
<1>12. FinalizingStep
  <2> SUFFICES ASSUME NEW i \in isFinalized' \ isFinalized
               PROVE  Counted(i)' \subseteq isVerifier /\ Cardinality(Counted(i)') >= threshold
    BY DEF FinalizingStep
  <2>1. i = id /\ new.final /\ id \notin isFinalized
    BY <1>2
  <2>2. Counted(i)' = NextCounted(id, new.commitment)
    BY <2>1, <1>6, <1>10
  <2>3. NextCounted(id, new.commitment) \subseteq isVerifier
    BY <1>2, <1>5, <1>8, AttestationAssumption DEF NextCounted, NextVotes, VotersAuthorised
  <2>4. Cardinality(NextCounted(id, new.commitment)) \in Nat /\ threshold \in Nat
    <3>1. /\ NextCounted(id, new.commitment) \in SUBSET Verifiers
          /\ isVerifier \in SUBSET Verifiers
      BY <1>3, <2>3
    <3>2. Cardinality(isVerifier) \in Nat /\ Cardinality(NextCounted(id, new.commitment)) \in Nat
      BY <3>1, PartsCount
    <3> QED
      BY <1>3, <3>2 DEF TypeOK
  <2>5. new.count >= threshold /\ new.count <= Cardinality(NextCounted(id, new.commitment))
    BY <2>1, <1>5
  <2>6. new.count \in Nat
    BY <1>5
  <2> QED
    BY <2>2, <2>3, <2>4, <2>5, <2>6
<1>13. KeepingStep
  <2>1. \A i \in isFinalized : i \in isFinalized' /\ finalizedCommitment'[i] = finalizedCommitment[i]
    BY <1>2, <1>3, <1>5, <1>6 DEF TypeOK
  <2>2. \A i \in SettlementIds, v \in Verifiers :
          attestations[i][v] # NoAttestation => attestations'[i][v] = attestations[i][v]
    BY <1>2, <1>4
  <2> QED
    BY <2>1, <2>2 DEF KeepingStep
<1> QED
  BY <1>7, <1>8, <1>9, <1>11, <1>12, <1>13 DEF AnchorInv

\* The owner's calls keep the invariant and leave the tallies alone.
LEMMA OwnerPreserves ==
  ASSUME AnchorInv,
         \/ \E v \in Verifiers : AddVerifier(v)
         \/ \E t \in 0 .. Cardinality(Verifiers) : SetThreshold(t)
         \/ UNCHANGED anchorVars
  PROVE  AnchorInv' /\ FinalizingStep /\ KeepingStep
<1>1. /\ UNCHANGED <<attestations, agreementCount, finalizedCommitment, isFinalized>>
      /\ isVerifier \subseteq isVerifier' /\ isVerifier' \subseteq Verifiers
  BY DEF AnchorInv, TypeOK, AddVerifier, SetThreshold, anchorVars
<1>2. /\ IsFiniteSet(isVerifier) /\ IsFiniteSet(isVerifier')
      /\ Cardinality(isVerifier) \in Nat /\ Cardinality(isVerifier') \in Nat
      /\ Cardinality(isVerifier) <= Cardinality(isVerifier')
  <2>1. isVerifier' \in SUBSET Verifiers /\ isVerifier \in SUBSET isVerifier'
    BY <1>1
  <2>2. IsFiniteSet(isVerifier')
    BY <2>1, VerifierAssumption, FS_Subset
  <2> QED
    BY <2>1, <2>2, FS_Subset, FS_CardinalityType
<1>3. threshold' \in 1 .. Cardinality(isVerifier')
  BY <1>1, <1>2 DEF AnchorInv, TypeOK, AddVerifier, SetThreshold, anchorVars
<1>4. TypeOK' /\ VotersAuthorised' /\ NothingBeforeTheFirst' /\ CountMatchesVotes'
  BY <1>1, <1>3
  DEF AnchorInv, TypeOK, VotersAuthorised, NothingBeforeTheFirst, CountMatchesVotes, Votes,
      Counted
<1> QED
  BY <1>1, <1>4 DEF AnchorInv, FinalizingStep, KeepingStep

\* Every step keeps the invariant and has both action properties.
LEMMA AnchorStep ==
  ASSUME AnchorInv, [Next]_anchorVars
  PROVE  AnchorInv' /\ FinalizingStep /\ KeepingStep
<1>1. CASE Attest
  <2>1. ASSUME NEW id \in SettlementIds, NEW c \in Commitments, NEW v \in Verifiers,
               AnchorAggregateProof(id, c, v)
        PROVE  AnchorInv' /\ FinalizingStep /\ KeepingStep
    BY <2>1, RecordPreserves DEF AnchorAggregateProof
  <2>2. ASSUME NEW id \in SettlementIds, NEW c \in Commitments, NEW vs \in SUBSET Verifiers,
               RelayAggregateProof(id, c, vs)
        PROVE  AnchorInv' /\ FinalizingStep /\ KeepingStep
    BY <2>2, RecordPreserves DEF RelayAggregateProof
  <2> QED
    BY <1>1, <2>1, <2>2 DEF Attest
<1>2. CASE ~Attest
  BY <1>2, OwnerPreserves DEF Next
<1> QED
  BY <1>1, <1>2

\* The invariant and the two action properties hold along every behaviour.
LEMMA AnchorInvariant == Spec => [](AnchorInv) /\ FinalizedByQuorum /\ FinalityIsStable
<1>1. AnchorInv /\ [Next]_anchorVars => AnchorInv'
  BY AnchorStep
<1>2. AnchorInv /\ [Next]_anchorVars => [FinalizingStep]_anchorVars /\ [KeepingStep]_anchorVars
  BY AnchorStep
<1> QED
  BY <1>1, <1>2, AnchorInit, PTL DEF Spec, FinalizedByQuorum, FinalityIsStable

\* Types hold, and the threshold can always be reached by the authorised verifiers.
THEOREM TypeCorrect == Spec => []TypeOK
<1>1. AnchorInv => TypeOK
  BY DEF AnchorInv
<1> QED
  BY <1>1, AnchorInvariant, PTL

\* No count exceeds the votes for the commitment and for zero, and the count of an open id
\* misses no vote for its commitment.
THEOREM CountsAreVotes == Spec => []CountMatchesVotes
<1>1. AnchorInv => CountMatchesVotes
  BY DEF AnchorInv
<1> QED
  BY <1>1, AnchorInvariant, PTL

\* Only a quorum of authorised verifiers makes an id final, counting those for zero.
THEOREM QuorumFinalizes == Spec => FinalizedByQuorum
  BY AnchorInvariant

\* Nothing that is final changes, and no attestation is replaced.
THEOREM FinalityKept == Spec => FinalityIsStable
  BY AnchorInvariant

------------------------------------------------------------------------------
\* The loop of relayAggregateProof.

\* Every set of natural numbers has a least element.
LEMMA LeastNumber ==
  ASSUME NEW S, S \subseteq Nat, S # {}
  PROVE  \E n \in S : \A m \in S : n <= m
<1> DEFINE Less == OpToRel(<, Nat)
<1>1. IsWellFoundedOn(Less, Nat)
  BY NatLessThanWellFounded
<1>2. Less = {ss \in Nat \X Nat : ss[1] < ss[2]}
  BY DEF OpToRel
<1>3. \A x \in Nat, y \in Nat : y < x => <<y, x>> \in Less
  BY <1>2
<1> HIDE DEF Less
<1>4. PICK x \in S : \A y \in S : ~(<<y, x>> \in Less)
  BY <1>1, WFMin
<1>5. ASSUME NEW y \in S PROVE x <= y
  <2>1. x \in Nat /\ y \in Nat
    OBVIOUS
  <2>2. ~(y < x)
    BY <1>3, <1>4, <2>1
  <2> QED
    BY <2>1, <2>2
<1> QED
  BY <1>5

\* The tallies of an anchor in use.
IsTally(tally) ==
  /\ tally = [count |-> tally.count, commitment |-> tally.commitment, final |-> tally.final]
  /\ tally.count \in Nat /\ tally.final \in BOOLEAN

\* A relay of one more verifier is a relay and then one more attestation.
LEMMA OneMoreAttests ==
  ASSUME NEW tally, IsTally(tally), NEW c, NEW n \in Nat \ {0}, threshold \in Nat \ {0}
  PROVE  /\ Tally(tally, c, 1) = RecordOne(tally, c)
         /\ Tally(tally, c, n + 1) = RecordOne(Tally(tally, c, n), c)
<1>1. CASE tally.final \/ tally.commitment \notin {NoCommitment, c}
  BY <1>1 DEF Tally, RecordOne
<1>2. CASE ~tally.final /\ tally.commitment \in {NoCommitment, c}
  <2> DEFINE k == tally.count
             missing == IF threshold > k THEN threshold - k ELSE 1
             counted(m) == IF m < missing THEN m ELSE missing
             Made(count) == [count |-> count, commitment |-> c, final |-> count >= threshold]
  <2>1. k \in Nat /\ missing \in Nat \ {0} /\ \A m \in Nat : counted(m) \in Nat
    BY DEF IsTally
  <2>2. \A m \in Nat : Tally(tally, c, m) = Made(k + counted(m))
    BY <1>2 DEF Tally
  <2>3. RecordOne(tally, c) = Made(k + 1)
    BY <1>2 DEF RecordOne, IsTally
  <2>4. counted(1) = 1
    BY <2>1
  <2>5. CASE k + counted(n) >= threshold
    <3>1. counted(n + 1) = counted(n)
      BY <2>1, <2>5
    <3>2. Tally(tally, c, n).final
      <4> DEFINE total == k + counted(n)
                 final == total >= threshold
      <4>1. Tally(tally, c, n) = [count |-> total, commitment |-> c, final |-> final] /\ final
        BY <2>2, <2>5
      <4> HIDE DEF total, final
      <4>2. Tally(tally, c, n).final = final
        BY <4>1
      <4> QED
        BY <4>1, <4>2
    <3>3. RecordOne(Tally(tally, c, n), c) = Tally(tally, c, n)
      BY <3>2 DEF RecordOne
    <3>4. n \in Nat /\ n + 1 \in Nat
      OBVIOUS
    <3> QED
      BY <2>2, <2>3, <2>4, <3>1, <3>3, <3>4
  <2>6. CASE ~(k + counted(n) >= threshold)
    <3>1. counted(n) = n /\ counted(n + 1) = n + 1
      BY <2>1, <2>6
    <3>2. Tally(tally, c, n) = Made(k + n) /\ ~(k + n >= threshold)
      BY <2>2, <2>6, <3>1
    <3>3. RecordOne(Made(k + n), c) = Made(k + n + 1)
      BY <2>1, <3>2 DEF RecordOne
    <3>4. n + 1 \in Nat /\ k + (n + 1) = k + n + 1
      BY <2>1
    <3> QED
      BY <2>2, <2>3, <2>4, <3>1, <3>2, <3>3, <3>4
  <2> QED
    BY <2>5, <2>6
<1> QED
  BY <1>1, <1>2

\* The loop adds the verifiers up one by one: it cannot first differ at any place.
LEMMA LoopAddsUp ==
  ASSUME NEW tally, IsTally(tally), NEW c, NEW n \in Nat \ {0}, threshold \in Nat \ {0}
  PROVE  RelayLoop(tally, c, n) = Tally(tally, c, n)
<1> DEFINE f == [i \in 0 .. n |-> IF i = 0 THEN tally ELSE Tally(tally, c, i)]
           Is(g) == g = [i \in 0 .. n |-> IF i = 0 THEN tally ELSE RecordOne(g[i - 1], c)]
           h == CHOOSE g : Is(g)
<1>1. ASSUME NEW i \in 0 .. n
      PROVE  f[i] = IF i = 0 THEN tally ELSE RecordOne(f[i - 1], c)
  <2>1. CASE i = 0
    BY <2>1
  <2>2. CASE i = 1
    <3>1. 0 \in 0 .. n /\ i - 1 = 0 /\ f[0] = tally
      BY <2>2
    <3> QED
      BY <2>2, <3>1, OneMoreAttests
  <2>3. CASE i > 1
    <3>1. i - 1 \in Nat \ {0} /\ i - 1 \in 0 .. n /\ (i - 1) + 1 = i
      BY <2>3
    <3>2. f[i] = Tally(tally, c, i) /\ f[i - 1] = Tally(tally, c, i - 1)
      BY <2>3, <3>1
    <3>3. Tally(tally, c, (i - 1) + 1) = RecordOne(Tally(tally, c, i - 1), c)
      BY <3>1, OneMoreAttests
    <3> QED
      BY <2>3, <3>1, <3>2, <3>3
  <2> QED
    BY <2>1, <2>2, <2>3
<1>2. f = [i \in 0 .. n |-> f[i]]
  OBVIOUS
<1>3. RelayLoop(tally, c, n) = h[n]
  BY DEF RelayLoop
<1>4. f[n] = Tally(tally, c, n)
  OBVIOUS
<1> HIDE DEF f
<1>5. Is(f)
  BY <1>1, <1>2
<1>6. Is(h)
  <2> HIDE DEF Is
  <2> QED
    BY <1>5
<1> HIDE DEF h
<1>7. \A i \in 0 .. n : h[i] = IF i = 0 THEN tally ELSE RecordOne(h[i - 1], c)
  BY <1>6
<1> DEFINE Off == {i \in 0 .. n : h[i] # f[i]}
<1>8. ASSUME Off # {} PROVE FALSE
  <2>1. PICK m \in Off : \A k \in Off : m <= k
    <3>1. Off \subseteq Nat
      OBVIOUS
    <3> HIDE DEF Off
    <3> QED
      BY <1>8, <3>1, LeastNumber
  <2>2. m \in 0 .. n /\ h[m] # f[m]
    BY <2>1
  <2>3. m = 0 \/ (m - 1 \in 0 .. n /\ ~(m <= m - 1))
    BY <2>2
  <2>4. m # 0 => h[m - 1] = f[m - 1]
    BY <2>1, <2>3
  <2> QED
    BY <1>1, <1>7, <2>2, <2>4
<1>9. h[n] = f[n]
  BY <1>8
<1> QED
  BY <1>3, <1>4, <1>9

\* A relay that the contract counts one signature after the other is counted as the model
\* does at once, for any number of verifiers and wherever the threshold was moved.
THEOREM RelayIsCountedAtOnce == Spec => []TallyIsTheLoop
<1>1. ASSUME AnchorInv PROVE TallyIsTheLoop
  <2>1. threshold \in Nat \ {0}
    BY <1>1, VerifierAssumption, FS_Subset, FS_CardinalityType DEF AnchorInv, TypeOK
  <2> SUFFICES ASSUME NEW id \in SettlementIds, NEW c \in Commitments,
                      NEW n \in 1 .. Cardinality(Verifiers)
               PROVE  Tally(TallyOf(id), c, n) = RelayLoop(TallyOf(id), c, n)
    BY DEF TallyIsTheLoop
  <2>2. IsTally(TallyOf(id))
    BY <1>1 DEF AnchorInv, TypeOK, IsTally, TallyOf
  <2>3. n \in Nat \ {0}
    BY VerifierAssumption, FS_CardinalityType
  <2> QED
    BY <2>1, <2>2, <2>3, LoopAddsUp
<1> QED
  BY <1>1, AnchorInvariant, PTL
==============================================================================
