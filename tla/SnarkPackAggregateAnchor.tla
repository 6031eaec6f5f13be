----------------------- MODULE SnarkPackAggregateAnchor -----------------------
(***************************************************************************)
(* experiments/contracts/SnarkPackAggregateAnchor.sol: authorised          *)
(* verifiers check an aggregate proof off chain and attest to its          *)
(* commitment, directly or by a signature that anyone relays; a settlement *)
(* id is final once `threshold` of them agree.                             *)
(*                                                                         *)
(* Left out: nproofs, which is stored and emitted and never compared, and  *)
(* the recovery of a signer from a signature: a relayed attestation is one *)
(* that its signer made.                                                   *)
(***************************************************************************)
EXTENDS Integers, FiniteSets

CONSTANTS
  Verifiers,        \* accounts that can be made verifiers
  InitialVerifier,  \* the constructor's argument
  SettlementIds,
  Commitments,      \* what verifiers attest to: any bytes32, also NoCommitment
  NoCommitment,     \* bytes32(0), which finalizedCommitment holds before the first one
  NoAttestation,    \* an entry with timestamp 0: this verifier has not attested
  MAX_BATCH_SIZE    \* signers in one relay

ASSUME VerifierAssumption == InitialVerifier \in Verifiers /\ IsFiniteSet(Verifiers)

\* Whether a verifier attested is told by the time of its attestation, whatever it
\* attested to.
ASSUME AttestationAssumption == NoAttestation \notin Commitments \cup {NoCommitment}

ASSUME BatchSizeAssumption == MAX_BATCH_SIZE \in Nat \ {0}

VARIABLES
  threshold,
  isVerifier,           \* the set of authorised verifiers; verifierCount is its size
  attestations,         \* attestations[id][v]: what v attested to, or NoAttestation
  agreementCount,
  finalizedCommitment,  \* the commitment being counted, then the final one
  isFinalized           \* the set of settlement ids that are final

anchorVars ==
  <<threshold, isVerifier, attestations, agreementCount, finalizedCommitment, isFinalized>>

\* The types; the threshold can always be reached by the authorised verifiers.
TypeOK ==
  /\ isVerifier \subseteq Verifiers
  /\ threshold \in 1 .. Cardinality(isVerifier)
  /\ attestations \in [SettlementIds -> [Verifiers -> Commitments \cup {NoAttestation}]]
  /\ agreementCount \in [SettlementIds -> Nat]
  /\ finalizedCommitment \in [SettlementIds -> Commitments \cup {NoCommitment}]
  /\ isFinalized \subseteq SettlementIds

Init ==
  /\ threshold = 1
  /\ isVerifier = {InitialVerifier}
  /\ attestations = [id \in SettlementIds |-> [v \in Verifiers |-> NoAttestation]]
  /\ agreementCount = [id \in SettlementIds |-> 0]
  /\ finalizedCommitment = [id \in SettlementIds |-> NoCommitment]
  /\ isFinalized = {}

------------------------------------------------------------------------------
\* The owner's calls.

AddVerifier(v) ==
  /\ v \notin isVerifier
  /\ isVerifier' = isVerifier \cup {v}
  /\ UNCHANGED <<threshold, attestations, agreementCount, finalizedCommitment, isFinalized>>

\* Mutant: the threshold is not compared with the number of verifiers.
ThresholdUnchecked(t) ==
  /\ t > 0
  /\ threshold' = t
  /\ UNCHANGED <<isVerifier, attestations, agreementCount, finalizedCommitment, isFinalized>>

\* Ids whose count already reaches the new threshold are not looked at again.
SetThreshold(t) ==
  /\ t > 0 /\ t <= Cardinality(isVerifier)
  /\ threshold' = t
  /\ UNCHANGED <<isVerifier, attestations, agreementCount, finalizedCommitment, isFinalized>>

------------------------------------------------------------------------------
\* Attesting.

\* What a settlement id is decided by: its count, commitment and finality.
TallyOf(id) ==
  [count |-> agreementCount[id], commitment |-> finalizedCommitment[id],
   final |-> id \in isFinalized]

\* Mutant: the first commitment is not kept, every attestation is counted for its own.
TallyLatest(tally, c, n) ==
  IF tally.final THEN tally
  ELSE [count |-> tally.count + n, commitment |-> c, final |-> tally.count + n >= threshold]

\* Mutant: a relay is counted in full, also beyond the threshold.
TallyUncapped(tally, c, n) ==
  LET target == IF tally.commitment = NoCommitment THEN c ELSE tally.commitment IN
  IF tally.final \/ target # c THEN tally
  ELSE [count |-> tally.count + n, commitment |-> c, final |-> tally.count + n >= threshold]

\* Mutant: finality does not stop the count, nor a later commitment.
TallyNeverCloses(tally, c, n) ==
  LET target == IF tally.final \/ tally.commitment = NoCommitment THEN c ELSE tally.commitment IN
  IF target # c THEN tally
  ELSE [count |-> tally.count + n, commitment |-> c, final |-> tally.count + n >= threshold]

\* The tally after n verifiers, one after the other, attested to c: the first
\* commitment is the only one counted, and counting ends when the id is final.  Zero is
\* counted too, and leaves the place of the first commitment free.
Tally(tally, c, n) ==
  LET target == IF tally.commitment = NoCommitment THEN c ELSE tally.commitment
      missing == IF threshold > tally.count THEN threshold - tally.count ELSE 1
      counted == IF n < missing THEN n ELSE missing IN
  IF tally.final \/ target # c THEN tally
  ELSE [count |-> tally.count + counted, commitment |-> c,
        final |-> tally.count + counted >= threshold]

\* _recordAttestation, once it has stored the attestation of one verifier.
RecordOne(tally, c) ==
  LET t == IF tally.commitment = NoCommitment THEN [tally EXCEPT !.commitment = c] ELSE tally IN
  IF tally.final THEN tally
  ELSE IF t.commitment # c THEN t
  ELSE [t EXCEPT !.count = @ + 1, !.final = t.count + 1 >= threshold]

\* The loop of relayAggregateProof over n signers.
RelayLoop(tally, c, n) ==
  LET after[i \in 0 .. n] == IF i = 0 THEN tally ELSE RecordOne(after[i - 1], c)
  IN  after[n]

\* Mutant: a verifier may attest again to the same id.
RecordAgain(id, c, vs) ==
  LET tally == Tally(TallyOf(id), c, Cardinality(vs)) IN
  /\ attestations' = [attestations EXCEPT ![id] =
       [v \in Verifiers |-> IF v \in vs THEN c ELSE @[v]]]
  /\ agreementCount' = [agreementCount EXCEPT ![id] = tally.count]
  /\ finalizedCommitment' = [finalizedCommitment EXCEPT ![id] = tally.commitment]
  /\ isFinalized' = IF tally.final THEN isFinalized \cup {id} ELSE isFinalized

\* The verifiers vs attest to c; the call reverts if one of them already attested.
RecordAttestations(id, c, vs) ==
  LET tally == Tally(TallyOf(id), c, Cardinality(vs)) IN
  /\ \A v \in vs : attestations[id][v] = NoAttestation
  /\ attestations' = [attestations EXCEPT ![id] =
       [v \in Verifiers |-> IF v \in vs THEN c ELSE @[v]]]
  /\ agreementCount' = [agreementCount EXCEPT ![id] = tally.count]
  /\ finalizedCommitment' = [finalizedCommitment EXCEPT ![id] = tally.commitment]
  /\ isFinalized' = IF tally.final THEN isFinalized \cup {id} ELSE isFinalized

\* A verifier sends its own transaction.
AnchorAggregateProof(id, c, sender) ==
  /\ sender \in isVerifier
  /\ RecordAttestations(id, c, {sender})
  /\ UNCHANGED <<threshold, isVerifier>>

\* Anyone sends the signatures of several verifiers.  They are strictly ascending, so
\* a set of signers stands for the list.
RelayAggregateProof(id, c, signers) ==
  /\ signers # {}
  /\ Cardinality(signers) <= MAX_BATCH_SIZE
  /\ signers \subseteq isVerifier
  /\ RecordAttestations(id, c, signers)
  /\ UNCHANGED <<threshold, isVerifier>>

Attest ==
  \E id \in SettlementIds, c \in Commitments :
    \/ \E v \in Verifiers : AnchorAggregateProof(id, c, v)
    \/ \E signers \in SUBSET Verifiers : RelayAggregateProof(id, c, signers)

Next ==
  \/ \E v \in Verifiers : AddVerifier(v)
  \/ \E t \in 0 .. Cardinality(Verifiers) : SetThreshold(t)
  \/ Attest

Spec == Init /\ [][Next]_anchorVars

------------------------------------------------------------------------------

Votes(id, c) == {v \in Verifiers : attestations[id][v] = c}

\* Who can have been counted for the commitment of an id: those who attested to it, and
\* those who attested to zero, whom _recordAttestation counts as long as it finds the
\* id without a commitment.
Counted(id) == Votes(id, finalizedCommitment[id]) \cup Votes(id, NoCommitment)

\* An id becomes final only when at least `threshold` verifiers, each authorised, have
\* attested to its commitment or to zero: no other commitment is ever counted for it.
FinalizingStep ==
  \A id \in isFinalized' \ isFinalized :
    Counted(id)' \subseteq isVerifier /\ Cardinality(Counted(id)') >= threshold

FinalizedByQuorum == [][FinalizingStep]_anchorVars

\* Finality is forever, whatever is attested or changed by the owner later, and no
\* attestation is ever replaced.
KeepingStep ==
  /\ \A id \in isFinalized :
       id \in isFinalized' /\ finalizedCommitment'[id] = finalizedCommitment[id]
  /\ \A id \in SettlementIds, v \in Verifiers :
       attestations[id][v] # NoAttestation => attestations'[id][v] = attestations[id][v]

FinalityIsStable == [][KeepingStep]_anchorVars

\* The count of an id never exceeds the verifiers that attested to its commitment or to
\* zero, and while the id is open no vote for its commitment is missing from it.  Where
\* nobody attested to zero, the count of an open id is exactly its votes.
CountMatchesVotes ==
  \A id \in SettlementIds :
    /\ agreementCount[id] <= Cardinality(Counted(id))
    /\ id \notin isFinalized =>
         Cardinality(Votes(id, finalizedCommitment[id])) <= agreementCount[id]

\* relayAggregateProof attests in a loop, in the middle of which the id may become final:
\* in every reachable state, also after the threshold was moved, the loop gives the tally
\* that is computed at once.
TallyIsTheLoop ==
  \A id \in SettlementIds, c \in Commitments, n \in 1 .. Cardinality(Verifiers) :
    Tally(TallyOf(id), c, n) = RelayLoop(TallyOf(id), c, n)
==============================================================================
