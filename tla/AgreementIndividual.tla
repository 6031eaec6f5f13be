------------------------- MODULE AgreementIndividual -------------------------
(***************************************************************************)
(* experiments/contracts/AgreementIndividual.sol: one proof per session.   *)
(* The user commits the hash of the session's record (SubmitCDR); anyone   *)
(* may then hand in a proof that the cost is the price of a record with    *)
(* that hash.                                                              *)
(***************************************************************************)
EXTENDS AgreementBase

\* Mutant: the public hash is not constrained.
CircuitIgnoringHash(pub) ==
  \E u \in Usages : u.sms * pub[1] + u.data * pub[2] + u.voice * pub[3] = pub[4]

\* What a Groth16 proof of circuits/CDRCircuit.circom shows: some private record
\* has the public price and the public hash.  The order of the public signals is
\* the circuit's: <<r_sms, r_mb, r_voice, t, hash_cdr>>.
CDRCircuit(pub) ==
  \E u \in Usages :
    /\ u.sms * pub[1] + u.data * pub[2] + u.voice * pub[3] = pub[4]
    /\ CDRHashOf[u] = pub[5]

\* Mutant: voice before data, the order of the Rates struct.
PublicInputsInStructOrder(hash, totalCost) ==
  <<Rates.sms, Rates.voice, Rates.data, totalCost, hash>>

PublicInputs(hash, totalCost) == <<Rates.sms, Rates.data, Rates.voice, totalCost, hash>>

TerminateRoamingSession(id, totalCost) ==
  LET s == sessions[id]
      refund == s.estimatedCost - totalCost IN
  /\ s.status = PENDING
  /\ s.ueCDRHash # NoHash
  /\ totalCost <= s.estimatedCost
  /\ CDRCircuit(PublicInputs(s.ueCDRHash, totalCost))
  /\ Finalize(id, totalCost)
  /\ IF s.hmno = Mno1 THEN Payout(refund, totalCost) ELSE Payout(totalCost, refund)
  /\ UNCHANGED <<sessionCounter, nonces, ueRoamingSessions, startMsg, now, donated>>

\* The prices a caller may claim.
Costs == UNION {0 .. est : est \in Estimates}

Next ==
  \/ BaseNext
  \/ \E sender \in UEs, id \in SessionIds, hash \in Hashes : SubmitCDR(sender, id, hash)
  \/ \E id \in SessionIds, cost \in Costs : TerminateRoamingSession(id, cost)

Spec == Init /\ [][Next]_vars

\* The visited operator can always make the proof of a session that it served and
\* is paid only for it, so it eventually terminates what can be terminated.
Fairness == \A id \in SessionIds :
  WF_vars(\E cost \in Costs : TerminateRoamingSession(id, cost))

FairSpec == Spec /\ Fairness

------------------------------------------------------------------------------

\* A settled session was charged the price of a record whose hash its user
\* committed, and no more than its own escrow.
ChargedAsCommitted ==
  \A id \in SessionIds : sessions[id].status = COMPLETED =>
    /\ sessions[id].actualCost <= sessions[id].estimatedCost
    /\ \E u \in Usages : /\ CDRHashOf[u] = sessions[id].ueCDRHash
                         /\ UsageCost(u) = sessions[id].actualCost

\* The contract implements the escrow it promises.
ImplementsEscrow == Promise!ESpec

\* Every session whose user committed a record within the escrow is settled for
\* its price, also after the agreement has expired.
CommittedIsSettled ==
  \A id \in SessionIds, u \in Usages :
    (/\ sessions[id].status = PENDING
     /\ sessions[id].ueCDRHash = CDRHashOf[u]
     /\ UsageCost(u) <= sessions[id].estimatedCost)
    ~> (sessions[id].status = COMPLETED /\ sessions[id].actualCost = UsageCost(u))
==============================================================================
