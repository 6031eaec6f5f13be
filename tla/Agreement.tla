------------------------------- MODULE Agreement -------------------------------
(***************************************************************************)
(* contracts/Agreement.sol, the first version of the agreement.  It keeps  *)
(* the tables of AgreementBase; this module states the calls that differ:  *)
(* the session rule at the start, a hash without conditions, and the order *)
(* in which a termination passes the public signals.                       *)
(***************************************************************************)
EXTENDS AgreementBase

\* The circuit that the verifier contract was generated from.
Proof == INSTANCE AgreementIndividual

StatusAt(id) == IF id \in SessionIds THEN sessions[id].status ELSE UNKNOWN

\* The status that is read is that of the id before the user's latest session.
NoOngoingSessionBefore(ue) ==
  LET last == LatestRoamingSession(ue) IN
  last # 0 => StatusAt(last - 1) \in {UNKNOWN, COMPLETED}

StartFirstVersion(ue, est, nonce, hmno, received) ==
  /\ ValidStart(ue, est)
  /\ NoOngoingSessionBefore(ue)
  /\ EnterSession(ue, est, nonce, hmno, received)

\* Neither the status nor the hash is looked at: the zero hash may be handed in.
SubmitAnyCDR(sender, id, hash) ==
  /\ sender = sessions[id].ueAddress
  /\ sessions[id].ueCDRHash = NoHash
  /\ sessions' = [sessions EXCEPT ![id].ueCDRHash = hash]
  /\ UNCHANGED <<sessionCounter, nonces, ueRoamingSessions, startMsg, bal, now, donated>>

CostFirst(hash, totalCost) == <<totalCost, hash, Rates.sms, Rates.data, Rates.voice>>

TerminateFirstVersion(id, totalCost) ==
  LET s == sessions[id]
      refund == s.estimatedCost - totalCost IN
  /\ s.status = PENDING
  /\ s.ueCDRHash # NoHash
  /\ Proof!CDRCircuit(CostFirst(s.ueCDRHash, totalCost))
  /\ totalCost <= s.estimatedCost
  /\ IF s.hmno = Mno1 THEN Payout(refund, totalCost) ELSE Payout(totalCost, refund)
  /\ Finalize(id, totalCost)
  /\ UNCHANGED <<sessionCounter, nonces, ueRoamingSessions, startMsg, now, donated>>

Next ==
  \/ \E ue \in UEs \cup {NoAddress}, hmno \in Signers, est \in Estimates,
        nonce \in 0 .. MaxSessions :
       \E received \in 0 .. est : StartFirstVersion(ue, est, nonce, hmno, received)
  \/ \E sender \in UEs, id \in SessionIds, hash \in Hashes : SubmitAnyCDR(sender, id, hash)
  \/ \E id \in SessionIds, cost \in Proof!Costs : TerminateFirstVersion(id, cost)
  \/ \E from \in Signers, amount \in 1 .. MaxDonation : Donate(from, amount)
  \/ Tick

Spec == Init /\ [][Next]_vars

------------------------------------------------------------------------------

\* The user in an "Ongoing active session" cannot start another one (the message of
\* the require in Agreement.sol:106).
OneOngoingSession == OneActivePerUE
================================================================================
