---------------------------- MODULE AgreementPlain ----------------------------
(***************************************************************************)
(* experiments/contracts/AgreementPlain.sol: the record itself goes on     *)
(* chain.  The contract compares its hash with the one the user committed  *)
(* and computes the price; sessions are settled one by one or in batches   *)
(* that net the two operators' claims into two transfers.                  *)
(***************************************************************************)
EXTENDS AgreementBase

CONSTANT MaxBatch   \* bound: sessions in a batch

ASSUME MaxBatchAssumption == MaxBatch \in Nat

\* Mutant: the record's hash is not compared with the committed one.
AnyRecordMatches(id, cdr) == sessions[id].ueCDRHash # NoHash

\* The record is the one the user committed.
MatchesCommitment(id, cdr) ==
  /\ sessions[id].ueCDRHash # NoHash
  /\ CDRHashOf[cdr] = sessions[id].ueCDRHash

\* terminateRoamingSession
TerminateWithRecord(id, cdr) ==
  LET s == sessions[id]
      cost == UsageCost(cdr)
      refund == s.estimatedCost - cost IN
  /\ s.status = PENDING
  /\ MatchesCommitment(id, cdr)
  /\ cost <= s.estimatedCost
  /\ Finalize(id, cost)
  /\ IF s.hmno = Mno1 THEN Payout(refund, cost) ELSE Payout(cost, refund)
  /\ UNCHANGED <<sessionCounter, nonces, ueRoamingSessions, startMsg, now, donated>>

\* One transaction for the sessions ids[1], ids[2], ... with their records.  Any
\* entry that is refused reverts the whole batch.
SettleBatch(ids, cdrs) ==
  /\ ids # <<>>
  /\ Len(cdrs) = Len(ids)
  /\ \A i \in DOMAIN ids : MatchesCommitment(ids[i], cdrs[i])
  /\ SettleSessions(ids, [i \in DOMAIN ids |-> UsageCost(cdrs[i])])
  /\ UNCHANGED <<sessionCounter, nonces, ueRoamingSessions, startMsg, now, donated>>

PlainNext ==
  \/ BaseNext
  \/ \E sender \in UEs, id \in SessionIds, hash \in Hashes : SubmitCDR(sender, id, hash)
  \/ \E id \in SessionIds, cdr \in Usages : TerminateWithRecord(id, cdr)
  \/ \E n \in 1 .. MaxBatch :
       \E ids \in [1 .. n -> SessionIds], cdrs \in [1 .. n -> Usages] : SettleBatch(ids, cdrs)

PlainSpec == Init /\ [][PlainNext]_vars

\* The settler keeps submitting batches as long as one would succeed; nobody is
\* obliged to settle a session by itself.
PlainFairness ==
  WF_vars(\E n \in 1 .. MaxBatch :
            \E ids \in [1 .. n -> SessionIds], cdrs \in [1 .. n -> Usages] :
              SettleBatch(ids, cdrs))

PlainFairSpec == PlainSpec /\ PlainFairness

------------------------------------------------------------------------------

\* A settled session was charged the price of the record its user committed, alone
\* or in a batch, and no more than its own escrow.
ChargedAsRecorded ==
  \A id \in SessionIds : sessions[id].status = COMPLETED =>
    /\ sessions[id].actualCost <= sessions[id].estimatedCost
    /\ \E u \in Usages : /\ CDRHashOf[u] = sessions[id].ueCDRHash
                         /\ UsageCost(u) = sessions[id].actualCost

\* Netting is invisible: a batch pays each operator what settling its sessions one by
\* one would have paid, and the contract implements the escrow it promises.
BatchImplementsEscrow == Promise!ESpec

\* Batches alone settle every session that can be settled, although one refused entry
\* reverts all of its batch.
BatchesSettleAll ==
  \A id \in SessionIds, u \in Usages :
    (/\ sessions[id].status = PENDING
     /\ sessions[id].ueCDRHash = CDRHashOf[u]
     /\ UsageCost(u) <= sessions[id].estimatedCost)
    ~> sessions[id].status = COMPLETED
==============================================================================
