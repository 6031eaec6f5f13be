------------------------- MODULE AgreementCommitted_proofs -------------------------
(***************************************************************************)
(* What the two settlement paths guarantee in which users commit the hash  *)
(* of their record first (SubmitCDR): AgreementIndividual with a proof for *)
(* each session, and AgreementPlain with the record itself, alone or in    *)
(* batches of any length; for any number of users, sessions, records and   *)
(* prices.                                                                 *)
(***************************************************************************)
EXTENDS AgreementIndividual, AgreementPlain, AgreementBase_proofs

------------------------------------------------------------------------------
\* One proof per session.

IndividualInv == BaseInv /\ ChargedAsCommitted

\* A claimed cost is a number.
LEMMA CostsAreNumbers == Costs \subseteq Nat
BY DataAssumption DEF Costs

\* Terminating is one way of settling a session.
LEMMA ProvedSettlesOne ==
  ASSUME NEW id \in SessionIds, NEW cost \in Costs, TerminateRoamingSession(id, cost)
  PROVE  SettleOne(id, cost)
BY DEF TerminateRoamingSession, SettleOne

\* A proof that the circuit accepts is about a record of this price and hash.
LEMMA CircuitBindsCost ==
  ASSUME NEW hash, NEW cost \in Nat, CDRCircuit(PublicInputs(hash, cost))
  PROVE  \E u \in Usages : CDRHashOf[u] = hash /\ UsageCost(u) = cost
<1>1. PICK u \in Usages :
        /\ u.sms * Rates.sms + u.data * Rates.data + u.voice * Rates.voice = cost
        /\ CDRHashOf[u] = hash
  BY DEF CDRCircuit, PublicInputs
<1> DEFINE s == u.sms * Rates.sms
           v == u.voice * Rates.voice
           d == u.data * Rates.data
<1>2. s \in Int /\ v \in Int /\ d \in Int
  <2>1. ASSUME NEW a \in Nat, NEW b \in Nat PROVE a * b \in Int
    OBVIOUS
  <2> QED
    BY <2>1, DataAssumption
<1>3. ASSUME NEW a \in Int, NEW b \in Int, NEW c \in Int PROVE a + b + c = a + c + b
  OBVIOUS
<1> HIDE DEF s, v, d
<1>4. s + d + v = s + v + d
  BY <1>2, <1>3
<1>5. UsageCost(u) = cost
  BY <1>1, <1>4 DEF UsageCost, s, v, d
<1> QED
  BY <1>1, <1>5

\* What was settled as committed stays so when a step follows the session's life cycle
\* and settles nothing, or one session as committed.
LEMMA IndividualChargedPreserved ==
  ASSUME IndividualInv, BaseInv', SessionStep,
         NEW id, \A i \in SessionIds :
                   /\ sessions'[i].status = COMPLETED
                   /\ sessions[i].status # COMPLETED
                   => i = id,
         (id \in SessionIds /\ sessions'[id].status = COMPLETED) =>
           /\ sessions'[id].actualCost <= sessions'[id].estimatedCost
           /\ \E u \in Usages : /\ CDRHashOf[u] = sessions'[id].ueCDRHash
                                /\ UsageCost(u) = sessions'[id].actualCost
  PROVE  ChargedAsCommitted'
<1> SUFFICES ASSUME NEW i \in SessionIds, sessions'[i].status = COMPLETED
             PROVE  /\ sessions'[i].actualCost <= sessions'[i].estimatedCost
                    /\ \E u \in Usages : /\ CDRHashOf[u] = sessions'[i].ueCDRHash
                                         /\ UsageCost(u) = sessions'[i].actualCost
  BY DEF ChargedAsCommitted, UsageCost
<1>1. CASE sessions[i].status = COMPLETED
  BY <1>1 DEF SessionStep, IndividualInv, ChargedAsCommitted
<1>2. CASE sessions[i].status # COMPLETED
  BY <1>2
<1> QED
  BY <1>1, <1>2

------------------------------------------------------------------------------
\* Each step of the contract preserves the invariant and follows the life cycle of
\* every session.

\* The invariant holds initially: no session is settled.
LEMMA IndividualInit == Init => IndividualInv
<1> SUFFICES ASSUME Init PROVE IndividualInv
  OBVIOUS
<1>1. \A id \in SessionIds : sessions[id].status # COMPLETED
  BY DEF Init, NoSession, UNKNOWN, COMPLETED
<1> QED
  BY <1>1, BaseInit DEF IndividualInv, ChargedAsCommitted

\* Every step preserves the invariant and follows the life cycle.
LEMMA IndividualStep == IndividualInv /\ [Next]_vars => IndividualInv' /\ SessionStep
<1> SUFFICES ASSUME IndividualInv, [Next]_vars PROVE IndividualInv' /\ SessionStep
  OBVIOUS
<1>1. BaseInv
  BY DEF IndividualInv
\* A step that leaves every settled session as it was leaves the charges as they were.
<1>2. ASSUME BaseInv', SessionStep,
             \A i \in SessionIds : sessions'[i].status = COMPLETED => sessions'[i] = sessions[i]
      PROVE  IndividualInv' /\ SessionStep
  <2>1. ChargedAsCommitted'
    BY <1>2 DEF IndividualInv, ChargedAsCommitted, UsageCost
  <2> QED
    BY <1>2, <2>1 DEF IndividualInv
<1>3. CASE BaseNext
  BY <1>1, <1>2, <1>3, BaseNextPreserves
<1>4. ASSUME NEW sender \in UEs, NEW id \in SessionIds, NEW hash \in Hashes,
             SubmitCDR(sender, id, hash)
      PROVE  IndividualInv' /\ SessionStep
  BY <1>1, <1>2, <1>4, SubmitCDRPreserves, SubmitKeepsSessions
<1>5. ASSUME NEW id \in SessionIds, NEW cost \in Costs, TerminateRoamingSession(id, cost)
      PROVE  IndividualInv' /\ SessionStep
  <2>1. cost \in Nat /\ SettleOne(id, cost)
    BY <1>5, CostsAreNumbers, ProvedSettlesOne
  <2>2. BaseInv'
    BY <1>1, <2>1, SettleOnePreserves
  <2>3. /\ SessionStep
        /\ \A i \in SessionIds : i # id => sessions'[i] = sessions[i]
        /\ sessions'[id].actualCost = cost
        /\ sessions'[id].estimatedCost = sessions[id].estimatedCost
        /\ sessions'[id].ueCDRHash = sessions[id].ueCDRHash
    BY <1>1, <2>1, SettleKeepsSessions
  <2>4. \E u \in Usages : CDRHashOf[u] = sessions[id].ueCDRHash /\ UsageCost(u) = cost
    BY <1>5, <2>1, CircuitBindsCost DEF TerminateRoamingSession
  <2>5. cost <= sessions[id].estimatedCost
    BY <2>1 DEF SettleOne
  <2>6. ChargedAsCommitted'
    BY <2>2, <2>3, <2>4, <2>5, IndividualChargedPreserved
  <2> QED
    BY <2>2, <2>3, <2>6 DEF IndividualInv
<1>6. CASE UNCHANGED vars
  BY <1>1, <1>2, <1>6, StutterKeepsSessions
<1> QED
  BY <1>3, <1>4, <1>5, <1>6 DEF Next

------------------------------------------------------------------------------

\* The invariant holds in every reachable state.
LEMMA IndividualInvariant == Spec => []IndividualInv
<1>1. IndividualInv /\ [Next]_vars => IndividualInv'
  BY IndividualStep
<1> QED
  BY <1>1, IndividualInit, PTL DEF Spec

\* The variables keep their types; in particular no balance goes below zero.
THEOREM IndividualTypeCorrect == Spec => []TypeOK
<1>1. IndividualInv => TypeOK
  BY DEF IndividualInv, BaseInv
<1> QED
  BY <1>1, IndividualInvariant, PTL

\* The contract always holds the escrow of every pending session, whatever was settled
\* before (_transferFunds and the payouts of terminateRoamingSession).
THEOREM IndividualSolvent == Spec => []Solvent
<1>1. IndividualInv => Solvent
  BY DEF IndividualInv, BaseInv
<1> QED
  BY <1>1, IndividualInvariant, PTL

\* Looking at a user's latest session only, startRoamingSession keeps every user in at
\* most one pending session.
THEOREM IndividualOneActiveSession == Spec => []OneActivePerUE
<1>1. IndividualInv => OneActivePerUE
  BY DEF IndividualInv, BaseInv, ActiveIsLatest, OneActivePerUE
<1> QED
  BY <1>1, IndividualInvariant, PTL

\* The nonce check makes a signed start message good for one session.
THEOREM IndividualNoReplay == Spec => []MessageStartsOneSession
<1>1. IndividualInv => MessageStartsOneSession
  BY DEF IndividualInv, BaseInv
<1> QED
  BY <1>1, IndividualInvariant, PTL

\* The order of the public inputs and the checks before the proof make every charge the
\* price of a record whose hash the user committed, within the session's escrow.
THEOREM IndividualCharged == Spec => []ChargedAsCommitted
<1>1. IndividualInv => ChargedAsCommitted
  BY DEF IndividualInv
<1> QED
  BY <1>1, IndividualInvariant, PTL

\* A session is settled at most once and its commitment is never replaced.
THEOREM IndividualLifecycle == Spec => SessionLifecycle
<1>1. IndividualInv /\ [Next]_vars => [SessionStep]_vars
  BY IndividualStep
<1> QED
  BY <1>1, IndividualInvariant, PTL DEF Spec, SessionLifecycle

------------------------------------------------------------------------------
\* The contract implements the escrow that RoamingEscrow promises.

\* Every step of the contract is a step of the promised escrow, or not seen there.
LEMMA IndividualStepRefines ==
  IndividualInv /\ [Next]_vars => [Promise!ENext]_(<<LedgerView, bal>>)
<1> SUFFICES ASSUME BaseInv, [Next]_vars
             PROVE  Promise!ENext \/ UNCHANGED <<LedgerView, bal>>
  BY DEF IndividualInv
<1>1. ASSUME NEW id \in SessionIds, NEW cost \in Costs, TerminateRoamingSession(id, cost)
      PROVE  Promise!ENext
  BY <1>1, CostsAreNumbers, ProvedSettlesOne, SettleOneSettles
<1> QED
  BY <1>1, BaseNextRefines, SubmitCDRStutters, StutterRefines DEF Next

\* The individual contract implements the escrow that RoamingEscrow promises: money
\* leaves escrow only for the two operators, once per session, in the shares its cost
\* gives, and no user has two open sessions.
THEOREM IndividualImplementsEscrow == Spec => ImplementsEscrow
<1>1. IndividualInv /\ [Next]_vars => [Promise!ENext]_(Promise!evars)
  BY IndividualStepRefines DEF Promise!evars
<1> QED
  BY <1>1, InitRefines, IndividualInvariant, PTL DEF Spec, ImplementsEscrow, Promise!ESpec

------------------------------------------------------------------------------
\* Records in clear, alone or in batches.

\* What a settled session was charged.
ChargedFor(s) ==
  /\ s.actualCost <= s.estimatedCost
  /\ \E u \in Usages : CDRHashOf[u] = s.ueCDRHash /\ UsageCost(u) = s.actualCost

PlainInv == BaseInv /\ ChargedAsRecorded

\* The price of a record is a number.
LEMMA PricesAreNumbers == \A u \in Usages : UsageCost(u) \in Nat
<1>1. ASSUME NEW u \in Usages PROVE UsageCost(u) \in Nat
  <2>1. ASSUME NEW a \in Nat, NEW b \in Nat PROVE a * b \in Nat
    OBVIOUS
  <2>2. u.sms * Rates.sms \in Nat /\ u.voice * Rates.voice \in Nat /\ u.data * Rates.data \in Nat
    BY <2>1, DataAssumption
  <2>3. ASSUME NEW a \in Nat, NEW b \in Nat, NEW c \in Nat PROVE a + b + c \in Nat
    OBVIOUS
  <2> QED
    BY <2>2, <2>3 DEF UsageCost
<1> QED
  BY <1>1

\* The invariant in terms of what each settled session was charged.
LEMMA ChargedMeans ==
  ChargedAsRecorded <=>
    \A id \in SessionIds : sessions[id].status = COMPLETED => ChargedFor(sessions[id])
BY DEF ChargedAsRecorded, ChargedFor

\* A matching record makes what is settled for its price charged for it.
LEMMA MatchedIsCharged ==
  ASSUME NEW s \in Session, NEW cdr \in Usages, CDRHashOf[cdr] = s.ueCDRHash,
         UsageCost(cdr) <= s.estimatedCost
  PROVE  ChargedFor(Settled(s, UsageCost(cdr)))
<1> DEFINE t == Settled(s, UsageCost(cdr))
<1>1. /\ t.actualCost = UsageCost(cdr) /\ t.estimatedCost = s.estimatedCost
      /\ t.ueCDRHash = s.ueCDRHash
  BY PricesAreNumbers, SettledFields
<1> HIDE DEF t
<1>2. ChargedFor(t)
  BY <1>1 DEF ChargedFor
<1> QED
  BY <1>2 DEF t

\* Terminating one session is one way of settling it.
LEMMA RecordSettlesOne ==
  ASSUME NEW id \in SessionIds, NEW cdr \in Usages, TerminateWithRecord(id, cdr)
  PROVE  SettleOne(id, UsageCost(cdr)) /\ UsageCost(cdr) \in Nat
BY PricesAreNumbers DEF TerminateWithRecord, SettleOne

\* The prices of the records of a batch.
Prices(n, cdrs) == [i \in 1 .. n |-> UsageCost(cdrs[i])]

\* A settled batch of records is a settled batch of their prices.
LEMMA BatchOfPrices ==
  ASSUME NEW n \in Nat, NEW ids \in [1 .. n -> SessionIds], NEW cdrs \in [1 .. n -> Usages],
         SettleBatch(ids, cdrs)
  PROVE  /\ \A i \in 1 .. n : Prices(n, cdrs)[i] = UsageCost(cdrs[i])
         /\ \A i \in 1 .. n : Prices(n, cdrs)[i] \in Nat
         /\ \A i \in 1 .. n : CDRHashOf[cdrs[i]] = sessions[ids[i]].ueCDRHash
         /\ SettleBatchOf(ids, Prices(n, cdrs)) /\ SettleSessions(ids, Prices(n, cdrs))
<1>1. DOMAIN ids = 1 .. n
  OBVIOUS
<1> QED
  BY <1>1, PricesAreNumbers DEF SettleBatch, SettleBatchOf, Prices, MatchesCommitment

------------------------------------------------------------------------------

\* Initially no session is settled.
LEMMA PlainInit == Init => PlainInv
<1> SUFFICES ASSUME Init PROVE PlainInv
  OBVIOUS
<1>1. \A id \in SessionIds : sessions[id].status # COMPLETED
  BY DEF Init, NoSession, UNKNOWN, COMPLETED
<1> QED
  BY <1>1, BaseInit DEF PlainInv, ChargedAsRecorded

\* Every step preserves the invariant and follows the life cycle of every session.
LEMMA PlainStep == PlainInv /\ [PlainNext]_vars => PlainInv' /\ SessionStep
<1> SUFFICES ASSUME PlainInv, [PlainNext]_vars PROVE PlainInv' /\ SessionStep
  OBVIOUS
<1>1. BaseInv /\ TypeOK
  BY DEF PlainInv, BaseInv
\* It is enough to look at the sessions that a step settles.
<1>2. ASSUME BaseInv', SessionStep,
             \A i \in SessionIds : sessions'[i].status = COMPLETED =>
               sessions'[i] = sessions[i] \/ ChargedFor(sessions'[i])
      PROVE  PlainInv' /\ SessionStep
  <2>1. \A i \in SessionIds : sessions'[i].status = COMPLETED => ChargedFor(sessions'[i])
    BY <1>2, ChargedMeans DEF PlainInv
  <2>2. ChargedAsRecorded'
    BY <2>1 DEF ChargedAsRecorded, ChargedFor, UsageCost
  <2> QED
    BY <1>2, <2>2 DEF PlainInv
<1>3. CASE BaseNext
  BY <1>1, <1>2, <1>3, BaseNextPreserves
<1>4. ASSUME NEW sender \in UEs, NEW id \in SessionIds, NEW hash \in Hashes,
             SubmitCDR(sender, id, hash)
      PROVE  PlainInv' /\ SessionStep
  BY <1>1, <1>2, <1>4, SubmitCDRPreserves, SubmitKeepsSessions
<1>5. ASSUME NEW id \in SessionIds, NEW cdr \in Usages, TerminateWithRecord(id, cdr)
      PROVE  PlainInv' /\ SessionStep
  <2>1. SettleOne(id, UsageCost(cdr)) /\ UsageCost(cdr) \in Nat
    BY <1>5, RecordSettlesOne
  <2>2. BaseInv' /\ SessionStep /\ \A i \in SessionIds : i # id => sessions'[i] = sessions[i]
    BY <1>1, <2>1, SettleOnePreserves, SettleKeepsSessions
  <2>3. /\ CDRHashOf[cdr] = sessions[id].ueCDRHash
        /\ UsageCost(cdr) <= sessions[id].estimatedCost
    BY <1>5 DEF TerminateWithRecord, MatchesCommitment
  <2>4. ChargedFor(sessions'[id])
    <3>1. sessions[id] \in Session
      BY <1>1 DEF TypeOK
    <3>2. sessions'[id] = Settled(sessions[id], UsageCost(cdr))
      BY <1>1, <2>1 DEF SettleOne, Finalize, Settled, TypeOK, Session
    <3> QED
      BY <2>3, <3>1, <3>2, MatchedIsCharged
  <2> QED
    BY <1>2, <2>2, <2>4
<1>6. ASSUME NEW n \in 1 .. MaxBatch, NEW ids \in [1 .. n -> SessionIds],
             NEW cdrs \in [1 .. n -> Usages], SettleBatch(ids, cdrs)
      PROVE  PlainInv' /\ SessionStep
  <2> DEFINE costs == Prices(n, cdrs)
  <2>1. n \in Nat
    OBVIOUS
  <2>2. /\ \A i \in 1 .. n : costs[i] = UsageCost(cdrs[i])
        /\ \A i \in 1 .. n : CDRHashOf[cdrs[i]] = sessions[ids[i]].ueCDRHash
    BY <1>6, <2>1, BatchOfPrices
  <2>3. /\ \A i \in 1 .. n : costs[i] \in Nat
        /\ SettleBatchOf(ids, costs) /\ SettleSessions(ids, costs)
    BY <1>6, <2>1, BatchOfPrices
  <2> HIDE DEF costs
  <2>4. BaseInv' /\ SessionStep
    BY <1>1, <2>1, <2>3, BatchPreserves, BatchKeepsSessions
  <2>5. /\ \A i \in 1 .. n :
             /\ sessions[ids[i]] \in Session /\ sessions[ids[i]].status = PENDING
             /\ costs[i] <= sessions[ids[i]].estimatedCost
             /\ sessions'[ids[i]] = Settled(sessions[ids[i]], costs[i])
        /\ \A id \in SessionIds :
             (\A i \in 1 .. n : ids[i] # id) => sessions'[id] = sessions[id]
    BY <1>1, <2>1, <2>3, BatchEffect, SMTT(30)
  <2>6. \A i \in 1 .. n : ChargedFor(sessions'[ids[i]])
    BY <2>2, <2>5, MatchedIsCharged
  <2> QED
    BY <1>2, <2>4, <2>5, <2>6
<1>7. CASE UNCHANGED vars
  BY <1>1, <1>2, <1>7, StutterKeepsSessions
<1> QED
  BY <1>3, <1>4, <1>5, <1>6, <1>7 DEF PlainNext

\* The invariant holds in every reachable state.
LEMMA PlainInvariant == PlainSpec => []PlainInv
<1>1. PlainInv /\ [PlainNext]_vars => PlainInv'
  BY PlainStep
<1> QED
  BY <1>1, PlainInit, PTL DEF PlainSpec

------------------------------------------------------------------------------

\* The variables keep their types; in particular no payment takes a balance below zero.
THEOREM PlainTypeCorrect == PlainSpec => []TypeOK
<1>1. PlainInv => TypeOK
  BY DEF PlainInv, BaseInv
<1> QED
  BY <1>1, PlainInvariant, PTL

\* However the sessions are put into batches, the contract holds exactly the escrow of
\* the sessions still pending (the two netted transfers of settleBatch).
THEOREM PlainSolvent == PlainSpec => []Solvent
<1>1. PlainInv => Solvent
  BY DEF PlainInv, BaseInv
<1> QED
  BY <1>1, PlainInvariant, PTL

\* The guard of startRoamingSession keeps every user in at most one pending session also
\* when sessions are settled in batches.
THEOREM PlainOneActiveSession == PlainSpec => []OneActivePerUE
<1>1. PlainInv => OneActivePerUE
  BY DEF PlainInv, BaseInv, ActiveIsLatest, OneActivePerUE
<1> QED
  BY <1>1, PlainInvariant, PTL

\* Alone or in a batch, a session is charged the price of the record its user committed,
\* within its own escrow (the checks in the loop of settleBatch, on amounts that are
\* transferred after it).
THEOREM PlainCharged == PlainSpec => []ChargedAsRecorded
<1>1. PlainInv => ChargedAsRecorded
  BY DEF PlainInv
<1> QED
  BY <1>1, PlainInvariant, PTL

\* A batch settles no session a second time and replaces no commitment.
THEOREM PlainLifecycle == PlainSpec => SessionLifecycle
<1>1. PlainInv /\ [PlainNext]_vars => [SessionStep]_vars
  BY PlainStep
<1> QED
  BY <1>1, PlainInvariant, PTL DEF PlainSpec, SessionLifecycle

\* Every step of the contract is a step of the promised escrow, or not seen there.
LEMMA PlainStepRefines ==
  PlainInv /\ [PlainNext]_vars => [Promise!ENext]_(<<LedgerView, bal>>)
<1> SUFFICES ASSUME BaseInv, [PlainNext]_vars
             PROVE  Promise!ENext \/ UNCHANGED <<LedgerView, bal>>
  BY DEF PlainInv
<1>1. ASSUME NEW id \in SessionIds, NEW cdr \in Usages, TerminateWithRecord(id, cdr)
      PROVE  Promise!ENext
  BY <1>1, RecordSettlesOne, SettleOneSettles
<1>2. ASSUME NEW n \in 1 .. MaxBatch, NEW ids \in [1 .. n -> SessionIds],
             NEW cdrs \in [1 .. n -> Usages], SettleBatch(ids, cdrs)
      PROVE  Promise!ENext
  <2>1. n \in Nat /\ n \in Nat \ {0}
    BY MaxBatchAssumption
  <2>2. /\ \A i \in 1 .. n : Prices(n, cdrs)[i] \in Nat
        /\ SettleSessions(ids, Prices(n, cdrs))
    BY <1>2, <2>1, BatchOfPrices
  <2> QED
    BY <2>1, <2>2, BatchSettles
<1> QED
  BY <1>1, <1>2, BaseNextRefines, SubmitCDRStutters, StutterRefines DEF PlainNext

\* Batches of any length, and their netting, implement the escrow that RoamingEscrow
\* promises: a batch is one step there that settles all its sessions, each once, and gives
\* the operators their shares.
THEOREM PlainImplementsEscrow == PlainSpec => BatchImplementsEscrow
<1>1. PlainInv /\ [PlainNext]_vars => [Promise!ENext]_(Promise!evars)
  BY PlainStepRefines DEF Promise!evars
<1> QED
  BY <1>1, InitRefines, PlainInvariant, PTL DEF PlainSpec, BatchImplementsEscrow, Promise!ESpec
====================================================================================
