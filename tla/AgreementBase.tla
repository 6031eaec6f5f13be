---------------------------- MODULE AgreementBase ----------------------------
(***************************************************************************)
(* experiments/contracts/AgreementBase.sol: the agreement between two      *)
(* operators, the start of a session with its escrow, and the session      *)
(* table, which the individual, plain and aggregate settlement contracts   *)
(* inherit.  A transaction is atomic: an action is a call that succeeds, a *)
(* `require` or `revert` is a guard, a call that fails changes nothing.    *)
(*                                                                         *)
(* Signed messages are abstracted to their content: any message that some  *)
(* signer may have signed can be submitted by anyone, in any order and any *)
(* number of times.  The token is a plain ERC-20 without callbacks, whose  *)
(* transferFrom may keep a fee.                                            *)
(***************************************************************************)
EXTENDS TokenSums, Sequences

CONSTANTS
  UEs,            \* user equipments (their addresses)
  Signers,        \* accounts that sign session starts, the operators among them
  Mno1, Mno2,     \* the two operators
  Self,           \* the contract's own account
  NoAddress,      \* address(0)
  Rates,          \* [sms, voice, data]: prices per unit
  Usages,         \* charging data records: [sms, voice, data, session]
  CDRHashOf,      \* hash of each record
  Hashes,         \* the 32-byte hashes a user may hand in, as numbers
  InitialFunds,   \* tokens of each signer at deployment
  Estimates,      \* estimated costs a start may carry
  Expiry,         \* time at which the agreement expires
  MaxSessions,    \* bound: sessions started
  MaxTime,        \* bound: the clock
  MaxDonation     \* bound: tokens sent to the contract outside a session

UNKNOWN == "UNKNOWN"
PENDING == "PENDING"
COMPLETED == "COMPLETED"
NoHash == 0       \* bytes32(0)

SessionIds == 1 .. MaxSessions
Mnos == {Mno1, Mno2}
Accounts == Signers \cup {Self}

UsageCost(u) == u.sms * Rates.sms + u.voice * Rates.voice + u.data * Rates.data

ASSUME ConstructorChecks ==
  /\ Mno1 # Mno2
  /\ Mnos \subseteq Signers
  /\ Self \notin Signers
  /\ NoAddress \notin Signers \cup UEs
  /\ Expiry \in Nat \ {0}

ASSUME DataAssumption ==
  /\ InitialFunds \in [Signers -> Nat]
  /\ Estimates \subseteq Nat
  /\ Rates \in [sms : Nat, voice : Nat, data : Nat]
  /\ \A u \in Usages : u.sms \in Nat /\ u.voice \in Nat /\ u.data \in Nat

\* The hash is collision resistant, and no record hashes to zero.
ASSUME HashAssumption ==
  /\ Hashes \subseteq Nat
  /\ CDRHashOf \in [Usages -> Hashes \ {NoHash}]
  /\ \A u, v \in Usages : CDRHashOf[u] = CDRHashOf[v] => u = v

ASSUME BoundsAssumption ==
  MaxSessions \in Nat /\ MaxTime \in Nat /\ MaxDonation \in Nat

VARIABLES
  sessions,           \* the session table: ids are 1, 2, ...
  sessionCounter,     \* id of the latest session
  nonces,             \* next nonce of each signer
  ueRoamingSessions,  \* ids of each user's sessions, oldest first
  bal,                \* token balances
  now,                \* block.timestamp
  startMsg,           \* history: the signed message that started each session
  donated             \* history: tokens the contract was sent outside a session

bookVars == <<sessions, sessionCounter, nonces, ueRoamingSessions, startMsg>>
vars == <<bookVars, bal, now, donated>>

Session == [ueAddress : UEs \cup {NoAddress}, hmno : Signers \cup {NoAddress},
            estimatedCost : Nat, actualCost : Nat, ueCDRHash : Hashes \cup {NoHash},
            status : {UNKNOWN, PENDING, COMPLETED}]

NoSession == [ueAddress |-> NoAddress, hmno |-> NoAddress, estimatedCost |-> 0,
              actualCost |-> 0, ueCDRHash |-> NoHash, status |-> UNKNOWN]

StartMessage == [hmno : Signers, ue : UEs \cup {NoAddress}, est : Nat, nonce : Nat]
NoMessage == [hmno |-> NoAddress]

\* The types of the tables.
TypeOK ==
  /\ sessions \in [SessionIds -> Session]
  /\ sessionCounter \in 0 .. MaxSessions
  /\ nonces \in [Signers -> Nat]
  /\ ueRoamingSessions \in [UEs -> Seq(SessionIds)]
  /\ bal \in [Accounts -> Nat]
  /\ now \in Nat
  /\ startMsg \in [SessionIds -> StartMessage \cup {NoMessage}]
  /\ donated \in Nat

Init ==
  /\ sessions = [id \in SessionIds |-> NoSession]
  /\ sessionCounter = 0
  /\ nonces = [s \in Signers |-> 0]
  /\ ueRoamingSessions = [ue \in UEs |-> <<>>]
  /\ bal = [a \in Accounts |-> IF a = Self THEN 0 ELSE InitialFunds[a]]
  /\ now = 0
  /\ startMsg = [id \in SessionIds |-> NoMessage]
  /\ donated = 0

------------------------------------------------------------------------------
\* Reading the tables.

\* Mutant: the id before the user's latest one, as contracts/Agreement.sol reads it.
LatestMinusOne(ue) ==
  LET ids == ueRoamingSessions[ue] IN IF ids = <<>> THEN 0 ELSE ids[Len(ids)] - 1

LatestRoamingSession(ue) ==
  LET ids == ueRoamingSessions[ue] IN IF ids = <<>> THEN 0 ELSE ids[Len(ids)]

ActiveSessions == {id \in SessionIds : sessions[id].status = PENDING}

Estimated == [id \in SessionIds |-> sessions[id].estimatedCost]

IsValidHMNO(a) == a \in {Mno1, Mno2}

------------------------------------------------------------------------------
\* Steps.

\* Mutant: the nonce is compared and not spent.
NonceNotSpent(hmno, nonce) == nonces[hmno] = nonce /\ UNCHANGED nonces

SpendNonce(hmno, nonce) ==
  /\ nonces[hmno] = nonce
  /\ nonces' = [nonces EXCEPT ![hmno] = @ + 1]

\* Mutant: what arrived is not compared with what was asked.
TransferUnverified(from, amount, received) ==
  /\ amount <= bal[from]
  /\ bal' = [bal EXCEPT ![from] = @ - amount, ![Self] = @ + received]

\* The token moves `amount` out of the payer and `received` of it arrives; the
\* contract compares its own balance before and after.
TransferFunds(from, amount, received) ==
  /\ amount <= bal[from]
  /\ received = amount
  /\ bal' = [bal EXCEPT ![from] = @ - amount, ![Self] = @ + received]

ValidStart(ue, est) == now < Expiry /\ ue # NoAddress /\ est > 0

\* "One active session per UE": the user's latest session is settled.
NoOngoingSession(ue) ==
  LatestRoamingSession(ue) # 0 =>
    sessions[LatestRoamingSession(ue)].status = COMPLETED

\* A new session for ue, on a message that hmno signed, with its escrow.
EnterSession(ue, est, nonce, hmno, received) ==
  /\ sessionCounter < MaxSessions
  /\ IsValidHMNO(hmno)
  /\ SpendNonce(hmno, nonce)
  /\ TransferFunds(hmno, est, received)
  /\ sessionCounter' = sessionCounter + 1
  /\ ueRoamingSessions' = [ueRoamingSessions EXCEPT ![ue] = Append(@, sessionCounter')]
  /\ sessions' = [sessions EXCEPT ![sessionCounter'] =
       [NoSession EXCEPT !.ueAddress = ue, !.hmno = hmno, !.estimatedCost = est,
                         !.status = PENDING]]
  /\ startMsg' = [startMsg EXCEPT ![sessionCounter'] =
       [hmno |-> hmno, ue |-> ue, est |-> est, nonce |-> nonce]]
  /\ UNCHANGED <<now, donated>>

StartRoamingSession(ue, est, nonce, hmno, received) ==
  /\ ValidStart(ue, est)
  /\ NoOngoingSession(ue)
  /\ EnterSession(ue, est, nonce, hmno, received)

\* Mutant: a second hash replaces the first.
SubmitCDRAgain(sender, id, hash) ==
  /\ sender = sessions[id].ueAddress
  /\ sessions[id].status = PENDING
  /\ hash # NoHash
  /\ sessions' = [sessions EXCEPT ![id].ueCDRHash = hash]
  /\ UNCHANGED <<sessionCounter, nonces, ueRoamingSessions, startMsg, bal, now, donated>>

\* The user commits to the hash of the session's record, once.
SubmitCDR(sender, id, hash) ==
  /\ sender = sessions[id].ueAddress
  /\ sessions[id].status = PENDING
  /\ hash # NoHash
  /\ sessions[id].ueCDRHash = NoHash
  /\ sessions' = [sessions EXCEPT ![id].ueCDRHash = hash]
  /\ UNCHANGED <<sessionCounter, nonces, ueRoamingSessions, startMsg, bal, now, donated>>

\* The only write that takes a session out of PENDING.
Finalize(id, cost) ==
  sessions' = [sessions EXCEPT ![id].actualCost = cost, ![id].status = COMPLETED]

\* Mutant: each operator receives what the other is due.
PayoutCrossed(due1, due2) ==
  /\ due1 + due2 <= bal[Self]
  /\ bal' = [bal EXCEPT ![Mno1] = @ + due2, ![Mno2] = @ + due1,
                        ![Self] = @ - (due1 + due2)]

\* Transfers out of the contract; the token refuses what the balance does not cover.
Payout(due1, due2) ==
  /\ due1 + due2 <= bal[Self]
  /\ bal' = [bal EXCEPT ![Mno1] = @ + due1, ![Mno2] = @ + due2,
                        ![Self] = @ - (due1 + due2)]

\* Mutant: a batch that names a session twice is accepted.
SettleableWithDuplicates(ids, costs) ==
  \A i \in DOMAIN ids :
    /\ sessions[ids[i]].status = PENDING
    /\ costs[i] <= sessions[ids[i]].estimatedCost

\* Mutant: a session may not use up its escrow.
SettleableBelowEscrow(ids, costs) ==
  \A i \in DOMAIN ids :
    /\ sessions[ids[i]].status = PENDING
    /\ \A j \in 1 .. i - 1 : ids[j] # ids[i]
    /\ costs[i] < sessions[ids[i]].estimatedCost

\* The loop over a batch: an entry finds its session PENDING, hence not finalized by
\* an earlier entry, and its cost within that session's own escrow.
Settleable(ids, costs) ==
  \A i \in DOMAIN ids :
    /\ sessions[ids[i]].status = PENDING
    /\ \A j \in 1 .. i - 1 : ids[j] # ids[i]
    /\ costs[i] <= sessions[ids[i]].estimatedCost

\* Mutant: every session of the batch is taken to be at home with Mno1.
DueOfOneHome(m, ids, costs) ==
  Total(DOMAIN ids,
        [i \in DOMAIN ids |-> IF m = Mno1 THEN sessions[ids[i]].estimatedCost - costs[i]
                              ELSE costs[i]])

\* What the loop adds up for an operator: the refund of a session it is home to, the
\* cost of a session it was visited by.
Due(m, ids, costs) ==
  Total(DOMAIN ids,
        [i \in DOMAIN ids |-> IF sessions[ids[i]].hmno = m
                              THEN sessions[ids[i]].estimatedCost - costs[i]
                              ELSE costs[i]])

\* Settle the sessions of a batch and pay the two netted sums.
SettleSessions(ids, costs) ==
  /\ Settleable(ids, costs)
  /\ sessions' = [id \in SessionIds |->
       IF \E i \in DOMAIN ids : ids[i] = id
       THEN LET i == CHOOSE i \in DOMAIN ids : ids[i] = id
            IN [sessions[id] EXCEPT !.actualCost = costs[i], !.status = COMPLETED]
       ELSE sessions[id]]
  /\ Payout(Due(Mno1, ids, costs), Due(Mno2, ids, costs))

Tick ==
  /\ now < MaxTime
  /\ now' = now + 1
  /\ UNCHANGED <<bookVars, bal, donated>>

\* A token transfer to the contract outside startRoamingSession.
Donate(from, amount) ==
  /\ amount <= bal[from]
  /\ donated + amount <= MaxDonation
  /\ bal' = [bal EXCEPT ![from] = @ - amount, ![Self] = @ + amount]
  /\ donated' = donated + amount
  /\ UNCHANGED <<bookVars, now>>

\* Steps that every settlement contract has.
BaseNext ==
  \/ \E ue \in UEs \cup {NoAddress}, hmno \in Signers, est \in Estimates,
        nonce \in 0 .. MaxSessions :
       \E received \in 0 .. est : StartRoamingSession(ue, est, nonce, hmno, received)
  \/ \E from \in Signers, amount \in 1 .. MaxDonation : Donate(from, amount)
  \/ Tick

------------------------------------------------------------------------------
\* What holds whatever the settlement path.

\* The contract holds exactly what the pending sessions put in escrow, plus what
\* it was sent outside a session: settling never spends another session's escrow.
Solvent == bal[Self] = Total(ActiveSessions, Estimated) + donated

\* A user is in at most one pending session ("one active session per UE").
OneActivePerUE ==
  \A i, j \in ActiveSessions : sessions[i].ueAddress = sessions[j].ueAddress => i = j

\* A signed start message starts one session only, however often it is submitted.
MessageStartsOneSession ==
  \A i, j \in 1 .. sessionCounter : startMsg[i] = startMsg[j] => i = j

\* A settled session never changes again, a committed hash is never replaced, and
\* a session never goes back to an earlier status or changes hands.
SessionStep ==
  \A id \in SessionIds :
    LET s == sessions[id]
        t == sessions'[id] IN
    /\ s.status = COMPLETED => t = s
    /\ s.status = PENDING =>
         /\ t.status \in {PENDING, COMPLETED}
         /\ t.ueAddress = s.ueAddress /\ t.hmno = s.hmno
         /\ t.estimatedCost = s.estimatedCost
         /\ s.ueCDRHash # NoHash => t.ueCDRHash = s.ueCDRHash

SessionLifecycle == [][SessionStep]_vars

\* The agreement as the escrow that RoamingEscrow specifies.
LedgerEntry(s) ==
  IF s.status = UNKNOWN THEN NoSession
  ELSE [state |-> IF s.status = PENDING THEN "open" ELSE "settled",
        user |-> s.ueAddress, home |-> s.hmno,
        est |-> s.estimatedCost, cost |-> s.actualCost]

LedgerView == [id \in SessionIds |-> LedgerEntry(sessions[id])]

Promise == INSTANCE RoamingEscrow WITH
  Users <- UEs, Escrow <- Self, Vacant <- NoSession, ledger <- LedgerView, wallet <- bal
==============================================================================
