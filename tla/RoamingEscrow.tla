---------------------------- MODULE RoamingEscrow ----------------------------
(***************************************************************************)
(* What a roaming agreement promises, whatever its settlement path: a      *)
(* session moves its estimated cost from the home operator into escrow;    *)
(* it is settled at most once, alone or with others, for a cost no larger  *)
(* than its own escrow; the visited operator then receives the cost and    *)
(* the home operator the rest; and a user is in one open session at a time.*)
(* The agreement contracts (AgreementIndividual, AgreementPlain and        *)
(* AgreementAggregate) implement this module.                              *)
(***************************************************************************)
EXTENDS TokenSums

CONSTANTS
  SessionIds,   \* finite set of session identifiers
  Users,        \* roaming users
  Mno1, Mno2,   \* the two operators of the agreement
  Escrow,       \* the account that holds the escrow
  Accounts,     \* every account of the payment token
  Vacant        \* what the ledger holds for an identifier never used

VARIABLES
  ledger,       \* ledger[id]: Vacant, or the session opened under id
  wallet        \* wallet[a]: tokens of account a

evars == <<ledger, wallet>>

Other(m) == IF m = Mno1 THEN Mno2 ELSE Mno1

Opened == {id \in SessionIds : ledger[id] # Vacant}
Open == {id \in Opened : ledger[id].state = "open"}

EInit ==
  /\ ledger = [id \in SessionIds |-> Vacant]
  /\ wallet \in [Accounts -> Nat]
  /\ wallet[Escrow] = 0

OpenSession(id, user, home, est) ==
  /\ ledger[id] = Vacant
  /\ \A i \in Open : ledger[i].user # user
  /\ home \in {Mno1, Mno2} /\ est > 0 /\ est <= wallet[home]
  /\ ledger' = [ledger EXCEPT ![id] =
       [state |-> "open", user |-> user, home |-> home, est |-> est, cost |-> 0]]
  /\ wallet' = [wallet EXCEPT ![home] = @ - est, ![Escrow] = @ + est]

\* What operator m receives from session i settled for cost[i].
Share(m, cost) ==
  [i \in DOMAIN cost |-> IF ledger[i].home = m THEN ledger[i].est - cost[i] ELSE cost[i]]

SettleSessions(S, cost) ==
  /\ S # {}
  /\ S \subseteq Open
  /\ \A i \in S : cost[i] <= ledger[i].est
  /\ ledger' = [i \in SessionIds |->
       IF i \in S THEN [ledger[i] EXCEPT !.state = "settled", !.cost = cost[i]] ELSE ledger[i]]
  /\ LET due1 == Total(S, Share(Mno1, cost))
         due2 == Total(S, Share(Mno2, cost))
     IN wallet' = [wallet EXCEPT ![Mno1] = @ + due1, ![Mno2] = @ + due2,
                                 ![Escrow] = @ - (due1 + due2)]

\* Anyone may hand tokens to the escrow account; nobody takes any out of it.
HandOver(from, amount) ==
  /\ from # Escrow
  /\ amount <= wallet[from]
  /\ wallet' = [wallet EXCEPT ![from] = @ - amount, ![Escrow] = @ + amount]
  /\ UNCHANGED ledger

\* What a step opens or settles shows in the next ledger; amounts are bounded by the
\* wallets, so that the module needs no constant for the largest.
ENext ==
  \/ \E id \in Opened' \ Opened, user \in Users, home \in {Mno1, Mno2} :
       \E est \in 1 .. wallet[home] : OpenSession(id, user, home, est)
  \/ \E S \in SUBSET (Open \ Open') :
       \E cost \in [S -> 0 .. wallet[Escrow]] : SettleSessions(S, cost)
  \/ \E from \in Accounts \ {Escrow} :
       \E amount \in 1 .. wallet[from] : HandOver(from, amount)

ESpec == EInit /\ [][ENext]_evars
==============================================================================
