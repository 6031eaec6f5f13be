--------------------------- MODULE AgreementFactory ---------------------------
(***************************************************************************)
(* contracts/AgreementFactory.sol: two operators create an agreement by    *)
(* signing its terms, its expiry and its number; the factory keeps which   *)
(* agreement of each pair is current, and replaces it after its expiry.    *)
(*                                                                         *)
(* Signatures are abstracted to the set of operators that signed exactly   *)
(* the message the factory rebuilds; anybody submits, at any time and      *)
(* repeatedly.  The two addresses are sorted before use, so a pair is a    *)
(* set.                                                                    *)
(***************************************************************************)
EXTENDS Integers, Sequences, FiniteSets

CONSTANTS
  Operators,      \* addresses of operators
  NoContract,     \* address(0)
  Terms,          \* rates that may be agreed on
  MaxTime,        \* bound: the clock
  MaxAgreements   \* bound: agreements deployed

ASSUME FactoryBounds == MaxTime \in Nat /\ MaxAgreements \in Nat

ASSUME NoContractIsNone == NoContract \notin 1 .. MaxAgreements

Pairs == {p \in SUBSET Operators : Cardinality(p) = 2}

VARIABLES
  agreements,           \* [contractAddress, expiry] of each pair
  numberOfAgreements,   \* agreements created so far for each pair
  deployed,             \* the deployed contracts, with the message that created each
  now                   \* block.timestamp

vars == <<agreements, numberOfAgreements, deployed, now>>

NoRecord == [contractAddress |-> NoContract, expiry |-> 0]

Init ==
  /\ agreements = [p \in Pairs |-> NoRecord]
  /\ numberOfAgreements = [p \in Pairs |-> 0]
  /\ deployed = <<>>
  /\ now = 0

------------------------------------------------------------------------------

\* Mutant: a current agreement does not stand in the way.
CreatableAlways(p, expiry) == expiry > now

ValidateCreation(p, expiry) ==
  /\ expiry > now
  /\ agreements[p].expiry = 0 \/ agreements[p].expiry < now

\* Mutant: the number is compared and not counted up.
NumberNotSpent(p, signers, number) ==
  /\ number = numberOfAgreements[p] + 1
  /\ signers = p
  /\ UNCHANGED numberOfAgreements

\* Both operators signed the terms under the next number of their pair.
ValidateSignatures(p, signers, number) ==
  /\ number = numberOfAgreements[p] + 1
  /\ numberOfAgreements' = [numberOfAgreements EXCEPT ![p] = number]
  /\ signers = p

\* Mutant: a renewal keeps the expiry of the agreement that it replaces.
StoreAddressOnly(p, address, expiry) ==
  agreements' = [agreements EXCEPT ![p] =
    [contractAddress |-> address, expiry |-> IF @.expiry = 0 THEN expiry ELSE @.expiry]]

StoreAgreement(p, address, expiry) ==
  agreements' = [agreements EXCEPT ![p] = [contractAddress |-> address, expiry |-> expiry]]

CreateAgreement(mnos, terms, expiry, number, signers) ==
  /\ Len(deployed) < MaxAgreements
  /\ mnos \in Pairs
  /\ ValidateCreation(mnos, expiry)
  /\ ValidateSignatures(mnos, signers, number)
  /\ deployed' = Append(deployed,
       [mnos |-> mnos, rates |-> terms, expiry |-> expiry, number |-> number])
  /\ StoreAgreement(mnos, Len(deployed'), expiry)
  /\ UNCHANGED now

Tick == now < MaxTime /\ now' = now + 1 /\ UNCHANGED <<agreements, numberOfAgreements, deployed>>

\* mnos and signers may also name one operator twice.
Next ==
  \/ \E a, b, s1, s2 \in Operators, terms \in Terms, expiry \in 1 .. MaxTime + 1,
        number \in 1 .. MaxAgreements :
       CreateAgreement({a, b}, terms, expiry, number, {s1, s2})
  \/ Tick

Spec == Init /\ [][Next]_vars

GetActiveAgreement(p) ==
  IF agreements[p].expiry > now THEN agreements[p].contractAddress ELSE NoContract

------------------------------------------------------------------------------

\* An agreement starts sessions until its expiry (Agreement.sol:100).
InForce(i) == now < deployed[i].expiry

\* Two operators never have two agreements under which a session could be started,
\* so the rates of a new session are never ambiguous.
OneAgreementInForce ==
  \A i, j \in DOMAIN deployed :
    InForce(i) /\ InForce(j) /\ deployed[i].mnos = deployed[j].mnos => i = j

\* The registry names the agreement in force, and none when there is none, also
\* right after a renewal and at the second of expiry.
RegistryNamesTheOneInForce ==
  \A p \in Pairs :
    LET current == {i \in DOMAIN deployed : deployed[i].mnos = p /\ InForce(i)} IN
    IF current = {} THEN GetActiveAgreement(p) = NoContract
    ELSE GetActiveAgreement(p) \in current

\* Of the offers that a pair signed under one number, at most one becomes an
\* agreement, also after that agreement has expired.
OneAgreementPerNumber ==
  \A i, j \in DOMAIN deployed :
    deployed[i].mnos = deployed[j].mnos /\ deployed[i].number = deployed[j].number => i = j
===============================================================================
