----------------------- MODULE AgreementFactory_proofs -----------------------
(***************************************************************************)
(* The registry of the factory, for any number of operators, agreements    *)
(* and terms: proofs of the invariants that the run checks.                *)
(***************************************************************************)
EXTENDS AgreementFactory, TLAPS

Contract == [mnos : Pairs, rates : Terms, expiry : Nat, number : Nat]

FactoryType ==
  /\ now \in Nat
  /\ deployed \in Seq(Contract)
  /\ Len(deployed) <= MaxAgreements
  /\ numberOfAgreements \in [Pairs -> Nat]
  /\ agreements \in
       [Pairs -> [contractAddress : (1 .. MaxAgreements) \cup {NoContract}, expiry : Nat]]

\* What is in force is what the registry names.
InForceIsRecorded ==
  \A i \in DOMAIN deployed :
    InForce(i) => /\ agreements[deployed[i].mnos].contractAddress = i
                  /\ agreements[deployed[i].mnos].expiry = deployed[i].expiry

\* What the registry names as unexpired was deployed for that pair.
RecordedIsDeployed ==
  \A p \in Pairs : agreements[p].expiry > now =>
    \E i \in DOMAIN deployed :
      /\ agreements[p].contractAddress = i
      /\ deployed[i].mnos = p
      /\ deployed[i].expiry = agreements[p].expiry

\* The numbers of a pair's agreements were all handed out, each once.
NumbersAreSpent ==
  /\ \A i \in DOMAIN deployed : deployed[i].number <= numberOfAgreements[deployed[i].mnos]
  /\ OneAgreementPerNumber

FactoryInv == FactoryType /\ InForceIsRecorded /\ RecordedIsDeployed /\ NumbersAreSpent

\* The constructor establishes the invariant.
LEMMA FactoryInit == Init => FactoryInv
  BY FactoryBounds
  DEF Init, FactoryInv, FactoryType, InForceIsRecorded, RecordedIsDeployed, NumbersAreSpent,
      OneAgreementPerNumber, NoRecord

\* A creation keeps it: the agreement it replaces has expired.
LEMMA CreatePreserves ==
  ASSUME FactoryInv,
         NEW mnos, NEW terms \in Terms, NEW expiry \in Nat, NEW number \in Nat, NEW signers,
         CreateAgreement(mnos, terms, expiry, number, signers)
  PROVE  FactoryInv'
<1> DEFINE d == [mnos |-> mnos, rates |-> terms, expiry |-> expiry, number |-> number]
           n == Len(deployed) + 1
<1>1. /\ mnos \in Pairs /\ now' = now /\ expiry > now
      /\ agreements[mnos].expiry = 0 \/ agreements[mnos].expiry < now
      /\ deployed' = Append(deployed, d)
      /\ agreements' = [agreements EXCEPT ![mnos] =
           [contractAddress |-> Len(deployed'), expiry |-> expiry]]
      /\ number = numberOfAgreements[mnos] + 1
      /\ numberOfAgreements' = [numberOfAgreements EXCEPT ![mnos] = number]
      /\ n <= MaxAgreements
  BY FactoryBounds
  DEF CreateAgreement, ValidateCreation, ValidateSignatures, StoreAgreement, FactoryInv, FactoryType
<1>2. d \in Contract
  BY <1>1 DEF Contract
<1>3. /\ deployed' \in Seq(Contract) /\ Len(deployed') = n
      /\ DOMAIN deployed' = 1 .. n /\ DOMAIN deployed = 1 .. n - 1
      /\ deployed'[n] = d
      /\ \A i \in DOMAIN deployed : deployed'[i] = deployed[i]
      /\ n \in Nat
  BY <1>1, <1>2 DEF FactoryInv, FactoryType
<1> HIDE DEF d, n
<1>4. FactoryType'
  BY <1>1, <1>3, FactoryBounds DEF FactoryInv, FactoryType
<1>5. ASSUME NEW i \in DOMAIN deployed, InForce(i)
      PROVE  deployed[i].mnos # mnos
  <2>1. deployed[i] \in Contract
    BY DEF FactoryInv, FactoryType
  <2>2. deployed[i].expiry \in Nat /\ deployed[i].expiry > now /\ now \in Nat
    BY <2>1, <1>5 DEF Contract, InForce, FactoryInv, FactoryType
  <2>3. agreements[deployed[i].mnos].expiry = deployed[i].expiry
    BY <1>5 DEF FactoryInv, InForceIsRecorded
  <2> QED
    BY <1>1, <2>2, <2>3
<1>6. InForceIsRecorded'
  <2> SUFFICES ASSUME NEW i \in 1 .. n, now' < deployed'[i].expiry
               PROVE  /\ agreements'[deployed'[i].mnos].contractAddress = i
                      /\ agreements'[deployed'[i].mnos].expiry = deployed'[i].expiry
    BY <1>3 DEF InForceIsRecorded, InForce
  <2>1. CASE i = n
    BY <2>1, <1>1, <1>3 DEF d, FactoryInv, FactoryType
  <2>2. CASE i # n
    <3>1. i \in DOMAIN deployed /\ deployed'[i] = deployed[i] /\ InForce(i)
      BY <2>2, <1>1, <1>3 DEF InForce
    <3>2. deployed[i] \in Contract
      BY <3>1 DEF FactoryInv, FactoryType
    <3> QED
      BY <3>1, <3>2, <1>1, <1>5 DEF FactoryInv, FactoryType, InForceIsRecorded, Contract
  <2> QED
    BY <2>1, <2>2
<1>7. RecordedIsDeployed'
  <2> SUFFICES ASSUME NEW p \in Pairs, agreements'[p].expiry > now'
               PROVE  \E i \in DOMAIN deployed' :
                        /\ agreements'[p].contractAddress = i
                        /\ deployed'[i].mnos = p
                        /\ deployed'[i].expiry = agreements'[p].expiry
    BY DEF RecordedIsDeployed
  <2>1. CASE p = mnos
    BY <2>1, <1>1, <1>3 DEF d, FactoryInv, FactoryType
  <2>2. CASE p # mnos
    <3>1. agreements'[p] = agreements[p] /\ agreements[p].expiry > now
      BY <2>2, <1>1 DEF FactoryInv, FactoryType
    <3>2. PICK i \in DOMAIN deployed : /\ agreements[p].contractAddress = i
                                       /\ deployed[i].mnos = p
                                       /\ deployed[i].expiry = agreements[p].expiry
      BY <3>1 DEF FactoryInv, RecordedIsDeployed
    <3>3. i \in DOMAIN deployed' /\ deployed'[i] = deployed[i]
      BY <1>3, <3>2
    <3> QED
      BY <3>1, <3>2, <3>3
  <2> QED
    BY <2>1, <2>2
<1>8. NumbersAreSpent'
  <2>1. ASSUME NEW i \in DOMAIN deployed
        PROVE  /\ deployed'[i] = deployed[i]
               /\ deployed[i].number <= numberOfAgreements[deployed[i].mnos]
               /\ deployed[i].number <= numberOfAgreements'[deployed[i].mnos]
               /\ deployed[i].mnos = mnos => deployed[i].number < number
    <3>1. deployed[i] \in Contract
      BY DEF FactoryInv, FactoryType
    <3>2. deployed[i].number \in Nat /\ deployed[i].mnos \in Pairs
      BY <3>1 DEF Contract
    <3>3. deployed[i].number <= numberOfAgreements[deployed[i].mnos]
      BY DEF FactoryInv, NumbersAreSpent
    <3>4. numberOfAgreements \in [Pairs -> Nat]
      BY DEF FactoryInv, FactoryType
    <3> QED
      BY <3>2, <3>3, <3>4, <1>1, <1>3
  <2>2. numberOfAgreements'[mnos] = number /\ d.mnos = mnos /\ d.number = number
    BY <1>1 DEF d, FactoryInv, FactoryType
  <2>3. \A i \in 1 .. n : deployed'[i].number <= numberOfAgreements'[deployed'[i].mnos]
    BY <1>3, <2>1, <2>2
  <2>4. ASSUME NEW i \in 1 .. n, NEW j \in 1 .. n,
               deployed'[i].mnos = deployed'[j].mnos, deployed'[i].number = deployed'[j].number
        PROVE  i = j
    <3>1. CASE i # n /\ j # n
      BY <3>1, <2>4, <1>3 DEF FactoryInv, NumbersAreSpent, OneAgreementPerNumber
    <3>2. CASE i = n /\ j # n
      <4>1. j \in DOMAIN deployed /\ deployed[j] \in Contract
        BY <3>2, <1>3 DEF FactoryInv, FactoryType
      <4>2. deployed[j].number \in Nat
        BY <4>1 DEF Contract
      <4> QED
        BY <3>2, <4>1, <4>2, <2>1, <2>2, <2>4, <1>3
    <3>3. CASE i # n /\ j = n
      <4>1. i \in DOMAIN deployed /\ deployed[i] \in Contract
        BY <3>3, <1>3 DEF FactoryInv, FactoryType
      <4>2. deployed[i].number \in Nat
        BY <4>1 DEF Contract
      <4> QED
        BY <3>3, <4>1, <4>2, <2>1, <2>2, <2>4, <1>3
    <3> QED
      BY <3>1, <3>2, <3>3
  <2> QED
    BY <1>3, <2>3, <2>4 DEF NumbersAreSpent, OneAgreementPerNumber
<1> QED
  BY <1>4, <1>6, <1>7, <1>8 DEF FactoryInv

\* Time passes: what is in force later is in force now.
LEMMA TickPreserves == FactoryInv /\ Tick => FactoryInv'
<1> SUFFICES ASSUME FactoryInv, Tick PROVE FactoryInv'
  OBVIOUS
<1>1. now' = now + 1 /\ UNCHANGED <<agreements, numberOfAgreements, deployed>>
  BY DEF Tick
<1>2. FactoryType' /\ NumbersAreSpent'
  BY <1>1 DEF FactoryInv, FactoryType, NumbersAreSpent, OneAgreementPerNumber
<1>3. InForceIsRecorded'
  <2>1. ASSUME NEW i \in DOMAIN deployed PROVE deployed[i].expiry \in Nat
    <3>1. deployed[i] \in Contract
      BY DEF FactoryInv, FactoryType
    <3> QED
      BY <3>1 DEF Contract
  <2> QED
    BY <1>1, <2>1 DEF FactoryInv, FactoryType, InForceIsRecorded, InForce
<1>4. RecordedIsDeployed'
  <2>1. ASSUME NEW p \in Pairs PROVE agreements[p].expiry \in Nat
    BY DEF FactoryInv, FactoryType
  <2> QED
    BY <1>1, <2>1 DEF FactoryInv, FactoryType, RecordedIsDeployed
<1> QED
  BY <1>2, <1>3, <1>4 DEF FactoryInv

\* The invariant holds in every reachable state.
LEMMA FactoryInvariant == Spec => []FactoryInv
<1>1. FactoryInv /\ [Next]_vars => FactoryInv'
  <2> SUFFICES ASSUME FactoryInv, [Next]_vars PROVE FactoryInv'
    OBVIOUS
  <2>1. CASE Tick
    BY <2>1, TickPreserves
  <2>2. CASE UNCHANGED vars
    BY <2>2
    DEF vars, FactoryInv, FactoryType, InForceIsRecorded, RecordedIsDeployed, NumbersAreSpent,
        OneAgreementPerNumber, InForce
  <2>3. ASSUME NEW a \in Operators, NEW b \in Operators, NEW s1 \in Operators,
               NEW s2 \in Operators, NEW terms \in Terms, NEW expiry \in 1 .. MaxTime + 1,
               NEW number \in 1 .. MaxAgreements,
               CreateAgreement({a, b}, terms, expiry, number, {s1, s2})
        PROVE  FactoryInv'
    <3>1. expiry \in Nat /\ number \in Nat
      BY FactoryBounds
    <3> QED
      BY <2>3, <3>1, CreatePreserves
  <2> QED
    BY <2>1, <2>2, <2>3 DEF Next
<1> QED
  BY <1>1, FactoryInit, PTL DEF Spec

\* No pair of operators ever has two agreements under which a session can be started.
THEOREM OneInForce == Spec => []OneAgreementInForce
<1>1. FactoryInv => OneAgreementInForce
  BY DEF FactoryInv, InForceIsRecorded, OneAgreementInForce
<1> QED
  BY <1>1, FactoryInvariant, PTL

\* getActiveAgreement is right at every time: it names the agreement in force, and
\* none when there is none.
THEOREM RegistryIsRight == Spec => []RegistryNamesTheOneInForce
<1>1. FactoryInv => RegistryNamesTheOneInForce
  <2> SUFFICES ASSUME FactoryInv, NEW p \in Pairs
               PROVE  LET current == {i \in DOMAIN deployed : deployed[i].mnos = p /\ InForce(i)}
                      IN IF current = {} THEN GetActiveAgreement(p) = NoContract
                         ELSE GetActiveAgreement(p) \in current
    BY DEF RegistryNamesTheOneInForce
  <2>1. CASE agreements[p].expiry > now
    <3>1. PICK i \in DOMAIN deployed : /\ agreements[p].contractAddress = i
                                       /\ deployed[i].mnos = p
                                       /\ deployed[i].expiry = agreements[p].expiry
      BY <2>1 DEF FactoryInv, RecordedIsDeployed
    <3>2. GetActiveAgreement(p) = i /\ InForce(i)
      BY <2>1, <3>1 DEF GetActiveAgreement, InForce, FactoryInv, FactoryType
    <3> QED
      BY <3>1, <3>2
  <2>2. CASE ~(agreements[p].expiry > now)
    <3>1. \A i \in DOMAIN deployed : deployed[i].mnos = p => ~InForce(i)
      BY <2>2 DEF FactoryInv, FactoryType, InForceIsRecorded, InForce
    <3> QED
      BY <2>2, <3>1 DEF GetActiveAgreement
  <2> QED
    BY <2>1, <2>2
<1> QED
  BY <1>1, FactoryInvariant, PTL

\* Offers signed under one number never create two agreements.
THEOREM NumbersUsedOnce == Spec => []OneAgreementPerNumber
<1>1. FactoryInv => OneAgreementPerNumber
  BY DEF FactoryInv, NumbersAreSpent
<1> QED
  BY <1>1, FactoryInvariant, PTL
==============================================================================
