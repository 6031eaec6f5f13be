---------------------------- MODULE AgreementBase_proofs ----------------------------
(***************************************************************************)
(* The inductive invariant that every settlement contract shares, and that *)
(* the steps of AgreementBase preserve it.                                 *)
(***************************************************************************)
EXTENDS AgreementBase, FiniteSetTheorems, TLAPS

------------------------------------------------------------------------------
\* Sums over finite sets, from the facts about cardinality.

\* A finite set of indices holds finitely many tokens, so a sum is a number.
LEMMA TotalType ==
  ASSUME NEW S, IsFiniteSet(S),
         NEW f, \A i \in S : f[i] \in Nat
  PROVE  /\ IsFiniteSet(Tokens(S, f))
         /\ Total(S, f) \in Nat
<1>1. \A i \in S : IsFiniteSet({i} \X (1 .. f[i]))
  <2> TAKE i \in S
  <2>1. IsFiniteSet({i})
    BY FS_Singleton
  <2>2. IsFiniteSet(1 .. f[i])
    BY FS_Interval
  <2> QED
    BY <2>1, <2>2, FS_Product
<1>2. DEFINE Parts == {{i} \X (1 .. f[i]) : i \in S}
<1>3. IsFiniteSet(Parts)
  <2>1. DEFINE part == [i \in S |-> {i} \X (1 .. f[i])]
  <2>2. part \in Surjection(S, Parts)
    BY DEF Surjection
  <2> QED
    BY <2>2, FS_Surjection
<1>4. IsFiniteSet(UNION Parts)
  BY <1>1, <1>3, FS_UNION
<1> QED
  BY <1>4, FS_CardinalityType DEF Tokens, Total

\* The empty sum is zero.
LEMMA TotalEmpty ==
  ASSUME NEW f
  PROVE  Total({}, f) = 0
BY FS_EmptySet DEF Total, Tokens

\* A sum depends on the values at its indices only.
LEMMA TotalAgrees ==
  ASSUME NEW S, NEW f, NEW g, \A i \in S : f[i] = g[i]
  PROVE  Total(S, f) = Total(S, g)
<1>1. {{i} \X (1 .. f[i]) : i \in S} = {{i} \X (1 .. g[i]) : i \in S}
  OBVIOUS
<1> QED
  BY <1>1 DEF Total, Tokens

\* One more index adds its value.
LEMMA TotalAdd ==
  ASSUME NEW S, IsFiniteSet(S),
         NEW f, \A i \in S : f[i] \in Nat,
         NEW x, x \notin S, f[x] \in Nat
  PROVE  Total(S \cup {x}, f) = Total(S, f) + f[x]
<1> DEFINE Own == {x} \X (1 .. f[x])
<1>1. Tokens(S \cup {x}, f) = Tokens(S, f) \cup Own
  BY DEF Tokens
<1>2. Tokens(S, f) \cap Own = {}
  BY DEF Tokens
<1>3. IsFiniteSet(Own) /\ Cardinality(Own) = f[x]
  <2>1. IsFiniteSet({x}) /\ Cardinality({x}) = 1
    BY FS_Singleton
  <2>2. IsFiniteSet(1 .. f[x]) /\ Cardinality(1 .. f[x]) = f[x]
    <3>1. ASSUME NEW n \in Nat
          PROVE  IsFiniteSet(1 .. n) /\ Cardinality(1 .. n) = n
      <4>1. /\ IsFiniteSet(1 .. n)
            /\ Cardinality(1 .. n) = IF 1 > n THEN 0 ELSE n - 1 + 1
        BY FS_Interval, SMTT(30)
      <4> QED
        BY <4>1
    <3> QED
      BY <3>1
  <2>3. IsFiniteSet(Own) /\ Cardinality(Own) = Cardinality({x}) * Cardinality(1 .. f[x])
    BY <2>1, <2>2, FS_Product
  <2> QED
    BY <2>1, <2>2, <2>3
<1>4. IsFiniteSet(Tokens(S, f)) /\ Cardinality(Tokens(S, f)) \in Nat
  BY TotalType DEF Total
<1>5. Cardinality(Tokens(S, f) \cup Own)
        = Cardinality(Tokens(S, f)) + Cardinality(Own) - Cardinality(Tokens(S, f) \cap Own)
  BY <1>3, <1>4, FS_Union
<1>6. Cardinality(Tokens(S, f) \cap Own) = 0
  BY <1>2, FS_EmptySet
<1>7. ASSUME NEW a \in Nat, NEW b \in Nat, NEW c, NEW d, d = 0, c = a + b - d
      PROVE  c = a + b
  BY <1>7
<1> HIDE DEF Own
<1>8. Cardinality(Tokens(S, f) \cup Own) = Cardinality(Tokens(S, f)) + f[x]
  BY <1>3, <1>4, <1>5, <1>6, <1>7
<1> QED
  BY <1>1, <1>8 DEF Total

\* One index less takes its value away.
LEMMA TotalRemove ==
  ASSUME NEW S, IsFiniteSet(S),
         NEW f, \A i \in S : f[i] \in Nat,
         NEW x \in S
  PROVE  /\ Total(S \ {x}, f) = Total(S, f) - f[x]
         /\ f[x] <= Total(S, f)
<1> DEFINE R == S \ {x}
<1>1. IsFiniteSet(R) /\ x \notin R /\ \A i \in R : f[i] \in Nat
  BY FS_RemoveElement
<1>2. R \cup {x} = S
  OBVIOUS
<1>3. Total(R, f) \in Nat
  BY <1>1, TotalType
<1>4. Total(R \cup {x}, f) = Total(R, f) + f[x]
  BY <1>1, TotalAdd
<1>5. Total(S, f) = Total(R, f) + f[x]
  BY <1>2, <1>4
<1>6. f[x] \in Nat
  OBVIOUS
<1> HIDE DEF R
<1>7. Total(R, f) = Total(S, f) - f[x] /\ f[x] <= Total(S, f)
  BY <1>3, <1>5, <1>6
<1> QED
  BY <1>7 DEF R

\* The sum over a part of a set and the sum over the rest.
LEMMA TotalWithout ==
  ASSUME NEW S, IsFiniteSet(S),
         NEW f, \A i \in S : f[i] \in Nat,
         NEW R \in SUBSET S
  PROVE  /\ Total(R, f) \in Nat
         /\ Total(S \ R, f) \in Nat
         /\ Total(S, f) = Total(S \ R, f) + Total(R, f)
<1>1. IsFiniteSet(R) /\ IsFiniteSet(S \ R)
  BY FS_Subset
<1>2. /\ IsFiniteSet(Tokens(R, f)) /\ Total(R, f) \in Nat
      /\ IsFiniteSet(Tokens(S \ R, f)) /\ Total(S \ R, f) \in Nat
  BY <1>1, TotalType
<1>3. Tokens(S, f) = Tokens(S \ R, f) \cup Tokens(R, f)
  BY DEF Tokens
<1>4. Tokens(S \ R, f) \cap Tokens(R, f) = {}
  BY DEF Tokens
<1>5. Total(S, f) = Total(S \ R, f) + Total(R, f) - Cardinality(Tokens(S \ R, f) \cap Tokens(R, f))
  BY <1>2, <1>3, FS_Union DEF Total
<1>6. Cardinality(Tokens(S \ R, f) \cap Tokens(R, f)) = 0
  BY <1>4, FS_EmptySet
<1> QED
  BY <1>2, <1>5, <1>6

\* g lists the members of S along D, each once.
Enumerates(g, D, S) ==
  /\ \A i \in D : g[i] \in S
  /\ \A i, j \in D : g[i] = g[j] => i = j
  /\ \A x \in S : \E i \in D : g[i] = x

\* Summing along an enumeration without repetitions sums over what it enumerates.
LEMMA TotalReindex ==
  ASSUME NEW D, IsFiniteSet(D),
         NEW S, NEW g, Enumerates(g, D, S),
         NEW f, \A x \in S : f[x] \in Nat,
         NEW h, \A i \in D : h[i] = f[g[i]]
  PROVE  Total(S, f) = Total(D, h)
<1> DEFINE move == [p \in Tokens(D, h) |-> <<g[p[1]], p[2]>>]
<1> USE DEF Enumerates
<1>1. ASSUME NEW p
      PROVE  p \in Tokens(D, h) <=> \E i \in D : \E k \in 1 .. h[i] : p = <<i, k>>
  BY DEF Tokens
<1>2. ASSUME NEW p
      PROVE  p \in Tokens(S, f) <=> \E i \in D : \E k \in 1 .. h[i] : p = <<g[i], k>>
  BY DEF Tokens
<1>3. move \in Bijection(Tokens(D, h), Tokens(S, f))
  <2>1. \A p \in Tokens(D, h) : move[p] \in Tokens(S, f)
    BY <1>1, <1>2
  <2>2. ASSUME NEW p \in Tokens(D, h), NEW q \in Tokens(D, h), move[p] = move[q]
        PROVE  p = q
    <3>1. PICK i, j, k, l : i \in D /\ j \in D /\ p = <<i, k>> /\ q = <<j, l>>
      BY <1>1
    <3>2. <<g[i], k>> = <<g[j], l>>
      BY <2>2, <3>1
    <3> QED
      BY <3>1, <3>2
  <2>3. ASSUME NEW q \in Tokens(S, f)
        PROVE  \E p \in Tokens(D, h) : move[p] = q
    <3>1. PICK i, k : i \in D /\ k \in 1 .. h[i] /\ q = <<g[i], k>>
      BY <1>2
    <3>2. <<i, k>> \in Tokens(D, h) /\ move[<<i, k>>] = q
      BY <1>1, <3>1
    <3> QED
      BY <3>2
  <2> QED
    BY <2>1, <2>2, <2>3 DEF Bijection, Injection, Surjection, IsInjective
<1>4. IsFiniteSet(Tokens(D, h))
  BY TotalType
<1>5. ExistsBijection(Tokens(D, h), Tokens(S, f))
  BY <1>3 DEF ExistsBijection
<1>6. Cardinality(Tokens(S, f)) = Cardinality(Tokens(D, h))
  BY <1>4, <1>5, FS_Bijection
<1> QED
  BY <1>6 DEF Total

\* The sum of two functions added up is the sum of their sums.
LEMMA TotalPlus ==
  ASSUME NEW S, IsFiniteSet(S),
         NEW f, \A i \in S : f[i] \in Nat,
         NEW g, \A i \in S : g[i] \in Nat,
         NEW h, \A i \in S : h[i] = f[i] + g[i]
  PROVE  Total(S, h) = Total(S, f) + Total(S, g)
<1> DEFINE Upper == {p \in Tokens(S, h) : p \notin Tokens(S, f)}
           lift == [p \in Tokens(S, g) |-> <<p[1], f[p[1]] + p[2]>>]
<1>1. ASSUME NEW p, NEW e
      PROVE  p \in Tokens(S, e) <=> \E i \in S : \E k \in 1 .. e[i] : p = <<i, k>>
  BY DEF Tokens
<1>2. ASSUME NEW p
      PROVE  p \in Upper <=> \E i \in S : \E k \in 1 .. g[i] : p = <<i, f[i] + k>>
  <2>1. ASSUME NEW i \in S, NEW k \in 1 .. h[i], p = <<i, k>>, p \notin Tokens(S, f)
        PROVE  \E l \in 1 .. g[i] : p = <<i, f[i] + l>>
    <3>1. k \notin 1 .. f[i]
      BY <1>1, <2>1
    <3>2. k - f[i] \in 1 .. g[i] /\ k = f[i] + (k - f[i])
      BY <3>1
    <3> QED
      BY <2>1, <3>2
  <2>2. ASSUME NEW i \in S, NEW k \in 1 .. g[i], p = <<i, f[i] + k>>
        PROVE  p \in Upper
    <3>1. f[i] + k \in 1 .. h[i] /\ f[i] + k \notin 1 .. f[i]
      OBVIOUS
    <3>2. p \in Tokens(S, h)
      BY <1>1, <2>2, <3>1
    <3>3. p \notin Tokens(S, f)
      <4> SUFFICES ASSUME NEW j \in S, NEW l \in 1 .. f[j], p = <<j, l>> PROVE FALSE
        BY <1>1
      <4> QED
        BY <2>2, <3>1
    <3> QED
      BY <3>2, <3>3
  <2>3. ASSUME p \in Upper PROVE \E i \in S : \E k \in 1 .. g[i] : p = <<i, f[i] + k>>
    <3>1. PICK i \in S : \E k \in 1 .. h[i] : p = <<i, k>>
      BY <1>1, <2>3
    <3> QED
      BY <2>1, <2>3, <3>1
  <2> QED
    BY <2>2, <2>3
<1>3. lift \in Bijection(Tokens(S, g), Upper)
  <2>1. ASSUME NEW p \in Tokens(S, g)
        PROVE  /\ lift[p] \in Upper
               /\ \E i \in S : \E k \in 1 .. g[i] : p = <<i, k>> /\ lift[p] = <<i, f[i] + k>>
    <3>1. PICK i, k : i \in S /\ k \in 1 .. g[i] /\ p = <<i, k>>
      BY <1>1
    <3>2. lift[p] = <<i, f[i] + k>>
      BY <3>1
    <3> QED
      BY <1>2, <3>1, <3>2
  <2>2. ASSUME NEW p \in Tokens(S, g), NEW q \in Tokens(S, g), lift[p] = lift[q]
        PROVE  p = q
    <3>1. PICK i, k : i \in S /\ k \in 1 .. g[i] /\ p = <<i, k>> /\ lift[p] = <<i, f[i] + k>>
      BY <2>1
    <3>2. PICK j, l : j \in S /\ l \in 1 .. g[j] /\ q = <<j, l>> /\ lift[q] = <<j, f[j] + l>>
      BY <2>1
    <3>3. i = j /\ f[i] + k = f[i] + l
      BY <2>2, <3>1, <3>2
    <3>4. f[i] \in Nat /\ k \in Nat /\ l \in Nat
      BY <3>1, <3>2
    <3>5. k = l
      BY <3>3, <3>4
    <3> QED
      BY <3>1, <3>2, <3>3, <3>5
  <2>3. ASSUME NEW q \in Upper
        PROVE  \E p \in Tokens(S, g) : lift[p] = q
    <3>1. PICK i, k : i \in S /\ k \in 1 .. g[i] /\ q = <<i, f[i] + k>>
      BY <1>2
    <3>2. <<i, k>> \in Tokens(S, g) /\ lift[<<i, k>>] = q
      BY <1>1, <3>1
    <3> QED
      BY <3>2
  <2> HIDE DEF Upper
  <2> QED
    BY <2>1, <2>2, <2>3 DEF Bijection, Injection, Surjection, IsInjective
<1>4. /\ IsFiniteSet(Tokens(S, f)) /\ Total(S, f) \in Nat
      /\ IsFiniteSet(Tokens(S, g)) /\ Total(S, g) \in Nat
  BY TotalType
<1>5. IsFiniteSet(Upper) /\ Cardinality(Upper) = Total(S, g)
  <2>1. ExistsBijection(Tokens(S, g), Upper)
    BY <1>3 DEF ExistsBijection
  <2> HIDE DEF Upper
  <2> QED
    BY <1>4, <2>1, FS_Bijection DEF Total
<1>6. Tokens(S, h) = Tokens(S, f) \cup Upper
  <2>1. \A p \in Tokens(S, f) : p \in Tokens(S, h)
    BY <1>1
  <2> QED
    BY <2>1
<1>7. Cardinality(Tokens(S, f) \cap Upper) = 0
  <2>1. Tokens(S, f) \cap Upper = {}
    OBVIOUS
  <2> QED
    BY <2>1, FS_EmptySet
<1> HIDE DEF Upper
<1>8. Total(S, h) = Total(S, f) + Total(S, g) - Cardinality(Tokens(S, f) \cap Upper)
  BY <1>4, <1>5, <1>6, FS_Union DEF Total
<1> QED
  BY <1>4, <1>7, <1>8

------------------------------------------------------------------------------

\* Identifiers beyond the counter are unused, those up to it are not.
IdsInUse ==
  \A id \in SessionIds :
    IF id <= sessionCounter
    THEN /\ sessions[id].status \in {PENDING, COMPLETED}
         /\ sessions[id].ueAddress \in UEs /\ sessions[id].hmno \in Mnos
    ELSE sessions[id] = NoSession

\* The guard of startRoamingSession looks at a user's latest session only; this is
\* why that is enough.
ActiveIsLatest ==
  \A id \in ActiveSessions : LatestRoamingSession(sessions[id].ueAddress) = id

\* Every message that started a session carries a spent nonce of its signer, and no
\* two the same one.
NoncesSpent ==
  \A id \in 1 .. sessionCounter :
    /\ startMsg[id] \in StartMessage
    /\ startMsg[id].nonce < nonces[startMsg[id].hmno]

BaseInv ==
  TypeOK /\ IdsInUse /\ ActiveIsLatest /\ NoncesSpent /\ MessageStartsOneSession /\ Solvent

------------------------------------------------------------------------------

\* There are finitely many pending sessions, and each has an amount in escrow.
LEMMA ActiveFinite ==
  ASSUME TypeOK
  PROVE  /\ IsFiniteSet(ActiveSessions) /\ ActiveSessions \subseteq SessionIds
         /\ \A id \in SessionIds : Estimated[id] = sessions[id].estimatedCost
                                   /\ Estimated[id] \in Nat
         /\ Total(ActiveSessions, Estimated) \in Nat
<1>1. IsFiniteSet(SessionIds)
  BY BoundsAssumption, FS_Interval DEF SessionIds
<1>2. ActiveSessions \in SUBSET SessionIds
  BY DEF ActiveSessions
<1>3. IsFiniteSet(ActiveSessions)
  BY <1>1, <1>2, FS_Subset
<1>4. \A id \in SessionIds : Estimated[id] = sessions[id].estimatedCost /\ Estimated[id] \in Nat
  BY DEF TypeOK, Session, Estimated
<1> QED
  BY <1>2, <1>3, <1>4, TotalType

\* At deployment the invariant holds.
LEMMA BaseInit == Init => BaseInv
<1> SUFFICES ASSUME Init PROVE BaseInv
  OBVIOUS
<1>1. TypeOK
  BY ConstructorChecks, DataAssumption, HashAssumption, BoundsAssumption
  DEF Init, TypeOK, Session, NoSession, SessionIds, Accounts, Mnos, NoMessage, UNKNOWN, NoHash
<1>2. IdsInUse /\ NoncesSpent /\ MessageStartsOneSession
  BY DEF Init, IdsInUse, NoncesSpent, MessageStartsOneSession, SessionIds
<1>3. ActiveSessions = {}
  BY DEF Init, ActiveSessions, NoSession, UNKNOWN, PENDING
<1>4. ActiveIsLatest
  BY <1>3 DEF ActiveIsLatest
<1>5. Solvent
  <2>1. bal[Self] = 0 /\ donated = 0
    BY ConstructorChecks DEF Init, Accounts
  <2>2. Total(ActiveSessions, Estimated) = 0
    BY <1>3, TotalEmpty
  <2> QED
    BY <2>1, <2>2 DEF Solvent
<1> QED
  BY <1>1, <1>2, <1>4, <1>5 DEF BaseInv

------------------------------------------------------------------------------

\* Starting a session preserves the invariant.
LEMMA StartPreserves ==
  ASSUME BaseInv,
         NEW ue \in UEs \cup {NoAddress}, NEW hmno \in Signers, NEW est \in Estimates,
         NEW nonce \in 0 .. MaxSessions, NEW received \in 0 .. est,
         StartRoamingSession(ue, est, nonce, hmno, received)
  PROVE  BaseInv'
<1> DEFINE new == sessionCounter + 1
           started == [NoSession EXCEPT !.ueAddress = ue, !.hmno = hmno,
                                        !.estimatedCost = est, !.status = PENDING]
           msg == [hmno |-> hmno, ue |-> ue, est |-> est, nonce |-> nonce]
<1> USE DEF BaseInv
<1>1. /\ new \in SessionIds /\ sessionCounter' = new /\ new \notin 1 .. sessionCounter
      /\ ue \in UEs /\ hmno \in Mnos /\ est \in Nat \ {0}
      /\ sessionCounter \in Nat
  <2>1. sessionCounter < MaxSessions /\ ue # NoAddress /\ est > 0 /\ hmno \in Mnos
        /\ sessionCounter' = new
    BY DEF StartRoamingSession, ValidStart, NoOngoingSession, EnterSession, IsValidHMNO, Mnos
  <2>2. sessionCounter \in 0 .. MaxSessions /\ est \in Nat /\ MaxSessions \in Nat
    BY DataAssumption, BoundsAssumption DEF TypeOK
  <2> QED
    BY <2>1, <2>2 DEF SessionIds
<1>2. /\ started \in Session /\ started.status = PENDING
      /\ started.ueAddress = ue /\ started.hmno = hmno /\ started.estimatedCost = est
  BY <1>1 DEF Session, NoSession, NoHash
<1>3. /\ sessions' = [sessions EXCEPT ![new] = started]
      /\ ueRoamingSessions' = [ueRoamingSessions EXCEPT ![ue] = Append(@, new)]
      /\ startMsg' = [startMsg EXCEPT ![new] = msg]
      /\ nonces[hmno] = nonce /\ nonces' = [nonces EXCEPT ![hmno] = @ + 1]
      /\ est <= bal[hmno]
      /\ bal' = [bal EXCEPT ![hmno] = @ - est, ![Self] = @ + est]
      /\ now' = now /\ donated' = donated
      /\ LatestRoamingSession(ue) # 0 =>
           sessions[LatestRoamingSession(ue)].status = COMPLETED
  BY <1>1 DEF StartRoamingSession, ValidStart, NoOngoingSession, EnterSession, SpendNonce, TransferFunds
<1>4. msg \in StartMessage
  BY <1>1 DEF StartMessage
<1> HIDE DEF started, msg
<1>5. TypeOK'
  <2>1. sessions' \in [SessionIds -> Session] /\ sessionCounter' \in 0 .. MaxSessions
    BY <1>1, <1>2, <1>3 DEF TypeOK, SessionIds
  <2>2. nonces' \in [Signers -> Nat]
    BY <1>3 DEF TypeOK
  <2>3. ueRoamingSessions' \in [UEs -> Seq(SessionIds)]
    BY <1>1, <1>3 DEF TypeOK
  <2>4. bal' \in [Accounts -> Nat]
    <3>1. hmno \in Accounts /\ Self \in Accounts /\ hmno # Self
      BY <1>1, ConstructorChecks DEF Accounts
    <3>2. bal \in [Accounts -> Nat] /\ est \in Nat
      BY <1>1 DEF TypeOK
    <3>3. bal[hmno] - est \in Nat /\ bal[Self] + est \in Nat
      BY <1>3, <3>1, <3>2
    <3> QED
      BY <1>3, <3>1, <3>2, <3>3
  <2>5. startMsg' \in [SessionIds -> StartMessage \cup {NoMessage}]
    BY <1>1, <1>3, <1>4 DEF TypeOK
  <2> QED
    BY <1>3, <2>1, <2>2, <2>3, <2>4, <2>5 DEF TypeOK
<1>6. IdsInUse'
  BY <1>1, <1>2, <1>3 DEF IdsInUse, SessionIds, TypeOK
<1>7. new \notin ActiveSessions /\ ActiveSessions' = ActiveSessions \cup {new}
  BY <1>1, <1>2, <1>3 DEF ActiveSessions, TypeOK, IdsInUse, NoSession, UNKNOWN, PENDING, SessionIds
<1>8. ActiveIsLatest'
  <2> SUFFICES ASSUME NEW id \in ActiveSessions'
               PROVE  (LatestRoamingSession(sessions[id].ueAddress) = id)'
    BY DEF ActiveIsLatest
  <2>1. CASE id = new
    <3>1. sessions'[new].ueAddress = ue
      BY <1>1, <1>2, <1>3 DEF TypeOK
    <3>2. ueRoamingSessions'[ue] = Append(ueRoamingSessions[ue], new)
      BY <1>1, <1>3 DEF TypeOK
    <3>3. ueRoamingSessions[ue] \in Seq(SessionIds)
      BY <1>1 DEF TypeOK
    <3>4. /\ ueRoamingSessions'[ue] # <<>>
          /\ ueRoamingSessions'[ue][Len(ueRoamingSessions'[ue])] = new
      BY <1>1, <3>2, <3>3, SMTT(30)
    <3> QED
      BY <2>1, <3>1, <3>4 DEF LatestRoamingSession
  <2>2. CASE id # new
    <3>1. id \in ActiveSessions /\ sessions'[id] = sessions[id] /\ id \in SessionIds
      BY <1>1, <1>3, <1>7, <2>2 DEF TypeOK, ActiveSessions
    <3>2. LatestRoamingSession(sessions[id].ueAddress) = id
      BY <3>1 DEF ActiveIsLatest
    <3>3. sessions[id].ueAddress # ue
      <4>1. sessions[id].status = PENDING /\ id # 0
        BY <3>1 DEF ActiveSessions, SessionIds
      <4> QED
        BY <1>3, <3>2, <4>1 DEF PENDING, COMPLETED
    <3>4. sessions[id].ueAddress \in UEs
      BY <3>1 DEF IdsInUse, ActiveSessions, NoSession, PENDING, UNKNOWN
    <3>5. ueRoamingSessions'[sessions[id].ueAddress] = ueRoamingSessions[sessions[id].ueAddress]
      BY <1>3, <3>3, <3>4 DEF TypeOK
    <3> QED
      BY <3>1, <3>2, <3>5 DEF LatestRoamingSession
  <2> QED
    BY <2>1, <2>2
<1>9. NoncesSpent' /\ MessageStartsOneSession'
  <2>1. \A id \in 1 .. sessionCounter : startMsg'[id] = startMsg[id] /\ id \in SessionIds
    <3> SUFFICES ASSUME NEW id \in 1 .. sessionCounter
                 PROVE  startMsg'[id] = startMsg[id] /\ id \in SessionIds
      OBVIOUS
    <3>1. id # new /\ id \in SessionIds
      BY <1>1, BoundsAssumption DEF TypeOK, SessionIds
    <3> QED
      BY <1>3, <3>1 DEF TypeOK
  <2>2. startMsg'[new] = msg
    BY <1>1, <1>3 DEF TypeOK
  <2>3. \A s \in Signers : nonces[s] \in Nat /\ nonces'[s] >= nonces[s]
    BY <1>3 DEF TypeOK
  <2>4. msg.hmno = hmno /\ msg.nonce = nonces[hmno] /\ nonces'[hmno] = nonces[hmno] + 1
    BY <1>3 DEF msg, TypeOK
  <2>5. \A id \in 1 .. new : id = new \/ id \in 1 .. sessionCounter
    BY <1>1
  <2>6. NoncesSpent'
    <3> SUFFICES ASSUME NEW id \in 1 .. new
                 PROVE  /\ startMsg'[id] \in StartMessage
                        /\ startMsg'[id].nonce < nonces'[startMsg'[id].hmno]
      BY <1>1 DEF NoncesSpent
    <3>1. CASE id = new
      BY <1>4, <2>2, <2>3, <2>4, <3>1
    <3>2. CASE id \in 1 .. sessionCounter
      <4>1. startMsg[id] \in StartMessage /\ startMsg[id].nonce < nonces[startMsg[id].hmno]
        BY <3>2 DEF NoncesSpent
      <4>2. startMsg[id].hmno \in Signers /\ startMsg[id].nonce \in Nat
        BY <4>1 DEF StartMessage
      <4>3. nonces'[startMsg[id].hmno] \in Nat
        BY <1>5, <4>2 DEF TypeOK
      <4> QED
        BY <2>1, <2>3, <3>2, <4>1, <4>2, <4>3
    <3> QED
      BY <2>5, <3>1, <3>2
  <2>7. \A id \in 1 .. sessionCounter : startMsg[id] # msg
    <3> SUFFICES ASSUME NEW id \in 1 .. sessionCounter, startMsg[id] = msg PROVE FALSE
      OBVIOUS
    <3>1. startMsg[id].nonce < nonces[startMsg[id].hmno]
      BY DEF NoncesSpent
    <3> QED
      BY <2>3, <2>4, <3>1
  <2>8. MessageStartsOneSession'
    BY <1>1, <2>1, <2>2, <2>5, <2>7 DEF MessageStartsOneSession
  <2> QED
    BY <2>6, <2>8
<1>10. Solvent'
  <2>1. /\ IsFiniteSet(ActiveSessions) /\ ActiveSessions \subseteq SessionIds
        /\ \A id \in SessionIds : Estimated[id] \in Nat
        /\ Total(ActiveSessions, Estimated) \in Nat
    BY ActiveFinite
  <2>2. /\ Estimated'[new] = est /\ est \in Nat
        /\ \A id \in ActiveSessions : Estimated'[id] = Estimated[id]
        /\ \A id \in ActiveSessions : Estimated'[id] \in Nat
    BY <1>1, <1>2, <1>3, <1>7, <2>1 DEF Estimated, TypeOK
  <2>3. Total(ActiveSessions \cup {new}, Estimated')
          = Total(ActiveSessions, Estimated') + est
    BY <1>7, <2>1, <2>2, TotalAdd
  <2>4. Total(ActiveSessions, Estimated') = Total(ActiveSessions, Estimated)
    BY <2>2, TotalAgrees
  <2>5. bal'[Self] = bal[Self] + est
    BY <1>1, <1>3, ConstructorChecks DEF TypeOK, Accounts
  <2>6. donated \in Nat /\ bal[Self] = Total(ActiveSessions, Estimated) + donated
    BY DEF Solvent, TypeOK
  <2>7. Total(ActiveSessions, Estimated)' = Total(ActiveSessions, Estimated) + est
    BY <1>7, <2>3, <2>4
  <2>8. bal'[Self] = Total(ActiveSessions, Estimated)' + donated'
    BY <1>3, <2>1, <2>2, <2>5, <2>6, <2>7
  <2> QED
    BY <2>8 DEF Solvent
<1> QED
  BY <1>5, <1>6, <1>8, <1>9, <1>10

\* Steps that leave the session table alone preserve what is said about it.
LEMMA BooksUnchanged ==
  ASSUME BaseInv, UNCHANGED bookVars
  PROVE  /\ IdsInUse' /\ ActiveIsLatest' /\ NoncesSpent' /\ MessageStartsOneSession'
         /\ Total(ActiveSessions, Estimated)' = Total(ActiveSessions, Estimated)
<1>1. /\ sessions' = sessions /\ sessionCounter' = sessionCounter /\ nonces' = nonces
      /\ ueRoamingSessions' = ueRoamingSessions /\ startMsg' = startMsg
  BY DEF bookVars
<1>2. ActiveSessions' = ActiveSessions /\ Estimated' = Estimated
  BY <1>1 DEF ActiveSessions, Estimated
<1> QED
  BY <1>1, <1>2
  DEF BaseInv, IdsInUse, ActiveIsLatest, NoncesSpent, MessageStartsOneSession,
      LatestRoamingSession

\* So does the passing of time.
LEMMA TickPreserves ==
  ASSUME BaseInv, Tick
  PROVE  BaseInv'
<1>1. UNCHANGED bookVars /\ bal' = bal /\ donated' = donated /\ now' = now + 1
  BY DEF Tick
<1>2. TypeOK'
  BY <1>1 DEF BaseInv, TypeOK, bookVars
<1>3. Solvent'
  BY <1>1, BooksUnchanged DEF BaseInv, Solvent
<1> QED
  BY <1>1, <1>2, <1>3, BooksUnchanged DEF BaseInv

\* A stuttering step preserves it too.
LEMMA StutterPreserves ==
  ASSUME BaseInv, UNCHANGED vars
  PROVE  BaseInv'
<1>1. UNCHANGED bookVars /\ bal' = bal /\ donated' = donated /\ now' = now
  BY DEF vars
<1>2. TypeOK'
  BY <1>1 DEF BaseInv, TypeOK, bookVars
<1>3. Solvent'
  BY <1>1, BooksUnchanged DEF BaseInv, Solvent
<1> QED
  BY <1>1, <1>2, <1>3, BooksUnchanged DEF BaseInv

\* Tokens sent outside a session are accounted for apart.
LEMMA DonatePreserves ==
  ASSUME BaseInv, NEW from \in Signers, NEW amount \in 1 .. MaxDonation, Donate(from, amount)
  PROVE  BaseInv'
<1>1. /\ UNCHANGED bookVars /\ now' = now /\ donated' = donated + amount
      /\ amount <= bal[from] /\ amount \in Nat
      /\ bal' = [bal EXCEPT ![from] = @ - amount, ![Self] = @ + amount]
  BY BoundsAssumption DEF Donate
<1>2. TypeOK'
  <2>1. bal \in [Accounts -> Nat] /\ from \in Accounts /\ Self \in Accounts /\ from # Self
    BY ConstructorChecks DEF BaseInv, TypeOK, Accounts
  <2>2. bal[from] - amount \in Nat /\ bal[Self] + amount \in Nat
    BY <1>1, <2>1
  <2>3. bal' \in [Accounts -> Nat]
    BY <1>1, <2>1, <2>2
  <2> QED
    BY <1>1, <2>3 DEF BaseInv, TypeOK, bookVars
<1>3. Solvent'
  <2>1. bal'[Self] = bal[Self] + amount
    BY <1>1, ConstructorChecks DEF BaseInv, TypeOK, Accounts
  <2>2. Total(ActiveSessions, Estimated)' = Total(ActiveSessions, Estimated)
    BY <1>1, BooksUnchanged
  <2>3. Total(ActiveSessions, Estimated) \in Nat /\ donated \in Nat
    BY ActiveFinite DEF BaseInv, TypeOK
  <2>4. bal[Self] = Total(ActiveSessions, Estimated) + donated
    BY DEF BaseInv, Solvent
  <2>5. bal'[Self] = Total(ActiveSessions, Estimated)' + donated'
    BY <1>1, <2>1, <2>2, <2>3, <2>4
  <2> QED
    BY <2>5 DEF Solvent
<1> QED
  BY <1>1, <1>2, <1>3, BooksUnchanged DEF BaseInv

\* Committing a hash preserves it: the session stays pending, with its escrow.
LEMMA SubmitCDRPreserves ==
  ASSUME BaseInv, NEW sender \in UEs, NEW id \in SessionIds, NEW hash \in Hashes,
         SubmitCDR(sender, id, hash)
  PROVE  BaseInv'
<1> DEFINE kept == [sessions[id] EXCEPT !.ueCDRHash = hash]
<1>1. /\ sessions' = [sessions EXCEPT ![id] = kept]
      /\ sessionCounter' = sessionCounter /\ nonces' = nonces
      /\ ueRoamingSessions' = ueRoamingSessions /\ startMsg' = startMsg
      /\ bal' = bal /\ now' = now /\ donated' = donated
      /\ sessions[id].status = PENDING
  BY DEF SubmitCDR
<1>2. /\ kept \in Session /\ kept.status = sessions[id].status
      /\ kept.ueAddress = sessions[id].ueAddress /\ kept.hmno = sessions[id].hmno
      /\ kept.estimatedCost = sessions[id].estimatedCost
  BY DEF BaseInv, TypeOK, Session
<1> HIDE DEF kept
<1>3. /\ \A i \in SessionIds :
           /\ sessions'[i].status = sessions[i].status
           /\ sessions'[i].ueAddress = sessions[i].ueAddress
           /\ sessions'[i].hmno = sessions[i].hmno
           /\ sessions'[i].estimatedCost = sessions[i].estimatedCost
           /\ i # id => sessions'[i] = sessions[i]
      /\ sessions' \in [SessionIds -> Session]
  BY <1>1, <1>2 DEF BaseInv, TypeOK
<1>4. TypeOK'
  BY <1>1, <1>3 DEF BaseInv, TypeOK
<1>5. ActiveSessions' = ActiveSessions /\ Estimated' = Estimated
  BY <1>3 DEF ActiveSessions, Estimated
<1>6. IdsInUse'
  BY <1>1, <1>3 DEF BaseInv, IdsInUse, NoSession, UNKNOWN, PENDING
<1>7. ActiveIsLatest'
  BY <1>1, <1>3, <1>5 DEF BaseInv, ActiveIsLatest, ActiveSessions, LatestRoamingSession
<1>8. NoncesSpent' /\ MessageStartsOneSession' /\ Solvent'
  BY <1>1, <1>5 DEF BaseInv, NoncesSpent, MessageStartsOneSession, Solvent
<1> QED
  BY <1>4, <1>6, <1>7, <1>8 DEF BaseInv

\* What the steps that settle one session share.
SettleOne(id, cost) ==
  LET refund == sessions[id].estimatedCost - cost IN
  /\ sessions[id].status = PENDING
  /\ cost <= sessions[id].estimatedCost
  /\ Finalize(id, cost)
  /\ IF sessions[id].hmno = Mno1 THEN Payout(refund, cost) ELSE Payout(cost, refund)
  /\ UNCHANGED <<sessionCounter, nonces, ueRoamingSessions, startMsg, now, donated>>

\* Settling a session takes exactly its own escrow out of the contract.
LEMMA SettleOnePreserves ==
  ASSUME BaseInv, NEW id \in SessionIds, NEW cost \in Nat, SettleOne(id, cost)
  PROVE  BaseInv'
<1> DEFINE settled == [sessions[id] EXCEPT !.actualCost = cost, !.status = COMPLETED]
           est == sessions[id].estimatedCost
           due1 == IF sessions[id].hmno = Mno1 THEN est - cost ELSE cost
           due2 == est - due1
<1>1. /\ sessions' = [sessions EXCEPT ![id] = settled]
      /\ sessionCounter' = sessionCounter /\ nonces' = nonces
      /\ ueRoamingSessions' = ueRoamingSessions /\ startMsg' = startMsg
      /\ now' = now /\ donated' = donated
      /\ sessions[id].status = PENDING
  BY DEF SettleOne, Finalize, BaseInv, TypeOK, Session
<1>2. /\ settled \in Session /\ settled.status = COMPLETED
      /\ settled.ueAddress = sessions[id].ueAddress /\ settled.hmno = sessions[id].hmno
      /\ settled.estimatedCost = est
  <2>1. sessions[id] \in Session
    BY DEF BaseInv, TypeOK
  <2>2. ASSUME NEW s \in Session
        PROVE  /\ [s EXCEPT !.actualCost = cost, !.status = COMPLETED] \in Session
               /\ [s EXCEPT !.actualCost = cost, !.status = COMPLETED].status = COMPLETED
               /\ [s EXCEPT !.actualCost = cost, !.status = COMPLETED].ueAddress = s.ueAddress
               /\ [s EXCEPT !.actualCost = cost, !.status = COMPLETED].hmno = s.hmno
               /\ [s EXCEPT !.actualCost = cost, !.status = COMPLETED].estimatedCost
                    = s.estimatedCost
    BY DEF Session
  <2> QED
    BY <2>1, <2>2
<1> HIDE DEF settled
<1>3. est \in Nat /\ cost <= est /\ due1 \in Nat /\ due2 \in Nat
  BY DEF SettleOne, BaseInv, TypeOK, Session
<1>4. /\ est <= bal[Self]
      /\ bal' = [bal EXCEPT ![Mno1] = @ + due1, ![Mno2] = @ + due2, ![Self] = @ - est]
  <2>1. due1 + due2 = est /\ Payout(due1, due2)
    <3>1. CASE sessions[id].hmno = Mno1
      <4>1. due1 = est - cost /\ due2 = cost
        BY <1>3, <3>1
      <4> QED
        BY <1>3, <3>1, <4>1 DEF SettleOne
    <3>2. CASE sessions[id].hmno # Mno1
      BY <1>3, <3>2 DEF SettleOne
    <3> QED
      BY <3>1, <3>2
  <2> HIDE DEF due1, due2
  <2> QED
    BY <2>1 DEF Payout
<1> HIDE DEF due1, due2
<1>5. TypeOK'
  <2>1. bal \in [Accounts -> Nat]
    BY DEF BaseInv, TypeOK
  <2>2. Mno1 \in Accounts /\ Mno2 \in Accounts /\ Self \in Accounts
    BY ConstructorChecks DEF Accounts, Mnos
  <2>3. Mno1 # Mno2 /\ Mno1 # Self /\ Mno2 # Self
    BY ConstructorChecks DEF Mnos
  <2> HIDE DEF est
  <2>4. bal' \in [Accounts -> Nat]
    BY <1>3, <1>4, <2>1, <2>2, <2>3
  <2> QED
    BY <1>1, <1>2, <2>4 DEF BaseInv, TypeOK
<1>6. /\ \A i \in SessionIds :
           /\ sessions'[i].ueAddress = sessions[i].ueAddress
           /\ sessions'[i].hmno = sessions[i].hmno
           /\ sessions'[i].estimatedCost = sessions[i].estimatedCost
           /\ i # id => sessions'[i] = sessions[i]
      /\ sessions'[id].status = COMPLETED
  BY <1>1, <1>2 DEF BaseInv, TypeOK
<1>7. /\ id \in ActiveSessions /\ ActiveSessions' = ActiveSessions \ {id}
      /\ Estimated' = Estimated /\ Estimated[id] = est
  BY <1>1, <1>6 DEF ActiveSessions, Estimated, PENDING, COMPLETED
<1>8. IdsInUse'
  BY <1>1, <1>6 DEF BaseInv, IdsInUse, NoSession, UNKNOWN, PENDING
<1>9. ActiveIsLatest'
  BY <1>1, <1>6, <1>7 DEF BaseInv, ActiveIsLatest, ActiveSessions, LatestRoamingSession
<1>10. NoncesSpent' /\ MessageStartsOneSession'
  BY <1>1 DEF BaseInv, NoncesSpent, MessageStartsOneSession
<1>11. Solvent'
  <2>1. Total(ActiveSessions \ {id}, Estimated) = Total(ActiveSessions, Estimated) - est
    BY <1>7, ActiveFinite, TotalRemove DEF BaseInv
  <2>2. bal'[Self] = bal[Self] - est
    BY <1>4, ConstructorChecks DEF BaseInv, TypeOK, Accounts, Mnos
  <2>3. donated \in Nat /\ Total(ActiveSessions, Estimated) \in Nat
    BY ActiveFinite DEF BaseInv, TypeOK
  <2>4. bal[Self] = Total(ActiveSessions, Estimated) + donated
    BY DEF BaseInv, Solvent
  <2>5. Total(ActiveSessions, Estimated)' = Total(ActiveSessions, Estimated) - est
    BY <1>7, <2>1
  <2> HIDE DEF est
  <2>6. bal'[Self] = Total(ActiveSessions, Estimated)' + donated'
    BY <1>1, <1>3, <2>2, <2>3, <2>4, <2>5
  <2> QED
    BY <2>6 DEF Solvent
<1> QED
  BY <1>5, <1>8, <1>9, <1>10, <1>11 DEF BaseInv

------------------------------------------------------------------------------
\* What the steps do to the sessions that they do not settle.

\* Starting a session touches no session that was started before.
LEMMA StartKeepsSessions ==
  ASSUME BaseInv,
         NEW ue \in UEs \cup {NoAddress}, NEW hmno \in Signers, NEW est \in Estimates,
         NEW nonce \in 0 .. MaxSessions, NEW received \in 0 .. est,
         StartRoamingSession(ue, est, nonce, hmno, received)
  PROVE  /\ SessionStep
         /\ \A i \in SessionIds : sessions'[i].status = COMPLETED => sessions'[i] = sessions[i]
<1> DEFINE new == sessionCounter + 1
           started == [NoSession EXCEPT !.ueAddress = ue, !.hmno = hmno,
                                        !.estimatedCost = est, !.status = PENDING]
<1>1. sessions' = [sessions EXCEPT ![new] = started]
  BY DEF StartRoamingSession, ValidStart, NoOngoingSession, EnterSession
<1>2. started.status = PENDING
  BY DEF NoSession
<1> HIDE DEF started
<1>3. sessionCounter \in Nat /\ sessions \in [SessionIds -> Session]
  BY BoundsAssumption DEF BaseInv, TypeOK
<1>4. \A i \in SessionIds : i # new => sessions'[i] = sessions[i]
  BY <1>1, <1>3
<1>5. new \in SessionIds => sessions'[new].status = PENDING /\ sessions[new].status = UNKNOWN
  BY <1>1, <1>2, <1>3 DEF BaseInv, IdsInUse, NoSession
<1>6. SessionStep
  BY <1>3, <1>4, <1>5 DEF SessionStep, PENDING, COMPLETED, UNKNOWN
<1> QED
  BY <1>4, <1>5, <1>6 DEF PENDING, COMPLETED

\* Committing a hash changes nothing else, and only where none was committed.
LEMMA SubmitKeepsSessions ==
  ASSUME BaseInv, NEW sender \in UEs, NEW id \in SessionIds, NEW hash \in Hashes,
         SubmitCDR(sender, id, hash)
  PROVE  /\ SessionStep
         /\ \A i \in SessionIds : sessions'[i].status = COMPLETED => sessions'[i] = sessions[i]
<1>1. /\ sessions' = [sessions EXCEPT ![id].ueCDRHash = hash]
      /\ sessions[id].status = PENDING /\ sessions[id].ueCDRHash = NoHash
  BY DEF SubmitCDR
<1>2. sessions \in [SessionIds -> Session]
  BY DEF BaseInv, TypeOK
<1>3. /\ \A i \in SessionIds : i # id => sessions'[i] = sessions[i]
      /\ sessions'[id].status = sessions[id].status
      /\ sessions'[id].ueAddress = sessions[id].ueAddress
      /\ sessions'[id].hmno = sessions[id].hmno
      /\ sessions'[id].estimatedCost = sessions[id].estimatedCost
  BY <1>1, <1>2 DEF Session
<1>4. SessionStep
  BY <1>1, <1>3 DEF SessionStep, PENDING, COMPLETED
<1> QED
  BY <1>1, <1>3, <1>4 DEF PENDING, COMPLETED

\* Settling a session takes it from PENDING to COMPLETED and touches no other.
LEMMA SettleKeepsSessions ==
  ASSUME BaseInv, NEW id \in SessionIds, NEW cost \in Nat, SettleOne(id, cost)
  PROVE  /\ SessionStep
         /\ \A i \in SessionIds : i # id => sessions'[i] = sessions[i]
         /\ sessions'[id].actualCost = cost
         /\ sessions'[id].estimatedCost = sessions[id].estimatedCost
         /\ sessions'[id].ueCDRHash = sessions[id].ueCDRHash
<1>1. /\ sessions' = [sessions EXCEPT ![id].actualCost = cost, ![id].status = COMPLETED]
      /\ sessions[id].status = PENDING
  BY DEF SettleOne, Finalize
<1>2. sessions \in [SessionIds -> Session]
  BY DEF BaseInv, TypeOK
<1>3. /\ \A i \in SessionIds : i # id => sessions'[i] = sessions[i]
      /\ sessions'[id].status = COMPLETED
      /\ sessions'[id].actualCost = cost
      /\ sessions'[id].ueAddress = sessions[id].ueAddress
      /\ sessions'[id].hmno = sessions[id].hmno
      /\ sessions'[id].estimatedCost = sessions[id].estimatedCost
      /\ sessions'[id].ueCDRHash = sessions[id].ueCDRHash
  BY <1>1, <1>2 DEF Session
<1>4. SessionStep
  BY <1>1, <1>3 DEF SessionStep, PENDING, COMPLETED
<1> QED
  BY <1>3, <1>4

------------------------------------------------------------------------------
\* Settling a batch.

\* What the transactions that settle a batch share.
SettleBatchOf(ids, costs) ==
  /\ SettleSessions(ids, costs)
  /\ UNCHANGED <<sessionCounter, nonces, ueRoamingSessions, startMsg, now, donated>>

\* What settling writes into a session.
Settled(s, cost) == [s EXCEPT !.actualCost = cost, !.status = COMPLETED]

\* It writes the cost and the status, and nothing else.
LEMMA SettledFields ==
  ASSUME NEW s \in Session, NEW cost \in Nat
  PROVE  /\ Settled(s, cost) \in Session
         /\ Settled(s, cost).status = COMPLETED
         /\ Settled(s, cost).actualCost = cost
         /\ Settled(s, cost).ueAddress = s.ueAddress
         /\ Settled(s, cost).hmno = s.hmno
         /\ Settled(s, cost).estimatedCost = s.estimatedCost
         /\ Settled(s, cost).ueCDRHash = s.ueCDRHash
BY DEF Session, Settled

\* The loop refuses a session that an earlier entry finalized, so that a batch names
\* different pending sessions, each with a cost within its own escrow.
LEMMA BatchEntries ==
  ASSUME TypeOK, NEW n \in Nat, NEW ids \in [1 .. n -> SessionIds],
         NEW costs, \A i \in 1 .. n : costs[i] \in Nat,
         Settleable(ids, costs)
  PROVE  /\ \A i, j \in 1 .. n : ids[i] = ids[j] => i = j
         /\ \A i \in 1 .. n : /\ ids[i] \in ActiveSessions
                              /\ sessions[ids[i]] \in Session
                              /\ sessions[ids[i]].estimatedCost \in Nat
                              /\ costs[i] <= sessions[ids[i]].estimatedCost
<1>1. \A i \in 1 .. n : /\ sessions[ids[i]].status = PENDING
                        /\ \A j \in 1 .. i - 1 : ids[j] # ids[i]
                        /\ costs[i] <= sessions[ids[i]].estimatedCost
  BY DEF Settleable
<1>2. \A i, j \in 1 .. n : i < j => ids[i] # ids[j]
  BY <1>1
<1>3. \A i, j \in 1 .. n : ids[i] = ids[j] => i = j
  BY <1>2
<1>4. \A i \in 1 .. n : /\ ids[i] \in ActiveSessions
                        /\ sessions[ids[i]] \in Session
                        /\ sessions[ids[i]].estimatedCost \in Nat
  BY <1>1 DEF ActiveSessions, TypeOK, Session
<1> QED
  BY <1>1, <1>3, <1>4

\* What the loop adds up for the two operators is together the escrow of the sessions
\* it settles, whoever is home to which.
LEMMA BatchDues ==
  ASSUME BaseInv, NEW n \in Nat, NEW ids \in [1 .. n -> SessionIds],
         NEW costs, \A i \in 1 .. n : costs[i] \in Nat,
         Settleable(ids, costs)
  PROVE  LET S == {ids[i] : i \in 1 .. n} IN
         /\ S \in SUBSET ActiveSessions
         /\ Due(Mno1, ids, costs) \in Nat /\ Due(Mno2, ids, costs) \in Nat
         /\ Due(Mno1, ids, costs) + Due(Mno2, ids, costs) = Total(S, Estimated)
<1> DEFINE D == 1 .. n
           S == {ids[i] : i \in D}
           est == [i \in D |-> sessions[ids[i]].estimatedCost]
           dues(m) == [i \in D |-> IF sessions[ids[i]].hmno = m
                                   THEN sessions[ids[i]].estimatedCost - costs[i]
                                   ELSE costs[i]]
<1>1. TypeOK /\ IdsInUse /\ IsFiniteSet(D) /\ DOMAIN ids = D
  BY FS_Interval DEF BaseInv
<1>2. /\ \A i, j \in D : ids[i] = ids[j] => i = j
      /\ \A i \in D : /\ ids[i] \in ActiveSessions
                      /\ sessions[ids[i]].estimatedCost \in Nat
                      /\ costs[i] \in Nat /\ costs[i] <= sessions[ids[i]].estimatedCost
  BY <1>1, BatchEntries
<1>3. \A i \in D : dues(Mno1)[i] \in Nat /\ dues(Mno2)[i] \in Nat
  BY <1>2
<1>4. \A i \in D : est[i] = dues(Mno1)[i] + dues(Mno2)[i]
  <2> TAKE i \in D
  <2>1. sessions[ids[i]].hmno \in {Mno1, Mno2} /\ Mno1 # Mno2
    BY <1>1, <1>2, ConstructorChecks
    DEF IdsInUse, ActiveSessions, NoSession, UNKNOWN, PENDING, Mnos
  <2> QED
    BY <1>2, <2>1
<1>5. Due(Mno1, ids, costs) = Total(D, dues(Mno1)) /\ Due(Mno2, ids, costs) = Total(D, dues(Mno2))
  BY <1>1 DEF Due
<1>6. /\ \A i \in D : est[i] = Estimated[ids[i]]
      /\ \A id \in S : Estimated[id] \in Nat
      /\ Enumerates(ids, D, S)
  BY <1>1, <1>2, ActiveFinite DEF Enumerates
<1>10. S \in SUBSET ActiveSessions
  BY <1>2
<1> HIDE DEF dues, est, S
<1>7. Total(D, est) = Total(D, dues(Mno1)) + Total(D, dues(Mno2))
  <2>1. IsFiniteSet(D) /\ \A i \in D : dues(Mno1)[i] \in Nat /\ dues(Mno2)[i] \in Nat
    BY <1>1, <1>3
  <2> HIDE DEF D
  <2> QED
    BY <1>4, <2>1, TotalPlus
<1>8. Total(D, dues(Mno1)) \in Nat /\ Total(D, dues(Mno2)) \in Nat
  BY <1>1, <1>3, TotalType
<1>9. Total(S, Estimated) = Total(D, est)
  BY <1>1, <1>2, <1>6, TotalReindex
<1>11. /\ Due(Mno1, ids, costs) \in Nat /\ Due(Mno2, ids, costs) \in Nat
       /\ Due(Mno1, ids, costs) + Due(Mno2, ids, costs) = Total(S, Estimated)
  BY <1>5, <1>7, <1>8, <1>9
<1> QED
  BY <1>10, <1>11, Zenon DEF S

\* What a batch does to the session table: its sessions are completed at their costs,
\* the others are not touched.
LEMMA BatchEffect ==
  ASSUME BaseInv, NEW n \in Nat, NEW ids \in [1 .. n -> SessionIds],
         NEW costs, \A i \in 1 .. n : costs[i] \in Nat,
         SettleSessions(ids, costs)
  PROVE  /\ \A i \in 1 .. n :
              /\ sessions[ids[i]] \in Session /\ sessions[ids[i]].status = PENDING
              /\ costs[i] <= sessions[ids[i]].estimatedCost
              /\ sessions'[ids[i]] = Settled(sessions[ids[i]], costs[i])
         /\ \A id \in SessionIds :
              (\A i \in 1 .. n : ids[i] # id) => sessions'[id] = sessions[id]
         /\ sessions' \in [SessionIds -> Session]
<1>1. /\ Settleable(ids, costs) /\ TypeOK /\ DOMAIN ids = 1 .. n
      /\ sessions' = [id \in SessionIds |->
           IF \E i \in 1 .. n : ids[i] = id
           THEN Settled(sessions[id], costs[CHOOSE i \in 1 .. n : ids[i] = id])
           ELSE sessions[id]]
  BY DEF SettleSessions, BaseInv, Settled
<1>2. /\ \A i, j \in 1 .. n : ids[i] = ids[j] => i = j
      /\ \A i \in 1 .. n : /\ ids[i] \in ActiveSessions
                           /\ sessions[ids[i]] \in Session
                           /\ costs[i] <= sessions[ids[i]].estimatedCost
  BY <1>1, BatchEntries
<1>3. ASSUME NEW i \in 1 .. n
      PROVE  /\ sessions[ids[i]] \in Session /\ sessions[ids[i]].status = PENDING
             /\ costs[i] <= sessions[ids[i]].estimatedCost
             /\ sessions'[ids[i]] = Settled(sessions[ids[i]], costs[i])
  <2>1. (CHOOSE k \in 1 .. n : ids[k] = ids[i]) = i
    BY <1>2
  <2>2. sessions'[ids[i]] = Settled(sessions[ids[i]], costs[i])
    BY <1>1, <2>1
  <2> QED
    BY <1>2, <2>2 DEF ActiveSessions
<1>4. \A id \in SessionIds : (\A i \in 1 .. n : ids[i] # id) => sessions'[id] = sessions[id]
  BY <1>1
<1>5. sessions' \in [SessionIds -> Session]
  <2>1. ASSUME NEW id \in SessionIds PROVE sessions'[id] \in Session
    <3>1. CASE \E i \in 1 .. n : ids[i] = id
      <4>1. PICK i \in 1 .. n : ids[i] = id
        BY <3>1
      <4>2. Settled(sessions[ids[i]], costs[i]) \in Session
        BY <1>3, SettledFields
      <4> QED
        BY <1>3, <4>1, <4>2
    <3>2. CASE \A i \in 1 .. n : ids[i] # id
      BY <1>1, <1>4, <3>2 DEF TypeOK
    <3> QED
      BY <3>1, <3>2
  <2>2. sessions' = [id \in SessionIds |-> sessions'[id]]
    BY <1>1
  <2> QED
    BY <2>1, <2>2
<1> QED
  BY <1>3, <1>4, <1>5

\* A batch takes exactly the escrow of its own sessions out of the contract, whatever the
\* two operators net.
LEMMA BatchPreserves ==
  ASSUME BaseInv, NEW n \in Nat, NEW ids \in [1 .. n -> SessionIds],
         NEW costs, \A i \in 1 .. n : costs[i] \in Nat,
         SettleBatchOf(ids, costs)
  PROVE  BaseInv'
<1> DEFINE S == {ids[i] : i \in 1 .. n}
           due1 == Due(Mno1, ids, costs)
           due2 == Due(Mno2, ids, costs)
<1>1. /\ SettleSessions(ids, costs) /\ Settleable(ids, costs)
      /\ sessionCounter' = sessionCounter /\ nonces' = nonces
      /\ ueRoamingSessions' = ueRoamingSessions /\ startMsg' = startMsg
      /\ now' = now /\ donated' = donated
      /\ due1 + due2 <= bal[Self]
      /\ bal' = [bal EXCEPT ![Mno1] = @ + due1, ![Mno2] = @ + due2,
                            ![Self] = @ - (due1 + due2)]
  BY DEF SettleBatchOf, SettleSessions, Payout
<1>2. /\ \A i \in SessionIds :
           /\ sessions'[i].ueAddress = sessions[i].ueAddress
           /\ sessions'[i].hmno = sessions[i].hmno
           /\ sessions'[i].estimatedCost = sessions[i].estimatedCost
           /\ i \notin S => sessions'[i] = sessions[i]
      /\ \A i \in S : sessions[i].status = PENDING /\ sessions'[i].status = COMPLETED
      /\ sessions' \in [SessionIds -> Session]
  <2>1. /\ \A i \in 1 .. n :
             /\ sessions[ids[i]] \in Session /\ sessions[ids[i]].status = PENDING
             /\ sessions'[ids[i]] = Settled(sessions[ids[i]], costs[i])
        /\ \A id \in SessionIds :
             (\A i \in 1 .. n : ids[i] # id) => sessions'[id] = sessions[id]
        /\ sessions' \in [SessionIds -> Session]
    BY <1>1, BatchEffect
  <2>2. ASSUME NEW i \in 1 .. n
        PROVE  /\ sessions'[ids[i]].status = COMPLETED
               /\ sessions'[ids[i]].ueAddress = sessions[ids[i]].ueAddress
               /\ sessions'[ids[i]].hmno = sessions[ids[i]].hmno
               /\ sessions'[ids[i]].estimatedCost = sessions[ids[i]].estimatedCost
    BY <2>1, SettledFields
  <2> QED
    BY <2>1, <2>2
<1>3. /\ S \in SUBSET ActiveSessions /\ due1 \in Nat /\ due2 \in Nat
      /\ due1 + due2 = Total(S, Estimated)
  BY <1>1, BatchDues
<1> HIDE DEF S, due1, due2
<1>4. TypeOK'
  <2>1. bal \in [Accounts -> Nat]
    BY DEF BaseInv, TypeOK
  <2>2. Mno1 \in Accounts /\ Mno2 \in Accounts /\ Self \in Accounts
    BY ConstructorChecks DEF Accounts, Mnos
  <2>3. Mno1 # Mno2 /\ Mno1 # Self /\ Mno2 # Self
    BY ConstructorChecks DEF Mnos
  <2>4. /\ bal[Mno1] + due1 \in Nat /\ bal[Mno2] + due2 \in Nat
        /\ bal[Self] - (due1 + due2) \in Nat
    <3>1. bal[Mno1] \in Nat /\ bal[Mno2] \in Nat /\ bal[Self] \in Nat
      BY <2>1, <2>2
    <3>2. due1 \in Nat /\ due2 \in Nat /\ due1 + due2 <= bal[Self]
      BY <1>1, <1>3
    <3> QED
      BY <3>1, <3>2
  <2>5. bal' \in [Accounts -> Nat]
    <3>1. bal'[Mno1] = bal[Mno1] + due1 /\ bal'[Mno2] = bal[Mno2] + due2
          /\ bal'[Self] = bal[Self] - (due1 + due2)
      BY <1>1, <2>1, <2>2, <2>3
    <3>2. \A a \in Accounts : a \notin {Mno1, Mno2, Self} => bal'[a] = bal[a]
      BY <1>1, <2>1
    <3>3. \A a \in Accounts : bal'[a] \in Nat
      BY <2>1, <2>4, <3>1, <3>2
    <3>4. bal' = [a \in Accounts |-> bal'[a]]
      BY <1>1, <2>1
    <3> QED
      BY <3>3, <3>4
  <2> QED
    BY <1>1, <1>2, <2>5 DEF BaseInv, TypeOK
<1>5. ActiveSessions' = ActiveSessions \ S /\ Estimated' = Estimated
  BY <1>2 DEF ActiveSessions, Estimated, PENDING, COMPLETED
<1>6. IdsInUse'
  BY <1>1, <1>2 DEF BaseInv, IdsInUse, NoSession, UNKNOWN, PENDING
<1>7. ActiveIsLatest'
  BY <1>1, <1>2, <1>5 DEF BaseInv, ActiveIsLatest, ActiveSessions, LatestRoamingSession
<1>8. NoncesSpent' /\ MessageStartsOneSession'
  BY <1>1 DEF BaseInv, NoncesSpent, MessageStartsOneSession
<1>9. Solvent'
  <2>1. /\ Total(ActiveSessions, Estimated)
             = Total(ActiveSessions \ S, Estimated) + Total(S, Estimated)
        /\ Total(ActiveSessions \ S, Estimated) \in Nat
    BY <1>3, ActiveFinite, TotalWithout DEF BaseInv
  <2>2. bal'[Self] = bal[Self] - (due1 + due2)
    BY <1>1, ConstructorChecks DEF BaseInv, TypeOK, Accounts, Mnos
  <2>3. donated \in Nat /\ bal[Self] = Total(ActiveSessions, Estimated) + donated
    BY DEF BaseInv, TypeOK, Solvent
  <2>4. Total(ActiveSessions, Estimated)' = Total(ActiveSessions \ S, Estimated)
    BY <1>5
  <2>5. bal'[Self] = Total(ActiveSessions, Estimated)' + donated'
    BY <1>1, <1>3, <2>1, <2>2, <2>3, <2>4
  <2> QED
    BY <2>5 DEF Solvent
<1> QED
  BY <1>4, <1>6, <1>7, <1>8, <1>9 DEF BaseInv

\* A batch takes its sessions from PENDING to COMPLETED and touches no other.
LEMMA BatchKeepsSessions ==
  ASSUME BaseInv, NEW n \in Nat, NEW ids \in [1 .. n -> SessionIds],
         NEW costs, \A i \in 1 .. n : costs[i] \in Nat,
         SettleSessions(ids, costs)
  PROVE  SessionStep
<1>1. ASSUME NEW i \in 1 .. n
      PROVE  /\ sessions[ids[i]].status = PENDING
             /\ sessions'[ids[i]].status = COMPLETED
             /\ sessions'[ids[i]].ueAddress = sessions[ids[i]].ueAddress
             /\ sessions'[ids[i]].hmno = sessions[ids[i]].hmno
             /\ sessions'[ids[i]].estimatedCost = sessions[ids[i]].estimatedCost
             /\ sessions'[ids[i]].ueCDRHash = sessions[ids[i]].ueCDRHash
  <2>1. /\ sessions[ids[i]] \in Session /\ sessions[ids[i]].status = PENDING
        /\ sessions'[ids[i]] = Settled(sessions[ids[i]], costs[i])
        /\ costs[i] \in Nat
    BY BatchEffect
  <2>2. /\ Settled(sessions[ids[i]], costs[i]).status = COMPLETED
        /\ Settled(sessions[ids[i]], costs[i]).ueAddress = sessions[ids[i]].ueAddress
        /\ Settled(sessions[ids[i]], costs[i]).hmno = sessions[ids[i]].hmno
        /\ Settled(sessions[ids[i]], costs[i]).estimatedCost = sessions[ids[i]].estimatedCost
        /\ Settled(sessions[ids[i]], costs[i]).ueCDRHash = sessions[ids[i]].ueCDRHash
    BY <2>1, SettledFields
  <2> QED
    BY <2>1, <2>2
<1>2. \A id \in SessionIds : (\A i \in 1 .. n : ids[i] # id) => sessions'[id] = sessions[id]
  BY BatchEffect
<1> QED
  BY <1>1, <1>2 DEF SessionStep, PENDING, COMPLETED

------------------------------------------------------------------------------
\* The steps that every settlement contract has.

\* They preserve the invariant, follow every session's life cycle and complete none.
LEMMA BaseNextPreserves ==
  ASSUME BaseInv, BaseNext
  PROVE  /\ BaseInv' /\ SessionStep
         /\ \A i \in SessionIds : sessions'[i].status = COMPLETED => sessions'[i] = sessions[i]
<1>1. ASSUME NEW ue \in UEs \cup {NoAddress}, NEW hmno \in Signers, NEW est \in Estimates,
             NEW nonce \in 0 .. MaxSessions, NEW received \in 0 .. est,
             StartRoamingSession(ue, est, nonce, hmno, received)
      PROVE  /\ BaseInv' /\ SessionStep
             /\ \A i \in SessionIds :
                  sessions'[i].status = COMPLETED => sessions'[i] = sessions[i]
  BY <1>1, StartPreserves, StartKeepsSessions
<1>2. UNCHANGED sessions => SessionStep
  BY DEF SessionStep, PENDING, COMPLETED
<1>3. ASSUME NEW from \in Signers, NEW amount \in 1 .. MaxDonation, Donate(from, amount)
      PROVE  BaseInv' /\ UNCHANGED sessions
  BY <1>3, DonatePreserves DEF Donate, bookVars
<1>4. CASE Tick
  BY <1>2, <1>4, TickPreserves DEF Tick, bookVars
<1> QED
  BY <1>1, <1>2, <1>3, <1>4 DEF BaseNext

\* A step that leaves the variables of AgreementBase alone does so too.
LEMMA StutterKeepsSessions ==
  ASSUME BaseInv, UNCHANGED vars
  PROVE  /\ BaseInv' /\ SessionStep /\ UNCHANGED sessions
<1>1. UNCHANGED sessions
  BY DEF vars, bookVars
<1> QED
  BY <1>1, StutterPreserves DEF SessionStep, PENDING, COMPLETED

------------------------------------------------------------------------------
\* How a step shows in the escrow that RoamingEscrow promises.

\* What the ledger shows of a session that was started.
LEMMA EntryOfStarted ==
  ASSUME NEW s \in Session, s.status # UNKNOWN
  PROVE  /\ LedgerEntry(s) # NoSession
         /\ LedgerEntry(s).state = "open" <=> s.status = PENDING
         /\ LedgerEntry(s).user = s.ueAddress
         /\ LedgerEntry(s).home = s.hmno
         /\ LedgerEntry(s).est = s.estimatedCost
<1> DEFINE e == [state |-> IF s.status = PENDING THEN "open" ELSE "settled",
                 user |-> s.ueAddress, home |-> s.hmno,
                 est |-> s.estimatedCost, cost |-> s.actualCost]
<1>1. LedgerEntry(s) = e
  BY DEF LedgerEntry
<1>2. "state" \in DOMAIN e /\ "state" \notin DOMAIN NoSession
  BY DEF NoSession
<1>3. e # NoSession
  BY <1>2
<1> QED
  BY <1>1, <1>3

\* The open sessions of the ledger are the pending ones.
LEMMA OpenIsActive ==
  ASSUME TypeOK
  PROVE  /\ Promise!Open = ActiveSessions
         /\ \A i \in ActiveSessions : /\ LedgerView[i].user = sessions[i].ueAddress
                                      /\ LedgerView[i].home = sessions[i].hmno
                                      /\ LedgerView[i].est = sessions[i].estimatedCost
<1>1. \A i \in SessionIds : sessions[i] \in Session /\ LedgerView[i] = LedgerEntry(sessions[i])
  BY DEF TypeOK, LedgerView
<1>2. \A i \in SessionIds :
        LedgerView[i] # NoSession /\ LedgerView[i].state = "open" <=> sessions[i].status = PENDING
  <2> TAKE i \in SessionIds
  <2>1. CASE sessions[i].status = UNKNOWN
    BY <1>1, <2>1 DEF LedgerEntry, UNKNOWN, PENDING
  <2>2. CASE sessions[i].status # UNKNOWN
    BY <1>1, <2>2, EntryOfStarted
  <2> QED
    BY <2>1, <2>2
<1>3. Promise!Open = ActiveSessions
  BY <1>2 DEF Promise!Open, Promise!Opened, ActiveSessions
<1>4. \A i \in ActiveSessions : i \in SessionIds /\ sessions[i].status # UNKNOWN
  BY DEF ActiveSessions, UNKNOWN, PENDING
<1> QED
  BY <1>1, <1>3, <1>4, EntryOfStarted

\* What a settlement settles is open in the ledger no more.
LEMMA SettlingCloses ==
  ASSUME TypeOK, NEW S \in SUBSET Promise!Open, NEW cost, Promise!SettleSessions(S, cost)
  PROVE  S \in SUBSET (Promise!Open \ Promise!Open')
<1> SUFFICES ASSUME NEW id \in S PROVE id \notin Promise!Open'
  OBVIOUS
<1>1. /\ id \in SessionIds
      /\ LedgerView'[id] = [LedgerView[id] EXCEPT !.state = "settled", !.cost = cost[id]]
  BY DEF Promise!SettleSessions, Promise!Open, Promise!Opened
<1>2. sessions[id].status = PENDING /\ LedgerView[id] = LedgerEntry(sessions[id])
  BY <1>1, OpenIsActive DEF ActiveSessions, LedgerView
<1>3. DOMAIN LedgerView[id] = {"state", "user", "home", "est", "cost"}
  BY <1>2 DEF LedgerEntry, UNKNOWN, PENDING
<1>4. LedgerView'[id].state = "settled"
  BY <1>1, <1>3
<1> QED
  BY <1>4 DEF Promise!Open

\* The sums of the escrow are those of TokenSums.
LEMMA SameTotal == ASSUME NEW S, NEW f PROVE Promise!Total(S, f) = Total(S, f)
<1>1. Promise!Tokens(S, f) = Tokens(S, f)
  BY DEF Promise!Tokens, Tokens
<1>2. ASSUME NEW T PROVE Promise!Cardinality(T) = Cardinality(T)
  BY DEF Promise!Cardinality, Cardinality
<1> QED
  BY <1>1, <1>2 DEF Promise!Total, Total

\* Nothing is in the ledger and nothing in escrow at deployment.
LEMMA InitRefines == Init => Promise!EInit
<1> SUFFICES ASSUME Init PROVE Promise!EInit
  OBVIOUS
<1>1. LedgerView = [id \in SessionIds |-> NoSession]
  BY DEF Init, LedgerView, LedgerEntry, NoSession, UNKNOWN
<1>2. bal \in [Accounts -> Nat]
  BY BaseInit DEF BaseInv, TypeOK
<1>3. bal[Self] = 0
  BY ConstructorChecks DEF Init, Accounts
<1> QED
  BY <1>1, <1>2, <1>3 DEF Promise!EInit

\* Starting a session opens it in the ledger.
LEMMA StartOpens ==
  ASSUME BaseInv,
         NEW ue \in UEs \cup {NoAddress}, NEW hmno \in Signers, NEW est \in Estimates,
         NEW nonce \in 0 .. MaxSessions, NEW received \in 0 .. est,
         StartRoamingSession(ue, est, nonce, hmno, received)
  PROVE  Promise!ENext
<1> DEFINE new == sessionCounter + 1
           started == [NoSession EXCEPT !.ueAddress = ue, !.hmno = hmno,
                                        !.estimatedCost = est, !.status = PENDING]
           opened == [state |-> "open", user |-> ue, home |-> hmno, est |-> est, cost |-> 0]
<1>1. /\ ue # NoAddress /\ est > 0 /\ hmno \in {Mno1, Mno2} /\ est <= bal[hmno]
      /\ sessionCounter < MaxSessions
      /\ bal' = [bal EXCEPT ![hmno] = @ - est, ![Self] = @ + est]
      /\ sessions' = [sessions EXCEPT ![new] = started]
      /\ LatestRoamingSession(ue) # 0 =>
           sessions[LatestRoamingSession(ue)].status = COMPLETED
  BY DEF StartRoamingSession, ValidStart, NoOngoingSession, EnterSession, IsValidHMNO,
         TransferFunds
<1>2. /\ new \in SessionIds /\ ue \in UEs /\ est \in Nat /\ TypeOK /\ IdsInUse /\ ActiveIsLatest
      /\ sessionCounter \in Nat
      /\ est \in 1 .. bal[hmno]
  <2>1. sessionCounter \in 0 .. MaxSessions /\ MaxSessions \in Nat /\ est \in Nat
    BY BoundsAssumption, DataAssumption DEF BaseInv, TypeOK
  <2>2. bal[hmno] \in Nat
    BY DEF BaseInv, TypeOK, Accounts
  <2> QED
    BY <1>1, <2>1, <2>2 DEF BaseInv, SessionIds
<1>3. LedgerView[new] = NoSession
  <2>1. sessions[new] = NoSession
    BY <1>2 DEF IdsInUse
  <2> QED
    BY <1>2, <2>1 DEF LedgerView, LedgerEntry, NoSession
<1>4. \A i \in Promise!Open : LedgerView[i].user # ue
  <2> SUFFICES ASSUME NEW i \in ActiveSessions, sessions[i].ueAddress = ue PROVE FALSE
    BY <1>2, OpenIsActive
  <2>1. LatestRoamingSession(ue) = i
    BY <1>2 DEF ActiveIsLatest
  <2>2. i # 0 /\ sessions[i].status = PENDING
    BY DEF ActiveSessions, SessionIds
  <2> QED
    BY <1>1, <2>1, <2>2 DEF PENDING, COMPLETED
<1>5. LedgerView' = [LedgerView EXCEPT ![new] = opened]
  <2>1. LedgerEntry(started) = opened
    BY DEF LedgerEntry, NoSession, UNKNOWN, PENDING
  <2> HIDE DEF started, opened
  <2>2. LedgerView' = [i \in SessionIds |-> LedgerEntry(sessions'[i])]
    BY DEF LedgerView
  <2>3. \A i \in SessionIds : sessions'[i] = IF i = new THEN started ELSE sessions[i]
    BY <1>1, <1>2 DEF TypeOK
  <2> QED
    BY <2>1, <2>2, <2>3 DEF LedgerView
<1>6. Promise!OpenSession(new, ue, hmno, est)
  BY <1>1, <1>2, <1>3, <1>4, <1>5 DEF Promise!OpenSession
<1>7. new \in Promise!Opened' \ Promise!Opened
  <2>1. LedgerView'[new] = opened
    BY <1>2, <1>5 DEF LedgerView
  <2>2. opened # NoSession
    <3>1. DOMAIN NoSession # DOMAIN opened
      BY DEF NoSession
    <3> QED
      BY <3>1
  <2> HIDE DEF new, opened
  <2> QED
    BY <1>2, <1>3, <2>1, <2>2 DEF Promise!Opened
<1> QED
  BY <1>1, <1>2, <1>6, <1>7 DEF Promise!ENext

\* What the ledger shows of a session that is settled.
Closed(e, cost) == [e EXCEPT !.state = "settled", !.cost = cost]

\* Settling a session closes its entry.
LEMMA SettledEntry ==
  ASSUME NEW s \in Session, s.status = PENDING, NEW cost
  PROVE  LedgerEntry(Settled(s, cost)) = Closed(LedgerEntry(s), cost)
<1> DEFINE t == [s EXCEPT !.actualCost = cost, !.status = COMPLETED]
<1>1. /\ t.status = COMPLETED /\ t.actualCost = cost /\ t.ueAddress = s.ueAddress
      /\ t.hmno = s.hmno /\ t.estimatedCost = s.estimatedCost
  BY DEF Session
<1> HIDE DEF t
<1>2. LedgerEntry(t) = [state |-> "settled", user |-> s.ueAddress, home |-> s.hmno,
                        est |-> s.estimatedCost, cost |-> cost]
  BY <1>1 DEF LedgerEntry, UNKNOWN, PENDING, COMPLETED
<1>3. LedgerEntry(s) = [state |-> "open", user |-> s.ueAddress, home |-> s.hmno,
                        est |-> s.estimatedCost, cost |-> s.actualCost]
  BY DEF LedgerEntry, UNKNOWN, PENDING
<1>4. ASSUME NEW q, q = [LedgerEntry(s) EXCEPT !.state = "settled", !.cost = cost]
      PROVE  q = [state |-> "settled", user |-> s.ueAddress, home |-> s.hmno,
                  est |-> s.estimatedCost, cost |-> cost]
  <2>1. DOMAIN q = {"state", "user", "home", "est", "cost"}
    BY <1>3, <1>4
  <2>2. /\ q.state = "settled" /\ q.user = s.ueAddress /\ q.home = s.hmno
        /\ q.est = s.estimatedCost /\ q.cost = cost
    BY <1>3, <1>4
  <2>3. q = [x \in DOMAIN q |-> q[x]]
    BY <1>4
  <2> QED
    BY <2>1, <2>2, <2>3
<1>5. LedgerEntry(t) = [LedgerEntry(s) EXCEPT !.state = "settled", !.cost = cost]
  BY <1>2, <1>4
<1> QED
  BY <1>5 DEF t, Settled, Closed

\* Settling one session settles it alone in the ledger, and the two shares are what the
\* contract pays out.
LEMMA SettleOneSettles ==
  ASSUME BaseInv, NEW id \in SessionIds, NEW cost \in Nat, SettleOne(id, cost)
  PROVE  Promise!ENext
<1> DEFINE S == {id}
           costOf == [i \in S |-> cost]
           est == sessions[id].estimatedCost
           ShareOf(m) == Promise!Share(m, costOf)
           due1 == IF sessions[id].hmno = Mno1 THEN est - cost ELSE cost
           due2 == IF sessions[id].hmno = Mno1 THEN cost ELSE est - cost
<1>1. TypeOK /\ IdsInUse /\ bal[Self] \in Nat
  BY DEF BaseInv, TypeOK, Accounts
<1>2. /\ id \in ActiveSessions /\ S \subseteq Promise!Open
      /\ LedgerView[id].home = sessions[id].hmno /\ LedgerView[id].est = est
  BY <1>1, OpenIsActive DEF SettleOne, ActiveSessions
<1>3. est \in Nat /\ cost <= est /\ due1 \in Nat /\ due2 \in Nat /\ due1 + due2 = est
  <2>1. est \in Nat /\ cost <= est
    BY <1>1 DEF SettleOne, TypeOK, Session
  <2> QED
    BY <2>1
<1>4. /\ est <= bal[Self]
      /\ bal' = [bal EXCEPT ![Mno1] = @ + due1, ![Mno2] = @ + due2,
                            ![Self] = @ - (due1 + due2)]
  <2>1. Payout(due1, due2)
    BY DEF SettleOne
  <2> QED
    BY <1>3, <2>1 DEF Payout
<1>5. /\ Promise!Total(S, ShareOf(Mno1)) = due1
      /\ Promise!Total(S, ShareOf(Mno2)) = due2
  <2>1. sessions[id].hmno \in {Mno1, Mno2}
    BY <1>1, <1>2 DEF IdsInUse, ActiveSessions, NoSession, UNKNOWN, PENDING, Mnos
  <2>2. ASSUME NEW m \in {Mno1, Mno2}
        PROVE  ShareOf(m)[id] = IF sessions[id].hmno = m THEN est - cost ELSE cost
    <3>1. id \in DOMAIN costOf /\ costOf[id] = cost
      OBVIOUS
    <3> HIDE DEF costOf
    <3> QED
      BY <1>2, <3>1 DEF Promise!Share
  <2>3. ShareOf(Mno1)[id] = due1 /\ ShareOf(Mno2)[id] = due2
    BY <2>1, <2>2, ConstructorChecks
  <2>4. ASSUME NEW f, f[id] \in Nat
        PROVE  Promise!Total(S, f) = f[id]
    <3>1. Promise!Total(S, f) = Total(S, f)
      BY SameTotal
    <3>2. Total({} \cup {id}, f) = Total({}, f) + f[id]
      BY <2>4, FS_EmptySet, TotalAdd
    <3>3. {} \cup {id} = S
      OBVIOUS
    <3> QED
      BY <2>4, <3>1, <3>2, <3>3, TotalEmpty
  <2> HIDE DEF S, ShareOf, due1, due2
  <2> QED
    BY <1>3, <2>3, <2>4
<1>6. LedgerView' = [i \in SessionIds |->
        IF i \in S THEN [LedgerView[i] EXCEPT !.state = "settled", !.cost = costOf[i]]
        ELSE LedgerView[i]]
  <2> DEFINE settled == [sessions[id] EXCEPT !.actualCost = cost, !.status = COMPLETED]
  <2>1. sessions' = [sessions EXCEPT ![id] = settled] /\ sessions[id] \in Session
    BY <1>1 DEF SettleOne, Finalize, TypeOK, Session
  <2>2. LedgerEntry(settled) = [LedgerEntry(sessions[id]) EXCEPT !.state = "settled",
                                                                 !.cost = cost]
    BY <2>1, SettledEntry DEF SettleOne, Settled, Closed
  <2> HIDE DEF settled
  <2>3. \A i \in SessionIds : sessions'[i] = IF i = id THEN settled ELSE sessions[i]
    BY <1>1, <2>1 DEF TypeOK
  <2>4. LedgerView' = [i \in SessionIds |-> LedgerEntry(sessions'[i])]
    BY DEF LedgerView
  <2> QED
    BY <2>2, <2>3, <2>4 DEF LedgerView
<1>7. Promise!SettleSessions(S, costOf)
  <2>1. \A i \in S : costOf[i] <= LedgerView[i].est
    BY <1>2, <1>3
  <2> HIDE DEF costOf, due1, due2
  <2> QED
    BY <1>2, <1>4, <1>5, <1>6, <2>1 DEF Promise!SettleSessions
<1>8. costOf \in [S -> 0 .. bal[Self]]
  BY <1>1, <1>3, <1>4
<1> HIDE DEF S, costOf
<1>9. S \in SUBSET (Promise!Open \ Promise!Open')
  BY <1>1, <1>2, <1>7, SettlingCloses
<1> QED
  BY <1>7, <1>8, <1>9 DEF Promise!ENext

\* Committing a hash does not show in the ledger.
LEMMA SubmitCDRStutters ==
  ASSUME BaseInv, NEW sender \in UEs, NEW id \in SessionIds, NEW hash \in Hashes,
         SubmitCDR(sender, id, hash)
  PROVE  UNCHANGED <<LedgerView, bal>>
<1>1. /\ sessions' = [sessions EXCEPT ![id].ueCDRHash = hash]
      /\ sessions[id].status = PENDING /\ bal' = bal
  BY DEF SubmitCDR
<1>2. sessions \in [SessionIds -> Session]
  BY DEF BaseInv, TypeOK
<1>3. \A i \in SessionIds : LedgerEntry(sessions'[i]) = LedgerEntry(sessions[i])
  BY <1>1, <1>2 DEF Session, LedgerEntry, UNKNOWN, PENDING
<1>4. LedgerView' = [i \in SessionIds |-> LedgerEntry(sessions'[i])]
  BY DEF LedgerView
<1> QED
  BY <1>1, <1>3, <1>4 DEF LedgerView

\* Settling a batch settles its sessions in the ledger, in one step, and the netted sums
\* are the shares of the two operators.
LEMMA BatchSettles ==
  ASSUME BaseInv, NEW n \in Nat \ {0}, NEW ids \in [1 .. n -> SessionIds],
         NEW costs, \A i \in 1 .. n : costs[i] \in Nat,
         SettleSessions(ids, costs)
  PROVE  Promise!ENext
<1> DEFINE D == 1 .. n
           S == {ids[i] : i \in D}
           costOf == [id \in S |-> costs[CHOOSE i \in D : ids[i] = id]]
           due(m) == Due(m, ids, costs)
           ShareOf(m) == Promise!Share(m, costOf)
           dues(m) == [i \in D |-> IF sessions[ids[i]].hmno = m
                                   THEN sessions[ids[i]].estimatedCost - costs[i]
                                   ELSE costs[i]]
<1>1. /\ TypeOK /\ IsFiniteSet(D) /\ DOMAIN ids = D /\ Settleable(ids, costs)
      /\ \A m : due(m) = Total(D, dues(m))
      /\ bal' = [bal EXCEPT ![Mno1] = @ + due(Mno1), ![Mno2] = @ + due(Mno2),
                            ![Self] = @ - (due(Mno1) + due(Mno2))]
      /\ due(Mno1) + due(Mno2) <= bal[Self] /\ bal[Self] \in Nat
  <2>1. DOMAIN ids = D
    OBVIOUS
  <2>2. IsFiniteSet(D)
    BY FS_Interval
  <2> HIDE DEF D
  <2>3. \A m : due(m) = Total(D, dues(m))
    BY <2>1 DEF Due
  <2> HIDE DEF due
  <2>4. /\ Settleable(ids, costs) /\ Payout(due(Mno1), due(Mno2))
    BY DEF SettleSessions, due
  <2> QED
    BY <2>1, <2>2, <2>3, <2>4, ConstructorChecks DEF Payout, BaseInv, TypeOK, Accounts
<1>2. /\ \A i, j \in D : ids[i] = ids[j] => i = j
      /\ \A i \in D : /\ ids[i] \in ActiveSessions
                      /\ sessions[ids[i]].estimatedCost \in Nat
                      /\ costs[i] \in Nat /\ costs[i] <= sessions[ids[i]].estimatedCost
  BY <1>1, BatchEntries
<1>3. /\ S # {} /\ S \in SUBSET ActiveSessions /\ S \subseteq SessionIds /\ Enumerates(ids, D, S)
  BY <1>2 DEF Enumerates
<1>4. \A i \in D : ids[i] \in S /\ costOf[ids[i]] = costs[i]
  <2> TAKE i \in D
  <2>1. (CHOOSE k \in D : ids[k] = ids[i]) = i
    BY <1>2
  <2> QED
    BY <2>1
<1>5. \A i \in D : /\ LedgerView[ids[i]].home = sessions[ids[i]].hmno
                   /\ LedgerView[ids[i]].est = sessions[ids[i]].estimatedCost
  BY <1>1, <1>2, OpenIsActive
<1>6. DOMAIN costOf = S
  OBVIOUS
<1> HIDE DEF S, D, costOf
<1>7. ASSUME NEW m
      PROVE  Promise!Total(S, ShareOf(m)) = due(m)
  <2>1. ShareOf(m) = [id \in S |-> IF LedgerView[id].home = m THEN LedgerView[id].est - costOf[id]
                                   ELSE costOf[id]]
    BY <1>6 DEF Promise!Share
  <2>2. \A i \in D : dues(m)[i] = ShareOf(m)[ids[i]] /\ dues(m)[i] \in Nat
    BY <1>2, <1>4, <1>5, <2>1
  <2>3. \A id \in S : ShareOf(m)[id] \in Nat
    BY <1>3, <2>2 DEF Enumerates
  <2> HIDE DEF ShareOf, dues
  <2>4. Total(S, ShareOf(m)) = Total(D, dues(m))
    <3>1. \A i \in D : dues(m)[i] = ShareOf(m)[ids[i]]
      BY <2>2
    <3>2. IsFiniteSet(D) /\ Enumerates(ids, D, S)
      BY <1>1, <1>3
    <3> QED
      BY <2>3, <3>1, <3>2, TotalReindex
  <2> QED
    BY <1>1, <2>4, SameTotal
<1>8. LedgerView' = [id \in SessionIds |->
        IF id \in S THEN Closed(LedgerView[id], costOf[id]) ELSE LedgerView[id]]
  <2>1. LedgerView' = [id \in SessionIds |-> LedgerEntry(sessions'[id])]
    BY DEF LedgerView
  <2>2. /\ \A i \in D : /\ sessions[ids[i]] \in Session /\ sessions[ids[i]].status = PENDING
                         /\ sessions'[ids[i]] = Settled(sessions[ids[i]], costs[i])
        /\ \A id \in SessionIds :
             (\A i \in D : ids[i] # id) => sessions'[id] = sessions[id]
    BY n \in Nat, BatchEffect DEF D
  <2>3. ASSUME NEW id \in S
        PROVE  LedgerEntry(sessions'[id])
                 = Closed(LedgerEntry(sessions[id]), costOf[id])
    <3>1. PICK i \in D : ids[i] = id
      BY <1>3 DEF Enumerates
    <3>2. /\ sessions'[id] = Settled(sessions[id], costOf[id])
          /\ sessions[id] \in Session /\ sessions[id].status = PENDING
      BY <1>4, <2>2, <3>1
    <3> QED
      BY <3>2, SettledEntry
  <2>4. \A id \in SessionIds : id \notin S => sessions'[id] = sessions[id]
    BY <1>3, <2>2 DEF Enumerates
  <2> QED
    BY <1>3, <2>1, <2>3, <2>4 DEF LedgerView
<1>9. /\ S \in SUBSET Promise!Open
      /\ \A id \in S : costOf[id] <= LedgerView[id].est
  BY <1>1, <1>2, <1>3, <1>4, <1>5, OpenIsActive DEF Enumerates
<1>10. costOf \in [S -> 0 .. bal[Self]]
  <2>1. /\ Total(S, Estimated) <= bal[Self] /\ Total(S, Estimated) \in Nat
    <3>1. /\ due(Mno1) \in Nat /\ due(Mno2) \in Nat
          /\ due(Mno1) + due(Mno2) = Total(S, Estimated)
      <4>1. n \in Nat
        OBVIOUS
      <4> QED
        BY <1>1, <4>1, BatchDues, Zenon DEF S, D
    <3> HIDE DEF due
    <3> QED
      BY <1>1, <3>1
  <2>2. IsFiniteSet(S) /\ \A id \in S : Estimated[id] \in Nat /\ Estimated[id] = LedgerView[id].est
    <3>1. IsFiniteSet(S)
      BY <1>1, <1>3, ActiveFinite, FS_Subset
    <3> QED
      BY <1>1, <1>3, <3>1, ActiveFinite, OpenIsActive
  <2>3. ASSUME NEW id \in S PROVE costOf[id] \in 0 .. bal[Self]
    <3>1. Estimated[id] <= Total(S, Estimated)
      BY <2>2, TotalRemove
    <3>2. costOf[id] \in Nat
      BY <1>2, <1>3, <1>4 DEF Enumerates
    <3>3. costOf[id] <= Estimated[id] /\ Estimated[id] \in Nat
      BY <1>9, <2>2
    <3> QED
      BY <1>1, <2>1, <3>1, <3>2, <3>3
  <2>4. costOf = [id \in S |-> costOf[id]]
    BY DEF costOf
  <2> QED
    BY <2>3, <2>4
<1>11. Promise!SettleSessions(S, costOf)
  <2> HIDE DEF due
  <2> QED
    BY <1>1, <1>3, <1>7, <1>8, <1>9 DEF Promise!SettleSessions, Closed
<1>12. S \in SUBSET (Promise!Open \ Promise!Open')
  BY <1>1, <1>9, <1>11, SettlingCloses
<1> QED
  BY <1>10, <1>11, <1>12 DEF Promise!ENext

\* The steps that every settlement contract has are steps of the escrow, or not seen.
LEMMA BaseNextRefines ==
  ASSUME BaseInv, BaseNext
  PROVE  Promise!ENext \/ UNCHANGED <<LedgerView, bal>>
<1>1. ASSUME NEW from \in Signers, NEW amount \in 1 .. MaxDonation, Donate(from, amount)
      PROVE  Promise!ENext
  <2>1. /\ amount <= bal[from] /\ UNCHANGED sessions
        /\ bal' = [bal EXCEPT ![from] = @ - amount, ![Self] = @ + amount]
    BY <1>1 DEF Donate, bookVars
  <2>2. from \in Accounts \ {Self} /\ bal[from] \in Nat
    BY ConstructorChecks DEF BaseInv, TypeOK, Accounts
  <2>3. amount \in 1 .. bal[from]
    BY <2>1, <2>2, BoundsAssumption
  <2>4. UNCHANGED LedgerView
    BY <2>1 DEF LedgerView
  <2>5. Promise!HandOver(from, amount)
    BY <2>1, <2>2, <2>4 DEF Promise!HandOver
  <2> QED
    BY <2>2, <2>3, <2>5 DEF Promise!ENext
<1>2. CASE Tick
  BY <1>2 DEF Tick, bookVars, LedgerView
<1> QED
  BY <1>1, <1>2, StartOpens DEF BaseNext

\* So is a step that leaves the variables of AgreementBase alone.
LEMMA StutterRefines ==
  ASSUME UNCHANGED vars
  PROVE  UNCHANGED <<LedgerView, bal>>
BY DEF vars, bookVars, LedgerView
=====================================================================================
