----------------------- MODULE TransactionEngine_proofs -----------------------
(***************************************************************************)
(* What the engine's two users make of it: the legs of the end-to-end      *)
(* workloads, for any legs, any number of threads and whatever the nodes   *)
(* lose, and the benchmark with its report.                                *)
(*                                                                         *)
(* That a remembered nonce can be used is a statement about the time       *)
(* between two legs; the invariant says what holds in the middle of one:   *)
(* a nonce that is remembered is either mined already, or its sender's     *)
(* last transaction of the leg carries the one below, so that once the leg *)
(* is settled it is mined.  And a sender whose nonce is forgotten has a    *)
(* transaction that failed or was given up, which it keeps for good.       *)
(*                                                                         *)
(* That the benchmark's figures agree is a statement about the end of its  *)
(* run; the invariant says how they come to: the threads leave no          *)
(* transaction without an outcome and none without its times, and every    *)
(* part of the report is what the same part would be if made again.        *)
(***************************************************************************)
EXTENDS AgreementLegs, BesuBenchmark, FiniteSetTheorems, SequenceTheorems,
        WellFoundedInduction, TLAPS

Statuses == {"prepared", "submitted", "failed", "confirmed", "reverted", "timeout"}
Transactions == [leg : Nat, sender : Senders, status : Statuses, nonce : Nat]
Mineds == [id : Nat, ok : BOOLEAN]

LegsType ==
  /\ mined \in [Senders -> Seq(Mineds)]
  /\ DOMAIN pool = Senders
  /\ txs \in Seq(Transactions) /\ first \in Nat \ {0}
  /\ handed \in Nat /\ awaited \in Nat /\ taken \in Nat
  /\ DOMAIN cache \subseteq Senders /\ \A s \in DOMAIN cache : cache[s] \in Nat
  /\ leg \in 0 .. Len(Legs) /\ pc \in {"idle", "submit", "poll", "drain", "aborted"}

\* A node's pool is bounded, and it and the chain hold what was sent, at its nonce.
PoolIsBounded ==
  \A s \in Senders : /\ IsFiniteSet(DOMAIN pool[s])
                     /\ Cardinality(DOMAIN pool[s]) <= PoolPerSender

HoldsSent ==
  \A s \in Senders :
    /\ \A n \in DOMAIN pool[s] : LET i == pool[s][n] IN
         i \in DOMAIN txs /\ txs[i].sender = s /\ txs[i].nonce = n
    /\ \A n \in DOMAIN mined[s] : LET i == mined[s][n].id IN
         i \in DOMAIN txs /\ txs[i].sender = s /\ txs[i].nonce = n - 1

\* submit_all: what is waited for was taken, and has an outcome.
WindowInv ==
  /\ first - 1 <= awaited /\ awaited <= taken /\ taken <= handed /\ handed <= Len(txs)
  /\ handed - awaited <= Workers * FuturesPerWorker
  /\ \A i \in first .. awaited : txs[i].status # "prepared"

\* The phases: a leg is polled when all is sent, and over when all is polled.
PhaseInv ==
  /\ \A i \in polling : i \in InLeg /\ txs[i].status = "submitted"
  /\ \A i \in DOMAIN txs :
       /\ i < first \/ pc # "submit" => txs[i].status # "prepared"
       /\ i < first \/ pc \notin {"submit", "poll"} => txs[i].status # "submitted"
       /\ IF i < first THEN txs[i].leg < leg ELSE txs[i].leg = leg

\* A receipt is of a block.
ReceiptsAreMined ==
  \A i \in DOMAIN txs :
    /\ Settled(i) => txs[i].nonce < LatestCount(txs[i].sender)
    /\ txs[i].status = "confirmed" => [id |-> i, ok |-> TRUE] \in ToSet(mined[txs[i].sender])

InLegOrdered ==
  /\ \A i, j \in InLeg : i < j /\ txs[i].sender = txs[j].sender => txs[i].nonce < txs[j].nonce
  /\ pc \in {"submit", "poll"} =>
       \A i \in InLeg : txs[i].sender \in DOMAIN cache /\ txs[i].nonce < cache[txs[i].sender]

\* A remembered nonce is above what was settled, and mined below it is what the leg does
\* not still hold.
CacheInv ==
  \A s \in DOMAIN cache :
    /\ \A i \in DOMAIN txs : txs[i].sender = s /\ Settled(i) => txs[i].nonce < cache[s]
    /\ \/ cache[s] <= LatestCount(s)
       \/ /\ pc \in {"submit", "poll"}
          /\ \E i \in InLeg : txs[i].sender = s /\ txs[i].nonce = cache[s] - 1

\* A sender whose nonces are not all below what is remembered has one that went wrong.
Stuck(s) == \E i \in DOMAIN txs : txs[i].sender = s /\ txs[i].status \in {"failed", "timeout"}

KnownOrStuck ==
  \A s \in Senders :
    Stuck(s) \/ \A i \in DOMAIN txs : txs[i].sender = s => s \in DOMAIN cache /\ txs[i].nonce < cache[s]

\* A set-up leg that the driver went on from is confirmed.
SetupConfirmed ==
  \A i \in DOMAIN txs :
    ~Legs[txs[i].leg].measured /\ (i < first \/ pc \in {"drain", "idle"}) =>
      txs[i].status = "confirmed"

LegsInv ==
  /\ LegsType /\ PoolIsBounded /\ HoldsSent /\ WindowInv /\ PhaseInv /\ ReceiptsAreMined
  /\ InLegOrdered /\ CacheInv /\ KnownOrStuck /\ SetupConfirmed /\ NonceNotReused

------------------------------------------------------------------------------
\* Numbers and counts.

\* A set of natural numbers has a least one.
LEMMA NatLeast ==
  ASSUME NEW T, T \subseteq Nat, T # {}
  PROVE  \E n \in T : \A m \in T : n <= m
<1> DEFINE R == OpToRel(<, Nat)
<1>1. IsWellFoundedOn(R, Nat)
  BY NatLessThanWellFounded
<1>2. R = {ss \in Nat \X Nat : ss[1] < ss[2]}
  BY DEF OpToRel
<1>3. \A x \in Nat, y \in Nat : y < x => <<y, x>> \in R
  BY <1>2
<1> HIDE DEF R
<1>4. PICK x \in T : \A y \in T : ~(<<y, x>> \in R)
  BY <1>1, WFMin
<1>5. ASSUME NEW y \in T PROVE x <= y
  <2>1. x \in Nat /\ y \in Nat
    OBVIOUS
  <2>2. ~(y < x)
    BY <1>3, <1>4, <2>1
  <2> QED
    BY <2>1, <2>2
<1> QED
  BY <1>5

\* The node always has a next free nonce to give, and it is not one that is mined.
LEMMA PendingIsFree ==
  ASSUME LegsType, PoolIsBounded, NEW s \in Senders
  PROVE  /\ LatestCount(s) \in Nat /\ PendingCount(s) \in Nat
         /\ LatestCount(s) <= PendingCount(s)
<1> DEFINE L == LatestCount(s)
           D == DOMAIN pool[s]
           T == {n \in L .. L + PoolPerSender : n \notin D}
<1>1. L \in Nat
  BY DEF LegsType, LatestCount
<1>2. IsFiniteSet(D) /\ Cardinality(D) \in Nat /\ Cardinality(D) <= PoolPerSender /\ PoolPerSender \in Nat
  BY NodeAssumption, FS_CardinalityType DEF PoolIsBounded
<1> HIDE DEF L, D
<1>3. T # {}
  <2> SUFFICES ASSUME L .. L + PoolPerSender \subseteq D PROVE FALSE
    OBVIOUS
  <2>1. Cardinality(L .. L + PoolPerSender) <= Cardinality(D)
    BY <1>2, FS_Subset
  <2>2. Cardinality(L .. L + PoolPerSender)
          = IF L > L + PoolPerSender THEN 0 ELSE (L + PoolPerSender) - L + 1
    <3>1. L \in Int /\ L + PoolPerSender \in Int
      BY <1>1, <1>2
    <3> QED
      BY <3>1, FS_Interval
  <2> QED
    BY <1>1, <1>2, <2>1, <2>2
<1>4. T \subseteq Nat
  BY <1>1, <1>2
<1>5. PICK n \in T : \A m \in T : n <= m
  BY <1>3, <1>4, NatLeast
<1>6. \A m \in L .. n - 1 : m \in D
  BY <1>1, <1>2, <1>4, <1>5
<1>7. n \in L .. L + PoolPerSender /\ n \notin D
  BY <1>5
<1>8. PendingCount(s) \in L .. L + PoolPerSender
  BY <1>6, <1>7 DEF PendingCount, L, D
<1> QED
  BY <1>1, <1>2, <1>8 DEF L

\* The places of a sender among the first k transactions of a leg.
Places(specs, s, k) == {j \in 1 .. k : specs[j] = s}

\* OfSender counts them.
LEMMA CountsPlaces ==
  ASSUME NEW specs \in Seq(Senders), NEW s \in Senders, NEW k \in 0 .. Len(specs)
  PROVE  /\ OfSender(SubSeq(specs, 1, k), s) = Cardinality(Places(specs, s, k))
         /\ IsFiniteSet(Places(specs, s, k)) /\ Cardinality(Places(specs, s, k)) \in Nat
<1>1. /\ DOMAIN SubSeq(specs, 1, k) = 1 .. k
      /\ \A j \in 1 .. k : SubSeq(specs, 1, k)[j] = specs[j]
  BY SubSeqProperties
<1>2. {j \in DOMAIN SubSeq(specs, 1, k) : SubSeq(specs, 1, k)[j] = s} = Places(specs, s, k)
  BY <1>1 DEF Places
<1>3. IsFiniteSet(1 .. k)
  BY FS_Interval
<1>4. Places(specs, s, k) \subseteq 1 .. k
  BY DEF Places
<1>5. IsFiniteSet(Places(specs, s, k))
  BY <1>3, <1>4, FS_Subset
<1> QED
  BY <1>2, <1>5, FS_CardinalityType DEF OfSender

\* A set of numbers up to n has a greatest one.
LEMMA NatGreatest ==
  ASSUME NEW n \in Nat, NEW T, T \subseteq 1 .. n, T # {}
  PROVE  \E i \in T : \A m \in T : m <= i
<1> DEFINE Back == {k \in 0 .. n : n - k \in T}
<1>1. PICK j \in T : TRUE
  OBVIOUS
<1>2. n - j \in 0 .. n /\ n - (n - j) = j
  BY <1>1
<1>3. n - j \in Back
  BY <1>1, <1>2
<1>4. Back \subseteq Nat /\ Back # {}
  <2>1. Back \subseteq Nat
    OBVIOUS
  <2> HIDE DEF Back
  <2> QED
    BY <1>3, <2>1
<1>5. PICK k \in Back : \A m \in Back : k <= m
  <2> HIDE DEF Back
  <2> QED
    BY <1>4, NatLeast
<1>6. n - k \in T /\ k \in 0 .. n
  BY <1>5
<1>7. ASSUME NEW m \in T PROVE m <= n - k
  <2>1. m \in 1 .. n /\ n - m \in 0 .. n /\ n - (n - m) = m
    OBVIOUS
  <2>2. n - m \in Back
    BY <2>1
  <2>3. k <= n - m
    BY <1>5, <2>2
  <2> QED
    BY <1>6, <2>1, <2>3
<1> QED
  BY <1>6, <1>7

\* The places of one prefix are among those of a longer one.
LEMMA PlacesGrow ==
  ASSUME NEW specs \in Seq(Senders), NEW s \in Senders,
         NEW i \in DOMAIN specs, specs[i] = s, NEW k \in i .. Len(specs)
  PROVE  Cardinality(Places(specs, s, i - 1)) < Cardinality(Places(specs, s, k))
<1>1. i \in 1 .. Len(specs) /\ i - 1 \in 0 .. Len(specs) /\ k \in 0 .. Len(specs)
  OBVIOUS
<1>2. /\ IsFiniteSet(Places(specs, s, i - 1)) /\ Cardinality(Places(specs, s, i - 1)) \in Nat
      /\ IsFiniteSet(Places(specs, s, k)) /\ Cardinality(Places(specs, s, k)) \in Nat
  BY <1>1, CountsPlaces
<1>3. Places(specs, s, i - 1) \subseteq Places(specs, s, k) /\ i \in Places(specs, s, k)
      /\ i \notin Places(specs, s, i - 1)
  BY <1>1 DEF Places
<1>4. /\ Cardinality(Places(specs, s, i - 1)) <= Cardinality(Places(specs, s, k))
      /\ Cardinality(Places(specs, s, i - 1)) = Cardinality(Places(specs, s, k))
           => Places(specs, s, i - 1) = Places(specs, s, k)
  BY <1>2, <1>3, FS_Subset
<1>5. Cardinality(Places(specs, s, i - 1)) # Cardinality(Places(specs, s, k))
  BY <1>3, <1>4
<1> QED
  BY <1>2, <1>4, <1>5

\* The last transaction of a sender has all others before it.
LEMMA LastPlace ==
  ASSUME NEW specs \in Seq(Senders), NEW s \in ToSet(specs)
  PROVE  \E i \in DOMAIN specs :
           /\ specs[i] = s
           /\ Cardinality(Places(specs, s, i - 1)) = Cardinality(Places(specs, s, Len(specs))) - 1
<1>1. Len(specs) \in Nat /\ DOMAIN specs = 1 .. Len(specs) /\ s \in Senders
  BY DEF ToSet
<1>2. Places(specs, s, Len(specs)) # {} /\ Places(specs, s, Len(specs)) \subseteq 1 .. Len(specs)
  BY <1>1 DEF ToSet, Places
<1>3. PICK i \in Places(specs, s, Len(specs)) : \A m \in Places(specs, s, Len(specs)) : m <= i
  BY <1>1, <1>2, NatGreatest
<1>4. i \in 1 .. Len(specs) /\ specs[i] = s
  BY <1>3 DEF Places
<1>5. Places(specs, s, i - 1) = Places(specs, s, Len(specs)) \ {i}
  <2>1. ASSUME NEW m \in Places(specs, s, Len(specs)), m # i PROVE m \in Places(specs, s, i - 1)
    <3>1. m \in 1 .. Len(specs) /\ specs[m] = s /\ m <= i
      BY <1>3 DEF Places
    <3> QED
      BY <1>4, <2>1, <3>1 DEF Places
  <2>2. ASSUME NEW m \in Places(specs, s, i - 1) PROVE m \in Places(specs, s, Len(specs)) /\ m # i
    BY <1>1, <1>4 DEF Places
  <2> QED
    BY <2>1, <2>2
<1>6. IsFiniteSet(Places(specs, s, Len(specs)))
  BY <1>1, CountsPlaces
<1>7. Cardinality(Places(specs, s, Len(specs)) \ {i}) = Cardinality(Places(specs, s, Len(specs))) - 1
  BY <1>3, <1>6, FS_RemoveElement
<1> QED
  BY <1>1, <1>4, <1>5, <1>7

------------------------------------------------------------------------------
\* The node.

\* Blocks are never taken back.
MinedGrows ==
  /\ mined' \in [Senders -> Seq(Mineds)]
  /\ \A s \in Senders : /\ LatestCount(s) <= LatestCount(s)'
                        /\ ToSet(mined[s]) \subseteq ToSet(mined'[s])

\* What a transaction is, whatever becomes of it.
SameSent ==
  /\ txs' \in Seq(Transactions) /\ Len(txs') = Len(txs) /\ DOMAIN txs' = DOMAIN txs
  /\ \A j \in DOMAIN txs : /\ txs'[j].leg = txs[j].leg /\ txs'[j].sender = txs[j].sender
                           /\ txs'[j].nonce = txs[j].nonce

\* The fields of a transaction.
LEMMA Fields ==
  ASSUME LegsType, NEW i \in DOMAIN txs
  PROVE  /\ txs[i] \in Transactions /\ i \in 1 .. Len(txs)
         /\ txs[i].leg \in Nat /\ txs[i].sender \in Senders /\ txs[i].nonce \in Nat
         /\ txs[i].status \in Statuses
<1>1. txs[i] \in Transactions /\ i \in 1 .. Len(txs)
  BY DEF LegsType
<1> QED
  BY <1>1 DEF Transactions

\* A block that takes a sender's next transaction.
LEMMA MineKeeps ==
  ASSUME LegsType, PoolIsBounded, HoldsSent, NEW s \in Senders, NEW ok \in BOOLEAN,
         Mine(s, ok), UNCHANGED txs
  PROVE  MinedGrows /\ DOMAIN pool' = Senders /\ PoolIsBounded' /\ HoldsSent'
<1> DEFINE next == LatestCount(s)
           block == [id |-> pool[s][next], ok |-> ok]
<1>1. /\ next \in Nat /\ next \in DOMAIN pool[s]
      /\ mined' = [mined EXCEPT ![s] = Append(mined[s], block)]
      /\ pool' = [pool EXCEPT ![s] = [n \in DOMAIN pool[s] \ {next} |-> pool[s][n]]]
      /\ mined \in [Senders -> Seq(Mineds)] /\ DOMAIN pool = Senders
  BY DEF Mine, LegsType, LatestCount
<1>2. /\ block.id \in DOMAIN txs /\ txs[block.id].sender = s /\ txs[block.id].nonce = next
      /\ block \in Mineds
  <2>1. /\ pool[s][next] \in DOMAIN txs /\ txs[pool[s][next]].sender = s
        /\ txs[pool[s][next]].nonce = next
    BY <1>1 DEF HoldsSent
  <2>2. DOMAIN txs \subseteq Nat
    BY DEF LegsType
  <2> QED
    BY <2>1, <2>2 DEF Mineds
<1> HIDE DEF block
<1>3. /\ mined' \in [Senders -> Seq(Mineds)]
      /\ mined'[s] = Append(mined[s], block)
      /\ \A t \in Senders : t # s => mined'[t] = mined[t]
  BY <1>1, <1>2
<1>4. /\ Len(mined'[s]) = Len(mined[s]) + 1
      /\ \A n \in DOMAIN mined[s] : n \in DOMAIN mined'[s] /\ mined'[s][n] = mined[s][n]
      /\ mined'[s][Len(mined[s]) + 1] = block
      /\ \A n \in DOMAIN mined'[s] : n \in DOMAIN mined[s] \/ n = Len(mined[s]) + 1
  BY <1>1, <1>2, <1>3
<1>5. MinedGrows
  <2>1. ASSUME NEW t \in Senders
        PROVE  LatestCount(t) <= LatestCount(t)' /\ ToSet(mined[t]) \subseteq ToSet(mined'[t])
    <3>1. CASE t = s
      BY <1>1, <1>4, <3>1 DEF LatestCount, ToSet
    <3>2. CASE t # s
      BY <1>1, <1>3, <3>2 DEF LatestCount
    <3> QED
      BY <3>1, <3>2
  <2> QED
    BY <1>3, <2>1 DEF MinedGrows
<1>6. /\ DOMAIN pool' = Senders
      /\ pool'[s] = [n \in DOMAIN pool[s] \ {next} |-> pool[s][n]]
      /\ \A t \in Senders : t # s => pool'[t] = pool[t]
  BY <1>1
<1>7. PoolIsBounded'
  <2>1. ASSUME NEW t \in Senders
        PROVE  IsFiniteSet(DOMAIN pool'[t]) /\ Cardinality(DOMAIN pool'[t]) <= PoolPerSender
    <3>1. IsFiniteSet(DOMAIN pool[t]) /\ Cardinality(DOMAIN pool[t]) <= PoolPerSender
          /\ Cardinality(DOMAIN pool[t]) \in Nat
      BY FS_CardinalityType DEF PoolIsBounded
    <3>2. DOMAIN pool'[t] \subseteq DOMAIN pool[t]
      BY <1>6
    <3>3. /\ IsFiniteSet(DOMAIN pool'[t]) /\ Cardinality(DOMAIN pool'[t]) \in Nat
          /\ Cardinality(DOMAIN pool'[t]) <= Cardinality(DOMAIN pool[t])
      BY <3>1, <3>2, FS_Subset, FS_CardinalityType
    <3> QED
      BY <3>1, <3>3, NodeAssumption
  <2> QED
    BY <2>1 DEF PoolIsBounded
<1>8. HoldsSent'
  <2>1. ASSUME NEW t \in Senders, NEW n \in DOMAIN pool'[t]
        PROVE  /\ pool'[t][n] \in DOMAIN txs /\ txs[pool'[t][n]].sender = t
               /\ txs[pool'[t][n]].nonce = n
    BY <1>6 DEF HoldsSent
  <2>2. ASSUME NEW t \in Senders, NEW n \in DOMAIN mined'[t]
        PROVE  /\ mined'[t][n].id \in DOMAIN txs /\ txs[mined'[t][n].id].sender = t
               /\ txs[mined'[t][n].id].nonce = n - 1
    <3>1. CASE n \in DOMAIN mined[t]
      <4>1. mined'[t][n] = mined[t][n]
        BY <1>3, <1>4, <3>1
      <4> QED
        BY <3>1, <4>1 DEF HoldsSent
    <3>2. CASE n \notin DOMAIN mined[t]
      <4>1. t = s /\ mined'[t][n] = block /\ n - 1 = next
        BY <1>1, <1>3, <1>4, <3>2 DEF LatestCount
      <4> QED
        BY <1>2, <4>1
    <3> QED
      BY <3>1, <3>2
  <2> QED
    BY <2>1, <2>2 DEF HoldsSent
<1> QED
  BY <1>5, <1>6, <1>7, <1>8

\* A transaction that the node loses.
LEMMA EvictKeeps ==
  ASSUME LegsType, PoolIsBounded, HoldsSent, NEW s \in Senders, Evict(s), UNCHANGED txs
  PROVE  UNCHANGED mined /\ DOMAIN pool' = Senders /\ PoolIsBounded' /\ HoldsSent'
<1>1. PICK gone \in DOMAIN pool[s] :
        pool' = [pool EXCEPT ![s] = [m \in DOMAIN pool[s] \ {gone} |-> pool[s][m]]]
  BY DEF Evict, LegsType
<1>2. /\ DOMAIN pool' = Senders /\ mined' = mined
      /\ pool'[s] = [m \in DOMAIN pool[s] \ {gone} |-> pool[s][m]]
      /\ \A t \in Senders : t # s => pool'[t] = pool[t]
  BY <1>1 DEF LegsType, Evict
<1>3. \A t \in Senders : /\ DOMAIN pool'[t] \subseteq DOMAIN pool[t]
                         /\ \A n \in DOMAIN pool'[t] : pool'[t][n] = pool[t][n]
  BY <1>2
<1>4. PoolIsBounded'
  <2>1. ASSUME NEW t \in Senders
        PROVE  IsFiniteSet(DOMAIN pool'[t]) /\ Cardinality(DOMAIN pool'[t]) <= PoolPerSender
    <3>1. /\ IsFiniteSet(DOMAIN pool[t]) /\ Cardinality(DOMAIN pool[t]) <= PoolPerSender
          /\ Cardinality(DOMAIN pool[t]) \in Nat
      BY FS_CardinalityType DEF PoolIsBounded
    <3>2. /\ IsFiniteSet(DOMAIN pool'[t]) /\ Cardinality(DOMAIN pool'[t]) \in Nat
          /\ Cardinality(DOMAIN pool'[t]) <= Cardinality(DOMAIN pool[t])
      BY <1>3, <3>1, FS_Subset, FS_CardinalityType
    <3> QED
      BY <3>1, <3>2, NodeAssumption
  <2> QED
    BY <2>1 DEF PoolIsBounded
<1>5. HoldsSent'
  <2>1. ASSUME NEW t \in Senders, NEW n \in DOMAIN pool'[t]
        PROVE  /\ pool'[t][n] \in DOMAIN txs /\ txs[pool'[t][n]].sender = t
               /\ txs[pool'[t][n]].nonce = n
    BY <1>3 DEF HoldsSent
  <2> QED
    BY <1>2, <2>1 DEF HoldsSent
<1> QED
  BY <1>2, <1>4, <1>5

\* A transaction that the node accepts.
LEMMA EnterKeeps ==
  ASSUME LegsType, PoolIsBounded, HoldsSent, NEW i \in DOMAIN txs,
         Enter(txs[i].sender, txs[i].nonce, i), SameSent
  PROVE  UNCHANGED mined /\ DOMAIN pool' = Senders /\ PoolIsBounded' /\ HoldsSent'
<1> DEFINE s == txs[i].sender
           nonce == txs[i].nonce
<1>1. s \in Senders /\ nonce \in Nat
  BY Fields
<1>2. /\ DOMAIN pool' = Senders /\ mined' = mined
      /\ DOMAIN pool'[s] = DOMAIN pool[s] \cup {nonce}
      /\ \A n \in DOMAIN pool'[s] : pool'[s][n] = IF n = nonce THEN i ELSE pool[s][n]
      /\ \A t \in Senders : t # s => pool'[t] = pool[t]
  BY <1>1 DEF Enter, LegsType
<1>3. nonce \notin DOMAIN pool[s] /\ Cardinality(DOMAIN pool[s]) < PoolPerSender
  BY DEF Enter, Accepts
<1>4. PoolIsBounded'
  <2>1. ASSUME NEW t \in Senders
        PROVE  IsFiniteSet(DOMAIN pool'[t]) /\ Cardinality(DOMAIN pool'[t]) <= PoolPerSender
    <3>1. IsFiniteSet(DOMAIN pool[t]) /\ Cardinality(DOMAIN pool[t]) <= PoolPerSender
          /\ Cardinality(DOMAIN pool[t]) \in Nat
      BY FS_CardinalityType DEF PoolIsBounded
    <3>2. CASE t = s
      <4>1. /\ IsFiniteSet(DOMAIN pool[s] \cup {nonce})
            /\ Cardinality(DOMAIN pool[s] \cup {nonce}) = Cardinality(DOMAIN pool[s]) + 1
        BY <1>3, <3>1, <3>2, FS_AddElement
      <4> QED
        BY <1>2, <1>3, <3>1, <3>2, <4>1, NodeAssumption
    <3>3. CASE t # s
      BY <1>2, <3>1, <3>3
    <3> QED
      BY <3>2, <3>3
  <2> QED
    BY <2>1 DEF PoolIsBounded
<1>5. HoldsSent'
  <2>1. ASSUME NEW t \in Senders, NEW n \in DOMAIN pool'[t]
        PROVE  /\ pool'[t][n] \in DOMAIN txs /\ txs[pool'[t][n]].sender = t
               /\ txs[pool'[t][n]].nonce = n
    <3>1. CASE t = s /\ n = nonce
      BY <1>2, <3>1
    <3>2. CASE t = s /\ n # nonce
      <4>1. n \in DOMAIN pool[t] /\ pool'[t][n] = pool[t][n]
        BY <1>2, <3>2
      <4> QED
        BY <4>1 DEF HoldsSent
    <3>3. CASE t # s
      BY <1>2, <3>3 DEF HoldsSent
    <3> QED
      BY <3>1, <3>2, <3>3
  <2>2. ASSUME NEW t \in Senders, NEW n \in DOMAIN mined'[t]
        PROVE  /\ mined'[t][n].id \in DOMAIN txs /\ txs[mined'[t][n].id].sender = t
               /\ txs[mined'[t][n].id].nonce = n - 1
    BY <1>2 DEF HoldsSent
  <2> HIDE DEF s, nonce
  <2> QED
    BY <2>1, <2>2 DEF HoldsSent, SameSent
<1> QED
  BY <1>2, <1>4, <1>5

\* A step that the node has no part in.
LEMMA NodeKept ==
  ASSUME LegsType, PoolIsBounded, HoldsSent, UNCHANGED nodeVars, SameSent
  PROVE  UNCHANGED mined /\ DOMAIN pool' = Senders /\ PoolIsBounded' /\ HoldsSent'
<1>1. mined' = mined /\ pool' = pool
  BY DEF nodeVars
<1>2. PoolIsBounded' /\ DOMAIN pool' = Senders
  BY <1>1 DEF PoolIsBounded, LegsType
<1>3. HoldsSent'
  BY <1>1 DEF HoldsSent, SameSent
<1> QED
  BY <1>1, <1>2, <1>3

------------------------------------------------------------------------------
\* Steps that change no transaction.

\* What is said of the transactions survives whatever the node does: blocks only grow.
LEMMA TxsKept ==
  ASSUME LegsInv, MinedGrows, UNCHANGED <<txs, first, cache, leg, pc, polling>>
  PROVE  /\ PhaseInv' /\ ReceiptsAreMined' /\ InLegOrdered' /\ CacheInv' /\ KnownOrStuck'
         /\ SetupConfirmed' /\ NonceNotReused'
<1>1. PhaseInv' /\ InLegOrdered' /\ SetupConfirmed'
  BY DEF LegsInv, PhaseInv, InLegOrdered, SetupConfirmed, InLeg
<1>2. KnownOrStuck' /\ NonceNotReused'
  BY DEF LegsInv, KnownOrStuck, Stuck, NonceNotReused, Settled
<1>3. \A s \in Senders : LatestCount(s) \in Nat /\ LatestCount(s)' \in Nat /\ LatestCount(s) <= LatestCount(s)'
  BY DEF LegsInv, LegsType, MinedGrows, LatestCount
<1>4. ReceiptsAreMined'
  <2> SUFFICES ASSUME NEW i \in DOMAIN txs
               PROVE  /\ Settled(i) => txs[i].nonce < LatestCount(txs[i].sender)'
                      /\ txs[i].status = "confirmed" =>
                           [id |-> i, ok |-> TRUE] \in ToSet(mined'[txs[i].sender])
    BY DEF ReceiptsAreMined, Settled, LatestCount
  <2>1. txs[i].sender \in Senders /\ txs[i].nonce \in Nat
    BY Fields DEF LegsInv
  <2>2. /\ Settled(i) => txs[i].nonce < LatestCount(txs[i].sender)
        /\ txs[i].status = "confirmed" => [id |-> i, ok |-> TRUE] \in ToSet(mined[txs[i].sender])
    BY DEF LegsInv, ReceiptsAreMined
  <2>3. Settled(i) => txs[i].nonce < LatestCount(txs[i].sender)'
    BY <1>3, <2>1, <2>2
  <2>4. ToSet(mined[txs[i].sender]) \subseteq ToSet(mined'[txs[i].sender])
    BY <2>1 DEF MinedGrows
  <2> QED
    BY <2>2, <2>3, <2>4
<1>5. CacheInv'
  <2> SUFFICES ASSUME NEW s \in DOMAIN cache
               PROVE  /\ \A i \in DOMAIN txs : txs[i].sender = s /\ Settled(i) => txs[i].nonce < cache[s]
                      /\ \/ cache[s] <= LatestCount(s)'
                         \/ /\ pc \in {"submit", "poll"}
                            /\ \E i \in InLeg : txs[i].sender = s /\ txs[i].nonce = cache[s] - 1
    BY DEF CacheInv, Settled, LatestCount, InLeg
  <2>1. s \in Senders /\ cache[s] \in Nat
    BY DEF LegsInv, LegsType
  <2>2. cache[s] <= LatestCount(s) => cache[s] <= LatestCount(s)'
    BY <1>3, <2>1
  <2> QED
    BY <2>2 DEF LegsInv, CacheInv
<1> QED
  BY <1>1, <1>2, <1>4, <1>5

\* The node's steps, and those of requests that were given up.
LEMMA EnvironmentPreserves ==
  ASSUME LegsInv, Environment
  PROVE  LegsInv'
<1>1. /\ UNCHANGED <<cache, leg, pc>>
      /\ UNCHANGED <<txs, first, handed, awaited, taken, polling>>
  BY DEF Environment, engineVars, Arrive
<1>2. SameSent
  BY <1>1 DEF SameSent, LegsInv, LegsType
<1>3. MinedGrows /\ DOMAIN pool' = Senders /\ PoolIsBounded' /\ HoldsSent'
  <2>1. ASSUME NEW s \in Senders, NEW ok \in BOOLEAN, Mine(s, ok)
        PROVE  MinedGrows /\ DOMAIN pool' = Senders /\ PoolIsBounded' /\ HoldsSent'
    BY <1>1, <2>1, MineKeeps DEF LegsInv
  <2>2. UNCHANGED mined => MinedGrows
    BY DEF MinedGrows, LegsInv, LegsType, LatestCount
  <2>3. ASSUME NEW i \in DOMAIN txs, Arrive(i)
        PROVE  MinedGrows /\ DOMAIN pool' = Senders /\ PoolIsBounded' /\ HoldsSent'
    <3>1. CASE Enter(txs[i].sender, txs[i].nonce, i)
      BY <1>2, <2>2, <3>1, EnterKeeps DEF LegsInv
    <3>2. CASE UNCHANGED nodeVars
      BY <1>2, <2>2, <3>2, NodeKept DEF LegsInv
    <3> QED
      BY <2>3, <3>1, <3>2 DEF Arrive
  <2>4. ASSUME NEW s \in Senders, Evict(s)
        PROVE  MinedGrows /\ DOMAIN pool' = Senders /\ PoolIsBounded' /\ HoldsSent'
    BY <1>1, <2>2, <2>4, EvictKeeps DEF LegsInv
  <2> QED
    BY <2>1, <2>3, <2>4 DEF Environment, NodeStep
<1>4. LegsType'
  BY <1>1, <1>3 DEF LegsInv, LegsType, MinedGrows
<1>5. WindowInv'
  BY <1>1 DEF LegsInv, WindowInv
<1>6. /\ PhaseInv' /\ ReceiptsAreMined' /\ InLegOrdered' /\ CacheInv' /\ KnownOrStuck'
      /\ SetupConfirmed' /\ NonceNotReused'
  BY <1>1, <1>3, TxsKept
<1> QED
  BY <1>3, <1>4, <1>5, <1>6 DEF LegsInv

\* The list of futures is as long as what was handed over and not yet waited for.
LEMMA FuturesCount ==
  ASSUME LegsType, WindowInv
  PROVE  /\ Cardinality(Futures) = handed - awaited
         /\ Workers * FuturesPerWorker \in Nat /\ Workers \in Nat \ {0}
<1>1. awaited \in Nat /\ awaited + 1 \in Int /\ handed \in Int /\ awaited <= handed
  BY DEF LegsType, WindowInv
<1>2. Cardinality(awaited + 1 .. handed)
        = IF awaited + 1 > handed THEN 0 ELSE handed - (awaited + 1) + 1
  BY <1>1, FS_Interval
<1>3. Cardinality(Futures) = handed - awaited
  BY <1>1, <1>2 DEF Futures
<1> QED
  BY <1>3, EngineAssumption

\* The producer and the threads' queue: a window that moves over what is done.
LEMMA QueuePreserves ==
  ASSUME LegsInv, HandOver \/ AwaitOldest \/ Take, UNCHANGED <<nodeVars, cache, leg, pc>>
  PROVE  LegsInv'
<1>1. UNCHANGED <<txs, first, polling, cache, leg, pc>> /\ mined' = mined /\ pool' = pool
  BY DEF HandOver, AwaitOldest, Take, nodeVars
<1>2. /\ first \in Nat \ {0} /\ awaited \in Nat /\ taken \in Nat /\ handed \in Nat
      /\ Len(txs) \in Nat
  BY DEF LegsInv, LegsType
<1>3. WindowInv' /\ handed' \in Nat /\ awaited' \in Nat /\ taken' \in Nat
  <2>1. /\ Cardinality(Futures) = handed - awaited
        /\ Workers * FuturesPerWorker \in Nat /\ Workers \in Nat \ {0}
    BY FuturesCount DEF LegsInv
  <2> DEFINE K == Workers * FuturesPerWorker
  <2> HIDE DEF K
  <2>2. CASE HandOver
    <3>1. /\ handed' = handed + 1 /\ awaited' = awaited /\ taken' = taken
          /\ handed < Len(txs) /\ handed - awaited < K
      BY <2>1, <2>2 DEF HandOver, K
    <3> QED
      BY <1>1, <1>2, <2>1, <3>1 DEF LegsInv, WindowInv, K
  <2>3. CASE AwaitOldest
    <3>1. /\ handed' = handed /\ awaited' = awaited + Workers /\ taken' = taken
          /\ \A i \in awaited + 1 .. awaited + Workers : i <= taken /\ txs[i].status # "prepared"
      BY <2>3 DEF AwaitOldest, Done
    <3>2. awaited + Workers <= taken
      BY <1>2, <2>1, <3>1
    <3>3. /\ first - 1 <= awaited /\ taken <= handed /\ handed <= Len(txs) /\ handed - awaited <= K
          /\ \A i \in first .. awaited : txs[i].status # "prepared"
      BY DEF LegsInv, WindowInv, K
    <3>4. \A i \in first .. awaited + Workers : txs[i].status # "prepared"
      <4>1. ASSUME NEW i \in first .. awaited + Workers
            PROVE  i \in first .. awaited \/ i \in awaited + 1 .. awaited + Workers
        BY <1>2, <2>1
      <4> QED
        BY <3>1, <3>3, <4>1
    <3>5. handed - (awaited + Workers) <= K /\ first - 1 <= awaited + Workers
      BY <1>2, <2>1, <3>3 DEF K
    <3> QED
      BY <1>1, <1>2, <2>1, <3>1, <3>2, <3>3, <3>4, <3>5 DEF WindowInv, K
  <2>4. CASE Take
    <3>1. /\ handed' = handed /\ awaited' = awaited /\ taken' = taken + 1 /\ taken < handed
      BY <2>4 DEF Take
    <3> QED
      BY <1>1, <1>2, <3>1 DEF LegsInv, WindowInv
  <2> QED
    BY <2>2, <2>3, <2>4
<1>4. LegsType' /\ PoolIsBounded' /\ HoldsSent' /\ MinedGrows
  BY <1>1, <1>3 DEF LegsInv, LegsType, PoolIsBounded, HoldsSent, MinedGrows, LatestCount
<1>5. /\ PhaseInv' /\ ReceiptsAreMined' /\ InLegOrdered' /\ CacheInv' /\ KnownOrStuck'
      /\ SetupConfirmed' /\ NonceNotReused'
  BY <1>1, <1>4, TxsKept
<1> QED
  BY <1>3, <1>4, <1>5 DEF LegsInv

\* A thread that begins to poll takes a transaction that was submitted.
LEMMA BeginPollPreserves ==
  ASSUME LegsInv, BeginPoll, UNCHANGED <<nodeVars, cache, leg, pc>>
  PROVE  LegsInv'
<1> DEFINE next == CHOOSE i \in ToPoll \ polling : \A j \in ToPoll \ polling : i <= j
<1>1. /\ UNCHANGED <<txs, first, handed, awaited, taken, cache, leg, pc>>
      /\ mined' = mined /\ pool' = pool /\ polling' = polling \cup {next}
      /\ ToPoll \ polling # {}
  BY DEF BeginPoll, nodeVars
<1>2. next \in ToPoll
  <2>1. ToPoll \ polling \subseteq Nat
    BY DEF ToPoll, InLeg, LegsInv, LegsType
  <2>2. \E i \in ToPoll \ polling : \A j \in ToPoll \ polling : i <= j
    BY <1>1, <2>1, NatLeast
  <2> QED
    BY <2>2
<1> HIDE DEF next
<1>3. PhaseInv'
  BY <1>1, <1>2 DEF LegsInv, PhaseInv, ToPoll, InLeg
<1>4. LegsType' /\ PoolIsBounded' /\ HoldsSent' /\ WindowInv'
  BY <1>1 DEF LegsInv, LegsType, PoolIsBounded, HoldsSent, WindowInv
<1>5. ReceiptsAreMined' /\ InLegOrdered' /\ SetupConfirmed'
  BY <1>1 DEF LegsInv, ReceiptsAreMined, InLegOrdered, SetupConfirmed, Settled, LatestCount, InLeg
<1>6. CacheInv' /\ KnownOrStuck' /\ NonceNotReused'
  BY <1>1 DEF LegsInv, CacheInv, KnownOrStuck, Stuck, NonceNotReused, Settled, LatestCount, InLeg
<1> QED
  BY <1>3, <1>4, <1>5, <1>6 DEF LegsInv

------------------------------------------------------------------------------
\* Steps that give a transaction another status.

\* The rest of a transaction stays what it was.
LEMMA StatusSet ==
  ASSUME LegsType, NEW i \in DOMAIN txs, NEW status \in Statuses, SetStatus(i, status)
  PROVE  /\ SameSent
         /\ txs'[i].status = status
         /\ \A j \in DOMAIN txs : j # i => txs'[j] = txs[j]
<1>1. /\ txs' = [txs EXCEPT ![i].status = status] /\ txs \in Seq(Transactions)
      /\ \A j \in DOMAIN txs : txs[j] \in Transactions
  BY DEF SetStatus, LegsType
<1>2. /\ txs'[i] = [txs[i] EXCEPT !.status = status]
      /\ \A j \in DOMAIN txs : j # i => txs'[j] = txs[j]
  BY <1>1
<1>3. [txs[i] EXCEPT !.status = status] \in Transactions
  BY <1>1 DEF Transactions
<1>4. /\ txs'[i].status = status /\ txs'[i].leg = txs[i].leg /\ txs'[i].sender = txs[i].sender
      /\ txs'[i].nonce = txs[i].nonce
  BY <1>1, <1>2 DEF Transactions
<1>5. txs' \in Seq(Transactions) /\ Len(txs') = Len(txs) /\ DOMAIN txs' = DOMAIN txs
  BY <1>1, <1>3
<1> QED
  BY <1>2, <1>4, <1>5 DEF SameSent

\* What such a step keeps: an order of nonces does not depend on statuses, and a status
\* that went wrong is final.
LEMMA StatusKeeps ==
  ASSUME LegsInv, NEW i \in InLeg, txs[i].status \in {"prepared", "submitted"},
         NEW status \in Statuses \ {"prepared"}, SetStatus(i, status),
         MinedGrows, pc \in {"submit", "poll"}, UNCHANGED <<first, cache, leg, pc>>,
         status \in {"confirmed", "reverted"} => txs[i].nonce < Len(mined'[txs[i].sender])
  PROVE  /\ InLegOrdered' /\ CacheInv' /\ KnownOrStuck' /\ SetupConfirmed' /\ NonceNotReused'
         /\ \A j \in DOMAIN txs : Settled(j)' => txs[j].nonce < Len(mined'[txs[j].sender])
<1>1. /\ i \in DOMAIN txs /\ i >= first
      /\ SameSent /\ txs'[i].status = status
      /\ \A j \in DOMAIN txs : j # i => txs'[j] = txs[j]
      /\ DOMAIN txs' = DOMAIN txs /\ InLeg' = InLeg /\ InLeg \subseteq DOMAIN txs
  <2>1. first \in Nat \ {0} /\ txs \in Seq(Transactions)
    BY DEF LegsInv, LegsType
  <2>2. i \in DOMAIN txs /\ i >= first /\ InLeg \subseteq DOMAIN txs
    BY <2>1 DEF InLeg
  <2>3. /\ SameSent /\ txs'[i].status = status
        /\ \A j \in DOMAIN txs : j # i => txs'[j] = txs[j]
    BY <2>2, StatusSet DEF LegsInv
  <2> QED
    BY <2>2, <2>3 DEF SameSent, InLeg
<1>2. \A j \in DOMAIN txs : Settled(j)' => \/ Settled(j)
                                           \/ j = i /\ status \in {"confirmed", "reverted"}
  BY <1>1 DEF Settled
<1>3. \A j \in DOMAIN txs : /\ txs'[j].sender = txs[j].sender /\ txs'[j].nonce = txs[j].nonce
                            /\ txs'[j].leg = txs[j].leg
  BY <1>1 DEF SameSent
<1>4. InLegOrdered'
  BY <1>1, <1>3 DEF LegsInv, InLegOrdered
<1>5. \A s \in Senders : /\ LatestCount(s) \in Nat /\ Len(mined'[s]) \in Nat
                         /\ LatestCount(s) <= Len(mined'[s])
  BY DEF LegsInv, LegsType, MinedGrows, LatestCount
<1>6. ASSUME NEW j \in DOMAIN txs, Settled(j)'
      PROVE  txs[j].nonce < Len(mined'[txs[j].sender])
  <2>1. txs[j].sender \in Senders /\ txs[j].nonce \in Nat
    BY Fields DEF LegsInv
  <2>2. CASE Settled(j)
    <3>1. txs[j].nonce < LatestCount(txs[j].sender)
      BY <2>2 DEF LegsInv, ReceiptsAreMined
    <3>2. /\ LatestCount(txs[j].sender) \in Nat /\ Len(mined'[txs[j].sender]) \in Nat
          /\ LatestCount(txs[j].sender) <= Len(mined'[txs[j].sender])
      BY <1>5, <2>1
    <3> QED
      BY <2>1, <3>1, <3>2
  <2>3. CASE j = i /\ status \in {"confirmed", "reverted"}
    BY <2>3
  <2> QED
    BY <1>2, <1>6, <2>2, <2>3
<1>7. txs[i].sender \in DOMAIN cache /\ txs[i].nonce < cache[txs[i].sender]
  BY DEF LegsInv, InLegOrdered
<1>8. CacheInv'
  <2> SUFFICES ASSUME NEW s \in DOMAIN cache
               PROVE  /\ \A j \in DOMAIN txs : txs[j].sender = s /\ Settled(j)' => txs[j].nonce < cache[s]
                      /\ \/ cache[s] <= Len(mined'[s])
                         \/ \E j \in InLeg : txs[j].sender = s /\ txs[j].nonce = cache[s] - 1
    BY <1>1, <1>3 DEF CacheInv, LatestCount
  <2>1. s \in Senders /\ cache[s] \in Nat
    BY DEF LegsInv, LegsType
  <2>2. \A j \in DOMAIN txs : txs[j].sender = s /\ Settled(j)' => txs[j].nonce < cache[s]
    BY <1>2, <1>7 DEF LegsInv, CacheInv
  <2>3. \/ cache[s] <= LatestCount(s)
        \/ \E j \in InLeg : txs[j].sender = s /\ txs[j].nonce = cache[s] - 1
    BY DEF LegsInv, CacheInv
  <2>4. cache[s] <= LatestCount(s) => cache[s] <= Len(mined'[s])
    BY <1>5, <2>1
  <2> QED
    BY <2>2, <2>3, <2>4
<1>9. KnownOrStuck'
  <2> SUFFICES ASSUME NEW s \in Senders
               PROVE  \/ Stuck(s)'
                      \/ \A j \in DOMAIN txs : txs[j].sender = s => s \in DOMAIN cache /\ txs[j].nonce < cache[s]
    BY <1>1, <1>3 DEF KnownOrStuck
  <2>1. CASE Stuck(s)
    <3>1. PICK j \in DOMAIN txs : txs[j].sender = s /\ txs[j].status \in {"failed", "timeout"}
      BY <2>1 DEF Stuck
    <3>2. j # i
      BY <3>1
    <3> QED
      BY <1>1, <3>1, <3>2 DEF Stuck
  <2>2. CASE ~Stuck(s)
    BY <2>2 DEF LegsInv, KnownOrStuck
  <2> QED
    BY <2>1, <2>2
<1>10. SetupConfirmed'
  <2>1. \A j \in DOMAIN txs : j < first => j # i
    BY <1>1 DEF LegsInv, LegsType
  <2> QED
    BY <1>1, <1>3, <2>1 DEF LegsInv, SetupConfirmed
<1>11. NonceNotReused'
  <2> SUFFICES ASSUME NEW j \in DOMAIN txs, NEW k \in DOMAIN txs, j < k,
                      txs[j].sender = txs[k].sender, Settled(j)'
               PROVE  txs[j].nonce # txs[k].nonce
    BY <1>1, <1>3 DEF NonceNotReused
  <2>1. CASE Settled(j)
    BY <2>1 DEF LegsInv, NonceNotReused
  <2>2. CASE j = i
    <3>1. k \in InLeg /\ txs[j].nonce \in Nat /\ txs[k].nonce \in Nat
      BY <1>1, <2>2, Fields DEF LegsInv, LegsType, InLeg
    <3>2. txs[j].nonce < txs[k].nonce
      BY <2>2, <3>1 DEF LegsInv, InLegOrdered
    <3> QED
      BY <3>1, <3>2
  <2> QED
    BY <1>2, <2>1, <2>2
<1> QED
  BY <1>4, <1>6, <1>8, <1>9, <1>10, <1>11

\* A thread that submits: accepted, refused, or without an answer.
LEMMA SubmitPreserves ==
  ASSUME LegsInv, pc = "submit", NEW i \in InLeg, Submit(i), UNCHANGED <<cache, leg, pc>>
  PROVE  LegsInv'
<1>1. /\ txs[i].status = "prepared" /\ UNCHANGED <<first, handed, awaited, taken, polling>>
      /\ first \in Nat \ {0} /\ i \in DOMAIN txs /\ InLeg \subseteq DOMAIN txs /\ awaited <= Len(txs)
      /\ awaited \in Nat
  BY DEF Submit, Sending, InLeg, LegsInv, LegsType, WindowInv
<1>2. PICK status \in {"submitted", "failed"} : SetStatus(i, status)
  BY DEF Submit, Accepted, Refused, Unanswered
<1>3. status \in Statuses \ {"prepared"}
  BY DEF Statuses
<1>4. /\ SameSent /\ txs'[i].status = status /\ InLeg' = InLeg
      /\ \A j \in DOMAIN txs : j # i => txs'[j] = txs[j]
      /\ DOMAIN txs' = DOMAIN txs /\ txs' \in Seq(Transactions) /\ Len(txs') = Len(txs)
  <2>1. /\ SameSent /\ txs'[i].status = status
        /\ \A j \in DOMAIN txs : j # i => txs'[j] = txs[j]
    BY <1>1, <1>2, <1>3, StatusSet DEF LegsInv
  <2> QED
    BY <1>1, <2>1 DEF SameSent, InLeg
<1>5. UNCHANGED mined /\ DOMAIN pool' = Senders /\ PoolIsBounded' /\ HoldsSent'
  <2>1. CASE Enter(txs[i].sender, txs[i].nonce, i)
    BY <1>1, <1>4, <2>1, EnterKeeps DEF LegsInv
  <2>2. CASE UNCHANGED nodeVars
    BY <1>4, <2>2, NodeKept DEF LegsInv
  <2> QED
    BY <2>1, <2>2 DEF Submit, Accepted, Refused, Unanswered
<1>6. MinedGrows
  BY <1>5 DEF MinedGrows, LegsInv, LegsType, LatestCount
<1>7. /\ InLegOrdered' /\ CacheInv' /\ KnownOrStuck' /\ SetupConfirmed' /\ NonceNotReused'
      /\ \A j \in DOMAIN txs : Settled(j)' => txs[j].nonce < Len(mined'[txs[j].sender])
  <2>1. txs[i].status \in {"prepared", "submitted"} /\ pc \in {"submit", "poll"}
    BY <1>1
  <2>2. ~(status \in {"confirmed", "reverted"})
    OBVIOUS
  <2>3. UNCHANGED <<first, cache, leg, pc>>
    BY <1>1
  <2> QED
    BY <1>2, <1>3, <1>6, <2>1, <2>2, <2>3, StatusKeeps, Zenon
<1>8. LegsType'
  BY <1>1, <1>4, <1>5 DEF LegsInv, LegsType
<1>9. WindowInv'
  <2>1. \A j \in first .. awaited : j \in DOMAIN txs /\ txs[j].status # "prepared"
    BY <1>1 DEF LegsInv, LegsType, WindowInv
  <2>2. \A j \in first .. awaited : txs'[j].status # "prepared"
    BY <1>1, <1>4, <2>1
  <2> QED
    BY <1>1, <1>4, <2>2 DEF LegsInv, WindowInv
<1>10. PhaseInv'
  <2>1. \A j \in polling : j \in InLeg /\ j # i /\ j \in DOMAIN txs /\ txs[j].status = "submitted"
    BY <1>1 DEF LegsInv, PhaseInv
  <2>2. ASSUME NEW j \in DOMAIN txs
        PROVE  /\ j < first => txs'[j].status # "prepared" /\ txs'[j].status # "submitted"
               /\ IF j < first THEN txs'[j].leg < leg ELSE txs'[j].leg = leg
    <3>1. j < first => j # i
      BY <1>1 DEF InLeg, LegsInv, LegsType
    <3>2. txs'[j].leg = txs[j].leg
      BY <1>4 DEF SameSent
    <3>3. /\ j < first => txs[j].status # "prepared" /\ txs[j].status # "submitted"
          /\ IF j < first THEN txs[j].leg < leg ELSE txs[j].leg = leg
      BY DEF LegsInv, PhaseInv
    <3> QED
      BY <1>4, <3>1, <3>2, <3>3
  <2> QED
    BY <1>1, <1>4, <2>1, <2>2 DEF PhaseInv
<1>11. ReceiptsAreMined'
  <2> SUFFICES ASSUME NEW j \in DOMAIN txs
               PROVE  /\ Settled(j)' => txs'[j].nonce < Len(mined'[txs'[j].sender])
                      /\ txs'[j].status = "confirmed" =>
                           [id |-> j, ok |-> TRUE] \in ToSet(mined'[txs'[j].sender])
    BY <1>4 DEF ReceiptsAreMined, LatestCount
  <2>1. txs'[j].nonce = txs[j].nonce /\ txs'[j].sender = txs[j].sender
    BY <1>4 DEF SameSent
  <2>2. txs'[j].status = "confirmed" => txs[j].status = "confirmed"
    BY <1>4
  <2> QED
    BY <1>5, <1>7, <2>1, <2>2 DEF LegsInv, ReceiptsAreMined
<1> QED
  BY <1>5, <1>7, <1>8, <1>9, <1>10, <1>11 DEF LegsInv

\* A thread that polls: a receipt of a block, or the end of its time.
LEMMA PollPreserves ==
  ASSUME LegsInv, pc = "poll", NEW i \in InLeg, FindReceipt(i) \/ GiveUp(i),
         UNCHANGED <<nodeVars, cache, leg, pc>>
  PROVE  LegsInv'
<1>1. /\ i \in polling /\ txs[i].status = "submitted" /\ polling' = polling \ {i}
      /\ UNCHANGED <<first, handed, awaited, taken, mined, pool>>
      /\ first \in Nat \ {0} /\ i \in DOMAIN txs /\ InLeg \subseteq DOMAIN txs /\ awaited <= Len(txs)
      /\ awaited \in Nat
  BY DEF FindReceipt, GiveUp, InLeg, LegsInv, LegsType, PhaseInv, WindowInv, nodeVars
<1>2. PICK status \in {"confirmed", "reverted", "timeout"} :
        /\ SetStatus(i, status)
        /\ status # "timeout" => \E r \in Receipts(txs[i].sender, i) : r.ok <=> status = "confirmed"
  <2>1. CASE GiveUp(i)
    BY <2>1 DEF GiveUp
  <2>2. CASE FindReceipt(i)
    BY <2>2 DEF FindReceipt
  <2> QED
    BY <2>1, <2>2
<1>3. status \in Statuses \ {"prepared"} /\ status # "submitted"
  BY DEF Statuses
<1>4. /\ SameSent /\ txs'[i].status = status /\ InLeg' = InLeg
      /\ \A j \in DOMAIN txs : j # i => txs'[j] = txs[j]
      /\ DOMAIN txs' = DOMAIN txs /\ txs' \in Seq(Transactions) /\ Len(txs') = Len(txs)
  <2>1. /\ SameSent /\ txs'[i].status = status
        /\ \A j \in DOMAIN txs : j # i => txs'[j] = txs[j]
    BY <1>1, <1>2, <1>3, StatusSet DEF LegsInv
  <2> QED
    BY <1>1, <2>1 DEF SameSent, InLeg
<1>5. UNCHANGED mined /\ DOMAIN pool' = Senders /\ PoolIsBounded' /\ HoldsSent'
  BY <1>4, NodeKept DEF LegsInv
<1>6. MinedGrows
  BY <1>5 DEF MinedGrows, LegsInv, LegsType, LatestCount
<1>7. status # "timeout" =>
        /\ txs[i].nonce < Len(mined'[txs[i].sender])
        /\ status = "confirmed" => [id |-> i, ok |-> TRUE] \in ToSet(mined[txs[i].sender])
  <2> SUFFICES ASSUME status # "timeout"
               PROVE  /\ txs[i].nonce < Len(mined'[txs[i].sender])
                      /\ status = "confirmed" => [id |-> i, ok |-> TRUE] \in ToSet(mined[txs[i].sender])
    OBVIOUS
  <2> DEFINE s == txs[i].sender
  <2>1. s \in Senders /\ txs[i].nonce \in Nat
    BY <1>1, Fields DEF LegsInv
  <2>2. PICK n \in DOMAIN mined[s] : mined[s][n].id = i /\ (mined[s][n].ok <=> status = "confirmed")
    BY <1>2 DEF Receipts
  <2>3. mined[s] \in Seq(Mineds)
    BY <2>1 DEF LegsInv, LegsType
  <2> HIDE DEF s
  <2>4. mined[s][n] \in Mineds /\ n \in 1 .. Len(mined[s])
    BY <2>2, <2>3
  <2>5. txs[i].nonce = n - 1
    BY <2>1, <2>2 DEF LegsInv, HoldsSent
  <2>6. status = "confirmed" => mined[s][n] = [id |-> i, ok |-> TRUE]
    BY <2>2, <2>4 DEF Mineds
  <2>7. mined[s][n] \in ToSet(mined[s])
    BY <2>2 DEF ToSet
  <2>8. txs[i].nonce < Len(mined'[s])
    BY <1>1, <2>3, <2>4, <2>5
  <2> QED
    BY <2>6, <2>7, <2>8 DEF s
<1>8. /\ InLegOrdered' /\ CacheInv' /\ KnownOrStuck' /\ SetupConfirmed' /\ NonceNotReused'
      /\ \A j \in DOMAIN txs : Settled(j)' => txs[j].nonce < Len(mined'[txs[j].sender])
  <2>1. txs[i].status \in {"prepared", "submitted"} /\ pc \in {"submit", "poll"}
    BY <1>1
  <2>2. status \in {"confirmed", "reverted"} => txs[i].nonce < Len(mined'[txs[i].sender])
    BY <1>7
  <2>3. UNCHANGED <<first, cache, leg, pc>>
    BY <1>1
  <2> QED
    BY <1>2, <1>3, <1>6, <2>1, <2>2, <2>3, StatusKeeps, Zenon
<1>9. LegsType'
  BY <1>1, <1>4, <1>5 DEF LegsInv, LegsType
<1>10. WindowInv'
  <2>1. \A j \in first .. awaited : j \in DOMAIN txs /\ txs[j].status # "prepared"
    BY <1>1 DEF LegsInv, LegsType, WindowInv
  <2>2. \A j \in first .. awaited : txs'[j].status # "prepared"
    BY <1>1, <1>4, <2>1
  <2> QED
    BY <1>1, <1>4, <2>2 DEF LegsInv, WindowInv
<1>11. PhaseInv'
  <2>1. \A j \in polling \ {i} : j \in InLeg /\ j \in DOMAIN txs /\ txs[j].status = "submitted"
    BY <1>1 DEF LegsInv, PhaseInv
  <2>2. ASSUME NEW j \in DOMAIN txs
        PROVE  /\ j < first => txs'[j].status # "submitted"
               /\ txs'[j].status # "prepared"
               /\ IF j < first THEN txs'[j].leg < leg ELSE txs'[j].leg = leg
    <3>1. txs'[j].leg = txs[j].leg
      BY <1>4 DEF SameSent
    <3> QED
      BY <1>3, <1>4, <3>1 DEF LegsInv, PhaseInv
  <2> QED
    BY <1>1, <1>4, <2>1, <2>2 DEF PhaseInv
<1>12. ReceiptsAreMined'
  <2> SUFFICES ASSUME NEW j \in DOMAIN txs
               PROVE  /\ Settled(j)' => txs'[j].nonce < Len(mined'[txs'[j].sender])
                      /\ txs'[j].status = "confirmed" =>
                           [id |-> j, ok |-> TRUE] \in ToSet(mined'[txs'[j].sender])
    BY <1>4 DEF ReceiptsAreMined, LatestCount
  <2>1. txs'[j].nonce = txs[j].nonce /\ txs'[j].sender = txs[j].sender
    BY <1>4 DEF SameSent
  <2>2. txs'[j].status = "confirmed" => [id |-> j, ok |-> TRUE] \in ToSet(mined[txs[j].sender])
    BY <1>4, <1>7 DEF LegsInv, ReceiptsAreMined
  <2> QED
    BY <1>5, <1>8, <2>1, <2>2
<1> QED
  BY <1>5, <1>8, <1>9, <1>10, <1>11, <1>12 DEF LegsInv

------------------------------------------------------------------------------
\* The phases of a leg.

\* A run that ends because a nonce cannot be read, all that is submitted, and a drain
\* only move on.
LEMMA MovePreserves ==
  ASSUME LegsInv, LoadFails \/ FinishSubmit \/ Drain
  PROVE  LegsInv'
<1>1. /\ UNCHANGED <<txs, first, handed, awaited, taken, polling, cache, leg>>
      /\ mined' = mined /\ pool' = pool
      /\ \/ pc = "idle" /\ pc' = "aborted"
         \/ pc = "submit" /\ pc' = "poll" /\ AllSubmitted
         \/ pc = "drain" /\ pc' = "idle"
  BY DEF LoadFails, FinishSubmit, Drain, nodeVars, engineVars
<1>2. LegsType' /\ PoolIsBounded' /\ HoldsSent' /\ WindowInv' /\ ReceiptsAreMined'
  BY <1>1 DEF LegsInv, LegsType, PoolIsBounded, HoldsSent, WindowInv, ReceiptsAreMined, Settled,
              LatestCount
<1>3. PhaseInv'
  <2>1. ASSUME pc' = "poll", NEW i \in DOMAIN txs PROVE txs[i].status # "prepared"
    <3>1. i \in InLeg \/ i < first
      BY DEF InLeg, LegsInv, LegsType
    <3> QED
      BY <1>1, <2>1, <3>1 DEF AllSubmitted, Done, LegsInv, PhaseInv
  <2> QED
    BY <1>1, <2>1 DEF LegsInv, PhaseInv, InLeg
<1>4. InLegOrdered' /\ SetupConfirmed' /\ KnownOrStuck' /\ NonceNotReused'
  BY <1>1 DEF LegsInv, InLegOrdered, SetupConfirmed, KnownOrStuck, Stuck, NonceNotReused, Settled,
              InLeg
<1>5. CacheInv'
  BY <1>1 DEF LegsInv, CacheInv, Settled, LatestCount, InLeg
<1> QED
  BY <1>2, <1>3, <1>4, <1>5 DEF LegsInv

\* The end of a leg: a sender that is still remembered has all its transactions of the
\* leg in blocks, one that is forgotten has one that went wrong.
LEMMA FinishPollPreserves ==
  ASSUME LegsInv, FinishPoll
  PROVE  LegsInv'
<1>1. /\ pc = "poll" /\ AllPolled
      /\ cache' = [s \in DOMAIN cache \ Unsettled |-> cache[s]]
      /\ pc' = IF BadLeg /\ ~Legs[leg].measured THEN "aborted" ELSE "drain"
      /\ UNCHANGED <<txs, first, handed, awaited, taken, polling, leg>>
      /\ mined' = mined /\ pool' = pool
  BY DEF FinishPoll, nodeVars, engineVars
<1>2. /\ DOMAIN cache' = DOMAIN cache \ Unsettled
      /\ \A s \in DOMAIN cache' : cache'[s] = cache[s]
      /\ pc' \in {"aborted", "drain"}
  BY <1>1
<1>3. first \in Nat \ {0} /\ InLeg \subseteq DOMAIN txs /\ \A i \in DOMAIN txs : i \in InLeg \/ i < first
  BY DEF InLeg, LegsInv, LegsType
<1>4. \A i \in DOMAIN txs : txs[i].status # "prepared" /\ txs[i].status # "submitted"
  BY <1>1, <1>3 DEF LegsInv, PhaseInv, AllPolled, ToPoll
<1>5. LegsType' /\ PoolIsBounded' /\ HoldsSent' /\ WindowInv' /\ ReceiptsAreMined'
  <2>1. LegsType'
    BY <1>1, <1>2 DEF LegsInv, LegsType
  <2> QED
    BY <1>1, <2>1 DEF LegsInv, PoolIsBounded, HoldsSent, WindowInv, ReceiptsAreMined, Settled,
                      LatestCount
<1>6. PhaseInv'
  BY <1>1, <1>3, <1>4 DEF LegsInv, PhaseInv, InLeg
<1>7. InLegOrdered' /\ NonceNotReused'
  BY <1>1, <1>2 DEF LegsInv, InLegOrdered, NonceNotReused, Settled, InLeg
<1>8. CacheInv'
  <2> SUFFICES ASSUME NEW s \in DOMAIN cache'
               PROVE  /\ \A i \in DOMAIN txs : txs[i].sender = s /\ Settled(i) => txs[i].nonce < cache[s]
                      /\ cache[s] <= LatestCount(s)
    BY <1>1, <1>2 DEF CacheInv, Settled, LatestCount
  <2>1. s \in DOMAIN cache /\ s \notin Unsettled /\ s \in Senders /\ cache[s] \in Nat
    BY <1>2 DEF LegsInv, LegsType
  <2>2. ASSUME NEW i \in InLeg, txs[i].sender = s, txs[i].nonce = cache[s] - 1
        PROVE  cache[s] <= LatestCount(s)
    <3>1. Settled(i)
      BY <2>1, <2>2 DEF Unsettled
    <3>2. txs[i].nonce < LatestCount(s)
      BY <1>3, <2>2, <3>1 DEF LegsInv, ReceiptsAreMined
    <3>3. LatestCount(s) \in Nat
      BY <2>1 DEF LegsInv, LegsType, LatestCount
    <3> QED
      BY <2>1, <2>2, <3>2, <3>3
  <2> QED
    BY <2>1, <2>2 DEF LegsInv, CacheInv
<1>9. KnownOrStuck'
  <2> SUFFICES ASSUME NEW s \in Senders, ~Stuck(s), NEW i \in DOMAIN txs, txs[i].sender = s
               PROVE  s \in DOMAIN cache' /\ txs[i].nonce < cache'[s]
    BY <1>1 DEF KnownOrStuck, Stuck
  <2>1. s \in DOMAIN cache /\ txs[i].nonce < cache[s]
    BY DEF LegsInv, KnownOrStuck
  <2>2. s \notin Unsettled
    <3>1. ASSUME NEW j \in InLeg, txs[j].sender = s PROVE Settled(j)
      <4>1. txs[j].status \in Statuses
        BY <1>3, Fields DEF LegsInv
      <4>2. txs[j].status \notin {"failed", "timeout"}
        BY <1>3, <3>1 DEF Stuck
      <4> QED
        BY <1>3, <1>4, <4>1, <4>2 DEF Statuses, Settled
    <3> QED
      BY <3>1 DEF Unsettled
  <2> QED
    BY <1>2, <2>1, <2>2
<1>10. SetupConfirmed'
  <2> SUFFICES ASSUME NEW i \in DOMAIN txs, ~Legs[txs[i].leg].measured, i < first \/ pc' = "drain"
               PROVE  txs[i].status = "confirmed"
    BY <1>1, <1>2 DEF SetupConfirmed
  <2>1. CASE i < first
    BY <2>1 DEF LegsInv, SetupConfirmed
  <2>2. CASE ~(i < first)
    <3>1. i \in InLeg /\ txs[i].leg = leg
      BY <1>3, <2>2 DEF LegsInv, PhaseInv
    <3>2. ~BadLeg
      BY <1>1, <2>2, <3>1
    <3> QED
      BY <3>1, <3>2 DEF BadLeg
  <2> QED
    BY <2>1, <2>2
<1> QED
  BY <1>5, <1>6, <1>7, <1>8, <1>9, <1>10 DEF LegsInv

\* The nonce that a leg begins with is above all that is settled of its sender.
LEMMA KnownIsFresh ==
  ASSUME LegsInv, NEW s \in Senders
  PROVE  /\ KnownNonce(s) \in Nat
         /\ \A i \in DOMAIN txs : txs[i].sender = s /\ Settled(i) => txs[i].nonce < KnownNonce(s)
<1>1. CASE s \in DOMAIN cache
  BY <1>1 DEF KnownNonce, LegsInv, LegsType, CacheInv
<1>2. CASE s \notin DOMAIN cache
  <2>1. /\ LatestCount(s) \in Nat /\ PendingCount(s) \in Nat
        /\ LatestCount(s) <= PendingCount(s) /\ KnownNonce(s) = PendingCount(s)
    BY <1>2, PendingIsFree DEF LegsInv, KnownNonce
  <2>2. ASSUME NEW i \in DOMAIN txs, txs[i].sender = s, Settled(i)
        PROVE  txs[i].nonce < PendingCount(s)
    <3>1. txs[i].nonce \in Nat
      BY Fields DEF LegsInv
    <3>2. txs[i].nonce < LatestCount(s)
      BY <2>2 DEF LegsInv, ReceiptsAreMined
    <3> QED
      BY <2>1, <3>1, <3>2
  <2> QED
    BY <2>1, <2>2
<1> QED
  BY <1>1, <1>2

\* What a leg adds: transactions that count up from what is known of their senders, and
\* for each of these senders the nonce after its last one.
LegAdds(specs) ==
  LET n == Len(txs) IN
  /\ Len(txs') = n + Len(specs) /\ txs' \in Seq(Transactions)
  /\ \A i \in DOMAIN txs : i \in DOMAIN txs' /\ txs'[i] = txs[i]
  /\ \A i \in DOMAIN specs : txs'[n + i] =
       [leg |-> leg + 1, sender |-> specs[i], status |-> "prepared",
        nonce |-> KnownNonce(specs[i]) + Cardinality(Places(specs, specs[i], i - 1))]
  /\ DOMAIN cache' = DOMAIN cache \cup ToSet(specs)
  /\ \A s \in ToSet(specs) :
       cache'[s] = KnownNonce(s) + Cardinality(Places(specs, s, Len(specs)))
  /\ \A s \in DOMAIN cache \ ToSet(specs) : cache'[s] = cache[s]

\* StartLeg adds that.
LEMMA StartLegAdds ==
  ASSUME LegsInv, StartLeg
  PROVE  Legs[leg + 1].specs \in Seq(Senders) /\ leg + 1 \in 1 .. Len(Legs) /\ LegAdds(Legs[leg + 1].specs)
<1> DEFINE specs == Legs[leg + 1].specs
           nonce(i) == KnownNonce(specs[i]) + OfSender(SubSeq(specs, 1, i - 1), specs[i])
           tx(i) == [leg |-> leg + 1, sender |-> specs[i], status |-> "prepared", nonce |-> nonce(i)]
           used == ToSet(specs)
           added == [i \in DOMAIN specs |-> tx(i)]
<1>1. /\ leg \in 0 .. Len(Legs) /\ leg < Len(Legs)
      /\ txs' = txs \o added
      /\ cache' = [s \in DOMAIN cache \cup used |->
                     IF s \in used THEN KnownNonce(s) + OfSender(specs, s) ELSE cache[s]]
  BY DEF StartLeg, LegsInv, LegsType
<1>2. leg + 1 \in 1 .. Len(Legs) /\ specs \in Seq(Senders) /\ leg + 1 \in Nat
  <2> DEFINE Kinds == [measured : BOOLEAN, specs : Seq(Senders)]
  <2>1. leg + 1 \in 1 .. Len(Legs) /\ leg + 1 \in Nat
    <3> DEFINE n == Len(Legs)
    <3>1. n \in Nat /\ leg \in 0 .. n /\ leg < n
      BY <1>1, LegsAssumption
    <3> HIDE DEF n
    <3>2. leg + 1 \in 1 .. n /\ leg + 1 \in Nat
      BY <3>1
    <3> QED
      BY <3>2 DEF n
  <2>2. \A l \in Kinds : l.specs \in Seq(Senders)
    OBVIOUS
  <2> HIDE DEF Kinds, specs
  <2>3. Legs \in Seq(Kinds)
    BY LegsAssumption DEF Kinds
  <2>4. Legs[leg + 1] \in Kinds
    BY <2>1, <2>3, ElementOfSeq
  <2> QED
    BY <2>1, <2>2, <2>4 DEF specs
<1> HIDE DEF specs
<1>3. /\ \A i \in DOMAIN specs : specs[i] \in Senders /\ i \in 1 .. Len(specs)
      /\ used \subseteq Senders /\ DOMAIN specs = 1 .. Len(specs) /\ Len(specs) \in Nat
  BY <1>2 DEF ToSet
<1>4. ASSUME NEW i \in DOMAIN specs
      PROVE  /\ nonce(i) = KnownNonce(specs[i]) + Cardinality(Places(specs, specs[i], i - 1))
             /\ nonce(i) \in Nat
  <2>1. i - 1 \in 0 .. Len(specs) /\ specs[i] \in Senders
    BY <1>3
  <2>2. /\ OfSender(SubSeq(specs, 1, i - 1), specs[i]) = Cardinality(Places(specs, specs[i], i - 1))
        /\ Cardinality(Places(specs, specs[i], i - 1)) \in Nat
    BY <1>2, <2>1, CountsPlaces
  <2>3. KnownNonce(specs[i]) \in Nat
    BY <2>1, KnownIsFresh
  <2> QED
    BY <2>2, <2>3
<1>5. ASSUME NEW s \in used
      PROVE  OfSender(specs, s) = Cardinality(Places(specs, s, Len(specs)))
  BY <1>3 DEF OfSender, Places
<1> HIDE DEF nonce
<1>6. \A i \in DOMAIN specs : tx(i) \in Transactions
  BY <1>2, <1>3, <1>4 DEF Transactions, Statuses
<1>7. added \in Seq(Transactions) /\ Len(added) = Len(specs)
  BY <1>3, <1>6
<1>8. txs \in Seq(Transactions)
  BY DEF LegsInv, LegsType
<1> HIDE DEF added
<1>9. /\ txs' \in Seq(Transactions) /\ Len(txs') = Len(txs) + Len(specs)
      /\ \A i \in DOMAIN txs : i \in DOMAIN txs' /\ txs'[i] = txs[i]
      /\ \A i \in DOMAIN specs : txs'[Len(txs) + i] = added[i]
  <2>1. txs' \in Seq(Transactions) /\ Len(txs') = Len(txs) + Len(specs)
    <3>1. (txs \o added) \in Seq(Transactions) /\ Len(txs \o added) = Len(txs) + Len(added)
      BY <1>7, <1>8, ConcatProperties, Zenon
    <3> QED
      BY <1>1, <1>7, <3>1, Zenon
  <2>2. \A i \in 1 .. Len(txs) + Len(specs) :
          txs'[i] = IF i <= Len(txs) THEN txs[i] ELSE added[i - Len(txs)]
    BY <1>1, <1>7, <1>8, ConcatProperties
  <2>3. Len(txs) \in Nat /\ DOMAIN txs = 1 .. Len(txs) /\ DOMAIN txs' = 1 .. Len(txs) + Len(specs)
    BY <1>8, <2>1
  <2>4. ASSUME NEW i \in DOMAIN specs PROVE txs'[Len(txs) + i] = added[i]
    <3>1. i \in 1 .. Len(specs)
      BY <1>3
    <3>2. Len(txs) + i \in 1 .. Len(txs) + Len(specs) /\ ~(Len(txs) + i <= Len(txs))
          /\ (Len(txs) + i) - Len(txs) = i
      BY <1>3, <2>3, <3>1
    <3> QED
      BY <2>2, <3>2
  <2>5. ASSUME NEW i \in DOMAIN txs PROVE i \in DOMAIN txs' /\ txs'[i] = txs[i]
    BY <1>3, <2>2, <2>3
  <2> QED
    BY <2>1, <2>4, <2>5
<1>10. \A i \in DOMAIN specs : txs'[Len(txs) + i] =
         [leg |-> leg + 1, sender |-> specs[i], status |-> "prepared",
          nonce |-> KnownNonce(specs[i]) + Cardinality(Places(specs, specs[i], i - 1))]
  BY <1>4, <1>9 DEF added
<1>11. /\ DOMAIN cache' = DOMAIN cache \cup used
       /\ \A s \in used : cache'[s] = KnownNonce(s) + Cardinality(Places(specs, s, Len(specs)))
       /\ \A s \in DOMAIN cache \ used : cache'[s] = cache[s]
  <2> HIDE DEF used
  <2> QED
    BY <1>1, <1>5
<1>12. LegAdds(specs)
  BY <1>9, <1>10, <1>11 DEF LegAdds
<1> QED
  BY <1>2, <1>12 DEF specs

\* A leg begins: its nonces go up, and are above what its senders have settled.
LEMMA StartLegPreserves ==
  ASSUME LegsInv, StartLeg
  PROVE  LegsInv'
<1> DEFINE specs == Legs[leg + 1].specs
           n == Len(txs)
           count(s, k) == Cardinality(Places(specs, s, k))
<1>1. /\ pc = "idle" /\ pc' = "submit" /\ leg' = leg + 1
      /\ first' = n + 1 /\ handed' = n /\ awaited' = n /\ taken' = n
      /\ mined' = mined /\ pool' = pool /\ polling' = polling
  BY DEF StartLeg, nodeVars
<1>2. specs \in Seq(Senders) /\ leg + 1 \in 1 .. Len(Legs) /\ LegAdds(specs)
  BY StartLegAdds
<1> HIDE DEF specs
<1>3. /\ n \in Nat /\ DOMAIN txs = 1 .. n /\ Len(specs) \in Nat /\ DOMAIN specs = 1 .. Len(specs)
      /\ DOMAIN txs' = 1 .. n + Len(specs) /\ Len(txs') = n + Len(specs)
      /\ txs' \in Seq(Transactions) /\ InLeg' = n + 1 .. n + Len(specs)
      /\ \A i \in DOMAIN txs : i \in DOMAIN txs' /\ txs'[i] = txs[i] /\ i < first'
  BY <1>1, <1>2 DEF LegsInv, LegsType, LegAdds, InLeg
<1>4. ASSUME NEW i \in DOMAIN txs', i \notin DOMAIN txs
      PROVE  /\ i - n \in DOMAIN specs /\ i \in InLeg' /\ i >= first'
             /\ specs[i - n] \in Senders /\ txs'[i].sender = specs[i - n]
             /\ txs'[i].leg = leg' /\ txs'[i].status = "prepared"
             /\ txs'[i].nonce = KnownNonce(specs[i - n]) + count(specs[i - n], i - n - 1)
             /\ count(specs[i - n], i - n - 1) \in Nat
  <2>1. i - n \in 1 .. Len(specs) /\ i \in n + 1 .. n + Len(specs) /\ n + (i - n) = i /\ i >= n + 1
    BY <1>3, <1>4
  <2>2. specs[i - n] \in Senders /\ (i - n) - 1 \in 0 .. Len(specs)
    BY <1>2, <1>3, <2>1
  <2>3. count(specs[i - n], i - n - 1) \in Nat
    BY <1>2, <2>2, CountsPlaces
  <2>4. txs'[i] = [leg |-> leg + 1, sender |-> specs[i - n], status |-> "prepared",
                   nonce |-> KnownNonce(specs[i - n]) + count(specs[i - n], i - n - 1)]
    <3>1. \A k \in DOMAIN specs : txs'[n + k] =
            [leg |-> leg + 1, sender |-> specs[k], status |-> "prepared",
             nonce |-> KnownNonce(specs[k]) + count(specs[k], k - 1)]
      BY <1>2 DEF LegAdds
    <3> QED
      BY <1>3, <2>1, <3>1
  <2> QED
    BY <1>1, <1>3, <2>1, <2>2, <2>3, <2>4
<1>5. ASSUME NEW s \in ToSet(specs)
      PROVE  /\ s \in Senders /\ count(s, Len(specs)) \in Nat /\ KnownNonce(s) \in Nat
             /\ cache'[s] = KnownNonce(s) + count(s, Len(specs))
  <2>1. s \in Senders /\ Len(specs) \in 0 .. Len(specs)
    BY <1>2, <1>3 DEF ToSet
  <2>2. count(s, Len(specs)) \in Nat
    BY <1>2, <2>1, CountsPlaces
  <2> QED
    BY <1>2, <2>1, <2>2, KnownIsFresh DEF LegAdds
<1>6. /\ DOMAIN cache' = DOMAIN cache \cup ToSet(specs)
      /\ \A s \in DOMAIN cache \ ToSet(specs) : cache'[s] = cache[s]
  BY <1>2 DEF LegAdds
<1>7. \A i \in DOMAIN txs : txs[i].status # "prepared" /\ txs[i].status # "submitted"
  BY <1>1 DEF LegsInv, PhaseInv
<1>8. LegsType'
  <2>1. \A s \in DOMAIN cache' : s \in Senders /\ cache'[s] \in Nat
    BY <1>5, <1>6 DEF LegsInv, LegsType
  <2> QED
    BY <1>1, <1>2, <1>3, <2>1 DEF LegsInv, LegsType
<1>9. PoolIsBounded' /\ HoldsSent'
  <2>1. PoolIsBounded'
    BY <1>1 DEF LegsInv, PoolIsBounded
  <2>2. HoldsSent'
    BY <1>1, <1>3 DEF LegsInv, HoldsSent
  <2> QED
    BY <2>1, <2>2
<1>10. WindowInv'
  <2>1. Workers * FuturesPerWorker \in Nat
    BY EngineAssumption
  <2> QED
    BY <1>1, <1>3, <2>1 DEF WindowInv
<1>11. PhaseInv'
  <2>1. polling = {}
    <3>1. InLeg \subseteq DOMAIN txs
      BY DEF InLeg, LegsInv, LegsType
    <3>2. \A i \in polling : i \in DOMAIN txs /\ txs[i].status = "submitted"
      BY <3>1 DEF LegsInv, PhaseInv
    <3> QED
      BY <1>7, <3>2
  <2>2. \A i \in DOMAIN txs : txs[i].leg < leg'
    <3>1. ASSUME NEW i \in DOMAIN txs PROVE txs[i].leg < leg + 1
      <4>1. txs[i].leg \in Nat /\ leg \in Nat
        BY Fields DEF LegsInv, LegsType
      <4>2. txs[i].leg < leg \/ txs[i].leg = leg
        BY DEF LegsInv, PhaseInv
      <4> QED
        BY <4>1, <4>2
    <3> QED
      BY <1>1, <3>1
  <2>3. ASSUME NEW i \in DOMAIN txs'
        PROVE  /\ i < first' \/ pc' # "submit" => txs'[i].status # "prepared"
               /\ i < first' \/ pc' \notin {"submit", "poll"} => txs'[i].status # "submitted"
               /\ IF i < first' THEN txs'[i].leg < leg' ELSE txs'[i].leg = leg'
    <3>1. CASE i \in DOMAIN txs
      BY <1>1, <1>3, <1>7, <2>2, <3>1
    <3>2. CASE i \notin DOMAIN txs
      <4>1. ~(i < first')
        BY <1>1, <1>3, <1>4, <3>2
      <4> QED
        BY <1>1, <1>4, <3>2, <4>1
    <3> QED
      BY <3>1, <3>2
  <2> QED
    BY <1>1, <2>1, <2>3 DEF PhaseInv
<1>12. ReceiptsAreMined'
  <2> SUFFICES ASSUME NEW i \in DOMAIN txs'
               PROVE  /\ txs'[i].status \in {"confirmed", "reverted"} =>
                           txs'[i].nonce < Len(mined[txs'[i].sender])
                      /\ txs'[i].status = "confirmed" =>
                           [id |-> i, ok |-> TRUE] \in ToSet(mined[txs'[i].sender])
    BY <1>1 DEF ReceiptsAreMined, LatestCount, Settled
  <2>1. CASE i \in DOMAIN txs
    BY <1>3, <2>1 DEF LegsInv, ReceiptsAreMined, LatestCount, Settled
  <2>2. CASE i \notin DOMAIN txs
    BY <1>4, <2>2
  <2> QED
    BY <2>1, <2>2
<1>13. ASSUME NEW i \in DOMAIN txs', i \notin DOMAIN txs
       PROVE  /\ txs'[i].sender \in ToSet(specs) /\ txs'[i].sender \in DOMAIN cache'
              /\ KnownNonce(txs'[i].sender) <= txs'[i].nonce
              /\ txs'[i].nonce < cache'[txs'[i].sender]
  <2>1. i - n \in DOMAIN specs /\ txs'[i].sender = specs[i - n] /\ specs[i - n] \in Senders
    BY <1>4, <1>13
  <2>2. specs[i - n] \in ToSet(specs)
    BY <2>1 DEF ToSet
  <2>3. count(specs[i - n], i - n - 1) < count(specs[i - n], Len(specs))
    <3>1. Len(specs) \in i - n .. Len(specs)
      BY <1>3, <2>1
    <3> QED
      BY <1>2, <2>1, <3>1, PlacesGrow
  <2>4. /\ txs'[i].nonce = KnownNonce(specs[i - n]) + count(specs[i - n], i - n - 1)
        /\ count(specs[i - n], i - n - 1) \in Nat
    BY <1>4, <1>13
  <2>5. /\ cache'[specs[i - n]] = KnownNonce(specs[i - n]) + count(specs[i - n], Len(specs))
        /\ count(specs[i - n], Len(specs)) \in Nat /\ KnownNonce(specs[i - n]) \in Nat
    BY <1>5, <2>2
  <2> HIDE DEF count
  <2> QED
    BY <1>6, <2>1, <2>2, <2>3, <2>4, <2>5
<1>14. InLegOrdered'
  <2>1. ASSUME NEW i \in InLeg', NEW j \in InLeg', i < j, txs'[i].sender = txs'[j].sender
        PROVE  txs'[i].nonce < txs'[j].nonce
    <3>1. i \in DOMAIN txs' /\ i \notin DOMAIN txs /\ j \in DOMAIN txs' /\ j \notin DOMAIN txs
      BY <1>3
    <3>2. /\ i - n \in DOMAIN specs /\ txs'[i].sender = specs[i - n] /\ specs[i - n] \in Senders
          /\ txs'[i].nonce = KnownNonce(specs[i - n]) + count(specs[i - n], i - n - 1)
          /\ count(specs[i - n], i - n - 1) \in Nat
      BY <1>4, <3>1
    <3>3. /\ j - n \in DOMAIN specs /\ specs[j - n] = specs[i - n]
          /\ txs'[j].nonce = KnownNonce(specs[i - n]) + count(specs[i - n], j - n - 1)
          /\ count(specs[i - n], j - n - 1) \in Nat
      BY <1>4, <2>1, <3>1, <3>2
    <3>4. j - n - 1 \in i - n .. Len(specs)
      BY <1>3, <2>1, <3>2, <3>3
    <3>5. count(specs[i - n], i - n - 1) < count(specs[i - n], j - n - 1)
      BY <1>2, <3>2, <3>4, PlacesGrow
    <3>6. KnownNonce(specs[i - n]) \in Nat
      BY <3>2, KnownIsFresh
    <3> HIDE DEF count
    <3> QED
      BY <3>2, <3>3, <3>5, <3>6
  <2>2. \A i \in InLeg' : txs'[i].sender \in DOMAIN cache' /\ txs'[i].nonce < cache'[txs'[i].sender]
    <3>1. \A i \in InLeg' : i \in DOMAIN txs' /\ i \notin DOMAIN txs
      BY <1>3
    <3> QED
      BY <1>13, <3>1
  <2> QED
    BY <2>1, <2>2 DEF InLegOrdered
<1>15. \A s \in Senders : s \in DOMAIN cache => s \in DOMAIN cache' /\ cache[s] <= cache'[s]
  <2> SUFFICES ASSUME NEW s \in Senders, s \in DOMAIN cache
               PROVE  s \in DOMAIN cache' /\ cache[s] <= cache'[s]
    OBVIOUS
  <2>1. cache[s] \in Nat /\ s \in DOMAIN cache'
    BY <1>6 DEF LegsInv, LegsType
  <2>2. CASE s \in ToSet(specs)
    <3>1. KnownNonce(s) = cache[s]
      BY DEF KnownNonce
    <3>2. cache'[s] = KnownNonce(s) + count(s, Len(specs)) /\ count(s, Len(specs)) \in Nat
      BY <1>5, <2>2
    <3> HIDE DEF count
    <3> QED
      BY <2>1, <3>1, <3>2
  <2>3. CASE s \notin ToSet(specs)
    BY <1>6, <2>1, <2>3
  <2> QED
    BY <2>2, <2>3
<1>16. CacheInv'
  <2> SUFFICES ASSUME NEW s \in DOMAIN cache'
               PROVE  /\ \A i \in DOMAIN txs' : txs'[i].sender = s /\ txs'[i].status \in {"confirmed", "reverted"}
                                                 => txs'[i].nonce < cache'[s]
                      /\ \/ cache'[s] <= Len(mined[s])
                         \/ \E i \in InLeg' : txs'[i].sender = s /\ txs'[i].nonce = cache'[s] - 1
    BY <1>1 DEF CacheInv, Settled, LatestCount
  <2>1. s \in Senders /\ cache'[s] \in Nat
    BY <1>8 DEF LegsType
  <2>2. ASSUME NEW i \in DOMAIN txs', txs'[i].sender = s, txs'[i].status \in {"confirmed", "reverted"}
        PROVE  txs'[i].nonce < cache'[s]
    <3>1. i \in DOMAIN txs /\ txs'[i] = txs[i] /\ Settled(i) /\ txs[i].nonce \in Nat
      <4>1. i \in DOMAIN txs
        BY <1>4, <2>2
      <4> QED
        BY <1>3, <2>2, <4>1, Fields DEF Settled, LegsInv
    <3>2. CASE s \in ToSet(specs)
      <4>1. txs[i].nonce < KnownNonce(s)
        BY <2>1, <2>2, <3>1, KnownIsFresh
      <4>2. /\ cache'[s] = KnownNonce(s) + count(s, Len(specs)) /\ count(s, Len(specs)) \in Nat
            /\ KnownNonce(s) \in Nat
        BY <1>5, <3>2
      <4> HIDE DEF count
      <4> QED
        BY <3>1, <4>1, <4>2
    <3>3. CASE s \notin ToSet(specs)
      BY <1>6, <2>2, <3>1, <3>3 DEF LegsInv, CacheInv
    <3> QED
      BY <3>2, <3>3
  <2>3. CASE s \in ToSet(specs)
    <3>1. PICK k \in DOMAIN specs : specs[k] = s /\ count(s, k - 1) = count(s, Len(specs)) - 1
      BY <1>2, <2>3, LastPlace
    <3>2. n + k \in InLeg' /\ n + k \in DOMAIN txs' /\ n + k \notin DOMAIN txs /\ (n + k) - n = k
      BY <1>3
    <3>3. txs'[n + k].sender = s /\ txs'[n + k].nonce = KnownNonce(s) + count(s, k - 1)
      BY <1>4, <3>1, <3>2
    <3>4. /\ cache'[s] = KnownNonce(s) + count(s, Len(specs)) /\ count(s, Len(specs)) \in Nat
          /\ KnownNonce(s) \in Nat
      BY <1>5, <2>3
    <3>5. txs'[n + k].nonce = cache'[s] - 1
      <4> HIDE DEF count
      <4> QED
        BY <3>1, <3>3, <3>4
    <3> QED
      BY <2>2, <3>2, <3>3, <3>5
  <2>4. CASE s \notin ToSet(specs)
    <3>1. s \in DOMAIN cache /\ cache'[s] = cache[s] /\ cache[s] <= LatestCount(s)
      BY <1>1, <1>6, <2>4 DEF LegsInv, CacheInv
    <3> QED
      BY <2>2, <3>1 DEF LatestCount
  <2> QED
    BY <2>3, <2>4
<1>17. KnownOrStuck'
  <2> SUFFICES ASSUME NEW s \in Senders, ~Stuck(s)', NEW i \in DOMAIN txs', txs'[i].sender = s
               PROVE  s \in DOMAIN cache' /\ txs'[i].nonce < cache'[s]
    BY DEF KnownOrStuck
  <2>1. ~Stuck(s)
    BY <1>3 DEF Stuck
  <2>2. CASE i \in DOMAIN txs
    <3>1. s \in DOMAIN cache /\ txs[i].nonce < cache[s] /\ txs'[i] = txs[i]
      BY <1>3, <2>1, <2>2 DEF LegsInv, KnownOrStuck
    <3>2. /\ txs[i].nonce \in Nat /\ cache[s] \in Nat /\ s \in DOMAIN cache' /\ cache[s] <= cache'[s]
          /\ cache'[s] \in Nat
      BY <1>8, <1>15, <2>2, <3>1, Fields DEF LegsInv, LegsType
    <3> QED
      BY <3>1, <3>2
  <2>3. CASE i \notin DOMAIN txs
    BY <1>13, <2>3
  <2> QED
    BY <2>2, <2>3
<1>18. SetupConfirmed'
  <2> SUFFICES ASSUME NEW i \in DOMAIN txs', ~Legs[txs'[i].leg].measured, i < first'
               PROVE  txs'[i].status = "confirmed"
    BY <1>1 DEF SetupConfirmed
  <2>1. i \in DOMAIN txs
    BY <1>1, <1>3
  <2> QED
    BY <1>1, <1>3, <2>1 DEF LegsInv, SetupConfirmed
<1>19. NonceNotReused'
  <2> SUFFICES ASSUME NEW i \in DOMAIN txs', NEW j \in DOMAIN txs', i < j,
                      txs'[i].sender = txs'[j].sender, txs'[i].status \in {"confirmed", "reverted"}
               PROVE  txs'[i].nonce # txs'[j].nonce
    BY DEF NonceNotReused, Settled
  <2>1. i \in DOMAIN txs /\ txs'[i] = txs[i] /\ Settled(i)
    <3>1. i \in DOMAIN txs
      BY <1>4
    <3> QED
      BY <1>3, <3>1 DEF Settled
  <2>2. CASE j \in DOMAIN txs
    BY <1>3, <2>1, <2>2 DEF LegsInv, NonceNotReused
  <2>3. CASE j \notin DOMAIN txs
    <3> DEFINE s == txs[i].sender
    <3>1. s \in Senders /\ txs[i].nonce \in Nat /\ txs'[j].nonce \in Nat
      <4>1. txs'[j] \in Transactions
        BY <1>3
      <4> QED
        BY <2>1, <4>1, Fields DEF LegsInv, Transactions
    <3>2. txs[i].nonce < KnownNonce(s) /\ KnownNonce(s) \in Nat
      BY <2>1, <3>1, KnownIsFresh
    <3>3. KnownNonce(s) <= txs'[j].nonce
      BY <1>13, <2>1, <2>3
    <3> HIDE DEF s
    <3> QED
      BY <2>1, <3>1, <3>2, <3>3
  <2> QED
    BY <2>2, <2>3
<1> QED
  BY <1>8, <1>9, <1>10, <1>11, <1>12, <1>14, <1>16, <1>17, <1>18, <1>19 DEF LegsInv

------------------------------------------------------------------------------
\* The specification.

\* Nothing is sent yet.
LEMMA InitHolds == LegsInit => LegsInv
<1> SUFFICES ASSUME LegsInit PROVE LegsInv
  OBVIOUS
<1>1. /\ mined = [s \in Senders |-> <<>>] /\ pool = [s \in Senders |-> <<>>]
      /\ txs = <<>> /\ first = 1 /\ handed = 0 /\ awaited = 0 /\ taken = 0 /\ polling = {}
      /\ cache = <<>> /\ leg = 0 /\ pc = "idle" /\ Len(txs) = 0 /\ DOMAIN txs = {} /\ InLeg = {}
  BY DEF LegsInit, NodeInit, EngineInit, InLeg
<1>2. LegsType
  <2>1. Legs \in Seq([measured : BOOLEAN, specs : Seq(Senders)])
    BY LegsAssumption
  <2>2. Len(Legs) \in Nat
    BY <2>1, LenProperties
  <2>3. mined \in [Senders -> Seq(Mineds)] /\ txs \in Seq(Transactions) /\ DOMAIN cache = {}
    BY <1>1
  <2> QED
    BY <1>1, <2>2, <2>3 DEF LegsType
<1>3. PoolIsBounded
  <2>1. \A s \in Senders : DOMAIN pool[s] = {}
    BY <1>1
  <2>2. IsFiniteSet({}) /\ Cardinality({}) = 0
    BY FS_EmptySet
  <2> QED
    BY <2>1, <2>2, NodeAssumption DEF PoolIsBounded
<1>4. HoldsSent
  BY <1>1 DEF HoldsSent
<1>5. WindowInv
  <2>1. Workers * FuturesPerWorker \in Nat
    BY EngineAssumption
  <2> QED
    BY <1>1, <2>1 DEF WindowInv
<1>6. PhaseInv /\ ReceiptsAreMined /\ InLegOrdered /\ KnownOrStuck /\ SetupConfirmed /\ NonceNotReused
  BY <1>1 DEF PhaseInv, ReceiptsAreMined, InLegOrdered, KnownOrStuck, SetupConfirmed, NonceNotReused
<1>7. CacheInv
  BY <1>1 DEF CacheInv
<1> QED
  BY <1>2, <1>3, <1>4, <1>5, <1>6, <1>7 DEF LegsInv

\* Every step of the workload, of a node or of the wire keeps the invariant.
LEMMA StepPreserves == LegsInv /\ [LegsNext]_legVars => LegsInv'
<1> SUFFICES ASSUME LegsInv, [LegsNext]_legVars PROVE LegsInv'
  OBVIOUS
<1>1. CASE StartLeg
  BY <1>1, StartLegPreserves
<1>2. CASE LoadFails \/ FinishSubmit \/ Drain
  BY <1>2, MovePreserves
<1>3. CASE FinishPoll
  BY <1>3, FinishPollPreserves
<1>4. CASE UNCHANGED <<cache, leg, pc>> /\ pc = "submit" /\ (HandOver \/ AwaitOldest \/ Take)
           /\ UNCHANGED nodeVars
  BY <1>4, QueuePreserves
<1>5. CASE UNCHANGED <<cache, leg, pc>> /\ pc = "submit" /\ \E i \in InLeg : Submit(i)
  BY <1>5, SubmitPreserves
<1>6. CASE UNCHANGED <<cache, leg, pc>> /\ pc = "poll" /\ UNCHANGED nodeVars /\ BeginPoll
  BY <1>6, BeginPollPreserves
<1>7. CASE UNCHANGED <<cache, leg, pc>> /\ pc = "poll" /\ UNCHANGED nodeVars
           /\ \E i \in InLeg : FindReceipt(i) \/ GiveUp(i)
  BY <1>7, PollPreserves
<1>8. CASE Environment
  BY <1>8, EnvironmentPreserves
<1>9. CASE UNCHANGED legVars
  <2>1. UNCHANGED <<mined, pool, txs, first, handed, awaited, taken, polling, cache, leg, pc>>
    BY <1>9 DEF legVars, nodeVars, engineVars
  <2> QED
    BY <2>1 DEF LegsInv, LegsType, PoolIsBounded, HoldsSent, WindowInv, PhaseInv, ReceiptsAreMined,
                InLegOrdered, CacheInv, KnownOrStuck, Stuck, SetupConfirmed, NonceNotReused, Settled,
                InLeg, LatestCount
<1> QED
  BY <1>1, <1>2, <1>3, <1>4, <1>5, <1>6, <1>7, <1>8, <1>9 DEF LegsNext, Workload

\* The inductive invariant, of which every theorem below is a consequence.
THEOREM LegsInvariant == LegsSpec => []LegsInv
<1>1. LegsInit => LegsInv
  BY InitHolds
<1>2. LegsInv /\ [LegsNext]_legVars => LegsInv'
  BY StepPreserves
<1> QED
  BY <1>1, <1>2, PTL DEF LegsSpec

\* submit_all keeps at most Workers * FuturesPerWorker futures, and no more transactions
\* wait in its executor or are on their way than that.
THEOREM WindowIsBounded == LegsSpec => []WindowBounded
<1>1. LegsInv => WindowBounded
  <2> SUFFICES ASSUME LegsInv PROVE WindowBounded
    OBVIOUS
  <2> DEFINE bound == Workers * FuturesPerWorker
  <2>1. /\ first \in Nat \ {0} /\ handed \in Nat /\ awaited \in Nat /\ taken \in Nat
        /\ first - 1 <= awaited /\ awaited <= taken /\ taken <= handed
        /\ handed - awaited <= bound
        /\ \A i \in first .. awaited : txs[i].status # "prepared"
    BY DEF LegsInv, LegsType, WindowInv
  <2>2. bound \in Nat
    BY EngineAssumption
  <2> HIDE DEF bound
  <2>3. Cardinality(Futures) = handed - awaited
    BY <2>1, FuturesCount DEF LegsInv
  <2>4. Sending \subseteq awaited + 1 .. taken
    BY <2>1 DEF Sending
  <2>5. IsFiniteSet(awaited + 1 .. taken) /\ Cardinality(awaited + 1 .. taken) = taken - awaited
    <3>1. awaited + 1 \in Int /\ taken \in Int
      BY <2>1
    <3>2. /\ IsFiniteSet(awaited + 1 .. taken)
          /\ Cardinality(awaited + 1 .. taken)
               = IF awaited + 1 > taken THEN 0 ELSE taken - (awaited + 1) + 1
      BY <3>1, FS_Interval
    <3> QED
      BY <2>1, <3>2
  <2>6. Cardinality(Sending) <= taken - awaited /\ Cardinality(Sending) \in Nat
    <3>1. /\ IsFiniteSet(Sending)
          /\ Cardinality(Sending) <= Cardinality(awaited + 1 .. taken)
      BY <2>4, <2>5, FS_Subset
    <3>2. Cardinality(Sending) \in Nat
      BY <3>1, FS_CardinalityType
    <3> QED
      BY <2>5, <3>1, <3>2
  <2>7. Cardinality(Futures) <= bound /\ handed - taken + Cardinality(Sending) <= bound
    BY <2>1, <2>2, <2>3, <2>6
  <2> QED
    BY <2>7 DEF WindowBounded, bound
<1> QED
  BY <1>1, LegsInvariant, PTL

\* Between legs no nonce that Env remembers is ahead of its node, and it is the chain's
\* while every transaction of the sender has a receipt: a failed leg leaves no gap.
THEOREM NoncesAreUsable == LegsSpec => []NonceUsable
<1>1. LegsInv => NonceUsable
  <2> SUFFICES ASSUME LegsInv, pc = "idle", NEW s \in DOMAIN cache
               PROVE  /\ cache[s] <= PendingCount(s)
                      /\ (\A i \in DOMAIN txs : txs[i].sender = s => Settled(i))
                           => cache[s] = LatestCount(s)
    BY DEF NonceUsable
  <2>1. s \in Senders /\ cache[s] \in Nat /\ cache[s] <= LatestCount(s)
    BY DEF LegsInv, LegsType, CacheInv
  <2>2. /\ LatestCount(s) \in Nat /\ PendingCount(s) \in Nat
        /\ LatestCount(s) <= PendingCount(s)
    BY <2>1, PendingIsFree DEF LegsInv
  <2>3. ASSUME \A i \in DOMAIN txs : txs[i].sender = s => Settled(i)
        PROVE  LatestCount(s) <= cache[s]
    <3> SUFFICES ASSUME LatestCount(s) > cache[s] PROVE FALSE
      BY <2>1, <2>2
    <3> DEFINE m == LatestCount(s)
               i == mined[s][m].id
    <3>1. m \in Nat /\ m > 0 /\ m \in DOMAIN mined[s]
      BY <2>1, <2>2 DEF LatestCount, LegsInv, LegsType
    <3>2. i \in DOMAIN txs /\ txs[i].sender = s /\ txs[i].nonce = m - 1
      BY <2>1, <3>1 DEF LegsInv, HoldsSent
    <3>3. Settled(i)
      BY <2>3, <3>2
    <3>4. txs[i].nonce < cache[s]
      BY <3>2, <3>3 DEF LegsInv, CacheInv
    <3> HIDE DEF i, m
    <3>5. m - 1 < cache[s]
      BY <3>2, <3>4
    <3> QED
      BY <2>1, <2>2, <3>1, <3>5 DEF m
  <2> QED
    BY <2>1, <2>2, <2>3
<1> QED
  BY <1>1, LegsInvariant, PTL

\* No leg deals out a nonce again that a settled transaction has used.
THEOREM NoncesAreFresh == LegsSpec => []NonceNotReused
<1>1. LegsInv => NonceNotReused
  BY DEF LegsInv
<1> QED
  BY <1>1, LegsInvariant, PTL

\* Every leg stands on set-up legs whose transactions are all in blocks and succeeded.
THEOREM SetupIsBehind == LegsSpec => []SetupStandsBehind
<1>1. LegsInv => SetupStandsBehind
  <2> SUFFICES ASSUME LegsInv, NEW i \in DOMAIN txs, NEW j \in DOMAIN txs,
                      txs[i].leg < txs[j].leg, ~Legs[txs[i].leg].measured
               PROVE  [id |-> i, ok |-> TRUE] \in ToSet(mined[txs[i].sender])
    BY DEF SetupStandsBehind
  <2>1. i < first
    <3>1. txs[i].leg \in Nat /\ txs[j].leg \in Nat /\ leg \in Nat
      BY Fields DEF LegsInv, LegsType
    <3>2. txs[j].leg <= leg
      BY <3>1 DEF LegsInv, PhaseInv
    <3>3. txs[i].leg # leg
      BY <3>1, <3>2
    <3> QED
      BY <3>3 DEF LegsInv, PhaseInv
  <2>2. txs[i].status = "confirmed"
    BY <2>1 DEF LegsInv, SetupConfirmed
  <2> QED
    BY <2>2 DEF LegsInv, ReceiptsAreMined
<1> QED
  BY <1>1, LegsInvariant, PTL

------------------------------------------------------------------------------
\* The benchmark: sums over finite functions.

\* The values of a function, added up.
Added(f) == FoldFunction(+, 0, f)

\* Two sets that share nothing.
LEMMA ApartAddUp ==
  ASSUME NEW A, NEW B, IsFiniteSet(A), IsFiniteSet(B), A \cap B = {}
  PROVE  Cardinality(A \cup B) = Cardinality(A) + Cardinality(B)
<1> DEFINE both == A \cap B
<1>1. both = {}
  OBVIOUS
<1>2. Cardinality(A \cup B) = Cardinality(A) + Cardinality(B) - Cardinality(both)
  BY FS_Union
<1> HIDE DEF both
<1>3. Cardinality(A) \in Nat /\ Cardinality(B) \in Nat /\ Cardinality(both) = 0
  BY <1>1, FS_CardinalityType, FS_EmptySet
<1> QED
  BY <1>2, <1>3

\* To count a finite set by keys and add the counts up is to count all that has a key.
LEMMA PartsAddUp ==
  ASSUME NEW D, IsFiniteSet(D), NEW key, NEW N, IsFiniteSet(N)
  PROVE  Added([n \in N |-> Cardinality({i \in D : key[i] = n})])
           = Cardinality({i \in D : key[i] \in N})
<1> DEFINE f == [n \in N |-> Cardinality({i \in D : key[i] = n})]
           Part(s) == {i \in D : key[i] \in s}
           g == [s \in SUBSET N |-> Cardinality(Part(s))]
           Is(h) == h = [s \in SUBSET N |->
                           IF s = {} THEN 0
                           ELSE LET x == CHOOSE x \in s : TRUE IN f[x] + h[s \ {x}]]
           h == CHOOSE h : Is(h)
<1>1. Added(f) = h[N]
  BY DEF Added, FoldFunction, FoldFunctionOnSet, MapThenFoldSet
<1>2. ASSUME NEW s \in SUBSET N
      PROVE  g[s] = IF s = {} THEN 0
                    ELSE LET x == CHOOSE x \in s : TRUE IN f[x] + g[s \ {x}]
  <2>1. CASE s = {}
    <3>1. Part(s) = {}
      BY <2>1
    <3> QED
      BY <2>1, <3>1, FS_EmptySet
  <2>2. CASE s # {}
    <3> DEFINE x == CHOOSE x \in s : TRUE
    <3>1. x \in s /\ s \ {x} \in SUBSET N
      BY <2>2
    <3> HIDE DEF x
    <3> DEFINE own == {i \in D : key[i] = x}
    <3>2. IsFiniteSet(own) /\ IsFiniteSet(Part(s \ {x}))
      BY FS_Subset
    <3>3. own \cup Part(s \ {x}) = Part(s) /\ own \cap Part(s \ {x}) = {}
      BY <3>1
    <3> HIDE DEF own, Part
    <3>4. Cardinality(own \cup Part(s \ {x})) = Cardinality(own) + Cardinality(Part(s \ {x}))
      BY <3>2, <3>3, ApartAddUp
    <3>5. Cardinality(Part(s)) = Cardinality(own) + Cardinality(Part(s \ {x}))
      BY <3>3, <3>4
    <3>6. f[x] = Cardinality(own)
      BY <3>1 DEF own
    <3>7. g[s] = f[x] + g[s \ {x}]
      BY <3>1, <3>5, <3>6
    <3> QED
      BY <2>2, <3>7 DEF x
  <2> QED
    BY <2>1, <2>2
<1>3. g = [s \in SUBSET N |-> g[s]] /\ g[N] = Cardinality(Part(N))
  OBVIOUS
<1> HIDE DEF f, g
<1>4. Is(g)
  BY <1>2, <1>3
<1>5. Is(h)
  <2> HIDE DEF Is
  <2> QED
    BY <1>4
<1> HIDE DEF h
<1>6. \A s \in SUBSET N : h[s] = IF s = {} THEN 0
                                ELSE LET x == CHOOSE x \in s : TRUE IN f[x] + h[s \ {x}]
  BY <1>5
<1> HIDE DEF Is
<1> DEFINE Off == {k \in Nat : \E s \in SUBSET N : Cardinality(s) = k /\ h[s] # g[s]}
<1>7. ASSUME Off # {} PROVE FALSE
  <2>1. PICK k \in Off : \A j \in Off : k <= j
    <3>1. Off \subseteq Nat
      OBVIOUS
    <3> HIDE DEF Off
    <3> QED
      BY <1>7, <3>1, NatLeast
  <2>2. PICK s \in SUBSET N : Cardinality(s) = k /\ h[s] # g[s]
    BY <2>1
  <2>3. s # {}
    BY <1>2, <1>6, <2>2
  <2> DEFINE x == CHOOSE x \in s : TRUE
  <2>4. x \in s /\ s \ {x} \in SUBSET N
    BY <2>3
  <2>5. h[s] = f[x] + h[s \ {x}] /\ g[s] = f[x] + g[s \ {x}]
    BY <1>2, <1>6, <2>2, <2>3
  <2> HIDE DEF x
  <2>6. k \in Nat /\ IsFiniteSet(s)
    BY <2>1, <2>2, FS_Subset
  <2>7. Cardinality(s \ {x}) = k - 1 /\ Cardinality(s \ {x}) \in Nat
    BY <2>2, <2>4, <2>6, FS_RemoveElement, FS_CardinalityType
  <2>8. k - 1 \notin Off
    BY <2>1, <2>6
  <2>9. h[s \ {x}] = g[s \ {x}]
    BY <2>4, <2>7, <2>8
  <2> QED
    BY <2>2, <2>5, <2>9
<1>8. \A s \in SUBSET N : h[s] = g[s]
  <2> SUFFICES ASSUME NEW s \in SUBSET N, h[s] # g[s] PROVE FALSE
    OBVIOUS
  <2>1. Cardinality(s) \in Off
    BY FS_Subset, FS_CardinalityType
  <2> HIDE DEF Off
  <2> QED
    BY <1>7, <2>1
<1>9. h[N] = g[N]
  BY <1>8
<1> QED
  BY <1>1, <1>3, <1>9 DEF f

------------------------------------------------------------------------------
\* Percentiles.

\* A finite set of integers that is not empty has a least and a greatest element.
LEMMA IntExtremes ==
  ASSUME NEW S, IsFiniteSet(S), S # {}, S \subseteq Int
  PROVE  (\E a \in S : \A b \in S : a <= b) /\ (\E a \in S : \A b \in S : b <= a)
<1>1. \E a \in S : \A b \in S : a <= b
  <2> DEFINE Below(x) == {y \in S : y <= x}
             Ranks == {Cardinality(Below(x)) : x \in S}
  <2>1. \A x \in S : IsFiniteSet(Below(x)) /\ Cardinality(Below(x)) \in Nat
    BY FS_Subset, FS_CardinalityType
  <2>2. Ranks \subseteq Nat /\ Ranks # {}
    BY <2>1
  <2>3. PICK k \in Ranks : \A j \in Ranks : k <= j
    <3> HIDE DEF Ranks
    <3> QED
      BY <2>2, NatLeast
  <2>4. PICK a \in S : Cardinality(Below(a)) = k
    BY <2>3
  <2>5. ASSUME NEW b \in S, b < a PROVE FALSE
    <3>1. Below(b) \in SUBSET Below(a) /\ a \in Below(a) /\ a \notin Below(b)
      <4>1. a \in Int /\ b \in Int /\ \A y \in S : y \in Int
        OBVIOUS
      <4>2. (\A y \in S : y <= b => y <= a) /\ ~(a <= b) /\ a <= a
        BY <2>5, <4>1
      <4> QED
        BY <4>2
    <3>2. k <= Cardinality(Below(b))
      BY <2>3
    <3> HIDE DEF Below
    <3>3. Cardinality(Below(b)) <= Cardinality(Below(a)) /\ Cardinality(Below(a)) # Cardinality(Below(b))
      BY <2>1, <3>1, FS_Subset
    <3> QED
      BY <2>1, <2>4, <3>2, <3>3
  <2> QED
    BY <2>5
<1>2. \E a \in S : \A b \in S : b <= a
  <2> DEFINE Above(x) == {y \in S : x <= y}
             Ranks == {Cardinality(Above(x)) : x \in S}
  <2>1. \A x \in S : IsFiniteSet(Above(x)) /\ Cardinality(Above(x)) \in Nat
    BY FS_Subset, FS_CardinalityType
  <2>2. Ranks \subseteq Nat /\ Ranks # {}
    BY <2>1
  <2>3. PICK k \in Ranks : \A j \in Ranks : k <= j
    <3> HIDE DEF Ranks
    <3> QED
      BY <2>2, NatLeast
  <2>4. PICK a \in S : Cardinality(Above(a)) = k
    BY <2>3
  <2>5. ASSUME NEW b \in S, a < b PROVE FALSE
    <3>1. Above(b) \in SUBSET Above(a) /\ a \in Above(a) /\ a \notin Above(b)
      <4>1. a \in Int /\ b \in Int /\ \A y \in S : y \in Int
        OBVIOUS
      <4>2. (\A y \in S : b <= y => a <= y) /\ ~(b <= a) /\ a <= a
        BY <2>5, <4>1
      <4> QED
        BY <4>2
    <3>2. k <= Cardinality(Above(b))
      BY <2>3
    <3> HIDE DEF Above
    <3>3. Cardinality(Above(b)) <= Cardinality(Above(a)) /\ Cardinality(Above(a)) # Cardinality(Above(b))
      BY <2>1, <3>1, FS_Subset
    <3> QED
      BY <2>1, <2>4, <3>2, <3>3
  <2> QED
    BY <2>5
<1> QED
  BY <1>1, <1>2

\* The values of a finite function are finitely many.
LEMMA ImageFinite ==
  ASSUME NEW D, IsFiniteSet(D), NEW f, DOMAIN f = D
  PROVE  IsFiniteSet({f[i] : i \in D})
<1> DEFINE T == {f[i] : i \in D}
           g == [i \in D |-> f[i]]
<1>1. g \in Surjection(D, T)
  BY DEF Surjection
<1> QED
  BY <1>1, FS_Surjection

\* How many of the values are at most v.
CountUpTo(values, v) == Cardinality({i \in DOMAIN values : values[i] <= v})

\* What sorted has at the k-th place: a value, the least that is no less than k of them.
LEMMA SortedIs ==
  ASSUME NEW D, IsFiniteSet(D), NEW values \in [D -> Int], NEW k \in 1 .. Cardinality(D)
  PROVE  LET v == Sorted(values)[k] IN
         /\ v \in Range(values) /\ v \in Int
         /\ CountUpTo(values, v) >= k
         /\ \A w \in Range(values) : CountUpTo(values, w) >= k => v <= w
<1> DEFINE R == Range(values)
           C == {v \in R : CountUpTo(values, v) >= k}
<1>1. /\ DOMAIN values = D /\ Cardinality(D) \in Nat /\ D # {}
      /\ R = {values[i] : i \in D} /\ R \subseteq Int /\ R # {}
  BY FS_CardinalityType, FS_EmptySet DEF Range
<1>2. IsFiniteSet(R)
  BY <1>1, ImageFinite
<1> HIDE DEF R
<1>3. PICK m \in R : \A b \in R : b <= m
  BY <1>1, <1>2, IntExtremes
<1>4. {i \in DOMAIN values : values[i] <= m} = D
  BY <1>1, <1>3
<1>5. m \in C
  BY <1>1, <1>4 DEF CountUpTo
<1>6. IsFiniteSet(C) /\ C \subseteq Int
  BY <1>1, <1>2, FS_Subset
<1>7. Sorted(values)[k] = Min(C)
  BY <1>1 DEF Sorted, CountUpTo, R
<1>8. PICK a \in C : \A b \in C : a <= b
  <2> HIDE DEF C
  <2> QED
    BY <1>5, <1>6, IntExtremes
<1>9. Min(C) \in C /\ \A b \in C : Min(C) <= b
  <2> HIDE DEF C
  <2> QED
    BY <1>8 DEF Min
<1> QED
  BY <1>1, <1>7, <1>9 DEF R

\* Smaller values give a smaller one at every place, whatever the order they stand in.
LEMMA SortedMonotone ==
  ASSUME NEW D, IsFiniteSet(D), NEW f \in [D -> Int], NEW g \in [D -> Int],
         \A i \in D : f[i] <= g[i], NEW k \in 1 .. Cardinality(D)
  PROVE  Sorted(f)[k] <= Sorted(g)[k]
<1>1. PICK y \in Int : y = Sorted(g)[k] /\ CountUpTo(g, y) >= k
  BY SortedIs
<1> DEFINE A == {i \in D : f[i] <= y}
           B == {i \in D : g[i] <= y}
<1>2. DOMAIN f = D /\ DOMAIN g = D /\ k \in Nat /\ k >= 1
  BY FS_CardinalityType
<1>3. B \in SUBSET A /\ A \in SUBSET D
  <2>1. \A i \in D : f[i] \in Int /\ g[i] \in Int
    OBVIOUS
  <2> QED
    BY <1>1, <2>1
<1>4. CountUpTo(g, y) = Cardinality(B)
  BY <1>2 DEF CountUpTo
<1> HIDE DEF B
<1>5. IsFiniteSet(A) /\ Cardinality(A) \in Nat /\ Cardinality(B) \in Nat /\ Cardinality(B) <= Cardinality(A)
  BY <1>3, FS_Subset, FS_CardinalityType
<1>6. Cardinality(A) >= k /\ A # {}
  BY <1>1, <1>2, <1>4, <1>5, FS_EmptySet
<1> DEFINE h == [i \in A |-> f[i]]
           S == {h[i] : i \in A}
<1>7. IsFiniteSet(S)
  <2> DOMAIN h = A
    OBVIOUS
  <2> HIDE DEF h, A
  <2> QED
    BY <1>5, ImageFinite
<1>8. S # {} /\ S \subseteq Int
  BY <1>6
<1>9. PICK z \in S : \A b \in S : b <= z
  <2> HIDE DEF S
  <2> QED
    BY <1>7, <1>8, IntExtremes
<1>10. z \in Range(f) /\ z \in Int /\ z <= y
  BY <1>2, <1>9 DEF Range
<1>11. {i \in D : f[i] <= z} = A
  <2>1. \A i \in A : f[i] <= z
    BY <1>9
  <2>2. \A i \in D : f[i] <= z => f[i] <= y
    BY <1>10
  <2> QED
    BY <2>1, <2>2
<1>12. CountUpTo(f, z) >= k
  BY <1>2, <1>6, <1>11 DEF CountUpTo
<1>13. Sorted(f)[k] <= z /\ Sorted(f)[k] \in Int
  BY <1>10, <1>12, SortedIs
<1> QED
  BY <1>1, <1>10, <1>13

\* A rank k between the places of n values: at or behind the place lo, r hundredths on.
IsRank(n, k, lo, r) ==
  /\ k \in Nat /\ lo \in Nat /\ r \in 0 .. 99 /\ k - 100 * lo = r /\ lo <= n - 1
  /\ (k + 99) \div 100 = IF r = 0 THEN lo ELSE lo + 1
  /\ n > 1 => lo + 1 <= n - 1
  /\ n = 1 => lo = 0 /\ r = 0

\* Where a percentile below the 100th looks: between two neighbouring places, unless there is
\* one value only.
LEMMA RankFits ==
  ASSUME NEW n \in Nat \ {0}, NEW p \in 0 .. 99
  PROVE  IsRank(n, (n - 1) * p, ((n - 1) * p) \div 100, ((n - 1) * p) % 100)
<1> DEFINE k == (n - 1) * p
<1>1. n - 1 \in Nat /\ p \in Nat /\ p <= 99
  OBVIOUS
<1>2. \A a \in Nat, b \in Nat, c \in Nat : a * b \in Nat /\ (b <= c => a * b <= a * c)
  OBVIOUS
<1>3. k \in Nat /\ k <= (n - 1) * 99
  BY <1>1, <1>2
<1>4. n = 1 => k = 0
  OBVIOUS
<1> HIDE DEF k
<1> QED
  BY <1>3, <1>4 DEF k, IsRank

\* Interpolation between smaller values gives a smaller one.
LEMMA BetweenMonotone ==
  ASSUME NEW r \in 0 .. 99, NEW a \in Int, NEW b \in Int, NEW c \in Int, NEW d \in Int,
         a <= c, b <= d
  PROVE  100 * a + (b - a) * r <= 100 * c + (d - c) * r
<1>1. \A x \in Nat, y \in Nat : x * y \in Nat
  OBVIOUS
<1>2. (100 - r) * (c - a) \in Nat /\ r * (d - b) \in Nat
  BY <1>1
<1>3. 100 * c + (d - c) * r = 100 * a + (b - a) * r + (100 - r) * (c - a) + r * (d - b)
  OBVIOUS
<1> QED
  BY <1>2, <1>3

\* The three definitions of a percentile, for any values and below the 100th.
LEMMA PercentilesAreOne ==
  ASSUME NEW D, IsFiniteSet(D), D # {}, NEW values \in [D -> Int], NEW p \in 0 .. 99
  PROVE  percentile(values, p) = pct(values, p) /\ pct(values, p) = ablationPercentile(values, p)
<1> DEFINE v == Sorted(values)
           n == Cardinality(D)
           k == (n - 1) * p
           lo == k \div 100
           r == k % 100
<1>1. n \in Nat \ {0} /\ Cardinality(DOMAIN values) = n
  BY FS_CardinalityType, FS_EmptySet
<1>2. \A i \in 1 .. n : v[i] \in Int
  BY SortedIs
<1> HIDE DEF n, v
<1>3. /\ k \in Nat /\ lo \in Nat /\ r \in 0 .. 99 /\ k - 100 * lo = r /\ lo <= n - 1
      /\ (k + 99) \div 100 = IF r = 0 THEN lo ELSE lo + 1
      /\ n > 1 => lo + 1 <= n - 1
      /\ n = 1 => lo = 0 /\ r = 0
  <2>1. IsRank(n, k, lo, r)
    BY <1>1, RankFits
  <2> HIDE DEF k, lo, r
  <2> QED
    BY <2>1 DEF IsRank
<1> DEFINE hi == (k + 99) \div 100
           up == IF lo + 1 < n THEN lo + 1 ELSE n - 1
           c == IF lo + 1 < n THEN lo + 1 ELSE n
           Between(i, j, w) == 100 * v[i] + (v[j] - v[i]) * w
<1>4. pct(values, p) = Between(lo + 1, hi + 1, k - 100 * lo)
  BY <1>1 DEF pct, v
<1>5. ablationPercentile(values, p) = Between(lo + 1, up + 1, k - 100 * lo)
  BY <1>1 DEF ablationPercentile, v
<1>6. n = 1 => percentile(values, p) = 100 * v[1]
  BY <1>1 DEF percentile, v
<1>7. n # 1 => percentile(values, p) = Between(lo + 1, c + 1, r)
  BY <1>1 DEF percentile, v
<1> HIDE DEF k, lo, r
<1>8. CASE n = 1
  <2>1. lo = 0 /\ r = 0 /\ hi = 0 /\ up = 0 /\ k - 100 * lo = 0
    BY <1>3, <1>8
  <2>2. v[1] \in Int /\ Between(1, 1, 0) = 100 * v[1]
    BY <1>2, <1>8
  <2> HIDE DEF hi, up
  <2> QED
    BY <1>4, <1>5, <1>6, <1>8, <2>1, <2>2
<1>9. CASE n # 1
  <2>1. lo + 1 < n /\ lo + 1 \in 1 .. n /\ lo + 2 \in 1 .. n
    BY <1>1, <1>3, <1>9
  <2>2. up = lo + 1 /\ c = lo + 1 /\ hi = IF r = 0 THEN lo ELSE lo + 1
    BY <1>3, <2>1
  <2>3. k - 100 * lo = r /\ lo + 1 + 1 = lo + 2 /\ lo \in Nat
    BY <1>3
  <2>4. v[lo + 1] \in Int /\ v[lo + 2] \in Int
    BY <1>2, <2>1
  <2>5. pct(values, p) = Between(lo + 1, hi + 1, r)
    BY <1>4, <2>3
  <2>6. ablationPercentile(values, p) = Between(lo + 1, lo + 2, r)
    BY <1>5, <2>2, <2>3
  <2>7. percentile(values, p) = Between(lo + 1, lo + 2, r)
    BY <1>7, <1>9, <2>2, <2>3
  <2>8. Between(lo + 1, hi + 1, r) = Between(lo + 1, lo + 2, r)
    <3>1. CASE r = 0
      <4>1. hi + 1 = lo + 1
        BY <2>2, <3>1
      <4>2. Between(lo + 1, lo + 1, 0) = 100 * v[lo + 1] /\ Between(lo + 1, lo + 2, 0) = 100 * v[lo + 1]
        BY <2>4
      <4> QED
        BY <3>1, <4>1, <4>2
    <3>2. CASE r # 0
      <4>1. hi + 1 = lo + 2
        BY <2>2, <2>3, <3>2
      <4> QED
        BY <4>1
    <3> QED
      BY <3>1, <3>2
  <2> QED
    BY <2>5, <2>6, <2>7, <2>8
<1> QED
  BY <1>8, <1>9

\* What pct makes of smaller values is smaller, and of values that are not negative not negative.
LEMMA PctMonotone ==
  ASSUME NEW D, IsFiniteSet(D), D # {}, NEW f \in [D -> Int], NEW g \in [D -> Int],
         \A i \in D : 0 <= f[i] /\ f[i] <= g[i], NEW p \in 0 .. 99
  PROVE  0 <= pct(f, p) /\ pct(f, p) <= pct(g, p)
<1> DEFINE n == Cardinality(D)
           k == (n - 1) * p
           lo == k \div 100
           r == k % 100
           hi == (k + 99) \div 100
           F == Sorted(f)
           G == Sorted(g)
<1>1. n \in Nat \ {0} /\ Cardinality(DOMAIN f) = n /\ Cardinality(DOMAIN g) = n
  BY FS_CardinalityType, FS_EmptySet
<1>2. \A i \in 1 .. n : F[i] \in Int /\ G[i] \in Int /\ F[i] <= G[i]
  BY SortedIs, SortedMonotone
<1>3. \A i \in 1 .. n : 0 <= F[i]
  BY SortedIs DEF Range
<1> HIDE DEF n, F, G
<1>4. /\ k \in Nat /\ lo \in Nat /\ r \in 0 .. 99 /\ k - 100 * lo = r /\ lo <= n - 1
      /\ hi = IF r = 0 THEN lo ELSE lo + 1
      /\ n > 1 => lo + 1 <= n - 1
      /\ n = 1 => lo = 0 /\ r = 0
  <2>1. IsRank(n, k, lo, r)
    BY <1>1, RankFits
  <2> HIDE DEF k, lo, r
  <2> QED
    BY <2>1 DEF IsRank
<1>5. pct(f, p) = 100 * F[lo + 1] + (F[hi + 1] - F[lo + 1]) * (k - 100 * lo)
  BY <1>1 DEF pct, F
<1>6. pct(g, p) = 100 * G[lo + 1] + (G[hi + 1] - G[lo + 1]) * (k - 100 * lo)
  BY <1>1 DEF pct, G
<1> HIDE DEF k, lo, r, hi
<1>7. lo + 1 \in 1 .. n /\ hi + 1 \in 1 .. n
  BY <1>1, <1>4
<1>8. PICK a \in Nat, b \in Nat, c \in Int, d \in Int :
        a = F[lo + 1] /\ b = F[hi + 1] /\ c = G[lo + 1] /\ d = G[hi + 1] /\ a <= c /\ b <= d
  BY <1>2, <1>3, <1>7
<1>9. pct(f, p) = 100 * a + (b - a) * r /\ pct(g, p) = 100 * c + (d - c) * r
  BY <1>4, <1>5, <1>6, <1>8
<1>10. 100 * a + (b - a) * r <= 100 * c + (d - c) * r
  <2>1. a \in Int /\ b \in Int /\ r \in 0 .. 99 /\ a <= c /\ b <= d
    BY <1>4, <1>8
  <2> QED
    BY <2>1, BetweenMonotone
<1>11. 100 * 0 + (0 - 0) * r <= 100 * a + (b - a) * r /\ 100 * 0 + (0 - 0) * r = 0
  <2>1. 0 \in Int /\ a \in Int /\ b \in Int /\ 0 <= a /\ 0 <= b
    OBVIOUS
  <2>2. 100 * 0 + (0 - 0) * r <= 100 * a + (b - a) * r
    BY <1>4, <2>1, BetweenMonotone
  <2>3. 100 * 0 + (0 - 0) * r = 0
    BY <1>4
  <2> QED
    BY <2>2, <2>3
<1> QED
  BY <1>9, <1>10, <1>11

\* The percentiles that the two workloads, the benchmark and the ablation print are one figure.
THEOREM ToolsAgreeOnPercentiles == BenchSpec => []PercentilesAgree
<1>1. PercentilesAgree
  <2> SUFFICES ASSUME NEW values \in ValueLists, NEW p \in 0 .. 99
               PROVE  /\ percentile(values, p) = pct(values, p)
                      /\ pct(values, p) = ablationPercentile(values, p)
    BY DEF PercentilesAgree
  <2>1. values \in Seq(Int) /\ values # <<>>
    BY ValuesAssumption
  <2>2. values \in [1 .. Len(values) -> Int] /\ Len(values) \in Nat \ {0}
    BY <2>1, EmptySeq
  <2>3. IsFiniteSet(1 .. Len(values)) /\ 1 .. Len(values) # {}
    <3>1. Len(values) \in Int /\ 1 \in 1 .. Len(values)
      BY <2>2
    <3> QED
      BY <3>1, FS_Interval
  <2> QED
    BY <2>2, <2>3, PercentilesAreOne
<1> QED
  BY <1>1, PTL

\* Whatever the stamps of the blocks, clamping keeps each latency between nothing and the one
\* by polling, and so the median and the tail of every leg (apply_block_time_latency).
THEOREM ClampingShortens == BenchSpec => []BlockTimeNeverLonger
<1>1. BlockTimeNeverLonger
  <2> SUFFICES ASSUME NEW ts \in TimedLegs
               PROVE  LET block == apply_block_time_latency(ts, "block_time")
                          poll == apply_block_time_latency(ts, "poll")
                      IN  /\ block.n = poll.n
                          /\ block.n > 0 => /\ 0 <= block.p50 /\ block.p50 <= poll.p50
                                            /\ 0 <= block.p99 /\ block.p99 <= poll.p99
    BY DEF BlockTimeNeverLonger
  <2> DEFINE D == Timed(ts)
             n == Cardinality(D)
             f == [i \in D |-> latency(ts[i], "block_time")]
             g == [i \in D |-> latency(ts[i], "poll")]
  <2>1. IsFiniteSet(D)
    BY TimedLegsAssumption, FS_Subset DEF Timed, With
  <2>2. ASSUME NEW i \in D
        PROVE  /\ latency(ts[i], "block_time") \in Int /\ latency(ts[i], "poll") \in Int
               /\ 0 <= latency(ts[i], "block_time")
               /\ latency(ts[i], "block_time") <= latency(ts[i], "poll")
    <3>1. /\ ts[i].submit \in Int /\ ts[i].confirm \in Int /\ ts[i].block \in Int
          /\ ts[i].submit <= ts[i].confirm
      BY TimedLegsAssumption
    <3> QED
      BY <3>1 DEF latency, pollLatency, AtMost, AtLeast
  <2>3. f \in [D -> Int] /\ g \in [D -> Int] /\ \A i \in D : 0 <= f[i] /\ f[i] <= g[i]
    BY <2>2
  <2>4. CASE D = {}
    <3>1. n = 0
      BY <2>4, FS_EmptySet
    <3>2. apply_block_time_latency(ts, "block_time").n = 0 /\ apply_block_time_latency(ts, "poll").n = 0
      BY <3>1 DEF apply_block_time_latency
    <3> QED
      BY <3>2
  <2>5. CASE D # {}
    <3>1. n # 0 /\ n \in Nat
      BY <2>1, <2>5, FS_EmptySet, FS_CardinalityType
    <3>2. /\ apply_block_time_latency(ts, "block_time").n = n
          /\ apply_block_time_latency(ts, "block_time").p50 = pct(f, 50)
          /\ apply_block_time_latency(ts, "block_time").p99 = pct(f, 99)
      BY <3>1 DEF apply_block_time_latency
    <3>3. /\ apply_block_time_latency(ts, "poll").n = n
          /\ apply_block_time_latency(ts, "poll").p50 = pct(g, 50)
          /\ apply_block_time_latency(ts, "poll").p99 = pct(g, 99)
      BY <3>1 DEF apply_block_time_latency
    <3> HIDE DEF f, g, D
    <3>4. \A p \in 0 .. 99 : 0 <= pct(f, p) /\ pct(f, p) <= pct(g, p)
      BY <2>1, <2>3, <2>5, PctMonotone
    <3> QED
      BY <3>2, <3>3, <3>4
  <2> QED
    BY <2>4, <2>5
<1> QED
  BY <1>1, PTL

------------------------------------------------------------------------------
\* The invariant of the benchmark.

Outcomes == {"failed", "confirmed", "reverted", "timeout"}
Phases == {"idle", "submission", "confirmation"}
Samples == [phase : Phases, figures : {"none", "cpu", "all"}]

\* The stages before there are transactions, those after the submission, after the
\* polling, and after the sampler was joined.
Before == {"start", "connect", "prepare"}
Joined == {"print", "write", "summary", "phases", "series", "done"}
Polled == {"stop", "join"} \cup Joined
Submitted == {"poll"} \cup Polled
Stages == Before \cup {"submit", "aborted"} \cup Submitted

\* What has been reported when a stage begins.
Console == {"stats", "rpc", "printed"}
Csv == Console \cup {"rows"}
Summary == Csv \cup {"statsWritten", "rpcWritten", "written"}
PartsOf ==
  [s \in Stages |->
     CASE s = "write" -> Console [] s = "summary" -> Csv [] s = "phases" -> Summary
       [] s = "series" -> Summary \cup {"phases"}
       [] s = "done" -> Summary \cup {"phases", "series"}
       [] OTHER -> {}]

\* What the parts of the report were made of.
Stats == compute_statistics(Reported)
Rpc == compute_rpc_statistics(Reported, Range(Endpoints))
Rows == [i \in DOMAIN txs |->
           [status |-> txs[i].status,
            latency |-> IF confirmTs[i] = None THEN None ELSE confirmTs[i] - submitTs[i]]]

TransferTypes ==
  /\ stage \in Stages
  /\ first = 1 /\ Len(txs) \in Nat /\ DOMAIN txs = 1 .. Len(txs)
  /\ \A i \in DOMAIN txs :
       /\ txs[i] = [leg |-> 1, sender |-> txs[i].sender, status |-> txs[i].status,
                    nonce |-> txs[i].nonce]
       /\ txs[i].sender \in Range(Accounts)
       /\ txs[i].status \in {"prepared", "submitted"} \cup Outcomes
  /\ stage \in Before => txs = <<>>
  /\ stage = "prepare" => Accounts # <<>>

\* A thread takes a transaction and its time together, and a receipt gives another.
TimesTaken ==
  /\ clock \in Nat
  /\ handed \in Nat /\ taken \in 0 .. handed /\ handed <= Len(txs)
  /\ submitTs \in Seq(Nat) /\ Len(submitTs) = taken
  /\ DOMAIN confirmTs = DOMAIN txs
  /\ \A i \in DOMAIN txs :
       /\ i > taken => txs[i].status = "prepared"
       /\ confirmTs[i] \in Nat \cup {None}
       /\ txs[i].status = "confirmed" => confirmTs[i] # None
  /\ polling \subseteq {i \in DOMAIN txs : txs[i].status = "submitted"}

\* No transaction is left behind by the threads that submit, nor by those that poll.
OutcomesKnown ==
  /\ stage \in Submitted \/ Has("stats") =>
       \A i \in DOMAIN txs : i <= taken /\ txs[i].status # "prepared"
  /\ stage \in Polled \/ Has("stats") => \A i \in DOMAIN txs : txs[i].status \in Outcomes

\* Who has joined the sampler's thread has seen it end, or knows that it did not.
SamplerKnown ==
  /\ phase \in Phases /\ tag \in Phases /\ outlived \in BOOLEAN /\ samples \in Seq(Samples)
  /\ (stage \in Joined \/ Has("stats")) /\ ~outlived => sampler \in {"off", "ended"}

\* Every part of the report is what the same part would be now.
ReportStands ==
  /\ stage # "aborted" => DOMAIN report = PartsOf[stage]
  /\ stage = "aborted" => DOMAIN report \in {{}, Console}
  /\ Has("stats") => report.stats = Stats /\ report.rpc = Rpc
  /\ Has("rows") => report.rows = Rows
  /\ Has("statsWritten") => report.statsWritten = Stats /\ report.rpcWritten = Rpc
  /\ ~outlived =>
       /\ Has("printed") => report.printed = summary
       /\ Has("written") => report.written = summary
       /\ Has("phases") => report.phases = phase_summary
       /\ Has("series") => report.series = samples

BenchInv == TransferTypes /\ TimesTaken /\ OutcomesKnown /\ SamplerKnown /\ ReportStands

\* Until the report begins nothing is reported; what is reported begins with the console's.
LEMMA ReportBegins ==
  ASSUME ReportStands, stage \in Stages
  PROVE  /\ stage \in Stages \ {"write", "summary", "phases", "series", "done", "aborted"} =>
              DOMAIN report = {}
         /\ \A part \in DOMAIN report :
              stage \in {"write", "summary", "phases", "series", "done", "aborted"} /\ Has("stats")
<1>1. CASE stage = "aborted"
  BY <1>1 DEF ReportStands, Has, Console
<1>2. CASE stage # "aborted"
  <2>1. DOMAIN report = PartsOf[stage]
    BY <1>2 DEF ReportStands
  <2>2. stage \notin {"write", "summary", "phases", "series", "done"} => PartsOf[stage] = {}
    BY DEF PartsOf
  <2>3. stage \in {"write", "summary", "phases", "series", "done"} => "stats" \in PartsOf[stage]
    BY DEF PartsOf, Console, Csv, Summary
  <2> QED
    BY <1>2, <2>1, <2>2, <2>3 DEF Has
<1> QED
  BY <1>1, <1>2

\* A step before the report leaves nothing to say of it.
LEMMA NothingReported ==
  ASSUME DOMAIN report = {}, report' = report,
         stage' \in Stages \ {"write", "summary", "phases", "series", "done"}
  PROVE  ReportStands' /\ \A part : ~Has(part)'
<1>1. \A part : ~Has(part)'
  BY DEF Has
<1>2. stage' # "aborted" => PartsOf[stage'] = {}
  BY DEF PartsOf
<1>3. DOMAIN report' = {}
  OBVIOUS
<1> QED
  BY <1>1, <1>2, <1>3 DEF ReportStands

\* A function on 1 .. n is a sequence of n values.
LEMMA LengthOf ==
  ASSUME NEW n \in Nat, NEW S, NEW f \in [1 .. n -> S]
  PROVE  f \in Seq(S) /\ Len(f) = n /\ DOMAIN f = 1 .. n
OBVIOUS

\* What a transaction's new status leaves as it was.
LEMMA StatusSets ==
  ASSUME TransferTypes, NEW i \in DOMAIN txs, NEW status, SetStatus(i, status)
  PROVE  /\ DOMAIN txs' = DOMAIN txs /\ Len(txs') = Len(txs)
         /\ txs'[i].status = status
         /\ \A j \in DOMAIN txs : /\ j # i => txs'[j] = txs[j]
                                  /\ txs'[j].sender = txs[j].sender
                                  /\ txs'[j].nonce = txs[j].nonce
                                  /\ txs'[j] = [leg |-> 1, sender |-> txs[j].sender,
                                                status |-> txs'[j].status, nonce |-> txs[j].nonce]
<1> DEFINE t == [txs[i] EXCEPT !.status = status]
<1>1. txs[i] = [leg |-> 1, sender |-> txs[i].sender, status |-> txs[i].status, nonce |-> txs[i].nonce]
  BY DEF TransferTypes
<1>2. t = [leg |-> 1, sender |-> txs[i].sender, status |-> status, nonce |-> txs[i].nonce]
  BY <1>1
<1>3. txs' = [txs EXCEPT ![i] = t]
  BY DEF SetStatus
<1> HIDE DEF t
<1>4. txs'[i] = t /\ DOMAIN txs' = DOMAIN txs /\ \A j \in DOMAIN txs : j # i => txs'[j] = txs[j]
  BY <1>3
<1>5. Len(txs') = Len(txs)
  <2>1. PICK n \in Nat : DOMAIN txs = 1 .. n /\ Len(txs) = n
    BY DEF TransferTypes
  <2>2. txs' \in [1 .. n -> {txs'[j] : j \in 1 .. n}]
    BY <1>3, <2>1
  <2> QED
    BY <2>1, <2>2, LengthOf
<1>6. /\ t.status = status /\ t.sender = txs[i].sender /\ t.nonce = txs[i].nonce
  BY <1>2
<1>7. \A j \in DOMAIN txs :
        txs[j] = [leg |-> 1, sender |-> txs[j].sender, status |-> txs[j].status,
                  nonce |-> txs[j].nonce]
  BY DEF TransferTypes
<1> QED
  BY <1>2, <1>4, <1>5, <1>6, <1>7

\* Before anything is submitted.
LEMMA BenchStarts == BenchInit => BenchInv
<1> SUFFICES ASSUME BenchInit PROVE BenchInv
  OBVIOUS
<1>1. /\ txs = <<>> /\ first = 1 /\ handed = 0 /\ taken = 0 /\ polling = {}
      /\ clock = 0 /\ submitTs = <<>> /\ confirmTs = <<>> /\ report = <<>> /\ stage = "start"
      /\ phase = "idle" /\ samples = <<>> /\ sampler = "off" /\ tag = "idle" /\ outlived = FALSE
  BY DEF BenchInit, EngineInit, MonitorInit
<1>2. DOMAIN <<>> = {} /\ Len(<<>>) = 0 /\ 1 .. 0 = {} /\ <<>> \in Seq(Samples)
  OBVIOUS
<1>3. TransferTypes
  BY <1>1, <1>2 DEF TransferTypes, Stages, Before
<1>4. TimesTaken
  BY <1>1, <1>2 DEF TimesTaken
<1>5. OutcomesKnown
  BY <1>1, <1>2 DEF OutcomesKnown, Has
<1>6. SamplerKnown
  BY <1>1, <1>2 DEF SamplerKnown, Has, Joined, Phases
<1>7. ReportStands
  BY <1>1, <1>2 DEF ReportStands, PartsOf, Stages, Before, Has
<1> QED
  BY <1>3, <1>4, <1>5, <1>6, <1>7 DEF BenchInv

\* Every transfer is prepared at once, of an account of the file and without a time.
LEMMA PreparePreserves == BenchInv /\ Prepare => BenchInv'
<1> SUFFICES ASSUME BenchInv, Prepare PROVE BenchInv'
  OBVIOUS
<1> USE DEF BenchInv
<1>1. /\ stage = "prepare" /\ stage' = "submit" /\ txs = <<>> /\ Accounts # <<>>
      /\ phase' = "submission"
      /\ UNCHANGED <<first, handed, taken, polling, clock, submitTs, report,
                     samples, sampler, tag, outlived>>
  BY DEF Prepare, set_phase, TransferTypes, Before
<1>2. DOMAIN report = {}
  BY <1>1, ReportBegins DEF TransferTypes
<1>3. NumTx \in Nat /\ Len(Accounts) \in Nat \ {0} /\ DOMAIN Accounts = 1 .. Len(Accounts)
  BY <1>1, BenchmarkAssumption, EmptySeq DEF ValidBenchmark
<1>4. \A i \in 1 .. NumTx : account(i) \in Range(Accounts)
  <2> SUFFICES ASSUME NEW i \in 1 .. NumTx PROVE account(i) \in Range(Accounts)
    OBVIOUS
  <2>1. ((i - 1) % Len(Accounts)) + 1 \in DOMAIN Accounts
    BY <1>3
  <2> QED
    BY <2>1 DEF account, Range
<1> DEFINE Nonce(i) == firstNonce(account(i)) + (i - 1) \div Len(Accounts)
           T(i) == [leg |-> 1, sender |-> account(i), status |-> "prepared", nonce |-> Nonce(i)]
<1>5. txs' = [i \in 1 .. NumTx |-> T(i)] /\ confirmTs' = [i \in 1 .. NumTx |-> None]
  BY DEF Prepare
<1> HIDE DEF Nonce
<1>6. DOMAIN txs' = 1 .. NumTx /\ Len(txs') = NumTx
  <2>1. txs' \in [1 .. NumTx -> {txs'[i] : i \in 1 .. NumTx}]
    BY <1>5
  <2> QED
    BY <1>3, <2>1, LengthOf
<1>7. \A i \in DOMAIN txs' : /\ txs'[i] = T(i) /\ confirmTs'[i] = None
                             /\ txs'[i].sender = account(i) /\ txs'[i].status = "prepared"
                             /\ txs'[i].nonce = Nonce(i)
  BY <1>5, <1>6
<1>8. TransferTypes'
  <2>1. stage' \in Stages /\ stage' \notin Before /\ stage' # "prepare" /\ first' = 1
    BY <1>1 DEF Stages, Before, TransferTypes
  <2>2. Len(txs)' \in Nat /\ DOMAIN txs' = 1 .. Len(txs)'
    BY <1>3, <1>6
  <2>3. ASSUME NEW i \in DOMAIN txs'
        PROVE  /\ txs'[i] = [leg |-> 1, sender |-> txs'[i].sender, status |-> txs'[i].status,
                             nonce |-> txs'[i].nonce]
               /\ txs'[i].sender \in Range(Accounts)
               /\ txs'[i].status \in {"prepared", "submitted"} \cup Outcomes
    BY <1>4, <1>6, <1>7
  <2> QED
    BY <2>1, <2>2, <2>3 DEF TransferTypes
<1>9. TimesTaken'
  <2>1. Len(txs) = 0
    BY <1>1
  <2>2. handed = 0 /\ taken = 0 /\ polling = {} /\ clock \in Nat
    BY <1>1, <2>1 DEF TimesTaken
  <2>3. submitTs \in Seq(Nat) /\ Len(submitTs) = taken
    BY DEF TimesTaken
  <2>4. DOMAIN confirmTs' = DOMAIN txs'
    BY <1>5, <1>6
  <2>5. \A i \in DOMAIN txs' : /\ txs'[i].status = "prepared" /\ confirmTs'[i] \in Nat \cup {None}
                               /\ txs'[i].status # "confirmed"
    BY <1>7
  <2>6. /\ clock' \in Nat /\ handed' \in Nat /\ taken' \in 0 .. handed' /\ handed' <= Len(txs')
        /\ submitTs' \in Seq(Nat) /\ Len(submitTs') = taken' /\ polling' = {}
    BY <1>1, <1>3, <1>6, <2>2, <2>3
  <2> QED
    BY <2>4, <2>5, <2>6 DEF TimesTaken
<1>10. ReportStands' /\ \A part : ~Has(part)'
  BY <1>1, <1>2, NothingReported DEF Stages
<1>11. OutcomesKnown'
  BY <1>1, <1>10 DEF OutcomesKnown, Submitted, Polled, Joined
<1>12. SamplerKnown'
  BY <1>1, <1>10 DEF SamplerKnown, Joined, Phases
<1> QED
  BY <1>8, <1>9, <1>10, <1>11, <1>12

\* A step of main that touches no transaction and ends no part of the report.
LEMMA MainPreserves ==
  ASSUME BenchInv, StartMonitor \/ Connect \/ EndSubmission \/ EndConfirmation \/ Stop
  PROVE  BenchInv'
<1> USE DEF BenchInv
<1>1. UNCHANGED <<txs, first, handed, taken, polling, clock, submitTs, confirmTs, report, samples, tag>>
  BY DEF StartMonitor, Connect, EndSubmission, EndConfirmation, Stop, Goto, engineVars, monitorVars,
         StartSampler, set_phase, SetStop, Join
<1>2. /\ stage \in {"start", "connect", "submit", "poll", "stop", "join"}
      /\ stage' \in {"connect", "prepare", "aborted", "poll", "stop", "join", "print"}
  BY DEF StartMonitor, Connect, EndSubmission, EndConfirmation, Stop, Goto
<1>3. DOMAIN report = {}
  BY <1>2, ReportBegins DEF TransferTypes
<1>4. ReportStands' /\ \A part : ~Has(part)'
  <2> stage' \in Stages \ {"write", "summary", "phases", "series", "done"}
    BY <1>2 DEF Stages, Before, Submitted, Polled, Joined
  <2> QED
    BY <1>1, <1>3, NothingReported
<1>5. TransferTypes'
  <2>1. stage' \in Stages
    BY <1>2 DEF Stages, Before, Submitted, Polled, Joined
  <2>2. stage' \in Before => stage \in Before
    BY <1>2 DEF Before, StartMonitor, Connect, EndSubmission, EndConfirmation, Stop, Goto
  <2>3. stage' = "prepare" => Accounts # <<>>
    BY <1>2 DEF StartMonitor, Connect, EndSubmission, EndConfirmation, Stop, Goto
  <2> QED
    BY <1>1, <2>1, <2>2, <2>3 DEF TransferTypes
<1>6. TimesTaken'
  BY <1>1 DEF TimesTaken
<1>7. OutcomesKnown'
  <2>1. CASE EndSubmission
    <3>1. stage' = "poll" /\ InLeg = DOMAIN txs /\ \A i \in InLeg : Done(i)
      BY <2>1 DEF EndSubmission, Goto, AllSubmitted, InLeg, TransferTypes
    <3> QED
      BY <1>1, <1>4, <3>1 DEF OutcomesKnown, Done, Polled, Joined
  <2>2. CASE EndConfirmation
    <3>1. /\ stage = "poll" /\ InLeg = DOMAIN txs
          /\ \A i \in InLeg : txs[i].status # "submitted"
      BY <2>2 DEF EndConfirmation, AllPolled, ToPoll, InLeg, TransferTypes
    <3>2. \A i \in DOMAIN txs : i <= taken /\ txs[i].status # "prepared"
      BY <3>1 DEF OutcomesKnown, Submitted
    <3>3. \A i \in DOMAIN txs : txs[i].status \in Outcomes
      BY <3>1, <3>2 DEF TransferTypes
    <3> QED
      BY <1>1, <3>2, <3>3 DEF OutcomesKnown
  <2>3. CASE Stop
    <3>1. stage \in Polled
      BY <2>3 DEF Stop, Polled
    <3> QED
      BY <1>1, <3>1 DEF OutcomesKnown, Submitted
  <2>4. CASE StartMonitor \/ Connect
    <3>1. stage' \in {"connect", "prepare", "aborted"}
      BY <2>4 DEF StartMonitor, Connect, Goto
    <3> QED
      BY <1>4, <3>1 DEF OutcomesKnown, Submitted, Polled, Joined
  <2> QED
    BY <2>1, <2>2, <2>3, <2>4
<1>8. SamplerKnown'
  <2>1. /\ phase' \in Phases /\ outlived' \in BOOLEAN
    BY DEF StartMonitor, Connect, EndSubmission, EndConfirmation, Stop, monitorVars, StartSampler,
           set_phase, SetStop, Join, SamplerKnown, Phases
  <2>2. stage' \in Joined => Join
    BY <1>2 DEF StartMonitor, Connect, EndSubmission, EndConfirmation, Stop, Goto, Joined
  <2>3. Join => outlived' \/ sampler' \in {"off", "ended"}
    BY DEF Join
  <2> QED
    BY <1>1, <1>4, <2>1, <2>2, <2>3 DEF SamplerKnown
<1> QED
  BY <1>4, <1>5, <1>6, <1>7, <1>8

\* What the steps of the threads need of a new state, while nothing is reported.
LEMMA EngineFrame ==
  ASSUME BenchInv, stage \in {"submit", "poll"},
         UNCHANGED <<monitorVars, clock, report, stage>>
  PROVE  /\ DOMAIN report = {}
         /\ ReportStands' /\ SamplerKnown'
         /\ stage = "submit" => OutcomesKnown'
         /\ stage = "poll" /\ (\A i \in DOMAIN txs' : i <= taken' /\ txs'[i].status # "prepared") =>
              OutcomesKnown'
<1> USE DEF BenchInv
<1>1. DOMAIN report = {}
  BY ReportBegins DEF TransferTypes
<1>2. ReportStands' /\ \A part : ~Has(part)'
  <2> stage' \in Stages \ {"write", "summary", "phases", "series", "done"}
    BY DEF Stages, Submitted
  <2> QED
    BY <1>1, NothingReported
<1>3. stage' \notin Joined /\ stage' \notin Polled /\ (stage = "submit" => stage' \notin Submitted)
  BY DEF Joined, Polled, Submitted
<1>4. SamplerKnown'
  BY <1>2, <1>3 DEF SamplerKnown, monitorVars
<1> QED
  BY <1>1, <1>2, <1>3, <1>4 DEF OutcomesKnown

\* A new status, for a transaction that a thread has.
LEMMA StatusPreserves ==
  ASSUME BenchInv, NEW i \in DOMAIN txs, NEW status \in Outcomes \cup {"submitted"}, i <= taken,
         SetStatus(i, status), UNCHANGED <<first, handed, taken, clock, submitTs, stage>>,
         polling' \subseteq polling, i \notin polling',
         \/ confirmTs' = confirmTs /\ status # "confirmed"
         \/ confirmTs' = [confirmTs EXCEPT ![i] = clock]
  PROVE  TransferTypes' /\ TimesTaken'
<1> USE DEF BenchInv
<1>1. /\ DOMAIN txs' = DOMAIN txs /\ Len(txs') = Len(txs)
      /\ txs'[i].status = status
      /\ \A j \in DOMAIN txs : /\ j # i => txs'[j] = txs[j]
                               /\ txs'[j].sender = txs[j].sender
                               /\ txs'[j].nonce = txs[j].nonce
                               /\ txs'[j] = [leg |-> 1, sender |-> txs[j].sender,
                                             status |-> txs'[j].status, nonce |-> txs[j].nonce]
  BY StatusSets
<1>2. \A j \in DOMAIN txs : j # i => txs'[j].status = txs[j].status
  BY <1>1
<1>3. TransferTypes'
  <2>1. ASSUME NEW j \in DOMAIN txs'
        PROVE  /\ txs'[j] = [leg |-> 1, sender |-> txs'[j].sender, status |-> txs'[j].status,
                             nonce |-> txs'[j].nonce]
               /\ txs'[j].sender \in Range(Accounts)
               /\ txs'[j].status \in {"prepared", "submitted"} \cup Outcomes
    BY <1>1, <1>2 DEF TransferTypes
  <2>2. txs # <<>>
    OBVIOUS
  <2>3. stage' \notin Before /\ stage' # "prepare"
    BY <2>2 DEF TransferTypes, Before
  <2> QED
    BY <1>1, <2>1, <2>3 DEF TransferTypes
<1>4. clock \in Nat /\ DOMAIN confirmTs = DOMAIN txs /\ taken \in Nat
  BY DEF TimesTaken
<1>5. DOMAIN confirmTs' = DOMAIN txs'
  BY <1>1, <1>4
<1>6. ASSUME NEW j \in DOMAIN txs'
      PROVE  /\ j > taken' => txs'[j].status = "prepared"
             /\ confirmTs'[j] \in Nat \cup {None}
             /\ txs'[j].status = "confirmed" => confirmTs'[j] # None
  <2>1. /\ j > taken => txs[j].status = "prepared"
        /\ confirmTs[j] \in Nat \cup {None}
        /\ txs[j].status = "confirmed" => confirmTs[j] # None
    BY <1>1 DEF TimesTaken
  <2>2. clock # None
    BY <1>4 DEF None
  <2>3. CASE j = i
    <3>1. ~(i > taken) /\ txs'[j].status = status
      BY <1>1, <1>4, <2>3 DEF TransferTypes
    <3>2. \/ confirmTs'[j] = confirmTs[j] /\ status # "confirmed"
          \/ confirmTs'[j] = clock
      BY <1>4, <2>3
    <3> QED
      BY <1>4, <2>1, <2>2, <2>3, <3>1, <3>2
  <2>4. CASE j # i
    <3>1. confirmTs'[j] = confirmTs[j] /\ txs'[j].status = txs[j].status
      BY <1>1, <1>2, <1>4, <2>4
    <3> QED
      BY <2>1, <3>1
  <2> QED
    BY <2>3, <2>4
<1>7. polling' \subseteq {j \in DOMAIN txs' : txs'[j].status = "submitted"}
  BY <1>1, <1>2 DEF TimesTaken
<1>8. TimesTaken'
  BY <1>1, <1>4, <1>5, <1>6, <1>7 DEF TimesTaken
<1> QED
  BY <1>3, <1>8

\* The producer and the threads of submit_all.
LEMMA SubmissionPreserves ==
  ASSUME BenchInv, stage = "submit", Submission,
         UNCHANGED <<monitorVars, chains, clock, report, stage>>
  PROVE  BenchInv'
<1> USE DEF BenchInv
<1>1. ReportStands' /\ SamplerKnown' /\ OutcomesKnown'
  BY EngineFrame
<1>2. CASE TakeAndStamp \/ ((HandOver \/ AwaitOldest) /\ UNCHANGED <<submitTs, confirmTs>>)
  <2>1. UNCHANGED <<txs, first, polling, confirmTs>>
    BY <1>2 DEF TakeAndStamp, Take, HandOver, AwaitOldest
  <2>2. TransferTypes'
    BY <2>1 DEF TransferTypes
  <2>3. /\ clock \in Nat /\ handed \in Nat /\ taken \in 0 .. handed /\ handed <= Len(txs)
        /\ submitTs \in Seq(Nat) /\ Len(submitTs) = taken /\ Len(txs) \in Nat
    BY DEF TimesTaken, TransferTypes
  <2>4. /\ handed' \in Nat /\ taken' \in 0 .. handed' /\ handed' <= Len(txs)
        /\ submitTs' \in Seq(Nat) /\ Len(submitTs') = taken' /\ taken' >= taken
    <3>1. CASE TakeAndStamp
      <4>1. taken < handed /\ taken' = taken + 1 /\ handed' = handed /\ submitTs' = Append(submitTs, clock)
        BY <3>1 DEF TakeAndStamp, Take
      <4>2. submitTs' \in Seq(Nat) /\ Len(submitTs') = Len(submitTs) + 1
        BY <2>3, <4>1
      <4> QED
        BY <2>3, <4>1, <4>2
    <3>2. CASE HandOver /\ UNCHANGED submitTs
      BY <2>3, <3>2 DEF HandOver
    <3>3. CASE AwaitOldest /\ UNCHANGED submitTs
      BY <2>3, <3>3 DEF AwaitOldest
    <3> QED
      BY <1>2, <3>1, <3>2, <3>3
  <2>5. \A i \in DOMAIN txs : i > taken' => i > taken
    BY <2>3, <2>4 DEF TransferTypes
  <2>6. TimesTaken'
    BY <2>1, <2>3, <2>4, <2>5 DEF TimesTaken
  <2> QED
    BY <1>1, <2>2, <2>6
<1>3. CASE (\E i \in InLeg : Submit(i)) /\ UNCHANGED <<submitTs, confirmTs>>
  <2>1. PICK i \in InLeg : Submit(i)
    BY <1>3
  <2>2. i \in DOMAIN txs /\ i <= taken /\ txs[i].status = "prepared"
    BY <2>1 DEF Submit, Sending, TransferTypes, TimesTaken, InLeg
  <2>3. UNCHANGED <<first, handed, taken, polling>>
    BY <2>1 DEF Submit
  <2>4. PICK status \in {"submitted", "failed"} : SetStatus(i, status)
    BY <2>1 DEF Submit, Accepted, Refused, Unanswered
  <2>5. status \in Outcomes \cup {"submitted"} /\ status # "confirmed"
    BY DEF Outcomes
  <2>6. i \notin polling
    BY <2>2 DEF TimesTaken
  <2>7. TransferTypes' /\ TimesTaken'
    BY <1>3, <2>2, <2>3, <2>4, <2>5, <2>6, StatusPreserves
  <2> QED
    BY <1>1, <2>7
<1> QED
  BY <1>2, <1>3 DEF Submission

\* The threads of poll_all_receipts.
LEMMA ConfirmationPreserves ==
  ASSUME BenchInv, stage = "poll", Confirmation,
         UNCHANGED <<monitorVars, chains, clock, report, stage>>
  PROVE  BenchInv'
<1> USE DEF BenchInv
<1>1. /\ ReportStands' /\ SamplerKnown'
      /\ (\A i \in DOMAIN txs' : i <= taken' /\ txs'[i].status # "prepared") => OutcomesKnown'
  BY EngineFrame
<1>2. \A i \in DOMAIN txs : i <= taken /\ txs[i].status # "prepared"
  BY DEF OutcomesKnown, Submitted
<1>3. CASE BeginPoll /\ UNCHANGED <<submitTs, confirmTs>>
  <2> DEFINE S == ToPoll \ polling
             next == CHOOSE i \in S : \A j \in S : i <= j
  <2>1. UNCHANGED <<txs, first, handed, taken>> /\ S # {} /\ polling' = polling \cup {next}
    BY <1>3 DEF BeginPoll
  <2>2. S \subseteq {i \in DOMAIN txs : txs[i].status = "submitted"} /\ S \subseteq Nat
    BY DEF ToPoll, InLeg, TransferTypes
  <2>3. next \in S
    <3> HIDE DEF S
    <3> QED
      BY <2>1, <2>2, NatLeast
  <2> HIDE DEF next
  <2>4. TransferTypes'
    BY <2>1 DEF TransferTypes
  <2>5. TimesTaken'
    BY <1>3, <2>1, <2>2, <2>3 DEF TimesTaken
  <2> QED
    BY <1>1, <1>2, <2>1, <2>4, <2>5
<1>4. CASE \E i \in InLeg : FindAndStamp(i) \/ (GiveUp(i) /\ UNCHANGED <<submitTs, confirmTs>>)
  <2>1. PICK i \in InLeg : FindAndStamp(i) \/ (GiveUp(i) /\ UNCHANGED <<submitTs, confirmTs>>)
    BY <1>4
  <2>2. /\ UNCHANGED <<first, handed, taken, submitTs>> /\ i \in polling /\ polling' = polling \ {i}
    <3>1. UNCHANGED submitTs
      BY <2>1 DEF FindAndStamp
    <3> QED
      BY <2>1, <3>1 DEF FindAndStamp, FindReceipt, GiveUp
  <2>3. i \in DOMAIN txs /\ i <= taken
    BY <1>2, <2>2 DEF TimesTaken
  <2>4. PICK status \in {"confirmed", "reverted", "timeout"} :
          /\ SetStatus(i, status)
          /\ \/ confirmTs' = confirmTs /\ status # "confirmed"
             \/ confirmTs' = [confirmTs EXCEPT ![i] = clock]
    BY <2>1 DEF FindAndStamp, FindReceipt, GiveUp
  <2>5. status \in Outcomes \cup {"submitted"} /\ status # "prepared"
    BY DEF Outcomes
  <2>6. TransferTypes' /\ TimesTaken'
    BY <2>2, <2>3, <2>4, <2>5, StatusPreserves
  <2>7. \A j \in DOMAIN txs' : j <= taken' /\ txs'[j].status # "prepared"
    <3>1. /\ DOMAIN txs' = DOMAIN txs /\ txs'[i].status = status
          /\ \A j \in DOMAIN txs : j # i => txs'[j] = txs[j]
      BY <2>3, <2>4, StatusSets
    <3> QED
      BY <1>2, <2>2, <2>5, <3>1
  <2> QED
    BY <1>1, <2>6, <2>7
<1> QED
  BY <1>3, <1>4 DEF Confirmation

\* A part of the report is added, of figures that are what they would be now.
LEMMA ReportPreserves ==
  ASSUME BenchInv, NEW from, NEW to, NEW figures, ReportStep(from, to, figures),
         from \in {"print", "write", "summary", "phases", "series"},
         to \in Stages, stage \in Joined => to \in Joined \cup {"aborted"},
         DOMAIN figures \cap DOMAIN report = {},
         to # "aborted" => DOMAIN report \cup DOMAIN figures = PartsOf[to],
         to = "aborted" => DOMAIN report \cup DOMAIN figures = Console,
         "stats" \in DOMAIN figures => figures.stats = Stats /\ figures.rpc = Rpc,
         "rows" \in DOMAIN figures => figures.rows = Rows,
         "statsWritten" \in DOMAIN figures =>
           figures.statsWritten = Stats /\ figures.rpcWritten = Rpc,
         "printed" \in DOMAIN figures => figures.printed = summary,
         "written" \in DOMAIN figures => figures.written = summary,
         "phases" \in DOMAIN figures => figures.phases = phase_summary,
         "series" \in DOMAIN figures => figures.series = samples,
         "stats" \in DOMAIN figures => {"rpc", "printed"} \subseteq DOMAIN figures,
         "statsWritten" \in DOMAIN figures => "rpcWritten" \in DOMAIN figures
  PROVE  BenchInv'
<1> USE DEF BenchInv
<1>1. /\ stage = from /\ stage' = to
      /\ report' = [x \in DOMAIN report \cup DOMAIN figures |->
                      IF x \in DOMAIN report THEN report[x] ELSE figures[x]]
      /\ UNCHANGED <<txs, first, handed, taken, polling, clock, submitTs, confirmTs,
                     phase, samples, sampler, tag, outlived>>
  BY DEF ReportStep, engineVars, monitorVars
<1>2. stage \in Joined /\ stage \in Submitted /\ stage \in Polled /\ stage # "aborted"
  BY <1>1 DEF Joined, Submitted, Polled
<1>3. stage' \notin Before /\ stage' # "prepare"
  BY <1>1, <1>2 DEF Joined, Before
<1>4. TransferTypes'
  BY <1>1, <1>3 DEF TransferTypes
<1>5. TimesTaken'
  BY <1>1 DEF TimesTaken
<1>6. OutcomesKnown'
  BY <1>1, <1>2 DEF OutcomesKnown
<1>7. SamplerKnown'
  BY <1>1, <1>2 DEF SamplerKnown
<1>8. /\ DOMAIN report' = DOMAIN report \cup DOMAIN figures
      /\ \A x \in DOMAIN report : report'[x] = report[x]
      /\ \A x \in DOMAIN figures : report'[x] = figures[x]
  BY <1>1
<1>9. /\ Stats' = Stats /\ Rpc' = Rpc /\ Rows' = Rows /\ summary' = summary
      /\ phase_summary' = phase_summary
  BY <1>1 DEF Stats, Rpc, Rows, summary, phase_summary, Reported
<1>10. /\ "stats" \in DOMAIN report => "rpc" \in DOMAIN report
       /\ "statsWritten" \in DOMAIN report => "rpcWritten" \in DOMAIN report
  <2>1. DOMAIN report = PartsOf[stage] /\ stage \in {"print", "write", "summary", "phases", "series"}
    BY <1>1, <1>2 DEF ReportStands
  <2>2. PartsOf[stage] \in {{}, Console, Csv, Summary, Summary \cup {"phases"}}
    BY <2>1 DEF PartsOf, Stages, Submitted, Polled, Joined
  <2> QED
    BY <2>1, <2>2 DEF Console, Csv, Summary
<1>11. (stage' # "aborted" => DOMAIN report' = PartsOf[stage'])
       /\ (stage' = "aborted" => DOMAIN report' \in {{}, Console})
  BY <1>1, <1>8
<1>12. Has("stats")' => report'.stats = Stats' /\ report'.rpc = Rpc'
  BY <1>8, <1>9, <1>10 DEF Has, ReportStands
<1>13. Has("rows")' => report'.rows = Rows'
  BY <1>8, <1>9 DEF Has, ReportStands
<1>14. Has("statsWritten")' => report'.statsWritten = Stats' /\ report'.rpcWritten = Rpc'
  BY <1>8, <1>9, <1>10 DEF Has, ReportStands
<1>15. ~outlived' =>
         /\ Has("printed")' => report'.printed = summary'
         /\ Has("written")' => report'.written = summary'
         /\ Has("phases")' => report'.phases = phase_summary'
         /\ Has("series")' => report'.series = samples'
  BY <1>1, <1>8, <1>9 DEF Has, ReportStands
<1>16. ReportStands'
  BY <1>11, <1>12, <1>13, <1>14, <1>15 DEF ReportStands
<1> QED
  BY <1>4, <1>5, <1>6, <1>7, <1>16

\* The five parts of the report, each of figures that are not in it yet.
LEMMA ReportsPreserve ==
  ASSUME BenchInv, PrintReport \/ WriteCsv \/ WriteSummary \/ WritePhases \/ WriteSeries
  PROVE  BenchInv'
<1>1. /\ stage # "aborted" => DOMAIN report = PartsOf[stage]
      /\ {"print", "write", "summary", "phases", "series", "done", "aborted"} \subseteq Stages
      /\ {"write", "summary", "phases", "series", "done"} \subseteq Joined
  BY DEF BenchInv, ReportStands, Stages, Submitted, Polled, Joined
<1>2. /\ PartsOf["print"] = {} /\ PartsOf["write"] = Console /\ PartsOf["summary"] = Csv
      /\ PartsOf["phases"] = Summary /\ PartsOf["series"] = Summary \cup {"phases"}
      /\ PartsOf["done"] = Summary \cup {"phases", "series"}
  BY <1>1 DEF PartsOf
<1>3. CASE PrintReport
  <2> DEFINE to == IF usagePrinted THEN "write" ELSE "aborted"
             figures == [stats |-> Stats, rpc |-> Rpc, printed |-> summary]
  <2>1. ReportStep("print", to, figures)
    BY <1>3 DEF PrintReport, Stats, Rpc
  <2>2. stage = "print"
    BY <2>1 DEF ReportStep
  <2>3. DOMAIN figures = Console /\ DOMAIN report = {} /\ to \in {"write", "aborted"}
    BY <1>1, <1>2, <2>2 DEF Console
  <2>4. figures.stats = Stats /\ figures.rpc = Rpc /\ figures.printed = summary
    OBVIOUS
  <2> HIDE DEF figures, to
  <2> QED
    BY <1>1, <1>2, <2>1, <2>3, <2>4, ReportPreserves DEF Console
<1>4. CASE WriteCsv
  <2> DEFINE figures == [rows |-> Rows]
  <2>1. ReportStep("write", "summary", figures)
    BY <1>4 DEF WriteCsv, Rows
  <2>2. stage = "write"
    BY <2>1 DEF ReportStep
  <2>3. DOMAIN figures = {"rows"} /\ DOMAIN report = Console /\ figures.rows = Rows
    BY <1>1, <1>2, <2>2
  <2> HIDE DEF figures
  <2> QED
    BY <1>1, <1>2, <2>1, <2>3, ReportPreserves DEF Console, Csv
<1>5. CASE WriteSummary
  <2> DEFINE figures == [statsWritten |-> Stats, rpcWritten |-> Rpc, written |-> summary]
  <2>1. ReportStep("summary", "phases", figures)
    BY <1>5 DEF WriteSummary, Stats, Rpc
  <2>2. stage = "summary"
    BY <2>1 DEF ReportStep
  <2>3. DOMAIN figures = {"statsWritten", "rpcWritten", "written"} /\ DOMAIN report = Csv
    BY <1>1, <1>2, <2>2
  <2>4. figures.statsWritten = Stats /\ figures.rpcWritten = Rpc /\ figures.written = summary
    OBVIOUS
  <2> HIDE DEF figures
  <2> QED
    BY <1>1, <1>2, <2>1, <2>3, <2>4, ReportPreserves DEF Console, Csv, Summary
<1>6. CASE WritePhases
  <2> DEFINE figures == [phases |-> phase_summary]
  <2>1. ReportStep("phases", "series", figures)
    BY <1>6 DEF WritePhases
  <2>2. stage = "phases"
    BY <2>1 DEF ReportStep
  <2>3. /\ DOMAIN figures = {"phases"} /\ DOMAIN report = Summary
        /\ figures.phases = phase_summary
    BY <1>1, <1>2, <2>2
  <2> HIDE DEF figures
  <2> QED
    BY <1>1, <1>2, <2>1, <2>3, ReportPreserves DEF Console, Csv, Summary
<1>7. CASE WriteSeries
  <2> DEFINE figures == [series |-> samples]
  <2>1. ReportStep("series", "done", figures)
    BY <1>7 DEF WriteSeries
  <2>2. stage = "series"
    BY <2>1 DEF ReportStep
  <2>3. /\ DOMAIN figures = {"series"} /\ DOMAIN report = Summary \cup {"phases"}
        /\ figures.series = samples
    BY <1>1, <1>2, <2>2
  <2> HIDE DEF figures
  <2> QED
    BY <1>1, <1>2, <2>1, <2>3, ReportPreserves DEF Console, Csv, Summary
<1> QED
  BY <1>3, <1>4, <1>5, <1>6, <1>7

\* The host's thread, the clock and the node: what is reported of the host stands unless
\* the thread was left running.
LEMMA SurroundingsPreserve == BenchInv /\ Surroundings => BenchInv'
<1> SUFFICES ASSUME BenchInv, Surroundings PROVE BenchInv'
  OBVIOUS
<1> USE DEF BenchInv
<1>1. UNCHANGED <<txs, first, handed, taken, polling, submitTs, confirmTs, report, stage, phase, outlived>>
  BY DEF Surroundings, Sampler, BeginSample, EndSample, EndSampler, engineVars, mainVars, monitorVars, Arrive
<1>2. Stats' = Stats /\ Rpc' = Rpc /\ Rows' = Rows
  BY <1>1 DEF Stats, Rpc, Rows, Reported
<1>3. TransferTypes'
  BY <1>1 DEF TransferTypes
<1>4. clock' \in Nat
  BY DEF Surroundings, TimesTaken, mainVars
<1>5. TimesTaken'
  BY <1>1, <1>4 DEF TimesTaken
<1>6. OutcomesKnown'
  BY <1>1 DEF OutcomesKnown, Has
<1>7. (\A part : Has(part)' = Has(part)) /\ DOMAIN report' = DOMAIN report
  BY <1>1 DEF Has
<1>8. CASE Sampler
  <2>1. tag' \in Phases /\ samples' \in Seq(Samples)
    <3>1. phase \in Phases /\ tag \in Phases /\ samples \in Seq(Samples)
      BY DEF SamplerKnown
    <3>2. CASE BeginSample \/ EndSampler
      BY <3>1, <3>2 DEF BeginSample, EndSampler
    <3>3. CASE EndSample
      <4>1. PICK f \in {"none", "cpu", "all"} : samples' = Append(samples, [phase |-> tag, figures |-> f])
        BY <3>3 DEF EndSample
      <4>2. [phase |-> tag, figures |-> f] \in Samples
        BY <3>1 DEF Samples
      <4>3. tag' = tag
        BY <3>3 DEF EndSample
      <4> QED
        BY <3>1, <4>1, <4>2, <4>3
    <3> QED
      BY <1>8, <3>2, <3>3 DEF Sampler
  <2>2. sampler \in {"waiting", "sampling"}
    BY <1>8 DEF Sampler, BeginSample, EndSample, EndSampler
  <2>3. (stage \in Joined \/ Has("stats")) => outlived
    BY <2>2 DEF SamplerKnown
  <2>4. SamplerKnown'
    BY <1>1, <1>7, <2>1, <2>3 DEF SamplerKnown
  <2>5. (\E part : Has(part)) => outlived
    BY <2>3, ReportBegins DEF TransferTypes, Has
  <2>6. ReportStands'
    BY <1>1, <1>2, <1>7, <2>5 DEF ReportStands
  <2> QED
    BY <1>3, <1>5, <1>6, <2>4, <2>6
<1>9. CASE ~Sampler
  <2>1. UNCHANGED <<samples, tag, sampler>>
    BY <1>9 DEF Surroundings, monitorVars
  <2>2. summary' = summary /\ phase_summary' = phase_summary
    BY <2>1 DEF summary, phase_summary
  <2>3. SamplerKnown'
    BY <1>1, <1>7, <2>1 DEF SamplerKnown
  <2>4. ReportStands'
    BY <1>1, <1>2, <1>7, <2>1, <2>2 DEF ReportStands
  <2> QED
    BY <1>3, <1>5, <1>6, <2>3, <2>4
<1> QED
  BY <1>8, <1>9

\* Every step of the benchmark and of what surrounds it.
LEMMA BenchStep == BenchInv /\ [BenchNext]_benchVars => BenchInv'
<1> SUFFICES ASSUME BenchInv, [BenchNext]_benchVars PROVE BenchInv'
  OBVIOUS
<1>1. CASE Prepare
  BY <1>1, PreparePreserves
<1>2. CASE StartMonitor \/ Connect \/ EndSubmission \/ EndConfirmation \/ Stop
  BY <1>2, MainPreserves
<1>3. CASE EngineStep
  <2>1. \/ stage = "submit" /\ Submission
        \/ stage = "poll" /\ Confirmation
    BY <1>3 DEF EngineStep
  <2>2. UNCHANGED <<monitorVars, chains, clock, report, stage>>
    BY <1>3 DEF EngineStep
  <2> QED
    BY <2>1, <2>2, SubmissionPreserves, ConfirmationPreserves
<1>4. CASE PrintReport \/ WriteCsv \/ WriteSummary \/ WritePhases \/ WriteSeries
  BY <1>4, ReportsPreserve
<1>5. CASE Surroundings
  BY <1>5, SurroundingsPreserve
<1>6. CASE UNCHANGED benchVars
  <2>1. UNCHANGED <<txs, first, handed, taken, polling, clock, submitTs, confirmTs, report, stage,
                    phase, samples, sampler, tag, outlived>>
    BY <1>6 DEF benchVars, engineVars, monitorVars, mainVars
  <2>2. Stats' = Stats /\ Rpc' = Rpc /\ Rows' = Rows /\ summary' = summary
        /\ phase_summary' = phase_summary
    BY <2>1 DEF Stats, Rpc, Rows, Reported, summary, phase_summary
  <2>3. TransferTypes' /\ TimesTaken' /\ OutcomesKnown' /\ SamplerKnown'
    BY <2>1 DEF BenchInv, TransferTypes, TimesTaken, OutcomesKnown, SamplerKnown, Has
  <2>4. ReportStands'
    BY <2>1, <2>2 DEF BenchInv, ReportStands, Has
  <2> QED
    BY <2>3, <2>4 DEF BenchInv
<1> QED
  BY <1>1, <1>2, <1>3, <1>4, <1>5, <1>6 DEF BenchNext, Main

\* Along every run of the benchmark the threads leave nothing behind, and what is reported
\* stands (main of besu_benchmark.py, whatever the nodes and the sampler do).
THEOREM BenchInvariant == BenchSpec => []BenchInv
<1> QED
  BY BenchStarts, BenchStep, PTL DEF BenchSpec

------------------------------------------------------------------------------

\* An account is assigned to a node of the topology.
LEMMA Assigned ==
  ASSUME NEW s \in Range(Accounts)
  PROVE  assignment(s) \in Range(Endpoints)
<1> DEFINE i == CHOOSE k \in DOMAIN Accounts : Accounts[k] = s
           m == ((i - 1) % Len(Endpoints)) + 1
<1>1. i \in DOMAIN Accounts
  BY DEF Range
<1>2. i \in Nat
  BY <1>1, BenchmarkAssumption DEF ValidBenchmark
<1> HIDE DEF i
<1>3. Len(Endpoints) \in Nat \ {0} /\ DOMAIN Endpoints = 1 .. Len(Endpoints)
  BY BenchmarkAssumption, EmptySeq DEF ValidBenchmark
<1>4. m \in DOMAIN Endpoints
  BY <1>2, <1>3
<1>5. assignment(s) = Endpoints[m]
  BY DEF assignment, i
<1> HIDE DEF m
<1> QED
  BY <1>4, <1>5 DEF Range

\* The transactions that the report is about, once there is one.
LEMMA WhatIsReported ==
  ASSUME BenchInv, Has("stats")
  PROVE  /\ DOMAIN Reported = DOMAIN txs /\ IsFiniteSet(DOMAIN txs)
         /\ \A i \in DOMAIN txs : /\ Reported[i].status = txs[i].status
                                  /\ Reported[i].node \in Range(Endpoints)
                                  /\ Reported[i].submit = submitTs[i]
                                  /\ Reported[i].confirm = confirmTs[i]
                                  /\ txs[i].status \in Outcomes
                                  /\ submitTs[i] # None
                                  /\ txs[i].status = "confirmed" => confirmTs[i] # None
         /\ Timed(Reported) = With(Reported, {"confirmed"})
<1> USE DEF BenchInv
<1>1. DOMAIN Reported = DOMAIN txs /\ \A i \in DOMAIN txs :
        /\ Reported[i].status = txs[i].status /\ Reported[i].node = assignment(txs[i].sender)
        /\ Reported[i].submit = submitTs[i] /\ Reported[i].confirm = confirmTs[i]
  BY DEF Reported
<1>2. IsFiniteSet(DOMAIN txs)
  <2>1. DOMAIN txs = 1 .. Len(txs) /\ Len(txs) \in Int
    BY DEF TransferTypes
  <2> QED
    BY <2>1, FS_Interval
<1>3. ASSUME NEW i \in DOMAIN txs
      PROVE  /\ Reported[i].node \in Range(Endpoints)
             /\ txs[i].status \in Outcomes /\ submitTs[i] # None
             /\ txs[i].status = "confirmed" => confirmTs[i] # None
  <2>1. txs[i].sender \in Range(Accounts) /\ i \in 1 .. taken /\ txs[i].status \in Outcomes
    BY DEF TransferTypes, OutcomesKnown, TimesTaken
  <2>2. submitTs[i] \in Nat
    BY <2>1 DEF TimesTaken
  <2> QED
    BY <1>1, <2>1, <2>2, Assigned DEF None, TimesTaken
<1>4. Timed(Reported) = With(Reported, {"confirmed"})
  BY <1>1, <1>3 DEF Timed, With
<1> QED
  BY <1>1, <1>2, <1>3, <1>4

\* One column of what the nodes were sent adds up to what was sent.
LEMMA ColumnAddsUp ==
  ASSUME BenchInv, Has("stats"), NEW statuses
  PROVE  Added([n \in Range(Endpoints) |->
                        Cardinality({i \in With(Reported, statuses) : Reported[i].node = n})])
           = Cardinality(With(Reported, statuses))
<1> DEFINE D == With(Reported, statuses)
           key == [i \in D |-> Reported[i].node]
           N == Range(Endpoints)
<1>1. D \in SUBSET DOMAIN txs /\ IsFiniteSet(DOMAIN txs)
  BY WhatIsReported DEF With
<1>2. IsFiniteSet(D)
  BY <1>1, FS_Subset
<1>3. IsFiniteSet(N)
  <2>1. DOMAIN Endpoints = 1 .. Len(Endpoints) /\ Len(Endpoints) \in Int
    BY BenchmarkAssumption DEF ValidBenchmark
  <2>2. IsFiniteSet(DOMAIN Endpoints)
    BY <2>1, FS_Interval
  <2> QED
    BY <2>2, ImageFinite DEF Range
<1>4. \A i \in D : key[i] = Reported[i].node /\ key[i] \in N
  BY <1>1, WhatIsReported
<1> HIDE DEF D, key, N
<1>5. Added([n \in N |-> Cardinality({i \in D : key[i] = n})])
        = Cardinality({i \in D : key[i] \in N})
  BY <1>2, <1>3, PartsAddUp
<1>6. {i \in D : key[i] \in N} = D
  BY <1>4
<1>7. [n \in N |-> Cardinality({i \in D : key[i] = n})]
        = [n \in N |-> Cardinality({i \in D : Reported[i].node = n})]
  <2>1. \A n : {i \in D : key[i] = n} = {i \in D : Reported[i].node = n}
    BY <1>4
  <2> QED
    BY <2>1
<1>8. Added([n \in N |-> Cardinality({i \in D : Reported[i].node = n})])
        = Cardinality(D)
  BY <1>5, <1>6, <1>7
<1> QED
  BY <1>8 DEF N, D

\* Every transaction stands in one of the four classes.
LEMMA ClassesAddUp ==
  ASSUME BenchInv, Has("stats")
  PROVE  Cardinality(DOMAIN Reported)
           = Cardinality(With(Reported, {"confirmed"})) + Cardinality(With(Reported, {"reverted"}))
             + Cardinality(With(Reported, {"timeout"})) + Cardinality(With(Reported, {"failed"}))
<1> DEFINE A == With(Reported, {"confirmed"})
           B == With(Reported, {"reverted"})
           C == With(Reported, {"timeout"})
           D == With(Reported, {"failed"})
           All == DOMAIN Reported
<1>1. IsFiniteSet(All) /\ \A i \in All : Reported[i].status \in Outcomes
  BY WhatIsReported
<1>2. A \in SUBSET All /\ B \in SUBSET All /\ C \in SUBSET All /\ D \in SUBSET All
  BY DEF With
<1>3. A \cup B \cup C \cup D = All
  BY <1>1 DEF With, Outcomes
<1>4. A \cap B = {} /\ (A \cup B) \cap C = {} /\ (A \cup B \cup C) \cap D = {}
  BY DEF With
<1> HIDE DEF A, B, C, D, All
<1>5. /\ IsFiniteSet(A) /\ IsFiniteSet(B) /\ IsFiniteSet(C) /\ IsFiniteSet(D)
      /\ IsFiniteSet(A \cup B) /\ IsFiniteSet(A \cup B \cup C)
  <2>1. A \cup B \in SUBSET All /\ A \cup B \cup C \in SUBSET All
    BY <1>2
  <2> QED
    BY <1>1, <1>2, <2>1, FS_Subset
<1>6. Cardinality(A \cup B) = Cardinality(A) + Cardinality(B)
  BY <1>4, <1>5, ApartAddUp
<1>7. Cardinality(A \cup B \cup C) = Cardinality(A \cup B) + Cardinality(C)
  BY <1>4, <1>5, ApartAddUp
<1>8. Cardinality(A \cup B \cup C \cup D) = Cardinality(A \cup B \cup C) + Cardinality(D)
  BY <1>4, <1>5, ApartAddUp
<1>9. Cardinality(All) = Cardinality(A) + Cardinality(B) + Cardinality(C) + Cardinality(D)
  BY <1>3, <1>6, <1>7, <1>8
<1> QED
  BY <1>9 DEF A, B, C, D, All

\* What compute_statistics is made of.
LEMMA StatisticsOf ==
  ASSUME NEW ts
  PROVE  /\ compute_statistics(ts).counts =
              [prepared |-> Cardinality(DOMAIN ts),
               submitted |-> Cardinality(With(ts, Accepting)),
               confirmed |-> Cardinality(Timed(ts)),
               reverted |-> Cardinality(With(ts, {"reverted"})),
               timeout |-> Cardinality(With(ts, {"timeout"})),
               failed_submission |-> Cardinality(With(ts, {"failed"}))]
         /\ Timed(ts) # {} =>
              compute_statistics(ts).latency.avg =
                <<FoldFunction(+, 0, [i \in Timed(ts) |-> pollLatency(ts[i])]),
                  Cardinality(Timed(ts))>>
<1> DEFINE confirmed == Timed(ts)
           lat == [i \in confirmed |-> pollLatency(ts[i])]
           sum == FoldFunction(+, 0, lat)
           submitted == Cardinality(With(ts, Accepting))
           sending == Span({ts[i].submit : i \in confirmed})
           confirming == Span({ts[i].confirm : i \in confirmed})
           Rate(n, duration) == IF duration > 0 THEN <<n, duration>> ELSE None
           counts == [prepared |-> Cardinality(DOMAIN ts),
                      submitted |-> submitted,
                      confirmed |-> Cardinality(confirmed),
                      reverted |-> Cardinality(With(ts, {"reverted"})),
                      timeout |-> Cardinality(With(ts, {"timeout"})),
                      failed_submission |-> Cardinality(With(ts, {"failed"}))]
           avg == <<sum, Cardinality(confirmed)>>
           rates == IF confirmed = {} THEN <<>>
                    ELSE <<Rate(submitted, sending), Rate(Cardinality(confirmed), confirming)>>
           figures == [avg |-> avg,
                       p50 |-> percentile(lat, 50), p95 |-> percentile(lat, 95),
                       p99 |-> percentile(lat, 99), max |-> 100 * Max(Range(lat))]
           summaryOf == IF confirmed = {} THEN <<>> ELSE figures
<1>1. compute_statistics(ts) = [counts |-> counts, rates |-> rates, latency |-> summaryOf]
  BY DEF compute_statistics
<1>2. figures.avg = avg
  <2> HIDE DEF avg, lat
  <2> QED
    OBVIOUS
<1> HIDE DEF counts, rates, figures, avg
<1>3. /\ compute_statistics(ts).counts = counts
      /\ confirmed # {} => compute_statistics(ts).latency.avg = avg
  BY <1>1, <1>2
<1> QED
  BY <1>3 DEF counts, avg

\* compute_statistics counts the statuses, compute_rpc_statistics what each node was sent: both
\* count every transaction that main prepared, once (both read what the threads have left).
THEOREM CountsAgree == BenchSpec => []TalliesAgree
<1>1. BenchInv => TalliesAgree
  <2> SUFFICES ASSUME BenchInv, Has("stats")
               PROVE  LET c == report.stats.counts
                          nodes == DOMAIN report.rpc
                          Total(field) == FoldFunction(+, 0, [n \in nodes |-> report.rpc[n][field]])
                      IN  /\ c.prepared = c.confirmed + c.reverted + c.timeout + c.failed_submission
                          /\ c.submitted = Total("submitted") /\ c.confirmed = Total("confirmed")
                          /\ c.timeout = Total("timeout") /\ c.failed_submission = Total("failed")
    BY DEF TalliesAgree
  <2> DEFINE c == report.stats.counts
             N == Range(Endpoints)
             Count(statuses) == Cardinality(With(Reported, statuses))
             At(statuses) ==
               [n \in N |-> Cardinality({i \in With(Reported, statuses) : Reported[i].node = n})]
  <2>1. report.stats = Stats /\ report.rpc = Rpc
    BY DEF BenchInv, ReportStands
  <2>2. /\ c.prepared = Cardinality(DOMAIN Reported) /\ c.submitted = Count(Accepting)
        /\ c.confirmed = Count({"confirmed"}) /\ c.reverted = Count({"reverted"})
        /\ c.timeout = Count({"timeout"}) /\ c.failed_submission = Count({"failed"})
    <3>1. Timed(Reported) = With(Reported, {"confirmed"})
      BY WhatIsReported
    <3>2. c = [prepared |-> Cardinality(DOMAIN Reported),
               submitted |-> Cardinality(With(Reported, Accepting)),
               confirmed |-> Cardinality(Timed(Reported)),
               reverted |-> Cardinality(With(Reported, {"reverted"})),
               timeout |-> Cardinality(With(Reported, {"timeout"})),
               failed_submission |-> Cardinality(With(Reported, {"failed"}))]
      BY <2>1, StatisticsOf DEF Stats
    <3> HIDE DEF c
    <3> QED
      BY <3>1, <3>2
  <2>3. /\ DOMAIN report.rpc = N
        /\ [n \in N |-> report.rpc[n]["submitted"]] = At(Accepting)
        /\ [n \in N |-> report.rpc[n]["confirmed"]] = At({"confirmed"})
        /\ [n \in N |-> report.rpc[n]["timeout"]] = At({"timeout"})
        /\ [n \in N |-> report.rpc[n]["failed"]] = At({"failed"})
    BY <2>1 DEF Rpc, compute_rpc_statistics, Accepting
  <2>4. \A statuses : Added(At(statuses)) = Count(statuses)
    BY ColumnAddsUp
  <2>5. c.prepared = c.confirmed + c.reverted + c.timeout + c.failed_submission
    BY <2>2, ClassesAddUp
  <2> HIDE DEF At
  <2>6. /\ c.submitted = Added([n \in N |-> report.rpc[n]["submitted"]])
        /\ c.confirmed = Added([n \in N |-> report.rpc[n]["confirmed"]])
        /\ c.timeout = Added([n \in N |-> report.rpc[n]["timeout"]])
        /\ c.failed_submission = Added([n \in N |-> report.rpc[n]["failed"]])
    BY <2>2, <2>3, <2>4
  <2> DEFINE Column(field) == [n \in DOMAIN report.rpc |-> report.rpc[n][field]]
  <2>7. \A field : Column(field) = [n \in N |-> report.rpc[n][field]]
    BY <2>3
  <2> HIDE DEF c, Column
  <2>8. /\ c.submitted = Added(Column("submitted")) /\ c.confirmed = Added(Column("confirmed"))
        /\ c.timeout = Added(Column("timeout")) /\ c.failed_submission = Added(Column("failed"))
    BY <2>6, <2>7
  <2> QED
    BY <2>5, <2>8 DEF Added, c, Column
<1> QED
  BY <1>1, BenchInvariant, PTL

\* What was printed, what was saved and the rows are of the same transactions, for main has
\* joined the threads that change them; what they say of the host is the same too, unless the
\* sampler's thread was left running (ResourceMonitor.stop joins for a limited time).
THEOREM ReportsCannotDrift == BenchSpec => []NoDrift
<1>1. BenchInv => NoDrift
  <2> SUFFICES ASSUME BenchInv, Has("series") PROVE NoDrift
    BY DEF NoDrift
  <2>1. Has("stats") /\ stage = "done"
    <3>1. Has("stats")
      BY ReportBegins DEF BenchInv, TransferTypes, Has
    <3>2. stage # "aborted"
      BY DEF BenchInv, ReportStands, Has, Console
    <3>3. "series" \in PartsOf[stage] /\ stage \in Stages
      BY <3>2 DEF BenchInv, ReportStands, Has, TransferTypes
    <3> QED
      BY <3>1, <3>3 DEF PartsOf, Console, Csv, Summary
  <2>2. \A part \in Summary \cup {"phases", "series"} : Has(part)
    <3>1. DOMAIN report = PartsOf[stage] /\ stage \in Stages
      BY <2>1 DEF BenchInv, ReportStands, TransferTypes
    <3>2. PartsOf[stage] = Summary \cup {"phases", "series"}
      BY <2>1, <3>1 DEF PartsOf
    <3> QED
      BY <3>1, <3>2 DEF Has
  <2>3. /\ Has("rows") /\ Has("statsWritten") /\ Has("printed") /\ Has("written")
        /\ Has("phases")
    BY <2>2 DEF Console, Csv, Summary
  <2>4. report.stats = report.statsWritten /\ report.rpc = report.rpcWritten
    BY <2>1, <2>3 DEF BenchInv, ReportStands
  <2> DEFINE confirmed == With(report.rows, {"confirmed"})
             lat == [i \in confirmed |-> report.rows[i].latency]
             total == FoldFunction(+, 0, lat)
  <2>5. confirmed # {} => report.stats.latency.avg = <<total, Cardinality(confirmed)>>
    <3>1. report.rows = Rows /\ report.stats = Stats
      BY <2>1, <2>3 DEF BenchInv, ReportStands
    <3>2. /\ DOMAIN report.rows = DOMAIN txs
          /\ \A i \in DOMAIN txs :
               /\ report.rows[i].status = txs[i].status
               /\ confirmTs[i] # None => report.rows[i].latency = confirmTs[i] - submitTs[i]
      BY <3>1 DEF Rows
    <3>3. confirmed = Timed(Reported)
      BY <3>2, WhatIsReported, <2>1 DEF With
    <3>4. lat = [i \in Timed(Reported) |-> pollLatency(Reported[i])]
      <4>1. ASSUME NEW i \in Timed(Reported)
            PROVE  report.rows[i].latency = pollLatency(Reported[i])
        <5>1. i \in DOMAIN txs /\ confirmTs[i] # None
          BY <2>1, WhatIsReported DEF Timed, With
        <5> QED
          BY <2>1, <3>2, <5>1, WhatIsReported DEF pollLatency
      <4> QED
        BY <3>3, <4>1
    <3> DEFINE lat2 == [i \in Timed(Reported) |-> pollLatency(Reported[i])]
    <3>5. Timed(Reported) # {} =>
            report.stats.latency.avg = <<FoldFunction(+, 0, lat2), Cardinality(Timed(Reported))>>
      BY <3>1, StatisticsOf DEF Stats
    <3>6. Added(lat) = Added(lat2)
      BY <3>4
    <3> HIDE DEF lat, lat2
    <3>7. total = FoldFunction(+, 0, lat2)
      BY <3>6 DEF Added
    <3> HIDE DEF total, confirmed
    <3> QED
      BY <3>3, <3>5, <3>7
  <2>6. ASSUME ~outlived
        PROVE  /\ report.printed = report.written
               /\ FoldFunction(+, 0, report.phases) = report.written.count
               /\ Len(report.series) = report.written.count
    <3>1. /\ report.printed = summary /\ report.written = summary
          /\ report.phases = phase_summary /\ report.series = samples
      BY <2>3, <2>6 DEF BenchInv, ReportStands
    <3>2. summary.count = Len(samples)
      BY DEF summary
    <3> DEFINE D == DOMAIN samples
               key == [i \in D |-> samples[i].phase]
               N == {key[i] : i \in D}
    <3>3. D = 1 .. Len(samples) /\ Len(samples) \in Nat
      BY DEF BenchInv, SamplerKnown
    <3>4. IsFiniteSet(D) /\ Cardinality(D) = Len(samples)
      <4>1. 1 \in Int /\ Len(samples) \in Int
        BY <3>3
      <4>2. IsFiniteSet(1 .. Len(samples))
            /\ Cardinality(1 .. Len(samples)) = IF 1 > Len(samples) THEN 0 ELSE Len(samples) - 1 + 1
        BY <4>1, FS_Interval
      <4> QED
        BY <3>3, <4>2
    <3>5. DOMAIN key = D
      OBVIOUS
    <3>6. phase_summary = [p \in N |-> Cardinality({i \in D : key[i] = p})]
      <4>1. N = {samples[i].phase : i \in D}
        OBVIOUS
      <4>2. \A p : {i \in D : key[i] = p} = {i \in D : samples[i].phase = p}
        OBVIOUS
      <4> HIDE DEF key, N
      <4> QED
        BY <4>1, <4>2 DEF phase_summary
    <3>7. {i \in D : key[i] \in N} = D
      OBVIOUS
    <3>8. IsFiniteSet(N)
      <4> HIDE DEF key, D
      <4> QED
        BY <3>4, <3>5, ImageFinite
    <3> HIDE DEF D, key, N
    <3>9. Added(phase_summary) = Cardinality(D)
      BY <3>4, <3>6, <3>7, <3>8, PartsAddUp
    <3>10. Added(report.phases) = report.written.count
      BY <3>1, <3>2, <3>4, <3>9
    <3>11. FoldFunction(+, 0, report.phases) = report.written.count
      BY <3>10 DEF Added
    <3> QED
      BY <3>1, <3>2, <3>11
  <2> HIDE DEF total, confirmed
  <2>7. /\ confirmed # {} => report.stats.latency.avg = <<total, Cardinality(confirmed)>>
        /\ report.stats = report.statsWritten /\ report.rpc = report.rpcWritten
        /\ ~outlived => /\ report.printed = report.written
                        /\ FoldFunction(+, 0, report.phases) = report.written.count
                        /\ Len(report.series) = report.written.count
    BY <2>4, <2>5, <2>6
  <2> QED
    BY <2>7 DEF NoDrift, confirmed, total
<1> QED
  BY <1>1, BenchInvariant, PTL
==============================================================================
