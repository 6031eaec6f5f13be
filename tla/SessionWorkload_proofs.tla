------------------------ MODULE SessionWorkload_proofs ------------------------
(***************************************************************************)
(* What the tools on an anchor and the session workloads guarantee, for    *)
(* any pool, committee, list of thresholds and sweep, and any number of    *)
(* tools run and of calls lost.                                            *)
(***************************************************************************)
EXTENDS SessionWorkload, FiniteSetTheorems, SequenceTheorems, WellFoundedInduction,
        TLAPS

------------------------------------------------------------------------------
\* Numbers, and accounts in the order of the accounts file.

\* A set of natural numbers has a least one.
LEMMA NatLeast ==
  ASSUME NEW S, S \subseteq Nat, S # {}
  PROVE  \E n \in S : \A m \in S : n <= m
<1> DEFINE Less == OpToRel(<, Nat)
<1>1. IsWellFoundedOn(Less, Nat)
  BY NatLessThanWellFounded
<1>2. Less = {ss \in Nat \X Nat : ss[1] < ss[2]}
  BY DEF OpToRel
<1>3. \A x \in Nat, y \in Nat : y < x => <<y, x>> \in Less
  BY <1>2
<1> HIDE DEF Less
<1>4. PICK x \in S : \A y \in S : ~(<<y, x>> \in Less)
  BY <1>1, WFMin
<1>5. ASSUME NEW y \in S PROVE x <= y
  <2>1. x \in Nat /\ y \in Nat
    OBVIOUS
  <2>2. ~(y < x)
    BY <1>3, <1>4, <2>1
  <2> QED
    BY <2>1, <2>2
<1> QED
  BY <1>5

\* A set of numbers up to n has a greatest one.
LEMMA NatGreatest ==
  ASSUME NEW n \in Nat, NEW S, S \subseteq 1 .. n, S # {}
  PROVE  \E i \in S : \A m \in S : m <= i
<1> DEFINE Back == {k \in 0 .. n : n - k \in S}
<1>1. PICK j \in S : TRUE
  OBVIOUS
<1>2. n - j \in 0 .. n /\ n - (n - j) = j
  BY <1>1
<1>3. n - j \in Back
  BY <1>1, <1>2
<1>4. Back \subseteq Nat /\ Back # {}
  <2>1. Back \subseteq Nat
    OBVIOUS
  <2> HIDE DEF Back
  <2> QED
    BY <1>3, <2>1
<1>5. PICK k \in Back : \A m \in Back : k <= m
  <2> HIDE DEF Back
  <2> QED
    BY <1>4, NatLeast
<1>6. n - k \in S /\ k \in 0 .. n
  BY <1>5
<1>7. ASSUME NEW m \in S PROVE m <= n - k
  <2>1. m \in 1 .. n /\ n - m \in 0 .. n /\ n - (n - m) = m
    OBVIOUS
  <2>2. n - m \in Back
    BY <2>1
  <2>3. k <= n - m
    BY <1>5, <2>2
  <2> QED
    BY <1>6, <2>1, <2>3
<1> QED
  BY <1>6, <1>7

\* Another account of a finite set has another rank, and ranks are places.
LEMMA RanksAreDistinct ==
  ASSUME NEW S, S \subseteq Nat, IsFiniteSet(S)
  PROVE  /\ \A a \in S : Rank(a, S) \in 1 .. Cardinality(S)
         /\ \A a, b \in S : Rank(a, S) = Rank(b, S) => a = b
<1> DEFINE Upto(a) == {b \in S : b <= a}
<1>1. \A a \in S : IsFiniteSet(Upto(a)) /\ Cardinality(Upto(a)) <= Cardinality(S)
  BY FS_Subset
<1>2. Cardinality(S) \in Nat /\ \A a \in S : Cardinality(Upto(a)) \in Nat
  BY <1>1, FS_CardinalityType
<1>3. ASSUME NEW a \in S PROVE Cardinality(Upto(a)) # 0
  <2>1. a \in Upto(a)
    OBVIOUS
  <2> QED
    BY <1>1, <2>1, FS_EmptySet
<1>4. ASSUME NEW a \in S, NEW b \in S, a < b PROVE Cardinality(Upto(a)) # Cardinality(Upto(b))
  <2>0. a \in Nat /\ b \in Nat /\ \A c \in S : c \in Nat
    OBVIOUS
  <2>6. (\A c \in S : c <= a => c <= b) /\ b <= b /\ ~(b <= a)
    BY <1>4, <2>0
  <2>1. Upto(a) \subseteq Upto(b) /\ b \in Upto(b) /\ b \notin Upto(a)
    BY <2>6
  <2>2. IsFiniteSet(Upto(b))
    BY <1>1
  <2> HIDE DEF Upto
  <2>3. Upto(a) \in SUBSET Upto(b)
    BY <2>1
  <2>4. Cardinality(Upto(b)) = Cardinality(Upto(a)) => Upto(b) = Upto(a)
    BY <2>2, <2>3, FS_Subset
  <2> QED
    BY <2>1, <2>4
<1>5. \A a \in S : Rank(a, S) = Cardinality(Upto(a))
  BY DEF Rank
<1> HIDE DEF Upto
<1>6. ASSUME NEW a \in S, NEW b \in S, Rank(a, S) = Rank(b, S) PROVE a = b
  <2>1. a \in Nat /\ b \in Nat
    OBVIOUS
  <2> QED
    BY <1>4, <1>5, <1>6, <2>1
<1>7. \A a \in S : Rank(a, S) \in 1 .. Cardinality(S)
  BY <1>1, <1>2, <1>3, <1>5
<1> QED
  BY <1>6, <1>7

\* There is an account at every place.
LEMMA RanksAreTaken ==
  ASSUME NEW S, S \subseteq Nat, IsFiniteSet(S), NEW k \in 1 .. Cardinality(S)
  PROVE  \E a \in S : Rank(a, S) = k
<1> DEFINE n == Cardinality(S)
           f == [a \in S |-> Rank(a, S)]
<1>1. n \in Nat
  BY FS_CardinalityType
<1>2. IsFiniteSet(1 .. n) /\ Cardinality(1 .. n) = n
  BY <1>1, FS_Interval
<1>3. f \in Injection(S, 1 .. n)
  BY RanksAreDistinct DEF Injection, IsInjective
<1>4. f \in Surjection(S, 1 .. n)
  <2> HIDE DEF f, n
  <2>1. Cardinality(S) = Cardinality(1 .. n)
    BY <1>2 DEF n
  <2> QED
    BY <1>2, <1>3, <2>1, FS_Injection
<1> QED
  BY <1>4 DEF Surjection

\* The accounts in order are the accounts.
LEMMA AscendingLists ==
  ASSUME NEW S, S \subseteq Nat, IsFiniteSet(S)
  PROVE  /\ Ascending(S) \in Seq(S)
         /\ \A a \in S : \E i \in DOMAIN Ascending(S) : Ascending(S)[i] = a
<1>1. Cardinality(S) \in Nat
  BY FS_CardinalityType
<1>2. ASSUME NEW k \in 1 .. Cardinality(S)
      PROVE  /\ (CHOOSE a \in S : Rank(a, S) = k) \in S
             /\ Rank(CHOOSE a \in S : Rank(a, S) = k, S) = k
  BY RanksAreTaken
<1>3. Ascending(S) \in [1 .. Cardinality(S) -> S]
  BY <1>2 DEF Ascending
<1>4. ASSUME NEW a \in S PROVE \E i \in DOMAIN Ascending(S) : Ascending(S)[i] = a
  <2>1. Rank(a, S) \in 1 .. Cardinality(S)
    BY RanksAreDistinct
  <2>2. Ascending(S)[Rank(a, S)] = a
    BY <1>2, <2>1, RanksAreDistinct DEF Ascending
  <2> QED
    BY <1>3, <2>1, <2>2
<1> QED
  BY <1>1, <1>3, <1>4

\* The first k accounts are k.
LEMMA FirstAreMany ==
  ASSUME NEW S, S \subseteq Nat, IsFiniteSet(S), NEW k \in 0 .. Cardinality(S)
  PROVE  LET F == {a \in S : Rank(a, S) <= k} IN IsFiniteSet(F) /\ Cardinality(F) = k
<1> DEFINE F == {a \in S : Rank(a, S) <= k}
           f == [a \in F |-> Rank(a, S)]
<1>1. IsFiniteSet(F)
  BY FS_Subset
<1>2. IsFiniteSet(1 .. k) /\ Cardinality(1 .. k) = k
  <2>1. k \in Int
    BY FS_CardinalityType
  <2> QED
    BY <2>1, FS_Interval, FS_CardinalityType
<1>3. \A a \in F : Rank(a, S) \in 1 .. k
  <2> TAKE a \in F
  <2>0. Cardinality(S) \in Nat
    BY FS_CardinalityType
  <2>1. k \in Nat
    BY <2>0
  <2>2. a \in S /\ Rank(a, S) <= k
    OBVIOUS
  <2>3. Rank(a, S) \in 1 .. Cardinality(S)
    BY <2>2, RanksAreDistinct
  <2> QED
    BY <2>0, <2>1, <2>2, <2>3
<1>4. \A a, b \in F : Rank(a, S) = Rank(b, S) => a = b
  BY RanksAreDistinct
<1>5. \A j \in 1 .. k : \E a \in F : Rank(a, S) = j
  <2> TAKE j \in 1 .. k
  <2>1. j \in 1 .. Cardinality(S)
    BY FS_CardinalityType
  <2>2. PICK a \in S : Rank(a, S) = j
    BY <2>1, RanksAreTaken
  <2> QED
    BY <2>2
<1>6. f \in Injection(F, 1 .. k) /\ f \in Surjection(F, 1 .. k)
  <2> HIDE DEF F
  <2> QED
    BY <1>3, <1>4, <1>5 DEF Injection, Surjection, IsInjective
<1> HIDE DEF F, f
<1>7. Cardinality(F) = Cardinality(1 .. k)
  BY <1>2, <1>6, FS_Injection
<1>8. IsFiniteSet(F) /\ Cardinality(F) = k
  BY <1>1, <1>2, <1>7
<1> QED
  BY <1>8 DEF F
------------------------------------------------------------------------------
\* The inductive invariant of the provisioning.  An owner's call stands in `sent`, and is
\* then in at most one place: on its way, in the pool, or in a block.

OwnerCall == [op : {"deploy", "add", "set"}, at : Nat, arg : Nat]
Receipt == [id : Nat, ok : BOOLEAN]
DriverPlaces == {"ready", "plan", "leg", "read", "negative", "row", "point"}

Waiting == pool[Owner]
Mined == mined[Owner]

IsMined(id) == \E k \in DOMAIN Mined : Mined[k].id = id
IsMinedOk(id) == \E k \in DOMAIN Mined : Mined[k].id = id /\ Mined[k].ok

ChainTypes ==
  /\ Owner \in DOMAIN pool /\ Owner \in DOMAIN mined
  /\ Mined \in Seq(Receipt) /\ sent \in Seq(OwnerCall)

\* What was given to a node or lost on the way was sent, and is in one place only.
CallsOnce ==
  /\ \A n \in DOMAIN Waiting : Waiting[n] \in DOMAIN sent
  /\ \A d \in delayed : d.id \in DOMAIN sent
  /\ \A k \in DOMAIN Mined : Mined[k].id \in DOMAIN sent
  /\ \A n, m \in DOMAIN Waiting : Waiting[n] = Waiting[m] => n = m
  /\ \A d, e \in delayed : d.id = e.id => d = e
  /\ \A k, j \in DOMAIN Mined : Mined[k].id = Mined[j].id => k = j
  /\ \A n \in DOMAIN Waiting : ~IsMined(Waiting[n])
  /\ \A d \in delayed : ~IsMined(d.id) /\ \A n \in DOMAIN Waiting : Waiting[n] # d.id

\* An anchor is there because its deployment was mined; its owner is a verifier and its
\* threshold can be reached.
AnchorsSound ==
  \A a \in DOMAIN anchors :
    /\ IsMined(a) /\ anchors[a] \in [verifiers : SUBSET Nat, threshold : Nat]
    /\ 0 \in anchors[a].verifiers /\ IsFiniteSet(anchors[a].verifiers)
    /\ anchors[a].threshold \in 1 .. Cardinality(anchors[a].verifiers)

\* What was mined has taken effect, and no verifier is ever removed.
MinedTookEffect ==
  \A id \in DOMAIN sent :
    /\ sent[id].op # "deploy" => sent[id].at \in DOMAIN anchors
    /\ IsMinedOk(id) /\ sent[id].op = "deploy" => id \in DOMAIN anchors
    /\ IsMinedOk(id) /\ sent[id].op = "add" => sent[id].arg \in anchors[sent[id].at].verifiers

ChainInv == ChainTypes /\ CallsOnce /\ AnchorsSound /\ MinedTookEffect

ToolTypes ==
  todo \in Seq(OwnerCall) /\ target \in Nat /\ file \in Nat /\ initial \in Nat

\* Where each tool can be.
Places ==
  \/ tool = "none" /\ pc = "idle"
  \/ tool = "deploy" /\ pc \in {"send", "wait", "spread"}
  \/ tool = "zkroam" /\ pc \in {"send", "wait"} \cup DriverPlaces
  \/ tool = "plain" /\ pc \in DriverPlaces
  \/ tool = "ablation" /\ pc \in {"send", "wait", "relay", "restore", "restoring"}

\* The anchor that a tool works on is there, and what it has still to call is on it.
TargetIsThere ==
  /\ tool \in {"zkroam", "ablation"} =>
       /\ target \in DOMAIN anchors
       /\ \A i \in DOMAIN todo : todo[i].op \in {"add", "set"} /\ todo[i].at = target
  /\ tool = "ablation" => point \in DOMAIN TValues
  /\ tool = "deploy" /\ pc = "spread" => target \in DOMAIN anchors
  /\ tool = "deploy" /\ pc \in {"send", "wait"} =>
       IF todo = <<>> THEN target \in DOMAIN anchors
                      ELSE \A i \in DOMAIN todo : i = 1 /\ todo[i].op = "deploy"

\* What a tool waits for is the call it has just sent.
WaitsForHead ==
  pc = "wait" => todo # <<>> /\ \E id \in DOMAIN sent : waits = {id} /\ sent[id] = Head(todo)

\* Every verifier of the pool is still to be sent, or its call is waited for, or failed.
SpreadCovers ==
  pc = "spread" =>
    /\ signers \subseteq 1 .. PoolSize - 1
    /\ \/ todo # <<>>
       \/ \A v \in 1 .. PoolSize - 1 :
            v \in signers \/ \E id \in waits \cap DOMAIN sent :
                               sent[id] = [op |-> "add", at |-> target, arg |-> v]

\* Where the driver is tells how many legs of the mode it has begun.
LegPlaces ==
  /\ pc = "plan" => leg \in 0 .. 2
  /\ pc = "leg" => leg \in 1 .. 3
  /\ pc = "read" => leg = 1
  /\ pc = "negative" => leg = 2

ToolInv ==
  ToolTypes /\ Places /\ TargetIsThere /\ WaitsForHead /\ SpreadCovers /\ FileIsProvisioned

ProvInv == ChainInv /\ ToolInv /\ LegPlaces

------------------------------------------------------------------------------
\* What holds of a tool that began with nothing under way: while it sends one call after
\* the other, the pool holds at most the call it waits for.

NothingUnderWay == DOMAIN Waiting = {} /\ delayed = {}

QuietCalls ==
  quiet /\ (tool = "zkroam" \/ (tool = "ablation" /\ pc \in {"send", "wait", "relay"})) =>
    /\ delayed = {}
    /\ IF pc = "wait" THEN \A n \in DOMAIN Waiting : Waiting[n] \in waits
                      ELSE DOMAIN Waiting = {}

\* Whoever of the committee is missing will be authorised.
MissingPlanned ==
  tool = "zkroam" /\ pc \in {"send", "wait"} =>
    \A a \in Attesters : \/ a \in Anchor.verifiers
                         \/ \E i \in DOMAIN todo : todo[i].op = "add" /\ todo[i].arg = a

CommitteeSuffices ==
  quiet /\ tool = "zkroam" /\ pc \in DriverPlaces =>
    signers \subseteq Anchor.verifiers /\ Finalizes(Cardinality(signers))

Below(n) == n \in Nat /\ LatestCount(Owner) <= n /\ n < base

\* The ablation numbers its calls upwards, so that no call has a higher nonce than its last.
NoncesAscend ==
  quiet /\ (tool = "ablation" \/ claimed) =>
    IF base = Unread THEN NothingUnderWay
    ELSE /\ base \in Nat
         /\ \A n \in DOMAIN Waiting : Below(n)
         /\ \A d \in delayed : d.nonce \in Nat /\ d.nonce < base

\* The last call restores the threshold, and nothing can follow it into a block.
RestoreIsLast ==
  quiet /\ tool = "ablation" /\ pc = "restoring" =>
    \E w \in DOMAIN sent :
      /\ waits = {w} /\ sent[w] = [op |-> "set", at |-> target, arg |-> initial]
      /\ base # Unread
      /\ \A d \in delayed : d.id # w
      /\ \A n \in DOMAIN Waiting : Waiting[n] = w => n = base - 1
      /\ IsMined(w) => LatestCount(Owner) >= base /\ Anchor.threshold = initial

InitialFits ==
  tool = "ablation" => initial \in 1 .. Cardinality(Anchor.verifiers)

RestoredStays ==
  claimed =>
    /\ tool = "none" /\ target \in DOMAIN anchors
    /\ quiet => /\ base # Unread /\ LatestCount(Owner) >= base
                /\ Anchor.threshold = initial

Verdicts == {"untested", "n/a", "VIOLATION", "ok"}
ResultRow == [t : Nat, relays : Nat, final : Nat, boundary : Verdicts, quiet : BOOLEAN]

RowsAreMeasured ==
  /\ rows \in Seq(ResultRow) /\ PointsAreEnforced
  /\ quiet \in BOOLEAN
  /\ pc = "relay" => /\ rows # <<>> /\ lastRow.quiet = quiet
                     /\ quiet => Anchor.threshold = T /\ signers = 0 .. T - 1

QuietInv ==
  /\ QuietCalls /\ MissingPlanned /\ CommitteeSuffices /\ NoncesAscend /\ RestoreIsLast
  /\ InitialFits /\ RestoredStays /\ RowsAreMeasured

------------------------------------------------------------------------------
\* The inductive invariant of the workloads.

Session == [u : Nat, committed : BOOLEAN, settled : BOOLEAN]
ModeRow == [mode : {"individual", "batch", "aggregate"}, valid : BOOLEAN]
PointRow == [of : {"plain", "zkroam"}, valid : BOOLEAN]

\* A run is at one point of its sweep and in one of its modes; without a run nothing is kept.
SweepPlace ==
  /\ row \in Seq(ModeRow) /\ results \in Seq(PointRow)
  /\ pc \notin DriverPlaces => at = 1 /\ row = <<>> /\ results = <<>> /\ late = {}
  /\ pc \in DriverPlaces =>
       /\ at \in 1 .. Len(Sweep[tool]) /\ Len(results) = at - 1
       /\ \A k \in DOMAIN results : results[k].of = tool
       /\ Len(row) \in (IF pc = "point" THEN {2} ELSE {0, 1})
       /\ \A j \in DOMAIN row : row[j].mode = Modes[j]

\* A mode is under way.
InMode ==
  /\ tool \in {"plain", "zkroam"} /\ at \in 1 .. Len(Sweep[tool])
  /\ row \in Seq(ModeRow) /\ Len(row) \in {0, 1}

\* The detail files of every mode that is through are on disk.
DetailsWritten ==
  /\ saved = [details |-> saved.details, summary |-> saved.summary]
  /\ pc \in DriverPlaces =>
       /\ \A k \in 1 .. at - 1, j \in 1 .. 2 : DetailFiles(tool, k, Modes[j]) \subseteq saved.details
       /\ \A j \in DOMAIN row : DetailFiles(tool, at, Modes[j]) \subseteq saved.details
  /\ DetailsBehindSummary

\* No start is ever late: the leg that starts the sessions ends with all of them or raises.
\* Nothing is late before the second leg has ended.
AgreementTypes ==
  /\ ag \in Seq(Session)
  /\ legValid \in BOOLEAN /\ rejected \in BOOLEAN
  /\ \A call \in late : call.op \in {"commit", "relay", "settle"}
  /\ pc = "read" \/ (pc = "plan" /\ leg <= 1) \/ (pc = "leg" /\ leg <= 2) => late = {}

CallsAsPlanned ==
  pc = "leg" =>
    /\ calls = CallsOf(LegNames[leg])
    /\ fate \in [DOMAIN calls -> {"waiting", "ok", "reverted"}]

\* One session for each user, and for nobody else.
OneEach ==
  /\ \A id \in DOMAIN ag : ag[id].u \in Users
  /\ \A i, j \in DOMAIN ag : ag[i].u = ag[j].u => i = j
AllStarted == OneEach /\ \A u \in Users : \E id \in DOMAIN ag : ag[id].u = u
AllRead == DOMAIN sessions = Users /\ \A u \in Users : sessions[u] \in DOMAIN ag /\ ag[sessions[u]].u = u

\* Which legs are behind: the starts, the reading of the session ids.
IsStarted == pc \in {"read", "negative", "row"} \/ (pc = "plan" /\ leg >= 1) \/ (pc = "leg" /\ leg >= 2)
IsRead == IsStarted /\ pc # "read"
InLeg(n) == pc = "leg" /\ leg = n

\* While sessions are started: those whose call is confirmed.
StartsTold ==
  InLeg(1) =>
    /\ OneEach
    /\ \A id \in DOMAIN ag : fate[ag[id].u] = "ok"
    /\ \A u \in Users : fate[u] = "ok" => \E id \in DOMAIN ag : ag[id].u = u

StartsDone ==
  /\ pc = "plan" /\ leg = 0 => ag = <<>>
  /\ IsStarted => AllStarted
  /\ IsRead => AllRead
  /\ \A u \in DOMAIN sessions : sessions[u] \in DOMAIN ag /\ ag[sessions[u]].u = u

\* A confirmed settlement has settled its sessions; one of the first batch found it final.
SettlesTold ==
  InLeg(3) =>
    /\ \A i \in DOMAIN calls : fate[i] = "ok" =>
         \A k \in DOMAIN calls[i].us : ag[sessions[calls[i].us[k]]].settled
    /\ mode = "aggregate" /\ fate[1] = "ok" => 1 \in finals

\* While all is valid no relay is late, and a batch that is final was so when its
\* signatures were swapped.
NegativeIsFair ==
  (pc = "negative" \/ (pc = "plan" /\ leg = 2) \/ InLeg(3)) /\ mode = "aggregate" /\ legValid =>
    /\ \A call \in late : call.op # "relay"
    /\ pc # "negative" /\ 1 \in finals /\ nproofs >= 2 => rejected

Backed(m) ==
  /\ AllStarted /\ \A id \in DOMAIN ag : ag[id].settled
  /\ m = "aggregate" /\ nproofs >= 2 => rejected

ValidIsBacked ==
  /\ pc = "row" /\ legValid => Backed(mode)
  /\ pc \in {"ready", "point"} /\ row # <<>> /\ row[Len(row)].valid => Backed(row[Len(row)].mode)

WorkInv ==
  /\ SweepPlace /\ DetailsWritten /\ AgreementTypes /\ CallsAsPlanned /\ StartsTold /\ StartsDone
  /\ SettlesTold /\ NegativeIsFair /\ ValidIsBacked
------------------------------------------------------------------------------
\* The chain.

\* What a step of the owner's chain can do to an anchor: it stays, and loses no verifier.
AnchorsGrow ==
  \A a \in DOMAIN anchors :
    a \in DOMAIN anchors' /\ anchors[a].verifiers \subseteq anchors'[a].verifiers

\* An accepted call is in the pool at its nonce, which was free.
LEMMA EnterEffect ==
  ASSUME ChainTypes, NEW n, NEW id, Enter(Owner, n, id)
  PROVE  /\ Owner \in DOMAIN pool' /\ mined' = mined
         /\ n >= LatestCount(Owner) /\ n \notin DOMAIN Waiting
         /\ DOMAIN Waiting' = DOMAIN Waiting \cup {n} /\ Waiting'[n] = id
         /\ \A m \in DOMAIN Waiting : Waiting'[m] = Waiting[m]
BY DEF Enter, Accepts, ChainTypes, Waiting

\* Mining moves the call of the next nonce from the pool to the end of the blocks.
LEMMA MineEffect ==
  ASSUME ChainTypes, NEW ok \in BOOLEAN, Mine(Owner, ok), CallsOnce
  PROVE  LET next == LatestCount(Owner) IN
         /\ Owner \in DOMAIN pool' /\ Owner \in DOMAIN mined'
         /\ next \in DOMAIN Waiting /\ next = Len(Mined)
         /\ Mined' = Append(Mined, [id |-> Waiting[next], ok |-> ok])
         /\ Mined' \in Seq(Receipt)
         /\ DOMAIN Waiting' = DOMAIN Waiting \ {next}
         /\ \A m \in DOMAIN Waiting' : Waiting'[m] = Waiting[m]
<1>1. Waiting[LatestCount(Owner)] \in Nat /\ LatestCount(Owner) \in DOMAIN Waiting
  <2>1. LatestCount(Owner) \in DOMAIN Waiting
    BY DEF Mine, Waiting
  <2>2. DOMAIN sent = 1 .. Len(sent) /\ Len(sent) \in Nat
    BY DEF ChainTypes
  <2> QED
    BY <2>1, <2>2 DEF CallsOnce
<1>2. /\ Owner \in DOMAIN pool' /\ Owner \in DOMAIN mined' /\ LatestCount(Owner) = Len(Mined)
      /\ Mined' = Append(Mined, [id |-> Waiting[LatestCount(Owner)], ok |-> ok])
      /\ DOMAIN Waiting' = DOMAIN Waiting \ {LatestCount(Owner)}
      /\ \A m \in DOMAIN Waiting' : Waiting'[m] = Waiting[m]
  BY DEF Mine, ChainTypes, Waiting, Mined, LatestCount
<1>3. [id |-> Waiting[LatestCount(Owner)], ok |-> ok] \in Receipt
  BY <1>1 DEF Receipt
<1>4. Mined' \in Seq(Receipt)
  BY <1>2, <1>3, AppendProperties DEF ChainTypes
<1> QED
  BY <1>1, <1>2, <1>4

\* After mining exactly one more call is in the blocks.
LEMMA MinedAfter ==
  ASSUME ChainTypes, NEW r \in Receipt, Mined' = Append(Mined, r)
  PROVE  /\ Len(Mined') = Len(Mined) + 1
         /\ DOMAIN Mined = 1 .. Len(Mined) /\ DOMAIN Mined' = 1 .. Len(Mined) + 1
         /\ Mined'[Len(Mined) + 1] = r
         /\ \A k \in DOMAIN Mined : Mined'[k] = Mined[k]
         /\ \A id : IsMined(id)' <=> IsMined(id) \/ id = r.id
         /\ \A id : IsMinedOk(id)' <=> IsMinedOk(id) \/ (id = r.id /\ r.ok)
<1>1. /\ Len(Mined') = Len(Mined) + 1
      /\ DOMAIN Mined = 1 .. Len(Mined) /\ DOMAIN Mined' = 1 .. Len(Mined) + 1
      /\ Mined'[Len(Mined) + 1] = r
      /\ \A k \in DOMAIN Mined : Mined'[k] = Mined[k]
      /\ Len(Mined) \in Nat
  <2>1. Mined \in Seq(Receipt)
    BY DEF ChainTypes
  <2>2. Len(Mined') = Len(Mined) + 1 /\ Mined' \in Seq(Receipt) /\ Len(Mined) \in Nat
    BY <2>1, AppendProperties
  <2>3. /\ Mined'[Len(Mined) + 1] = r
        /\ \A k \in 1 .. Len(Mined) : Mined'[k] = Mined[k]
    BY <2>1, AppendProperties
  <2> QED
    BY <2>1, <2>2, <2>3
<1> DEFINE k0 == Len(Mined) + 1
<1>2. DOMAIN Mined' = DOMAIN Mined \cup {k0} /\ k0 \notin DOMAIN Mined
  BY <1>1
<1>3. Mined'[k0] = r
  BY <1>1
<1> HIDE DEF k0
<1>4. \A id : IsMined(id)' <=> IsMined(id) \/ id = r.id
  BY <1>1, <1>2, <1>3 DEF IsMined
<1>5. \A id : IsMinedOk(id)' <=> IsMinedOk(id) \/ (id = r.id /\ r.ok)
  BY <1>1, <1>2, <1>3 DEF IsMinedOk
<1> QED
  BY <1>1, <1>4, <1>5

\* A call that is made stands at the end of `sent`.
LEMMA SentGrows ==
  ASSUME ChainTypes, NEW call \in OwnerCall, sent' = Append(sent, call)
  PROVE  LET id == Len(sent) + 1 IN
         /\ sent' \in Seq(OwnerCall) /\ id \notin DOMAIN sent
         /\ DOMAIN sent' = DOMAIN sent \cup {id} /\ sent'[id] = call
         /\ \A i \in DOMAIN sent : sent'[i] = sent[i]
<1>1. sent \in Seq(OwnerCall) /\ Len(sent) \in Nat /\ DOMAIN sent = 1 .. Len(sent)
  BY DEF ChainTypes
<1>2. /\ sent' \in Seq(OwnerCall) /\ Len(sent') = Len(sent) + 1
      /\ sent'[Len(sent) + 1] = call
      /\ \A i \in 1 .. Len(sent) : sent'[i] = sent[i]
  BY <1>1, AppendProperties
<1>3. DOMAIN sent' = 1 .. Len(sent) + 1
  BY <1>2
<1> QED
  BY <1>1, <1>2, <1>3

\* What a call that is made does not know of anything older stays true of the older calls.
LEMMA SendKeepsEffects ==
  ASSUME ChainInv, NEW call \in OwnerCall, sent' = Append(sent, call), mined' = mined,
         anchors' = anchors, call.op # "deploy" => call.at \in DOMAIN anchors
  PROVE  AnchorsSound' /\ MinedTookEffect' /\ ~IsMined(Len(sent) + 1)
<1>1. AnchorsSound'
  BY DEF ChainInv, AnchorsSound, IsMined, Mined
<1> DEFINE new == Len(sent) + 1
<1>2. /\ DOMAIN sent' = DOMAIN sent \cup {new} /\ sent'[new] = call
      /\ \A i \in DOMAIN sent : sent'[i] = sent[i]
      /\ new \notin DOMAIN sent
  BY SentGrows DEF ChainInv
<1> HIDE DEF new
<1>3. ~IsMined(new)
  BY <1>2 DEF ChainInv, CallsOnce, IsMined
<1>4. \A id : IsMinedOk(id)' <=> IsMinedOk(id)
  BY DEF IsMinedOk, Mined
<1>5. ~IsMinedOk(new)
  BY <1>3 DEF IsMined, IsMinedOk
<1>6. ASSUME NEW id \in DOMAIN sent'
      PROVE  /\ sent'[id].op # "deploy" => sent'[id].at \in DOMAIN anchors
             /\ IsMinedOk(id) /\ sent'[id].op = "deploy" => id \in DOMAIN anchors
             /\ IsMinedOk(id) /\ sent'[id].op = "add" => sent'[id].arg \in anchors[sent'[id].at].verifiers
  <2>1. CASE id = new
    BY <2>1, <1>2, <1>5
  <2>2. CASE id \in DOMAIN sent
    BY <2>2, <1>2 DEF ChainInv, MinedTookEffect
  <2> QED
    BY <2>1, <2>2, <1>2
<1>7. MinedTookEffect'
  BY <1>4, <1>6 DEF MinedTookEffect
<1> QED
  BY <1>1, <1>3, <1>7 DEF new

\* However a request ends, the call is in one place at most, and nothing takes effect yet.
LEMMA SendsKeepsChain ==
  ASSUME ChainInv, NEW call \in OwnerCall, NEW nonce, NEW answered \in BOOLEAN,
         Sends(call, nonce, answered), call.op # "deploy" => call.at \in DOMAIN anchors
  PROVE  ChainInv' /\ mined' = mined /\ anchors' = anchors
<1> DEFINE new == Len(sent) + 1
<1>1. /\ sent' = Append(sent, call) /\ anchors' = anchors
      /\ \/ Enter(Owner, nonce, new) /\ UNCHANGED delayed
         \/ UNCHANGED nodeVars /\ UNCHANGED delayed
         \/ delayed' = delayed \cup {[id |-> new, nonce |-> nonce]} /\ UNCHANGED nodeVars
  BY DEF Sends
<1>2. mined' = mined
  BY <1>1 DEF Enter, nodeVars
<1>3. AnchorsSound' /\ MinedTookEffect' /\ ~IsMined(new)
  BY <1>1, <1>2, SendKeepsEffects
<1>4. /\ sent' \in Seq(OwnerCall) /\ new \notin DOMAIN sent
      /\ DOMAIN sent' = DOMAIN sent \cup {new}
  BY <1>1, SentGrows DEF ChainInv
<1>5. Mined' = Mined /\ \A id : IsMined(id)' <=> IsMined(id)
  BY <1>2 DEF Mined, IsMined
<1> HIDE DEF new
<1>6. /\ \A n \in DOMAIN Waiting : Waiting[n] # new
      /\ \A d \in delayed : d.id # new
  BY <1>4 DEF ChainInv, CallsOnce
<1>7. CASE Enter(Owner, nonce, new) /\ UNCHANGED delayed
  <2>1. /\ Owner \in DOMAIN pool' /\ nonce \notin DOMAIN Waiting
        /\ DOMAIN Waiting' = DOMAIN Waiting \cup {nonce} /\ Waiting'[nonce] = new
        /\ \A m \in DOMAIN Waiting : Waiting'[m] = Waiting[m]
    BY <1>7, EnterEffect DEF ChainInv
  <2>2. CallsOnce'
    BY <1>3, <1>4, <1>5, <1>6, <1>7, <2>1 DEF ChainInv, CallsOnce
  <2> QED
    BY <1>1, <1>2, <1>3, <1>4, <1>5, <2>1, <2>2 DEF ChainInv, ChainTypes
<1>8. CASE UNCHANGED nodeVars /\ UNCHANGED delayed
  <2>1. Waiting' = Waiting
    BY <1>8 DEF Waiting, nodeVars
  <2>2. CallsOnce'
    BY <1>4, <1>5, <1>8, <2>1 DEF ChainInv, CallsOnce
  <2> QED
    BY <1>1, <1>2, <1>3, <1>4, <1>5, <1>8, <2>2 DEF ChainInv, ChainTypes, nodeVars
<1>9. CASE delayed' = delayed \cup {[id |-> new, nonce |-> nonce]} /\ UNCHANGED nodeVars
  <2>1. Waiting' = Waiting
    BY <1>9 DEF Waiting, nodeVars
  <2>2. CallsOnce'
    BY <1>3, <1>4, <1>5, <1>6, <1>9, <2>1 DEF ChainInv, CallsOnce
  <2> QED
    BY <1>1, <1>2, <1>3, <1>4, <1>5, <1>9, <2>2 DEF ChainInv, ChainTypes, nodeVars
<1> QED
  BY <1>1, <1>7, <1>8, <1>9

\* An authorised verifier more, or as many: the threshold can still be reached.
LEMMA StillReachable ==
  ASSUME NEW S, NEW R, IsFiniteSet(R), S \subseteq R, NEW t \in 1 .. Cardinality(S)
  PROVE  t \in 1 .. Cardinality(R)
<1>1. IsFiniteSet(S) /\ Cardinality(S) <= Cardinality(R)
  BY FS_Subset
<1>2. Cardinality(S) \in Nat /\ Cardinality(R) \in Nat
  BY <1>1, FS_CardinalityType
<1> QED
  BY <1>1, <1>2

\* What a mined call does to the anchors: they stay sound and lose no verifier, and what
\* the call says is true of them.
LEMMA EffectIsSound ==
  ASSUME ChainInv, NEW id \in DOMAIN sent, ~IsMined(id), Succeeds(sent[id]),
         anchors' = Effect(id)
  PROVE  /\ AnchorsGrow
         /\ \A a \in DOMAIN anchors' : a \in DOMAIN anchors \/ a = id
         /\ \A a \in DOMAIN anchors' :
              /\ anchors'[a] \in [verifiers : SUBSET Nat, threshold : Nat]
              /\ 0 \in anchors'[a].verifiers /\ IsFiniteSet(anchors'[a].verifiers)
              /\ anchors'[a].threshold \in 1 .. Cardinality(anchors'[a].verifiers)
         /\ sent[id].op = "deploy" => id \in DOMAIN anchors'
         /\ sent[id].op = "add" => sent[id].arg \in anchors'[sent[id].at].verifiers
<1> DEFINE call == sent[id]
<1>0. call \in OwnerCall
  BY DEF ChainInv, ChainTypes
<1>1. \A a \in DOMAIN anchors :
        /\ anchors[a] \in [verifiers : SUBSET Nat, threshold : Nat]
        /\ 0 \in anchors[a].verifiers /\ IsFiniteSet(anchors[a].verifiers)
        /\ anchors[a].threshold \in 1 .. Cardinality(anchors[a].verifiers)
  BY DEF ChainInv, AnchorsSound
<1>2. id \notin DOMAIN anchors
  BY DEF ChainInv, AnchorsSound
<1>3. call.op # "deploy" => call.at \in DOMAIN anchors
  BY DEF ChainInv, MinedTookEffect
<1>4. CASE call.op = "deploy"
  <2>1. /\ DOMAIN anchors' = DOMAIN anchors \cup {id}
        /\ anchors'[id] = [verifiers |-> {0}, threshold |-> 1]
        /\ \A a \in DOMAIN anchors : anchors'[a] = anchors[a]
    BY <1>2, <1>4 DEF Effect
  <2>2. IsFiniteSet({0}) /\ Cardinality({0}) = 1
    BY FS_Singleton
  <2>3. 1 \in 1 .. Cardinality({0})
    BY <2>2
  <2>4. AnchorsGrow
    BY <2>1 DEF AnchorsGrow
  <2>5. /\ anchors'[id] \in [verifiers : SUBSET Nat, threshold : Nat]
        /\ anchors'[id].verifiers = {0} /\ anchors'[id].threshold = 1
    BY <2>1
  <2>6. ASSUME NEW a \in DOMAIN anchors'
        PROVE  /\ anchors'[a] \in [verifiers : SUBSET Nat, threshold : Nat]
               /\ 0 \in anchors'[a].verifiers /\ IsFiniteSet(anchors'[a].verifiers)
               /\ anchors'[a].threshold \in 1 .. Cardinality(anchors'[a].verifiers)
    <3>1. CASE a = id
      BY <2>2, <2>3, <2>5, <3>1
    <3>2. CASE a \in DOMAIN anchors
      BY <1>1, <2>1, <3>2
    <3> QED
      BY <2>1, <3>1, <3>2
  <2> QED
    BY <1>4, <2>1, <2>4, <2>6
<1>5. CASE call.op = "add"
  <2> DEFINE at0 == call.at
             R == anchors[at0].verifiers \cup {call.arg}
  <2>1. at0 \in DOMAIN anchors /\ anchors' = [anchors EXCEPT ![at0].verifiers = R]
    BY <1>3, <1>5 DEF Effect
  <2>2. /\ DOMAIN anchors' = DOMAIN anchors
        /\ \A a \in DOMAIN anchors : a # at0 => anchors'[a] = anchors[a]
        /\ anchors'[at0] = [anchors[at0] EXCEPT !.verifiers = R]
    BY <2>1
  <2>3. /\ anchors[at0] \in [verifiers : SUBSET Nat, threshold : Nat]
        /\ 0 \in anchors[at0].verifiers /\ IsFiniteSet(anchors[at0].verifiers)
        /\ anchors[at0].threshold \in 1 .. Cardinality(anchors[at0].verifiers)
    BY <1>1, <2>1
  <2>4. R \in SUBSET Nat /\ IsFiniteSet(R)
    BY <1>0, <2>3, FS_AddElement DEF OwnerCall
  <2>5. anchors[at0].threshold \in 1 .. Cardinality(R)
    BY <2>3, <2>4, StillReachable
  <2>6. /\ anchors'[at0].verifiers = R /\ anchors'[at0].threshold = anchors[at0].threshold
        /\ anchors'[at0] \in [verifiers : SUBSET Nat, threshold : Nat]
    BY <2>2, <2>3, <2>4
  <2>7. 0 \in R /\ call.arg \in R /\ anchors[at0].verifiers \subseteq R
    BY <2>3
  <2> HIDE DEF R
  <2> QED
    BY <1>1, <1>5, <2>1, <2>2, <2>4, <2>5, <2>6, <2>7 DEF AnchorsGrow
<1>6. CASE call.op = "set"
  <2> DEFINE at0 == call.at
  <2>1. at0 \in DOMAIN anchors /\ anchors' = [anchors EXCEPT ![at0].threshold = call.arg]
    BY <1>3, <1>6 DEF Effect
  <2>2. /\ DOMAIN anchors' = DOMAIN anchors
        /\ \A a \in DOMAIN anchors : a # at0 => anchors'[a] = anchors[a]
        /\ anchors'[at0] = [anchors[at0] EXCEPT !.threshold = call.arg]
    BY <2>1
  <2>3. call.arg \in 1 .. Cardinality(anchors[at0].verifiers)
    BY <1>6 DEF Succeeds
  <2>4. /\ anchors'[at0].verifiers = anchors[at0].verifiers
        /\ anchors'[at0].threshold = call.arg
        /\ anchors'[at0] \in [verifiers : SUBSET Nat, threshold : Nat]
    BY <1>0, <1>1, <2>1, <2>2 DEF OwnerCall
  <2> QED
    BY <1>1, <1>6, <2>1, <2>2, <2>3, <2>4 DEF AnchorsGrow
<1> QED
  BY <1>0, <1>4, <1>5, <1>6 DEF OwnerCall

\* A block takes the owner's next call, and it succeeds or reverts.
LEMMA MineCallKeepsChain ==
  ASSUME ChainInv, MineCall
  PROVE  ChainInv' /\ AnchorsGrow
<1> DEFINE next == LatestCount(Owner)
           id == Waiting[next]
           ok == Succeeds(sent[id])
           r == [id |-> id, ok |-> ok]
<1>1. /\ Mine(Owner, ok) /\ sent' = sent /\ delayed' = delayed
      /\ anchors' = IF ok THEN Effect(id) ELSE anchors
  BY DEF MineCall, Waiting
<1>2. ok \in BOOLEAN
  BY DEF Succeeds
<1>3. /\ Owner \in DOMAIN pool' /\ Owner \in DOMAIN mined'
      /\ next \in DOMAIN Waiting
      /\ Mined' = Append(Mined, r) /\ Mined' \in Seq(Receipt)
      /\ DOMAIN Waiting' = DOMAIN Waiting \ {next}
      /\ \A m \in DOMAIN Waiting' : Waiting'[m] = Waiting[m]
  <2> HIDE DEF ok
  <2> QED
    BY <1>1, <1>2, MineEffect DEF ChainInv
<1>4. id \in DOMAIN sent /\ ~IsMined(id)
  BY <1>3 DEF ChainInv, CallsOnce
<1>5. r \in Receipt /\ r.id = id /\ r.ok = ok
  <2>1. id \in Nat
    BY <1>4 DEF ChainInv, ChainTypes
  <2> HIDE DEF ok, id
  <2> QED
    BY <1>2, <2>1 DEF Receipt
<1> HIDE DEF r, ok, id, next
<1>6. /\ \A i : IsMined(i)' <=> IsMined(i) \/ i = id
      /\ \A i : IsMinedOk(i)' <=> IsMinedOk(i) \/ (i = id /\ ok)
      /\ Len(Mined') = Len(Mined) + 1 /\ Len(Mined) \in Nat
      /\ DOMAIN Mined = 1 .. Len(Mined) /\ DOMAIN Mined' = 1 .. Len(Mined) + 1
      /\ Mined'[Len(Mined) + 1] = r
      /\ \A k \in DOMAIN Mined : Mined'[k] = Mined[k]
  <2>1. Len(Mined) \in Nat
    BY DEF ChainInv, ChainTypes
  <2> QED
    BY <1>3, <1>5, <2>1, MinedAfter DEF ChainInv
<1>7. CallsOnce'
  <2> DEFINE k0 == Len(Mined) + 1
  <2>1. DOMAIN Mined' = DOMAIN Mined \cup {k0} /\ Mined'[k0] = r
    BY <1>6
  <2> HIDE DEF k0
  <2>2. \A k \in DOMAIN Mined' : Mined'[k].id \in DOMAIN sent
    BY <1>4, <1>5, <1>6, <2>1 DEF ChainInv, CallsOnce
  <2>3. \A k, j \in DOMAIN Mined' : Mined'[k].id = Mined'[j].id => k = j
    BY <1>4, <1>5, <1>6, <2>1 DEF ChainInv, CallsOnce, IsMined
  <2>4. /\ \A n \in DOMAIN Waiting' : Waiting'[n] # id
        /\ \A d \in delayed : d.id # id
    BY <1>3 DEF ChainInv, CallsOnce, id
  <2>5. /\ \A n \in DOMAIN Waiting' : ~IsMined(Waiting'[n]) /\ Waiting'[n] # id
        /\ \A d \in delayed : ~IsMined(d.id) /\ d.id # id
    BY <1>3, <2>4 DEF ChainInv, CallsOnce
  <2>6. \A k \in DOMAIN Mined' : \/ k \in DOMAIN Mined /\ Mined'[k] = Mined[k]
                               \/ Mined'[k].id = id
    BY <1>5, <1>6, <2>1
  <2>7. /\ \A n \in DOMAIN Waiting', k \in DOMAIN Mined' : Mined'[k].id # Waiting'[n]
        /\ \A d \in delayed, k \in DOMAIN Mined' : Mined'[k].id # d.id
    BY <2>5, <2>6 DEF IsMined
  <2>8. /\ \A n, m \in DOMAIN Waiting' : Waiting'[n] = Waiting'[m] => n = m
        /\ \A n \in DOMAIN Waiting' : Waiting'[n] \in DOMAIN sent
        /\ \A d \in delayed, n \in DOMAIN Waiting' : Waiting'[n] # d.id
    BY <1>3 DEF ChainInv, CallsOnce
  <2> QED
    BY <1>1, <2>2, <2>3, <2>7, <2>8 DEF ChainInv, CallsOnce, IsMined
<1>8. CASE ok
  <2>1. anchors' = Effect(id) /\ Succeeds(sent[id])
    BY <1>1, <1>8 DEF ok
  <2>2. /\ AnchorsGrow
        /\ \A a \in DOMAIN anchors' : a \in DOMAIN anchors \/ a = id
        /\ \A a \in DOMAIN anchors' :
             /\ anchors'[a] \in [verifiers : SUBSET Nat, threshold : Nat]
             /\ 0 \in anchors'[a].verifiers /\ IsFiniteSet(anchors'[a].verifiers)
             /\ anchors'[a].threshold \in 1 .. Cardinality(anchors'[a].verifiers)
        /\ sent[id].op = "deploy" => id \in DOMAIN anchors'
        /\ sent[id].op = "add" => sent[id].arg \in anchors'[sent[id].at].verifiers
    BY <1>4, <2>1, EffectIsSound
  <2>3. AnchorsSound'
    BY <1>6, <2>2 DEF ChainInv, AnchorsSound
  <2>4. MinedTookEffect'
    BY <1>1, <1>6, <2>2 DEF ChainInv, MinedTookEffect, AnchorsGrow
  <2> QED
    BY <1>1, <1>3, <1>7, <2>2, <2>3, <2>4 DEF ChainInv, ChainTypes
<1>9. CASE ~ok
  <2>1. anchors' = anchors /\ AnchorsGrow
    BY <1>1, <1>9 DEF AnchorsGrow
  <2>2. AnchorsSound'
    BY <1>6, <2>1 DEF ChainInv, AnchorsSound
  <2>3. MinedTookEffect'
    BY <1>1, <1>6, <1>9, <2>1 DEF ChainInv, MinedTookEffect
  <2> QED
    BY <1>1, <1>3, <1>7, <2>1, <2>2, <2>3 DEF ChainInv, ChainTypes
<1> QED
  BY <1>8, <1>9

\* A step that mines nothing and deploys nothing.
LEMMA NothingMined ==
  ASSUME ChainInv, mined' = mined, anchors' = anchors, sent' = sent
  PROVE  AnchorsSound' /\ MinedTookEffect' /\ Mined' = Mined /\ AnchorsGrow
         /\ \A id : IsMined(id)' <=> IsMined(id)
<1>1. Mined' = Mined
  BY DEF Mined
<1>2. /\ \A id : IsMined(id)' <=> IsMined(id)
      /\ \A id : IsMinedOk(id)' <=> IsMinedOk(id)
  BY <1>1 DEF IsMined, IsMinedOk
<1> QED
  BY <1>1, <1>2 DEF ChainInv, AnchorsSound, MinedTookEffect, AnchorsGrow

\* A late call is in the pool or gone.
LEMMA ArriveLateKeepsChain ==
  ASSUME ChainInv, ArriveLate
  PROVE  ChainInv' /\ AnchorsGrow
<1>1. PICK d \in delayed : /\ delayed' = delayed \ {d}
                           /\ Enter(Owner, d.nonce, d.id) \/ UNCHANGED nodeVars
  BY DEF ArriveLate
<1>2. anchors' = anchors /\ sent' = sent /\ mined' = mined
  BY <1>1 DEF ArriveLate, Enter, nodeVars
<1>3. /\ AnchorsSound' /\ MinedTookEffect' /\ Mined' = Mined /\ AnchorsGrow
      /\ \A id : IsMined(id)' <=> IsMined(id)
  BY <1>2, NothingMined
<1>4. CASE Enter(Owner, d.nonce, d.id)
  <2>1. /\ Owner \in DOMAIN pool' /\ d.nonce \notin DOMAIN Waiting
        /\ DOMAIN Waiting' = DOMAIN Waiting \cup {d.nonce} /\ Waiting'[d.nonce] = d.id
        /\ \A m \in DOMAIN Waiting : Waiting'[m] = Waiting[m]
    BY <1>4, EnterEffect DEF ChainInv
  <2>2. CallsOnce'
    BY <1>1, <1>2, <1>3, <2>1 DEF ChainInv, CallsOnce
  <2> QED
    BY <1>2, <1>3, <2>1, <2>2 DEF ChainInv, ChainTypes
<1>5. CASE UNCHANGED nodeVars
  <2>1. Waiting' = Waiting /\ pool' = pool
    BY <1>5 DEF Waiting, nodeVars
  <2>2. CallsOnce'
    BY <1>1, <1>2, <1>3, <2>1 DEF ChainInv, CallsOnce
  <2> QED
    BY <1>2, <1>3, <2>1, <2>2 DEF ChainInv, ChainTypes
<1> QED
  BY <1>1, <1>4, <1>5

\* What the node loses of its pool.
LEMMA EvictEffect ==
  ASSUME ChainTypes, Evict(Owner)
  PROVE  /\ Owner \in DOMAIN pool' /\ mined' = mined
         /\ \A m \in DOMAIN Waiting' : m \in DOMAIN Waiting /\ Waiting'[m] = Waiting[m]
BY DEF Evict, ChainTypes, Waiting

\* A lost call is nowhere.
LEMMA LosePooledKeepsChain ==
  ASSUME ChainInv, LosePooled
  PROVE  ChainInv' /\ AnchorsGrow
<1>1. /\ anchors' = anchors /\ sent' = sent /\ delayed' = delayed
      /\ Owner \in DOMAIN pool' /\ mined' = mined
      /\ \A m \in DOMAIN Waiting' : m \in DOMAIN Waiting /\ Waiting'[m] = Waiting[m]
  BY EvictEffect DEF LosePooled, ChainInv
<1>2. /\ AnchorsSound' /\ MinedTookEffect' /\ Mined' = Mined /\ AnchorsGrow
      /\ \A id : IsMined(id)' <=> IsMined(id)
  BY <1>1, NothingMined
<1>3. CallsOnce'
  BY <1>1, <1>2 DEF ChainInv, CallsOnce
<1> QED
  BY <1>1, <1>2, <1>3 DEF ChainInv, ChainTypes

\* A step of a tool that makes no call leaves the chain alone.
LEMMA QuietStepKeepsChain ==
  ASSUME ChainInv, UNCHANGED <<nodeVars, anchors, sent, delayed>>
  PROVE  ChainInv' /\ AnchorsGrow /\ Waiting' = Waiting /\ Mined' = Mined
         /\ \A id : (IsMined(id)' <=> IsMined(id)) /\ (IsMinedOk(id)' <=> IsMinedOk(id))
<1>1. mined' = mined /\ pool' = pool /\ Waiting' = Waiting /\ Mined' = Mined
  BY DEF nodeVars, Waiting, Mined
<1>2. AnchorsSound' /\ MinedTookEffect' /\ AnchorsGrow
  BY <1>1, NothingMined
<1>3. \A id : (IsMined(id)' <=> IsMined(id)) /\ (IsMinedOk(id)' <=> IsMinedOk(id))
  BY <1>1 DEF IsMined, IsMinedOk
<1>4. CallsOnce'
  BY <1>1, <1>3 DEF ChainInv, CallsOnce
<1> QED
  BY <1>1, <1>2, <1>3, <1>4 DEF ChainInv, ChainTypes

------------------------------------------------------------------------------
\* The tools.

\* What the file names stays provisioned.
LEMMA FileKept ==
  ASSUME FileIsProvisioned, file' = file, AnchorsGrow
  PROVE  FileIsProvisioned'
BY DEF FileIsProvisioned, AnchorsGrow

\* A step of the chain leaves a tool where it is, and what the tool relies on.
LEMMA ChainKeepsTool ==
  ASSUME ToolInv, AnchorsGrow, UNCHANGED <<file, tool, pc, localVars, sent>>
  PROVE  ToolInv'
<1>1. UNCHANGED <<file, tool, pc, target, todo, waits, signers, point, initial, sent>>
  BY DEF localVars
<1>2. FileIsProvisioned'
  BY FileKept, <1>1 DEF ToolInv
<1>3. TargetIsThere'
  BY <1>1 DEF ToolInv, TargetIsThere, AnchorsGrow
<1>4. WaitsForHead' /\ SpreadCovers'
  BY <1>1 DEF ToolInv, WaitsForHead, SpreadCovers
<1> QED
  BY <1>1, <1>2, <1>3, <1>4 DEF ToolInv, ToolTypes, Places

\* An exception ends the tool, or takes the ablation to its last call.
LEMMA RaiseKeepsTool ==
  ASSUME ToolInv, Raise, anchors' = anchors, UNCHANGED <<file, target, todo, point, initial>>
  PROVE  ToolInv'
<1>1. \/ tool' = "none" /\ pc' = "idle"
      \/ tool = "ablation" /\ tool' = "ablation" /\ pc' = "restore"
  BY DEF Raise, Ended
<1>2. FileIsProvisioned'
  BY DEF ToolInv, FileIsProvisioned
<1>3. TargetIsThere'
  BY <1>1 DEF ToolInv, TargetIsThere
<1>4. WaitsForHead' /\ SpreadCovers' /\ Places'
  BY <1>1 DEF WaitsForHead, SpreadCovers, Places
<1> QED
  BY <1>2, <1>3, <1>4 DEF ToolInv, ToolTypes

\* Between two tools only the file matters.
LEMMA EndKeepsTool ==
  ASSUME ToolInv, Ended, ToolTypes', FileIsProvisioned'
  PROVE  ToolInv'
<1>1. TargetIsThere' /\ WaitsForHead' /\ SpreadCovers' /\ Places'
  BY DEF Ended, TargetIsThere, WaitsForHead, SpreadCovers, Places
<1> QED
  BY <1>1 DEF ToolInv

\* What is sent one after the other: a deployment, or a call to the anchor of the tool.
LEMMA HeadIsACall ==
  ASSUME ToolInv, tool # "none", pc \in {"send", "wait"}, todo # <<>>
  PROVE  /\ Head(todo) \in OwnerCall /\ Head(todo) = todo[1] /\ 1 \in DOMAIN todo
         /\ Head(todo).op # "deploy" => Head(todo).at \in DOMAIN anchors
<1>1. Head(todo) \in OwnerCall /\ Head(todo) = todo[1] /\ 1 \in DOMAIN todo
  BY DEF ToolInv, ToolTypes
<1>2. tool \in {"deploy", "zkroam", "ablation"}
  BY DEF ToolInv, Places, DriverPlaces
<1>3. Head(todo).op # "deploy" => Head(todo).at \in DOMAIN anchors
  BY <1>1, <1>2 DEF ToolInv, TargetIsThere
<1> QED
  BY <1>1, <1>3

\* A call is sent.
LEMMA SendKeepsTool ==
  ASSUME ChainInv, ToolInv, Send
  PROVE  ChainInv' /\ ToolInv'
<1>1. /\ pc = "send" /\ todo # <<>> /\ tool # "none"
      /\ UNCHANGED <<file, target, todo, signers, point, initial>>
  BY DEF Send, SendCall, ToolInv, Places
<1>2. /\ Head(todo) \in OwnerCall
      /\ Head(todo).op # "deploy" => Head(todo).at \in DOMAIN anchors
  BY <1>1, HeadIsACall
<1>3. CASE /\ Sends(Head(todo), NextNonce, TRUE) /\ waits' = {Len(sent) + 1} /\ pc' = "wait"
           /\ UNCHANGED tool
  <2>1. ChainInv' /\ anchors' = anchors
    BY <1>2, <1>3, SendsKeepsChain
  <2>2. sent' = Append(sent, Head(todo))
    BY <1>3 DEF Sends
  <2> DEFINE new == Len(sent) + 1
  <2>3. new \in DOMAIN sent' /\ sent'[new] = Head(todo)
    BY <1>2, <2>2, SentGrows DEF ChainInv
  <2>4. WaitsForHead'
    BY <1>1, <1>3, <2>3 DEF WaitsForHead
  <2>5. Places' /\ SpreadCovers'
    BY <1>1, <1>3 DEF ToolInv, Places, SpreadCovers, DriverPlaces
  <2>6. TargetIsThere'
    BY <1>1, <1>3, <2>1 DEF ToolInv, TargetIsThere
  <2>7. FileIsProvisioned'
    BY <1>1, <2>1 DEF ToolInv, FileIsProvisioned
  <2> QED
    BY <1>1, <2>1, <2>4, <2>5, <2>6, <2>7 DEF ToolInv, ToolTypes
<1>4. CASE Sends(Head(todo), NextNonce, FALSE) /\ Raise
  <2>1. ChainInv' /\ anchors' = anchors
    BY <1>2, <1>4, SendsKeepsChain
  <2> QED
    BY <1>1, <1>4, <2>1, RaiseKeepsTool
<1>5. CASE Raise /\ UNCHANGED <<nodeVars, anchors, sent, delayed>>
  BY <1>1, <1>5, RaiseKeepsTool, QuietStepKeepsChain
<1> QED
  BY <1>3, <1>4, <1>5 DEF Send, SendCall

\* The ablation's last call is sent.
LEMMA RestoreKeepsTool ==
  ASSUME ChainInv, ToolInv, Restore
  PROVE  ChainInv' /\ ToolInv'
<1>1. /\ pc = "restore" /\ tool = "ablation"
      /\ UNCHANGED <<file, target, todo, signers, point, initial>>
  BY DEF Restore, SendCall, ToolInv, Places, DriverPlaces
<1> DEFINE call == Call("set", initial)
<1>2. call \in OwnerCall /\ call.at \in DOMAIN anchors
  BY <1>1 DEF Call, OwnerCall, ToolInv, ToolTypes, TargetIsThere
<1>3. CASE Sends(call, NextNonce, TRUE) /\ pc' = "restoring" /\ UNCHANGED tool
  <2>1. ChainInv' /\ anchors' = anchors
    BY <1>2, <1>3, SendsKeepsChain
  <2>4. WaitsForHead' /\ SpreadCovers' /\ Places'
    BY <1>1, <1>3 DEF WaitsForHead, SpreadCovers, Places
  <2>6. TargetIsThere'
    BY <1>1, <1>3, <2>1 DEF ToolInv, TargetIsThere
  <2>7. FileIsProvisioned'
    BY <1>1, <2>1 DEF ToolInv, FileIsProvisioned
  <2> QED
    BY <1>1, <2>1, <2>4, <2>6, <2>7 DEF ToolInv, ToolTypes
<1>4. CASE Sends(call, NextNonce, FALSE) /\ Raise
  <2>1. ChainInv' /\ anchors' = anchors
    BY <1>2, <1>4, SendsKeepsChain
  <2> QED
    BY <1>1, <1>4, <2>1, RaiseKeepsTool
<1>5. CASE Raise /\ UNCHANGED <<nodeVars, anchors, sent, delayed>>
  BY <1>1, <1>5, RaiseKeepsTool, QuietStepKeepsChain
<1> QED
  BY <1>3, <1>4, <1>5 DEF Restore, SendCall

\* A receipt that says so means that the call was mined and succeeded.
LEMMA ReceiptMeansMined ==
  ASSUME NEW id, ReceiptOf(id) = {TRUE}
  PROVE  IsMinedOk(id)
<1>1. PICK r \in Receipts(Owner, id) : r.ok = TRUE
  BY DEF ReceiptOf
<1> QED
  BY <1>1 DEF Receipts, IsMinedOk, Mined

\* A receipt is there exactly for what was mined.
LEMMA ReceiptMeansThere ==
  ASSUME NEW id
  PROVE  ReceiptOf(id) # {} <=> IsMined(id)
BY DEF ReceiptOf, Receipts, IsMined, Mined

\* The receipt is there: on to the next call, at the address of what was deployed.
LEMMA AwaitKeepsTool ==
  ASSUME ChainInv, ToolInv, Await
  PROVE  ToolInv'
<1>1. /\ pc = "wait" /\ anchors' = anchors /\ sent' = sent
      /\ UNCHANGED <<file, signers, point, initial>>
  BY DEF Await
<1>2. tool \in {"deploy", "zkroam", "ablation"} /\ todo # <<>> /\ todo \in Seq(OwnerCall)
  BY <1>1 DEF ToolInv, ToolTypes, Places, WaitsForHead, DriverPlaces
<1>3. PICK w \in DOMAIN sent : waits = {w} /\ sent[w] = Head(todo)
  BY <1>1 DEF ToolInv, WaitsForHead
<1>4. CASE /\ \A id \in waits : ReceiptOf(id) = {TRUE}
           /\ pc' = "send" /\ todo' = Tail(todo)
           /\ target' = IF Head(todo).op = "deploy" THEN Max(waits) ELSE target
           /\ UNCHANGED tool
  <2>1. IsMinedOk(w)
    BY <1>3, <1>4, ReceiptMeansMined
  <2>2. w \in Nat
    BY DEF ChainInv, ChainTypes
  <2>3. Max({w}) = w
    BY <2>2 DEF Max
  <2>4. Head(todo) = todo[1] /\ 1 \in DOMAIN todo /\ Tail(todo) \in Seq(OwnerCall)
    BY <1>2
  <2>5. \A i \in DOMAIN Tail(todo) : \E j \in DOMAIN todo : Tail(todo)[i] = todo[j] /\ j = i + 1 /\ i \in Nat /\ i >= 1
    BY <1>2
  <2>6. FileIsProvisioned' /\ WaitsForHead' /\ SpreadCovers' /\ Places'
    BY <1>1, <1>2, <1>4 DEF ToolInv, FileIsProvisioned, WaitsForHead, SpreadCovers, Places
  <2>7. CASE tool = "deploy"
    <3>1. todo[1].op = "deploy" /\ \A i \in DOMAIN todo : i = 1
      BY <1>1, <1>2, <2>4, <2>7 DEF ToolInv, TargetIsThere
    <3>2. Tail(todo) = <<>>
      <4>1. DOMAIN Tail(todo) = {}
        BY <2>5, <3>1
      <4> QED
        BY <2>4, <4>1
    <3>3. target' = w /\ w \in DOMAIN anchors
      BY <1>3, <1>4, <2>1, <2>3, <2>4, <3>1 DEF ChainInv, MinedTookEffect
    <3>4. TargetIsThere'
      BY <1>1, <1>4, <2>7, <3>2, <3>3 DEF TargetIsThere
    <3> QED
      BY <1>1, <1>4, <2>2, <2>4, <2>6, <3>3, <3>4 DEF ToolInv, ToolTypes
  <2>8. CASE tool \in {"zkroam", "ablation"}
    <3>1. target \in DOMAIN anchors /\ \A i \in DOMAIN todo : todo[i].op \in {"add", "set"} /\ todo[i].at = target
      BY <2>8 DEF ToolInv, TargetIsThere
    <3>2. target' = target
      BY <1>4, <2>4, <3>1
    <3>3. TargetIsThere'
      BY <1>1, <1>4, <2>5, <2>8, <3>1, <3>2 DEF ToolInv, TargetIsThere
    <3> QED
      BY <1>1, <1>4, <2>4, <2>6, <3>2, <3>3 DEF ToolInv, ToolTypes
  <2> QED
    BY <1>2, <2>7, <2>8
<1>5. CASE Raise /\ UNCHANGED <<target, todo>>
  BY <1>1, <1>5, RaiseKeepsTool
<1> QED
  BY <1>4, <1>5 DEF Await

\* A point of the ablation has a threshold that can be asked for.
LEMMA PointIsANumber ==
  ASSUME ToolInv, tool = "ablation"
  PROVE  T \in 1 .. 50 /\ point \in 1 .. Len(TValues) /\ Len(TValues) \in Nat
<1>1. TValues \in Seq(1 .. 50)
  BY TValuesAssumption DEF ValidTValues
<1>2. point \in DOMAIN TValues
  BY DEF ToolInv, TargetIsThere
<1> QED
  BY <1>1, <1>2 DEF T

\* The ablation plans its next call.
LEMMA ConfigureKeepsTool ==
  ASSUME ToolInv, Configure
  PROVE  /\ ToolInv'
         /\ \/ /\ (0 .. T - 1) \subseteq Anchor.verifiers
               /\ todo' = <<Call("set", T)>>
            \/ \E a \in 0 .. T - 1 : todo' = <<Call("add", a)>>
<1> DEFINE lacking == (0 .. T - 1) \ Anchor.verifiers
<1>1. /\ tool = "ablation" /\ pc = "send" /\ anchors' = anchors /\ sent' = sent
      /\ todo' = IF lacking # {} THEN <<Call("add", Min(lacking))>> ELSE <<Call("set", T)>>
      /\ UNCHANGED <<file, tool, pc, target, waits, signers, point, initial>>
  BY DEF Configure
<1>2. T \in 1 .. 50
  BY <1>1, PointIsANumber
<1>3. target \in Nat /\ target \in DOMAIN anchors
  BY <1>1 DEF ToolInv, ToolTypes, TargetIsThere
<1>4. lacking # {} => Min(lacking) \in 0 .. T - 1
  <2>1. SUFFICES ASSUME lacking # {} PROVE Min(lacking) \in lacking
    OBVIOUS
  <2>2. lacking \subseteq Nat
    OBVIOUS
  <2> HIDE DEF lacking
  <2>3. \E n \in lacking : \A m \in lacking : n <= m
    BY <2>1, <2>2, NatLeast
  <2> QED
    BY <2>3 DEF Min
<1>5. \/ (0 .. T - 1) \subseteq Anchor.verifiers /\ todo' = <<Call("set", T)>>
      \/ \E a \in 0 .. T - 1 : todo' = <<Call("add", a)>>
  BY <1>1, <1>4
<1>6. ASSUME NEW op \in {"add", "set"}, NEW a \in 0 .. 50, todo' = <<Call(op, a)>>
      PROVE  todo' \in Seq(OwnerCall) /\ \A i \in DOMAIN todo' : todo'[i].op \in {"add", "set"} /\ todo'[i].at = target
  BY <1>3, <1>6 DEF Call, OwnerCall
<1>7. todo' \in Seq(OwnerCall) /\ \A i \in DOMAIN todo' : todo'[i].op \in {"add", "set"} /\ todo'[i].at = target
  <2>1. \A a \in 0 .. T - 1 : a \in 0 .. 50
    BY <1>2
  <2>2. T \in 0 .. 50
    BY <1>2
  <2> QED
    BY <1>5, <1>6, <2>1, <2>2
<1>8. TargetIsThere'
  BY <1>1, <1>3, <1>7 DEF ToolInv, TargetIsThere
<1>9. FileIsProvisioned' /\ WaitsForHead' /\ SpreadCovers' /\ Places'
  BY <1>1 DEF ToolInv, FileIsProvisioned, WaitsForHead, SpreadCovers, Places
<1> QED
  BY <1>1, <1>5, <1>7, <1>8, <1>9 DEF ToolInv, ToolTypes

\* The ablation measures, relays, and goes to its next point or to its last call.
LEMMA AblationStepKeepsTool ==
  ASSUME ToolInv, Measure \/ Relay \/ NextPoint
  PROVE  ToolInv'
<1>0. tool = "ablation"
  <2>1. tool = "ablation" \/ pc = "relay"
    <3>1. CASE Measure
      BY <3>1 DEF Measure
    <3>2. CASE Relay
      BY <3>2 DEF Relay
    <3>3. CASE NextPoint
      BY <3>3 DEF NextPoint
    <3> QED
      BY <3>1, <3>2, <3>3
  <2> QED
    BY <2>1 DEF ToolInv, Places, DriverPlaces
<1>1. anchors' = anchors /\ sent' = sent /\ UNCHANGED <<file, target, todo, initial>>
  <2>1. CASE Measure
    BY <2>1 DEF Measure
  <2>2. CASE Relay
    BY <2>2 DEF Relay
  <2>3. CASE NextPoint
    BY <2>3 DEF NextPoint
  <2> QED
    BY <2>1, <2>2, <2>3
<1>2. ASSUME Raise, point' = point PROVE ToolInv'
  BY <1>1, <1>2, RaiseKeepsTool
<1>3. CASE tool' = "ablation" /\ pc' \in {"send", "relay", "restore"} /\ point' \in DOMAIN TValues
  <2>1. TargetIsThere' /\ Places'
    BY <1>0, <1>1, <1>3 DEF ToolInv, TargetIsThere, Places
  <2>2. FileIsProvisioned' /\ WaitsForHead' /\ SpreadCovers'
    BY <1>1, <1>3 DEF ToolInv, FileIsProvisioned, WaitsForHead, SpreadCovers
  <2> QED
    BY <1>1, <2>1, <2>2 DEF ToolInv, ToolTypes
<1>4. point \in 1 .. Len(TValues) /\ Len(TValues) \in Nat
  BY <1>0, PointIsANumber
<1>5. DOMAIN TValues = 1 .. Len(TValues)
  BY TValuesAssumption DEF ValidTValues
<1>6. CASE Measure
  <2>1. point' = point /\ (Raise \/ (pc' = "relay" /\ tool' = tool))
    BY <1>6 DEF Measure
  <2> QED
    BY <1>0, <1>2, <1>3, <1>4, <1>5, <2>1
<1>7. CASE Relay
  <2>1. point' = point /\ (Raise \/ (pc' = "relay" /\ tool' = tool))
    BY <1>7 DEF Relay
  <2> QED
    BY <1>0, <1>2, <1>3, <1>4, <1>5, <2>1
<1>8. CASE NextPoint
  <2>1. tool' = tool /\ pc' \in {"send", "restore"}
    BY <1>8 DEF NextPoint
  <2>2. point' = point \/ (point # Len(TValues) /\ point' = point + 1)
    BY <1>8 DEF NextPoint
  <2>3. point' \in 1 .. Len(TValues)
    <3>1. CASE point' = point
      BY <1>4, <3>1
    <3>2. CASE point # Len(TValues) /\ point' = point + 1
      BY <1>4, <3>2
    <3> QED
      BY <2>2, <3>1, <3>2
  <2> QED
    BY <1>0, <1>3, <1>5, <2>1, <2>3
<1> QED
  BY <1>6, <1>7, <1>8

\* A tool begins, on the anchor of the file if it needs one.
LEMMA StartKeepsTool ==
  ASSUME ChainInv, ToolInv, StartDeploy \/ StartZkroam \/ StartAblation \/ StartPlain
  PROVE  ToolInv'
<1>1. anchors' = anchors /\ sent' = sent /\ file' = file /\ waits' = {}
  BY DEF StartDeploy, StartZkroam, StartAblation, StartPlain, Start
<1>2. FileIsProvisioned'
  BY <1>1 DEF ToolInv, FileIsProvisioned
<1>3. file \in Nat /\ (file # 0 => file \in DOMAIN anchors)
  BY DEF ToolInv, ToolTypes, FileIsProvisioned
<1>4. CASE StartDeploy
  <2>1. /\ tool' = "deploy" /\ pc' = "send" /\ target' = 0 /\ initial' = initial
        /\ todo' = <<[op |-> "deploy", at |-> 0, arg |-> 0]>>
    BY <1>4 DEF StartDeploy, Start
  <2>2. [op |-> "deploy", at |-> 0, arg |-> 0] \in OwnerCall
    BY DEF OwnerCall
  <2>3. todo' \in Seq(OwnerCall) /\ \A i \in DOMAIN todo' : i = 1 /\ todo'[i].op = "deploy"
    BY <2>1, <2>2
  <2>4. todo' # <<>>
    BY <2>1
  <2>5. TargetIsThere' /\ Places' /\ WaitsForHead' /\ SpreadCovers'
    BY <2>1, <2>3, <2>4 DEF TargetIsThere, Places, WaitsForHead, SpreadCovers
  <2> QED
    BY <1>1, <1>2, <2>1, <2>3, <2>5 DEF ToolInv, ToolTypes
<1>5. CASE StartZkroam
  <2>1. /\ tool' = "zkroam" /\ pc' = "send" /\ target' = file /\ initial' = initial /\ file # 0
        /\ \E t \in Thresholds :
             LET adds == Ascending(missing(file))
                 set == IF t # 0 /\ anchors[file].threshold # t THEN <<t>> ELSE <<>>
             IN  todo' = [i \in DOMAIN adds |-> [op |-> "add", at |-> file, arg |-> adds[i]]] \o
                         [i \in DOMAIN set |-> [op |-> "set", at |-> file, arg |-> set[i]]]
    BY <1>5 DEF StartZkroam, Start
  <2>2. PICK t \in Thresholds :
             LET adds == Ascending(missing(file))
                 set == IF t # 0 /\ anchors[file].threshold # t THEN <<t>> ELSE <<>>
             IN  todo' = [i \in DOMAIN adds |-> [op |-> "add", at |-> file, arg |-> adds[i]]] \o
                         [i \in DOMAIN set |-> [op |-> "set", at |-> file, arg |-> set[i]]]
    BY <2>1
  <2> DEFINE adds == Ascending(missing(file))
             set == IF t # 0 /\ anchors[file].threshold # t THEN <<t>> ELSE <<>>
             first == [i \in DOMAIN adds |-> [op |-> "add", at |-> file, arg |-> adds[i]]]
             second == [i \in DOMAIN set |-> [op |-> "set", at |-> file, arg |-> set[i]]]
             OnFile == {c \in OwnerCall : c.op \in {"add", "set"} /\ c.at = file}
  <2>3. missing(file) \subseteq Nat /\ IsFiniteSet(missing(file))
    <3>1. Attesters \subseteq Nat /\ IsFiniteSet(Attesters)
      BY ZkroamConfigAssumption DEF ValidZkroamConfig
    <3>2. missing(file) \in SUBSET Attesters
      BY DEF missing
    <3> QED
      BY <3>1, <3>2, FS_Subset
  <2>4. adds \in Seq(Nat)
    <3>1. adds \in Seq(missing(file))
      BY <2>3, AscendingLists
    <3> HIDE DEF adds
    <3> QED
      BY <2>3, <3>1
  <2>5. t \in Nat
    <3>1. Cardinality(Attesters) \in Nat
      BY ZkroamConfigAssumption DEF ValidZkroamConfig
    <3> QED
      BY <3>1, ZkroamConfigAssumption DEF ValidZkroamConfig
  <2>6. set \in Seq(Nat)
    BY <2>5
  <2> HIDE DEF adds, set
  <2>7. \A n \in Nat, op \in {"add", "set"} : [op |-> op, at |-> file, arg |-> n] \in OnFile
    BY <1>3 DEF OwnerCall
  <2> HIDE DEF OnFile
  <2>8. first \in Seq(OnFile)
    <3>1. DOMAIN adds = 1 .. Len(adds) /\ Len(adds) \in Nat /\ \A i \in DOMAIN adds : adds[i] \in Nat
      BY <2>4
    <3>2. first \in [1 .. Len(adds) -> OnFile]
      BY <2>7, <3>1
    <3> HIDE DEF first
    <3> QED
      BY <3>1, <3>2
  <2>9. second \in Seq(OnFile)
    <3>1. DOMAIN set = 1 .. Len(set) /\ Len(set) \in Nat /\ \A i \in DOMAIN set : set[i] \in Nat
      BY <2>6
    <3>2. second \in [1 .. Len(set) -> OnFile]
      BY <2>7, <3>1
    <3> HIDE DEF second
    <3> QED
      BY <3>1, <3>2
  <2>10. todo' = first \o second
    BY <2>2 DEF adds, set
  <2> HIDE DEF first, second
  <2>11. todo' \in Seq(OnFile)
    BY <2>8, <2>9, <2>10, ConcatProperties
  <2>12. todo' \in Seq(OwnerCall) /\ \A i \in DOMAIN todo' : todo'[i].op \in {"add", "set"} /\ todo'[i].at = file
    BY <2>11 DEF OnFile
  <2>13. TargetIsThere' /\ Places' /\ WaitsForHead' /\ SpreadCovers'
    BY <1>1, <1>3, <2>1, <2>12 DEF TargetIsThere, Places, WaitsForHead, SpreadCovers
  <2> QED
    BY <1>1, <1>2, <1>3, <2>1, <2>12, <2>13 DEF ToolInv, ToolTypes
<1>6. CASE StartAblation
  <2>1. /\ tool' = "ablation" /\ pc' = "send" /\ target' = file /\ file # 0 /\ todo' = <<>>
        /\ initial' = anchors[file].threshold /\ point' = 1
    BY <1>6 DEF StartAblation, Start
  <2>2. initial' \in Nat
    BY <1>3, <2>1 DEF ChainInv, AnchorsSound
  <2>3. 1 \in DOMAIN TValues
    BY TValuesAssumption DEF ValidTValues
  <2>4. TargetIsThere' /\ Places' /\ WaitsForHead' /\ SpreadCovers'
    BY <1>1, <1>3, <2>1, <2>3 DEF TargetIsThere, Places, WaitsForHead, SpreadCovers
  <2>5. todo' \in Seq(OwnerCall)
    BY <2>1
  <2> QED
    BY <1>1, <1>2, <1>3, <2>1, <2>2, <2>4, <2>5 DEF ToolInv, ToolTypes
<1>7. CASE StartPlain
  <2>1. tool' = "plain" /\ pc' = "ready" /\ target' = 0 /\ initial' = initial /\ todo' = <<>>
    BY <1>7 DEF StartPlain, Start
  <2>2. TargetIsThere' /\ Places' /\ WaitsForHead' /\ SpreadCovers'
    BY <2>1 DEF TargetIsThere, Places, DriverPlaces, WaitsForHead, SpreadCovers
  <2>3. todo' \in Seq(OwnerCall)
    BY <2>1
  <2> QED
    BY <1>1, <1>2, <2>1, <2>2, <2>3 DEF ToolInv, ToolTypes
<1> QED
  BY <1>4, <1>5, <1>6, <1>7

\* The pool's authorisations are planned.
LEMMA PlanAddsKeepsTool ==
  ASSUME ToolInv, PlanAdds
  PROVE  ToolInv'
<1>1. /\ tool = "deploy" /\ tool' = "deploy" /\ pc = "send" /\ pc' = "spread" /\ todo = <<>>
      /\ anchors' = anchors /\ signers' = 1 .. PoolSize - 1
      /\ UNCHANGED <<file, target, todo, initial>>
  BY DEF PlanAdds
<1>2. FileIsProvisioned' /\ TargetIsThere' /\ WaitsForHead' /\ Places'
  BY <1>1 DEF ToolInv, FileIsProvisioned, TargetIsThere, WaitsForHead, Places
<1>3. SpreadCovers'
  BY <1>1 DEF SpreadCovers
<1> QED
  BY <1>1, <1>2, <1>3 DEF ToolInv, ToolTypes

\* One of them is sent, or refused and remembered.
LEMMA SpreadAddKeepsTool ==
  ASSUME ChainInv, ToolInv, SpreadAdd
  PROVE  ChainInv' /\ ToolInv'
<1>1. /\ pc = "spread" /\ tool = "deploy" /\ tool' = tool /\ target \in DOMAIN anchors
      /\ UNCHANGED <<file, target, initial>> /\ pc' = pc
  BY DEF SpreadAdd, ToolInv, Places, DriverPlaces, TargetIsThere
<1>2. PICK v \in signers :
       /\ signers' = signers \ {v}
       /\ \/ Sends(Call("add", v), base + v - 1, TRUE) /\ waits' = waits \cup {Len(sent) + 1}
             /\ UNCHANGED <<todo, pc>>
          \/ Sends(Call("add", v), base + v - 1, FALSE) /\ todo' = Append(todo, Call("add", v))
             /\ UNCHANGED <<waits, pc>>
  BY DEF SpreadAdd
<1> DEFINE call == Call("add", v)
           new == Len(sent) + 1
<1>3. signers \subseteq 1 .. PoolSize - 1
  BY <1>1 DEF ToolInv, SpreadCovers
<1>4. v \in Nat
  BY <1>3, PoolSizeAssumption
<1>5. /\ call \in OwnerCall /\ call.op # "deploy" /\ call.at \in DOMAIN anchors
      /\ call = [op |-> "add", at |-> target, arg |-> v]
  BY <1>1, <1>4 DEF Call, OwnerCall, ToolInv, ToolTypes
<1> HIDE DEF call
<1>6. ChainInv' /\ anchors' = anchors
  BY <1>2, <1>5, SendsKeepsChain DEF call
<1>7. sent' = Append(sent, call)
  BY <1>2 DEF Sends, call
<1>8. /\ DOMAIN sent' = DOMAIN sent \cup {new} /\ sent'[new] = call
      /\ \A i \in DOMAIN sent : sent'[i] = sent[i]
  BY <1>5, <1>7, SentGrows DEF ChainInv
<1> HIDE DEF new
<1>9. FileIsProvisioned' /\ TargetIsThere' /\ WaitsForHead' /\ Places'
  BY <1>1, <1>6 DEF ToolInv, FileIsProvisioned, TargetIsThere, WaitsForHead, Places
<1>10. todo' \in Seq(OwnerCall)
  <2>1. todo \in Seq(OwnerCall)
    BY DEF ToolInv, ToolTypes
  <2>2. Append(todo, call) \in Seq(OwnerCall)
    BY <1>5, <2>1, AppendProperties
  <2> QED
    BY <1>2, <2>1, <2>2 DEF call
<1>11. CASE todo' = Append(todo, call) /\ waits' = waits
  <2>1. todo' # <<>>
    BY <1>11, <1>5 DEF ToolInv, ToolTypes
  <2> QED
    BY <1>1, <1>2, <1>3, <1>6, <1>9, <1>10, <2>1 DEF ToolInv, ToolTypes, SpreadCovers
<1>12. CASE todo' = todo /\ waits' = waits \cup {new}
  <2>1. ASSUME todo = <<>>, NEW x \in 1 .. PoolSize - 1
        PROVE  x \in signers' \/ \E id \in waits' \cap DOMAIN sent' :
                                  sent'[id] = [op |-> "add", at |-> target, arg |-> x]
    <3>1. \/ x \in signers
          \/ \E id \in waits \cap DOMAIN sent : sent[id] = [op |-> "add", at |-> target, arg |-> x]
      BY <1>1, <2>1 DEF ToolInv, SpreadCovers
    <3>2. CASE x \in signers
      BY <1>2, <1>5, <1>8, <1>12, <3>2
    <3>3. CASE \E id \in waits \cap DOMAIN sent : sent[id] = [op |-> "add", at |-> target, arg |-> x]
      BY <1>8, <1>12, <3>3
    <3> QED
      BY <3>1, <3>2, <3>3
  <2>2. SpreadCovers'
    BY <1>1, <1>2, <1>3, <1>12, <2>1 DEF SpreadCovers
  <2> QED
    BY <1>1, <1>6, <1>9, <1>10, <2>2 DEF ToolInv, ToolTypes
<1> QED
  BY <1>2, <1>11, <1>12 DEF call, new

\* The file is written when every call of the pool was mined and succeeded: then the whole
\* pool is authorised, the owner from the constructor on.
LEMMA FinishDeployKeepsTool ==
  ASSUME ChainInv, ToolInv, FinishDeploy
  PROVE  ToolInv'
<1>1. /\ pc = "spread" /\ tool = "deploy" /\ Ended /\ anchors' = anchors
      /\ UNCHANGED <<todo, target, initial>> /\ target \in DOMAIN anchors
  BY DEF FinishDeploy, localVars, ToolInv, Places, DriverPlaces, TargetIsThere
<1>2. FileIsProvisioned'
  <2>1. CASE file' = file
    BY <1>1, <2>1 DEF ToolInv, FileIsProvisioned
  <2>2. CASE todo = <<>> /\ (\A id \in waits : ReceiptOf(id) = {TRUE}) /\ file' = target
    <3>1. signers = {}
      BY <2>2 DEF FinishDeploy
    <3>2. ASSUME NEW v \in 1 .. PoolSize - 1 PROVE v \in anchors[target].verifiers
      <4>1. PICK id \in waits \cap DOMAIN sent : sent[id] = [op |-> "add", at |-> target, arg |-> v]
        BY <1>1, <2>2, <3>1 DEF ToolInv, SpreadCovers
      <4>2. IsMinedOk(id)
        BY <2>2, <4>1, ReceiptMeansMined
      <4>3. IsMinedOk(id) /\ sent[id].op = "add" => sent[id].arg \in anchors[sent[id].at].verifiers
        BY <4>1 DEF ChainInv, MinedTookEffect
      <4> QED
        BY <4>1, <4>2, <4>3
    <3>3. 0 \in anchors[target].verifiers
      BY <1>1 DEF ChainInv, AnchorsSound
    <3>4. \A v \in 0 .. PoolSize - 1 : v = 0 \/ v \in 1 .. PoolSize - 1
      BY PoolSizeAssumption
    <3>5. 0 .. PoolSize - 1 \subseteq anchors[target].verifiers
      BY <3>2, <3>3, <3>4
    <3> QED
      BY <1>1, <2>2, <3>5 DEF FileIsProvisioned
  <2> QED
    BY <2>1, <2>2 DEF FinishDeploy
<1>3. file' \in Nat
  BY DEF FinishDeploy, ToolInv, ToolTypes
<1> QED
  BY <1>1, <1>2, <1>3, EndKeepsTool DEF ToolInv, ToolTypes

\* The committee is ready, or too small.
LEMMA FinishEnsureKeepsTool ==
  ASSUME ToolInv, FinishEnsure
  PROVE  ToolInv'
<1>1. /\ tool = "zkroam" /\ anchors' = anchors /\ sent' = sent
      /\ UNCHANGED <<file, target, todo, initial, point>>
      /\ Ended \/ (pc' = "ready" /\ tool' = tool)
  BY DEF FinishEnsure
<1>2. FileIsProvisioned' /\ ToolTypes'
  BY <1>1 DEF ToolInv, FileIsProvisioned, ToolTypes
<1>3. CASE Ended
  BY <1>2, <1>3, EndKeepsTool
<1>4. CASE pc' = "ready" /\ tool' = tool
  <2>1. TargetIsThere' /\ Places' /\ WaitsForHead' /\ SpreadCovers'
    BY <1>1, <1>4 DEF ToolInv, TargetIsThere, Places, DriverPlaces, WaitsForHead, SpreadCovers
  <2> QED
    BY <1>2, <2>1 DEF ToolInv
<1> QED
  BY <1>1, <1>3, <1>4

\* The ablation ends.
LEMMA FinishRestoreKeepsTool ==
  ASSUME ToolInv, FinishRestore
  PROVE  ToolInv'
<1>1. Ended /\ FileIsProvisioned' /\ ToolTypes'
  BY DEF FinishRestore, ToolInv, FileIsProvisioned, ToolTypes
<1> QED
  BY <1>1, EndKeepsTool

\* What the tools do to the chain is sound, and what the chain does to the tools.
LEMMA ProvisioningKeeps ==
  ASSUME ChainInv, ToolInv, ProvNext \/ StartPlain
  PROVE  ChainInv' /\ ToolInv'
<1>1. CASE Chain
  <2>1. ChainInv' /\ AnchorsGrow
    BY <1>1, MineCallKeepsChain, ArriveLateKeepsChain, LosePooledKeepsChain DEF Chain
  <2>2. UNCHANGED <<file, tool, pc, localVars, sent>>
    BY <1>1 DEF Chain, MineCall, ArriveLate, LosePooled
  <2> QED
    BY <2>1, <2>2, ChainKeepsTool
<1>2. CASE Send
  BY <1>2, SendKeepsTool
<1>3. CASE Restore
  BY <1>3, RestoreKeepsTool
<1>4. CASE SpreadAdd
  BY <1>4, SpreadAddKeepsTool
<1>5. CASE StartDeploy \/ StartZkroam \/ StartAblation \/ StartPlain
  <2>1. UNCHANGED <<nodeVars, anchors, sent, delayed>>
    BY <1>5 DEF StartDeploy, StartZkroam, StartAblation, StartPlain, Start
  <2> QED
    BY <1>5, <2>1, StartKeepsTool, QuietStepKeepsChain
<1>6. CASE PlanAdds
  BY <1>6, PlanAddsKeepsTool, QuietStepKeepsChain DEF PlanAdds
<1>7. CASE FinishDeploy
  BY <1>7, FinishDeployKeepsTool, QuietStepKeepsChain DEF FinishDeploy
<1>8. CASE FinishEnsure
  BY <1>8, FinishEnsureKeepsTool, QuietStepKeepsChain DEF FinishEnsure
<1>9. CASE Configure
  BY <1>9, ConfigureKeepsTool, QuietStepKeepsChain DEF Configure
<1>10. CASE Measure
  BY <1>10, AblationStepKeepsTool, QuietStepKeepsChain DEF Measure
<1>11. CASE Relay
  BY <1>11, AblationStepKeepsTool, QuietStepKeepsChain DEF Relay
<1>12. CASE NextPoint
  BY <1>12, AblationStepKeepsTool, QuietStepKeepsChain DEF NextPoint
<1>13. CASE FinishRestore
  BY <1>13, FinishRestoreKeepsTool, QuietStepKeepsChain DEF FinishRestore
<1>14. CASE Await
  BY <1>14, AwaitKeepsTool, QuietStepKeepsChain DEF Await
<1> QED
  BY <1>1, <1>2, <1>3, <1>4, <1>5, <1>6, <1>7, <1>8, <1>9, <1>10, <1>11, <1>12, <1>13, <1>14
     DEF ProvNext, Tools

\* The provisioning is never in the middle of a mode.
LEMMA ProvisioningPlaces ==
  ASSUME ToolInv, ProvNext \/ StartPlain
  PROVE  pc' = pc \/ pc' \in {"idle", "send", "wait", "spread", "ready", "relay", "restore", "restoring"}
<1>1. CASE Chain
  BY <1>1 DEF Chain
<1>2. CASE Send
  BY <1>2 DEF Send, SendCall, Raise, Ended
<1>3. CASE Restore
  BY <1>3 DEF Restore, SendCall, Raise, Ended
<1>4. CASE SpreadAdd
  BY <1>4 DEF SpreadAdd
<1>5. CASE StartDeploy \/ StartZkroam \/ StartAblation \/ StartPlain
  BY <1>5 DEF StartDeploy, StartZkroam, StartAblation, StartPlain
<1>6. CASE PlanAdds
  BY <1>6 DEF PlanAdds
<1>7. CASE FinishDeploy
  BY <1>7 DEF FinishDeploy, Ended
<1>8. CASE FinishEnsure
  BY <1>8 DEF FinishEnsure, Ended
<1>9. CASE Configure
  BY <1>9 DEF Configure
<1>10. CASE Measure
  BY <1>10 DEF Measure, Raise, Ended
<1>11. CASE Relay
  BY <1>11 DEF Relay, Raise, Ended
<1>12. CASE NextPoint
  BY <1>12 DEF NextPoint
<1>13. CASE FinishRestore
  BY <1>13 DEF FinishRestore, Ended
<1>14. CASE Await
  BY <1>14 DEF Await, Raise, Ended
<1> QED
  BY <1>1, <1>2, <1>3, <1>4, <1>5, <1>6, <1>7, <1>8, <1>9, <1>10, <1>11, <1>12, <1>13, <1>14
     DEF ProvNext, Tools

\* The driver goes from place to place, or ends.
LEMMA DriverPlacesKept ==
  ASSUME ToolInv, LegPlaces, Driver
  PROVE  /\ pc \in DriverPlaces
         /\ Ended \/ (tool' = tool /\ pc' \in DriverPlaces)
         /\ LegPlaces'
<1>1. CASE BeginMode
  BY <1>1 DEF BeginMode, Goto, Leave, Ended, DriverPlaces, LegPlaces
<1>2. CASE BeginLeg
  BY <1>2 DEF BeginLeg, Goto, Leave, Ended, DriverPlaces, LegPlaces
<1>3. CASE GiveUpCall
  BY <1>3 DEF GiveUpCall, DriverPlaces, LegPlaces
<1>4. CASE EndLeg
  <2>1. leg \in 1 .. 3
    BY <1>4 DEF EndLeg, LegPlaces
  <2>2. /\ LegNames[leg] = "start" => leg = 1
        /\ LegNames[leg] = "commit" => leg = 2
        /\ LegNames[leg] = "anchor" => leg = 2
        /\ LegNames[leg] \in {"start", "commit", "anchor", "settle"}
    BY <2>1 DEF LegNames, LegNamesOf
  <2>3. CASE LegNames[leg] = "start" /\ ~AllConfirmed
    BY <1>4, <2>3 DEF EndLeg, Leave, Ended, DriverPlaces, LegPlaces
  <2>4. CASE ~(LegNames[leg] = "start" /\ ~AllConfirmed)
    <3>1. /\ pc = "leg" /\ tool' = tool /\ leg' = leg
          /\ pc' = CASE LegNames[leg] = "start" -> "read"
                      [] LegNames[leg] = "anchor" -> "negative"
                      [] LegNames[leg] = "commit" -> "plan"
                      [] LegNames[leg] = "settle" -> "row"
      BY <1>4, <2>4 DEF EndLeg, Goto
    <3>2. \/ LegNames[leg] = "start" /\ pc' = "read"
          \/ LegNames[leg] = "anchor" /\ pc' = "negative"
          \/ LegNames[leg] = "commit" /\ pc' = "plan"
          \/ LegNames[leg] = "settle" /\ pc' = "row"
      BY <2>2, <3>1
    <3> QED
      BY <2>2, <3>1, <3>2 DEF DriverPlaces, LegPlaces
  <2> QED
    BY <2>3, <2>4
<1>5. CASE ReadSessions
  BY <1>5 DEF ReadSessions, Goto, Leave, Ended, DriverPlaces, LegPlaces
<1>6. CASE NegativeTest
  BY <1>6 DEF NegativeTest, Goto, DriverPlaces, LegPlaces
<1>7. CASE EndMode
  BY <1>7 DEF EndMode, Goto, DriverPlaces, LegPlaces
<1>8. CASE EndPoint
  BY <1>8 DEF EndPoint, Goto, Leave, Ended, DriverPlaces, LegPlaces
<1> QED
  BY <1>1, <1>2, <1>3, <1>4, <1>5, <1>6, <1>7, <1>8 DEF Driver

\* The driver makes no call of the owner.
LEMMA DriverKeeps ==
  ASSUME ProvInv, Driver
  PROVE  ProvInv'
<1>1. /\ UNCHANGED <<nodeVars, anchors, sent, delayed>>
      /\ UNCHANGED <<file, target, todo, initial, point>>
  BY DEF Driver, localVars
<1>2. ChainInv'
  BY <1>1, QuietStepKeepsChain DEF ProvInv
<1>3. /\ pc \in DriverPlaces
      /\ Ended \/ (tool' = tool /\ pc' \in DriverPlaces)
      /\ LegPlaces'
  BY DriverPlacesKept DEF ProvInv
<1>4. FileIsProvisioned' /\ ToolTypes'
  BY <1>1 DEF ProvInv, ToolInv, FileIsProvisioned, ToolTypes
<1>5. CASE Ended
  BY <1>2, <1>3, <1>4, <1>5, EndKeepsTool DEF ProvInv
<1>6. CASE tool' = tool /\ pc' \in DriverPlaces
  <2>1. tool \in {"zkroam", "plain"}
    BY <1>3 DEF ProvInv, ToolInv, Places, DriverPlaces
  <2>2. TargetIsThere' /\ Places' /\ WaitsForHead' /\ SpreadCovers'
    BY <1>1, <1>6, <2>1
       DEF ProvInv, ToolInv, TargetIsThere, Places, DriverPlaces, WaitsForHead, SpreadCovers
  <2> QED
    BY <1>2, <1>3, <1>4, <2>2 DEF ProvInv, ToolInv
<1> QED
  BY <1>3, <1>5, <1>6

\* In the beginning nothing was deployed or sent.
LEMMA ProvInvInitially ==
  ASSUME WorkInit
  PROVE  ProvInv
<1>1. /\ mined = [s \in Senders |-> <<>>] /\ pool = [s \in Senders |-> <<>>]
      /\ anchors = <<>> /\ file = 0 /\ sent = <<>> /\ delayed = {}
      /\ tool = "none" /\ pc = "idle" /\ target = 0 /\ todo = <<>> /\ initial = 0
  BY DEF WorkInit, ProvInit, NodeInit
<1>2. Waiting = <<>> /\ Mined = <<>> /\ Owner \in DOMAIN pool /\ Owner \in DOMAIN mined
  BY <1>1, OwnerAssumption DEF Waiting, Mined
<1>3. Mined \in Seq(Receipt) /\ sent \in Seq(OwnerCall) /\ todo \in Seq(OwnerCall)
  BY <1>1, <1>2
<1>4. ChainTypes /\ ToolTypes
  BY <1>1, <1>2, <1>3 DEF ChainTypes, ToolTypes
<1>5. DOMAIN Waiting = {} /\ DOMAIN Mined = {} /\ DOMAIN anchors = {} /\ DOMAIN sent = {}
  BY <1>1, <1>2
<1>6. CallsOnce /\ AnchorsSound /\ MinedTookEffect
  BY <1>1, <1>5 DEF CallsOnce, AnchorsSound, MinedTookEffect
<1>7. Places /\ TargetIsThere /\ WaitsForHead /\ SpreadCovers /\ FileIsProvisioned /\ LegPlaces
  BY <1>1 DEF Places, TargetIsThere, WaitsForHead, SpreadCovers, FileIsProvisioned, LegPlaces
<1> QED
  BY <1>4, <1>6, <1>7 DEF ProvInv, ChainInv, ToolInv

\* Every step of the chain, of a tool or of a workload keeps it.
LEMMA ProvInvKept ==
  ASSUME ProvInv, [WorkNext]_allVars
  PROVE  ProvInv'
<1>1. CASE (ProvNext \/ StartPlain) /\ UNCHANGED workVars
  <2>1. ChainInv' /\ ToolInv'
    BY <1>1, ProvisioningKeeps DEF ProvInv
  <2>2. LegPlaces'
    BY <1>1, ProvisioningPlaces DEF ProvInv, LegPlaces, workVars
  <2> QED
    BY <2>1, <2>2 DEF ProvInv
<1>2. CASE UNCHANGED provVars /\ leg' = leg
  <2>1. /\ UNCHANGED <<nodeVars, anchors, sent, delayed>>
        /\ UNCHANGED <<file, tool, pc, localVars, sent>>
    BY <1>2 DEF provVars
  <2>2. ChainInv' /\ AnchorsGrow
    BY <2>1, QuietStepKeepsChain DEF ProvInv
  <2>3. ToolInv' /\ LegPlaces'
    BY <1>2, <2>1, <2>2, ChainKeepsTool DEF ProvInv, LegPlaces
  <2> QED
    BY <2>2, <2>3 DEF ProvInv
<1>3. CASE Driver
  BY <1>3, DriverKeeps
<1>4. CASE (MineLegCall \/ MineLateCall) /\ UNCHANGED provVars
  BY <1>2, <1>4 DEF MineLegCall, MineLateCall
<1>5. CASE UNCHANGED allVars
  BY <1>2, <1>5 DEF allVars, workVars
<1> QED
  BY <1>1, <1>3, <1>4, <1>5 DEF WorkNext

\* The invariant of the provisioning.
LEMMA ProvInvHolds == WorkSpec => []ProvInv
<1>1. WorkInit => ProvInv
  BY ProvInvInitially
<1>2. ProvInv /\ [WorkNext]_allVars => ProvInv'
  BY ProvInvKept
<1> QED
  BY <1>1, <1>2, PTL DEF WorkSpec

\* The anchor that the next tool finds in the file exists and has the whole pool authorised,
\* whatever became of the concurrent calls that authorise it (deploy_verifiers.py).
THEOREM FileNamesProvisioned == WorkSpec => []FileIsProvisioned
<1>1. ProvInv => FileIsProvisioned
  BY DEF ProvInv, ToolInv
<1> QED
  BY <1>1, ProvInvHolds, PTL

------------------------------------------------------------------------------
\* Tools that began with nothing under way: the chain.

\* What is next in the pool is numbered from the next nonce on, and below the tool's own
\* next one; and nothing is mined once the last call was.
LEMMA MineKeepsNonces ==
  ASSUME ProvInv, NoncesAscend, MineCall, UNCHANGED <<base, tool, claimed, quiet>>
  PROVE  NoncesAscend'
<1>1. SUFFICES ASSUME quiet, tool = "ablation" \/ claimed
               PROVE  IF base = Unread THEN NothingUnderWay'
                      ELSE /\ base \in Nat
                           /\ \A n \in DOMAIN Waiting' : Below(n)'
                           /\ \A d \in delayed' : d.nonce \in Nat /\ d.nonce < base
  BY DEF NoncesAscend
<1> DEFINE ok == Succeeds(sent[Waiting[LatestCount(Owner)]])
<1>2. Mine(Owner, ok) /\ delayed' = delayed
  BY DEF MineCall, Waiting
<1>3. ok \in BOOLEAN
  BY DEF Succeeds
<1> HIDE DEF ok
<1>4. /\ LatestCount(Owner) \in DOMAIN Waiting /\ LatestCount(Owner) = Len(Mined)
      /\ Mined' = Append(Mined, [id |-> Waiting[LatestCount(Owner)], ok |-> ok])
      /\ DOMAIN Waiting' = DOMAIN Waiting \ {LatestCount(Owner)}
  BY <1>2, <1>3, MineEffect DEF ProvInv, ChainInv
<1>5. LatestCount(Owner) \in Nat /\ LatestCount(Owner)' = LatestCount(Owner) + 1
  <2>1. Mined \in Seq(Receipt)
    BY DEF ProvInv, ChainInv, ChainTypes
  <2>2. Len(Append(Mined, [id |-> Waiting[LatestCount(Owner)], ok |-> ok])) = Len(Mined) + 1
    BY <2>1
  <2>3. LatestCount(Owner)' = Len(Mined')
    BY DEF LatestCount, Mined
  <2> QED
    BY <1>4, <2>1, <2>2, <2>3
<1>6. base # Unread /\ base \in Nat
  BY <1>1, <1>4 DEF NoncesAscend, NothingUnderWay
<1>7. ASSUME NEW n \in DOMAIN Waiting' PROVE Below(n)'
  <2>1. n \in DOMAIN Waiting /\ n # LatestCount(Owner)
    BY <1>4
  <2>2. n \in Nat /\ LatestCount(Owner) <= n /\ n < base
    BY <1>1, <1>6, <2>1 DEF NoncesAscend, Below
  <2>3. LatestCount(Owner) + 1 <= n
    BY <1>5, <2>1, <2>2
  <2> QED
    BY <1>5, <2>2, <2>3 DEF Below
<1> QED
  BY <1>1, <1>2, <1>6, <1>7 DEF NoncesAscend

\* The next call of the tool's nonces is mined only while it is below the tool's next one.
LEMMA MinedIsBelow ==
  ASSUME NoncesAscend, quiet, tool = "ablation" \/ claimed, LatestCount(Owner) \in DOMAIN Waiting
  PROVE  base # Unread /\ base \in Nat /\ LatestCount(Owner) \in Nat /\ LatestCount(Owner) < base
BY DEF NoncesAscend, NothingUnderWay, Below

\* Of a late call and of a lost one.
LEMMA PoolKeepsNonces ==
  ASSUME ProvInv, NoncesAscend, ArriveLate \/ LosePooled, UNCHANGED <<base, tool, claimed, quiet>>
  PROVE  NoncesAscend'
<1>1. SUFFICES ASSUME quiet, tool = "ablation" \/ claimed
               PROVE  IF base = Unread THEN NothingUnderWay'
                      ELSE /\ base \in Nat
                           /\ \A n \in DOMAIN Waiting' : Below(n)'
                           /\ \A d \in delayed' : d.nonce \in Nat /\ d.nonce < base
  BY DEF NoncesAscend
<1>2. delayed' \subseteq delayed /\ mined' = mined
  BY EvictEffect DEF ArriveLate, LosePooled, Enter, nodeVars, ProvInv, ChainInv
<1>3. LatestCount(Owner)' = LatestCount(Owner)
  BY <1>2 DEF LatestCount
<1>4. ASSUME NEW n \in DOMAIN Waiting'
      PROVE  n \in DOMAIN Waiting \/ \E d \in delayed : n = d.nonce /\ n >= LatestCount(Owner)
  <2>1. CASE LosePooled
    BY <2>1, EvictEffect DEF LosePooled, ProvInv, ChainInv
  <2>2. CASE ArriveLate
    <3>1. PICK d \in delayed : Enter(Owner, d.nonce, d.id) \/ UNCHANGED nodeVars
      BY <2>2 DEF ArriveLate
    <3>2. CASE Enter(Owner, d.nonce, d.id)
      <4>1. ChainTypes
        BY DEF ProvInv, ChainInv
      <4>2. d.nonce >= LatestCount(Owner) /\ DOMAIN Waiting' = DOMAIN Waiting \cup {d.nonce}
        BY <3>2, <4>1, EnterEffect
      <4> QED
        BY <4>2
    <3>3. CASE UNCHANGED nodeVars
      BY <3>3 DEF nodeVars, Waiting
    <3> QED
      BY <3>1, <3>2, <3>3
  <2> QED
    BY <2>1, <2>2
<1>5. CASE base = Unread
  <2>1. DOMAIN Waiting = {} /\ delayed = {}
    BY <1>1, <1>5 DEF NoncesAscend, NothingUnderWay
  <2> QED
    BY <1>2, <1>4, <1>5, <2>1 DEF NothingUnderWay
<1>6. CASE base # Unread
  <2>1. /\ base \in Nat
        /\ \A n \in DOMAIN Waiting : n \in Nat /\ LatestCount(Owner) <= n /\ n < base
        /\ \A d \in delayed : d.nonce \in Nat /\ d.nonce < base
    BY <1>1, <1>6 DEF NoncesAscend, Below
  <2>2. ASSUME NEW n \in DOMAIN Waiting' PROVE n \in Nat /\ LatestCount(Owner) <= n /\ n < base
    <3>1. CASE n \in DOMAIN Waiting
      BY <2>1, <3>1
    <3>2. CASE \E d \in delayed : n = d.nonce /\ n >= LatestCount(Owner)
      BY <2>1, <3>2
    <3> QED
      BY <1>4, <3>1, <3>2
  <2> QED
    BY <1>2, <1>3, <1>6, <2>1, <2>2 DEF Below
<1> QED
  BY <1>5, <1>6

\* What is the tool's own.
LEMMA LocalKept ==
  ASSUME UNCHANGED <<tool, pc, quiet, localVars>>
  PROVE  UNCHANGED <<tool, pc, quiet, target, base, todo, waits, signers, point, rows, initial,
                     claimed>>
BY DEF localVars

\* While the tool has at most one call under way, nothing else can be mined or arrive.
LEMMA ChainKeepsQuietCalls ==
  ASSUME ProvInv, QuietCalls, Chain
  PROVE  QuietCalls'
<1>1. UNCHANGED <<tool, pc, quiet, waits>>
  BY LocalKept DEF Chain
<1>2. SUFFICES ASSUME quiet, tool = "zkroam" \/ (tool = "ablation" /\ pc \in {"send", "wait", "relay"})
               PROVE  /\ delayed' = {}
                      /\ IF pc = "wait" THEN \A n \in DOMAIN Waiting' : Waiting'[n] \in waits
                                        ELSE DOMAIN Waiting' = {}
  BY <1>1 DEF QuietCalls
<1>3. delayed = {}
  BY <1>2 DEF QuietCalls
<1>4. delayed' = delayed
  BY <1>3 DEF Chain, MineCall, ArriveLate, LosePooled
<1>5. \A n \in DOMAIN Waiting' : n \in DOMAIN Waiting /\ Waiting'[n] = Waiting[n]
  <2>1. CASE MineCall
    <3> DEFINE ok == Succeeds(sent[Waiting[LatestCount(Owner)]])
    <3>1. Mine(Owner, ok) /\ ok \in BOOLEAN
      BY <2>1 DEF MineCall, Waiting, Succeeds
    <3> HIDE DEF ok
    <3> QED
      BY <3>1, MineEffect DEF ProvInv, ChainInv
  <2>2. CASE LosePooled
    BY <2>2, EvictEffect DEF LosePooled, ProvInv, ChainInv
  <2> QED
    BY <1>3, <2>1, <2>2 DEF Chain, ArriveLate
<1> QED
  BY <1>2, <1>3, <1>4, <1>5 DEF QuietCalls

\* Whatever was planned stays planned.
LEMMA ChainKeepsPlan ==
  ASSUME ProvInv, MissingPlanned, InitialFits, ProvInv', AnchorsGrow, UNCHANGED <<tool, pc, target, todo, initial>>
  PROVE  MissingPlanned' /\ InitialFits'
<1>1. tool \in {"zkroam", "ablation"} => target \in DOMAIN anchors
  BY DEF ProvInv, ToolInv, TargetIsThere
<1>2. tool \in {"zkroam", "ablation"} =>
        target \in DOMAIN anchors' /\ Anchor.verifiers \subseteq Anchor'.verifiers
  BY <1>1 DEF Anchor, AnchorsGrow
<1>3. MissingPlanned'
  BY <1>2 DEF MissingPlanned
<1>4. ASSUME tool = "ablation" PROVE initial \in 1 .. Cardinality(Anchor.verifiers)'
  <2>1. initial \in 1 .. Cardinality(Anchor.verifiers)
    BY <1>4 DEF InitialFits
  <2>2. IsFiniteSet(Anchor'.verifiers)
    BY <1>2, <1>4 DEF ProvInv, ChainInv, AnchorsSound, Anchor
  <2> QED
    BY <1>2, <1>4, <2>1, <2>2, StillReachable
<1> QED
  BY <1>3, <1>4 DEF InitialFits

\* While the pool is empty and nothing is on its way, the anchors stay as they are.
LEMMA EmptyPoolKeepsAnchors ==
  ASSUME Chain, DOMAIN Waiting = {}
  PROVE  anchors' = anchors
BY DEF Chain, MineCall, ArriveLate, LosePooled, Waiting

\* The signatures of the committee, and the point that is measured, are read at a quiet time.
LEMMA ChainKeepsReadings ==
  ASSUME ProvInv, QuietCalls, CommitteeSuffices, RowsAreMeasured, Chain
  PROVE  CommitteeSuffices' /\ RowsAreMeasured'
<1>1. UNCHANGED <<tool, pc, quiet, target, signers, point, rows>>
  BY LocalKept DEF Chain
<1>2. ASSUME quiet, \/ tool = "zkroam" /\ pc \in DriverPlaces
                    \/ tool = "ablation" /\ pc = "relay"
      PROVE  anchors' = anchors
  <2>1. DOMAIN Waiting = {}
    BY <1>2 DEF QuietCalls, DriverPlaces
  <2> QED
    BY <2>1, EmptyPoolKeepsAnchors
<1>3. CommitteeSuffices'
  BY <1>1, <1>2 DEF CommitteeSuffices, Anchor, Finalizes
<1>4. pc = "relay" => tool = "ablation"
  BY DEF ProvInv, ToolInv, Places, DriverPlaces
<1>5. PointsAreEnforced'
  BY <1>1 DEF RowsAreMeasured, PointsAreEnforced
<1>6. T' = T /\ lastRow' = lastRow
  BY <1>1 DEF T, lastRow
<1>7. pc = "relay" => rows # <<>> /\ lastRow.quiet = quiet
  BY DEF RowsAreMeasured
<1>8. ASSUME pc = "relay", quiet PROVE Anchor'.threshold = T /\ signers = 0 .. T - 1
  <2>1. Anchor.threshold = T /\ signers = 0 .. T - 1
    BY <1>8 DEF RowsAreMeasured
  <2>2. Anchor' = Anchor
    BY <1>1, <1>2, <1>4, <1>8 DEF Anchor
  <2> QED
    BY <2>1, <2>2
<1>9. pc' = "relay" => /\ rows' # <<>> /\ lastRow'.quiet = quiet'
                       /\ quiet' => Anchor'.threshold = T' /\ signers' = 0 .. T' - 1
  BY <1>1, <1>6, <1>7, <1>8
<1>10. rows' \in Seq(ResultRow) /\ quiet' \in BOOLEAN
  BY <1>1 DEF RowsAreMeasured
<1> QED
  BY <1>3, <1>5, <1>9, <1>10 DEF RowsAreMeasured

\* The restoring call, once mined, has taken effect and has no call behind it: it had the
\* highest nonce of all.
LEMMA MineKeepsRestore ==
  ASSUME ProvInv, ProvInv', NoncesAscend, RestoreIsLast, InitialFits, MineCall,
         UNCHANGED <<tool, pc, quiet, localVars>>
  PROVE  RestoreIsLast'
<1>0. UNCHANGED <<tool, pc, quiet, target, base, waits, initial, claimed>>
  BY LocalKept
<1>1. SUFFICES ASSUME quiet, tool = "ablation", pc = "restoring"
               PROVE  RestoreIsLast'
  BY <1>0 DEF RestoreIsLast
<1>2. PICK w \in DOMAIN sent :
        /\ waits = {w} /\ sent[w] = [op |-> "set", at |-> target, arg |-> initial]
        /\ base # Unread
        /\ \A d \in delayed : d.id # w
        /\ \A n \in DOMAIN Waiting : Waiting[n] = w => n = base - 1
        /\ IsMined(w) => LatestCount(Owner) >= base /\ Anchor.threshold = initial
  BY <1>1 DEF RestoreIsLast
<1> DEFINE next == LatestCount(Owner)
           id == Waiting[next]
           ok == Succeeds(sent[id])
           r == [id |-> id, ok |-> ok]
<1>3. /\ Mine(Owner, ok) /\ sent' = sent /\ delayed' = delayed
      /\ anchors' = IF ok THEN Effect(id) ELSE anchors
      /\ ok \in BOOLEAN
  BY DEF MineCall, Waiting, Succeeds
<1>4. /\ next \in DOMAIN Waiting /\ next = Len(Mined)
      /\ Mined' = Append(Mined, r)
      /\ DOMAIN Waiting' = DOMAIN Waiting \ {next}
      /\ \A m \in DOMAIN Waiting' : Waiting'[m] = Waiting[m]
  <2> HIDE DEF ok
  <2> QED
    BY <1>3, MineEffect DEF ProvInv, ChainInv
<1>5. base \in Nat /\ next \in Nat /\ next < base
  BY <1>1, <1>4, MinedIsBelow
<1>6. ~IsMined(w)
  BY <1>2, <1>5
<1>7. r \in Receipt
  <2>1. id \in Nat
    BY <1>4 DEF ProvInv, ChainInv, CallsOnce, ChainTypes
  <2> HIDE DEF ok, id
  <2> QED
    BY <1>3, <2>1 DEF Receipt
<1>8. IsMined(w)' => w = id
  <2>1. r.id = id
    OBVIOUS
  <2> HIDE DEF r, ok, id, next
  <2> QED
    BY <1>4, <1>6, <1>7, <2>1, MinedAfter DEF ProvInv, ChainInv
<1>9. ASSUME w = id PROVE LatestCount(Owner)' >= base /\ Anchor'.threshold = initial
  <2>1. next = base - 1
    BY <1>2, <1>4, <1>9
  <2>2. LatestCount(Owner)' = next + 1
    <3>1. Len(Mined') = Len(Mined) + 1
      BY <1>4, <1>7, MinedAfter DEF ProvInv, ChainInv
    <3> QED
      BY <1>4, <3>1 DEF LatestCount, Mined
  <2>3. target \in DOMAIN anchors /\ initial \in 1 .. Cardinality(anchors[target].verifiers)
    BY <1>1 DEF ProvInv, ToolInv, TargetIsThere, InitialFits, Anchor
  <2>4. ok
    BY <1>2, <1>9, <2>3 DEF Succeeds
  <2>5. anchors' = [anchors EXCEPT ![target].threshold = initial]
    <3>1. sent[id].op = "set" /\ sent[id].at = target /\ sent[id].arg = initial
      BY <1>2, <1>9
    <3>2. anchors' = Effect(id)
      BY <1>3, <2>4
    <3> HIDE DEF id
    <3> QED
      BY <3>1, <3>2 DEF Effect
  <2>6. anchors'[target] = [anchors[target] EXCEPT !.threshold = initial]
    BY <2>3, <2>5
  <2>7. anchors[target] \in [verifiers : SUBSET Nat, threshold : Nat]
    BY <2>3 DEF ProvInv, ChainInv, AnchorsSound
  <2>8. anchors'[target].threshold = initial
    BY <2>6, <2>7
  <2> QED
    BY <1>0, <1>5, <2>1, <2>2, <2>8 DEF Anchor
<1> HIDE DEF next, id, ok, r
<1>10. /\ w \in DOMAIN sent' /\ waits' = {w}
       /\ sent'[w] = [op |-> "set", at |-> target', arg |-> initial']
       /\ base' # Unread
  BY <1>0, <1>2, <1>3
<1>11. /\ \A d \in delayed' : d.id # w
       /\ \A n \in DOMAIN Waiting' : Waiting'[n] = w => n = base' - 1
  BY <1>0, <1>2, <1>3, <1>4
<1>12. IsMined(w)' => LatestCount(Owner)' >= base' /\ Anchor'.threshold = initial'
  BY <1>0, <1>8, <1>9
<1>13. \E x \in DOMAIN sent' :
      /\ waits' = {x} /\ sent'[x] = [op |-> "set", at |-> target', arg |-> initial']
      /\ base' # Unread
      /\ \A d \in delayed' : d.id # x
      /\ \A n \in DOMAIN Waiting' : Waiting'[n] = x => n = base' - 1
      /\ IsMined(x)' => LatestCount(Owner)' >= base' /\ Anchor'.threshold = initial'
  BY <1>10, <1>11, <1>12
<1> QED
  BY <1>13 DEF RestoreIsLast

\* A late call or a lost one does not mine anything.
LEMMA PoolKeepsRestore ==
  ASSUME ProvInv, RestoreIsLast, ArriveLate \/ LosePooled, UNCHANGED <<tool, pc, quiet, localVars>>
  PROVE  RestoreIsLast'
<1>0. UNCHANGED <<tool, pc, quiet, target, base, waits, initial, claimed>>
  BY LocalKept
<1>1. SUFFICES ASSUME quiet, tool = "ablation", pc = "restoring"
               PROVE  RestoreIsLast'
  BY <1>0 DEF RestoreIsLast
<1>2. PICK w \in DOMAIN sent :
        /\ waits = {w} /\ sent[w] = [op |-> "set", at |-> target, arg |-> initial]
        /\ base # Unread
        /\ \A d \in delayed : d.id # w
        /\ \A n \in DOMAIN Waiting : Waiting[n] = w => n = base - 1
        /\ IsMined(w) => LatestCount(Owner) >= base /\ Anchor.threshold = initial
  BY <1>1 DEF RestoreIsLast
<1>3. ChainTypes
  BY DEF ProvInv, ChainInv
<1>4. /\ delayed' \subseteq delayed /\ mined' = mined /\ sent' = sent /\ anchors' = anchors
      /\ \A n \in DOMAIN Waiting' : \/ n \in DOMAIN Waiting /\ Waiting'[n] = Waiting[n]
                                    \/ \E d \in delayed : Waiting'[n] = d.id
  <2>1. CASE LosePooled
    BY <1>3, <2>1, EvictEffect DEF LosePooled
  <2>2. CASE ArriveLate
    <3>1. PICK d \in delayed : /\ delayed' = delayed \ {d}
                               /\ Enter(Owner, d.nonce, d.id) \/ UNCHANGED nodeVars
      BY <2>2 DEF ArriveLate
    <3>2. sent' = sent /\ anchors' = anchors
      BY <2>2 DEF ArriveLate
    <3>3. CASE Enter(Owner, d.nonce, d.id)
      <4>1. /\ mined' = mined /\ DOMAIN Waiting' = DOMAIN Waiting \cup {d.nonce}
            /\ Waiting'[d.nonce] = d.id
            /\ \A m \in DOMAIN Waiting : Waiting'[m] = Waiting[m]
        BY <1>3, <3>3, EnterEffect
      <4> QED
        BY <3>1, <3>2, <4>1
    <3>4. CASE UNCHANGED nodeVars
      <4>1. mined' = mined /\ Waiting' = Waiting
        BY <3>4 DEF nodeVars, Waiting
      <4> QED
        BY <3>1, <3>2, <4>1
    <3> QED
      BY <3>1, <3>3, <3>4
  <2> QED
    BY <2>1, <2>2
<1>5. /\ IsMined(w)' <=> IsMined(w)
      /\ LatestCount(Owner)' = LatestCount(Owner) /\ Anchor' = Anchor
  BY <1>0, <1>4 DEF IsMined, Mined, LatestCount, Anchor
<1>6. \A n \in DOMAIN Waiting' : Waiting'[n] = w => n = base - 1
  BY <1>2, <1>4
<1>7. \E x \in DOMAIN sent' :
      /\ waits' = {x} /\ sent'[x] = [op |-> "set", at |-> target', arg |-> initial']
      /\ base' # Unread
      /\ \A d \in delayed' : d.id # x
      /\ \A n \in DOMAIN Waiting' : Waiting'[n] = x => n = base' - 1
      /\ IsMined(x)' => LatestCount(Owner)' >= base' /\ Anchor'.threshold = initial'
  BY <1>0, <1>2, <1>4, <1>5, <1>6
<1> QED
  BY <1>7 DEF RestoreIsLast

\* What was reported restored stays so.
LEMMA ChainKeepsRestored ==
  ASSUME ProvInv, NoncesAscend, RestoredStays, Chain, AnchorsGrow
  PROVE  RestoredStays'
<1>0. UNCHANGED <<tool, quiet, target, base, initial, claimed>>
  BY LocalKept DEF Chain
<1>1. SUFFICES ASSUME claimed
               PROVE  RestoredStays'
  BY <1>0 DEF RestoredStays
<1>2. tool = "none" /\ target \in DOMAIN anchors /\ target \in DOMAIN anchors'
  BY <1>1 DEF RestoredStays, AnchorsGrow
<1>3. ASSUME quiet
      PROVE  base # Unread /\ LatestCount(Owner)' >= base /\ Anchor'.threshold = initial
  <2>1. base # Unread /\ LatestCount(Owner) >= base /\ Anchor.threshold = initial
    BY <1>1, <1>3 DEF RestoredStays
  <2>2. ~MineCall
    <3>1. SUFFICES ASSUME LatestCount(Owner) \in DOMAIN Waiting PROVE FALSE
      BY DEF MineCall, Waiting
    <3>2. base \in Nat /\ LatestCount(Owner) \in Nat /\ LatestCount(Owner) < base
      BY <1>1, <1>3, <3>1, MinedIsBelow
    <3> QED
      BY <2>1, <3>2
  <2>3. mined' = mined /\ anchors' = anchors
    BY <2>2, EvictEffect DEF Chain, ArriveLate, LosePooled, Enter, nodeVars, ProvInv, ChainInv
  <2> QED
    BY <1>0, <2>1, <2>3 DEF LatestCount, Anchor
<1> QED
  BY <1>0, <1>2, <1>3 DEF RestoredStays

\* All together: nothing that a quiet tool relies on is changed by the chain.
LEMMA ChainKeepsQuiet ==
  ASSUME ProvInv, ProvInv', QuietInv, Chain
  PROVE  QuietInv'
<1>1. UNCHANGED <<tool, pc, quiet, localVars>>
  BY DEF Chain
<1>2. UNCHANGED <<tool, pc, quiet, target, base, todo, waits, signers, point, rows, initial,
                  claimed>>
  BY <1>1, LocalKept
<1>3. AnchorsGrow
  BY MineCallKeepsChain, ArriveLateKeepsChain, LosePooledKeepsChain DEF Chain, ProvInv
<1>4. NoncesAscend'
  BY <1>2, MineKeepsNonces, PoolKeepsNonces DEF Chain, QuietInv
<1>5. RestoreIsLast'
  BY <1>1, MineKeepsRestore, PoolKeepsRestore DEF Chain, QuietInv
<1>6. QuietCalls' /\ CommitteeSuffices' /\ RowsAreMeasured' /\ RestoredStays'
  BY <1>3, ChainKeepsQuietCalls, ChainKeepsReadings, ChainKeepsRestored DEF QuietInv
<1>7. MissingPlanned' /\ InitialFits'
  BY <1>2, <1>3, ChainKeepsPlan DEF QuietInv
<1> QED
  BY <1>4, <1>5, <1>6, <1>7 DEF QuietInv

------------------------------------------------------------------------------
\* Tools that began with nothing under way: their own steps.

\* A tool that runs has reported nothing yet.
LEMMA RunsUnclaimed ==
  ASSUME QuietInv, tool # "none"
  PROVE  ~claimed
BY DEF QuietInv, RestoredStays

\* Rows that nobody writes.
LEMMA RowsKept ==
  ASSUME RowsAreMeasured, rows' = rows, quiet' = quiet, pc' # "relay"
  PROVE  RowsAreMeasured'
<1>1. PointsAreEnforced'
  BY DEF RowsAreMeasured, PointsAreEnforced
<1> QED
  BY <1>1 DEF RowsAreMeasured

\* Rows thrown away.
LEMMA NoRows ==
  ASSUME rows' = <<>>, quiet' \in BOOLEAN, pc' # "relay"
  PROVE  RowsAreMeasured'
<1>1. rows' \in Seq(ResultRow) /\ DOMAIN rows' = {}
  OBVIOUS
<1>2. PointsAreEnforced'
  BY <1>1 DEF PointsAreEnforced
<1> QED
  BY <1>1, <1>2 DEF RowsAreMeasured

\* Nothing is promised of the other tools.
LEMMA OthersAreQuiet ==
  ASSUME RowsAreMeasured', tool' \notin {"zkroam", "ablation"}, ~claimed'
  PROVE  QuietInv'
<1>1. QuietCalls' /\ MissingPlanned' /\ CommitteeSuffices' /\ NoncesAscend' /\ RestoreIsLast'
  BY DEF QuietCalls, MissingPlanned, CommitteeSuffices, NoncesAscend, RestoreIsLast
<1>2. InitialFits' /\ RestoredStays'
  BY DEF InitialFits, RestoredStays
<1> QED
  BY <1>1, <1>2 DEF QuietInv

\* Of the workload.
LEMMA ZkroamIsQuiet ==
  ASSUME tool' = "zkroam", ~claimed', RowsAreMeasured', QuietCalls', MissingPlanned',
         CommitteeSuffices'
  PROVE  QuietInv'
<1>1. NoncesAscend' /\ RestoreIsLast' /\ InitialFits' /\ RestoredStays'
  BY DEF NoncesAscend, RestoreIsLast, InitialFits, RestoredStays
<1> QED
  BY <1>1 DEF QuietInv

\* Of the ablation.
LEMMA AblationIsQuiet ==
  ASSUME tool' = "ablation", ~claimed', RowsAreMeasured', QuietCalls', NoncesAscend',
         RestoreIsLast', InitialFits'
  PROVE  QuietInv'
<1>1. MissingPlanned' /\ CommitteeSuffices' /\ RestoredStays'
  BY DEF MissingPlanned, CommitteeSuffices, RestoredStays
<1> QED
  BY <1>1 DEF QuietInv

\* A step without a call leaves the pool and what is on its way.
LEMMA QuietCallsKept ==
  ASSUME QuietCalls, UNCHANGED <<nodeVars, delayed, quiet, tool>>, pc # "wait", pc' # "wait",
         tool = "ablation" => pc \in {"send", "relay"}
  PROVE  QuietCalls'
<1>1. Waiting' = Waiting
  BY DEF nodeVars, Waiting
<1> QED
  BY <1>1 DEF QuietCalls

\* Nonces of which none was taken.
LEMMA NoncesKept ==
  ASSUME NoncesAscend, UNCHANGED <<nodeVars, delayed, base, quiet>>,
         (tool' = "ablation" \/ claimed') => (tool = "ablation" \/ claimed)
  PROVE  NoncesAscend'
<1>1. Waiting' = Waiting /\ LatestCount(Owner)' = LatestCount(Owner)
  BY DEF nodeVars, Waiting, LatestCount
<1> QED
  BY <1>1 DEF NoncesAscend, NothingUnderWay, Below

\* An exception: the ablation has still to restore, and the others end.
LEMMA RaiseKeepsQuiet ==
  ASSUME ProvInv, QuietInv, Raise, tool # "none", NoncesAscend',
         UNCHANGED <<quiet, claimed, target, initial, anchors>>
  PROVE  QuietInv'
<1>1. ~claimed'
  BY RunsUnclaimed
<1>2. RowsAreMeasured /\ quiet \in BOOLEAN
  BY DEF QuietInv, RowsAreMeasured
<1>3. CASE tool' = "none" /\ pc' = "idle" /\ rows' = rows
  BY <1>1, <1>2, <1>3, RowsKept, OthersAreQuiet
<1>4. CASE tool = "ablation" /\ tool' = tool /\ pc' = "restore" /\ rows' = <<>>
  <2>1. RowsAreMeasured'
    BY <1>2, <1>4, NoRows
  <2>2. QuietCalls' /\ RestoreIsLast'
    BY <1>4 DEF QuietCalls, RestoreIsLast
  <2>3. InitialFits'
    BY <1>4 DEF QuietInv, InitialFits, Anchor
  <2> QED
    BY <1>1, <1>4, <2>1, <2>2, <2>3, AblationIsQuiet
<1> QED
  BY <1>3, <1>4 DEF Raise, Ended

\* With an empty pool the next free nonce is a number.
LEMMA NextNonceIsANumber ==
  ASSUME ProvInv, NoncesAscend, quiet, tool = "ablation"
  PROVE  NextNonce \in Nat /\ (base # Unread => NextNonce = base)
<1>1. CASE base = Unread
  <2>1. DOMAIN pool[Owner] = {}
    BY <1>1 DEF NoncesAscend, NothingUnderWay, Waiting
  <2>2. LatestCount(Owner) \in Nat
    BY DEF ProvInv, ChainInv, ChainTypes, LatestCount, Mined
  <2> DEFINE Free(n) == /\ n \notin DOMAIN pool[Owner]
                        /\ \A m \in LatestCount(Owner) .. n - 1 : m \in DOMAIN pool[Owner]
  <2>3. LatestCount(Owner) \in LatestCount(Owner) .. LatestCount(Owner) + PoolPerSender
    BY <2>2, NodeAssumption
  <2>4. Free(LatestCount(Owner))
    BY <2>1, <2>2
  <2>5. PendingCount(Owner) \in LatestCount(Owner) .. LatestCount(Owner) + PoolPerSender
    <3>1. PendingCount(Owner)
            = CHOOSE n \in LatestCount(Owner) .. LatestCount(Owner) + PoolPerSender : Free(n)
      BY DEF PendingCount
    <3> HIDE DEF Free
    <3> QED
      BY <2>3, <2>4, <3>1
  <2>6. NextNonce = PendingCount(Owner)
    BY <1>1 DEF NextNonce
  <2> QED
    BY <1>1, <2>2, <2>5, <2>6, NodeAssumption
<1>2. CASE base # Unread
  BY <1>2 DEF NoncesAscend, NextNonce
<1> QED
  BY <1>1, <1>2

\* The ablation's next call has the highest nonce of all, however the request ends.
LEMMA SendKeepsNonces ==
  ASSUME ProvInv, NoncesAscend, tool = "ablation", NEW call \in OwnerCall, NEW answered \in BOOLEAN,
         Sends(call, NextNonce, answered), base' = NextNonce + 1, quiet' = quiet
  PROVE  /\ NoncesAscend'
         /\ quiet => base' \in Nat /\ base' # Unread /\ base' - 1 = NextNonce
<1>1. SUFFICES ASSUME quiet
               PROVE  /\ base' \in Nat /\ base' # Unread /\ base' - 1 = NextNonce
                      /\ \A n \in DOMAIN Waiting' : Below(n)'
                      /\ \A d \in delayed' : d.nonce \in Nat /\ d.nonce < base'
  BY DEF NoncesAscend
<1> DEFINE nonce == NextNonce
           new == Len(sent) + 1
<1>2. nonce \in Nat /\ (base # Unread => nonce = base)
  BY <1>1, NextNonceIsANumber
<1>3. nonce < base' /\ base' \in Nat /\ base' # Unread /\ base' - 1 = nonce
  BY <1>2 DEF Unread
<1>4. /\ \A n \in DOMAIN Waiting : n \in Nat /\ LatestCount(Owner) <= n /\ n < base'
      /\ \A d \in delayed : d.nonce \in Nat /\ d.nonce < base'
  <2>1. CASE base = Unread
    BY <1>1, <2>1 DEF NoncesAscend, NothingUnderWay
  <2>2. CASE base # Unread
    <3>1. /\ base \in Nat
          /\ \A n \in DOMAIN Waiting : n \in Nat /\ LatestCount(Owner) <= n /\ n < base
          /\ \A d \in delayed : d.nonce \in Nat /\ d.nonce < base
      BY <1>1, <2>2 DEF NoncesAscend, Below
    <3>2. base' = base + 1
      BY <1>2, <2>2
    <3> HIDE DEF nonce
    <3> QED
      BY <3>1, <3>2
  <2> QED
    BY <2>1, <2>2
<1>5. \/ Enter(Owner, nonce, new) /\ UNCHANGED delayed
      \/ UNCHANGED nodeVars /\ UNCHANGED delayed
      \/ delayed' = delayed \cup {[id |-> new, nonce |-> nonce]} /\ UNCHANGED nodeVars
  BY DEF Sends
<1> HIDE DEF nonce, new
<1>6. CASE Enter(Owner, nonce, new) /\ UNCHANGED delayed
  <2>1. ChainTypes
    BY DEF ProvInv, ChainInv
  <2>2. /\ mined' = mined /\ nonce >= LatestCount(Owner)
        /\ DOMAIN Waiting' = DOMAIN Waiting \cup {nonce}
    BY <1>6, <2>1, EnterEffect
  <2>3. LatestCount(Owner)' = LatestCount(Owner) /\ LatestCount(Owner) \in Nat
    BY <2>1, <2>2 DEF LatestCount, ChainTypes, Mined
  <2>4. \A n \in DOMAIN Waiting' : n \in Nat /\ LatestCount(Owner) <= n /\ n < base'
    <3> TAKE n \in DOMAIN Waiting'
    <3>1. CASE n \in DOMAIN Waiting
      BY <1>4, <3>1
    <3>2. CASE n = nonce
      BY <1>2, <1>3, <2>2, <2>3, <3>2
    <3> QED
      BY <2>2, <3>1, <3>2
  <2> QED
    BY <1>3, <1>4, <1>6, <2>3, <2>4 DEF Below, nonce
<1>7. CASE UNCHANGED nodeVars
  <2>1. Waiting' = Waiting /\ LatestCount(Owner)' = LatestCount(Owner)
    BY <1>7 DEF nodeVars, Waiting, LatestCount
  <2>2. \A d \in delayed' : d.nonce \in Nat /\ d.nonce < base'
    BY <1>2, <1>3, <1>4, <1>5 DEF Enter, nodeVars
  <2> QED
    BY <1>3, <1>4, <2>1, <2>2 DEF Below, nonce
<1> QED
  BY <1>5, <1>6, <1>7

\* After an accepted call of a tool with nothing else under way, the pool holds that call.
LEMMA SendKeepsQuietCalls ==
  ASSUME ProvInv, QuietCalls, pc = "send", NEW call, NEW nonce, Sends(call, nonce, TRUE),
         waits' = {Len(sent) + 1}, pc' = "wait", UNCHANGED <<tool, quiet>>
  PROVE  QuietCalls'
<1>1. SUFFICES ASSUME quiet, tool \in {"zkroam", "ablation"}
               PROVE  delayed' = {} /\ \A n \in DOMAIN Waiting' : Waiting'[n] \in waits'
  BY DEF QuietCalls
<1>2. delayed = {} /\ DOMAIN Waiting = {}
  BY <1>1 DEF QuietCalls
<1>3. Enter(Owner, nonce, Len(sent) + 1) /\ delayed' = delayed
  BY DEF Sends
<1>4. ChainTypes
  BY DEF ProvInv, ChainInv
<1>5. DOMAIN Waiting' = DOMAIN Waiting \cup {nonce} /\ Waiting'[nonce] = Len(sent) + 1
  BY <1>3, <1>4, EnterEffect
<1> QED
  BY <1>2, <1>3, <1>5

\* A call is sent.
LEMMA SendKeepsQuiet ==
  ASSUME ProvInv, QuietInv, Send
  PROVE  QuietInv'
<1>1. /\ pc = "send" /\ todo # <<>> /\ tool # "none"
      /\ UNCHANGED <<quiet, target, todo, signers, point, initial, claimed>>
  BY DEF Send, SendCall, ProvInv, ToolInv, Places
<1>2. /\ ~claimed /\ RowsAreMeasured /\ QuietCalls /\ NoncesAscend /\ InitialFits /\ MissingPlanned
  BY <1>1, RunsUnclaimed DEF QuietInv
<1>3. Head(todo) \in OwnerCall
  BY <1>1, HeadIsACall DEF ProvInv
<1>4. ASSUME NEW answered \in BOOLEAN, Sends(Head(todo), NextNonce, answered), tool = "ablation",
             base' = NextNonce + 1
      PROVE  NoncesAscend'
  BY <1>1, <1>2, <1>3, <1>4, SendKeepsNonces
<1>5. ASSUME NEW answered \in BOOLEAN, Sends(Head(todo), NextNonce, answered)
      PROVE  anchors' = anchors
  BY <1>5 DEF Sends
<1>6. CASE /\ Sends(Head(todo), NextNonce, TRUE) /\ waits' = {Len(sent) + 1} /\ pc' = "wait"
           /\ UNCHANGED <<tool, rows>>
           /\ tool = "ablation" => base' = NextNonce + 1
  <2>1. RowsAreMeasured' /\ ~claimed'
    BY <1>1, <1>2, <1>6, RowsKept
  <2>2. QuietCalls'
    BY <1>1, <1>2, <1>6, SendKeepsQuietCalls
  <2>3. anchors' = anchors /\ Anchor' = Anchor
    BY <1>1, <1>5, <1>6 DEF Anchor
  <2>4. MissingPlanned' /\ InitialFits' /\ CommitteeSuffices' /\ RestoreIsLast'
    BY <1>1, <1>2, <1>6, <2>3
       DEF MissingPlanned, InitialFits, CommitteeSuffices, RestoreIsLast, DriverPlaces
  <2>5. CASE tool = "zkroam"
    BY <1>6, <2>1, <2>2, <2>4, <2>5, ZkroamIsQuiet
  <2>6. CASE tool = "ablation"
    BY <1>4, <1>6, <2>1, <2>2, <2>4, <2>6, AblationIsQuiet
  <2>7. CASE tool \notin {"zkroam", "ablation"}
    BY <1>6, <2>1, <2>7, OthersAreQuiet
  <2> QED
    BY <2>5, <2>6, <2>7
<1>7. CASE /\ Sends(Head(todo), NextNonce, FALSE) /\ Raise
           /\ tool = "ablation" => base' = NextNonce + 1
  <2>1. CASE tool = "ablation"
    BY <1>1, <1>4, <1>5, <1>7, <2>1, RaiseKeepsQuiet
  <2>2. CASE tool # "ablation"
    <3>1. tool' = "none" /\ pc' = "idle" /\ rows' = rows
      BY <1>7, <2>2 DEF Raise, Ended
    <3> QED
      BY <1>1, <1>2, <3>1, RowsKept, OthersAreQuiet
  <2> QED
    BY <2>1, <2>2
<1>8. CASE /\ tool = "ablation" /\ Raise
           /\ UNCHANGED <<nodeVars, anchors, delayed, base>>
  <2>1. NoncesAscend'
    BY <1>1, <1>2, <1>8, NoncesKept
  <2> QED
    BY <1>1, <1>8, <2>1, RaiseKeepsQuiet
<1> QED
  BY <1>6, <1>7, <1>8 DEF Send, SendCall, Refused

\* The restoring call is sent: it has the highest nonce, and was never on its way before.
LEMMA RestoreKeepsQuiet ==
  ASSUME ProvInv, QuietInv, Restore
  PROVE  QuietInv'
<1> DEFINE call == Call("set", initial)
<1>0. PICK new : new = Len(sent) + 1
  OBVIOUS
<1>1. /\ pc = "restore" /\ tool = "ablation"
      /\ UNCHANGED <<quiet, target, todo, signers, point, initial, claimed>>
  BY DEF Restore, SendCall, ProvInv, ToolInv, Places, DriverPlaces
<1>2. /\ ~claimed /\ RowsAreMeasured /\ QuietCalls /\ NoncesAscend /\ InitialFits
  BY <1>1, RunsUnclaimed DEF QuietInv
<1>3. call \in OwnerCall /\ call = [op |-> "set", at |-> target, arg |-> initial]
  BY DEF Call, OwnerCall, ProvInv, ToolInv, ToolTypes
<1>4. target \in DOMAIN anchors
  BY <1>1 DEF ProvInv, ToolInv, TargetIsThere
<1> HIDE DEF call
<1>5. CASE /\ Sends(call, NextNonce, TRUE) /\ waits' = {new} /\ pc' = "restoring"
           /\ UNCHANGED <<tool, rows>> /\ base' = NextNonce + 1
  <2>1. RowsAreMeasured' /\ ~claimed'
    BY <1>1, <1>2, <1>5, RowsKept
  <2>2. /\ NoncesAscend'
        /\ quiet => base' \in Nat /\ base' # Unread /\ base' - 1 = NextNonce
    BY <1>1, <1>2, <1>3, <1>5, SendKeepsNonces
  <2>3. /\ Enter(Owner, NextNonce, new) /\ delayed' = delayed /\ anchors' = anchors
        /\ sent' = Append(sent, call)
    BY <1>0, <1>5 DEF Sends
  <2>4. ChainTypes /\ ChainInv
    BY DEF ProvInv, ChainInv
  <2>5. /\ mined' = mined /\ DOMAIN Waiting' = DOMAIN Waiting \cup {NextNonce}
        /\ \A m \in DOMAIN Waiting : Waiting'[m] = Waiting[m]
    BY <2>3, <2>4, EnterEffect
  <2>6. /\ new \notin DOMAIN sent /\ new \in DOMAIN sent' /\ sent'[new] = call
    BY <1>0, <1>3, <2>3, <2>4, SentGrows
  <2>7. ~IsMined(new) /\ (\A d \in delayed : d.id # new) /\ \A n \in DOMAIN Waiting : Waiting[n] # new
    BY <2>4, <2>6 DEF ChainInv, CallsOnce, IsMined
  <2>8. ~IsMined(new)'
    BY <2>5, <2>7 DEF IsMined, Mined
  <2>9. quiet => \A n \in DOMAIN Waiting' : Waiting'[n] = new => n = base' - 1
    BY <2>2, <2>5, <2>7
  <2>10. RestoreIsLast'
    <3>1. SUFFICES ASSUME quiet PROVE RestoreIsLast'
      BY <1>1 DEF RestoreIsLast
    <3>2. \E x \in DOMAIN sent' :
            /\ waits' = {x} /\ sent'[x] = [op |-> "set", at |-> target', arg |-> initial']
            /\ base' # Unread
            /\ \A d \in delayed' : d.id # x
            /\ \A n \in DOMAIN Waiting' : Waiting'[n] = x => n = base' - 1
            /\ IsMined(x)' => LatestCount(Owner)' >= base' /\ Anchor'.threshold = initial'
      BY <1>1, <1>3, <1>5, <2>2, <2>3, <2>6, <2>7, <2>8, <2>9, <3>1
    <3> QED
      BY <3>2 DEF RestoreIsLast
  <2>11. QuietCalls' /\ InitialFits'
    BY <1>1, <1>2, <1>5, <2>3 DEF QuietCalls, InitialFits, Anchor
  <2> QED
    BY <1>1, <1>5, <2>1, <2>2, <2>10, <2>11, AblationIsQuiet
<1>6. CASE Raise
  <2>1. tool' = "none" /\ pc' = "idle" /\ rows' = rows
    BY <1>1, <1>6 DEF Raise, Ended
  <2> QED
    BY <1>1, <1>2, <2>1, RowsKept, OthersAreQuiet
<1> QED
  BY <1>0, <1>1, <1>5, <1>6 DEF Restore, SendCall, call

\* The receipt is there: the pool is empty again, and the call has had its effect.
LEMMA AwaitKeepsQuiet ==
  ASSUME ProvInv, QuietInv, Await
  PROVE  QuietInv'
<1>1. /\ pc = "wait" /\ UNCHANGED <<nodeVars, anchors, sent, delayed, quiet, base, waits>>
      /\ UNCHANGED <<signers, point, initial, claimed>>
  BY DEF Await
<1>2. tool \in {"deploy", "zkroam", "ablation"} /\ todo # <<>> /\ todo \in Seq(OwnerCall)
  BY <1>1 DEF ProvInv, ToolInv, ToolTypes, Places, WaitsForHead, DriverPlaces
<1>3. PICK w \in DOMAIN sent : waits = {w} /\ sent[w] = Head(todo)
  BY <1>1 DEF ProvInv, ToolInv, WaitsForHead
<1>4. /\ ~claimed /\ RowsAreMeasured /\ QuietCalls /\ NoncesAscend /\ InitialFits /\ MissingPlanned
  BY <1>2, RunsUnclaimed DEF QuietInv
<1>5. Waiting' = Waiting
  BY <1>1 DEF nodeVars, Waiting
<1>6. (tool = "ablation" \/ tool' # "ablation") => NoncesAscend'
  BY <1>1, <1>4, NoncesKept
<1>7. CASE /\ \A id \in waits : ReceiptOf(id) = {TRUE}
           /\ pc' = "send" /\ todo' = Tail(todo)
           /\ target' = IF Head(todo).op = "deploy" THEN Max(waits) ELSE target
           /\ UNCHANGED <<tool, rows>>
  <2>1. IsMinedOk(w)
    BY <1>3, <1>7, ReceiptMeansMined
  <2>2. RowsAreMeasured' /\ ~claimed'
    BY <1>1, <1>4, <1>7, RowsKept
  <2>3. QuietCalls'
    <3>1. \A n \in DOMAIN Waiting : Waiting[n] # w
      BY <2>1 DEF ProvInv, ChainInv, CallsOnce, IsMined, IsMinedOk
    <3> QED
      BY <1>1, <1>3, <1>4, <1>5, <1>7, <3>1 DEF QuietCalls
  <2>4. CASE tool = "deploy"
    BY <1>7, <2>2, <2>4, OthersAreQuiet
  <2>5. tool # "deploy" => target' = target /\ Head(todo).at = target /\ Anchor' = Anchor
    <3>1. Head(todo) = todo[1] /\ 1 \in DOMAIN todo
      BY <1>2
    <3>2. tool # "deploy" => Head(todo).op \in {"add", "set"} /\ Head(todo).at = target
      BY <1>2, <3>1 DEF ProvInv, ToolInv, TargetIsThere
    <3> QED
      BY <1>1, <1>7, <3>2 DEF Anchor
  <2>6. CASE tool = "zkroam"
    <3>1. ASSUME NEW a \in Attesters
          PROVE  \/ a \in Anchor.verifiers
                 \/ \E i \in DOMAIN Tail(todo) : Tail(todo)[i].op = "add" /\ Tail(todo)[i].arg = a
      <4>1. CASE a \in Anchor.verifiers
        BY <4>1
      <4>2. CASE \E i \in DOMAIN todo : todo[i].op = "add" /\ todo[i].arg = a
        <5>1. PICK i \in DOMAIN todo : todo[i].op = "add" /\ todo[i].arg = a
          BY <4>2
        <5>2. CASE i = 1
          <6>1. sent[w].op = "add" /\ sent[w].arg = a /\ sent[w].at = target
            BY <1>2, <1>3, <2>5, <2>6, <5>1, <5>2
          <6> QED
            BY <2>1, <6>1 DEF ProvInv, ChainInv, MinedTookEffect, Anchor
        <5>3. CASE i # 1
          <6>1. i - 1 \in DOMAIN Tail(todo) /\ Tail(todo)[i - 1] = todo[i]
            BY <1>2, <5>1, <5>3
          <6> QED
            BY <5>1, <6>1
        <5> QED
          BY <5>2, <5>3
      <4> QED
        BY <1>1, <1>4, <2>6, <4>1, <4>2 DEF MissingPlanned
    <3>2. MissingPlanned' /\ CommitteeSuffices'
      BY <1>7, <2>5, <2>6, <3>1 DEF MissingPlanned, CommitteeSuffices, DriverPlaces
    <3> QED
      BY <1>7, <2>2, <2>3, <2>6, <3>2, ZkroamIsQuiet
  <2>7. CASE tool = "ablation"
    <3>1. InitialFits' /\ RestoreIsLast'
      BY <1>1, <1>4, <1>7, <2>5, <2>7 DEF InitialFits, RestoreIsLast
    <3> QED
      BY <1>6, <1>7, <2>2, <2>3, <2>7, <3>1, AblationIsQuiet
  <2> QED
    BY <1>2, <2>4, <2>6, <2>7
<1>8. CASE Raise /\ UNCHANGED <<target, todo>>
  <2>1. tool = "ablation" \/ tool' # "ablation"
    BY <1>8 DEF Raise, Ended
  <2> QED
    BY <1>1, <1>2, <1>6, <1>8, <2>1, RaiseKeepsQuiet
<1> QED
  BY <1>7, <1>8 DEF Await

\* A tool begins: it looks whether anything is under way, and plans what is missing.
LEMMA StartKeepsQuiet ==
  ASSUME ProvInv, QuietInv, StartDeploy \/ StartZkroam \/ StartAblation \/ StartPlain
  PROVE  QuietInv'
<1>1. /\ UNCHANGED <<nodeVars, anchors, sent, delayed>> /\ ~claimed' /\ pc' # "relay"
      /\ quiet' = (DOMAIN pool[Owner] = {} /\ delayed = {}) /\ base' = Unread /\ waits' = {}
  BY DEF StartDeploy, StartZkroam, StartAblation, StartPlain, Start
<1>2. (quiet' <=> NothingUnderWay) /\ quiet' \in BOOLEAN
  BY <1>1 DEF NothingUnderWay, Waiting
<1>3. Waiting' = Waiting
  BY <1>1 DEF nodeVars, Waiting
<1>4. rows' = rows => RowsAreMeasured'
  <2>1. SUFFICES ASSUME rows' = rows PROVE RowsAreMeasured'
    OBVIOUS
  <2>2. RowsAreMeasured /\ PointsAreEnforced'
    BY <2>1 DEF QuietInv, RowsAreMeasured, PointsAreEnforced
  <2>3. rows' \in Seq(ResultRow)
    BY <2>1, <2>2 DEF RowsAreMeasured
  <2> QED
    BY <1>1, <1>2, <2>2, <2>3 DEF RowsAreMeasured
<1>5. CASE StartDeploy \/ StartPlain
  <2>1. tool' \in {"deploy", "plain"} /\ rows' = rows
    BY <1>5 DEF StartDeploy, StartPlain, Start
  <2> QED
    BY <1>1, <1>4, <2>1, OthersAreQuiet
<1>6. CASE StartZkroam
  <2>1. /\ tool' = "zkroam" /\ pc' = "send" /\ rows' = rows /\ file # 0 /\ target' = file
    BY <1>6 DEF StartZkroam, Start
  <2>2. PICK t \in Thresholds :
             LET adds == Ascending(missing(file))
                 set == IF t # 0 /\ anchors[file].threshold # t THEN <<t>> ELSE <<>>
             IN  todo' = [i \in DOMAIN adds |-> [op |-> "add", at |-> file, arg |-> adds[i]]] \o
                         [i \in DOMAIN set |-> [op |-> "set", at |-> file, arg |-> set[i]]]
    BY <1>6 DEF StartZkroam, Start
  <2> DEFINE adds == Ascending(missing(file))
             set == IF t # 0 /\ anchors[file].threshold # t THEN <<t>> ELSE <<>>
             first == [i \in DOMAIN adds |-> [op |-> "add", at |-> file, arg |-> adds[i]]]
             second == [i \in DOMAIN set |-> [op |-> "set", at |-> file, arg |-> set[i]]]
             AddCalls == [op : {"add"}, at : {file}, arg : missing(file)]
             SetCalls == [op : {"set"}, at : {file}, arg : Thresholds]
  <2>3. missing(file) \subseteq Nat /\ IsFiniteSet(missing(file))
    <3>1. Attesters \subseteq Nat /\ IsFiniteSet(Attesters)
      BY ZkroamConfigAssumption DEF ValidZkroamConfig
    <3>2. missing(file) \in SUBSET Attesters
      BY DEF missing
    <3> QED
      BY <3>1, <3>2, FS_Subset
  <2>4. /\ adds \in Seq(missing(file))
        /\ \A a \in missing(file) : \E i \in DOMAIN adds : adds[i] = a
    BY <2>3, AscendingLists
  <2>5. first \in Seq(AddCalls) /\ DOMAIN first = DOMAIN adds
    <3>1. DOMAIN adds = 1 .. Len(adds) /\ Len(adds) \in Nat /\ \A i \in DOMAIN adds : adds[i] \in missing(file)
      <4> HIDE DEF adds
      <4> QED
        BY <2>4
    <3> HIDE DEF adds
    <3>2. first \in [1 .. Len(adds) -> AddCalls]
      BY <3>1
    <3>3. DOMAIN first = DOMAIN adds
      OBVIOUS
    <3> HIDE DEF first, AddCalls
    <3> QED
      BY <3>1, <3>2, <3>3
  <2>6. second \in Seq(SetCalls)
    <3>1. set \in Seq(Thresholds)
      OBVIOUS
    <3>2. DOMAIN set = 1 .. Len(set) /\ Len(set) \in Nat /\ \A i \in DOMAIN set : set[i] \in Thresholds
      <4> HIDE DEF set
      <4> QED
        BY <3>1
    <3> HIDE DEF set
    <3>3. second \in [1 .. Len(set) -> SetCalls]
      BY <3>2
    <3> HIDE DEF second, SetCalls
    <3> QED
      BY <3>2, <3>3
  <2>7. todo' = first \o second
    BY <2>2
  <2>8. \A i \in DOMAIN adds : first[i].op = "add" /\ first[i].arg = adds[i]
    OBVIOUS
  <2> HIDE DEF first, second
  <2>9. \A i \in DOMAIN first : i \in DOMAIN todo' /\ todo'[i] = first[i]
    BY <2>5, <2>6, <2>7
  <2> HIDE DEF adds, set
  <2>10. ASSUME NEW a \in Attesters
         PROVE  \/ a \in anchors[file].verifiers
                \/ \E i \in DOMAIN todo' : todo'[i].op = "add" /\ todo'[i].arg = a
    <3>1. CASE a \in missing(file)
      <4>1. PICK i \in DOMAIN adds : adds[i] = a
        BY <2>4, <3>1
      <4> QED
        BY <2>5, <2>8, <2>9, <4>1
    <3>2. CASE a \notin missing(file)
      BY <3>2 DEF missing
    <3> QED
      BY <3>1, <3>2
  <2>11. MissingPlanned'
    BY <1>1, <2>1, <2>10 DEF MissingPlanned, Anchor
  <2>12. QuietCalls' /\ CommitteeSuffices'
    BY <1>1, <1>2, <1>3, <2>1
       DEF QuietCalls, CommitteeSuffices, DriverPlaces, NothingUnderWay
  <2> QED
    BY <1>1, <1>4, <2>1, <2>11, <2>12, ZkroamIsQuiet
<1>7. CASE StartAblation
  <2>1. /\ tool' = "ablation" /\ pc' = "send" /\ rows' = <<>> /\ file # 0 /\ target' = file
        /\ initial' = anchors[file].threshold
    BY <1>7 DEF StartAblation, Start
  <2>2. file \in DOMAIN anchors
    BY <2>1 DEF ProvInv, ToolInv, FileIsProvisioned
  <2>3. InitialFits'
    BY <1>1, <2>1, <2>2 DEF InitialFits, Anchor, ProvInv, ChainInv, AnchorsSound
  <2>4. NoncesAscend'
    BY <1>1, <1>2, <1>3 DEF NoncesAscend, NothingUnderWay
  <2>5. QuietCalls' /\ RestoreIsLast'
    BY <1>1, <1>2, <1>3, <2>1 DEF QuietCalls, RestoreIsLast, NothingUnderWay
  <2>6. RowsAreMeasured'
    BY <1>1, <1>2, <2>1, NoRows
  <2> QED
    BY <1>1, <2>1, <2>3, <2>4, <2>5, <2>6, AblationIsQuiet
<1> QED
  BY <1>5, <1>6, <1>7

\* deploy_verifiers.py is promised nothing.
LEMMA DeployKeepsQuiet ==
  ASSUME ProvInv, QuietInv, PlanAdds \/ SpreadAdd \/ FinishDeploy
  PROVE  QuietInv'
<1>1. tool = "deploy"
  BY DEF PlanAdds, SpreadAdd, FinishDeploy, ProvInv, ToolInv, Places, DriverPlaces
<1>2. rows' = rows /\ quiet' = quiet /\ claimed' = claimed
  BY DEF PlanAdds, SpreadAdd, FinishDeploy, localVars
<1>3. tool' \in {"deploy", "none"} /\ pc' # "relay"
  BY <1>1 DEF PlanAdds, SpreadAdd, FinishDeploy, Ended
<1> QED
  BY <1>1, <1>2, <1>3, RunsUnclaimed, RowsKept, OthersAreQuiet DEF QuietInv

\* The committee's first accounts, as many as the threshold asks for, all of them verifiers.
LEMMA FinishEnsureKeepsQuiet ==
  ASSUME ProvInv, QuietInv, FinishEnsure
  PROVE  QuietInv'
<1>1. /\ tool = "zkroam" /\ pc = "send" /\ todo = <<>>
      /\ UNCHANGED <<nodeVars, anchors, delayed, quiet, target, rows, claimed>>
  BY DEF FinishEnsure
<1>2. ~claimed' /\ RowsAreMeasured
  BY <1>1, RunsUnclaimed DEF QuietInv
<1>3. CASE Ended
  BY <1>1, <1>2, <1>3, RowsKept, OthersAreQuiet DEF Ended
<1>4. CASE /\ ~(Anchor.threshold > Cardinality(Attesters))
           /\ pc' = "ready" /\ tool' = tool
           /\ signers' = {a \in Attesters : Rank(a, Attesters) <= Anchor.threshold}
  <2>1. Anchor' = Anchor
    BY <1>1 DEF Anchor
  <2>2. DOMAIN todo = {}
    BY <1>1
  <2>3. Attesters \subseteq Anchor.verifiers
    BY <1>1, <2>2 DEF QuietInv, MissingPlanned
  <2>4. Anchor.threshold \in Nat
    BY <1>1 DEF Anchor, ProvInv, ToolInv, TargetIsThere, ChainInv, AnchorsSound
  <2>5. Attesters \subseteq Nat /\ IsFiniteSet(Attesters) /\ Cardinality(Attesters) \in Nat
    BY ZkroamConfigAssumption DEF ValidZkroamConfig
  <2>6. Anchor.threshold \in 0 .. Cardinality(Attesters)
    BY <1>4, <2>4, <2>5
  <2>7. Cardinality(signers') = Anchor.threshold
    BY <1>4, <2>5, <2>6, FirstAreMany
  <2>8. signers' \subseteq Anchor.verifiers /\ Cardinality(signers') >= Anchor.threshold
    BY <1>4, <2>3, <2>4, <2>7
  <2>9. CommitteeSuffices' /\ MissingPlanned'
    BY <1>4, <2>1, <2>8 DEF CommitteeSuffices, MissingPlanned, Finalizes
  <2>10. QuietCalls' /\ RowsAreMeasured'
    BY <1>1, <1>2, <1>4, QuietCallsKept, RowsKept DEF QuietInv
  <2> QED
    BY <1>1, <1>2, <1>4, <2>9, <2>10, ZkroamIsQuiet
<1> QED
  BY <1>3, <1>4 DEF FinishEnsure

\* The ablation plans a call.
LEMMA ConfigureKeepsQuiet ==
  ASSUME ProvInv, QuietInv, Configure
  PROVE  QuietInv'
<1>1. /\ tool = "ablation" /\ pc = "send" /\ tool' = tool /\ pc' = pc
      /\ UNCHANGED <<nodeVars, anchors, delayed, quiet, target, base, rows, initial, claimed>>
  BY DEF Configure
<1>2. ~claimed' /\ RowsAreMeasured /\ QuietCalls /\ NoncesAscend /\ InitialFits
  BY <1>1, RunsUnclaimed DEF QuietInv
<1>3. RowsAreMeasured' /\ QuietCalls' /\ NoncesAscend'
  BY <1>1, <1>2, RowsKept, QuietCallsKept, NoncesKept
<1>4. InitialFits' /\ RestoreIsLast'
  BY <1>1, <1>2 DEF InitialFits, RestoreIsLast, Anchor
<1> QED
  BY <1>1, <1>2, <1>3, <1>4, AblationIsQuiet

\* A row more.
LEMMA RowAdded ==
  ASSUME RowsAreMeasured, NEW r \in ResultRow, rows' = Append(rows, r), quiet' = quiet,
         r.quiet = quiet, r.final = r.relays, r.boundary # "VIOLATION",
         pc' = "relay", quiet => Anchor'.threshold = T' /\ signers' = 0 .. T' - 1
  PROVE  RowsAreMeasured'
<1>1. rows \in Seq(ResultRow) /\ Len(rows) \in Nat
  BY DEF RowsAreMeasured
<1>2. /\ rows' \in Seq(ResultRow) /\ Len(rows') = Len(rows) + 1 /\ rows'[Len(rows) + 1] = r
      /\ \A i \in 1 .. Len(rows) : rows'[i] = rows[i]
  BY <1>1, AppendProperties
<1>3. DOMAIN rows' = 1 .. Len(rows) + 1 /\ DOMAIN rows = 1 .. Len(rows)
  BY <1>1, <1>2
<1>4. ASSUME NEW i \in DOMAIN rows', rows'[i].quiet
      PROVE  rows'[i].final = rows'[i].relays /\ rows'[i].boundary # "VIOLATION"
  <2>1. CASE i \in DOMAIN rows
    BY <1>2, <1>3, <1>4, <2>1 DEF RowsAreMeasured, PointsAreEnforced
  <2>2. CASE i = Len(rows) + 1
    BY <1>2, <2>2
  <2> QED
    BY <1>1, <1>3, <2>1, <2>2
<1>5. rows' # <<>> /\ lastRow' = r
  BY <1>1, <1>2 DEF lastRow
<1>6. PointsAreEnforced'
  BY <1>4 DEF PointsAreEnforced
<1>7. quiet' \in BOOLEAN /\ lastRow'.quiet = quiet'
  BY <1>5 DEF RowsAreMeasured
<1>8. quiet' => Anchor'.threshold = T' /\ signers' = 0 .. T' - 1
  OBVIOUS
<1> QED
  BY <1>2, <1>5, <1>6, <1>7, <1>8 DEF RowsAreMeasured

\* The last row written.
LEMMA RowChanged ==
  ASSUME RowsAreMeasured, rows # <<>>, NEW r \in ResultRow, r.quiet = lastRow.quiet,
         rows' = [rows EXCEPT ![Len(rows)] = r], quiet' = quiet,
         r.quiet => r.final = r.relays /\ r.boundary # "VIOLATION",
         pc' = "relay" => pc = "relay" /\ Anchor' = Anchor /\ T' = T /\ signers' = signers
  PROVE  RowsAreMeasured'
<1>1. rows \in Seq(ResultRow) /\ Len(rows) \in DOMAIN rows /\ DOMAIN rows = 1 .. Len(rows)
      /\ Len(rows) \in Nat
  BY DEF RowsAreMeasured
<1>2. /\ rows' \in Seq(ResultRow) /\ Len(rows') = Len(rows) /\ rows'[Len(rows)] = r
      /\ DOMAIN rows' = DOMAIN rows
      /\ \A i \in DOMAIN rows : i # Len(rows) => rows'[i] = rows[i]
  BY <1>1
<1>3. ASSUME NEW i \in DOMAIN rows', rows'[i].quiet
      PROVE  rows'[i].final = rows'[i].relays /\ rows'[i].boundary # "VIOLATION"
  <2>1. CASE i # Len(rows)
    BY <1>2, <1>3, <2>1 DEF RowsAreMeasured, PointsAreEnforced
  <2>2. CASE i = Len(rows)
    BY <1>2, <1>3, <2>2
  <2> QED
    BY <2>1, <2>2
<1>4. PointsAreEnforced'
  BY <1>3 DEF PointsAreEnforced
<1>5. rows' # <<>> /\ lastRow' = r
  <2>1. Len(rows') # 0
    BY <1>1, <1>2
  <2>2. rows' # <<>>
    BY <2>1
  <2> QED
    BY <1>2, <2>2 DEF lastRow
<1>6. quiet' \in BOOLEAN
  BY DEF RowsAreMeasured
<1>7. pc' = "relay" => lastRow'.quiet = quiet'
  BY <1>5 DEF RowsAreMeasured
<1>8. ASSUME pc' = "relay", quiet' PROVE Anchor'.threshold = T' /\ signers' = 0 .. T' - 1
  BY <1>8 DEF RowsAreMeasured
<1> QED
  BY <1>2, <1>4, <1>5, <1>6, <1>7, <1>8 DEF RowsAreMeasured

\* The ablation begins a row: the threshold is what it should be.
LEMMA MeasureKeepsQuiet ==
  ASSUME ProvInv, QuietInv, Measure
  PROVE  QuietInv'
<1>1. /\ tool = "ablation" /\ pc = "send" /\ anchors' = anchors
      /\ UNCHANGED <<nodeVars, delayed, quiet, target, base, initial, claimed, point>>
  BY DEF Measure
<1>2. ~claimed' /\ RowsAreMeasured /\ QuietCalls /\ NoncesAscend /\ InitialFits /\ quiet \in BOOLEAN
  BY <1>1, RunsUnclaimed DEF QuietInv, RowsAreMeasured
<1>3. NoncesAscend'
  BY <1>1, <1>2, NoncesKept
<1>4. CASE Raise
  BY <1>1, <1>3, <1>4, RaiseKeepsQuiet
<1>5. CASE /\ Anchor.threshold = T /\ signers' = 0 .. T - 1 /\ pc' = "relay" /\ tool' = tool
           /\ rows' = Append(rows, [t |-> T, relays |-> 0, final |-> 0, boundary |-> "untested", quiet |-> quiet])
  <2> DEFINE r == [t |-> T, relays |-> 0, final |-> 0, boundary |-> "untested", quiet |-> quiet]
  <2>1. T \in Nat
    <3>1. T \in 1 .. 50
      BY <1>1, PointIsANumber DEF ProvInv
    <3> QED
      BY <3>1
  <2>2. r \in ResultRow
    <3>1. 0 \in Nat /\ "untested" \in Verdicts
      BY DEF Verdicts
    <3> QED
      BY <1>2, <2>1, <3>1, Zenon DEF ResultRow
  <2>3. r.quiet = quiet /\ r.final = r.relays /\ r.boundary # "VIOLATION"
    OBVIOUS
  <2>4. Anchor' = Anchor /\ T' = T
    BY <1>1 DEF Anchor, T
  <2>5. rows' = Append(rows, r)
    BY <1>5
  <2> HIDE DEF r
  <2>6. RowsAreMeasured'
    BY <1>1, <1>2, <1>5, <2>2, <2>3, <2>4, <2>5, RowAdded
  <2>7. QuietCalls'
    BY <1>1, <1>2, <1>5, QuietCallsKept
  <2>8. InitialFits' /\ RestoreIsLast'
    BY <1>1, <1>2, <1>5, <2>4 DEF InitialFits, RestoreIsLast
  <2> QED
    BY <1>1, <1>2, <1>3, <1>5, <2>6, <2>7, <2>8, AblationIsQuiet
<1> QED
  BY <1>4, <1>5 DEF Measure

\* T signatures are enough, and one less is not: the threshold is still T.
LEMMA RelayKeepsQuiet ==
  ASSUME ProvInv, QuietInv, Relay \/ NextPoint
  PROVE  QuietInv'
<1>1. /\ pc = "relay" /\ anchors' = anchors
      /\ UNCHANGED <<nodeVars, delayed, quiet, target, base, initial, claimed, signers>>
  BY DEF Relay, NextPoint
<1>2. tool = "ablation"
  BY <1>1 DEF ProvInv, ToolInv, Places, DriverPlaces
<1>3. ~claimed' /\ RowsAreMeasured /\ QuietCalls /\ NoncesAscend /\ InitialFits /\ quiet \in BOOLEAN
  BY <1>1, <1>2, RunsUnclaimed DEF QuietInv, RowsAreMeasured
<1>4. NoncesAscend' /\ Anchor' = Anchor
  BY <1>1, <1>2, <1>3, NoncesKept DEF Anchor
<1>5. T \in Nat /\ T >= 1 /\ T \in Int
  <2>1. T \in 1 .. 50
    BY <1>2, PointIsANumber DEF ProvInv
  <2> QED
    BY <2>1
<1>6. /\ rows \in Seq(ResultRow) /\ rows # <<>> /\ lastRow.quiet = quiet
      /\ PointsAreEnforced
  BY <1>1, <1>3 DEF RowsAreMeasured
<1>7. /\ Len(rows) \in DOMAIN rows /\ lastRow \in ResultRow
      /\ quiet => lastRow.final = lastRow.relays /\ lastRow.boundary # "VIOLATION"
  BY <1>6 DEF lastRow, PointsAreEnforced
<1>8. quiet => Anchor.threshold = T /\ Cardinality(signers) = T
  <2>1. SUFFICES ASSUME quiet PROVE Anchor.threshold = T /\ Cardinality(signers) = T
    OBVIOUS
  <2>2. Anchor.threshold = T /\ signers = 0 .. T - 1
    BY <1>1, <1>3, <2>1 DEF RowsAreMeasured
  <2>3. 0 \in Int /\ T - 1 \in Int /\ 0 <= T - 1 /\ T - 1 - 0 + 1 = T
    BY <1>5
  <2>4. Cardinality(0 .. T - 1) = T
    BY <2>3, FS_Interval
  <2> QED
    BY <2>2, <2>4
<1>9. ASSUME NEW r \in ResultRow, rows' = [rows EXCEPT ![Len(rows)] = r], r.quiet = lastRow.quiet,
             r.quiet => r.final = r.relays /\ r.boundary # "VIOLATION",
             tool' = tool, pc' \in {"relay", "send", "restore"},
             pc' = "relay" => T' = T
      PROVE  QuietInv'
  <2>1. RowsAreMeasured'
    BY <1>1, <1>3, <1>4, <1>6, <1>9, RowChanged
  <2>2. QuietCalls'
    BY <1>1, <1>2, <1>3, <1>9, QuietCallsKept
  <2>3. InitialFits' /\ RestoreIsLast'
    BY <1>1, <1>2, <1>3, <1>4, <1>9 DEF InitialFits, RestoreIsLast
  <2> QED
    BY <1>2, <1>3, <1>4, <1>9, <2>1, <2>2, <2>3, AblationIsQuiet
<1>10. CASE Relay
  <2>1. CASE Raise
    BY <1>1, <1>2, <1>4, <2>1, RaiseKeepsQuiet
  <2>2. CASE /\ rows' = [rows EXCEPT ![Len(rows)].relays = @ + 1,
                                ![Len(rows)].final = @ + (IF Finalizes(Cardinality(signers)) THEN 1 ELSE 0)]
             /\ UNCHANGED <<mishaps, tool, pc>>
    <3> DEFINE more == IF Finalizes(Cardinality(signers)) THEN 1 ELSE 0
               r == [lastRow EXCEPT !.relays = @ + 1, !.final = @ + more]
    <3>1. rows' = [rows EXCEPT ![Len(rows)] = r]
      BY <1>7, <2>2 DEF lastRow
    <3>2. more \in Nat
      OBVIOUS
    <3>3. quiet => more = 1
      BY <1>5, <1>8 DEF Finalizes
    <3> HIDE DEF more
    <3>4. /\ r \in ResultRow /\ r.quiet = lastRow.quiet /\ r.boundary = lastRow.boundary
          /\ r.relays = lastRow.relays + 1 /\ r.final = lastRow.final + more
      <4> DEFINE r1 == [lastRow EXCEPT !.relays = @ + 1]
      <4>1. /\ r1 \in ResultRow /\ r1.quiet = lastRow.quiet /\ r1.boundary = lastRow.boundary
            /\ r1.relays = lastRow.relays + 1 /\ r1.final = lastRow.final
        BY <1>7 DEF ResultRow
      <4>2. r = [r1 EXCEPT !.final = lastRow.final + more]
        OBVIOUS
      <4> HIDE DEF r1, r
      <4> QED
        BY <3>2, <4>1, <4>2 DEF ResultRow
    <3> HIDE DEF r
    <3>5. r.quiet => r.final = r.relays /\ r.boundary # "VIOLATION"
      BY <1>6, <1>7, <3>3, <3>4
    <3>6. T' = T
      BY <1>10 DEF Relay, T
    <3> QED
      BY <1>1, <1>9, <2>2, <3>1, <3>4, <3>5, <3>6
  <2> QED
    BY <1>10, <2>1, <2>2 DEF Relay
<1>11. CASE NextPoint
  <2> DEFINE r == [lastRow EXCEPT !.boundary = boundary]
  <2>1. rows' = [rows EXCEPT ![Len(rows)] = r]
    BY <1>7, <1>11 DEF NextPoint, SetRow, lastRow
  <2>2. boundary \in Verdicts /\ (quiet => boundary # "VIOLATION")
    <3>1. boundary \in {"n/a", "VIOLATION", "ok"}
      BY DEF boundary
    <3>2. quiet => ~Finalizes(Cardinality(signers) - 1)
      BY <1>5, <1>8 DEF Finalizes
    <3>3. quiet => boundary # "VIOLATION"
      BY <3>2, Zenon DEF boundary
    <3>4. boundary \in Verdicts
      BY <3>1 DEF Verdicts
    <3> QED
      BY <3>3, <3>4
  <2>3. /\ r \in ResultRow /\ r.quiet = lastRow.quiet /\ r.boundary = boundary
        /\ r.relays = lastRow.relays /\ r.final = lastRow.final
    BY <1>7, <2>2 DEF ResultRow
  <2> HIDE DEF r
  <2>4. r.quiet => r.final = r.relays /\ r.boundary # "VIOLATION"
    BY <1>6, <1>7, <2>2, <2>3
  <2>5. tool' = tool /\ pc' \in {"send", "restore"}
    BY <1>11 DEF NextPoint
  <2> QED
    BY <1>9, <2>1, <2>3, <2>4, <2>5
<1> QED
  BY <1>10, <1>11

\* The ablation reports what a receipt says: the restoring call is in a block, it has had its
\* effect, and no call of the ablation can follow it.
LEMMA FinishRestoreKeepsQuiet ==
  ASSUME ProvInv, QuietInv, FinishRestore
  PROVE  QuietInv'
<1>1. /\ pc = "restoring" /\ tool = "ablation" /\ tool' = "none" /\ pc' = "idle"
      /\ UNCHANGED <<nodeVars, anchors, delayed, quiet, target, base, waits, rows, initial>>
      /\ claimed' = \A id \in waits : ReceiptOf(id) # {}
  BY DEF FinishRestore, Ended, ProvInv, ToolInv, Places, DriverPlaces
<1>2. RowsAreMeasured'
  BY <1>1, RowsKept DEF QuietInv
<1>3. CASE ~claimed'
  BY <1>1, <1>2, <1>3, OthersAreQuiet
<1>4. CASE claimed'
  <2>1. NoncesAscend'
    BY <1>1, NoncesKept DEF QuietInv
  <2>2. target' \in DOMAIN anchors'
    BY <1>1 DEF ProvInv, ToolInv, TargetIsThere
  <2>3. ASSUME quiet
        PROVE  base # Unread /\ LatestCount(Owner) >= base /\ Anchor.threshold = initial
    <3>1. PICK w \in DOMAIN sent :
            /\ waits = {w} /\ base # Unread
            /\ IsMined(w) => LatestCount(Owner) >= base /\ Anchor.threshold = initial
      BY <1>1, <2>3 DEF QuietInv, RestoreIsLast
    <3>2. ReceiptOf(w) # {}
      BY <1>1, <1>4, <3>1
    <3>3. IsMined(w)
      BY <3>2, ReceiptMeansThere
    <3> QED
      BY <3>1, <3>3
  <2>4. LatestCount(Owner)' = LatestCount(Owner) /\ Anchor' = Anchor
    BY <1>1 DEF LatestCount, Anchor, nodeVars
  <2>5. RestoredStays'
    BY <1>1, <2>2, <2>3, <2>4 DEF RestoredStays
  <2>6. QuietCalls' /\ MissingPlanned' /\ CommitteeSuffices' /\ RestoreIsLast' /\ InitialFits'
    BY <1>1 DEF QuietCalls, MissingPlanned, CommitteeSuffices, RestoreIsLast, InitialFits
  <2> QED
    BY <1>2, <2>1, <2>5, <2>6 DEF QuietInv
<1> QED
  BY <1>3, <1>4

\* The workload's driver leaves its committee and the chain of the owner alone.
LEMMA DriverKeepsQuiet ==
  ASSUME ProvInv, QuietInv, Driver
  PROVE  QuietInv'
<1>1. /\ UNCHANGED <<nodeVars, anchors, delayed, quiet>>
      /\ UNCHANGED <<target, signers, rows, claimed, todo>>
  BY DEF Driver, localVars
<1>2. /\ pc \in DriverPlaces
      /\ Ended \/ (tool' = tool /\ pc' \in DriverPlaces)
  BY DriverPlacesKept DEF ProvInv
<1>3. tool \in {"zkroam", "plain"}
  BY <1>2 DEF ProvInv, ToolInv, Places, DriverPlaces
<1>4. pc # "wait" /\ pc' # "wait" /\ pc' # "relay"
  BY <1>2 DEF Ended, DriverPlaces
<1>5. ~claimed' /\ RowsAreMeasured'
  BY <1>1, <1>3, <1>4, RunsUnclaimed, RowsKept DEF QuietInv
<1>6. CASE tool' \in {"none", "plain"}
  BY <1>5, <1>6, OthersAreQuiet
<1>7. CASE tool = "zkroam" /\ tool' = tool /\ pc' \in DriverPlaces
  <2>1. QuietCalls'
    BY <1>1, <1>4, <1>7, QuietCallsKept DEF QuietInv
  <2>2. MissingPlanned'
    BY <1>7 DEF MissingPlanned, DriverPlaces
  <2>3. CommitteeSuffices'
    BY <1>1, <1>2, <1>7 DEF QuietInv, CommitteeSuffices, Anchor, Finalizes
  <2> QED
    BY <1>5, <1>7, <2>1, <2>2, <2>3, ZkroamIsQuiet
<1> QED
  BY <1>2, <1>3, <1>6, <1>7 DEF Ended

\* In the beginning nobody has begun.
LEMMA QuietInvInitially ==
  ASSUME WorkInit
  PROVE  QuietInv
<1>1. tool = "none" /\ pc = "idle" /\ rows = <<>> /\ quiet = TRUE /\ claimed = FALSE
  BY DEF WorkInit, ProvInit
<1>2. rows \in Seq(ResultRow) /\ DOMAIN rows = {}
  BY <1>1
<1>3. RowsAreMeasured
  BY <1>1, <1>2 DEF RowsAreMeasured, PointsAreEnforced
<1>4. QuietCalls /\ MissingPlanned /\ CommitteeSuffices /\ NoncesAscend /\ RestoreIsLast
  BY <1>1 DEF QuietCalls, MissingPlanned, CommitteeSuffices, NoncesAscend, RestoreIsLast
<1>5. InitialFits /\ RestoredStays
  BY <1>1 DEF InitialFits, RestoredStays
<1> QED
  BY <1>3, <1>4, <1>5 DEF QuietInv

\* A step of the owner's chain or of a tool.
LEMMA ProvisioningKeepsQuiet ==
  ASSUME ProvInv, ProvInv', QuietInv, ProvNext \/ StartPlain
  PROVE  QuietInv'
<1>1. CASE Chain
  BY <1>1, ChainKeepsQuiet
<1>2. CASE Send
  BY <1>2, SendKeepsQuiet
<1>3. CASE Restore
  BY <1>3, RestoreKeepsQuiet
<1>4. CASE PlanAdds \/ SpreadAdd \/ FinishDeploy
  BY <1>4, DeployKeepsQuiet
<1>5. CASE StartDeploy \/ StartZkroam \/ StartAblation \/ StartPlain
  BY <1>5, StartKeepsQuiet
<1>6. CASE FinishEnsure
  BY <1>6, FinishEnsureKeepsQuiet
<1>7. CASE Configure
  BY <1>7, ConfigureKeepsQuiet
<1>8. CASE Measure
  BY <1>8, MeasureKeepsQuiet
<1>9. CASE Relay \/ NextPoint
  BY <1>9, RelayKeepsQuiet
<1>10. CASE FinishRestore
  BY <1>10, FinishRestoreKeepsQuiet
<1>11. CASE Await
  BY <1>11, AwaitKeepsQuiet
<1> QED
  BY <1>1, <1>2, <1>3, <1>4, <1>5, <1>6, <1>7, <1>8, <1>9, <1>10, <1>11 DEF ProvNext, Tools

\* What changes nothing of the tools and their chain changes nothing of what they rely on.
LEMMA StutterKeepsQuiet ==
  ASSUME QuietInv, UNCHANGED provVars
  PROVE  QuietInv'
<1>1. /\ UNCHANGED <<nodeVars, anchors, sent, delayed, tool, pc, quiet>>
      /\ UNCHANGED <<target, base, todo, waits, signers, point, rows, initial, claimed>>
  BY DEF provVars, localVars
<1>2. /\ Waiting' = Waiting /\ Mined' = Mined /\ LatestCount(Owner)' = LatestCount(Owner)
      /\ Anchor' = Anchor /\ T' = T /\ lastRow' = lastRow
  BY <1>1 DEF nodeVars, Waiting, Mined, LatestCount, Anchor, T, lastRow
<1>3. QuietCalls' /\ MissingPlanned' /\ CommitteeSuffices'
  BY <1>1, <1>2 DEF QuietInv, QuietCalls, MissingPlanned, CommitteeSuffices, Finalizes
<1>4. NoncesAscend' /\ InitialFits' /\ RestoredStays'
  BY <1>1, <1>2 DEF QuietInv, NoncesAscend, NothingUnderWay, Below, InitialFits, RestoredStays
<1>5. RestoreIsLast'
  BY <1>1, <1>2 DEF QuietInv, RestoreIsLast, IsMined
<1>6. RowsAreMeasured'
  BY <1>1, <1>2 DEF QuietInv, RowsAreMeasured, PointsAreEnforced
<1> QED
  BY <1>3, <1>4, <1>5, <1>6 DEF QuietInv

\* The invariant of the tools that began with nothing under way.
LEMMA QuietInvHolds == WorkSpec => []QuietInv
<1>1. WorkInit => QuietInv
  BY QuietInvInitially
<1>2. ProvInv /\ ProvInv' /\ QuietInv /\ [WorkNext]_allVars => QuietInv'
  <2> SUFFICES ASSUME ProvInv, ProvInv', QuietInv, [WorkNext]_allVars PROVE QuietInv'
    OBVIOUS
  <2>1. CASE ProvNext \/ StartPlain
    BY <2>1, ProvisioningKeepsQuiet
  <2>2. CASE Driver
    BY <2>2, DriverKeepsQuiet
  <2>3. CASE UNCHANGED provVars
    BY <2>3, StutterKeepsQuiet
  <2> QED
    BY <2>1, <2>2, <2>3 DEF WorkNext, allVars
<1> QED
  BY <1>1, <1>2, ProvInvHolds, PTL DEF WorkSpec

\* A workload relays with enough signatures of verifiers (ensure_attesters), unless a call of
\* the owner was under way when it began.
THEOREM CommitteeSigns == WorkSpec => []SignersSuffice
<1>1. QuietInv => SignersSuffice
  BY DEF QuietInv, CommitteeSuffices, SignersSuffice, DriverPlaces
<1> QED
  BY <1>1, QuietInvHolds, PTL

\* Every row of the ablation measures its own threshold, and no threshold gives way to one
\* signature less (zkroam_threshold_ablation.py).
THEOREM AblationMeasures == WorkSpec => []PointsAreEnforced
<1>1. QuietInv => PointsAreEnforced
  BY DEF QuietInv, RowsAreMeasured
<1> QED
  BY <1>1, QuietInvHolds, PTL

\* What the ablation reports restored is restored, and stays so until another tool begins,
\* however many of its calls were lost, late or evicted.
THEOREM AblationRestores == WorkSpec => []RestoredForGood
<1>1. QuietInv => RestoredForGood
  BY DEF QuietInv, RestoredStays, RestoredForGood
<1> QED
  BY <1>1, QuietInvHolds, PTL

------------------------------------------------------------------------------
\* The calls of the legs.

\* What FlattenSeq is made of: the sequences put together one after the other.
LEMMA FlattenIsBuilt ==
  ASSUME NEW S, NEW ss \in Seq(Seq(S)), ss # <<>>
  PROVE  \E f \in [1 .. Len(ss) -> Seq(S)] :
           /\ FlattenSeq(ss) = f[Len(ss)]
           /\ \A i \in 1 .. Len(ss) : f[i] = IF i = 1 THEN ss[i] ELSE f[i - 1] \o ss[i]
<1> DEFINE n == Len(ss)
           Builds(f, m) == \A i \in 1 .. m : f[i] = IF i = 1 THEN ss[i] ELSE f[i - 1] \o ss[i]
           Bad == {m \in 1 .. n : ~ \E f \in [1 .. m -> Seq(S)] : Builds(f, m)}
<1>1. n \in Nat /\ n >= 1 /\ \A i \in 1 .. n : ss[i] \in Seq(S)
  BY EmptySeq
<1>2. ASSUME Bad # {} PROVE FALSE
  <2>1. Bad \subseteq Nat
    OBVIOUS
  <2>2. PICK m \in Bad : \A k \in Bad : m <= k
    <3> HIDE DEF Bad
    <3> QED
      BY <1>2, <2>1, NatLeast
  <2>3. m \in 1 .. n /\ m \in Nat
    BY <1>1
  <2>4. CASE m = 1
    <3> DEFINE g == [i \in 1 .. 1 |-> ss[i]]
    <3>1. g \in [1 .. m -> Seq(S)] /\ Builds(g, m)
      BY <1>1, <2>3, <2>4
    <3> QED
      BY <3>1
  <2>5. CASE m # 1
    <3>1. m - 1 \in 1 .. n /\ ~(m <= m - 1)
      BY <2>3, <2>5
    <3>2. m - 1 \notin Bad
      BY <2>2, <3>1
    <3>3. PICK f \in [1 .. m - 1 -> Seq(S)] : Builds(f, m - 1)
      BY <3>1, <3>2
    <3> DEFINE g == [i \in 1 .. m |-> IF i = m THEN f[m - 1] \o ss[m] ELSE f[i]]
    <3>4. f[m - 1] \o ss[m] \in Seq(S)
      BY <1>1, <2>3, <2>5
    <3>5. g \in [1 .. m -> Seq(S)]
      BY <2>3, <3>4
    <3>6. ASSUME NEW i \in 1 .. m PROVE g[i] = IF i = 1 THEN ss[i] ELSE g[i - 1] \o ss[i]
      <4>1. CASE i = m
        <5>1. m \in 1 .. m /\ m - 1 \in 1 .. m /\ m - 1 # m
          BY <2>3, <2>5
        <5>2. g[m] = f[m - 1] \o ss[m]
          BY <5>1
        <5>3. g[m - 1] = f[m - 1]
          BY <5>1
        <5> QED
          BY <2>5, <4>1, <5>2, <5>3
      <4>2. CASE i # m
        <5>1. i \in 1 .. m - 1
          BY <2>3, <4>2
        <5>2. f[i] = IF i = 1 THEN ss[i] ELSE f[i - 1] \o ss[i]
          BY <3>3, <5>1
        <5>3. g[i] = f[i] /\ (i # 1 => g[i - 1] = f[i - 1])
          BY <2>3, <4>2, <5>1
        <5> QED
          BY <5>2, <5>3
      <4> QED
        BY <4>1, <4>2
    <3> HIDE DEF g
    <3> QED
      BY <3>5, <3>6
  <2> QED
    BY <2>4, <2>5
<1>3. PICK f \in [1 .. n -> Seq(S)] : Builds(f, n)
  <2>1. n \in 1 .. n
    BY <1>1
  <2>2. n \notin Bad
    <3> HIDE DEF Bad
    <3> QED
      BY <1>2
  <2> QED
    BY <2>1, <2>2
<1> DEFINE Is(g) == g = [i \in 1 .. n |-> IF i = 1 THEN ss[i] ELSE g[i - 1] \o ss[i]]
<1>4. Is(f)
  <2>1. f = [i \in 1 .. n |-> f[i]]
    OBVIOUS
  <2> QED
    BY <1>3, <2>1
<1> DEFINE h == CHOOSE g : Is(g)
<1>5. Is(h)
  <2> HIDE DEF Is
  <2> QED
    BY <1>4
<1>6. FlattenSeq(ss) = h[n]
  BY <1>1 DEF FlattenSeq
<1>7. ASSUME NEW i \in 1 .. n PROVE h[i] = IF i = 1 THEN ss[i] ELSE h[i - 1] \o ss[i]
  <2> HIDE DEF h
  <2> QED
    BY <1>5
<1>8. DOMAIN h = 1 .. n /\ h = [i \in 1 .. n |-> h[i]]
  <2> HIDE DEF h
  <2> QED
    BY <1>5
<1> DEFINE Off == {i \in 1 .. n : h[i] # f[i]}
<1>9. ASSUME Off # {} PROVE FALSE
  <2>1. Off \subseteq Nat
    <3> HIDE DEF h
    <3> QED
      OBVIOUS
  <2>2. PICK m \in Off : \A k \in Off : m <= k
    <3> HIDE DEF Off
    <3> QED
      BY <1>9, <2>1, NatLeast
  <2> HIDE DEF h
  <2>3. m \in 1 .. n /\ m \in Nat
    BY <1>1
  <2>4. m = 1 \/ (m - 1 \in 1 .. n /\ ~(m <= m - 1))
    BY <2>3
  <2>5. m # 1 => h[m - 1] = f[m - 1]
    BY <2>2, <2>4
  <2>6. h[m] = f[m]
    BY <1>3, <1>7, <2>3, <2>5
  <2> QED
    BY <2>2, <2>6
<1>10. h[n] = f[n]
  <2>1. n \in 1 .. n
    BY <1>1
  <2> HIDE DEF h
  <2> QED
    BY <1>9, <2>1
<1> QED
  BY <1>3, <1>6, <1>10

\* The elements of a flattened sequence are those of its parts, the first of the first first.
LEMMA FlattenHasAll ==
  ASSUME NEW S, NEW ss \in Seq(Seq(S)), ss # <<>>, ss[1] # <<>>
  PROVE  LET f == FlattenSeq(ss) IN
         /\ f \in Seq(S) /\ f # <<>> /\ f[1] = ss[1][1]
         /\ \A k \in DOMAIN f : \E j \in 1 .. Len(ss) : \E l \in DOMAIN ss[j] : f[k] = ss[j][l]
         /\ \A j \in 1 .. Len(ss) : \A l \in DOMAIN ss[j] : \E k \in DOMAIN f : f[k] = ss[j][l]
<1> DEFINE n == Len(ss)
<1>1. n \in Nat /\ n >= 1 /\ DOMAIN ss = 1 .. n /\ \A i \in 1 .. n : ss[i] \in Seq(S)
  BY EmptySeq
<1>2. PICK f \in [1 .. n -> Seq(S)] :
           /\ FlattenSeq(ss) = f[n]
           /\ \A i \in 1 .. n : f[i] = IF i = 1 THEN ss[i] ELSE f[i - 1] \o ss[i]
  BY FlattenIsBuilt
<1> DEFINE Fine(i) ==
             /\ f[i] # <<>> /\ f[i][1] = ss[1][1]
             /\ \A k \in DOMAIN f[i] : \E j \in 1 .. i : \E l \in DOMAIN ss[j] : f[i][k] = ss[j][l]
             /\ \A j \in 1 .. i : \A l \in DOMAIN ss[j] : \E k \in DOMAIN f[i] : f[i][k] = ss[j][l]
           Bad == {i \in 1 .. n : ~Fine(i)}
<1>3. Fine(1)
  <2>1. f[1] = ss[1]
    BY <1>1, <1>2
  <2>2. \A j \in 1 .. 1 : j = 1
    OBVIOUS
  <2> QED
    BY <2>1, <2>2
<1>4. ASSUME NEW i \in 1 .. n, i # 1, Fine(i - 1) PROVE Fine(i)
  <2>1. i - 1 \in 1 .. n /\ i \in Nat
    BY <1>1, <1>4
  <2> DEFINE a == f[i - 1]
             b == ss[i]
  <2>2. a \in Seq(S) /\ b \in Seq(S) /\ f[i] = a \o b
    BY <1>1, <1>2, <1>4, <2>1
  <2>3. a # <<>> /\ a[1] = ss[1][1]
    BY <1>4
  <2>4. \A k \in DOMAIN a : \E j \in 1 .. i - 1 : \E l \in DOMAIN ss[j] : a[k] = ss[j][l]
    BY <1>4
  <2>5. \A j \in 1 .. i - 1 : \A l \in DOMAIN ss[j] : \E k \in DOMAIN a : a[k] = ss[j][l]
    BY <1>4
  <2>11. ss[i] = b
    OBVIOUS
  <2> HIDE DEF Fine, a, b
  <2>6. /\ DOMAIN f[i] = 1 .. Len(a) + Len(b) /\ Len(a) \in Nat /\ Len(b) \in Nat /\ Len(a) >= 1
        /\ DOMAIN a = 1 .. Len(a) /\ DOMAIN b = 1 .. Len(b)
        /\ \A k \in 1 .. Len(a) + Len(b) : f[i][k] = IF k <= Len(a) THEN a[k] ELSE b[k - Len(a)]
    <3>1. Len(a) \in Nat /\ Len(b) \in Nat /\ DOMAIN a = 1 .. Len(a) /\ DOMAIN b = 1 .. Len(b)
      BY <2>2
    <3>2. Len(a) >= 1
      BY <2>2, <2>3, EmptySeq
    <3>3. /\ Len(a \o b) = Len(a) + Len(b) /\ a \o b \in Seq(S)
          /\ \A k \in 1 .. Len(a) + Len(b) : (a \o b)[k] = IF k <= Len(a) THEN a[k] ELSE b[k - Len(a)]
      BY <2>2, ConcatProperties
    <3>4. DOMAIN (a \o b) = 1 .. Len(a) + Len(b)
      BY <3>1, <3>3
    <3> QED
      BY <2>2, <3>1, <3>2, <3>3, <3>4
  <2>7. 1 \in DOMAIN f[i] /\ f[i][1] = ss[1][1]
    BY <2>3, <2>6
  <2>8. ASSUME NEW k \in DOMAIN f[i]
        PROVE  \E j \in 1 .. i : \E l \in DOMAIN ss[j] : f[i][k] = ss[j][l]
    <3>1. CASE k <= Len(a)
      <4>1. k \in DOMAIN a /\ f[i][k] = a[k]
        BY <2>6, <3>1
      <4>2. PICK j \in 1 .. i - 1 : \E l \in DOMAIN ss[j] : a[k] = ss[j][l]
        BY <2>4, <4>1
      <4>3. j \in 1 .. i
        BY <2>1
      <4> QED
        BY <4>1, <4>2, <4>3
    <3>2. CASE ~(k <= Len(a))
      <4>1. k - Len(a) \in DOMAIN b /\ f[i][k] = b[k - Len(a)]
        BY <2>6, <3>2
      <4>2. i \in 1 .. i
        BY <2>1
      <4> QED
        BY <2>11, <4>1, <4>2
    <3> QED
      BY <3>1, <3>2
  <2>9. ASSUME NEW j \in 1 .. i, NEW l \in DOMAIN ss[j]
        PROVE  \E k \in DOMAIN f[i] : f[i][k] = ss[j][l]
    <3>1. CASE j = i
      <4>1. l \in 1 .. Len(b)
        BY <2>6, <2>11, <3>1
      <4> DEFINE k == Len(a) + l
      <4>2. k \in 1 .. Len(a) + Len(b) /\ ~(k <= Len(a)) /\ k - Len(a) = l
        <5>1. PICK x \in Nat, y \in Nat : x = Len(a) /\ y = Len(b)
          BY <2>6
        <5>2. l \in 1 .. y
          BY <4>1, <5>1
        <5>3. x + l \in 1 .. x + y /\ ~(x + l <= x) /\ (x + l) - x = l
          BY <5>2
        <5> QED
          BY <5>1, <5>3
      <4> HIDE DEF k
      <4>3. k \in DOMAIN f[i] /\ f[i][k] = b[l]
        BY <2>6, <4>2
      <4> QED
        BY <2>11, <3>1, <4>3
    <3>2. CASE j # i
      <4>1. j \in 1 .. i - 1
        BY <2>1, <3>2
      <4>2. PICK k \in DOMAIN a : a[k] = ss[j][l]
        BY <2>5, <4>1
      <4>3. k \in 1 .. Len(a) + Len(b) /\ k <= Len(a)
        BY <2>6
      <4>4. k \in DOMAIN f[i] /\ f[i][k] = a[k]
        BY <2>6, <4>3
      <4> QED
        BY <4>2, <4>4
    <3> QED
      BY <3>1, <3>2
  <2>10. f[i] # <<>>
    BY <2>7
  <2> QED
    BY <2>7, <2>8, <2>9, <2>10 DEF Fine
<1> HIDE DEF Fine
<1>5. Bad = {}
  <2> SUFFICES ASSUME Bad # {} PROVE FALSE
    OBVIOUS
  <2>1. Bad \subseteq Nat
    OBVIOUS
  <2>2. PICK m \in Bad : \A k \in Bad : m <= k
    <3> HIDE DEF Bad
    <3> QED
      BY <2>1, NatLeast
  <2>3. m \in 1 .. n /\ m # 1 /\ m - 1 \in 1 .. n /\ ~(m <= m - 1)
    BY <1>1, <1>3
  <2>4. Fine(m - 1)
    BY <2>2, <2>3
  <2>5. m \in 1 .. n /\ m # 1
    BY <2>3
  <2>6. Fine(m)
    BY <1>4, <2>4, <2>5
  <2> QED
    BY <2>6
<1>6. n \in 1 .. n
  BY <1>1
<1>7. Fine(n)
  <2> HIDE DEF n
  <2> QED
    BY <1>5, <1>6
<1> DEFINE whole == f[n]
<1>8. /\ whole # <<>> /\ whole[1] = ss[1][1]
      /\ \A k \in DOMAIN whole : \E j \in 1 .. n : \E l \in DOMAIN ss[j] : whole[k] = ss[j][l]
      /\ \A j \in 1 .. n : \A l \in DOMAIN ss[j] : \E k \in DOMAIN whole : whole[k] = ss[j][l]
  <2> HIDE DEF n
  <2> QED
    BY <1>7, Zenon DEF Fine
<1>9. whole \in Seq(S)
  BY <1>2, <1>6
<1>10. FlattenSeq(ss) = whole
  BY <1>2
<1> HIDE DEF whole
<1> QED
  BY <1>8, <1>9, <1>10

\* Where batches of b out of n begin and end.
LEMMA ChunkBounds ==
  ASSUME NEW n \in Nat \ {0}, NEW b \in Nat \ {0}, NEW k \in 1 .. (n + b - 1) \div b
  PROVE  LET lo == (k - 1) * b + 1
             hi == IF k * b < n THEN k * b ELSE n
         IN  /\ lo \in Nat /\ hi \in Nat /\ 1 <= lo /\ lo <= hi /\ hi <= n
             /\ hi - lo + 1 <= b /\ hi - lo + 1 <= n
<1> DEFINE q == (n + b - 1) \div b
           a == (k - 1) * b
<1>1. q \in Nat /\ q * b <= n + b - 1 /\ n + b - 1 < q * b + b
  OBVIOUS
<1>2. k \in Nat /\ 1 <= k /\ k <= q
  BY <1>1
<1> HIDE DEF q
<1>3. a \in Nat /\ k * b = a + b /\ k * b <= q * b
  BY <1>1, <1>2
<1>4. a + b <= n + b - 1 /\ k * b \in Nat
  BY <1>1, <1>2, <1>3
<1> HIDE DEF a
<1>5. a <= n - 1
  BY <1>3, <1>4
<1>6. (k - 1) * b + 1 = a + 1
  BY DEF a
<1> QED
  BY <1>3, <1>4, <1>5, <1>6

\* Everybody is in a batch.
LEMMA ChunkOf ==
  ASSUME NEW n \in Nat \ {0}, NEW b \in Nat \ {0}, NEW p \in 1 .. n
  PROVE  \E k \in 1 .. (n + b - 1) \div b :
           (k - 1) * b + 1 <= p /\ p <= (IF k * b < n THEN k * b ELSE n)
<1> DEFINE q == (p - 1) \div b
           m == (n + b - 1) \div b
<1>1. q \in Nat /\ q * b <= p - 1 /\ p - 1 < q * b + b
  OBVIOUS
<1>2. m \in Nat /\ m * b <= n + b - 1 /\ n + b - 1 < m * b + b
  OBVIOUS
<1> HIDE DEF q, m
<1>3. q * b < m * b
  BY <1>1, <1>2
<1>4. q < m
  BY <1>1, <1>2, <1>3
<1>5. q + 1 \in 1 .. m /\ (q + 1) * b = q * b + b /\ (q + 1) - 1 = q
  BY <1>1, <1>2, <1>4
<1>6. q * b + 1 <= p /\ p <= (IF (q + 1) * b < n THEN (q + 1) * b ELSE n)
  BY <1>1, <1>5
<1> QED
  BY <1>5, <1>6 DEF m

\* The users of n sessions of each of G groups, group by group.
LEMMA PlaceOfUser ==
  ASSUME NEW n \in Nat \ {0}, NEW G \in Nat \ {0}
  PROVE  /\ \A u \in 1 .. n * G : \E g \in 1 .. G : \E p \in 1 .. n : u = (g - 1) * n + p
         /\ \A g \in 1 .. G : \A p \in 1 .. n : (g - 1) * n + p \in 1 .. n * G
<1>1. ASSUME NEW u \in 1 .. n * G PROVE \E g \in 1 .. G : \E p \in 1 .. n : u = (g - 1) * n + p
  <2> DEFINE q == (u - 1) \div n
  <2>0. u - 1 \in Nat /\ n * G \in Nat
    OBVIOUS
  <2>1. q \in Nat /\ q * n <= u - 1 /\ u - 1 < q * n + n
    BY <2>0
  <2> HIDE DEF q
  <2>2. q * n < n * G
    BY <2>1
  <2>3. q < G
    BY <2>1, <2>2
  <2>4. q + 1 \in 1 .. G /\ (q + 1) - 1 = q
    BY <2>1, <2>3
  <2>5. u - q * n \in 1 .. n /\ u = q * n + (u - q * n)
    BY <2>1
  <2> QED
    BY <2>4, <2>5
<1>2. ASSUME NEW g \in 1 .. G, NEW p \in 1 .. n PROVE (g - 1) * n + p \in 1 .. n * G
  <2>1. g \in Nat /\ g >= 1 /\ g <= G /\ p \in Nat
    OBVIOUS
  <2>2. (g - 1) * n \in Nat /\ g * n <= n * G /\ (g - 1) * n = g * n - n /\ g * n \in Nat
    BY <2>1
  <2> QED
    BY <2>1, <2>2
<1> QED
  BY <1>1, <1>2

\* Batches of at most BatchChunk: nobody is left out, and none is larger than the first.
LEMMA ChunksCover ==
  ASSUME NEW S, NEW us \in Seq(S), us # <<>>
  PROVE  LET c == Chunks(us) IN
         /\ c \in Seq(Seq(S)) /\ c # <<>>
         /\ \A k \in DOMAIN c : c[k] # <<>> /\ Len(c[k]) <= BatchChunk /\ Len(c[k]) <= Len(us)
         /\ Len(c[1]) = BatchChunk \/ Len(c[1]) = Len(us)
         /\ \A p \in DOMAIN us : \E k \in DOMAIN c : \E l \in DOMAIN c[k] : c[k][l] = us[p]
<1> DEFINE n == Len(us)
           b == BatchChunk
           m == (n + b - 1) \div b
           lo(k) == (k - 1) * b + 1
           hi(k) == IF k * b < n THEN k * b ELSE n
           c == [k \in 1 .. m |-> SubSeq(us, lo(k), hi(k))]
<1>1. n \in Nat \ {0} /\ b \in Nat \ {0} /\ DOMAIN us = 1 .. n
  BY PlainConfigAssumption, EmptySeq DEF ValidPlainConfig
<1>2. Chunks(us) = c
  BY DEF Chunks
<1>3. m \in Nat /\ m >= 1
  BY <1>1
<1> HIDE DEF n, b
<1>4. ASSUME NEW k \in 1 .. m
      PROVE  /\ lo(k) \in Nat /\ hi(k) \in Nat /\ 1 <= lo(k) /\ lo(k) <= hi(k) /\ hi(k) <= n
             /\ hi(k) - lo(k) + 1 <= b /\ hi(k) - lo(k) + 1 <= n
  BY <1>1, ChunkBounds
<1>5. hi(1) - lo(1) + 1 = b \/ hi(1) - lo(1) + 1 = n
  BY <1>1
<1>6. \A p \in 1 .. n : \E k \in 1 .. m : lo(k) <= p /\ p <= hi(k)
  BY <1>1, ChunkOf
<1> HIDE DEF m, lo, hi
<1>7. ASSUME NEW k \in 1 .. m
      PROVE  /\ SubSeq(us, lo(k), hi(k)) \in Seq(S)
             /\ Len(SubSeq(us, lo(k), hi(k))) = hi(k) - lo(k) + 1
             /\ \A i \in 1 .. hi(k) - lo(k) + 1 :
                  SubSeq(us, lo(k), hi(k))[i] = us[lo(k) + i - 1]
  <2>1. \A i \in lo(k) .. hi(k) : us[i] \in S
    BY <1>1, <1>4
  <2>2. lo(k) .. hi(k) \subseteq DOMAIN us
    BY <1>1, <1>4
  <2>3. lo(k) \in 1 .. n + 1 /\ hi(k) \in lo(k) - 1 .. n
    BY <1>1, <1>4
  <2> QED
    BY <2>3, SubSeqProperties, SMTT(30) DEF n
<1>8. c \in [1 .. m -> Seq(S)]
  BY <1>7
<1>9. \A k \in 1 .. m : c[k] = SubSeq(us, lo(k), hi(k))
  OBVIOUS
<1>10. DOMAIN c = 1 .. m
  OBVIOUS
<1> HIDE DEF c
<1>11. c \in Seq(Seq(S)) /\ c # <<>> /\ 1 \in 1 .. m
  BY <1>3, <1>8, <1>10
<1>12. ASSUME NEW k \in 1 .. m
       PROVE  /\ c[k] # <<>> /\ Len(c[k]) <= b /\ Len(c[k]) <= n
              /\ Len(c[k]) = hi(k) - lo(k) + 1
  <2>1. c[k] \in Seq(S) /\ Len(c[k]) = hi(k) - lo(k) + 1
    BY <1>7, <1>9
  <2>2. Len(c[k]) # 0
    BY <1>4, <2>1
  <2> QED
    BY <1>4, <2>1, <2>2, EmptySeq
<1>13. Len(c[1]) = b \/ Len(c[1]) = n
  BY <1>5, <1>11, <1>12
<1>14. ASSUME NEW p \in 1 .. n PROVE \E k \in 1 .. m : \E l \in DOMAIN c[k] : c[k][l] = us[p]
  <2>1. PICK k \in 1 .. m : lo(k) <= p /\ p <= hi(k)
    BY <1>6
  <2> DEFINE l == p - lo(k) + 1
  <2>2. l \in 1 .. hi(k) - lo(k) + 1 /\ lo(k) + l - 1 = p
    BY <1>1, <1>4, <2>1
  <2>3. c[k][l] = us[p]
    BY <1>7, <1>9, <2>2
  <2>4. c[k] \in Seq(S)
    BY <1>7, <1>9
  <2>5. l \in DOMAIN c[k]
    BY <1>12, <2>2, <2>4
  <2> QED
    BY <2>3, <2>5
<1>15. \A p \in DOMAIN us : \E k \in DOMAIN c : \E l \in DOMAIN c[k] : c[k][l] = us[p]
  BY <1>1, <1>10, <1>14
<1>16. \A k \in DOMAIN c : c[k] # <<>> /\ Len(c[k]) <= b /\ Len(c[k]) <= n
  BY <1>10, <1>12
<1> QED
  BY <1>2, <1>11, <1>13, <1>15, <1>16 DEF n, b

\* A mode under way has its users and its groups.
LEMMA ModeIsKnown ==
  ASSUME InMode
  PROVE  /\ nproofs \in Nat \ {0} /\ Groups[tool] \in Nat \ {0} /\ Len(row) + 1 \in {1, 2}
         /\ mode \in {"individual", "batch", "aggregate"}
         /\ Users = 1 .. nproofs * Groups[tool] /\ 1 \in Users /\ 1 \in 1 .. Groups[tool]
<1>1. Sweep[tool] \in Seq(Nat \ {0}) /\ Groups[tool] \in Nat \ {0}
  BY SweepAssumption DEF InMode
<1>2. nproofs \in Nat \ {0}
  BY <1>1 DEF InMode, nproofs
<1>3. Len(row) + 1 \in {1, 2}
  <2> DEFINE k == Len(row)
  <2>1. k \in {0, 1}
    BY DEF InMode
  <2> HIDE DEF k
  <2>2. k + 1 \in {1, 2}
    BY <2>1
  <2> QED
    BY <2>2 DEF k
<1>4. mode \in {"individual", "batch", "aggregate"}
  <2> DEFINE k == Len(row) + 1
  <2>1. k \in {1, 2}
    BY <1>3
  <2> HIDE DEF k
  <2>2. Modes[k] \in {"individual", "batch", "aggregate"}
    BY <2>1 DEF Modes, ModesOf
  <2> QED
    BY <2>2 DEF mode, k
<1>5. nproofs * Groups[tool] \in Nat /\ nproofs * Groups[tool] >= 1
  BY <1>1, <1>2
<1> QED
  BY <1>1, <1>2, <1>3, <1>4, <1>5 DEF Users

\* The users of a group are as many as its sessions, and every user is in a group.
LEMMA GroupsCover ==
  ASSUME InMode
  PROVE  /\ \A g \in 1 .. Groups[tool] : UsersOf(g) \in Seq(Users) /\ Len(UsersOf(g)) = nproofs
         /\ \A u \in Users : \E g \in 1 .. Groups[tool] : \E p \in DOMAIN UsersOf(g) : UsersOf(g)[p] = u
<1> DEFINE n == nproofs
           G == Groups[tool]
<1>1. n \in Nat \ {0} /\ G \in Nat \ {0} /\ Users = 1 .. n * G
  BY ModeIsKnown
<1>2. \A g : UsersOf(g) = [i \in 1 .. n |-> (g - 1) * n + i]
  BY DEF UsersOf
<1> HIDE DEF n, G
<1>3. /\ \A u \in Users : \E g \in 1 .. G : \E p \in 1 .. n : u = (g - 1) * n + p
      /\ \A g \in 1 .. G : \A p \in 1 .. n : (g - 1) * n + p \in Users
  BY <1>1, PlaceOfUser
<1>4. ASSUME NEW g \in 1 .. G PROVE UsersOf(g) \in [1 .. n -> Users]
  BY <1>2, <1>3
<1>5. ASSUME NEW g \in 1 .. G PROVE UsersOf(g) \in Seq(Users) /\ Len(UsersOf(g)) = n
  <2> DEFINE us == UsersOf(g)
  <2>1. us \in [1 .. n -> Users] /\ n \in Nat
    BY <1>1, <1>4
  <2> HIDE DEF us
  <2>2. us \in Seq(Users) /\ Len(us) = n
    BY <2>1
  <2> QED
    BY <2>2 DEF us
<1>6. ASSUME NEW u \in Users
      PROVE  \E g \in 1 .. G : \E p \in DOMAIN UsersOf(g) : UsersOf(g)[p] = u
  <2>1. PICK g \in 1 .. G : \E p \in 1 .. n : u = (g - 1) * n + p
    BY <1>3
  <2>2. PICK p \in 1 .. n : u = (g - 1) * n + p
    BY <2>1
  <2>3. UsersOf(g)[p] = u /\ p \in DOMAIN UsersOf(g)
    BY <1>2, <2>2
  <2> QED
    BY <2>3
<1> QED
  BY <1>5, <1>6 DEF n, G

\* The batches of the plain settlement: nobody is left out, and none is larger than the first.
LEMMA BatchesCover ==
  ASSUME InMode
  PROVE  LET f == FlattenSeq([g \in 1 .. Groups[tool] |-> Chunks(UsersOf(g))]) IN
         /\ f \in Seq(Seq(Users)) /\ f # <<>>
         /\ \A k \in DOMAIN f : Len(f[k]) <= Len(f[1])
         /\ \A u \in Users : \E k \in DOMAIN f : \E l \in DOMAIN f[k] : f[k][l] = u
<1> DEFINE G == Groups[tool]
           ss == [g \in 1 .. G |-> Chunks(UsersOf(g))]
<1>1. G \in Nat \ {0} /\ nproofs \in Nat \ {0} /\ BatchChunk \in Nat
  BY ModeIsKnown, PlainConfigAssumption DEF ValidPlainConfig
<1> HIDE DEF G
<1>2. ASSUME NEW g \in 1 .. G
      PROVE  /\ UsersOf(g) \in Seq(Users) /\ UsersOf(g) # <<>> /\ Len(UsersOf(g)) = nproofs
             /\ Chunks(UsersOf(g)) \in Seq(Seq(Users)) /\ Chunks(UsersOf(g)) # <<>>
  <2>1. UsersOf(g) \in Seq(Users) /\ Len(UsersOf(g)) = nproofs
    BY GroupsCover DEF G
  <2>2. UsersOf(g) # <<>>
    BY <1>1, <2>1, EmptySeq
  <2> QED
    BY <2>1, <2>2, ChunksCover
<1>3. /\ ss \in [1 .. G -> Seq(Seq(Users))]
      /\ \A g \in 1 .. G : ss[g] = Chunks(UsersOf(g))
  BY <1>2
<1> HIDE DEF ss
<1>4. ss \in Seq(Seq(Seq(Users))) /\ Len(ss) = G
  BY <1>1, <1>3
<1>5. 1 \in 1 .. G /\ ss # <<>> /\ ss[1] # <<>>
  <2>1. 1 \in 1 .. G
    BY <1>1
  <2> QED
    BY <1>1, <1>2, <1>3, <1>4, <2>1, EmptySeq
<1> DEFINE f == FlattenSeq(ss)
<1>6. /\ f \in Seq(Seq(Users)) /\ f # <<>> /\ f[1] = ss[1][1]
      /\ \A k \in DOMAIN f : \E g \in 1 .. G : \E l \in DOMAIN ss[g] : f[k] = ss[g][l]
      /\ \A g \in 1 .. G : \A l \in DOMAIN ss[g] : \E k \in DOMAIN f : f[k] = ss[g][l]
  <2> DEFINE S == Seq(Users)
  <2>1. ss \in Seq(Seq(S))
    BY <1>4
  <2> HIDE DEF S
  <2>2. ss # <<>> /\ ss[1] # <<>>
    BY <1>5
  <2>3. f \in Seq(S) /\ f # <<>> /\ f[1] = ss[1][1]
    BY <2>1, <2>2, FlattenHasAll
  <2>4. \A k \in DOMAIN f : \E g \in 1 .. Len(ss) : \E l \in DOMAIN ss[g] : f[k] = ss[g][l]
    BY <2>1, <2>2, FlattenHasAll, SMTT(30)
  <2>5. \A g \in 1 .. Len(ss) : \A l \in DOMAIN ss[g] : \E k \in DOMAIN f : f[k] = ss[g][l]
    BY <2>1, <2>2, FlattenHasAll
  <2> HIDE DEF f
  <2>6. Len(ss) = G
    BY <1>4
  <2> QED
    BY <2>3, <2>4, <2>5, <2>6, Zenon DEF S
<1> HIDE DEF f
<1>7. ASSUME NEW k \in DOMAIN f PROVE Len(f[k]) <= Len(f[1])
  <2>1. PICK g \in 1 .. G : \E l \in DOMAIN ss[g] : f[k] = ss[g][l]
    BY <1>6
  <2>2. PICK l \in DOMAIN ss[g] : f[k] = ss[g][l]
    BY <2>1
  <2>3. Len(f[k]) <= BatchChunk /\ Len(f[k]) <= nproofs
    BY <1>2, <1>3, <2>2, ChunksCover
  <2>4. f[1] = Chunks(UsersOf(1))[1]
    BY <1>3, <1>5, <1>6
  <2>5. Len(f[1]) = BatchChunk \/ Len(f[1]) = nproofs
    BY <1>2, <1>5, <2>4, ChunksCover
  <2> QED
    BY <2>3, <2>5
<1>8. ASSUME NEW u \in Users PROVE \E k \in DOMAIN f : \E l \in DOMAIN f[k] : f[k][l] = u
  <2>1. PICK g \in 1 .. G : \E p \in DOMAIN UsersOf(g) : UsersOf(g)[p] = u
    BY GroupsCover DEF G
  <2>2. PICK p \in DOMAIN UsersOf(g) : UsersOf(g)[p] = u
    BY <2>1
  <2>3. PICK j \in DOMAIN ss[g] : \E l \in DOMAIN ss[g][j] : ss[g][j][l] = u
    BY <1>2, <1>3, <2>2, ChunksCover
  <2>4. PICK k \in DOMAIN f : f[k] = ss[g][j]
    BY <1>6
  <2> QED
    BY <2>3, <2>4
<1> QED
  BY <1>6, <1>7, <1>8 DEF f, ss, G

\* What a leg sends: calls of one kind, of users, and none larger than the first.
LEMMA SettlementsCover ==
  ASSUME InMode
  PROVE  /\ 1 \in DOMAIN Settlements
         /\ \A i \in DOMAIN Settlements :
              /\ Settlements[i].op = "settle" /\ Settlements[i].us \in Seq(Users)
              /\ Size(Settlements[i]) <= Size(Settlements[1])
         /\ \A u \in Users : \E i \in DOMAIN Settlements :
              \E k \in DOMAIN Settlements[i].us : Settlements[i].us[k] = u
         /\ mode = "aggregate" => Settlements[1].g = 1 /\ 1 \in DOMAIN Settlements[1].us
<1>1. /\ nproofs \in Nat \ {0} /\ Groups[tool] \in Nat \ {0}
      /\ mode \in {"individual", "batch", "aggregate"} /\ 1 \in Users /\ 1 \in 1 .. Groups[tool]
  BY ModeIsKnown
<1>2. CASE mode = "individual"
  <2>1. Settlements = [u \in Users |-> Settle(u, <<u>>, 0)]
    BY <1>2 DEF Settlements
  <2>2. DOMAIN Settlements = Users
    BY <2>1
  <2>3. \A u \in Users : Settlements[u].op = "settle" /\ Settlements[u].us = <<u>>
    BY <2>1 DEF Settle
  <2>4. \A u \in Users : <<u>> \in Seq(Users) /\ Len(<<u>>) = 1 /\ DOMAIN <<u>> = 1 .. 1 /\ <<u>>[1] = u
    OBVIOUS
  <2>5. \A i \in Users :
          /\ Settlements[i].us \in Seq(Users)
          /\ Size(Settlements[i]) = 1
          /\ 1 \in DOMAIN Settlements[i].us /\ Settlements[i].us[1] = i
    <3> TAKE i \in Users
    <3>1. Settlements[i].us = <<i>>
      BY <2>3
    <3>2. <<i>> \in Seq(Users) /\ Len(<<i>>) = 1 /\ 1 \in DOMAIN <<i>> /\ <<i>>[1] = i
      BY <2>4
    <3> QED
      BY <3>1, <3>2 DEF Size
  <2>6. \A u \in Users : \E k \in DOMAIN Settlements[u].us : Settlements[u].us[k] = u
    BY <2>5
  <2>7. \A i \in Users : Size(Settlements[i]) <= Size(Settlements[1])
    BY <1>1, <2>5
  <2> QED
    BY <1>1, <1>2, <2>2, <2>3, <2>5, <2>6, <2>7
<1>3. CASE mode = "aggregate"
  <2> DEFINE G == Groups[tool]
  <2>1. Settlements = [g \in 1 .. G |-> Settle(g, UsersOf(g), g)]
    BY <1>3 DEF Settlements
  <2>2. DOMAIN Settlements = 1 .. G
    BY <2>1
  <2>3. \A g \in 1 .. G : /\ Settlements[g].op = "settle" /\ Settlements[g].us = UsersOf(g)
                          /\ Settlements[g].g = g
    BY <2>1 DEF Settle
  <2>4. \A g \in 1 .. G : UsersOf(g) \in Seq(Users) /\ Len(UsersOf(g)) = nproofs
    BY GroupsCover
  <2>5. \A g \in 1 .. G : Settlements[g].us \in Seq(Users) /\ Size(Settlements[g]) = nproofs
    BY <2>3, <2>4 DEF Size
  <2>6. ASSUME NEW u \in Users
        PROVE  \E i \in 1 .. G : \E k \in DOMAIN Settlements[i].us : Settlements[i].us[k] = u
    <3>1. PICK g \in 1 .. G : \E p \in DOMAIN UsersOf(g) : UsersOf(g)[p] = u
      BY GroupsCover
    <3>2. Settlements[g].us = UsersOf(g)
      BY <2>3
    <3> QED
      BY <3>1, <3>2
  <2>7. 1 \in 1 .. G /\ 1 \in DOMAIN UsersOf(1)
    BY <1>1, <2>4
  <2>8. \A g \in 1 .. G : Size(Settlements[g]) <= Size(Settlements[1])
    BY <1>1, <2>5, <2>7
  <2>9. Settlements[1].g = 1 /\ 1 \in DOMAIN Settlements[1].us
    BY <2>3, <2>7
  <2> HIDE DEF G
  <2> QED
    BY <2>2, <2>3, <2>5, <2>6, <2>7, <2>8, <2>9
<1>4. CASE mode = "batch"
  <2> DEFINE f == FlattenSeq([g \in 1 .. Groups[tool] |-> Chunks(UsersOf(g))])
  <2>1. Settlements = [k \in DOMAIN f |-> Settle(k, f[k], 0)]
    BY <1>4 DEF Settlements
  <2>2. /\ f \in Seq(Seq(Users)) /\ f # <<>>
        /\ \A k \in DOMAIN f : Len(f[k]) <= Len(f[1])
        /\ \A u \in Users : \E k \in DOMAIN f : \E l \in DOMAIN f[k] : f[k][l] = u
    BY BatchesCover
  <2> HIDE DEF f
  <2>3. 1 \in DOMAIN f /\ \A k \in DOMAIN f : f[k] \in Seq(Users)
    BY <2>2, EmptySeq
  <2>4. DOMAIN Settlements = DOMAIN f
    BY <2>1
  <2>5. \A k \in DOMAIN f : Settlements[k].op = "settle" /\ Settlements[k].us = f[k]
    BY <2>1 DEF Settle
  <2>6. \A k \in DOMAIN f : Size(Settlements[k]) <= Size(Settlements[1])
    BY <2>2, <2>3, <2>5 DEF Size
  <2>7. ASSUME NEW u \in Users
        PROVE  \E i \in DOMAIN f : \E k \in DOMAIN Settlements[i].us : Settlements[i].us[k] = u
    <3>1. PICK i \in DOMAIN f : \E l \in DOMAIN f[i] : f[i][l] = u
      BY <2>2
    <3>2. Settlements[i].us = f[i]
      BY <2>5
    <3> QED
      BY <3>1, <3>2
  <2> QED
    BY <1>4, <2>3, <2>4, <2>5, <2>6, <2>7
<1> QED
  BY <1>1, <1>2, <1>3, <1>4

\* The legs before the settlements: a call of each user, or of each group.
LEMMA OtherCalls ==
  ASSUME InMode
  PROVE  /\ DOMAIN Starts = Users /\ DOMAIN Commits = Users /\ DOMAIN Anchors = 1 .. Groups[tool]
         /\ \A u \in Users : /\ Starts[u].op = "start" /\ Starts[u].us = <<u>>
                             /\ Starts[u].sender = u % 2
                             /\ Size(Starts[u]) = 1
         /\ \A u \in Users : Commits[u].op = "commit" /\ Size(Commits[u]) = 1
         /\ \A g \in 1 .. Groups[tool] : Anchors[g].op = "relay" /\ Size(Anchors[g]) = 0
<1>1. /\ Starts = [u \in Users |-> [op |-> "start", sender |-> u % 2, us |-> <<u>>, g |-> 0]]
      /\ Commits = [u \in Users |-> [op |-> "commit", sender |-> u, us |-> <<u>>, g |-> 0]]
      /\ Anchors = [g \in 1 .. Groups[tool] |->
                      [op |-> "relay", sender |-> Sender(g), us |-> <<>>, g |-> g]]
  BY DEF Starts, Commits, Anchors
<1>2. \A u \in Users : Starts[u].op = "start" /\ Starts[u].us = <<u>> /\ Starts[u].sender = u % 2
  BY <1>1
<1>3. \A u \in Users : Commits[u].op = "commit" /\ Commits[u].us = <<u>>
  BY <1>1
<1>4. \A g \in 1 .. Groups[tool] : Anchors[g].op = "relay" /\ Anchors[g].us = <<>>
  BY <1>1
<1>5. DOMAIN Starts = Users /\ DOMAIN Commits = Users /\ DOMAIN Anchors = 1 .. Groups[tool]
  BY <1>1
<1>6. /\ \A u \in Users : Size(Starts[u]) = 1 /\ Size(Commits[u]) = 1
      /\ \A g \in 1 .. Groups[tool] : Size(Anchors[g]) = 0
  <2>1. (\A u : Len(<<u>>) = 1) /\ Len(<<>>) = 0
    OBVIOUS
  <2> QED
    BY <1>2, <1>3, <1>4, <2>1 DEF Size
<1> QED
  BY <1>2, <1>3, <1>4, <1>5, <1>6

------------------------------------------------------------------------------
\* What the calls do to the agreement.

\* The plan is that of the tool, the point and the mode.
LEMMA PlanKept ==
  ASSUME tool' = tool, at' = at, row' = row
  PROVE  /\ Users' = Users /\ nproofs' = nproofs /\ Modes' = Modes /\ mode' = mode
         /\ LegNames' = LegNames /\ Starts' = Starts /\ Commits' = Commits /\ Anchors' = Anchors
         /\ Settlements' = Settlements
<1>1. nproofs' = nproofs /\ Modes' = Modes
  BY DEF nproofs, Modes, ModesOf
<1>2. Users' = Users /\ mode' = mode
  BY <1>1 DEF Users, mode
<1>3. LegNames' = LegNames
  BY <1>2 DEF LegNames, LegNamesOf
<1>4. Starts' = Starts /\ Commits' = Commits
  BY <1>2 DEF Starts, Commits
<1>5. Anchors' = Anchors
  BY DEF Anchors
<1>6. \A g : UsersOf(g)' = UsersOf(g)
  BY <1>1 DEF UsersOf
<1>7. Settlements' = Settlements
  BY <1>2, <1>6 DEF Settlements
<1> QED
  BY <1>1, <1>2, <1>3, <1>4, <1>5, <1>7

\* A commit, a relay or a settlement adds no session, and unsettles none.
LEMMA ApplyKeeps ==
  ASSUME ag \in Seq(Session), NEW call, NEW ok, Apply(call, ok),
         call.op \in {"commit", "relay", "settle"}
  PROVE  /\ ag' \in Seq(Session) /\ DOMAIN ag' = DOMAIN ag
         /\ \A id \in DOMAIN ag : ag'[id].u = ag[id].u /\ (ag[id].settled => ag'[id].settled)
         /\ call.op # "relay" => finals' = finals
         /\ finals \subseteq finals'
         /\ ok /\ call.op = "settle" =>
              \A k \in DOMAIN call.us : Id(call.us[k]) \in DOMAIN ag => ag'[Id(call.us[k])].settled
<1> DEFINE ids == {Id(call.us[k]) : k \in DOMAIN call.us}
           committed(id) == [ag[id] EXCEPT !.committed = TRUE]
           done(id) == [ag[id] EXCEPT !.settled = TRUE]
<1>1. \A id \in DOMAIN ag : ag[id] \in Session
  OBVIOUS
<1>2. ASSUME NEW id \in DOMAIN ag
      PROVE  /\ committed(id) \in Session /\ committed(id).u = ag[id].u
             /\ committed(id).settled = ag[id].settled
             /\ done(id) \in Session /\ done(id).u = ag[id].u /\ done(id).settled
  BY <1>1 DEF Session
<1>3. CASE ~ok \/ call.op = "relay"
  <2>1. ag' = ag /\ finals \subseteq finals' /\ (~ok => finals' = finals)
    BY <1>3 DEF Apply
  <2> QED
    BY <1>3, <2>1
<1>4. CASE ok /\ call.op = "commit"
  <2>1. /\ ag' = [id \in DOMAIN ag |-> IF id \in ids THEN committed(id) ELSE ag[id]]
        /\ finals' = finals
    BY <1>4 DEF Apply
  <2> HIDE DEF committed, ids
  <2>2. ag' \in [DOMAIN ag -> Session]
    BY <1>1, <1>2, <2>1
  <2>3. \A id \in DOMAIN ag : ag'[id].u = ag[id].u /\ (ag[id].settled => ag'[id].settled)
    BY <1>2, <2>1
  <2>4. ag' \in Seq(Session)
    BY <2>2
  <2> QED
    BY <1>4, <2>1, <2>2, <2>3, <2>4
<1>5. CASE ok /\ call.op = "settle"
  <2>1. /\ ag' = [id \in DOMAIN ag |-> IF id \in ids THEN done(id) ELSE ag[id]]
        /\ finals' = finals
    BY <1>5 DEF Apply
  <2>2. \A k \in DOMAIN call.us : Id(call.us[k]) \in ids
    OBVIOUS
  <2> HIDE DEF done, ids
  <2>3. ag' \in [DOMAIN ag -> Session]
    BY <1>1, <1>2, <2>1
  <2>4. \A id \in DOMAIN ag : ag'[id].u = ag[id].u /\ (ag[id].settled => ag'[id].settled)
    BY <1>2, <2>1
  <2>5. \A k \in DOMAIN call.us : Id(call.us[k]) \in DOMAIN ag => ag'[Id(call.us[k])].settled
    BY <1>2, <2>1, <2>2
  <2>6. ag' \in Seq(Session)
    BY <2>3
  <2> QED
    BY <1>5, <2>1, <2>3, <2>4, <2>5, <2>6
<1> QED
  BY <1>3, <1>4, <1>5

\* A start adds its user's session, the last.
LEMMA ApplyStarts ==
  ASSUME ag \in Seq(Session), NEW call, Apply(call, TRUE), call.op = "start",
         NEW u \in Nat, call.us = <<u>>
  PROVE  /\ ag' \in Seq(Session) /\ DOMAIN ag' = 1 .. Len(ag) + 1 /\ finals' = finals
         /\ \A id \in DOMAIN ag : ag'[id] = ag[id]
         /\ ag'[Len(ag) + 1].u = u
<1> DEFINE s == [u |-> u, committed |-> FALSE, settled |-> FALSE]
<1>1. call.us[1] = u
  OBVIOUS
<1>2. ag' = Append(ag, s) /\ finals' = finals
  BY <1>1 DEF Apply
<1>3. s \in Session /\ s.u = u
  BY DEF Session
<1> HIDE DEF s
<1>4. /\ Append(ag, s) \in Seq(Session) /\ Len(Append(ag, s)) = Len(ag) + 1
      /\ \A i \in 1 .. Len(ag) : Append(ag, s)[i] = ag[i]
      /\ Append(ag, s)[Len(ag) + 1] = s
  BY <1>3, AppendProperties
<1> QED
  BY <1>2, <1>3, <1>4

------------------------------------------------------------------------------
\* The steps of the workloads keep their invariant.

\* Between its legs and in them a mode is under way.
LEMMA ModeIsUnderWay ==
  ASSUME SweepPlace, Places, pc \in DriverPlaces, pc # "point"
  PROVE  InMode
BY DEF SweepPlace, Places, DriverPlaces, InMode

\* The calls of a leg.
LEMMA LegCalls ==
  ASSUME InMode, leg \in 1 .. 3
  PROVE  /\ leg = 1 => LegNames[leg] = "start" /\ CallsOf(LegNames[leg]) = Starts
         /\ leg = 2 => /\ LegNames[leg] = (IF mode = "aggregate" THEN "anchor" ELSE "commit")
                       /\ CallsOf(LegNames[leg]) = IF mode = "aggregate" THEN Anchors ELSE Commits
         /\ leg = 3 => LegNames[leg] = "settle" /\ CallsOf(LegNames[leg]) = Settlements
<1>1. LegNames = IF mode = "aggregate" THEN <<"start", "anchor", "settle">>
                                       ELSE <<"start", "commit", "settle">>
  BY DEF LegNames, LegNamesOf
<1>2. /\ leg = 1 => LegNames[leg] = "start"
      /\ leg = 2 => LegNames[leg] = IF mode = "aggregate" THEN "anchor" ELSE "commit"
      /\ leg = 3 => LegNames[leg] = "settle"
  BY <1>1
<1>3. /\ CallsOf("start") = Starts /\ CallsOf("commit") = Commits /\ CallsOf("anchor") = Anchors
      /\ CallsOf("settle") = Settlements
  BY DEF CallsOf
<1> QED
  BY <1>2, <1>3

\* The sessions that are there stay, with their users, and those that are settled stay so.
SessionsKept ==
  /\ ag' \in Seq(Session) /\ DOMAIN ag' = DOMAIN ag
  /\ \A id \in DOMAIN ag : ag'[id].u = ag[id].u /\ (ag[id].settled => ag'[id].settled)

\* Then everybody who had a session, or read its id, still has.
LEMMA SessionsKeptMeans ==
  ASSUME SessionsKept, Users' = Users, sessions' = sessions
  PROVE  /\ OneEach => OneEach'
         /\ AllStarted => AllStarted'
         /\ AllRead => AllRead'
<1>1. OneEach => OneEach'
  BY DEF SessionsKept, OneEach
<1>2. AllStarted => AllStarted'
  BY <1>1 DEF SessionsKept, AllStarted
<1>3. AllRead => AllRead'
  BY DEF SessionsKept, AllRead
<1> QED
  BY <1>1, <1>2, <1>3

\* A call that is mined, and starts nothing, tells nothing that does not hold.
LEMMA MiningKeepsWork ==
  ASSUME WorkInv, SessionsKept, late' \subseteq late,
         UNCHANGED <<tool, pc, at, row, results, saved, leg, legValid, calls, sessions, rejected>>,
         pc = "leg" => fate' \in [DOMAIN calls -> {"waiting", "ok", "reverted"}],
         ~InLeg(1),
         InLeg(3) => SettlesTold',
         finals' = finals \/ InLeg(2) \/ \E call \in late : call.op = "relay"
  PROVE  WorkInv'
<1>1. /\ Users' = Users /\ nproofs' = nproofs /\ Modes' = Modes /\ mode' = mode
      /\ LegNames' = LegNames /\ Starts' = Starts /\ Commits' = Commits /\ Anchors' = Anchors
      /\ Settlements' = Settlements
  BY PlanKept
<1>2. SweepPlace'
  BY <1>1 DEF WorkInv, SweepPlace
<1>3. DetailsWritten'
  BY <1>1 DEF WorkInv, DetailsWritten, DetailFiles, DetailsBehindSummary
<1>4. AgreementTypes'
  BY DEF WorkInv, AgreementTypes, SessionsKept
<1>5. CallsAsPlanned'
  BY <1>1 DEF WorkInv, CallsAsPlanned, CallsOf
<1>6. StartsTold'
  BY DEF StartsTold, InLeg
<1>7. StartsDone'
  <2>1. IsStarted' = IsStarted /\ IsRead' = IsRead
    BY DEF IsStarted, IsRead
  <2>2. pc = "plan" /\ leg = 0 => ag' = <<>>
    <3>1. ag = <<>> => ag' = <<>>
      BY EmptySeq DEF SessionsKept
    <3> QED
      BY <3>1 DEF WorkInv, StartsDone
  <2>3. \A u \in DOMAIN sessions : sessions[u] \in DOMAIN ag' /\ ag'[sessions[u]].u = u
    BY DEF WorkInv, StartsDone, SessionsKept
  <2> QED
    BY <1>1, <2>1, <2>2, <2>3, SessionsKeptMeans DEF WorkInv, StartsDone
<1>8. SettlesTold'
  BY DEF SettlesTold, InLeg
<1>9. NegativeIsFair'
  <2> SUFFICES ASSUME pc = "negative" \/ (pc = "plan" /\ leg = 2) \/ InLeg(3), mode = "aggregate", legValid
               PROVE  /\ \A call \in late' : call.op # "relay"
                      /\ pc # "negative" /\ 1 \in finals' /\ nproofs >= 2 => rejected
    BY <1>1 DEF NegativeIsFair, InLeg
  <2>1. /\ \A call \in late : call.op # "relay"
        /\ pc # "negative" /\ 1 \in finals /\ nproofs >= 2 => rejected
    BY DEF WorkInv, NegativeIsFair
  <2>2. finals' = finals
    BY <2>1 DEF InLeg
  <2> QED
    BY <2>1, <2>2
<1>10. ValidIsBacked'
  <2>1. ASSUME NEW m, Backed(m) PROVE Backed(m)'
    <3>1. AllStarted'
      BY <1>1, <2>1, SessionsKeptMeans DEF Backed
    <3>2. \A id \in DOMAIN ag' : ag'[id].settled
      BY <2>1 DEF Backed, SessionsKept
    <3> QED
      BY <1>1, <2>1, <3>1, <3>2 DEF Backed
  <2> QED
    BY <1>1, <2>1 DEF WorkInv, ValidIsBacked, Backed
<1> QED
  BY <1>2, <1>3, <1>4, <1>5, <1>6, <1>7, <1>8, <1>9, <1>10 DEF WorkInv

\* A start that is mined begins the session of its user, who had none.
LEMMA StartMinedKeepsWork ==
  ASSUME WorkInv, ToolInv, MineLegCall, UNCHANGED provVars, leg = 1
  PROVE  WorkInv'
<1>1. /\ pc = "leg" /\ pc \in DriverPlaces
      /\ UNCHANGED <<tool, pc, at, row, results, saved, leg, legValid, calls, lost, late, sessions,
                     rejected>>
  BY DEF MineLegCall, provVars, localVars, DriverPlaces
<1>2. InMode
  BY <1>1, ModeIsUnderWay DEF WorkInv, ToolInv
<1>3. calls = Starts /\ fate \in [DOMAIN calls -> {"waiting", "ok", "reverted"}]
  BY <1>1, <1>2, LegCalls DEF WorkInv, CallsAsPlanned
<1>4. PICK i \in DOMAIN calls :
        /\ fate[i] = "waiting"
        /\ LET ok == WouldSucceed(calls[i]) /\ Size(calls[i]) <= Size(calls[1]) IN
           /\ Apply(calls[i], ok)
           /\ fate' = [fate EXCEPT ![i] = IF ok THEN "ok" ELSE "reverted"]
  BY DEF MineLegCall
<1>5. i \in Users /\ i \in Nat /\ calls[i].op = "start" /\ calls[i].us = <<i>> /\ DOMAIN fate = Users
  BY <1>2, <1>3, OtherCalls, ModeIsKnown
<1>6. /\ Users' = Users /\ nproofs' = nproofs /\ Modes' = Modes /\ mode' = mode
      /\ LegNames' = LegNames /\ Starts' = Starts /\ Commits' = Commits /\ Anchors' = Anchors
      /\ Settlements' = Settlements
  BY <1>1, PlanKept
<1>7. /\ ag \in Seq(Session) /\ OneEach /\ late = {} /\ legValid \in BOOLEAN /\ rejected \in BOOLEAN
      /\ \A id \in DOMAIN ag : fate[ag[id].u] = "ok"
      /\ \A u \in Users : fate[u] = "ok" => \E id \in DOMAIN ag : ag[id].u = u
      /\ \A u \in DOMAIN sessions : sessions[u] \in DOMAIN ag /\ ag[sessions[u]].u = u
  BY <1>1 DEF WorkInv, StartsTold, AgreementTypes, InLeg, StartsDone
<1>8. SweepPlace' /\ DetailsWritten'
  BY <1>1, <1>6 DEF WorkInv, SweepPlace, DetailsWritten, DetailFiles, DetailsBehindSummary
<1>9. CallsAsPlanned'
  <2>1. fate' \in [DOMAIN calls -> {"waiting", "ok", "reverted"}]
    BY <1>3, <1>4
  <2> QED
    BY <1>1, <1>6, <2>1 DEF WorkInv, CallsAsPlanned, CallsOf
<1>10. SettlesTold' /\ NegativeIsFair' /\ ValidIsBacked'
  BY <1>1 DEF SettlesTold, NegativeIsFair, ValidIsBacked, InLeg
<1>11. ~IsStarted'
  BY <1>1 DEF IsStarted
<1>12. CASE ~(WouldSucceed(calls[i]) /\ Size(calls[i]) <= Size(calls[1]))
  <2>1. ag' = ag /\ fate' = [fate EXCEPT ![i] = "reverted"]
    BY <1>4, <1>12 DEF Apply
  <2>2. StartsTold'
    BY <1>4, <1>5, <1>6, <1>7, <2>1 DEF StartsTold, OneEach
  <2>3. AgreementTypes' /\ StartsDone'
    BY <1>1, <1>7, <1>11, <2>1 DEF AgreementTypes, StartsDone, IsRead
  <2> QED
    BY <1>8, <1>9, <1>10, <2>2, <2>3 DEF WorkInv
<1>13. CASE WouldSucceed(calls[i]) /\ Size(calls[i]) <= Size(calls[1])
  <2>1. fate' = [fate EXCEPT ![i] = "ok"] /\ Apply(calls[i], TRUE)
    BY <1>4, <1>13
  <2> DEFINE n == Len(ag)
  <2>2. /\ ag' \in Seq(Session) /\ DOMAIN ag' = 1 .. n + 1
        /\ \A id \in DOMAIN ag : ag'[id] = ag[id]
        /\ ag'[n + 1].u = i
    <3>1. PICK call : call = calls[i]
      OBVIOUS
    <3>2. Apply(call, TRUE) /\ call.op = "start" /\ call.us = <<i>> /\ i \in Nat
      BY <1>5, <2>1, <3>1
    <3>3. ag \in Seq(Session)
      BY <1>7
    <3> QED
      BY <3>2, <3>3, ApplyStarts
  <2>3. n \in Nat /\ DOMAIN ag = 1 .. n
    BY <1>7
  <2> HIDE DEF n
  <2>4. \A id \in DOMAIN ag : ag[id].u # i /\ ag[id].u \in Users
    BY <1>4, <1>7 DEF OneEach
  <2>5. \A id \in DOMAIN ag' : id \in DOMAIN ag \/ id = n + 1
    BY <2>2, <2>3
  <2>6. DOMAIN ag \subseteq DOMAIN ag' /\ n + 1 \in DOMAIN ag'
    BY <2>2, <2>3
  <2>7. OneEach'
    <3>1. \A id \in DOMAIN ag' : ag'[id].u \in Users
      BY <1>5, <2>2, <2>4, <2>5
    <3>2. ASSUME NEW a \in DOMAIN ag', NEW b \in DOMAIN ag', ag'[a].u = ag'[b].u PROVE a = b
      BY <1>7, <2>2, <2>4, <2>5, <3>2 DEF OneEach
    <3> QED
      BY <1>6, <3>1, <3>2 DEF OneEach
  <2>8. \A id \in DOMAIN ag' : fate'[ag'[id].u] = "ok"
    <3> TAKE id \in DOMAIN ag'
    <3>1. CASE id \in DOMAIN ag
      BY <1>5, <1>7, <2>1, <2>2, <2>4, <3>1
    <3>2. CASE id = n + 1
      BY <1>5, <2>1, <2>2, <3>2
    <3> QED
      BY <2>5, <3>1, <3>2
  <2>9. ASSUME NEW u \in Users, fate'[u] = "ok" PROVE \E id \in DOMAIN ag' : ag'[id].u = u
    <3>1. CASE u = i
      BY <2>2, <2>6, <3>1
    <3>2. CASE u # i
      <4>1. fate[u] = "ok"
        BY <1>5, <2>1, <2>9, <3>2
      <4> QED
        BY <1>7, <2>2, <2>6, <4>1
    <3> QED
      BY <3>1, <3>2
  <2>10. StartsTold'
    BY <1>6, <2>7, <2>8, <2>9 DEF StartsTold
  <2>11. \A u \in DOMAIN sessions : sessions[u] \in DOMAIN ag' /\ ag'[sessions[u]].u = u
    BY <1>7, <2>2, <2>6
  <2>12. StartsDone'
    BY <1>1, <1>11, <2>11 DEF StartsDone, IsRead
  <2>13. AgreementTypes'
    BY <1>1, <1>7, <2>2 DEF AgreementTypes
  <2> QED
    BY <1>8, <1>9, <1>10, <2>10, <2>12, <2>13 DEF WorkInv
<1> QED
  BY <1>12, <1>13

\* The sessions of a settlement are there.
LEMMA SettledAreThere ==
  ASSUME WorkInv, ToolInv, InLeg(3), NEW j \in DOMAIN calls, NEW k \in DOMAIN calls[j].us
  PROVE  sessions[calls[j].us[k]] \in DOMAIN ag
<1>1. pc = "leg" /\ pc \in DriverPlaces /\ leg = 3 /\ leg \in 1 .. 3
  BY DEF InLeg, DriverPlaces
<1>2. InMode
  BY <1>1, ModeIsUnderWay DEF WorkInv, ToolInv
<1>3. calls = Settlements
  BY <1>1, <1>2, LegCalls DEF WorkInv, CallsAsPlanned
<1>4. calls[j].us \in Seq(Users)
  BY <1>2, <1>3, SettlementsCover
<1>5. calls[j].us[k] \in Users
  BY <1>4
<1>6. DOMAIN sessions = Users /\ \A u \in Users : sessions[u] \in DOMAIN ag
  BY <1>1 DEF WorkInv, StartsDone, IsRead, IsStarted, AllRead
<1> QED
  BY <1>5, <1>6

\* Another call of the leg.
LEMMA LegMinedKeepsWork ==
  ASSUME WorkInv, ToolInv, LegPlaces, MineLegCall, UNCHANGED provVars, leg # 1
  PROVE  WorkInv'
<1>1. /\ pc = "leg" /\ pc \in DriverPlaces /\ leg \in {2, 3}
      /\ UNCHANGED <<tool, pc, at, row, results, saved, leg, legValid, calls, lost, late, sessions,
                     rejected>>
  BY DEF MineLegCall, provVars, localVars, DriverPlaces, LegPlaces
<1>2. InMode
  BY <1>1, ModeIsUnderWay DEF WorkInv, ToolInv
<1>3. calls = CallsOf(LegNames[leg]) /\ fate \in [DOMAIN calls -> {"waiting", "ok", "reverted"}]
  BY <1>1 DEF WorkInv, CallsAsPlanned
<1>4. PICK i \in DOMAIN calls :
        /\ fate[i] = "waiting"
        /\ LET ok == WouldSucceed(calls[i]) /\ Size(calls[i]) <= Size(calls[1]) IN
           /\ Apply(calls[i], ok)
           /\ fate' = [fate EXCEPT ![i] = IF ok THEN "ok" ELSE "reverted"]
  BY DEF MineLegCall
<1> DEFINE ok == WouldSucceed(calls[i]) /\ Size(calls[i]) <= Size(calls[1])
<1>5. Apply(calls[i], ok) /\ fate' = [fate EXCEPT ![i] = IF ok THEN "ok" ELSE "reverted"]
  BY <1>4
<1> HIDE DEF ok
<1>6. /\ leg = 2 => calls[i].op \in {"commit", "relay"}
      /\ leg = 3 => calls[i].op = "settle" /\ calls = Settlements
  <2>1. leg \in 1 .. 3
    BY <1>1
  <2>2. CASE leg = 2 /\ mode = "aggregate"
    <3>1. calls = Anchors
      BY <1>2, <1>3, <2>1, <2>2, LegCalls
    <3> QED
      BY <1>2, <2>2, <3>1, OtherCalls
  <2>3. CASE leg = 2 /\ mode # "aggregate"
    BY <1>2, <1>3, <2>1, <2>3, LegCalls, OtherCalls
  <2>4. CASE leg = 3
    BY <1>2, <1>3, <2>1, <2>4, LegCalls, SettlementsCover
  <2> QED
    BY <1>1, <2>2, <2>3, <2>4
<1>7. ag \in Seq(Session) /\ calls[i].op \in {"commit", "relay", "settle"}
  BY <1>1, <1>6 DEF WorkInv, AgreementTypes
<1>8. /\ ag' \in Seq(Session) /\ DOMAIN ag' = DOMAIN ag
      /\ \A id \in DOMAIN ag : ag'[id].u = ag[id].u /\ (ag[id].settled => ag'[id].settled)
      /\ calls[i].op # "relay" => finals' = finals
      /\ ok /\ calls[i].op = "settle" =>
           \A k \in DOMAIN calls[i].us : Id(calls[i].us[k]) \in DOMAIN ag => ag'[Id(calls[i].us[k])].settled
  BY <1>5, <1>7, ApplyKeeps
<1>9. SessionsKept
  BY <1>8 DEF SessionsKept
<1>10. fate' \in [DOMAIN calls -> {"waiting", "ok", "reverted"}]
  BY <1>3, <1>5
<1>11. ASSUME InLeg(3) PROVE SettlesTold'
  <2>1. leg = 3 /\ calls = Settlements /\ calls[i].op = "settle" /\ finals' = finals
    BY <1>6, <1>8, <1>11 DEF InLeg
  <2>3. \A j \in DOMAIN calls : \A k \in DOMAIN calls[j].us : sessions[calls[j].us[k]] \in DOMAIN ag
    BY <1>11, SettledAreThere
  <2>4. ASSUME NEW j \in DOMAIN calls, fate'[j] = "ok", NEW k \in DOMAIN calls[j].us
        PROVE  ag'[sessions[calls[j].us[k]]].settled
    <3>1. CASE j = i
      <4>1. ok
        BY <1>3, <1>5, <2>4, <3>1
      <4> QED
        BY <1>8, <2>1, <2>3, <3>1, <4>1 DEF Id
    <3>2. CASE j # i
      <4>1. fate[j] = "ok"
        BY <1>3, <1>5, <2>4, <3>2
      <4>2. ag[sessions[calls[j].us[k]]].settled
        BY <1>11, <4>1 DEF WorkInv, SettlesTold
      <4> QED
        BY <1>8, <2>3, <4>2
    <3> QED
      BY <3>1, <3>2
  <2>5. ASSUME mode = "aggregate", fate'[1] = "ok" PROVE 1 \in finals
    <3>1. CASE i = 1
      <4>1. WouldSucceed(calls[1])
        BY <1>3, <1>5, <2>5, <3>1 DEF ok
      <4>2. calls[1].op = "settle" /\ calls[1].g = 1 /\ 1 \in DOMAIN calls[1].us
        BY <1>2, <2>1, <2>5, <3>1, SettlementsCover
      <4>3. CanSettle(calls[1])
        BY <4>1, <4>2 DEF WouldSucceed
      <4> QED
        BY <4>2, <4>3 DEF CanSettle
    <3>2. CASE i # 1
      <4>1. 1 \in DOMAIN calls
        BY <1>2, <2>1, SettlementsCover
      <4>2. fate[1] = "ok"
        BY <1>3, <1>5, <2>5, <3>2, <4>1
      <4> QED
        BY <1>11, <2>5, <4>2 DEF WorkInv, SettlesTold
    <3> QED
      BY <3>1, <3>2
  <2>6. mode' = mode
    BY <1>1, PlanKept
  <2> QED
    BY <1>1, <2>1, <2>4, <2>5, <2>6 DEF SettlesTold
<1>12. finals' = finals \/ InLeg(2)
  BY <1>1, <1>6, <1>8 DEF InLeg
<1> QED
  BY <1>1, <1>9, <1>10, <1>11, <1>12, MiningKeepsWork DEF InLeg

\* A call of an earlier leg, or of an earlier mode.
LEMMA LateMinedKeepsWork ==
  ASSUME WorkInv, ToolInv, MineLateCall, UNCHANGED provVars
  PROVE  WorkInv'
<1>1. UNCHANGED <<tool, pc, at, row, results, saved, leg, legValid, calls, fate, lost, sessions,
                  rejected>>
  BY DEF MineLateCall, provVars, localVars
<1>2. PICK call \in late : late' = late \ {call} /\ Apply(call, WouldSucceed(call))
  BY DEF MineLateCall
<1>3. ag \in Seq(Session) /\ call.op \in {"commit", "relay", "settle"}
  BY DEF WorkInv, AgreementTypes
<1> DEFINE ok == WouldSucceed(call)
<1>4. Apply(call, ok)
  BY <1>2
<1> HIDE DEF ok
<1>5. /\ ag' \in Seq(Session) /\ DOMAIN ag' = DOMAIN ag
      /\ \A id \in DOMAIN ag : ag'[id].u = ag[id].u /\ (ag[id].settled => ag'[id].settled)
      /\ call.op # "relay" => finals' = finals
      /\ finals \subseteq finals'
  BY <1>3, <1>4, ApplyKeeps
<1>6. SessionsKept
  BY <1>5 DEF SessionsKept
<1>7. ~InLeg(1)
  BY <1>2 DEF WorkInv, AgreementTypes, InLeg
<1>8. ASSUME InLeg(3) PROVE SettlesTold'
  <2>1. \A i \in DOMAIN calls : fate[i] = "ok" =>
          \A k \in DOMAIN calls[i].us : ag[sessions[calls[i].us[k]]].settled
    BY <1>8 DEF WorkInv, SettlesTold
  <2>2. \A i \in DOMAIN calls : \A k \in DOMAIN calls[i].us : sessions[calls[i].us[k]] \in DOMAIN ag
    BY <1>8, SettledAreThere
  <2>3. \A i \in DOMAIN calls : fate[i] = "ok" =>
          \A k \in DOMAIN calls[i].us : ag'[sessions[calls[i].us[k]]].settled
    BY <1>5, <2>1, <2>2
  <2>4. mode = "aggregate" /\ fate[1] = "ok" => 1 \in finals'
    BY <1>5, <1>8 DEF WorkInv, SettlesTold
  <2>5. mode' = mode
    BY <1>1, PlanKept
  <2> QED
    BY <1>1, <2>3, <2>4, <2>5 DEF SettlesTold
<1> QED
  BY <1>1, <1>2, <1>5, <1>6, <1>7, <1>8, MiningKeepsWork DEF WorkInv, CallsAsPlanned

\* While a driver runs, only the owner's calls that are still under way move beside it.
LEMMA DriverIsAlone ==
  ASSUME ToolInv, ProvNext \/ StartPlain, pc \in DriverPlaces
  PROVE  pc' = pc /\ tool' = tool
<1>1. tool \in {"zkroam", "plain"}
  BY DEF ToolInv, Places, DriverPlaces
<1>2. ~Tools /\ ~StartPlain
  <2>1. ~(StartDeploy \/ StartZkroam \/ StartAblation \/ StartPlain)
    BY <1>1 DEF StartDeploy, StartZkroam, StartAblation, StartPlain, Start
  <2>2. ~(PlanAdds \/ SpreadAdd \/ FinishDeploy)
    BY <1>1 DEF PlanAdds, SpreadAdd, FinishDeploy, DriverPlaces
  <2>3. ~(FinishEnsure \/ Send \/ Await)
    BY <1>1 DEF FinishEnsure, Send, Await, DriverPlaces
  <2>4. ~(Configure \/ Measure \/ Relay \/ NextPoint \/ Restore \/ FinishRestore)
    BY <1>1 DEF Configure, Measure, Relay, NextPoint, Restore, FinishRestore, DriverPlaces
  <2> QED
    BY <2>1, <2>2, <2>3, <2>4 DEF Tools
<1> QED
  BY <1>2 DEF ProvNext, Chain

\* Where the tool and the plan stay what they are nothing is disturbed.
LEMMA WorkStutters ==
  ASSUME WorkInv,
         UNCHANGED <<tool, pc, at, row, results, saved, leg, legValid, calls, fate, late, ag>>,
         UNCHANGED <<finals, sessions, rejected>>
  PROVE  WorkInv'
<1>1. /\ UNCHANGED <<tool, pc, at, row, results, saved, leg, legValid, calls, fate, late, ag>>
      /\ UNCHANGED <<finals, sessions, rejected>>
  OBVIOUS
<1>2. SessionsKept \/ InLeg(1)
  BY <1>1 DEF SessionsKept, WorkInv, AgreementTypes
<1>3. /\ Users' = Users /\ nproofs' = nproofs /\ Modes' = Modes /\ mode' = mode
      /\ LegNames' = LegNames /\ Starts' = Starts /\ Commits' = Commits /\ Anchors' = Anchors
      /\ Settlements' = Settlements
  BY <1>1, PlanKept
<1>4. SettlesTold' = SettlesTold
  BY <1>1, <1>3 DEF SettlesTold, InLeg
<1>5. CASE ~InLeg(1)
  BY <1>1, <1>2, <1>4, <1>5, MiningKeepsWork DEF WorkInv, CallsAsPlanned
<1>6. CASE InLeg(1)
  <2>1. SweepPlace' /\ DetailsWritten'
    BY <1>1, <1>3 DEF WorkInv, SweepPlace, DetailsWritten, DetailFiles, DetailsBehindSummary
  <2>2. AgreementTypes' /\ CallsAsPlanned'
    BY <1>1, <1>3 DEF WorkInv, AgreementTypes, CallsAsPlanned, CallsOf
  <2>3. OneEach' = OneEach /\ StartsTold'
    BY <1>1, <1>3 DEF WorkInv, StartsTold, OneEach, InLeg
  <2>4. StartsDone' /\ NegativeIsFair' /\ ValidIsBacked'
    BY <1>1, <1>6 DEF WorkInv, StartsDone, NegativeIsFair, ValidIsBacked, IsStarted, IsRead, InLeg
  <2> QED
    BY <1>4, <2>1, <2>2, <2>3, <2>4 DEF WorkInv
<1> QED
  BY <1>5, <1>6

\* Where no driver is, the workloads rely on what they left on the disk only.
LEMMA NoDriverNoWork ==
  ASSUME WorkInv, Places', pc' \notin DriverPlaces \/ pc' = "ready",
         row' = <<>>, results' = <<>>, at' = 1, late' = {},
         DetailsBehindSummary', saved' = [details |-> saved'.details, summary |-> saved'.summary],
         UNCHANGED <<legValid, ag, sessions, rejected>>
  PROVE  WorkInv'
<1>1. SweepPlace'
  <2>1. <<>> \in Seq(ModeRow) /\ <<>> \in Seq(PointRow) /\ Len(<<>>) = 0 /\ DOMAIN <<>> = {}
    OBVIOUS
  <2>2. pc' \in DriverPlaces => tool' \in {"zkroam", "plain"} /\ pc' # "point"
    BY DEF Places, DriverPlaces
  <2>3. ASSUME NEW t \in {"zkroam", "plain"} PROVE 1 \in 1 .. Len(Sweep[t])
    <3>1. Sweep[t] \in Seq(Nat \ {0}) /\ Sweep[t] # <<>>
      BY SweepAssumption
    <3> QED
      BY <3>1, EmptySeq
  <2>4. pc' \in DriverPlaces => 1 \in 1 .. Len(Sweep[tool'])
    BY <2>2, <2>3
  <2> QED
    BY <2>1, <2>2, <2>4 DEF SweepPlace
<1>2. DetailsWritten'
  <2>1. 1 .. at' - 1 = {} /\ DOMAIN row' = {}
    OBVIOUS
  <2> QED
    BY <2>1 DEF DetailsWritten
<1>3. AgreementTypes' /\ CallsAsPlanned' /\ StartsTold' /\ SettlesTold' /\ NegativeIsFair'
  BY DEF WorkInv, AgreementTypes, CallsAsPlanned, StartsTold, SettlesTold, NegativeIsFair, InLeg,
         DriverPlaces
<1>4. StartsDone' /\ ValidIsBacked'
  BY DEF WorkInv, StartsDone, ValidIsBacked, IsStarted, IsRead, DriverPlaces
<1> QED
  BY <1>1, <1>2, <1>3, <1>4 DEF WorkInv

\* A step of the owner's chain or of a tool.
LEMMA ProvisioningKeepsWork ==
  ASSUME ProvInv, ProvInv', WorkInv, ProvNext \/ StartPlain, UNCHANGED workVars
  PROVE  WorkInv'
<1>1. /\ UNCHANGED <<at, row, results, saved, leg, legValid, calls, fate, lost, late, ag>>
      /\ UNCHANGED <<finals, sessions, rejected>>
  BY DEF workVars
<1>2. CASE pc \in DriverPlaces
  BY <1>1, <1>2, DriverIsAlone, WorkStutters DEF ProvInv
<1>3. CASE pc \notin DriverPlaces
  <2>1. pc' \notin DriverPlaces \/ pc' = "ready"
    BY <1>3, ProvisioningPlaces DEF ProvInv, DriverPlaces
  <2>2. at = 1 /\ row = <<>> /\ results = <<>> /\ late = {}
    BY <1>3 DEF WorkInv, SweepPlace
  <2>3. Places'
    BY DEF ProvInv, ToolInv
  <2>4. DetailsBehindSummary' /\ saved = [details |-> saved.details, summary |-> saved.summary]
    BY <1>1 DEF WorkInv, DetailsWritten, DetailsBehindSummary
  <2> QED
    BY <1>1, <2>1, <2>2, <2>3, <2>4, NoDriverNoWork
<1> QED
  BY <1>2, <1>3

\* Within a mode neither the plan nor what is on disk changes.
LEMMA PlaceKept ==
  ASSUME WorkInv, UNCHANGED <<tool, at, row, results, saved>>,
         pc \in DriverPlaces \ {"point"}, pc' \in DriverPlaces \ {"point"}
  PROVE  SweepPlace' /\ DetailsWritten'
<1>1. Modes' = Modes
  BY PlanKept
<1>2. SweepPlace'
  BY <1>1 DEF WorkInv, SweepPlace
<1>3. DetailsWritten'
  BY <1>1 DEF WorkInv, DetailsWritten, DetailFiles, DetailsBehindSummary
<1> QED
  BY <1>2, <1>3

\* An exception, or the end.
LEMMA LeaveKeepsWork ==
  ASSUME WorkInv, Places', Leave, UNCHANGED <<saved, legValid, ag, sessions, rejected>>
  PROVE  WorkInv'
<1>1. /\ pc' = "idle" /\ row' = <<>> /\ results' = <<>> /\ at' = 1 /\ late' = {}
  BY DEF Leave, Ended
<1>2. DetailsBehindSummary' /\ saved' = [details |-> saved'.details, summary |-> saved'.summary]
  BY DEF WorkInv, DetailsWritten, DetailsBehindSummary
<1> QED
  BY <1>1, <1>2, NoDriverNoWork DEF DriverPlaces

\* A fresh agreement has no session.
LEMMA BeginModeKeepsWork ==
  ASSUME WorkInv, Places', BeginMode
  PROVE  WorkInv'
<1>1. CASE Leave
  <2>1. UNCHANGED <<saved, legValid, ag, sessions, rejected>>
    BY <1>1 DEF BeginMode, Leave, Goto, Ended
  <2> QED
    BY <1>1, <2>1, LeaveKeepsWork
<1>2. CASE ~Leave
  <2>1. /\ pc = "ready" /\ pc' = "plan" /\ UNCHANGED <<tool, at, row, results, saved>>
        /\ ag' = <<>> /\ late' = {} /\ sessions' = <<>> /\ rejected' = FALSE
        /\ leg' = 0 /\ legValid' = TRUE
    BY <1>2 DEF BeginMode, Goto
  <2>2. SweepPlace' /\ DetailsWritten'
    BY <2>1, PlaceKept DEF DriverPlaces
  <2>3. AgreementTypes'
    <3>1. <<>> \in Seq(Session)
      OBVIOUS
    <3> QED
      BY <2>1, <3>1 DEF AgreementTypes
  <2>4. CallsAsPlanned' /\ StartsTold' /\ SettlesTold' /\ NegativeIsFair' /\ ValidIsBacked'
    BY <2>1 DEF CallsAsPlanned, StartsTold, SettlesTold, NegativeIsFair, ValidIsBacked, InLeg
  <2>5. DOMAIN sessions' = {}
    BY <2>1
  <2>6. StartsDone'
    BY <2>1, <2>5 DEF StartsDone, IsStarted, IsRead
  <2> QED
    BY <2>2, <2>3, <2>4, <2>6 DEF WorkInv
<1> QED
  BY <1>1, <1>2

\* A leg begins with no call confirmed.
LEMMA BeginLegKeepsWork ==
  ASSUME WorkInv, ToolInv, LegPlaces, Places', BeginLeg
  PROVE  WorkInv'
<1>1. CASE Leave
  BY <1>1, LeaveKeepsWork DEF BeginLeg
<1>2. CASE ~Leave
  <2> DEFINE planned == CallsOf(LegNames[leg + 1])
  <2>1. /\ pc = "plan" /\ pc' = "leg" /\ calls' = planned
        /\ fate' = [i \in DOMAIN planned |-> "waiting"] /\ leg' = leg + 1
        /\ UNCHANGED <<tool, at, row, results, late>>
        /\ UNCHANGED <<saved, legValid, ag, finals, sessions, rejected>>
    BY <1>2 DEF BeginLeg, Goto
  <2> HIDE DEF planned
  <2>2. SweepPlace' /\ DetailsWritten'
    BY <2>1, PlaceKept DEF DriverPlaces
  <2>3. leg \in 0 .. 2 /\ leg' \in 1 .. 3
    BY <2>1 DEF LegPlaces
  <2>4. InMode
    BY <2>1, ModeIsUnderWay DEF WorkInv, ToolInv, DriverPlaces
  <2>5. /\ Users' = Users /\ nproofs' = nproofs /\ Modes' = Modes /\ mode' = mode
        /\ LegNames' = LegNames /\ Starts' = Starts /\ Commits' = Commits /\ Anchors' = Anchors
        /\ Settlements' = Settlements
    BY <2>1, PlanKept
  <2>6. CallsAsPlanned'
    <3>1. calls' = CallsOf(LegNames[leg])'
      BY <2>1, <2>5 DEF planned, CallsOf
    <3>2. fate' \in [DOMAIN calls' -> {"waiting", "ok", "reverted"}]
      BY <2>1
    <3> QED
      BY <3>1, <3>2 DEF CallsAsPlanned
  <2>7. AgreementTypes'
    BY <2>1, <2>3 DEF WorkInv, AgreementTypes
  <2>8. StartsTold'
    <3> SUFFICES ASSUME leg' = 1 PROVE OneEach' /\ ag' = <<>> /\ \A u \in Users : fate'[u] # "ok"
      BY <2>5 DEF StartsTold, InLeg
    <3>1. leg = 0
      BY <2>1, <2>3
    <3>2. ag' = <<>> /\ DOMAIN ag' = {}
      BY <2>1, <3>1 DEF WorkInv, StartsDone
    <3>3. LegNames[1] = "start"
      BY DEF LegNames, LegNamesOf
    <3>4. planned = Starts
      BY <3>1, <3>3 DEF planned, CallsOf
    <3>5. \A u \in Users : fate'[u] = "waiting"
      BY <2>1, <2>4, <3>4, OtherCalls
    <3> QED
      BY <3>2, <3>5 DEF OneEach
  <2>9. StartsDone'
    <3>1. IsStarted' => IsStarted
      BY <2>1, <2>3 DEF IsStarted
    <3>2. IsRead' => IsRead
      BY <2>1, <3>1 DEF IsRead
    <3>3. (AllStarted => AllStarted') /\ (AllRead => AllRead')
      BY <2>1, <2>5 DEF AllStarted, OneEach, AllRead
    <3> QED
      BY <2>1, <3>1, <3>2, <3>3 DEF WorkInv, StartsDone
  <2>10. SettlesTold'
    <3> SUFFICES ASSUME leg' = 3 PROVE 1 \in DOMAIN calls' /\ \A i \in DOMAIN calls' : fate'[i] # "ok"
      BY DEF SettlesTold, InLeg
    <3>1. planned = Settlements
      <4>1. leg + 1 = 3 /\ LegNames[3] = "settle"
        BY <2>1 DEF LegNames, LegNamesOf
      <4> QED
        BY <4>1 DEF planned, CallsOf
    <3> QED
      BY <2>1, <2>4, <3>1, SettlementsCover
  <2>11. NegativeIsFair'
    <3> SUFFICES ASSUME leg' = 3, mode = "aggregate", legValid
                 PROVE  /\ \A call \in late : call.op # "relay"
                        /\ 1 \in finals /\ nproofs >= 2 => rejected
      BY <2>1, <2>5 DEF NegativeIsFair, InLeg
    <3>1. leg = 2
      BY <2>1, <2>3
    <3> QED
      BY <2>1, <3>1 DEF WorkInv, NegativeIsFair
  <2>12. ValidIsBacked'
    BY <2>1 DEF ValidIsBacked
  <2> QED
    BY <2>2, <2>6, <2>7, <2>8, <2>9, <2>10, <2>11, <2>12 DEF WorkInv
<1> QED
  BY <1>1, <1>2

\* The starts all confirmed: everybody has a session.
LEMMA ConfirmedMeansStarted ==
  ASSUME WorkInv, ToolInv, InLeg(1), AllConfirmed
  PROVE  AllStarted
<1>1. pc = "leg" /\ pc \in DriverPlaces /\ leg = 1 /\ leg \in 1 .. 3
  BY DEF InLeg, DriverPlaces
<1>2. InMode
  BY <1>1, ModeIsUnderWay DEF WorkInv, ToolInv
<1>3. calls = Starts
  BY <1>1, <1>2, LegCalls DEF WorkInv, CallsAsPlanned
<1>4. \A u \in Users : fate[u] = "ok"
  BY <1>2, <1>3, OtherCalls DEF AllConfirmed
<1> QED
  BY <1>4 DEF WorkInv, StartsTold, AllStarted

\* The settlements all confirmed: everybody's session is settled.
LEMMA ConfirmedMeansSettled ==
  ASSUME WorkInv, ToolInv, InLeg(3), AllConfirmed, legValid
  PROVE  Backed(mode)
<1>1. pc = "leg" /\ pc \in DriverPlaces /\ leg = 3 /\ leg \in 1 .. 3
  BY DEF InLeg, DriverPlaces
<1>2. InMode
  BY <1>1, ModeIsUnderWay DEF WorkInv, ToolInv
<1>3. calls = Settlements
  BY <1>1, <1>2, LegCalls DEF WorkInv, CallsAsPlanned
<1>4. AllStarted /\ AllRead
  BY <1>1 DEF WorkInv, StartsDone, IsRead, IsStarted
<1>5. ASSUME NEW id \in DOMAIN ag PROVE ag[id].settled
  <2>1. ag[id].u \in Users
    BY <1>4 DEF AllStarted, OneEach
  <2>2. PICK i \in DOMAIN Settlements :
          \E k \in DOMAIN Settlements[i].us : Settlements[i].us[k] = ag[id].u
    BY <1>2, <2>1, SettlementsCover
  <2>3. PICK k \in DOMAIN Settlements[i].us : Settlements[i].us[k] = ag[id].u
    BY <2>2
  <2>4. ag[sessions[ag[id].u]].settled
    BY <1>3, <2>2, <2>3 DEF WorkInv, SettlesTold, AllConfirmed
  <2>5. sessions[ag[id].u] \in DOMAIN ag /\ ag[sessions[ag[id].u]].u = ag[id].u
    BY <1>4, <2>1 DEF AllRead
  <2>6. sessions[ag[id].u] = id
    BY <1>4, <2>5 DEF AllStarted, OneEach
  <2> QED
    BY <2>4, <2>6
<1>6. ASSUME mode = "aggregate", nproofs >= 2 PROVE rejected
  <2>1. 1 \in DOMAIN calls
    BY <1>2, <1>3, SettlementsCover
  <2>2. 1 \in finals
    BY <1>6, <2>1 DEF WorkInv, SettlesTold, AllConfirmed
  <2> QED
    BY <1>1, <1>6, <2>2 DEF WorkInv, NegativeIsFair
<1> QED
  BY <1>4, <1>5, <1>6 DEF Backed

\* A leg ends: what is still waiting is late, and a leg that is not through is not valid.
LEMMA EndLegKeepsWork ==
  ASSUME WorkInv, ToolInv, LegPlaces, Places', EndLeg
  PROVE  WorkInv'
<1>1. pc = "leg" /\ leg \in 1 .. 3 /\ pc \in DriverPlaces
  BY DEF EndLeg, LegPlaces, DriverPlaces
<1>2. InMode
  BY <1>1, ModeIsUnderWay DEF WorkInv, ToolInv
<1>3. CASE LegNames[leg] = "start" /\ ~AllConfirmed
  BY <1>3, LeaveKeepsWork DEF EndLeg
<1>4. CASE ~(LegNames[leg] = "start" /\ ~AllConfirmed)
  <2> DEFINE waiting == {calls[i] : i \in {j \in DOMAIN calls : fate[j] = "waiting"}}
  <2>1. /\ tool' = tool /\ late' = late \cup waiting
        /\ pc' = CASE LegNames[leg] = "start" -> "read"
                   [] LegNames[leg] = "anchor" -> "negative"
                   [] LegNames[leg] = "commit" -> "plan"
                   [] LegNames[leg] = "settle" -> "row"
        /\ legValid' \in IF LegNames[leg] = "start" THEN {legValid} ELSE {legValid /\ AllConfirmed, FALSE}
        /\ UNCHANGED <<at, row, results, leg, saved, calls, fate, lost, ag, finals, sessions, rejected>>
    BY <1>4 DEF EndLeg, Goto
  <2>2. AllConfirmed => waiting = {}
    BY DEF AllConfirmed
  <2> HIDE DEF waiting
  <2>3. /\ leg = 1 => LegNames[leg] = "start" /\ calls = Starts
        /\ leg = 2 => /\ LegNames[leg] = (IF mode = "aggregate" THEN "anchor" ELSE "commit")
                      /\ calls = IF mode = "aggregate" THEN Anchors ELSE Commits
        /\ leg = 3 => LegNames[leg] = "settle" /\ calls = Settlements
    BY <1>1, <1>2, LegCalls DEF WorkInv, CallsAsPlanned
  <2>4. legValid \in BOOLEAN /\ rejected \in BOOLEAN /\ ag \in Seq(Session)
    BY DEF WorkInv, AgreementTypes
  <2>5. legValid' \in BOOLEAN /\ (legValid' => legValid)
    BY <2>1, <2>4, Zenon
  <2>6. leg # 1 /\ legValid' => AllConfirmed
    <3> SUFFICES ASSUME leg # 1, legValid' PROVE AllConfirmed
      OBVIOUS
    <3>1. LegNames[leg] # "start"
      BY <1>1, <2>3
    <3>2. legValid' \in {legValid /\ AllConfirmed, FALSE}
      BY <2>1, <3>1
    <3> QED
      BY <3>2, Zenon
  <2>7. /\ leg = 1 => pc' = "read" /\ AllConfirmed
        /\ leg = 2 => pc' = IF mode = "aggregate" THEN "negative" ELSE "plan"
        /\ leg = 3 => pc' = "row"
    BY <1>4, <2>1, <2>3
  <2>8. pc' \in DriverPlaces \ {"point"} /\ pc' # "leg"
    BY <1>1, <2>7 DEF DriverPlaces
  <2>9. SweepPlace' /\ DetailsWritten'
    BY <1>1, <2>1, <2>8, PlaceKept
  <2>10. /\ Users' = Users /\ nproofs' = nproofs /\ Modes' = Modes /\ mode' = mode
         /\ LegNames' = LegNames /\ Starts' = Starts /\ Commits' = Commits /\ Anchors' = Anchors
         /\ Settlements' = Settlements
    BY <2>1, PlanKept
  <2>11. CallsAsPlanned' /\ StartsTold' /\ SettlesTold'
    BY <2>8 DEF CallsAsPlanned, StartsTold, SettlesTold, InLeg
  <2>12. AgreementTypes'
    <3>1. ASSUME NEW call \in late' PROVE call.op \in {"commit", "relay", "settle"}
      <4>1. CASE call \in late
        BY <4>1 DEF WorkInv, AgreementTypes
      <4>2. CASE call \in waiting
        <5>1. leg # 1
          BY <2>2, <2>7, <4>2
        <5>2. PICK i \in DOMAIN calls : call = calls[i]
          BY <4>2 DEF waiting
        <5>3. CASE leg = 2 /\ mode = "aggregate"
          BY <1>2, <2>3, <5>2, <5>3, OtherCalls
        <5>4. CASE leg = 2 /\ mode # "aggregate"
          BY <1>2, <2>3, <5>2, <5>4, OtherCalls
        <5>5. CASE leg = 3
          BY <1>2, <2>3, <5>2, <5>5, SettlementsCover
        <5> QED
          BY <1>1, <5>1, <5>3, <5>4, <5>5
      <4> QED
        BY <2>1, <4>1, <4>2
    <3>2. leg = 1 => late' = {}
      BY <1>1, <2>1, <2>2, <2>7 DEF WorkInv, AgreementTypes
    <3>3. pc' = "read" \/ (pc' = "plan" /\ leg' <= 1) \/ (pc' = "leg" /\ leg' <= 2) => leg = 1
      <4>1. leg' = leg
        BY <2>1
      <4>2. CASE leg = 2
        BY <2>7, <4>1, <4>2
      <4>3. CASE leg = 3
        BY <2>7, <4>1, <4>3
      <4> QED
        BY <1>1, <4>2, <4>3
    <3> QED
      BY <2>1, <2>4, <2>5, <3>1, <3>2, <3>3 DEF AgreementTypes
  <2>13. StartsDone'
    <3>1. AllStarted' = AllStarted /\ AllRead' = AllRead
      BY <2>1, <2>10 DEF AllStarted, OneEach, AllRead
    <3>2. leg = 1 => AllStarted
      BY <1>1, <2>7, ConfirmedMeansStarted DEF InLeg
    <3>3. leg # 1 => IsRead
      BY <1>1 DEF IsRead, IsStarted
    <3>4. leg # 1 => AllStarted /\ AllRead
      BY <3>3 DEF WorkInv, StartsDone, IsRead
    <3>5. pc' = "plan" => leg' # 0
      BY <1>1, <2>1
    <3>6. leg = 1 => ~IsRead'
      BY <2>7 DEF IsRead
    <3>7. \A u \in DOMAIN sessions : sessions[u] \in DOMAIN ag /\ ag[sessions[u]].u = u
      BY DEF WorkInv, StartsDone
    <3> QED
      BY <2>1, <3>1, <3>2, <3>4, <3>5, <3>6, <3>7 DEF StartsDone
  <2>14. NegativeIsFair'
    <3> SUFFICES ASSUME mode = "aggregate", legValid', pc' \in {"negative", "plan"}
                 PROVE  pc' = "negative" /\ \A call \in late' : call.op # "relay"
      BY <2>8, <2>10 DEF NegativeIsFair, InLeg
    <3>1. leg = 2 /\ pc' = "negative"
      BY <1>1, <2>7
    <3>2. late' = {}
      BY <1>1, <2>1, <2>2, <2>6, <3>1 DEF WorkInv, AgreementTypes
    <3> QED
      BY <3>1, <3>2
  <2>15. ValidIsBacked'
    <3> SUFFICES ASSUME pc' = "row", legValid' PROVE Backed(mode)'
      BY <1>1, <2>7, <2>10 DEF ValidIsBacked
    <3>1. leg = 3
      BY <1>1, <2>7
    <3>2. Backed(mode)
      BY <1>1, <2>5, <2>6, <3>1, ConfirmedMeansSettled DEF InLeg
    <3> QED
      BY <2>1, <2>10, <3>2 DEF Backed, AllStarted, OneEach
  <2> QED
    BY <2>9, <2>11, <2>12, <2>13, <2>14, <2>15 DEF WorkInv
<1> QED
  BY <1>3, <1>4

\* The session ids that are read are those of the users.
LEMMA ReadSessionsKeepsWork ==
  ASSUME WorkInv, ToolInv, LegPlaces, Places', ReadSessions
  PROVE  WorkInv'
<1>1. pc = "read" /\ leg = 1 /\ pc \in DriverPlaces
  BY DEF ReadSessions, LegPlaces, DriverPlaces
<1>2. InMode
  BY <1>1, ModeIsUnderWay DEF WorkInv, ToolInv
<1>3. AllStarted /\ ag \in Seq(Session)
  BY <1>1 DEF WorkInv, StartsDone, IsStarted, AgreementTypes
<1>4. CASE Leave
  <2>1. UNCHANGED <<saved, legValid, ag, sessions, rejected>>
    BY <1>4 DEF ReadSessions, Goto, Leave, Ended
  <2> QED
    BY <1>4, <2>1, LeaveKeepsWork
<1>5. CASE ~Leave
  <2>1. PICK behind \in {0, 1} :
          LET ids == started(Len(ag) - behind) IN
          /\ \A u \in Users : ids[u] # 0
          /\ sessions' = ids
    BY <1>5 DEF ReadSessions
  <2>2. /\ pc' = "plan" /\ UNCHANGED <<tool, at, row, results, leg, late>>
        /\ UNCHANGED <<saved, legValid, calls, fate, lost, ag, finals, rejected>>
    BY <1>5 DEF ReadSessions, Goto
  <2> DEFINE k == Len(ag) - behind
             of(u) == {id \in 1 .. k : ag[id].u = u}
  <2>3. sessions' = [u \in Users |-> IF of(u) = {} THEN 0 ELSE Max(of(u))]
    BY <2>1 DEF started
  <2>4. \A u \in Users : (IF of(u) = {} THEN 0 ELSE Max(of(u))) # 0
    BY <2>1, <2>3
  <2>5. k \in Nat \/ 1 .. k = {}
    BY <1>3, <2>1
  <2>6. 1 .. k \subseteq DOMAIN ag
    BY <1>3, <2>1
  <2> HIDE DEF k
  <2>7. ASSUME NEW u \in Users PROVE sessions'[u] \in DOMAIN ag /\ ag[sessions'[u]].u = u
    <3>1. of(u) # {} /\ sessions'[u] = Max(of(u))
      BY <2>3, <2>4
    <3>2. of(u) \subseteq 1 .. k /\ k \in Nat
      BY <2>5, <3>1
    <3> HIDE DEF of
    <3>3. \E x \in of(u) : \A y \in of(u) : y <= x
      BY <3>1, <3>2, NatGreatest
    <3>4. Max(of(u)) \in of(u)
      BY <3>2, <3>3 DEF Max
    <3> QED
      BY <2>6, <3>1, <3>4 DEF of
  <2>8. DOMAIN sessions' = Users
    BY <2>3
  <2>9. SweepPlace' /\ DetailsWritten'
    BY <1>1, <2>2, PlaceKept DEF DriverPlaces
  <2>10. /\ Users' = Users /\ nproofs' = nproofs /\ Modes' = Modes /\ mode' = mode
         /\ LegNames' = LegNames /\ Starts' = Starts /\ Commits' = Commits /\ Anchors' = Anchors
         /\ Settlements' = Settlements
    BY <2>2, PlanKept
  <2>11. CallsAsPlanned' /\ StartsTold' /\ SettlesTold' /\ NegativeIsFair' /\ ValidIsBacked'
    BY <1>1, <2>2
       DEF CallsAsPlanned, StartsTold, SettlesTold, NegativeIsFair, ValidIsBacked, InLeg
  <2>12. AgreementTypes'
    BY <1>1, <2>2 DEF WorkInv, AgreementTypes
  <2>13. AllStarted' /\ AllRead'
    BY <1>3, <2>2, <2>7, <2>8, <2>10 DEF AllStarted, OneEach, AllRead
  <2>14. StartsDone'
    BY <1>1, <2>2, <2>7, <2>8, <2>13 DEF StartsDone
  <2> QED
    BY <2>9, <2>11, <2>12, <2>14 DEF WorkInv
<1> QED
  BY <1>4, <1>5

\* The refusal of swapped signatures counts if the first batch is final, and stays so.
LEMMA NegativeTestKeepsWork ==
  ASSUME WorkInv, ToolInv, LegPlaces, NegativeTest
  PROVE  WorkInv'
<1>1. /\ pc = "negative" /\ leg = 2 /\ pc' = "plan" /\ pc \in DriverPlaces
      /\ rejected' = (nproofs >= 2 /\ 1 \in finals)
      /\ UNCHANGED <<tool, at, row, results, saved, leg, legValid, calls, fate, lost, late, ag, finals,
                     sessions>>
  BY DEF NegativeTest, Goto, LegPlaces, DriverPlaces
<1>2. SweepPlace' /\ DetailsWritten'
  BY <1>1, PlaceKept DEF DriverPlaces
<1>3. /\ Users' = Users /\ nproofs' = nproofs /\ Modes' = Modes /\ mode' = mode
      /\ LegNames' = LegNames /\ Starts' = Starts /\ Commits' = Commits /\ Anchors' = Anchors
      /\ Settlements' = Settlements
  BY <1>1, PlanKept
<1>4. rejected' \in BOOLEAN
  BY <1>1, Zenon
<1>5. AgreementTypes'
  BY <1>1, <1>4 DEF WorkInv, AgreementTypes
<1>6. CallsAsPlanned' /\ StartsTold' /\ SettlesTold' /\ ValidIsBacked'
  BY <1>1 DEF CallsAsPlanned, StartsTold, SettlesTold, ValidIsBacked, InLeg
<1>7. StartsDone'
  <2>1. AllStarted /\ AllRead
    BY <1>1 DEF WorkInv, StartsDone, IsStarted, IsRead
  <2>2. AllStarted' /\ AllRead'
    BY <1>1, <1>3, <2>1 DEF AllStarted, OneEach, AllRead
  <2>3. \A u \in DOMAIN sessions : sessions[u] \in DOMAIN ag /\ ag[sessions[u]].u = u
    BY DEF WorkInv, StartsDone
  <2> QED
    BY <1>1, <2>2, <2>3 DEF StartsDone
<1>8. NegativeIsFair'
  <2>1. mode = "aggregate" /\ legValid => \A call \in late : call.op # "relay"
    BY <1>1 DEF WorkInv, NegativeIsFair
  <2>2. 1 \in finals' /\ nproofs' >= 2 => rejected'
    BY <1>1, <1>3
  <2> QED
    BY <1>1, <1>3, <2>1, <2>2 DEF NegativeIsFair
<1> QED
  BY <1>2, <1>5, <1>6, <1>7, <1>8 DEF WorkInv

\* A mode that is through has its row, and the files of its legs.
LEMMA EndModeKeepsWork ==
  ASSUME WorkInv, ToolInv, EndMode
  PROVE  WorkInv'
<1> DEFINE r == [mode |-> mode, valid |-> legValid]
           n == Len(row)
<1>1. /\ pc = "row" /\ pc \in DriverPlaces /\ row' = Append(row, r)
      /\ saved' = [saved EXCEPT !.details = @ \cup DetailFiles(tool, at, mode)]
      /\ pc' = IF n + 1 < Len(Modes) THEN "ready" ELSE "point"
      /\ UNCHANGED <<tool, at, results, leg, legValid, calls, fate, lost, late, ag, finals, sessions, rejected>>
  BY DEF EndMode, WriteDetails, Goto, DriverPlaces
<1>2. InMode
  BY <1>1, ModeIsUnderWay DEF WorkInv, ToolInv
<1>3. Len(Modes) = 2
  BY DEF Modes, ModesOf
<1>4. r \in ModeRow /\ r.mode = mode /\ r.valid = legValid /\ mode = Modes[n + 1]
  <2>1. mode \in {"individual", "batch", "aggregate"} /\ legValid \in BOOLEAN
    BY <1>2, ModeIsKnown DEF WorkInv, AgreementTypes
  <2>2. r \in ModeRow
    BY <2>1, Zenon DEF ModeRow
  <2> QED
    BY <2>2 DEF mode
<1>5. row \in Seq(ModeRow) /\ n \in {0, 1} /\ DOMAIN row = 1 .. n
  BY <1>2 DEF InMode
<1> HIDE DEF r
<1>6. /\ row' \in Seq(ModeRow) /\ Len(row') = n + 1 /\ row'[n + 1] = r
      /\ DOMAIN row' = 1 .. n + 1 /\ \A j \in 1 .. n : row'[j] = row[j]
  <2>1. /\ Append(row, r) \in Seq(ModeRow) /\ Len(Append(row, r)) = n + 1
        /\ \A i \in 1 .. n : Append(row, r)[i] = row[i]
        /\ Append(row, r)[n + 1] = r
    BY <1>4, <1>5, AppendProperties
  <2> HIDE DEF n
  <2>2. DOMAIN Append(row, r) = 1 .. n + 1
    BY <2>1
  <2> QED
    BY <1>1, <2>1, <2>2
<1> HIDE DEF n
<1>7. Modes' = Modes /\ Users' = Users /\ nproofs' = nproofs
  BY <1>1 DEF Modes, ModesOf, Users, nproofs
<1>8. /\ n = 0 => pc' = "ready"
      /\ n = 1 => pc' = "point"
  BY <1>1, <1>3
<1>9. pc' \in {"ready", "point"} /\ pc' \in DriverPlaces
  BY <1>5, <1>8 DEF DriverPlaces
<1>10. \A j \in DOMAIN row' : row'[j].mode = Modes[j] /\ (j \in DOMAIN row \/ j = n + 1)
  <2>1. \A j \in DOMAIN row : row[j].mode = Modes[j]
    BY <1>1 DEF WorkInv, SweepPlace
  <2> QED
    BY <1>4, <1>5, <1>6, <2>1
<1>11. SweepPlace'
  <2>1. Len(row') \in (IF pc' = "point" THEN {2} ELSE {0, 1})
    BY <1>5, <1>6, <1>8
  <2>2. /\ results \in Seq(PointRow) /\ at \in 1 .. Len(Sweep[tool]) /\ Len(results) = at - 1
        /\ \A k \in DOMAIN results : results[k].of = tool
    BY <1>1 DEF WorkInv, SweepPlace
  <2> QED
    BY <1>1, <1>6, <1>7, <1>9, <1>10, <2>1, <2>2 DEF SweepPlace
<1>12. DetailsWritten'
  <2> DEFINE more == saved.details \cup DetailFiles(tool, at, mode)
  <2>1. saved = [details |-> saved.details, summary |-> saved.summary]
    BY DEF WorkInv, DetailsWritten
  <2>2. saved' = [details |-> more, summary |-> saved.summary]
    BY <1>1, <2>1
  <2>3. saved'.details = more /\ saved'.summary = saved.summary
    BY <2>2
  <2>4. saved.details \subseteq more /\ DetailFiles(tool, at, mode) \subseteq more
    OBVIOUS
  <2> HIDE DEF more
  <2>5. \A k \in 1 .. at - 1, j \in 1 .. 2 : DetailFiles(tool, k, Modes[j]) \subseteq more
    BY <1>1, <2>4 DEF WorkInv, DetailsWritten
  <2>6. \A j \in DOMAIN row : DetailFiles(tool, at, Modes[j]) \subseteq more
    BY <1>1, <2>4 DEF WorkInv, DetailsWritten
  <2>7. \A j \in DOMAIN row' : DetailFiles(tool, at, Modes[j]) \subseteq more
    BY <1>4, <1>10, <2>4, <2>6
  <2>8. DetailsBehindSummary'
    BY <2>3, <2>4 DEF WorkInv, DetailsWritten, DetailsBehindSummary, DetailFiles
  <2>9. /\ \A k \in 1 .. at - 1, j \in 1 .. 2 : DetailFiles(tool, k, Modes[j])' = DetailFiles(tool, k, Modes[j])
        /\ \A j : DetailFiles(tool, at, Modes[j])' = DetailFiles(tool, at, Modes[j])
    BY <1>1, <1>7 DEF DetailFiles
  <2> QED
    BY <1>1, <1>7, <2>2, <2>3, <2>5, <2>7, <2>8, <2>9 DEF DetailsWritten
<1>13. AgreementTypes' /\ CallsAsPlanned' /\ StartsTold' /\ SettlesTold' /\ NegativeIsFair'
  BY <1>1, <1>9 DEF WorkInv, AgreementTypes, CallsAsPlanned, StartsTold, SettlesTold, NegativeIsFair, InLeg
<1>14. StartsDone'
  BY <1>1, <1>9 DEF WorkInv, StartsDone, IsStarted, IsRead
<1>15. ValidIsBacked'
  <2> SUFFICES ASSUME row'[Len(row')].valid PROVE Backed(row[Len(row)].mode)'
    BY <1>9 DEF ValidIsBacked
  <2>1. row'[Len(row')] = r
    BY <1>6
  <2>2. Backed(mode)
    BY <1>1, <1>4, <2>1 DEF WorkInv, ValidIsBacked
  <2>3. row'[Len(row')].mode = mode
    BY <1>4, <2>1
  <2>4. AllStarted' = AllStarted
    BY <1>1, <1>7 DEF AllStarted, OneEach
  <2> QED
    BY <1>1, <1>7, <2>2, <2>3, <2>4 DEF Backed
<1> QED
  BY <1>11, <1>12, <1>13, <1>14, <1>15 DEF WorkInv

\* The summary of the last point tells of files that are there.
LEMMA EndPointKeepsWork ==
  ASSUME WorkInv, ToolInv, Places', EndPoint
  PROVE  WorkInv'
<1> DEFINE p == [of |-> tool, valid |-> \A k \in DOMAIN row : row[k].valid]
           rowsNow == Append(results, p)
<1>1. /\ pc = "point" /\ pc \in DriverPlaces /\ tool \in {"plain", "zkroam"}
      /\ UNCHANGED <<legValid, calls, fate, lost, ag, finals, sessions, rejected>>
  BY DEF EndPoint, DriverPlaces, ToolInv, Places
<1>2. p \in PointRow /\ p.of = tool
  <2>1. (\A k \in DOMAIN row : row[k].valid) \in BOOLEAN
    OBVIOUS
  <2> QED
    BY <1>1, <2>1, Zenon DEF PointRow
<1> HIDE DEF p
<1>3. /\ results \in Seq(PointRow) /\ at \in 1 .. Len(Sweep[tool]) /\ Len(results) = at - 1
      /\ \A k \in DOMAIN results : results[k].of = tool
      /\ row \in Seq(ModeRow) /\ Len(row) = 2
  BY <1>1 DEF WorkInv, SweepPlace
<1>4. Len(Sweep[tool]) \in Nat
  BY <1>1, SweepAssumption
<1>5. at \in Nat /\ at >= 1 /\ at <= Len(Sweep[tool])
  BY <1>3, <1>4
<1>6. /\ rowsNow \in Seq(PointRow) /\ Len(rowsNow) = at /\ DOMAIN rowsNow = 1 .. at
      /\ \A k \in DOMAIN rowsNow : rowsNow[k].of = tool
  <2> DEFINE n == Len(results)
  <2>1. n \in Nat /\ n + 1 = at /\ DOMAIN results = 1 .. n
    BY <1>3, <1>5
  <2>2. /\ rowsNow \in Seq(PointRow) /\ Len(rowsNow) = n + 1
        /\ \A i \in 1 .. n : rowsNow[i] = results[i]
        /\ rowsNow[n + 1] = p
    BY <1>2, <1>3, AppendProperties
  <2> HIDE DEF n, rowsNow
  <2>3. DOMAIN rowsNow = 1 .. at /\ Len(rowsNow) = at
    BY <2>1, <2>2
  <2>4. ASSUME NEW k \in 1 .. at PROVE rowsNow[k].of = tool
    <3>1. k \in 1 .. n \/ k = n + 1
      BY <2>1
    <3> QED
      BY <1>2, <1>3, <2>1, <2>2, <3>1
  <2> QED
    BY <2>2, <2>3, <2>4
<1>7. \A k \in 1 .. at, j \in 1 .. 2 : DetailFiles(tool, k, Modes[j]) \subseteq saved.details
  <2> TAKE k \in 1 .. at, j \in 1 .. 2
  <2>1. CASE k = at
    <3>1. j \in DOMAIN row
      BY <1>3
    <3> QED
      BY <1>1, <2>1, <3>1 DEF WorkInv, DetailsWritten
  <2>2. CASE k # at
    <3>1. k \in 1 .. at - 1
      BY <1>5, <2>2
    <3> QED
      BY <1>1, <3>1 DEF WorkInv, DetailsWritten
  <2> QED
    BY <2>1, <2>2
<1>8. saved = [details |-> saved.details, summary |-> saved.summary] /\ DetailsBehindSummary
  BY DEF WorkInv, DetailsWritten
<1>9. CASE at < Len(Sweep[tool])
  <2>1. /\ pc' = "ready" /\ tool' = tool /\ results' = rowsNow /\ row' = <<>> /\ at' = at + 1
        /\ UNCHANGED <<saved, leg, late>>
    BY <1>9 DEF EndPoint, Goto, p
  <2> HIDE DEF rowsNow
  <2>2. Modes' = Modes
    BY <2>1 DEF Modes, ModesOf
  <2>3. <<>> \in Seq(ModeRow) /\ Len(<<>>) = 0 /\ DOMAIN <<>> = {}
    OBVIOUS
  <2>4. at' \in 1 .. Len(Sweep[tool]) /\ at' - 1 = at
    BY <1>4, <1>5, <1>9, <2>1
  <2>5. SweepPlace'
    BY <1>6, <2>1, <2>3, <2>4 DEF SweepPlace, DriverPlaces
  <2>6. DetailsWritten'
    <3>1. DetailsBehindSummary'
      BY <1>8, <2>1 DEF DetailsBehindSummary
    <3>2. \A k, j : DetailFiles(tool, k, Modes[j])' = DetailFiles(tool, k, Modes[j])
      BY <2>1, <2>2 DEF DetailFiles
    <3>3. \A k \in 1 .. at' - 1, j \in 1 .. 2 : DetailFiles(tool, k, Modes[j])' \subseteq saved'.details
      BY <1>7, <2>1, <2>4, <3>2
    <3> QED
      BY <1>8, <2>1, <2>2, <2>3, <3>1, <3>3 DEF DetailsWritten
  <2>7. AgreementTypes' /\ CallsAsPlanned' /\ StartsTold' /\ SettlesTold' /\ NegativeIsFair'
    BY <1>1, <2>1 DEF WorkInv, AgreementTypes, CallsAsPlanned, StartsTold, SettlesTold, NegativeIsFair, InLeg
  <2>8. StartsDone' /\ ValidIsBacked'
    BY <1>1, <2>1 DEF WorkInv, StartsDone, ValidIsBacked, IsStarted, IsRead
  <2> QED
    BY <2>5, <2>6, <2>7, <2>8 DEF WorkInv
<1>10. CASE ~(at < Len(Sweep[tool]))
  <2>1. Leave /\ saved' = [saved EXCEPT !.summary = rowsNow]
    BY <1>10 DEF EndPoint, WriteSummary, p
  <2> HIDE DEF rowsNow
  <2>2. saved' = [details |-> saved.details, summary |-> rowsNow]
    BY <1>8, <2>1
  <2>3. saved'.details = saved.details /\ saved'.summary = rowsNow
    BY <2>2
  <2>4. at = Len(Sweep[tool])
    BY <1>4, <1>5, <1>10
  <2>5. rowsNow[1].of = tool
    BY <1>5, <1>6
  <2>6. ToSet(ModesOf(tool)) \subseteq {Modes[1], Modes[2]}
    BY DEF Modes, ModesOf, ToSet
  <2>7. ASSUME NEW k \in DOMAIN rowsNow, NEW m \in ToSet(ModesOf(tool))
        PROVE  DetailFiles(tool, k, m) \subseteq saved.details
    <3>1. m = Modes[1] \/ m = Modes[2]
      BY <2>6
    <3> QED
      BY <1>6, <1>7, <3>1
  <2>8. DetailsBehindSummary'
    <3>1. \A k \in DOMAIN rowsNow, m \in ToSet(ModesOf(rowsNow[1].of)) :
            DetailFiles(rowsNow[1].of, k, m) \subseteq saved.details
      BY <2>5, <2>7
    <3>2. Len(rowsNow) = Len(Sweep[rowsNow[1].of])
      BY <1>6, <2>4, <2>5
    <3>3. \A t, k, m : DetailFiles(t, k, m)' = DetailFiles(t, k, m)
      BY DEF DetailFiles
    <3> QED
      BY <2>3, <3>1, <3>2 DEF DetailsBehindSummary
  <2>9. pc' = "idle" /\ row' = <<>> /\ results' = <<>> /\ at' = 1 /\ late' = {}
    BY <2>1 DEF Leave, Ended
  <2>10. saved' = [details |-> saved'.details, summary |-> saved'.summary]
    BY <2>2, <2>3
  <2> QED
    BY <1>1, <2>8, <2>9, <2>10, NoDriverNoWork DEF DriverPlaces
<1> QED
  BY <1>9, <1>10

\* In the beginning nothing is on the disk.
LEMMA WorkInvInitially ==
  ASSUME WorkInit
  PROVE  WorkInv
<1>1. /\ tool = "none" /\ pc = "idle"
      /\ at = 1 /\ row = <<>> /\ results = <<>> /\ saved = [details |-> {}, summary |-> <<>>]
      /\ leg = 0 /\ legValid = TRUE /\ calls = <<>> /\ fate = <<>> /\ lost = {} /\ late = {}
      /\ ag = <<>> /\ finals = {} /\ sessions = <<>> /\ rejected = FALSE
  BY DEF WorkInit, ProvInit
<1>2. /\ <<>> \in Seq(ModeRow) /\ <<>> \in Seq(PointRow) /\ <<>> \in Seq(Session)
      /\ DOMAIN <<>> = {}
  OBVIOUS
<1>3. SweepPlace
  BY <1>1, <1>2 DEF SweepPlace, DriverPlaces
<1>4. DetailsWritten
  BY <1>1 DEF DetailsWritten, DetailsBehindSummary, DriverPlaces
<1>5. AgreementTypes /\ CallsAsPlanned /\ StartsTold /\ SettlesTold /\ NegativeIsFair
  BY <1>1, <1>2 DEF AgreementTypes, CallsAsPlanned, StartsTold, SettlesTold, NegativeIsFair, InLeg
<1>6. StartsDone /\ ValidIsBacked
  BY <1>1, <1>2 DEF StartsDone, ValidIsBacked, IsStarted, IsRead
<1> QED
  BY <1>3, <1>4, <1>5, <1>6 DEF WorkInv

\* A step of the driver.
LEMMA DriverKeepsWork ==
  ASSUME ProvInv, ProvInv', WorkInv, Driver
  PROVE  WorkInv'
<1>1. ToolInv /\ LegPlaces /\ Places'
  BY DEF ProvInv, ToolInv
<1>2. CASE BeginMode
  BY <1>1, <1>2, BeginModeKeepsWork
<1>3. CASE BeginLeg
  BY <1>1, <1>3, BeginLegKeepsWork
<1>4. CASE GiveUpCall
  <2>1. /\ UNCHANGED <<tool, pc, at, row, results, saved, leg, legValid, calls, fate, late, ag>>
        /\ UNCHANGED <<finals, sessions, rejected>>
    BY <1>4 DEF GiveUpCall
  <2> QED
    BY <2>1, WorkStutters
<1>5. CASE EndLeg
  BY <1>1, <1>5, EndLegKeepsWork
<1>6. CASE ReadSessions
  BY <1>1, <1>6, ReadSessionsKeepsWork
<1>7. CASE NegativeTest
  BY <1>1, <1>7, NegativeTestKeepsWork
<1>8. CASE EndMode
  BY <1>1, <1>8, EndModeKeepsWork
<1>9. CASE EndPoint
  BY <1>1, <1>9, EndPointKeepsWork
<1> QED
  BY <1>2, <1>3, <1>4, <1>5, <1>6, <1>7, <1>8, <1>9 DEF Driver

\* The invariant of the workloads.
LEMMA WorkInvHolds == WorkSpec => []WorkInv
<1>1. WorkInit => WorkInv
  BY WorkInvInitially
<1>2. ProvInv /\ ProvInv' /\ WorkInv /\ [WorkNext]_allVars => WorkInv'
  <2> SUFFICES ASSUME ProvInv, ProvInv', WorkInv, [WorkNext]_allVars PROVE WorkInv'
    OBVIOUS
  <2>1. CASE (ProvNext \/ StartPlain) /\ UNCHANGED workVars
    BY <2>1, ProvisioningKeepsWork
  <2>2. CASE MineLegCall /\ UNCHANGED provVars
    <3>1. ToolInv /\ LegPlaces
      BY DEF ProvInv
    <3> QED
      BY <2>2, <3>1, StartMinedKeepsWork, LegMinedKeepsWork
  <2>3. CASE MineLateCall /\ UNCHANGED provVars
    BY <2>3, LateMinedKeepsWork DEF ProvInv
  <2>4. CASE Driver
    BY <2>4, DriverKeepsWork
  <2>5. CASE UNCHANGED allVars
    <3>1. UNCHANGED <<tool, pc, workVars>>
      BY <2>5 DEF allVars, provVars, localVars
    <3> QED
      BY <3>1, WorkStutters DEF workVars
  <2> QED
    BY <2>1, <2>2, <2>3, <2>4, <2>5 DEF WorkNext
<1> QED
  BY <1>1, <1>2, ProvInvHolds, PTL DEF WorkSpec

\* Each user is given its own session, in whatever order the chain took the starts of the two
\* operators, and however far behind the node was that was asked (read_started_sessions).
THEOREM SessionsAreRead == WorkSpec => []SessionsReadAsPlanned
<1>1. WorkInv => SessionsReadAsPlanned
  BY DEF WorkInv, StartsDone, SessionsReadAsPlanned
<1> QED
  BY <1>1, WorkInvHolds, PTL

\* The gas that a leg gives each of its calls is that of a call at least as large, for any
\* size of batch and of group (run_leg).
THEOREM EstimateCovers == WorkSpec => []EstimateCoversLeg
<1>1. ASSUME ProvInv, WorkInv PROVE EstimateCoversLeg
  <2> SUFFICES ASSUME pc = "leg", NEW i \in DOMAIN calls PROVE Size(calls[i]) <= Size(calls[1])
    BY DEF EstimateCoversLeg
  <2>1. InMode /\ leg \in 1 .. 3
    BY <1>1, ModeIsUnderWay DEF WorkInv, ProvInv, ToolInv, LegPlaces, DriverPlaces
  <2>2. calls = CallsOf(LegNames[leg])
    BY <1>1 DEF WorkInv, CallsAsPlanned
  <2>3. 1 \in Users /\ 1 \in 1 .. Groups[tool]
    BY <2>1, ModeIsKnown
  <2>4. CASE leg = 1
    BY <2>1, <2>2, <2>3, <2>4, LegCalls, OtherCalls
  <2>5. CASE leg = 2 /\ mode = "aggregate"
    <3>1. calls = Anchors
      BY <2>1, <2>2, <2>5, LegCalls
    <3> QED
      BY <2>1, <2>3, <3>1, OtherCalls
  <2>6. CASE leg = 2 /\ mode # "aggregate"
    <3>1. calls = Commits
      BY <2>1, <2>2, <2>6, LegCalls
    <3> QED
      BY <2>1, <2>3, <3>1, OtherCalls
  <2>7. CASE leg = 3
    BY <2>1, <2>2, <2>7, LegCalls, SettlementsCover
  <2> QED
    BY <2>1, <2>4, <2>5, <2>6, <2>7
<1> QED
  BY <1>1, ProvInvHolds, WorkInvHolds, PTL

\* As many sessions as users: each has one, and nobody else.
LEMMA AsManyAsUsers ==
  ASSUME ag \in Seq(Session), AllStarted
  PROVE  Len(ag) = Cardinality(Users)
<1> DEFINE of == [id \in DOMAIN ag |-> ag[id].u]
           n == Len(ag)
<1>1. of \in Injection(DOMAIN ag, Users) /\ of \in Surjection(DOMAIN ag, Users)
  BY DEF AllStarted, OneEach, Injection, Surjection, IsInjective
<1>2. n \in Nat /\ DOMAIN ag = 1 .. n
  OBVIOUS
<1> HIDE DEF of, n
<1>3. IsFiniteSet(1 .. n) /\ Cardinality(1 .. n) = n
  BY <1>2, FS_Interval
<1>4. IsFiniteSet(Users)
  BY <1>1, <1>2, <1>3, FS_Surjection
<1>5. Cardinality(DOMAIN ag) = Cardinality(Users)
  BY <1>1, <1>2, <1>3, FS_Surjection, FS_Injection
<1> QED
  BY <1>2, <1>3, <1>5 DEF n

\* A mode that is reported valid has every session of its plan settled on the chain, by then
\* and not by a call that was given up, and a summary has all its rows and detail files.
THEOREM RowsStandForSettlements == WorkSpec => []RowsAreBacked
<1>1. ASSUME WorkInv PROVE RowsAreBacked
  <2>1. ASSUME row # <<>>, row[Len(row)].valid, pc \in {"ready", "point"}
        PROVE  /\ Len(ag) = Cardinality(Users) /\ \A id \in DOMAIN ag : ag[id].settled
               /\ row[Len(row)].mode = "aggregate" /\ nproofs >= 2 => rejected
    <3>1. Backed(row[Len(row)].mode)
      BY <1>1, <2>1 DEF WorkInv, ValidIsBacked
    <3>2. Len(ag) = Cardinality(Users)
      BY <1>1, <3>1, AsManyAsUsers DEF WorkInv, AgreementTypes, Backed
    <3> QED
      BY <3>1, <3>2 DEF Backed
  <2>2. ValidMeansSettled
    BY <2>1 DEF ValidMeansSettled
  <2> QED
    BY <1>1, <2>2 DEF WorkInv, DetailsWritten, RowsAreBacked
<1> QED
  BY <1>1, WorkInvHolds, PTL
==============================================================================
