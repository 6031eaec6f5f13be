# A verification of zkRoam

zkRoam settles roaming charges between two mobile operators on a chain. A home
operator (HMNO) signs the start of a session for one of its users (UE) and puts
the estimated cost in escrow; the visited operator (VMNO) later proves, shows or
has anchored what the session really cost; the contract pays the cost to the
visited operator and the rest back. This directory holds TLA+ modules for the
contracts that do this, the TLC runs that check them on small instances, and
theorems that TLAPS proves for every size. It also models the Python programs that
measure the contracts: how transactions are submitted and confirmed, how legs keep
their nonces, how the anchor is provisioned, and what is reported as valid.

Paths below are relative to the repository's root, which `PROJECT.json` calls
`src/`; `E/` stands for `experiments/contracts/`, `W/` for
`experiments/workload/`.

## 1. Inventory

| component | state | operations | talks to |
|---|---|---|---|
| `E/AgreementBase.sol` | `sessions`, `sessionCounter`, `nonces`, `ueRoamingSessions`, token balances | `startRoamingSession`; internal `_settleSession`, `_finalize`, `_payout`, `_transferFunds`; views | ERC-20 token; inherited by the next three |
| `E/AgreementIndividual.sol` | `ueCDRHash` of each session | `submitCDR`, `terminateRoamingSession` | Groth16 verifier generated from `circuits/CDRCircuit.circom` |
| `E/AgreementPlain.sol` | the same | `submitCDR`, `terminateRoamingSession`, `settleBatch` | - |
| `E/AgreementAggregate.sol` | none of its own | `settleBatch` | reads the anchor; users' signatures |
| `E/SnarkPackAggregateAnchor.sol` | `threshold`, `isVerifier`, `attestations`, `agreementCount`, `finalizedCommitment`, `isFinalized` | `addVerifier`, `setThreshold`, `anchorAggregateProof`, `relayAggregateProof` | verifiers that run snarkpack off chain |
| `contracts/Agreement.sol` | as AgreementBase | the first version of the agreement | Groth16 verifier |
| `contracts/AgreementFactory.sol` | `agreements`, `numberOfAgreements` | `createAgreement`, `getActiveAgreement` | deploys `Agreement` |
| `E/PlainRoamingSettlement.sol` | `tariffs`, `settled`, `owed` | `setTariff`, `settlePlain`, `settleBatch` | - |
| `E/CDRCommitment.sol`, `E/CDRBatchCommitment.sol` | write-once commitments, Merkle roots | `commit`, `commitBatch`, `verifyInclusion` | - |
| `W/agreement_common_e2e.py` | `Env`: the next nonce of each sender; the legs | `take_nonce`, `forget_nonces`, `run_leg`, `drain`, `run_setup_chunked`, `start_sessions`, `read_started_sessions`, `commit_leg`, `apply_block_time_latency` | nodes' transaction pools |
| `W/besu_benchmark.py` | transactions with their status, the samples of the host | `submit_all`, `poll_all_receipts`, `ResourceMonitor`, statistics, `main` | nodes over RPC |
| `W/zkroam_workload_e2e.py`, `W/plain_workload_e2e.py` | plans, batches, rows | `ensure_attesters`, `run_individual`, `run_aggregate`, `run_mode`, `main` | the contracts through the legs |
| `W/zkroam_threshold_ablation.py` | its own nonces, its rows | `Chain.send`, `main` | the anchor |
| `W/deploy_verifiers.py`, `W/deploy_cdr_commit.py` | `deployed_contracts.json` | `deploy`, `add_verifiers_parallel` | the anchor, the harnesses |
| `W/run_*_experiment*.py` | results folders, the network that is up | `start_network`, `run_sweep`, `check_all_legs_valid`, `teardown` | all of the above as processes |
| older workloads, monitoring, network generation, Foundry scripts, Rust benchmarks, generated verifiers | - | - | - |

What each must get right:

* **Agreements.** The contract's balance covers every pending session, no session
  is paid twice or out of another's escrow, the price is that of the record the
  user committed or signed, a user is in one pending session, a signed start
  message is used once, and what can be settled is.
* **Anchor.** An id becomes final by a quorum of authorised verifiers only, each counted
  once, and stays so. (That the whole quorum attested to the final commitment, which the
  contract's comments say, does not hold: see section 3.)
* **Factory.** One agreement in force per pair of operators, and the registry
  names it.
* **Legs.** No sender is left with a nonce that the chain will never reach, none that
  was settled is used again, nothing is measured on top of a failed set-up, and every
  leg ends whatever the nodes do.
* **Provisioning.** A workload that begins to relay sends enough signatures; a
  threshold reported as restored is.
* **Reports.** A leg that says valid has its effect on the chain, two figures for the
  same thing agree, and a harness that measured says ok only of what it has just measured.

What is hard to test here: messages that anybody may submit in any order and
repeatedly, batches with repetitions or overlaps, netting, disagreement of
verifiers, owner changes in the middle of a count, boundaries of expiry and
escrow; requests that the client has given up and the node still takes, answers and
pooled transactions that are lost, threads that raise, tools that meet what an earlier
tool left under way, files that outlive the network they describe.
`PROJECT.json` lists each
hazard at its line with the properties that cover it.

## 2. Modules

| module | models | state and actions |
|---|---|---|
| `TokenSums` | sums over finite sets, defined by counting so that they can be proved about | - |
| `RoamingEscrow` | abstract specification: what an agreement promises | `ledger`, `wallet`; `OpenSession`, `SettleSessions`, `HandOver` |
| `AgreementBase` | `E/AgreementBase.sol` | the contract's tables under their own names, `bal` for the token, `now` for `block.timestamp`; `StartRoamingSession`, `SubmitCDR`, `SettleSessions`, and for the environment `Tick`, `Donate` |
| `AgreementIndividual` | `E/AgreementIndividual.sol`, the circuit's relation | adds `TerminateRoamingSession` |
| `AgreementPlain` | `E/AgreementPlain.sol` | adds `TerminateWithRecord`, `SettleBatch` |
| `SnarkPackAggregateAnchor` | `E/SnarkPackAggregateAnchor.sol` | one action per call |
| `AgreementAggregate` | `E/AgreementAggregate.sol` composed with an instance of the anchor, signing users and attesting verifiers | `SignCDR`, `AttestTo`, `SettleBatch` |
| `Agreement` | `contracts/Agreement.sol`, as the difference to AgreementBase | `StartFirstVersion`, `SubmitAnyCDR`, `TerminateFirstVersion` |
| `AgreementFactory` | `contracts/AgreementFactory.sol` | `CreateAgreement`, `Tick` |
| `BesuNode` | a node as the workload uses it (external) | `mined`, `pool`; a pool keeps what is behind a gap, refuses a nonce it has seen and more than its share of an account |
| `TransactionEngine` | `submit_all`, `poll_all_receipts` | the three positions `handed`, `awaited`, `taken` in one sequence `txs`; `HandOver`, `AwaitOldest`, `Take`, `Submit`, `Arrive`, `BeginPoll`, `FindReceipt`, `GiveUp` |
| `AgreementLegs` | `Env`, `_setup_batches`, `run_leg`, `drain` over the engine and the nodes | `cache` for `Env._nonce`; `StartLeg`, `FinishSubmit`, `FinishPoll`, `Drain`; its constant `Legs` is any list of legs, which `LegsOfDriver` makes of a driver's sections |
| `LegStatistics` | `compute_statistics`, `compute_rpc_statistics`, the three percentiles, `apply_block_time_latency` | operators only |
| `ResourceMonitor` | the class of that name | `phase`, `samples`, the thread's state; `BeginSample`, `EndSample`, `Join`, ... |
| `BesuBenchmark` | `main` of `besu_benchmark.py`: engine, sampler and statistics composed | one action for each step of `main` and each part of the report |
| `AnchorProvisioning` | `deploy_verifiers.py`, `ensure_attesters`, the ablation, one after the other on one chain | `anchors` for the contracts, `file` for `deployed_contracts.json`; the owner's calls go through `BesuNode` |
| `SessionWorkload` | the end-to-end workloads on top of `AnchorProvisioning` | `ag`: the agreement's sessions; `calls`, `fate`, `lost`, `late` for a leg's transactions; `row`, `results`, `saved` |
| `ExperimentSweep` | the four harnesses | `net`, `deployed`, `folders`; one action for each step of `run_sweep` |
| `MC*` | data and constants of the runs | - |
| `*_proofs` | theorems and proofs | - |

How they are composed. `AgreementAggregate` instantiates the anchor. `AgreementLegs`
and `BesuBenchmark` both extend `TransactionEngine`, which extends `BesuNode`;
`SessionWorkload` extends `AnchorProvisioning`, which has the pool of `BesuNode` for
the owner's calls. `SessionWorkload` reduces a leg to what a driver sees of it (each
call is mined in the order of its sender's nonces, reverts, or is given up and mined
later or never); `AgreementLegs` is the detail of that. It reduces the contracts to
what decides whether a call succeeds; money is in the contracts' own modules.

Conventions. A transaction is atomic, so an action is a call that succeeds; each
`require` or `revert` is a guard, and a call that fails changes nothing and is no
step. Session ids start at 1 and tables are functions over `1 .. MaxSessions`. Two
history variables record what no table keeps: the message that started each
session (`startMsg`) and the tokens sent to the contract outside a session
(`donated`). Definitions whose comment begins with "Mutant" are deliberate
mistakes; no specification uses them.

Abstractions.

* A signature is the set of those who signed exactly that content; whatever may
  have been signed can be submitted by anyone, at any time, repeatedly.
* Hashes and commitments are values, equal only for equal contents
  (`HashAssumption`, `CommitmentIsInjective`).
* A Groth16 proof exists exactly when the circuit's relation holds of the public
  signals in the order passed (`CDRCircuit`, `PublicInputs`). Field arithmetic is
  not modelled: records are naturals.
* The token is an ERC-20 without callbacks that may deliver less than it was
  asked to move; both payouts are one step.
* In the aggregate model a user signs hashes for its own session, once or
  several times, and up to `Threshold - 1` verifiers attest to anything, zero included.
* `bytes32(0)` is a commitment like any other to the caller of the anchor and "none yet"
  to the anchor: `NoCommitment` is both. Who has attested is told by the timestamp in the
  code, by a value apart (`NoAttestation`) in the model.
* `endTime`, `startTime`, `nproofs` and events are left out.
* In the workload's modules there is no time except the bounded clock of
  `BesuBenchmark`: a timeout may strike whenever something is waited for.
* A *mishap* is a request, an answer or a pooled transaction that is lost, a node that
  is behind, or a deployment that raises. `MaxMishaps` bounds them; timeouts are free
  where a leg polls.
* A lost request may still reach the node later (`delayed`), as the client's timeout
  does not stop it.
* The ablation does not send a call whose estimate reverts (`Refused`); the other tools
  give their calls a fixed limit. The probe of the verifier's gas is left out: it is the
  same for every call of its leg.
* A configuration of the harnesses asks for runs or for none (`measures`); a results
  folder holds one summary, whose file name in the code depends on the configuration.
* Calls that other accounts than the owner sign are atomic in `AnchorProvisioning`;
  contract addresses are numbers.

## 3. Runs

| run | instance | what it shows |
|---|---|---|
| `individual` | 2 users, 2 operators and an outsider who signs, 3 sessions, expiry inside the run, one donated token, hashes with and without a record, short deliveries of the token | the escrow is exact (`Solvent`); `OneActivePerUE`; `MessageStartsOneSession`; `ChargedAsCommitted`; `SessionLifecycle`; it implements `RoamingEscrow`; under fairness every committed session that fits its escrow is settled, also after expiry |
| `plain` | 3 users, 3 sessions with both operators as home, batches of up to 3 entries in every order, with repetitions | netting pays what one-by-one settlement pays (`BatchImplementsEscrow`); batches alone settle everything (`BatchesSettleAll`) |
| `aggregate` | 2 sessions, 3 verifiers of which 1 mistaken, 4 batches: a pair, an overlapping one, one that repeats a session, one that overcharges | `ChargedAsProvedAndSigned`, `SettledAsAnchored`, refinement of the escrow |
| `anchor` | 3 verifiers added during the run, threshold moving up and down, 2 ids, 2 commitments and zero, relays of up to 2 | a count is of votes for the commitment or for zero and misses none for the commitment of an open id (`CountMatchesVotes`); nothing but a quorum of them finalises (`FinalizedByQuorum`); finality stays; the tally computed at once equals the contract's loop (`TallyIsTheLoop`) |
| `factory` | 3 operators, 3 pairs, 3 agreements, 5 instants | one agreement in force per pair; the registry names it; one agreement per number |
| `legs` | 2 senders, 6 transactions in a set-up, a measured leg, a set-up and a measured leg; 2 threads, one mishap | between legs a remembered nonce is never ahead of the node's, and is the chain's when all is settled (`NonceUsable`); `NonceNotReused`; `SetupStandsBehind`; `WindowBounded`; under fairness `RunEnds` |
| `report` | 2 transfers on 2 nodes, 2 samples, one tick of the clock, one mishap; lists of up to 4 values and of up to 3 transactions | counts agree however they are made (`TalliesAgree`), what is printed, summarised and written agrees (`NoDrift`), three percentiles are one (`PercentilesAgree`), `BlockTimeNeverLonger` |
| `workload` | 3 tools in any order, one mishap, pool of 3, a committee of 2, ablation at 4 and 5; plain: 3 sessions in batches of 2; zkRoam: 2 groups of 2 and then of 1 | `FileIsProvisioned`, `SignersSuffice`, `PointsAreEnforced`, `RestoredForGood`; `SessionsReadAsPlanned`, `RowsAreBacked`, `EstimateCoversLeg` |
| `sweep` | 3 invocations of 4 harnesses, all flags, one pair, every failure and Ctrl-C | `OkMeansValid`, `NothingLeftRunning`, `VerifiersSnapshotMatches` |
| `anchor_lock` | after set-up, 3 verifiers, threshold 2 | **finding**: a quorum for a commitment is ignored when another commitment was attested first |
| `first_version_sessions` | first version of the agreement | **finding**: two pending sessions of one user |
| `sweep_snapshot` | as `sweep`, two invocations | **finding**: a results folder's `deployed_contracts.json` names contracts of an earlier network, although `experiments/README.md` says that it holds those that produced the results |

Four more differences between the code and what it says of itself have no run of their own:

* `agreementCount` is documented as the "count of verifiers agreeing on the finalized
  commitment" (`E/SnarkPackAggregateAnchor.sol:71`). An attestation to `bytes32(0)` is
  counted too, and leaves the slot as empty as it was (`:204`): with a threshold of two,
  one verifier attests to zero and the next to c, and the id is final with a single vote
  for c. `anchor` reaches these states; its properties say what does hold of them.
* "the workload must have produced its summary CSV", says the plain harnesses' check
  (`W/run_plain_experiment_e2e.py:180`); it accepts any file of that name, and a
  workload that is configured without runs ends well and writes none, so that under
  `--force` the summary of an earlier invocation passes. `W/run_zkroam_experiment_e2e.py`
  has no such check and says ok without any summary. `sweep` reaches both.
* The first version passes the circuit's public signals in another order than the circuit
  declares them (`contracts/Agreement.sol:184`, `circuits/CDRCircuit.circom:135`; the run
  `individual` checks the corrected order).
* At the second at which an agreement expires `getActiveAgreement` names none while
  `createAgreement` still refuses a successor (`contracts/AgreementFactory.sol:66`, `:147`).

What some properties do not claim. `CountMatchesVotes` and `FinalizedByQuorum` count
attestations to zero with those to the commitment of the id, because the contract does;
where nobody attests to zero they say that the count of an open id is its votes. In `aggregate` this
does no harm: fewer verifiers than the quorum are mistaken, so one of the quorum has
checked the commitment. `OkMeansValid` asks for a summary of this invocation only where the
workload had anything to measure. `SignersSuffice`, `PointsAreEnforced` and
`RestoredForGood` speak of tools that began with nothing of the owner's under way:
without that they are false, because an owner's transaction that an earlier tool gave up
may be mined after the threshold was read, and the code does not wait for it.
`VerifiersSnapshotMatches` speaks of the pairs that deployed the verifiers themselves and
of those whose workload called them; the rest is the finding. `NoDrift` excepts what the
sampler adds after `stop` gave up joining it.

Every property of a passing run has a mutant that violates it (`PROJECT.json`,
"mutants").

Bounds. Three sessions are the fewest in which one user has a settled session
before and another user's session between two of its own, which is what the
session rule is about; three entries are the fewest in which a batch mixes both
homes and repeats one. Costs 1 and 2 against escrows 0 to 2 cover zero, equality and
excess; three different prices per unit tell every exchange of public inputs
apart. Two commitments and zero, three verifiers and thresholds 1 to 3 contain
disagreement, a slot that is taken over, overshooting relays and lowered thresholds. In
`legs` both senders meet again after a leg that went wrong, one of them with two transactions in a row, so that a gap, a
replaced nonce and a full pool all occur; the window is full at two futures. In
`workload` the ablation's 4 and 5 are above the committee of 2, so that a threshold left
behind is one that the workload cannot meet, and its first call authorises the account
that a late call of a workload may have authorised in between (a threshold of 1, whose
boundary the code does not try, is left to the theorem); three sessions in batches of 2 leave a
rest, two groups and two accounts interleave; three tools are the fewest in which a deployment is
followed by an ablation and a workload. In `sweep` three invocations are the fewest in
which a file passes through a harness that neither wrote nor needs it. Deadlock is not checked: all these
systems stop when the bounded work is done. Symmetry is used only in runs
without liveness.

Fairness. `AgreementIndividual` assumes weak fairness of terminating each session: the
visited operator is paid by it, anyone may call it, and no other call can
disable it except settling that session. `AgreementPlain` assumes weak fairness of
submitting some batch that succeeds, and of nothing else; users are never
obliged to commit, and time may stop. `LegsSpec` assumes weak fairness of the workload's
own steps together: an HTTP timeout ends each request, `receipt_timeout` each poll,
`drain_timeout_s` each drain, and threads that can run do. Nothing is asked of the
nodes, which may never mine a block. The other workload runs state safety only.

## 4. Proofs

Each component's theorems stand in a module of their own, on top of an inductive
invariant that TLC checked before it was proved.
`PROJECT.json` lists the theorems; the lemmas beside them say what each action does
to each part of the invariant.

* `AgreementBase_proofs` has what the three agreements share. First the sums: a sum
  over a finite set changes by what is added to or taken from the set, depends on the
  summed values only, and may be taken over the places of a batch instead of its
  sessions when no session stands twice in it. Then the invariant `BaseInv`, which
  every step of the base keeps. `OneActivePerUE` is not inductive, since the code
  looks only at the user's latest session; the strengthening says that a pending
  session is always the latest of its user (`ActiveIsLatest`) and that exactly the ids
  up to the counter hold a session, of a user and an operator (`IdsInUse`).
  `MessageStartsOneSession` needs that every message used carries a nonce below the
  signer's current one (`NoncesSpent`). `Solvent` needs the sums.
* `AgreementCommitted_proofs`: the two agreements whose users commit a hash, which
  differ from the base only in how a session ends. With termination added, `TypeOK`,
  `Solvent`, `OneActivePerUE`, `MessageStartsOneSession`, `ChargedAsCommitted` and
  `SessionLifecycle` hold of `Spec` for any users, sessions, amounts and prices.
  `IndividualImplementsEscrow` proves that the contract refines `RoamingEscrow` under the
  mapping of `LedgerView`: a start opens a session, a termination settles one
  alone, a donation hands tokens over, everything else stutters. The theorems named
  `Plain...` say the same of `PlainSpec`, with batches of any length. That a
  batch pays what settling one by one would pay is where the sums are needed: the
  contract adds up two totals, one for each home operator, over the places of the
  batch, and the abstract step takes one sum over the set of its sessions; they are
  equal because a session that is repeated is refused.
* `AgreementAggregate_proofs`: the same for the composition with the anchor, and in
  addition `ChargedAsProvedAndSigned` and `SettledAsAnchored`. The anchor's own
  lemmas are taken through an instance (`AnchorFacts`). The invariant says that who is not
  mistaken has attested to proved batches only (`VotesChecked`) and that what is final
  has a quorum behind it (`QuorumBehindFinal`); as the mistaken are fewer than the
  threshold, what is final was proved (`FinalIsProved`): one of those counted is not
  mistaken, and so has attested to the commitment itself, as zero is none that it
  attests to.
* `SnarkPackAggregateAnchor_proofs`: `TypeOK`, `CountMatchesVotes`,
  `FinalizedByQuorum` and `FinalityIsStable`, for any number of verifiers and any
  commitments, zero among them or not. The invariant adds that all who attested are
  authorised and that nobody has attested, unless to zero, while the id has no commitment.
  `TallyIsTheLoop` justifies that a relay is
  one step of the model: the loop of the contract, which counts one attestation after the
  other and stops counting in the middle of a relay once the quorum is there, leaves the
  tally that `Tally` gives at once. `OneMoreAttests` is one turn of the loop; `LoopAddsUp`
  takes the least turn at which the loop could have left anything else.
* `AgreementFactory_proofs`: the three invariants of the run `factory`. The invariant ties
  the registry to the deployed contracts in both directions while they are in
  force.
* `TransactionEngine_proofs`, the legs: `WindowBounded`, `NonceUsable`, `NonceNotReused` and
  `SetupStandsBehind`, for any list of legs, any number of threads and futures, any
  pool, and any number of losses. `NonceUsable` speaks of the time between two legs, so the
  invariant has to say what is true in the middle of one (`CacheInv`): a remembered nonce
  is mined up to, or the running leg holds the transaction just below it. When the
  leg is over either that transaction has a receipt, or the sender is forgotten. What
  is forgotten is read again from the node, which is above all that was settled since
  a receipt is of a block (`ReceiptsAreMined`, `KnownIsFresh`), whatever else still
  waits or arrives late. A sender that is not remembered has a transaction that
  failed or was given up, and keeps it for good (`KnownOrStuck`): this is why the
  remembered nonce of a sender without one is the chain's. `PendingIsFree` shows that
  the node's answer exists, since a pool is bounded and has a free nonce; it uses that
  every set of natural numbers has a least element, which `NatLeast` gets from the
  library's well-founded induction in its form with sets.
* `TransactionEngine_proofs`, the benchmark: `TalliesAgree` and `NoDrift`, of `BenchSpec`,
  for any accounts, nodes, threads, samples and losses. `BenchInv` says how they come
  about: a thread takes a transaction and its time together and a receipt gives another
  (`TimesTaken`), no transaction is without an outcome once its threads are joined
  (`OutcomesKnown`), the sampler has ended when main goes on or is known not to have
  (`SamplerKnown`), and every part of the report is what it would be if made again
  (`ReportStands`). The tallies are sums over the nodes of counts, equal to one count
  as every transaction is at one node (`PartsAddUp`); the four outcomes are apart
  and are all there are (`ClassesAddUp`).
  `PercentilesAgree` and `BlockTimeNeverLonger` need what sorting does to finite lists of
  integers: `SortedIs` says what stands at a place, `SortedMonotone` that smaller values,
  in whatever order, put a smaller one at each place. The interpolations then agree
  because a rank below the last has a neighbour (`RankFits`), and keep the order of their
  values (`BetweenMonotone`).
* `ExperimentSweep_proofs`: `OkMeansValid`, `NothingLeftRunning` and
  `VerifiersSnapshotMatches`, for any number of pairs and invocations. The first needs
  what the harness knows at each line of its `try` block: the summary is this
  invocation's once a workload that measures is through, and valid once it was checked
  (`SummaryIsFresh`), although the folder may hold an older one until then, or for good
  where nothing was measured; a report
  keeps that of its pair (`ReportsAreBacked`).
  The third needs that nothing in `deployed_contracts.json` is older than its verifiers
  (`FileIsOrdered`): `deploy_verifiers.py` writes the file from nothing where the other
  tools add to it, so once the verifiers are of the network that is up
  (`VerifiersAreHere`), so is all the rest.

* `SessionWorkload_proofs`: the four invariants of the provisioning and the three of the
  workloads, of `WorkSpec`, for any pool, committee, list of thresholds, sweep, groups and
  chunks, and any number of tools and losses. They rest on three invariants, one on top of
  the other.
  `ProvInv` is about what the owner sent: a call is in the pool, on the wire or in a
  block, in one of them only and once (`CallsOnce`); what a block has accepted has had its
  effect for good (`MinedTookEffect`); every anchor has a threshold that its verifiers can
  meet (`AnchorsSound`); and the calls that `deploy_verifiers.py` made at once are those of
  the whole pool (`SpreadCovers`), so that when all their receipts say success the file
  may be written. `FileIsProvisioned` follows.
  `QuietInv` is about a tool that began with nothing of the owner's under way: everything
  in pool and wire is then its own (`QuietCalls`), nonces rise with the calls
  (`NoncesAscend`), and the ablation's last call is behind all the others
  (`RestoreIsLast`), so that once it has succeeded none of them can be mined any more.
  `SignersSuffice`, `PointsAreEnforced` and `RestoredForGood` follow.
  `WorkInv` follows a mode through its legs. What is confirmed is on the chain
  (`StartsTold`, `SettlesTold`), the ids read back are one for each user (`StartsDone`),
  nothing that was given up is late before the second leg has ended
  (`AgreementTypes`), and no relay is late when the test with swapped signatures begins
  (`NegativeIsFair`), which is what makes its refusal one of the signatures.
  `RowsAreBacked` needs that confirming every settlement settles every user: that the
  chunks of the groups cover the users (`ChunksCover`, `BatchesCover`,
  `SettlementsCover`). This is a fact about `FlattenSeq`, whose recursion is taken apart
  in `FlattenIsBuilt` by the least place at which it could differ.

Assumptions are the named `ASSUME`s of the modules: the constructors' checks,
natural amounts, collision-free hashes, finitely many verifiers, a mark for
"not attested" that is no commitment, commitments of batches that are not zero, relays of at least one signature, a pool of at least one verifier, fewer mistaken verifiers than the
threshold, at least one thread and one future for each, pools that hold at least one
transaction of an account, legs made of known senders, a topology with at least one node
and accounts that are known, receipts that are found after their transactions were sent,
the configurations and thresholds that the drivers and the ablation accept. TLC evaluates them in every run.

Model-checked only:

* liveness (`RunEnds`, `BatchesSettleAll` and the settlement of every committed session): it is out of
  reach of TLAPS, which knows neither fairness nor ENABLED here;
* the findings, which say that something does not hold.

All other properties of the passing runs are stated by a theorem. Where one is about a
recursive function (the loop of a relay, a fold, `FlattenSeq`), the library's theorems of
induction cannot be used, as they take an operator for a parameter; the proofs give the
function in closed form instead and refute the least place at which the two differ.

## 5. Not modelled, and the plan

Out of scope: the Poseidon permutation and pairing arithmetic, the Rust
benchmarks, generated verifiers, `collect_metrics.py` and `besu_inspect.py` (they read
and print), network and account generation, container and Foundry scripts. They are
cryptography, generated code or input and output.

Partly modelled: `zkroam_workload.py` and `plain_workload.py`, the older workloads,
only as the harnesses see them. Their legs repeat those of the end-to-end versions
against contracts that store data and settle nothing. Of the deployment helpers
`deploy_cdr_batch_commit.py` is used by nothing, and `build_contracts_e2e.py` compiles.

Left for later, in this order:

1. `PlainRoamingSettlement` and the CDR commitments: atomic batches, the replay
   guard, debts as a refinement of a ledger of charged records; Merkle inclusion
   with promoted nodes against a reference definition.
2. Liveness of the aggregate path: sessions left behind by an overtaken batch can
   be settled through a new one.
