---------------------------- MODULE AgreementLegs ----------------------------
(***************************************************************************)
(* agreement_common_e2e.py: Env, which remembers the next nonce of every   *)
(* sender, and the legs that the end-to-end workloads run one after the    *)
(* other: sign, submit, poll, forget the nonces of senders with an         *)
(* unsettled transaction, drain the pool.  A set-up leg with a bad         *)
(* transaction ends the run; a measured one does not.                      *)
(***************************************************************************)
EXTENDS TransactionEngine, SequencesExt, FiniteSetsExt, Folds

CONSTANTS
  Legs,        \* what the driver runs: <<[measured, specs: senders in order], ...>>
  Chunk,       \* transactions of a set-up batch
  PerSender    \* of one sender in a set-up batch (setup_per_sender), 0: no limit

ASSUME LegsAssumption == Legs \in Seq([measured : BOOLEAN, specs : Seq(Senders)])

VARIABLES
  cache,   \* Env._nonce: the next nonce of the senders it knows
  leg,     \* legs begun
  pc       \* "idle", "submit", "poll", "drain", "aborted"

legVars == <<nodeVars, engineVars, cache, leg, pc>>

------------------------------------------------------------------------------
\* _setup_batches: cut before a transaction that would exceed the batch or its
\* sender's share of it.
OfSender(batch, s) == Cardinality({k \in DOMAIN batch : batch[k] = s})

SetupBatches(specs) ==
  LET Full(batch, s) ==
        /\ batch # <<>>
        /\ \/ Len(batch) >= Chunk
           \/ PerSender > 0 /\ OfSender(batch, s) >= PerSender
      Add(s, acc) == IF Full(acc.cur, s)
                     THEN [batches |-> Append(acc.batches, acc.cur), cur |-> <<s>>]
                     ELSE [acc EXCEPT !.cur = Append(@, s)]
      end == FoldLeft(LAMBDA acc, s : Add(s, acc), [batches |-> <<>>, cur |-> <<>>], specs)
  IN  IF end.cur = <<>> THEN end.batches ELSE Append(end.batches, end.cur)

\* run_setup_chunked runs a leg for every batch, run_leg one for a measured section.
LegsOf(section) ==
  IF section.measured THEN <<section>>
  ELSE [b \in DOMAIN SetupBatches(section.specs) |->
          [measured |-> FALSE, specs |-> SetupBatches(section.specs)[b]]]

\* The legs of a driver whose sections are these; what follows holds of any legs.
LegsOfDriver(sections) == FlattenSeq([k \in DOMAIN sections |-> LegsOf(sections[k])])

------------------------------------------------------------------------------

LegsInit ==
  /\ NodeInit /\ EngineInit
  /\ cache = <<>> /\ leg = 0 /\ pc = "idle"

\* rpc_of, _load_nonce, preload_nonces, take_nonce: a sender that is not known is read from its node.
KnownNonce(s) == IF s \in DOMAIN cache THEN cache[s] ELSE PendingCount(s)

\* run_leg, up to its submission: nonces are dealt in the order of the specs.
StartLeg ==
  /\ pc = "idle" /\ leg < Len(Legs)
  /\ LET specs == Legs[leg + 1].specs
         tx(i) == [leg |-> leg + 1, sender |-> specs[i], status |-> "prepared",
                   nonce |-> KnownNonce(specs[i]) + OfSender(SubSeq(specs, 1, i - 1), specs[i])]
         used == ToSet(specs)
     IN  /\ txs' = txs \o [i \in DOMAIN specs |-> tx(i)]
         /\ cache' = [s \in DOMAIN cache \cup used |->
                        IF s \in used THEN KnownNonce(s) + OfSender(specs, s) ELSE cache[s]]
  /\ first' = Len(txs) + 1
  /\ handed' = Len(txs) /\ awaited' = Len(txs) /\ taken' = Len(txs)
  /\ leg' = leg + 1 /\ pc' = "submit"
  /\ UNCHANGED <<nodeVars, polling, delayed, mishaps>>

\* A nonce cannot be read: the exception ends the run.
LoadFails ==
  /\ pc = "idle" /\ leg < Len(Legs)
  /\ ToSet(Legs[leg + 1].specs) \ DOMAIN cache # {}
  /\ mishaps < MaxMishaps /\ mishaps' = mishaps + 1
  /\ pc' = "aborted"
  /\ UNCHANGED <<nodeVars, txs, first, handed, awaited, taken, polling, delayed, cache, leg>>

\* submit_all has returned.
FinishSubmit ==
  /\ pc = "submit" /\ AllSubmitted
  /\ pc' = "poll"
  /\ UNCHANGED <<nodeVars, engineVars, cache, leg>>

Settled(i) == txs[i].status \in {"confirmed", "reverted"}

\* Mutant: only what was refused makes a nonce uncertain.
UnsettledIfFailed == {txs[i].sender : i \in {j \in InLeg : txs[j].status = "failed"}}

\* forget_nonces
Unsettled == {txs[i].sender : i \in {j \in InLeg : ~Settled(j)}}

\* A leg with a reverted, unanswered or refused transaction.
BadLeg == \E i \in InLeg : txs[i].status # "confirmed"

\* Mutant: a set-up leg is treated like a measured one.
FinishPollAlike ==
  /\ pc = "poll" /\ AllPolled
  /\ cache' = [s \in DOMAIN cache \ Unsettled |-> cache[s]]
  /\ pc' = "drain"
  /\ UNCHANGED <<nodeVars, engineVars, leg>>

\* Mutant: a sender with an unsettled transaction goes back to where the leg began.
FinishPollRollback ==
  /\ pc = "poll" /\ AllPolled
  /\ cache' = [s \in DOMAIN cache |->
                 IF s \in Unsettled THEN Min({txs[i].nonce : i \in {j \in InLeg : txs[j].sender = s}})
                                    ELSE cache[s]]
  /\ pc' = IF BadLeg /\ ~Legs[leg].measured THEN "aborted" ELSE "drain"
  /\ UNCHANGED <<nodeVars, engineVars, leg>>

\* poll_all_receipts has returned: the rest of run_leg.
FinishPoll ==
  /\ pc = "poll" /\ AllPolled
  /\ cache' = [s \in DOMAIN cache \ Unsettled |-> cache[s]]
  /\ pc' = IF BadLeg /\ ~Legs[leg].measured THEN "aborted" ELSE "drain"
  /\ UNCHANGED <<nodeVars, engineVars, leg>>

\* drain, at the end of every leg: until no sender has a transaction that is pending and
\* not mined, or until its time is over; the caller does not look which.
Drain ==
  /\ pc = "drain"
  /\ pc' = "idle"
  /\ UNCHANGED <<nodeVars, engineVars, cache, leg>>

\* The steps of the workload, of the node, and of the wire between them.
Workload ==
  \/ StartLeg \/ LoadFails \/ FinishSubmit \/ FinishPoll \/ Drain
  \/ /\ UNCHANGED <<cache, leg, pc>>
     /\ \/ pc = "submit" /\ (HandOver \/ AwaitOldest \/ Take) /\ UNCHANGED nodeVars
        \/ pc = "submit" /\ \E i \in InLeg : Submit(i)
        \/ pc = "poll" /\ UNCHANGED nodeVars
           /\ (BeginPoll \/ \E i \in InLeg : FindReceipt(i) \/ GiveUp(i))

NodeStep == \E s \in Senders, ok \in BOOLEAN : Mine(s, ok)

Environment ==
  /\ UNCHANGED <<cache, leg, pc>>
  /\ \/ NodeStep /\ UNCHANGED engineVars
     \/ \E i \in DOMAIN txs : Arrive(i)
     \/ /\ mishaps < MaxMishaps /\ mishaps' = mishaps + 1
        /\ \E s \in Senders : Evict(s)
        /\ UNCHANGED <<txs, first, handed, awaited, taken, polling, delayed>>

LegsNext == Workload \/ Environment

\* Every call of the workload returns: an HTTP timeout ends a request, receipt_timeout a
\* poll, drain_timeout_s a drain.  Nothing is asked of the node.
LegsSpec == LegsInit /\ [][LegsNext]_legVars /\ WF_legVars(Workload)

------------------------------------------------------------------------------

\* Env keeps the next nonce of its senders itself, and a failed leg cannot leave a gap:
\* between legs no remembered nonce is ahead of what the node would give, and it is
\* exactly the chain's while every transaction of the sender has a receipt.
NonceUsable ==
  pc = "idle" =>
    \A s \in DOMAIN cache :
      /\ cache[s] <= PendingCount(s)
      /\ (\A i \in DOMAIN txs : txs[i].sender = s => Settled(i)) => cache[s] = LatestCount(s)

\* No leg deals out a nonce again that a settled transaction of an earlier leg has used:
\* what was timed without its receipt is the only thing that a later leg can replace.
NonceNotReused ==
  \A i, j \in DOMAIN txs :
    i < j /\ txs[i].sender = txs[j].sender /\ Settled(i) => txs[i].nonce # txs[j].nonce

\* Whatever a leg does, it does behind set-up legs that were mined without an exception:
\* a measurement on top of a failed set-up would be meaningless.
SetupStandsBehind ==
  \A i, j \in DOMAIN txs :
    txs[i].leg < txs[j].leg /\ ~Legs[txs[i].leg].measured =>
      [id |-> i, ok |-> TRUE] \in ToSet(mined[txs[i].sender])

\* Every run comes to its end, whatever the nodes do: no thread, window or poll waits for ever.
RunEnds == <>(pc = "aborted" \/ (pc = "idle" /\ leg = Len(Legs)))
==============================================================================
