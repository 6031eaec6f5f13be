------------------------------ MODULE MCAggregate ------------------------------
(***************************************************************************)
(* Two sessions, two batch ids, and four batches that overlap, repeat a    *)
(* session or charge more than was proved; three verifiers, one mistaken.  *)
(***************************************************************************)
EXTENDS AgreementAggregate, MCData, TLC

Symmetry == Permutations(UEs) \cup Permutations(Verifiers \ Mistaken)

MCSigners == {Mno1, Mno2}
MCInitialFunds == [s \in MCSigners |-> 2]

Batch(batchId, ids, costs, hashes) ==
  [batchId |-> batchId, ids |-> ids, costs |-> costs, hashes |-> hashes]
Both == Batch("first", <<1, 2>>, <<1, 2>>, <<101, 102>>)
SecondAlone == Batch("second", <<2>>, <<2>>, <<102>>)
FirstTwice == Batch("second", <<1, 1>>, <<1, 1>>, <<101, 101>>)
Overcharged == Batch("second", <<1>>, <<2>>, <<101>>)
MCBatches == {Both, SecondAlone, FirstTwice, Overcharged}
MCCommitment ==
  [b \in MCBatches |-> CASE b = Both -> "c1" [] b = SecondAlone -> "c2"
                         [] b = FirstTwice -> "c3" [] b = Overcharged -> "c4"]
MCSettlementIdOf == [i \in {"first", "second"} |-> <<"agreement", i>>]
=================================================================================
