-------------------------------- MODULE MCAnchor --------------------------------
(***************************************************************************)
(* An anchor whose owner adds verifiers and moves the threshold while      *)
(* attestations to two commitments and to bytes32(0) arrive for two        *)
(* settlement ids.                                                         *)
(***************************************************************************)
EXTENDS SnarkPackAggregateAnchor, TLC

Symmetry == Permutations(Commitments \ {NoCommitment}) \cup Permutations(SettlementIds)
              \cup Permutations(Verifiers \ {InitialVerifier})
==================================================================================
