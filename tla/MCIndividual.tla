----------------------------- MODULE MCIndividual -----------------------------
(***************************************************************************)
(* A small agreement with proof-per-session settlement: two operators, an  *)
(* outsider that also signs starts, two users.                             *)
(***************************************************************************)
EXTENDS AgreementIndividual, MCData

CONSTANT Outsider

MCSigners == {Mno1, Mno2, Outsider}
MCInitialFunds == [s \in MCSigners |-> IF s = Mno1 THEN 3 ELSE 1]
===============================================================================
