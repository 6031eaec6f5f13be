------------------------------ MODULE MCAgreement ------------------------------
(***************************************************************************)
(* A small agreement of the first version: two operators, two users.       *)
(***************************************************************************)
EXTENDS Agreement, MCData

MCSigners == {Mno1, Mno2}
MCInitialFunds == [s \in MCSigners |-> 2]
================================================================================
