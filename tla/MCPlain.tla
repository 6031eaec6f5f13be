-------------------------------- MODULE MCPlain --------------------------------
(***************************************************************************)
(* A small agreement settled in clear, one by one and in batches.          *)
(***************************************************************************)
EXTENDS AgreementPlain, MCData

MCSigners == {Mno1, Mno2}
MCInitialFunds == [s \in MCSigners |-> IF s = Mno1 THEN 2 ELSE 1]
================================================================================
