------------------------------ MODULE MCReport -------------------------------
(***************************************************************************)
(* Two transfers through the benchmark's engine, sampler and report.       *)
(***************************************************************************)
EXTENDS BesuBenchmark, SequencesExt

MCAccounts == <<"a", "b">>
MCEndpoints == <<"rpc1", "rpc2">>

MCValueLists == SeqOf(0 .. 2, 4) \ {<<>>}

MCTimedLegs ==
  SeqOf([status : {"confirmed"}, submit : {1}, confirm : {1, 3}, block : {None, 0, 2, 4}], 3)
==============================================================================
