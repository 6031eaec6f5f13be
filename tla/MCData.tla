-------------------------------- MODULE MCData --------------------------------
(***************************************************************************)
(* Small data for the agreement models: three prices that all differ, two  *)
(* records that cost 1 and 2, and one hash that no record has.             *)
(***************************************************************************)
EXTENDS Integers

MCRates == [sms |-> 1, voice |-> 2, data |-> 3]
TextRecord == [sms |-> 1, voice |-> 0, data |-> 0]
CallRecord == [sms |-> 0, voice |-> 1, data |-> 0]
MCUsages == {TextRecord, CallRecord}
MCCDRHashOf == [u \in MCUsages |-> IF u = TextRecord THEN 101 ELSE 102]
MCHashes == {0, 101, 102, 999}
MCEstimates == {0, 1, 2}
===============================================================================
