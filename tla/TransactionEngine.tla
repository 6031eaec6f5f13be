-------------------------- MODULE TransactionEngine --------------------------
(***************************************************************************)
(* besu_benchmark.py: submit_all, which hands signed transactions to a     *)
(* pool of threads through a bounded window of futures, and                *)
(* poll_all_receipts, which asks for their receipts until each is found or *)
(* its time is over.  Time is left out: a timeout may strike at any poll.  *)
(*                                                                         *)
(* The transactions of all legs stand in one sequence; the engine works on *)
(* those of the current leg, from `first` to the end.                      *)
(***************************************************************************)
EXTENDS BesuNode

CONSTANTS
  Workers,           \* threads that submit
  FuturesPerWorker,  \* futures kept per thread before the producer waits (4 in the code)
  ReceiptWorkers,    \* threads that poll
  MaxMishaps         \* bound: requests, answers and pooled transactions that are lost

ASSUME EngineAssumption ==
  Workers \in Nat \ {0} /\ FuturesPerWorker \in Nat \ {0} /\ ReceiptWorkers \in Nat \ {0}

VARIABLES
  txs,       \* every transaction: [leg, sender, nonce, status]
  first,     \* where the current leg begins in txs
  handed,    \* transactions handed to the executor, up to here
  awaited,   \* futures waited for and dropped from the list, up to here
  taken,     \* transactions a thread has taken from the executor's queue, up to here
  polling,   \* transactions whose receipt a thread polls
  delayed,   \* requests given up by the client that may still reach the node
  mishaps    \* lost requests and answers so far

engineVars == <<txs, first, handed, awaited, taken, polling, delayed, mishaps>>

EngineInit ==
  /\ txs = <<>> /\ first = 1
  /\ handed = 0 /\ awaited = 0 /\ taken = 0
  /\ polling = {} /\ delayed = {} /\ mishaps = 0

InLeg == first .. Len(txs)

\* A thread is busy with what was taken and has no result yet.
Sending == {i \in first .. taken : txs[i].status = "prepared"}

Futures == awaited + 1 .. handed

\* Mutant: the future of a request that raised is never done.
DoneIfSubmitted(i) == i <= taken /\ txs[i].status = "submitted"

Done(i) == i <= taken /\ txs[i].status # "prepared"

------------------------------------------------------------------------------
\* submit_all

\* Mutant: the producer never looks at its list of futures.
HandOverUnbounded ==
  /\ handed < Len(txs)
  /\ handed' = handed + 1
  /\ UNCHANGED <<txs, first, awaited, taken, polling, delayed, mishaps>>

\* The producer hands the next transaction over.
HandOver ==
  /\ handed < Len(txs)
  /\ Cardinality(Futures) < Workers * FuturesPerWorker
  /\ handed' = handed + 1
  /\ UNCHANGED <<txs, first, awaited, taken, polling, delayed, mishaps>>

\* The window is full: the producer waits for its oldest futures, one per thread.
AwaitOldest ==
  /\ Cardinality(Futures) >= Workers * FuturesPerWorker
  /\ \A i \in awaited + 1 .. awaited + Workers : Done(i)
  /\ awaited' = awaited + Workers
  /\ UNCHANGED <<txs, first, handed, taken, polling, delayed, mishaps>>

\* A free thread takes the oldest transaction of the executor's queue.
Take ==
  /\ taken < handed
  /\ Cardinality(Sending) < Workers
  /\ taken' = taken + 1
  /\ UNCHANGED <<txs, first, handed, awaited, polling, delayed, mishaps>>

SetStatus(i, status) == txs' = [txs EXCEPT ![i].status = status]

\* submit_transaction: the node accepts the transaction and its answer arrives.
Accepted(i) ==
  /\ Enter(txs[i].sender, txs[i].nonce, i)
  /\ SetStatus(i, "submitted")
  /\ UNCHANGED <<delayed, mishaps>>

\* The node answers with an error.
Refused(i) ==
  /\ ~Accepts(txs[i].sender, txs[i].nonce)
  /\ SetStatus(i, "failed")
  /\ UNCHANGED <<nodeVars, delayed, mishaps>>

\* The call raises although the node accepts, now or later: the answer is lost, or the
\* client's own timeout is over before the node looks at the request.
Unanswered(i) ==
  /\ mishaps < MaxMishaps
  /\ mishaps' = mishaps + 1
  /\ SetStatus(i, "failed")
  /\ \/ Enter(txs[i].sender, txs[i].nonce, i) /\ UNCHANGED delayed
     \/ delayed' = delayed \cup {i} /\ UNCHANGED nodeVars

Submit(i) ==
  /\ i \in Sending
  /\ Accepted(i) \/ Refused(i) \/ Unanswered(i)
  /\ UNCHANGED <<first, handed, awaited, taken, polling>>

\* A request that was given up is lost, or reaches the node after all.
Arrive(i) ==
  /\ i \in delayed
  /\ delayed' = delayed \ {i}
  /\ \/ Enter(txs[i].sender, txs[i].nonce, i)
     \/ UNCHANGED nodeVars
  /\ UNCHANGED <<txs, first, handed, awaited, taken, polling, mishaps>>

\* Leaving the executor's block waits for every future.
AllSubmitted == handed = Len(txs) /\ \A i \in InLeg : Done(i)

------------------------------------------------------------------------------
\* poll_all_receipts

\* Still to poll: submitted, and not polled yet.
ToPoll == {i \in InLeg : txs[i].status = "submitted"}

\* A free thread begins with the next transaction of the list.
BeginPoll ==
  /\ Cardinality(polling) < ReceiptWorkers
  /\ ToPoll \ polling # {}
  /\ polling' = polling \cup {CHOOSE i \in ToPoll \ polling :
                                \A j \in ToPoll \ polling : i <= j}
  /\ UNCHANGED <<txs, first, handed, awaited, taken, delayed, mishaps>>

\* poll_receipt: the receipt is there, and tells success from revert.
FindReceipt(i) ==
  /\ i \in polling
  /\ \E r \in Receipts(txs[i].sender, i) :
       SetStatus(i, IF r.ok THEN "confirmed" ELSE "reverted")
  /\ polling' = polling \ {i}
  /\ UNCHANGED <<first, handed, awaited, taken, delayed, mishaps>>

\* poll_receipt: its time is over, whatever the node has in the meantime.
GiveUp(i) ==
  /\ i \in polling
  /\ SetStatus(i, "timeout")
  /\ polling' = polling \ {i}
  /\ UNCHANGED <<first, handed, awaited, taken, delayed, mishaps>>

AllPolled == ToPoll = {}

------------------------------------------------------------------------------

\* submit_all keeps a bounded list of futures, and no more transactions wait in the
\* executor or are on their way than that list has.
WindowBounded ==
  /\ Cardinality(Futures) <= Workers * FuturesPerWorker
  /\ handed - taken + Cardinality(Sending) <= Workers * FuturesPerWorker
==============================================================================
