------------------------------ MODULE BesuNode ------------------------------
(***************************************************************************)
(* The node that a sender talks to, as src/experiments/workload uses it:   *)
(* the sender's transactions in blocks, and its pool of transactions that  *)
(* wait for a block.  A pool holds a transaction whose nonce is not yet    *)
(* reached, also behind a nonce that nobody has sent; it refuses a nonce   *)
(* it has seen or that was mined, and more than its share of one account.  *)
(***************************************************************************)
EXTENDS Integers, Sequences, FiniteSets

CONSTANTS
  Senders,        \* accounts that sign transactions
  PoolPerSender   \* what Besu keeps of one account (--tx-pool-limit-by-account-percentage)

ASSUME NodeAssumption == PoolPerSender \in Nat \ {0}

VARIABLES
  mined,   \* mined[s]: s's transactions in blocks, [id, ok], the one of nonce n at n + 1
  pool     \* pool[s]: s's waiting transactions, by nonce

nodeVars == <<mined, pool>>

NodeInit ==
  /\ mined = [s \in Senders |-> <<>>]
  /\ pool = [s \in Senders |-> <<>>]

\* eth_getTransactionCount(s, "latest")
LatestCount(s) == Len(mined[s])

\* eth_getTransactionCount(s, "pending"): the first nonce that is free.
PendingCount(s) ==
  CHOOSE n \in LatestCount(s) .. LatestCount(s) + PoolPerSender :
    /\ n \notin DOMAIN pool[s]
    /\ \A m \in LatestCount(s) .. n - 1 : m \in DOMAIN pool[s]

Accepts(s, nonce) ==
  /\ nonce >= LatestCount(s)
  /\ nonce \notin DOMAIN pool[s]
  /\ Cardinality(DOMAIN pool[s]) < PoolPerSender

\* eth_sendRawTransaction, accepted.
Enter(s, nonce, id) ==
  /\ Accepts(s, nonce)
  /\ pool' = [pool EXCEPT ![s] =
       [n \in DOMAIN @ \cup {nonce} |-> IF n = nonce THEN id ELSE @[n]]]
  /\ UNCHANGED mined

\* A block takes the sender's next transaction, which succeeds or reverts.
Mine(s, ok) ==
  LET next == LatestCount(s) IN
  /\ next \in DOMAIN pool[s]
  /\ mined' = [mined EXCEPT ![s] = Append(@, [id |-> pool[s][next], ok |-> ok])]
  /\ pool' = [pool EXCEPT ![s] = [n \in DOMAIN @ \ {next} |-> @[n]]]

\* The node loses a waiting transaction: evicted, or gone with a restart.
Evict(s) ==
  /\ \E n \in DOMAIN pool[s] : pool' = [pool EXCEPT ![s] = [m \in DOMAIN @ \ {n} |-> @[m]]]
  /\ UNCHANGED mined

\* The receipts a node returns: of the transactions in blocks.
Receipts(s, id) == {r \in {mined[s][n] : n \in DOMAIN mined[s]} : r.id = id}
==============================================================================
