-------------------------- MODULE AnchorProvisioning --------------------------
(***************************************************************************)
(* The tools that prepare an anchor for a sweep, all signing as its owner: *)
(* deploy_verifiers.py, which deploys it and authorises a pool of          *)
(* verifiers with concurrent calls; zkroam_threshold_ablation.py, which    *)
(* tries thresholds and puts the first one back; and the provisioning of   *)
(* zkroam_workload_e2e.py, which authorises whoever is missing.  They run  *)
(* one after the other on one chain, so what one of them leaves in the     *)
(* owner's pool, or on its way to it, the next one meets.                  *)
(*                                                                         *)
(* Accounts are their positions in the accounts file, the owner the first. *)
(* Calls that other accounts sign are atomic here; an anchor's address is  *)
(* the place in `sent` of the call that deploys it.                        *)
(***************************************************************************)
EXTENDS BesuNode, SequencesExt, FiniteSetsExt

CONSTANTS
  Owner,          \* the sender the tools sign as
  PoolSize,       \* --verifier-pool-size
  Attesters,      \* the committee: accounts[key_index : key_index + n]
  Operators,      \* the home operators: accounts at mno_key_indices
  Thresholds,     \* what workload.threshold may be, 0 for null
  TValues,        \* --t-values, ascending
  Relays,         \* relays of the ablation at each value
  MaxTools,       \* bound: tools run
  MaxMishaps      \* bound: requests, answers and pooled transactions that are lost

ASSUME OwnerAssumption == Owner \in Senders
ASSUME PoolSizeAssumption == PoolSize \in Nat \ {0}

\* load_config refuses any other committee or threshold.
ValidZkroamConfig ==
  /\ Attesters \subseteq Nat /\ IsFiniteSet(Attesters)
  /\ Cardinality(Attesters) \in 1 .. 50
  /\ Thresholds \subseteq {0} \cup 1 .. Cardinality(Attesters)

ASSUME ZkroamConfigAssumption == ValidZkroamConfig

\* The ablation refuses to begin with anything else.
ValidTValues == TValues \in Seq(1 .. 50) \ {<<>>}

ASSUME TValuesAssumption == ValidTValues

VARIABLES
  anchors,    \* anchors on the chain: [verifiers, threshold] by address
  file,       \* the anchor that deployed_contracts.json names, 0 without one
  sent,       \* the owner's calls: [op, at, arg]
  delayed,    \* calls given up by the client that may still reach the node
  mishaps,
  tool,       \* the tool that runs, "none" between two of them
  tools,      \* tools started
  pc,
  target,     \* the anchor the tool works on
  base,       \* the first nonce of deploy_verifiers' calls, the next of the ablation's (Chain.nonces)
  todo,       \* calls still to make, one after the other
  waits,      \* calls whose receipt the tool waits for
  signers,    \* the accounts that attest
  quiet,      \* nothing of the owner's was under way when the tool began
  point,      \* the ablation's place in TValues
  rows,       \* its results: [t, relays, final, boundary, quiet]
  initial,    \* the threshold it found
  claimed     \* it has reported the threshold restored

localVars == <<target, base, todo, waits, signers, point, rows, initial, claimed>>
provVars == <<nodeVars, anchors, file, sent, delayed, mishaps, tool, tools, pc, quiet, localVars>>

Unread == -1

ProvInit ==
  /\ NodeInit
  /\ anchors = <<>> /\ file = 0 /\ sent = <<>> /\ delayed = {} /\ mishaps = 0
  /\ tool = "none" /\ tools = 0 /\ pc = "idle" /\ quiet = TRUE
  /\ target = 0 /\ base = Unread /\ todo = <<>> /\ waits = {} /\ signers = {}
  /\ point = 0 /\ rows = <<>> /\ initial = 0 /\ claimed = FALSE

Anchor == anchors[target]

Mishap == mishaps < MaxMishaps /\ mishaps' = mishaps + 1

------------------------------------------------------------------------------
\* The chain, with the anchor's constructor, addVerifier and setThreshold.

Succeeds(call) ==
  \/ call.op = "deploy"
  \/ call.op = "add" /\ call.arg \notin anchors[call.at].verifiers
  \/ call.op = "set" /\ call.arg \in 1 .. Cardinality(anchors[call.at].verifiers)

Effect(id) ==
  LET call == sent[id] IN
  CASE call.op = "deploy" -> [a \in DOMAIN anchors \cup {id} |->
                                IF a = id THEN [verifiers |-> {0}, threshold |-> 1] ELSE anchors[a]]
    [] call.op = "add" -> [anchors EXCEPT ![call.at].verifiers = @ \cup {call.arg}]
    [] call.op = "set" -> [anchors EXCEPT ![call.at].threshold = call.arg]

MineCall ==
  LET next == LatestCount(Owner) IN
  /\ next \in DOMAIN pool[Owner]
  /\ LET id == pool[Owner][next]
         ok == Succeeds(sent[id])
     IN  Mine(Owner, ok) /\ anchors' = IF ok THEN Effect(id) ELSE anchors
  /\ UNCHANGED <<sent, delayed, mishaps>>

\* A call that was given up is lost, or reaches the node after all.
ArriveLate ==
  /\ \E d \in delayed :
       /\ delayed' = delayed \ {d}
       /\ Enter(Owner, d.nonce, d.id) \/ UNCHANGED nodeVars
  /\ UNCHANGED <<anchors, sent, mishaps>>

LosePooled == Mishap /\ Evict(Owner) /\ UNCHANGED <<anchors, sent, delayed>>

Chain ==
  /\ MineCall \/ ArriveLate \/ LosePooled
  /\ UNCHANGED <<file, tool, tools, pc, quiet, localVars>>

------------------------------------------------------------------------------
\* What all tools do: send a call, wait for its receipt, end.

\* eth_sendRawTransaction: accepted; refused; or without an answer, and then lost, on
\* its way or accepted.
Sends(call, nonce, answered) ==
  LET id == Len(sent) + 1 IN
  /\ sent' = Append(sent, call)
  /\ UNCHANGED anchors
  /\ \/ answered /\ Enter(Owner, nonce, id) /\ UNCHANGED <<delayed, mishaps>>
     \/ ~answered /\ ~Accepts(Owner, nonce) /\ UNCHANGED <<nodeVars, delayed, mishaps>>
     \/ /\ ~answered /\ Mishap
        /\ \/ Enter(Owner, nonce, id) /\ UNCHANGED delayed
           \/ delayed' = delayed \cup {[id |-> id, nonce |-> nonce]} /\ UNCHANGED nodeVars

Ended == tool' = "none" /\ pc' = "idle"

\* An exception ends the tool; the ablation loses its results and puts the threshold back.
Raise ==
  IF tool = "ablation" /\ pc \notin {"restore", "restoring"}
    THEN pc' = "restore" /\ rows' = <<>> /\ UNCHANGED tool
    ELSE Ended /\ UNCHANGED rows

\* Chain._nonce counts, the other tools ask the node.
NextNonce == IF base # Unread THEN base ELSE PendingCount(Owner)

\* The ablation estimates a call's gas before it takes a nonce: one that would revert is
\* not sent.
Refused(call) == tool = "ablation" /\ ~Succeeds(call)

SendCall(call, wait) ==
  /\ \/ /\ Refused(call) /\ Raise
        /\ UNCHANGED <<nodeVars, anchors, sent, delayed, mishaps, base, waits>>
     \/ /\ ~Refused(call)
        /\ base' = IF tool = "ablation" THEN NextNonce + 1 ELSE base
        /\ \/ Sends(call, NextNonce, TRUE) /\ waits' = {Len(sent) + 1} /\ pc' = wait
              /\ UNCHANGED <<tool, rows>>
           \/ Sends(call, NextNonce, FALSE) /\ Raise /\ UNCHANGED waits
  /\ UNCHANGED <<file, tools, quiet, target, todo, signers, point, initial, claimed>>

\* deploy, call_tx, _send_admin_tx, Chain.send
Send == pc = "send" /\ todo # <<>> /\ SendCall(Head(todo), "wait")

ReceiptOf(id) == {r.ok : r \in Receipts(Owner, id)}

\* wait_for_transaction_receipt and the look at its status.
Await ==
  /\ pc = "wait"
  /\ \/ /\ \A id \in waits : ReceiptOf(id) = {TRUE}
        /\ pc' = "send" /\ todo' = Tail(todo)
        /\ target' = IF Head(todo).op = "deploy" THEN Max(waits) ELSE target
        /\ UNCHANGED <<mishaps, tool, rows>>
     \/ /\ \E id \in waits : ReceiptOf(id) = {FALSE}
        /\ Raise /\ UNCHANGED <<mishaps, target, todo>>
     \/ \* its time is over
        /\ \E id \in waits : ReceiptOf(id) = {}
        /\ Raise /\ UNCHANGED <<mishaps, target, todo>>
  /\ UNCHANGED <<nodeVars, anchors, file, sent, delayed, tools, quiet, base, waits, signers,
                 point, initial, claimed>>

Start(name, at, calls) ==
  /\ tool = "none" /\ tools < MaxTools
  /\ tool' = name /\ tools' = tools + 1
  /\ quiet' = (DOMAIN pool[Owner] = {} /\ delayed = {})
  /\ target' = at /\ todo' = calls /\ waits' = {} /\ base' = Unread /\ claimed' = FALSE
  /\ UNCHANGED <<nodeVars, anchors, file, sent, delayed, mishaps>>

Call(op, arg) == [op |-> op, at |-> target, arg |-> arg]

------------------------------------------------------------------------------
\* deploy_verifiers.py.  CDRVerifier is deployed like the anchor, and left out.

StartDeploy ==
  /\ Start("deploy", 0, <<[op |-> "deploy", at |-> 0, arg |-> 0]>>)
  /\ pc' = "send"
  /\ UNCHANGED <<signers, point, rows, initial>>

\* add_verifiers_parallel: every nonce is fixed before any call is sent.
PlanAdds ==
  /\ tool = "deploy" /\ pc = "send" /\ todo = <<>>
  /\ base' = PendingCount(Owner)
  /\ signers' = 1 .. PoolSize - 1 /\ waits' = {} /\ pc' = "spread"
  /\ UNCHANGED <<nodeVars, anchors, file, sent, delayed, mishaps, tool, tools, quiet, target,
                 todo, point, rows, initial, claimed>>

\* The threads send them in any order; what one raises is seen when its turn comes.
SpreadAdd ==
  /\ pc = "spread"
  /\ \E v \in signers :
       /\ signers' = signers \ {v}
       /\ \/ Sends(Call("add", v), base + v - 1, TRUE) /\ waits' = waits \cup {Len(sent) + 1}
             /\ UNCHANGED <<todo, pc>>
          \/ Sends(Call("add", v), base + v - 1, FALSE) /\ todo' = Append(todo, Call("add", v))
             /\ UNCHANGED <<waits, pc>>
  /\ UNCHANGED <<file, tool, tools, quiet, target, base, point, rows, initial, claimed>>

\* Mutant: the file is written as soon as the calls are sent.
FinishUnconfirmed ==
  /\ pc = "spread" /\ signers = {}
  /\ file' = IF todo = <<>> THEN target ELSE file
  /\ Ended
  /\ UNCHANGED <<nodeVars, anchors, sent, delayed, mishaps, tools, quiet, localVars>>

\* All confirmed: only now deployed_contracts.json is written.  A call that raised, which
\* cancels those that no thread has begun, a revert or a receipt that is not there in time
\* ends the tool without it.
FinishDeploy ==
  /\ pc = "spread" /\ (signers = {} \/ todo # <<>>)
  /\ \/ todo = <<>> /\ (\A id \in waits : ReceiptOf(id) = {TRUE}) /\ file' = target
     \/ (todo # <<>> \/ \E id \in waits : ReceiptOf(id) # {TRUE}) /\ UNCHANGED file
  /\ Ended
  /\ UNCHANGED <<nodeVars, anchors, sent, delayed, mishaps, tools, quiet, localVars>>

------------------------------------------------------------------------------
\* zkroam_workload_e2e.py: pick_attesters and ensure_attesters.

\* Mutant: the number of verifiers is compared instead of their names.
missingByCount(at) ==
  LET count == Cardinality(anchors[at].verifiers) IN
  IF count >= Cardinality(Attesters) THEN {} ELSE Attesters \ anchors[at].verifiers

missing(at) == Attesters \ anchors[at].verifiers

\* Accounts in the order of the accounts file.
Rank(a, S) == Cardinality({b \in S : b <= a})
Ascending(S) == [k \in 1 .. Cardinality(S) |-> CHOOSE a \in S : Rank(a, S) = k]

\* Verifiers first, then the threshold: the contract refuses one above their number.
StartZkroam ==
  /\ file # 0
  /\ \E t \in Thresholds :
       LET adds == Ascending(missing(file))
           set == IF t # 0 /\ anchors[file].threshold # t THEN <<t>> ELSE <<>>
       IN  Start("zkroam", file,
             [i \in DOMAIN adds |-> [op |-> "add", at |-> file, arg |-> adds[i]]] \o
             [i \in DOMAIN set |-> [op |-> "set", at |-> file, arg |-> set[i]]])
  /\ pc' = "send"
  /\ UNCHANGED <<signers, point, rows, initial>>

\* The threshold is read back; a committee below it, or with an operator in it, ends the run.
FinishEnsure ==
  /\ tool = "zkroam" /\ pc = "send" /\ todo = <<>>
  /\ IF Anchor.threshold > Cardinality(Attesters) \/ Attesters \cap Operators # {}
       THEN Ended /\ UNCHANGED signers
       ELSE /\ pc' = "ready" /\ UNCHANGED tool
            /\ signers' = {a \in Attesters : Rank(a, Attesters) <= Anchor.threshold}
  /\ UNCHANGED <<nodeVars, anchors, file, sent, delayed, mishaps, tools, quiet, target, base,
                 todo, waits, point, rows, initial, claimed>>

------------------------------------------------------------------------------
\* zkroam_threshold_ablation.py

T == TValues[point]
lastRow == rows[Len(rows)]
SetRow(field, value) == rows' = [rows EXCEPT ![Len(rows)][field] = value]

StartAblation ==
  /\ file # 0
  /\ Start("ablation", file, <<>>)
  /\ initial' = anchors[file].threshold
  /\ point' = 1 /\ rows' = <<>> /\ pc' = "send"
  /\ UNCHANGED signers

JustSet == \E id \in waits : sent[id].op = "set"

\* The first t accounts are authorised one by one, then the threshold becomes t.
Configure ==
  /\ tool = "ablation" /\ pc = "send" /\ todo = <<>> /\ ~JustSet
  /\ LET lacking == (0 .. T - 1) \ Anchor.verifiers IN
     todo' = IF lacking # {} THEN <<Call("add", Min(lacking))>> ELSE <<Call("set", T)>>
  /\ UNCHANGED <<nodeVars, anchors, file, sent, delayed, mishaps, tool, tools, pc, quiet, target,
                 base, waits, signers, point, rows, initial, claimed>>

\* The assertion that the threshold is t, and a new row.
Measure ==
  /\ tool = "ablation" /\ pc = "send" /\ todo = <<>> /\ JustSet
  /\ IF Anchor.threshold = T
       THEN /\ rows' = Append(rows, [t |-> T, relays |-> 0, final |-> 0, boundary |-> "untested", quiet |-> quiet])
            /\ signers' = 0 .. T - 1
            /\ pc' = "relay" /\ UNCHANGED tool
       ELSE Raise /\ UNCHANGED signers
  /\ UNCHANGED <<nodeVars, anchors, file, sent, delayed, mishaps, tools, quiet, target, base, todo,
                 waits, point, initial, claimed>>

\* A fresh settlement id with the signatures of n verifiers: is it final afterwards?
Finalizes(n) == n >= Anchor.threshold

Relay ==
  /\ pc = "relay" /\ lastRow.relays < Relays
  /\ \/ /\ rows' = [rows EXCEPT ![Len(rows)].relays = @ + 1,
                                ![Len(rows)].final = @ + (IF Finalizes(Cardinality(signers)) THEN 1 ELSE 0)]
        /\ UNCHANGED <<mishaps, tool, pc>>
     \/ Mishap /\ Raise
  /\ UNCHANGED <<nodeVars, anchors, file, sent, delayed, tools, quiet, target, base, todo, waits,
                 signers, point, initial, claimed>>

\* Mutant: the boundary is tried with one signature too many.
boundaryFull ==
  IF T = 1 THEN "n/a" ELSE IF Finalizes(Cardinality(signers)) THEN "VIOLATION" ELSE "ok"

\* One signature less than the threshold must not be enough.
boundary ==
  IF T = 1 THEN "n/a" ELSE IF Finalizes(Cardinality(signers) - 1) THEN "VIOLATION" ELSE "ok"

NextPoint ==
  /\ pc = "relay" /\ lastRow.relays = Relays
  /\ SetRow("boundary", boundary)
  /\ IF point = Len(TValues) THEN pc' = "restore" /\ UNCHANGED <<point, waits>>
       ELSE pc' = "send" /\ point' = point + 1 /\ waits' = {}
  /\ UNCHANGED <<nodeVars, anchors, file, sent, delayed, mishaps, tool, tools, quiet, target, base,
                 todo, signers, initial, claimed>>

\* finally: the threshold that was found is set again ...
Restore == pc = "restore" /\ SendCall(Call("set", initial), "restoring")

\* Mutant: nobody waits for the last call's receipt.
FinishUnawaited ==
  /\ pc = "restoring"
  /\ claimed' = TRUE
  /\ Ended
  /\ UNCHANGED <<nodeVars, anchors, file, sent, delayed, mishaps, tools, quiet, target, base, todo,
                 waits, signers, point, rows, initial>>

\* ... and reported as restored when a receipt is there, whatever its status.
FinishRestore ==
  /\ pc = "restoring"
  /\ claimed' = \A id \in waits : ReceiptOf(id) # {}
  /\ Ended
  /\ UNCHANGED <<nodeVars, anchors, file, sent, delayed, mishaps, tools, quiet, target, base, todo, waits,
                 signers, point, rows, initial>>

Tools ==
  \/ StartDeploy \/ PlanAdds \/ SpreadAdd \/ FinishDeploy
  \/ StartZkroam \/ FinishEnsure
  \/ StartAblation \/ Configure \/ Measure \/ Relay \/ NextPoint \/ Restore \/ FinishRestore
  \/ Send \/ Await

ProvNext == Tools \/ Chain

------------------------------------------------------------------------------

\* The anchor that the next tool finds in the file has the whole pool authorised: a
\* deployment that lost one of its concurrent calls leaves no file behind.
FileIsProvisioned ==
  file # 0 => file \in DOMAIN anchors /\ 0 .. PoolSize - 1 \subseteq anchors[file].verifiers

\* When a workload is ready to relay batches, the signatures it will send with each are
\* enough to make it final, unless a call of the owner was still under way as it began:
\* a stale setThreshold may then be mined after the threshold was read.
SignersSuffice ==
  tool = "zkroam" /\ pc = "ready" /\ quiet =>
    /\ signers \subseteq Anchor.verifiers
    /\ Finalizes(Cardinality(signers))

\* The ablation measures what it says: at every threshold all its relays are final, and
\* one signature less is not; again unless the owner had a call under way.
PointsAreEnforced ==
  \A i \in DOMAIN rows :
    rows[i].quiet => rows[i].final = rows[i].relays /\ rows[i].boundary # "VIOLATION"

\* Once the ablation has reported the threshold restored it is, whatever went wrong on
\* the way: nothing that the ablation sent before can change it any more.
RestoredForGood == claimed /\ quiet => Anchor.threshold = initial
==============================================================================
