---------------------------- MODULE SessionWorkload ----------------------------
(***************************************************************************)
(* zkroam_workload_e2e.py and plain_workload_e2e.py with what they share   *)
(* in agreement_common_e2e.py: for every point of the sweep and every mode *)
(* a fresh agreement, its sessions started by both operators at once,      *)
(* then the measured legs: users commit and sessions are settled one by    *)
(* one or in batches, or batches are anchored and settled without a        *)
(* commit.  A failed set-up raises and loses the rows so far; a failed     *)
(* measured leg only makes its row invalid.                                *)
(*                                                                         *)
(* The contracts are reduced to what decides whether a call succeeds.  A   *)
(* user's record is its user's number: hashes of two records differ.       *)
(* Costs, escrow and the messages that are signed are in the contracts'    *)
(* own modules; how a leg submits and polls is in TransactionEngine.       *)
(***************************************************************************)
EXTENDS AnchorProvisioning

CONSTANTS
  Sweep,        \* for each tool, nproofs of each point: sessions of one group
  Groups,       \* num_vmnos of each tool
  BatchChunk,   \* batch_chunk: sessions of one plain settleBatch
  NumAccounts,  \* accounts that send settlements
  BlockSize     \* the largest batch whose gas fits in a block

\* load_config of the plain workload refuses an empty batch.
ValidPlainConfig == BatchChunk \in Nat \ {0}

ASSUME PlainConfigAssumption == ValidPlainConfig

\* There is something to measure.
ASSUME SweepAssumption ==
  \A t \in {"plain", "zkroam"} : Sweep[t] \in Seq(Nat \ {0}) \ {<<>>} /\ Groups[t] \in Nat \ {0}

VARIABLES
  at,         \* points of the sweep begun
  row,        \* the modes of the point that are through: [mode, valid]
  results,    \* rows of the points before
  saved,      \* what is on disk: [details: legs of modes, summary: rows]
  leg,        \* legs of the mode begun
  legValid,   \* validity of its measured legs so far
  calls,      \* the calls of the leg
  fate,       \* fate[i]: "waiting", "ok" or "reverted" on the chain
  lost,       \* calls that the leg reports as timed out, whatever becomes of them
  late,       \* calls of earlier legs that can still be mined
  ag,         \* the agreement: its sessions, [u, committed, settled], by id
  finals,     \* groups whose batch is final on the anchor
  sessions,   \* session ids as read back, by user
  rejected    \* swapped signatures were refused although the batch is final

workVars == <<at, row, results, saved, leg, legValid, calls, fate, lost, late, ag, finals,
              sessions, rejected>>
allVars == <<provVars, workVars>>

WorkInit ==
  /\ ProvInit
  /\ at = 1 /\ row = <<>> /\ results = <<>> /\ saved = [details |-> {}, summary |-> <<>>]
  /\ leg = 0 /\ legValid = TRUE /\ calls = <<>> /\ fate = <<>> /\ lost = {} /\ late = {}
  /\ ag = <<>> /\ finals = {} /\ sessions = <<>> /\ rejected = FALSE

ModesOf(t) == IF t = "plain" THEN <<"individual", "batch">> ELSE <<"individual", "aggregate">>
Modes == ModesOf(tool)
mode == Modes[Len(row) + 1]
nproofs == Sweep[tool][at]
LegNamesOf(m) == IF m = "aggregate" THEN <<"start", "anchor", "settle">>
                                    ELSE <<"start", "commit", "settle">>
LegNames == LegNamesOf(mode)

\* make_ue_accounts and session_plan: one user for each session, group by group.
Users == 1 .. nproofs * Groups[tool]
UsersOf(g) == [i \in 1 .. nproofs |-> (g - 1) * nproofs + i]

------------------------------------------------------------------------------
\* What each leg sends.

\* start_sessions: operators take turns, each numbers its own messages.
Starts == [u \in Users |-> [op |-> "start", sender |-> u % 2, us |-> <<u>>, g |-> 0]]

\* commit_leg: every user sends its own.
Commits == [u \in Users |-> [op |-> "commit", sender |-> u, us |-> <<u>>, g |-> 0]]

Sender(k) == (k - 1) % NumAccounts

\* run_aggregate: a relay for each group.
Anchors == [g \in 1 .. Groups[tool] |-> [op |-> "relay", sender |-> Sender(g), us |-> <<>>, g |-> g]]

Settle(k, us, g) == [op |-> "settle", sender |-> Sender(k), us |-> us, g |-> g]

\* Mutant: the first batch takes the rest.
ChunksFromEnd(us) ==
  LET n == (Len(us) + BatchChunk - 1) \div BatchChunk
      end(b) == Len(us) - (n - b) * BatchChunk
      begin(b) == IF end(b) <= BatchChunk THEN 1 ELSE end(b) - BatchChunk + 1
  IN  [b \in 1 .. n |-> SubSeq(us, begin(b), end(b))]

\* run_mode: range(0, nproofs, batch_chunk), the last one cut.
Chunks(us) ==
  [b \in 1 .. (Len(us) + BatchChunk - 1) \div BatchChunk |->
     SubSeq(us, (b - 1) * BatchChunk + 1,
            IF b * BatchChunk < Len(us) THEN b * BatchChunk ELSE Len(us))]

Settlements ==
  CASE mode = "individual" -> [u \in Users |-> Settle(u, <<u>>, 0)]
    [] mode = "aggregate" -> [g \in 1 .. Groups[tool] |-> Settle(g, UsersOf(g), g)]
    [] mode = "batch" ->
         LET batches == FlattenSeq([g \in 1 .. Groups[tool] |-> Chunks(UsersOf(g))])
         IN  [k \in DOMAIN batches |-> Settle(k, batches[k], 0)]

CallsOf(name) ==
  CASE name = "start" -> Starts [] name = "commit" -> Commits
    [] name = "anchor" -> Anchors [] name = "settle" -> Settlements

Size(call) == Len(call.us)

------------------------------------------------------------------------------
\* The contracts.

Id(u) == sessions[u]

\* startRoamingSession with the operator's next nonce; the users are distinct.
CanStart(call) ==
  Cardinality({id \in DOMAIN ag : ag[id].u % 2 = call.sender})
    = Cardinality({u \in 1 .. call.us[1] - 1 : u % 2 = call.sender})

\* submitCDR, by the session's user and once.
CanCommit(call) ==
  LET s == ag[Id(call.us[1])] IN s.u = call.sender /\ ~s.committed /\ ~s.settled

\* terminateRoamingSession and settleBatch: each session is pending, and its record the
\* one its user committed, or signed in a batch that is final.
CanSettle(call) ==
  \A k \in DOMAIN call.us :
    LET s == ag[Id(call.us[k])] IN
    /\ ~s.settled /\ s.u = call.us[k]
    /\ IF call.g = 0 THEN s.committed ELSE call.g \in finals

WouldSucceed(call) ==
  \/ call.op = "start" /\ CanStart(call)
  \/ call.op = "commit" /\ CanCommit(call)
  \/ call.op = "relay"
  \/ call.op = "settle" /\ CanSettle(call)

\* Mined: the call takes effect, or reverts; also when it needs more gas than the
\* first call of its leg, whose estimate it was given.
Apply(call, ok) ==
  LET ids == {Id(call.us[k]) : k \in DOMAIN call.us} IN
  IF ~ok THEN UNCHANGED <<ag, finals>>
  ELSE CASE call.op = "start" ->
              /\ ag' = Append(ag, [u |-> call.us[1], committed |-> FALSE, settled |-> FALSE])
              /\ UNCHANGED finals
         [] call.op = "commit" ->
              ag' = [id \in DOMAIN ag |-> IF id \in ids THEN [ag[id] EXCEPT !.committed = TRUE] ELSE ag[id]]
              /\ UNCHANGED finals
         [] call.op = "settle" ->
              ag' = [id \in DOMAIN ag |-> IF id \in ids THEN [ag[id] EXCEPT !.settled = TRUE] ELSE ag[id]]
              /\ UNCHANGED finals
         [] call.op = "relay" ->
              finals' = (IF Finalizes(Cardinality(signers)) THEN finals \cup {call.g} ELSE finals)
              /\ UNCHANGED ag

Before(i) == {j \in 1 .. i - 1 : calls[j].sender = calls[i].sender}

MineLegCall ==
  /\ pc = "leg"
  /\ \E i \in DOMAIN calls :
       /\ fate[i] = "waiting" /\ \A j \in Before(i) : fate[j] # "waiting"
       /\ LET ok == WouldSucceed(calls[i]) /\ Size(calls[i]) <= Size(calls[1]) IN
          /\ Apply(calls[i], ok)
          /\ fate' = [fate EXCEPT ![i] = IF ok THEN "ok" ELSE "reverted"]
  /\ UNCHANGED <<at, row, results, saved, leg, legValid, calls, lost, late, sessions, rejected>>

\* A call that its leg has given up.
MineLateCall ==
  /\ \E call \in late : late' = late \ {call} /\ Apply(call, WouldSucceed(call))
  /\ UNCHANGED <<at, row, results, saved, leg, legValid, calls, fate, lost, sessions, rejected>>

------------------------------------------------------------------------------
\* The driver.

Goto(p) == pc' = p /\ UNCHANGED <<tool, mishaps>>

\* An exception, or the end: the rows in memory are gone, and nobody looks at the
\* agreement again.
Leave ==
  /\ Ended
  /\ at' = 1 /\ row' = <<>> /\ results' = <<>> /\ leg' = 0 /\ late' = {}

StartPlain ==
  /\ Start("plain", 0, <<>>)
  /\ pc' = "ready"
  /\ UNCHANGED <<signers, point, rows, initial>>

\* Token, deploy_agreement, _send_and_wait: a fresh agreement, or an exception.
BeginMode ==
  /\ pc = "ready"
  /\ \/ /\ Goto("plan")
        /\ ag' = <<>> /\ finals' = {} /\ late' = {} /\ sessions' = <<>> /\ rejected' = FALSE
        /\ leg' = 0 /\ legValid' = TRUE
        /\ UNCHANGED <<at, row, results>>
     \/ /\ Mishap /\ Leave
        /\ UNCHANGED <<legValid, ag, finals, sessions, rejected>>
  /\ UNCHANGED <<saved, calls, fate, lost>>

\* The first call is estimated for all; it must not revert, and must fit in a block.
\* Node 0, which is asked, may also be behind.
\* The individual leg adds the verifier's probed gas, which its calls, all of one
\* session, need alike: the probe and the larger limit are left out.
BeginLeg ==
  /\ pc = "plan"
  /\ LET todoCalls == CallsOf(LegNames[leg + 1])
         first == todoCalls[1]
     IN  \/ /\ WouldSucceed(first) /\ Size(first) <= BlockSize
            /\ Goto("leg")
            /\ calls' = todoCalls
            /\ fate' = [i \in DOMAIN todoCalls |-> "waiting"]
            /\ lost' = {}
            /\ leg' = leg + 1
            /\ UNCHANGED <<at, row, results, late>>
         \/ /\ IF WouldSucceed(first) /\ Size(first) <= BlockSize THEN Mishap ELSE UNCHANGED mishaps
            /\ Leave
            /\ UNCHANGED <<calls, fate, lost>>
  /\ UNCHANGED <<saved, legValid, ag, finals, sessions, rejected>>

\* A receipt that is not found in time.
GiveUpCall ==
  /\ pc = "leg" /\ Mishap
  /\ \E i \in DOMAIN calls \ lost : lost' = lost \cup {i}
  /\ UNCHANGED <<tool, pc, at, row, results, saved, leg, legValid, calls, fate, late, ag, finals,
                 sessions, rejected>>

\* A call behind one that never came is not mined either.
Blocked(i) == \E j \in Before(i) : j \in lost /\ fate[j] = "waiting"

\* Mutant: what was not reported as reverted counts as valid.
NoneReverted == \A i \in DOMAIN calls : fate[i] # "reverted"

\* leg_columns
AllConfirmed == lost = {} /\ \A i \in DOMAIN calls : fate[i] = "ok"

\* The end of run_leg, and of a measured leg its columns; a receipt that cannot be read
\* once more for its gas also makes it invalid.
EndLeg ==
  /\ pc = "leg"
  /\ \A i \in DOMAIN calls : fate[i] # "waiting" \/ i \in lost \/ Blocked(i)
  /\ IF LegNames[leg] = "start" /\ ~AllConfirmed
       THEN Leave /\ UNCHANGED <<mishaps, legValid>>
       ELSE /\ Goto(CASE LegNames[leg] = "start" -> "read"
                      [] LegNames[leg] = "anchor" -> "negative"
                      [] LegNames[leg] = "commit" -> "plan"
                      [] LegNames[leg] = "settle" -> "row")
            /\ legValid' \in IF LegNames[leg] = "start" THEN {legValid}
                            ELSE {legValid /\ AllConfirmed, FALSE}
            /\ late' = late \cup {calls[i] : i \in {j \in DOMAIN calls : fate[j] = "waiting"}}
            /\ UNCHANGED <<at, row, results, leg>>
  /\ UNCHANGED <<saved, calls, fate, lost, ag, finals, sessions, rejected>>

\* Mutant: ids are taken to be in the order of the plan.
startedAsPlanned(k) == [u \in Users |-> IF u <= k THEN u ELSE 0]

\* The session of each user in the first k events, 0 without one.
started(k) ==
  [u \in Users |-> LET of == {id \in 1 .. k : ag[id].u = u} IN IF of = {} THEN 0 ELSE Max(of)]

\* read_started_sessions: from the events that node 0 has, perhaps not yet all.
ReadSessions ==
  /\ pc = "read"
  /\ \E behind \in {0, 1} :
       LET ids == started(Len(ag) - behind) IN
       IF \A u \in Users : ids[u] # 0
         THEN /\ sessions' = ids /\ Goto("plan")
              /\ UNCHANGED <<at, row, results, leg, late>>
         ELSE Mishap /\ Leave /\ UNCHANGED sessions
  /\ UNCHANGED <<saved, legValid, calls, fate, lost, ag, finals, rejected>>

\* The first batch must be refused with its signatures swapped, if it has two; whether
\* it was for the signatures depends on the batch being final.
NegativeTest ==
  /\ pc = "negative"
  /\ Goto("plan")
  /\ rejected' = (nproofs >= 2 /\ 1 \in finals)
  /\ UNCHANGED <<at, row, results, saved, leg, legValid, calls, fate, lost, late, ag, finals, sessions>>

\* write_leg_detail: a file for each measured leg of a mode.
DetailFiles(t, k, m) == {<<t, k, m, name>> : name \in ToSet(Tail(LegNamesOf(m)))}

WriteDetails == saved' = [saved EXCEPT !.details = @ \cup DetailFiles(tool, at, mode)]

\* write_sweep_summary
WriteSummary(points) == saved' = [saved EXCEPT !.summary = points]

\* The row's columns, and the detail files of the mode's legs.
EndMode ==
  /\ pc = "row"
  /\ row' = Append(row, [mode |-> mode, valid |-> legValid])
  /\ WriteDetails
  /\ Goto(IF Len(row) + 1 < Len(Modes) THEN "ready" ELSE "point")
  /\ UNCHANGED <<at, results, leg, legValid, calls, fate, lost, late, ag, finals, sessions, rejected>>

\* all_legs_valid, and the next point.  The summary is written after the last.
EndPoint ==
  /\ pc = "point"
  /\ LET rowsNow == Append(results, [of |-> tool, valid |-> \A k \in DOMAIN row : row[k].valid]) IN
     IF at < Len(Sweep[tool])
       THEN /\ Goto("ready")
            /\ results' = rowsNow /\ row' = <<>> /\ at' = at + 1
            /\ UNCHANGED <<saved, leg, late>>
       ELSE Leave /\ WriteSummary(rowsNow) /\ UNCHANGED mishaps
  /\ UNCHANGED <<legValid, calls, fate, lost, ag, finals, sessions, rejected>>

Driver ==
  /\ BeginMode \/ BeginLeg \/ GiveUpCall \/ EndLeg \/ ReadSessions \/ NegativeTest \/ EndMode
     \/ EndPoint
  /\ UNCHANGED <<nodeVars, anchors, file, sent, delayed, tools, quiet, localVars>>

WorkNext ==
  \/ (ProvNext \/ StartPlain) /\ UNCHANGED workVars
  \/ (MineLegCall \/ MineLateCall) /\ UNCHANGED provVars
  \/ Driver

WorkSpec == WorkInit /\ [][WorkNext]_allVars

------------------------------------------------------------------------------

\* Session ids are read back because the operators' starts interleave: each user is
\* given its own session, whatever order the chain took them in.
SessionsReadAsPlanned ==
  sessions # <<>> => \A u \in DOMAIN sessions : ag[sessions[u]].u = u

\* A mode is reported valid only if every session of its plan is settled on the chain,
\* by then and not by a transaction that was given up, and if the refusal of the swapped
\* signatures can only have come from the check of signatures.
ValidMeansSettled ==
  row # <<>> /\ row[Len(row)].valid /\ pc \in {"ready", "point"} =>
    /\ Len(ag) = Cardinality(Users) /\ \A id \in DOMAIN ag : ag[id].settled
    /\ row[Len(row)].mode = "aggregate" /\ nproofs >= 2 => rejected

\* A summary has a row for each point of its sweep, and each of its legs has its file,
\* whatever was lost of the runs before.
DetailsBehindSummary ==
  LET points == saved.summary IN
  points # <<>> =>
    /\ Len(points) = Len(Sweep[points[1].of])
    /\ \A k \in DOMAIN points, m \in ToSet(ModesOf(points[1].of)) :
         DetailFiles(points[1].of, k, m) \subseteq saved.details

\* What is reported can be accounted for: on the chain and on the disk.
RowsAreBacked == ValidMeansSettled /\ DetailsBehindSummary

\* A leg's gas limit is the estimate of its first call: no other call of it is larger.
EstimateCoversLeg ==
  pc = "leg" => \A i \in DOMAIN calls : Size(calls[i]) <= Size(calls[1])
==============================================================================
