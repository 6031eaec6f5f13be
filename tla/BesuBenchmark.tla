---------------------------- MODULE BesuBenchmark ----------------------------
(***************************************************************************)
(* besu_benchmark.py main: connect to the nodes, sign a round of transfers *)
(* for every account, submit them, poll their receipts, report; all of it  *)
(* next to the thread that samples the host.  The transfers run through    *)
(* the engine of TransactionEngine as its one leg.                         *)
(***************************************************************************)
EXTENDS TransactionEngine, ResourceMonitor, LegStatistics

CONSTANTS
  Accounts,   \* the accounts file: a sequence of senders
  Endpoints,  \* the nodes of the topology: a sequence of names
  NumTx,      \* --num-tx
  MaxClock,   \* bound: the clock
  ValueLists, \* lists of values whose percentiles are compared
  TimedLegs   \* legs whose latencies by poll and by block are compared

\* load_accounts, build_rpc_endpoints: a topology names at least one node.
ValidBenchmark ==
  /\ Accounts \in Seq(Senders)
  /\ Endpoints \in Seq(Range(Endpoints)) \ {<<>>}
  /\ NumTx \in Nat

ASSUME BenchmarkAssumption == ValidBenchmark

ASSUME ValuesAssumption == ValueLists \subseteq Seq(Int) \ {<<>>}

\* A receipt is found after its transaction was sent; a block's stamp may be any.
ASSUME TimedLegsAssumption ==
  \A ts \in TimedLegs :
    /\ IsFiniteSet(DOMAIN ts)
    /\ \A i \in Timed(ts) :
         /\ ts[i].submit \in Int /\ ts[i].confirm \in Int /\ ts[i].block \in Int
         /\ ts[i].submit <= ts[i].confirm

VARIABLES
  chains,     \* chains[e]: "same" chain as the first endpoint, "other", or "down"
  clock,      \* time.time()
  submitTs,   \* submit_ts of the transactions taken so far
  confirmTs,  \* confirm_ts by transaction, None before
  report,     \* what was printed and written
  stage       \* where main is

mainVars == <<chains, clock, submitTs, confirmTs, report, stage>>
benchVars == <<nodeVars, engineVars, monitorVars, mainVars>>

BenchInit ==
  /\ NodeInit /\ EngineInit /\ MonitorInit
  /\ chains \in [DOMAIN Endpoints -> {"same", "other", "down"}] /\ chains[1] # "other"
  /\ clock = 0 /\ submitTs = <<>> /\ confirmTs = <<>> /\ report = <<>> /\ stage = "start"

Goto(p) == stage' = p /\ UNCHANGED <<chains, clock, submitTs, confirmTs, report>>

\* assign_accounts: accounts go to the endpoints in turn.
assignment(s) ==
  LET i == CHOOSE k \in DOMAIN Accounts : Accounts[k] = s
  IN  Endpoints[((i - 1) % Len(Endpoints)) + 1]

StartMonitor == stage = "start" /\ StartSampler /\ Goto("connect") /\ UNCHANGED <<nodeVars, engineVars>>

\* connect_web3: every endpoint answers, and is on the chain of the first.
connected == Range(chains) = {"same"}

\* Without a connection or an account the run ends; the monitor's thread is a daemon.
Connect ==
  /\ stage = "connect"
  /\ Goto(IF connected /\ Accounts # <<>> THEN "prepare" ELSE "aborted")
  /\ UNCHANGED <<nodeVars, engineVars, monitorVars>>

\* load_nonces
firstNonce(s) == PendingCount(s)

\* prepare_transactions: each account in turn, its nonces counted here.
account(i) == Accounts[((i - 1) % Len(Accounts)) + 1]

Prepare ==
  /\ stage = "prepare"
  /\ txs' = [i \in 1 .. NumTx |->
               [leg |-> 1, sender |-> account(i), status |-> "prepared",
                nonce |-> firstNonce(account(i)) + (i - 1) \div Len(Accounts)]]
  /\ confirmTs' = [i \in 1 .. NumTx |-> None]
  /\ stage' = "submit" /\ set_phase("submission")
  /\ UNCHANGED <<nodeVars, first, handed, awaited, taken, polling, delayed, mishaps,
                 chains, clock, submitTs, report>>

\* A thread that takes a transaction reads the clock before it calls the node.
TakeAndStamp ==
  /\ Take
  /\ submitTs' = Append(submitTs, clock)
  /\ UNCHANGED <<nodeVars, confirmTs>>

FindAndStamp(i) ==
  /\ FindReceipt(i)
  /\ confirmTs' = [confirmTs EXCEPT ![i] = clock]
  /\ UNCHANGED <<nodeVars, submitTs>>

Submission ==
  \/ TakeAndStamp
  \/ (HandOver \/ AwaitOldest) /\ UNCHANGED <<nodeVars, submitTs, confirmTs>>
  \/ (\E i \in InLeg : Submit(i)) /\ UNCHANGED <<submitTs, confirmTs>>

Confirmation ==
  \/ \E i \in InLeg : FindAndStamp(i)
  \/ (BeginPoll \/ \E i \in InLeg : GiveUp(i)) /\ UNCHANGED <<nodeVars, submitTs, confirmTs>>

EngineStep ==
  /\ \/ stage = "submit" /\ Submission
     \/ stage = "poll" /\ Confirmation
  /\ UNCHANGED <<monitorVars, chains, clock, report, stage>>

EndSubmission ==
  /\ stage = "submit" /\ AllSubmitted
  /\ set_phase("confirmation") /\ Goto("poll")
  /\ UNCHANGED <<nodeVars, engineVars>>

EndConfirmation ==
  /\ stage = "poll" /\ AllPolled
  /\ set_phase("idle") /\ Goto("stop")
  /\ UNCHANGED <<nodeVars, engineVars>>

Stop ==
  /\ UNCHANGED <<nodeVars, engineVars>>
  /\ \/ stage = "stop" /\ SetStop /\ Goto("join")
     \/ stage = "join" /\ Join /\ Goto("print")

------------------------------------------------------------------------------
\* The report.  The sampler's list is read anew for every part of it.

\* A transaction as the statistics read it.
Reported ==
  [i \in DOMAIN txs |->
     [status |-> txs[i].status, node |-> assignment(txs[i].sender), block |-> None,
      submit |-> submitTs[i], confirm |-> confirmTs[i]]]

ReportStep(from, to, figures) ==
  /\ stage = from /\ stage' = to
  /\ report' = [x \in DOMAIN report \cup DOMAIN figures |->
                 IF x \in DOMAIN report THEN report[x] ELSE figures[x]]
  /\ UNCHANGED <<nodeVars, engineVars, monitorVars, chains, clock, submitTs, confirmTs>>

\* The host's usage is printed when there is a CPU average; a memory average that is
\* missing then fails the formatting, and nothing is written.
usagePrinted == summary.cpu => summary.mem

\* print_statistics and print_rpc_statistics, then the host's usage.
PrintReport ==
  ReportStep("print", IF usagePrinted THEN "write" ELSE "aborted",
    [stats |-> compute_statistics(Reported),
     rpc |-> compute_rpc_statistics(Reported, Range(Endpoints)),
     printed |-> summary])

\* write_csv: a row for each transaction, with a latency once it has a receipt.
WriteCsv ==
  ReportStep("write", "summary",
    [rows |-> [i \in DOMAIN txs |->
       [status |-> txs[i].status,
        latency |-> IF confirmTs[i] = None THEN None ELSE confirmTs[i] - submitTs[i]]]])

\* write_summary, up to the host's usage ...
WriteSummary ==
  ReportStep("summary", "phases",
    [statsWritten |-> compute_statistics(Reported),
     rpcWritten |-> compute_rpc_statistics(Reported, Range(Endpoints)),
     written |-> summary])

\* ... its usage by phase ...
WritePhases == ReportStep("phases", "series", [phases |-> phase_summary])

\* ... and ResourceMonitor.write_csv, the series.
WriteSeries == ReportStep("series", "done", [series |-> samples])

Main ==
  \/ StartMonitor \/ Connect \/ Prepare \/ EndSubmission \/ EndConfirmation \/ Stop
  \/ PrintReport \/ WriteCsv \/ WriteSummary \/ WritePhases \/ WriteSeries
  \/ EngineStep

Surroundings ==
  \/ Sampler /\ UNCHANGED <<nodeVars, engineVars, mainVars>>
  \/ /\ clock < MaxClock /\ clock' = clock + 1
     /\ UNCHANGED <<nodeVars, engineVars, monitorVars, chains, submitTs, confirmTs, report, stage>>
  \/ (\E s \in Senders, ok \in BOOLEAN : Mine(s, ok)) /\ UNCHANGED <<engineVars, monitorVars, mainVars>>
  \/ (\E i \in DOMAIN txs : Arrive(i)) /\ UNCHANGED <<monitorVars, mainVars>>

BenchNext == Main \/ Surroundings

BenchSpec == BenchInit /\ [][BenchNext]_benchVars

------------------------------------------------------------------------------

Has(part) == part \in DOMAIN report

\* The two ways in which the transactions are counted agree, and every transaction is
\* counted once: the threads have left none behind without an outcome.
TalliesAgree ==
  Has("stats") =>
    LET c == report.stats.counts
        nodes == DOMAIN report.rpc
        Total(field) == FoldFunction(+, 0, [n \in nodes |-> report.rpc[n][field]])
    IN  /\ c.prepared = c.confirmed + c.reverted + c.timeout + c.failed_submission
        /\ c.submitted = Total("submitted") /\ c.confirmed = Total("confirmed")
        /\ c.timeout = Total("timeout") /\ c.failed_submission = Total("failed")

\* The console output, the saved summary and the rows of the transactions cannot drift
\* apart; what they say of the host can, but only when a probe was still running as the
\* join timed out.
NoDrift ==
  Has("series") =>
    LET confirmed == With(report.rows, {"confirmed"})
        total == FoldFunction(+, 0, [i \in confirmed |-> report.rows[i].latency])
    IN  /\ report.stats = report.statsWritten /\ report.rpc = report.rpcWritten
        /\ confirmed # {} => report.stats.latency.avg = <<total, Cardinality(confirmed)>>
        /\ ~outlived =>
             /\ report.printed = report.written
             /\ FoldFunction(+, 0, report.phases) = report.written.count
             /\ Len(report.series) = report.written.count

\* The three ways in which the tools interpolate a percentile agree, up to the 99th.
\* The lists are those of ValueLists, not of the run: looked at before it starts.
PercentilesAgree == stage = "start" =>
  \A values \in ValueLists, p \in 0 .. 99 :
    percentile(values, p) = pct(values, p) /\ pct(values, p) = ablationPercentile(values, p)

\* A leg's latency by block time is never longer than by polling: neither at the median
\* nor at the tail, wherever the clock of the node that sealed the block stands.
BlockTimeNeverLonger == stage = "start" =>
  \A ts \in TimedLegs :
    LET block == apply_block_time_latency(ts, "block_time")
        poll == apply_block_time_latency(ts, "poll")
    IN  /\ block.n = poll.n
        /\ block.n > 0 => /\ 0 <= block.p50 /\ block.p50 <= poll.p50
                          /\ 0 <= block.p99 /\ block.p99 <= poll.p99
==============================================================================
