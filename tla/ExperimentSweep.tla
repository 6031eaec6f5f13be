---------------------------- MODULE ExperimentSweep ----------------------------
(***************************************************************************)
(* The four harnesses that run a whole experiment unattended,              *)
(* run_zkroam_experiment.py, run_plain_experiment.py and their _e2e        *)
(* versions.  An invocation compiles the contracts and then, for each      *)
(* pair of a network and a number of VMNOs, starts a fresh network,        *)
(* deploys what its workload needs, runs the workload, checks and keeps    *)
(* its output, and takes the network down, whatever went wrong before.     *)
(* Invocations, of one harness or another, share the working directory:    *)
(* the results folders and deployed_contracts.json outlive the networks.   *)
(*                                                                         *)
(* Networks are numbered as they are started.  A contract is a number, the *)
(* network it was deployed on: accounts are generated with each network,   *)
(* so that its address has code nowhere else.  Command lines, logging and  *)
(* the configuration that is written for the workload are left out, but    *)
(* for whether it asks for any run at all.  The name of a summary depends  *)
(* on that configuration: a folder is taken to hold one.                   *)
(***************************************************************************)
EXTENDS Naturals, Sequences, FiniteSets

CONSTANTS
  NumPairs,        \* pairs of a network and a number of VMNOs in an invocation
  MaxInvocations   \* bound on the invocations

ASSUME SweepAssumption == NumPairs \in Nat \ {0} /\ MaxInvocations \in Nat

VARIABLES
  turn,      \* invocations so far
  harness,   \* the harness invoked
  args,      \* its flags
  pair,      \* the pair it is at
  pc,        \* what it does next
  status,    \* of the pair it is at
  reports,   \* the summary that is printed: a status for each pair done
  net,       \* the network that is up, 0 for none
  nets,      \* networks started so far
  before,    \* the network that was up at the invocation
  undone,    \* a `docker compose down` of the invocation failed, which is not noticed
  deployed,  \* deployed_contracts.json
  folders    \* for each folder that has a run.log: its summary, its snapshot, the network
             \* of the snapshot, and whether the pair started that network and measured

vars == <<turn, harness, args, pair, pc, status, reports, net, nets, before, undone,
          deployed, folders>>

Harnesses == {"zkroam", "zkroam_e2e", "plain", "plain_e2e"}

\* contracts is --with-verifiers, or that --no-commit is not given; measures is no flag of
\* the command line: the configuration has at least one run, which nothing checks.
Flags == [reuse : BOOLEAN, keep : BOOLEAN, force : BOOLEAN, contracts : BOOLEAN,
          measures : BOOLEAN]

\* start_network: which harness deploys the verifiers, and which the commitment contract.
deploysVerifiers == harness \in {"zkroam", "zkroam_e2e"} \/ args.contracts
deploysCommit == harness = "zkroam" /\ args.contracts

\* f, with v for k: a JSON object with a key set, a directory with a folder made.
With(f, k, v) == [x \in DOMAIN f \cup {k} |-> IF x = k THEN v ELSE f[x]]

Folder == <<harness, pair>>
NoFile == <<>>
NoSummary == [made |-> 0, valid |-> FALSE]

Init ==
  /\ turn = 0 /\ harness = "zkroam" /\ pair = 1 /\ pc = "idle" /\ status = "ok"
  /\ args = [reuse |-> FALSE, keep |-> FALSE, force |-> FALSE, contracts |-> FALSE,
             measures |-> FALSE]
  /\ reports = <<>> /\ net = 0 /\ nets = 0 /\ before = 0 /\ undone = FALSE
  /\ deployed = NoFile /\ folders = NoFile

\* run_zkroam_experiment_e2e.py has no such option, and --keep-network adds nothing to
\* --reuse-network.
Invoke(h, flags) ==
  /\ pc = "idle" /\ turn < MaxInvocations
  /\ h = "zkroam_e2e" => ~flags.contracts
  /\ ~(flags.reuse /\ flags.keep)
  /\ turn' = turn + 1 /\ harness' = h /\ args' = flags /\ pair' = 1 /\ pc' = "build"
  /\ reports' = <<>> /\ before' = net /\ undone' = FALSE
  /\ UNCHANGED <<status, net, nets, deployed, folders>>

\* build_contracts and compile_contract: a failure ends the invocation before any
\* network is started.  run_zkroam_experiment.py compiles nothing.
Build ==
  /\ pc = "build"
  /\ \/ pc' = "pair"
     \/ harness # "zkroam" /\ pc' = "idle"
  /\ UNCHANGED <<turn, harness, args, pair, status, reports, net, nets, before, undone,
                 deployed, folders>>

Skip ==
  /\ pc = "pair" /\ pair <= NumPairs
  /\ Folder \in DOMAIN folders /\ ~args.force
  /\ pair' = pair + 1 /\ reports' = Append(reports, "skipped")
  /\ UNCHANGED <<turn, harness, args, pc, status, net, nets, before, undone, deployed, folders>>

\* run.log is created; summaries and snapshots of an earlier run stay in the folder.
Begin ==
  /\ pc = "pair" /\ pair <= NumPairs
  /\ Folder \notin DOMAIN folders \/ args.force
  /\ status' = "ok"
  /\ folders' = IF Folder \in DOMAIN folders THEN folders
                ELSE With(folders, Folder, [summary |-> NoSummary, snapshot |-> NoFile,
                                            of |-> 0, own |-> FALSE, measured |-> FALSE])
  /\ pc' = IF ~args.reuse THEN "start"
           ELSE IF deploysCommit /\ "cdr_commit" \notin DOMAIN deployed THEN "commit"
           ELSE "workload"
  /\ UNCHANGED <<turn, harness, args, pair, reports, net, nets, before, undone, deployed>>

Fail == pc' = "finally" /\ status' = "FAILED"

\* The network script and wait_for_chain.  04-run-network.sh and 04b-run-baseline.sh take an
\* earlier network down first; 04a-run-network-wan.sh does not, and its `docker compose up`
\* puts containers with new keys and a new genesis in the place of those it finds.
StartNetwork ==
  /\ pc = "start"
  /\ nets' = nets + 1
  /\ \/ /\ net' = nets' /\ UNCHANGED status
        /\ pc' = IF deploysVerifiers THEN "verifiers" ELSE "workload"
     \/ net' \in {0, net, nets'} /\ Fail
  /\ UNCHANGED <<turn, harness, args, pair, reports, before, undone, deployed, folders>>

\* Mutant: the verifiers are added to what the file holds.
MergeVerifiers ==
  /\ pc = "verifiers"
  /\ \/ /\ deployed' = With(deployed, "verifiers", net)
        /\ pc' = IF deploysCommit THEN "commit" ELSE "workload"
        /\ UNCHANGED status
     \/ Fail /\ UNCHANGED deployed
  /\ UNCHANGED <<turn, harness, args, pair, reports, net, nets, before, undone, folders>>

\* deploy_verifiers.py writes a new file, when everything is deployed.
DeployVerifiers ==
  /\ pc = "verifiers"
  /\ \/ /\ deployed' = With(NoFile, "verifiers", net)
        /\ pc' = IF deploysCommit THEN "commit" ELSE "workload"
        /\ UNCHANGED status
     \/ Fail /\ UNCHANGED deployed
  /\ UNCHANGED <<turn, harness, args, pair, reports, net, nets, before, undone, folders>>

\* deploy_cdr_commit.py adds its contract to the file.
DeployCommit ==
  /\ pc = "commit"
  /\ \/ /\ net # 0
        /\ deployed' = With(deployed, "cdr_commit", net)
        /\ pc' = "workload" /\ UNCHANGED status
     \/ Fail /\ UNCHANGED deployed
  /\ UNCHANGED <<turn, harness, args, pair, reports, net, nets, before, undone, folders>>

\* zkroam_workload_e2e.py needs a verifier in the file, and calls it when there is a run;
\* the older one sends data to whatever the file names and does not check that it is a
\* contract.
workloadCanRun ==
  /\ net # 0
  /\ harness = "zkroam_e2e" =>
       "verifiers" \in DOMAIN deployed /\ (args.measures => deployed["verifiers"] = net)

\* plain_workload.py looks for its contract in the file and deploys it, and adds it to
\* the file, when it has no code on this network.
ResolveContract ==
  IF harness = "plain" THEN deployed' = With(deployed, "plain_settlement", net)
                       ELSE UNCHANGED deployed

\* Whether all legs were valid, which the older harnesses do not read from their summary.
legsMayBe == IF harness \in {"zkroam_e2e", "plain_e2e"} THEN BOOLEAN ELSE {TRUE}

\* The workload ends well when it has written its summary, whose legs may have failed, and
\* also when it had no run to write of: write_sweep_summary then leaves the folder as it
\* is.  Or it fails, possibly after its contract was deployed.
RunWorkload ==
  /\ pc = "workload"
  /\ \/ /\ workloadCanRun
        /\ ResolveContract
        /\ IF args.measures
           THEN \E v \in legsMayBe :
                  folders' = [folders EXCEPT ![Folder].summary = [made |-> turn, valid |-> v]]
           ELSE UNCHANGED folders
        /\ pc' = "check" /\ UNCHANGED status
     \/ net # 0 /\ ResolveContract /\ Fail /\ UNCHANGED folders
     \/ Fail /\ UNCHANGED <<deployed, folders>>
  /\ UNCHANGED <<turn, harness, args, pair, reports, net, nets, before, undone>>

\* Mutant: that there is a summary is enough.
SummaryProduced == folders[Folder].summary # NoSummary

\* check_all_legs_valid, which says nothing of a folder without a summary, and the plain
\* harnesses' check that there is one, of whatever invocation.
SummaryAccepted ==
  /\ harness \in {"plain", "plain_e2e"} => folders[Folder].summary # NoSummary
  /\ harness \in {"zkroam_e2e", "plain_e2e"} =>
       folders[Folder].summary = NoSummary \/ folders[Folder].summary.valid

\* The rest of the try block: the check, then the snapshot of the set-up.
CheckAndSnapshot ==
  /\ pc = "check"
  /\ \/ /\ SummaryAccepted
        /\ folders' = [folders EXCEPT ![Folder].snapshot = deployed, ![Folder].of = net,
                                      ![Folder].own = ~args.reuse,
                                      ![Folder].measured = args.measures]
        /\ pc' = "finally" /\ UNCHANGED status
     \/ ~SummaryAccepted /\ Fail /\ UNCHANGED folders
  /\ UNCHANGED <<turn, harness, args, pair, reports, net, nets, before, undone, deployed>>

\* Ctrl-C is not an Exception: the handler does not see it, the finally clause does.
Interrupt ==
  /\ pc \in {"start", "verifiers", "commit", "workload", "check"}
  /\ pc' = "finally" /\ status' = "interrupted"
  /\ UNCHANGED <<turn, harness, args, pair, reports, net, nets, before, undone, deployed, folders>>

\* `docker compose down`, whose failure is not checked.
Teardown == \/ net' = 0 /\ UNCHANGED undone
            \/ UNCHANGED net /\ undone' = TRUE

\* Mutant: a failed run leaves its network up.
FinishKeepingFailed ==
  /\ pc = "finally"
  /\ IF args.reuse \/ args.keep \/ status # "ok" THEN UNCHANGED <<net, undone>> ELSE Teardown
  /\ IF status = "interrupted" THEN pc' = "idle" /\ UNCHANGED <<pair, reports>>
     ELSE pc' = "pair" /\ pair' = pair + 1 /\ reports' = Append(reports, status)
  /\ UNCHANGED <<turn, harness, args, status, nets, before, deployed, folders>>

\* The finally clause, and the return to main's loop.
Finish ==
  /\ pc = "finally"
  /\ IF args.reuse \/ args.keep THEN UNCHANGED <<net, undone>> ELSE Teardown
  /\ IF status = "interrupted" THEN pc' = "idle" /\ UNCHANGED <<pair, reports>>
     ELSE pc' = "pair" /\ pair' = pair + 1 /\ reports' = Append(reports, status)
  /\ UNCHANGED <<turn, harness, args, status, nets, before, deployed, folders>>

\* The summary is printed; the exit code is 0 when every pair is ok or skipped.
Exit ==
  /\ pc = "pair" /\ pair > NumPairs
  /\ pc' = "idle"
  /\ UNCHANGED <<turn, harness, args, pair, status, reports, net, nets, before, undone,
                 deployed, folders>>

RunPair == \/ Skip \/ Begin \/ StartNetwork \/ DeployVerifiers \/ DeployCommit
           \/ RunWorkload \/ CheckAndSnapshot \/ Interrupt \/ Finish

Next ==
  \/ \E h \in Harnesses, flags \in Flags : Invoke(h, flags)
  \/ Build \/ RunPair \/ Exit

Spec == Init /\ [][Next]_vars

------------------------------------------------------------------------------
\* What is reported and kept.

\* What stands behind an ok of an end-to-end harness: the valid summary of this very
\* invocation if it measured anything; otherwise no summary with an invalid leg, and for
\* the plain harness some summary.
Backed(summary) ==
  /\ args.measures => summary = [made |-> turn, valid |-> TRUE]
  /\ summary # NoSummary => summary.valid
  /\ harness = "plain_e2e" => summary # NoSummary

\* A pair that an end-to-end harness reports as ok in this invocation is backed: neither an
\* old summary in a folder that is used again nor a failure in between is taken for a
\* measurement (check_all_legs_valid, and the order of the steps of run_sweep).
OkMeansValid ==
  \A p \in DOMAIN reports :
    reports[p] = "ok" /\ harness \in {"zkroam_e2e", "plain_e2e"} =>
      Backed(folders[<<harness, p>>].summary)

\* However an invocation ends, a network that it started is down unless it was told to
\* keep it or `docker compose down` itself failed; one that it was told to reuse is still
\* up (the finally clause of run_sweep, over all failures and an interruption).
NothingLeftRunning ==
  pc = "idle" => IF args.reuse THEN net = before
                 ELSE net \in {0, before} \/ args.keep \/ undone

NamesItsNetwork(f) == \A name \in DOMAIN f.snapshot : f.snapshot[name] = f.of

\* The contracts that a snapshot names are on the network that produced the results when
\* the workload called the verifiers there, or when they were deployed for the pair,
\* whatever other harnesses left in the file before.
VerifiersSnapshotMatches ==
  \A h \in Harnesses, p \in 1 .. NumPairs :
    <<h, p>> \in DOMAIN folders =>
      LET f == folders[<<h, p>>] IN
      \/ h = "zkroam_e2e" /\ f.measured
      \/ h \in {"zkroam", "zkroam_e2e"} /\ f.own
      => NamesItsNetwork(f)

\* README.md: deployed_contracts.json in a results folder is "the network and contract
\* addresses that produced the results".  Stated for pairs that started their own network.
SnapshotProducedResults ==
  \A h \in Harnesses, p \in 1 .. NumPairs :
    <<h, p>> \in DOMAIN folders /\ folders[<<h, p>>].own => NamesItsNetwork(folders[<<h, p>>])
===============================================================================
