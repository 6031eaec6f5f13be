------------------------ MODULE ExperimentSweep_proofs ------------------------
(***************************************************************************)
(* The harnesses' properties for any number of pairs and any number of     *)
(* invocations: what an invocation reports as ok, what it leaves running,  *)
(* and what the snapshots of its set-up name.                              *)
(*                                                                         *)
(* None of the three invariants is inductive.  What they lack is what the  *)
(* harness knows at each line of its try block, and one fact about the     *)
(* file that all networks share: every contract in it is at least as young *)
(* as its verifiers, which is so because deploy_verifiers.py starts a new  *)
(* file and no network that is down comes back.                            *)
(***************************************************************************)
EXTENDS ExperimentSweep, TLAPS

Steps == {"start", "verifiers", "commit", "workload", "check", "finally"}
Statuses == {"ok", "skipped", "FAILED", "interrupted"}
Contracts == {"verifiers", "cdr_commit", "plain_settlement"}

\* What deployed_contracts.json may hold.
Files == UNION {[names -> Nat] : names \in SUBSET Contracts}
Records == [summary : [made : Nat, valid : BOOLEAN], snapshot : Files, of : Nat, own : BOOLEAN,
            measured : BOOLEAN]

SweepType ==
  /\ turn \in Nat /\ harness \in Harnesses /\ args \in Flags /\ pair \in Nat \ {0}
  /\ pc \in {"idle", "build", "pair"} \cup Steps /\ status \in Statuses
  /\ reports \in Seq(Statuses)
  /\ net \in Nat /\ nets \in Nat /\ before \in Nat /\ undone \in BOOLEAN
  /\ deployed \in Files
  /\ DOMAIN folders \subseteq Harnesses \X Nat
  /\ \A k \in DOMAIN folders : folders[k] \in Records

\* The loop: a report for each pair before this one, and a folder for this one.
AtItsPair ==
  /\ Len(reports) = pair - 1
  /\ pc # "idle" => turn > 0
  /\ pc \in Steps => Folder \in DOMAIN folders

EndToEnd == harness \in {"zkroam_e2e", "plain_e2e"}

\* The end-to-end harnesses: a summary is this invocation's once a workload that measures
\* is through, and backs the pair once it was checked.
SummaryIsFresh ==
  /\ pc = "check" /\ args.measures => folders[Folder].summary.made = turn
  /\ pc = "finally" /\ status = "ok" /\ EndToEnd => Backed(folders[Folder].summary)

ReportsAreBacked ==
  \A p \in DOMAIN reports : reports[p] = "ok" =>
    /\ <<harness, p>> \in DOMAIN folders
    /\ EndToEnd => Backed(folders[<<harness, p>>].summary)

\* The network: a reused one is never touched, any other is taken down or the failure is
\* known.
NetworkAccounted ==
  /\ pc = "start" => ~args.reuse
  /\ pc = "verifiers" => net # 0
  /\ args.reuse => net = before
  /\ pc \in {"idle", "build", "pair"} => args.reuse \/ net \in {0, before} \/ args.keep \/ undone

\* Networks only get younger, and no contract in the file is older than its verifiers.
FileIsOrdered ==
  /\ net <= nets
  /\ \A name \in DOMAIN deployed :
       /\ deployed[name] <= nets
       /\ net # 0 => deployed[name] <= net
       /\ "verifiers" \in DOMAIN deployed => deployed["verifiers"] <= deployed[name]

VerifiersHere == net # 0 /\ "verifiers" \in DOMAIN deployed /\ deployed["verifiers"] = net

\* From the deployment of the verifiers on, they are on the network that is up.
VerifiersAreHere ==
  /\ pc \in {"commit", "workload", "check"} /\ ~args.reuse /\ deploysVerifiers => VerifiersHere
  /\ pc = "check" /\ harness = "zkroam_e2e" /\ args.measures => VerifiersHere

\* Whose snapshots are vouched for.
Vouched(k) ==
  \/ k[1] = "zkroam_e2e" /\ folders[k].measured
  \/ k[1] \in {"zkroam", "zkroam_e2e"} /\ folders[k].own

SnapshotsMatch == \A k \in DOMAIN folders : Vouched(k) => NamesItsNetwork(folders[k])

SweepInv ==
  /\ SweepType /\ AtItsPair /\ SummaryIsFresh /\ ReportsAreBacked
  /\ NetworkAccounted /\ FileIsOrdered /\ VerifiersAreHere /\ SnapshotsMatch

------------------------------------------------------------------------------

\* A contract that a deployment adds to the file.
LEMMA FileAdd ==
  ASSUME NEW f \in Files, NEW name \in Contracts, NEW n \in Nat
  PROVE  /\ With(f, name, n) \in Files
         /\ DOMAIN With(f, name, n) = DOMAIN f \cup {name}
         /\ \A c \in DOMAIN f \cup {name} :
              With(f, name, n)[c] = IF c = name THEN n ELSE f[c]
<1>1. PICK names \in SUBSET Contracts : f \in [names -> Nat]
  BY DEF Files
<1>2. With(f, name, n) \in [names \cup {name} -> Nat]
  BY <1>1 DEF With
<1>3. names \cup {name} \in SUBSET Contracts
  OBVIOUS
<1> QED
  BY <1>2, <1>3 DEF Files, With

\* A deployment reads a file that holds numbers, or nothing.
LEMMA FileReads ==
  /\ NoFile \in Files /\ DOMAIN NoFile = {}
  /\ \A f \in Files : DOMAIN f \subseteq Contracts /\ \A c \in DOMAIN f : f[c] \in Nat
<1>1. NoFile \in [{} -> Nat]
  BY DEF NoFile
<1>2. {} \in SUBSET Contracts
  OBVIOUS
<1>3. NoFile \in Files
  BY <1>1, <1>2 DEF Files
<1>4. DOMAIN NoFile = {}
  BY <1>1
<1>5. ASSUME NEW f \in Files PROVE DOMAIN f \subseteq Contracts /\ \A c \in DOMAIN f : f[c] \in Nat
  <2>1. PICK names \in SUBSET Contracts : f \in [names -> Nat]
    BY DEF Files
  <2> QED
    BY <2>1
<1> QED
  BY <1>3, <1>4, <1>5

\* Nothing has been invoked.
LEMMA SweepInit == Init => SweepInv
<1> SUFFICES ASSUME Init PROVE SweepInv
  OBVIOUS
<1> USE FileReads DEF Init
<1>1. DOMAIN folders = {}
  OBVIOUS
<1>2. args \in Flags /\ harness \in Harnesses /\ status \in Statuses
  BY DEF Flags, Harnesses, Statuses
<1>7. reports \in Seq(Statuses) /\ deployed \in Files
  BY DEF Statuses
<1>8. DOMAIN folders \subseteq Harnesses \X Nat /\ \A k \in DOMAIN folders : folders[k] \in Records
  BY <1>1
<1>9. /\ turn \in Nat /\ pair \in Nat \ {0} /\ pc \in {"idle", "build", "pair"} \cup Steps
      /\ net \in Nat /\ nets \in Nat /\ before \in Nat
  OBVIOUS
<1>11. undone \in BOOLEAN
  BY Zenon
<1>10. SweepType
  BY <1>2, <1>7, <1>8, <1>9, <1>11 DEF SweepType
<1>3. AtItsPair /\ SummaryIsFresh /\ NetworkAccounted
  BY DEF AtItsPair, SummaryIsFresh, NetworkAccounted, Steps
<1>4. ReportsAreBacked
  BY DEF ReportsAreBacked
<1>5. FileIsOrdered /\ VerifiersAreHere
  BY DEF FileIsOrdered, VerifiersAreHere
<1>6. SnapshotsMatch
  BY <1>1 DEF SnapshotsMatch
<1> QED
  BY <1>3, <1>4, <1>5, <1>6, <1>10 DEF SweepInv

\* What an action that leaves the folders, the file and the network alone keeps.
LEMMA NothingMade ==
  ASSUME SweepInv, UNCHANGED <<folders, deployed, net, nets>>
  PROVE  /\ FileIsOrdered' /\ SnapshotsMatch'
         /\ UNCHANGED <<reports, harness, turn, args>> => ReportsAreBacked'
<1>1. FileIsOrdered'
  BY DEF SweepInv, FileIsOrdered
<1>2. SnapshotsMatch'
  BY DEF SweepInv, SnapshotsMatch, Vouched, NamesItsNetwork
<1>3. UNCHANGED <<reports, harness, turn, args>> => ReportsAreBacked'
  BY DEF SweepInv, ReportsAreBacked, EndToEnd, Backed
<1> QED
  BY <1>1, <1>2, <1>3

\* A report that is added is backed if it says ok of a pair whose summary is.
LEMMA ReportAdded ==
  ASSUME SweepInv, NEW s \in Statuses, reports' = Append(reports, s),
         UNCHANGED <<harness, turn, args, folders>>,
         s = "ok" => /\ Folder \in DOMAIN folders
                     /\ EndToEnd => Backed(folders[Folder].summary)
  PROVE  reports' \in Seq(Statuses) /\ Len(reports') = Len(reports) + 1 /\ ReportsAreBacked'
<1>1. reports \in Seq(Statuses) /\ Len(reports) + 1 = pair /\ pair \in Nat
  BY DEF SweepInv, SweepType, AtItsPair
<1>2. reports' \in Seq(Statuses) /\ Len(reports') = Len(reports) + 1
  BY <1>1
<1>3. SUFFICES ASSUME NEW p \in DOMAIN reports', reports'[p] = "ok"
               PROVE  /\ <<harness, p>> \in DOMAIN folders
                      /\ EndToEnd => Backed(folders[<<harness, p>>].summary)
  BY <1>2 DEF ReportsAreBacked, EndToEnd, Backed
<1>4. CASE p = pair
  <2>1. reports'[p] = s
    BY <1>1, <1>4
  <2> QED
    BY <1>3, <1>4, <2>1 DEF Folder
<1>5. CASE p # pair
  <2>1. p \in DOMAIN reports /\ reports'[p] = reports[p]
    BY <1>1, <1>2, <1>5
  <2> QED
    BY <1>3, <2>1 DEF SweepInv, ReportsAreBacked
<1> QED
  BY <1>4, <1>5

\* An invocation begins with no report, and remembers the network that is up.
LEMMA InvokePreserves ==
  ASSUME SweepInv, NEW h \in Harnesses, NEW flags \in Flags, Invoke(h, flags)
  PROVE  SweepInv'
<1> USE DEF Invoke
<1>0. undone' \in BOOLEAN
  BY Zenon
<1>1. SweepType'
  BY <1>0 DEF SweepInv, SweepType
<1>2. AtItsPair'
  BY DEF SweepInv, AtItsPair, SweepType, Steps
<1>3. SummaryIsFresh' /\ VerifiersAreHere' /\ ReportsAreBacked'
  BY DEF SummaryIsFresh, VerifiersAreHere, ReportsAreBacked
<1>4. NetworkAccounted'
  BY DEF NetworkAccounted
<1>5. FileIsOrdered' /\ SnapshotsMatch'
  BY NothingMade
<1> QED
  BY <1>1, <1>2, <1>3, <1>4, <1>5 DEF SweepInv

\* Compilation, the end of main and Ctrl-C only move on.
LEMMA MovePreserves ==
  ASSUME SweepInv, Build \/ Exit \/ Interrupt
  PROVE  SweepInv'
<1> USE DEF Build, Exit, Interrupt
<1>0. UNCHANGED <<turn, harness, args, pair, reports, net, nets, before, undone, deployed, folders>>
  OBVIOUS
<1>1. SweepType'
  BY <1>0 DEF SweepInv, SweepType, Statuses, Steps
<1>2. AtItsPair'
  BY <1>0 DEF SweepInv, AtItsPair, Folder, Steps
<1>3. SummaryIsFresh' /\ VerifiersAreHere'
  BY DEF SummaryIsFresh, VerifiersAreHere
<1>4. NetworkAccounted'
  BY <1>0 DEF SweepInv, NetworkAccounted
<1>5. FileIsOrdered' /\ SnapshotsMatch' /\ ReportsAreBacked'
  BY <1>0, NothingMade
<1> QED
  BY <1>1, <1>2, <1>3, <1>4, <1>5 DEF SweepInv

\* A pair that is skipped is not reported as ok.
LEMMA SkipPreserves ==
  ASSUME SweepInv, Skip
  PROVE  SweepInv'
<1> USE DEF Skip
<1>0. reports' \in Seq(Statuses) /\ Len(reports') = Len(reports) + 1 /\ ReportsAreBacked'
  BY ReportAdded DEF Statuses
<1>1. SweepType'
  BY <1>0 DEF SweepInv, SweepType
<1>2. AtItsPair'
  BY <1>0 DEF SweepInv, AtItsPair, SweepType, Steps
<1>3. SummaryIsFresh' /\ VerifiersAreHere'
  BY DEF SummaryIsFresh, VerifiersAreHere
<1>4. NetworkAccounted'
  BY DEF SweepInv, NetworkAccounted
<1>5. FileIsOrdered' /\ SnapshotsMatch'
  BY NothingMade
<1> QED
  BY <1>0, <1>1, <1>2, <1>3, <1>4, <1>5 DEF SweepInv

\* The finally clause takes down what it may not keep, or knows that it did not; a pair
\* that ends well has the summary that was checked.
LEMMA FinishPreserves ==
  ASSUME SweepInv, Finish
  PROVE  SweepInv'
<1>1. /\ pc = "finally" /\ Folder \in DOMAIN folders
      /\ UNCHANGED <<turn, harness, args, status, nets, before, deployed, folders>>
      /\ net' \in {net, 0} /\ undone' \in {undone, TRUE}
      /\ IF args.reuse \/ args.keep THEN UNCHANGED <<net, undone>> ELSE net' = 0 \/ undone'
      /\ \/ status = "interrupted" /\ pc' = "idle" /\ UNCHANGED <<pair, reports>>
         \/ pc' = "pair" /\ pair' = pair + 1 /\ reports' = Append(reports, status)
  BY DEF Finish, Teardown, SweepInv, AtItsPair, Steps
<1>2. reports' \in Seq(Statuses) /\ Len(reports') = pair' - 1 /\ ReportsAreBacked'
  <2>1. CASE status = "interrupted" /\ pc' = "idle" /\ UNCHANGED <<pair, reports>>
    <3>1. reports' \in Seq(Statuses) /\ Len(reports') = pair' - 1
      BY <2>1 DEF SweepInv, SweepType, AtItsPair
    <3>2. ReportsAreBacked'
      BY <1>1, <2>1 DEF SweepInv, ReportsAreBacked, EndToEnd, Backed
    <3> QED
      BY <3>1, <3>2
  <2>2. CASE pc' = "pair" /\ pair' = pair + 1 /\ reports' = Append(reports, status)
    <3>1. status = "ok" /\ EndToEnd => Backed(folders[Folder].summary)
      BY <1>1 DEF SweepInv, SummaryIsFresh
    <3>2. status \in Statuses /\ pair \in Nat /\ Len(reports) = pair - 1
      BY DEF SweepInv, SweepType, AtItsPair
    <3>3. reports' \in Seq(Statuses) /\ Len(reports') = Len(reports) + 1 /\ ReportsAreBacked'
      <4>1. UNCHANGED <<harness, turn, args, folders>>
        BY <1>1
      <4>2. reports' = Append(reports, status)
        BY <2>2
      <4>3. Folder \in DOMAIN folders
        BY <1>1
      <4> QED
        BY <3>1, <3>2, <4>1, <4>2, <4>3, ReportAdded
    <3> QED
      BY <2>2, <3>2, <3>3
  <2> QED
    BY <1>1, <2>1, <2>2
<1>3. undone' \in BOOLEAN
  BY <1>1, Zenon DEF SweepInv, SweepType
<1>4. SweepType'
  BY <1>1, <1>2, <1>3 DEF SweepInv, SweepType
<1>5. AtItsPair'
  BY <1>1, <1>2 DEF SweepInv, AtItsPair, Steps
<1>6. SummaryIsFresh' /\ VerifiersAreHere'
  BY <1>1 DEF SummaryIsFresh, VerifiersAreHere
<1>7. NetworkAccounted'
  BY <1>1 DEF SweepInv, NetworkAccounted
<1>8. FileIsOrdered'
  BY <1>1 DEF SweepInv, SweepType, FileIsOrdered
<1>9. SnapshotsMatch'
  BY <1>1 DEF SweepInv, SnapshotsMatch, Vouched, NamesItsNetwork
<1> QED
  BY <1>2, <1>4, <1>5, <1>6, <1>7, <1>8, <1>9 DEF SweepInv

\* A network that is started is younger than every contract in the file.
LEMMA StartNetworkPreserves ==
  ASSUME SweepInv, StartNetwork
  PROVE  SweepInv'
<1>1. /\ pc = "start" /\ ~args.reuse /\ Folder \in DOMAIN folders
      /\ nets' = nets + 1 /\ net' \in {0, net, nets'}
      /\ UNCHANGED <<turn, harness, args, pair, reports, before, undone, deployed, folders>>
      /\ \/ /\ net' = nets' /\ UNCHANGED status
            /\ pc' = IF deploysVerifiers THEN "verifiers" ELSE "workload"
         \/ pc' = "finally" /\ status' = "FAILED"
  BY DEF StartNetwork, Fail, SweepInv, AtItsPair, NetworkAccounted, Steps
<1>2. net \in Nat /\ nets \in Nat /\ net <= nets /\ nets' \in Nat
  BY <1>1 DEF SweepInv, SweepType, FileIsOrdered
<1>3. SweepType'
  <2>1. net' \in Nat /\ status' \in Statuses /\ pc' \in Steps
    BY <1>1, <1>2 DEF SweepInv, SweepType, Statuses, Steps
  <2> QED
    BY <1>1, <1>2, <2>1 DEF SweepInv, SweepType
<1>4. AtItsPair'
  BY <1>1 DEF SweepInv, AtItsPair, Folder, Steps
<1>5. SummaryIsFresh' /\ NetworkAccounted'
  BY <1>1, <1>2 DEF SweepInv, SummaryIsFresh, NetworkAccounted
<1>6. VerifiersAreHere'
  BY <1>1 DEF VerifiersAreHere, deploysVerifiers
<1>7. ReportsAreBacked' /\ SnapshotsMatch'
  BY <1>1 DEF SweepInv, ReportsAreBacked, EndToEnd, Backed, SnapshotsMatch, Vouched,
    NamesItsNetwork
<1>8. FileIsOrdered'
  BY <1>1, <1>2, FileReads DEF SweepInv, SweepType, FileIsOrdered
<1> QED
  BY <1>3, <1>4, <1>5, <1>6, <1>7, <1>8 DEF SweepInv

\* The folders of the pairs reported so far are not the one that is written to.
LEMMA ReportsBehind ==
  ASSUME SweepInv,
         DOMAIN folders \subseteq DOMAIN folders',
         \A k \in DOMAIN folders : k # Folder => folders'[k] = folders[k],
         UNCHANGED <<harness, turn, args, reports>>
  PROVE  ReportsAreBacked'
<1> SUFFICES ASSUME NEW p \in DOMAIN reports, reports[p] = "ok"
             PROVE  /\ <<harness, p>> \in DOMAIN folders'
                    /\ EndToEnd => Backed(folders'[<<harness, p>>].summary)
  BY DEF ReportsAreBacked, EndToEnd, Backed
<1>1. p # pair
  BY DEF SweepInv, SweepType, AtItsPair
<1>2. <<harness, p>> # Folder
  BY <1>1 DEF Folder
<1>3. <<harness, p>> \in DOMAIN folders
  BY DEF SweepInv, ReportsAreBacked
<1> QED
  BY <1>2, <1>3 DEF SweepInv, ReportsAreBacked

\* A contract deployed on the network that is up keeps the file in order.
LEMMA AddedInOrder ==
  ASSUME SweepInv, NEW name \in {"cdr_commit", "plain_settlement"}, net # 0,
         deployed' = With(deployed, name, net), UNCHANGED <<net, nets>>
  PROVE  /\ deployed' \in Files /\ FileIsOrdered'
         /\ VerifiersHere => VerifiersHere'
<1>1. /\ deployed \in Files /\ net \in Nat /\ nets \in Nat /\ name \in Contracts /\ net <= nets
      /\ \A c \in DOMAIN deployed : deployed[c] \in Nat
  BY FileReads DEF SweepInv, SweepType, FileIsOrdered, Contracts
<1>2. /\ deployed' \in Files /\ DOMAIN deployed' = DOMAIN deployed \cup {name}
      /\ \A c \in DOMAIN deployed' : deployed'[c] = IF c = name THEN net ELSE deployed[c]
  BY <1>1, FileAdd
<1>3. name # "verifiers"
  OBVIOUS
<1>4. VerifiersHere => VerifiersHere'
  BY <1>2, <1>3 DEF VerifiersHere
<1>5. FileIsOrdered'
  BY <1>1, <1>2, <1>3 DEF SweepInv, FileIsOrdered
<1> QED
  BY <1>2, <1>4, <1>5

\* What a step inside a pair keeps when it leaves the loop, the network and the folders
\* alone.
LEMMA InsidePair ==
  ASSUME SweepInv, pc \in Steps, pc' \in Steps \ {"start", "verifiers"}, status' \in Statuses,
         deployed' \in Files,
         UNCHANGED <<turn, harness, args, pair, reports, net, nets, before, undone, folders>>
  PROVE  /\ SweepType' /\ AtItsPair' /\ NetworkAccounted' /\ ReportsAreBacked' /\ SnapshotsMatch'
         /\ pc' # "check" /\ (pc' = "finally" => status' # "ok") => SummaryIsFresh'
<1>1. SweepType'
  BY DEF SweepInv, SweepType
<1>2. AtItsPair'
  BY DEF SweepInv, AtItsPair, Folder, Steps
<1>3. NetworkAccounted'
  BY DEF SweepInv, NetworkAccounted, Steps
<1>4. ReportsAreBacked' /\ SnapshotsMatch'
  BY DEF SweepInv, ReportsAreBacked, EndToEnd, Backed, SnapshotsMatch, Vouched,
    NamesItsNetwork
<1>5. pc' # "check" /\ (pc' = "finally" => status' # "ok") => SummaryIsFresh'
  BY DEF SummaryIsFresh
<1> QED
  BY <1>1, <1>2, <1>3, <1>4, <1>5

\* A step that fails leads to the finally clause, and is not reported as ok.
LEMMA FailPreserves ==
  ASSUME SweepInv, pc \in Steps, pc' = "finally", status' = "FAILED",
         UNCHANGED <<turn, harness, args, pair, reports, net, nets, before, undone, deployed, folders>>
  PROVE  SweepInv'
<1>1. deployed' \in Files
  BY DEF SweepInv, SweepType
<1>2. SweepType' /\ AtItsPair' /\ NetworkAccounted' /\ ReportsAreBacked' /\ SnapshotsMatch'
      /\ SummaryIsFresh'
  BY <1>1, InsidePair DEF Steps, Statuses
<1>3. FileIsOrdered' /\ VerifiersAreHere'
  BY NothingMade DEF VerifiersAreHere
<1> QED
  BY <1>2, <1>3 DEF SweepInv

\* The verifiers begin a new file, and are on the network that is up.
LEMMA DeployVerifiersPreserves ==
  ASSUME SweepInv, DeployVerifiers
  PROVE  SweepInv'
<1>1. /\ pc = "verifiers" /\ net # 0 /\ pc \in Steps
      /\ UNCHANGED <<turn, harness, args, pair, reports, net, nets, before, undone, folders>>
      /\ \/ /\ deployed' = With(NoFile, "verifiers", net)
            /\ pc' \in {"commit", "workload"} /\ UNCHANGED status
         \/ pc' = "finally" /\ status' = "FAILED" /\ UNCHANGED deployed
  BY DEF DeployVerifiers, Fail, SweepInv, NetworkAccounted, Steps
<1>2. net \in Nat /\ nets \in Nat /\ net <= nets /\ deployed \in Files /\ status \in Statuses
  BY DEF SweepInv, SweepType, FileIsOrdered
<1>3. CASE /\ deployed' = With(NoFile, "verifiers", net)
           /\ pc' \in {"commit", "workload"} /\ UNCHANGED status
  <2>1. /\ deployed' \in Files /\ DOMAIN deployed' = {"verifiers"}
        /\ deployed'["verifiers"] = net
    <3>1. /\ With(NoFile, "verifiers", net) \in Files
          /\ DOMAIN With(NoFile, "verifiers", net) = DOMAIN NoFile \cup {"verifiers"}
          /\ With(NoFile, "verifiers", net)["verifiers"] = net
      <4>1. NoFile \in Files /\ net \in Nat /\ "verifiers" \in Contracts
        BY <1>2, FileReads DEF Contracts
      <4>2. /\ With(NoFile, "verifiers", net) \in Files
            /\ DOMAIN With(NoFile, "verifiers", net) = DOMAIN NoFile \cup {"verifiers"}
        BY <4>1, FileAdd
      <4>3. With(NoFile, "verifiers", net)["verifiers"] = net
        BY DEF With
      <4> QED
        BY <4>2, <4>3
    <3> QED
      BY <1>3, <3>1, FileReads
  <2>2. FileIsOrdered' /\ VerifiersAreHere'
    BY <1>1, <1>2, <1>3, <2>1 DEF FileIsOrdered, VerifiersAreHere, VerifiersHere
  <2>3. SweepType' /\ AtItsPair' /\ NetworkAccounted' /\ ReportsAreBacked' /\ SnapshotsMatch'
        /\ SummaryIsFresh'
    BY <1>1, <1>2, <1>3, <2>1, InsidePair DEF Steps
  <2> QED
    BY <2>2, <2>3 DEF SweepInv
<1>4. CASE pc' = "finally" /\ status' = "FAILED" /\ UNCHANGED deployed
  BY <1>1, <1>4, FailPreserves
<1> QED
  BY <1>1, <1>3, <1>4

\* The commitment contract joins them.
LEMMA DeployCommitPreserves ==
  ASSUME SweepInv, DeployCommit
  PROVE  SweepInv'
<1>1. /\ pc = "commit" /\ pc \in Steps
      /\ UNCHANGED <<turn, harness, args, pair, reports, net, nets, before, undone, folders>>
      /\ \/ /\ net # 0 /\ deployed' = With(deployed, "cdr_commit", net)
            /\ pc' = "workload" /\ UNCHANGED status
         \/ pc' = "finally" /\ status' = "FAILED" /\ UNCHANGED deployed
  BY DEF DeployCommit, Fail, Steps
<1>2. deployed \in Files /\ status \in Statuses
  BY DEF SweepInv, SweepType
<1>3. CASE /\ net # 0 /\ deployed' = With(deployed, "cdr_commit", net)
           /\ pc' = "workload" /\ UNCHANGED status
  <2>1. deployed' \in Files /\ FileIsOrdered' /\ (VerifiersHere => VerifiersHere')
    BY <1>1, <1>3, AddedInOrder
  <2>2. VerifiersAreHere'
    BY <1>1, <1>3, <2>1 DEF SweepInv, VerifiersAreHere, deploysVerifiers
  <2>3. SweepType' /\ AtItsPair' /\ NetworkAccounted' /\ ReportsAreBacked' /\ SnapshotsMatch'
        /\ SummaryIsFresh'
    BY <1>1, <1>2, <1>3, <2>1, InsidePair DEF Steps
  <2> QED
    BY <2>1, <2>2, <2>3 DEF SweepInv
<1>4. CASE pc' = "finally" /\ status' = "FAILED" /\ UNCHANGED deployed
  BY <1>1, <1>4, FailPreserves
<1> QED
  BY <1>1, <1>3, <1>4

\* A summary that is written belongs to this pair, and says when it was made.
LEMMA SummaryWritten ==
  ASSUME SweepInv, Folder \in DOMAIN folders, NEW v \in BOOLEAN,
         folders' = [folders EXCEPT ![Folder].summary = [made |-> turn, valid |-> v]]
  PROVE  /\ DOMAIN folders' = DOMAIN folders
         /\ \A k \in DOMAIN folders : k # Folder => folders'[k] = folders[k]
         /\ \A k \in DOMAIN folders : /\ folders'[k] \in Records
                                      /\ folders'[k].snapshot = folders[k].snapshot
                                      /\ folders'[k].of = folders[k].of
                                      /\ folders'[k].own = folders[k].own
                                      /\ folders'[k].measured = folders[k].measured
         /\ folders'[Folder].summary = [made |-> turn, valid |-> v]
<1>1. turn \in Nat /\ \A k \in DOMAIN folders : folders[k] \in Records
  BY DEF SweepInv, SweepType
<1>2. DOMAIN folders' = DOMAIN folders /\ \A k \in DOMAIN folders : k # Folder => folders'[k] = folders[k]
  OBVIOUS
<1>3. /\ folders'[Folder] = [folders[Folder] EXCEPT !.summary = [made |-> turn, valid |-> v]]
      /\ folders[Folder] \in Records
  BY <1>1
<1>4. /\ folders'[Folder].summary = [made |-> turn, valid |-> v]
      /\ folders'[Folder] \in Records
      /\ folders'[Folder].snapshot = folders[Folder].snapshot
      /\ folders'[Folder].of = folders[Folder].of
      /\ folders'[Folder].own = folders[Folder].own
      /\ folders'[Folder].measured = folders[Folder].measured
  BY <1>1, <1>3 DEF Records
<1> QED
  BY <1>1, <1>2, <1>4

\* The workload that ends well after measuring wrote this invocation's summary, with the
\* verifiers it needs on its network; one that had no run wrote none, and one that fails
\* has at most deployed its contract.
LEMMA RunWorkloadPreserves ==
  ASSUME SweepInv, RunWorkload
  PROVE  SweepInv'
<1>1. /\ pc = "workload" /\ pc \in Steps /\ Folder \in DOMAIN folders
      /\ UNCHANGED <<turn, harness, args, pair, reports, net, nets, before, undone>>
      /\ deployed \in Files /\ status \in Statuses
  BY DEF RunWorkload, SweepInv, SweepType, AtItsPair, Steps
<1>2. ASSUME net # 0, ResolveContract
      PROVE  deployed' \in Files /\ FileIsOrdered' /\ (VerifiersHere => VerifiersHere')
  <2>1. CASE deployed' = With(deployed, "plain_settlement", net)
    BY <1>1, <1>2, <2>1, AddedInOrder
  <2>2. CASE UNCHANGED deployed
    BY <1>1, <2>2 DEF SweepInv, FileIsOrdered, VerifiersHere
  <2> QED
    BY <1>2, <2>1, <2>2 DEF ResolveContract
<1>3. ASSUME workloadCanRun, ResolveContract, args.measures, NEW v \in BOOLEAN,
             folders' = [folders EXCEPT ![Folder].summary = [made |-> turn, valid |-> v]],
             pc' = "check", UNCHANGED status
      PROVE  SweepInv'
  <2>1. deployed' \in Files /\ FileIsOrdered' /\ (VerifiersHere => VerifiersHere')
    BY <1>2, <1>3 DEF workloadCanRun
  <2>2. /\ DOMAIN folders' = DOMAIN folders
        /\ \A k \in DOMAIN folders : k # Folder => folders'[k] = folders[k]
        /\ \A k \in DOMAIN folders : /\ folders'[k] \in Records
                                     /\ folders'[k].snapshot = folders[k].snapshot
                                     /\ folders'[k].of = folders[k].of
                                     /\ folders'[k].own = folders[k].own
                                     /\ folders'[k].measured = folders[k].measured
        /\ folders'[Folder].summary = [made |-> turn, valid |-> v]
    BY <1>1, <1>3, SummaryWritten
  <2>3. SweepType'
    BY <1>1, <1>3, <2>1, <2>2 DEF SweepInv, SweepType, Steps
  <2>4. AtItsPair' /\ NetworkAccounted'
    BY <1>1, <1>3, <2>2 DEF SweepInv, AtItsPair, NetworkAccounted, Folder, Steps
  <2>5. SummaryIsFresh'
    BY <1>1, <1>3, <2>2 DEF SummaryIsFresh, Folder
  <2>6. ReportsAreBacked'
    BY <1>1, <2>2, ReportsBehind
  <2>7. VerifiersAreHere'
    <3>1. harness = "zkroam_e2e" => VerifiersHere
      BY <1>3 DEF workloadCanRun, VerifiersHere
    <3>2. ~args.reuse /\ deploysVerifiers => VerifiersHere
      BY <1>1 DEF SweepInv, VerifiersAreHere
    <3> QED
      BY <1>1, <2>1, <3>1, <3>2 DEF VerifiersAreHere, deploysVerifiers
  <2>8. SnapshotsMatch'
    BY <2>2 DEF SweepInv, SnapshotsMatch, Vouched, NamesItsNetwork
  <2> QED
    BY <2>1, <2>3, <2>4, <2>5, <2>6, <2>7, <2>8 DEF SweepInv
<1>4. ASSUME net # 0, ResolveContract, Fail, UNCHANGED folders
      PROVE  SweepInv'
  <2>1. deployed' \in Files /\ FileIsOrdered'
    BY <1>2, <1>4
  <2>2. SweepType' /\ AtItsPair' /\ NetworkAccounted' /\ ReportsAreBacked' /\ SnapshotsMatch'
        /\ SummaryIsFresh'
    BY <1>1, <1>4, <2>1, InsidePair DEF Fail, Steps, Statuses
  <2>3. VerifiersAreHere'
    BY <1>4 DEF Fail, VerifiersAreHere
  <2> QED
    BY <2>1, <2>2, <2>3 DEF SweepInv
<1>5. ASSUME Fail, UNCHANGED <<deployed, folders>>
      PROVE  SweepInv'
  BY <1>1, <1>5, FailPreserves DEF Fail
<1>6. ASSUME workloadCanRun, ResolveContract, ~args.measures, UNCHANGED folders,
             pc' = "check", UNCHANGED status
      PROVE  SweepInv'
  <2>1. deployed' \in Files /\ FileIsOrdered' /\ (VerifiersHere => VerifiersHere')
    BY <1>2, <1>6 DEF workloadCanRun
  <2>2. SweepType' /\ AtItsPair' /\ NetworkAccounted' /\ ReportsAreBacked' /\ SnapshotsMatch'
    BY <1>1, <1>6, <2>1, InsidePair DEF Steps
  <2>3. SummaryIsFresh'
    BY <1>1, <1>6 DEF SummaryIsFresh
  <2>4. VerifiersAreHere'
    <3>1. ~args.reuse /\ deploysVerifiers => VerifiersHere
      BY <1>1 DEF SweepInv, VerifiersAreHere
    <3> QED
      BY <1>1, <1>6, <2>1, <3>1 DEF VerifiersAreHere, deploysVerifiers
  <2> QED
    BY <2>1, <2>2, <2>3, <2>4 DEF SweepInv
<1>7. legsMayBe \subseteq BOOLEAN
  BY DEF legsMayBe
<1>8. ASSUME workloadCanRun, ResolveContract, pc' = "check", UNCHANGED status,
             IF args.measures
             THEN \E v \in legsMayBe :
                    folders' = [folders EXCEPT ![Folder].summary = [made |-> turn, valid |-> v]]
             ELSE UNCHANGED folders
      PROVE  SweepInv'
  <2>1. CASE args.measures
    <3>1. PICK v \in legsMayBe :
            folders' = [folders EXCEPT ![Folder].summary = [made |-> turn, valid |-> v]]
      BY <1>8, <2>1
    <3> QED
      BY <1>3, <1>7, <1>8, <2>1, <3>1
  <2>2. CASE ~args.measures
    BY <1>6, <1>8, <2>2
  <2> QED
    BY <2>1, <2>2
<1> QED
  BY <1>4, <1>5, <1>8 DEF RunWorkload

\* A pair passes the check with a summary that backs it, and its snapshot is taken of a file
\* in which nothing is older than this network if the verifiers are on it.
LEMMA CheckPreserves ==
  ASSUME SweepInv, CheckAndSnapshot
  PROVE  SweepInv'
<1>1. /\ pc = "check" /\ pc \in Steps /\ Folder \in DOMAIN folders
      /\ UNCHANGED <<turn, harness, args, pair, reports, net, nets, before, undone, deployed>>
      /\ turn \in Nat \ {0} /\ net \in Nat /\ deployed \in Files /\ args \in Flags
      /\ folders[Folder] \in Records
  BY DEF CheckAndSnapshot, SweepInv, SweepType, AtItsPair, Steps
<1>2. CASE /\ SummaryAccepted
           /\ folders' = [folders EXCEPT ![Folder].snapshot = deployed, ![Folder].of = net,
                                         ![Folder].own = ~args.reuse,
                                         ![Folder].measured = args.measures]
           /\ pc' = "finally" /\ UNCHANGED status
  <2>1. /\ DOMAIN folders' = DOMAIN folders
        /\ \A k \in DOMAIN folders : k # Folder => folders'[k] = folders[k]
        /\ folders'[Folder] = [folders[Folder] EXCEPT !.snapshot = deployed, !.of = net,
                                                      !.own = ~args.reuse,
                                                      !.measured = args.measures]
    BY <1>1, <1>2
  <2>2. /\ folders'[Folder] \in Records /\ folders'[Folder].summary = folders[Folder].summary
        /\ folders'[Folder].snapshot = deployed /\ folders'[Folder].of = net
        /\ folders'[Folder].own = ~args.reuse /\ folders'[Folder].measured = args.measures
    BY <1>1, <2>1 DEF Records, Flags
  <2>3. SweepType'
    BY <1>1, <1>2, <2>1, <2>2 DEF SweepInv, SweepType, Steps
  <2>4. AtItsPair' /\ NetworkAccounted'
    BY <1>1, <1>2, <2>1 DEF SweepInv, AtItsPair, NetworkAccounted, Folder, Steps
  <2>5. EndToEnd => Backed(folders[Folder].summary)
    <3> DEFINE summary == folders[Folder].summary
    <3>1. args.measures => summary.made = turn
      BY <1>1 DEF SweepInv, SummaryIsFresh
    <3>2. args.measures => summary # NoSummary
      BY <1>1, <3>1 DEF NoSummary
    <3>3. EndToEnd => summary = NoSummary \/ summary.valid
      BY <1>2 DEF SummaryAccepted, EndToEnd
    <3>4. summary \in [made : Nat, valid : BOOLEAN]
      BY <1>1 DEF Records
    <3>5. harness = "plain_e2e" => summary # NoSummary
      BY <1>2 DEF SummaryAccepted
    <3> HIDE DEF summary
    <3>6. EndToEnd /\ args.measures => summary = [made |-> turn, valid |-> TRUE]
      BY <3>1, <3>2, <3>3, <3>4
    <3>7. EndToEnd => Backed(summary)
      BY <3>3, <3>5, <3>6 DEF Backed
    <3> QED
      BY <3>7 DEF summary
  <2>6. SummaryIsFresh'
    BY <1>1, <1>2, <2>2, <2>5 DEF SummaryIsFresh, Folder, EndToEnd, Backed
  <2>7. ReportsAreBacked'
    BY <1>1, <2>1, ReportsBehind
  <2>8. VerifiersAreHere' /\ FileIsOrdered'
    BY <1>1, <1>2 DEF SweepInv, VerifiersAreHere, FileIsOrdered
  <2>9. VerifiersHere => \A name \in DOMAIN deployed : deployed[name] = net
    BY <1>1, FileReads DEF SweepInv, FileIsOrdered, VerifiersHere
  <2>10. (\/ Folder[1] = "zkroam_e2e" /\ args.measures
          \/ Folder[1] \in {"zkroam", "zkroam_e2e"} /\ ~args.reuse) => VerifiersHere
    BY <1>1 DEF SweepInv, VerifiersAreHere, deploysVerifiers, Folder
  <2>11. SnapshotsMatch'
    <3>1. ASSUME NEW k \in DOMAIN folders', Vouched(k)' PROVE NamesItsNetwork(folders'[k])
      <4>1. CASE k = Folder
        BY <2>2, <2>9, <2>10, <3>1, <4>1 DEF Vouched, NamesItsNetwork
      <4>2. CASE k # Folder
        BY <2>1, <3>1, <4>2 DEF SweepInv, SnapshotsMatch, Vouched
      <4> QED
        BY <4>1, <4>2
    <3> QED
      BY <3>1 DEF SnapshotsMatch
  <2> QED
    BY <2>3, <2>4, <2>6, <2>7, <2>8, <2>11 DEF SweepInv
<1>3. CASE ~SummaryAccepted /\ Fail /\ UNCHANGED folders
  BY <1>1, <1>3, FailPreserves DEF Fail
<1> QED
  BY <1>2, <1>3 DEF CheckAndSnapshot

\* A folder that is made has no summary and an empty snapshot; whatever an earlier pair
\* left in one that is used again stays.
LEMMA BeginPreserves ==
  ASSUME SweepInv, Begin
  PROVE  SweepInv'
<1> DEFINE new == [summary |-> NoSummary, snapshot |-> NoFile, of |-> 0, own |-> FALSE,
                   measured |-> FALSE]
<1>1. /\ pc = "pair" /\ status' = "ok"
      /\ UNCHANGED <<turn, harness, args, pair, reports, net, nets, before, undone, deployed>>
      /\ \/ Folder \in DOMAIN folders /\ UNCHANGED folders
         \/ Folder \notin DOMAIN folders /\ folders' = With(folders, Folder, new)
      /\ pc' \in {"start", "commit", "workload"} /\ (args.reuse <=> pc' # "start")
  <2>1. args.reuse \in BOOLEAN
    BY DEF SweepInv, SweepType, Flags
  <2> QED
    BY <2>1 DEF Begin
<1>2. new \in Records /\ DOMAIN new.snapshot = {}
  BY FileReads DEF Records, NoSummary
<1>3. /\ DOMAIN folders' = DOMAIN folders \cup {Folder}
      /\ \A k \in DOMAIN folders : folders'[k] = folders[k]
      /\ Folder \in DOMAIN folders \/ folders'[Folder] = new
  BY <1>1 DEF With
<1>4. Folder \in Harnesses \X Nat
  BY DEF SweepInv, SweepType, Folder
<1>5. SweepType'
  <2>1. DOMAIN folders' \subseteq Harnesses \X Nat /\ \A k \in DOMAIN folders' : folders'[k] \in Records
    BY <1>2, <1>3, <1>4 DEF SweepInv, SweepType
  <2> QED
    BY <1>1, <2>1 DEF SweepInv, SweepType, Steps, Statuses
<1>6. AtItsPair'
  BY <1>1, <1>3 DEF SweepInv, AtItsPair, Folder
<1>7. SummaryIsFresh' /\ NetworkAccounted'
  BY <1>1 DEF SweepInv, SummaryIsFresh, NetworkAccounted
<1>8. VerifiersAreHere' /\ FileIsOrdered'
  BY <1>1 DEF SweepInv, VerifiersAreHere, FileIsOrdered
<1>9. ReportsAreBacked'
  BY <1>1, <1>3 DEF SweepInv, ReportsAreBacked, EndToEnd, Backed
<1>10. SnapshotsMatch'
  BY <1>2, <1>3 DEF SweepInv, SnapshotsMatch, Vouched, NamesItsNetwork
<1> QED
  BY <1>5, <1>6, <1>7, <1>8, <1>9, <1>10 DEF SweepInv

\* The invariant holds throughout every sweep.
LEMMA SweepInvariant == Spec => []SweepInv
<1>1. SweepInv /\ [Next]_vars => SweepInv'
  <2> SUFFICES ASSUME SweepInv, [Next]_vars PROVE SweepInv'
    OBVIOUS
  <2>1. ASSUME NEW h \in Harnesses, NEW flags \in Flags, Invoke(h, flags) PROVE SweepInv'
    BY <2>1, InvokePreserves
  <2>2. CASE Build \/ Exit \/ Interrupt
    BY <2>2, MovePreserves
  <2>3. CASE Skip
    BY <2>3, SkipPreserves
  <2>4. CASE Begin
    BY <2>4, BeginPreserves
  <2>5. CASE StartNetwork
    BY <2>5, StartNetworkPreserves
  <2>6. CASE DeployVerifiers
    BY <2>6, DeployVerifiersPreserves
  <2>7. CASE DeployCommit
    BY <2>7, DeployCommitPreserves
  <2>8. CASE RunWorkload
    BY <2>8, RunWorkloadPreserves
  <2>9. CASE CheckAndSnapshot
    BY <2>9, CheckPreserves
  <2>10. CASE Finish
    BY <2>10, FinishPreserves
  <2>11. CASE UNCHANGED vars
    <3> USE <2>11 DEF vars
    <3>1. SweepType' /\ NetworkAccounted'
      BY DEF SweepInv, SweepType, NetworkAccounted
    <3>2. AtItsPair' /\ SummaryIsFresh'
      BY DEF SweepInv, AtItsPair, SummaryIsFresh, EndToEnd, Backed, Folder
    <3>3. VerifiersAreHere'
      BY DEF SweepInv, VerifiersAreHere, VerifiersHere, deploysVerifiers
    <3>4. FileIsOrdered' /\ SnapshotsMatch' /\ ReportsAreBacked'
      BY NothingMade
    <3> QED
      BY <3>1, <3>2, <3>3, <3>4 DEF SweepInv
  <2> QED
    BY <2>1, <2>2, <2>3, <2>4, <2>5, <2>6, <2>7, <2>8, <2>9, <2>10, <2>11 DEF Next, RunPair
<1> QED
  BY <1>1, SweepInit, PTL DEF Spec

------------------------------------------------------------------------------

\* What an end-to-end harness that measured anything reports as ok was measured by this
\* invocation, with all its legs valid; and no ok is over a summary with an invalid leg
\* (check_all_legs_valid, after the workload and before the report).
THEOREM OkIsBacked == Spec => []OkMeansValid
<1>1. SweepInv => OkMeansValid
  BY DEF SweepInv, ReportsAreBacked, EndToEnd, OkMeansValid
<1> QED
  BY <1>1, SweepInvariant, PTL

\* However an invocation ends, the network it started is down, kept on demand, or left by
\* a failed `docker compose down` (the finally clause of run_sweep).
THEOREM NetworkIsCleared == Spec => []NothingLeftRunning
<1>1. SweepInv => NothingLeftRunning
  BY DEF SweepInv, NetworkAccounted, NothingLeftRunning
<1> QED
  BY <1>1, SweepInvariant, PTL

\* A snapshot that is vouched for names contracts of the network it was taken on, however
\* many harnesses wrote to the file before (deploy_verifiers.py starts a new file).
THEOREM SnapshotsAreOwn == Spec => []VerifiersSnapshotMatches
<1>1. SweepInv => VerifiersSnapshotMatches
  <2> SUFFICES ASSUME SweepInv, NEW h \in Harnesses, NEW p \in 1 .. NumPairs,
                      <<h, p>> \in DOMAIN folders,
                      \/ h = "zkroam_e2e" /\ folders[<<h, p>>].measured
                      \/ h \in {"zkroam", "zkroam_e2e"} /\ folders[<<h, p>>].own
               PROVE  NamesItsNetwork(folders[<<h, p>>])
    BY DEF VerifiersSnapshotMatches
  <2>1. Vouched(<<h, p>>)
    BY DEF Vouched
  <2> QED
    BY <2>1 DEF SweepInv, SnapshotsMatch
<1> QED
  BY <1>1, SweepInvariant, PTL

\* Every variable keeps its type, and folders and file name known contracts only.
THEOREM SweepTypeCorrect == Spec => []SweepType
<1>1. SweepInv => SweepType
  BY DEF SweepInv
<1> QED
  BY <1>1, SweepInvariant, PTL

===============================================================================
