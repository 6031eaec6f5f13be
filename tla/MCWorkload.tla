------------------------------ MODULE MCWorkload ------------------------------
\* A plain workload whose batches leave a rest, and a zkRoam workload of two groups on
\* the anchor as the deployment and perhaps an ablation left it.  The ablation lacks an
\* account at once, the one that a late call of the workload may authorise before it.
EXTENDS SessionWorkload

MCTValues == <<4, 5>>
MCSweep == [plain |-> <<3>>, zkroam |-> <<2, 1>>]
MCGroups == [plain |-> 1, zkroam |-> 2]
==============================================================================
