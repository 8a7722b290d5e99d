----------------------------- MODULE MCCluster ------------------------------
(* Instances of Cluster for TLC: deployments that ask for resets.           *)
EXTENDS Cluster, TLC

\* The second deployment resets normally, the third including side effects.
NormalThenDangerous == [n \in Nodes |-> IF n = 1 THEN 0 ELSE 1]
OnlyTheLast == [n \in Nodes |-> IF n = NodeCount THEN 1 ELSE 0]
NoResets == [n \in Nodes |-> 0]
=============================================================================
