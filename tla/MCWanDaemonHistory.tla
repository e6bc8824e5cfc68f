-------------------------- MODULE MCWanDaemonHistory --------------------------
(* Instances of WanDaemon with its history variables.                      *)
EXTENDS WanDaemonHistory

EqualMetric  == [l \in Lines |-> 10]
NoPolicies   == [l \in Lines |-> {}]
ShortRetries == [v4 |-> 1, probe |-> 2, policies |-> 2]
=============================================================================
