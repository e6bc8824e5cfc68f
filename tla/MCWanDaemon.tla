----------------------------- MODULE MCWanDaemon -----------------------------
(* Instances of WanDaemon.                                                 *)
EXTENDS WanDaemon

EqualMetric  == [l \in Lines |-> 10]
NoPolicies   == [l \in Lines |-> {}]
OnePrefix    == [l \in Lines |-> {"a"}]
TwoPrefixes  == [l \in Lines |-> {"a", "b"}]
ShortRetries == [v4 |-> 1, probe |-> 2, policies |-> 2]
=============================================================================
