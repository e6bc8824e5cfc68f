---------------------------- MODULE MCHostRoutes ----------------------------
(***************************************************************************)
(* Values for model checking HostRoutes.                                   *)
(***************************************************************************)
EXTENDS HostRoutes

CONSTANTS a, b  \* two lines

EqualMetric == [l \in Lines |-> 10]

(* The lines probe the same targets.                                       *)
SharedTargets == [l \in Lines |-> Targets]

(* Line b is a tunnel.                                                     *)
TunnelB == [l \in Lines |-> IF l = b THEN Peers ELSE {}]
NoTunnel == [l \in Lines |-> {}]

(* The lines change places in the configuration from run to run.           *)
Swapping ==
  [n \in 1..MaxRuns |-> [l \in Lines |-> IF (l = a) = (n % 2 = 1) THEN 1 ELSE 2]]
=============================================================================
