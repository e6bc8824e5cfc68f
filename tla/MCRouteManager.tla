--------------------------- MODULE MCRouteManager ---------------------------
(***************************************************************************)
(* Values for model checking RouteManager.                                 *)
(***************************************************************************)
EXTENDS RouteManager

(* The kernels a single family can meet: with everything, without nexthop  *)
(* objects, and without resilient groups.                                  *)
AnyKernel == [Families -> {"nothing", "objects", "groups"}]

(* A kernel booted without IPv6.                                           *)
NoIpv6 == {[f \in Families |-> IF f = "v6" THEN "objects" ELSE "nothing"]}
=============================================================================
