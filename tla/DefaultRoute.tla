---------------------------- MODULE DefaultRoute ----------------------------
(***************************************************************************)
(* What RouteManager promises of the default route of one address family   *)
(* (apply_default_routes, apply_ipv6_default_routes, cleanup_routes),      *)
(* whichever variant it installs: traffic moves from the old next hops to  *)
(* the new ones at once or through a moment without a route, never to a    *)
(* mixture, and an update that is answered "ok" has taken effect.          *)
(* An acknowledgement that gets lost ends the first promise: the manager   *)
(* then believes that something failed which did happen.  The second one   *)
(* weakens to: every next hop wanted carries traffic.                      *)
(***************************************************************************)
CONSTANT Hops

VARIABLES
  want,     \* the next hops of the latest update; {} when all lines are down
  answer,   \* "none" unless a call is under way or over, then "pending", "ok", "error"
  leads,    \* the next hops the kernel's default route leads to
  certain   \* no acknowledgement has been lost

vars == <<want, answer, leads, certain>>

Init == want = {} /\ answer = "none" /\ leads = {} /\ certain = TRUE

Ask(h) ==
  /\ answer = "none"
  /\ want' = h /\ answer' = "pending"
  /\ UNCHANGED <<leads, certain>>

(* A step of the call.  Without a doubt about an acknowledgement the route *)
(* stays, changes to the new next hops, or goes.                           *)
Step ==
  /\ answer = "pending"
  /\ certain' => certain /\ leads' \in {leads, want, {}}
  /\ leads' \subseteq Hops
  /\ UNCHANGED want

Switch == Step /\ answer' = "pending"

(* Every new next hop carries traffic, and no other one does.  With every  *)
(* line down the route may be kept as it is.                               *)
Confirm ==
  /\ Step /\ answer' = "ok"
  /\ want # {} => want \subseteq leads' /\ (certain' => leads' = want)

Reject == Step /\ answer' = "error"

Deliver ==
  /\ answer \in {"ok", "error"}
  /\ answer' = "none"
  /\ UNCHANGED <<want, leads, certain>>

(* The cleanup at exit answers nobody.                                     *)
Stop ==
  /\ answer = "pending" /\ want = {}
  /\ answer' = "none"
  /\ UNCHANGED <<want, leads, certain>>

Next == (\E h \in SUBSET Hops : Ask(h)) \/ Switch \/ Confirm \/ Reject \/ Deliver \/ Stop

Spec == Init /\ [][Next]_vars
=============================================================================
