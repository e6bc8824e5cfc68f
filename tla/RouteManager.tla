---------------------------- MODULE RouteManager ----------------------------
(***************************************************************************)
(* The default routes of RouteManager (src/src/netlink/route.rs): the      *)
(* three ECMP modes, the fallback of "auto", the teardown of a nexthop     *)
(* group, the treatment of "all lines down" and the cleanup at exit.       *)
(* One step is one netlink request with its answer: the kernel can be seen *)
(* between any two requests, and any request may fail.                     *)
(*                                                                         *)
(* Abstractions.                                                           *)
(*  - A next hop is an <<ifindex, gateway>> pair; weights are left out.    *)
(*  - The kernel is external and behaves as the comments of the code have  *)
(*    it: a route over next hops and a route over a nexthop group are      *)
(*    different routes, deleting what is absent succeeds (commit_msg), an  *)
(*    object in use cannot be deleted.                                     *)
(*  - Policy rules, probe paths and underlay routes, which cleanup_routes  *)
(*    and apply_default_routes also handle, are not in this module; nor is *)
(*    the bucket limit, beyond the number of lines a configuration allows. *)
(***************************************************************************)
EXTENDS Integers, FiniteSets

CONSTANTS
  Families,         \* address families in use
  Hops,             \* the next hops of the configured lines
  Modes,            \* values of ecmp_mode considered
  Kernels,          \* kernels considered: what each family lacks
  FailuresPerCall,  \* bound: requests of one call that fail for no visible reason
  Losses,           \* bound: how they fail: "rejected", "unacked"
  MaxIds            \* bound: nexthop ids handed out

Members == Families \X Hops
Ids     == 1..MaxIds
Nobody  == <<>>          \* no nexthop object has this id

ASSUME RouteAssumption ==
  /\ Families # {} /\ IsFiniteSet(Families) /\ IsFiniteSet(Hops)
  /\ Nobody \notin Members
  /\ Modes \subseteq {"standard", "auto", "resilient"}
  /\ Kernels \subseteq [Families -> {"nothing", "objects", "groups"}]
  /\ FailuresPerCall \in Nat /\ MaxIds \in Nat
  /\ Losses \subseteq {"rejected", "unacked"}

VARIABLES
  mode,       \* ecmp_mode
  lacks,      \* what the kernel does not support in each family
  kernel,     \* std: next hops of the plain route; nh: there is a route over
              \* the group; group: its member ids; objects: what each id is
  others,     \* families with another program's default route
  installed,  \* installed_v4, installed_v6
  nhIds,      \* nh_ids: the id of each member, 0 if it has none
  nextId,     \* next_nh_id
  supported,  \* resilient_supported: "unknown", "yes", "no"
  pc,         \* the next request of the call under way
  fam,        \* the family it is about
  wanted,     \* the next hops of the latest update of each family
  todo,       \* next hops still to be handled by the present loop
  after,      \* what follows the teardown under way
  inner,      \* the call is inside apply_resilient
  cleaning,   \* "no", or the stage of cleanup_routes
  left,       \* families that stage has still to handle
  failures,   \* requests of this call that failed for no visible reason
  saw,        \* history: the last dump showed another default route
  lost        \* history: families with a request done but not acknowledged

configVars  == <<mode, lacks>>
managerVars == <<installed, nhIds, nextId, supported>>
callVars    == <<fam, wanted, inner, cleaning, left, saw>>
vars == <<configVars, kernel, others, managerVars, pc, callVars, todo, after, failures, lost>>

EmptyKernel ==
  [std |-> [f \in Families |-> {}], nh |-> [f \in Families |-> FALSE],
   group |-> [f \in Families |-> {}], objects |-> [i \in Ids |-> Nobody]]

Init ==
  /\ mode \in Modes /\ lacks \in Kernels
  /\ kernel = EmptyKernel
  /\ others \in SUBSET Families
  /\ installed = [f \in Families |-> "none"]
  /\ nhIds = [m \in Members |-> 0]
  /\ nextId = 1 /\ supported = "unknown"
  /\ pc = "idle"
  /\ fam \in Families
  /\ wanted = [f \in Families |-> {}]
  /\ todo = {} /\ after = "ok" /\ inner = FALSE
  /\ cleaning = "no" /\ left = {}
  /\ failures = 0 /\ saw = FALSE /\ lost = {}

hops == wanted[fam]
IdOf(h) == nhIds[<<fam, h>>]
Known(f) == {h \in Hops : nhIds[<<f, h>>] # 0}   \* member_keys_for_family

-----------------------------------------------------------------------------
(* Requests.  An answer is the kernel afterwards and how it went.          *)

Answer(k, how) == [kernel |-> k, how |-> how]

Done(k) ==
  {Answer(k, "done")} \cup
  (IF failures < FailuresPerCall
   THEN {Answer(IF l = "unacked" THEN k ELSE kernel, l) : l \in Losses} ELSE {})

Refused(why) == {Answer(kernel, why)}

SetStd(hs)   == Done([kernel EXCEPT !.std[fam] = hs])
SetNh(there) == Done([kernel EXCEPT !.nh[fam] = there])

SetGroup(ids) ==
  IF lacks[fam] # "nothing" THEN Refused("unsupported")
  ELSE Done([kernel EXCEPT !.group[fam] = ids])

(* A kernel without nexthop objects may also refuse to look for one.       *)
Unsure == IF lacks[fam] = "objects" THEN Refused("unsupported") ELSE {}

DropGroup ==
  IF kernel.nh[fam] THEN Refused("busy")
  ELSE Unsure \cup Done([kernel EXCEPT !.group[fam] = {}])

SetObject(i, h) ==
  IF lacks[fam] = "objects" THEN Refused("unsupported")
  ELSE Done([kernel EXCEPT !.objects[i] = <<fam, h>>])

DropObject(i) ==
  IF i \in kernel.group[fam] THEN Refused("busy")
  ELSE Unsure \cup Done([kernel EXCEPT !.objects[i] = Nobody])

(* A request that any of answers may answer, and its bookkeeping.          *)
Get(a) ==
  /\ kernel' = a.kernel
  /\ failures' = IF a.how \in Losses THEN failures + 1 ELSE failures
  /\ lost' = IF a.how = "unacked" THEN lost \cup {fam} ELSE lost

Ok(a) == a.how = "done"

Install(v) == installed' = [installed EXCEPT ![fam] = v]

-----------------------------------------------------------------------------
(* How a part of a call ends.                                              *)

(* Success of apply_resilient, of apply_standard or of one removal of      *)
(* cleanup_routes.                                                         *)
Succeed ==
  /\ pc' = IF cleaning # "no" THEN "cleanup" ELSE "ok"
  /\ supported' = IF inner /\ mode = "auto" THEN "yes" ELSE supported
  /\ UNCHANGED after

(* Failure.  The error path of apply_resilient tears everything down; then *)
(* "resilient" reports the error and "auto" falls back, for good if the    *)
(* kernel does not support groups.                                         *)
Fail(why) ==
  /\ pc' = IF cleaning # "no" THEN "cleanup" ELSE IF inner THEN "teardown" ELSE "error"
  /\ supported' = IF inner /\ mode = "auto" /\ why = "unsupported" THEN "no" ELSE supported
  /\ after' = IF inner /\ mode = "auto" THEN "standard" ELSE "error"

Continue(where) == pc' = where /\ UNCHANGED <<supported, after>>

-----------------------------------------------------------------------------
(* apply_default_routes, apply_ipv6_default_routes.                        *)

(* Bound: ids for every next hop that may need one.                        *)
IdsLeft(f, hs) == nextId + Cardinality(hs \ Known(f)) <= MaxIds + 1

Apply(f, hs) ==
  LET resilient == mode = "resilient" \/ (mode = "auto" /\ supported # "no")
      residue   == installed[f] = "resilient" \/ Known(f) # {}
  IN /\ pc = "idle"
     /\ IdsLeft(f, hs)
     /\ fam' = f
     /\ wanted' = [wanted EXCEPT ![f] = hs]
     /\ inner' = resilient
     /\ todo' = hs
     /\ pc' = IF resilient THEN "resilient"
              ELSE IF mode = "standard" /\ residue THEN "teardown" ELSE "standard"
     /\ after' = "standard"
     /\ failures' = 0 /\ saw' = FALSE
     /\ UNCHANGED <<configVars, kernel, others, managerVars, cleaning, left, lost>>

ApplyStandard ==
  /\ pc = "standard" /\ hops # {}
  /\ inner' = FALSE
  /\ \E a \in SetStd(hops) :
       /\ Get(a)
       /\ IF Ok(a) THEN Install("standard") ELSE UNCHANGED installed
       /\ pc' = IF Ok(a) THEN "ok" ELSE "error"
  /\ UNCHANGED <<configVars, others, nhIds, nextId, supported, fam, wanted, cleaning, left, saw,
                 todo, after>>

(* dump_other_default_routes: whether there is another default route in    *)
(* the main table.  A dump that fails counts as none.                      *)
DumpFinds == {fam \in others} \cup (IF failures < FailuresPerCall THEN {FALSE} ELSE {})

(* handle_all_links_down: the route goes if there is another one to take   *)
(* over.                                                                   *)
LinksDown ==
  /\ pc \in {"standard", "resilient"} /\ hops = {}
  /\ inner' = (pc = "resilient")
  /\ \E found \in DumpFinds :
       /\ saw' = found
       /\ failures' = IF found = (fam \in others) THEN failures ELSE failures + 1
       /\ IF found THEN pc' = "remove" /\ UNCHANGED supported
          ELSE /\ pc' = "ok"
               /\ supported' = IF pc = "resilient" /\ mode = "auto" THEN "yes" ELSE supported
  /\ UNCHANGED <<configVars, kernel, others, installed, nhIds, nextId, fam, wanted, cleaning, left,
                 todo, after, lost>>

(* delete_nh_route of remove_installed_default_route, which then tears     *)
(* down what the route used.                                               *)
RemoveNhRoute ==
  /\ pc = "remove" /\ installed[fam] = "resilient"
  /\ \E a \in SetNh(FALSE) :
       /\ Get(a)
       /\ IF Ok(a)
          THEN /\ Install("none") /\ pc' = "teardown"
               /\ after' = IF cleaning = "no" THEN "ok" ELSE "cleanup"
               /\ supported' = IF inner /\ mode = "auto" THEN "yes" ELSE supported
          ELSE UNCHANGED installed /\ Fail(a.how)
  /\ UNCHANGED <<configVars, others, nhIds, nextId, callVars, todo>>

(* delete_standard_route, also when nothing is recorded as installed: it   *)
(* may be left from an earlier process.                                    *)
RemoveStandard ==
  /\ pc = "remove" /\ installed[fam] # "resilient"
  /\ \E a \in SetStd({}) :
       /\ Get(a)
       /\ IF Ok(a) THEN Install("none") /\ Succeed ELSE UNCHANGED installed /\ Fail(a.how)
  /\ UNCHANGED <<configVars, others, nhIds, nextId, callVars, todo>>

-----------------------------------------------------------------------------
(* apply_resilient.                                                        *)

(* Mutated: the plain route is taken off the record only.                  *)
LeaveStandardUnsent ==
  /\ pc = "resilient" /\ hops # {} /\ installed[fam] = "standard"
  /\ Install("none")
  /\ UNCHANGED <<configVars, kernel, others, nhIds, nextId, supported, pc, callVars, todo, after,
                 failures, lost>>

(* Switching from the plain route: it goes first.                          *)
LeaveStandard ==
  /\ pc = "resilient" /\ hops # {} /\ installed[fam] = "standard"
  /\ \E a \in SetStd({}) :
       /\ Get(a)
       /\ IF Ok(a) THEN Install("none") /\ Continue("resilient")
          ELSE UNCHANGED installed /\ Fail(a.how)
  /\ UNCHANGED <<configVars, others, nhIds, nextId, callVars, todo>>

(* Mutated: a new id on every update.                                      *)
AllocIdAnew(h) == nextId

(* alloc_nh_id: a member keeps the id it has.                              *)
AllocId(h) == IF IdOf(h) # 0 THEN IdOf(h) ELSE nextId

(* ensure_nexthop.                                                         *)
EnsureMember(h) ==
  LET id == AllocId(h)
  IN /\ pc = "resilient" /\ h \in todo /\ installed[fam] # "standard"
     /\ nhIds' = [nhIds EXCEPT ![<<fam, h>>] = id]
     /\ nextId' = IF id = nextId THEN nextId + 1 ELSE nextId
     /\ \E a \in SetObject(id, h) :
          /\ Get(a)
          /\ IF Ok(a) THEN todo' = todo \ {h} /\ Continue("resilient")
             ELSE UNCHANGED todo /\ Fail(a.how)
     /\ UNCHANGED <<configVars, others, installed, callVars>>

(* Mutated: members of earlier updates stay in the group.                  *)
EnsureGroupGrowing ==
  /\ pc = "resilient" /\ hops # {} /\ todo = {} /\ installed[fam] # "standard"
  /\ \E a \in SetGroup({IdOf(h) : h \in Known(fam)}) :
       Get(a) /\ IF Ok(a) THEN Continue("route") ELSE Fail(a.how)
  /\ UNCHANGED <<configVars, others, installed, nhIds, nextId, callVars, todo>>

(* ensure_nexthop_group.                                                   *)
EnsureGroup ==
  /\ pc = "resilient" /\ hops # {} /\ todo = {} /\ installed[fam] # "standard"
  /\ \E a \in SetGroup({IdOf(h) : h \in hops}) :
       Get(a) /\ IF Ok(a) THEN Continue("route") ELSE Fail(a.how)
  /\ UNCHANGED <<configVars, others, installed, nhIds, nextId, callVars, todo>>

(* Mutated: a route in the way is deleted and added, not replaced.         *)
InstallNhRouteAnew ==
  /\ pc = "route"
  /\ \E a \in SetNh(~kernel.nh[fam]) :
       /\ Get(a)
       /\ IF ~Ok(a) THEN UNCHANGED <<installed, todo>> /\ Fail(a.how)
          ELSE IF kernel.nh[fam] THEN UNCHANGED <<installed, todo>> /\ Continue("route")
          ELSE /\ Install("resilient")
               /\ todo' = Known(fam) \ hops
               /\ IF todo' = {} THEN Succeed ELSE Continue("prune")
  /\ UNCHANGED <<configVars, others, nhIds, nextId, callVars>>

InstallNhRoute ==
  /\ pc = "route"
  /\ \E a \in SetNh(TRUE) :
       /\ Get(a)
       /\ IF Ok(a)
          THEN /\ Install("resilient")
               /\ todo' = Known(fam) \ hops
               /\ IF todo' = {} THEN Succeed ELSE Continue("prune")
          ELSE UNCHANGED <<installed, todo>> /\ Fail(a.how)
  /\ UNCHANGED <<configVars, others, nhIds, nextId, callVars>>

(* Mutated: the id is forgotten even if the deletion fails.                *)
DropMemberForgets(h, a) ==
  /\ Get(a)
  /\ nhIds' = [nhIds EXCEPT ![<<fam, h>>] = 0]
  /\ todo' = todo \ {h}

(* A member whose deletion fails keeps its id, to be deleted another time. *)
DropMember(h, a) ==
  /\ Get(a)
  /\ nhIds' = IF Ok(a) THEN [nhIds EXCEPT ![<<fam, h>>] = 0] ELSE nhIds
  /\ todo' = todo \ {h}

(* drop_unused_members.                                                    *)
DropUnused(h) ==
  /\ pc = "prune" /\ h \in todo
  /\ \E a \in DropObject(IdOf(h)) : DropMember(h, a)
  /\ IF todo' = {} THEN Succeed ELSE Continue("prune")
  /\ UNCHANGED <<configVars, others, installed, nextId, callVars>>

-----------------------------------------------------------------------------
(* teardown_resilient.                                                     *)

(* The route first; if it cannot be deleted the rest stays.                *)
TeardownRoute ==
  /\ pc = "teardown" /\ installed[fam] = "resilient"
  /\ \E a \in SetNh(FALSE) :
       /\ Get(a)
       /\ IF Ok(a) THEN Install("none") /\ pc' = "teardown" ELSE UNCHANGED installed /\ pc' = after
  /\ UNCHANGED <<configVars, others, nhIds, nextId, supported, callVars, todo, after>>

TeardownGroup ==
  /\ pc = "teardown" /\ installed[fam] # "resilient"
  /\ \E a \in DropGroup : Get(a)
  /\ todo' = Known(fam)
  /\ pc' = IF todo' = {} THEN after ELSE "members"
  /\ UNCHANGED <<configVars, others, managerVars, callVars, after>>

TeardownMember(h) ==
  /\ pc = "members" /\ h \in todo
  /\ \E a \in DropObject(IdOf(h)) : DropMember(h, a)
  /\ pc' = IF todo' = {} THEN after ELSE "members"
  /\ UNCHANGED <<configVars, others, installed, nextId, supported, callVars, after>>

-----------------------------------------------------------------------------
(* The worker reports the result of an update.                             *)
Report ==
  /\ pc \in {"ok", "error"}
  /\ pc' = "idle"
  /\ UNCHANGED <<configVars, kernel, others, managerVars, callVars, todo, after, failures, lost>>

(* cleanup_routes: the recorded route of every family, then every group.   *)
Cleanup ==
  /\ pc = "idle"
  /\ pc' = "cleanup" /\ cleaning' = "routes" /\ left' = Families
  /\ wanted' = [f \in Families |-> {}]
  /\ inner' = FALSE /\ failures' = 0 /\ saw' = FALSE
  /\ UNCHANGED <<configVars, kernel, others, managerVars, fam, todo, after, lost>>

CleanupRoute(f) ==
  /\ pc = "cleanup" /\ cleaning = "routes" /\ f \in left
  /\ fam' = f /\ left' = left \ {f}
  /\ pc' = IF installed[f] = "none" THEN "cleanup" ELSE "remove"
  /\ UNCHANGED <<configVars, kernel, others, managerVars, wanted, inner, cleaning, saw, todo,
                 after, failures, lost>>

CleanupGroups ==
  /\ pc = "cleanup" /\ cleaning = "routes" /\ left = {}
  /\ cleaning' = "groups" /\ left' = Families
  /\ UNCHANGED <<configVars, kernel, others, managerVars, pc, fam, wanted, inner, saw, todo,
                 after, failures, lost>>

CleanupGroup(f) ==
  /\ pc = "cleanup" /\ cleaning = "groups" /\ f \in left
  /\ fam' = f /\ left' = left \ {f}
  /\ pc' = "teardown" /\ after' = "cleanup"
  /\ UNCHANGED <<configVars, kernel, others, managerVars, wanted, inner, cleaning, saw, todo,
                 failures, lost>>

CleanupEnds ==
  /\ pc = "cleanup" /\ cleaning = "groups" /\ left = {}
  /\ pc' = "stopped"
  /\ UNCHANGED <<configVars, kernel, others, managerVars, callVars, todo, after, failures, lost>>

(* Another program installs or removes a default route of its own.         *)
OthersChange(f) ==
  /\ others' = (IF f \in others THEN others \ {f} ELSE others \cup {f})
  /\ UNCHANGED <<configVars, kernel, managerVars, pc, callVars, todo, after, failures, lost>>

Updating ==
  \/ \E f \in Families, hs \in SUBSET Hops : Apply(f, hs)
  \/ ApplyStandard \/ LinksDown \/ RemoveNhRoute \/ RemoveStandard
  \/ LeaveStandard \/ EnsureGroup \/ InstallNhRoute
  \/ \E h \in Hops : EnsureMember(h) \/ DropUnused(h) \/ TeardownMember(h)
  \/ TeardownRoute \/ TeardownGroup \/ Report

CleaningUp ==
  \/ Cleanup \/ CleanupGroups \/ CleanupEnds
  \/ \E f \in Families : CleanupRoute(f) \/ CleanupGroup(f)

Next == Updating \/ CleaningUp \/ \E f \in Families : OthersChange(f)

Spec == Init /\ [][Next]_vars

-----------------------------------------------------------------------------
(* Properties.                                                             *)

TypeOK ==
  /\ mode \in Modes /\ lacks \in Kernels
  /\ kernel \in [std : [Families -> SUBSET Hops], nh : [Families -> BOOLEAN],
                 group : [Families -> SUBSET Ids], objects : [Ids -> Members \cup {Nobody}]]
  /\ others \subseteq Families
  /\ installed \in [Families -> {"none", "standard", "resilient"}]
  /\ nhIds \in [Members -> 0..MaxIds]
  /\ nextId \in 1..(MaxIds + 1)
  /\ supported \in {"unknown", "yes", "no"}
  /\ pc \in {"idle", "standard", "resilient", "route", "prune", "remove", "teardown", "members",
             "ok", "error", "cleanup", "stopped"}
  /\ fam \in Families
  /\ wanted \in [Families -> SUBSET Hops]
  /\ todo \subseteq Hops
  /\ after \in {"ok", "error", "standard", "cleanup"}
  /\ inner \in BOOLEAN /\ saw \in BOOLEAN
  /\ cleaning \in {"no", "routes", "groups"}
  /\ left \subseteq Families /\ lost \subseteq Families
  /\ failures \in 0..FailuresPerCall

(* The next hops traffic of f can take through the routes of this program. *)
Leads(f) ==
  kernel.std[f] \cup
  {h \in Hops : kernel.nh[f] /\ \E i \in kernel.group[f] : kernel.objects[i] = <<f, h>>}

HasRoute(f) == kernel.std[f] # {} \/ kernel.nh[f]

(* "otherwise the kernel keeps two default routes": apply_resilient on     *)
(* switching variants.  Unless an acknowledgement was lost, a family never *)
(* has a plain route and a route over a group at the same time.            *)
OneRoute == \A f \in Families : f \in lost \/ kernel.std[f] = {} \/ ~kernel.nh[f]

(* Every nexthop object in the kernel can still be deleted, whatever       *)
(* requests failed on the way: its id is on record for the member it is.   *)
(* And no two members, of one family or of two, ever have the same id.     *)
MembersKnown ==
  /\ \A i \in Ids : kernel.objects[i] # Nobody => nhIds[kernel.objects[i]] = i
  /\ \A m, n \in Members : nhIds[m] # 0 /\ nhIds[m] = nhIds[n] => m = n

(* An update of f takes the route away to install another one: the plain   *)
(* route makes way for one over a group, or a request has failed and       *)
(* apply_resilient tears the group down.  "auto" installs the plain route  *)
(* next; "resilient" reports the error and leaves f without a route until  *)
(* a later update succeeds.                                                *)
MakesWay(f) ==
  f = fam /\ hops # {} /\ inner /\ (installed[f] = "standard" \/ failures > 0)

(* The last default route of this program goes only at exit, when a        *)
(* default route of another program was seen, when "auto" moves from the   *)
(* plain route to a group, or when a request of an update in "auto" or     *)
(* "resilient" mode has failed.  So an update whose requests succeed moves *)
(* a route to other next hops without a moment in which there is none, and *)
(* with all lines down a route that nothing would replace stays.           *)
LastRouteKept ==
  [][ \A f \in Families :
        HasRoute(f) /\ ~HasRoute(f)' => cleaning # "no" \/ saw \/ MakesWay(f) ]_vars

(* What the caller knows of the latest call for f.                         *)
AnswerTo(f) ==
  IF pc \in {"idle", "stopped"} \/ (fam # f /\ cleaning = "no") THEN "none"
  ELSE IF pc \in {"ok", "error"} THEN pc ELSE "pending"

Default(f) ==
  INSTANCE DefaultRoute WITH
    want <- wanted[f], answer <- AnswerTo(f), leads <- Leads(f), certain <- f \notin lost

(* The default route of every family implements DefaultRoute: Spec of each *)
(* instance, written as one formula.                                       *)
RoutesImplemented ==
  /\ \A f \in Families : Default(f)!Init
  /\ [][ \A f \in Families : [Default(f)!Next]_(Default(f)!vars) ]_vars
=============================================================================
