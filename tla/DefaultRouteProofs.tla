------------------------- MODULE DefaultRouteProofs -------------------------
(***************************************************************************)
(* Proofs about the default routes of RouteManager: its types, when the    *)
(* last route may go, that a family never has two routes, and that the     *)
(* default route of every family implements DefaultRoute.                  *)
(***************************************************************************)
EXTENDS RouteManagerProofs, FiniteSetTheorems

KernelTypes ==
  [std : [Families -> SUBSET Hops], nh : [Families -> BOOLEAN],
   group : [Families -> SUBSET Ids], objects : [Ids -> Members \cup {Nobody}]]

(* The state a request is made in.                                         *)
RequestTypes ==
  /\ kernel \in KernelTypes /\ fam \in Families
  /\ failures \in 0..FailuresPerCall /\ lost \subseteq Families

ManagerTypes ==
  /\ mode \in Modes /\ lacks \in Kernels /\ others \subseteq Families
  /\ installed \in [Families -> {"none", "standard", "resilient"}]
  /\ nhIds \in [Members -> 0..MaxIds] /\ nextId \in 1..(MaxIds + 1)
  /\ supported \in {"unknown", "yes", "no"}

CallTypes ==
  /\ pc \in {"idle", "standard", "resilient", "route", "prune", "remove", "teardown", "members",
             "ok", "error", "cleanup", "stopped"}
  /\ wanted \in [Families -> SUBSET Hops]
  /\ todo \subseteq Hops
  /\ after \in {"ok", "error", "standard", "cleanup"}
  /\ inner \in BOOLEAN /\ saw \in BOOLEAN
  /\ cleaning \in {"no", "routes", "groups"} /\ left \subseteq Families

(* There is an id for every next hop that still needs one.                 *)
IdsEnough ==
  pc = "resilient" => nextId + Cardinality({h \in todo : IdOf(h) = 0}) <= MaxIds + 1

(* Where in a call its variables have which values.                        *)
CallShape ==
  /\ pc \in {"resilient", "route", "prune"} => inner /\ cleaning = "no"
  /\ pc = "standard" => cleaning = "no"
  /\ inner => mode # "standard" /\ cleaning = "no"
  /\ pc = "resilient" => todo \subseteq hops
  /\ pc = "route" => installed[fam] # "standard"
  /\ pc \in {"route", "prune"} => hops # {}
  /\ pc \in {"prune", "members"} => todo \subseteq Known(fam)
  /\ pc = "remove" => (saw \/ cleaning # "no") /\ hops = {}
  /\ (pc \in {"teardown", "members"} /\ cleaning = "no") =>
       after \in {"ok", "error", "standard"} /\ (after = "ok" => hops = {})
  /\ (pc = "teardown" /\ installed[fam] = "resilient") =>
       cleaning # "no" \/ saw \/ (hops # {} /\ inner /\ failures > 0)
  /\ mode = "standard" => \A f \in Families : installed[f] # "resilient"

(* The cleanup runs for itself and wants no route.                         *)
CleanupShape ==
  /\ cleaning = "no" => pc \notin {"cleanup", "stopped"}
  /\ cleaning # "no" => /\ pc \in {"cleanup", "remove", "teardown", "members", "stopped"}
                        /\ pc \in {"teardown", "members"} => after = "cleanup"
                        /\ \A f \in Families : wanted[f] = {}

(* A route over a group exists only where the kernel has groups.           *)
GroupsSupported ==
  /\ \A f \in Families : installed[f] = "resilient" => lacks[f] = "nothing"
  /\ pc = "route" => lacks[fam] = "nothing"

(* The members of a group are objects of its family.                       *)
GroupFilled ==
  \A f \in Families : \A i \in kernel.group[f] : \E h \in Hops : kernel.objects[i] = <<f, h>>

HasObject(h) == IdOf(h) # 0 /\ kernel.objects[IdOf(h)] = <<fam, h>>

(* The group about to be used, or in use, is that of the next hops wanted. *)
GroupReady ==
  /\ pc = "resilient" => \A h \in hops \ todo : HasObject(h)
  /\ pc \in {"route", "prune"} =>
       kernel.group[fam] = {IdOf(h) : h \in hops} /\ \A h \in hops : HasObject(h)
  /\ pc = "prune" => kernel.nh[fam] /\ installed[fam] = "resilient" /\ todo \cap hops = {}

(* Without the fallback of "auto", or with one that never meets a route it *)
(* cannot remove: a call meets at most one failure of no visible reason,   *)
(* and groups are supported for every family or for none.                  *)
SoundFallback ==
  \/ "auto" \notin Modes
  \/ /\ FailuresPerCall <= 1
     /\ \A k \in Kernels : \A f, g \in Families : k[f] = "nothing" => k[g] = "nothing"

(* The plain route is never installed beside a recorded route over a group.*)
NoFallbackTrap ==
  /\ pc \in {"standard", "members"} => installed[fam] # "resilient"
  /\ (mode = "auto" /\ supported = "no") => \A f \in Families : lacks[f] # "nothing"
  /\ (pc = "teardown" /\ after = "standard" /\ installed[fam] = "resilient") =>
       failures >= FailuresPerCall

(* What is recorded as installed is what the kernel has.                   *)
Faithful(f) ==
  /\ kernel.std[f] # {} <=> installed[f] = "standard"
  /\ kernel.nh[f] <=> installed[f] = "resilient"

Installed == \A f \in Families : f \notin lost => Faithful(f)

Types == RequestTypes /\ ManagerTypes /\ CallTypes /\ IdsEnough

Shape == CallShape /\ CleanupShape /\ GroupsSupported

Groups == GroupFilled /\ GroupReady

Record == SoundFallback => NoFallbackTrap /\ Installed

RouteInv == Types /\ Shape /\ Groups /\ Record

LEMMA TypesSplit == TypeOK <=> RequestTypes /\ ManagerTypes /\ CallTypes
BY DEF TypeOK, RequestTypes, KernelTypes, ManagerTypes, CallTypes

(* k differs from kernel at most where k was changed for the family fam.   *)
SameElsewhere(k) ==
  \A f \in Families \ {fam} :
    k.std[f] = kernel.std[f] /\ k.nh[f] = kernel.nh[f] /\ k.group[f] = kernel.group[f]

-----------------------------------------------------------------------------
(* What a request may do to the kernel, one lemma per kind of request.     *)

(* A change of the plain route touches that route of that family.          *)
LEMMA StdChanged ==
  ASSUME kernel \in KernelTypes, fam \in Families, NEW hs \in SUBSET Hops,
         NEW k, k = [kernel EXCEPT !.std[fam] = hs]
  PROVE  /\ k \in KernelTypes /\ SameElsewhere(k)
         /\ k.std[fam] = hs /\ k.nh = kernel.nh
         /\ k.group = kernel.group /\ k.objects = kernel.objects
BY DEF KernelTypes, SameElsewhere

(* A change of the route over the group touches that route.                *)
LEMMA NhChanged ==
  ASSUME kernel \in KernelTypes, fam \in Families, NEW there \in BOOLEAN,
         NEW k, k = [kernel EXCEPT !.nh[fam] = there]
  PROVE  /\ k \in KernelTypes /\ SameElsewhere(k)
         /\ k.nh[fam] = there /\ k.std = kernel.std
         /\ k.group = kernel.group /\ k.objects = kernel.objects
BY DEF KernelTypes, SameElsewhere

(* A change of the group touches that group.                               *)
LEMMA GroupChanged ==
  ASSUME kernel \in KernelTypes, fam \in Families, NEW ids \in SUBSET Ids,
         NEW k, k = [kernel EXCEPT !.group[fam] = ids]
  PROVE  /\ k \in KernelTypes /\ SameElsewhere(k)
         /\ k.group[fam] = ids /\ k.std = kernel.std
         /\ k.nh = kernel.nh /\ k.objects = kernel.objects
BY DEF KernelTypes, SameElsewhere

-----------------------------------------------------------------------------
(* Every answered request: what is certain of the step whatever was asked. *)
Requested(a) ==
  /\ kernel' \in KernelTypes /\ SameElsewhere(kernel')
  /\ failures' \in 0..FailuresPerCall
  /\ lost' \in {lost, lost \cup {fam}}
  /\ IF Ok(a) THEN UNCHANGED <<failures, lost>>
     ELSE /\ fam \in lost' \/ kernel' = kernel
          /\ failures' = failures + 1 \/ a.how \in {"busy", "unsupported"}

(* A request that failed though the kernel supports it counts as one that  *)
(* failed for no visible reason.                                           *)
LEMMA FailedCounts ==
  ASSUME RequestTypes, NEW a, Requested(a), ~Ok(a), a.how # "busy", a.how # "unsupported"
  PROVE  failures' > 0
<1>1. failures' = failures + 1
  BY DEF Requested
<1>2. failures \in 0..FailuresPerCall /\ FailuresPerCall \in Nat
  BY RouteAssumption DEF RequestTypes
<1>3. QED
  BY <1>1, <1>2

(* A request the kernel may carry out: it was, or it was not, or it was    *)
(* and nobody knows.                                                       *)
LEMMA DoneRequest ==
  ASSUME RequestTypes, NEW k \in KernelTypes, SameElsewhere(k), NEW a \in Done(k), Get(a)
  PROVE  /\ Requested(a)
         /\ Ok(a) => kernel' = k
         /\ kernel' \in {kernel, k}
         /\ a.how \in {"done", "rejected", "unacked"}
<1>1. Losses \subseteq {"rejected", "unacked"} /\ FailuresPerCall \in Nat
  BY RouteAssumption
<1>2. SameElsewhere(kernel)
  BY DEF SameElsewhere
<1>3. \/ a.how = "done" /\ a.kernel = k
      \/ a.how = "rejected" /\ a.kernel = kernel /\ a.how \in Losses /\ failures < FailuresPerCall
      \/ a.how = "unacked" /\ a.kernel = k /\ a.how \in Losses /\ failures < FailuresPerCall
  <2>1. CASE a = Answer(k, "done")
    BY <2>1 DEF Answer
  <2>2. CASE a # Answer(k, "done")
    <3>1. failures < FailuresPerCall
      BY <2>2 DEF Done
    <3>2. PICK l \in Losses : a = Answer(IF l = "unacked" THEN k ELSE kernel, l)
      BY <2>2 DEF Done
    <3>3. a.how = l /\ a.kernel = IF l = "unacked" THEN k ELSE kernel
      BY <3>2 DEF Answer
    <3>4. QED
      BY <1>1, <3>1, <3>3
  <2>3. QED
    BY <2>1, <2>2
<1>4. CASE a.how = "done" /\ a.kernel = k
  <2>1. kernel' = k /\ failures' = failures /\ lost' = lost /\ Ok(a)
    BY <1>1, <1>4 DEF Get, Ok
  <2>2. QED
    BY <1>4, <2>1 DEF Requested, RequestTypes
<1>5. CASE a.how = "rejected" /\ a.kernel = kernel /\ a.how \in Losses /\ failures < FailuresPerCall
  <2>1. kernel' = kernel /\ failures' = failures + 1 /\ lost' = lost /\ ~Ok(a)
    BY <1>5 DEF Get, Ok
  <2>2. QED
    BY <1>1, <1>2, <1>5, <2>1 DEF Requested, RequestTypes
<1>6. CASE a.how = "unacked" /\ a.kernel = k /\ a.how \in Losses /\ failures < FailuresPerCall
  <2>1. kernel' = k /\ failures' = failures + 1 /\ lost' = lost \cup {fam} /\ ~Ok(a)
    BY <1>6 DEF Get, Ok
  <2>2. QED
    BY <1>1, <1>6, <2>1 DEF Requested, RequestTypes
<1>7. QED
  BY <1>3, <1>4, <1>5, <1>6

(* A request the kernel refuses.                                           *)
LEMMA RefusedRequest ==
  ASSUME RequestTypes, NEW why \in {"busy", "unsupported"}, NEW a \in Refused(why), Get(a)
  PROVE  Requested(a) /\ ~Ok(a) /\ kernel' = kernel /\ a.how = why
<1>1. a.how = why /\ a.kernel = kernel /\ why \notin Losses
  BY RouteAssumption DEF Refused, Answer
<1>2. kernel' = kernel /\ failures' = failures /\ lost' = lost /\ ~Ok(a)
  BY <1>1 DEF Get, Ok
<1>3. QED
  BY <1>1, <1>2 DEF Requested, RequestTypes, SameElsewhere

(* The plain route.                                                        *)
LEMMA StdRequest ==
  ASSUME RequestTypes, NEW hs \in SUBSET Hops, NEW a \in SetStd(hs), Get(a)
  PROVE  /\ Requested(a)
         /\ Ok(a) => kernel'.std[fam] = hs
         /\ kernel'.std[fam] \in {kernel.std[fam], hs}
         /\ kernel'.nh = kernel.nh /\ kernel'.group = kernel.group
         /\ kernel'.objects = kernel.objects
         /\ a.how \in {"done", "rejected", "unacked"}
<1> DEFINE k == [kernel EXCEPT !.std[fam] = hs]
<1>1. /\ k \in KernelTypes /\ SameElsewhere(k)
      /\ k.std[fam] = hs /\ k.nh = kernel.nh
      /\ k.group = kernel.group /\ k.objects = kernel.objects
  BY StdChanged DEF RequestTypes
<1>2. a \in Done(k)
  BY DEF SetStd
<1> HIDE DEF k
<1>3. QED
  BY <1>1, <1>2, DoneRequest

(* The route over the group.                                               *)
LEMMA NhRequest ==
  ASSUME RequestTypes, NEW there \in BOOLEAN, NEW a \in SetNh(there), Get(a)
  PROVE  /\ Requested(a)
         /\ Ok(a) => kernel'.nh[fam] = there
         /\ kernel'.nh[fam] \in {kernel.nh[fam], there}
         /\ kernel'.std = kernel.std /\ kernel'.group = kernel.group
         /\ kernel'.objects = kernel.objects
         /\ a.how \in {"done", "rejected", "unacked"}
<1> DEFINE k == [kernel EXCEPT !.nh[fam] = there]
<1>1. /\ k \in KernelTypes /\ SameElsewhere(k)
      /\ k.nh[fam] = there /\ k.std = kernel.std
      /\ k.group = kernel.group /\ k.objects = kernel.objects
  BY NhChanged DEF RequestTypes
<1>2. a \in Done(k)
  BY DEF SetNh
<1> HIDE DEF k
<1>3. QED
  BY <1>1, <1>2, DoneRequest

(* The group: created or replaced where the kernel has resilient groups.   *)
LEMMA GroupRequest ==
  ASSUME RequestTypes, NEW ids \in SUBSET Ids, NEW a \in SetGroup(ids), Get(a)
  PROVE  /\ Requested(a)
         /\ Ok(a) => kernel'.group[fam] = ids /\ lacks[fam] = "nothing"
         /\ kernel'.group[fam] \in {kernel.group[fam], ids}
         /\ kernel'.std = kernel.std /\ kernel'.nh = kernel.nh
         /\ kernel'.objects = kernel.objects
         /\ a.how \in {"done", "rejected", "unacked"}
            \/ (a.how = "unsupported" /\ lacks[fam] # "nothing")
<1> DEFINE k == [kernel EXCEPT !.group[fam] = ids]
<1>1. /\ k \in KernelTypes /\ SameElsewhere(k)
      /\ k.group[fam] = ids /\ k.std = kernel.std
      /\ k.nh = kernel.nh /\ k.objects = kernel.objects
  BY GroupChanged DEF RequestTypes
<1>2. CASE lacks[fam] # "nothing"
  <2>1. a \in Refused("unsupported")
    BY <1>2 DEF SetGroup
  <2>2. QED
    BY <1>2, <2>1, RefusedRequest
<1>3. CASE lacks[fam] = "nothing"
  <2>1. a \in Done(k)
    BY <1>3 DEF SetGroup
  <2> HIDE DEF k
  <2>2. QED
    BY <1>1, <1>3, <2>1, DoneRequest
<1>4. QED
  BY <1>2, <1>3

(* ... and deleted where no route uses it.                                 *)
LEMMA DropGroupRequest ==
  ASSUME RequestTypes, NEW a \in DropGroup, Get(a)
  PROVE  /\ Requested(a)
         /\ kernel'.std = kernel.std /\ kernel'.nh = kernel.nh
         /\ kernel'.objects = kernel.objects
         /\ kernel' = kernel \/ (kernel'.group[fam] = {} /\ ~kernel.nh[fam])
<1> DEFINE k == [kernel EXCEPT !.group[fam] = {}]
<1>1. /\ k \in KernelTypes /\ SameElsewhere(k)
      /\ k.group[fam] = {} /\ k.std = kernel.std
      /\ k.nh = kernel.nh /\ k.objects = kernel.objects
  BY GroupChanged DEF RequestTypes
<1>2. CASE kernel.nh[fam]
  <2>1. a \in Refused("busy")
    BY <1>2 DEF DropGroup
  <2>2. QED
    BY <2>1, RefusedRequest
<1>3. CASE ~kernel.nh[fam] /\ a \in Unsure
  <2>1. a \in Refused("unsupported")
    BY <1>3 DEF Unsure
  <2>2. QED
    BY <2>1, RefusedRequest
<1>4. CASE ~kernel.nh[fam] /\ a \notin Unsure
  <2>1. a \in Done(k)
    BY <1>4 DEF DropGroup
  <2> HIDE DEF k
  <2>2. QED
    BY <1>1, <1>4, <2>1, DoneRequest
<1>5. QED
  BY <1>2, <1>3, <1>4

(* An object: created or replaced where the kernel has nexthop objects.    *)
LEMMA ObjectRequest ==
  ASSUME RequestTypes, NEW h \in Hops, NEW i \in Ids, NEW a \in SetObject(i, h), Get(a)
  PROVE  /\ Requested(a)
         /\ Ok(a) => kernel'.objects = [kernel.objects EXCEPT ![i] = <<fam, h>>]
         /\ kernel'.objects \in {kernel.objects, [kernel.objects EXCEPT ![i] = <<fam, h>>]}
         /\ kernel'.std = kernel.std /\ kernel'.nh = kernel.nh
         /\ kernel'.group = kernel.group
         /\ a.how \in {"done", "rejected", "unacked"}
            \/ (a.how = "unsupported" /\ lacks[fam] # "nothing")
<1> DEFINE k == [kernel EXCEPT !.objects[i] = <<fam, h>>]
<1>1. <<fam, h>> \in Members \cup {Nobody}
  BY DEF RequestTypes, Members
<1>2. /\ k \in KernelTypes /\ SameElsewhere(k)
      /\ k.objects = [kernel.objects EXCEPT ![i] = <<fam, h>>]
      /\ k.std = kernel.std /\ k.nh = kernel.nh /\ k.group = kernel.group
  <2> DEFINE m == <<fam, h>>
  <2>1. m \in Members \cup {Nobody}
    BY <1>1
  <2> HIDE DEF m
  <2>2. ASSUME NEW j, j = [kernel EXCEPT !.objects[i] = m]
        PROVE  /\ j \in KernelTypes /\ SameElsewhere(j)
               /\ j.objects = [kernel.objects EXCEPT ![i] = m]
               /\ j.std = kernel.std /\ j.nh = kernel.nh /\ j.group = kernel.group
    BY <2>1, <2>2 DEF RequestTypes, KernelTypes, SameElsewhere
  <2>3. QED
    BY <2>2 DEF m
<1>3. CASE lacks[fam] = "objects"
  <2>1. a \in Refused("unsupported")
    BY <1>3 DEF SetObject
  <2>2. QED
    BY <1>3, <2>1, RefusedRequest
<1>4. CASE lacks[fam] # "objects"
  <2>1. a \in Done(k)
    BY <1>4 DEF SetObject
  <2> HIDE DEF k
  <2>2. QED
    BY <1>2, <2>1, DoneRequest
<1>5. QED
  BY <1>3, <1>4

(* ... and deleted where no group of the family has it.                    *)
LEMMA DropObjectRequest ==
  ASSUME RequestTypes, NEW i \in Ids, NEW a \in DropObject(i), Get(a)
  PROVE  /\ Requested(a)
         /\ \/ kernel'.objects = kernel.objects
            \/ i \notin kernel.group[fam] /\ kernel'.objects = [kernel.objects EXCEPT ![i] = Nobody]
         /\ kernel'.std = kernel.std /\ kernel'.nh = kernel.nh
         /\ kernel'.group = kernel.group
<1> DEFINE k == [kernel EXCEPT !.objects[i] = Nobody]
<1>1. /\ k \in KernelTypes /\ SameElsewhere(k)
      /\ k.objects = [kernel.objects EXCEPT ![i] = Nobody]
      /\ k.std = kernel.std /\ k.nh = kernel.nh /\ k.group = kernel.group
  BY DEF RequestTypes, KernelTypes, SameElsewhere
<1>2. CASE i \in kernel.group[fam]
  <2>1. a \in Refused("busy")
    BY <1>2 DEF DropObject
  <2>2. QED
    BY <2>1, RefusedRequest
<1>3. CASE i \notin kernel.group[fam] /\ a \in Unsure
  <2>1. a \in Refused("unsupported")
    BY <1>3 DEF Unsure
  <2>2. QED
    BY <2>1, RefusedRequest
<1>4. CASE i \notin kernel.group[fam] /\ a \notin Unsure
  <2>1. a \in Done(k)
    BY <1>4 DEF DropObject
  <2> HIDE DEF k
  <2>2. QED
    BY <1>1, <1>4, <2>1, DoneRequest
<1>5. QED
  BY <1>2, <1>3, <1>4

-----------------------------------------------------------------------------
(* What an action has to show.                                             *)

(* The last route goes only for one of the reasons LastRouteKept gives.    *)
KeepsRoute ==
  \A f \in Families :
    HasRoute(f) /\ ~HasRoute(f)' => cleaning # "no" \/ saw \/ MakesWay(f)

(* A step of every default route, or none.                                 *)
Implements == \A f \in Families : [Default(f)!Next]_(Default(f)!vars)

(* No member of a group is replaced by another one, or deleted.            *)
ObjectsKept ==
  \A f \in Families : \A i \in kernel.group[f] : kernel'.objects[i] = kernel.objects[i]

(* A call is under way, and this step neither starts nor ends it without   *)
(* an answer.  The cleanup answers nobody.                                 *)
Working ==
  /\ pc \notin {"idle", "ok", "error", "stopped"} /\ pc' \notin {"idle", "stopped"}
  /\ fam' = fam /\ wanted' = wanted /\ cleaning' = cleaning
  /\ cleaning # "no" => pc' \notin {"ok", "error"}
  /\ SameElsewhere(kernel') /\ ObjectsKept
  /\ lost' \in {lost, lost \cup {fam}}

(* Nothing changes for the other families.                                 *)
LEMMA OthersLead ==
  ASSUME Types, Shape, Working, NEW f \in Families, f # fam
  PROVE  UNCHANGED Default(f)!vars /\ UNCHANGED HasRoute(f)
<1>1. kernel'.std[f] = kernel.std[f] /\ kernel'.nh[f] = kernel.nh[f]
      /\ kernel'.group[f] = kernel.group[f]
      /\ \A i \in kernel.group[f] : kernel'.objects[i] = kernel.objects[i]
  BY DEF Working, SameElsewhere, ObjectsKept
<1>2. Leads(f)' = Leads(f)
  BY <1>1 DEF Leads
<1>3. AnswerTo(f)' = AnswerTo(f)
  <2>1. CASE cleaning = "no"
    BY <2>1 DEF AnswerTo, Working
  <2>2. CASE cleaning # "no"
    BY <2>2 DEF AnswerTo, Working, Types, Shape, CleanupShape, CallTypes
  <2>3. QED
    BY <2>1, <2>2
<1>4. (f \notin lost)' = (f \notin lost)
  BY DEF Working
<1>5. QED
  BY <1>1, <1>2, <1>3, <1>4 DEF Default!vars, HasRoute, Working

(* A step of a call that only others could notice, or that moves the route *)
(* of the family as DefaultRoute has it.                                   *)
LEMMA WorkingImplements ==
  ASSUME Types, Types', Shape, Working,
         NEW g \in Families, g = fam,
         g \notin lost' => Leads(g)' \in {Leads(g), hops, {}},
         pc' = "ok" => hops = {} \/ (hops \subseteq Leads(g)' /\ (g \notin lost' => Leads(g)' = hops))
  PROVE  Implements
<1> SUFFICES ASSUME NEW f \in Families
             PROVE  [Default(f)!Next]_(Default(f)!vars)
  BY DEF Implements
<1>1. CASE f # fam
  BY <1>1, OthersLead
<1>2. CASE f = fam
  <2>1. AnswerTo(f) = "pending" /\ AnswerTo(f)' = IF pc' \in {"ok", "error"} THEN pc' ELSE "pending"
    BY <1>2 DEF AnswerTo, Working
  <2>2. hops = wanted[f] /\ wanted'[f] = wanted[f] /\ (f \in lost => f \in lost') /\ fam' = f
    BY <1>2 DEF hops, Working
  <2>3. Leads(f)' \subseteq Hops
    BY DEF Leads, Types, RequestTypes, KernelTypes
  <2>4. f \notin lost' => Leads(f)' \in {Leads(f), wanted[f], {}}
    BY <1>2, <2>2
  <2>5. Default(f)!Step
    BY <2>1, <2>2, <2>3, <2>4 DEF Default!Step
  <2>6. CASE pc' = "ok"
    <3>1. wanted[f] # {} =>
            wanted[f] \subseteq Leads(f)' /\ (f \notin lost' => Leads(f)' = wanted[f])
      BY <1>2, <2>2, <2>6
    <3>2. Default(f)!Confirm
      BY <2>1, <2>5, <2>6, <3>1 DEF Default!Confirm
    <3>3. QED
      BY <3>2 DEF Default!Next
  <2>7. CASE pc' = "error"
    <3>1. Default(f)!Reject
      BY <2>1, <2>5, <2>7 DEF Default!Reject
    <3>2. QED
      BY <3>1 DEF Default!Next
  <2>8. CASE pc' \notin {"ok", "error"}
    <3>1. Default(f)!Switch
      BY <2>1, <2>5, <2>8 DEF Default!Switch
    <3>2. QED
      BY <3>1 DEF Default!Next
  <2>9. QED
    BY <2>6, <2>7, <2>8
<1>3. QED
  BY <1>1, <1>2

(* A step that leaves the routes alone.                                    *)
LEMMA QuietKeepsRoute ==
  ASSUME Types, Working, kernel'.std = kernel.std, kernel'.nh = kernel.nh
  PROVE  KeepsRoute
BY DEF KeepsRoute, HasRoute

(* A step with the route of one family.                                    *)
LEMMA KeepsRouteHere ==
  ASSUME Types, Shape, Working, NEW g \in Families, g = fam,
         HasRoute(g)' \/ cleaning # "no" \/ saw \/ MakesWay(g) \/ ~HasRoute(g)
  PROVE  KeepsRoute
<1> SUFFICES ASSUME NEW f \in Families, HasRoute(f), ~HasRoute(f)'
             PROVE  cleaning # "no" \/ saw \/ MakesWay(f)
  BY DEF KeepsRoute
<1>1. CASE f # fam
  BY <1>1, OthersLead
<1>2. CASE f = fam
  BY <1>2
<1>3. QED
  BY <1>1, <1>2

(* Where traffic goes without a route over the group, before a step and    *)
(* after it ...                                                            *)
LEMMA PlainLeads ==
  ASSUME NEW f \in Families
  PROVE  /\ ~kernel.nh[f] => Leads(f) = kernel.std[f]
         /\ ~kernel'.nh[f] => Leads(f)' = kernel'.std[f]
BY DEF Leads

(* ... and over the group of the next hops wanted.                         *)
LEMMA GroupLeads ==
  ASSUME NEW g \in Families, g = fam, wanted \in [Families -> SUBSET Hops],
         kernel'.nh[g], kernel'.group[g] = {IdOf(h) : h \in hops},
         \A h \in hops : kernel'.objects[IdOf(h)] = <<fam, h>>
  PROVE  Leads(g)' = kernel'.std[g] \cup hops
<1>1. ASSUME NEW h \in Hops, NEW i \in kernel'.group[g], kernel'.objects[i] = <<g, h>>
      PROVE  h \in hops
  BY <1>1
<1>2. ASSUME NEW h \in hops
      PROVE  h \in Hops /\ \E i \in kernel'.group[g] : kernel'.objects[i] = <<g, h>>
  <2>1. IdOf(h) \in kernel'.group[g] /\ kernel'.objects[IdOf(h)] = <<g, h>>
    OBVIOUS
  <2>2. h \in Hops
    BY DEF hops
  <2>3. QED
    BY <2>1, <2>2
<1>3. QED
  BY <1>1, <1>2 DEF Leads

(* A step that changes none of the routes and none of the groups in use.   *)
LEMMA SameLeads ==
  ASSUME ObjectsKept, NEW g \in Families, kernel'.std[g] = kernel.std[g],
         kernel'.nh[g] = kernel.nh[g], ~kernel.nh[g] \/ kernel'.group[g] = kernel.group[g]
  PROVE  Leads(g)' = Leads(g)
BY DEF Leads, ObjectsKept

-----------------------------------------------------------------------------
(* What the steps of a call have in common.                                *)

(* The types of the kernel side follow from the request.                   *)
LEMMA RequestedTypes ==
  ASSUME RequestTypes, fam' = fam, NEW a, Requested(a)
  PROVE  RequestTypes'
BY DEF RequestTypes, Requested

(* Objects that no step touches.                                           *)
LEMMA SameObjects ==
  ASSUME kernel'.objects = kernel.objects PROVE ObjectsKept
BY DEF ObjectsKept

(* Groups that only shrink keep their members.                             *)
LEMMA FilledStays ==
  ASSUME Types, GroupFilled, ObjectsKept, SameElsewhere(kernel'),
         kernel'.group[fam] \subseteq kernel.group[fam]
  PROVE  GroupFilled'
BY DEF GroupFilled, ObjectsKept, SameElsewhere

(* A step whose record of the present family is right.                     *)
LEMMA RecordStays ==
  ASSUME Types, Installed, SameElsewhere(kernel'), lost \subseteq lost',
         \A f \in Families : f # fam => installed'[f] = installed[f],
         NEW g \in Families, g = fam, g \notin lost' => Faithful(g)'
  PROVE  Installed'
<1> SUFFICES ASSUME NEW f \in Families, f \notin lost' PROVE Faithful(f)'
  BY DEF Installed
<1>1. CASE f = fam
  BY <1>1
<1>2. CASE f # fam
  <2>1. kernel'.std[f] = kernel.std[f] /\ kernel'.nh[f] = kernel.nh[f]
    BY <1>2 DEF SameElsewhere
  <2>2. Faithful(f)
    BY DEF Installed
  <2>3. QED
    BY <1>2, <2>1, <2>2 DEF Faithful
<1>3. QED
  BY <1>1, <1>2

LEMMA ApplyStandardStep ==
  ASSUME RouteInv, ApplyStandard
  PROVE  RouteInv' /\ KeepsRoute /\ (SoundFallback => Implements)
<1>1. PICK a \in SetStd(hops) :
        /\ Get(a)
        /\ IF Ok(a) THEN Install("standard") ELSE UNCHANGED installed
        /\ pc' = IF Ok(a) THEN "ok" ELSE "error"
  BY DEF ApplyStandard
<1>2. /\ pc = "standard" /\ hops # {} /\ inner' = FALSE
      /\ mode' = mode /\ lacks' = lacks /\ others' = others
      /\ nhIds' = nhIds /\ nextId' = nextId /\ supported' = supported
      /\ fam' = fam /\ wanted' = wanted /\ cleaning' = cleaning /\ left' = left /\ saw' = saw
      /\ todo' = todo /\ after' = after
  BY DEF ApplyStandard, configVars
<1>3. RequestTypes /\ hops \in SUBSET Hops
  BY DEF RouteInv, Types, RequestTypes, CallTypes, hops
<1>4. /\ Requested(a)
      /\ Ok(a) => kernel'.std[fam] = hops
      /\ kernel'.std[fam] \in {kernel.std[fam], hops}
      /\ kernel'.nh = kernel.nh /\ kernel'.group = kernel.group
      /\ kernel'.objects = kernel.objects
  BY <1>1, <1>3, StdRequest
<1>5. Working
  BY <1>1, <1>2, <1>4, SameObjects DEF Working, Requested, RouteInv, Shape, CleanupShape
<1>6. Types'
  <2>1. ManagerTypes'
    BY <1>1, <1>2 DEF RouteInv, Types, RequestTypes, ManagerTypes, Install
  <2>2. CallTypes' /\ IdsEnough'
    BY <1>1, <1>2 DEF RouteInv, Types, CallTypes, IdsEnough
  <2>3. QED
    BY <1>2, <1>3, <1>4, <2>1, <2>2, RequestedTypes DEF Types
<1>7. Shape'
  BY <1>1, <1>2 DEF RouteInv, Types, RequestTypes, ManagerTypes, Shape, CallShape, CleanupShape, GroupsSupported,
     Install, hops, Known
<1>8. Groups'
  BY <1>1, <1>2, <1>3, <1>4, <1>5, FilledStays DEF RouteInv, Groups, GroupReady, Working
<1>9. ASSUME SoundFallback PROVE NoFallbackTrap' /\ Installed'
  <2>1. NoFallbackTrap /\ Installed
    BY <1>9 DEF RouteInv, Record
  <2>2. ASSUME NEW g \in Families, g = fam, g \notin lost' PROVE Faithful(g)'
    BY <1>1, <1>2, <1>3, <1>4, <2>1, <2>2
       DEF NoFallbackTrap, Installed, Faithful, Requested, Install, RouteInv, Types, ManagerTypes
  <2>3. Installed'
    BY <1>1, <1>3, <1>5, <2>1, <2>2, RecordStays DEF RouteInv, Types, ManagerTypes, RequestTypes, Working, Install
  <2>4. QED
    BY <1>1, <1>2, <2>1, <2>3 DEF NoFallbackTrap
<1>10. KeepsRoute
  <2>1. ASSUME NEW g \in Families, g = fam, HasRoute(g) PROVE HasRoute(g)'
    BY <1>2, <1>4, <2>1 DEF HasRoute
  <2>2. QED
    BY <1>3, <1>5, <2>1, KeepsRouteHere DEF RouteInv, RequestTypes
<1>11. ASSUME SoundFallback PROVE Implements
  <2>1. NoFallbackTrap /\ Installed
    BY <1>11 DEF RouteInv, Record
  <2>2. PICK g \in Families : g = fam
    BY <1>3 DEF RequestTypes
  <2>3. ASSUME g \notin lost' PROVE ~kernel'.nh[g]
    BY <1>2, <1>4, <2>1, <2>2, <2>3 DEF NoFallbackTrap, Installed, Faithful, Requested
  <2>4. g \notin lost' => Leads(g)' \in {Leads(g), hops, {}}
    BY <1>4, <2>2, <2>3, PlainLeads DEF Requested
  <2>5. Ok(a) => hops \subseteq Leads(g)' /\ (g \notin lost' => Leads(g)' = hops)
    BY <1>4, <2>2, <2>3, PlainLeads DEF Leads
  <2>6. QED
    BY <1>1, <1>5, <1>6, <2>2, <2>4, <2>5, WorkingImplements DEF RouteInv
<1>12. QED
  BY <1>6, <1>7, <1>8, <1>9, <1>10, <1>11 DEF RouteInv, Record

LEMMA LinksDownStep ==
  ASSUME RouteInv, LinksDown
  PROVE  RouteInv' /\ KeepsRoute /\ (SoundFallback => Implements)
<1>1. PICK found \in DumpFinds :
        /\ saw' = found
        /\ failures' = IF found = (fam \in others) THEN failures ELSE failures + 1
        /\ IF found THEN pc' = "remove" /\ UNCHANGED supported
           ELSE /\ pc' = "ok"
                /\ supported' = IF pc = "resilient" /\ mode = "auto" THEN "yes" ELSE supported
  BY DEF LinksDown
<1>2. /\ pc \in {"standard", "resilient"} /\ hops = {} /\ inner' = (pc = "resilient")
      /\ kernel' = kernel /\ lost' = lost
      /\ mode' = mode /\ lacks' = lacks /\ others' = others
      /\ installed' = installed /\ nhIds' = nhIds /\ nextId' = nextId
      /\ fam' = fam /\ wanted' = wanted /\ cleaning' = cleaning /\ left' = left
      /\ todo' = todo /\ after' = after
  BY DEF LinksDown, configVars
<1>3. RequestTypes'
  <2>1. found = (fam \in others) \/ failures < FailuresPerCall
    BY <1>1, Zenon DEF DumpFinds
  <2>2. failures' = failures \/ (failures' = failures + 1 /\ failures < FailuresPerCall)
    BY <1>1, <2>1, Zenon
  <2>3. FailuresPerCall \in Nat
    BY RouteAssumption
  <2>4. QED
    BY <1>2, <2>2, <2>3 DEF RouteInv, Types, RequestTypes
<1>4. pc' \in {"remove", "ok"} /\ (pc' = "remove" => saw' = TRUE) /\ saw' \in BOOLEAN
      /\ supported' \in {supported, "yes"}
  BY <1>1 DEF DumpFinds
<1>5. Working
  BY <1>2, <1>4, SameObjects DEF Working, SameElsewhere, RouteInv, Shape, CleanupShape
<1>6. Types'
  BY <1>2, <1>3, <1>4 DEF RouteInv, Types, ManagerTypes, CallTypes, IdsEnough
<1>7. Shape'
  BY <1>2, <1>4 DEF RouteInv, Types, ManagerTypes, CallTypes, Shape, CallShape, CleanupShape,
                    GroupsSupported, hops, Known
<1>8. Groups'
  <2>1. GroupFilled'
    BY <1>2 DEF RouteInv, Groups, GroupFilled
  <2>2. QED
    BY <1>4, <2>1 DEF Groups, GroupReady
<1>9. ASSUME SoundFallback PROVE NoFallbackTrap' /\ Installed'
  BY <1>2, <1>4, <1>9 DEF RouteInv, Record, NoFallbackTrap, Installed, Faithful
<1>10. KeepsRoute
  BY <1>2, <1>5, QuietKeepsRoute DEF RouteInv
<1>11. Implements
  <2>1. PICK g \in Families : g = fam
    BY DEF RouteInv, Types, RequestTypes
  <2>2. Leads(g)' = Leads(g)
    BY <1>2 DEF Leads
  <2>3. QED
    BY <1>2, <1>5, <1>6, <2>1, <2>2, WorkingImplements DEF RouteInv
<1>12. QED
  BY <1>6, <1>7, <1>8, <1>9, <1>10, <1>11 DEF RouteInv, Record

LEMMA RemoveNhRouteStep ==
  ASSUME RouteInv, RemoveNhRoute
  PROVE  RouteInv' /\ KeepsRoute /\ (SoundFallback => Implements)
<1>1. PICK a \in SetNh(FALSE) :
        /\ Get(a)
        /\ IF Ok(a)
           THEN /\ Install("none") /\ pc' = "teardown"
                /\ after' = IF cleaning = "no" THEN "ok" ELSE "cleanup"
                /\ supported' = IF inner /\ mode = "auto" THEN "yes" ELSE supported
           ELSE UNCHANGED installed /\ Fail(a.how)
  BY DEF RemoveNhRoute
<1>2. /\ pc = "remove" /\ installed[fam] = "resilient"
      /\ mode' = mode /\ lacks' = lacks /\ others' = others
      /\ nhIds' = nhIds /\ nextId' = nextId /\ todo' = todo
      /\ fam' = fam /\ wanted' = wanted /\ cleaning' = cleaning /\ left' = left /\ saw' = saw
      /\ inner' = inner
  BY DEF RemoveNhRoute, configVars, callVars
<1>3. RequestTypes
  BY DEF RouteInv, Types
<1>4. /\ Requested(a)
      /\ Ok(a) => kernel'.nh[fam] = FALSE
      /\ kernel'.nh[fam] \in {kernel.nh[fam], FALSE}
      /\ kernel'.std = kernel.std /\ kernel'.group = kernel.group
      /\ kernel'.objects = kernel.objects
      /\ a.how \in {"done", "rejected", "unacked"}
  BY <1>1, <1>3, NhRequest
<1>5. Working
  BY <1>1, <1>2, <1>4, SameObjects DEF Working, Requested, RouteInv, Shape, CleanupShape, Fail
<1>6. Types'
  <2>1. ManagerTypes'
    BY <1>1, <1>2 DEF RouteInv, Types, RequestTypes, ManagerTypes, Install, Fail
  <2>2. CallTypes' /\ IdsEnough'
    BY <1>1, <1>2 DEF RouteInv, Types, CallTypes, IdsEnough, Fail
  <2>3. QED
    BY <1>2, <1>3, <1>4, <2>1, <2>2, RequestedTypes DEF Types
<1>7. Shape'
  BY <1>1, <1>2 DEF RouteInv, Types, RequestTypes, ManagerTypes, CallTypes, Shape, CallShape,
                    CleanupShape, GroupsSupported, Install, Fail, hops, Known
<1>8. Groups'
  BY <1>1, <1>2, <1>3, <1>4, <1>5, FilledStays
     DEF RouteInv, Groups, GroupReady, Working, Fail
<1>9. ASSUME SoundFallback PROVE NoFallbackTrap' /\ Installed'
  <2>1. NoFallbackTrap /\ Installed
    BY <1>9 DEF RouteInv, Record
  <2>2. ASSUME NEW g \in Families, g = fam, g \notin lost' PROVE Faithful(g)'
    BY <1>1, <1>2, <1>3, <1>4, <2>1, <2>2
       DEF Installed, Faithful, Requested, Install, RouteInv, Types, ManagerTypes
  <2>3. Installed'
    BY <1>1, <1>3, <1>5, <2>1, <2>2, RecordStays
       DEF RouteInv, Types, ManagerTypes, RequestTypes, Working, Install
  <2>4. NoFallbackTrap'
    BY <1>1, <1>2, <1>4, <1>9, <2>1, RouteAssumption
       DEF NoFallbackTrap, Install, Fail, Ok, Requested, SoundFallback, RequestTypes, RouteInv,
           Types, ManagerTypes, Shape, GroupsSupported
  <2>5. QED
    BY <2>3, <2>4
<1>10. KeepsRoute
  <2>1. cleaning # "no" \/ saw
    BY <1>2 DEF RouteInv, Shape, CallShape
  <2>2. QED
    BY <1>3, <1>5, <2>1, KeepsRouteHere DEF RouteInv, RequestTypes
<1>11. ASSUME SoundFallback PROVE Implements
  <2>1. NoFallbackTrap /\ Installed
    BY <1>11 DEF RouteInv, Record
  <2>2. PICK g \in Families : g = fam
    BY <1>3 DEF RequestTypes
  <2>3. CASE Ok(a)
    <3>1. g \notin lost' => Leads(g)' = {}
      BY <1>2, <1>4, <2>1, <2>2, <2>3, PlainLeads DEF Installed, Faithful, Requested
    <3>2. QED
      BY <1>1, <1>5, <1>6, <2>2, <2>3, <3>1, WorkingImplements DEF RouteInv
  <2>4. CASE ~Ok(a)
    <3>1. g \notin lost' => Leads(g)' = Leads(g)
      BY <1>4, <2>2, <2>4 DEF Requested, Leads
    <3>2. pc' # "ok"
      BY <1>1, <2>4 DEF Fail
    <3>3. QED
      BY <1>5, <1>6, <2>2, <3>1, <3>2, WorkingImplements DEF RouteInv
  <2>5. QED
    BY <2>3, <2>4
<1>12. QED
  BY <1>6, <1>7, <1>8, <1>9, <1>10, <1>11 DEF RouteInv, Record

LEMMA RemoveStandardStep ==
  ASSUME RouteInv, RemoveStandard
  PROVE  RouteInv' /\ KeepsRoute /\ (SoundFallback => Implements)
<1>1. PICK a \in SetStd({}) :
        /\ Get(a)
        /\ IF Ok(a) THEN Install("none") /\ Succeed ELSE UNCHANGED installed /\ Fail(a.how)
  BY DEF RemoveStandard
<1>2. /\ pc = "remove" /\ installed[fam] # "resilient"
      /\ mode' = mode /\ lacks' = lacks /\ others' = others
      /\ nhIds' = nhIds /\ nextId' = nextId /\ todo' = todo
      /\ fam' = fam /\ wanted' = wanted /\ cleaning' = cleaning /\ left' = left /\ saw' = saw
      /\ inner' = inner
  BY DEF RemoveStandard, configVars, callVars
<1>3. RequestTypes
  BY DEF RouteInv, Types
<1>4. /\ Requested(a)
      /\ Ok(a) => kernel'.std[fam] = {}
      /\ kernel'.std[fam] \in {kernel.std[fam], {}}
      /\ kernel'.nh = kernel.nh /\ kernel'.group = kernel.group
      /\ kernel'.objects = kernel.objects
      /\ a.how \in {"done", "rejected", "unacked"}
  BY <1>1, <1>3, StdRequest
<1>5. Working
  BY <1>1, <1>2, <1>4, SameObjects
     DEF Working, Requested, RouteInv, Shape, CleanupShape, Fail, Succeed
<1>6. Types'
  <2>1. ManagerTypes'
    BY <1>1, <1>2 DEF RouteInv, Types, RequestTypes, ManagerTypes, Install, Fail, Succeed
  <2>2. CallTypes' /\ IdsEnough'
    BY <1>1, <1>2 DEF RouteInv, Types, CallTypes, IdsEnough, Fail, Succeed
  <2>3. QED
    BY <1>2, <1>3, <1>4, <2>1, <2>2, RequestedTypes DEF Types
<1>7. Shape'
  BY <1>1, <1>2 DEF RouteInv, Types, RequestTypes, ManagerTypes, CallTypes, Shape, CallShape,
                    CleanupShape, GroupsSupported, Install, Fail, Succeed, hops, Known
<1>8. Groups'
  BY <1>1, <1>2, <1>3, <1>4, <1>5, FilledStays
     DEF RouteInv, Groups, GroupReady, Working, Fail, Succeed
<1>9. ASSUME SoundFallback PROVE NoFallbackTrap' /\ Installed'
  <2>1. NoFallbackTrap /\ Installed
    BY <1>9 DEF RouteInv, Record
  <2>2. ASSUME NEW g \in Families, g = fam, g \notin lost' PROVE Faithful(g)'
    BY <1>1, <1>2, <1>3, <1>4, <2>1, <2>2
       DEF Installed, Faithful, Requested, Install, RouteInv, Types, ManagerTypes
  <2>3. Installed'
    BY <1>1, <1>3, <1>5, <2>1, <2>2, RecordStays
       DEF RouteInv, Types, ManagerTypes, RequestTypes, Working, Install
  <2>4. NoFallbackTrap'
    BY <1>1, <1>2, <1>4, <2>1
       DEF NoFallbackTrap, Install, Fail, Succeed, RequestTypes, RouteInv, Types, ManagerTypes
  <2>5. QED
    BY <2>3, <2>4
<1>10. KeepsRoute
  <2>1. cleaning # "no" \/ saw
    BY <1>2 DEF RouteInv, Shape, CallShape
  <2>2. QED
    BY <1>3, <1>5, <2>1, KeepsRouteHere DEF RouteInv, RequestTypes
<1>11. ASSUME SoundFallback PROVE Implements
  <2>1. Installed
    BY <1>11 DEF RouteInv, Record
  <2>2. PICK g \in Families : g = fam
    BY <1>3 DEF RequestTypes
  <2>3. CASE Ok(a)
    <3>1. g \notin lost' => Leads(g)' = {}
      BY <1>2, <1>4, <2>1, <2>2, <2>3, PlainLeads DEF Installed, Faithful, Requested
    <3>2. hops = {}
      BY <1>2 DEF RouteInv, Shape, CallShape
    <3>3. QED
      BY <1>5, <1>6, <2>2, <3>1, <3>2, WorkingImplements DEF RouteInv
  <2>4. CASE ~Ok(a)
    <3>1. g \notin lost' => Leads(g)' = Leads(g)
      BY <1>4, <2>2, <2>4 DEF Requested, Leads
    <3>2. pc' # "ok"
      BY <1>1, <2>4 DEF Fail
    <3>3. QED
      BY <1>5, <1>6, <2>2, <3>1, <3>2, WorkingImplements DEF RouteInv
  <2>5. QED
    BY <2>3, <2>4
<1>12. QED
  BY <1>6, <1>7, <1>8, <1>9, <1>10, <1>11 DEF RouteInv, Record

LEMMA LeaveStandardStep ==
  ASSUME RouteInv, LeaveStandard
  PROVE  RouteInv' /\ KeepsRoute /\ (SoundFallback => Implements)
<1>1. PICK a \in SetStd({}) :
        /\ Get(a)
        /\ IF Ok(a) THEN Install("none") /\ Continue("resilient")
           ELSE UNCHANGED installed /\ Fail(a.how)
  BY DEF LeaveStandard
<1>2. /\ pc = "resilient" /\ hops # {} /\ installed[fam] = "standard"
      /\ mode' = mode /\ lacks' = lacks /\ others' = others
      /\ nhIds' = nhIds /\ nextId' = nextId /\ todo' = todo
      /\ fam' = fam /\ wanted' = wanted /\ cleaning' = cleaning /\ left' = left /\ saw' = saw
      /\ inner' = inner
  BY DEF LeaveStandard, configVars, callVars
<1>3. RequestTypes
  BY DEF RouteInv, Types
<1>4. /\ Requested(a)
      /\ Ok(a) => kernel'.std[fam] = {}
      /\ kernel'.nh = kernel.nh /\ kernel'.group = kernel.group
      /\ kernel'.objects = kernel.objects
      /\ a.how \in {"done", "rejected", "unacked"}
  BY <1>1, <1>3, StdRequest
<1>5. Working
  BY <1>1, <1>2, <1>4, SameObjects
     DEF Working, Requested, RouteInv, Shape, CallShape, Fail, Continue
<1>6. Types'
  <2>1. ManagerTypes'
    BY <1>1, <1>2 DEF RouteInv, Types, RequestTypes, ManagerTypes, Install, Fail, Continue
  <2>2. CallTypes' /\ IdsEnough'
    BY <1>1, <1>2 DEF RouteInv, Types, CallTypes, IdsEnough, IdOf, Fail, Continue
  <2>3. QED
    BY <1>2, <1>3, <1>4, <2>1, <2>2, RequestedTypes DEF Types
<1>7. Shape'
  BY <1>1, <1>2 DEF RouteInv, Types, RequestTypes, ManagerTypes, CallTypes, Shape, CallShape,
                    CleanupShape, GroupsSupported, Install, Fail, Continue, hops, Known
<1>8. Groups'
  <2>1. GroupFilled'
    BY <1>3, <1>4, <1>5, FilledStays DEF RouteInv, Groups, RequestTypes, Working
  <2>2. GroupReady'
    BY <1>1, <1>2, <1>4 DEF RouteInv, Groups, GroupReady, HasObject, IdOf, hops, Fail, Continue
  <2>3. QED
    BY <2>1, <2>2 DEF Groups
<1>9. ASSUME SoundFallback PROVE NoFallbackTrap' /\ Installed'
  <2>1. NoFallbackTrap /\ Installed
    BY <1>9 DEF RouteInv, Record
  <2>2. ASSUME NEW g \in Families, g = fam, g \notin lost' PROVE Faithful(g)'
    BY <1>1, <1>2, <1>3, <1>4, <2>1, <2>2
       DEF Installed, Faithful, Requested, Install, RouteInv, Types, ManagerTypes
  <2>3. Installed'
    BY <1>1, <1>3, <1>5, <2>1, <2>2, RecordStays
       DEF RouteInv, Types, ManagerTypes, RequestTypes, Working, Install
  <2>4. NoFallbackTrap'
    BY <1>1, <1>2, <1>4, <2>1
       DEF NoFallbackTrap, Install, Fail, Continue, RequestTypes, RouteInv, Types, ManagerTypes
  <2>5. QED
    BY <2>3, <2>4
<1>10. KeepsRoute
  <2>1. hops # {} /\ inner
    BY <1>2 DEF RouteInv, Shape, CallShape
  <2>2. MakesWay(fam)
    BY <1>2, <2>1 DEF MakesWay
  <2>3. QED
    BY <1>3, <1>5, <2>2, KeepsRouteHere DEF RouteInv, RequestTypes
<1>11. ASSUME SoundFallback PROVE Implements
  <2>1. Installed
    BY <1>11 DEF RouteInv, Record
  <2>2. PICK g \in Families : g = fam
    BY <1>3 DEF RequestTypes
  <2>3. g \notin lost' => Leads(g)' \in {Leads(g), {}}
    <3>1. CASE Ok(a)
      BY <1>2, <1>4, <2>1, <2>2, <3>1, PlainLeads DEF Installed, Faithful, Requested
    <3>2. CASE ~Ok(a)
      BY <1>4, <2>2, <3>2 DEF Requested, Leads
    <3>3. QED
      BY <3>1, <3>2
  <2>4. pc' # "ok"
    BY <1>1, <1>2 DEF Fail, Continue
  <2>5. QED
    BY <1>5, <1>6, <2>2, <2>3, <2>4, WorkingImplements DEF RouteInv
<1>12. QED
  BY <1>6, <1>7, <1>8, <1>9, <1>10, <1>11 DEF RouteInv, Record

(* A request of apply_resilient that fails: the fallback of "auto" will    *)
(* not meet a route over the group that it cannot remove.                  *)
LEMMA FallbackSafe ==
  ASSUME RouteInv, SoundFallback, inner, NEW a, Requested(a), ~Ok(a), Fail(a.how),
         a.how \in {"done", "rejected", "unacked"}
           \/ (a.how = "unsupported" /\ lacks[fam] # "nothing"),
         mode' = mode, lacks' = lacks, fam' = fam, installed' = installed
  PROVE  NoFallbackTrap'
<1>1. NoFallbackTrap /\ lacks \in Kernels /\ mode \in Modes /\ fam \in Families
      /\ FailuresPerCall \in Nat /\ failures \in 0..FailuresPerCall
  BY RouteAssumption DEF RouteInv, Record, Types, ManagerTypes, RequestTypes
<1>2. pc' = "teardown" /\ cleaning = "no"
  BY DEF Fail, RouteInv, Shape, CallShape
<1>3. (mode = "auto" /\ supported' = "no") => \A f \in Families : lacks[f] # "nothing"
  BY <1>1 DEF Fail, SoundFallback, NoFallbackTrap, Ok
<1>4. (mode = "auto" /\ installed[fam] = "resilient") => failures' >= FailuresPerCall
  <2>1. ASSUME installed[fam] = "resilient" PROVE lacks[fam] = "nothing"
    BY <1>1, <2>1 DEF RouteInv, Shape, GroupsSupported
  <2>2. ASSUME mode = "auto" PROVE FailuresPerCall <= 1
    BY <1>1, <2>2 DEF SoundFallback
  <2>3. ASSUME lacks[fam] = "nothing" PROVE failures' = failures + 1
    BY <2>3 DEF Requested, Ok
  <2>4. QED
    BY <1>1, <2>1, <2>2, <2>3
<1>5. after' = "standard" => mode = "auto"
  BY DEF Fail
<1>6. QED
  BY <1>2, <1>3, <1>4, <1>5 DEF NoFallbackTrap

(* The id of a next hop about to get an object: its own or a fresh one.    *)
LEMMA IdAllocated ==
  ASSUME Inv, Types, pc = "resilient", NEW h \in todo
  PROVE  /\ AllocId(h) \in Ids /\ h \in Hops
         /\ IF IdOf(h) # 0 THEN AllocId(h) = IdOf(h) /\ AllocId(h) < nextId
            ELSE AllocId(h) = nextId
<1> DEFINE S == {x \in todo : IdOf(x) = 0}
<1>1. /\ todo \subseteq Hops /\ IsFiniteSet(Hops) /\ <<fam, h>> \in Members /\ MaxIds \in Nat
      /\ nextId \in 1..(MaxIds + 1) /\ IdOf(h) \in 0..MaxIds
  BY RouteAssumption DEF Types, CallTypes, ManagerTypes, RequestTypes, Members, IdOf
<1>2. IsFiniteSet(S) /\ Cardinality(S) \in Nat
  BY <1>1, FS_Subset, FS_CardinalityType
<1>3. IdOf(h) = 0 => Cardinality(S) # 0
  BY <1>2, FS_EmptySet
<1>4. nextId + Cardinality(S) <= MaxIds + 1
  BY DEF Types, IdsEnough
<1>5. IdOf(h) # 0 => IdOf(h) < nextId
  BY <1>1 DEF Inv, NextIdFresh, IdOf
<1> HIDE DEF S
<1>6. QED
  BY <1>1, <1>2, <1>3, <1>4, <1>5 DEF AllocId, Ids

(* No two members share an id, so an object made for one is not in use for *)
(* another.                                                                *)
LEMMA OwnObject ==
  ASSUME Inv, Types, pc = "resilient", NEW h \in todo,
         NEW m \in Members, nhIds[m] = AllocId(h)
  PROVE  m = <<fam, h>>
<1>1. <<fam, h>> \in Members
  BY DEF Types, CallTypes, RequestTypes, Members
<1>2. nhIds[m] < nextId /\ nhIds[m] \in 0..MaxIds /\ nextId \in 1..(MaxIds + 1)
  BY DEF Inv, NextIdFresh, Types, ManagerTypes
<1>3. IdOf(h) # 0 /\ nhIds[m] = IdOf(h)
  BY <1>2, IdAllocated, RouteAssumption
<1>4. QED
  BY <1>1, <1>3 DEF Inv, MembersKnown, IdOf

LEMMA EnsureMemberRouteStep ==
  ASSUME Inv, RouteInv, NEW h \in Hops, EnsureMember(h)
  PROVE  RouteInv' /\ KeepsRoute /\ (SoundFallback => Implements)
<1> DEFINE id == AllocId(h)
<1>1. PICK a \in SetObject(id, h) :
        /\ Get(a)
        /\ IF Ok(a) THEN todo' = todo \ {h} /\ Continue("resilient")
           ELSE UNCHANGED todo /\ Fail(a.how)
  BY DEF EnsureMember
<1>2. /\ pc = "resilient" /\ h \in todo /\ installed[fam] # "standard"
      /\ nhIds' = [nhIds EXCEPT ![<<fam, h>>] = id]
      /\ nextId' = IF id = nextId THEN nextId + 1 ELSE nextId
      /\ mode' = mode /\ lacks' = lacks /\ others' = others /\ installed' = installed
      /\ fam' = fam /\ wanted' = wanted /\ cleaning' = cleaning /\ left' = left /\ saw' = saw
      /\ inner' = inner
  BY DEF EnsureMember, configVars, callVars
<1>3. RequestTypes /\ Types
  BY DEF RouteInv, Types
<1>4. /\ id \in Ids
      /\ IF IdOf(h) # 0 THEN id = IdOf(h) /\ id < nextId ELSE id = nextId
  BY <1>2, <1>3, IdAllocated
<1> HIDE DEF id
<1>5. /\ Requested(a)
      /\ Ok(a) => kernel'.objects = [kernel.objects EXCEPT ![id] = <<fam, h>>]
      /\ kernel'.objects \in {kernel.objects, [kernel.objects EXCEPT ![id] = <<fam, h>>]}
      /\ kernel'.std = kernel.std /\ kernel'.nh = kernel.nh
      /\ kernel'.group = kernel.group
      /\ a.how \in {"done", "rejected", "unacked"}
         \/ (a.how = "unsupported" /\ lacks[fam] # "nothing")
  BY <1>1, <1>3, <1>4, ObjectRequest
<1>6. inner /\ cleaning = "no" /\ h \in hops /\ todo \subseteq hops /\ mode # "standard"
  BY <1>2 DEF RouteInv, Shape, CallShape
<1>7. ObjectsKept
  <2> SUFFICES ASSUME NEW f \in Families, NEW i \in kernel.group[f], kernel'.objects[i] # kernel.objects[i]
               PROVE  FALSE
    BY DEF ObjectsKept
  <2>1. i \in Ids /\ kernel.objects \in [Ids -> Members \cup {Nobody}]
    BY <1>3 DEF RequestTypes, KernelTypes
  <2>2. i = id /\ kernel'.objects[i] = <<fam, h>>
    BY <1>4, <1>5, <2>1
  <2>3. PICK x \in Hops : kernel.objects[i] = <<f, x>>
    BY DEF RouteInv, Groups, GroupFilled
  <2>4. <<f, x>> \in Members /\ <<f, x>> # Nobody
    BY RouteAssumption DEF Members
  <2>5. nhIds[<<f, x>>] = id
    BY <2>1, <2>2, <2>3, <2>4 DEF Inv, MembersKnown
  <2>6. <<f, x>> = <<fam, h>>
    BY <1>2, <1>3, <2>4, <2>5, OwnObject DEF id
  <2>7. QED
    BY <2>2, <2>3, <2>6
<1>8. Working
  BY <1>1, <1>2, <1>5, <1>6, <1>7 DEF Working, Requested, Fail, Continue
<1>9. Types'
  <2>1. ManagerTypes'
    <3>1. id \in 1..MaxIds /\ MaxIds \in Nat
      BY <1>4, RouteAssumption DEF Ids
    <3>2. nhIds' \in [Members -> 0..MaxIds]
      <4>1. id \in 0..MaxIds
        BY <3>1
      <4>2. nhIds \in [Members -> 0..MaxIds]
        BY <1>3 DEF Types, ManagerTypes
      <4>3. QED
        BY <1>2, <4>1, <4>2
    <3>3. nextId' \in 1..(MaxIds + 1)
      BY <1>2, <1>3, <3>1 DEF Types, ManagerTypes
    <3>4. supported' \in {"unknown", "yes", "no"}
      BY <1>1, <1>3 DEF Types, ManagerTypes, Fail, Continue
    <3>5. QED
      BY <1>2, <1>3, <3>2, <3>3, <3>4 DEF Types, ManagerTypes
  <2>2. CallTypes'
    BY <1>1, <1>2, <1>3 DEF Types, CallTypes, Fail, Continue
  <2>3. IdsEnough'
    <3>1. CASE Ok(a)
      <4> DEFINE S == {x \in todo : IdOf(x) = 0}
      <4>1. {x \in todo' : IdOf(x)' = 0} = S \ {h}
        <5>1. ASSUME NEW x \in todo, x # h PROVE IdOf(x)' = IdOf(x)
          <6>1. <<fam, x>> # <<fam, h>> /\ <<fam, x>> \in Members
            BY <1>3, <5>1 DEF Types, RequestTypes, CallTypes, Members
          <6>2. QED
            BY <1>2, <1>3, <6>1 DEF IdOf, Types, ManagerTypes
        <5>2. todo' = todo \ {h}
          BY <1>1, <3>1
        <5>3. QED
          BY <5>1, <5>2
      <4>2. IsFiniteSet(S) /\ Cardinality(S) \in Nat
        BY <1>3, RouteAssumption, FS_Subset, FS_CardinalityType DEF Types, CallTypes
      <4>3. Cardinality(S \ {h}) = IF h \in S THEN Cardinality(S) - 1 ELSE Cardinality(S)
        BY <4>2, FS_RemoveElement
      <4>4. (h \in S) <=> IdOf(h) = 0
        BY <1>2
      <4>5. nextId + Cardinality(S) <= MaxIds + 1
        BY <1>2, <1>3 DEF Types, IdsEnough
      <4> HIDE DEF S
      <4>6. nextId \in Nat /\ MaxIds \in Nat
        BY <1>3, RouteAssumption DEF Types, ManagerTypes
      <4>7. nextId' + Cardinality(S \ {h}) <= MaxIds + 1
        BY <1>2, <1>4, <4>2, <4>3, <4>4, <4>5, <4>6
      <4>8. QED
        BY <4>1, <4>7 DEF IdsEnough
    <3>2. CASE ~Ok(a)
      BY <1>1, <1>6, <3>2 DEF IdsEnough, Fail
    <3>3. QED
      BY <3>1, <3>2
  <2>4. QED
    BY <1>2, <1>3, <1>5, <2>1, <2>2, <2>3, RequestedTypes DEF Types
<1>10. Shape'
  <2>1. pc' \in {"resilient", "teardown"} /\ todo' \subseteq todo
        /\ (pc' = "teardown" => after' \in {"error", "standard"})
    BY <1>1, <1>6 DEF Fail, Continue
  <2>2. pc' = "teardown" /\ installed[fam] = "resilient" => failures' > 0
    <3>1. installed[fam] = "resilient" => lacks[fam] = "nothing"
      BY <1>3 DEF RouteInv, Shape, GroupsSupported, RequestTypes
    <3>2. pc' = "teardown" => ~Ok(a)
      BY <1>1 DEF Continue
    <3>3. QED
      BY <1>3, <1>5, <3>1, <3>2, FailedCounts
  <2>3. QED
    BY <1>2, <1>6, <2>1, <2>2 DEF RouteInv, Shape, CallShape, CleanupShape, GroupsSupported, hops
<1>11. Groups'
  <2>1. GroupFilled'
    BY <1>3, <1>5, <1>7, FilledStays DEF RouteInv, Groups, RequestTypes, Requested
  <2>2. ASSUME Ok(a), NEW x \in hops \ (todo \ {h}) PROVE HasObject(x)'
    <3>1. kernel'.objects = [kernel.objects EXCEPT ![id] = <<fam, h>>]
          /\ kernel.objects \in [Ids -> Members \cup {Nobody}]
      BY <1>3, <1>5, <2>2 DEF RequestTypes, KernelTypes
    <3>2. <<fam, x>> \in Members /\ <<fam, h>> \in Members /\ nhIds \in [Members -> 0..MaxIds]
      BY <1>3 DEF Types, RequestTypes, CallTypes, ManagerTypes, Members, hops
    <3>3. CASE x = h
      <4>1. IdOf(h)' = id
        BY <1>2, <3>2 DEF IdOf
      <4>2. id # 0
        BY <1>4 DEF Ids
      <4>3. kernel'.objects[id] = <<fam, h>>
        BY <1>4, <3>1
      <4>4. QED
        BY <1>2, <3>3, <4>1, <4>2, <4>3 DEF HasObject
    <3>4. CASE x # h
      <4>1. IdOf(x) # 0 /\ kernel.objects[IdOf(x)] = <<fam, x>>
        BY <1>2, <2>2, <3>4 DEF RouteInv, Groups, GroupReady, HasObject
      <4>2. IdOf(x)' = IdOf(x)
        BY <1>2, <3>2, <3>4 DEF IdOf
      <4>3. IdOf(x) # id
        BY <1>2, <1>3, <3>2, <3>4, OwnObject DEF IdOf, id
      <4>4. kernel'.objects[IdOf(x)] = kernel.objects[IdOf(x)]
        BY <3>1, <4>3
      <4>5. QED
        BY <1>2, <4>1, <4>2, <4>4 DEF HasObject
    <3>5. QED
      BY <3>3, <3>4
  <2>3. pc' = "resilient" => Ok(a) /\ todo' = todo \ {h}
    BY <1>1, <1>6 DEF Fail
  <2>4. pc' \notin {"route", "prune"} /\ hops' = hops
    BY <1>1, <1>2, <1>6 DEF Fail, Continue, hops
  <2>5. GroupReady'
    BY <2>2, <2>3, <2>4 DEF GroupReady
  <2>6. QED
    BY <2>1, <2>5 DEF Groups
<1>12. ASSUME SoundFallback PROVE NoFallbackTrap' /\ Installed'
  <2>1. NoFallbackTrap /\ Installed
    BY <1>12 DEF RouteInv, Record
  <2>2. Installed'
    BY <1>2, <1>5, <2>1 DEF Installed, Faithful, Requested
  <2>3. NoFallbackTrap'
    <3>1. CASE Ok(a)
      BY <1>1, <1>2, <2>1, <3>1 DEF NoFallbackTrap, Continue
    <3>2. CASE ~Ok(a)
      BY <1>1, <1>2, <1>5, <1>6, <1>12, <3>2, FallbackSafe
    <3>3. QED
      BY <3>1, <3>2
  <2>4. QED
    BY <2>2, <2>3
<1>13. KeepsRoute
  BY <1>3, <1>5, <1>8, QuietKeepsRoute
<1>14. Implements
  <2>1. PICK g \in Families : g = fam
    BY <1>3 DEF RequestTypes
  <2>2. Leads(g)' = Leads(g)
    BY <1>5, <1>7, SameLeads
  <2>3. pc' # "ok"
    BY <1>1, <1>6 DEF Fail, Continue
  <2>4. QED
    BY <1>8, <1>9, <2>1, <2>2, <2>3, WorkingImplements DEF RouteInv
<1>15. QED
  BY <1>9, <1>10, <1>11, <1>12, <1>13, <1>14 DEF RouteInv, Record

LEMMA EnsureGroupStep ==
  ASSUME RouteInv, EnsureGroup
  PROVE  RouteInv' /\ KeepsRoute /\ (SoundFallback => Implements)
<1> DEFINE ids == {IdOf(h) : h \in hops}
<1>1. PICK a \in SetGroup(ids) :
        /\ Get(a)
        /\ IF Ok(a) THEN Continue("route") ELSE Fail(a.how)
  BY DEF EnsureGroup
<1>2. /\ pc = "resilient" /\ hops # {} /\ todo = {} /\ installed[fam] # "standard"
      /\ mode' = mode /\ lacks' = lacks /\ others' = others /\ installed' = installed
      /\ nhIds' = nhIds /\ nextId' = nextId /\ todo' = todo
      /\ fam' = fam /\ wanted' = wanted /\ cleaning' = cleaning /\ left' = left /\ saw' = saw
      /\ inner' = inner
  BY DEF EnsureGroup, configVars, callVars
<1>3. RequestTypes /\ Types
  BY DEF RouteInv, Types
<1>4. \A h \in hops : HasObject(h) /\ h \in Hops
  BY <1>2, <1>3 DEF RouteInv, Groups, GroupReady, Types, RequestTypes, CallTypes, hops
<1>5. ids \in SUBSET Ids
  <2> SUFFICES ASSUME NEW h \in hops PROVE IdOf(h) \in Ids
    OBVIOUS
  <2>1. <<fam, h>> \in Members /\ IdOf(h) # 0
    BY <1>3, <1>4 DEF Members, HasObject, RequestTypes
  <2>2. IdOf(h) \in 0..MaxIds
    BY <1>3, <2>1 DEF IdOf, Types, ManagerTypes
  <2>3. QED
    BY <2>1, <2>2, RouteAssumption DEF Ids
<1> HIDE DEF ids
<1>6. /\ Requested(a)
      /\ Ok(a) => kernel'.group[fam] = ids /\ lacks[fam] = "nothing"
      /\ kernel'.group[fam] \in {kernel.group[fam], ids}
      /\ kernel'.std = kernel.std /\ kernel'.nh = kernel.nh
      /\ kernel'.objects = kernel.objects
      /\ a.how \in {"done", "rejected", "unacked"}
         \/ (a.how = "unsupported" /\ lacks[fam] # "nothing")
  BY <1>1, <1>3, <1>5, GroupRequest
<1>7. inner /\ cleaning = "no" /\ mode # "standard"
  BY <1>2 DEF RouteInv, Shape, CallShape
<1>8. Working
  BY <1>1, <1>2, <1>6, <1>7, SameObjects DEF Working, Requested, Fail, Continue
<1>9. Types'
  <2>1. ManagerTypes'
    BY <1>1, <1>2, <1>3 DEF Types, ManagerTypes, Fail, Continue
  <2>2. CallTypes' /\ IdsEnough'
    BY <1>1, <1>2, <1>3, <1>7 DEF Types, CallTypes, IdsEnough, Fail, Continue
  <2>3. QED
    BY <1>2, <1>3, <1>6, <2>1, <2>2, RequestedTypes DEF Types
<1>10. Shape'
  <2>1. \/ pc' = "route" /\ lacks[fam] = "nothing"
        \/ pc' = "teardown" /\ after' \in {"error", "standard"}
    BY <1>1, <1>6, <1>7 DEF Fail, Continue
  <2>2. pc' = "teardown" /\ installed[fam] = "resilient" => failures' > 0
    <3>1. installed[fam] = "resilient" => lacks[fam] = "nothing"
      BY <1>3 DEF RouteInv, Shape, GroupsSupported, RequestTypes
    <3>2. pc' = "teardown" => ~Ok(a)
      BY <1>1 DEF Continue
    <3>3. QED
      BY <1>3, <1>6, <3>1, <3>2, FailedCounts
  <2>3. QED
    BY <1>2, <1>7, <2>1, <2>2 DEF RouteInv, Shape, CallShape, CleanupShape, GroupsSupported, hops
<1>11. Groups'
  <2>1. GroupFilled'
    <3> SUFFICES ASSUME NEW f \in Families, NEW i \in kernel'.group[f]
                 PROVE  \E h \in Hops : kernel.objects[i] = <<f, h>>
      BY <1>6 DEF GroupFilled
    <3>1. CASE i \in kernel.group[f]
      BY <3>1 DEF RouteInv, Groups, GroupFilled
    <3>2. CASE i \notin kernel.group[f]
      <4>1. f = fam /\ i \in ids
        BY <1>6, <3>2 DEF Requested, SameElsewhere
      <4>2. QED
        BY <1>4, <4>1 DEF ids, HasObject
    <3>3. QED
      BY <3>1, <3>2
  <2>2. pc' = "route" => kernel'.group[fam] = ids
    BY <1>1, <1>6, <1>7 DEF Fail
  <2>3. pc' \in {"route", "teardown"}
    BY <1>1, <1>7 DEF Fail, Continue
  <2>4. hops' = hops /\ \A h : IdOf(h)' = IdOf(h) /\ (HasObject(h) => HasObject(h)')
    BY <1>2, <1>6 DEF hops, IdOf, HasObject
  <2>5. GroupReady'
    BY <1>2, <1>4, <2>2, <2>3, <2>4 DEF GroupReady, ids
  <2>6. QED
    BY <2>1, <2>5 DEF Groups
<1>12. ASSUME SoundFallback PROVE NoFallbackTrap' /\ Installed'
  <2>1. NoFallbackTrap /\ Installed
    BY <1>12 DEF RouteInv, Record
  <2>2. Installed'
    BY <1>2, <1>6, <2>1 DEF Installed, Faithful, Requested
  <2>3. NoFallbackTrap'
    <3>1. CASE Ok(a)
      BY <1>1, <1>2, <2>1, <3>1 DEF NoFallbackTrap, Continue
    <3>2. CASE ~Ok(a)
      BY <1>1, <1>2, <1>6, <1>7, <1>12, <3>2, FallbackSafe
    <3>3. QED
      BY <3>1, <3>2
  <2>4. QED
    BY <2>2, <2>3
<1>13. KeepsRoute
  BY <1>3, <1>6, <1>8, QuietKeepsRoute
<1>14. ASSUME SoundFallback PROVE Implements
  <2>1. Installed
    BY <1>14 DEF RouteInv, Record
  <2>2. PICK g \in Families : g = fam
    BY <1>3 DEF RequestTypes
  <2>3. ASSUME g \notin lost' PROVE Leads(g)' \in {Leads(g), hops}
    <3>1. CASE Ok(a) /\ kernel.nh[g]
      <4>1. kernel.std[g] = {}
        BY <1>6, <2>1, <2>2, <2>3, <3>1 DEF Requested, Installed, Faithful
      <4>2. Leads(g)' = kernel'.std[g] \cup hops
        BY <1>3, <1>4, <1>6, <2>2, <3>1, GroupLeads DEF ids, HasObject, Types, CallTypes
      <4>3. QED
        BY <1>6, <4>1, <4>2
    <3>2. CASE ~Ok(a) \/ ~kernel.nh[g]
      BY <1>6, <1>8, <2>2, <2>3, <3>2, SameLeads DEF Requested, Working
    <3>3. QED
      BY <3>1, <3>2
  <2>4. pc' # "ok"
    BY <1>1, <1>7 DEF Fail, Continue
  <2>5. QED
    BY <1>8, <1>9, <2>2, <2>3, <2>4, WorkingImplements DEF RouteInv
<1>15. QED
  BY <1>9, <1>10, <1>11, <1>12, <1>13, <1>14 DEF RouteInv, Record

LEMMA InstallNhRouteStep ==
  ASSUME RouteInv, InstallNhRoute
  PROVE  RouteInv' /\ KeepsRoute /\ (SoundFallback => Implements)
<1>1. PICK a \in SetNh(TRUE) :
        /\ Get(a)
        /\ IF Ok(a)
           THEN /\ Install("resilient")
                /\ todo' = Known(fam) \ hops
                /\ IF todo' = {} THEN Succeed ELSE Continue("prune")
           ELSE UNCHANGED <<installed, todo>> /\ Fail(a.how)
  BY DEF InstallNhRoute
<1>2. /\ pc = "route"
      /\ mode' = mode /\ lacks' = lacks /\ others' = others
      /\ nhIds' = nhIds /\ nextId' = nextId
      /\ fam' = fam /\ wanted' = wanted /\ cleaning' = cleaning /\ left' = left /\ saw' = saw
      /\ inner' = inner
  BY DEF InstallNhRoute, configVars, callVars
<1>3. RequestTypes /\ Types
  BY DEF RouteInv, Types
<1>4. /\ Requested(a)
      /\ Ok(a) => kernel'.nh[fam] = TRUE
      /\ kernel'.nh[fam] \in {kernel.nh[fam], TRUE}
      /\ kernel'.std = kernel.std /\ kernel'.group = kernel.group
      /\ kernel'.objects = kernel.objects
      /\ a.how \in {"done", "rejected", "unacked"}
  BY <1>1, <1>3, NhRequest
<1>5. inner /\ cleaning = "no" /\ mode # "standard" /\ hops # {} /\ lacks[fam] = "nothing"
      /\ installed[fam] # "standard"
  BY <1>2 DEF RouteInv, Shape, CallShape, GroupsSupported
<1>6. kernel.group[fam] = {IdOf(h) : h \in hops} /\ \A h \in hops : HasObject(h)
  BY <1>2 DEF RouteInv, Groups, GroupReady
<1>7. \/ /\ Ok(a) /\ Install("resilient") /\ todo' = Known(fam) \ hops /\ UNCHANGED after
         /\ \/ pc' = "ok" /\ todo' = {} /\ supported' \in {supported, "yes"}
            \/ pc' = "prune" /\ UNCHANGED supported
      \/ /\ ~Ok(a) /\ UNCHANGED <<installed, todo>> /\ Fail(a.how)
         /\ pc' = "teardown" /\ after' \in {"error", "standard"} /\ supported' \in {supported, "no"}
  BY <1>1, <1>5 DEF Fail, Continue, Succeed
<1>8. Working
  BY <1>2, <1>4, <1>5, <1>7, SameObjects DEF Working, Requested
<1>9. Types'
  <2>1. ManagerTypes'
    BY <1>2, <1>3, <1>7 DEF Types, ManagerTypes, RequestTypes, Install
  <2>2. CallTypes' /\ IdsEnough'
    BY <1>2, <1>3, <1>7 DEF Types, CallTypes, IdsEnough, Known
  <2>3. QED
    BY <1>2, <1>3, <1>4, <2>1, <2>2, RequestedTypes DEF Types
<1>10. Shape'
  <2>1. pc' = "teardown" => failures' > 0
    BY <1>3, <1>4, <1>7, FailedCounts
  <2>2. QED
    BY <1>2, <1>3, <1>5, <1>7, <2>1
       DEF RouteInv, Shape, CallShape, CleanupShape, GroupsSupported, hops, Known, Install, Types,
           RequestTypes, ManagerTypes
<1>11. Groups'
  <2>1. GroupFilled'
    BY <1>3, <1>4, <1>8, FilledStays DEF RouteInv, Groups, RequestTypes, Working
  <2>2. hops' = hops /\ \A h : IdOf(h)' = IdOf(h) /\ (HasObject(h) => HasObject(h)')
    BY <1>2, <1>4 DEF hops, IdOf, HasObject
  <2>3. pc' = "prune" => kernel'.nh[fam] /\ installed'[fam] = "resilient" /\ todo' \cap hops = {}
    BY <1>3, <1>4, <1>7 DEF Install, Types, ManagerTypes, RequestTypes
  <2>4. GroupReady'
    BY <1>2, <1>4, <1>6, <1>7, <2>2, <2>3 DEF GroupReady
  <2>5. QED
    BY <2>1, <2>4 DEF Groups
<1>12. ASSUME SoundFallback PROVE NoFallbackTrap' /\ Installed'
  <2>1. NoFallbackTrap /\ Installed
    BY <1>12 DEF RouteInv, Record
  <2>2. ASSUME NEW g \in Families, g = fam, g \notin lost' PROVE Faithful(g)'
    BY <1>3, <1>4, <1>5, <1>7, <2>1, <2>2
       DEF Installed, Faithful, Requested, Install, Types, ManagerTypes
  <2>3. Installed'
    BY <1>3, <1>4, <1>7, <2>1, <2>2, RecordStays
       DEF Types, ManagerTypes, RequestTypes, Requested, Install
  <2>4. NoFallbackTrap'
    <3>1. CASE Ok(a)
      BY <1>2, <1>7, <2>1, <3>1 DEF NoFallbackTrap
    <3>2. CASE ~Ok(a)
      BY <1>2, <1>4, <1>5, <1>7, <1>12, <3>2, FallbackSafe
    <3>3. QED
      BY <3>1, <3>2
  <2>5. QED
    BY <2>3, <2>4
<1>13. KeepsRoute
  <2>1. HasRoute(fam)' \/ ~HasRoute(fam)
    BY <1>2, <1>4 DEF HasRoute
  <2>2. QED
    BY <1>2, <1>3, <1>8, <2>1, KeepsRouteHere DEF RouteInv, RequestTypes
<1>14. ASSUME SoundFallback PROVE Implements
  <2>1. Installed
    BY <1>14 DEF RouteInv, Record
  <2>2. PICK g \in Families : g = fam
    BY <1>3 DEF RequestTypes
  <2>3. CASE Ok(a)
    <3>1. Leads(g)' = kernel'.std[g] \cup hops
      BY <1>3, <1>4, <1>6, <2>2, <2>3, GroupLeads DEF HasObject, Types, CallTypes
    <3>2. g \notin lost' => kernel'.std[g] = {}
      BY <1>4, <1>5, <2>1, <2>2 DEF Requested, Installed, Faithful
    <3>3. QED
      BY <1>8, <1>9, <2>2, <3>1, <3>2, WorkingImplements DEF RouteInv
  <2>4. CASE ~Ok(a)
    <3>1. g \notin lost' => Leads(g)' = Leads(g)
      BY <1>4, <2>2, <2>4 DEF Requested, Leads
    <3>2. QED
      BY <1>7, <1>8, <1>9, <2>2, <2>4, <3>1, WorkingImplements DEF RouteInv
  <2>5. QED
    BY <2>3, <2>4
<1>15. QED
  BY <1>9, <1>10, <1>11, <1>12, <1>13, <1>14 DEF RouteInv, Record

LEMMA TeardownRouteStep ==
  ASSUME RouteInv, TeardownRoute
  PROVE  RouteInv' /\ KeepsRoute /\ (SoundFallback => Implements)
<1>1. PICK a \in SetNh(FALSE) :
        /\ Get(a)
        /\ IF Ok(a) THEN Install("none") /\ pc' = "teardown" ELSE UNCHANGED installed /\ pc' = after
  BY DEF TeardownRoute
<1>2. /\ pc = "teardown" /\ installed[fam] = "resilient"
      /\ mode' = mode /\ lacks' = lacks /\ others' = others
      /\ nhIds' = nhIds /\ nextId' = nextId /\ supported' = supported
      /\ fam' = fam /\ wanted' = wanted /\ cleaning' = cleaning /\ left' = left /\ saw' = saw
      /\ inner' = inner /\ todo' = todo /\ after' = after
  BY DEF TeardownRoute, configVars, callVars
<1>3. RequestTypes /\ Types
  BY DEF RouteInv, Types
<1>4. /\ Requested(a)
      /\ Ok(a) => kernel'.nh[fam] = FALSE
      /\ kernel'.nh[fam] \in {kernel.nh[fam], FALSE}
      /\ kernel'.std = kernel.std /\ kernel'.group = kernel.group
      /\ kernel'.objects = kernel.objects
      /\ a.how \in {"done", "rejected", "unacked"}
  BY <1>1, <1>3, NhRequest
<1>5. /\ after \in {"ok", "error", "standard", "cleanup"}
      /\ (after = "cleanup") = (cleaning # "no")
      /\ after = "ok" => hops = {}
  BY <1>2, <1>3 DEF RouteInv, Shape, CallShape, CleanupShape, Types, CallTypes
<1>6. Working
  BY <1>1, <1>2, <1>4, <1>5, SameObjects DEF Working, Requested
<1>7. Types'
  <2>1. ManagerTypes'
    BY <1>1, <1>2, <1>3 DEF Types, RequestTypes, ManagerTypes, Install
  <2>2. CallTypes' /\ IdsEnough'
    BY <1>1, <1>2, <1>3, <1>5 DEF Types, CallTypes, IdsEnough
  <2>3. QED
    BY <1>2, <1>3, <1>4, <2>1, <2>2, RequestedTypes DEF Types
<1>8. Shape'
  BY <1>1, <1>2, <1>3, <1>5 DEF RouteInv, RequestTypes, Types, ManagerTypes, Shape, CallShape,
                    CleanupShape, GroupsSupported, Install, hops, Known
<1>9. Groups'
  BY <1>1, <1>3, <1>4, <1>5, <1>6, FilledStays DEF RouteInv, Groups, GroupReady, Working
<1>10. ASSUME SoundFallback PROVE NoFallbackTrap' /\ Installed'
  <2>1. NoFallbackTrap /\ Installed
    BY <1>10 DEF RouteInv, Record
  <2>2. ASSUME NEW g \in Families, g = fam, g \notin lost' PROVE Faithful(g)'
    BY <1>1, <1>2, <1>3, <1>4, <2>1, <2>2
       DEF Installed, Faithful, Requested, Install, Types, ManagerTypes
  <2>3. Installed'
    BY <1>1, <1>3, <1>4, <2>1, <2>2, RecordStays
       DEF Types, ManagerTypes, RequestTypes, Requested, Install
  <2>4. Ok(a) \/ after # "standard"
    BY <1>2, <1>3, <1>4, <2>1, RouteAssumption DEF NoFallbackTrap, Requested, RequestTypes, Ok
  <2>5. Ok(a) => installed'[fam] = "none"
    BY <1>1, <1>3 DEF Install, Types, RequestTypes, ManagerTypes
  <2>6. NoFallbackTrap'
    BY <1>1, <1>2, <1>5, <2>1, <2>4, <2>5 DEF NoFallbackTrap
  <2>7. QED
    BY <2>3, <2>6
<1>11. KeepsRoute
  <2>1. cleaning # "no" \/ saw \/ MakesWay(fam)
    BY <1>2 DEF RouteInv, Shape, CallShape, MakesWay
  <2>2. QED
    BY <1>3, <1>6, <2>1, KeepsRouteHere DEF RouteInv, RequestTypes
<1>12. ASSUME SoundFallback PROVE Implements
  <2>1. Installed
    BY <1>12 DEF RouteInv, Record
  <2>2. PICK g \in Families : g = fam
    BY <1>3 DEF RequestTypes
  <2>3. g \notin lost' => Leads(g)' \in {Leads(g), {}}
    <3>1. CASE Ok(a)
      BY <1>2, <1>4, <2>1, <2>2, <3>1, PlainLeads DEF Installed, Faithful, Requested
    <3>2. CASE ~Ok(a)
      BY <1>4, <2>2, <3>2 DEF Requested, Leads
    <3>3. QED
      BY <3>1, <3>2
  <2>4. pc' = "ok" => hops = {}
    BY <1>1, <1>5
  <2>5. QED
    BY <1>6, <1>7, <2>2, <2>3, <2>4, WorkingImplements DEF RouteInv
<1>13. QED
  BY <1>7, <1>8, <1>9, <1>10, <1>11, <1>12 DEF RouteInv, Record

LEMMA TeardownGroupStep ==
  ASSUME RouteInv, TeardownGroup
  PROVE  RouteInv' /\ KeepsRoute /\ Implements
<1>1. PICK a \in DropGroup : Get(a)
  BY DEF TeardownGroup
<1>2. /\ pc = "teardown" /\ installed[fam] # "resilient"
      /\ todo' = Known(fam) /\ pc' \in {after, "members"}
      /\ mode' = mode /\ lacks' = lacks /\ others' = others /\ installed' = installed
      /\ nhIds' = nhIds /\ nextId' = nextId /\ supported' = supported
      /\ fam' = fam /\ wanted' = wanted /\ cleaning' = cleaning /\ left' = left /\ saw' = saw
      /\ inner' = inner /\ after' = after
  BY DEF TeardownGroup, configVars, callVars, managerVars
<1>3. RequestTypes /\ Types
  BY DEF RouteInv, Types
<1>4. /\ Requested(a)
      /\ kernel'.std = kernel.std /\ kernel'.nh = kernel.nh
      /\ kernel'.objects = kernel.objects
      /\ kernel' = kernel \/ (kernel'.group[fam] = {} /\ ~kernel.nh[fam])
  BY <1>1, <1>3, DropGroupRequest
<1>5. /\ after \in {"ok", "error", "standard", "cleanup"}
      /\ (after = "cleanup") = (cleaning # "no")
      /\ after = "ok" => hops = {}
  BY <1>2, <1>3 DEF RouteInv, Shape, CallShape, CleanupShape, Types, CallTypes
<1>6. Working
  BY <1>1, <1>2, <1>4, <1>5, SameObjects DEF Working, Requested
<1>7. Types'
  <2>1. ManagerTypes'
    BY <1>2, <1>3 DEF Types, ManagerTypes
  <2>2. CallTypes' /\ IdsEnough'
    BY <1>2, <1>3, <1>5 DEF Types, CallTypes, IdsEnough, Known
  <2>3. QED
    BY <1>2, <1>3, <1>4, <2>1, <2>2, RequestedTypes DEF Types
<1>8. Shape'
  <2>1. Known(fam)' = Known(fam)
    BY <1>2 DEF Known
  <2>2. QED
    BY <1>2, <1>3, <1>5, <2>1
       DEF RouteInv, Shape, CallShape, CleanupShape, GroupsSupported, hops
<1>9. Groups'
  BY <1>2, <1>3, <1>4, <1>5, <1>6, FilledStays DEF RouteInv, Groups, GroupReady, Working
<1>10. ASSUME SoundFallback PROVE NoFallbackTrap' /\ Installed'
  BY <1>2, <1>4, <1>5, <1>10
     DEF RouteInv, Record, NoFallbackTrap, Installed, Faithful, Requested
<1>11. KeepsRoute
  BY <1>3, <1>4, <1>6, QuietKeepsRoute
<1>12. Implements
  <2>1. PICK g \in Families : g = fam
    BY <1>3 DEF RequestTypes
  <2>2. Leads(g)' = Leads(g)
    BY <1>4, <1>6, <2>1, SameLeads DEF Working
  <2>3. pc' = "ok" => hops = {}
    BY <1>2, <1>5
  <2>4. QED
    BY <1>6, <1>7, <2>1, <2>2, <2>3, WorkingImplements DEF RouteInv
<1>13. QED
  BY <1>7, <1>8, <1>9, <1>10, <1>11, <1>12 DEF RouteInv, Record

(* The deletion of an object that no route needs.                          *)
LEMMA DropMemberFacts ==
  ASSUME Inv, RouteInv, NEW h \in todo, todo \subseteq Known(fam), NEW a \in DropObject(IdOf(h)),
         DropMember(h, a), fam' = fam
  PROVE  /\ Requested(a) /\ ObjectsKept
         /\ kernel'.std = kernel.std /\ kernel'.nh = kernel.nh /\ kernel'.group = kernel.group
         /\ nhIds' \in [Members -> 0..MaxIds]
         /\ todo' = todo \ {h} /\ todo' \subseteq Known(fam)'
         /\ \A x \in Hops \ {h} : IdOf(x)' = IdOf(x) /\ (HasObject(x) => HasObject(x)')
<1>1. /\ RequestTypes /\ nhIds \in [Members -> 0..MaxIds] /\ h \in Hops /\ <<fam, h>> \in Members
      /\ kernel.objects \in [Ids -> Members \cup {Nobody}] /\ MaxIds \in Nat
  BY RouteAssumption DEF RouteInv, Types, RequestTypes, KernelTypes, ManagerTypes, CallTypes, Members
<1>2. IdOf(h) \in Ids /\ IdOf(h) # 0
  <2>1. IdOf(h) # 0
    BY DEF Known, IdOf
  <2>2. IdOf(h) \in 0..MaxIds
    BY <1>1 DEF IdOf
  <2>3. QED
    BY <1>1, <2>1, <2>2 DEF Ids
<1>3. /\ Get(a) /\ todo' = todo \ {h}
      /\ nhIds' = IF Ok(a) THEN [nhIds EXCEPT ![<<fam, h>>] = 0] ELSE nhIds
  BY DEF DropMember
<1>4. /\ Requested(a)
      /\ \/ kernel'.objects = kernel.objects
         \/ IdOf(h) \notin kernel.group[fam]
            /\ kernel'.objects = [kernel.objects EXCEPT ![IdOf(h)] = Nobody]
      /\ kernel'.std = kernel.std /\ kernel'.nh = kernel.nh
      /\ kernel'.group = kernel.group
  BY <1>1, <1>2, <1>3, DropObjectRequest
<1>5. ASSUME NEW m \in Members, m # <<fam, h>> PROVE nhIds'[m] = nhIds[m] /\ nhIds[m] # IdOf(h)
  BY <1>1, <1>2, <1>3, <1>5 DEF Inv, MembersKnown, IdOf
<1>6. ASSUME NEW i \in Ids, i # IdOf(h) PROVE kernel'.objects[i] = kernel.objects[i]
  BY <1>1, <1>4, <1>6
<1>7. ObjectsKept
  <2> SUFFICES ASSUME NEW f \in Families, NEW i \in kernel.group[f]
               PROVE  kernel'.objects[i] = kernel.objects[i]
    BY DEF ObjectsKept
  <2>1. i \in Ids
    BY <1>1 DEF RequestTypes, KernelTypes
  <2>2. CASE i # IdOf(h)
    BY <1>6, <2>1, <2>2
  <2>3. CASE i = IdOf(h)
    <3>1. PICK x \in Hops : kernel.objects[i] = <<f, x>>
      BY DEF RouteInv, Groups, GroupFilled
    <3>2. <<f, x>> \in Members /\ <<f, x>> # Nobody
      BY RouteAssumption DEF Members
    <3>3. nhIds[<<f, x>>] = i
      BY <2>1, <3>1, <3>2 DEF Inv, MembersKnown
    <3>4. f = fam
      BY <1>5, <2>3, <3>2, <3>3
    <3>5. QED
      BY <1>4, <2>3, <3>4
  <2>4. QED
    BY <2>2, <2>3
<1>8. ASSUME NEW x \in Hops \ {h}
      PROVE  IdOf(x)' = IdOf(x) /\ (HasObject(x) => HasObject(x)')
  <2>1. <<fam, x>> \in Members /\ <<fam, x>> # <<fam, h>>
    BY <1>1 DEF Members, RequestTypes
  <2>2. IdOf(x)' = IdOf(x) /\ IdOf(x) # IdOf(h) /\ IdOf(x) \in 0..MaxIds
    BY <1>1, <1>5, <2>1 DEF IdOf
  <2>3. IdOf(x) # 0 => IdOf(x) \in Ids
    BY <1>1, <2>2 DEF Ids
  <2>4. QED
    BY <1>6, <2>2, <2>3 DEF HasObject
<1>9. nhIds' \in [Members -> 0..MaxIds]
  BY <1>1, <1>3
<1>10. todo' \subseteq Known(fam)'
  <2> SUFFICES ASSUME NEW x \in todo \ {h} PROVE x \in Known(fam)'
    BY <1>3
  <2>1. x \in Hops \ {h} /\ IdOf(x) # 0
    BY DEF Known, IdOf
  <2>2. IdOf(x)' # 0
    BY <1>8, <2>1
  <2>3. QED
    BY <2>1, <2>2 DEF Known, IdOf
<1>11. QED
  BY <1>3, <1>4, <1>7, <1>8, <1>9, <1>10

LEMMA DropUnusedStep ==
  ASSUME Inv, RouteInv, NEW h \in Hops, DropUnused(h)
  PROVE  RouteInv' /\ KeepsRoute /\ (SoundFallback => Implements)
<1>1. PICK a \in DropObject(IdOf(h)) : DropMember(h, a)
  BY DEF DropUnused
<1>2. /\ pc = "prune" /\ h \in todo
      /\ mode' = mode /\ lacks' = lacks /\ others' = others /\ installed' = installed
      /\ nextId' = nextId
      /\ fam' = fam /\ wanted' = wanted /\ cleaning' = cleaning /\ left' = left /\ saw' = saw
      /\ inner' = inner
      /\ IF todo' = {} THEN Succeed ELSE Continue("prune")
  BY DEF DropUnused, configVars, callVars
<1>3. RequestTypes /\ Types
  BY DEF RouteInv, Types
<1>4. /\ inner /\ cleaning = "no" /\ mode # "standard" /\ hops # {} /\ todo \subseteq Known(fam)
      /\ kernel.group[fam] = {IdOf(x) : x \in hops} /\ \A x \in hops : HasObject(x)
      /\ kernel.nh[fam] /\ installed[fam] = "resilient" /\ todo \cap hops = {}
  BY <1>2 DEF RouteInv, Shape, CallShape, Groups, GroupReady
<1>5. /\ Requested(a) /\ ObjectsKept
      /\ kernel'.std = kernel.std /\ kernel'.nh = kernel.nh /\ kernel'.group = kernel.group
      /\ nhIds' \in [Members -> 0..MaxIds]
      /\ todo' = todo \ {h} /\ todo' \subseteq Known(fam)'
      /\ \A x \in Hops \ {h} : IdOf(x)' = IdOf(x) /\ (HasObject(x) => HasObject(x)')
  BY <1>1, <1>2, <1>4, DropMemberFacts
<1>6. /\ pc' \in {"ok", "prune"} /\ after' = after
      /\ supported' \in {supported, "yes"}
  BY <1>2, <1>4 DEF Succeed, Continue
<1>7. Working
  BY <1>2, <1>4, <1>5, <1>6 DEF Working, Requested
<1>8. Types'
  <2>1. ManagerTypes'
    BY <1>2, <1>3, <1>5, <1>6 DEF Types, ManagerTypes
  <2>2. CallTypes' /\ IdsEnough'
    BY <1>2, <1>3, <1>5, <1>6 DEF Types, CallTypes, IdsEnough
  <2>3. QED
    BY <1>2, <1>3, <1>5, <2>1, <2>2, RequestedTypes DEF Types
<1>9. Shape'
  BY <1>2, <1>3, <1>4, <1>5, <1>6
     DEF RouteInv, Shape, CallShape, CleanupShape, GroupsSupported, hops
<1>10. \A x \in hops : x \in Hops \ {h}
  BY <1>2, <1>3, <1>4 DEF hops, Types, RequestTypes, CallTypes
<1>11. Groups'
  <2>1. GroupFilled'
    BY <1>3, <1>5, <1>7, FilledStays DEF RouteInv, Groups, RequestTypes, Working
  <2>2. hops' = hops /\ kernel'.group[fam] = {IdOf(x)' : x \in hops}
        /\ \A x \in hops : HasObject(x)'
    BY <1>2, <1>4, <1>5, <1>10 DEF hops
  <2>3. GroupReady'
    BY <1>2, <1>4, <1>5, <1>6, <2>2 DEF GroupReady
  <2>4. QED
    BY <2>1, <2>3 DEF Groups
<1>12. ASSUME SoundFallback PROVE NoFallbackTrap' /\ Installed'
  BY <1>2, <1>5, <1>6, <1>12
     DEF RouteInv, Record, NoFallbackTrap, Installed, Faithful, Requested
<1>13. KeepsRoute
  BY <1>3, <1>5, <1>7, QuietKeepsRoute
<1>14. ASSUME SoundFallback PROVE Implements
  <2>1. Installed
    BY <1>14 DEF RouteInv, Record
  <2>2. PICK g \in Families : g = fam
    BY <1>3 DEF RequestTypes
  <2>3. \A x \in hops : kernel'.objects[IdOf(x)] = <<fam, x>>
    BY <1>2, <1>4, <1>5, <1>10 DEF HasObject
  <2>4. Leads(g)' = kernel'.std[g] \cup hops
    BY <1>3, <1>4, <1>5, <2>2, <2>3, GroupLeads DEF Types, CallTypes
  <2>5. g \notin lost' => kernel'.std[g] = {}
    BY <1>4, <1>5, <2>1, <2>2 DEF Requested, Installed, Faithful
  <2>6. QED
    BY <1>7, <1>8, <2>2, <2>4, <2>5, WorkingImplements DEF RouteInv
<1>15. QED
  BY <1>8, <1>9, <1>11, <1>12, <1>13, <1>14 DEF RouteInv, Record

LEMMA TeardownMemberStep ==
  ASSUME Inv, RouteInv, NEW h \in Hops, TeardownMember(h)
  PROVE  RouteInv' /\ KeepsRoute /\ Implements
<1>1. PICK a \in DropObject(IdOf(h)) : DropMember(h, a)
  BY DEF TeardownMember
<1>2. /\ pc = "members" /\ h \in todo
      /\ mode' = mode /\ lacks' = lacks /\ others' = others /\ installed' = installed
      /\ nextId' = nextId /\ supported' = supported
      /\ fam' = fam /\ wanted' = wanted /\ cleaning' = cleaning /\ left' = left /\ saw' = saw
      /\ inner' = inner /\ after' = after /\ pc' \in {after, "members"}
  BY DEF TeardownMember, configVars, callVars
<1>3. RequestTypes /\ Types
  BY DEF RouteInv, Types
<1>4. /\ todo \subseteq Known(fam)
      /\ after \in {"ok", "error", "standard", "cleanup"}
      /\ (after = "cleanup") = (cleaning # "no")
      /\ after = "ok" => hops = {}
  BY <1>2, <1>3 DEF RouteInv, Shape, CallShape, CleanupShape, Types, CallTypes
<1>5. /\ Requested(a) /\ ObjectsKept
      /\ kernel'.std = kernel.std /\ kernel'.nh = kernel.nh /\ kernel'.group = kernel.group
      /\ nhIds' \in [Members -> 0..MaxIds]
      /\ todo' = todo \ {h} /\ todo' \subseteq Known(fam)'
  BY <1>1, <1>2, <1>4, DropMemberFacts
<1>6. Working
  BY <1>2, <1>4, <1>5 DEF Working, Requested
<1>7. Types'
  <2>1. ManagerTypes'
    BY <1>2, <1>3, <1>5 DEF Types, ManagerTypes
  <2>2. CallTypes' /\ IdsEnough'
    BY <1>2, <1>3, <1>4, <1>5 DEF Types, CallTypes, IdsEnough
  <2>3. QED
    BY <1>2, <1>3, <1>5, <2>1, <2>2, RequestedTypes DEF Types
<1>8. Shape'
  BY <1>2, <1>3, <1>4, <1>5
     DEF RouteInv, Shape, CallShape, CleanupShape, GroupsSupported, hops
<1>9. Groups'
  BY <1>2, <1>3, <1>4, <1>5, <1>6, FilledStays DEF RouteInv, Groups, GroupReady, Working
<1>10. ASSUME SoundFallback PROVE NoFallbackTrap' /\ Installed'
  BY <1>2, <1>4, <1>5, <1>10
     DEF RouteInv, Record, NoFallbackTrap, Installed, Faithful, Requested
<1>11. KeepsRoute
  BY <1>3, <1>5, <1>6, QuietKeepsRoute
<1>12. Implements
  <2>1. PICK g \in Families : g = fam
    BY <1>3 DEF RequestTypes
  <2>2. Leads(g)' = Leads(g)
    BY <1>5, SameLeads
  <2>3. pc' = "ok" => hops = {}
    BY <1>2, <1>4
  <2>4. QED
    BY <1>6, <1>7, <2>1, <2>2, <2>3, WorkingImplements DEF RouteInv
<1>13. QED
  BY <1>7, <1>8, <1>9, <1>10, <1>11, <1>12 DEF RouteInv, Record

-----------------------------------------------------------------------------
(* Steps without a request.                                                *)

(* They leave the kernel and what is known of it alone.                    *)
NoRequest ==
  /\ mode' = mode /\ lacks' = lacks /\ kernel' = kernel /\ lost' = lost
  /\ installed' = installed /\ nhIds' = nhIds /\ nextId' = nextId /\ supported' = supported

LEMMA NoRequestKeeps ==
  ASSUME RouteInv, NoRequest
  PROVE  /\ KeepsRoute
         /\ GroupFilled'
         /\ SoundFallback => Installed'
         /\ \A f \in Families : installed'[f] = "resilient" => lacks'[f] = "nothing"
         /\ \A f \in Families : Leads(f)' = Leads(f)
<1>1. KeepsRoute
  BY DEF NoRequest, KeepsRoute, HasRoute
<1>2. GroupFilled'
  BY DEF NoRequest, GroupFilled, RouteInv, Groups
<1>3. SoundFallback => Installed'
  BY DEF NoRequest, Installed, Faithful, RouteInv, Record
<1>4. \A f \in Families : installed'[f] = "resilient" => lacks'[f] = "nothing"
  BY DEF NoRequest, RouteInv, Shape, GroupsSupported
<1>5. \A f \in Families : Leads(f)' = Leads(f)
  BY DEF NoRequest, Leads
<1>6. QED
  BY <1>1, <1>2, <1>3, <1>4, <1>5

LEMMA ApplyStep ==
  ASSUME RouteInv, NEW f \in Families, NEW hs \in SUBSET Hops, Apply(f, hs)
  PROVE  RouteInv' /\ KeepsRoute /\ Implements
<1>1. /\ pc = "idle" /\ fam' = f /\ wanted' = [wanted EXCEPT ![f] = hs]
      /\ inner' = (mode = "resilient" \/ (mode = "auto" /\ supported # "no"))
      /\ todo' = hs /\ after' = "standard" /\ failures' = 0 /\ saw' = FALSE
      /\ others' = others /\ cleaning' = cleaning /\ left' = left
      /\ IdsLeft(f, hs)
      /\ NoRequest
  BY DEF Apply, NoRequest, configVars, managerVars
<1>2. \/ pc' = "resilient" /\ mode # "standard" /\ inner' = TRUE
      \/ /\ pc' \in {"teardown", "standard"} /\ inner' = FALSE
         /\ mode = "standard" \/ (mode = "auto" /\ supported = "no" /\ pc' = "standard")
  BY RouteAssumption DEF Apply, RouteInv, Types, ManagerTypes
<1>3. RequestTypes /\ ManagerTypes /\ CallTypes
  BY DEF RouteInv, Types
<1>4. hops' = hs /\ cleaning = "no"
  BY <1>1, <1>3 DEF hops, CallTypes, RouteInv, Shape, CleanupShape
<1>5. Types'
  <2>1. RequestTypes' /\ ManagerTypes'
    BY <1>1, <1>3, RouteAssumption DEF RequestTypes, ManagerTypes, NoRequest
  <2>2. CallTypes'
    BY <1>1, <1>2, <1>3 DEF CallTypes
  <2>3. IdsEnough'
    <3>1. {h \in todo' : IdOf(h)' = 0} = hs \ Known(f)
      BY <1>1 DEF IdOf, Known, NoRequest
    <3>2. QED
      BY <1>1, <3>1 DEF IdsEnough, IdsLeft, NoRequest
  <2>4. QED
    BY <2>1, <2>2, <2>3 DEF Types
<1>6. mode = "standard" => \A g \in Families : installed[g] # "resilient"
  BY DEF RouteInv, Shape, CallShape
<1>7. Shape'
  BY <1>1, <1>2, <1>4, <1>6, NoRequestKeeps
     DEF Shape, CallShape, CleanupShape, GroupsSupported, NoRequest
<1>8. Groups'
  BY <1>1, <1>2, <1>4, NoRequestKeeps DEF Groups, GroupReady
<1>9. ASSUME SoundFallback PROVE NoFallbackTrap' /\ Installed'
  <2>1. NoFallbackTrap
    BY <1>9 DEF RouteInv, Record
  <2>2. pc' \in {"teardown", "standard"} => installed[f] # "resilient"
    BY <1>2, <1>6, <2>1 DEF NoFallbackTrap, RouteInv, Shape, GroupsSupported
  <2>3. NoFallbackTrap'
    BY <1>1, <1>2, <2>1, <2>2 DEF NoFallbackTrap, NoRequest
  <2>4. QED
    BY <1>1, <1>9, <2>3, NoRequestKeeps
<1>10. Implements
  <2> SUFFICES ASSUME NEW g \in Families PROVE [Default(g)!Next]_(Default(g)!vars)
    BY DEF Implements
  <2>1. AnswerTo(g) = "none" /\ Leads(g)' = Leads(g) /\ (g \notin lost') = (g \notin lost)
    BY <1>1, NoRequestKeeps DEF AnswerTo, NoRequest
  <2>2. CASE g = f
    <3>1. AnswerTo(g)' = "pending"
      BY <1>1, <1>2, <2>2 DEF AnswerTo
    <3>2. wanted'[g] = hs
      BY <1>1, <1>3, <2>2 DEF CallTypes
    <3>3. Default(g)!Ask(hs)
      BY <2>1, <3>1, <3>2 DEF Default!Ask
    <3>4. QED
      BY <3>3 DEF Default!Next
  <2>3. CASE g # f
    <3>1. AnswerTo(g)' = "none"
      BY <1>1, <1>4, <2>3 DEF AnswerTo
    <3>2. wanted'[g] = wanted[g]
      BY <1>1, <1>3, <2>3 DEF CallTypes
    <3>3. QED
      BY <2>1, <3>1, <3>2 DEF Default!vars
  <2>4. QED
    BY <2>2, <2>3
<1>11. QED
  BY <1>1, <1>5, <1>7, <1>8, <1>9, <1>10, NoRequestKeeps DEF RouteInv, Record

LEMMA ReportStep ==
  ASSUME RouteInv, Report
  PROVE  RouteInv' /\ KeepsRoute /\ Implements
<1>1. /\ pc \in {"ok", "error"} /\ pc' = "idle"
      /\ fam' = fam /\ wanted' = wanted /\ inner' = inner /\ todo' = todo /\ after' = after
      /\ failures' = failures /\ saw' = saw
      /\ others' = others /\ cleaning' = cleaning /\ left' = left
      /\ NoRequest
  BY DEF Report, NoRequest, configVars, managerVars, callVars
<1>2. cleaning = "no"
  BY <1>1 DEF RouteInv, Shape, CleanupShape
<1>3. Types'
  BY <1>1 DEF RouteInv, Types, RequestTypes, ManagerTypes, CallTypes, IdsEnough, NoRequest
<1>4. Shape'
  BY <1>1, <1>2, NoRequestKeeps
     DEF RouteInv, Shape, CallShape, CleanupShape, GroupsSupported, NoRequest
<1>5. Groups'
  BY <1>1, NoRequestKeeps DEF Groups, GroupReady
<1>6. Record'
  BY <1>1, NoRequestKeeps DEF RouteInv, Record, NoFallbackTrap, NoRequest
<1>7. Implements
  <2> SUFFICES ASSUME NEW g \in Families PROVE [Default(g)!Next]_(Default(g)!vars)
    BY DEF Implements
  <2>1. /\ Leads(g)' = Leads(g) /\ (g \notin lost') = (g \notin lost) /\ wanted'[g] = wanted[g]
        /\ AnswerTo(g)' = "none"
    BY <1>1, NoRequestKeeps DEF NoRequest, AnswerTo
  <2>2. AnswerTo(g) \in {"none", "ok", "error"}
    BY <1>1, <1>2 DEF AnswerTo
  <2>3. CASE AnswerTo(g) = "none"
    BY <2>1, <2>3 DEF Default!vars
  <2>4. CASE AnswerTo(g) \in {"ok", "error"}
    <3>1. Default(g)!Deliver
      BY <2>1, <2>4 DEF Default!Deliver
    <3>2. QED
      BY <3>1 DEF Default!Next
  <2>5. QED
    BY <2>2, <2>3, <2>4
<1>8. QED
  BY <1>1, <1>3, <1>4, <1>5, <1>6, <1>7, NoRequestKeeps DEF RouteInv

LEMMA CleanupStep ==
  ASSUME RouteInv, Cleanup
  PROVE  RouteInv' /\ KeepsRoute /\ Implements
<1>1. /\ pc = "idle" /\ pc' = "cleanup" /\ cleaning' = "routes" /\ left' = Families
      /\ wanted' = [f \in Families |-> {}]
      /\ inner' = FALSE /\ failures' = 0 /\ saw' = FALSE
      /\ fam' = fam /\ todo' = todo /\ after' = after /\ others' = others
      /\ NoRequest
  BY DEF Cleanup, NoRequest, configVars, managerVars
<1>2. Types'
  <2>1. RequestTypes' /\ ManagerTypes'
    BY <1>1, RouteAssumption DEF RouteInv, Types, RequestTypes, ManagerTypes, NoRequest
  <2>2. wanted' \in [Families -> SUBSET Hops]
    BY <1>1
  <2>3. CallTypes' /\ IdsEnough'
    BY <1>1, <2>2 DEF RouteInv, Types, CallTypes, IdsEnough
  <2>4. QED
    BY <2>1, <2>3 DEF Types
<1>3. Shape'
  BY <1>1, NoRequestKeeps
     DEF RouteInv, Shape, CallShape, CleanupShape, GroupsSupported, NoRequest
<1>4. Groups'
  BY <1>1, NoRequestKeeps DEF Groups, GroupReady
<1>5. Record'
  BY <1>1, NoRequestKeeps DEF RouteInv, Record, NoFallbackTrap, NoRequest
<1>6. Implements
  <2> SUFFICES ASSUME NEW g \in Families PROVE [Default(g)!Next]_(Default(g)!vars)
    BY DEF Implements
  <2>1. /\ Leads(g)' = Leads(g) /\ (g \notin lost') = (g \notin lost) /\ wanted'[g] = {}
        /\ AnswerTo(g) = "none" /\ AnswerTo(g)' = "pending"
    BY <1>1, NoRequestKeeps DEF NoRequest, AnswerTo
  <2>2. Default(g)!Ask({})
    BY <2>1 DEF Default!Ask
  <2>3. QED
    BY <2>2 DEF Default!Next
<1>7. QED
  BY <1>1, <1>2, <1>3, <1>4, <1>5, <1>6, NoRequestKeeps DEF RouteInv

(* The cleanup walks from family to family.                                *)
LEMMA CleanupWalks ==
  ASSUME RouteInv,
         CleanupGroups \/ \E f \in Families : CleanupRoute(f) \/ CleanupGroup(f)
  PROVE  RouteInv' /\ KeepsRoute /\ Implements
<1>1. /\ pc = "cleanup" /\ cleaning # "no" /\ cleaning' \in {"routes", "groups"}
      /\ \/ pc' = "cleanup"
         \/ pc' = "remove" /\ UNCHANGED after
         \/ pc' = "teardown" /\ after' = "cleanup"
      /\ after' \in {after, "cleanup"} /\ fam' \in Families /\ left' \subseteq Families
      /\ wanted' = wanted /\ inner' = inner /\ todo' = todo
      /\ failures' = failures /\ saw' = saw /\ others' = others
      /\ NoRequest
  BY DEF CleanupGroups, CleanupRoute, CleanupGroup, NoRequest, configVars, managerVars, RouteInv,
         Types, RequestTypes, CallTypes
<1>2. Types'
  BY <1>1 DEF RouteInv, Types, RequestTypes, ManagerTypes, CallTypes, IdsEnough, NoRequest
<1>3. ~inner /\ \A f \in Families : wanted[f] = {}
  BY <1>1 DEF RouteInv, Shape, CallShape, CleanupShape
<1>4. Shape'
  BY <1>1, <1>3, NoRequestKeeps
     DEF RouteInv, Shape, CallShape, CleanupShape, GroupsSupported, NoRequest, hops
<1>5. Groups'
  BY <1>1, NoRequestKeeps DEF Groups, GroupReady
<1>6. Record'
  BY <1>1, NoRequestKeeps DEF RouteInv, Record, NoFallbackTrap, NoRequest
<1>7. Implements
  <2> SUFFICES ASSUME NEW g \in Families PROVE UNCHANGED Default(g)!vars
    BY DEF Implements
  <2>1. Leads(g)' = Leads(g) /\ (g \notin lost') = (g \notin lost) /\ wanted'[g] = wanted[g]
    BY <1>1, NoRequestKeeps DEF NoRequest
  <2>2. AnswerTo(g) = "pending" /\ AnswerTo(g)' = "pending"
    BY <1>1 DEF AnswerTo
  <2>3. QED
    BY <2>1, <2>2 DEF Default!vars
<1>8. QED
  BY <1>1, <1>2, <1>4, <1>5, <1>6, <1>7, NoRequestKeeps DEF RouteInv

LEMMA CleanupEndsStep ==
  ASSUME RouteInv, CleanupEnds
  PROVE  RouteInv' /\ KeepsRoute /\ Implements
<1>1. /\ pc = "cleanup" /\ cleaning = "groups" /\ pc' = "stopped"
      /\ fam' = fam /\ wanted' = wanted /\ inner' = inner /\ todo' = todo /\ after' = after
      /\ failures' = failures /\ saw' = saw
      /\ others' = others /\ cleaning' = cleaning /\ left' = left
      /\ NoRequest
  BY DEF CleanupEnds, NoRequest, configVars, managerVars, callVars
<1>2. Types'
  BY <1>1 DEF RouteInv, Types, RequestTypes, ManagerTypes, CallTypes, IdsEnough, NoRequest
<1>3. \A f \in Families : wanted[f] = {}
  BY <1>1 DEF RouteInv, Shape, CleanupShape
<1>4. Shape'
  BY <1>1, NoRequestKeeps
     DEF RouteInv, Shape, CallShape, CleanupShape, GroupsSupported, NoRequest
<1>5. Groups'
  BY <1>1, NoRequestKeeps DEF Groups, GroupReady
<1>6. Record'
  BY <1>1, NoRequestKeeps DEF RouteInv, Record, NoFallbackTrap, NoRequest
<1>7. Implements
  <2> SUFFICES ASSUME NEW g \in Families PROVE [Default(g)!Next]_(Default(g)!vars)
    BY DEF Implements
  <2>1. /\ Leads(g)' = Leads(g) /\ (g \notin lost') = (g \notin lost) /\ wanted'[g] = wanted[g]
        /\ AnswerTo(g) = "pending" /\ AnswerTo(g)' = "none" /\ wanted[g] = {}
    BY <1>1, <1>3, NoRequestKeeps DEF NoRequest, AnswerTo
  <2>2. Default(g)!Stop
    BY <2>1 DEF Default!Stop
  <2>3. QED
    BY <2>2 DEF Default!Next
<1>8. QED
  BY <1>1, <1>2, <1>4, <1>5, <1>6, <1>7, NoRequestKeeps DEF RouteInv

(* Other programs, and steps in which nothing happens.                     *)
LEMMA OutsideStep ==
  ASSUME RouteInv, (\E f \in Families : OthersChange(f)) \/ UNCHANGED vars
  PROVE  RouteInv' /\ KeepsRoute /\ Implements
<1>1. /\ pc' = pc /\ others' \subseteq Families
      /\ fam' = fam /\ wanted' = wanted /\ inner' = inner /\ todo' = todo /\ after' = after
      /\ failures' = failures /\ saw' = saw /\ cleaning' = cleaning /\ left' = left
      /\ NoRequest
  BY DEF OthersChange, vars, NoRequest, configVars, managerVars, callVars, RouteInv, Types,
         ManagerTypes
<1>2. IdsEnough'
  BY <1>1 DEF RouteInv, Types, IdsEnough, IdOf, NoRequest
<1>3. Types'
  BY <1>1, <1>2 DEF RouteInv, Types, RequestTypes, ManagerTypes, CallTypes, NoRequest
<1>4. hops' = hops /\ Known(fam)' = Known(fam)
  BY <1>1 DEF hops, Known, NoRequest
<1>5. Shape'
  BY <1>1, <1>4 DEF RouteInv, Shape, CallShape, CleanupShape, GroupsSupported, NoRequest
<1>6. Groups'
  <2>1. \A h : IdOf(h)' = IdOf(h) /\ (HasObject(h) => HasObject(h)')
    BY <1>1 DEF IdOf, HasObject, NoRequest
  <2>2. GroupReady'
    BY <1>1, <1>4, <2>1 DEF RouteInv, Groups, GroupReady, NoRequest
  <2>3. QED
    BY <1>1, <2>2, NoRequestKeeps DEF Groups
<1>7. Record'
  BY <1>1, NoRequestKeeps DEF RouteInv, Record, NoFallbackTrap, NoRequest
<1>8. Implements
  <2> SUFFICES ASSUME NEW g \in Families PROVE UNCHANGED Default(g)!vars
    BY DEF Implements
  <2>1. Leads(g)' = Leads(g) /\ (g \notin lost') = (g \notin lost) /\ AnswerTo(g)' = AnswerTo(g)
    BY <1>1, NoRequestKeeps DEF NoRequest, AnswerTo
  <2>2. QED
    BY <1>1, <2>1 DEF Default!vars
<1>9. QED
  BY <1>1, <1>3, <1>5, <1>6, <1>7, <1>8, NoRequestKeeps DEF RouteInv

-----------------------------------------------------------------------------
(* The theorems.                                                           *)

LEMMA InitRouteInv == Init => Inv /\ RouteInv
<1> SUFFICES ASSUME Init PROVE Inv /\ RouteInv
  OBVIOUS
<1>1. RequestTypes
  BY RouteAssumption DEF Init, RequestTypes, KernelTypes, EmptyKernel
<1>2. ManagerTypes
  <2>1. MaxIds \in Nat
    BY RouteAssumption
  <2>2. nhIds \in [Members -> 0..MaxIds] /\ nextId \in 1..(MaxIds + 1)
    BY <2>1 DEF Init
  <2>3. installed \in [Families -> {"none", "standard", "resilient"}]
    BY DEF Init
  <2>4. QED
    BY <2>2, <2>3 DEF Init, ManagerTypes
<1>3. CallTypes
  <2>1. wanted \in [Families -> SUBSET Hops]
    BY DEF Init
  <2>2. QED
    BY <2>1 DEF Init, CallTypes
<1>4. Types
  BY <1>1, <1>2, <1>3 DEF Init, Types, IdsEnough
<1>5. Shape
  BY DEF Init, Shape, CallShape, CleanupShape, GroupsSupported
<1>6. Groups
  BY DEF Init, Groups, GroupFilled, GroupReady, EmptyKernel
<1>7. Record
  BY DEF Init, Record, NoFallbackTrap, Installed, Faithful, EmptyKernel
<1>8. QED
  BY <1>4, <1>5, <1>6, <1>7, InitInv DEF RouteInv

LEMMA RouteStep ==
  ASSUME Inv, RouteInv, [Next]_vars
  PROVE  RouteInv' /\ KeepsRoute /\ (SoundFallback => Implements)
<1>1. ASSUME NEW f \in Families, NEW hs \in SUBSET Hops, Apply(f, hs)
      PROVE  RouteInv' /\ KeepsRoute /\ (SoundFallback => Implements)
  BY <1>1, ApplyStep
<1>2. ASSUME NEW h \in Hops, EnsureMember(h) \/ DropUnused(h) \/ TeardownMember(h)
      PROVE  RouteInv' /\ KeepsRoute /\ (SoundFallback => Implements)
  BY <1>2, EnsureMemberRouteStep, DropUnusedStep, TeardownMemberStep
<1>3. CASE ApplyStandard \/ LinksDown \/ RemoveNhRoute \/ RemoveStandard
  BY <1>3, ApplyStandardStep, LinksDownStep, RemoveNhRouteStep, RemoveStandardStep
<1>4. CASE LeaveStandard \/ EnsureGroup \/ InstallNhRoute
  BY <1>4, LeaveStandardStep, EnsureGroupStep, InstallNhRouteStep
<1>5. CASE TeardownRoute \/ TeardownGroup \/ Report
  BY <1>5, TeardownRouteStep, TeardownGroupStep, ReportStep
<1>6. CASE CleaningUp
  BY <1>6, CleanupStep, CleanupWalks, CleanupEndsStep DEF CleaningUp
<1>7. CASE (\E f \in Families : OthersChange(f)) \/ UNCHANGED vars
  BY <1>7, OutsideStep
<1>8. QED
  BY <1>1, <1>2, <1>3, <1>4, <1>5, <1>6, <1>7 DEF Next, Updating

LEMMA RouteInvAlways == Spec => [](Inv /\ RouteInv)
<1>1. (Inv /\ RouteInv) /\ [Next]_vars => (Inv /\ RouteInv)'
  BY NextInv, RouteStep
<1>2. QED
  BY <1>1, InitRouteInv, PTL DEF Spec

(* Every variable keeps its type; the ids handed out never exceed MaxIds   *)
(* as long as a call starts only with ids left for it (alloc_nh_id).       *)
THEOREM RouteTypes == Spec => []TypeOK
<1>1. Inv /\ RouteInv => TypeOK
  BY TypesSplit DEF RouteInv, Types
<1>2. QED
  BY <1>1, RouteInvAlways, PTL

(* Whatever fails and however often: the last default route of a family    *)
(* goes only at exit, after another program's default route was seen, when *)
(* the plain route makes way for a group, or after a request of an update  *)
(* in "auto" or "resilient" mode has failed (handle_all_links_down,        *)
(* apply_resilient, apply_resilient_with_teardown).                        *)
THEOREM LastRouteIsKept == Spec => LastRouteKept
<1>1. ASSUME Inv, RouteInv, [Next]_vars
      PROVE  [ \A f \in Families :
                 HasRoute(f) /\ ~HasRoute(f)' =>
                   cleaning # "no" \/ saw \/ MakesWay(f) ]_vars
  BY <1>1, RouteStep DEF KeepsRoute
<1>2. QED
  BY <1>1, RouteInvAlways, PTL DEF Spec, LastRouteKept

(* Unless "auto" can fall back over a route it could not remove, no family *)
(* ever has a plain route and a route over a group at the same time, as    *)
(* long as no acknowledgement for it was lost (apply_resilient,            *)
(* teardown_resilient).                                                    *)
THEOREM NeverTwoRoutes == ASSUME SoundFallback PROVE Spec => []OneRoute
<1>1. ASSUME RouteInv PROVE OneRoute
  <2> SUFFICES ASSUME NEW f \in Families, f \notin lost
               PROVE  kernel.std[f] = {} \/ ~kernel.nh[f]
    BY DEF OneRoute
  <2>1. Faithful(f)
    BY <1>1 DEF RouteInv, Record, Installed
  <2>2. QED
    BY <2>1 DEF Faithful
<1>2. QED
  BY <1>1, RouteInvAlways, PTL

(* Under the same condition the default route of every family implements   *)
(* DefaultRoute: traffic moves from the old next hops to the new ones at   *)
(* once or through a moment without a route, and an update answered "ok"   *)
(* has taken effect (apply_default_routes, cleanup_routes).                *)
THEOREM RoutesImplement == ASSUME SoundFallback PROVE Spec => RoutesImplemented
<1>1. ASSUME Init PROVE \A f \in Families : Default(f)!Init
  <2> SUFFICES ASSUME NEW f \in Families PROVE Default(f)!Init
    OBVIOUS
  <2>1. AnswerTo(f) = "none" /\ Leads(f) = {}
    BY <1>1 DEF Init, AnswerTo, Leads, EmptyKernel
  <2>2. QED
    BY <1>1, <2>1 DEF Init, Default!Init
<1>2. ASSUME Inv, RouteInv, [Next]_vars
      PROVE  [\A f \in Families : [Default(f)!Next]_(Default(f)!vars)]_vars
  BY <1>2, RouteStep DEF Implements
<1>3. QED
  BY <1>1, <1>2, RouteInvAlways, PTL DEF Spec, RoutesImplemented
=============================================================================
