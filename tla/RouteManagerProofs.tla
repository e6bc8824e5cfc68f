------------------------- MODULE RouteManagerProofs -------------------------
(***************************************************************************)
(* Proof that RouteManager never loses sight of a nexthop object: for any  *)
(* families, next hops, modes, kernels, and any number of failures, of     *)
(* either kind.                                                            *)
(***************************************************************************)
EXTENDS RouteManager, TLAPS

(* A kernel as far as the argument needs it.                               *)
KernelShape(k) ==
  /\ k = [std |-> k.std, nh |-> k.nh, group |-> k.group, objects |-> k.objects]
  /\ k.objects \in [Ids -> Members \cup {Nobody}]

(* The part of the state the argument is about, with its types.            *)
RegistryTypes ==
  /\ KernelShape(kernel)
  /\ nhIds \in [Members -> Nat]
  /\ nextId \in Nat \ {0}
  /\ fam \in Families

(* Ids are handed out in increasing order: nextId is fresh.                *)
NextIdFresh == \A m \in Members : nhIds[m] < nextId

Inv == RegistryTypes /\ NextIdFresh /\ MembersKnown

LEMMA InitInv == Init => Inv
<1> SUFFICES ASSUME Init PROVE Inv
  OBVIOUS
<1>1. RegistryTypes
  BY RouteAssumption DEF Init, RegistryTypes, EmptyKernel, KernelShape
<1>2. NextIdFresh
  BY DEF Init, NextIdFresh
<1>3. MembersKnown
  BY DEF Init, MembersKnown, EmptyKernel
<1> QED BY <1>1, <1>2, <1>3 DEF Inv

(* A request about a route or a group leaves the objects alone.            *)
LEMMA RoutesKeepObjects ==
  ASSUME KernelShape(kernel), NEW there, NEW hs, NEW ids,
         NEW a \in SetStd(hs) \cup SetNh(there) \cup SetGroup(ids) \cup DropGroup
  PROVE  KernelShape(a.kernel) /\ a.kernel.objects = kernel.objects
<1>1. ASSUME NEW k, KernelShape(k), k.objects = kernel.objects, a \in Done(k)
      PROVE  KernelShape(a.kernel) /\ a.kernel.objects = kernel.objects
  BY <1>1 DEF Done, Answer
<1>2. ASSUME NEW why, a \in Refused(why)
      PROVE  KernelShape(a.kernel) /\ a.kernel.objects = kernel.objects
  BY <1>2 DEF Refused, Answer
<1>3. CASE a \in SetStd(hs)
  <2>1. KernelShape([kernel EXCEPT !.std[fam] = hs])
        /\ [kernel EXCEPT !.std[fam] = hs].objects = kernel.objects
    BY DEF KernelShape
  <2> QED BY <2>1, <1>1, <1>3 DEF SetStd
<1>4. CASE a \in SetNh(there)
  <2>1. KernelShape([kernel EXCEPT !.nh[fam] = there])
        /\ [kernel EXCEPT !.nh[fam] = there].objects = kernel.objects
    BY DEF KernelShape
  <2> QED BY <2>1, <1>1, <1>4 DEF SetNh
<1>5. CASE a \in SetGroup(ids)
  <2>1. KernelShape([kernel EXCEPT !.group[fam] = ids])
        /\ [kernel EXCEPT !.group[fam] = ids].objects = kernel.objects
    BY DEF KernelShape
  <2> QED BY <2>1, <1>1, <1>2, <1>5 DEF SetGroup
<1>6. CASE a \in DropGroup
  <2>1. KernelShape([kernel EXCEPT !.group[fam] = {}])
        /\ [kernel EXCEPT !.group[fam] = {}].objects = kernel.objects
    BY DEF KernelShape
  <2> QED BY <2>1, <1>1, <1>2, <1>6 DEF DropGroup, Unsure
<1> QED BY <1>3, <1>4, <1>5, <1>6

(* A step that changes neither objects nor ids.                            *)
LEMMA RoutesStep ==
  ASSUME Inv, KernelShape(kernel'), kernel'.objects = kernel.objects,
         UNCHANGED <<nhIds, nextId>>, fam' \in Families
  PROVE  Inv'
BY DEF Inv, KernelShape, RegistryTypes, NextIdFresh, MembersKnown

(* A request about an object leaves a kernel, with one object changed.     *)
LEMMA OneObject ==
  ASSUME KernelShape(kernel), NEW i, NEW x \in Members \cup {Nobody}
  PROVE  /\ KernelShape([kernel EXCEPT !.objects[i] = x])
         /\ [kernel EXCEPT !.objects[i] = x].objects = [kernel.objects EXCEPT ![i] = x]
<1> DEFINE os == [kernel.objects EXCEPT ![i] = x]
           k  == [kernel EXCEPT !.objects[i] = x]
<1>1. kernel = [std |-> kernel.std, nh |-> kernel.nh, group |-> kernel.group,
                objects |-> kernel.objects]
      /\ kernel.objects \in [Ids -> Members \cup {Nobody}]
  BY DEF KernelShape
<1>2. os \in [Ids -> Members \cup {Nobody}]
  BY <1>1
<1>3. k = [std |-> kernel.std, nh |-> kernel.nh, group |-> kernel.group, objects |-> os]
  BY <1>1
<1> QED BY <1>2, <1>3 DEF KernelShape

LEMMA EnsureMemberStep == ASSUME Inv, NEW h \in Hops, EnsureMember(h) PROVE Inv'
<1> DEFINE id == AllocId(h)
           m  == <<fam, h>>
<1>1. /\ m \in Members /\ KernelShape(kernel) /\ nhIds \in [Members -> Nat]
      /\ nextId \in Nat \ {0} /\ fam \in Families
  BY DEF Inv, RegistryTypes, Members
<1>2. /\ nhIds' = [nhIds EXCEPT ![m] = id]
      /\ nextId' = IF id = nextId THEN nextId + 1 ELSE nextId
      /\ fam' = fam
  BY DEF EnsureMember, callVars
<1>3. /\ id \in Nat \ {0}
      /\ id = nextId \/ (id = nhIds[m] /\ id < nextId)
      /\ nhIds[m] # 0 => id = nhIds[m]
  BY <1>1 DEF AllocId, IdOf, Inv, NextIdFresh
<1>4. PICK a \in SetObject(id, h) : Get(a)
  BY DEF EnsureMember
<1>5. KernelShape(kernel') /\ (kernel'.objects = kernel.objects
                        \/ kernel'.objects = [kernel.objects EXCEPT ![id] = m])
  <2>1. kernel' \in {kernel, [kernel EXCEPT !.objects[id] = m]}
    BY <1>4 DEF SetObject, Refused, Done, Answer, Get
  <2>2. CASE kernel' = kernel
    BY <2>2, <1>1
  <2>3. CASE kernel' = [kernel EXCEPT !.objects[id] = m]
    BY <2>3, <1>1, OneObject
  <2> QED BY <2>1, <2>2, <2>3
<1>6. RegistryTypes'
  BY <1>1, <1>2, <1>3, <1>5 DEF RegistryTypes
<1>7. NextIdFresh'
  BY <1>1, <1>2, <1>3 DEF Inv, NextIdFresh
<1>8. ASSUME NEW i \in Ids, kernel'.objects[i] # Nobody
      PROVE  nhIds'[kernel'.objects[i]] = i
  <2>1. i # id => kernel'.objects[i] = kernel.objects[i]
    BY <1>1, <1>5 DEF KernelShape
  <2>2. i \in Nat \ {0} /\ m # Nobody
    BY <1>1, RouteAssumption DEF Ids
  <2>3. CASE kernel'.objects[i] = m /\ i = id
    BY <2>3, <1>1, <1>2
  <2>4. CASE kernel'.objects[i] = kernel.objects[i]
    <3>1. nhIds[kernel.objects[i]] = i
      BY <2>4, <1>8 DEF Inv, MembersKnown
    <3>2. kernel.objects[i] = m => id = i
      BY <3>1, <2>2, <1>3
    <3>3. kernel.objects[i] \in Members
      BY <2>4, <1>8, <1>1 DEF KernelShape
    <3> QED BY <3>1, <3>2, <3>3, <2>4, <1>1, <1>2
  <2> QED BY <2>1, <2>3, <2>4, <1>5, <1>1 DEF KernelShape
<1>9. ASSUME NEW x \in Members, NEW y \in Members, nhIds'[x] # 0, nhIds'[x] = nhIds'[y]
      PROVE  x = y
  <2>1. \A z \in Members : z # m => nhIds'[z] = nhIds[z] /\ nhIds[z] < nextId
    BY <1>1, <1>2 DEF Inv, NextIdFresh
  <2>2. nhIds'[m] = id
    BY <1>1, <1>2
  <2>3. \A z \in Members : z # m => nhIds[z] # id
    <3>1. CASE id = nextId
      BY <3>1, <1>1, <2>1
    <3>2. CASE id = nhIds[m]
      BY <3>2, <1>1, <1>3 DEF Inv, MembersKnown
    <3> QED BY <3>1, <3>2, <1>3
  <2>4. CASE x # m /\ y # m
    BY <2>4, <2>1, <1>9 DEF Inv, MembersKnown
  <2> QED BY <2>1, <2>2, <2>3, <2>4, <1>9
<1> QED BY <1>6, <1>7, <1>8, <1>9 DEF Inv, MembersKnown

LEMMA DropMemberStep ==
  ASSUME Inv, NEW h \in Hops, NEW a \in DropObject(IdOf(h)), DropMember(h, a),
         UNCHANGED <<nextId, fam>>
  PROVE  Inv'
<1> DEFINE id == IdOf(h)
           m  == <<fam, h>>
<1>1. /\ m \in Members /\ KernelShape(kernel) /\ nhIds \in [Members -> Nat]
      /\ nextId \in Nat \ {0} /\ fam \in Families /\ id = nhIds[m]
  BY DEF Inv, RegistryTypes, Members, IdOf
<1>2. \/ kernel' = kernel /\ nhIds' = nhIds
      \/ /\ kernel' = [kernel EXCEPT !.objects[id] = Nobody]
         /\ (nhIds' = nhIds \/ nhIds' = [nhIds EXCEPT ![m] = 0])
  <2>1. a.kernel \in {kernel, [kernel EXCEPT !.objects[id] = Nobody]}
    BY DEF DropObject, Unsure, Refused, Done, Answer
  <2>2. Ok(a) => a.kernel = [kernel EXCEPT !.objects[id] = Nobody]
    BY RouteAssumption DEF DropObject, Unsure, Refused, Done, Answer, Ok
  <2> QED BY <2>1, <2>2 DEF DropMember, Get, Ok
<1>3. /\ KernelShape(kernel') /\ nhIds' \in [Members -> Nat]
      /\ \/ kernel'.objects = kernel.objects /\ nhIds' = nhIds
         \/ kernel'.objects = [kernel.objects EXCEPT ![id] = Nobody]
  <2>1. CASE kernel' = kernel /\ nhIds' = nhIds
    BY <2>1, <1>1
  <2>2. CASE kernel' = [kernel EXCEPT !.objects[id] = Nobody]
    <3>1. nhIds' \in [Members -> Nat]
      BY <1>1, <1>2
    <3> QED BY <2>2, <3>1, <1>1, OneObject
  <2> QED BY <2>1, <2>2, <1>2
<1>4. NextIdFresh'
  BY <1>1, <1>2 DEF Inv, NextIdFresh
<1>5. ASSUME NEW i \in Ids, kernel'.objects[i] # Nobody
      PROVE  nhIds'[kernel'.objects[i]] = i
  <2>1. kernel'.objects[i] = kernel.objects[i]
        /\ (nhIds' # nhIds => i # id)
    BY <1>1, <1>3, <1>5 DEF KernelShape
  <2>2. nhIds[kernel.objects[i]] = i /\ kernel.objects[i] \in Members
    BY <2>1, <1>1, <1>5 DEF Inv, MembersKnown, KernelShape
  <2>3. nhIds' = nhIds \/ kernel.objects[i] # m
    BY <2>1, <2>2, <1>1
  <2> QED BY <2>1, <2>2, <2>3, <1>1, <1>2
<1>6. ASSUME NEW x \in Members, NEW y \in Members, nhIds'[x] # 0, nhIds'[x] = nhIds'[y]
      PROVE  x = y
  BY <1>1, <1>2, <1>6 DEF Inv, MembersKnown
<1>7. RegistryTypes'
  BY <1>1, <1>3 DEF RegistryTypes
<1> QED BY <1>4, <1>5, <1>6, <1>7 DEF Inv, MembersKnown

LEMMA NextInv == Inv /\ [Next]_vars => Inv'
<1> SUFFICES ASSUME Inv, [Next]_vars PROVE Inv'
  OBVIOUS
<1> USE DEF callVars, managerVars
<1>0. KernelShape(kernel) /\ fam \in Families
  BY DEF Inv, RegistryTypes
<1>1. ASSUME UNCHANGED <<kernel, nhIds, nextId>>, fam' \in Families PROVE Inv'
  BY <1>0, <1>1, RoutesStep DEF KernelShape
<1>2. ASSUME NEW there, NEW hs, NEW ids,
             NEW a \in SetStd(hs) \cup SetNh(there) \cup SetGroup(ids) \cup DropGroup,
             Get(a), UNCHANGED <<nhIds, nextId, fam>>
      PROVE  Inv'
  BY <1>0, <1>2, RoutesKeepObjects, RoutesStep DEF Get
<1>3. ASSUME NEW f \in Families, NEW hs \in SUBSET Hops, Apply(f, hs) PROVE Inv'
  BY <1>1, <1>3 DEF Apply
<1>4. CASE ApplyStandard
  BY <1>2, <1>4 DEF ApplyStandard
<1>5. CASE LinksDown
  BY <1>0, <1>1, <1>5 DEF LinksDown
<1>6. CASE RemoveNhRoute
  BY <1>2, <1>6 DEF RemoveNhRoute
<1>7. CASE RemoveStandard
  BY <1>2, <1>7 DEF RemoveStandard
<1>8. CASE LeaveStandard
  BY <1>2, <1>8 DEF LeaveStandard
<1>9. CASE EnsureGroup
  BY <1>2, <1>9 DEF EnsureGroup
<1>10. CASE InstallNhRoute
  BY <1>2, <1>10 DEF InstallNhRoute
<1>11. ASSUME NEW h \in Hops, EnsureMember(h) \/ DropUnused(h) \/ TeardownMember(h) PROVE Inv'
  <2>1. CASE EnsureMember(h)
    BY <2>1, EnsureMemberStep
  <2>2. CASE DropUnused(h)
    BY <2>2, DropMemberStep DEF DropUnused
  <2>3. CASE TeardownMember(h)
    BY <2>3, DropMemberStep DEF TeardownMember
  <2> QED BY <2>1, <2>2, <2>3, <1>11
<1>12. CASE TeardownRoute
  BY <1>2, <1>12 DEF TeardownRoute
<1>13. CASE TeardownGroup
  BY <1>2, <1>13 DEF TeardownGroup
<1>14. CASE Report
  BY <1>0, <1>1, <1>14 DEF Report
<1>15. CASE CleaningUp
  BY <1>0, <1>1, <1>15
     DEF CleaningUp, Cleanup, CleanupGroups, CleanupEnds, CleanupRoute, CleanupGroup
<1>16. ASSUME NEW f \in Families, OthersChange(f) PROVE Inv'
  BY <1>0, <1>1, <1>16 DEF OthersChange
<1>17. CASE UNCHANGED vars
  BY <1>0, <1>1, <1>17 DEF vars
<1> QED
  BY <1>3, <1>4, <1>5, <1>6, <1>7, <1>8, <1>9, <1>10, <1>11, <1>12, <1>13, <1>14, <1>15, <1>16,
     <1>17 DEF Next, Updating

(* Every nexthop object stays on record under the id it has, and ids are   *)
(* not shared: whatever fails, a later update or the cleanup can still     *)
(* delete what this program created.                                       *)
THEOREM MembersStayKnown == Spec => []MembersKnown
<1>1. Inv => MembersKnown
  BY DEF Inv
<1> QED BY <1>1, InitInv, NextInv, PTL DEF Spec
=============================================================================
