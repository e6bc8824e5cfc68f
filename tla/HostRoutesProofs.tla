-------------------------- MODULE HostRoutesProofs --------------------------
(***************************************************************************)
(* Theorems about HostRoutes, for any lines, targets, peers and            *)
(* configurations, and any number of runs, changes and failures.           *)
(*                                                                         *)
(* RulesHome needs to be known while the program is down as well, where it *)
(* is about the order of the lines in the run that ended: that is why the  *)
(* next start finds one rule per priority.  UnderlayKnown and              *)
(* HostsAccounted are inductive once the types are.                        *)
(***************************************************************************)
EXTENDS HostRoutes, FiniteSetTheorems, TLAPS

Routes(X) == [X -> Hops \cup {None}]

(* A call under way knows what it is to do.                                *)
CallOK ==
  /\ pc \in {"stale", "wanted"} => paths \in [Lines -> Paths \cup {None}]
  /\ pc = "stale" => \A l \in todo : probePaths[l] # None
  /\ pc = "wanted" => \A l \in todo : paths[l] # None

(* The slots are those of a configuration: no two lines share one.         *)
SlotsOK == \E n \in 1..MaxRuns : slot = Layouts[n]

AtHome(P) == \A l \in Lines : P[l] # None => P[l].line = l /\ P[l].slot = slot[l]

(* Rules, records and commands use the slots of the last run.              *)
Home ==
  /\ ~stray => \A r \in kernel.rules : slot[r[1]] = r[2]
  /\ AtHome(probePaths)
  /\ paths # None => AtHome(paths)

Inv == TypeOK /\ CallOK /\ SlotsOK /\ Home /\ UnderlayKnown /\ HostsAccounted

-----------------------------------------------------------------------------
(* What the event loop asks for.                                           *)

LEMMA PathType ==
  ASSUME TypeOK, NEW l \in Lines, NEW d \in BOOLEAN
  PROVE  /\ PathOf(l, d) \in Paths
         /\ PathOf(l, d).line = l /\ PathOf(l, d).slot = slot[l]
<1>1. MainRouteTargets(l, d) \subseteq Targets
  BY HostAssumption DEF MainRouteTargets
<1> QED BY <1>1 DEF PathOf, Paths, TypeOK

LEMMA WantedType ==
  ASSUME TypeOK, NEW d \in BOOLEAN
  PROVE  WantedPaths(d) \in [Lines -> Paths \cup {None}] /\ AtHome(WantedPaths(d))
  BY PathType DEF WantedPaths, AtHome

LEMMA HopType ==
  ASSUME TypeOK, NEW l \in Lines
  PROVE  Hop(l) \in Hops
  BY DEF Hop, Hops, TypeOK

LEMMA PlanType ==
  ASSUME TypeOK
  PROVE  PlanUnderlay \in Routes(Peers)
<1>1. Best(Exits) \subseteq Lines
  BY DEF Best, Exits, Active, Primary, Live, TypeOK
<1>2. Best(Exits) # {} => (CHOOSE l \in Best(Exits) : TRUE) \in Lines
  BY <1>1
<1> QED BY <1>2, HopType DEF PlanUnderlay, Routes

(* Only the empty function is a function and no command at once.           *)
LEMMA NoLines ==
  ASSUME None \in [Lines -> Paths \cup {None}]
  PROVE  Lines = {}
  BY DEF None

-----------------------------------------------------------------------------
(* Requests.                                                               *)

LEMMA RouteSets ==
  ASSUME NEW X, NEW R \in Routes(X), NEW S
  PROVE  /\ Without(R, S) \in Routes(X)
         /\ \A h \in Hops : With(R, S, h) \in Routes(X)
         /\ \A x \in X : Without(R, S)[x] = IF x \in S THEN None ELSE R[x]
         /\ \A h \in Hops, x \in X : With(R, S, h)[x] = IF x \in S THEN h ELSE R[x]
  BY DEF Without, With, Routes

LEMMA FaultCount ==
  ASSUME TypeOK, NEW R, IsFiniteSet(R), NEW F \in Faults(R)
  PROVE  Cardinality(F) \in Nat /\ (Cardinality(F) = 0 => F = {})
<1>1. IsFiniteSet(F)
  BY FS_Subset DEF Faults
<1> QED BY <1>1, FS_CardinalityType, FS_EmptySet

LEMMA TagsFinite ==
  ASSUME NEW S, IsFiniteSet(S), NEW kind
  PROVE  IsFiniteSet({<<kind, x>> : x \in S})
<1> DEFINE T == {<<kind, x>> : x \in S}
           f == [x \in S |-> <<kind, x>>]
<1>1. f \in [S -> T]
  OBVIOUS
<1>2. \A t \in T : \E x \in S : f[x] = t
  OBVIOUS
<1>3. f \in Surjection(S, T)
  BY <1>1, <1>2 DEF Surjection
<1> QED BY <1>3, FS_Surjection

LEMMA PairFinite ==
  IsFiniteSet({<<"rule">>, <<"table">>})
<1>1. IsFiniteSet({<<"rule">>}) /\ IsFiniteSet({<<"table">>})
  BY FS_Singleton
<1>2. IsFiniteSet({<<"rule">>} \cup {<<"table">>})
  BY <1>1, FS_Union
<1>3. {<<"rule">>} \cup {<<"table">>} = {<<"rule">>, <<"table">>}
  OBVIOUS
<1> QED BY <1>2, <1>3

LEMMA SweepFinite ==
  ASSUME NEW X, IsFiniteSet(X), NEW R \in Routes(X), NEW kind
  PROVE  IsFiniteSet(SweepRequests(R, kind))
<1>1. IsFiniteSet({y \in X : R[y] # None})
  BY FS_Subset
<1>2. IsFiniteSet({<<kind, x>> : x \in {y \in X : R[y] # None}})
  BY <1>1, TagsFinite
<1>3. IsFiniteSet({<<"dump", kind>>})
  BY FS_Singleton
<1> QED BY <1>2, <1>3, FS_Union DEF SweepRequests, Routes

LEMMA SweptRoutes ==
  ASSUME NEW X, NEW R \in Routes(X), NEW F, NEW kept, NEW kind
  PROVE  /\ Swept(R, F, kept, kind) \in Routes(X)
         /\ \A x \in X : Swept(R, F, kept, kind)[x] # None =>
              /\ Swept(R, F, kept, kind)[x] = R[x]
              /\ <<"dump", kind>> \in F \/ <<kind, x>> \in kept
  BY RouteSets DEF Swept, Routes

(* Taking a path down: nothing is added, and what is not reported is gone. *)
LEMMA RemoveAnswer ==
  ASSUME TypeOK, NEW k \in Kernels, NEW p \in Paths, NEW a \in RemoveProbePath(k, p)
  PROVE  /\ a.kernel \in Kernels /\ a.ok \in BOOLEAN /\ a.faults \in Nat
         /\ a.kernel.rules \subseteq k.rules /\ a.kernel.underlay = k.underlay
         /\ \A t \in Targets : a.kernel.host[t] # None =>
              k.host[t] # None /\ (a.faults = 0 => t \notin p.main)
<1> DEFINE requests == {<<"rule">>, <<"table">>} \cup {<<"host", t>> : t \in p.main}
<1>1. IsFiniteSet(requests)
  <2>1. IsFiniteSet(p.main)
    BY HostAssumption, FS_Subset DEF Paths
  <2>2. IsFiniteSet({<<"host", t>> : t \in p.main})
    BY <2>1, TagsFinite
  <2> QED BY <2>2, PairFinite, FS_Union
<1>2. PICK F \in Faults(requests) : \E kept \in SUBSET F :
        a = Answer(Removed(k, p, kept), F \cap {<<"rule">>, <<"table">>} = {}, Cardinality(F))
  BY DEF RemoveProbePath
<1>3. PICK kept \in SUBSET F :
        a = Answer(Removed(k, p, kept), F \cap {<<"rule">>, <<"table">>} = {}, Cardinality(F))
  BY <1>2
<1>4. Cardinality(F) \in Nat /\ (Cardinality(F) = 0 => F = {})
  BY <1>1, FaultCount
<1> DEFINE gone == {t \in p.main : <<"host", t>> \notin kept}
           tables == IF <<"table">> \in kept THEN k.table ELSE Without(k.table, {p.slot})
           rules == IF <<"rule">> \in kept THEN k.rules ELSE k.rules \ {<<p.line, p.slot>>}
<1>5. /\ k.table \in Routes(Slots) /\ k.host \in Routes(Targets)
      /\ k.rules \subseteq Lines \X Slots /\ k.underlay \in Routes(Peers)
  BY DEF Kernels, Routes
<1>6. tables \in Routes(Slots) /\ Without(k.host, gone) \in Routes(Targets)
  BY <1>5, RouteSets
<1>7. Removed(k, p, kept) =
        [rules |-> rules, table |-> tables, host |-> Without(k.host, gone), underlay |-> k.underlay]
  BY DEF Removed
<1>8. /\ a.kernel = Removed(k, p, kept) /\ a.faults = Cardinality(F)
      /\ a.ok = (F \cap {<<"rule">>, <<"table">>} = {})
  BY <1>3 DEF Answer
<1>9. \A t \in Targets : Without(k.host, gone)[t] # None =>
        k.host[t] # None /\ (F = {} => t \notin p.main)
  <2>1. \A t \in Targets : Without(k.host, gone)[t] = IF t \in gone THEN None ELSE k.host[t]
    BY <1>5, RouteSets
  <2>2. F = {} => \A t \in p.main : t \in gone
    OBVIOUS
  <2> HIDE DEF gone
  <2> QED BY <2>1, <2>2
<1> HIDE DEF gone, tables, rules
<1>10. /\ a.kernel.rules = rules /\ a.kernel.underlay = k.underlay
       /\ a.kernel.host = Without(k.host, gone) /\ a.kernel.table = tables
  BY <1>7, <1>8
<1>11. rules \subseteq k.rules
  BY DEF rules
<1>12. a.kernel \in Kernels
  BY <1>5, <1>6, <1>7, <1>8, <1>11 DEF Kernels, Routes
<1>13. a.ok \in BOOLEAN
  BY <1>8
<1> QED BY <1>4, <1>8, <1>9, <1>10, <1>11, <1>12, <1>13

(* Installing a path adds its rule and its /32s; without a fault it adds   *)
(* no /32 unless it is installed completely.                               *)
LEMMA InstallAnswer ==
  ASSUME TypeOK, NEW k \in Kernels, NEW p \in Paths, NEW a \in InstallProbePath(k, p)
  PROVE  /\ a.kernel \in Kernels /\ a.ok \in BOOLEAN /\ a.faults \in Nat
         /\ a.kernel.rules \subseteq k.rules \cup {<<p.line, p.slot>>}
         /\ a.kernel.underlay = k.underlay
         /\ \A t \in Targets : a.kernel.host[t] # None => k.host[t] # None \/ t \in p.main
         /\ ~a.ok /\ a.faults = 0 => a.kernel.host = k.host
<1> DEFINE hop == <<p.line, p.index>>
           T(r) == IF r = "table" THEN With(k.table, {p.slot}, hop) ELSE k.table
           H(r, S) == IF r = "table" THEN With(k.host, S, hop) ELSE k.host
           R(r) == IF r = "nothing" THEN k.rules ELSE k.rules \cup {<<p.line, p.slot>>}
<1>1. /\ k.table \in Routes(Slots) /\ k.host \in Routes(Targets)
      /\ k.rules \subseteq Lines \X Slots /\ k.underlay \in Routes(Peers)
      /\ hop \in Hops /\ <<p.line, p.slot>> \in Lines \X Slots /\ p.main \subseteq Targets
  BY DEF Kernels, Routes, Paths, Hops
<1>2. \A r, S : Installed(k, p, r, S) =
        [rules |-> R(r), table |-> T(r), host |-> H(r, S), underlay |-> k.underlay]
  BY DEF Installed
<1>3. PICK r \in {"nothing", "rule", "table"}, S \in SUBSET p.main :
        /\ a.kernel = Installed(k, p, r, S)
        /\ a.ok \in BOOLEAN /\ a.faults \in {0, 1}
        /\ ~a.ok /\ a.faults = 0 => r = "rule"
  <2>1. CASE a = Answer(Installed(k, p, "table", p.main), TRUE, 0)
    BY <2>1 DEF Answer
  <2>2. CASE a = Answer(Installed(k, p, "rule", {}), FALSE, 0)
    BY <2>2 DEF Answer
  <2>3. CASE \E r \in {"nothing", "rule"} : a = Answer(Installed(k, p, r, {}), FALSE, 1)
    BY <2>3 DEF Answer
  <2>4. CASE \E S \in SUBSET p.main : a = Answer(Installed(k, p, "table", S), FALSE, 1)
    BY <2>4 DEF Answer
  <2> QED BY <2>1, <2>2, <2>3, <2>4 DEF InstallProbePath
<1>4. T(r) \in Routes(Slots) /\ H(r, S) \in Routes(Targets)
  <2>1. \A h \in Hops : With(k.table, {p.slot}, h) \in Routes(Slots)
    BY <1>1 DEF With, Routes
  <2>2. \A h \in Hops : With(k.host, S, h) \in Routes(Targets)
    BY <1>1 DEF With, Routes
  <2> QED BY <1>1, <2>1, <2>2
<1>5. R(r) \subseteq Lines \X Slots /\ R(r) \subseteq k.rules \cup {<<p.line, p.slot>>}
  BY <1>1
<1>6. /\ \A t \in Targets : H(r, S)[t] # None => k.host[t] # None \/ t \in p.main
      /\ r = "rule" => H(r, S) = k.host
  <2>1. \A h \in Hops : \A t \in Targets :
          With(k.host, S, h)[t] = IF t \in S THEN h ELSE k.host[t]
    BY <1>1 DEF With, Routes
  <2> QED BY <1>1, <2>1
<1> HIDE DEF T, H, R
<1>7. a.kernel = [rules |-> R(r), table |-> T(r), host |-> H(r, S), underlay |-> k.underlay]
  BY <1>2, <1>3
<1>8. a.kernel \in Kernels
  BY <1>1, <1>4, <1>5, <1>7 DEF Kernels, Routes
<1>9. a.kernel.rules = R(r) /\ a.kernel.host = H(r, S) /\ a.kernel.underlay = k.underlay
  BY <1>7
<1> QED BY <1>3, <1>5, <1>6, <1>8, <1>9

-----------------------------------------------------------------------------
(* The kernel and the counters.                                            *)

Counts == [changes : Nat, failures : Nat, runs : Nat]

LEMMA KernelParts ==
  ASSUME NEW k \in Kernels
  PROVE  /\ k.rules \subseteq Lines \X Slots /\ k.table \in Routes(Slots)
         /\ k.host \in Routes(Targets) /\ k.underlay \in Routes(Peers)
  BY DEF Kernels, Routes

LEMMA KernelOf ==
  ASSUME NEW R \in SUBSET (Lines \X Slots), NEW T \in Routes(Slots),
         NEW H \in Routes(Targets), NEW U \in Routes(Peers)
  PROVE  [rules |-> R, table |-> T, host |-> H, underlay |-> U] \in Kernels
  BY DEF Kernels, Routes

LEMMA KernelRules ==
  ASSUME NEW k \in Kernels, NEW R \in SUBSET (Lines \X Slots)
  PROVE  LET n == [k EXCEPT !.rules = R]
         IN  n \in Kernels /\ n.rules = R /\ n.host = k.host /\ n.underlay = k.underlay
  BY DEF Kernels

LEMMA KernelHost ==
  ASSUME NEW k \in Kernels, NEW H \in Routes(Targets)
  PROVE  LET n == [k EXCEPT !.host = H]
         IN  n \in Kernels /\ n.rules = k.rules /\ n.host = H /\ n.underlay = k.underlay
  BY DEF Kernels, Routes

LEMMA KernelUnderlay ==
  ASSUME NEW k \in Kernels, NEW U \in Routes(Peers)
  PROVE  LET n == [k EXCEPT !.underlay = U]
         IN  n \in Kernels /\ n.rules = k.rules /\ n.host = k.host /\ n.underlay = U
  BY DEF Kernels, Routes

LEMMA SpendType ==
  ASSUME TypeOK, NEW n \in Nat, Spend(n)
  PROVE  /\ count' \in Counts /\ spoiled' \in BOOLEAN
         /\ ~spoiled' => ~spoiled /\ n = 0
<1>1. count \in Counts
  BY DEF TypeOK, Counts
<1>2. count' = [count EXCEPT !.failures = @ + n]
  BY DEF Spend
<1>3. count' \in Counts
  BY <1>1, <1>2 DEF Counts
<1>4. spoiled' = (spoiled \/ n > 0)
  BY DEF Spend
<1>5. spoiled' \in BOOLEAN
  BY <1>4
<1>6. ~spoiled' => ~spoiled /\ ~(n > 0)
  BY <1>4
<1>7. ~(n > 0) => n = 0
  OBVIOUS
<1> QED BY <1>3, <1>5, <1>6, <1>7

LEMMA BoundedType ==
  ASSUME TypeOK, Bounded
  PROVE  count' \in Counts
<1>1. count \in Counts
  BY DEF TypeOK, Counts
<1> QED BY <1>1 DEF Bounded, Counts

(* No two lines share a slot, so that the rules at home are one per slot.  *)
LEMMA OneEach ==
  ASSUME TypeOK, SlotsOK
  PROVE  \A l, o \in Lines : slot[l] = slot[o] => l = o
  BY HostAssumption DEF SlotsOK

-----------------------------------------------------------------------------
(* The steps.                                                              *)

LEMMA InitStep ==
  ASSUME Init
  PROVE  Inv
<1>1. 1 \in 1..MaxRuns
  BY HostAssumption
<1>2. slot = Layouts[1] /\ slot \in [Lines -> Slots]
  BY <1>1, HostAssumption DEF Init
<1>3. there \subseteq Lines /\ index \in [Lines -> 1..MaxIndex]
  BY HostAssumption DEF Init
<1>4. facts \in [up : SUBSET Lines, degraded : SUBSET Lines, usable : SUBSET Lines,
                 default : BOOLEAN]
  BY DEF Init
<1>5. kernel \in Kernels /\ kernel.rules = {}
  BY DEF Init, Kernels, NoRoutes
<1>6. probePaths = NoPaths /\ probePaths \in [Lines -> Paths \cup {None}]
  BY DEF Init, NoPaths
<1>7. underlay \in [Peers -> Hops \cup {None}]
  BY DEF Init, NoRoutes
<1>8. count \in Counts
  BY DEF Init, Counts
<1>9. TypeOK
  BY <1>2, <1>3, <1>4, <1>5, <1>6, <1>7, <1>8 DEF Init, TypeOK, Counts
<1>10. CallOK
  BY DEF Init, CallOK
<1>11. SlotsOK
  BY <1>1, <1>2 DEF SlotsOK
<1>12. Home
  BY <1>5, <1>6 DEF Init, Home, AtHome, NoPaths
<1>13. UnderlayKnown /\ HostsAccounted
  BY DEF Init, UnderlayKnown, HostsAccounted
<1> QED BY <1>9, <1>10, <1>11, <1>12, <1>13 DEF Inv

LEMMA StartStep ==
  ASSUME Inv, Start
  PROVE  Inv'
<1> DEFINE asked == {<<"rule", s>> : s \in {r[2] : r \in kernel.rules}}
           hosts(F, kept) == Swept(kernel.host, F, kept, "host")
           routes(F, kept) == IF <<"dump", "host">> \in F THEN kernel.underlay
                              ELSE Swept(kernel.underlay, F, kept, "underlay")
<1>0. TypeOK /\ CallOK /\ SlotsOK /\ Home /\ pc = "down" /\ count.runs < MaxRuns
  <2>1. TypeOK /\ CallOK /\ SlotsOK /\ Home
    BY DEF Inv
  <2>2. pc = "down" /\ count.runs < MaxRuns
    BY Zenon DEF Start
  <2> QED BY <2>1, <2>2
<1>a. PICK F \in Faults(StartRequests) : \E kept \in SUBSET F :
      \E gone \in OnePerSlot(kernel.rules, {s \in Slots : <<"rule", s>> \notin kept}) :
        SweepAtStart(F, kept, gone)
  BY Zenon DEF Start
<1>b. PICK kept \in SUBSET F :
      \E gone \in OnePerSlot(kernel.rules, {s \in Slots : <<"rule", s>> \notin kept}) :
        SweepAtStart(F, kept, gone)
  BY <1>a
<1>1. PICK gone \in OnePerSlot(kernel.rules, {s \in Slots : <<"rule", s>> \notin kept}) :
        SweepAtStart(F, kept, gone)
  BY <1>b
<1>2. /\ kernel' = [rules |-> kernel.rules \ gone, table |-> kernel.table,
                    host |-> hosts(F, kept), underlay |-> routes(F, kept)]
      /\ count' = [count EXCEPT !.runs = @ + 1, !.failures = @ + Cardinality(F)]
      /\ spoiled' = (F # {})
      /\ stray' = (stray \/ \E s \in Slots : <<"rule", s>> \in kept)
      /\ orphans' = {p \in Peers : /\ kernel.underlay[p] # None
                                   /\ \/ \E d \in F : d[1] = "dump"
                                      \/ <<"underlay", p>> \in kept}
  BY <1>1 DEF SweepAtStart
<1>3. /\ kernel \in Kernels /\ kernel.rules \subseteq Lines \X Slots
      /\ kernel.table \in Routes(Slots) /\ kernel.host \in Routes(Targets)
      /\ kernel.underlay \in Routes(Peers)
  BY <1>0, KernelParts DEF TypeOK
<1>4. Cardinality(F) \in Nat
  <2>1. {r[2] : r \in kernel.rules} \subseteq Slots
    BY <1>3
  <2>2. IsFiniteSet({r[2] : r \in kernel.rules})
    BY <2>1, HostAssumption, FS_Subset
  <2>3. IsFiniteSet(asked)
    BY <2>2, TagsFinite
  <2>4. /\ IsFiniteSet(SweepRequests(kernel.host, "host"))
        /\ IsFiniteSet(SweepRequests(kernel.underlay, "underlay"))
    BY <1>3, HostAssumption, SweepFinite
  <2>5. IsFiniteSet(StartRequests)
    <3>1. StartRequests = (asked \cup SweepRequests(kernel.host, "host"))
                          \cup SweepRequests(kernel.underlay, "underlay")
      BY DEF StartRequests
    <3> HIDE DEF asked
    <3>2. IsFiniteSet(asked \cup SweepRequests(kernel.host, "host"))
      BY <2>3, <2>4, FS_Union
    <3> QED BY <2>4, <3>1, <3>2, FS_Union
  <2> QED BY <1>0, <2>5, FaultCount
<1>5. /\ hosts(F, kept) \in Routes(Targets)
      /\ \A t \in Targets : hosts(F, kept)[t] # None => F # {}
  <2>1. /\ hosts(F, kept) \in Routes(Targets)
        /\ \A t \in Targets : hosts(F, kept)[t] # None =>
             <<"dump", "host">> \in F \/ <<"host", t>> \in kept
    BY <1>3, SweptRoutes
  <2> HIDE DEF hosts
  <2> QED BY <1>b, <2>1
<1>6. /\ routes(F, kept) \in Routes(Peers)
      /\ \A p \in Peers : routes(F, kept)[p] # None => p \in orphans'
  <2>1. CASE <<"dump", "host">> \in F
    BY <2>1, <1>2, <1>3
  <2>2. CASE <<"dump", "host">> \notin F
    <3>1. routes(F, kept) = Swept(kernel.underlay, F, kept, "underlay")
      BY <2>2
    <3>2. /\ Swept(kernel.underlay, F, kept, "underlay") \in Routes(Peers)
          /\ \A p \in Peers : Swept(kernel.underlay, F, kept, "underlay")[p] # None =>
               /\ Swept(kernel.underlay, F, kept, "underlay")[p] = kernel.underlay[p]
               /\ <<"dump", "underlay">> \in F \/ <<"underlay", p>> \in kept
      BY <1>3, SweptRoutes
    <3>3. <<"dump", "underlay">> \in F => \E d \in F : d[1] = "dump"
      OBVIOUS
    <3> HIDE DEF routes
    <3> QED BY <1>2, <3>1, <3>2, <3>3
  <2> QED BY <2>1, <2>2
<1>7. kernel.rules \ gone \in SUBSET (Lines \X Slots)
  BY <1>3
<1> HIDE DEF asked, hosts, routes
<1>8. /\ kernel' \in Kernels /\ kernel'.rules = kernel.rules \ gone
      /\ kernel'.host = hosts(F, kept) /\ kernel'.underlay = routes(F, kept)
  BY <1>2, <1>3, <1>5, <1>6, <1>7, KernelOf
<1>9. count.runs + 1 \in 1..MaxRuns
  BY <1>0, HostAssumption DEF TypeOK
<1>10. slot' = Layouts[count.runs + 1] /\ slot' \in [Lines -> Slots]
  BY <1>9, HostAssumption DEF Start
<1>11. count' \in Counts
  <2>1. count \in Counts
    BY <1>0 DEF TypeOK, Counts
  <2>2. count' = [count EXCEPT !.runs = @ + 1, !.failures = @ + Cardinality(F)]
    BY <1>2
  <2> DEFINE c == [count EXCEPT !.runs = @ + 1]
  <2>3. c \in Counts
    BY <2>1 DEF Counts
  <2>4. count' = [c EXCEPT !.failures = @ + Cardinality(F)]
    BY <2>2
  <2> HIDE DEF c
  <2> QED BY <1>4, <2>3, <2>4 DEF Counts
<1>12. /\ probePaths' = NoPaths /\ NoPaths \in [Lines -> Paths \cup {None}]
       /\ underlay' \in [Peers -> Hops \cup {None}]
       /\ pc' = "idle" /\ paths' = None /\ apply' = None
       /\ clean' = TRUE /\ todo' = {} /\ exiting' = FALSE
  BY DEF Start, NoPaths, NoRoutes
<1>13. there' = there /\ index' = index /\ facts' = facts
  BY DEF Start, worldVars
<1>14. spoiled' \in BOOLEAN /\ stray' \in BOOLEAN /\ orphans' \subseteq Peers
  BY <1>2
<1>15. TypeOK'
  BY <1>0, <1>8, <1>10, <1>11, <1>12, <1>13, <1>14 DEF TypeOK, Counts
<1>16. CallOK'
  BY <1>12 DEF CallOK
<1>17. SlotsOK'
  BY <1>9, <1>10 DEF SlotsOK
<1>18. ~stray' => kernel'.rules = {}
  <2> SUFFICES ASSUME ~stray', NEW r \in kernel.rules
               PROVE  r \in gone
    BY <1>7, <1>8
  <2>1. ~stray /\ \A s \in Slots : <<"rule", s>> \notin kept
    BY <1>2
  <2>2. {s \in Slots : <<"rule", s>> \notin kept} = Slots
    BY <2>1
  <2>3. {o[2] : o \in gone} = {o[2] : o \in kernel.rules} \cap Slots /\ gone \subseteq kernel.rules
    BY <2>2 DEF OnePerSlot
  <2>4. r[2] \in Slots
    BY <1>3
  <2>5. PICK o \in gone : o[2] = r[2]
    BY <2>3, <2>4
  <2>6. slot[o[1]] = o[2] /\ slot[r[1]] = r[2]
    BY <1>0, <2>1, <2>3 DEF Home
  <2>7. o[1] \in Lines /\ r[1] \in Lines /\ o = <<o[1], o[2]>> /\ r = <<r[1], r[2]>>
    BY <1>3, <2>3
  <2>8. o[1] = r[1]
    BY <1>0, <2>5, <2>6, <2>7, OneEach
  <2> QED BY <2>5, <2>7, <2>8
<1>19. Home'
  BY <1>12, <1>18 DEF Home, AtHome, NoPaths
<1>20. UnderlayKnown'
  BY <1>6, <1>8 DEF UnderlayKnown
<1>21. HostsAccounted'
  BY <1>2, <1>5, <1>8 DEF HostsAccounted
<1> QED BY <1>15, <1>16, <1>17, <1>19, <1>20, <1>21 DEF Inv

LEMMA CrashStep ==
  ASSUME Inv, Crash
  PROVE  Inv'
<1>1. TypeOK /\ SlotsOK /\ Home
  BY DEF Inv
<1>2. /\ pc' = "down" /\ probePaths' = NoPaths /\ underlay' = NoRoutes
      /\ paths' = None /\ apply' = None
      /\ clean' = TRUE /\ todo' = {} /\ exiting' = FALSE
      /\ spoiled' = FALSE /\ orphans' = {}
      /\ there' = there /\ index' = index /\ facts' = facts
      /\ slot' = slot /\ kernel' = kernel /\ count' = count /\ stray' = stray
  BY DEF Crash, worldVars
<1>3. NoPaths \in [Lines -> Paths \cup {None}] /\ NoRoutes \in [Peers -> Hops \cup {None}]
  BY DEF NoPaths, NoRoutes
<1>4. TypeOK'
  BY <1>1, <1>2, <1>3 DEF TypeOK
<1>5. CallOK' /\ UnderlayKnown' /\ HostsAccounted'
  BY <1>2 DEF CallOK, UnderlayKnown, HostsAccounted
<1>6. SlotsOK'
  BY <1>1, <1>2 DEF SlotsOK
<1>7. Home'
  BY <1>1, <1>2 DEF Home, AtHome, NoPaths
<1> QED BY <1>4, <1>5, <1>6, <1>7 DEF Inv

(* What decides on the routes changes, the routes do not.                  *)
LEMMA QueuePathsStep ==
  ASSUME Inv, QueueProbePaths
  PROVE  Inv'
<1>1. TypeOK /\ CallOK /\ SlotsOK /\ Home /\ UnderlayKnown /\ HostsAccounted
  BY DEF Inv
<1>2. /\ there' = there /\ index' = index /\ facts' = facts /\ slot' = slot
      /\ kernel' = kernel /\ probePaths' = probePaths /\ underlay' = underlay
      /\ pc' = pc /\ clean' = clean /\ todo' = todo /\ exiting' = exiting
      /\ apply' = apply /\ stray' = stray /\ orphans' = orphans /\ paths = None
  BY DEF QueueProbePaths, worldVars, managerVars
<1>3. paths' \in [Lines -> Paths \cup {None}] /\ AtHome(paths')
  <2>1. facts.default \in BOOLEAN
    BY <1>1 DEF TypeOK
  <2>2. /\ WantedPaths(facts.default) \in [Lines -> Paths \cup {None}]
        /\ AtHome(WantedPaths(facts.default))
    BY <1>1, <2>1, WantedType
  <2>3. WantedPaths(FALSE) \in [Lines -> Paths \cup {None}] /\ AtHome(WantedPaths(FALSE))
    BY <1>1, WantedType
  <2>4. paths' = WantedPaths(facts.default) \/ paths' = WantedPaths(FALSE)
    BY DEF QueueProbePaths
  <2> QED BY <2>2, <2>3, <2>4
<1>4. count' \in Counts /\ spoiled' \in BOOLEAN /\ (~spoiled' => ~spoiled)
  <2>1. CASE count' = count /\ spoiled' = spoiled
    BY <1>1, <2>1 DEF TypeOK, Counts
  <2>2. CASE Spend(1)
    BY <1>1, <2>2, SpendType
  <2> QED BY <2>1, <2>2 DEF QueueProbePaths
<1>5. TypeOK'
  BY <1>1, <1>2, <1>3, <1>4 DEF TypeOK, Counts
<1>6. CallOK'
  <2>1. CASE pc \in {"stale", "wanted"}
    <3>1. None \in [Lines -> Paths \cup {None}]
      BY <1>1, <1>2, <2>1 DEF CallOK
    <3>2. Lines = {}
      BY <3>1, NoLines
    <3>3. todo' = {}
      BY <1>1, <1>2, <3>2 DEF TypeOK
    <3> QED BY <1>3, <3>3 DEF CallOK
  <2>2. CASE pc \notin {"stale", "wanted"}
    BY <1>2, <2>2 DEF CallOK
  <2> QED BY <2>1, <2>2
<1>7. SlotsOK'
  BY <1>1, <1>2 DEF SlotsOK
<1>8. Home'
  BY <1>1, <1>2, <1>3 DEF Home, AtHome
<1>9. UnderlayKnown'
  BY <1>1, <1>2 DEF UnderlayKnown
<1>10. HostsAccounted'
  BY <1>1, <1>2, <1>4 DEF HostsAccounted
<1> QED BY <1>5, <1>6, <1>7, <1>8, <1>9, <1>10 DEF Inv

LEMMA QueueApplyStep ==
  ASSUME Inv, QueueApply
  PROVE  Inv'
<1>1. TypeOK /\ CallOK /\ SlotsOK /\ Home /\ UnderlayKnown /\ HostsAccounted
  BY DEF Inv
<1>2. /\ there' = there /\ index' = index /\ facts' = facts /\ slot' = slot
      /\ kernel' = kernel /\ probePaths' = probePaths /\ underlay' = underlay
      /\ pc' = pc /\ paths' = paths /\ clean' = clean /\ todo' = todo /\ exiting' = exiting
      /\ count' = count /\ spoiled' = spoiled /\ stray' = stray /\ orphans' = orphans
  BY DEF QueueApply, worldVars, managerVars, callVars
<1>3. apply' \in [Peers -> Hops \cup {None}]
  BY <1>1, PlanType DEF QueueApply, Routes
<1>4. TypeOK'
  BY <1>1, <1>2, <1>3 DEF TypeOK
<1>5. CallOK' /\ SlotsOK'
  BY <1>1, <1>2 DEF CallOK, SlotsOK
<1>6. Home'
  BY <1>1, <1>2 DEF Home, AtHome
<1>7. UnderlayKnown' /\ HostsAccounted'
  BY <1>1, <1>2 DEF UnderlayKnown, HostsAccounted
<1> QED BY <1>4, <1>5, <1>6, <1>7 DEF Inv

(* The sweep of the first SetProbePaths takes /32s of the probes only.     *)
LEMMA BeginStep ==
  ASSUME Inv, BeginPaths
  PROVE  Inv'
<1>1. TypeOK /\ CallOK /\ SlotsOK /\ Home /\ UnderlayKnown /\ HostsAccounted
  BY DEF Inv
<1>2. /\ there' = there /\ index' = index /\ facts' = facts /\ slot' = slot
      /\ probePaths' = probePaths /\ underlay' = underlay
      /\ pc = "idle" /\ pc' = "stale" /\ paths # None /\ paths' = paths
      /\ clean' = FALSE /\ exiting' = exiting
      /\ todo' = {l \in Lines : probePaths[l] # None /\ paths[l] = None}
      /\ apply' = apply /\ stray' = stray /\ orphans' = orphans
  BY DEF BeginPaths, worldVars, managerVars
<1>3. kernel \in Kernels /\ kernel.host \in Routes(Targets)
  BY <1>1, KernelParts DEF TypeOK
<1>4. /\ kernel' \in Kernels /\ kernel'.rules = kernel.rules
      /\ kernel'.underlay = kernel.underlay
      /\ \A t \in Targets : kernel'.host[t] # None => kernel.host[t] # None
      /\ count' \in Counts /\ spoiled' \in BOOLEAN /\ (~spoiled' => ~spoiled)
  <2>1. CASE kernel' = kernel /\ count' = count /\ spoiled' = spoiled
    BY <1>1, <1>3, <2>1 DEF TypeOK, Counts
  <2>2. ASSUME NEW F \in Faults(SweepRequests(kernel.host, "host")), NEW kept \in SUBSET F,
               kernel' = [kernel EXCEPT !.host = Swept(kernel.host, F, kept, "host")],
               Spend(Cardinality(F))
        PROVE  /\ kernel' \in Kernels /\ kernel'.rules = kernel.rules
               /\ kernel'.underlay = kernel.underlay
               /\ \A t \in Targets : kernel'.host[t] # None => kernel.host[t] # None
               /\ count' \in Counts /\ spoiled' \in BOOLEAN /\ (~spoiled' => ~spoiled)
    <3> DEFINE H == Swept(kernel.host, F, kept, "host")
    <3>1. H \in Routes(Targets) /\ \A t \in Targets : H[t] # None => H[t] = kernel.host[t]
      BY <1>3 DEF Swept, Without, Routes
    <3>2. IsFiniteSet(SweepRequests(kernel.host, "host"))
      BY <1>3, HostAssumption, SweepFinite
    <3>3. Cardinality(F) \in Nat
      BY <1>1, <3>2, FaultCount
    <3>4. count' \in Counts /\ spoiled' \in BOOLEAN /\ (~spoiled' => ~spoiled)
      BY <1>1, <2>2, <3>3, SpendType
    <3> HIDE DEF H
    <3>5. kernel' = [kernel EXCEPT !.host = H]
      BY <2>2 DEF H
    <3>6. /\ kernel' \in Kernels /\ kernel'.rules = kernel.rules
          /\ kernel'.host = H /\ kernel'.underlay = kernel.underlay
      BY <1>3, <3>1, <3>5, KernelHost
    <3> QED BY <3>1, <3>4, <3>6
  <2> QED BY <2>1, <2>2 DEF BeginPaths
<1>5. paths' \in [Lines -> Paths \cup {None}] /\ todo' \subseteq Lines
  BY <1>1, <1>2 DEF TypeOK
<1>6. TypeOK'
  BY <1>1, <1>2, <1>4, <1>5 DEF TypeOK, Counts
<1>7. CallOK'
  BY <1>2, <1>5 DEF CallOK
<1>8. SlotsOK'
  BY <1>1, <1>2 DEF SlotsOK
<1>9. Home'
  BY <1>1, <1>2, <1>4 DEF Home, AtHome
<1>10. UnderlayKnown' /\ HostsAccounted'
  BY <1>1, <1>2, <1>4 DEF UnderlayKnown, HostsAccounted
<1> QED BY <1>6, <1>7, <1>8, <1>9, <1>10 DEF Inv

LEMMA RemoveStep ==
  ASSUME Inv, NEW l \in Lines, RemoveStale(l)
  PROVE  Inv'
<1>1. TypeOK /\ CallOK /\ SlotsOK /\ Home /\ UnderlayKnown /\ HostsAccounted
  BY DEF Inv
<1>2. /\ there' = there /\ index' = index /\ facts' = facts /\ slot' = slot
      /\ underlay' = underlay /\ pc = "stale" /\ pc' = pc /\ l \in todo
      /\ todo' = todo \ {l} /\ paths' = paths /\ clean' = clean /\ exiting' = exiting
      /\ apply' = apply /\ stray' = stray /\ orphans' = orphans
  BY DEF RemoveStale, worldVars
<1>3. PICK a \in RemoveProbePath(kernel, probePaths[l]) :
        /\ kernel' = a.kernel
        /\ probePaths' = IF a.ok THEN [probePaths EXCEPT ![l] = None] ELSE probePaths
        /\ Spend(a.faults)
  BY DEF RemoveStale
<1>4. /\ kernel \in Kernels /\ probePaths \in [Lines -> Paths \cup {None}]
      /\ probePaths[l] \in Paths /\ paths \in [Lines -> Paths \cup {None}]
  BY <1>1, <1>2 DEF TypeOK, CallOK
<1>5. /\ kernel' \in Kernels /\ a.ok \in BOOLEAN /\ a.faults \in Nat
      /\ kernel'.rules \subseteq kernel.rules /\ kernel'.underlay = kernel.underlay
      /\ \A t \in Targets : kernel'.host[t] # None =>
           kernel.host[t] # None /\ (a.faults = 0 => t \notin probePaths[l].main)
  BY <1>1, <1>3, <1>4, RemoveAnswer
<1>6. count' \in Counts /\ spoiled' \in BOOLEAN /\ (~spoiled' => ~spoiled /\ a.faults = 0)
  BY <1>1, <1>3, <1>5, SpendType
<1>7. /\ probePaths' \in [Lines -> Paths \cup {None}]
      /\ \A o \in Lines : o # l => probePaths'[o] = probePaths[o]
      /\ probePaths'[l] = None \/ probePaths'[l] = probePaths[l]
  BY <1>3, <1>4
<1>8. TypeOK'
  BY <1>1, <1>2, <1>5, <1>6, <1>7 DEF TypeOK, Counts
<1>9. CallOK'
  BY <1>1, <1>2, <1>4, <1>7 DEF CallOK, TypeOK
<1>10. SlotsOK'
  BY <1>1, <1>2 DEF SlotsOK
<1>11. Home'
  <2>1. AtHome(probePaths)'
    BY <1>1, <1>2, <1>7 DEF Home, AtHome
  <2>2. paths' # None => AtHome(paths)'
    BY <1>1, <1>2 DEF Home, AtHome
  <2>3. ~stray' => \A r \in kernel'.rules : slot'[r[1]] = r[2]
    BY <1>1, <1>2, <1>5 DEF Home
  <2> QED BY <2>1, <2>2, <2>3 DEF Home
<1>12. UnderlayKnown'
  BY <1>1, <1>2, <1>5 DEF UnderlayKnown
<1>13. HostsAccounted'
  <2> SUFFICES ASSUME ~spoiled', NEW t \in Targets, kernel'.host[t] # None
               PROVE  \E o \in Lines : probePaths'[o] # None /\ t \in probePaths'[o].main
    BY DEF HostsAccounted
  <2>1. kernel.host[t] # None /\ t \notin probePaths[l].main
    BY <1>5, <1>6
  <2>2. PICK o \in Lines : probePaths[o] # None /\ t \in probePaths[o].main
    BY <1>1, <1>2, <1>6, <2>1 DEF HostsAccounted
  <2> QED BY <1>7, <2>1, <2>2
<1> QED BY <1>8, <1>9, <1>10, <1>11, <1>12, <1>13 DEF Inv

(* A step of a call that leaves the kernel and the records alone.          *)
LEMMA CallStep ==
  ASSUME Inv, RemovedStale \/ EndPaths \/ Exit
  PROVE  Inv'
<1>1. TypeOK /\ CallOK /\ SlotsOK /\ Home /\ UnderlayKnown /\ HostsAccounted
  BY DEF Inv
<1>2. /\ there' = there /\ index' = index /\ facts' = facts /\ slot' = slot
      /\ kernel' = kernel /\ probePaths' = probePaths /\ underlay' = underlay
      /\ clean' = clean /\ count' = count /\ spoiled' = spoiled /\ stray' = stray
      /\ orphans' = orphans /\ pc # "down" /\ pc' # "down"
  BY DEF RemovedStale, EndPaths, Exit, worldVars, managerVars
<1>3. NoPaths \in [Lines -> Paths \cup {None}] /\ AtHome(NoPaths)
  BY DEF NoPaths, AtHome
<1>4. CASE RemovedStale
  <2>1. /\ pc = "stale" /\ pc' = "wanted" /\ todo' = {l \in Lines : paths[l] # None}
        /\ paths' = paths /\ exiting' = exiting /\ apply' = apply
    BY <1>4 DEF RemovedStale
  <2>2. TypeOK'
    BY <1>1, <1>2, <2>1 DEF TypeOK
  <2>3. CallOK'
    BY <1>1, <2>1 DEF CallOK
  <2>4. Home'
    BY <1>1, <1>2, <2>1 DEF Home, AtHome
  <2> QED BY <1>1, <1>2, <2>2, <2>3, <2>4 DEF Inv, SlotsOK, UnderlayKnown, HostsAccounted
<1>5. CASE EndPaths
  <2>1. /\ pc' \in {"leaving", "idle"} /\ todo' = todo /\ paths' = None
        /\ exiting' = exiting /\ apply' = apply
    BY <1>5 DEF EndPaths
  <2>2. TypeOK'
    BY <1>1, <1>2, <2>1 DEF TypeOK
  <2>3. CallOK'
    BY <2>1 DEF CallOK
  <2>4. Home'
    BY <1>1, <1>2, <2>1 DEF Home, AtHome
  <2> QED BY <1>1, <1>2, <2>2, <2>3, <2>4 DEF Inv, SlotsOK, UnderlayKnown, HostsAccounted
<1>6. CASE Exit
  <2>1. /\ pc' = "stale" /\ exiting' = TRUE /\ paths' = NoPaths /\ apply' = None
        /\ todo' = {l \in Lines : probePaths[l] # None}
    BY <1>6 DEF Exit
  <2>2. TypeOK'
    BY <1>1, <1>2, <1>3, <2>1 DEF TypeOK
  <2>3. CallOK'
    BY <1>2, <1>3, <2>1 DEF CallOK
  <2>4. Home'
    BY <1>1, <1>2, <1>3, <2>1 DEF Home, AtHome
  <2> QED BY <1>1, <1>2, <2>2, <2>3, <2>4 DEF Inv, SlotsOK, UnderlayKnown, HostsAccounted
<1> QED BY <1>4, <1>5, <1>6

(* The path of one line: what is taken down goes first, what is installed  *)
(* is recorded if all of it was acknowledged.                              *)
LEMMA InstallStep ==
  ASSUME Inv, NEW l \in Lines, InstallWanted(l)
  PROVE  Inv'
<1> DEFINE changed == probePaths[l] # None /\ probePaths[l] # paths[l]
           first == IF changed THEN RemoveProbePath(kernel, probePaths[l])
                    ELSE {Answer(kernel, TRUE, 0)}
<1>1. TypeOK /\ CallOK /\ SlotsOK /\ Home /\ UnderlayKnown /\ HostsAccounted
  BY DEF Inv
<1>2. /\ there' = there /\ index' = index /\ facts' = facts /\ slot' = slot
      /\ underlay' = underlay /\ pc = "wanted" /\ pc' = pc /\ l \in todo
      /\ paths' = paths /\ clean' = clean /\ exiting' = exiting
      /\ apply' = apply /\ stray' = stray /\ orphans' = orphans
  BY DEF InstallWanted, worldVars
<1>3. PICK r \in first :
        /\ todo' = todo \ {l}
        /\ IF ~r.ok
           THEN kernel' = r.kernel /\ Spend(r.faults) /\ probePaths' = probePaths
           ELSE \E i \in InstallProbePath(r.kernel, paths[l]) :
                  /\ kernel' = i.kernel
                  /\ Spend(r.faults + i.faults)
                  /\ probePaths' = [probePaths EXCEPT ![l] =
                       IF i.ok THEN paths[l] ELSE IF changed THEN None ELSE @]
  BY DEF InstallWanted, Reinstall
<1>4. /\ kernel \in Kernels /\ probePaths \in [Lines -> Paths \cup {None}]
      /\ paths \in [Lines -> Paths \cup {None}] /\ paths[l] \in Paths /\ paths # None
      /\ paths[l] # None /\ todo \subseteq Lines
  <2>1. paths \in [Lines -> Paths \cup {None}] /\ paths[l] # None
    BY <1>1, <1>2 DEF CallOK
  <2>2. paths # None
    <3>1. Lines # {}
      OBVIOUS
    <3> QED BY <2>1, <3>1, NoLines
  <2> QED BY <1>1, <2>1, <2>2 DEF TypeOK
<1>5. /\ r.kernel \in Kernels /\ r.ok \in BOOLEAN /\ r.faults \in Nat
      /\ r.kernel.rules \subseteq kernel.rules /\ r.kernel.underlay = kernel.underlay
      /\ \A t \in Targets : r.kernel.host[t] # None =>
           kernel.host[t] # None /\ (changed /\ r.faults = 0 => t \notin probePaths[l].main)
  <2>1. CASE changed
    <3>1. r \in RemoveProbePath(kernel, probePaths[l]) /\ probePaths[l] \in Paths
      BY <1>4, <2>1
    <3> HIDE DEF changed, first
    <3> QED BY <1>1, <1>4, <2>1, <3>1, RemoveAnswer
  <2>2. CASE ~changed
    <3>1. r = Answer(kernel, TRUE, 0)
      BY <2>2
    <3>2. r.kernel = kernel /\ r.ok = TRUE /\ r.faults = 0
      BY <3>1 DEF Answer
    <3>3. r.ok \in BOOLEAN /\ r.faults \in Nat
      <4>1. r.faults \in Nat
        BY <3>2
      <4>2. r.ok \in BOOLEAN
        BY <3>2, Zenon
      <4> QED BY <4>1, <4>2
    <3>4. /\ r.kernel \in Kernels /\ r.kernel.underlay = kernel.underlay
          /\ r.kernel.rules \subseteq kernel.rules
      BY <1>4, <3>2
    <3>5. \A t \in Targets : r.kernel.host[t] # None => kernel.host[t] # None
      BY <3>2
    <3> HIDE DEF changed, first
    <3> QED BY <2>2, <3>3, <3>4, <3>5, Zenon
  <2> QED BY <2>1, <2>2
<1> HIDE DEF first
<1>6. /\ kernel' \in Kernels /\ kernel'.underlay = kernel.underlay
      /\ kernel'.rules \subseteq kernel.rules \cup {<<paths[l].line, paths[l].slot>>}
      /\ count' \in Counts /\ spoiled' \in BOOLEAN /\ (~spoiled' => ~spoiled)
      /\ \A o \in Lines : o # l => probePaths'[o] = probePaths[o]
      /\ probePaths' \in [Lines -> Paths \cup {None}]
      /\ probePaths'[l] \in {None, paths[l], probePaths[l]}
      /\ ~spoiled' => \A t \in Targets : kernel'.host[t] # None =>
           \E o \in Lines : probePaths'[o] # None /\ t \in probePaths'[o].main
  <2>1. CASE ~r.ok
    <3>1. kernel' = r.kernel /\ Spend(r.faults) /\ probePaths' = probePaths
      BY <1>3, <2>1
    <3>2. count' \in Counts /\ spoiled' \in BOOLEAN /\ (~spoiled' => ~spoiled)
      BY <1>1, <1>5, <3>1, SpendType
    <3>3. ~spoiled' => \A t \in Targets : kernel'.host[t] # None =>
            \E o \in Lines : probePaths'[o] # None /\ t \in probePaths'[o].main
      BY <1>1, <1>2, <1>5, <3>1, <3>2 DEF HostsAccounted
    <3> QED BY <1>4, <1>5, <3>1, <3>2, <3>3
  <2>2. CASE r.ok
    <3>1. PICK i \in InstallProbePath(r.kernel, paths[l]) :
            /\ kernel' = i.kernel
            /\ Spend(r.faults + i.faults)
            /\ probePaths' = [probePaths EXCEPT ![l] =
                 IF i.ok THEN paths[l] ELSE IF changed THEN None ELSE @]
      BY <1>3, <2>2
    <3>2. /\ i.kernel \in Kernels /\ i.ok \in BOOLEAN /\ i.faults \in Nat
          /\ i.kernel.rules \subseteq r.kernel.rules \cup {<<paths[l].line, paths[l].slot>>}
          /\ i.kernel.underlay = r.kernel.underlay
          /\ \A t \in Targets : i.kernel.host[t] # None =>
               r.kernel.host[t] # None \/ t \in paths[l].main
          /\ ~i.ok /\ i.faults = 0 => i.kernel.host = r.kernel.host
      BY <1>1, <1>4, <1>5, <3>1, InstallAnswer
    <3>3. r.faults + i.faults \in Nat
      BY <1>5, <3>2
    <3>4. /\ count' \in Counts /\ spoiled' \in BOOLEAN
          /\ ~spoiled' => ~spoiled /\ r.faults + i.faults = 0
      BY <1>1, <3>1, <3>3, SpendType
    <3>5. ~spoiled' => ~spoiled /\ r.faults = 0 /\ i.faults = 0
      BY <1>5, <3>2, <3>4
    <3>6. /\ \A o \in Lines : o # l => probePaths'[o] = probePaths[o]
          /\ probePaths' \in [Lines -> Paths \cup {None}]
          /\ i.ok => probePaths'[l] = paths[l]
          /\ ~i.ok /\ changed => probePaths'[l] = None
          /\ ~i.ok /\ ~changed => probePaths'[l] = probePaths[l]
      BY <1>4, <3>1
    <3>7. changed \/ probePaths[l] = None \/ probePaths[l] = paths[l]
      OBVIOUS
    <3>8. changed \in BOOLEAN
      OBVIOUS
    <3> HIDE DEF changed
    <3>9. ASSUME ~spoiled', NEW t \in Targets, kernel'.host[t] # None
          PROVE  \E o \in Lines : probePaths'[o] # None /\ t \in probePaths'[o].main
      <4>1. CASE t \in paths[l].main /\ i.ok
        BY <1>4, <3>6, <4>1
      <4>2. CASE r.kernel.host[t] # None
        <5>1. kernel.host[t] # None /\ (changed => t \notin probePaths[l].main)
          BY <1>5, <3>5, <3>9, <4>2
        <5>2. PICK o \in Lines : probePaths[o] # None /\ t \in probePaths[o].main
          BY <1>1, <1>2, <3>5, <3>9, <5>1 DEF HostsAccounted
        <5>3. CASE o # l
          BY <3>6, <5>2, <5>3
        <5>4. CASE o = l
          BY <1>4, <3>2, <3>6, <3>7, <5>1, <5>2, <5>4
        <5> QED BY <5>3, <5>4
      <4>3. r.kernel.host[t] # None \/ (t \in paths[l].main /\ i.ok)
        BY <3>1, <3>2, <3>5, <3>9
      <4> QED BY <4>1, <4>2, <4>3
    <3>10. /\ kernel'.rules \subseteq kernel.rules \cup {<<paths[l].line, paths[l].slot>>}
           /\ kernel' \in Kernels /\ kernel'.underlay = kernel.underlay
      BY <1>5, <3>1, <3>2
    <3>11. probePaths'[l] \in {None, paths[l], probePaths[l]}
      BY <3>2, <3>6, <3>8
    <3>12. spoiled' \in BOOLEAN /\ (~spoiled' => ~spoiled) /\ count' \in Counts
      BY <3>4
    <3> QED BY <3>6, <3>9, <3>10, <3>11, <3>12
  <2> QED BY <1>5, <2>1, <2>2
<1>7. todo' = todo \ {l}
  BY <1>3
<1> HIDE DEF changed
<1>8. TypeOK'
  BY <1>1, <1>2, <1>4, <1>6, <1>7 DEF TypeOK, Counts
<1>9. CallOK'
  BY <1>1, <1>2, <1>4, <1>7 DEF CallOK
<1>10. SlotsOK'
  BY <1>1, <1>2 DEF SlotsOK
<1>11. Home'
  <2>1. AtHome(paths) /\ AtHome(probePaths)
    BY <1>1, <1>4 DEF Home
  <2>2. AtHome(probePaths)'
    BY <1>2, <1>6, <2>1 DEF AtHome
  <2>3. paths' # None => AtHome(paths)'
    BY <1>2, <2>1 DEF AtHome
  <2>4. paths[l].line = l /\ paths[l].slot = slot[l]
    BY <1>1, <1>2, <2>1 DEF AtHome, CallOK
  <2>5. ~stray' => \A x \in kernel'.rules : slot'[x[1]] = x[2]
    BY <1>1, <1>2, <1>6, <2>4 DEF Home
  <2> QED BY <2>2, <2>3, <2>5 DEF Home
<1>12. UnderlayKnown' /\ HostsAccounted'
  BY <1>1, <1>2, <1>6 DEF UnderlayKnown, HostsAccounted
<1> QED BY <1>8, <1>9, <1>10, <1>11, <1>12 DEF Inv

(* One round of sync_underlay_routes: a route leaves the record only when  *)
(* the kernel has lost it or acknowledges the deletion, and one that       *)
(* enters the kernel enters the record or is an orphan.                    *)
LEMMA SyncStep ==
  ASSUME TypeOK, UnderlayKnown, pc # "down", NEW plan \in Routes(Peers), Sync(plan)
  PROVE  /\ kernel' \in Kernels /\ kernel'.rules = kernel.rules
         /\ kernel'.host = kernel.host
         /\ underlay' \in Routes(Peers) /\ orphans' \subseteq Peers
         /\ count' \in Counts /\ spoiled' \in BOOLEAN /\ (~spoiled' => ~spoiled)
         /\ \A p \in Peers : kernel'.underlay[p] # None =>
              kernel'.underlay[p] = underlay'[p] \/ p \in orphans'
<1> DEFINE repairs(blind) == Repairs(plan, blind = {}, Present)
           able(blind) == \A p \in repairs(blind) : Usable(plan[p])
           faults(blind, F, done) ==
             Cardinality(blind) + Cardinality(F)
             + (IF able(blind) /\ done # repairs(blind) THEN 1 ELSE 0)
<1>1. PICK blind \in Faults({<<"dump">>}) :
      \E F \in Faults(Sent(plan, blind = {})) : \E kept \in SUBSET F :
      \E done \in SUBSET repairs(blind) : \E unacked \in SUBSET (repairs(blind) \ done) :
        /\ SyncRound(plan, Sent(plan, blind = {}), F, kept, done, unacked)
        /\ Spend(faults(blind, F, done))
  BY ZenonT(60) DEF Sync
<1> DEFINE sent == Sent(plan, blind = {})
           wanted == repairs(blind)
           stale == Stale(plan)
<1>2. PICK F \in Faults(sent) : \E kept \in SUBSET F :
      \E done \in SUBSET wanted : \E unacked \in SUBSET (wanted \ done) :
        /\ SyncRound(plan, sent, F, kept, done, unacked)
        /\ Spend(faults(blind, F, done))
  BY <1>1
<1>3. PICK kept \in SUBSET F, done \in SUBSET wanted :
      \E unacked \in SUBSET (wanted \ done) :
        /\ SyncRound(plan, sent, F, kept, done, unacked)
        /\ Spend(faults(blind, F, done))
  BY <1>2
<1>4. PICK unacked \in SUBSET (wanted \ done) :
        /\ SyncRound(plan, sent, F, kept, done, unacked)
        /\ Spend(faults(blind, F, done))
  BY <1>3
<1> DEFINE U == [p \in Peers |-> IF p \in done \cup unacked THEN plan[p]
                                 ELSE IF p \in sent \ kept THEN None
                                 ELSE kernel.underlay[p]]
<1>r. /\ kernel' = [kernel EXCEPT !.underlay = U]
      /\ underlay' = [p \in Peers |-> IF p \in done THEN plan[p]
                                      ELSE IF p \in stale \ F THEN None
                                      ELSE underlay[p]]
      /\ orphans' = (orphans \ (done \cup (sent \ kept))) \cup unacked
  BY <1>4 DEF SyncRound
<1>5. /\ kernel \in Kernels /\ kernel.underlay \in Routes(Peers)
      /\ underlay \in Routes(Peers) /\ orphans \subseteq Peers
  BY KernelParts DEF TypeOK, Routes
<1>6. /\ F \subseteq sent /\ kept \subseteq F /\ sent \subseteq stale /\ wanted \subseteq Peers
      /\ done \subseteq wanted /\ unacked \subseteq wanted
      /\ \A p \in stale : p \in sent \/ kernel.underlay[p] = None
  <2>1. F \subseteq sent
    BY DEF Faults
  <2>2. wanted \subseteq Peers
    BY DEF Repairs
  <2>3. sent \subseteq stale /\ \A p \in stale : p \in sent \/ kernel.underlay[p] = None
    BY DEF Sent, Stale, Present
  <2>4. kept \subseteq F /\ done \subseteq wanted /\ unacked \subseteq wanted
    OBVIOUS
  <2> QED BY <2>1, <2>2, <2>3, <2>4
<1>7. faults(blind, F, done) \in Nat
  <2>1. IsFiniteSet({<<"dump">>})
    BY FS_Singleton
  <2>2. Cardinality(blind) \in Nat
    BY <2>1, FaultCount
  <2>3. IsFiniteSet(sent)
    <3>1. sent \subseteq Peers
      BY DEF Sent, Stale
    <3> QED BY <3>1, HostAssumption, FS_Subset
  <2>4. Cardinality(F) \in Nat
    BY <2>3, FaultCount
  <2>5. (IF able(blind) /\ done # repairs(blind) THEN 1 ELSE 0) \in Nat
    OBVIOUS
  <2> HIDE DEF able, repairs, sent
  <2> QED BY <2>2, <2>4, <2>5
<1> HIDE DEF faults
<1>8. count' \in Counts /\ spoiled' \in BOOLEAN /\ (~spoiled' => ~spoiled)
  BY <1>4, <1>7, SpendType
<1>9. stale \subseteq Peers /\ \A p \in Peers : plan[p] \in Hops \cup {None}
  BY DEF Routes, Stale
<1> HIDE DEF sent, wanted, stale
<1>10. U \in Routes(Peers)
  BY <1>5, <1>9 DEF Routes
<1>11. \A p \in Peers : U[p] =
         IF p \in done \cup unacked THEN plan[p]
         ELSE IF p \in sent \ kept THEN None ELSE kernel.underlay[p]
  OBVIOUS
<1> HIDE DEF U
<1>12. /\ kernel' \in Kernels /\ kernel'.rules = kernel.rules
       /\ kernel'.host = kernel.host /\ kernel'.underlay = U
  BY <1>r, <1>5, <1>10, KernelUnderlay
<1>13. /\ underlay' \in Routes(Peers)
       /\ \A p \in Peers : underlay'[p] = IF p \in done THEN plan[p]
                                          ELSE IF p \in stale \ F THEN None
                                          ELSE underlay[p]
  BY <1>r, <1>5, <1>9 DEF Routes
<1>14. orphans' \subseteq Peers
  BY <1>r, <1>5, <1>6
<1>15. ASSUME NEW p \in Peers, kernel'.underlay[p] # None
       PROVE  kernel'.underlay[p] = underlay'[p] \/ p \in orphans'
  <2>1. CASE p \in done
    BY <1>11, <1>12, <1>13, <2>1
  <2>2. CASE p \in unacked
    BY <1>r, <2>2
  <2>3. CASE p \notin done \cup unacked
    <3>1. p \notin sent \ kept /\ kernel'.underlay[p] = kernel.underlay[p]
      BY <1>11, <1>12, <1>15, <2>3
    <3>2. kernel.underlay[p] = underlay[p] \/ p \in orphans
      BY <1>15, <3>1 DEF UnderlayKnown
    <3>3. CASE p \in orphans
      BY <1>r, <2>3, <3>1, <3>3
    <3>4. CASE kernel.underlay[p] = underlay[p]
      <4>1. p \notin stale \ F
        BY <1>6, <1>15, <3>1
      <4> QED BY <1>13, <2>3, <3>1, <3>4, <4>1
    <3> QED BY <3>2, <3>3, <3>4
  <2> QED BY <2>1, <2>2, <2>3
<1> QED BY <1>8, <1>12, <1>13, <1>14, <1>15

LEMMA ApplyStep ==
  ASSUME Inv, RunApply
  PROVE  Inv'
<1>1. TypeOK /\ CallOK /\ SlotsOK /\ Home /\ UnderlayKnown /\ HostsAccounted
  BY DEF Inv
<1>2. /\ there' = there /\ index' = index /\ facts' = facts /\ slot' = slot
      /\ probePaths' = probePaths /\ pc = "idle" /\ pc' = pc /\ todo' = todo
      /\ paths' = paths /\ clean' = clean /\ exiting' = exiting
      /\ apply' = None /\ stray' = stray
  BY DEF RunApply, worldVars, callVars
<1>3. apply \in Routes(Peers) /\ Sync(apply)
  BY <1>1 DEF RunApply, TypeOK, Routes
<1>4. /\ kernel' \in Kernels /\ kernel'.rules = kernel.rules
      /\ kernel'.host = kernel.host
      /\ underlay' \in Routes(Peers) /\ orphans' \subseteq Peers
      /\ count' \in Counts /\ spoiled' \in BOOLEAN /\ (~spoiled' => ~spoiled)
      /\ \A p \in Peers : kernel'.underlay[p] # None =>
           kernel'.underlay[p] = underlay'[p] \/ p \in orphans'
  BY <1>1, <1>2, <1>3, SyncStep
<1>5. TypeOK'
  BY <1>1, <1>2, <1>4 DEF TypeOK, Counts, Routes
<1>6. CallOK' /\ SlotsOK'
  BY <1>1, <1>2 DEF CallOK, SlotsOK
<1>7. Home'
  BY <1>1, <1>2, <1>4 DEF Home, AtHome
<1>8. UnderlayKnown' /\ HostsAccounted'
  BY <1>1, <1>2, <1>4 DEF UnderlayKnown, HostsAccounted
<1> QED BY <1>5, <1>6, <1>7, <1>8 DEF Inv

LEMMA LeaveStep ==
  ASSUME Inv, Leave
  PROVE  Inv'
<1>1. TypeOK /\ CallOK /\ SlotsOK /\ Home /\ UnderlayKnown /\ HostsAccounted
  BY DEF Inv
<1>2. /\ there' = there /\ index' = index /\ facts' = facts /\ slot' = slot
      /\ probePaths' = NoPaths /\ pc = "leaving" /\ pc' = "down" /\ todo' = todo
      /\ paths' = paths /\ clean' = TRUE /\ exiting' = FALSE
      /\ apply' = apply /\ stray' = stray
  BY DEF Leave, worldVars
<1>3. NoRoutes \in Routes(Peers) /\ Sync(NoRoutes)
  BY DEF Leave, NoRoutes, Routes
<1>4. /\ kernel' \in Kernels /\ kernel'.rules = kernel.rules
      /\ kernel'.host = kernel.host
      /\ underlay' \in Routes(Peers) /\ orphans' \subseteq Peers
      /\ count' \in Counts /\ spoiled' \in BOOLEAN /\ (~spoiled' => ~spoiled)
  BY <1>1, <1>2, <1>3, SyncStep
<1>5. NoPaths \in [Lines -> Paths \cup {None}] /\ AtHome(NoPaths)'
  BY DEF NoPaths, AtHome
<1>6. TypeOK'
  BY <1>1, <1>2, <1>4, <1>5 DEF TypeOK, Counts, Routes
<1>7. CallOK' /\ SlotsOK'
  BY <1>1, <1>2 DEF CallOK, SlotsOK
<1>8. Home'
  BY <1>1, <1>2, <1>4 DEF Home, AtHome, NoPaths
<1>9. UnderlayKnown' /\ HostsAccounted'
  BY <1>2 DEF UnderlayKnown, HostsAccounted
<1> QED BY <1>6, <1>7, <1>8, <1>9 DEF Inv

-----------------------------------------------------------------------------
(* The world: it takes routes and rules away, and adds none.               *)

LEMMA Taken ==
  ASSUME Inv, UNCHANGED <<slot, managerVars, callVars, apply, spoiled, stray>>,
         kernel' \in Kernels, kernel'.rules \subseteq kernel.rules,
         \A t \in Targets : kernel'.host[t] # None => kernel.host[t] # None,
         \A p \in Peers : kernel'.underlay[p] # None =>
           kernel'.underlay[p] = kernel.underlay[p],
         Disturb, count' \in Counts, there' \subseteq Lines,
         index' \in [Lines -> 1..MaxIndex], facts' = facts
  PROVE  Inv'
<1>1. TypeOK /\ CallOK /\ SlotsOK /\ Home /\ UnderlayKnown /\ HostsAccounted
  BY DEF Inv
<1>2. /\ slot' = slot /\ probePaths' = probePaths /\ underlay' = underlay
      /\ pc' = pc /\ paths' = paths /\ clean' = clean /\ todo' = todo
      /\ exiting' = exiting /\ apply' = apply /\ spoiled' = spoiled /\ stray' = stray
  BY DEF managerVars, callVars
<1>3. orphans' \subseteq Peers
  BY <1>1 DEF Disturb, TypeOK
<1>4. TypeOK'
  BY <1>1, <1>2, <1>3 DEF TypeOK, Counts
<1>5. CallOK' /\ SlotsOK'
  BY <1>1, <1>2 DEF CallOK, SlotsOK
<1>6. Home'
  BY <1>1, <1>2 DEF Home, AtHome
<1>7. UnderlayKnown'
  BY <1>1, <1>2 DEF UnderlayKnown, Disturb
<1>8. HostsAccounted'
  BY <1>1, <1>2 DEF HostsAccounted
<1> QED BY <1>4, <1>5, <1>6, <1>7, <1>8 DEF Inv

LEMMA GoesStep ==
  ASSUME Inv, NEW l \in Lines, DeviceGoes(l)
  PROVE  Inv'
<1>1. TypeOK
  BY DEF Inv
<1>2. /\ kernel \in Kernels /\ kernel.rules \subseteq Lines \X Slots
      /\ kernel.table \in Routes(Slots) /\ kernel.host \in Routes(Targets)
      /\ kernel.underlay \in Routes(Peers)
  BY <1>1, KernelParts DEF TypeOK
<1>3. /\ Without(kernel.table, Over(kernel.table, l)) \in Routes(Slots)
      /\ Without(kernel.host, Over(kernel.host, l)) \in Routes(Targets)
      /\ Without(kernel.underlay, Over(kernel.underlay, l)) \in Routes(Peers)
  BY <1>2 DEF Without, Routes
<1>4. /\ \A t \in Targets : Without(kernel.host, Over(kernel.host, l))[t] # None =>
           kernel.host[t] # None
      /\ \A p \in Peers : Without(kernel.underlay, Over(kernel.underlay, l))[p] # None =>
           Without(kernel.underlay, Over(kernel.underlay, l))[p] = kernel.underlay[p]
  BY <1>2 DEF Without, Routes
<1>5. kernel' = [rules |-> kernel.rules,
                 table |-> Without(kernel.table, Over(kernel.table, l)),
                 host |-> Without(kernel.host, Over(kernel.host, l)),
                 underlay |-> Without(kernel.underlay, Over(kernel.underlay, l))]
  BY DEF DeviceGoes
<1>6. kernel' \in Kernels
  BY <1>2, <1>3, <1>5, KernelOf
<1>7. /\ kernel'.rules = kernel.rules
      /\ kernel'.host = Without(kernel.host, Over(kernel.host, l))
      /\ kernel'.underlay = Without(kernel.underlay, Over(kernel.underlay, l))
  BY <1>5
<1>8. count' \in Counts /\ Disturb
  BY <1>1, BoundedType DEF DeviceGoes
<1>9. there' \subseteq Lines /\ index' \in [Lines -> 1..MaxIndex] /\ facts' = facts
  BY <1>1 DEF DeviceGoes, TypeOK
<1>10. UNCHANGED <<slot, managerVars, callVars, apply, spoiled, stray>>
  BY DEF DeviceGoes
<1> QED BY <1>4, <1>6, <1>7, <1>8, <1>9, <1>10, Taken

LEMMA OthersStep ==
  ASSUME Inv, OthersRemove
  PROVE  Inv'
<1>1. TypeOK
  BY DEF Inv
<1>2. /\ kernel \in Kernels /\ kernel.rules \subseteq Lines \X Slots
      /\ kernel.host \in Routes(Targets) /\ kernel.underlay \in Routes(Peers)
  BY <1>1, KernelParts DEF TypeOK
<1>3. /\ count' \in Counts /\ Disturb
      /\ there' \subseteq Lines /\ index' \in [Lines -> 1..MaxIndex] /\ facts' = facts
      /\ UNCHANGED <<slot, managerVars, callVars, apply, spoiled, stray>>
  BY <1>1, BoundedType DEF OthersRemove, TypeOK, worldVars
<1>4. /\ kernel' \in Kernels /\ kernel'.rules \subseteq kernel.rules
      /\ \A t \in Targets : kernel'.host[t] # None => kernel.host[t] # None
      /\ \A p \in Peers : kernel'.underlay[p] # None =>
           kernel'.underlay[p] = kernel.underlay[p]
  <2>1. ASSUME NEW r \in kernel.rules, kernel' = [kernel EXCEPT !.rules = @ \ {r}]
        PROVE  /\ kernel' \in Kernels /\ kernel'.rules \subseteq kernel.rules
               /\ kernel'.host = kernel.host /\ kernel'.underlay = kernel.underlay
    <3> DEFINE R == kernel.rules \ {r}
    <3>1. R \in SUBSET (Lines \X Slots) /\ R \subseteq kernel.rules
      BY <1>2
    <3>2. kernel' = [kernel EXCEPT !.rules = R]
      BY <2>1
    <3> HIDE DEF R
    <3> QED BY <1>2, <3>1, <3>2, KernelRules
  <2>2. ASSUME NEW t \in Targets, kernel' = [kernel EXCEPT !.host[t] = None]
        PROVE  /\ kernel' \in Kernels /\ kernel'.rules = kernel.rules
               /\ \A x \in Targets : kernel'.host[x] # None => kernel.host[x] # None
               /\ kernel'.underlay = kernel.underlay
    <3> DEFINE H == [kernel.host EXCEPT ![t] = None]
    <3>1. H \in Routes(Targets) /\ \A x \in Targets : H[x] # None => kernel.host[x] # None
      BY <1>2 DEF Routes
    <3>2. kernel' = [kernel EXCEPT !.host = H]
      BY <2>2
    <3> HIDE DEF H
    <3> QED BY <1>2, <3>1, <3>2, KernelHost
  <2>3. ASSUME NEW p \in Peers, kernel' = [kernel EXCEPT !.underlay[p] = None]
        PROVE  /\ kernel' \in Kernels /\ kernel'.rules = kernel.rules
               /\ kernel'.host = kernel.host
               /\ \A x \in Peers : kernel'.underlay[x] # None =>
                    kernel'.underlay[x] = kernel.underlay[x]
    <3> DEFINE U == [kernel.underlay EXCEPT ![p] = None]
    <3>1. U \in Routes(Peers) /\ \A x \in Peers : U[x] # None => U[x] = kernel.underlay[x]
      BY <1>2 DEF Routes
    <3>2. kernel' = [kernel EXCEPT !.underlay = U]
      BY <2>3
    <3> HIDE DEF U
    <3> QED BY <1>2, <3>1, <3>2, KernelUnderlay
  <2>4. CASE \E r \in kernel.rules : kernel' = [kernel EXCEPT !.rules = @ \ {r}]
    BY <2>1, <2>4
  <2>5. CASE \E t \in Targets : kernel' = [kernel EXCEPT !.host[t] = None]
    BY <2>2, <2>5
  <2>6. CASE \E p \in Peers : kernel' = [kernel EXCEPT !.underlay[p] = None]
    BY <2>3, <2>6
  <2> QED BY <2>4, <2>5, <2>6 DEF OthersRemove
<1> QED BY <1>3, <1>4, Taken

LEMMA WorldStep ==
  ASSUME Inv, NEW l \in Lines, DeviceReturns(l) \/ LineChanges(l)
  PROVE  Inv'
<1>1. TypeOK /\ CallOK /\ SlotsOK /\ Home /\ UnderlayKnown /\ HostsAccounted
  BY DEF Inv
<1>2. /\ slot' = slot /\ kernel' = kernel /\ probePaths' = probePaths
      /\ underlay' = underlay /\ pc' = pc /\ paths' = paths /\ clean' = clean
      /\ todo' = todo /\ exiting' = exiting /\ apply' = apply
      /\ spoiled' = spoiled /\ stray' = stray /\ orphans' = orphans
  BY DEF DeviceReturns, LineChanges, managerVars, callVars
<1>3. /\ there' \subseteq Lines /\ index' \in [Lines -> 1..MaxIndex] /\ count' \in Counts
      /\ facts' \in [up : SUBSET Lines, degraded : SUBSET Lines, usable : SUBSET Lines,
                     default : BOOLEAN]
  <2>1. CASE DeviceReturns(l)
    <3>1. there' = there \cup {l} /\ index' = [index EXCEPT ![l] = @ + 1]
      BY <2>1 DEF DeviceReturns
    <3>2. facts' = facts /\ count' = count /\ index[l] < MaxIndex
      BY <2>1 DEF DeviceReturns
    <3>3. there' \subseteq Lines /\ index' \in [Lines -> 1..MaxIndex]
      BY <1>1, <3>1, <3>2, HostAssumption DEF TypeOK
    <3> QED BY <1>1, <3>2, <3>3 DEF TypeOK, Counts
  <2>2. CASE LineChanges(l)
    <3>1. count' \in Counts
      BY <1>1, <2>2, BoundedType DEF LineChanges
    <3>2. there' = there /\ index' = index
      BY <2>2 DEF LineChanges
    <3>3. facts' \in [up : SUBSET Lines, degraded : SUBSET Lines, usable : SUBSET Lines,
                      default : BOOLEAN]
      <4>1. facts \in [up : SUBSET Lines, degraded : SUBSET Lines, usable : SUBSET Lines,
                       default : BOOLEAN]
        BY <1>1 DEF TypeOK
      <4>2. \A S \in SUBSET Lines : Flip(S, l) \in SUBSET Lines
        BY DEF Flip
      <4>3. CASE facts' = [facts EXCEPT !.up = Flip(@, l)]
        BY <4>1, <4>2, <4>3
      <4>4. CASE facts' = [facts EXCEPT !.degraded = Flip(@, l)]
        BY <4>1, <4>2, <4>4
      <4>5. CASE facts' = [facts EXCEPT !.usable = Flip(@, l)]
        BY <4>1, <4>2, <4>5
      <4>6. CASE facts' = [facts EXCEPT !.default = ~@]
        <5>1. (~facts.default) \in BOOLEAN
          BY <4>1
        <5> QED BY <4>1, <4>6, <5>1
      <4> QED BY <2>2, <4>3, <4>4, <4>5, <4>6 DEF LineChanges
    <3> QED BY <1>1, <3>1, <3>2, <3>3 DEF TypeOK
  <2> QED BY <2>1, <2>2
<1>4. TypeOK'
  BY <1>1, <1>2, <1>3 DEF TypeOK, Counts
<1>5. CallOK' /\ SlotsOK'
  BY <1>1, <1>2 DEF CallOK, SlotsOK
<1>6. Home'
  BY <1>1, <1>2 DEF Home, AtHome
<1>7. UnderlayKnown' /\ HostsAccounted'
  BY <1>1, <1>2 DEF UnderlayKnown, HostsAccounted
<1> QED BY <1>4, <1>5, <1>6, <1>7 DEF Inv

-----------------------------------------------------------------------------

LEMMA Step ==
  ASSUME Inv, Next
  PROVE  Inv'
<1>1. CASE Start
  BY <1>1, StartStep
<1>2. CASE Crash
  BY <1>2, CrashStep
<1>3. CASE QueueProbePaths
  BY <1>3, QueuePathsStep
<1>4. CASE QueueApply
  BY <1>4, QueueApplyStep
<1>5. CASE BeginPaths
  BY <1>5, BeginStep
<1>6. CASE \E l \in Lines : RemoveStale(l)
  BY <1>6, RemoveStep
<1>7. CASE RemovedStale \/ EndPaths \/ Exit
  BY <1>7, CallStep
<1>8. CASE \E l \in Lines : InstallWanted(l)
  BY <1>8, InstallStep
<1>9. CASE RunApply
  BY <1>9, ApplyStep
<1>10. CASE Leave
  BY <1>10, LeaveStep
<1>11. CASE OthersRemove
  BY <1>11, OthersStep
<1>12. CASE \E l \in Lines : DeviceGoes(l)
  BY <1>12, GoesStep
<1>13. CASE \E l \in Lines : DeviceReturns(l) \/ LineChanges(l)
  BY <1>13, WorldStep
<1> QED BY <1>1, <1>2, <1>3, <1>4, <1>5, <1>6, <1>7, <1>8, <1>9, <1>10, <1>11, <1>12,
           <1>13 DEF Next, Worker, World

LEMMA Stutter ==
  ASSUME Inv, UNCHANGED vars
  PROVE  Inv'
<1>1. /\ there' = there /\ index' = index /\ facts' = facts /\ slot' = slot
      /\ kernel' = kernel /\ probePaths' = probePaths /\ underlay' = underlay
      /\ pc' = pc /\ paths' = paths /\ clean' = clean /\ todo' = todo
      /\ exiting' = exiting /\ apply' = apply /\ count' = count
      /\ spoiled' = spoiled /\ stray' = stray /\ orphans' = orphans
  BY DEF vars, worldVars, managerVars, callVars
<1>2. TypeOK /\ CallOK /\ SlotsOK /\ Home /\ UnderlayKnown /\ HostsAccounted
  BY DEF Inv
<1>3. TypeOK'
  BY <1>1, <1>2 DEF TypeOK
<1>4. CallOK' /\ SlotsOK'
  BY <1>1, <1>2 DEF CallOK, SlotsOK
<1>5. Home'
  BY <1>1, <1>2 DEF Home, AtHome
<1>6. UnderlayKnown' /\ HostsAccounted'
  BY <1>1, <1>2 DEF UnderlayKnown, HostsAccounted
<1> QED BY <1>3, <1>4, <1>5, <1>6 DEF Inv

LEMMA Invariance == Spec => []Inv
<1>1. Init => Inv
  BY InitStep
<1>2. Inv /\ [Next]_vars => Inv'
  BY Step, Stutter
<1> QED BY <1>1, <1>2, PTL DEF Spec

(* The manager's records, the commands and the kernel's routes have their  *)
(* types: no path is installed for a line without a path.                  *)
THEOREM HostTypes == Spec => []TypeOK
<1>1. Inv => TypeOK
  BY DEF Inv
<1> QED BY <1>1, Invariance, PTL

(* However often the program is killed and started with its lines in       *)
(* another order, no rule leads the probes of a line into the table of     *)
(* another, unless the deletion of a rule failed at a start.               *)
THEOREM RulesStayHome == Spec => []RulesHome
<1>1. Inv => RulesHome
  BY DEF Inv, Home, RulesHome
<1> QED BY <1>1, Invariance, PTL

(* Every underlay route of the kernel is the recorded one, or one whose    *)
(* installation or deletion was not acknowledged.                          *)
THEOREM UnderlayIsKnown == Spec => []UnderlayKnown
<1>1. Inv => UnderlayKnown
  BY DEF Inv
<1> QED BY <1>1, Invariance, PTL

(* As long as no request fails, every /32 of the probes belongs to a       *)
(* recorded path, in the middle of a call as well.                         *)
THEOREM HostsAreAccounted == Spec => []HostsAccounted
<1>1. Inv => HostsAccounted
  BY DEF Inv
<1> QED BY <1>1, Invariance, PTL

=============================================================================
