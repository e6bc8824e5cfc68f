----------------------------- MODULE HostRoutes -----------------------------
(***************************************************************************)
(* The paths RouteManager gives the probes and the encapsulated packets of *)
(* tunnels (src/src/netlink/route.rs), and the event loop's choice of what *)
(* they should be (src/src/main.rs):                                       *)
(*  - a probe path of a line is a rule "oif <line> lookup <table>", the    *)
(*    default route of that table and, for the probe targets the line owns,*)
(*    a /32 in the main table;                                             *)
(*  - the peer of a tunnel gets a /32 in the main table over the best line *)
(*    that is no tunnel ("underlay").                                      *)
(* The records of both are lost when the program ends; the kernel keeps    *)
(* what it has, and the next start sweeps it.                              *)
(*                                                                         *)
(* Abstractions.                                                           *)
(*  - A hop is a <<line, ifindex>> pair, and a request is what it does to  *)
(*    the kernel.  A call handles one path in one step; any of the         *)
(*    requests of that step may fail, before or after it was carried out.  *)
(*  - Targets of one path are sent in any order.                           *)
(*  - The table and the rule priority of a line are its slot, the place of *)
(*    the line in the configuration.                                       *)
(*  - The queue holds at most one command of each kind, and whether a call *)
(*    failed is not reported (WanDaemon has the rest): the heartbeat sends *)
(*    both commands again in any case.                                     *)
(*  - The kernel and the devices are external.                             *)
(***************************************************************************)
EXTENDS Integers, FiniteSets

CONSTANTS
  Lines, Targets, Peers,
  Metric,       \* metric of each line
  TargetsOf,    \* probe targets of each line
  PeersOf,      \* underlay_targets of each line; a tunnel has some
  Strict,       \* lines whose rp_filter is strict
  Slots,        \* slots of the reserved band
  MaxIndex,     \* bound: ifindexes a line can have
  MaxChanges,   \* bound: changes of a line's state, and removals by others
  MaxFailures,  \* bound: requests that fail for no visible reason
  MaxRuns,      \* bound: runs of the program
  Layouts       \* slot of each line in each run: the order in its configuration

None == <<>>                    \* no route, no path, no command
Hops == Lines \X (1..MaxIndex)

ASSUME HostAssumption ==
  /\ IsFiniteSet(Lines) /\ IsFiniteSet(Targets) /\ IsFiniteSet(Peers)
  /\ IsFiniteSet(Slots) /\ Slots \subseteq Int
  /\ Metric \in [Lines -> Int]
  /\ TargetsOf \in [Lines -> SUBSET Targets] /\ PeersOf \in [Lines -> SUBSET Peers]
  /\ Strict \subseteq Lines
  /\ MaxIndex \in Nat \ {0} /\ MaxChanges \in Nat /\ MaxFailures \in Nat
  /\ MaxRuns \in Nat \ {0} /\ Layouts \in [1..MaxRuns -> [Lines -> Slots]]
  /\ \A n \in 1..MaxRuns : \A l, o \in Lines : Layouts[n][l] = Layouts[n][o] => l = o

VARIABLES
  there,       \* lines whose device exists
  index,       \* ifindex of each line's device
  facts,       \* up, degraded, usable: lines; default: the main table has one
  slot,        \* slot of each line in this run
  kernel,      \* rules: <<line, slot>>; table: default route of each slot;
               \* host, underlay: the /32s of the main table, by metric
  probePaths,  \* probe_paths
  underlay,    \* underlay_routes
  pc,          \* "down", "idle", "stale", "wanted", "leaving"
  paths,       \* SetProbePaths in the queue or under way
  apply,       \* the underlay routes an Apply in the queue asks for
  clean,       \* probe_host_routes_cleanup
  todo,        \* lines the loop under way has still to handle
  exiting,     \* the call under way is cleanup_routes
  count,       \* history: changes, failures and runs so far
  spoiled,     \* history: a request failed in this run for no visible reason
  stray,       \* history: a rule outlived a start, as its deletion failed
  orphans      \* history: underlay routes whose installation was not acknowledged

worldVars   == <<there, index, facts>>
managerVars == <<probePaths, underlay>>
callVars    == <<pc, paths, clean, todo, exiting>>
vars == <<worldVars, slot, kernel, managerVars, callVars, apply, count,
          spoiled, stray, orphans>>

NoPaths  == [l \in Lines |-> None]
NoRoutes == [p \in Peers |-> None]

Init ==
  /\ there = Lines /\ index = [l \in Lines |-> 1]
  /\ \E up \in SUBSET Lines, default \in BOOLEAN :
       facts = [up |-> up, degraded |-> {}, usable |-> Lines, default |-> default]
  /\ slot = Layouts[1]
  /\ kernel = [rules |-> {}, table |-> [s \in Slots |-> None],
               host |-> [t \in Targets |-> None], underlay |-> NoRoutes]
  /\ probePaths = NoPaths /\ underlay = NoRoutes
  /\ pc = "down" /\ paths = None /\ apply = None
  /\ clean = TRUE /\ todo = {} /\ exiting = FALSE
  /\ count = [changes |-> 0, failures |-> 0, runs |-> 0]
  /\ spoiled = FALSE /\ stray = FALSE /\ orphans = {}

-----------------------------------------------------------------------------
(* What the event loop wants.                                              *)

Hop(l) == <<l, index[l]>>

Before(l, o) == Metric[l] < Metric[o] \/ (Metric[l] = Metric[o] /\ slot[l] < slot[o])
Best(S) == {l \in S : \A o \in S \ {l} : Before(l, o)}  \* at most one line

Live    == facts.up \cap there
Primary == {l \in Live : \A o \in Live : Metric[l] <= Metric[o]}   \* up_primary
Active  ==                                                         \* is_active
  LET fit == Primary \ facts.degraded
  IN  IF fit # {} \/ Primary = {} THEN fit ELSE Best(Primary)

Shared(l) == \E o \in Lines \ {l} : TargetsOf[o] \cap TargetsOf[l] # {}

(* Without a default route the answers to a probe are dropped unless the   *)
(* main table has a route back; a strict filter wants it over the line.    *)
WantsHost(l, default) ==
  l \notin Primary /\ (~default \/ (l \in Strict /\ ~Shared(l)))

Pool(t, default) == {l \in there : t \in TargetsOf[l] /\ WantsHost(l, default)}

(* Mutant: the owner may be a line whose device cannot be used.            *)
CandidatesAny(t, default) ==
  LET pool == Pool(t, default)
  IN  IF pool = {} THEN {l \in Lines : t \in TargetsOf[l]} ELSE pool

Candidates(t, default) ==
  LET pool == Pool(t, default)
  IN  IF pool = {} THEN {l \in Lines : t \in TargetsOf[l]}
      ELSE IF pool \cap facts.usable # {} THEN pool \cap facts.usable
      ELSE pool

OwnerOf(t, default) == Best(Candidates(t, default))

MainRouteTargets(l, default) ==
  {t \in TargetsOf[l] : WantsHost(l, default) /\ l \in OwnerOf(t, default)}

PathOf(l, default) ==
  [line |-> l, index |-> index[l], slot |-> slot[l],
   main |-> MainRouteTargets(l, default)]

(* Mutant: a line without a device (ifindex 0) is asked for as well.       *)
WantedPathsAbsent(default) ==
  [l \in Lines |-> [PathOf(l, default) EXCEPT !.index = IF l \in there THEN @ ELSE 0]]

WantedPaths(default) == [l \in Lines |-> IF l \in there THEN PathOf(l, default) ELSE None]

(* plan_underlay_routes: every peer goes over the best line that is no     *)
(* tunnel.                                                                 *)
Exits == {l \in Active : PeersOf[l] = {}}

PlanUnderlay ==
  [p \in Peers |-> IF Best(Exits) # {} /\ \E l \in Active : p \in PeersOf[l]
                   THEN Hop(CHOOSE l \in Best(Exits) : TRUE) ELSE None]

-----------------------------------------------------------------------------
(* Requests.  A call may meet as many faults as the bound leaves; a fault  *)
(* rejects a request, or loses the acknowledgement of one carried out.     *)

Budget == MaxFailures - count.failures
Faults(requests) == {F \in SUBSET requests : Cardinality(F) <= Budget}
Spend(n) ==
  /\ count' = [count EXCEPT !.failures = @ + n]
  /\ spoiled' = (spoiled \/ n > 0)

Answer(k, ok, n) == [kernel |-> k, ok |-> ok, faults |-> n]

Without(routes, S) == [x \in DOMAIN routes |-> IF x \in S THEN None ELSE routes[x]]
With(routes, S, h) == [x \in DOMAIN routes |-> IF x \in S THEN h ELSE routes[x]]

(* Mutant: the /32s of a path stay when it is removed.                     *)
RemovedKeepingHosts(k, p, kept) ==
  [k EXCEPT !.rules = IF <<"rule">> \in kept THEN @ ELSE @ \ {<<p.line, p.slot>>},
            !.table = IF <<"table">> \in kept THEN @ ELSE Without(@, {p.slot})]

(* remove_probe_path sends every deletion, whatever becomes of the others, *)
(* and reports those of the table and of the rule.                         *)
Removed(k, p, kept) ==
  [rules |-> IF <<"rule">> \in kept THEN k.rules ELSE k.rules \ {<<p.line, p.slot>>},
   table |-> IF <<"table">> \in kept THEN k.table ELSE Without(k.table, {p.slot}),
   host |-> Without(k.host, {t \in p.main : <<"host", t>> \notin kept}),
   underlay |-> k.underlay]

RemoveProbePath(k, p) ==
  LET requests == {<<"rule">>, <<"table">>} \cup {<<"host", t>> : t \in p.main}
  IN  UNION {{Answer(Removed(k, p, kept), F \cap {<<"rule">>, <<"table">>} = {},
                     Cardinality(F)) : kept \in SUBSET F} : F \in Faults(requests)}

(* install_probe_path stops at the first request that fails.               *)
Installed(k, p, reached, hosts) ==
  LET hop == <<p.line, p.index>>
  IN  [rules |-> IF reached = "nothing" THEN k.rules ELSE k.rules \cup {<<p.line, p.slot>>},
       table |-> IF reached = "table" THEN With(k.table, {p.slot}, hop) ELSE k.table,
       host |-> IF reached = "table" THEN With(k.host, hosts, hop) ELSE k.host,
       underlay |-> k.underlay]

Usable(hop) == hop[1] \in there /\ index[hop[1]] = hop[2]

InstallProbePath(k, p) ==
  (IF Usable(<<p.line, p.index>>) THEN {Answer(Installed(k, p, "table", p.main), TRUE, 0)}
   ELSE {Answer(Installed(k, p, "rule", {}), FALSE, 0)})
  \cup
  (IF Budget = 0 THEN {}
   ELSE {Answer(Installed(k, p, r, {}), FALSE, 1) : r \in {"nothing", "rule"}}
        \cup (IF Usable(<<p.line, p.index>>)
              THEN {Answer(Installed(k, p, "table", H), FALSE, 1) : H \in SUBSET p.main}
              ELSE {}))

(* Mutant: the sweep stops one priority short of the end of the band.      *)
OnePerSlotButLast(rules, slots) ==
  {R \in SUBSET rules :
     /\ \A r, o \in R : r[2] = o[2] => r = o
     /\ {r[2] : r \in R} = {r[2] : r \in rules} \cap {s \in slots : \E o \in Slots : s < o}}

(* The deletion of a rule by its priority takes one rule of that slot.     *)
OnePerSlot(rules, slots) ==
  {R \in SUBSET rules : /\ \A r, o \in R : r[2] = o[2] => r = o
                        /\ {r[2] : r \in R} = {r[2] : r \in rules} \cap slots}

(* Mutant: the sweep at the start leaves the underlay routes, as the one   *)
(* while the program runs does.                                            *)
SweptProbesOnly(routes, F, kept, kind) ==
  IF <<"dump", kind>> \in F \/ kind = "underlay" THEN routes
  ELSE Without(routes, {x \in DOMAIN routes : <<kind, x>> \notin kept})

(* The sweep of one metric: nothing if the dump fails.                     *)
Swept(routes, F, kept, kind) ==
  IF <<"dump", kind>> \in F THEN routes
  ELSE Without(routes, {x \in DOMAIN routes : <<kind, x>> \notin kept})

SweepRequests(routes, kind) ==
  {<<"dump", kind>>} \cup {<<kind, x>> : x \in {y \in DOMAIN routes : routes[y] # None}}

-----------------------------------------------------------------------------
(* The program.                                                            *)

(* Startup sweeps the rules of the reserved band, then the probe /32s and  *)
(* the underlay /32s; without a dump of the former it skips the latter.    *)
SweepAtStart(F, kept, gone) ==
  /\ kernel' = [rules |-> kernel.rules \ gone, table |-> kernel.table,
                host |-> Swept(kernel.host, F, kept, "host"),
                underlay |-> IF <<"dump", "host">> \in F THEN kernel.underlay
                             ELSE Swept(kernel.underlay, F, kept, "underlay")]
  /\ count' = [count EXCEPT !.runs = @ + 1, !.failures = @ + Cardinality(F)]
  /\ spoiled' = (F # {})
  /\ stray' = (stray \/ \E s \in Slots : <<"rule", s>> \in kept)
  /\ orphans' = {p \in Peers : /\ kernel.underlay[p] # None
                               /\ \/ \E d \in F : d[1] = "dump"
                                  \/ <<"underlay", p>> \in kept}

StartRequests ==
  {<<"rule", s>> : s \in {r[2] : r \in kernel.rules}}
  \cup SweepRequests(kernel.host, "host") \cup SweepRequests(kernel.underlay, "underlay")

Start ==
  /\ pc = "down" /\ count.runs < MaxRuns
  /\ \E F \in Faults(StartRequests) : \E kept \in SUBSET F :
     \E gone \in OnePerSlot(kernel.rules, {s \in Slots : <<"rule", s>> \notin kept}) :
       SweepAtStart(F, kept, gone)
  /\ slot' = Layouts[count.runs + 1]
  /\ probePaths' = NoPaths /\ underlay' = NoRoutes
  /\ pc' = "idle" /\ paths' = None /\ apply' = None
  /\ clean' = TRUE /\ todo' = {} /\ exiting' = FALSE
  /\ UNCHANGED worldVars

(* Killed: the kernel keeps everything.                                    *)
Crash ==
  /\ pc # "down" /\ count.runs < MaxRuns
  /\ pc' = "down"
  /\ probePaths' = NoPaths /\ underlay' = NoRoutes
  /\ paths' = None /\ apply' = None
  /\ clean' = TRUE /\ todo' = {} /\ exiting' = FALSE
  /\ spoiled' = FALSE /\ orphans' = {}
  /\ UNCHANGED <<worldVars, slot, kernel, count, stray>>

(* The loop decides on the probe paths; a query that fails counts as "no   *)
(* default route".  One update is under way at a time.                     *)
QueueProbePaths ==
  /\ pc # "down" /\ ~exiting /\ paths = None
  /\ \/ paths' = WantedPaths(facts.default) /\ UNCHANGED <<count, spoiled>>
     \/ Budget > 0 /\ facts.default /\ paths' = WantedPaths(FALSE) /\ Spend(1)
  /\ UNCHANGED <<worldVars, slot, kernel, managerVars, pc, clean, todo, exiting, apply,
                 stray, orphans>>

QueueApply ==
  /\ pc # "down" /\ ~exiting /\ apply = None
  /\ apply' = PlanUnderlay
  /\ UNCHANGED <<worldVars, slot, kernel, managerVars, callVars, count,
                 spoiled, stray, orphans>>

(* The worker takes up SetProbePaths: the first one of a run sweeps the    *)
(* probe /32s, but not those of the underlay.                              *)
BeginPaths ==
  /\ pc = "idle" /\ paths # None
  /\ pc' = "stale"
  /\ todo' = {l \in Lines : probePaths[l] # None /\ paths[l] = None}
  /\ clean' = FALSE
  /\ IF clean
     THEN \E F \in Faults(SweepRequests(kernel.host, "host")) : \E kept \in SUBSET F :
            /\ kernel' = [kernel EXCEPT !.host = Swept(@, F, kept, "host")]
            /\ Spend(Cardinality(F))
     ELSE UNCHANGED <<kernel, count, spoiled>>
  /\ UNCHANGED <<worldVars, slot, managerVars, paths, exiting, apply, stray, orphans>>

(* A path that is wanted no more.                                          *)
RemoveStale(l) ==
  /\ pc = "stale" /\ l \in todo
  /\ \E a \in RemoveProbePath(kernel, probePaths[l]) :
       /\ kernel' = a.kernel
       /\ probePaths' = IF a.ok THEN [probePaths EXCEPT ![l] = None] ELSE probePaths
       /\ Spend(a.faults)
  /\ todo' = todo \ {l}
  /\ UNCHANGED <<worldVars, slot, underlay, pc, paths, clean, exiting, apply, stray,
                 orphans>>

RemovedStale ==
  /\ pc = "stale" /\ todo = {}
  /\ pc' = "wanted"
  /\ todo' = {l \in Lines : paths[l] # None}
  /\ UNCHANGED <<worldVars, slot, kernel, managerVars, paths, clean, exiting, apply, count,
                 spoiled, stray, orphans>>

(* Mutant: what the record already holds is not installed again.           *)
ReinstallChanged(k, l) ==
  IF probePaths[l] = paths[l] THEN {Answer(k, TRUE, 0)} ELSE InstallProbePath(k, paths[l])

(* A path that is wanted, in the order of the configuration: what changed  *)
(* is taken down first, and every path is installed again.                 *)
Reinstall(k, l) == InstallProbePath(k, paths[l])

InstallWanted(l) ==
  /\ pc = "wanted" /\ l \in todo
  /\ \A o \in todo : slot[l] <= slot[o]
  /\ LET changed == probePaths[l] # None /\ probePaths[l] # paths[l]
         first == IF changed THEN RemoveProbePath(kernel, probePaths[l])
                  ELSE {Answer(kernel, TRUE, 0)}
     IN  \E r \in first :
           /\ todo' = todo \ {l}
           /\ IF ~r.ok
              THEN /\ kernel' = r.kernel /\ Spend(r.faults)
                   /\ UNCHANGED probePaths
              ELSE \E i \in Reinstall(r.kernel, l) :
                   /\ r.faults + i.faults <= Budget
                   /\ kernel' = i.kernel
                   /\ Spend(r.faults + i.faults)
                   /\ probePaths' = [probePaths EXCEPT ![l] =
                        IF i.ok THEN paths[l] ELSE IF changed THEN None ELSE @]
  /\ UNCHANGED <<worldVars, slot, underlay, pc, paths, clean, exiting, apply, stray,
                 orphans>>

EndPaths ==
  /\ pc = "wanted" /\ todo = {}
  /\ pc' = IF exiting THEN "leaving" ELSE "idle"
  /\ paths' = None
  /\ UNCHANGED <<worldVars, slot, kernel, managerVars, clean, todo, exiting, apply, count,
                 spoiled, stray, orphans>>

(* Mutant: the record alone decides what is missing.                       *)
RepairsByRecord(plan, dumped, present) ==
  {p \in Peers : plan[p] # None /\ underlay[p] # plan[p]}

(* plan_underlay_repairs: what the record lacks or has over another hop,   *)
(* and what the dump, if there is one, does not show.                      *)
Repairs(plan, dumped, present) ==
  {p \in Peers : plan[p] # None
     /\ (underlay[p] # plan[p] \/ (dumped /\ p \notin present))}

Present     == {p \in Peers : kernel.underlay[p] # None}
Stale(plan) == {p \in Peers : underlay[p] # None /\ plan[p] = None}

(* A route the dump shows to be gone needs no deletion.                    *)
Sent(plan, dumped) == IF dumped THEN Stale(plan) \cap Present ELSE Stale(plan)

SyncRound(plan, sent, F, kept, done, unacked) ==
  /\ kernel' = [kernel EXCEPT !.underlay =
        [p \in Peers |-> IF p \in done \cup unacked THEN plan[p]
                         ELSE IF p \in sent \ kept THEN None
                         ELSE kernel.underlay[p]]]
  /\ underlay' = [p \in Peers |-> IF p \in done THEN plan[p]
                                  ELSE IF p \in Stale(plan) \ F THEN None
                                  ELSE underlay[p]]
  /\ orphans' = (orphans \ (done \cup (sent \ kept))) \cup unacked

(* sync_underlay_routes: the dump decides what is missing; without one the *)
(* record does.  A deletion that fails is tried again next time, a failed  *)
(* installation ends the round.                                            *)
Sync(plan) ==
  \E blind \in Faults({<<"dump">>}) :
    LET sent    == Sent(plan, blind = {})
        repairs == Repairs(plan, blind = {}, Present)
        able    == \A p \in repairs : Usable(plan[p])
    IN
    \E F \in Faults(sent) : \E kept \in SUBSET F :
    \E done \in SUBSET repairs : \E unacked \in SUBSET (repairs \ done) :
      LET faults == Cardinality(blind) + Cardinality(F)
                    + (IF able /\ done # repairs THEN 1 ELSE 0)
      IN  /\ ~able => done = {} /\ unacked = {}
          /\ Cardinality(unacked) <= 1
          /\ faults <= Budget
          /\ SyncRound(plan, sent, F, kept, done, unacked)
          /\ Spend(faults)

RunApply ==
  /\ pc = "idle" /\ apply # None
  /\ Sync(apply)
  /\ apply' = None
  /\ UNCHANGED <<worldVars, slot, probePaths, callVars, stray>>

(* cleanup_routes: no probe path is wanted any more, then no underlay      *)
(* route.                                                                  *)
Exit ==
  /\ pc = "idle"
  /\ pc' = "stale" /\ exiting' = TRUE
  /\ paths' = NoPaths /\ apply' = None
  /\ todo' = {l \in Lines : probePaths[l] # None}
  /\ UNCHANGED <<worldVars, slot, kernel, managerVars, clean, count, spoiled, stray, orphans>>

Leave ==
  /\ pc = "leaving"
  /\ Sync(NoRoutes)
  /\ pc' = "down" /\ exiting' = FALSE /\ clean' = TRUE
  /\ probePaths' = NoPaths
  /\ UNCHANGED <<worldVars, slot, paths, todo, apply, stray>>

-----------------------------------------------------------------------------
(* The world: devices go and return under another ifindex, lines change,   *)
(* other programs remove what they do not know.                            *)

Bounded ==
  /\ count.changes < MaxChanges
  /\ count' = [count EXCEPT !.changes = @ + 1]

Disturb == orphans' = {p \in orphans : kernel'.underlay[p] # None}

Over(routes, l) == {x \in DOMAIN routes : routes[x] # None /\ routes[x][1] = l}

DeviceGoes(l) ==
  /\ Bounded /\ l \in there
  /\ there' = there \ {l}
  /\ kernel' = [rules |-> kernel.rules,
                table |-> Without(kernel.table, Over(kernel.table, l)),
                host |-> Without(kernel.host, Over(kernel.host, l)),
                underlay |-> Without(kernel.underlay, Over(kernel.underlay, l))]
  /\ Disturb
  /\ UNCHANGED <<index, facts, slot, managerVars, callVars, apply, spoiled, stray>>

DeviceReturns(l) ==
  /\ l \notin there /\ index[l] < MaxIndex
  /\ there' = there \cup {l} /\ index' = [index EXCEPT ![l] = @ + 1]
  /\ UNCHANGED <<facts, slot, kernel, managerVars, callVars, apply, count,
                 spoiled, stray, orphans>>

Flip(S, l) == IF l \in S THEN S \ {l} ELSE S \cup {l}

LineChanges(l) ==
  /\ Bounded
  /\ \/ facts' = [facts EXCEPT !.up = Flip(@, l)]
     \/ facts' = [facts EXCEPT !.degraded = Flip(@, l)]
     \/ facts' = [facts EXCEPT !.usable = Flip(@, l)]
     \/ facts' = [facts EXCEPT !.default = ~@]
  /\ UNCHANGED <<there, index, slot, kernel, managerVars, callVars, apply,
                 spoiled, stray, orphans>>

OthersRemove ==
  /\ Bounded
  /\ \/ \E r \in kernel.rules : kernel' = [kernel EXCEPT !.rules = @ \ {r}]
     \/ \E t \in Targets : kernel.host[t] # None /\ kernel' = [kernel EXCEPT !.host[t] = None]
     \/ \E p \in Peers : /\ kernel.underlay[p] # None
                         /\ kernel' = [kernel EXCEPT !.underlay[p] = None]
  /\ Disturb
  /\ UNCHANGED <<worldVars, slot, managerVars, callVars, apply, spoiled, stray>>

-----------------------------------------------------------------------------

Worker ==
  \/ BeginPaths \/ (\E l \in Lines : RemoveStale(l)) \/ RemovedStale
  \/ (\E l \in Lines : InstallWanted(l)) \/ EndPaths \/ RunApply \/ Leave

World ==
  \/ OthersRemove
  \/ \E l \in Lines : DeviceGoes(l) \/ DeviceReturns(l) \/ LineChanges(l)

Next == Start \/ Crash \/ QueueProbePaths \/ QueueApply \/ Worker \/ Exit \/ World

(* The heartbeat sends both commands again and again; the worker takes up  *)
(* what is queued.                                                         *)
Fairness ==
  /\ WF_vars(QueueProbePaths) /\ WF_vars(QueueApply)
  /\ SF_vars(BeginPaths) /\ SF_vars(RunApply)
  /\ WF_vars(Worker)

Spec == Init /\ [][Next]_vars /\ Fairness

-----------------------------------------------------------------------------
(* Properties.                                                             *)

Paths == [line : Lines, index : 1..MaxIndex, slot : Slots, main : SUBSET Targets]

Kernels == [rules : SUBSET (Lines \X Slots), table : [Slots -> Hops \cup {None}],
            host : [Targets -> Hops \cup {None}],
            underlay : [Peers -> Hops \cup {None}]]

TypeOK ==
  /\ there \subseteq Lines /\ index \in [Lines -> 1..MaxIndex]
  /\ facts \in [up : SUBSET Lines, degraded : SUBSET Lines, usable : SUBSET Lines,
               default : BOOLEAN]
  /\ slot \in [Lines -> Slots]
  /\ kernel \in Kernels
  /\ probePaths \in [Lines -> Paths \cup {None}]
  /\ underlay \in [Peers -> Hops \cup {None}]
  /\ pc \in {"down", "idle", "stale", "wanted", "leaving"}
  /\ paths \in [Lines -> Paths \cup {None}] \cup {None}
  /\ apply \in [Peers -> Hops \cup {None}] \cup {None}
  /\ todo \subseteq Lines
  /\ clean \in BOOLEAN /\ exiting \in BOOLEAN
  /\ count \in [changes : Nat, failures : Nat, runs : Nat]
  /\ spoiled \in BOOLEAN /\ stray \in BOOLEAN
  /\ orphans \subseteq Peers

(* Every /32 of the probes in the main table belongs to a recorded path,   *)
(* so that a later call knows to remove it: a path that moves, changes or  *)
(* loses its device leaves none behind, nor does an earlier run.  It takes *)
(* a request failing for no visible reason to break this (the errors of    *)
(* the deletions in remove_probe_path are dropped), hence "spoiled".       *)
HostsAccounted ==
  pc # "down" /\ ~spoiled =>
    \A t \in Targets : kernel.host[t] # None =>
      \E l \in Lines : probePaths[l] # None /\ t \in probePaths[l].main

(* No probe rule leads a line into the table of another line, whatever the *)
(* order of the lines was in earlier runs and however those ended: the     *)
(* sweep takes one rule per priority, and there is never more than one.    *)
(* (A deletion that fails at a start ends the promise, for the next start  *)
(* may find two rules of one priority.)                                    *)
RulesHome ==
  pc # "down" /\ ~stray => \A r \in kernel.rules : slot[r[1]] = r[2]

(* What the kernel has of the underlay routes is what underlay_routes says,*)
(* except for a route whose installation was not acknowledged or that the  *)
(* sweep at the start could not remove: sync_underlay_routes only removes  *)
(* what its record holds.                                                  *)
UnderlayKnown ==
  pc # "down" => \A p \in Peers : kernel.underlay[p] # None =>
                   kernel.underlay[p] = underlay[p] \/ p \in orphans

PathInstalled(p) ==
  /\ <<p.line, p.slot>> \in kernel.rules
  /\ kernel.table[p.slot] = <<p.line, p.index>>
  /\ \A t \in p.main : kernel.host[t] = <<p.line, p.index>>

Runs == <>[](pc # "down")

(* Whatever fails, vanishes or is removed, every line whose device exists  *)
(* gets the probe path the present state of the lines calls for.           *)
PathsConverge ==
  Runs => <>[](\A l \in there : PathInstalled(PathOf(l, facts.default)))

(* A line that carries nothing, with no default route to bring the answers *)
(* to its probes back, gets the /32 of a target it shares with lines whose *)
(* devices cannot be used: it is not locked out by a line that is gone.    *)
Only(l, t) ==
  /\ ~facts.default /\ l \in there \cap facts.usable /\ l \notin Primary
  /\ t \in TargetsOf[l]
  /\ \A o \in Lines \ {l} : t \in TargetsOf[o] => o \notin facts.usable

UsableLineProbed ==
  Runs => <>[](\A l \in Lines, t \in Targets : Only(l, t) => kernel.host[t] = Hop(l))

(* The peers of the tunnels that carry traffic end up with a /32 over the  *)
(* best line that is no tunnel, and no other peer with one: also after a   *)
(* removal from outside, an exit line that changed, and the sweep of the   *)
(* probe routes behind them in the same batch.                             *)
UnderlayConverges ==
  Runs => <>[](\A p \in Peers : kernel.underlay[p] = PlanUnderlay[p]
                                \/ (p \in orphans /\ PlanUnderlay[p] = None))

=============================================================================
