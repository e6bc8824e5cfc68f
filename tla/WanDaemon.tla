------------------------------ MODULE WanDaemon ------------------------------
(***************************************************************************)
(* The daemon's event loop and its netlink worker (src/src/main.rs).  The  *)
(* loop runs on one thread: a tick probes every line, decides which lines  *)
(* carry traffic and queues commands without ever blocking.  The worker    *)
(* runs on another: it drains the bounded queue into a batch, keeps the    *)
(* newest command of each kind, executes the batch in a fixed order and    *)
(* reports an outcome per command.  A tick is split wherever the worker's  *)
(* progress can be observed; nothing else touches the loop's state inside  *)
(* a tick.                                                                 *)
(*                                                                         *)
(* Abstractions.                                                           *)
(*  - What a probe says of a line is its health: "up", "degraded" (UP, out *)
(*    of ECMP) or "down"; LinkQuality models how samples decide it.        *)
(*  - A payload is a function from lines to what the command says of them. *)
(*    Weights are one version number shared by the lines.                  *)
(*  - Ages are counted in ticks and saturate where the code compares them. *)
(*  - What the kernel holds of a family's default route is the payload it  *)
(*    holds exactly, or nothing: {} stands for no route, a partly applied  *)
(*    one, or a foreign one.                                               *)
(*  - A probe path is its rule, the route of its table and RouteManager's  *)
(*    record of it.  Its /32s in the main table are left out (HostRoutes   *)
(*    has them), but not that their installation may fail.                 *)
(*  - A policy rule is <<line, prefix, ifindex>>.  The kernel keeps no     *)
(*    ifindex in it and allows copies: the ifindex tells copies apart.     *)
(*  - A RouteManager operation is one step that succeeds or fails, line by *)
(*    line for probe paths and rule by rule for policies.                  *)
(***************************************************************************)
EXTENDS Integers, Sequences, FiniteSets, SequencesExt

CONSTANTS
  Lines,           \* the WANs: 1..n, in configuration order (the slot)
  Metric,          \* metric of each line
  V6Lines,         \* lines with a gateway6
  PolicyPrefixes,  \* for each line, the prefixes of the policy that targets it
  QueueCapacity,   \* NETLINK_QUEUE_CAPACITY
  HeartbeatTicks,  \* ROUTE_HEARTBEAT_TICKS = PROBE_PATH_REFRESH_TICKS
  RefreshTicks,    \* IFINDEX_REFRESH_TICKS
  WatchRetryTicks, \* LINK_WATCH_RETRY_TICKS
  RetryTicks,      \* ticks before a failed command of each kind is sent again
  QuietTicks,      \* CONNTRACK_FLUSH_DOWN_QUIET, in ticks
  FlushInterval,   \* conntrack_flush_min_interval_ms, in ticks
  FlushOnDown,     \* flush_conntrack_on_down
  FlushOnSwitch,   \* flush_conntrack_on_switch
  ClearOnExit,     \* remove_routes_on_exit
  Variants,        \* what apply_default_routes may report as installed
  InPlay,          \* bound: the repeated commands this instance ever sends
  MaxChanges,      \* bound: changes of health, weights, devices and kernel
  MaxFailures,     \* bound: worker operations that fail for no visible reason
  Failing,         \* bound: the kinds of command that do
  MaxIndex,        \* bound: interface indexes the kernel hands out
  Disturbances     \* bound: what else happens to the daemon in this instance

Repeated == {"v4", "probe", "policies"}   \* commands with an inflight flag
Routed   == {"v4", "v6"}                  \* commands for default routes
Kinds    == Repeated \cup Routed \cup {"flush", "clear"}
Healths  == {"up", "degraded", "down"}

ASSUME DaemonAssumption ==
  /\ IsFiniteSet(Lines) /\ Lines # {} /\ Lines = 1..Cardinality(Lines)
  /\ Metric \in [Lines -> Nat]
  /\ V6Lines \subseteq Lines
  /\ DOMAIN PolicyPrefixes = Lines
  /\ {QueueCapacity, HeartbeatTicks, RefreshTicks} \subseteq Nat \ {0}
  /\ RefreshTicks % HeartbeatTicks = 0
  /\ RetryTicks \in [Repeated -> Nat \ {0}]
  /\ {WatchRetryTicks, QuietTicks, FlushInterval} \subseteq Nat
  /\ {FlushOnDown, FlushOnSwitch, ClearOnExit} \subseteq BOOLEAN
  /\ Disturbances \subseteq {"devices", "routes", "rules", "watch", "signal"}
  /\ Variants \subseteq {"standard", "resilient"} /\ Variants # {}
  /\ InPlay \subseteq Repeated
  /\ {MaxChanges, MaxFailures, MaxIndex} \subseteq Nat /\ Failing \subseteq Kinds
  /\ Lines \subseteq 1..MaxIndex

Never == -1    \* an Option<Instant> that is None
Gone  == 0     \* the ifindex of an interface that does not exist

VARIABLES
  (* the event loop *)
  pc,          \* where the loop is, inside a tick or its exit
  clock,       \* tick_count, modulo RefreshTicks
  health,      \* what the estimator of each line says
  ifindex,     \* WanMonitor.ifindex
  since,       \* down_since: ticks ago, or Never
  lastDown,    \* last_down_at: ticks ago, or Never
  lastFlush,   \* last_conntrack_flush: ticks ago, or Never
  flushed,     \* the lines with flushed_while_down set
  weights,     \* version of the effective weights
  lastActive,  \* last_active_ifindexes: {} or {sequence of ifindexes}
  v6Pending,   \* v6_pending: {} or {payload}
  lastRules,   \* last_policy_signature: {} or {set of rules}
  dirty,       \* kinds to send again, and "weights" (weights_dirty)
  inflight,    \* kinds whose outcome is awaited
  wait,        \* ticks until retry_at, per kind
  switched,    \* lines this tick collected for flush-on-switch
  resilient,   \* kernel_resilient
  watching,    \* the link watcher is subscribed
  watchWait,   \* ticks until link_watch_retry_at
  (* between the loop and the worker *)
  queue,       \* commands sent, oldest first
  outcomes,    \* outcomes reported, oldest first
  dropped,     \* observer: kinds one of whose outcomes was read and discarded
  (* the worker *)
  worker,      \* "recv", "run" or "gone"
  batch,       \* the newest command of each kind, {} when there is none
  given,       \* the last v4 and v6 payload handed to RouteManager
  rules,       \* RouteManager.policy_rules
  (* the kernel and the rest of the machine *)
  kernel,      \* the payload held of each routed kind: {} or {payload}
  path,        \* the probe path of each line, in the kernel and on record
  halfway,     \* observer: lines off record since an installation failed
  kernelRules, \* policy rules installed
  sessions,    \* lines that conntrack has sessions of
  device,      \* the ifindex each interface really has
  fresh,       \* the highest ifindex handed out so far
  events,      \* lines with a link event not yet read
  changes,     \* changes of the environment so far
  failures     \* failures of the worker's operations so far

lineVars   == <<health, ifindex, since, lastDown, lastFlush, flushed>>
sentVars   == <<lastActive, v6Pending, lastRules, dirty, inflight, wait, switched>>
watchVars  == <<watching, watchWait, events>>
pathVars   == <<path, halfway>>
workerVars == <<worker, batch, given, rules, kernel, kernelRules, pathVars, failures>>
deviceVars == <<device, fresh>>
vars == <<pc, clock, lineVars, weights, sentVars, resilient, watchVars, queue,
          outcomes, dropped, workerVars, sessions, deviceVars, changes>>

Command(kind, arg) == [kind |-> kind, arg |-> arg]

NoBatch == [k \in Kinds |-> {}]

(* The rule "oif <line> lookup <table>", the ifindex of the table's default*)
(* route, and the ifindex in probe_paths; Gone where there is none.        *)
NoPath == [rule |-> FALSE, table |-> Gone, known |-> Gone]

(* The payload that asks for no probe path.                                *)
NoIndexes == [l \in Lines |-> Gone]

Init ==
  /\ pc = "idle" /\ clock = 0
  /\ health = [l \in Lines |-> "down"]
  /\ ifindex = [l \in Lines |-> l]
  /\ since = [l \in Lines |-> Never]
  /\ lastDown = [l \in Lines |-> Never]
  /\ lastFlush = [l \in Lines |-> Never]
  /\ flushed = {} /\ weights = 0
  /\ lastActive = {} /\ v6Pending = {} /\ lastRules = {}
  /\ dirty = {"probe"} \cup {k \in {"policies"} : \E l \in Lines : PolicyPrefixes[l] # {}}
  /\ inflight = {} /\ switched = {}
  /\ wait = [k \in Repeated |-> 0]
  /\ resilient = FALSE
  /\ watching = TRUE /\ watchWait = 0 /\ events = {}
  /\ queue = <<>> /\ outcomes = <<>> /\ dropped = {}
  /\ worker = "recv" /\ batch = NoBatch
  /\ given = [k \in Routed |-> {}]
  /\ rules = {} /\ kernelRules = {}
  /\ kernel = [k \in Routed |-> {}]
  /\ path = [l \in Lines |-> NoPath] /\ halfway = {}
  /\ sessions = {}
  /\ device = ifindex /\ fresh = Cardinality(Lines)
  /\ changes = 0 /\ failures = 0

-----------------------------------------------------------------------------
(* Which lines carry traffic, from the monitors as they stand.             *)

UpLines == {l \in Lines : health[l] # "down" /\ ifindex[l] # Gone}

(* UP, with the smallest metric of the UP lines.                           *)
Primary == {l \in UpLines : \A m \in UpLines : Metric[l] <= Metric[m]}

Undegraded == {l \in Primary : health[l] = "up"}

(* Degraded primaries carry nothing, unless all of them are degraded: then *)
(* the first one does.                                                     *)
Active ==
  IF Undegraded # {} THEN Undegraded
  ELSE {l \in Primary : \A m \in Primary : l <= m}

ActiveIndexes ==
  LET slots == SetToSortSeq(Active, <) IN [i \in DOMAIN slots |-> ifindex[slots[i]]]

RoutesOf(lines) == [l \in lines |-> <<ifindex[l], weights>>]

(* A probe path is wanted of every line whose interface is resolved.       *)
ProbePaths == ifindex

(* build_policy_rules: a policy whose line is not UP has no rules.         *)
PolicyRules ==
  UNION {{<<l, p, ifindex[l]>> : p \in PolicyPrefixes[l]} : l \in UpLines}

-----------------------------------------------------------------------------
(* The queue.  try_send never blocks: it succeeds or finds the queue full. *)

(* Mutant: the queue is unbounded.                                         *)
RoomUnbounded == TRUE

Room == Len(queue) < QueueCapacity
Send(kind, arg) == queue' = Append(queue, Command(kind, arg))

Heartbeat == clock % HeartbeatTicks = 0

Older(age, limit) == IF age = Never \/ age = limit THEN age ELSE age + 1
Less(n) == IF n > 0 THEN n - 1 ELSE 0

-----------------------------------------------------------------------------
(* A tick of the loop, step by step.                                       *)

FailedKinds == {o.kind : o \in {x \in ToSet(outcomes) : ~x.ok}}
ReportedVariants == {o.variant : o \in {x \in ToSet(outcomes) : x.kind = "v4" /\ x.ok}}

(* The tick starts and takes in every outcome reported so far.  A command  *)
(* that failed is marked for another attempt; a failed flush makes every   *)
(* line that is DOWN eligible for flushing again.                          *)
TickBegin ==
  /\ pc = "idle" /\ pc' = "check"
  /\ clock' = (clock + 1) % RefreshTicks
  /\ since' = [l \in Lines |-> Older(since[l], QuietTicks)]
  /\ lastDown' = [l \in Lines |-> Older(lastDown[l], QuietTicks)]
  /\ lastFlush' = [l \in Lines |-> Older(lastFlush[l], FlushInterval)]
  /\ watchWait' = Less(watchWait)
  /\ outcomes' = <<>>
  /\ inflight' = inflight \ {o.kind : o \in ToSet(outcomes)}
  /\ dirty' = dirty \cup (FailedKinds \cap Repeated)
  /\ wait' = [k \in Repeated |-> IF k \in FailedKinds THEN RetryTicks[k] ELSE Less(wait[k])]
  /\ flushed' = IF "flush" \in FailedKinds THEN {l \in flushed : since[l] = Never} ELSE flushed
  /\ resilient' = IF ReportedVariants = {} THEN resilient ELSE "resilient" \in ReportedVariants
  /\ UNCHANGED <<health, ifindex, weights, lastActive, v6Pending, lastRules, switched,
                 watching, events, queue, dropped, workerVars, sessions, deviceVars, changes>>

(* The loop asks whether the worker is gone by reading the outcome channel *)
(* once more, which discards an outcome that has arrived in the meantime.  *)
(* Then it subscribes to link events again if that is due.                 *)
CheckThreads ==
  /\ pc = "check" /\ pc' = IF v6Pending = {} THEN "sample" ELSE "resend"
  /\ IF outcomes = <<>> THEN UNCHANGED <<outcomes, dropped>>
     ELSE outcomes' = Tail(outcomes) /\ dropped' = dropped \cup {Head(outcomes).kind}
  /\ IF watching \/ watchWait > 0 THEN UNCHANGED <<watching, watchWait>>
     ELSE \/ watching' = TRUE /\ UNCHANGED watchWait
          \/ watchWait' = WatchRetryTicks /\ UNCHANGED watching
  /\ UNCHANGED <<clock, lineVars, weights, sentVars, resilient, events, queue,
                 workerVars, sessions, deviceVars, changes>>

(* Mutant: an IPv6 update refused twice is forgotten.                      *)
ResendV6Once ==
  /\ pc = "resend" /\ pc' = "sample"
  /\ v6Pending' = {}
  /\ IF Room THEN \E p \in v6Pending : Send("v6", p) ELSE UNCHANGED queue
  /\ UNCHANGED <<clock, lineVars, weights, lastActive, lastRules, dirty, inflight, wait,
                 switched, resilient, watchVars, outcomes, dropped, workerVars, sessions,
                 deviceVars, changes>>

(* An IPv6 update the queue refused is sent before anything newer.         *)
ResendV6 ==
  /\ pc = "resend" /\ pc' = "sample"
  /\ IF Room THEN (\E p \in v6Pending : Send("v6", p)) /\ v6Pending' = {}
             ELSE UNCHANGED <<queue, v6Pending>>
  /\ UNCHANGED <<clock, lineVars, weights, lastActive, lastRules, dirty, inflight, wait,
                 switched, resilient, watchVars, outcomes, dropped, workerVars, sessions,
                 deviceVars, changes>>

(* Mutant: no periodic refresh.                                            *)
RefreshedLate == [l \in Lines |-> IF ifindex[l] = Gone THEN device[l] ELSE ifindex[l]]

(* A line resolved late, and every line on the periodic refresh, gets the  *)
(* ifindex its interface has now.                                          *)
Refreshed == [l \in Lines |-> IF ifindex[l] = Gone \/ clock = 0 THEN device[l] ELSE ifindex[l]]

(* The probes of all lines are in: the estimators' verdicts change, and    *)
(* with them down_since and last_down_at; the weights may change.  A probe *)
(* that cannot leave the device asks for the probe paths again.            *)
Sample ==
  /\ pc = "sample" /\ pc' = "apply"
  /\ \E h \in [Lines -> Healths], w \in 0..1, local \in BOOLEAN :
       LET fell == {l \in Lines : health[l] # "down" /\ h[l] = "down"}
           rose == {l \in Lines : health[l] = "down" /\ h[l] # "down"}
           new  == {k \in {"weights"} : w # weights}
                   \cup {k \in {"probe"} : local \/ Refreshed # ifindex}
       IN /\ local => "probe" \in InPlay
          /\ w # weights => "v4" \in InPlay
          /\ changes' = IF h # health \/ w # weights \/ local THEN changes + 1 ELSE changes
          /\ changes' <= MaxChanges
          /\ health' = h
          /\ weights' = w
          /\ since' = [l \in Lines |-> IF l \in fell THEN 0
                                       ELSE IF l \in rose THEN Never ELSE since[l]]
          /\ lastDown' = [l \in Lines |-> IF l \in fell THEN 0 ELSE lastDown[l]]
          /\ flushed' = flushed \ rose
          /\ dirty' = dirty \cup new
          /\ sessions' = sessions \cup {l \in Lines : h[l] # "down"}
  /\ ifindex' = Refreshed
  /\ switched' = {}
  /\ UNCHANGED <<clock, lastFlush, lastActive, v6Pending, lastRules, inflight, wait,
                 resilient, watchVars, queue, outcomes, dropped, workerVars, deviceVars>>

SetUnchanged == IF lastActive = {} THEN Active = {} ELSE ActiveIndexes \in lastActive

(* Mutant: an update is sent while another is under way.                   *)
NeedApplyUnguarded ==
  /\ "v4" \in InPlay
  /\ \/ ~SetUnchanged
     \/ "weights" \in dirty
     \/ "v4" \in dirty /\ wait["v4"] = 0
     \/ Heartbeat /\ lastActive # {}

(* Mutant: no heartbeat.                                                   *)
NeedApplyOnChange ==
  /\ "v4" \in InPlay \ inflight
  /\ \/ ~SetUnchanged
     \/ "weights" \in dirty
     \/ "v4" \in dirty /\ wait["v4"] = 0

NeedApply ==
  /\ "v4" \in InPlay \ inflight
  /\ \/ ~SetUnchanged
     \/ "weights" \in dirty
     \/ "v4" \in dirty /\ wait["v4"] = 0
     \/ Heartbeat /\ lastActive # {}

(* Mutant: a line just back from an outage counts as new.                  *)
NewMembersAtOnce ==
  {l \in Active : \E prev \in lastActive : ifindex[l] \notin ToSet(prev)}

(* Members that are new to a set applied before, except those that were    *)
(* DOWN within the quiet period.                                           *)
NewMembers ==
  {l \in Active :
     /\ \E prev \in lastActive : ifindex[l] \notin ToSet(prev)
     /\ lastDown[l] = Never \/ lastDown[l] >= QuietTicks}

SkipApply ==
  /\ pc = "apply" /\ pc' = "probe"
  /\ ~NeedApply
  /\ UNCHANGED <<clock, lineVars, weights, sentVars, resilient, watchVars, queue, outcomes,
                 dropped, workerVars, sessions, deviceVars, changes>>

QueueApply ==
  /\ pc = "apply" /\ pc' = IF V6Lines = {} THEN "probe" ELSE "apply6"
  /\ NeedApply /\ Room
  /\ Send("v4", RoutesOf(Active))
  /\ inflight' = inflight \cup {"v4"}
  /\ dirty' = (dirty \ {"v4", "weights"}) \cup {"probe"}
  /\ switched' = IF FlushOnSwitch /\ ~resilient /\ ~SetUnchanged THEN NewMembers ELSE {}
  /\ lastActive' = {ActiveIndexes}
  /\ UNCHANGED <<clock, lineVars, weights, v6Pending, lastRules, wait, resilient, watchVars,
                 outcomes, dropped, workerVars, sessions, deviceVars, changes>>

(* The queue is full: nothing is recorded as sent, the next tick retries.  *)
ApplyRefused ==
  /\ pc = "apply" /\ pc' = "probe"
  /\ NeedApply /\ ~Room
  /\ dirty' = dirty \cup {"probe"}
  /\ UNCHANGED <<clock, lineVars, weights, lastActive, v6Pending, lastRules, inflight, wait,
                 switched, resilient, watchVars, queue, outcomes, dropped, workerVars,
                 sessions, deviceVars, changes>>

QueueApplyV6 ==
  /\ pc = "apply6" /\ pc' = "probe"
  /\ IF Room THEN Send("v6", RoutesOf(Active \cap V6Lines)) /\ v6Pending' = {}
             ELSE v6Pending' = {RoutesOf(Active \cap V6Lines)} /\ UNCHANGED queue
  /\ UNCHANGED <<clock, lineVars, weights, lastActive, lastRules, dirty, inflight, wait,
                 switched, resilient, watchVars, outcomes, dropped, workerVars, sessions,
                 deviceVars, changes>>

(* dirty once the heartbeat of the tick is taken into account.             *)
Due(k) == IF Heartbeat THEN dirty \cup {k} ELSE dirty

QueueProbePaths ==
  /\ pc = "probe" /\ pc' = "policy"
  /\ IF "probe" \in Due("probe") /\ "probe" \in InPlay \ inflight /\ wait["probe"] = 0 /\ Room
     THEN /\ Send("probe", ProbePaths)
          /\ inflight' = inflight \cup {"probe"}
          /\ dirty' = dirty \ {"probe"}
     ELSE dirty' = Due("probe") /\ UNCHANGED <<queue, inflight>>
  /\ UNCHANGED <<clock, lineVars, weights, lastActive, v6Pending, lastRules, wait, switched,
                 resilient, watchVars, outcomes, dropped, workerVars, sessions, deviceVars,
                 changes>>

(* Mutant: a set of rules once sent is not sent again.                     *)
QueuePoliciesOnce ==
  /\ pc = "policy" /\ pc' = "flush"
  /\ IF /\ lastRules # {PolicyRules}
        /\ "policies" \in InPlay \ inflight /\ wait["policies"] = 0 /\ Room
     THEN /\ Send("policies", PolicyRules)
          /\ inflight' = inflight \cup {"policies"}
          /\ dirty' = dirty \ {"policies"}
          /\ lastRules' = {PolicyRules}
     ELSE dirty' = Due("policies") /\ UNCHANGED <<queue, inflight, lastRules>>
  /\ UNCHANGED <<clock, lineVars, weights, lastActive, v6Pending, wait, switched, resilient,
                 watchVars, outcomes, dropped, workerVars, sessions, deviceVars, changes>>

QueuePolicies ==
  /\ pc = "policy" /\ pc' = "flush"
  /\ IF /\ lastRules # {PolicyRules} \/ "policies" \in Due("policies")
        /\ "policies" \in InPlay \ inflight /\ wait["policies"] = 0 /\ Room
     THEN /\ Send("policies", PolicyRules)
          /\ inflight' = inflight \cup {"policies"}
          /\ dirty' = dirty \ {"policies"}
          /\ lastRules' = {PolicyRules}
     ELSE dirty' = Due("policies") /\ UNCHANGED <<queue, inflight, lastRules>>
  /\ UNCHANGED <<clock, lineVars, weights, lastActive, v6Pending, wait, switched, resilient,
                 watchVars, outcomes, dropped, workerVars, sessions, deviceVars, changes>>

(* Lines DOWN for the whole quiet period and not flushed since.            *)
LongDown == IF FlushOnDown THEN {l \in Lines \ flushed : since[l] >= QuietTicks} ELSE {}

(* flush_conntrack: a line flushed less than the minimum interval ago is   *)
(* left for a later tick.                                                  *)
FlushTargets ==
  {l \in switched \cup LongDown : lastFlush[l] = Never \/ lastFlush[l] >= FlushInterval}

(* Mutant: a line held back by the rate limit counts as flushed.           *)
QueueFlushMarksAll ==
  /\ pc = "flush" /\ pc' = "idle"
  /\ flushed' = flushed \cup LongDown
  /\ IF FlushTargets # {} /\ Room
     THEN /\ Send("flush", FlushTargets)
          /\ lastFlush' = [l \in Lines |-> IF l \in FlushTargets THEN 0 ELSE lastFlush[l]]
     ELSE UNCHANGED <<queue, lastFlush>>
  /\ UNCHANGED <<clock, health, ifindex, since, lastDown, weights, sentVars, resilient,
                 watchVars, outcomes, dropped, workerVars, sessions, deviceVars, changes>>

(* Mutant: a flushed line is not marked.                                   *)
QueueFlushMarksNone ==
  /\ pc = "flush" /\ pc' = "idle"
  /\ IF FlushTargets # {} /\ Room
     THEN /\ Send("flush", FlushTargets)
          /\ lastFlush' = [l \in Lines |-> IF l \in FlushTargets THEN 0 ELSE lastFlush[l]]
     ELSE UNCHANGED <<queue, lastFlush>>
  /\ UNCHANGED <<clock, health, ifindex, since, lastDown, flushed, weights, sentVars, resilient,
                 watchVars, outcomes, dropped, workerVars, sessions, deviceVars, changes>>

QueueFlush ==
  /\ pc = "flush" /\ pc' = "idle"
  /\ IF FlushTargets # {} /\ Room
     THEN /\ Send("flush", FlushTargets)
          /\ lastFlush' = [l \in Lines |-> IF l \in FlushTargets THEN 0 ELSE lastFlush[l]]
          /\ flushed' = flushed \cup (FlushTargets \cap LongDown)
     ELSE UNCHANGED <<queue, lastFlush, flushed>>
  /\ UNCHANGED <<clock, health, ifindex, since, lastDown, weights, sentVars, resilient,
                 watchVars, outcomes, dropped, workerVars, sessions, deviceVars, changes>>

-----------------------------------------------------------------------------
(* Between ticks: link events, and termination.                            *)

(* What one read of the event socket says: the interfaces with an event,   *)
(* or, after an overflow of the socket, all of them.                       *)
Touched == {events, Lines}

(* Events name the interfaces to resolve again.                            *)
ReadEvents ==
  /\ pc = "idle" /\ watching /\ events # {}
  /\ \E touched \in Touched :
       ifindex' = [l \in Lines |-> IF l \in touched THEN device[l] ELSE ifindex[l]]
  /\ dirty' = IF ifindex' # ifindex THEN dirty \cup {"probe"} ELSE dirty
  /\ events' = {}
  /\ UNCHANGED <<pc, clock, health, since, lastDown, lastFlush, flushed, weights, lastActive,
                 v6Pending, lastRules, inflight, wait, switched, resilient, watching,
                 watchWait, queue, outcomes, dropped, workerVars, sessions, deviceVars, changes>>

LoseWatch ==
  /\ pc = "idle" /\ watching /\ "watch" \in Disturbances
  /\ changes < MaxChanges /\ changes' = changes + 1
  /\ watching' = FALSE /\ watchWait' = WatchRetryTicks /\ events' = {}
  /\ UNCHANGED <<pc, clock, lineVars, weights, sentVars, resilient, queue, outcomes, dropped,
                 workerVars, sessions, deviceVars>>

Terminate ==
  /\ pc = "idle" /\ "signal" \in Disturbances
  /\ pc' = IF ClearOnExit THEN "exitClear" ELSE "exitPolicies"
  /\ UNCHANGED <<clock, lineVars, weights, sentVars, resilient, watchVars, queue, outcomes,
                 dropped, workerVars, sessions, deviceVars, changes>>

(* The exit commands wait for room; then the sender is dropped.            *)
SendExit ==
  /\ Room
  /\ \/ pc = "exitClear"    /\ pc' = "closed"    /\ Send("clear", {})
     \/ pc = "exitPolicies" /\ pc' = "exitProbe" /\ Send("policies", {})
     \/ pc = "exitProbe"    /\ pc' = "closed"    /\ Send("probe", NoIndexes)
  /\ UNCHANGED <<clock, lineVars, weights, sentVars, resilient, watchVars, outcomes, dropped,
                 workerVars, sessions, deviceVars, changes>>

JoinWorker ==
  /\ pc = "closed" /\ worker = "gone" /\ pc' = "done"
  /\ UNCHANGED <<clock, lineVars, weights, sentVars, resilient, watchVars, queue, outcomes,
                 dropped, workerVars, sessions, deviceVars, changes>>
-----------------------------------------------------------------------------
(* The worker.                                                             *)

(* Flush targets accumulate, of any other kind the newest command counts.  *)
Merge(b, c) ==
  IF c.kind = "flush" THEN [b EXCEPT !["flush"] = @ \cup c.arg]
                      ELSE [b EXCEPT ![c.kind] = {c.arg}]

Receive ==
  /\ worker = "recv" /\ queue # <<>>
  /\ batch' = Merge(batch, Head(queue))
  /\ queue' = Tail(queue)
  /\ UNCHANGED <<pc, clock, lineVars, weights, sentVars, resilient, watchVars, outcomes,
                 dropped, worker, given, rules, kernel, kernelRules, pathVars, failures, sessions,
                 deviceVars, changes>>

StartBatch ==
  /\ worker = "recv" /\ queue = <<>> /\ batch # NoBatch
  /\ worker' = "run"
  /\ UNCHANGED <<pc, clock, lineVars, weights, sentVars, resilient, watchVars, queue, outcomes,
                 dropped, batch, given, rules, kernel, kernelRules, pathVars, failures, sessions,
                 deviceVars, changes>>

(* The order in which a batch is executed.                                 *)
Before(k) ==
  CASE k = "v4"       -> {}
    [] k = "v6"       -> {"v4"}
    [] k = "probe"    -> {"v4", "v6"}
    [] k = "policies" -> {"v4", "v6", "probe"}
    [] k = "flush"    -> {"v4", "v6", "probe", "policies"}
    [] k = "clear"    -> Kinds \ {"clear"}

Turn(k) == worker = "run" /\ batch[k] # {} /\ \A j \in Before(k) : batch[j] = {}

(* A command of the batch has been executed and its outcome reported.      *)
Executed(k, ok, variant) ==
  /\ batch' = [batch EXCEPT ![k] = {}]
  /\ worker' = IF batch' = NoBatch THEN "recv" ELSE "run"
  /\ outcomes' = Append(outcomes, [kind |-> k, ok |-> ok, variant |-> variant])

MayFail(k) == k \in Failing /\ failures < MaxFailures

(* The kernel refuses a route through an interface that is gone.           *)
Deliverable(p) == \A l \in DOMAIN p : p[l][1] = device[l]

(* apply_default_routes and apply_ipv6_default_routes.  With no line left, *)
(* the route is removed only when there is another.                        *)
RunRoutes(k) ==
  /\ Turn(k)
  /\ \E p \in batch[k], variant \in Variants :
       /\ Deliverable(p)
       /\ given' = [given EXCEPT ![k] = {p}]
       /\ kernel' \in {[kernel EXCEPT ![k] = {p}]} \cup (IF p = <<>> THEN {kernel} ELSE {})
       /\ Executed(k, TRUE, IF k = "v4" THEN variant ELSE "none")
  /\ UNCHANGED <<pc, clock, lineVars, weights, sentVars, resilient, watchVars, queue, dropped,
                 rules, kernelRules, pathVars, failures, sessions, deviceVars, changes>>

(* The operation fails, having changed the kernel's state or not.          *)
RunRoutesFails(k) ==
  /\ Turn(k)
  /\ \E p \in batch[k] :
       /\ IF Deliverable(p) THEN MayFail(k) /\ failures' = failures + 1 ELSE UNCHANGED failures
       /\ given' = [given EXCEPT ![k] = {p}]
  /\ kernel' \in {kernel, [kernel EXCEPT ![k] = {}]}
  /\ Executed(k, FALSE, "none")
  /\ UNCHANGED <<pc, clock, lineVars, weights, sentVars, resilient, watchVars, queue, dropped,
                 rules, kernelRules, pathVars, sessions, deviceVars, changes>>

(* What is on record with another ifindex than i is taken down first.      *)
Outdated(l, i) == path[l].known \notin {Gone, i}
Cleared(l, i)  == IF Outdated(l, i) THEN NoPath ELSE path[l]

(* What set_probe_paths makes of line l's path when no request fails for   *)
(* no visible reason.  Rule first, then the route, which the kernel refuses*)
(* if the interface is not there under ifindex i: then the rule stays, and *)
(* what was not on record is not recorded.                                 *)
Installed(l, i) ==
  IF i = Gone THEN Cleared(l, i)
  ELSE IF i = device[l] THEN [rule |-> TRUE, table |-> i, known |-> i]
  ELSE [Cleared(l, i) EXCEPT !.rule = TRUE]

(* Mutant: a path whose removal failed is dropped from the record.         *)
HalfRemovedForgotten(l, i) ==
  IF Outdated(l, i)
  THEN [rule : {FALSE, path[l].rule}, table : {Gone, path[l].table}, known : {Gone}]
  ELSE {}

(* What it leaves when one does fail.  The requests of a removal are all   *)
(* sent, and the path stays on record; an installation ends at the first   *)
(* request that fails, the one for a /32 if the route is there.            *)
HalfRemoved(l, i) ==
  IF Outdated(l, i)
  THEN [rule : {FALSE, path[l].rule}, table : {Gone, path[l].table}, known : {path[l].known}]
  ELSE {}

HalfInstalled(l, i) ==
  IF i = Gone THEN {}
  ELSE {Cleared(l, i), [Cleared(l, i) EXCEPT !.rule = TRUE]}
       \cup (IF i = device[l] THEN {[Cleared(l, i) EXCEPT !.rule = TRUE, !.table = i]} ELSE {})

Halves(l, i) == HalfRemoved(l, i) \cup HalfInstalled(l, i)

(* set_probe_paths, line by line; a request fails for each line of hurt.   *)
SetProbePaths(wanted, hurt) ==
  /\ \E left \in [hurt -> UNION {Halves(l, wanted[l]) : l \in hurt}] :
       /\ \A l \in hurt : left[l] \in Halves(l, wanted[l])
       /\ path' = [l \in Lines |-> IF l \in hurt THEN left[l] ELSE Installed(l, wanted[l])]
  /\ halfway' = {l \in Lines : path'[l].known = Gone /\ (l \in halfway \/ wanted[l] # Gone)}

RunProbePaths ==
  /\ Turn("probe")
  /\ \E wanted \in batch["probe"], hurt \in SUBSET Lines :
       /\ IF hurt = {} THEN UNCHANGED failures
          ELSE MayFail("probe") /\ failures' = failures + 1
       /\ SetProbePaths(wanted, hurt)
       /\ Executed("probe", hurt = {} /\ \A l \in Lines : wanted[l] \in {Gone, device[l]}, "none")
  /\ UNCHANGED <<pc, clock, lineVars, weights, sentVars, resilient, watchVars, queue, dropped,
                 given, rules, kernel, kernelRules, sessions, deviceVars, changes>>

(* Mutant: a rule whose removal failed is forgotten.                       *)
RunPoliciesForgets ==
  /\ Turn("policies")
  /\ \E wanted \in batch["policies"] :
       LET stale   == rules \ wanted
           missing == wanted \ rules
       IN \E failed \in SUBSET (stale \cup missing) :
            /\ IF failed = {} THEN UNCHANGED failures
               ELSE MayFail("policies") /\ failures' = failures + 1
            /\ rules' = (rules \ stale) \cup (missing \ failed)
            /\ kernelRules' = (kernelRules \ (stale \ failed)) \cup (missing \ failed)
            /\ Executed("policies", failed = {}, "none")
  /\ UNCHANGED <<pc, clock, lineVars, weights, sentVars, resilient, watchVars, queue, dropped,
                 given, kernel, pathVars, sessions, deviceVars, changes>>

(* set_policy_rules changes what differs from its own record of the rules; *)
(* a rule whose change fails keeps its place in the record.                *)
RunPolicies ==
  /\ Turn("policies")
  /\ \E wanted \in batch["policies"] :
       LET stale   == rules \ wanted
           missing == wanted \ rules
       IN \E failed \in SUBSET (stale \cup missing) :
            /\ IF failed = {} THEN UNCHANGED failures
               ELSE MayFail("policies") /\ failures' = failures + 1
            /\ rules' = (rules \ (stale \ failed)) \cup (missing \ failed)
            /\ kernelRules' = (kernelRules \ (stale \ failed)) \cup (missing \ failed)
            /\ Executed("policies", failed = {}, "none")
  /\ UNCHANGED <<pc, clock, lineVars, weights, sentVars, resilient, watchVars, queue, dropped,
                 given, kernel, pathVars, sessions, deviceVars, changes>>

RunFlush ==
  /\ Turn("flush")
  /\ \/ /\ sessions' = sessions \ batch["flush"]
        /\ Executed("flush", TRUE, "none")
        /\ UNCHANGED failures
     \/ /\ MayFail("flush") /\ failures' = failures + 1
        /\ Executed("flush", FALSE, "none")
        /\ UNCHANGED sessions
  /\ UNCHANGED <<pc, clock, lineVars, weights, sentVars, resilient, watchVars, queue, dropped,
                 given, rules, kernel, kernelRules, pathVars, deviceVars, changes>>

(* sweep_policy_rules deletes one rule at each reserved priority, that is  *)
(* one rule of each policy.                                                *)
Sweeps ==
  {s \in SUBSET kernelRules :
     \A l \in Lines : Cardinality({r \in s : r[1] = l}) =
                      IF \E r \in kernelRules : r[1] = l THEN 1 ELSE 0}

(* cleanup_routes: the policy rules are swept; then the probe paths on     *)
(* record go, and the default routes.                                      *)
RunClear ==
  /\ Turn("clear")
  /\ \E swept \in Sweeps : kernelRules' = kernelRules \ swept
  /\ rules' = {}
  /\ \E left \in SUBSET Routed, hurt \in SUBSET Lines :
       /\ IF left = {} /\ hurt = {} THEN UNCHANGED failures
          ELSE MayFail("clear") /\ failures' = failures + 1
       /\ kernel' = [k \in Routed |-> IF k \in left THEN kernel[k] ELSE {}]
       /\ SetProbePaths(NoIndexes, hurt)
  /\ batch' = NoBatch /\ worker' = "gone"
  /\ UNCHANGED <<pc, clock, lineVars, weights, sentVars, resilient, watchVars, queue, outcomes,
                 dropped, given, sessions, deviceVars, changes>>

(* Mutant: the sender is dropped only after the join.                      *)
WorkerEndsLate ==
  /\ worker = "recv" /\ queue = <<>> /\ batch = NoBatch /\ pc = "done"
  /\ worker' = "gone"
  /\ UNCHANGED <<pc, clock, lineVars, weights, sentVars, resilient, watchVars, queue, outcomes,
                 dropped, batch, given, rules, kernel, kernelRules, pathVars, failures, sessions,
                 deviceVars, changes>>

(* The channel is closed and empty.                                        *)
WorkerEnds ==
  /\ worker = "recv" /\ queue = <<>> /\ batch = NoBatch /\ pc = "closed"
  /\ worker' = "gone"
  /\ UNCHANGED <<pc, clock, lineVars, weights, sentVars, resilient, watchVars, queue, outcomes,
                 dropped, batch, given, rules, kernel, kernelRules, pathVars, failures, sessions,
                 deviceVars, changes>>

-----------------------------------------------------------------------------
(* The rest of the machine.                                                *)

(* An interface disappears and the kernel drops the routes through it, or  *)
(* it comes back under an ifindex never used before.                       *)
DeviceChanges(l) ==
  /\ "devices" \in Disturbances
  /\ changes < MaxChanges /\ changes' = changes + 1
  /\ \/ /\ device[l] # Gone
        /\ device' = [device EXCEPT ![l] = Gone]
        /\ kernel' = [k \in Routed |-> {p \in kernel[k] : l \notin DOMAIN p}]
        /\ path' = [path EXCEPT ![l].table = Gone]
        /\ UNCHANGED fresh
     \/ /\ device[l] = Gone /\ fresh < MaxIndex
        /\ fresh' = fresh + 1
        /\ device' = [device EXCEPT ![l] = fresh + 1]
        /\ UNCHANGED <<kernel, path>>
  /\ events' = IF watching THEN events \cup {l} ELSE events
  /\ UNCHANGED <<pc, clock, lineVars, weights, sentVars, resilient, watching, watchWait, queue,
                 outcomes, dropped, worker, batch, given, rules, kernelRules, halfway, failures,
                 sessions>>

(* Another program removes a default route.                                *)
RoutesTaken(k) ==
  /\ "routes" \in Disturbances
  /\ changes < MaxChanges /\ changes' = changes + 1
  /\ kernel[k] # {} /\ kernel' = [kernel EXCEPT ![k] = {}]
  /\ UNCHANGED <<pc, clock, lineVars, weights, sentVars, resilient, watchVars, queue, outcomes,
                 dropped, worker, batch, given, rules, kernelRules, pathVars, failures, sessions,
                 deviceVars>>

(* Another program removes the rule of a probe path, or its route.         *)
PathTaken(l) ==
  /\ "routes" \in Disturbances
  /\ changes < MaxChanges /\ changes' = changes + 1
  /\ \/ path[l].rule /\ path' = [path EXCEPT ![l].rule = FALSE]
     \/ path[l].table # Gone /\ path' = [path EXCEPT ![l].table = Gone]
  /\ UNCHANGED <<pc, clock, lineVars, weights, sentVars, resilient, watchVars, queue, outcomes,
                 dropped, worker, batch, given, rules, kernel, kernelRules, halfway, failures,
                 sessions, deviceVars>>

(* Another program removes a policy rule.                                  *)
RuleTaken(r) ==
  /\ "rules" \in Disturbances
  /\ changes < MaxChanges /\ changes' = changes + 1
  /\ kernelRules' = kernelRules \ {r}
  /\ UNCHANGED <<pc, clock, lineVars, weights, sentVars, resilient, watchVars, queue, outcomes,
                 dropped, worker, batch, given, rules, kernel, pathVars, failures, sessions,
                 deviceVars>>

-----------------------------------------------------------------------------
Tick ==
  \/ TickBegin \/ CheckThreads \/ ResendV6 \/ Sample
  \/ SkipApply \/ QueueApply \/ ApplyRefused \/ QueueApplyV6
  \/ QueueProbePaths \/ QueuePolicies \/ QueueFlush

Exit == Terminate \/ SendExit \/ JoinWorker

Work ==
  \/ Receive \/ StartBatch \/ WorkerEnds
  \/ \E k \in Routed : RunRoutes(k) \/ RunRoutesFails(k)
  \/ RunProbePaths \/ RunPolicies \/ RunFlush \/ RunClear

Machine ==
  \/ \E l \in Lines : DeviceChanges(l) \/ PathTaken(l)
  \/ \E k \in Routed : RoutesTaken(k)
  \/ \E r \in kernelRules : RuleTaken(r)

Next == Tick \/ ReadEvents \/ LoseWatch \/ Exit \/ Work \/ Machine

(* The ticker keeps firing and the worker's system calls time out, so each *)
(* thread keeps going; nothing is assumed of the rest of the machine.      *)
Spec ==
  /\ Init /\ [][Next]_vars
  /\ WF_vars(Tick) /\ WF_vars(SendExit \/ JoinWorker) /\ WF_vars(Work)

-----------------------------------------------------------------------------
(* Properties.                                                             *)

Rules == UNION {{<<l, p, i>> : p \in PolicyPrefixes[l], i \in 1..MaxIndex} : l \in Lines}
PathStates == [rule : BOOLEAN, table : 0..MaxIndex, known : 0..MaxIndex]
Ages(limit) == {Never} \cup 0..limit

LoopTypes ==
  /\ pc \in {"idle", "check", "resend", "sample", "apply", "apply6", "probe", "policy",
             "flush", "exitClear", "exitPolicies", "exitProbe", "closed", "done"}
  /\ clock \in 0..(RefreshTicks - 1)
  /\ weights \in 0..1 /\ resilient \in BOOLEAN

LineTypes ==
  /\ health \in [Lines -> Healths]
  /\ ifindex \in [Lines -> 0..MaxIndex]
  /\ since \in [Lines -> Ages(QuietTicks)] /\ lastDown \in [Lines -> Ages(QuietTicks)]
  /\ lastFlush \in [Lines -> Ages(FlushInterval)]
  /\ flushed \subseteq Lines

SentTypes ==
  /\ Cardinality(lastActive) <= 1 /\ Cardinality(v6Pending) <= 1 /\ Cardinality(lastRules) <= 1
  /\ dirty \subseteq Repeated \cup {"weights"} /\ inflight \subseteq Repeated
  /\ wait \in [Repeated -> Nat]
  /\ switched \subseteq Lines

WatchTypes ==
  /\ watching \in BOOLEAN /\ watchWait \in 0..WatchRetryTicks /\ events \subseteq Lines

ChannelTypes ==
  /\ Len(queue) <= QueueCapacity
  /\ \A i \in DOMAIN queue : queue[i].kind \in Kinds
  /\ \A i \in DOMAIN outcomes : outcomes[i].kind \in Kinds \ {"clear"} /\ outcomes[i].ok \in BOOLEAN
  /\ dropped \subseteq Kinds

WorkerTypes ==
  /\ worker \in {"recv", "run", "gone"}
  /\ DOMAIN batch = Kinds /\ DOMAIN kernel = Routed
  /\ rules \subseteq Rules /\ kernelRules \subseteq Rules
  /\ failures \in 0..MaxFailures

PathTypes == path \in [Lines -> PathStates] /\ halfway \subseteq Lines

MachineTypes ==
  /\ sessions \subseteq Lines
  /\ device \in [Lines -> 0..MaxIndex] /\ fresh \in 0..MaxIndex
  /\ changes \in 0..MaxChanges

(* Every variable keeps its type and bound.                                *)
TypeOK ==
  /\ LoopTypes /\ LineTypes /\ SentTypes /\ WatchTypes
  /\ ChannelTypes /\ WorkerTypes /\ PathTypes /\ MachineTypes

Ticking == pc \notin {"exitClear", "exitPolicies", "exitProbe", "closed", "done"}

InQueue(k)    == {i \in DOMAIN queue : queue[i].kind = k}
InOutcomes(k) == {i \in DOMAIN outcomes : outcomes[i].kind = k}

(* Where a command of kind k, or its outcome, is on its way.               *)
OnItsWay(k) ==
  {<<"queue", i>> : i \in InQueue(k)} \cup {<<"outcomes", i>> : i \in InOutcomes(k)}
  \cup {<<"batch", 1>> : p \in batch[k]}

(* The loop never has two commands of one kind under way, so no outcome    *)
(* can be taken for another command's; and it believes one is under way    *)
(* only while it is, unless it threw the outcome away.                     *)
OneOutstanding ==
  Ticking =>
    \A k \in Repeated :
      /\ \A x, y \in OnItsWay(k) : x = y
      /\ OnItsWay(k) # {} => k \in inflight
      /\ k \in inflight /\ OnItsWay(k) = {} => k \in dropped

(* "collect the worker's results; a failure is no longer just logged and   *)
(* left standing for ever" (the comment on the outcome loop of a tick):    *)
(* whatever is in flight is going to be answered.                          *)
InflightAnswered == Ticking => \A k \in inflight : OnItsWay(k) # {}

(* The newest payload of kind k the worker has or will get.                *)
Newest(k) ==
  IF InQueue(k) # {} THEN {queue[Max(InQueue(k))].arg}
  ELSE IF batch[k] # {} THEN batch[k] ELSE given[k]

(* IPv6 follows IPv4: behind every IPv4 update comes the IPv6 update made  *)
(* from the same decision, never an older or no one, however often the     *)
(* queue was full.                                                         *)
FamiliesAgree ==
  V6Lines # {} /\ pc # "apply6" =>
    (IF v6Pending # {} THEN v6Pending ELSE Newest("v6"))
      = {[l \in DOMAIN p \cap V6Lines |-> p[l]] : p \in Newest("v4")}

(* RouteManager's record misses no policy rule it installed; the diff that *)
(* removes rules works from the record alone.                              *)
RulesRecorded == worker # "gone" => kernelRules \subseteq rules

LastOutcome(k) == outcomes[Max(InOutcomes(k))]

(* "The probe paths must be torn down" (main.rs on the exit that leaves    *)
(* the default route in place): once the commands for it are reported      *)
(* executed, no policy rule is left, and neither the rule nor the route of *)
(* any probe path: not of one whose removal failed before, nor of one whose*)
(* interface was replaced.  The lines in halfway are left out, for there   *)
(* the code does not keep its word: an installation that ended half-way is *)
(* not recorded, so its rule is not found again unless a later             *)
(* installation of the same line succeeds before the exit.                 *)
ExitLeavesNoPaths ==
  pc = "done" /\ ~ClearOnExit =>
    /\ InOutcomes("policies") # {} /\ InOutcomes("probe") # {}
    /\ LastOutcome("policies").ok => kernelRules = {}
    /\ LastOutcome("probe").ok =>
         \A l \in Lines \ halfway : ~path[l].rule /\ path[l].table = Gone

(* A daemon told to stop does stop: its exit commands find room, the       *)
(* worker sees the closed channel, and the join returns.                   *)
ExitCompletes == ~Ticking ~> pc = "done"

(* "sweep every rule this program left in the reserved band (startup and   *)
(* exit)": route.rs on sweep_policy_rules.                                 *)
SweepLeavesNoRules == pc = "done" /\ ClearOnExit => kernelRules = {}

(* Once the lines, devices and other programs settle, the kernel ends up   *)
(* with the routes of the active lines, whatever failed, was refused by a  *)
(* full queue or was removed before: unless the outcome was thrown away.   *)
RoutesConverge ==
  <>[]( \/ "v4" \in dropped
        \/ ~Ticking
        \/ Active = {}
        \/ kernel["v4"] = {RoutesOf(Active)})

(* IPv6 failures are not retried by themselves, the heartbeat is to.       *)
RoutesV6Converge ==
  <>[]( \/ "v4" \in dropped
        \/ ~Ticking
        \/ Active \cap V6Lines = {}
        \/ kernel["v6"] = {RoutesOf(Active \cap V6Lines)})

(* Every line whose interface exists ends up with a probe path, rule and   *)
(* route, through the ifindex it really has: probing, and so recovery,     *)
(* never depends on a path that is stale or half installed.                *)
ProbePathsConverge ==
  <>[]( \/ "probe" \in dropped
        \/ ~Ticking
        \/ \A l \in Lines :
             device[l] # Gone => path[l].rule /\ path[l].table = device[l])

(* The rules installed end up being those of the policies whose line is    *)
(* UP: traffic of a policy falls back to ECMP when its line is DOWN and    *)
(* returns with it; "repairs rules removed from outside", as the comment   *)
(* on the policy heartbeat says.                                           *)
PoliciesConverge ==
  <>[](kernelRules = PolicyRules \/ "policies" \in dropped \/ ~Ticking)

(* RouteManager ends up with the rules of the policies whose line is UP,   *)
(* through rules that fail one by one, devices that return under another   *)
(* ifindex and rules that another program takes; the kernel has no other   *)
(* rule of this program.  (That a rule taken comes back is not claimed:    *)
(* see PoliciesConverge.)                                                  *)
PoliciesSettle ==
  <>[]( \/ "policies" \in dropped
        \/ ~Ticking
        \/ rules = PolicyRules /\ kernelRules \subseteq rules)

(* Sessions of a line that stays DOWN are flushed in the end: a flush that *)
(* was rate-limited, refused by the queue or failed is tried again.        *)
DownLinesFlushed ==
  \A l \in Lines :
    <>[](health[l] = "down" /\ since[l] # Never)
      => <>[](FlushOnDown => l \notin sessions \/ "flush" \in dropped)
=============================================================================
