# A TLA+ model of mwan4

mwan4 (`src/`) is a daemon that keeps several WAN lines of a router in use: it
probes each line, decides which lines carry traffic, and keeps the kernel's
default routes, probe paths, policy rules and conntrack table in step with that
decision. This directory holds TLA+ modules translated from its Rust source, the
TLC configurations that check them, and proofs for TLAPS.

## 1. The system

### Components, their state and their operations

| Component | Source | State | Operations |
|---|---|---|---|
| Link quality estimator | `src/lqe.rs` | sliding window, consecutive counters, smoothed RTT, UP/DOWN, degrade machine | `update` (one per probe sample) |
| Prober | `src/prober.rs` | none between calls | `probe_interface`, `pick_sample` |
| Event loop | `src/main.rs`, `main` | one `WanMonitor` per line, what was last sent of each kind, dirty / inflight / retry-at per kind, pending IPv6 update | tick, link event, loss of the event socket, termination |
| Netlink worker | `src/main.rs`, `spawn_netlink_worker` | the batch being merged and executed | receive, merge, execute, report, clear |
| RouteManager | `src/netlink/route.rs` | installed variant per family, nexthop ids, recorded probe paths, underlay routes and policy rules | `apply_default_routes`, `apply_ipv6_default_routes`, `set_probe_paths`, `set_policy_rules`, `cleanup_routes`, sweeps |
| Conntrack flusher | `src/netlink/conntrack.rs` | socket | `flush_interfaces_conntrack` |
| Link watcher | `src/netlink/link.rs` | socket | `wait_events`, overflow reporting |
| Dynamic weights | `src/main.rs`, `compute_dynamic_weights` | load pressure per line, time of the last update | a recomputation per tick, rate limited |
| PID file | `src/main.rs`, `acquire_pid_file` | lock file | acquire, release |
| Configuration | `src/config.rs` | none | parse, validate |
| Status file, multipath hash, OpenWrt scripts, web interface | various | none that decides anything | output |

### How they interact

The event loop runs on one thread. On every tick it reads the outcomes the worker
has reported, probes all lines at once, feeds each sample to the line's
estimator, chooses the active lines, and queues commands with `try_send` on a
bounded channel: it never waits for the kernel. The worker runs on a second
thread. It drains the channel into a batch, keeps the newest command of each kind
(conntrack targets accumulate), executes the batch in a fixed order and sends one
outcome per command back on an unbounded channel. Kernel link events reach the
loop between ticks. Other programs change the same routing tables and rules.

### What is hard

* Interleavings of the loop and the worker: the loop reads the outcome channel at
  two places, and the worker may report between them.
* One decision becomes several commands (IPv4, IPv6, probe paths, policies, flush)
  that enter a bounded queue one by one: some may be refused.
* Failure and retry: an operation fails in the kernel, its outcome arrives ticks
  later, and the decision may have changed meanwhile.
* Stale data: interface indexes, the record of installed policy rules, the window
  of samples from before an outage.
* Time: quiet periods, rate limits, heartbeats and retry delays that overlap.
* The long run: a line that is good for good must come back, a dead one must go.

### What makes each component correct

* Estimator: the incremental counter is exact; an UP line is justified by its
  counters; a recovery is earned by probes made after the outage; old failures
  never undo a recovery; a good line rejoins and a dead line is detected.
* Event loop and worker: one command of a kind under way; every command answered;
  the two address families follow one decision; the kernel converges to the
  decision whatever was refused, failed or removed; exit terminates and leaves
  nothing that steers traffic into removed tables, but for a probe path whose
  installation ended half-way (section 3).
* Conntrack scheduling: short outages cost no session, a long one is flushed, once.
* Conntrack flusher: a success has deleted every session it should and none it should
  not; no failure spoils a later call.
* Probe paths and underlay routes: whatever is in the kernel is on record or swept by
  the next start; the paths end up as the state of the lines calls for; no line is
  locked out by one that is gone.
* RouteManager: never both variants of a default route, no last route lost to an
  update whose requests succeed or to lines that are all down, no nexthop object that
  no record names, and a reported success means that traffic takes the next hops asked
  for. A request that fails may cost the route: see `LastRouteKept`.

## 2. The modules

| Module | What it is |
|---|---|
| `LinkQuality` | One estimator. `Update(s)` is `update()` on one sample; its verdict is one of `FirstVerdict`, `StayUp`, `GoDown`, `StayDown`, `GoUp`. |
| `LinkQualityHistory` | The same with history variables (when it left ECMP, successes since the DOWN verdict, ...), for promises over many samples. |
| `LinkQualityProofs` | Theorems about `LinkQuality` and `LinkQualityHistory`. |
| `WanDaemon` | The event loop, the queue, the outcome channel, the worker, and the kernel as far as they see it. |
| `WanDaemonHistory` | The same with history variables, for the conntrack flushes. |
| `WanDaemonProofs` | `WanDaemon`: the type invariant and the record of policy rules. |
| `HandshakeProofs` | `WanDaemon`: what travels between loop and worker: the handshake, IPv6 behind IPv4, the commands of an exit. |
| `OutageProofs` | `WanDaemonHistory`: what the conntrack flushes promise over several ticks. |
| `DefaultRoute` | Abstract: what whoever asks for a default route is promised. |
| `RouteManager` | The default routes in detail, one step per netlink request; implements `DefaultRoute`. |
| `RouteManagerProofs` | `RouteManager`: the record of nexthop objects. |
| `DefaultRouteProofs` | `RouteManager`: its types, one route per family, the last route, and that it implements `DefaultRoute`. |
| `HostRoutes` | Probe paths and underlay routes in detail: the loop's choice, the worker's calls, the sweeps, several runs of the program. |
| `HostRoutesProofs` | Theorems about `HostRoutes`. |
| `Conntrack` | A conntrack flush in detail: the dump, the deletions, the socket. |
| `ConntrackProofs` | Theorems about `Conntrack`. |
| `MCWanDaemon`, `MCWanDaemonHistory`, `MCRouteManager`, `MCHostRoutes`, `MCConntrack` | Constant definitions for TLC. |

### LinkQuality

The variables are the fields of `LinkQualityEstimator`. The smoothed RTT is kept
as the answer to the one comparison the code makes on it; a sample is therefore
`"ok"`, `"slow"` or `"fail"`. An exponential average can be moved to either side
of a limit by one sample, so nothing the code can do is lost. Loss rates are
compared as integers (failures times 100 against percent times length), which is
what the code means; its tolerance for rounding of doubles is the reason the two
agree. Counters saturate at the threshold they are compared with.

### WanDaemon

A tick is split into the steps `TickBegin` (outcomes), `CheckThreads` (is the
worker alive, resubscribe to events), `ResendV6`, `Sample` (verdicts, weights,
ifindex refresh), `SkipApply` / `QueueApply` / `ApplyRefused`, `QueueApplyV6`,
`QueueProbePaths`, `QueuePolicies`, `QueueFlush`: the places where the worker's
progress matters. Between ticks come `ReadEvents`, `LoseWatch` and `Terminate`,
then `SendExit` and `JoinWorker`. The worker's steps are `Receive`, `StartBatch`,
`RunRoutes(k)`, `RunRoutesFails(k)`, `RunProbePaths`, `RunPolicies`, `RunFlush`,
`RunClear` and `WorkerEnds`. The rest of the machine: `DeviceChanges(l)` (an interface
goes, or returns under a new index), `RoutesTaken(k)`, `PathTaken(l)`, `RuleTaken(r)`
(other programs).

The probe path of a line has three parts, which come apart when a request fails:
`path[l].rule` is the rule `oif <line> lookup <table>`, `path[l].table` the ifindex of the
default route in that table, `path[l].known` the ifindex in `RouteManager::probe_paths`.
`SetProbePaths(wanted, hurt)` is `set_probe_paths`: of every line what the record has with
another ifindex is removed (`Cleared`), then the rule is installed, then the route, which
the kernel refuses if the interface is not there under that ifindex (`Installed`); only
then is the path recorded. So a stale ifindex leaves the rule without a record. For the
lines of `hurt` some request fails for no visible reason: `HalfRemoved` and
`HalfInstalled` are what that may leave. `halfway` observes which lines have no record
since an installation failed.

State against code: `health` is what the estimator of a line says, `ifindex`,
`since`, `lastDown`, `lastFlush`, `flushed` are the fields of `WanMonitor`;
`lastActive`, `v6Pending`, `lastRules`, `dirty`, `inflight`, `wait` are the loop's
local variables `last_active_ifindexes`, `v6_pending`, `last_policy_signature`,
`*_dirty`, `*_inflight`, `*_retry_at`; `queue` and `outcomes` are the channels;
`batch` is what the worker has merged; `rules` is `RouteManager::policy_rules`;
`kernel`, `kernelRules`, `sessions`, `device` belong to the kernel. `dropped` is
an observer: the kinds of which an outcome was read and thrown away.

Instants are ages in ticks that saturate where the code compares them. A payload
is a function from lines to what the command says of them. Of a default route the
kernel holds exactly a payload, or nothing. What other programs do, failures without a
visible reason and changes of health are each bounded by a counter.

A line's health is chosen anew on every sample here. `LinkQuality` allows fewer
sequences (a line needs several samples to change), so every property shown for
`WanDaemon` holds for the sequences the estimator produces.

### RouteManager

`WanDaemon` executes a route update as one step that succeeds or fails. `RouteManager`
looks inside: `Apply(f, hs)` is the call of `apply_default_routes` or
`apply_ipv6_default_routes`, and every request it sends is a step of its own with the
kernel's answer, so the kernel is seen between any two of them. `pc` is the next
request of the call:

| `pc` | Step | Code |
|---|---|---|
| `standard` | `ApplyStandard` | `apply_standard` |
| `resilient` | `LeaveStandard`, `EnsureMember(h)`, `EnsureGroup` | `apply_resilient`, `ensure_nexthop`, `ensure_nexthop_group` |
| `route`, `prune` | `InstallNhRoute`, `DropUnused(h)` | `apply_resilient`, `drop_unused_members` |
| either of the first two, no next hops | `LinksDown` | `handle_all_links_down` |
| `remove` | `RemoveNhRoute`, `RemoveStandard` | `remove_installed_default_route` |
| `teardown`, `members` | `TeardownRoute`, `TeardownGroup`, `TeardownMember(h)` | `teardown_resilient` |
| `cleanup` | `CleanupRoute(f)`, `CleanupGroups`, `CleanupGroup(f)`, `CleanupEnds` | `cleanup_routes` |
| `ok`, `error` | `Report` | the worker's outcome |

`Succeed` and `Fail` are what follows the end of a part: the flag
`resilient_supported`, the teardown of the error path, the fallback of `auto`.
`installed`, `nhIds`, `nextId`, `supported` are the fields `installed_v4` /
`installed_v6`, `nh_ids`, `next_nh_id` and `resilient_supported`.

A request may be carried out and acknowledged, rejected for no visible reason, or
carried out while its acknowledgement does not arrive before the receive timeout
(`unacked`). The kernel is external. It behaves as the code's comments say: a
plain route and a route over a nexthop group have different keys and may coexist;
replacing is atomic; deleting what is absent counts as success; an object in use
is not deleted (`EBUSY`). What a kernel may lack (`lacks`) is nexthop objects or
resilient groups, per family.

### HostRoutes

`WanDaemon` executes a probe path command in one step and keeps rule, route and record of
each path. `HostRoutes` follows it path by path, and adds what `WanDaemon` leaves out: the loop's choice of
the /32s (`WantsHost`, `Pool`, `Candidates`, `OwnerOf`), the /32s to the peers of
tunnels, and the end and restart of the program. In exchange its queue holds one
command of each kind and no outcome comes back.

| Step | Code |
|---|---|
| `Start` | the sweeps before the loop: `sweep_probe_paths`, `sweep_all_own_host_routes` |
| `QueueProbePaths`, `QueueApply` | the heartbeats of the loop, with `has_main_default`, `owner_of`, `plan_underlay_routes` |
| `BeginPaths`, `RemoveStale(l)`, `RemovedStale`, `InstallWanted(l)`, `EndPaths` | `SetProbePaths` in the worker: `sweep_own_probe_host_routes` the first time, then `set_probe_paths`, one path a step, with `remove_probe_path` and `install_probe_path` |
| `RunApply` | `sync_underlay_routes` |
| `Exit`, the steps of a call, `Leave` | `cleanup_routes` |
| `Crash` | the process is killed |
| `DeviceGoes`, `DeviceReturns`, `LineChanges`, `OthersRemove` | the kernel, the lines, other programs |

`slot` gives each line its table and its rule priority, as `PROBE_TABLE_BASE` and
`PROBE_RULE_PRIORITY_BASE` plus its place in the configuration; `Layouts` lets that
place differ from run to run. `probePaths`, `underlay`, `clean` are `probe_paths`,
`underlay_routes`, `probe_host_routes_cleanup`. A request that fails for no visible
reason was carried out or not; `RemoveProbePath` and `InstallProbePath` are the sets of
answers (kernel, result, number of faults) a call on one path may give. `spoiled`,
`stray`, `orphans` remember which faults happened, so that a property can name
exactly the fault it does not survive.

### Conntrack

`WanDaemon` keeps a flush as one step. `Conntrack` follows `flush_interfaces_conntrack`
over its socket: `Flush` (addresses), `OpenFails` / `SendFails` / `Request`, then
`Receive` / `ReceiveTruncated` / `ReceiveFails` for each datagram, `Parse` for each
entry in it, `Parsed`, and at the end `SendRest` and `Finish` with `Drain` or `Reopen`.
`Sent` is a batch of deletions, sent on the socket the dump is still coming in on, so
that `KernelDumps` and the answers to deletions interleave on `queue`. The kernel is
external: a dump shows every flow that lives throughout it, and of the others what it
likes, twice if it likes; a dump request during a dump is refused with `EBUSY`; only a
deletion that fails is answered. `fresh` stands for the one question the code asks of a
sequence number, whether it is that of the dump request.

### Abstract specifications

`DefaultRoute` has what the caller can know of: what it wants (`want`), what has become
of its latest call (`answer`: none, pending, ok or error), and the next hops traffic can
take (`leads`); `certain` says that no acknowledgement of the family was ever lost. A
call begins (`Ask`) when no other is under way. Each of its steps leaves the next hops
as they are, changes them to those wanted, or takes them away, never to a mixture
(`Switch`). The step that turns the answer to "ok" (`Confirm`) leaves exactly the next
hops wanted carrying traffic, unless none are wanted; `Reject` turns it to "error".
`Deliver` hands the answer over, and `Stop` ends the cleanup, which answers nobody.
Where an acknowledgement was lost "ok" still means that every next hop wanted carries
traffic. The promise is about the moment of the answer, so no step of the manager can
claim success and be matched with a failure.

`RouteManager` implements it for each family through the mapping `Default(f)`, which
reads `leads` from the kernel's routes, groups and objects (`Leads`), not from the
manager's records, and `answer` from the place the call has reached (`AnswerTo`).

## 3. What the runs check

| Run | Shows |
|---|---|
| `link_quality` | Window of 5, thresholds in the proportions of the defaults. `TypeOK`, `LostCountExact`, `UpIsJustified`; action properties `RecoveryServed`, `DegradedOnFreshLoss`, `RecoveryStands`, `NoQuickRejoin`, `RttVerdictOnAnswer`; liveness `GoodLineRejoins`, `DeadLineDetected`. |
| `routes` | Two lines of equal metric, IPv4, `flush_conntrack_on_switch`, a stop at any point: a flush competes with the updates for the queue. `OneOutstanding`: one update under way, and the inflight flag says so. `RoutesConverge`: the kernel ends with the routes of the active lines. |
| `families` | One line with both families, a queue of one, routes that others remove, a stop at any point; no command fails. `FamiliesAgree`: behind every IPv4 update comes the IPv6 update of the same decision. `RoutesV6Converge`; `ExitCompletes`: told to stop, the daemon stops. |
| `paths` | An interface that disappears and returns under another index, events that may be lost, a policy whose rule changes fail one by one, a probe path of which a request fails or is refused, another program that takes rules and routes, a stop at any point. `TypeOK`; `ProbePathsConverge`: rule and route end up in place, whatever half was left; `RulesRecorded`: no rule in the kernel is missing from the record; `PoliciesSettle`: record and kernel end up with the rules wanted, as far as nobody else takes them; `ExitLeavesNoPaths`: after the exit no policy rule is left, and of the lines not in `halfway` neither the rule nor the route of a probe path, in particular none whose removal failed before. |
| `flush` | Several outages, failing flushes, the rate limit. `ShortOutagesSpared`, `OneFlushPerOutage`, `DownLinesFlushed`. |
| `route_manager` | One family, two next hops, all modes and kernels, any sequence of updates and a cleanup. `TypeOK`; `OneRoute`: never a plain route beside a route over a group, unless an acknowledgement was lost. `MembersKnown`: every nexthop object can still be deleted. `LastRouteKept`: the last default route goes only at exit, after another default route was seen, when `auto` moves from the plain route to a group, or after a request of an update in mode `auto` or `resilient` failed. `RoutesImplemented`: refinement of `DefaultRoute`. |
| `host_routes` | Two lines that share a probe target, one of them a tunnel, two runs with the lines swapped, killed or stopped at any point, a fault at any request. `TypeOK`; `HostsAccounted`: every probe /32 belongs to a recorded path, until a request fails; `RulesHome`: no rule leads a line into another's table; `UnderlayKnown`: no underlay route is unknown to the record, but those never acknowledged. Liveness: `PathsConverge`, `UsableLineProbed` (a usable line gets the /32 of a shared target whose other lines are unusable), `UnderlayConverges`. |
| `conntrack` | Any sequence of flushes while flows come and go. `TypeOK`, with the limit of a batch; `SocketClean`: nothing of a dump is left between two calls; `FlushedAll`: a success deleted every flow it should; `SparesOthers`: and no other; `FlushRecovers`: flushes that go on being asked for go on succeeding. |

Four runs show that the code does not do what its documentation says:

* `answered` (`InflightAnswered`). After collecting outcomes, the tick asks whether
  the worker is gone by calling `try_recv` again; if an outcome has arrived in
  between, it is discarded. The inflight flag of that kind stays set, and no
  update of that kind is ever sent again, heartbeat included. The properties of
  the other runs therefore carry the exception `k \in dropped`.
* `policies_taken` (`PoliciesConverge`). The policy heartbeat does not repair a rule
  removed from outside: the diff is against the daemon's own record.
* `sweep` (`SweepLeavesNoRules`). The sweep deletes one rule per priority; a policy
  with several prefixes has several rules of one priority.
* `two_routes` (`OneRoute`). `resilient_supported` is one flag for both families. On a
  kernel without IPv6 the IPv6 update is refused with `EAFNOSUPPORT`, the flag becomes
  `Some(false)`, and the next IPv4 update goes straight to `apply_standard`: the plain
  route is installed beside the route over the group, which the record then forgets.

`route_manager` allows one failed request per call. With two, `OneRoute` has another
counterexample: an `auto` update fails, the teardown cannot delete the group route and
keeps its record for a retry, and the fallback then installs the plain route and
overwrites that record. `SoundFallback` in section 4 is the condition under which neither
of the two counterexamples exists.

Two disagreements with the documentation have no run that refutes them; the properties
of the passing runs name the first as an exception and leave the second out:

* `main.rs:1943` and `README.md:168` of the repository promise that the `oif` rules of
  the probe paths are torn down at every exit. `install_probe_path` installs the rule
  first; when the route is refused after that, because the device is gone or has a new
  ifindex, `set_probe_paths` records nothing, and the exit, which removes what is on
  record, reports success and leaves the rule. `ExitLeavesNoPaths` without `\ halfway` is
  violated by exactly this. A later successful installation of the line closes the gap,
  and the next start sweeps the rule (`RulesHome` of `HostRoutes`).
* `README.md:168` promises the same of the /32s to tunnel peers, whatever
  `remove_routes_on_exit` says. With `false`, the default, `main` sends only
  `SetPolicies([])` and `SetProbePaths([])`; only `cleanup_routes` removes the underlay
  routes. `Exit` of `HostRoutes` is the exit with `true`.

Observations that no run claims as a disagreement, because nothing in the repository
promises otherwise:

* In modes `auto` and `resilient` a single refused request of an update, be it for one
  member of a group whose route works, runs `teardown_resilient`, which deletes that
  route. `auto` goes on to the plain route; `resilient`
  (`apply_resilient_with_teardown`, `route.rs:2641`) reports the error and leaves the
  family without a default route until a later update succeeds. `MakesWay` in
  `LastRouteKept` names this exception; that the failed update is sent again is what
  `RoutesConverge` of the `routes` run rests on.
* When the /32 of a shared target moves to a line that comes earlier in the
  configuration, the new owner's /32 is installed first and then deleted with the old
  owner's path (`remove_probe_path` names no device). The next heartbeat brings it back;
  `PathsConverge` holds because of it.
* `remove_probe_path` drops the errors of the /32 deletions: hence `~spoiled` in
  `HostsAccounted`.
* A flush of several interfaces of which one has no known address reports success.
* `rtt_fail_count = 1` is accepted by `validate`. A slow first probe then brings the line
  UP with its RTT counter at the threshold, and a timeout right after it takes the line
  DOWN with the reason "rtt", where the comment in `update` has timeouts leave the RTT
  verdict alone. `RttVerdictOnAnswer` is proved for greater counts.
* `update` does not look at the window when a line recovers. With a `recover_count` that
  is small against `window_size` the next success may find the failures of the outage
  above `loss_threshold_down` and take the line DOWN again. The default configuration is
  on the safe side of the condition in `RecoveryIsNotUndone`.
* With a queue of one, policies can starve behind a kind that is sent first at every
  tick; the real queue has 64 places.

### Bounds, and why they are enough

* `WindowSize = 5`, the other thresholds in proportion: small enough for all
  windows, large enough for consecutive counts, loss thresholds and the degrade
  band to be different conditions. The state space of `LinkQuality` is finite
  without any further bound.
* One or two lines. Lines interact only through the choice of the active set
  (`routes` has two); all other per-line state is independent.
* `QueueCapacity` 1 or 2 instead of 64: a full queue is what matters. It is 2
  where two kinds would otherwise starve each other at every tick, which 64 places
  rule out.
* `HeartbeatTicks = RefreshTicks = 2` instead of 60 and 600: a period longer than
  one tick, so there are ticks with and without a heartbeat.
* `QuietTicks = 2`, `FlushInterval = 2`: a line can be DOWN for less and for
  longer than either.
* `MaxChanges` (2 or 3): enough for a line to come up, go down and come back while
  commands are under way. `MaxFailures` is 1 where a question is about failures, limited to the kinds
  in `Failing`; `families` has none, since a route that fails and one that is removed are
  the same to its questions. `InPlay` are the repeated commands an instance ever sends, and
  `Disturbances` what else may happen in it: each run has what its question needs.
* `RouteManager`: two next hops make a member that joins, stays and leaves;
  `MaxIds = 4` lets ids be given anew after a deletion. `FailuresPerCall = 1` is named
  above. Families meet only in `resilient_supported` and the cleanup: `two_routes` has
  both.
* `HostRoutes`: two lines with one target make a shared /32 and a change of its owner;
  one peer suffices since peers do not interact. Two slots, and two runs with the lines
  swapped, so that a leftover rule is a wrong one. One change of the world, one fault
  and `MaxIndex = 2` per behaviour, at any point: a device that returns is not counted
  as a change, so it can go and come back.
* `Conntrack`: three flows of which two share their tuple and differ in their zone;
  `BatchLimit = 2` gives full batches, a rest and an empty rest; `QueueLimit = 1` still
  lets a dump be under way behind a datagram, and answers to deletions lengthen the
  queue beyond it; two faults, so that a call can fail again on the way out of a failure.
* No symmetry: lines are ordered by their slot.

### Fairness

`LinkQualityHistory`: weak fairness of `HNext`, since the loop samples every line on
every tick. Each of its steps flips `beat`: a sample that changes nothing else, such as
one more success of a healthy line, still counts as a step, so the fairness asks for
samples and never for samples of a particular kind. In `WanDaemon` every step of the
loop moves `pc`, to the same effect. `WanDaemon`: weak fairness of the loop's tick, of the exit steps, and of the
worker. The ticker keeps firing; all socket operations of the worker have timeouts
(`set_socket_timeouts`), so each operation ends. `HostRoutes`: weak fairness of the
heartbeats that queue the two commands and of the worker; strong fairness of
`BeginPaths` and `RunApply`, because the queue is first in, first out: a command that waits is taken up,
though the worker is busy in between. Convergence is claimed only of a run that is
neither stopped nor killed any more (`Runs`). `Conntrack`: weak fairness of the call, whose receives
time out after 5 seconds, and of the kernel's dump. `RouteManager` states no fairness: it is checked for safety only.
Nothing is assumed of link
events, of other programs, or of the order of the two threads.

## 4. What is proved

The eight proof modules are checked by `tlapm` to the last leaf, with no assumption
but `ConfigAssumption`, `DaemonAssumption`, `RouteAssumption`, `HostAssumption` and
`ConntrackAssumption`, which the runs evaluate, and, in four theorems, a condition on the
constants stated in the theorem itself. All of it is for every number of lines, every queue
capacity, every period and every threshold. Every safety property of a passing run, the
action properties and the refinement among them, is a theorem.

### The estimator

* `LostCountCorrect`: `Spec => [](TypeOK /\ LostCountExact)` for every window size
  and threshold. `LostCountExact` is not inductive alone: the decrement when a
  failure leaves a full window needs the window to be a sequence of booleans whose
  length is at most the window size, and the bound on `lostCount` follows from
  exactness; hence the conjunction with `TypeOK`. The lemmas `FailuresAppend` and
  `FailuresTail` say what a sliding window does to the number of failures in it.
  `TypesKept` is its first conjunct.
* `DetectionNotOverdue`: `Spec => []UpIsJustified`. Not inductive: the first probe takes a
  line UP without looking at the window. `EstimatorInv` adds `FreshStart`: before the
  first probe the window and the counters are empty.
* `RecoveryIsServed`, `DegradedOnlyOnFreshLoss`, `RecoveryIsNotUndone`, `StaysOutOfEcmp`,
  `RttBlamedOnAnswersOnly`: the five action properties. `HistoryInv` ties the history to the fields of
  the estimator: `DownCounts` (the successes of a DOWN line are those probed since the
  verdict), `OutCounts` (`degrade.out` never exceeds the time out of ECMP), `RunInWindow`
  (the successes counted are the end of the window, and an unhurt UP line still shows
  the run that brought it up), `FreshPart` (`samplesInUp` delimits the part of the window
  that came after the outage). Two need a condition:
  `(WindowSize - RecoverCount - 1) * 100 <= LossDown * WindowSize` for `RecoveryStands`,
  `RttFailCount > 1` for `RttVerdictOnAnswer`; TLC refutes either property
  without its condition (section 3). The defaults satisfy both.
* `HistoryObserves`: `HSpec => Spec`, so that the history restricts nothing.

### The event loop and the worker
* `TypesAreKept`: `Spec => []TypeOK` for `WanDaemon`, which includes that the queue
  never exceeds `NETLINK_QUEUE_CAPACITY` although it is sent to from seven places.
  `TypeOK` is not inductive: that the rules installed are rules of configured
  policies depends on what the queue and the batch carry. `TypeInv` adds it.
* `RulesAreRecorded`: `Spec => []RulesRecorded`. Inductive as it stands.
* `NeverTwoUnderway`: `Spec => []OneOutstanding`. A command of a repeated kind is in
  the queue, in the batch or among the outcomes, and in one of them only. The
  strengthening `HandshakeInv` says in addition that no `ClearRoutes` is under way
  while the loop ticks; executing it would throw away the rest of the batch. The
  lemmas `SendPlaces`, `ReceivePlaces`, `ExecutedPlaces` and `DropPlaces` say what
  each operation on the channels does to the places of a kind.
* `FamiliesNeverDiverge`: `Spec => []FamiliesAgree`. The strengthening `FamiliesInv`
  covers the moment between the two sends of one decision (`pc = "apply6"`), where
  the newest IPv4 update is that of the current active lines and the IPv6 one is
  not yet; and that the queue's commands have an order and the batch holds at most
  one command per family, so that receiving and executing do not change which
  update is the newest (`SendNewest`, `ReceiveNewest`, `ExecutedNewest`).
* `ExitIsClean`: `Spec => []ExitLeavesNoPaths`. `ExitInv` follows each of the exit's two
  commands from the moment it is sent (`Told`): it is the newest of its kind in the queue
  (`EndWaits`), or it is what the batch holds (`EndHeld`), or the last outcome of its kind
  is its own and true (`EndAnswered`). It holds through the merging of batches because
  nothing of its kind can be sent after it, and no `ClearRoutes` exists that would throw
  it away. That no rule is left after a success rests on `RulesRecorded`, and that no
  path is on `PathsKnown`: a line that has a rule or a route in the kernel is on record
  or in `halfway`, whatever failed in between (`SetPathsKnown`).
* `QuietPeriodIsKept`, `OutagesFlushedOnce`: `ShortOutagesSpared` and `OneFlushPerOutage` of
  `WanDaemonHistory`. `OutageInv` says what the fields of `WanMonitor` mean at each
  point of a tick: `down_since` and `last_down_at` are the time since the line fell, one
  tick ahead between `TickBegin` and `Sample` (`AgesExact`); a line collected for
  flush-on-switch is UP and has not fallen within the quiet period, until the next samples
  empty the collection (`SwitchedQuiet`); a line already
  flushed in its outage is DOWN and marked (`AskedMarked`).

### Default routes

* `MembersStayKnown`: `Spec => []MembersKnown` for `RouteManager`, for any families, next
  hops and kernels and any number of failures of either kind. `Inv` adds that ids are
  handed out in increasing order (`NextIdFresh`), so a new id never stands for an older
  member. Requests about routes and groups leave objects alone (`RoutesKeepObjects`,
  `RoutesStep`); only `EnsureMember` and the deletions need work. A rejected or
  unacknowledged creation keeps the id on record; a failed deletion puts it back.
* `RouteTypes`, `LastRouteIsKept`: `TypeOK` and `LastRouteKept` for `RouteManager`, without any
  condition. The second needs that a teardown or a removal under way has its reason: the
  call has counted a failure (`FailedCounts`), or has seen another route, or is at its
  step from plain route to group (`CallShape`).
* `NeverTwoRoutes`, `RoutesImplement`: `Spec => []OneRoute`, and `Spec => RoutesImplemented`, the
  refinement of `DefaultRoute` for every family, under `SoundFallback`: mode `auto` is not
  in use, or a call meets at most one failure without a visible reason and the kernel
  supports groups for every family or for none. The condition is what the two
  counterexamples of section 3 lack; in modes `standard` and `resilient` there is no limit
  on failures and no condition on the kernel.
  `RouteInv` adds to `TypeOK`: the shape of a call at each `pc` (`CallShape`, `CleanupShape`,
  `GroupsSupported`); that the members of a group are objects of its family, and the
  group about to be used is that of the next hops wanted (`GroupFilled`, `GroupReady`);
  that `installed` is what the kernel has, for families without a lost acknowledgement
  (`Installed`); and that `auto` does not come to the plain route with a group route on
  record (`NoFallbackTrap`). Each action has one lemma (`...Step`): it keeps `RouteInv`, keeps
  the last route (`KeepsRoute`), and is a step of `DefaultRoute` or a stutter (`Implements`),
  for its own family and for the others.

### Probe paths, underlay routes and conntrack

* `HostTypes`, `RulesStayHome`, `UnderlayIsKnown`, `HostsAreAccounted`: `TypeOK`, `RulesHome`,
  `UnderlayKnown` and `HostsAccounted` for `HostRoutes`, for any lines, targets, peers,
  layouts, and any number of runs, changes and faults. `Inv` adds three conjuncts.
  `SlotsOK`: the slots are those of some run, so no two lines share one. `Home`:
  `RulesHome` while the program is down as well, about the run that ended, and the same
  of the paths recorded and asked for; it is why the sweep, which takes one rule per
  priority, takes all of them: two rules of one priority would belong to one line. `CallOK`:
  the loop under way handles only lines it has a path for. The lemmas `RemoveAnswer` and
  `InstallAnswer` say what any answer to a call on one path leaves in the kernel, `SyncStep`
  what a round of `sync_underlay_routes` does; every action of the world is an instance of
  `Taken`: it takes away and adds nothing.
* `SocketIsClean`, `SuccessFlushesAll`, `OthersSpared`, `ConntrackTypes`: `SocketClean`, `FlushedAll`,
  `SparesOthers` and `TypeOK` for `Conntrack`, for any flows, zones, batch and queue limits
  and any number of faults. A flow that has to go is, at every moment of a call that has
  not failed, still to be dumped, in a datagram, in the datagram at hand, or in the
  batch (`Owed`). For that the invariant has to know that after an `NLMSG_DONE` only
  answers to deletions follow on the socket (`Framed`), and what each stage of a call
  has left behind (`Staged`); `Known` says that all these places hold only flows of the
  flushed addresses.

Model-checked only: all liveness (`GoodLineRejoins`, `DeadLineDetected`, `ExitCompletes`, the
convergence properties, `DownLinesFlushed`, `UsableLineProbed`, `FlushRecovers`), which needs
fairness and `ENABLED` and is out of the prover's reach. Nothing of the models is
defined by recursion, so no induction over data is left out.

## 5. What is not modelled

* A restart over nexthop objects and default routes an earlier process left: the ids
  start from 1 again and replace objects that may still be in use; what the kernel
  then does with a group of two families is documented nowhere in the repository.
  For rules, probe paths and underlay routes the restart is in `HostRoutes`. The
  sweep of policy rules at the start is the operation the `sweep` run shows at exit.
* Dynamic weights (`WanDaemon` lets the weights change at any tick), `pick_sample`:
  pure functions on floating-point numbers and lists.
* The PID file: one system call at a time on a file; listed under the hazards.
* The bucket limit of a resilient group. A panic of the worker thread.
* Netlink message layout, sysfs and sysctl access.
* Configuration parsing (what `validate` guarantees is `ConfigAssumption`), the
  status file, the web interface, packaging.

## 6. Plan

1. Proofs: the safety steps that the liveness properties rest on (what a heartbeat sends,
   what a successful command leaves in the kernel), and that a sequence of verdicts of
   `LinkQuality` is one that `WanDaemon` allows.
2. A restart of `RouteManager` over nexthop objects; the failures that overlap in one
   call (`FailuresPerCall = 2`).
3. `PidFile`: several instances starting and stopping on one lock file.
4. `DynamicWeights`, `PickSample`: pure operators checked against reference
   definitions over bounded inputs.
5. Composition of `LinkQuality` with the loop's choice of active lines.
