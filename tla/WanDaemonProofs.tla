--------------------------- MODULE WanDaemonProofs ---------------------------
(***************************************************************************)
(* Theorems about the event loop and its worker, for every configuration.  *)
(* The invariants that are not inductive as WanDaemon states them are      *)
(* strengthened by what the channels and the batch hold.                   *)
(***************************************************************************)
EXTENDS WanDaemon, FiniteSetTheorems, SequenceTheorems, TLAPS

-----------------------------------------------------------------------------
(* Sequences, whatever they hold.                                          *)

IsSeq(q) == q \in Seq({q[i] : i \in DOMAIN q})

(* Every sequence is one.                                                  *)
LEMMA SeqIsSeq ==
  ASSUME NEW S, NEW q \in Seq(S)
  PROVE  IsSeq(q)
<1>1. Len(q) \in Nat /\ q \in [1..Len(q) -> S] /\ DOMAIN q = 1..Len(q)
  BY LenProperties
<1>2. q = [i \in 1..Len(q) |-> q[i]]
  BY <1>1
<1>3. [i \in 1..Len(q) |-> q[i]] \in Seq({q[i] : i \in DOMAIN q})
  BY <1>1, IsASeq
<1>4. QED
  BY <1>2, <1>3 DEF IsSeq

(* The places of a channel are 1..Len.                                     *)
LEMMA SeqFacts ==
  ASSUME NEW q, IsSeq(q)
  PROVE  Len(q) \in Nat /\ DOMAIN q = 1..Len(q)
BY LenProperties DEF IsSeq

(* An empty channel.                                                       *)
LEMMA EmptyIsSeq == IsSeq(<<>>) /\ Len(<<>>) = 0 /\ DOMAIN <<>> = {}
BY DEF IsSeq

(* Sending appends one element and moves none.                             *)
LEMMA AppendIsSeq ==
  ASSUME NEW q, IsSeq(q), NEW e
  PROVE  /\ IsSeq(Append(q, e))
         /\ Len(Append(q, e)) = Len(q) + 1
         /\ DOMAIN Append(q, e) = 1..(Len(q) + 1)
         /\ \A i \in 1..Len(q) : Append(q, e)[i] = q[i]
         /\ Append(q, e)[Len(q) + 1] = e
<1> DEFINE S == {q[i] : i \in DOMAIN q} \cup {e}
           a == Append(q, e)
<1>1. q \in Seq(S)
  BY SeqMonotonic DEF IsSeq
<1>2. /\ a \in Seq(S) /\ Len(a) = Len(q) + 1
      /\ \A i \in 1..Len(q) : a[i] = q[i]
      /\ a[Len(q) + 1] = e
  BY <1>1, AppendProperties
<1>3. IsSeq(a) /\ DOMAIN a = 1..Len(a)
  BY <1>2, SeqIsSeq, LenProperties
<1>4. QED
  BY <1>2, <1>3

(* Receiving takes the head and moves every other element down by one.     *)
LEMMA TailIsSeq ==
  ASSUME NEW q, IsSeq(q), q # <<>>
  PROVE  /\ IsSeq(Tail(q))
         /\ Len(q) \in Nat \ {0} /\ Len(Tail(q)) = Len(q) - 1
         /\ DOMAIN Tail(q) = 1..(Len(q) - 1)
         /\ \A i \in 1..(Len(q) - 1) : Tail(q)[i] = q[i + 1]
         /\ Head(q) = q[1]
<1> DEFINE S == {q[i] : i \in DOMAIN q}
           a == Tail(q)
<1>1. q \in Seq(S)
  BY DEF IsSeq
<1>2. /\ a \in Seq(S) /\ Len(a) = Len(q) - 1 /\ Len(q) \in Nat \ {0}
      /\ \A i \in 1..Len(a) : a[i] = q[i + 1]
  BY <1>1, HeadTailProperties, EmptySeq
<1>3. IsSeq(a) /\ DOMAIN a = 1..Len(a)
  BY <1>2, SeqIsSeq, LenProperties
<1>4. Head(q) = q[1]
  BY <1>1, <1>2
<1>5. QED
  BY <1>2, <1>3, <1>4

-----------------------------------------------------------------------------
(* The type invariant is inductive once it says of the commands on their   *)
(* way that policies carry rules, flushes lines and probe paths indexes.   *)

Indexes == [Lines -> 0..MaxIndex]

ChannelInv ==
  /\ ChannelTypes
  /\ IsSeq(queue) /\ IsSeq(outcomes)
  /\ \A i \in DOMAIN queue :
       /\ queue[i].kind = "policies" => queue[i].arg \subseteq Rules
       /\ queue[i].kind = "flush" => queue[i].arg \subseteq Lines
       /\ queue[i].kind = "probe" => queue[i].arg \in Indexes

WorkerInv ==
  /\ WorkerTypes
  /\ batch["policies"] \subseteq SUBSET Rules /\ batch["flush"] \subseteq Lines
  /\ batch["probe"] \subseteq Indexes

TypeInv ==
  /\ LoopTypes /\ LineTypes /\ SentTypes /\ WatchTypes
  /\ ChannelInv /\ WorkerInv /\ PathTypes /\ MachineTypes

channelVars == <<queue, outcomes, dropped>>
machineVars == <<sessions, deviceVars, changes>>

(* A step that leaves the variables of a part alone keeps the part.        *)
LEMMA Untouched ==
  /\ LineTypes /\ UNCHANGED lineVars => LineTypes'
  /\ SentTypes /\ UNCHANGED sentVars => SentTypes'
  /\ WatchTypes /\ UNCHANGED watchVars => WatchTypes'
  /\ ChannelInv /\ UNCHANGED channelVars => ChannelInv'
  /\ WorkerInv /\ UNCHANGED workerVars => WorkerInv'
  /\ PathTypes /\ UNCHANGED pathVars => PathTypes'
  /\ PathTypes /\ UNCHANGED workerVars => PathTypes'
  /\ MachineTypes /\ UNCHANGED machineVars => MachineTypes'
<1>1. LineTypes /\ UNCHANGED lineVars => LineTypes'
  BY DEF LineTypes, lineVars
<1>2. SentTypes /\ UNCHANGED sentVars => SentTypes'
  BY DEF SentTypes, sentVars
<1>3. WatchTypes /\ UNCHANGED watchVars => WatchTypes'
  BY DEF WatchTypes, watchVars
<1>4. ChannelInv /\ UNCHANGED channelVars => ChannelInv'
  BY DEF ChannelInv, ChannelTypes, channelVars, IsSeq
<1>5. WorkerInv /\ UNCHANGED workerVars => WorkerInv'
  BY DEF WorkerInv, WorkerTypes, workerVars
<1>8. PathTypes /\ UNCHANGED pathVars => PathTypes'
  BY DEF PathTypes, pathVars
<1>9. UNCHANGED workerVars => UNCHANGED pathVars
  BY DEF workerVars
<1>6. MachineTypes /\ UNCHANGED machineVars => MachineTypes'
  BY DEF MachineTypes, machineVars, deviceVars
<1>7. QED
  BY <1>1, <1>2, <1>3, <1>4, <1>5, <1>6, <1>8, <1>9

(* The assumption on the constants, one constant at a time.                *)
LEMMA ConstantTypes ==
  /\ QueueCapacity \in Nat /\ WatchRetryTicks \in Nat
  /\ QuietTicks \in Nat /\ FlushInterval \in Nat
  /\ MaxChanges \in Nat /\ MaxFailures \in Nat /\ MaxIndex \in Nat
  /\ RefreshTicks \in Nat /\ RefreshTicks > 0
  /\ RetryTicks \in [Repeated -> Nat]
<1>1. {QueueCapacity, HeartbeatTicks, RefreshTicks} \subseteq Nat \ {0}
  BY DaemonAssumption, Zenon
<1>2. {WatchRetryTicks, QuietTicks, FlushInterval} \subseteq Nat
  BY DaemonAssumption, Zenon
<1>3. {MaxChanges, MaxFailures, MaxIndex} \subseteq Nat
  BY DaemonAssumption, Zenon
<1>4. RetryTicks \in [Repeated -> Nat \ {0}]
  BY DaemonAssumption, Zenon
<1>5. QED
  BY <1>1, <1>2, <1>3, <1>4

(* tick_count stays within a refresh period.                               *)
LEMMA ClockType ==
  ASSUME NEW n \in Nat
  PROVE  n % RefreshTicks \in 0..(RefreshTicks - 1)
BY ConstantTypes

(* Ages saturate.                                                          *)
LEMMA AgeTypes ==
  ASSUME NEW limit \in Nat, NEW age \in Ages(limit)
  PROVE Older(age, limit) \in Ages(limit) /\ 0 \in Ages(limit) /\ Never \in Ages(limit)
BY DEF Older, Ages, Never

(* Countdowns stop at zero.                                                *)
LEMMA LessType ==
  ASSUME NEW m \in Nat, NEW n \in 0..m
  PROVE  Less(n) \in 0..m
BY DEF Less

(* An option holds at most one value.                                      *)
LEMMA Singletons ==
  ASSUME NEW x
  PROVE  Cardinality({x}) <= 1 /\ Cardinality({}) <= 1
<1>1. Cardinality({x}) = 1
  BY FS_Singleton
<1>2. Cardinality({}) = 0
  BY FS_EmptySet
<1>3. QED
  BY <1>1, <1>2

(* What the loop computes for a command has the command's type.            *)
LEMMA ArgTypes ==
  ASSUME TypeInv
  PROVE /\ PolicyRules \subseteq Rules /\ FlushTargets \subseteq Lines /\ NewMembers \subseteq Lines
        /\ ProbePaths \in Indexes /\ NoIndexes \in Indexes
<1>1. \A l \in UpLines : l \in Lines /\ ifindex[l] \in 1..MaxIndex
  BY DaemonAssumption DEF UpLines, Gone, TypeInv, LineTypes
<1>2. PolicyRules \subseteq Rules
  BY <1>1 DEF PolicyRules, Rules
<1>3. NewMembers \subseteq Lines
  BY DEF NewMembers, Active, Undegraded, Primary, UpLines
<1>4. FlushTargets \subseteq Lines
  BY DEF FlushTargets, LongDown, TypeInv, SentTypes
<1>5. ProbePaths \in Indexes /\ NoIndexes \in Indexes
  BY ConstantTypes DEF ProbePaths, NoIndexes, Indexes, Gone, TypeInv, LineTypes
<1>6. QED
  BY <1>2, <1>3, <1>4, <1>5

(* try_send keeps the queue within its capacity and well-formed.           *)
LEMMA SendKeeps ==
  ASSUME TypeInv, Room, NEW k \in Kinds, NEW a, Send(k, a),
         k = "policies" => a \subseteq Rules, k = "flush" => a \subseteq Lines,
         k = "probe" => a \in Indexes
  PROVE /\ IsSeq(queue') /\ Len(queue') <= QueueCapacity
        /\ \A i \in DOMAIN queue' :
             /\ queue'[i].kind \in Kinds
             /\ queue'[i].kind = "policies" => queue'[i].arg \subseteq Rules
             /\ queue'[i].kind = "flush" => queue'[i].arg \subseteq Lines
             /\ queue'[i].kind = "probe" => queue'[i].arg \in Indexes
<1> DEFINE n == Len(queue) + 1
<1>1. IsSeq(queue) /\ Len(queue) < QueueCapacity /\ QueueCapacity \in Nat
  BY DaemonAssumption DEF TypeInv, ChannelInv, Room
<1>2. Len(queue) \in Nat /\ DOMAIN queue = 1..Len(queue)
  BY <1>1, SeqFacts
<1>3. queue' = Append(queue, Command(k, a))
  BY DEF Send
<1>4. /\ IsSeq(queue') /\ Len(queue') = n /\ DOMAIN queue' = 1..n
      /\ \A i \in 1..Len(queue) : queue'[i] = queue[i]
      /\ queue'[n] = Command(k, a)
  BY <1>1, <1>3, AppendIsSeq
<1>5. \A i \in 1..n : i = n \/ i \in 1..Len(queue)
  BY <1>2
<1>6. QED
  BY <1>1, <1>2, <1>4, <1>5 DEF TypeInv, ChannelTypes, ChannelInv, Command

(* An executed command keeps the outcomes and the batch well-formed.       *)
LEMMA ExecutedKeeps ==
  ASSUME TypeInv, NEW k \in Kinds \ {"clear"}, NEW ok \in BOOLEAN, NEW v, Executed(k, ok, v)
  PROVE  /\ IsSeq(outcomes')
         /\ \A i \in DOMAIN outcomes' :
              outcomes'[i].kind \in Kinds \ {"clear"} /\ outcomes'[i].ok \in BOOLEAN
         /\ worker' \in {"recv", "run"}
         /\ DOMAIN batch' = Kinds
         /\ batch'["policies"] \subseteq SUBSET Rules /\ batch'["flush"] \subseteq Lines
         /\ batch'["probe"] \subseteq Indexes
<1> DEFINE n == Len(outcomes) + 1
           o == [kind |-> k, ok |-> ok, variant |-> v]
<1>1. IsSeq(outcomes)
  BY DEF TypeInv, ChannelInv
<1>2. Len(outcomes) \in Nat /\ DOMAIN outcomes = 1..Len(outcomes)
  BY <1>1, SeqFacts
<1>3. outcomes' = Append(outcomes, o)
  BY DEF Executed
<1>4. /\ IsSeq(outcomes') /\ DOMAIN outcomes' = 1..n
      /\ \A i \in 1..Len(outcomes) : outcomes'[i] = outcomes[i]
      /\ outcomes'[n] = o
  BY <1>1, <1>3, AppendIsSeq
<1>5. \A i \in 1..n : i = n \/ i \in 1..Len(outcomes)
  BY <1>2
<1>6. \A i \in DOMAIN outcomes' :
        outcomes'[i].kind \in Kinds \ {"clear"} /\ outcomes'[i].ok \in BOOLEAN
  BY <1>2, <1>4, <1>5 DEF TypeInv, ChannelInv, ChannelTypes
<1>7. /\ DOMAIN batch' = Kinds
      /\ batch'["policies"] \subseteq SUBSET Rules /\ batch'["flush"] \subseteq Lines
      /\ batch'["probe"] \subseteq Indexes
  BY DEF Executed, TypeInv, WorkerInv, WorkerTypes
<1>8. worker' \in {"recv", "run"}
  BY DEF Executed
<1>9. QED
  BY <1>4, <1>6, <1>7, <1>8

(* Failures are counted up to their bound.                                 *)
LEMMA FailureType ==
  ASSUME TypeInv, NEW k, MayFail(k)
  PROVE  failures + 1 \in 0..MaxFailures
BY ConstantTypes DEF TypeInv, WorkerInv, WorkerTypes, MayFail

(* The initial states are well-typed.                                      *)
LEMMA TypeInit == Init => TypeInv
<1> SUFFICES ASSUME Init PROVE TypeInv
  OBVIOUS
<1>1. Cardinality(Lines) \in 0..MaxIndex
  <2>1. Cardinality(Lines) \in Nat
    BY DaemonAssumption, FS_CardinalityType
  <2>2. Lines = 1..Cardinality(Lines) /\ Lines \subseteq 1..MaxIndex /\ MaxIndex \in Nat
    BY DaemonAssumption
  <2>3. QED
    BY <2>1, <2>2
<1>2. LineTypes
  <2>1. \A l \in Lines : l \in 0..MaxIndex
    BY DaemonAssumption
  <2>2. QED
    BY <2>1, DaemonAssumption DEF Init, LineTypes, Healths, Ages
<1>3. SentTypes
  <2>1. Cardinality({}) <= 1
    BY Singletons
  <2>2. QED
    BY <2>1 DEF Init, SentTypes, Repeated
<1>4. WatchTypes
  BY DaemonAssumption DEF Init, WatchTypes
<1>5. ChannelInv
  BY EmptyIsSeq, DaemonAssumption DEF Init, ChannelInv, ChannelTypes
<1>6. WorkerInv
  BY DaemonAssumption DEF Init, WorkerInv, WorkerTypes, NoBatch, Kinds, Repeated
<1>10. PathTypes
  BY ConstantTypes DEF Init, PathTypes, PathStates, NoPath, Gone
<1>7. MachineTypes
  <2>1. device \in [Lines -> 0..MaxIndex]
    BY <1>2 DEF Init, LineTypes
  <2>2. QED
    BY <1>1, <2>1, DaemonAssumption DEF Init, MachineTypes
<1>8. LoopTypes
  <2>1. 0 \in 0..(RefreshTicks - 1)
    BY ConstantTypes
  <2>2. weights \in 0..1 /\ clock = 0 /\ pc = "idle"
    BY DEF Init
  <2>3. resilient \in BOOLEAN
    BY Zenon DEF Init
  <2>4. QED
    BY <2>1, <2>2, <2>3 DEF LoopTypes
<1>9. QED
  BY <1>2, <1>3, <1>4, <1>5, <1>6, <1>7, <1>8, <1>10 DEF TypeInv

-----------------------------------------------------------------------------
(* Each action keeps the invariant.                                        *)

(* TickBegin advances ages and countdowns and consumes the outcomes.       *)
LEMMA TickBeginTypes ==
  ASSUME TypeInv, TickBegin
  PROVE  TypeInv'
<1>1. LineTypes'
  <2>1. \A l \in Lines : /\ since[l] \in Ages(QuietTicks) /\ lastDown[l] \in Ages(QuietTicks)
                        /\ lastFlush[l] \in Ages(FlushInterval)
    BY DEF TypeInv, LineTypes
  <2>2. /\ since' \in [Lines -> Ages(QuietTicks)] /\ lastDown' \in [Lines -> Ages(QuietTicks)]
        /\ lastFlush' \in [Lines -> Ages(FlushInterval)]
    BY <2>1, AgeTypes, ConstantTypes DEF TickBegin
  <2>3. UNCHANGED <<health, ifindex>> /\ flushed' \subseteq flushed
    BY DEF TickBegin
  <2>4. QED
    BY <2>2, <2>3 DEF TypeInv, LineTypes
<1>2. SentTypes'
  <2>1. wait' \in [Repeated -> Nat]
    <3>1. wait' = [k \in Repeated |-> IF k \in FailedKinds THEN RetryTicks[k] ELSE Less(wait[k])]
      BY DEF TickBegin
    <3>2. \A k \in Repeated : RetryTicks[k] \in Nat /\ Less(wait[k]) \in Nat
      BY ConstantTypes DEF TypeInv, SentTypes, Less
    <3>3. QED
      BY <3>1, <3>2, Zenon
  <2>2. inflight' \subseteq inflight /\ dirty' \subseteq dirty \cup Repeated
    BY DEF TickBegin
  <2>3. UNCHANGED <<lastActive, v6Pending, lastRules, switched>>
    BY DEF TickBegin
  <2>4. QED
    BY <2>1, <2>2, <2>3 DEF TypeInv, SentTypes
<1>3. WatchTypes'
  BY LessType, ConstantTypes DEF TickBegin, TypeInv, WatchTypes
<1>4. ChannelInv'
  BY EmptyIsSeq DEF TickBegin, TypeInv, ChannelInv, ChannelTypes
<1>5. LoopTypes'
  <2>1. clock' \in 0..(RefreshTicks - 1)
    BY ClockType, ConstantTypes DEF TickBegin, TypeInv, LoopTypes
  <2>2. resilient' \in BOOLEAN
    <3>1. resilient \in BOOLEAN /\ ("resilient" \in ReportedVariants) \in BOOLEAN
      BY DEF TypeInv, LoopTypes
    <3>2. resilient' = IF ReportedVariants = {} THEN resilient ELSE "resilient" \in ReportedVariants
      BY DEF TickBegin
    <3>3. QED
      BY <3>1, <3>2, Zenon
  <2>3. pc' = "check" /\ UNCHANGED weights
    BY DEF TickBegin
  <2>4. QED
    BY <2>1, <2>2, <2>3 DEF TypeInv, LoopTypes
<1>6. QED
  BY <1>1, <1>2, <1>3, <1>4, <1>5, Untouched DEF TickBegin, TypeInv, machineVars

(* CheckThreads may discard the oldest outcome.                            *)
LEMMA CheckThreadsTypes ==
  ASSUME TypeInv, CheckThreads
  PROVE  TypeInv'
<1>1. WatchTypes'
  <2>1. /\ watchWait' = watchWait \/ watchWait' = WatchRetryTicks
        /\ watching' = watching \/ watching' = TRUE
        /\ UNCHANGED events
    BY DEF CheckThreads
  <2>2. watchWait' \in 0..WatchRetryTicks
    BY <2>1, ConstantTypes DEF TypeInv, WatchTypes
  <2>3. watching' \in BOOLEAN
    BY <2>1, Zenon DEF TypeInv, WatchTypes
  <2>4. QED
    BY <2>1, <2>2, <2>3, Zenon DEF TypeInv, WatchTypes
<1>2. ChannelInv'
  <2>1. CASE outcomes = <<>>
    <3>1. UNCHANGED channelVars
      BY <2>1 DEF CheckThreads, channelVars
    <3>2. QED
      BY <3>1, Untouched DEF TypeInv
  <2>2. CASE outcomes # <<>>
    <3>1. outcomes' = Tail(outcomes) /\ dropped' = dropped \cup {Head(outcomes).kind} /\ UNCHANGED queue
      BY <2>2 DEF CheckThreads
    <3>2. IsSeq(outcomes)
      BY DEF TypeInv, ChannelInv
    <3>3. /\ IsSeq(outcomes') /\ Len(outcomes) \in Nat \ {0}
          /\ DOMAIN outcomes' = 1..(Len(outcomes) - 1)
          /\ \A i \in 1..(Len(outcomes) - 1) : outcomes'[i] = outcomes[i + 1]
          /\ Head(outcomes) = outcomes[1] /\ DOMAIN outcomes = 1..Len(outcomes)
      BY <2>2, <3>1, <3>2, TailIsSeq, SeqFacts
    <3>4. \A i \in 1..(Len(outcomes) - 1) : i + 1 \in DOMAIN outcomes
      BY <3>3
    <3>5. 1 \in DOMAIN outcomes
      BY <3>3
    <3>6. \A i \in DOMAIN outcomes :
            outcomes[i].kind \in Kinds \ {"clear"} /\ outcomes[i].ok \in BOOLEAN
      BY DEF TypeInv, ChannelInv, ChannelTypes
    <3>7. \A i \in DOMAIN outcomes' :
            outcomes'[i].kind \in Kinds \ {"clear"} /\ outcomes'[i].ok \in BOOLEAN
      <4>1. \A i \in DOMAIN outcomes' : i + 1 \in DOMAIN outcomes /\ outcomes'[i] = outcomes[i + 1]
        BY <3>3, <3>4
      <4>2. QED
        BY <3>6, <4>1, Zenon
    <3>8. dropped' \subseteq Kinds
      BY <3>1, <3>3, <3>5, <3>6 DEF TypeInv, ChannelInv, ChannelTypes
    <3>9. QED
      BY <3>1, <3>3, <3>7, <3>8 DEF TypeInv, ChannelInv, ChannelTypes, IsSeq
  <2>3. QED
    BY <2>1, <2>2
<1>3. pc' \in {"sample", "resend"}
  BY DEF CheckThreads
<1>4. QED
  BY <1>1, <1>2, <1>3, Untouched DEF CheckThreads, TypeInv, LoopTypes, machineVars

(* ResendV6 sends v6_pending or keeps it.                                  *)
LEMMA ResendV6Types ==
  ASSUME TypeInv, ResendV6
  PROVE  TypeInv'
<1>1. SentTypes'
  BY Singletons DEF ResendV6, TypeInv, SentTypes
<1>2. ChannelInv'
  BY SendKeeps DEF ResendV6, ChannelInv, ChannelTypes, Kinds, Routed, TypeInv
<1>9. QED
  BY <1>1, <1>2, Untouched, DaemonAssumption
     DEF ResendV6, TypeInv, LoopTypes, channelVars, machineVars

(* Sample changes verdicts, indexes and ages together.                     *)
LEMMA SampleTypes ==
  ASSUME TypeInv, Sample
  PROVE  TypeInv'
<1>1. PICK h \in [Lines -> Healths], w \in 0..1, local \in BOOLEAN :
        /\ changes' = IF h # health \/ w # weights \/ local THEN changes + 1 ELSE changes
        /\ changes' <= MaxChanges
        /\ health' = h /\ weights' = w
        /\ \A l \in Lines : since'[l] \in {0, Never, since[l]}
        /\ since' = [l \in Lines |-> since'[l]]
        /\ \A l \in Lines : lastDown'[l] \in {0, lastDown[l]}
        /\ lastDown' = [l \in Lines |-> lastDown'[l]]
        /\ flushed' \subseteq flushed
        /\ dirty' \subseteq dirty \cup {"weights", "probe"}
        /\ sessions' \subseteq sessions \cup Lines
  BY DEF Sample
<1>2. /\ ifindex' = Refreshed /\ switched' = {}
      /\ pc' = "apply"
      /\ UNCHANGED <<clock, resilient, lastFlush, lastActive, v6Pending, lastRules, inflight, wait,
                     watchVars, channelVars, workerVars, deviceVars>>
  BY DEF Sample, channelVars
<1>3. LineTypes'
  <2>1. ifindex' \in [Lines -> 0..MaxIndex]
    BY <1>2 DEF Refreshed, TypeInv, LineTypes, MachineTypes
  <2>2. \A l \in Lines : since'[l] \in Ages(QuietTicks) /\ lastDown'[l] \in Ages(QuietTicks)
    BY <1>1, AgeTypes, ConstantTypes DEF TypeInv, LineTypes
  <2>3. since' \in [Lines -> Ages(QuietTicks)] /\ lastDown' \in [Lines -> Ages(QuietTicks)]
    BY <1>1, <2>2
  <2>4. QED
    BY <1>1, <1>2, <2>1, <2>3 DEF TypeInv, LineTypes
<1>4. SentTypes'
  BY <1>1, <1>2 DEF TypeInv, SentTypes, Repeated
<1>5. MachineTypes'
  BY <1>1, <1>2, ConstantTypes DEF TypeInv, MachineTypes, deviceVars
<1>6. QED
  BY <1>1, <1>2, <1>3, <1>4, <1>5, Untouched DEF TypeInv, LoopTypes

(* SkipApply moves on.                                                     *)
LEMMA SkipApplyTypes ==
  ASSUME TypeInv, SkipApply
  PROVE  TypeInv'
<1>9. QED
  BY Untouched, DaemonAssumption DEF SkipApply, TypeInv, LoopTypes, channelVars, machineVars

(* QueueApply sends the routes of the active lines.                        *)
LEMMA QueueApplyTypes ==
  ASSUME TypeInv, QueueApply
  PROVE  TypeInv'
<1>1. SentTypes'
  BY ArgTypes, Singletons DEF QueueApply, TypeInv, SentTypes, Repeated
<1>2. ChannelInv'
  <2>1. Room /\ Send("v4", RoutesOf(Active)) /\ UNCHANGED <<outcomes, dropped>>
    BY DEF QueueApply
  <2>2. "v4" \in Kinds
    BY DEF Kinds, Repeated
  <2>3. QED
    BY <2>1, <2>2, SendKeeps DEF ChannelInv, ChannelTypes, TypeInv, IsSeq
<1>9. QED
  BY <1>1, <1>2, Untouched DEF QueueApply, TypeInv, LoopTypes, channelVars, machineVars

(* ApplyRefused asks for the probe paths.                                  *)
LEMMA ApplyRefusedTypes ==
  ASSUME TypeInv, ApplyRefused
  PROVE  TypeInv'
<1>1. SentTypes'
  BY DEF ApplyRefused, TypeInv, SentTypes, Repeated
<1>9. QED
  BY <1>1, Untouched, DaemonAssumption
     DEF ApplyRefused, TypeInv, LoopTypes, channelVars, machineVars

(* QueueApplyV6 sends the IPv6 routes or keeps them.                       *)
LEMMA QueueApplyV6Types ==
  ASSUME TypeInv, QueueApplyV6
  PROVE  TypeInv'
<1>1. SentTypes'
  BY Singletons DEF QueueApplyV6, TypeInv, SentTypes
<1>2. ChannelInv'
  BY SendKeeps DEF QueueApplyV6, ChannelInv, ChannelTypes, Kinds, Routed, TypeInv
<1>9. QED
  BY <1>1, <1>2, Untouched, DaemonAssumption
     DEF QueueApplyV6, TypeInv, LoopTypes, channelVars, machineVars

(* QueueProbePaths sends paths or leaves the kind dirty.                   *)
LEMMA QueueProbePathsTypes ==
  ASSUME TypeInv, QueueProbePaths
  PROVE  TypeInv'
<1>1. SentTypes'
  BY DEF QueueProbePaths, TypeInv, SentTypes, Due, Repeated
<1>2. ChannelInv'
  BY SendKeeps, ArgTypes DEF QueueProbePaths, ChannelInv, ChannelTypes, Kinds, Repeated, TypeInv
<1>9. QED
  BY <1>1, <1>2, Untouched, DaemonAssumption
     DEF QueueProbePaths, TypeInv, LoopTypes, channelVars, machineVars

(* QueuePolicies sends rules of known policies.                            *)
LEMMA QueuePoliciesTypes ==
  ASSUME TypeInv, QueuePolicies
  PROVE  TypeInv'
<1>1. SentTypes'
  BY Singletons DEF QueuePolicies, TypeInv, SentTypes, Due, Repeated
<1>2. ChannelInv'
  BY SendKeeps, ArgTypes DEF QueuePolicies, ChannelInv, ChannelTypes, Kinds, Repeated, TypeInv
<1>9. QED
  BY <1>1, <1>2, Untouched, DaemonAssumption
     DEF QueuePolicies, TypeInv, LoopTypes, channelVars, machineVars

(* QueueFlush sends lines.                                                 *)
LEMMA QueueFlushTypes ==
  ASSUME TypeInv, QueueFlush
  PROVE  TypeInv'
<1>1. LineTypes'
  <2>1. \A l \in Lines : lastFlush[l] \in Ages(FlushInterval) /\ 0 \in Ages(FlushInterval)
    BY AgeTypes, ConstantTypes DEF TypeInv, LineTypes
  <2>2. lastFlush' \in [Lines -> Ages(FlushInterval)]
    BY <2>1 DEF QueueFlush, TypeInv, LineTypes
  <2>3. flushed' \subseteq Lines
    BY ArgTypes DEF QueueFlush, TypeInv, LineTypes
  <2>4. UNCHANGED <<health, ifindex, since, lastDown>>
    BY DEF QueueFlush
  <2>5. QED
    BY <2>2, <2>3, <2>4 DEF TypeInv, LineTypes
<1>2. ChannelInv'
  BY SendKeeps, ArgTypes DEF QueueFlush, ChannelInv, ChannelTypes, Kinds, TypeInv
<1>9. QED
  BY <1>1, <1>2, Untouched DEF QueueFlush, TypeInv, LoopTypes, channelVars, machineVars

(* ReadEvents resolves interfaces again.                                   *)
LEMMA ReadEventsTypes ==
  ASSUME TypeInv, ReadEvents
  PROVE  TypeInv'
<1>1. LineTypes'
  BY DEF ReadEvents, LineTypes, MachineTypes, TypeInv
<1>2. SentTypes'
  BY DEF ReadEvents, TypeInv, SentTypes, Repeated
<1>3. WatchTypes'
  BY DEF ReadEvents, TypeInv, WatchTypes
<1>9. QED
  BY <1>1, <1>2, <1>3, Untouched, DaemonAssumption
     DEF ReadEvents, TypeInv, LoopTypes, channelVars, machineVars

(* LoseWatch starts the retry countdown.                                   *)
LEMMA LoseWatchTypes ==
  ASSUME TypeInv, LoseWatch
  PROVE  TypeInv'
<1>1. WatchTypes'
  <2>1. WatchRetryTicks \in 0..WatchRetryTicks
    BY ConstantTypes
  <2>2. QED
    BY <2>1 DEF LoseWatch, WatchTypes
<1>2. MachineTypes'
  BY ConstantTypes DEF LoseWatch, TypeInv, MachineTypes, deviceVars
<1>9. QED
  BY <1>1, <1>2, Untouched DEF LoseWatch, TypeInv, LoopTypes, channelVars

(* Terminate leaves the ticking.                                           *)
LEMMA TerminateTypes ==
  ASSUME TypeInv, Terminate
  PROVE  TypeInv'
<1>9. QED
  BY Untouched, DaemonAssumption DEF Terminate, TypeInv, LoopTypes, channelVars, machineVars

(* SendExit waits for room.                                                *)
LEMMA SendExitTypes ==
  ASSUME TypeInv, SendExit
  PROVE  TypeInv'
<1>1. ChannelInv'
  BY SendKeeps, ArgTypes DEF SendExit, ChannelInv, ChannelTypes, Kinds, Repeated, TypeInv
<1>9. QED
  BY <1>1, Untouched, DaemonAssumption
     DEF SendExit, TypeInv, LoopTypes, channelVars, machineVars

(* JoinWorker ends the loop only.                                          *)
LEMMA JoinWorkerTypes ==
  ASSUME TypeInv, JoinWorker
  PROVE  TypeInv'
<1>9. QED
  BY Untouched, DaemonAssumption DEF JoinWorker, TypeInv, LoopTypes, channelVars, machineVars

(* Receive moves the head of the queue into the batch.                     *)
LEMMA ReceiveTypes ==
  ASSUME TypeInv, Receive
  PROVE  TypeInv'
<1>3. IsSeq(queue) /\ queue # <<>> /\ queue' = Tail(queue)
  BY DEF TypeInv, ChannelInv, Receive
<1>4. /\ IsSeq(queue') /\ Len(queue) \in Nat \ {0} /\ Len(queue') = Len(queue) - 1
      /\ DOMAIN queue' = 1..(Len(queue) - 1)
      /\ \A i \in 1..(Len(queue) - 1) : queue'[i] = queue[i + 1]
      /\ Head(queue) = queue[1] /\ DOMAIN queue = 1..Len(queue)
  BY <1>3, TailIsSeq, SeqFacts
<1>5. 1 \in DOMAIN queue /\ \A i \in 1..(Len(queue) - 1) : i + 1 \in DOMAIN queue
  BY <1>4
<1>1. ChannelInv'
  <2>1. \A i \in DOMAIN queue' :
          /\ queue'[i].kind \in Kinds
          /\ queue'[i].kind = "policies" => queue'[i].arg \subseteq Rules
          /\ queue'[i].kind = "flush" => queue'[i].arg \subseteq Lines
          /\ queue'[i].kind = "probe" => queue'[i].arg \in Indexes
    BY <1>4, <1>5 DEF TypeInv, ChannelInv, ChannelTypes
  <2>2. Len(queue') <= QueueCapacity
    BY <1>4, ConstantTypes DEF TypeInv, ChannelInv, ChannelTypes
  <2>3. UNCHANGED <<outcomes, dropped>>
    BY DEF Receive
  <2>4. QED
    BY <1>4, <2>1, <2>2, <2>3 DEF TypeInv, ChannelInv, ChannelTypes, IsSeq
<1>2. WorkerInv'
  <2> DEFINE c == queue[1]
  <2>1. /\ c.kind \in Kinds
        /\ c.kind = "policies" => c.arg \subseteq Rules
        /\ c.kind = "flush" => c.arg \subseteq Lines
        /\ c.kind = "probe" => c.arg \in Indexes
    BY <1>5 DEF TypeInv, ChannelInv, ChannelTypes
  <2>2. batch' = IF c.kind = "flush" THEN [batch EXCEPT !["flush"] = @ \cup c.arg]
                                     ELSE [batch EXCEPT ![c.kind] = {c.arg}]
    BY <1>4 DEF Receive, Merge
  <2> HIDE DEF c
  <2>3. /\ DOMAIN batch' = Kinds
        /\ batch'["policies"] \subseteq SUBSET Rules /\ batch'["flush"] \subseteq Lines
        /\ batch'["probe"] \subseteq Indexes
    BY <2>1, <2>2 DEF TypeInv, WorkerInv, WorkerTypes
  <2>4. UNCHANGED <<worker, rules, kernel, kernelRules, failures>>
    BY DEF Receive
  <2>5. QED
    BY <2>3, <2>4 DEF TypeInv, WorkerInv, WorkerTypes
<1>6. QED
  BY <1>1, <1>2, Untouched DEF Receive, TypeInv, LoopTypes, machineVars

(* StartBatch changes the worker's phase only.                             *)
LEMMA StartBatchTypes ==
  ASSUME TypeInv, StartBatch
  PROVE  TypeInv'
<1>1. WorkerInv'
  BY DEF StartBatch, TypeInv, WorkerInv, WorkerTypes
<1>9. QED
  BY <1>1, Untouched, DaemonAssumption
     DEF StartBatch, TypeInv, LoopTypes, channelVars, machineVars

(* WorkerEnds changes the worker's phase only.                             *)
LEMMA WorkerEndsTypes ==
  ASSUME TypeInv, WorkerEnds
  PROVE  TypeInv'
<1>1. WorkerInv'
  BY DEF WorkerEnds, TypeInv, WorkerInv, WorkerTypes
<1>9. QED
  BY <1>1, Untouched, DaemonAssumption
     DEF WorkerEnds, TypeInv, LoopTypes, channelVars, machineVars

(* RunRoutes reports a variant.                                            *)
LEMMA RunRoutesTypes ==
  ASSUME TypeInv, NEW k \in Routed, RunRoutes(k)
  PROVE  TypeInv'
<1>1. ChannelInv'
  BY ExecutedKeeps DEF RunRoutes, TypeInv, ChannelInv, ChannelTypes, Kinds, Repeated, Routed
<1>2. WorkerInv'
  BY ExecutedKeeps DEF RunRoutes, TypeInv, WorkerInv, WorkerTypes, Turn, Kinds, Repeated, Routed
<1>9. QED
  BY <1>1, <1>2, Untouched, DaemonAssumption
     DEF RunRoutes, TypeInv, LoopTypes, channelVars, machineVars

(* RunRoutesFails may count a failure.                                     *)
LEMMA RunRoutesFailsTypes ==
  ASSUME TypeInv, NEW k \in Routed, RunRoutesFails(k)
  PROVE  TypeInv'
<1>1. k \in Kinds \ {"clear"}
  BY DEF Routed, Kinds, Repeated
<1>2. Executed(k, FALSE, "none") /\ DOMAIN kernel' = DOMAIN kernel
  BY DEF RunRoutesFails
<1>3. failures' = failures \/ (MayFail(k) /\ failures' = failures + 1)
  BY DEF RunRoutesFails
<1>4. ChannelInv'
  BY ExecutedKeeps
     DEF RunRoutesFails, TypeInv, ChannelInv, ChannelTypes, Kinds, Repeated, Routed
<1>5. WorkerInv'
  <2>1. failures' \in 0..MaxFailures
    BY <1>3, FailureType DEF TypeInv, WorkerInv, WorkerTypes
  <2>2. UNCHANGED <<rules, kernelRules>>
    BY DEF RunRoutesFails
  <2>3. QED
    BY <1>1, <1>2, <2>1, <2>2, ExecutedKeeps DEF TypeInv, WorkerInv, WorkerTypes
<1>6. QED
  BY <1>4, <1>5, Untouched DEF RunRoutesFails, TypeInv, LoopTypes, machineVars

(* set_probe_paths keeps every path well-formed.                           *)
LEMMA SetProbePathsTypes ==
  ASSUME TypeInv, NEW wanted \in Indexes, NEW hurt \in SUBSET Lines,
         SetProbePaths(wanted, hurt)
  PROVE  PathTypes'
<1>1. ASSUME NEW l \in Lines
      PROVE  /\ Installed(l, wanted[l]) \in PathStates
             /\ Halves(l, wanted[l]) \subseteq PathStates
  <2>1. wanted[l] \in 0..MaxIndex /\ Gone \in 0..MaxIndex
    BY ConstantTypes DEF Indexes, Gone
  <2>2. path[l] \in PathStates /\ NoPath \in PathStates
    BY <2>1 DEF TypeInv, PathTypes, PathStates, NoPath
  <2>3. Cleared(l, wanted[l]) \in PathStates
    BY <2>2 DEF Cleared
  <2>4. Installed(l, wanted[l]) \in PathStates
    BY <2>1, <2>3 DEF Installed, PathStates
  <2>5. HalfRemoved(l, wanted[l]) \subseteq PathStates
    BY <2>1, <2>2 DEF HalfRemoved, PathStates
  <2>6. HalfInstalled(l, wanted[l]) \subseteq PathStates
    BY <2>1, <2>3 DEF HalfInstalled, PathStates
  <2>7. QED
    BY <2>4, <2>5, <2>6 DEF Halves
<1>2. PICK left \in [hurt -> UNION {Halves(l, wanted[l]) : l \in hurt}] :
        /\ \A l \in hurt : left[l] \in Halves(l, wanted[l])
        /\ path' = [l \in Lines |-> IF l \in hurt THEN left[l] ELSE Installed(l, wanted[l])]
  BY DEF SetProbePaths
<1>3. \A l \in Lines : path'[l] \in PathStates
  BY <1>1, <1>2
<1>4. path' \in [Lines -> PathStates]
  BY <1>2, <1>3
<1>5. halfway' \subseteq Lines
  BY DEF SetProbePaths
<1>6. QED
  BY <1>4, <1>5 DEF PathTypes

(* RunProbePaths may count a failure.                                      *)
LEMMA RunProbePathsTypes ==
  ASSUME TypeInv, RunProbePaths
  PROVE  TypeInv'
<1>1. PICK wanted \in batch["probe"] : \E hurt \in SUBSET Lines :
        /\ failures' = failures \/ (MayFail("probe") /\ failures' = failures + 1)
        /\ SetProbePaths(wanted, hurt)
        /\ \E ok \in BOOLEAN : Executed("probe", ok, "none")
  <2>1. PICK wanted \in batch["probe"] : \E hurt \in SUBSET Lines :
          /\ failures' = failures \/ (MayFail("probe") /\ failures' = failures + 1)
          /\ SetProbePaths(wanted, hurt)
          /\ Executed("probe", hurt = {} /\ \A l \in Lines : wanted[l] \in {Gone, device[l]},
                      "none")
    BY DEF RunProbePaths
  <2>2. QED
    BY <2>1
<1>2. PICK hurt \in SUBSET Lines :
        /\ failures' = failures \/ (MayFail("probe") /\ failures' = failures + 1)
        /\ SetProbePaths(wanted, hurt)
        /\ \E ok \in BOOLEAN : Executed("probe", ok, "none")
  BY <1>1
<1>3. PICK ok \in BOOLEAN : Executed("probe", ok, "none")
  BY <1>2
<1>4. "probe" \in Kinds \ {"clear"} /\ wanted \in Indexes
  BY DEF Kinds, Repeated, TypeInv, WorkerInv
<1>5. ChannelInv'
  BY <1>3, <1>4, ExecutedKeeps DEF RunProbePaths, TypeInv, ChannelInv, ChannelTypes, IsSeq
<1>6. WorkerInv'
  <2>1. failures' \in 0..MaxFailures
    BY <1>2, FailureType DEF TypeInv, WorkerInv, WorkerTypes
  <2>2. UNCHANGED <<rules, kernel, kernelRules>>
    BY DEF RunProbePaths
  <2>3. QED
    BY <1>3, <1>4, <2>1, <2>2, ExecutedKeeps DEF TypeInv, WorkerInv, WorkerTypes
<1>7. PathTypes'
  BY <1>2, <1>4, SetProbePathsTypes
<1>8. QED
  BY <1>5, <1>6, <1>7, Untouched DEF RunProbePaths, TypeInv, LoopTypes, machineVars

(* RunPolicies installs and records rules of the batch only.               *)
LEMMA RunPoliciesTypes ==
  ASSUME TypeInv, RunPolicies
  PROVE  TypeInv'
<1>1. PICK wanted \in batch["policies"] :
        \E failed \in SUBSET ((rules \ wanted) \cup (wanted \ rules)) :
          /\ failures' = failures \/ (MayFail("policies") /\ failures' = failures + 1)
          /\ rules' \subseteq rules \cup wanted
          /\ kernelRules' \subseteq kernelRules \cup wanted
          /\ Executed("policies", failed = {}, "none")
  BY DEF RunPolicies
<1>2. "policies" \in Kinds \ {"clear"}
  BY DEF Kinds, Repeated
<1>3. PICK ok \in BOOLEAN : Executed("policies", ok, "none")
  BY <1>1
<1>4. ChannelInv'
  BY <1>2, <1>3, ExecutedKeeps DEF RunPolicies, TypeInv, ChannelInv, ChannelTypes, IsSeq
<1>5. WorkerInv'
  <2>1. wanted \subseteq Rules
    BY DEF TypeInv, WorkerInv
  <2>2. rules' \subseteq Rules /\ kernelRules' \subseteq Rules
    BY <1>1, <2>1 DEF TypeInv, WorkerInv, WorkerTypes
  <2>3. failures' \in 0..MaxFailures
    BY <1>1, FailureType DEF TypeInv, WorkerInv, WorkerTypes
  <2>4. UNCHANGED kernel
    BY DEF RunPolicies
  <2>5. QED
    BY <1>2, <1>3, <2>2, <2>3, <2>4, ExecutedKeeps DEF TypeInv, WorkerInv, WorkerTypes
<1>6. QED
  BY <1>4, <1>5, Untouched DEF RunPolicies, TypeInv, LoopTypes, machineVars

(* RunFlush removes sessions.                                              *)
LEMMA RunFlushTypes ==
  ASSUME TypeInv, RunFlush
  PROVE  TypeInv'
<1>1. PICK ok \in BOOLEAN : Executed("flush", ok, "none")
  BY DEF RunFlush
<1>2. failures' = failures \/ (MayFail("flush") /\ failures' = failures + 1)
  BY DEF RunFlush
<1>3. "flush" \in Kinds \ {"clear"}
  BY DEF Kinds, Repeated
<1>4. ChannelInv'
  BY <1>1, <1>3, ExecutedKeeps DEF RunFlush, TypeInv, ChannelInv, ChannelTypes, IsSeq
<1>5. WorkerInv'
  <2>1. failures' \in 0..MaxFailures
    BY <1>2, FailureType DEF TypeInv, WorkerInv, WorkerTypes
  <2>2. UNCHANGED <<rules, kernel, kernelRules>>
    BY DEF RunFlush
  <2>3. QED
    BY <1>1, <1>3, <2>1, <2>2, ExecutedKeeps DEF TypeInv, WorkerInv, WorkerTypes
<1>6. MachineTypes'
  BY DEF RunFlush, TypeInv, MachineTypes, deviceVars
<1>7. QED
  BY <1>4, <1>5, <1>6, Untouched DEF RunFlush, TypeInv, LoopTypes

(* RunClear empties the batch.                                             *)
LEMMA RunClearTypes ==
  ASSUME TypeInv, RunClear
  PROVE  TypeInv'
<1>1. PICK left \in SUBSET Routed : \E hurt \in SUBSET Lines :
        /\ failures' = failures \/ (MayFail("clear") /\ failures' = failures + 1)
        /\ kernel' = [k \in Routed |-> IF k \in left THEN kernel[k] ELSE {}]
        /\ SetProbePaths(NoIndexes, hurt)
  BY DEF RunClear
<1>2. WorkerInv'
  <2>1. failures' \in 0..MaxFailures
    BY <1>1, FailureType DEF TypeInv, WorkerInv, WorkerTypes
  <2>2. kernelRules' \subseteq kernelRules /\ rules' = {} /\ batch' = NoBatch /\ worker' = "gone"
    BY DEF RunClear
  <2>3. DOMAIN kernel' = Routed
    BY <1>1
  <2>4. QED
    BY <2>1, <2>2, <2>3 DEF TypeInv, WorkerInv, WorkerTypes, NoBatch, Kinds, Repeated
<1>3. PathTypes'
  BY <1>1, ArgTypes, SetProbePathsTypes
<1>9. QED
  BY <1>2, <1>3, Untouched, DaemonAssumption
     DEF RunClear, TypeInv, LoopTypes, channelVars, machineVars

(* DeviceChanges hands out indexes up to the bound.                        *)
LEMMA DeviceChangesTypes ==
  ASSUME TypeInv, NEW l \in Lines, DeviceChanges(l)
  PROVE  TypeInv'
<1>1. WatchTypes'
  BY DEF DeviceChanges, TypeInv, WatchTypes
<1>2. WorkerInv'
  BY DEF DeviceChanges, TypeInv, WorkerInv, WorkerTypes
<1>4. PathTypes'
  <2>1. path' = [path EXCEPT ![l].table = Gone] \/ path' = path
    BY DEF DeviceChanges
  <2>2. halfway' = halfway
    BY DEF DeviceChanges
  <2>3. QED
    BY <2>1, <2>2, ConstantTypes DEF TypeInv, PathTypes, PathStates, Gone
<1>3. MachineTypes'
  <2>1. changes' \in 0..MaxChanges
    BY ConstantTypes DEF DeviceChanges, TypeInv, MachineTypes
  <2>2. fresh' \in 0..MaxIndex
    BY ConstantTypes DEF DeviceChanges, TypeInv, MachineTypes
  <2>3. device' \in [Lines -> 0..MaxIndex]
    BY ConstantTypes DEF DeviceChanges, TypeInv, MachineTypes, Gone
  <2>4. QED
    BY <2>1, <2>2, <2>3 DEF DeviceChanges, TypeInv, MachineTypes
<1>9. QED
  BY <1>1, <1>2, <1>3, <1>4, Untouched DEF DeviceChanges, TypeInv, LoopTypes, channelVars

(* RoutesTaken changes what the kernel holds only.                         *)
LEMMA RoutesTakenTypes ==
  ASSUME TypeInv, NEW k \in Routed, RoutesTaken(k)
  PROVE  TypeInv'
<1>1. WorkerInv'
  BY DEF RoutesTaken, TypeInv, WorkerInv, WorkerTypes
<1>2. MachineTypes'
  BY DaemonAssumption DEF RoutesTaken, TypeInv, MachineTypes, deviceVars
<1>9. QED
  BY <1>1, <1>2, Untouched, DaemonAssumption
     DEF RoutesTaken, TypeInv, LoopTypes, channelVars, machineVars

(* PathTaken changes a path in the kernel only.                            *)
LEMMA PathTakenTypes ==
  ASSUME TypeInv, NEW l \in Lines, PathTaken(l)
  PROVE  TypeInv'
<1>1. WorkerInv'
  BY DEF PathTaken, TypeInv, WorkerInv, WorkerTypes
<1>2. PathTypes'
  <2>1. path \in [Lines -> PathStates] /\ halfway \subseteq Lines
    BY DEF TypeInv, PathTypes
  <2>2. halfway' = halfway
    BY DEF PathTaken
  <2>3. path[l] \in PathStates /\ Gone \in 0..MaxIndex
    BY <2>1, ConstantTypes DEF Gone
  <2>4. [path[l] EXCEPT !.rule = FALSE] \in PathStates
    BY <2>3 DEF PathStates
  <2>5. [path[l] EXCEPT !.table = Gone] \in PathStates
    BY <2>3 DEF PathStates
  <2>6. CASE path' = [path EXCEPT ![l].rule = FALSE]
    BY <2>1, <2>2, <2>4, <2>6 DEF PathTypes
  <2>7. CASE path' = [path EXCEPT ![l].table = Gone]
    BY <2>1, <2>2, <2>5, <2>7 DEF PathTypes
  <2>8. QED
    BY <2>6, <2>7 DEF PathTaken
<1>3. MachineTypes'
  <2>1. changes' \in 0..MaxChanges
    BY ConstantTypes DEF PathTaken, TypeInv, MachineTypes
  <2>2. UNCHANGED <<sessions, device, fresh>>
    BY DEF PathTaken, deviceVars
  <2>3. QED
    BY <2>1, <2>2 DEF TypeInv, MachineTypes
<1>9. QED
  BY <1>1, <1>2, <1>3, Untouched, DaemonAssumption
     DEF PathTaken, TypeInv, LoopTypes, channelVars, machineVars

(* RuleTaken only removes a rule.                                          *)
LEMMA RuleTakenTypes ==
  ASSUME TypeInv, NEW r \in kernelRules, RuleTaken(r)
  PROVE  TypeInv'
<1>1. WorkerInv'
  BY DEF RuleTaken, TypeInv, WorkerInv, WorkerTypes
<1>2. MachineTypes'
  BY DaemonAssumption DEF RuleTaken, TypeInv, MachineTypes, deviceVars
<1>9. QED
  BY <1>1, <1>2, Untouched, DaemonAssumption
     DEF RuleTaken, TypeInv, LoopTypes, channelVars, machineVars

(* Every step keeps the invariant.                                         *)
LEMMA TypeStep ==
  ASSUME TypeInv, [Next]_vars
  PROVE  TypeInv'
<1>1. CASE UNCHANGED vars
  BY <1>1, Untouched DEF vars, TypeInv, LoopTypes, channelVars, machineVars
<1>2. CASE Tick
  BY <1>2, TickBeginTypes, CheckThreadsTypes, ResendV6Types, SampleTypes, SkipApplyTypes,
     QueueApplyTypes, ApplyRefusedTypes, QueueApplyV6Types, QueueProbePathsTypes,
     QueuePoliciesTypes, QueueFlushTypes DEF Tick
<1>3. CASE ReadEvents \/ LoseWatch \/ Exit
  BY <1>3, ReadEventsTypes, LoseWatchTypes, TerminateTypes, SendExitTypes, JoinWorkerTypes DEF Exit
<1>4. CASE Work
  BY <1>4, ReceiveTypes, StartBatchTypes, WorkerEndsTypes, RunRoutesTypes, RunRoutesFailsTypes,
     RunProbePathsTypes, RunPoliciesTypes, RunFlushTypes, RunClearTypes DEF Work
<1>5. CASE Machine
  BY <1>5, DeviceChangesTypes, RoutesTakenTypes, PathTakenTypes, RuleTakenTypes DEF Machine
<1>6. QED
  BY <1>1, <1>2, <1>3, <1>4, <1>5 DEF Next

(* The inductive invariant holds in every reachable state.                 *)
THEOREM TypeInvariant == Spec => []TypeInv
<1>1. TypeInv /\ [Next]_vars => TypeInv'
  BY TypeStep
<1>2. QED
  BY <1>1, TypeInit, PTL DEF Spec

(* Every variable keeps its type and its bound: in particular the queue    *)
(* never exceeds its capacity, though the loop sends from seven places.    *)
THEOREM TypesAreKept == Spec => []TypeOK
<1>1. TypeInv => TypeOK
  BY DEF TypeInv, TypeOK, LoopTypes, ChannelInv, WorkerInv
<1>2. QED
  BY <1>1, TypeInvariant, PTL

-----------------------------------------------------------------------------
(* The record of policy rules.                                             *)

(* Only set_policy_rules, cleanup_routes and other programs touch the      *)
(* rules or the record of them.                                            *)
LEMMA RulesUntouched ==
  ASSUME [Next]_vars, ~RunPolicies, ~RunClear,
         ~\E r \in kernelRules : RuleTaken(r)
  PROVE  /\ UNCHANGED <<rules, kernelRules>>
         /\ worker = "gone" => worker' = "gone"
<1> USE DEF vars, lineVars, sentVars, watchVars, workerVars, deviceVars
<1>1. CASE UNCHANGED vars
  BY <1>1
<1>2. CASE Tick
  BY <1>2 DEF Tick, TickBegin, CheckThreads, ResendV6, Sample, SkipApply, QueueApply,
              ApplyRefused, QueueApplyV6, QueueProbePaths, QueuePolicies, QueueFlush
<1>3. CASE ReadEvents \/ LoseWatch \/ Exit
  BY <1>3 DEF ReadEvents, LoseWatch, Exit, Terminate, SendExit, JoinWorker
<1>4. CASE Work
  BY <1>4 DEF Work, Receive, StartBatch, WorkerEnds, RunRoutes, RunRoutesFails,
              RunProbePaths, RunFlush, Turn
<1>5. CASE Machine
  BY <1>5 DEF Machine, DeviceChanges, RoutesTaken, PathTaken
<1>6. QED
  BY <1>1, <1>2, <1>3, <1>4, <1>5 DEF Next

(* set_policy_rules leaves no rule behind that is not recorded: a rule is  *)
(* recorded before it can be there, and stays recorded until it is gone.   *)
LEMMA PoliciesKeepRecord ==
  ASSUME RulesRecorded, RunPolicies
  PROVE  RulesRecorded'
<1>1. worker # "gone"
  BY DEF RunPolicies, Turn
<1>2. kernelRules \subseteq rules
  BY <1>1 DEF RulesRecorded
<1>3. PICK wanted \in batch["policies"] :
        \E failed \in SUBSET ((rules \ wanted) \cup (wanted \ rules)) :
          /\ rules' = (rules \ ((rules \ wanted) \ failed)) \cup ((wanted \ rules) \ failed)
          /\ kernelRules' = (kernelRules \ ((rules \ wanted) \ failed))
                            \cup ((wanted \ rules) \ failed)
  BY DEF RunPolicies
<1>4. QED
  BY <1>2, <1>3 DEF RulesRecorded

(* RouteManager's record of policy rules misses none that the daemon       *)
(* installed, whatever fails and whoever else deletes rules: the diff in   *)
(* set_policy_rules can always remove what a policy no longer wants.       *)
THEOREM RulesAreRecorded == Spec => []RulesRecorded
<1>1. Init => RulesRecorded
  BY DEF Init, RulesRecorded
<1>2. RulesRecorded /\ [Next]_vars => RulesRecorded'
  <2> SUFFICES ASSUME RulesRecorded, [Next]_vars PROVE RulesRecorded'
    OBVIOUS
  <2>1. CASE RunPolicies
    BY <2>1, PoliciesKeepRecord
  <2>2. CASE RunClear
    BY <2>2 DEF RunClear, RulesRecorded
  <2>3. ASSUME NEW r \in kernelRules, RuleTaken(r)
        PROVE  RulesRecorded'
    BY <2>3 DEF RuleTaken, RulesRecorded
  <2>4. CASE ~RunPolicies /\ ~RunClear /\ ~\E r \in kernelRules : RuleTaken(r)
    BY <2>4, RulesUntouched DEF RulesRecorded
  <2>5. QED
    BY <2>1, <2>2, <2>3, <2>4
<1>3. QED
  BY <1>1, <1>2, PTL DEF Spec
=============================================================================
