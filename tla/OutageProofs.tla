---------------------------- MODULE OutageProofs ----------------------------
(***************************************************************************)
(* What the conntrack flushes promise over several ticks, for every quiet  *)
(* period, flush interval and queue capacity.                              *)
(***************************************************************************)
EXTENDS WanDaemonHistory, WanDaemonProofs

(* Between the start of a tick and its samples, last_down_at is one tick   *)
(* ahead of the history.                                                   *)
Ageing == pc \in {"check", "resend", "sample"}

Quiet(age) == age = Never \/ age >= QuietTicks

(* down_since and last_down_at tell when a line fell.                      *)
AgesExact ==
  \A l \in Lines :
    /\ lastDown[l] = IF Ageing THEN Older(fellAgo[l], QuietTicks) ELSE fellAgo[l]
    /\ since[l] # Never => since[l] = lastDown[l]

(* A line collected for flush-on-switch is UP, and so was it all through   *)
(* the quiet period, until the next samples replace the collection.        *)
SwitchedQuiet == \A l \in switched : l \in Lines /\ health[l] # "down" /\ Quiet(lastDown[l])

(* A line whose present outage has been flushed is DOWN, and marked.       *)
AskedMarked == \A l \in asked : l \in Lines /\ health[l] = "down" /\ l \in flushed

HistoryTypes ==
  /\ fellAgo \in [Lines -> Ages(QuietTicks)]
  /\ QuietTicks \in Nat

OutageInv == TypeInv /\ HistoryTypes /\ AgesExact /\ SwitchedQuiet /\ AskedMarked

(* A step that neither samples, nor starts a tick, nor sends a flush leaves *)
(* the history alone.                                                      *)
LEMMA OutageKept ==
  ASSUME OutageInv, HNext, TypeInv',
         UNCHANGED <<health, since, lastDown, flushed>>,
         UNCHANGED switched \/ switched' = {},
         ~Sampled, pc' # "check" \/ pc = "check",
         pc = "flush" => pc' = "flush" /\ ~(Len(queue') > Len(queue)),
         Ageing' = Ageing
  PROVE  OutageInv'
<1>1. UNCHANGED fellAgo
  BY DEF HNext
<1>2. asked' = asked
  <2>1. ~ReadFlushFailure
    BY DEF ReadFlushFailure
  <2>2. \A l \in Lines : ~FlushSent(l) /\ ~Rose(l)
    BY DEF FlushSent, Rose
  <2>3. asked' = (asked \cup {l \in Lines : FlushSent(l) /\ health[l] = "down"})
                   \ {l \in Lines : Rose(l)}
    BY <2>1 DEF HNext
  <2>4. QED
    BY <2>2, <2>3
<1>3. HistoryTypes'
  BY <1>1 DEF OutageInv, HistoryTypes
<1>4. AgesExact'
  BY <1>1 DEF OutageInv, AgesExact, Older
<1>5. SwitchedQuiet'
  BY DEF OutageInv, SwitchedQuiet, Quiet
<1>6. AskedMarked'
  BY <1>2 DEF OutageInv, AskedMarked
<1>7. QED
  BY <1>3, <1>4, <1>5, <1>6 DEF OutageInv

(* An age in its range, one tick later.                                    *)
LEMMA OlderFacts ==
  ASSUME HistoryTypes, NEW age \in Ages(QuietTicks)
  PROVE  /\ Older(age, QuietTicks) \in Ages(QuietTicks)
         /\ Quiet(age) => Quiet(Older(age, QuietTicks))
         /\ age # Never => Older(age, QuietTicks) # Never
BY DEF HistoryTypes, Older, Quiet, Ages, Never

(* A tick starts: the ages advance, and after a failed flush nothing is    *)
(* known to have been flushed.                                             *)
LEMMA TickBeginOutage ==
  ASSUME OutageInv, HNext, TickBegin, TypeInv'
  PROVE  OutageInv'
<1>1. /\ pc = "idle" /\ pc' = "check" /\ UNCHANGED <<health, switched>>
      /\ since' = [l \in Lines |-> Older(since[l], QuietTicks)]
      /\ lastDown' = [l \in Lines |-> Older(lastDown[l], QuietTicks)]
      /\ flushed' = IF "flush" \in FailedKinds THEN {l \in flushed : since[l] = Never} ELSE flushed
  BY DEF TickBegin
<1>2. UNCHANGED fellAgo
  BY <1>1 DEF HNext, Sampled
<1>3. HistoryTypes'
  BY <1>2 DEF OutageInv, HistoryTypes
<1>4. \A l \in Lines : since[l] \in Ages(QuietTicks) /\ lastDown[l] \in Ages(QuietTicks)
  BY DEF OutageInv, TypeInv, LineTypes
<1>5. AgesExact'
  <2> SUFFICES ASSUME NEW l \in Lines
               PROVE  /\ lastDown'[l] = Older(fellAgo[l], QuietTicks)
                      /\ since'[l] # Never => since'[l] = lastDown'[l]
    BY <1>1, <1>2 DEF AgesExact, Ageing, Older
  <2>1. lastDown[l] = fellAgo[l] /\ (since[l] # Never => since[l] = lastDown[l])
    BY <1>1 DEF OutageInv, AgesExact, Ageing
  <2>2. since[l] = Never => since'[l] = Never
    BY <1>1 DEF Older
  <2>3. QED
    BY <1>1, <2>1, <2>2
<1>6. SwitchedQuiet'
  <2> SUFFICES ASSUME NEW l \in switched
               PROVE  l \in Lines /\ health[l] # "down" /\ Quiet(lastDown'[l])
    BY <1>1 DEF SwitchedQuiet, Quiet
  <2>1. l \in Lines /\ health[l] # "down" /\ Quiet(lastDown[l])
    BY DEF OutageInv, SwitchedQuiet
  <2>2. QED
    BY <1>1, <1>4, <2>1, OlderFacts DEF OutageInv
<1>7. AskedMarked'
  <2>1. CASE "flush" \in FailedKinds
    BY <1>1, <2>1 DEF HNext, ReadFlushFailure, AskedMarked
  <2>2. CASE "flush" \notin FailedKinds
    <3>1. \A l \in Lines : ~FlushSent(l) /\ ~Rose(l)
      BY <1>1 DEF FlushSent, Rose
    <3>2. asked' = (asked \cup {l \in Lines : FlushSent(l) /\ health[l] = "down"})
                     \ {l \in Lines : Rose(l)}
      BY <2>2 DEF HNext, ReadFlushFailure
    <3>3. asked' = asked
      BY <3>1, <3>2
    <3>4. QED
      BY <1>1, <2>2, <3>3 DEF OutageInv, AskedMarked
  <2>3. QED
    BY <2>1, <2>2
<1>8. QED
  BY <1>3, <1>5, <1>6, <1>7 DEF OutageInv

(* The samples of a tick: a line that falls starts an outage, a line that  *)
(* rises ends it.                                                          *)
LEMMA SampleOutage ==
  ASSUME OutageInv, HNext, Sample, TypeInv'
  PROVE  OutageInv'
<1>1. PICK h \in [Lines -> Healths] :
        LET fell == {l \in Lines : health[l] # "down" /\ h[l] = "down"}
            rose == {l \in Lines : health[l] = "down" /\ h[l] # "down"}
        IN /\ health' = h
           /\ since' = [l \in Lines |-> IF l \in fell THEN 0
                                        ELSE IF l \in rose THEN Never ELSE since[l]]
           /\ lastDown' = [l \in Lines |-> IF l \in fell THEN 0 ELSE lastDown[l]]
           /\ flushed' = flushed \ rose
  BY DEF Sample
<1>2. pc = "sample" /\ pc' = "apply" /\ switched' = {}
  BY DEF Sample
<1>3. /\ Sampled
      /\ fellAgo' = [l \in Lines |-> IF Fell(l) THEN 0 ELSE Older(fellAgo[l], QuietTicks)]
  BY <1>2 DEF HNext, Sampled
<1>4. \A l \in Lines : fellAgo[l] \in Ages(QuietTicks) /\ 0 \in Ages(QuietTicks)
  BY DEF OutageInv, HistoryTypes, Ages
<1>5. HistoryTypes'
  <2>1. \A l \in Lines : Older(fellAgo[l], QuietTicks) \in Ages(QuietTicks)
    BY <1>4, OlderFacts DEF OutageInv
  <2>2. QED
    BY <1>3, <1>4, <2>1 DEF OutageInv, HistoryTypes
<1>6. AgesExact'
  <2> SUFFICES ASSUME NEW l \in Lines
               PROVE  /\ lastDown'[l] = fellAgo'[l]
                      /\ since'[l] # Never => since'[l] = lastDown'[l]
    BY <1>2 DEF AgesExact, Ageing
  <2>1. lastDown[l] = Older(fellAgo[l], QuietTicks) /\ (since[l] # Never => since[l] = lastDown[l])
    BY <1>2 DEF OutageInv, AgesExact, Ageing
  <2>2. QED
    BY <1>1, <1>3, <2>1 DEF Fell
<1>7. SwitchedQuiet'
  BY <1>2 DEF SwitchedQuiet
<1>8. AskedMarked'
  <2>1. ~ReadFlushFailure /\ \A l \in Lines : ~FlushSent(l)
    BY <1>2 DEF ReadFlushFailure, FlushSent
  <2>2. asked' = (asked \cup {l \in Lines : FlushSent(l) /\ health[l] = "down"})
                   \ {l \in Lines : Rose(l)}
    BY <2>1 DEF HNext
  <2>3. asked' = asked \ {l \in Lines : Rose(l)}
    BY <2>1, <2>2
  <2>4. QED
    BY <1>1, <2>3 DEF OutageInv, AskedMarked, Rose
<1>9. QED
  BY <1>5, <1>6, <1>7, <1>8 DEF OutageInv

(* The active lines are UP.                                                *)
LEMMA ActiveUp == \A l \in Active : l \in Lines /\ health[l] # "down"
BY DEF Active, Undegraded, Primary, UpLines

(* flush-on-switch collects lines that have been UP for the quiet period.  *)
LEMMA QueueApplyOutage ==
  ASSUME OutageInv, HNext, QueueApply, TypeInv'
  PROVE  OutageInv'
<1>1. /\ pc = "apply" /\ pc' \in {"probe", "apply6"}
      /\ UNCHANGED <<health, since, lastDown, flushed>>
      /\ switched' \subseteq NewMembers
  BY DEF QueueApply, lineVars
<1>2. UNCHANGED fellAgo
  BY <1>1 DEF HNext, Sampled
<1>3. ~ReadFlushFailure /\ \A l \in Lines : ~FlushSent(l) /\ ~Rose(l)
  BY <1>1 DEF ReadFlushFailure, FlushSent, Rose
<1>4. asked' = (asked \cup {l \in Lines : FlushSent(l) /\ health[l] = "down"})
                 \ {l \in Lines : Rose(l)}
  BY <1>3 DEF HNext
<1>5. asked' = asked
  BY <1>3, <1>4
<1>6. SwitchedQuiet'
  <2>1. \A l \in NewMembers : l \in Active /\ Quiet(lastDown[l])
    BY DEF NewMembers, Quiet
  <2>2. QED
    BY <1>1, <2>1, ActiveUp DEF SwitchedQuiet, Quiet
<1>7. AgesExact'
  BY <1>1, <1>2 DEF OutageInv, AgesExact, Ageing, Older
<1>8. HistoryTypes' /\ AskedMarked'
  BY <1>1, <1>2, <1>5 DEF OutageInv, HistoryTypes, AskedMarked
<1>9. QED
  BY <1>6, <1>7, <1>8 DEF OutageInv

(* What a flush names: a line that has been DOWN for the quiet period and  *)
(* is not marked, or one collected for flush-on-switch.                    *)
LEMMA TargetFacts ==
  ASSUME OutageInv, NEW l \in FlushTargets, pc = "flush"
  PROVE  /\ l \in Lines /\ Quiet(fellAgo[l])
         /\ health[l] = "down" => l \in LongDown /\ l \notin flushed
<1>1. /\ QuietTicks \in Nat
      /\ \A m \in Lines : fellAgo[m] = lastDown[m] /\ (since[m] # Never => since[m] = lastDown[m])
  BY DEF OutageInv, HistoryTypes, AgesExact, Ageing
<1>2. CASE l \in LongDown
  <2>1. l \in Lines \ flushed /\ since[l] >= QuietTicks
    BY <1>2 DEF LongDown
  <2>2. since[l] # Never
    BY <1>1, <2>1 DEF Never
  <2>3. QED
    BY <1>1, <1>2, <2>1, <2>2 DEF Quiet
<1>3. CASE l \in switched
  <2>1. l \in Lines /\ health[l] # "down" /\ Quiet(lastDown[l])
    BY <1>3 DEF OutageInv, SwitchedQuiet
  <2>2. QED
    BY <1>1, <2>1 DEF Quiet
<1>4. QED
  BY <1>2, <1>3 DEF FlushTargets

(* A line flushed while DOWN is marked.                                    *)
LEMMA QueueFlushOutage ==
  ASSUME OutageInv, HNext, QueueFlush, TypeInv'
  PROVE  OutageInv'
<1>1. /\ pc = "flush" /\ pc' = "idle"
      /\ UNCHANGED <<health, since, lastDown, switched>>
      /\ \/ UNCHANGED <<queue, flushed>>
         \/ flushed' = flushed \cup (FlushTargets \cap LongDown)
  BY DEF QueueFlush, sentVars
<1>2. UNCHANGED fellAgo
  BY <1>1 DEF HNext, Sampled
<1>3. ~ReadFlushFailure /\ \A l \in Lines : ~Rose(l)
  BY <1>1 DEF ReadFlushFailure, Rose
<1>4. asked' = (asked \cup {l \in Lines : FlushSent(l) /\ health[l] = "down"})
                 \ {l \in Lines : Rose(l)}
  BY <1>3 DEF HNext
<1>5. asked' = asked \cup {l \in Lines : FlushSent(l) /\ health[l] = "down"}
  BY <1>3, <1>4 DEF OutageInv, AskedMarked
<1>6. AskedMarked'
  <2>1. flushed \subseteq flushed'
    BY <1>1
  <2>2. ASSUME NEW l \in Lines, FlushSent(l), health[l] = "down"
        PROVE  l \in flushed'
    <3>1. l \in FlushTargets /\ Len(queue') > Len(queue)
      BY <2>2 DEF FlushSent
    <3>2. queue' # queue
      <4>1. Len(queue) \in Nat
        BY SeqFacts DEF OutageInv, TypeInv, ChannelInv
      <4>2. QED
        BY <3>1, <4>1
    <3>3. flushed' = flushed \cup (FlushTargets \cap LongDown)
      BY <1>1, <3>2
    <3>4. QED
      BY <1>1, <2>2, <3>1, <3>3, TargetFacts
  <2>3. QED
    BY <1>1, <1>5, <2>1, <2>2 DEF OutageInv, AskedMarked
<1>7. AgesExact'
  BY <1>1, <1>2 DEF OutageInv, AgesExact, Ageing, Older
<1>8. HistoryTypes' /\ SwitchedQuiet'
  BY <1>1, <1>2 DEF OutageInv, HistoryTypes, SwitchedQuiet, Quiet
<1>9. QED
  BY <1>6, <1>7, <1>8 DEF OutageInv

(* Every other step.                                                       *)
LEMMA OtherOutage ==
  ASSUME OutageInv, HNext, Next, TypeInv',
         ~TickBegin, ~Sample, ~QueueApply, ~QueueFlush
  PROVE  OutageInv'
<1> USE DEF lineVars, sentVars, watchVars, workerVars, deviceVars
<1>1. CASE CheckThreads \/ ResendV6 \/ SkipApply \/ ApplyRefused \/ QueueApplyV6
           \/ QueueProbePaths \/ QueuePolicies
  BY <1>1, OutageKept DEF CheckThreads, ResendV6, SkipApply, ApplyRefused, QueueApplyV6,
     QueueProbePaths, QueuePolicies, Sampled, Ageing
<1>2. CASE ReadEvents \/ LoseWatch \/ Exit
  BY <1>2, OutageKept DEF ReadEvents, LoseWatch, Exit, Terminate, SendExit, JoinWorker,
     Sampled, Ageing
<1>3. CASE Receive
  <2>1. Len(queue') = Len(queue) - 1 /\ Len(queue) \in Nat
    BY <1>3, TailIsSeq DEF Receive, OutageInv, TypeInv, ChannelInv
  <2>2. ~(Len(queue') > Len(queue))
    BY <2>1
  <2>3. UNCHANGED <<pc, health, since, lastDown, flushed, switched>>
    BY <1>3 DEF Receive
  <2>4. QED
    BY <2>2, <2>3, OutageKept DEF Sampled, Ageing
<1>4. ASSUME UNCHANGED <<pc, queue, health, since, lastDown, flushed, switched>>
      PROVE  OutageInv'
  <2>1. Len(queue) \in Nat
    BY SeqFacts DEF OutageInv, TypeInv, ChannelInv
  <2>2. ~(Len(queue') > Len(queue))
    BY <1>4, <2>1
  <2>3. QED
    BY <1>4, <2>2, OutageKept DEF Sampled, Ageing
<1>5. CASE StartBatch \/ WorkerEnds \/ RunProbePaths \/ RunPolicies \/ RunFlush \/ RunClear
           \/ \E k \in Routed : RunRoutes(k) \/ RunRoutesFails(k)
  BY <1>4, <1>5 DEF StartBatch, WorkerEnds, RunProbePaths, RunPolicies, RunFlush, RunClear,
     RunRoutes, RunRoutesFails
<1>6. CASE Machine
  BY <1>4, <1>6 DEF Machine, DeviceChanges, RoutesTaken, PathTaken, RuleTaken
<1>7. QED
  BY <1>1, <1>2, <1>3, <1>5, <1>6 DEF Next, Tick, Work

(* A step that changes nothing.                                            *)
LEMMA StutterOutage ==
  ASSUME OutageInv, UNCHANGED hvars
  PROVE  OutageInv'
<1>1. TypeInv'
  <2>1. UNCHANGED vars
    BY DEF hvars
  <2>2. QED
    BY <2>1, TypeStep DEF OutageInv
<1>2. UNCHANGED <<pc, health, since, lastDown, flushed, switched, fellAgo, asked>>
  BY DEF hvars, vars, lineVars, sentVars
<1>3. HistoryTypes' /\ AgesExact' /\ SwitchedQuiet' /\ AskedMarked'
  BY <1>2 DEF OutageInv, HistoryTypes, AgesExact, Ageing, Older, SwitchedQuiet, Quiet, AskedMarked
<1>4. QED
  BY <1>1, <1>3 DEF OutageInv

(* The inductive invariant holds in every reachable state.                 *)
THEOREM OutageInvariant == HSpec => []OutageInv
<1>1. HInit => OutageInv
  <2> SUFFICES ASSUME HInit PROVE OutageInv
    OBVIOUS
  <2>1. TypeInv
    BY TypeInit DEF HInit
  <2>2. HistoryTypes
    BY ConstantTypes DEF HInit, HistoryTypes, Ages
  <2>3. AgesExact /\ SwitchedQuiet /\ AskedMarked
    BY DEF HInit, Init, AgesExact, Ageing, SwitchedQuiet, AskedMarked
  <2>4. QED
    BY <2>1, <2>2, <2>3 DEF OutageInv
<1>2. OutageInv /\ [HNext]_hvars => OutageInv'
  <2> SUFFICES ASSUME OutageInv, HNext PROVE OutageInv'
    BY StutterOutage
  <2>1. Next
    BY DEF HNext
  <2>2. TypeInv'
    BY <2>1, TypeStep DEF OutageInv
  <2>3. QED
    BY <2>1, <2>2, TickBeginOutage, SampleOutage, QueueApplyOutage, QueueFlushOutage, OtherOutage
<1>3. QED
  BY <1>1, <1>2, PTL DEF HSpec

(* A short outage costs no sessions: no flush, whether asked for by an     *)
(* outage or by a change of the active set, names a line that went DOWN    *)
(* less than the quiet period ago (flush_conntrack_on_down and             *)
(* flush_conntrack_on_switch).                                             *)
THEOREM QuietPeriodIsKept == HSpec => ShortOutagesSpared
<1>1. ASSUME OutageInv
      PROVE  [ \A l \in Lines :
                 FlushSent(l) => fellAgo[l] = Never \/ fellAgo[l] >= QuietTicks ]_hvars
  BY <1>1, TargetFacts DEF FlushSent, Quiet
<1>2. QED
  BY <1>1, OutageInvariant, PTL DEF HSpec, ShortOutagesSpared

(* One outage is flushed once, unless a flush is reported to have failed:  *)
(* flushed_while_down outlives every tick of the outage.                   *)
THEOREM OutagesFlushedOnce == HSpec => OneFlushPerOutage
<1>1. ASSUME OutageInv
      PROVE  [ \A l \in asked : health[l] = "down" => ~FlushSent(l) ]_hvars
  BY <1>1, TargetFacts DEF FlushSent, OutageInv, AskedMarked
<1>2. QED
  BY <1>1, OutageInvariant, PTL DEF HSpec, OneFlushPerOutage
=============================================================================
