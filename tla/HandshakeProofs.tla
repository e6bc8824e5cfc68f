-------------------------- MODULE HandshakeProofs --------------------------
(***************************************************************************)
(* What travels between the event loop and the worker, for every queue     *)
(* capacity and configuration: at most one command of each repeated kind   *)
(* is under way, IPv6 follows IPv4, and the commands of an exit are the    *)
(* last ones executed.                                                     *)
(***************************************************************************)
EXTENDS WanDaemonProofs

(* OnItsWay, place by place.                                               *)
Underway(k) == InQueue(k) # {} \/ InOutcomes(k) # {} \/ batch[k] # {}

Alone(k) ==
  /\ \A i, j \in InQueue(k) : i = j
  /\ \A i, j \in InOutcomes(k) : i = j
  /\ InQueue(k) # {} => InOutcomes(k) = {} /\ batch[k] = {}
  /\ InOutcomes(k) # {} => batch[k] = {}

Tracked(k) ==
  /\ Alone(k)
  /\ Underway(k) => k \in inflight
  /\ k \in inflight => Underway(k) \/ k \in dropped

(* What makes OneOutstanding inductive: no ClearRoutes is under way while  *)
(* the loop ticks, since it makes the worker drop the rest of its batch.   *)
HandshakeInv ==
  Ticking =>
    /\ \A k \in Repeated : Tracked(k)
    /\ batch["clear"] = {} /\ InQueue("clear") = {}

(* The places of a kind, taken together.                                   *)
LEMMA HandshakeImplies == HandshakeInv => OneOutstanding
<1> SUFFICES ASSUME HandshakeInv, Ticking, NEW k \in Repeated
             PROVE  /\ \A x, y \in OnItsWay(k) : x = y
                    /\ OnItsWay(k) # {} => k \in inflight
                    /\ k \in inflight /\ OnItsWay(k) = {} => k \in dropped
  BY DEF OneOutstanding
<1>1. Tracked(k)
  BY DEF HandshakeInv
<1>2. ASSUME NEW x \in OnItsWay(k)
      PROVE  \/ \E i \in InQueue(k) : x = <<"queue", i>>
             \/ \E i \in InOutcomes(k) : x = <<"outcomes", i>>
             \/ batch[k] # {} /\ x = <<"batch", 1>>
  <2>1. \/ x \in {<<"queue", i>> : i \in InQueue(k)}
        \/ x \in {<<"outcomes", i>> : i \in InOutcomes(k)}
        \/ x \in {<<"batch", 1>> : p \in batch[k]}
    BY Zenon DEF OnItsWay
  <2>2. x \in {<<"batch", 1>> : p \in batch[k]} => batch[k] # {} /\ x = <<"batch", 1>>
    OBVIOUS
  <2>3. QED
    BY <2>1, <2>2, Zenon
<1>3. OnItsWay(k) # {} <=> Underway(k)
  BY DEF OnItsWay, Underway
<1>4. \A x, y \in OnItsWay(k) : x = y
  <2> SUFFICES ASSUME NEW x \in OnItsWay(k), NEW y \in OnItsWay(k) PROVE x = y
    OBVIOUS
  <2>1. CASE \E i \in InQueue(k) : x = <<"queue", i>>
    BY <1>1, <1>2, <2>1 DEF Tracked, Alone
  <2>2. CASE \E i \in InOutcomes(k) : x = <<"outcomes", i>>
    BY <1>1, <1>2, <2>2 DEF Tracked, Alone
  <2>3. CASE batch[k] # {} /\ x = <<"batch", 1>>
    BY <1>1, <1>2, <2>3 DEF Tracked, Alone
  <2>4. QED
    BY <1>2, <2>1, <2>2, <2>3
<1>5. QED
  BY <1>1, <1>3, <1>4 DEF Tracked

-----------------------------------------------------------------------------
(* What the operations on the channels do to the places of a kind.         *)

(* A command sent takes the last place, and no other moves.                *)
LEMMA SendPlaces ==
  ASSUME TypeInv, NEW k, NEW a, Send(k, a)
  PROVE  /\ InQueue(k)' = InQueue(k) \cup {Len(queue) + 1}
         /\ \A j : j # k => InQueue(j)' = InQueue(j)
<1> DEFINE n == Len(queue) + 1
<1>1. /\ DOMAIN queue' = 1..n
      /\ \A i \in 1..Len(queue) : queue'[i] = queue[i]
      /\ queue'[n].kind = k
  BY AppendIsSeq DEF Send, Command, TypeInv, ChannelInv
<1>2. DOMAIN queue = 1..Len(queue) /\ Len(queue) \in Nat
  BY SeqFacts DEF TypeInv, ChannelInv
<1>3. \A i : i \in 1..n <=> i = n \/ i \in 1..Len(queue)
  BY <1>2
<1>4. n \notin 1..Len(queue)
  BY <1>2
<1> HIDE DEF n
<1>5. InQueue(k)' = InQueue(k) \cup {n}
  BY <1>1, <1>2, <1>3, <1>4 DEF InQueue
<1>6. \A j : j # k => InQueue(j)' = InQueue(j)
  BY <1>1, <1>2, <1>3, <1>4 DEF InQueue
<1>7. QED
  BY <1>5, <1>6 DEF n

(* Taking the head moves every other place down by one.                    *)
LEMMA ReceivePlaces ==
  ASSUME TypeInv, Receive, NEW k
  PROVE  /\ \A i \in InQueue(k)' : i + 1 \in InQueue(k) /\ i \in Nat
         /\ InQueue(k) # {} => InQueue(k)' # {} \/ k = queue[1].kind
         /\ k = queue[1].kind => 1 \in InQueue(k)
         /\ \A i \in InQueue(k)' : i + 1 # 1
<1>1. /\ DOMAIN queue' = 1..(Len(queue) - 1) /\ Len(queue) \in Nat \ {0}
      /\ \A i \in 1..(Len(queue) - 1) : queue'[i] = queue[i + 1]
      /\ DOMAIN queue = 1..Len(queue)
  BY TailIsSeq, SeqFacts DEF Receive, TypeInv, ChannelInv
<1>2. \A i \in 1..(Len(queue) - 1) : i + 1 \in 1..Len(queue) /\ i \in Nat /\ i + 1 # 1
  BY <1>1
<1>3. \A i \in 1..Len(queue) : i # 1 => i - 1 \in 1..(Len(queue) - 1) /\ (i - 1) + 1 = i
  BY <1>1
<1>4. 1 \in 1..Len(queue)
  BY <1>1
<1>5. \A i \in InQueue(k)' : i + 1 \in InQueue(k) /\ i \in Nat /\ i + 1 # 1
  BY <1>1, <1>2 DEF InQueue
<1>6. ASSUME NEW i \in InQueue(k), k # queue[1].kind
      PROVE  i - 1 \in InQueue(k)'
  BY <1>1, <1>3, <1>6 DEF InQueue
<1>7. QED
  BY <1>1, <1>4, <1>5, <1>6 DEF InQueue

(* An executed command leaves the batch for the last outcome.              *)
LEMMA ExecutedPlaces ==
  ASSUME TypeInv, NEW k \in Kinds, NEW ok, NEW v, Executed(k, ok, v)
  PROVE  /\ InOutcomes(k)' = InOutcomes(k) \cup {Len(outcomes) + 1}
         /\ batch'[k] = {}
         /\ \A j \in Kinds : j # k => InOutcomes(j)' = InOutcomes(j) /\ batch'[j] = batch[j]
<1> DEFINE n == Len(outcomes) + 1
<1>1. /\ DOMAIN outcomes' = 1..n
      /\ \A i \in 1..Len(outcomes) : outcomes'[i] = outcomes[i]
      /\ outcomes'[n].kind = k
  BY AppendIsSeq DEF Executed, TypeInv, ChannelInv
<1>2. DOMAIN outcomes = 1..Len(outcomes) /\ Len(outcomes) \in Nat
  BY SeqFacts DEF TypeInv, ChannelInv
<1>3. \A i : i \in 1..n <=> i = n \/ i \in 1..Len(outcomes)
  BY <1>2
<1>4. n \notin 1..Len(outcomes)
  BY <1>2
<1> HIDE DEF n
<1>5. InOutcomes(k)' = InOutcomes(k) \cup {n}
  BY <1>1, <1>2, <1>3, <1>4 DEF InOutcomes
<1>6. \A j : j # k => InOutcomes(j)' = InOutcomes(j)
  BY <1>1, <1>2, <1>3, <1>4 DEF InOutcomes
<1>7. batch'[k] = {} /\ \A j \in Kinds : j # k => batch'[j] = batch[j]
  BY DEF Executed, TypeInv, WorkerInv, WorkerTypes
<1>8. QED
  BY <1>5, <1>6, <1>7 DEF n

(* The head of the outcomes is read and thrown away.                       *)
LEMMA DropPlaces ==
  ASSUME TypeInv, outcomes # <<>>, outcomes' = Tail(outcomes), NEW k
  PROVE  /\ \A i \in InOutcomes(k)' : i + 1 \in InOutcomes(k) /\ i \in Nat
         /\ InOutcomes(k) # {} => InOutcomes(k)' # {} \/ k = Head(outcomes).kind
<1>1. /\ DOMAIN outcomes' = 1..(Len(outcomes) - 1) /\ Len(outcomes) \in Nat \ {0}
      /\ \A i \in 1..(Len(outcomes) - 1) : outcomes'[i] = outcomes[i + 1]
      /\ DOMAIN outcomes = 1..Len(outcomes) /\ Head(outcomes) = outcomes[1]
  BY TailIsSeq, SeqFacts DEF TypeInv, ChannelInv
<1>2. \A i \in 1..(Len(outcomes) - 1) : i + 1 \in 1..Len(outcomes) /\ i \in Nat
  BY <1>1
<1>3. \A i \in 1..Len(outcomes) : i # 1 => i - 1 \in 1..(Len(outcomes) - 1) /\ (i - 1) + 1 = i
  BY <1>1
<1>4. \A i \in InOutcomes(k)' : i + 1 \in InOutcomes(k) /\ i \in Nat
  BY <1>1, <1>2 DEF InOutcomes
<1>5. ASSUME NEW i \in InOutcomes(k), k # Head(outcomes).kind
      PROVE  i - 1 \in InOutcomes(k)'
  BY <1>1, <1>3, <1>5 DEF InOutcomes
<1>6. QED
  BY <1>4, <1>5

-----------------------------------------------------------------------------
(* The handshake, action by action.                                        *)

(* A step that leaves a kind's places and its flag alone.                  *)
LEMMA TrackedKept ==
  ASSUME NEW k, Tracked(k), dropped \subseteq dropped',
         InQueue(k)' = InQueue(k), InOutcomes(k)' = InOutcomes(k), batch'[k] = batch[k],
         k \in inflight' <=> k \in inflight
  PROVE  Tracked(k)'
BY DEF Tracked, Alone, Underway

(* A step that touches neither the channels nor the worker's batch.        *)
LEMMA HandshakeKept ==
  ASSUME HandshakeInv, UNCHANGED <<queue, outcomes, dropped, batch, inflight>>,
         Ticking' => Ticking
  PROVE  HandshakeInv'
BY DEF HandshakeInv, Tracked, Alone, Underway, InQueue, InOutcomes

(* The exit never goes back to ticking.                                    *)
LEMMA ExitLeavesTicking ==
  (Terminate \/ SendExit \/ JoinWorker) /\ HandshakeInv => HandshakeInv'
BY DEF HandshakeInv, Ticking, Terminate, SendExit, JoinWorker

(* A command of a kind that carries no inflight flag is sent.              *)
LEMMA SendUnflagged ==
  ASSUME TypeInv, HandshakeInv, NEW k \in {"v6", "flush"}, NEW a, Send(k, a),
         UNCHANGED <<outcomes, dropped, batch, inflight>>, Ticking' => Ticking
  PROVE  HandshakeInv'
<1> SUFFICES ASSUME Ticking
             PROVE  /\ \A j \in Repeated : Tracked(j)'
                    /\ batch'["clear"] = {} /\ InQueue("clear")' = {}
  BY DEF HandshakeInv
<1>1. ASSUME NEW j, j # k
      PROVE  InQueue(j)' = InQueue(j) /\ InOutcomes(j)' = InOutcomes(j)
  BY <1>1, SendPlaces DEF InOutcomes
<1>2. "clear" # k /\ \A j \in Repeated : j # k
  BY DEF Repeated
<1>3. ASSUME NEW j \in Repeated
      PROVE  Tracked(j)'
  BY <1>1, <1>2, TrackedKept DEF HandshakeInv
<1>4. QED
  BY <1>1, <1>2, <1>3 DEF HandshakeInv

(* A repeated command is sent, which requires that none is in flight.      *)
LEMMA SendFlagged ==
  ASSUME TypeInv, HandshakeInv, NEW k \in Repeated, NEW a, Send(k, a), k \notin inflight,
         inflight' = inflight \cup {k}, UNCHANGED <<outcomes, dropped, batch>>,
         Ticking' => Ticking
  PROVE  HandshakeInv'
<1> SUFFICES ASSUME Ticking
             PROVE  /\ \A j \in Repeated : Tracked(j)'
                    /\ batch'["clear"] = {} /\ InQueue("clear")' = {}
  BY DEF HandshakeInv
<1>1. ASSUME NEW j
      PROVE  /\ InOutcomes(j)' = InOutcomes(j)
             /\ j # k => InQueue(j)' = InQueue(j)
  BY SendPlaces DEF InOutcomes
<1>2. "clear" # k
  BY DEF Repeated
<1>3. ASSUME NEW j \in Repeated, j # k
      PROVE  Tracked(j)'
  BY <1>1, <1>3, TrackedKept DEF HandshakeInv
<1>4. Tracked(k)'
  <2>1. InQueue(k) = {} /\ InOutcomes(k) = {} /\ batch[k] = {}
    BY DEF HandshakeInv, Tracked, Underway
  <2>2. InQueue(k)' = {Len(queue) + 1}
    BY <2>1, SendPlaces
  <2>3. QED
    BY <1>1, <2>1, <2>2 DEF Tracked, Alone, Underway
<1>5. QED
  BY <1>1, <1>2, <1>3, <1>4 DEF HandshakeInv

(* The worker takes the oldest command into its batch.                     *)
LEMMA ReceiveHandshake ==
  ASSUME TypeInv, HandshakeInv, Receive
  PROVE  HandshakeInv'
<1> SUFFICES ASSUME Ticking
             PROVE  /\ \A j \in Repeated : Tracked(j)'
                    /\ batch'["clear"] = {} /\ InQueue("clear")' = {}
  BY DEF HandshakeInv, Receive, Ticking
<1>1. UNCHANGED <<outcomes, dropped, inflight>> /\ batch' = Merge(batch, Head(queue))
  BY DEF Receive, sentVars
<1>2. Head(queue) = queue[1] /\ queue[1].kind \in Kinds /\ DOMAIN batch = Kinds
  <2>1. IsSeq(queue) /\ queue # <<>>
    BY DEF TypeInv, ChannelInv, Receive
  <2>2. Head(queue) = queue[1] /\ Len(queue) \in Nat \ {0} /\ DOMAIN queue = 1..Len(queue)
    BY <2>1, TailIsSeq, SeqFacts
  <2>3. 1 \in DOMAIN queue
    BY <2>2
  <2>4. QED
    BY <2>2, <2>3 DEF TypeInv, ChannelInv, ChannelTypes, WorkerInv, WorkerTypes
<1>3. ASSUME NEW j \in Kinds, j # queue[1].kind
      PROVE  batch'[j] = batch[j]
  BY <1>1, <1>2, <1>3 DEF Merge
<1>4. ASSUME NEW j \in Repeated, j # queue[1].kind
      PROVE  Tracked(j)'
  <2>1. j \in Kinds
    BY DEF Kinds
  <2>2. \A x \in InQueue(j)' : x + 1 \in InQueue(j) /\ x \in Nat
    BY ReceivePlaces
  <2>3. InQueue(j)' # {} <=> InQueue(j) # {}
    BY <1>4, ReceivePlaces
  <2>4. InOutcomes(j)' = InOutcomes(j)
    BY <1>1 DEF InOutcomes
  <2>5. Tracked(j)
    BY DEF HandshakeInv
  <2>6. \A x, y \in InQueue(j)' : x = y
    BY <2>2, <2>5 DEF Tracked, Alone
  <2>7. QED
    BY <1>1, <1>3, <1>4, <2>1, <2>3, <2>4, <2>5, <2>6 DEF Tracked, Alone, Underway
<1>5. ASSUME NEW j \in Repeated, j = queue[1].kind
      PROVE  Tracked(j)'
  <2>1. 1 \in InQueue(j) /\ \A x \in InQueue(j)' : x + 1 \in InQueue(j) /\ x + 1 # 1
    BY <1>5, ReceivePlaces
  <2>2. Tracked(j)
    BY DEF HandshakeInv
  <2>3. InQueue(j)' = {} /\ InOutcomes(j) = {} /\ j \in inflight
    BY <2>1, <2>2 DEF Tracked, Alone, Underway
  <2>4. InOutcomes(j)' = {}
    BY <1>1, <2>3 DEF InOutcomes
  <2>5. batch'[j] # {}
    BY <1>1, <1>2, <1>5 DEF Merge, Repeated
  <2>6. QED
    BY <1>1, <2>3, <2>4, <2>5 DEF Tracked, Alone, Underway
<1>6. "clear" # queue[1].kind /\ InQueue("clear")' = {}
  BY ReceivePlaces DEF HandshakeInv
<1>7. batch'["clear"] = {}
  BY <1>3, <1>6 DEF HandshakeInv, Kinds
<1>8. QED
  BY <1>4, <1>5, <1>6, <1>7

(* The worker executes a command and reports its outcome.                  *)
LEMMA ExecutedHandshake ==
  ASSUME TypeInv, HandshakeInv, NEW k \in Kinds, batch[k] # {}, NEW ok, NEW v, Executed(k, ok, v),
         UNCHANGED <<pc, queue, dropped, inflight>>
  PROVE  HandshakeInv'
<1> SUFFICES ASSUME Ticking
             PROVE  /\ \A j \in Repeated : Tracked(j)'
                    /\ batch'["clear"] = {} /\ InQueue("clear")' = {}
  BY DEF HandshakeInv, Ticking
<1>1. ASSUME NEW j
      PROVE  InQueue(j)' = InQueue(j)
  BY DEF InQueue
<1>2. ASSUME NEW j \in Repeated
      PROVE  Tracked(j)'
  <2>1. Tracked(j) /\ j \in Kinds
    BY DEF HandshakeInv, Kinds
  <2>2. CASE j # k
    BY <1>1, <2>1, <2>2, ExecutedPlaces, TrackedKept
  <2>3. CASE j = k
    <3>1. InOutcomes(j) = {} /\ InQueue(j) = {} /\ j \in inflight
      BY <2>1, <2>3 DEF Tracked, Alone, Underway
    <3>2. InOutcomes(j)' = {Len(outcomes) + 1} /\ batch'[j] = {}
      BY <2>3, <3>1, ExecutedPlaces
    <3>3. QED
      BY <1>1, <3>1, <3>2 DEF Tracked, Alone, Underway
  <2>4. QED
    BY <2>2, <2>3
<1>3. batch'["clear"] = {}
  BY ExecutedPlaces DEF HandshakeInv, Kinds
<1>4. QED
  BY <1>1, <1>2, <1>3 DEF HandshakeInv

(* The loop takes in the outcomes and clears the flags of their kinds.     *)
LEMMA TickBeginHandshake ==
  ASSUME TypeInv, HandshakeInv, TickBegin
  PROVE  HandshakeInv'
<1> SUFFICES ASSUME Ticking
             PROVE  /\ \A j \in Repeated : Tracked(j)'
                    /\ batch'["clear"] = {} /\ InQueue("clear")' = {}
  BY DEF HandshakeInv, TickBegin, Ticking
<1>1. /\ outcomes' = <<>> /\ UNCHANGED <<queue, dropped, batch>>
      /\ inflight' = inflight \ {o.kind : o \in ToSet(outcomes)}
  BY DEF TickBegin, workerVars
<1>2. ASSUME NEW j
      PROVE  InQueue(j)' = InQueue(j) /\ InOutcomes(j)' = {}
  BY <1>1 DEF InQueue, InOutcomes
<1>3. ASSUME NEW j
      PROVE  j \in {o.kind : o \in ToSet(outcomes)} <=> InOutcomes(j) # {}
  BY DEF InOutcomes, ToSet
<1>4. ASSUME NEW j \in Repeated
      PROVE  Tracked(j)'
  <2>1. Tracked(j)
    BY DEF HandshakeInv
  <2>2. QED
    BY <1>1, <1>2, <1>3, <2>1 DEF Tracked, Alone, Underway
<1>5. QED
  BY <1>1, <1>2, <1>4 DEF HandshakeInv

(* The loop discards an outcome while it looks whether the worker is gone. *)
LEMMA CheckThreadsHandshake ==
  ASSUME TypeInv, HandshakeInv, CheckThreads
  PROVE  HandshakeInv'
<1>1. UNCHANGED <<queue, batch, inflight>> /\ (Ticking' => Ticking)
  BY DEF CheckThreads, workerVars, sentVars, Ticking
<1>2. CASE outcomes = <<>>
  BY <1>1, <1>2, HandshakeKept DEF CheckThreads
<1>3. CASE outcomes # <<>>
  <2> SUFFICES ASSUME Ticking
               PROVE  /\ \A j \in Repeated : Tracked(j)'
                      /\ batch'["clear"] = {} /\ InQueue("clear")' = {}
    BY <1>1 DEF HandshakeInv
  <2>1. outcomes' = Tail(outcomes) /\ dropped' = dropped \cup {Head(outcomes).kind}
    BY <1>3 DEF CheckThreads
  <2>2. ASSUME NEW j
        PROVE  InQueue(j)' = InQueue(j)
    BY <1>1 DEF InQueue
  <2>3. ASSUME NEW j \in Repeated
        PROVE  Tracked(j)'
    <3>1. Tracked(j)
      BY DEF HandshakeInv
    <3>2. /\ \A i \in InOutcomes(j)' : i + 1 \in InOutcomes(j) /\ i \in Nat
          /\ InOutcomes(j) # {} => InOutcomes(j)' # {} \/ j \in dropped'
      BY <1>3, <2>1, DropPlaces
    <3>3. \A x, y \in InOutcomes(j)' : x = y
      BY <3>1, <3>2 DEF Tracked, Alone
    <3>4. InOutcomes(j)' # {} => InOutcomes(j) # {}
      BY <3>2
    <3>5. QED
      BY <1>1, <2>1, <2>2, <3>1, <3>2, <3>3, <3>4 DEF Tracked, Alone, Underway
  <2>4. QED
    BY <1>1, <2>2, <2>3 DEF HandshakeInv
<1>4. QED
  BY <1>2, <1>3

-----------------------------------------------------------------------------
(* Nothing is under way at first.                                          *)
LEMMA HandshakeInit == Init => HandshakeInv
<1> SUFFICES ASSUME Init PROVE HandshakeInv
  OBVIOUS
<1>1. \A k : InQueue(k) = {} /\ InOutcomes(k) = {}
  BY EmptyIsSeq DEF Init, InQueue, InOutcomes
<1>2. (\A k \in Kinds : batch[k] = {}) /\ inflight = {}
  BY DEF Init, NoBatch
<1>3. QED
  BY <1>1, <1>2 DEF HandshakeInv, Tracked, Alone, Underway, Kinds

(* Every step of the tick, by what it sends.                               *)
LEMMA TickHandshake ==
  ASSUME TypeInv, HandshakeInv, Tick
  PROVE  HandshakeInv'
<1> USE DEF Ticking, sentVars, workerVars
<1>1. CASE SkipApply \/ Sample \/ ApplyRefused
  BY <1>1, HandshakeKept DEF SkipApply, Sample, ApplyRefused
<1>2. CASE ResendV6
  BY <1>2, HandshakeKept, SendUnflagged DEF ResendV6
<1>3. CASE QueueApplyV6
  BY <1>3, HandshakeKept, SendUnflagged DEF QueueApplyV6
<1>4. CASE QueueFlush
  BY <1>4, HandshakeKept, SendUnflagged DEF QueueFlush
<1>5. CASE QueueApply
  BY <1>5, SendFlagged DEF QueueApply, NeedApply, Repeated
<1>6. CASE QueueProbePaths
  BY <1>6, HandshakeKept, SendFlagged DEF QueueProbePaths, Repeated
<1>7. CASE QueuePolicies
  BY <1>7, HandshakeKept, SendFlagged DEF QueuePolicies, Repeated
<1>8. QED
  BY <1>1, <1>2, <1>3, <1>4, <1>5, <1>6, <1>7, TickBeginHandshake, CheckThreadsHandshake DEF Tick

(* Every step of the worker, by what it executes.                          *)
LEMMA WorkHandshake ==
  ASSUME TypeInv, HandshakeInv, Work
  PROVE  HandshakeInv'
<1> USE DEF sentVars
<1>1. CASE StartBatch \/ WorkerEnds
  BY <1>1, HandshakeKept DEF StartBatch, WorkerEnds, Ticking
<1>2. ASSUME NEW k \in Routed, RunRoutes(k) \/ RunRoutesFails(k)
      PROVE  HandshakeInv'
  BY <1>2, ExecutedHandshake DEF RunRoutes, RunRoutesFails, Turn, Routed, Kinds, Repeated
<1>3. CASE RunPolicies
  BY <1>3, ExecutedHandshake DEF RunPolicies, Turn, Kinds, Repeated
<1>4. CASE RunFlush
  BY <1>4, ExecutedHandshake DEF RunFlush, Turn, Kinds
<1>5. CASE RunClear
  BY <1>5 DEF RunClear, Turn, HandshakeInv, Ticking
<1>6. CASE RunProbePaths
  BY <1>6, ExecutedHandshake DEF RunProbePaths, Turn, Kinds, Repeated
<1>7. QED
  BY <1>1, <1>2, <1>3, <1>4, <1>5, <1>6, ReceiveHandshake DEF Work

(* Whatever the queue's capacity, the retry delays and the interleaving:   *)
(* the loop has at most one command of each repeated kind under way, so    *)
(* the outcome it reads for a kind is that of the command it is waiting    *)
(* for; and its inflight flag is right unless an outcome was discarded.    *)
THEOREM NeverTwoUnderway == Spec => []OneOutstanding
<1>1. TypeInv /\ HandshakeInv /\ [Next]_vars => HandshakeInv'
  <2> SUFFICES ASSUME TypeInv, HandshakeInv, [Next]_vars PROVE HandshakeInv'
    OBVIOUS
  <2> USE DEF sentVars, workerVars
  <2>1. CASE UNCHANGED vars
    BY <2>1, HandshakeKept DEF vars, Ticking
  <2>2. CASE ReadEvents \/ LoseWatch
    BY <2>2, HandshakeKept DEF ReadEvents, LoseWatch, Ticking
  <2>3. CASE Exit
    BY <2>3, ExitLeavesTicking DEF Exit
  <2>4. CASE Machine
    BY <2>4, HandshakeKept DEF Machine, DeviceChanges, RoutesTaken, PathTaken, RuleTaken, Ticking
  <2>5. QED
    BY <2>1, <2>2, <2>3, <2>4, TickHandshake, WorkHandshake DEF Next
<1>2. QED
  BY <1>1, HandshakeInit, HandshakeImplies, TypeInvariant, PTL DEF Spec

-----------------------------------------------------------------------------
(* IPv6 follows IPv4, for every queue capacity and every configuration.    *)

Families == {"v4", "v6"}

(* The queue's commands of one kind have a newest one, and the batch holds *)
(* at most one command of each family.                                     *)
Ordered(k) ==
  /\ InQueue(k) # {} => \E m \in InQueue(k) : \A i \in InQueue(k) : i <= m
  /\ batch[k] # {} => \E p : batch[k] = {p}

(* What makes FamiliesAgree inductive: between the two sends of one        *)
(* decision, the newest IPv4 update is that decision.                      *)
FamiliesInv ==
  /\ \A k \in Families : Ordered(k)
  /\ v6Pending # {} => \E p : v6Pending = {p}
  /\ DOMAIN given = Families
  /\ pc = "apply6" => Newest("v4") = {RoutesOf(Active)}
  /\ FamiliesAgree

(* The maximum of a set that has one.                                      *)
LEMMA MaxIs ==
  ASSUME NEW S \in SUBSET Nat, NEW m \in S, \A i \in S : i <= m
  PROVE  Max(S) = m
<1>1. Max(S) \in S /\ \A i \in S : Max(S) >= i
  BY DEF Max
<1>2. Max(S) \in Nat /\ m \in Nat /\ Max(S) >= m /\ Max(S) <= m
  BY <1>1
<1>3. QED
  BY <1>2

(* A command just sent is the newest of its kind, and of no other kind is  *)
(* the newest one affected.                                                *)
LEMMA SendNewest ==
  ASSUME TypeInv, FamiliesInv, NEW k \in Families, NEW a, Send(k, a),
         UNCHANGED <<batch, given>>
  PROVE  /\ Newest(k)' = {a}
         /\ \A j \in Families : j # k => Newest(j)' = Newest(j)
         /\ \A j \in Families : Ordered(j)'
<1> DEFINE n == Len(queue) + 1
<1>1. /\ \A i \in 1..Len(queue) : queue'[i] = queue[i]
      /\ queue'[n] = Command(k, a)
      /\ DOMAIN queue = 1..Len(queue) /\ Len(queue) \in Nat
  BY AppendIsSeq, SeqFacts DEF Send, TypeInv, ChannelInv
<1>2. /\ InQueue(k)' = InQueue(k) \cup {n}
      /\ \A j : j # k => InQueue(j)' = InQueue(j)
  BY SendPlaces
<1>3. \A j : \A i \in InQueue(j) : i \in 1..Len(queue) /\ i <= n
  BY <1>1 DEF InQueue
<1>4. /\ InQueue(k)' \in SUBSET Nat
      /\ n \in InQueue(k)' /\ \A i \in InQueue(k)' : i <= n
  BY <1>1, <1>2, <1>3
<1> HIDE DEF n
<1>5. Newest(k)' = {a}
  <2>1. Max(InQueue(k)') = n
    BY <1>4, MaxIs
  <2>2. QED
    BY <1>1, <1>4, <2>1 DEF Newest, Command
<1>6. ASSUME NEW j \in Families, j # k
      PROVE  Newest(j)' = Newest(j)
  <2>1. InQueue(j)' = InQueue(j)
    BY <1>2, <1>6
  <2>2. CASE InQueue(j) = {}
    BY <2>1, <2>2 DEF Newest
  <2>3. CASE InQueue(j) # {}
    <3>1. PICK m \in InQueue(j) : \A i \in InQueue(j) : i <= m
      BY <2>3 DEF FamiliesInv, Ordered
    <3>2. InQueue(j) \in SUBSET Nat
      BY <1>1, <1>3
    <3>3. Max(InQueue(j)) = m
      BY <3>1, <3>2, MaxIs
    <3>4. queue'[m] = queue[m]
      BY <1>1, <1>3
    <3>5. QED
      BY <2>1, <2>3, <3>3, <3>4 DEF Newest
  <2>4. QED
    BY <2>2, <2>3
<1>7. ASSUME NEW j \in Families
      PROVE  Ordered(j)'
  BY <1>2, <1>4 DEF FamiliesInv, Ordered
<1>8. QED
  BY <1>5, <1>6, <1>7

(* What the worker takes over stays the newest: it was behind what the     *)
(* batch held, and before the rest of the queue.                           *)
LEMMA ReceiveNewest ==
  ASSUME TypeInv, FamiliesInv, Receive, NEW j \in Families
  PROVE  Newest(j)' = Newest(j) /\ Ordered(j)'
<1>1. /\ \A i \in 1..(Len(queue) - 1) : queue'[i] = queue[i + 1]
      /\ DOMAIN queue' = 1..(Len(queue) - 1) /\ Len(queue) \in Nat \ {0}
      /\ DOMAIN queue = 1..Len(queue) /\ Head(queue) = queue[1]
  BY TailIsSeq, SeqFacts DEF Receive, TypeInv, ChannelInv
<1>2. batch' = Merge(batch, queue[1]) /\ UNCHANGED given
  BY <1>1 DEF Receive
<1>3. j \in Kinds /\ j # "flush" /\ DOMAIN batch = Kinds /\ queue[1].kind \in Kinds
  <2>1. 1 \in DOMAIN queue
    BY <1>1
  <2>2. QED
    BY <2>1 DEF Families, Kinds, Routed, Repeated, TypeInv, WorkerInv, WorkerTypes, ChannelInv,
                ChannelTypes
<1>4. InQueue(j) \in SUBSET Nat /\ InQueue(j)' \in SUBSET Nat
  BY <1>1 DEF InQueue
<1>5. \A i \in InQueue(j)' : i >= 1 /\ i + 1 \in InQueue(j) /\ queue'[i] = queue[i + 1]
  BY <1>1, ReceivePlaces DEF InQueue
<1>6. \A i \in InQueue(j) : i # 1 => i - 1 \in InQueue(j)' /\ queue'[i - 1] = queue[i]
  BY <1>1 DEF InQueue
<1>7. CASE InQueue(j) = {}
  <2>1. InQueue(j)' = {}
    BY <1>5, <1>7
  <2>2. queue[1].kind # j
    BY <1>7, ReceivePlaces
  <2>3. batch'[j] = batch[j]
    BY <1>2, <1>3, <2>2 DEF Merge
  <2>4. QED
    BY <1>2, <1>7, <2>1, <2>3 DEF Newest, FamiliesInv, Ordered
<1>8. CASE InQueue(j) # {}
  <2>1. PICK m \in InQueue(j) : \A i \in InQueue(j) : i <= m
    BY <1>8 DEF FamiliesInv, Ordered
  <2>2. Newest(j) = {queue[m].arg}
    BY <1>4, <1>8, <2>1, MaxIs DEF Newest
  <2>3. batch'[j] # {} => \E p : batch'[j] = {p}
    BY <1>2, <1>3 DEF Merge, FamiliesInv, Ordered
  <2>4. CASE m = 1
    <3>1. InQueue(j)' = {}
      BY <1>4, <1>5, <2>1, <2>4
    <3>2. queue[1].kind = j
      BY <2>4 DEF InQueue
    <3>3. batch'[j] = {queue[1].arg}
      BY <1>2, <1>3, <3>2 DEF Merge
    <3>4. QED
      BY <2>2, <2>3, <2>4, <3>1, <3>3 DEF Newest, Ordered
  <2>5. CASE m # 1
    <3>1. m - 1 \in InQueue(j)' /\ queue'[m - 1] = queue[m]
      BY <1>6, <2>5
    <3>2. \A i \in InQueue(j)' : i <= m - 1
      BY <1>4, <1>5, <2>1
    <3>3. Max(InQueue(j)') = m - 1
      BY <1>4, <3>1, <3>2, MaxIs
    <3>4. QED
      BY <2>2, <2>3, <3>1, <3>2, <3>3 DEF Newest, Ordered
  <2>6. QED
    BY <2>4, <2>5
<1>9. QED
  BY <1>7, <1>8

(* A payload executed is handed to RouteManager and stays the newest.      *)
LEMMA ExecutedNewest ==
  ASSUME TypeInv, FamiliesInv, NEW k \in Kinds, NEW ok, NEW v, Executed(k, ok, v),
         UNCHANGED queue,
         given' = given \/ k \in Families,
         k \in Families => \E p \in batch[k] : given' = [given EXCEPT ![k] = {p}],
         NEW j \in Families
  PROVE  Newest(j)' = Newest(j) /\ Ordered(j)' /\ DOMAIN given' = Families
<1>1. InQueue(j)' = InQueue(j) /\ j \in Kinds
  BY DEF InQueue, Families, Kinds, Routed, Repeated
<1>2. batch'[k] = {} /\ \A i \in Kinds : i # k => batch'[i] = batch[i]
  BY ExecutedPlaces
<1>3. DOMAIN given = Families /\ Ordered(j)
  BY DEF FamiliesInv
<1>4. CASE j = k
  <2>1. PICK p \in batch[j] : given' = [given EXCEPT ![j] = {p}]
    BY <1>4
  <2>2. batch[j] = {p}
    BY <1>3 DEF Ordered
  <2>3. given'[j] = {p} /\ batch'[j] = {}
    BY <1>2, <1>3, <1>4, <2>1
  <2>4. QED
    BY <1>1, <1>3, <2>1, <2>2, <2>3 DEF Newest, Ordered
<1>5. CASE j # k
  <2>1. given'[j] = given[j] /\ DOMAIN given' = Families /\ batch'[j] = batch[j]
    BY <1>1, <1>2, <1>3, <1>5
  <2>2. QED
    BY <1>1, <1>3, <2>1 DEF Newest, Ordered
<1>6. QED
  BY <1>4, <1>5

-----------------------------------------------------------------------------
(* A step that sends nothing and decides nothing, seen from the newest     *)
(* updates.                                                                *)
LEMMA FamiliesKept ==
  ASSUME FamiliesInv, DOMAIN given' = Families,
         \A k \in Families : Newest(k)' = Newest(k) /\ Ordered(k)',
         UNCHANGED v6Pending, pc' = pc \/ (pc' # "apply6" /\ pc # "apply6"),
         pc' = "apply6" => UNCHANGED <<health, ifindex, weights>>
  PROVE  FamiliesInv'
<1>1. pc' = "apply6" => pc = "apply6" /\ (RoutesOf(Active))' = RoutesOf(Active)
  BY DEF RoutesOf, Active, Undegraded, Primary, UpLines
<1>2. Newest("v4")' = Newest("v4") /\ Newest("v6")' = Newest("v6")
  BY DEF Families
<1>3. FamiliesAgree'
  <2> SUFFICES ASSUME V6Lines # {}, pc' # "apply6" PROVE
        (IF v6Pending' # {} THEN v6Pending' ELSE Newest("v6")')
          = {[l \in DOMAIN p \cap V6Lines |-> p[l]] : p \in Newest("v4")'}
    BY DEF FamiliesAgree
  <2>1. pc # "apply6"
    OBVIOUS
  <2>2. QED
    BY <1>2, <2>1 DEF FamiliesInv, FamiliesAgree
<1>4. pc' = "apply6" => Newest("v4")' = {RoutesOf(Active)}'
  BY <1>1, <1>2 DEF FamiliesInv
<1>5. QED
  BY <1>3, <1>4 DEF FamiliesInv

(* A step that touches neither the queue nor the worker's families.        *)
LEMMA NewestKept ==
  ASSUME FamiliesInv, UNCHANGED <<queue, batch, given>>
  PROVE  /\ DOMAIN given' = Families
         /\ \A k \in Families : Newest(k)' = Newest(k) /\ Ordered(k)'
<1>1. \A k : InQueue(k)' = InQueue(k)
  BY DEF InQueue
<1>2. QED
  BY <1>1 DEF FamiliesInv, Ordered, Newest

(* Sending a command that is no route update leaves both families alone.   *)
LEMMA SendOtherNewest ==
  ASSUME TypeInv, FamiliesInv, NEW k \in Kinds \ Families, NEW a, Send(k, a),
         UNCHANGED <<batch, given>>
  PROVE  /\ DOMAIN given' = Families
         /\ \A j \in Families : Newest(j)' = Newest(j) /\ Ordered(j)'
<1>1. \A j \in Families : InQueue(j)' = InQueue(j)
  BY SendPlaces
<1>2. \A i \in 1..Len(queue) : queue'[i] = queue[i]
  BY AppendIsSeq DEF Send, TypeInv, ChannelInv
<1>3. DOMAIN queue = 1..Len(queue) /\ Len(queue) \in Nat
  BY SeqFacts DEF TypeInv, ChannelInv
<1>4. ASSUME NEW j \in Families
      PROVE  Newest(j)' = Newest(j) /\ Ordered(j)'
  <2>1. Ordered(j) /\ Ordered(j)'
    BY <1>1 DEF FamiliesInv, Ordered
  <2>2. CASE InQueue(j) = {}
    BY <1>1, <2>1, <2>2 DEF Newest
  <2>3. CASE InQueue(j) # {}
    <3>1. PICK m \in InQueue(j) : \A i \in InQueue(j) : i <= m
      BY <2>1, <2>3 DEF Ordered
    <3>2. InQueue(j) \in SUBSET Nat /\ m \in 1..Len(queue)
      BY <1>3 DEF InQueue
    <3>3. Max(InQueue(j)) = m
      BY <3>1, <3>2, MaxIs
    <3>4. QED
      BY <1>1, <1>2, <2>1, <2>3, <3>2, <3>3 DEF Newest
  <2>4. QED
    BY <2>2, <2>3
<1>5. QED
  BY <1>4 DEF FamiliesInv

(* A decision is sent: the IPv4 update first.                              *)
LEMMA QueueApplyFamilies ==
  ASSUME TypeInv, FamiliesInv, QueueApply
  PROVE  FamiliesInv'
<1>1. /\ pc = "apply" /\ pc' = IF V6Lines = {} THEN "probe" ELSE "apply6"
      /\ Send("v4", RoutesOf(Active)) /\ UNCHANGED <<batch, given, v6Pending>>
      /\ UNCHANGED <<health, ifindex, weights>>
  BY DEF QueueApply, lineVars, workerVars
<1>2. Newest("v4")' = {RoutesOf(Active)} /\ \A j \in Families : Ordered(j)'
  BY <1>1, SendNewest DEF Families
<1>3. (RoutesOf(Active))' = RoutesOf(Active)
  BY <1>1 DEF RoutesOf, Active, Undegraded, Primary, UpLines
<1>4. FamiliesAgree'
  BY <1>1 DEF FamiliesAgree
<1>5. QED
  BY <1>1, <1>2, <1>3, <1>4 DEF FamiliesInv

(* Then the IPv6 update, which waits in v6_pending if there is no room.    *)
LEMMA QueueApplyV6Families ==
  ASSUME TypeInv, FamiliesInv, QueueApplyV6
  PROVE  FamiliesInv'
<1> DEFINE wanted == RoutesOf(Active \cap V6Lines)
<1>1. /\ pc = "apply6" /\ pc' = "probe" /\ UNCHANGED <<batch, given>>
      /\ \/ Send("v6", wanted) /\ v6Pending' = {}
         \/ v6Pending' = {wanted} /\ UNCHANGED queue
  BY DEF QueueApplyV6, workerVars
<1>2. /\ (IF v6Pending' # {} THEN v6Pending' ELSE Newest("v6")') = {wanted}
      /\ Newest("v4")' = Newest("v4")
      /\ \A j \in Families : Ordered(j)'
  <2> HIDE DEF wanted
  <2>1. CASE Send("v6", wanted) /\ v6Pending' = {}
    BY <1>1, <2>1, SendNewest DEF Families
  <2>2. CASE v6Pending' = {wanted} /\ UNCHANGED queue
    BY <1>1, <2>2, NewestKept DEF Families
  <2>3. QED
    BY <1>1, <2>1, <2>2
<1>3. Newest("v4") = {RoutesOf(Active)}
  BY <1>1 DEF FamiliesInv
<1>4. [l \in DOMAIN RoutesOf(Active) \cap V6Lines |-> RoutesOf(Active)[l]] = wanted
  BY DEF RoutesOf
<1>5. {[l \in DOMAIN p \cap V6Lines |-> p[l]] : p \in Newest("v4")} = {wanted}
  <2> DEFINE common(p) == [l \in DOMAIN p \cap V6Lines |-> p[l]]
  <2>1. common(RoutesOf(Active)) = wanted
    BY <1>4
  <2> HIDE DEF common, wanted
  <2>2. {common(p) : p \in {RoutesOf(Active)}} = {wanted}
    BY <2>1
  <2>3. QED
    BY <1>3, <2>2 DEF common
<1>6. FamiliesAgree'
  BY <1>2, <1>5 DEF FamiliesAgree
<1>7. v6Pending' # {} => \E p : v6Pending' = {p}
  BY <1>1
<1>8. QED
  BY <1>1, <1>2, <1>6, <1>7 DEF FamiliesInv

(* A refused IPv6 update is still the one the newest decision calls for.   *)
LEMMA ResendV6Families ==
  ASSUME TypeInv, FamiliesInv, ResendV6
  PROVE  FamiliesInv'
<1>1. /\ pc = "resend" /\ pc' = "sample" /\ UNCHANGED <<batch, given>>
      /\ \/ (\E p \in v6Pending : Send("v6", p)) /\ v6Pending' = {}
         \/ UNCHANGED <<queue, v6Pending>>
      /\ UNCHANGED <<health, ifindex, weights>>
  BY DEF ResendV6, workerVars, lineVars
<1>2. CASE UNCHANGED <<queue, v6Pending>>
  BY <1>1, <1>2, NewestKept, FamiliesKept
<1>3. CASE (\E p \in v6Pending : Send("v6", p)) /\ v6Pending' = {}
  <2>1. PICK p \in v6Pending : Send("v6", p)
    BY <1>3
  <2>2. v6Pending = {p}
    BY DEF FamiliesInv
  <2>3. Newest("v6")' = {p} /\ Newest("v4")' = Newest("v4") /\ \A j \in Families : Ordered(j)'
    BY <1>1, <2>1, SendNewest DEF Families
  <2>4. FamiliesAgree'
    BY <1>1, <1>3, <2>2, <2>3 DEF FamiliesInv, FamiliesAgree
  <2>5. QED
    BY <1>1, <1>3, <2>3, <2>4 DEF FamiliesInv
<1>4. QED
  BY <1>1, <1>2, <1>3

(* Every step of the tick, by what it sends.                               *)
LEMMA TickFamilies ==
  ASSUME TypeInv, FamiliesInv, Tick
  PROVE  FamiliesInv'
<1> USE DEF sentVars, workerVars, lineVars
<1>1. CASE TickBegin \/ CheckThreads \/ Sample \/ SkipApply \/ ApplyRefused
  BY <1>1, NewestKept, FamiliesKept
     DEF TickBegin, CheckThreads, Sample, SkipApply, ApplyRefused
<1>2. CASE QueueProbePaths
  <2>1. "probe" \in Kinds \ Families
    BY DEF Families, Kinds, Repeated
  <2>2. Send("probe", ProbePaths) \/ UNCHANGED queue
    BY <1>2 DEF QueueProbePaths
  <2>3. pc = "probe" /\ pc' = "policy" /\ UNCHANGED <<v6Pending, batch, given>>
    BY <1>2 DEF QueueProbePaths
  <2>4. QED
    BY <2>1, <2>2, <2>3, NewestKept, SendOtherNewest, FamiliesKept
<1>3. CASE QueuePolicies
  <2>1. "policies" \in Kinds \ Families
    BY DEF Families, Kinds, Repeated
  <2>2. Send("policies", PolicyRules) \/ UNCHANGED queue
    BY <1>3 DEF QueuePolicies
  <2>3. pc = "policy" /\ pc' = "flush" /\ UNCHANGED <<v6Pending, batch, given>>
    BY <1>3 DEF QueuePolicies
  <2>4. QED
    BY <2>1, <2>2, <2>3, NewestKept, SendOtherNewest, FamiliesKept
<1>4. CASE QueueFlush
  <2>1. "flush" \in Kinds \ Families
    BY DEF Families, Kinds
  <2>2. Send("flush", FlushTargets) \/ UNCHANGED queue
    BY <1>4 DEF QueueFlush
  <2>3. pc = "flush" /\ pc' = "idle" /\ UNCHANGED <<v6Pending, batch, given>>
    BY <1>4 DEF QueueFlush
  <2>4. QED
    BY <2>1, <2>2, <2>3, NewestKept, SendOtherNewest, FamiliesKept
<1>5. QED
  BY <1>1, <1>2, <1>3, <1>4, QueueApplyFamilies, QueueApplyV6Families, ResendV6Families DEF Tick

(* After the last tick no route update is sent any more, but what is under *)
(* way is still delivered.                                                 *)
LEMMA ExitFamilies ==
  ASSUME TypeInv, FamiliesInv, Exit
  PROVE  FamiliesInv'
<1> USE DEF sentVars, workerVars, lineVars
<1>1. CASE Terminate \/ JoinWorker
  BY <1>1, NewestKept, FamiliesKept DEF Terminate, JoinWorker
<1>2. CASE SendExit
  <2>1. PICK k \in Kinds \ Families : \E a : Send(k, a)
    BY <1>2 DEF SendExit, Families, Kinds, Repeated
  <2>2. pc # "apply6" /\ pc' # "apply6" /\ UNCHANGED <<v6Pending, batch, given>>
    BY <1>2 DEF SendExit
  <2>3. QED
    BY <2>1, <2>2, SendOtherNewest, FamiliesKept
<1>3. QED
  BY <1>1, <1>2 DEF Exit

(* Every step of the worker, by what it executes.                          *)
LEMMA WorkFamilies ==
  ASSUME TypeInv, FamiliesInv, Work
  PROVE  FamiliesInv'
<1> USE DEF sentVars, workerVars, lineVars
<1>1. CASE StartBatch \/ WorkerEnds
  BY <1>1, NewestKept, FamiliesKept DEF StartBatch, WorkerEnds
<1>2. CASE Receive
  BY <1>2, ReceiveNewest, FamiliesKept DEF Receive, FamiliesInv
<1>3. ASSUME NEW k \in Routed, RunRoutes(k) \/ RunRoutesFails(k)
      PROVE  FamiliesInv'
  <2>1. /\ \E ok, v : Executed(k, ok, v)
        /\ \E p \in batch[k] : given' = [given EXCEPT ![k] = {p}]
        /\ UNCHANGED <<queue, pc, health, ifindex, weights, v6Pending>>
    BY <1>3 DEF RunRoutes, RunRoutesFails
  <2>2. k \in Kinds /\ k \in Families /\ DOMAIN given = Families
    BY DEF Routed, Kinds, Repeated, Families, FamiliesInv
  <2>4. QED
    BY <2>1, <2>2, ExecutedNewest, FamiliesKept
<1>4. CASE RunProbePaths \/ RunPolicies \/ RunFlush
  <2>1. PICK k \in Kinds \ Families : \E ok, v : Executed(k, ok, v)
    BY <1>4 DEF RunProbePaths, RunPolicies, RunFlush, Kinds, Families, Repeated
  <2>2. UNCHANGED <<given, queue, pc, health, ifindex, weights, v6Pending>>
    BY <1>4 DEF RunProbePaths, RunPolicies, RunFlush
  <2>3. "v4" \in Families
    BY DEF Families
  <2>4. QED
    BY <2>1, <2>2, <2>3, ExecutedNewest, FamiliesKept
<1>5. CASE RunClear
  <2>1. \A k \in Families : batch[k] = {} /\ batch'[k] = {}
    BY <1>5 DEF RunClear, Turn, Before, NoBatch, Families, Kinds, Routed, Repeated
  <2>2. UNCHANGED <<given, queue, pc, health, ifindex, weights, v6Pending>>
    BY <1>5 DEF RunClear
  <2>3. \A k : InQueue(k)' = InQueue(k)
    BY <2>2 DEF InQueue
  <2>4. \A k \in Families : Newest(k)' = Newest(k) /\ Ordered(k)'
    BY <2>1, <2>2, <2>3 DEF Newest, Ordered, FamiliesInv
  <2>5. QED
    BY <2>2, <2>4, FamiliesKept DEF FamiliesInv
<1>6. QED
  BY <1>1, <1>2, <1>3, <1>4, <1>5 DEF Work

(* No update has been made at first.                                       *)
LEMMA FamiliesInit == Init => FamiliesInv
<1> SUFFICES ASSUME Init PROVE FamiliesInv
  OBVIOUS
<1>1. \A k : InQueue(k) = {}
  BY EmptyIsSeq DEF Init, InQueue
<1>2. /\ \A k \in Families : batch[k] = {} /\ given[k] = {}
      /\ DOMAIN given = Families /\ v6Pending = {} /\ pc = "idle"
  BY DEF Init, NoBatch, Families, Kinds, Routed, Repeated
<1>3. Newest("v4") = {} /\ Newest("v6") = {}
  BY <1>1, <1>2 DEF Newest, Families
<1>4. QED
  BY <1>1, <1>2, <1>3 DEF FamiliesInv, FamiliesAgree, Ordered

(* Outside the two sends of one decision, the newest IPv6 update the       *)
(* worker has, will get, or the loop keeps in v6_pending is made from the  *)
(* same decision as the newest IPv4 update: whatever the queue refuses.    *)
THEOREM FamiliesNeverDiverge == Spec => []FamiliesAgree
<1>1. TypeInv /\ FamiliesInv /\ [Next]_vars => FamiliesInv'
  <2> SUFFICES ASSUME TypeInv, FamiliesInv, [Next]_vars PROVE FamiliesInv'
    OBVIOUS
  <2> USE DEF sentVars, workerVars, lineVars
  <2>1. CASE UNCHANGED vars
    BY <2>1, NewestKept, FamiliesKept DEF vars
  <2>2. CASE ReadEvents \/ LoseWatch
    BY <2>2, NewestKept, FamiliesKept DEF ReadEvents, LoseWatch
  <2>3. CASE Machine
    BY <2>3, NewestKept, FamiliesKept DEF Machine, DeviceChanges, RoutesTaken, PathTaken, RuleTaken
  <2>4. QED
    BY <2>1, <2>2, <2>3, TickFamilies, ExitFamilies, WorkFamilies DEF Next
<1>2. FamiliesInv => FamiliesAgree
  BY DEF FamiliesInv
<1>3. QED
  BY <1>1, <1>2, FamiliesInit, TypeInvariant, PTL DEF Spec

-----------------------------------------------------------------------------
(* The commands of an exit that leaves the default route in place: no      *)
(* policy rules, then no probe paths.                                      *)

Ends == {"policies", "probe"}
Nothing(k) == IF k = "policies" THEN {} ELSE NoIndexes

(* The loop has sent the exit's command of kind k.                         *)
Told(k) == pc \in (IF k = "policies" THEN {"exitProbe", "closed", "done"} ELSE {"closed", "done"})

(* What that command is for: no rule left, no path left on record.         *)
Removed(k) ==
  IF k = "policies" THEN kernelRules = {} ELSE \A l \in Lines : path[l].known = Gone

(* What is in the kernel of a path that is not on record: nothing, unless  *)
(* an installation of the line failed since it last was.                   *)
PathsKnown ==
  \A l \in Lines \ halfway : path[l].known = Gone => ~path[l].rule /\ path[l].table = Gone

(* It is the newest of its kind in the queue, or in the batch, or has been *)
(* executed with nothing of its kind coming after it.                      *)
EndWaits(k) ==
  \E m \in InQueue(k) : (\A i \in InQueue(k) : i <= m) /\ queue[m].arg = Nothing(k)

EndHeld(k) == InQueue(k) = {} /\ batch[k] = {Nothing(k)}

EndAnswered(k) ==
  /\ InQueue(k) = {} /\ batch[k] = {}
  /\ \E m \in InOutcomes(k) :
       (\A i \in InOutcomes(k) : i <= m) /\ (outcomes[m].ok => Removed(k))

EndKnown(k) == EndWaits(k) \/ EndHeld(k) \/ EndAnswered(k)

NothingLeft == pc \in {"closed", "done"} /\ queue = <<>> /\ batch = NoBatch

(* What makes ExitLeavesNoPaths inductive: no ClearRoutes ever makes the   *)
(* worker drop the rest of a batch, and the worker ends with nothing left. *)
ExitInv ==
  ~ClearOnExit =>
    /\ pc # "exitClear" /\ InQueue("clear") = {} /\ batch["clear"] = {}
    /\ worker = "gone" => NothingLeft
    /\ pc = "done" => worker = "gone"
    /\ \A k \in Ends : Told(k) => EndKnown(k)

(* When the worker is gone the exit's commands have been executed.         *)
LEMMA ExitImplies ==
  ASSUME TypeInv, PathsKnown, ExitInv
  PROVE  ExitLeavesNoPaths
<1> SUFFICES ASSUME pc = "done", ~ClearOnExit
             PROVE  \A k \in Ends : /\ InOutcomes(k) # {}
                                    /\ LastOutcome(k).ok => Removed(k)
  BY DEF ExitLeavesNoPaths, Ends, Removed, PathsKnown
<1> SUFFICES ASSUME NEW k \in Ends
             PROVE  InOutcomes(k) # {} /\ (LastOutcome(k).ok => Removed(k))
  OBVIOUS
<1>1. EndKnown(k) /\ NothingLeft
  BY DEF ExitInv, Told, Ends
<1>2. InQueue(k) = {} /\ batch[k] = {}
  BY <1>1, EmptyIsSeq DEF NothingLeft, InQueue, NoBatch, Ends, Kinds, Repeated
<1>3. PICK m \in InOutcomes(k) :
        (\A i \in InOutcomes(k) : i <= m) /\ (outcomes[m].ok => Removed(k))
  BY <1>1, <1>2 DEF EndKnown, EndWaits, EndHeld, EndAnswered
<1>4. InOutcomes(k) \in SUBSET Nat
  BY SeqFacts DEF TypeInv, ChannelInv, InOutcomes
<1>5. Max(InOutcomes(k)) = m
  BY <1>3, <1>4, MaxIs
<1>6. QED
  BY <1>3, <1>5 DEF LastOutcome

(* A step that takes nothing off the channels or the batch, and restores   *)
(* no rule or probe path, keeps what is known of the exit's commands.      *)
LEMMA EndKept ==
  ASSUME NEW k, EndKnown(k), Removed(k) => Removed(k)',
         UNCHANGED <<queue, outcomes, batch>>
  PROVE  EndKnown(k)'
BY DEF EndKnown, EndWaits, EndHeld, EndAnswered, InQueue, InOutcomes, Nothing

(* While the loop ticks, only repeated, IPv6 and flush commands are sent.  *)
LEMMA TickingExit ==
  ASSUME TypeInv, ExitInv, UNCHANGED <<batch, worker>>,
         pc \notin {"closed", "done"},
         pc' \notin {"exitClear", "exitProbe", "closed", "done"},
         UNCHANGED queue \/ \E k \in Kinds \ {"clear"} : \E a : Send(k, a)
  PROVE  ExitInv'
<1>1. InQueue("clear")' = InQueue("clear")
  <2>1. CASE UNCHANGED queue
    BY <2>1 DEF InQueue
  <2>2. CASE \E k \in Kinds \ {"clear"} : \E a : Send(k, a)
    BY <2>2, SendPlaces
  <2>3. QED
    BY <2>1, <2>2
<1>2. \A k \in Ends : ~Told(k)'
  BY DEF Ends, Told
<1>3. QED
  BY <1>1, <1>2 DEF ExitInv, NothingLeft

(* Every step of the loop before its exit.                                 *)
LEMMA TickExit ==
  ASSUME TypeInv, ExitInv, Tick \/ ReadEvents \/ LoseWatch \/ (Terminate /\ ~ClearOnExit)
  PROVE  ExitInv'
<1> USE DEF workerVars, pathVars
<1>1. {"v4", "v6", "probe", "policies", "flush"} \subseteq Kinds \ {"clear"}
  BY DEF Kinds, Routed, Repeated
<1>2. CASE TickBegin \/ CheckThreads \/ Sample \/ SkipApply \/ ApplyRefused
  BY <1>2, TickingExit DEF TickBegin, CheckThreads, Sample, SkipApply, ApplyRefused
<1>3. CASE ReadEvents \/ LoseWatch \/ (Terminate /\ ~ClearOnExit)
  BY <1>3, TickingExit DEF ReadEvents, LoseWatch, Terminate
<1>4. CASE ResendV6
  <2>1. UNCHANGED queue \/ \E p : Send("v6", p)
    BY <1>4 DEF ResendV6
  <2>2. QED
    BY <1>1, <1>4, <2>1, TickingExit DEF ResendV6
<1>5. CASE QueueApply
  <2>1. Send("v4", RoutesOf(Active))
    BY <1>5 DEF QueueApply
  <2>2. QED
    BY <1>1, <1>5, <2>1, TickingExit DEF QueueApply
<1>6. CASE QueueApplyV6
  <2>1. UNCHANGED queue \/ \E p : Send("v6", p)
    BY <1>6 DEF QueueApplyV6
  <2>2. QED
    BY <1>1, <1>6, <2>1, TickingExit DEF QueueApplyV6
<1>7. CASE QueueProbePaths
  <2>1. UNCHANGED queue \/ \E p : Send("probe", p)
    BY <1>7 DEF QueueProbePaths
  <2>2. QED
    BY <1>1, <1>7, <2>1, TickingExit DEF QueueProbePaths
<1>8. CASE QueuePolicies
  <2>1. UNCHANGED queue \/ \E p : Send("policies", p)
    BY <1>8 DEF QueuePolicies
  <2>2. QED
    BY <1>1, <1>8, <2>1, TickingExit DEF QueuePolicies
<1>9. CASE QueueFlush
  <2>1. UNCHANGED queue \/ \E p : Send("flush", p)
    BY <1>9 DEF QueueFlush
  <2>2. QED
    BY <1>1, <1>9, <2>1, TickingExit DEF QueueFlush
<1>10. QED
  BY <1>2, <1>3, <1>4, <1>5, <1>6, <1>7, <1>8, <1>9 DEF Tick

(* The exit's own commands are the newest of their kinds when sent.        *)
LEMMA SendExitKnown ==
  ASSUME TypeInv, NEW k \in Ends, Send(k, Nothing(k)), UNCHANGED <<batch, outcomes>>
  PROVE  /\ EndKnown(k)'
         /\ InQueue("clear")' = InQueue("clear")
         /\ \A j \in Ends : j # k /\ EndKnown(j) /\ UNCHANGED <<path, kernelRules>> => EndKnown(j)'
<1> DEFINE n == Len(queue) + 1
<1>1. /\ \A i \in 1..Len(queue) : queue'[i] = queue[i]
      /\ queue'[n] = Command(k, Nothing(k))
      /\ DOMAIN queue = 1..Len(queue) /\ Len(queue) \in Nat
  BY AppendIsSeq, SeqFacts DEF Send, TypeInv, ChannelInv
<1>2. /\ InQueue(k)' = InQueue(k) \cup {n}
      /\ \A j : j # k => InQueue(j)' = InQueue(j)
  BY SendPlaces
<1>3. \A j : \A i \in InQueue(j) : i \in 1..Len(queue) /\ i <= n
  BY <1>1 DEF InQueue
<1>4. n <= n
  BY <1>1
<1> HIDE DEF n
<1>5. EndKnown(k)'
  <2>1. n \in InQueue(k)' /\ (\A i \in InQueue(k)' : i <= n) /\ queue'[n].arg = Nothing(k)
    BY <1>1, <1>2, <1>3, <1>4 DEF Command
  <2>2. Nothing(k)' = Nothing(k)
    BY DEF Nothing
  <2>3. QED
    BY <2>1, <2>2 DEF EndKnown, EndWaits
<1>6. "clear" # k
  BY DEF Ends
<1>7. ASSUME NEW j \in Ends, j # k, EndKnown(j), UNCHANGED <<path, kernelRules>>
      PROVE  EndKnown(j)'
  <2>1. /\ InQueue(j)' = InQueue(j) /\ InOutcomes(j)' = InOutcomes(j)
        /\ Nothing(j)' = Nothing(j) /\ Removed(j)' = Removed(j)
        /\ \A i \in InQueue(j) : queue'[i] = queue[i]
    BY <1>1, <1>2, <1>3, <1>7 DEF InOutcomes, Nothing, Removed
  <2>2. QED
    BY <1>7, <2>1 DEF EndKnown, EndWaits, EndHeld, EndAnswered
<1>8. QED
  BY <1>2, <1>5, <1>6, <1>7

(* The loop sends its exit commands and waits for the worker.              *)
LEMMA ExitExit ==
  ASSUME TypeInv, ExitInv, ~ClearOnExit, SendExit \/ JoinWorker
  PROVE  ExitInv'
<1> USE DEF workerVars, pathVars
<1>1. CASE SendExit /\ pc = "exitPolicies"
  <2>1. /\ pc' = "exitProbe" /\ Send("policies", {})
        /\ UNCHANGED <<batch, outcomes, worker, path, kernelRules>>
    BY <1>1 DEF SendExit
  <2>2. "policies" \in Ends /\ Nothing("policies") = {}
    BY DEF Ends, Nothing
  <2>3. EndKnown("policies")' /\ InQueue("clear")' = InQueue("clear")
    BY <2>1, <2>2, SendExitKnown
  <2>4. \A k \in Ends : Told(k)' => k = "policies"
    BY <2>1 DEF Ends, Told
  <2>5. worker # "gone"
    BY <1>1 DEF ExitInv, NothingLeft
  <2>6. QED
    BY <2>1, <2>3, <2>4, <2>5 DEF ExitInv
<1>2. CASE SendExit /\ pc = "exitProbe"
  <2>1. /\ pc' = "closed" /\ Send("probe", NoIndexes)
        /\ UNCHANGED <<batch, outcomes, worker, path, kernelRules>>
    BY <1>2 DEF SendExit
  <2>2. "probe" \in Ends /\ "policies" \in Ends /\ Nothing("probe") = NoIndexes
    BY DEF Ends, Nothing
  <2>3. EndKnown("policies")
    BY <1>2, <2>2 DEF ExitInv, Told
  <2>4. EndKnown("probe")' /\ InQueue("clear")' = InQueue("clear") /\ EndKnown("policies")'
    BY <2>1, <2>2, <2>3, SendExitKnown
  <2>5. worker # "gone"
    BY <1>2 DEF ExitInv, NothingLeft
  <2>6. QED
    BY <2>1, <2>4, <2>5 DEF ExitInv, Ends
<1>3. CASE JoinWorker
  <2>1. /\ pc = "closed" /\ worker = "gone" /\ pc' = "done"
        /\ UNCHANGED <<queue, outcomes, batch, worker, path, kernelRules>>
    BY <1>3 DEF JoinWorker
  <2>2. \A k \in Ends : Told(k) /\ Removed(k)' = Removed(k)
    BY <2>1 DEF Told, Removed
  <2>3. \A k \in Ends : EndKnown(k)'
    BY <2>1, <2>2, EndKept DEF ExitInv
  <2>4. InQueue("clear")' = InQueue("clear")
    BY <2>1 DEF InQueue
  <2>5. QED
    BY <2>1, <2>3, <2>4 DEF ExitInv, NothingLeft
<1>4. SendExit => pc \in {"exitPolicies", "exitProbe"}
  BY DEF SendExit, ExitInv
<1>5. QED
  BY <1>1, <1>2, <1>3, <1>4

(* The newest command of a kind stays the newest on its way to the batch.  *)
LEMMA ReceiveExit ==
  ASSUME TypeInv, ExitInv, ~ClearOnExit, Receive
  PROVE  ExitInv'
<1>1. /\ DOMAIN queue' = 1..(Len(queue) - 1) /\ Len(queue) \in Nat \ {0}
      /\ \A i \in 1..(Len(queue) - 1) : queue'[i] = queue[i + 1]
      /\ DOMAIN queue = 1..Len(queue)
      /\ Head(queue) = queue[1]
  BY TailIsSeq, SeqFacts DEF Receive, TypeInv, ChannelInv
<1>2. /\ \A i \in 1..(Len(queue) - 1) : i + 1 \in 1..Len(queue) /\ i \in Nat /\ (i + 1) - 1 = i
      /\ \A i \in 1..Len(queue) : i # 1 => i - 1 \in 1..(Len(queue) - 1) /\ (i - 1) + 1 = i
      /\ 1 \in 1..Len(queue)
      /\ \A i, j \in 1..Len(queue) : i + 1 <= j => i <= j - 1
  BY <1>1
<1>3. \A k : \A i \in InQueue(k)' :
        i + 1 \in InQueue(k) /\ queue'[i] = queue[i + 1] /\ i \in 1..Len(queue)
  BY <1>1, <1>2 DEF InQueue
<1>4. \A k : \A i \in InQueue(k) :
        i \in 1..Len(queue) /\ (i # 1 => i - 1 \in InQueue(k)' /\ queue'[i - 1] = queue[i])
  BY <1>1, <1>2 DEF InQueue
<1> DEFINE c == queue[1]
<1>5. c.kind \in Kinds /\ 1 \in InQueue(c.kind)
  BY <1>1, <1>2 DEF InQueue, TypeInv, ChannelInv, ChannelTypes
<1>6. /\ \A k \in Kinds : k # c.kind => batch'[k] = batch[k]
      /\ c.kind # "flush" => batch'[c.kind] = {c.arg}
  <2>1. batch' = IF c.kind = "flush" THEN [batch EXCEPT !["flush"] = @ \cup c.arg]
                                     ELSE [batch EXCEPT ![c.kind] = {c.arg}]
    BY <1>1 DEF Receive, Merge
  <2> HIDE DEF c
  <2>2. QED
    BY <1>5, <2>1 DEF TypeInv, WorkerInv, WorkerTypes
<1>7. ASSUME NEW k \in Ends, EndKnown(k)
      PROVE  EndKnown(k)'
  <2>1. k \in Kinds /\ k # "flush"
    BY DEF Ends, Kinds, Repeated
  <2>2. Nothing(k)' = Nothing(k) /\ (Removed(k) => Removed(k)') /\ InOutcomes(k)' = InOutcomes(k)
    BY DEF Nothing, Removed, InOutcomes, Receive, pathVars
  <2>3. InQueue(k) = {} => InQueue(k)' = {} /\ batch'[k] = batch[k]
    BY <1>3, <1>5, <1>6, <2>1
  <2>4. CASE InQueue(k) = {}
    BY <1>7, <2>2, <2>3, <2>4 DEF EndKnown, EndWaits, EndHeld, EndAnswered, Receive
  <2>5. CASE InQueue(k) # {}
    <3>1. PICK m \in InQueue(k) : (\A i \in InQueue(k) : i <= m) /\ queue[m].arg = Nothing(k)
      BY <1>7, <2>5 DEF EndKnown, EndWaits, EndHeld, EndAnswered
    <3>2. CASE m = 1
      <4>1. c.kind = k
        BY <3>1, <3>2 DEF InQueue
      <4>2. InQueue(k)' = {}
        <5>1. ASSUME NEW i \in InQueue(k)' PROVE FALSE
          <6>1. i + 1 <= 1 /\ i \in 1..Len(queue)
            BY <1>3, <3>1, <3>2
          <6>2. QED
            BY <1>1, <6>1
        <5>2. QED
          BY <5>1
      <4>3. batch'[k] = {Nothing(k)}
        BY <1>6, <2>1, <3>1, <3>2, <4>1
      <4>4. QED
        BY <2>2, <4>2, <4>3 DEF EndKnown, EndHeld
    <3>3. CASE m # 1
      <4>1. m - 1 \in InQueue(k)' /\ queue'[m - 1] = queue[m] /\ m \in 1..Len(queue)
        BY <1>4, <3>3
      <4>2. \A i \in InQueue(k)' : i <= m - 1
        BY <1>2, <1>3, <3>1, <4>1
      <4>3. QED
        BY <2>2, <3>1, <4>1, <4>2 DEF EndKnown, EndWaits
    <3>4. QED
      BY <3>2, <3>3
  <2>6. QED
    BY <2>4, <2>5
<1>8. InQueue("clear")' = {} /\ batch'["clear"] = {}
  <2>1. InQueue("clear") = {} /\ batch["clear"] = {} /\ "clear" \in Kinds
    BY DEF ExitInv, Kinds
  <2>2. c.kind # "clear"
    BY <1>5, <2>1
  <2>3. QED
    BY <1>3, <1>6, <2>1, <2>2
<1>9. UNCHANGED <<pc, worker>> /\ worker # "gone"
  BY DEF Receive
<1>10. \A k \in Ends : Told(k)' = Told(k)
  BY <1>9 DEF Told
<1>11. QED
  BY <1>7, <1>8, <1>9, <1>10 DEF ExitInv

(* A command executed is answered last, and is what its outcome says.      *)
LEMMA ExecutedExit ==
  ASSUME TypeInv, ExitInv, ~ClearOnExit,
         NEW j \in Kinds \ {"clear"}, NEW ok, NEW v, Executed(j, ok, v), UNCHANGED <<queue, pc>>,
         worker = "run", batch[j] # {},
         j \in Ends /\ EndHeld(j) /\ ok => Removed(j)',
         \A k \in Ends : k # j /\ Removed(k) => Removed(k)'
  PROVE  ExitInv'
<1> DEFINE n == Len(outcomes) + 1
<1>1. /\ \A i \in 1..Len(outcomes) : outcomes'[i] = outcomes[i]
      /\ outcomes'[n].ok = ok
      /\ DOMAIN outcomes = 1..Len(outcomes) /\ Len(outcomes) \in Nat
  BY AppendIsSeq, SeqFacts DEF Executed, TypeInv, ChannelInv
<1>2. /\ InOutcomes(j)' = InOutcomes(j) \cup {n}
      /\ batch'[j] = {}
      /\ \A k \in Kinds : k # j => InOutcomes(k)' = InOutcomes(k) /\ batch'[k] = batch[k]
  BY ExecutedPlaces
<1>3. \A k : InQueue(k)' = InQueue(k) /\ Nothing(k)' = Nothing(k)
  BY DEF InQueue, Nothing
<1>4. /\ \A k : \A i \in InOutcomes(k) : i \in 1..Len(outcomes) /\ i <= n
      /\ n <= n
  BY <1>1 DEF InOutcomes
<1> HIDE DEF n
<1>6. ASSUME NEW k \in Ends, EndKnown(k)
      PROVE  EndKnown(k)'
  <2>1. k \in Kinds
    BY DEF Ends, Kinds, Repeated
  <2>2. CASE EndWaits(k)
    BY <1>3, <2>2 DEF EndKnown, EndWaits
  <2>3. CASE EndHeld(k) /\ k = j
    <3>1. ok => Removed(k)'
      BY <1>6, <2>3
    <3>2. InQueue(k)' = {} /\ batch'[k] = {}
      BY <1>2, <1>3, <2>3 DEF EndHeld
    <3>3. n \in InOutcomes(k)' /\ (\A i \in InOutcomes(k)' : i <= n) /\ outcomes'[n].ok = ok
      BY <1>1, <1>2, <1>4, <2>3
    <3>4. QED
      BY <3>1, <3>2, <3>3 DEF EndKnown, EndAnswered
  <2>4. CASE EndHeld(k) /\ k # j
    BY <1>2, <1>3, <2>1, <2>4 DEF EndKnown, EndHeld
  <2>5. CASE EndAnswered(k) /\ k # j
    <3>1. \A i \in InOutcomes(k) : outcomes'[i] = outcomes[i]
      BY <1>1, <1>4
    <3>2. Removed(k) => Removed(k)'
      BY <2>5
    <3>3. QED
      BY <1>2, <1>3, <2>1, <2>5, <3>1, <3>2 DEF EndKnown, EndAnswered
  <2>6. CASE EndAnswered(k) /\ k = j
    <3>1. batch[k] = {}
      BY <2>6 DEF EndAnswered
    <3>2. QED
      BY <3>1, <2>6
  <2>7. QED
    BY <1>6, <2>2, <2>3, <2>4, <2>5, <2>6 DEF EndKnown
<1>7. worker' # "gone" /\ (pc' # "done")
  BY DEF Executed, ExitInv
<1>8. InQueue("clear")' = {} /\ batch'["clear"] = {}
  BY <1>2, <1>3 DEF ExitInv, Kinds
<1>9. \A k \in Ends : Told(k)' = Told(k)
  BY DEF Told
<1>10. QED
  BY <1>6, <1>7, <1>8, <1>9 DEF ExitInv

(* Every step of the worker, by what it executes.                          *)
LEMMA WorkExit ==
  ASSUME TypeInv, RulesRecorded, ExitInv, ~ClearOnExit, Work
  PROVE  ExitInv'
<1> USE DEF workerVars, pathVars
<1>1. CASE StartBatch \/ WorkerEnds
  <2>1. /\ UNCHANGED <<pc, queue, outcomes, batch, path, kernelRules>>
        /\ worker' = "run" \/ (worker' = "gone" /\ pc = "closed" /\ queue = <<>> /\ batch = NoBatch)
        /\ worker # "gone"
    BY <1>1 DEF StartBatch, WorkerEnds
  <2>2. \A k \in Ends : Told(k)' = Told(k) /\ Removed(k)' = Removed(k)
    BY <2>1 DEF Told, Removed
  <2>3. \A k \in Ends : Told(k)' => EndKnown(k)'
    BY <2>1, <2>2, EndKept DEF ExitInv
  <2>4. InQueue("clear")' = InQueue("clear")
    BY <2>1 DEF InQueue
  <2>5. QED
    BY <2>1, <2>3, <2>4 DEF ExitInv, NothingLeft
<1>2. CASE Receive
  BY <1>2, ReceiveExit
<1>3. ASSUME NEW j \in Routed, RunRoutes(j) \/ RunRoutesFails(j)
      PROVE  ExitInv'
  <2>1. PICK ok, v : Executed(j, ok, v)
    BY <1>3 DEF RunRoutes, RunRoutesFails
  <2>2. j \in Kinds \ {"clear"} /\ j \notin Ends
    BY DEF Routed, Kinds, Ends
  <2>3. UNCHANGED <<queue, pc, path, kernelRules>> /\ worker = "run" /\ batch[j] # {}
    BY <1>3 DEF RunRoutes, RunRoutesFails, Turn
  <2>4. \A k \in Ends : Removed(k) => Removed(k)'
    BY <2>3 DEF Removed
  <2>5. QED
    BY <2>1, <2>2, <2>3, <2>4, ExecutedExit
<1>4. CASE RunProbePaths
  <2>1. PICK wanted \in batch["probe"] :
          \E hurt \in SUBSET Lines :
            /\ SetProbePaths(wanted, hurt)
            /\ \E ok : (ok => hurt = {}) /\ Executed("probe", ok, "none")
    BY <1>4 DEF RunProbePaths
  <2>2. PICK hurt \in SUBSET Lines :
            /\ SetProbePaths(wanted, hurt)
            /\ \E ok : (ok => hurt = {}) /\ Executed("probe", ok, "none")
    BY <2>1
  <2>3. PICK ok : (ok => hurt = {}) /\ Executed("probe", ok, "none")
    BY <2>2
  <2>4. UNCHANGED <<queue, pc, kernelRules>> /\ worker = "run" /\ batch["probe"] # {}
    BY <1>4 DEF RunProbePaths, Turn
  <2>5. ASSUME EndHeld("probe"), ok
        PROVE  Removed("probe")'
    <3>1. wanted = NoIndexes
      BY <2>5 DEF EndHeld, Nothing
    <3>2. path' = [l \in Lines |-> Installed(l, Gone)]
      BY <2>2, <2>3, <2>5, <3>1 DEF SetProbePaths, NoIndexes
    <3>3. \A l \in Lines : Installed(l, Gone).known = Gone
      BY DEF Installed, Cleared, Outdated, NoPath
    <3>4. QED
      BY <3>2, <3>3 DEF Removed
  <2>6. \A k \in Ends : k # "probe" /\ Removed(k) => Removed(k)'
    BY <2>4 DEF Ends, Removed
  <2>7. "probe" \in Kinds \ {"clear"}
    BY DEF Kinds, Repeated
  <2>8. QED
    BY <2>3, <2>4, <2>5, <2>6, <2>7, ExecutedExit
<1>5. CASE RunPolicies
  <2>1. PICK wanted \in batch["policies"] :
          \E failed \in SUBSET ((rules \ wanted) \cup (wanted \ rules)) :
            /\ kernelRules' = (kernelRules \ ((rules \ wanted) \ failed))
                              \cup ((wanted \ rules) \ failed)
            /\ Executed("policies", failed = {}, "none")
    BY <1>5 DEF RunPolicies
  <2>2. PICK failed \in SUBSET ((rules \ wanted) \cup (wanted \ rules)) :
            /\ kernelRules' = (kernelRules \ ((rules \ wanted) \ failed))
                              \cup ((wanted \ rules) \ failed)
            /\ Executed("policies", failed = {}, "none")
    BY <2>1
  <2>3. UNCHANGED <<queue, pc, path>> /\ worker = "run" /\ batch["policies"] # {}
    BY <1>5 DEF RunPolicies, Turn
  <2>4. ASSUME EndHeld("policies"), failed = {}
        PROVE  Removed("policies")'
    <3>1. wanted = {}
      BY <2>4 DEF EndHeld, Nothing
    <3>2. kernelRules \subseteq rules
      BY <2>3 DEF RulesRecorded
    <3>3. kernelRules' = {}
      BY <2>2, <2>4, <3>1, <3>2
    <3>4. QED
      BY <3>3 DEF Removed
  <2>5. \A k \in Ends : k # "policies" /\ Removed(k) => Removed(k)'
    BY <2>3 DEF Ends, Removed
  <2>6. "policies" \in Kinds \ {"clear"}
    BY DEF Kinds, Repeated
  <2>7. QED
    BY <2>2, <2>3, <2>4, <2>5, <2>6, ExecutedExit
<1>6. CASE RunFlush
  <2>1. PICK ok : Executed("flush", ok, "none")
    BY <1>6 DEF RunFlush
  <2>2. UNCHANGED <<queue, pc, path, kernelRules>> /\ worker = "run" /\ batch["flush"] # {}
    BY <1>6 DEF RunFlush, Turn
  <2>3. \A k \in Ends : Removed(k) => Removed(k)'
    BY <2>2 DEF Removed
  <2>4. "flush" \in Kinds \ {"clear"} /\ "flush" \notin Ends
    BY DEF Kinds, Repeated, Ends
  <2>5. QED
    BY <2>1, <2>2, <2>3, <2>4, ExecutedExit
<1>7. ~RunClear
  BY DEF RunClear, Turn, ExitInv
<1>8. QED
  BY <1>1, <1>2, <1>3, <1>4, <1>5, <1>6, <1>7 DEF Work

(* Only commands change the record of the probe paths; other programs and  *)
(* devices take rules and routes away.                                     *)
LEMMA MachinePaths ==
  ASSUME TypeInv, Machine \/ UNCHANGED vars
  PROVE  /\ halfway' = halfway
         /\ \A l \in Lines : /\ path'[l].known = path[l].known
                             /\ path'[l].rule => path[l].rule
                             /\ path'[l].table \in {Gone, path[l].table}
<1> USE DEF workerVars, pathVars
<1>1. path \in [Lines -> PathStates]
  BY DEF TypeInv, PathTypes
<1>2. \A m \in Lines : path[m] = [rule |-> path[m].rule, table |-> path[m].table,
                                  known |-> path[m].known]
  BY <1>1 DEF PathStates
<1>3. \/ path' = path
      \/ \E m \in Lines : path' = [path EXCEPT ![m].rule = FALSE]
      \/ \E m \in Lines : path' = [path EXCEPT ![m].table = Gone]
  BY DEF Machine, DeviceChanges, RoutesTaken, PathTaken, RuleTaken, vars
<1>4. halfway' = halfway
  BY DEF Machine, DeviceChanges, RoutesTaken, PathTaken, RuleTaken, vars
<1>5. ASSUME NEW l \in Lines
      PROVE  /\ path'[l].known = path[l].known
             /\ path'[l].rule => path[l].rule
             /\ path'[l].table \in {Gone, path[l].table}
  <2>1. CASE path' = path
    BY <2>1
  <2>2. ASSUME NEW m \in Lines, path' = [path EXCEPT ![m].rule = FALSE]
        PROVE  /\ path'[l].known = path[l].known
               /\ path'[l].rule => path[l].rule
               /\ path'[l].table \in {Gone, path[l].table}
    <3>1. CASE l = m
      <4>1. path'[l] = [path[l] EXCEPT !.rule = FALSE]
        BY <1>1, <2>2, <3>1
      <4>2. path'[l] = [rule |-> FALSE, table |-> path[l].table, known |-> path[l].known]
        BY <1>2, <4>1
      <4>3. QED
        BY <4>2
    <3>2. CASE l # m
      BY <1>1, <2>2, <3>2
    <3>3. QED
      BY <3>1, <3>2
  <2>3. ASSUME NEW m \in Lines, path' = [path EXCEPT ![m].table = Gone]
        PROVE  /\ path'[l].known = path[l].known
               /\ path'[l].rule => path[l].rule
               /\ path'[l].table \in {Gone, path[l].table}
    <3>1. CASE l = m
      <4>1. path'[l] = [path[l] EXCEPT !.table = Gone]
        BY <1>1, <2>3, <3>1
      <4>2. path'[l] = [rule |-> path[l].rule, table |-> Gone, known |-> path[l].known]
        BY <1>2, <4>1
      <4>3. QED
        BY <4>2
    <3>2. CASE l # m
      BY <1>1, <2>3, <3>2
    <3>3. QED
      BY <3>1, <3>2
  <2>4. QED
    BY <1>3, <2>1, <2>2, <2>3
<1>6. QED
  BY <1>4, <1>5

(* set_probe_paths forgets a path only when all of it was removed, or when *)
(* it could not be installed again.                                        *)
LEMMA SetPathsKnown ==
  ASSUME TypeInv, PathsKnown, NEW wanted \in Indexes, NEW hurt \in SUBSET Lines,
         SetProbePaths(wanted, hurt)
  PROVE  PathsKnown'
<1> SUFFICES ASSUME NEW l \in Lines, l \notin halfway', path'[l].known = Gone
             PROVE  ~path'[l].rule /\ path'[l].table = Gone
  BY DEF PathsKnown
<1>1. l \notin halfway /\ wanted[l] = Gone
  BY DEF SetProbePaths
<1>2. path[l].known = Gone => ~path[l].rule /\ path[l].table = Gone
  BY <1>1 DEF PathsKnown
<1>3. \A h \in Halves(l, Gone) : h.known # Gone
  BY DEF Halves, HalfRemoved, HalfInstalled, Outdated
<1>4. l \in hurt => path'[l] \in Halves(l, Gone)
  BY <1>1 DEF SetProbePaths
<1>5. path'[l] = Installed(l, Gone)
  BY <1>1, <1>3, <1>4 DEF SetProbePaths
<1>6. path'[l] = NoPath \/ (path'[l] = path[l] /\ path[l].known = Gone)
  BY <1>5 DEF Installed, Cleared, Outdated
<1>7. QED
  BY <1>2, <1>6 DEF NoPath

(* Nothing else forgets a path or installs a part of one.                  *)
LEMMA PathsStep ==
  ASSUME TypeInv, PathsKnown, [Next]_vars
  PROVE  PathsKnown'
<1> USE DEF workerVars, pathVars
<1>1. CASE UNCHANGED pathVars
  BY <1>1 DEF PathsKnown
<1>2. CASE Machine \/ UNCHANGED vars
  BY <1>2, MachinePaths DEF PathsKnown
<1>3. CASE RunProbePaths
  <2>1. PICK wanted \in batch["probe"] : \E hurt \in SUBSET Lines : SetProbePaths(wanted, hurt)
    BY <1>3 DEF RunProbePaths
  <2>2. wanted \in Indexes
    BY <2>1 DEF TypeInv, WorkerInv
  <2>3. QED
    BY <2>1, <2>2, SetPathsKnown
<1>4. CASE RunClear
  <2>1. PICK hurt \in SUBSET Lines : SetProbePaths(NoIndexes, hurt)
    BY <1>4 DEF RunClear
  <2>2. NoIndexes \in Indexes
    BY ConstantTypes DEF NoIndexes, Indexes, Gone
  <2>3. QED
    BY <2>1, <2>2, SetPathsKnown
<1>5. UNCHANGED pathVars \/ Machine \/ RunProbePaths \/ RunClear \/ UNCHANGED vars
  <2>1. CASE Tick
    BY <2>1 DEF Tick, TickBegin, CheckThreads, ResendV6, Sample, SkipApply, QueueApply,
                ApplyRefused, QueueApplyV6, QueueProbePaths, QueuePolicies, QueueFlush
  <2>2. CASE ReadEvents \/ LoseWatch \/ Exit
    BY <2>2 DEF ReadEvents, LoseWatch, Exit, Terminate, SendExit, JoinWorker
  <2>3. CASE Work
    BY <2>3 DEF Work, Receive, StartBatch, WorkerEnds, RunRoutes, RunRoutesFails, RunPolicies,
                RunFlush
  <2>4. QED
    BY <2>1, <2>2, <2>3 DEF Next
<1>6. QED
  BY <1>1, <1>2, <1>3, <1>4, <1>5

(* Other programs and devices only take routes and rules away.             *)
LEMMA MachineExit ==
  ASSUME TypeInv, ExitInv, ~ClearOnExit, Machine \/ UNCHANGED vars
  PROVE  ExitInv'
<1> USE DEF workerVars, pathVars
<1>1. UNCHANGED <<pc, queue, outcomes, batch, worker>>
  BY DEF Machine, DeviceChanges, RoutesTaken, PathTaken, RuleTaken, vars
<1>2. kernelRules' \subseteq kernelRules
  BY DEF Machine, DeviceChanges, RoutesTaken, PathTaken, RuleTaken, vars
<1>3. \A l \in Lines : path'[l].known = path[l].known
  BY MachinePaths
<1>4. \A k \in Ends : Told(k)' = Told(k) /\ (Removed(k) => Removed(k)')
  BY <1>1, <1>2, <1>3 DEF Told, Removed
<1>5. \A k \in Ends : Told(k)' => EndKnown(k)'
  BY <1>1, <1>4, EndKept DEF ExitInv
<1>6. InQueue("clear")' = InQueue("clear")
  BY <1>1 DEF InQueue
<1>7. QED
  BY <1>1, <1>5, <1>6 DEF ExitInv, NothingLeft

(* A daemon that is to leave the default route in place leaves nothing     *)
(* else: once it has stopped, the last policy command and the last probe   *)
(* path command have been executed, and if they succeeded no policy rule   *)
(* is left, and neither the rule nor the route of a probe path, whatever   *)
(* was queued, merged in a batch or failing when the signal came.  Left    *)
(* out are the lines in halfway: a path whose installation failed is not   *)
(* on record, and its rule survives the exit.                              *)
THEOREM ExitIsClean == Spec => []ExitLeavesNoPaths
<1>1. Init => ExitInv
  <2> SUFFICES ASSUME Init PROVE ExitInv
    OBVIOUS
  <2>1. InQueue("clear") = {} /\ batch["clear"] = {}
    BY EmptyIsSeq DEF Init, InQueue, NoBatch, Kinds
  <2>2. pc = "idle" /\ worker = "recv"
    BY DEF Init
  <2>3. QED
    BY <2>1, <2>2 DEF ExitInv, Ends, Told
<1>2. Init => PathsKnown
  BY DEF Init, PathsKnown, NoPath
<1>3. TypeInv /\ RulesRecorded /\ ExitInv /\ [Next]_vars => ExitInv'
  <2> SUFFICES ASSUME TypeInv, RulesRecorded, ExitInv, [Next]_vars, ~ClearOnExit
               PROVE  ExitInv'
    BY DEF ExitInv
  <2>1. QED
    BY TickExit, ExitExit, WorkExit, MachineExit DEF Next, Exit
<1>4. TypeInv /\ PathsKnown /\ [Next]_vars => PathsKnown'
  BY PathsStep
<1>5. TypeInv /\ PathsKnown /\ ExitInv => ExitLeavesNoPaths
  BY ExitImplies
<1>6. QED
  BY <1>1, <1>2, <1>3, <1>4, <1>5, TypeInvariant, RulesAreRecorded, PTL DEF Spec
=============================================================================
