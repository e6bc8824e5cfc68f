-------------------------- MODULE LinkQualityProofs --------------------------
(***************************************************************************)
(* Theorems about one line's estimator, for every window size and every    *)
(* threshold DaemonConfig::validate accepts.                               *)
(***************************************************************************)
EXTENDS LinkQualityHistory, FiniteSetTheorems, TLAPS

-----------------------------------------------------------------------------
(* Counting the failures of a window.                                      *)

(* The failures of a window are finitely many.                             *)
LEMMA FailuresFinite ==
  ASSUME NEW w \in Seq(BOOLEAN)
  PROVE  IsFiniteSet({i \in DOMAIN w : ~w[i]})
<1>1. IsFiniteSet(1..Len(w))
  BY FS_Interval
<1>2. {i \in DOMAIN w : ~w[i]} \in SUBSET (1..Len(w))
  OBVIOUS
<1>3. QED
  BY <1>1, <1>2, FS_Subset

(* There are at most as many as verdicts.                                  *)
LEMMA FailuresBound ==
  ASSUME NEW w \in Seq(BOOLEAN)
  PROVE  Failures(w) \in 0..Len(w)
<1> DEFINE F == {i \in DOMAIN w : ~w[i]}
<1>1. F \in SUBSET (1..Len(w))
  OBVIOUS
<1>2. Len(w) \in Nat
  OBVIOUS
<1> HIDE DEF F
<1>3. IsFiniteSet(1..Len(w)) /\ Cardinality(1..Len(w)) = Len(w)
  BY <1>2, FS_Interval
<1>4. Cardinality(F) <= Len(w)
  BY <1>1, <1>3, FS_Subset
<1>5. Cardinality(F) \in Nat
  BY FailuresFinite, FS_CardinalityType, Zenon DEF F
<1>6. Failures(w) = Cardinality(F)
  BY DEF Failures, F
<1>7. QED
  BY <1>4, <1>5, <1>6, <1>2

(* push_back of a success leaves the number of failures, push_back of a    *)
(* failure adds one.                                                       *)
LEMMA FailuresAppend ==
  ASSUME NEW w \in Seq(BOOLEAN)
  PROVE  /\ Failures(Append(w, TRUE)) = Failures(w)
         /\ Failures(Append(w, FALSE)) = Failures(w) + 1
<1> DEFINE F == {i \in DOMAIN w : ~w[i]}
           n == Len(w) + 1
<1>1. \A b \in BOOLEAN : DOMAIN Append(w, b) = 1..n
  OBVIOUS
<1>2. \A b \in BOOLEAN : \A i \in 1..n : Append(w, b)[i] = IF i = n THEN b ELSE w[i]
  OBVIOUS
<1>3. DOMAIN w = 1..Len(w) /\ Len(w) \in Nat
  OBVIOUS
<1>4. {i \in DOMAIN Append(w, TRUE) : ~Append(w, TRUE)[i]} = F
  BY <1>1, <1>2, <1>3
<1>5. {i \in DOMAIN Append(w, FALSE) : ~Append(w, FALSE)[i]} = F \cup {n}
  BY <1>1, <1>2, <1>3
<1>6. IsFiniteSet(F) /\ n \notin F
  BY <1>3, FailuresFinite
<1>7. Cardinality(F \cup {n}) = Cardinality(F) + 1
  BY <1>6, FS_AddElement
<1>8. QED
  BY <1>4, <1>5, <1>7, Zenon DEF Failures

(* pop_front takes one failure away exactly when the verdict it evicts was *)
(* one.                                                                    *)
LEMMA FailuresTail ==
  ASSUME NEW w \in Seq(BOOLEAN), w # <<>>
  PROVE  /\ w[1] => Failures(Tail(w)) = Failures(w)
         /\ ~w[1] => Failures(Tail(w)) = Failures(w) - 1
<1> DEFINE F == {i \in DOMAIN w : ~w[i]}
           G == {i \in DOMAIN Tail(w) : ~Tail(w)[i]}
           shift == [i \in G |-> i + 1]
<1>1. Len(w) \in Nat \ {0} /\ DOMAIN w = 1..Len(w) /\ DOMAIN Tail(w) = 1..(Len(w) - 1)
  OBVIOUS
<1>2. \A i \in 1..(Len(w) - 1) : Tail(w)[i] = w[i + 1]
  BY <1>1
<1>3. Tail(w) \in Seq(BOOLEAN)
  OBVIOUS
<1>4. IsFiniteSet(F) /\ IsFiniteSet(G)
  BY <1>3, FailuresFinite, Zenon
<1>5. shift \in Bijection(G, F \ {1})
  <2>1. \A i \in G : i + 1 \in F \ {1}
    BY <1>1, <1>2
  <2>2. \A i, j \in G : i + 1 = j + 1 => i = j
    BY <1>1
  <2>3. \A k \in F \ {1} : k - 1 \in G /\ (k - 1) + 1 = k
    BY <1>1, <1>2
  <2>4. shift \in Injection(G, F \ {1})
    BY <2>1, <2>2 DEF Injection, IsInjective
  <2>5. shift \in Surjection(G, F \ {1})
    BY <2>1, <2>3 DEF Surjection
  <2>6. QED
    BY <2>4, <2>5 DEF Bijection
<1>6. Cardinality(F \ {1}) = Cardinality(G)
  BY <1>4, <1>5, FS_Bijection DEF ExistsBijection
<1>7. Cardinality(F \ {1}) = IF 1 \in F THEN Cardinality(F) - 1 ELSE Cardinality(F)
  BY <1>4, FS_RemoveElement
<1>8. 1 \in DOMAIN w
  BY <1>1
<1>9. w[1] => 1 \notin F
  BY Zenon
<1>10. ~w[1] => 1 \in F
  BY <1>8, Zenon
<1>11. QED
  BY <1>6, <1>7, <1>9, <1>10, Zenon DEF Failures

-----------------------------------------------------------------------------
(* Type correctness, together with the exactness of lost_count: its bound  *)
(* follows only from its meaning.                                          *)

(* pop_front of a full window keeps lost_count exact.                      *)
LEMMA EvictOldest ==
  ASSUME TypeOK, LostCountExact
  PROVE  /\ WindowKept \in Seq(BOOLEAN)
         /\ Len(WindowKept) \in 0..(WindowSize - 1)
         /\ LostKept = Failures(WindowKept)
<1>1. WindowSize \in Nat \ {0}
  BY ConfigAssumption
<1>2. window \in Seq(BOOLEAN) /\ Len(window) \in 0..WindowSize
  BY <1>1 DEF TypeOK
<1>3. lostCount = Failures(window)
  BY DEF LostCountExact
<1>4. CASE WindowFull(window)
  <2>1. window # <<>> /\ Len(window) = WindowSize /\ Head(window) = window[1]
    BY <1>1, <1>2, <1>4 DEF WindowFull
  <2>2. /\ WindowKept = Tail(window)
        /\ Tail(window) \in Seq(BOOLEAN)
        /\ Len(Tail(window)) = WindowSize - 1
    BY <1>1, <1>2, <1>4, <2>1 DEF WindowKept
  <2>3. LostKept = IF ~window[1] THEN lostCount - 1 ELSE lostCount
    BY <1>4, <2>1, Zenon DEF LostKept
  <2>4. LostKept = Failures(Tail(window))
    BY <1>2, <1>3, <2>1, <2>3, FailuresTail, Zenon
  <2>5. Len(WindowKept) \in 0..(WindowSize - 1)
    BY <1>1, <2>2
  <2>6. QED
    BY <2>2, <2>4, <2>5
<1>5. CASE ~WindowFull(window)
  <2>1. WindowKept = window /\ LostKept = lostCount
    BY <1>5 DEF WindowKept, LostKept
  <2>2. Len(window) < WindowSize
    BY <1>1, <1>2, <1>5 DEF WindowFull
  <2>3. QED
    BY <1>1, <1>2, <1>3, <2>1, <2>2
<1>6. QED
  BY <1>4, <1>5

(* Sliding the window keeps it a window and keeps lost_count exact.        *)
LEMMA SlideWindow ==
  ASSUME TypeOK, LostCountExact, NEW s \in Samples
  PROVE  /\ WindowAfter(s) \in Seq(BOOLEAN)
         /\ Len(WindowAfter(s)) \in 1..WindowSize
         /\ LostAfter(s) = Failures(WindowAfter(s))
<1>1. /\ WindowKept \in Seq(BOOLEAN)
      /\ Len(WindowKept) \in 0..(WindowSize - 1)
      /\ LostKept = Failures(WindowKept)
  BY EvictOldest
<1>2. WindowSize \in Nat \ {0}
  BY ConfigAssumption
<1>3. \A b \in BOOLEAN : /\ Append(WindowKept, b) \in Seq(BOOLEAN)
                          /\ Len(Append(WindowKept, b)) \in 1..WindowSize
  BY <1>1, <1>2
<1>4. CASE s = "fail"
  <2>1. WindowAfter(s) = Append(WindowKept, FALSE) /\ LostAfter(s) = LostKept + 1
    BY <1>4 DEF WindowAfter, LostAfter
  <2>2. LostAfter(s) = Failures(WindowAfter(s))
    BY <1>1, <2>1, FailuresAppend, Zenon
  <2>3. QED
    BY <1>3, <2>1, <2>2
<1>5. CASE s # "fail"
  <2>1. WindowAfter(s) = Append(WindowKept, TRUE) /\ LostAfter(s) = LostKept
    BY <1>5 DEF WindowAfter, LostAfter
  <2>2. LostAfter(s) = Failures(WindowAfter(s))
    BY <1>1, <2>1, FailuresAppend, Zenon
  <2>3. QED
    BY <1>3, <2>1, <2>2
<1>6. QED
  BY <1>4, <1>5

(* A saturating counter stays within its threshold.                        *)
LEMMA BumpType ==
  ASSUME NEW t \in Nat, NEW n \in 0..t
  PROVE  Bump(n, t) \in 0..t
BY DEF Bump

(* The degrade machine stays within its counters' thresholds.              *)
LEMMA DegradeType ==
  ASSUME TypeOK, NEW s \in Samples
  PROVE  DegradeAfter(s) \in DegradeStates
<1> USE ConfigAssumption DEF DegradeStates, NotDegraded, Degrade
<1>1. degrade \in DegradeStates
  BY DEF TypeOK
<1>2. NotDegraded \in DegradeStates
  OBVIOUS
<1>3. Degrade(degrade.on, 0, 0, degrade.out) \in DegradeStates
  BY <1>1
<1>4. ASSUME NEW bad \in BOOLEAN
      PROVE  Entering(bad) \in DegradeStates
  BY <1>1 DEF Entering
<1>5. ASSUME NEW clean \in BOOLEAN
      PROVE  Leaving(clean) \in DegradeStates
  <2>1. Bump(degrade.out, MinOutSamples) \in 0..MinOutSamples
        /\ Bump(degrade.exit, ExitSamples) \in 0..ExitSamples
    BY <1>1, BumpType
  <2>2. QED
    BY <1>1, <2>1 DEF Leaving
<1>6. ExitLevel(LostAfter(s), WindowAfter(s)) \in BOOLEAN
      /\ LossAtLeast(LostAfter(s), WindowAfter(s), DegradeLoss) \in BOOLEAN
  BY DEF ExitLevel, LossAtLeast
<1> HIDE DEF DegradeStates, NotDegraded, Degrade
<1>7. QED
  BY <1>2, <1>3, <1>4, <1>5, <1>6 DEF DegradeAfter

(* One step keeps the types, and keeps lost_count exact.                   *)
LEMMA TypeStep ==
  ASSUME TypeOK, LostCountExact, [Next]_vars
  PROVE  TypeOK' /\ LostCountExact'
<1>1. CASE UNCHANGED vars
  BY <1>1 DEF vars, TypeOK, LostCountExact, Failures
<1>2. ASSUME NEW s \in Samples, Update(s)
      PROVE  TypeOK' /\ LostCountExact'
  <2> USE ConfigAssumption
  <2>1. window' = WindowAfter(s) /\ lostCount' = LostAfter(s)
    BY <1>2 DEF Update
  <2>2. LostCountExact'
    BY <2>1, SlideWindow DEF LostCountExact
  <2>3. /\ window' \in Seq(BOOLEAN)
        /\ Len(window') \in 1..WindowSize
    BY <2>1, SlideWindow
  <2>4. lostCount' \in 0..WindowSize
    BY <2>1, <2>3, SlideWindow, FailuresBound
  <2>5. timeouts' \in 0..FailDown /\ rtt' \in {"none", "normal", "over"} /\ firstProbe' \in BOOLEAN
    <3>1. Bump(timeouts, FailDown) \in 0..FailDown
      BY BumpType DEF TypeOK
    <3>2. TimeoutsAfter(s) \in 0..FailDown
      BY <3>1 DEF TimeoutsAfter
    <3>3. RttAfter(s) \in {"none", "normal", "over"}
      BY DEF TypeOK, RttAfter, Samples
    <3>4. QED
      BY <1>2, <3>2, <3>3 DEF Update
  <2>6. /\ SuccessesAfter(s) \in 0..RecoverCount
        /\ RttOverAfter(s) \in 0..RttFailCount
        /\ SamplesInUpAfter \in 0..WindowSize
        /\ DownReason(s) \in Reasons \cup {"none"}
    <3>1. /\ Bump(successes, RecoverCount) \in 0..RecoverCount
          /\ Bump(rttOverCount, RttFailCount) \in 0..RttFailCount
          /\ Bump(samplesInUp, WindowSize) \in 0..WindowSize
      BY BumpType DEF TypeOK
    <3>2. DownReason(s) \in Reasons \cup {"none"}
      BY DEF DownReason, Reasons
    <3>3. QED
      BY <3>1, <3>2 DEF TypeOK, SuccessesAfter, RttOverAfter, SamplesInUpAfter, Samples
  <2>7. /\ DegradeAfter(s) \in DegradeStates
        /\ Degrade(FALSE, DegradeAfter(s).enter, 0, DegradeAfter(s).out) \in DegradeStates
    BY DegradeType DEF DegradeStates, Degrade
  <2>8. /\ state' \in {"Up", "Down"}
        /\ successes' \in 0..RecoverCount
        /\ rttOverCount' \in 0..RttFailCount
        /\ samplesInUp' \in 0..WindowSize
        /\ degrade' \in DegradeStates
        /\ reason' \in Reasons \cup {"none", "recovery"}
    <3>1. CASE FirstVerdict(s)
      BY <2>6, <2>7, <3>1 DEF FirstVerdict, TypeOK
    <3>2. CASE StayUp(s)
      BY <2>6, <2>7, <3>2 DEF StayUp, TypeOK
    <3>3. CASE GoDown(s)
      BY <2>6, <2>7, <3>3 DEF GoDown, TypeOK
    <3>4. CASE StayDown(s)
      BY <2>6, <2>7, <3>4 DEF StayDown, TypeOK
    <3>5. CASE GoUp(s)
      <4>1. /\ state' = "Up"
            /\ reason' = "recovery"
            /\ successes' = SuccessesAfter(s)
            /\ rttOverCount' = RttOverAfter(s)
            /\ samplesInUp' = 0
            /\ degrade' = Degrade(FALSE, DegradeAfter(s).enter, 0, DegradeAfter(s).out)
        BY <3>5 DEF GoUp
      <4>2. 0 \in 0..WindowSize
        OBVIOUS
      <4>3. QED
        BY <2>6, <2>7, <4>1, <4>2, Zenon
    <3>6. QED
      BY <1>2, <3>1, <3>2, <3>3, <3>4, <3>5 DEF Update
  <2>9. QED
    BY <2>2, <2>3, <2>4, <2>5, <2>8 DEF TypeOK
<1>3. QED
  BY <1>1, <1>2 DEF Next

(* An empty window and a line that is down are well-typed.                 *)
LEMMA TypeInit ==
  Init => TypeOK /\ LostCountExact
<1> SUFFICES ASSUME Init PROVE TypeOK /\ LostCountExact
  OBVIOUS
<1>1. LostCountExact
  <2>1. {i \in DOMAIN window : ~window[i]} = {}
    BY DEF Init
  <2>2. QED
    BY <2>1, FS_EmptySet DEF Init, LostCountExact, Failures
<1>2. TypeOK
  BY ConfigAssumption DEF Init, TypeOK, DegradeStates, NotDegraded, Degrade
<1>3. QED
  BY <1>1, <1>2

(* For every configuration the daemon accepts, the estimator keeps its     *)
(* types and lost_count is exactly the number of failures in the window.   *)
THEOREM LostCountCorrect == Spec => [](TypeOK /\ LostCountExact)
<1>1. TypeOK /\ LostCountExact /\ [Next]_vars => (TypeOK /\ LostCountExact)'
  BY TypeStep
<1>2. QED
  BY <1>1, TypeInit, PTL DEF Spec

(* The types alone, as the runs check them.                                *)
THEOREM TypesKept == Spec => []TypeOK
BY LostCountCorrect, PTL

-----------------------------------------------------------------------------
(* Failure detection is never overdue.  UpIsJustified is not inductive:    *)
(* the first probe takes a line UP without looking at the window, which is *)
(* sound only because nothing has entered it before.                       *)

FreshStart ==
  firstProbe =>
    state = "Down" /\ window = <<>> /\ lostCount = 0 /\ successes = 0 /\ rttOverCount = 0

EstimatorInv == TypeOK /\ LostCountExact /\ FreshStart /\ UpIsJustified

(* Which of the five verdicts is behind each pair of states.               *)
LEMMA Verdicts ==
  ASSUME TypeOK, FreshStart, NEW s \in Samples, Update(s)
  PROVE  /\ state' \in {"Up", "Down"}
         /\ state = "Up" /\ state' = "Up" => StayUp(s)
         /\ state = "Up" /\ state' = "Down" => GoDown(s)
         /\ state = "Down" /\ state' = "Down" => StayDown(s) \/ (FirstVerdict(s) /\ s = "fail")
         /\ state = "Down" /\ state' = "Up" => GoUp(s) \/ (FirstVerdict(s) /\ s # "fail")
<1>1. CASE FirstVerdict(s)
  BY <1>1 DEF FirstVerdict, FreshStart
<1>2. CASE StayUp(s)
  BY <1>2 DEF StayUp
<1>3. CASE GoDown(s)
  BY <1>3 DEF GoDown
<1>4. CASE StayDown(s)
  BY <1>4 DEF StayDown
<1>5. CASE GoUp(s)
  BY <1>5 DEF GoUp
<1>6. QED
  BY <1>1, <1>2, <1>3, <1>4, <1>5 DEF Update

(* A full window of a line with a fresh history shows no loss.             *)
LEMMA NoLossIsNotAbove ==
  ASSUME NEW w \in Seq(BOOLEAN), NEW percent \in 0..100
  PROVE  ~LossAbove(0, w, percent)
<1>1. Len(w) \in Nat
  OBVIOUS
<1>2. percent * Len(w) >= 0
  BY <1>1
<1>3. QED
  BY <1>2 DEF LossAbove

(* One sample keeps the line justified.                                    *)
LEMMA JustifiedStep ==
  ASSUME EstimatorInv, NEW s \in Samples, Update(s)
  PROVE  UpIsJustified'
<1> USE ConfigAssumption
<1>1. TypeOK /\ LostCountExact /\ FreshStart
  BY DEF EstimatorInv
<1>2. window' = WindowAfter(s) /\ lostCount' = LostAfter(s) /\ timeouts' = TimeoutsAfter(s)
  BY DEF Update
<1>3. s # "fail" => timeouts' < FailDown
  BY <1>2 DEF TimeoutsAfter
<1>4. window' \in Seq(BOOLEAN)
  BY <1>1, <1>2, SlideWindow
<1>5. CASE StayUp(s)
  <2>1. TimeoutsAfter(s) < FailDown
    BY <1>5, <1>1 DEF StayUp, DownReason, TimeoutsAfter, TypeOK, Bump
  <2>2. WindowFull(WindowAfter(s)) => ~LossAbove(LostAfter(s), WindowAfter(s), LossDown)
    BY <1>5 DEF StayUp, DownReason
  <2>3. WindowFull(window') => ~LossAbove(lostCount', window', LossDown)
    BY <1>2, <2>2
  <2>4. QED
    BY <1>2, <2>1, <2>3 DEF UpIsJustified, WindowFull, LossAbove
<1>6. CASE GoUp(s)
  <2>1. samplesInUp' = 0
    BY <1>6 DEF GoUp
  <2>2. s # "fail"
    BY <1>6 DEF GoUp, Recovers, SuccessesAfter
  <2>3. QED
    BY <1>3, <2>1, <2>2 DEF UpIsJustified
<1>7. CASE FirstVerdict(s) /\ s # "fail"
  <2>1. window = <<>> /\ lostCount = 0
    BY <1>1, <1>7 DEF FirstVerdict, FreshStart
  <2>2. ~WindowFull(window)
    BY <2>1 DEF WindowFull
  <2>3. lostCount' = 0
    BY <1>2, <1>7, <2>1, <2>2 DEF LostAfter, LostKept
  <2>4. ~LossAbove(lostCount', window', LossDown)
    BY <1>4, <2>3, NoLossIsNotAbove
  <2>5. QED
    BY <1>3, <1>7, <2>4 DEF UpIsJustified, LossAbove
<1>8. CASE state' = "Down"
  BY <1>8 DEF UpIsJustified
<1>9. state \in {"Up", "Down"}
  BY <1>1 DEF TypeOK
<1>10. QED
  BY <1>1, <1>5, <1>6, <1>7, <1>8, <1>9, Verdicts

(* The invariant is inductive.                                             *)
LEMMA EstimatorStep ==
  ASSUME EstimatorInv, [Next]_vars
  PROVE  EstimatorInv'
<1>1. CASE UNCHANGED vars
  BY <1>1 DEF vars, EstimatorInv, TypeOK, LostCountExact, Failures, FreshStart, UpIsJustified,
              WindowFull, LossAbove
<1>2. ASSUME NEW s \in Samples, Update(s)
      PROVE  EstimatorInv'
  <2>1. FreshStart'
    BY <1>2 DEF Update, FreshStart
  <2>2. UpIsJustified'
    BY <1>2, JustifiedStep
  <2>3. TypeOK' /\ LostCountExact'
    BY <1>2, TypeStep DEF EstimatorInv, Next
  <2>4. QED
    BY <2>1, <2>2, <2>3 DEF EstimatorInv
<1>3. QED
  BY <1>1, <1>2 DEF Next

(* A new estimator satisfies it.                                           *)
LEMMA EstimatorInit ==
  Init => EstimatorInv
<1>1. Init => FreshStart /\ UpIsJustified
  BY DEF Init, FreshStart, UpIsJustified
<1>2. QED
  BY <1>1, TypeInit DEF EstimatorInv

(* A line that is UP has not missed FailDown probes in a row, and from its *)
(* first sample after a recovery on its full window shows no more loss     *)
(* than loss_threshold_down.                                               *)
THEOREM DetectionNotOverdue == Spec => []UpIsJustified
<1>1. EstimatorInv /\ [Next]_vars => EstimatorInv'
  BY EstimatorStep
<1>2. EstimatorInv => UpIsJustified
  BY DEF EstimatorInv
<1>3. QED
  BY <1>1, <1>2, EstimatorInit, PTL DEF Spec

-----------------------------------------------------------------------------
(* The promises of LinkQualityHistory.  Effects collects what one sample   *)
(* does to the variables the five verdicts treat differently.              *)

LEMMA Effects ==
  ASSUME TypeOK, FreshStart, NEW s \in Samples, Update(s)
  PROVE  /\ successes' = IF state = "Up" /\ state' = "Down" THEN 0 ELSE SuccessesAfter(s)
         /\ samplesInUp' = IF state = "Down" /\ state' = "Up" /\ ~firstProbe
                           THEN 0 ELSE SamplesInUpAfter
         /\ degrade'.on = IF state = "Down" /\ state' = "Up" /\ ~firstProbe
                          THEN FALSE ELSE DegradeAfter(s).on
         /\ degrade'.out = DegradeAfter(s).out
         /\ state = "Down" /\ state' = "Up" /\ ~firstProbe => SuccessesAfter(s) >= RecoverCount
         /\ state = "Down" /\ state' = "Up" => s # "fail"
<1>1. CASE FirstVerdict(s)
  BY <1>1 DEF FirstVerdict, FreshStart
<1>2. CASE StayUp(s)
  BY <1>2 DEF StayUp
<1>3. CASE GoDown(s)
  BY <1>3 DEF GoDown
<1>4. CASE StayDown(s)
  BY <1>4 DEF StayDown
<1>5. CASE GoUp(s)
  <2>1. s # "fail"
    BY <1>5, ConfigAssumption DEF GoUp, Recovers, SuccessesAfter
  <2>2. degrade' = Degrade(FALSE, DegradeAfter(s).enter, 0, DegradeAfter(s).out)
    BY <1>5 DEF GoUp
  <2>3. degrade'.on = FALSE /\ degrade'.out = DegradeAfter(s).out
    BY <2>2 DEF Degrade
  <2>4. /\ ~firstProbe /\ state = "Down" /\ state' = "Up"
        /\ successes' = SuccessesAfter(s) /\ samplesInUp' = 0
        /\ SuccessesAfter(s) >= RecoverCount
    BY <1>5 DEF GoUp, Recovers
  <2>5. QED
    BY <2>1, <2>3, <2>4
<1>6. QED
  BY <1>1, <1>2, <1>3, <1>4, <1>5 DEF Update

(* What the degrade machine may do: it counts the samples out of ECMP from *)
(* the moment it turns on, turns off only after MinOutSamples of them, and *)
(* turns on only over a full and settled window that shows the loss.       *)
LEMMA DegradeMoves ==
  ASSUME TypeOK, NEW s \in Samples
  PROVE  /\ DegradeLoss = 0 => ~DegradeAfter(s).on
         /\ DegradeAfter(s).on /\ degrade.on =>
              DegradeAfter(s).out \in {degrade.out, Bump(degrade.out, MinOutSamples)}
         /\ DegradeAfter(s).on /\ ~degrade.on =>
              /\ DegradeAfter(s).out = 0
              /\ WindowFull(WindowAfter(s))
              /\ SamplesInUpAfter >= WindowSize
              /\ LossAtLeast(LostAfter(s), WindowAfter(s), DegradeLoss)
         /\ ~DegradeAfter(s).on /\ degrade.on /\ DegradeLoss # 0 =>
              Bump(degrade.out, MinOutSamples) >= MinOutSamples
<1> DEFINE bad   == LossAtLeast(LostAfter(s), WindowAfter(s), DegradeLoss)
           clean == ExitLevel(LostAfter(s), WindowAfter(s))
           out   == Bump(degrade.out, MinOutSamples)
<1>1. CASE DegradeLoss = 0
  BY <1>1 DEF DegradeAfter, NotDegraded, Degrade
<1>2. CASE DegradeLoss # 0 /\ ~WindowFull(WindowAfter(s))
  <2>1. DegradeAfter(s) = Degrade(degrade.on, 0, 0, degrade.out)
    BY <1>2 DEF DegradeAfter
  <2>2. DegradeAfter(s).on = degrade.on /\ DegradeAfter(s).out = degrade.out
    BY <2>1 DEF Degrade
  <2>3. QED
    BY <1>2, <2>2
<1>3. CASE DegradeLoss # 0 /\ WindowFull(WindowAfter(s)) /\ degrade.on
  <2>1. DegradeAfter(s) = Leaving(clean)
    BY <1>3 DEF DegradeAfter
  <2>2. \/ Leaving(clean).on /\ Leaving(clean).out = out
        \/ ~Leaving(clean).on /\ out >= MinOutSamples
    BY DEF Leaving, NotDegraded, Degrade
  <2>3. QED
    BY <1>3, <2>1, <2>2
<1>4. CASE DegradeLoss # 0 /\ WindowFull(WindowAfter(s)) /\ ~degrade.on
  <2>1. DegradeAfter(s) = Entering(bad)
    BY <1>4 DEF DegradeAfter
  <2>2. SamplesInUpAfter \in Nat
    BY ConfigAssumption DEF SamplesInUpAfter, TypeOK, Bump
  <2>3. \/ ~Entering(bad).on
        \/ Entering(bad).out = 0 /\ SamplesInUpAfter >= WindowSize /\ bad
    BY <2>2, ConfigAssumption DEF Entering, Degrade
  <2>4. QED
    BY <1>4, <2>1, <2>3
<1>5. QED
  BY <1>1, <1>2, <1>3, <1>4

(* Where each verdict of the slid window comes from.                       *)
LEMMA SlideVerdicts ==
  ASSUME TypeOK, NEW s \in Samples
  PROVE  \E d \in {0, 1} :
           /\ Len(WindowAfter(s)) = Len(window) - d + 1
           /\ Len(window) - d \in Nat
           /\ \A i \in 1..(Len(window) - d) : WindowAfter(s)[i] = window[i + d]
           /\ WindowAfter(s)[Len(window) - d + 1] = (s # "fail")
<1>1. window \in Seq(BOOLEAN) /\ Len(window) \in Nat /\ WindowSize \in Nat \ {0}
  BY ConfigAssumption DEF TypeOK
<1>2. CASE WindowFull(window)
  <2>1. Len(window) >= 1
    BY <1>1, <1>2 DEF WindowFull
  <2>2. WindowAfter(s) = Append(Tail(window), s # "fail")
    BY <1>2 DEF WindowAfter, WindowKept
  <2>3. /\ Tail(window) \in Seq(BOOLEAN) /\ Len(Tail(window)) = Len(window) - 1
        /\ \A i \in 1..(Len(window) - 1) : Tail(window)[i] = window[i + 1]
    BY <1>1, <2>1
  <2>4. /\ Len(WindowAfter(s)) = Len(window) - 1 + 1
        /\ Len(window) - 1 \in Nat
        /\ \A i \in 1..(Len(window) - 1) : WindowAfter(s)[i] = window[i + 1]
        /\ WindowAfter(s)[Len(window) - 1 + 1] = (s # "fail")
    BY <1>1, <2>1, <2>2, <2>3
  <2>5. QED
    BY <2>4
<1>3. CASE ~WindowFull(window)
  <2>1. WindowAfter(s) = Append(window, s # "fail")
    BY <1>3 DEF WindowAfter, WindowKept
  <2>2. /\ Len(WindowAfter(s)) = Len(window) - 0 + 1
        /\ Len(window) - 0 \in Nat
        /\ \A i \in 1..(Len(window) - 0) : WindowAfter(s)[i] = window[i + 0]
        /\ WindowAfter(s)[Len(window) - 0 + 1] = (s # "fail")
    BY <1>1, <2>1
  <2>3. QED
    BY <2>2
<1>4. QED
  BY <1>2, <1>3

(* The failures among the last k verdicts of w, and "the last k verdicts   *)
(* of w are successes".                                                    *)
FailsSince(w, k) == {i \in DOMAIN w : i > Len(w) - k /\ ~w[i]}
LastOk(w, k) == \A i \in DOMAIN w : i > Len(w) - k => w[i]

(* The failures in a suffix of a window are finitely many.                 *)
LEMMA FailsSinceFinite ==
  ASSUME NEW w \in Seq(BOOLEAN), NEW k \in Nat
  PROVE  /\ IsFiniteSet(FailsSince(w, k))
         /\ Cardinality(FailsSince(w, k)) \in Nat
         /\ Cardinality(FailsSince(w, k)) <= Len(w)
<1>0. Len(w) \in Nat
  OBVIOUS
<1>1. IsFiniteSet(1..Len(w)) /\ Cardinality(1..Len(w)) = Len(w)
  BY <1>0, FS_Interval
<1>2. FailsSince(w, k) \in SUBSET (1..Len(w))
  BY DEF FailsSince
<1>3. IsFiniteSet(FailsSince(w, k)) /\ Cardinality(FailsSince(w, k)) <= Len(w)
  BY <1>1, <1>2, FS_Subset
<1>4. Cardinality(FailsSince(w, k)) \in Nat
  BY <1>3, FS_CardinalityType
<1>5. QED
  BY <1>3, <1>4

(* A suffix that covers the window holds all its failures.                 *)
LEMMA FailsSinceAll ==
  ASSUME NEW w \in Seq(BOOLEAN), NEW k \in Nat, Len(w) <= k
  PROVE  Cardinality(FailsSince(w, k)) = Failures(w)
<1>1. FailsSince(w, k) = {i \in DOMAIN w : ~w[i]}
  BY DEF FailsSince
<1>2. QED
  BY <1>1, Zenon DEF Failures

(* One more sample: the failures of the suffix that grows with it are the  *)
(* old ones, at most, and the sample's own.                                *)
LEMMA SlideFails ==
  ASSUME TypeOK, LostCountExact, NEW s \in Samples, NEW k \in Nat
  PROVE  Cardinality(FailsSince(WindowAfter(s), k + 1))
           <= Cardinality(FailsSince(window, k)) + (IF s = "fail" THEN 1 ELSE 0)
<1> DEFINE w == WindowAfter(s)
           F == FailsSince(window, k)
           G == FailsSince(w, k + 1)
<1>1. window \in Seq(BOOLEAN) /\ w \in Seq(BOOLEAN) /\ Len(window) \in Nat
  BY SlideWindow DEF TypeOK
<1>2. PICK d \in {0, 1} :
        /\ Len(w) = Len(window) - d + 1
        /\ Len(window) - d \in Nat
        /\ \A i \in 1..(Len(window) - d) : w[i] = window[i + d]
        /\ w[Len(window) - d + 1] = (s # "fail")
  BY SlideVerdicts
<1> DEFINE n == Len(w)
           H == G \ {n}
           shift == [i \in H |-> i + d]
<1>3. IsFiniteSet(F) /\ Cardinality(F) \in Nat
  BY <1>1, FailsSinceFinite
<1>4. IsFiniteSet(G) /\ Cardinality(G) \in Nat
  <2>1. k + 1 \in Nat
    OBVIOUS
  <2>2. QED
    BY <1>1, <2>1, FailsSinceFinite
<1>5. \A i \in H : i \in 1..(Len(window) - d) /\ i + d \in F
  <2>1. \A i \in H : i \in 1..(Len(window) - d) /\ i > n - (k + 1) /\ ~w[i]
    BY <1>1, <1>2 DEF FailsSince
  <2>2. \A i \in H : i + d \in DOMAIN window /\ i + d > Len(window) - k /\ ~window[i + d]
    <3>1. \A i \in H : i + d \in DOMAIN window /\ i + d > Len(window) - k
      BY <1>1, <1>2, <2>1
    <3>2. \A i \in H : w[i] = window[i + d]
      BY <1>2, <2>1, Zenon
    <3>3. QED
      BY <2>1, <3>1, <3>2, Zenon
  <2>3. QED
    BY <2>1, <2>2 DEF FailsSince
<1>6. shift \in Injection(H, F)
  BY <1>5 DEF Injection, IsInjective
<1>7. Cardinality(H) <= Cardinality(F)
  BY <1>3, <1>6, FS_Injection
<1>8. Cardinality(H) = IF n \in G THEN Cardinality(G) - 1 ELSE Cardinality(G)
  BY <1>4, FS_RemoveElement
<1>9. s # "fail" => n \notin G
  BY <1>2 DEF FailsSince
<1> HIDE DEF F, G, H
<1>10. Cardinality(G) <= Cardinality(F) + (IF s = "fail" THEN 1 ELSE 0)
  BY <1>3, <1>4, <1>7, <1>8, <1>9
<1>11. QED
  BY <1>10 DEF F, G

(* A success lengthens a run of successes at the window's end.             *)
LEMMA SlideOk ==
  ASSUME TypeOK, NEW s \in Samples, s # "fail", NEW k \in Nat, LastOk(window, k)
  PROVE  LastOk(WindowAfter(s), k + 1)
<1>1. window \in Seq(BOOLEAN) /\ Len(window) \in Nat
  BY DEF TypeOK
<1>2. PICK d \in {0, 1} :
        /\ Len(WindowAfter(s)) = Len(window) - d + 1
        /\ Len(window) - d \in Nat
        /\ \A i \in 1..(Len(window) - d) : WindowAfter(s)[i] = window[i + d]
        /\ WindowAfter(s)[Len(window) - d + 1] = (s # "fail")
  BY SlideVerdicts
<1>3. DOMAIN WindowAfter(s) = 1..Len(WindowAfter(s))
  <2>1. \A v : DOMAIN Append(WindowKept, v) = 1..Len(Append(WindowKept, v))
    BY <1>1, ConfigAssumption DEF WindowKept, WindowFull
  <2>2. QED
    BY <2>1 DEF WindowAfter
<1>4. ASSUME NEW i \in DOMAIN WindowAfter(s), i > Len(WindowAfter(s)) - (k + 1)
      PROVE  WindowAfter(s)[i]
  <2>1. CASE i = Len(WindowAfter(s))
    BY <1>2, <2>1
  <2>2. CASE i # Len(WindowAfter(s))
    <3>1. i \in 1..(Len(window) - d) /\ i + d > Len(window) - k
      BY <1>1, <1>2, <1>3, <1>4, <2>2
    <3>2. i + d \in DOMAIN window /\ window[i + d]
      BY <1>1, <1>2, <3>1 DEF LastOk
    <3>3. QED
      BY <1>2, <3>1, <3>2
  <2>3. QED
    BY <2>1, <2>2
<1>5. QED
  BY <1>4 DEF LastOk

(* A window whose last k verdicts are successes has lost at most the rest. *)
LEMMA LastOkBoundsLoss ==
  ASSUME NEW w \in Seq(BOOLEAN), NEW k \in Nat, LastOk(w, k)
  PROVE  Failures(w) <= IF Len(w) > k THEN Len(w) - k ELSE 0
<1> DEFINE n == IF Len(w) > k THEN Len(w) - k ELSE 0
           F == {i \in DOMAIN w : ~w[i]}
<1>1. Len(w) \in Nat /\ n \in Nat /\ DOMAIN w = 1..Len(w)
  OBVIOUS
<1>2. F \in SUBSET (1..n)
  BY <1>1 DEF LastOk
<1>3. n \in Nat
  BY <1>1
<1> HIDE DEF n
<1>4. IsFiniteSet(1..n) /\ Cardinality(1..n) = n
  BY <1>3, FS_Interval
<1>5. Cardinality(F) <= n
  BY <1>2, <1>4, FS_Subset
<1>6. QED
  BY <1>5 DEF Failures, n

-----------------------------------------------------------------------------
(* The inductive invariant behind the promises: what each history variable *)
(* knows about the estimator's own counters and about its window.          *)

HistoryTypes ==
  /\ failsUp \in 0..WindowSize
  /\ goodDown \in 0..RecoverCount
  /\ away \in 0..AwayBound
  /\ hurt \in BOOLEAN
  /\ firstProbe => away = AwayBound

(* While a line is DOWN its successes are those probed since the verdict,  *)
(* and it has been out of ECMP for at least as many samples.               *)
DownCounts == state = "Down" => goodDown = successes /\ away >= successes

(* degrade.out never exceeds the time out of ECMP.                         *)
OutCounts ==
  /\ degrade.on => away >= degrade.out
  /\ DegradeLoss = 0 => ~degrade.on

(* successes is the length of a run at the window's end, and a line that   *)
(* came UP and was not hurt since still shows the run that brought it up.  *)
RunInWindow ==
  /\ LastOk(window, successes)
  /\ state = "Up" /\ ~hurt => LastOk(window, RecoverCount)

(* samples_in_up delimits the part of the window probed since the line     *)
(* came UP, and failsUp counts the failures in it.                         *)
FreshPart == state = "Up" => Cardinality(FailsSince(window, samplesInUp)) <= failsUp

HistoryInv ==
  EstimatorInv /\ HistoryTypes /\ DownCounts /\ OutCounts /\ RunInWindow /\ FreshPart

(* The bound of away is the longer of the two stays it is compared with.   *)
LEMMA AwayBoundType ==
  AwayBound \in Nat /\ AwayBound >= MinOutSamples /\ AwayBound >= RecoverCount
BY ConfigAssumption DEF AwayBound

(* One sample keeps the types of the history variables.                    *)
LEMMA HistoryTypesStep ==
  ASSUME HistoryInv, NEW s \in Samples, HUpdate(s)
  PROVE  HistoryTypes'
<1> USE ConfigAssumption, AwayBoundType
<1>1. HistoryTypes
  BY DEF HistoryInv
<1>2. /\ Bump(failsUp, WindowSize) \in 0..WindowSize
      /\ Bump(goodDown, RecoverCount) \in 0..RecoverCount
      /\ Bump(away, AwayBound) \in 0..AwayBound
  BY <1>1, BumpType DEF HistoryTypes
<1>3. failsUp' \in 0..WindowSize /\ goodDown' \in 0..RecoverCount
  BY <1>1, <1>2 DEF HUpdate, HistoryTypes
<1>4. away' \in 0..AwayBound
  BY <1>2 DEF HUpdate
<1>5. hurt' \in BOOLEAN
  BY <1>1, Zenon DEF HUpdate, HistoryTypes
<1>6. ~firstProbe'
  BY DEF HUpdate, Update
<1>7. QED
  BY <1>3, <1>4, <1>5, <1>6 DEF HistoryTypes

(* ... keeps what is counted while DOWN,                                   *)
LEMMA DownCountsStep ==
  ASSUME HistoryInv, NEW s \in Samples, HUpdate(s)
  PROVE  DownCounts'
<1> USE ConfigAssumption, AwayBoundType
<1>1. TypeOK /\ FreshStart /\ HistoryTypes /\ DownCounts
  BY DEF HistoryInv, EstimatorInv
<1>2. Update(s)
  BY DEF HUpdate
<1>3. /\ successes' = IF state = "Up" /\ state' = "Down" THEN 0 ELSE SuccessesAfter(s)
      /\ state' \in {"Up", "Down"} /\ state \in {"Up", "Down"}
  BY <1>1, <1>2, Effects, Verdicts DEF TypeOK
<1>4. CASE state = "Up" /\ state' = "Down"
  <2>1. goodDown' = 0 /\ successes' = 0
    BY <1>3, <1>4 DEF HUpdate
  <2>2. away' \in Nat
    BY HistoryTypesStep DEF HistoryTypes
  <2>3. QED
    BY <2>1, <2>2 DEF DownCounts
<1>5. CASE state = "Down" /\ state' = "Down"
  <2>1. ~LeftEcmp
    BY <1>5 DEF LeftEcmp, InEcmp
  <2>2. away' = Bump(away, AwayBound)
    BY <2>1 DEF HUpdate
  <2>3. goodDown' = IF s = "fail" THEN 0 ELSE Bump(goodDown, RecoverCount)
    BY <1>5 DEF HUpdate
  <2>4. successes' = IF s = "fail" THEN 0 ELSE Bump(successes, RecoverCount)
    BY <1>3, <1>5 DEF SuccessesAfter
  <2>5. goodDown = successes /\ away >= successes
    BY <1>1, <1>5 DEF DownCounts
  <2>6. away \in 0..AwayBound /\ successes \in 0..RecoverCount
    BY <1>1 DEF HistoryTypes, TypeOK
  <2>7. Bump(away, AwayBound) >= Bump(successes, RecoverCount) /\ Bump(away, AwayBound) >= 0
    BY <2>5, <2>6 DEF Bump
  <2>8. QED
    BY <2>2, <2>3, <2>4, <2>5, <2>7 DEF DownCounts
<1>6. CASE state' = "Up"
  BY <1>6 DEF DownCounts
<1>7. QED
  BY <1>3, <1>4, <1>5, <1>6

(* ... keeps the count of samples out of ECMP,                             *)
LEMMA OutCountsStep ==
  ASSUME HistoryInv, NEW s \in Samples, HUpdate(s)
  PROVE  OutCounts'
<1> USE ConfigAssumption, AwayBoundType
<1>1. TypeOK /\ FreshStart /\ HistoryTypes /\ OutCounts
  BY DEF HistoryInv, EstimatorInv
<1>2. Update(s)
  BY DEF HUpdate
<1>3. /\ degrade'.out = DegradeAfter(s).out
      /\ degrade'.on => DegradeAfter(s).on
  BY <1>1, <1>2, Effects
<1>4. DegradeLoss = 0 => ~degrade'.on
  BY <1>1, <1>3, DegradeMoves
<1>5. ASSUME degrade'.on
      PROVE  away' >= degrade'.out
  <2>1. away' \in Nat
    BY HistoryTypesStep DEF HistoryTypes
  <2>2. CASE ~degrade.on
    <3>1. degrade'.out = 0
      BY <1>1, <1>3, <1>5, <2>2, DegradeMoves
    <3>2. QED
      BY <2>1, <3>1
  <2>3. CASE degrade.on
    <3>1. ~LeftEcmp
      BY <2>3 DEF LeftEcmp, InEcmp
    <3>2. away' = Bump(away, AwayBound)
      BY <3>1 DEF HUpdate
    <3>3. degrade'.out \in {degrade.out, Bump(degrade.out, MinOutSamples)}
      BY <1>1, <1>3, <1>5, <2>3, DegradeMoves
    <3>4. away >= degrade.out
      BY <1>1, <2>3 DEF OutCounts
    <3>5. degrade.out \in 0..MinOutSamples /\ away \in 0..AwayBound
      BY <1>1 DEF TypeOK, DegradeStates, HistoryTypes
    <3>6. QED
      BY <3>2, <3>3, <3>4, <3>5 DEF Bump
  <2>4. QED
    BY <2>2, <2>3
<1>6. QED
  BY <1>4, <1>5 DEF OutCounts

(* ... keeps the run of successes at the window's end,                     *)
LEMMA RunInWindowStep ==
  ASSUME HistoryInv, NEW s \in Samples, HUpdate(s)
  PROVE  RunInWindow'
<1> USE ConfigAssumption
<1>1. TypeOK /\ LostCountExact /\ FreshStart /\ RunInWindow
  BY DEF HistoryInv, EstimatorInv
<1>2. Update(s)
  BY DEF HUpdate
<1>3. window' = WindowAfter(s)
  BY <1>2 DEF Update
<1>4. /\ window \in Seq(BOOLEAN) /\ successes \in 0..RecoverCount
      /\ window' \in Seq(BOOLEAN) /\ Len(window') \in 1..WindowSize
  BY <1>1, <1>3, SlideWindow DEF TypeOK
<1>5. successes' = IF state = "Up" /\ state' = "Down" THEN 0 ELSE SuccessesAfter(s)
  BY <1>1, <1>2, Effects
<1>6. \A w \in Seq(BOOLEAN) : LastOk(w, 0)
  BY DEF LastOk
<1>7. ASSUME NEW w \in Seq(BOOLEAN), NEW k \in Nat, NEW m \in Nat, m <= k, LastOk(w, k)
      PROVE  LastOk(w, m)
  <2>1. \A i \in DOMAIN w : i > Len(w) - m => i > Len(w) - k
    BY <1>7
  <2>2. QED
    BY <1>7, <2>1, Zenon DEF LastOk
<1>8. LastOk(window', successes')
  <2>1. CASE successes' = 0
    BY <1>4, <1>6, <2>1
  <2>2. CASE successes' # 0
    <3>1. s # "fail" /\ successes' = Bump(successes, RecoverCount)
      BY <1>5, <2>2 DEF SuccessesAfter
    <3>2. LastOk(window', successes + 1)
      BY <1>1, <1>3, <1>4, <3>1, SlideOk DEF RunInWindow
    <3>3. successes' \in Nat /\ successes + 1 \in Nat /\ successes' <= successes + 1
      BY <1>4, <3>1 DEF Bump
    <3>4. QED
      BY <1>4, <1>7, <3>2, <3>3
  <2>3. QED
    BY <2>1, <2>2
<1>9. ASSUME state' = "Up", ~hurt'
      PROVE  LastOk(window', RecoverCount)
  <2>1. CASE state = "Up"
    <3>1. ~hurt /\ s = "ok"
      BY <1>9, <2>1 DEF HUpdate, CameUp
    <3>2. LastOk(window, RecoverCount)
      BY <1>1, <2>1, <3>1 DEF RunInWindow
    <3>3. LastOk(window', RecoverCount + 1)
      BY <1>1, <1>3, <3>1, <3>2, SlideOk
    <3>4. QED
      BY <1>4, <1>7, <3>3
  <2>2. CASE state = "Down" /\ ~firstProbe
    <3>1. s # "fail" /\ SuccessesAfter(s) >= RecoverCount
      BY <1>1, <1>2, <1>9, <2>2, Effects
    <3>2. successes' >= RecoverCount /\ successes' \in Nat
      BY <1>4, <1>5, <1>9, <2>2, <3>1 DEF SuccessesAfter, Bump
    <3>3. QED
      BY <1>4, <1>7, <1>8, <3>2
  <2>3. CASE state = "Down" /\ firstProbe
    <3>1. s # "fail"
      BY <1>1, <1>2, <1>9, <2>3, Effects
    <3>2. window = <<>>
      BY <1>1, <2>3 DEF FreshStart
    <3>3. LastOk(window, RecoverCount)
      BY <3>2 DEF LastOk
    <3>4. LastOk(window', RecoverCount + 1)
      BY <1>1, <1>3, <3>1, <3>3, SlideOk
    <3>5. QED
      BY <1>4, <1>7, <3>4
  <2>4. QED
    BY <1>1, <2>1, <2>2, <2>3 DEF TypeOK
<1>10. QED
  BY <1>8, <1>9 DEF RunInWindow

(* ... and keeps the count of failures since the line came UP.             *)
LEMMA FreshPartStep ==
  ASSUME HistoryInv, NEW s \in Samples, HUpdate(s)
  PROVE  FreshPart'
<1> USE ConfigAssumption
<1>1. TypeOK /\ LostCountExact /\ FreshStart /\ HistoryTypes /\ FreshPart
  BY DEF HistoryInv, EstimatorInv
<1>2. Update(s)
  BY DEF HUpdate
<1>3. window' = WindowAfter(s) /\ lostCount' = LostAfter(s)
  BY <1>2 DEF Update
<1>4. /\ window \in Seq(BOOLEAN) /\ samplesInUp \in Nat /\ samplesInUp <= WindowSize
      /\ window' \in Seq(BOOLEAN) /\ Len(window') \in 1..WindowSize
      /\ samplesInUp' \in Nat
      /\ lostCount' = Failures(window')
  <2>1. TypeOK'
    BY <1>1, <1>2, TypeStep DEF Next
  <2>2. QED
    BY <1>1, <1>3, <2>1, SlideWindow DEF TypeOK
<1>5. samplesInUp' = IF state = "Down" /\ state' = "Up" /\ ~firstProbe
                     THEN 0 ELSE SamplesInUpAfter
  BY <1>1, <1>2, Effects
<1>6. CASE state = "Up" /\ state' = "Up"
  <2>1. samplesInUp' = Bump(samplesInUp, WindowSize)
    BY <1>5, <1>6 DEF SamplesInUpAfter
  <2>2. failsUp' = IF s = "fail" THEN Bump(failsUp, WindowSize) ELSE failsUp
    BY <1>6 DEF HUpdate, CameUp
  <2>3. Cardinality(FailsSince(window, samplesInUp)) <= failsUp
    BY <1>1, <1>6 DEF FreshPart
  <2>4. Cardinality(FailsSince(window', samplesInUp + 1))
          <= Cardinality(FailsSince(window, samplesInUp)) + (IF s = "fail" THEN 1 ELSE 0)
    BY <1>1, <1>3, <1>4, SlideFails
  <2>5. FailsSince(window', samplesInUp') = FailsSince(window', samplesInUp + 1)
    <3>1. CASE samplesInUp < WindowSize
      BY <2>1, <3>1 DEF Bump
    <3>2. CASE ~(samplesInUp < WindowSize)
      <4>1. samplesInUp = WindowSize /\ samplesInUp' = WindowSize
        BY <1>4, <2>1, <3>2 DEF Bump
      <4>2. \A i \in DOMAIN window' : i > Len(window') - WindowSize
                                      /\ i > Len(window') - (WindowSize + 1)
        BY <1>4
      <4>3. QED
        BY <4>1, <4>2 DEF FailsSince
    <3>3. QED
      BY <3>1, <3>2
  <2>6. /\ Cardinality(FailsSince(window', samplesInUp')) \in Nat
        /\ Cardinality(FailsSince(window', samplesInUp')) <= WindowSize
        /\ Cardinality(FailsSince(window, samplesInUp)) \in Nat
    <3>1. /\ Cardinality(FailsSince(window', samplesInUp')) \in Nat
          /\ Cardinality(FailsSince(window', samplesInUp')) <= Len(window')
      BY <1>4, FailsSinceFinite
    <3>2. Cardinality(FailsSince(window, samplesInUp)) \in Nat
      BY <1>4, FailsSinceFinite
    <3>3. Len(window') \in Nat /\ Len(window') <= WindowSize
      BY <1>4
    <3>4. QED
      BY <3>1, <3>2, <3>3
  <2>7. failsUp \in 0..WindowSize
    BY <1>1 DEF HistoryTypes
  <2>8. Cardinality(FailsSince(window', samplesInUp')) <= failsUp'
    BY <2>2, <2>3, <2>4, <2>5, <2>6, <2>7 DEF Bump
  <2>9. QED
    BY <2>8 DEF FreshPart
<1>7. CASE state = "Down" /\ state' = "Up"
  <2>1. failsUp' = 0
    BY <1>7 DEF HUpdate, CameUp
  <2>2. CASE ~firstProbe
    <3>1. samplesInUp' = 0
      BY <1>5, <1>7, <2>2
    <3>2. FailsSince(window', 0) = {}
      BY <1>4 DEF FailsSince
    <3>3. Cardinality(FailsSince(window', samplesInUp')) = 0
      BY <3>1, <3>2, FS_EmptySet
    <3>4. QED
      BY <2>1, <3>3 DEF FreshPart
  <2>3. CASE firstProbe
    <3>1. s # "fail"
      BY <1>1, <1>2, <1>7, Effects
    <3>2. window = <<>> /\ lostCount = 0
      BY <1>1, <2>3 DEF FreshStart
    <3>3. lostCount' = 0
      <4>1. ~WindowFull(window)
        BY <3>2 DEF WindowFull
      <4>2. QED
        BY <1>3, <3>1, <3>2, <4>1 DEF LostAfter, LostKept
    <3>4. FailsSince(window', samplesInUp') \in SUBSET {i \in DOMAIN window' : ~window'[i]}
      BY DEF FailsSince
    <3>5. Cardinality({i \in DOMAIN window' : ~window'[i]}) = 0
      BY <1>4, <3>3 DEF Failures
    <3>6. Cardinality(FailsSince(window', samplesInUp')) <= 0
      BY <1>4, <3>4, <3>5, FailuresFinite, FS_Subset
    <3>7. QED
      BY <2>1, <3>6 DEF FreshPart
  <2>4. QED
    BY <2>2, <2>3
<1>8. CASE state' = "Down"
  BY <1>8 DEF FreshPart
<1>9. state \in {"Up", "Down"} /\ state' \in {"Up", "Down"}
  BY <1>1, <1>2, Verdicts DEF TypeOK
<1>10. QED
  BY <1>6, <1>7, <1>8, <1>9

(* The invariant holds in the beginning ...                                *)
LEMMA HistoryInit ==
  HInit => HistoryInv
<1> SUFFICES ASSUME HInit PROVE HistoryInv
  OBVIOUS
<1> USE ConfigAssumption, AwayBoundType
<1>1. EstimatorInv
  BY EstimatorInit DEF HInit
<1>2. /\ state = "Down" /\ window = <<>> /\ successes = 0 /\ degrade = NotDegraded
      /\ failsUp = 0 /\ hurt = FALSE /\ goodDown = 0 /\ away = AwayBound
  BY DEF HInit, Init
<1>3. HistoryTypes /\ DownCounts
  <2>1. /\ failsUp \in 0..WindowSize /\ goodDown \in 0..RecoverCount /\ away \in 0..AwayBound
        /\ away >= successes /\ goodDown = successes /\ away = AwayBound
    BY <1>2
  <2>2. hurt \in BOOLEAN
    BY <1>2, Zenon
  <2>3. QED
    BY <2>1, <2>2, Zenon DEF HistoryTypes, DownCounts
<1>4. OutCounts
  BY <1>2 DEF OutCounts, NotDegraded, Degrade
<1>5. RunInWindow /\ FreshPart
  BY <1>2 DEF RunInWindow, LastOk, FreshPart
<1>6. QED
  BY <1>1, <1>3, <1>4, <1>5 DEF HistoryInv

(* ... and after every sample.                                             *)
LEMMA HistoryStep ==
  ASSUME HistoryInv, [HNext]_hvars
  PROVE  HistoryInv'
<1>1. CASE UNCHANGED hvars
  <2>1. EstimatorInv'
    BY <1>1, EstimatorStep DEF hvars, HistoryInv
  <2>2. /\ UNCHANGED <<state, window, successes, samplesInUp, degrade, firstProbe>>
        /\ UNCHANGED <<failsUp, hurt, goodDown, away>>
    BY <1>1 DEF hvars, vars
  <2>3. HistoryTypes' /\ DownCounts' /\ OutCounts'
    BY <2>2 DEF HistoryInv, HistoryTypes, DownCounts, OutCounts
  <2>4. RunInWindow' /\ FreshPart'
    BY <2>2 DEF HistoryInv, RunInWindow, LastOk, FreshPart, FailsSince
  <2>5. QED
    BY <2>1, <2>3, <2>4 DEF HistoryInv
<1>2. ASSUME NEW s \in Samples, HUpdate(s)
      PROVE  HistoryInv'
  <2>1. EstimatorInv'
    BY <1>2, EstimatorStep DEF HUpdate, Next, HistoryInv
  <2>2. QED
    BY <1>2, <2>1, HistoryTypesStep, DownCountsStep, OutCountsStep, RunInWindowStep,
       FreshPartStep DEF HistoryInv
<1>3. QED
  BY <1>1, <1>2 DEF HNext

-----------------------------------------------------------------------------
(* The promises, for every accepted configuration.                         *)

(* The invariant of every behaviour.                                       *)
LEMMA HistoryAlways == HSpec => []HistoryInv
<1>1. HistoryInv /\ [HNext]_hvars => HistoryInv'
  BY HistoryStep
<1>2. QED
  BY <1>1, HistoryInit, PTL DEF HSpec

(* A line that went DOWN comes back only on RecoverCount consecutive       *)
(* successes, all probed after the verdict.                                *)
THEOREM RecoveryIsServed == HSpec => RecoveryServed
<1>1. ASSUME HistoryInv, [HNext]_hvars
      PROVE  [CameUp /\ ~firstProbe => goodDown + 1 >= RecoverCount]_hvars
  <2>1. ASSUME NEW s \in Samples, HUpdate(s), CameUp, ~firstProbe
        PROVE  goodDown + 1 >= RecoverCount
    <3>1. TypeOK /\ FreshStart /\ DownCounts /\ Update(s)
      BY <1>1, <2>1 DEF HistoryInv, EstimatorInv, HUpdate
    <3>2. state = "Down" /\ state' = "Up"
      BY <2>1 DEF CameUp
    <3>3. SuccessesAfter(s) >= RecoverCount /\ s # "fail"
      BY <2>1, <3>1, <3>2, Effects
    <3>4. goodDown = successes
      BY <3>1, <3>2 DEF DownCounts
    <3>5. QED
      BY <3>1, <3>3, <3>4, ConfigAssumption DEF SuccessesAfter, Bump, TypeOK
  <2>2. QED
    BY <1>1, <2>1 DEF HNext
<1>2. QED
  BY <1>1, HistoryAlways, PTL DEF HSpec, RecoveryServed

(* A line that is UP is degraded only over losses seen since it came UP:   *)
(* residues of the outage in the window never count.                       *)
THEOREM DegradedOnlyOnFreshLoss == HSpec => DegradedOnFreshLoss
<1>1. ASSUME HistoryInv, HistoryInv', [HNext]_hvars
      PROVE  [~degrade.on /\ degrade'.on /\ state' = "Up"
                => failsUp' * 100 >= DegradeLoss * WindowSize]_hvars
  <2>1. ASSUME NEW s \in Samples, HUpdate(s), ~degrade.on, degrade'.on, state' = "Up"
        PROVE  failsUp' * 100 >= DegradeLoss * WindowSize
    <3> USE ConfigAssumption
    <3>1. /\ TypeOK /\ FreshStart /\ LostCountExact /\ Update(s)
          /\ TypeOK' /\ LostCountExact' /\ HistoryTypes' /\ FreshPart'
      BY <1>1, <2>1 DEF HistoryInv, EstimatorInv, HUpdate
    <3>2. /\ degrade'.on = IF state = "Down" /\ state' = "Up" /\ ~firstProbe
                           THEN FALSE ELSE DegradeAfter(s).on
          /\ samplesInUp' = IF state = "Down" /\ state' = "Up" /\ ~firstProbe
                            THEN 0 ELSE SamplesInUpAfter
      BY <3>1, Effects
    <3>3. samplesInUp' = SamplesInUpAfter /\ DegradeAfter(s).on
      BY <2>1, <3>2
    <3>4. /\ WindowFull(WindowAfter(s))
          /\ SamplesInUpAfter >= WindowSize
          /\ LossAtLeast(LostAfter(s), WindowAfter(s), DegradeLoss)
      BY <2>1, <3>1, <3>3, DegradeMoves
    <3>5. window' = WindowAfter(s) /\ lostCount' = LostAfter(s)
      BY <3>1 DEF Update
    <3>6. window' \in Seq(BOOLEAN) /\ Len(window') = WindowSize /\ samplesInUp' = WindowSize
      BY <3>1, <3>3, <3>4, <3>5 DEF TypeOK, WindowFull
    <3>7. Cardinality(FailsSince(window', WindowSize)) = Failures(window')
      BY <3>6, FailsSinceAll
    <3>8. Cardinality(FailsSince(window', WindowSize)) <= failsUp'
      BY <2>1, <3>1, <3>6 DEF FreshPart
    <3>9. lostCount' = Failures(window') /\ lostCount' \in Nat /\ failsUp' \in Nat
      BY <3>1 DEF LostCountExact, TypeOK, HistoryTypes
    <3>10. lostCount' * 100 >= DegradeLoss * WindowSize
      BY <3>4, <3>5, <3>6 DEF LossAtLeast
    <3>11. lostCount' <= failsUp'
      BY <3>7, <3>8, <3>9
    <3>12. DegradeLoss * WindowSize \in Nat
      OBVIOUS
    <3>13. \A lost, fails, level \in Nat :
             lost * 100 >= level /\ lost <= fails => fails * 100 >= level
      OBVIOUS
    <3>14. QED
      BY <3>9, <3>10, <3>11, <3>12, <3>13
  <2>2. QED
    BY <1>1, <2>1 DEF HNext
<1>2. QED
  BY <1>1, HistoryAlways, PTL DEF HSpec, DegradedOnFreshLoss

(* A recovery is undone only by a later lost or slow sample, whenever the  *)
(* window left to older verdicts once RecoverCount + 1 successes are in is *)
(* too small to exceed loss_threshold_down; the default configuration      *)
(* satisfies this.  The condition is needed: the code does not look at the *)
(* window when a line recovers, so that with a short RecoverCount the next *)
(* success may find the old failures above the threshold.                  *)
THEOREM RecoveryIsNotUndone ==
  ASSUME (WindowSize - RecoverCount - 1) * 100 <= LossDown * WindowSize
  PROVE  HSpec => RecoveryStands
<1>1. ASSUME HistoryInv, [HNext]_hvars
      PROVE  [state = "Up" /\ state' = "Down" => hurt']_hvars
  <2>1. ASSUME NEW s \in Samples, HUpdate(s), state = "Up", state' = "Down", ~hurt'
        PROVE  FALSE
    <3> USE ConfigAssumption
    <3>1. TypeOK /\ FreshStart /\ LostCountExact /\ RunInWindow /\ Update(s)
      BY <1>1, <2>1 DEF HistoryInv, EstimatorInv, HUpdate
    <3>2. s = "ok" /\ ~hurt
      BY <2>1 DEF HUpdate, CameUp
    <3>3. GoDown(s)
      BY <2>1, <3>1, Verdicts
    <3>4. TimeoutsAfter(s) = 0 /\ RttOverAfter(s) = 0
      BY <3>2 DEF TimeoutsAfter, RttOverAfter
    <3>5. /\ WindowFull(WindowAfter(s))
          /\ LossAbove(LostAfter(s), WindowAfter(s), LossDown)
      BY <3>3, <3>4 DEF GoDown, DownReason
    <3>6. LastOk(window, RecoverCount)
      BY <2>1, <3>1, <3>2 DEF RunInWindow
    <3>7. LastOk(WindowAfter(s), RecoverCount + 1)
      BY <3>1, <3>2, <3>6, SlideOk
    <3>8. /\ WindowAfter(s) \in Seq(BOOLEAN) /\ Len(WindowAfter(s)) = WindowSize
          /\ LostAfter(s) = Failures(WindowAfter(s))
      BY <3>1, <3>5, SlideWindow DEF WindowFull
    <3>9. LostAfter(s) <= IF WindowSize > RecoverCount + 1 THEN WindowSize - (RecoverCount + 1) ELSE 0
      <4>1. RecoverCount + 1 \in Nat
        OBVIOUS
      <4>2. QED
        BY <3>7, <3>8, <4>1, LastOkBoundsLoss
    <3>10. LostAfter(s) * 100 > LossDown * WindowSize
      BY <3>5, <3>8 DEF LossAbove
    <3>11. LostAfter(s) \in Nat /\ LossDown * WindowSize \in Nat
      BY <3>8, FailuresBound
    <3>12. QED
      BY <3>9, <3>10, <3>11
  <2>2. QED
    BY <1>1, <2>1 DEF HNext
<1>2. QED
  BY <1>1, HistoryAlways, PTL DEF HSpec, RecoveryStands

(* No quick flapping: a line that left ECMP, DOWN or degraded, stays out   *)
(* for RecoverCount successes or for MinOutSamples samples.                *)
THEOREM StaysOutOfEcmp == HSpec => NoQuickRejoin
<1>1. ASSUME HistoryInv, [HNext]_hvars
      PROVE  [JoinedEcmp => \/ away + 1 >= MinOutSamples
                            \/ away + 1 >= RecoverCount]_hvars
  <2>1. ASSUME NEW s \in Samples, HUpdate(s), JoinedEcmp
        PROVE  \/ away + 1 >= MinOutSamples
               \/ away + 1 >= RecoverCount
    <3> USE ConfigAssumption, AwayBoundType
    <3>1. /\ TypeOK /\ FreshStart /\ HistoryTypes /\ DownCounts /\ OutCounts
          /\ Update(s)
      BY <1>1, <2>1 DEF HistoryInv, EstimatorInv, HUpdate
    <3>2. state' = "Up" /\ ~degrade'.on
      BY <2>1 DEF JoinedEcmp, InEcmp
    <3>3. CASE state = "Down"
      <4>1. CASE firstProbe
        BY <3>1, <4>1 DEF HistoryTypes
      <4>2. CASE ~firstProbe
        <5>1. SuccessesAfter(s) >= RecoverCount /\ s # "fail"
          BY <3>1, <3>2, <3>3, <4>2, Effects
        <5>2. away >= successes
          BY <3>1, <3>3 DEF DownCounts
        <5>3. QED
          BY <3>1, <5>1, <5>2 DEF SuccessesAfter, Bump, TypeOK, HistoryTypes
      <4>3. QED
        BY <4>1, <4>2
    <3>4. CASE state = "Up"
      <4>1. degrade.on
        BY <2>1, <3>4 DEF JoinedEcmp, InEcmp
      <4>2. degrade'.on = DegradeAfter(s).on
        BY <3>1, <3>4, Effects
      <4>3. DegradeLoss # 0
        BY <3>1, <4>1 DEF OutCounts
      <4>4. Bump(degrade.out, MinOutSamples) >= MinOutSamples
        BY <3>1, <3>2, <4>1, <4>2, <4>3, DegradeMoves
      <4>5. away >= degrade.out
        BY <3>1, <4>1 DEF OutCounts
      <4>6. degrade.out \in 0..MinOutSamples /\ away \in 0..AwayBound
        BY <3>1 DEF TypeOK, DegradeStates, HistoryTypes
      <4>7. QED
        BY <4>4, <4>5, <4>6 DEF Bump
    <3>5. QED
      BY <3>1, <3>3, <3>4 DEF TypeOK
  <2>2. QED
    BY <1>1, <2>1 DEF HNext
<1>2. QED
  BY <1>1, HistoryAlways, PTL DEF HSpec, NoQuickRejoin

(* While a line is UP its RTT counter is below its threshold: this needs   *)
(* rtt_fail_count > 1, because the first probe takes a line UP without     *)
(* comparing the counter.                                                  *)
RttBelow == RttFailCount > 1 /\ state = "Up" => rttOverCount < RttFailCount

(* The counter stays below its threshold while the line is UP.             *)
LEMMA RttBelowStep ==
  ASSUME EstimatorInv, RttBelow, [HNext]_hvars
  PROVE  RttBelow'
<1> USE ConfigAssumption
<1>1. CASE UNCHANGED hvars
  BY <1>1 DEF hvars, vars, RttBelow
<1>2. ASSUME NEW s \in Samples, HUpdate(s), RttFailCount > 1, state' = "Up"
      PROVE  rttOverCount' < RttFailCount
  <2>1. TypeOK /\ FreshStart /\ Update(s)
    BY <1>2 DEF EstimatorInv, HUpdate
  <2>2. CASE StayUp(s)
    BY <2>1, <2>2, <1>2 DEF StayUp, DownReason, RttBelow, RttOverAfter, Bump, TypeOK, Samples
  <2>3. CASE GoUp(s)
    <3>1. s = "ok"
      BY <2>3 DEF GoUp, Recovers, SuccessesAfter, RttAfter, Samples
    <3>2. QED
      BY <1>2, <2>3, <3>1 DEF GoUp, RttOverAfter
  <2>4. CASE FirstVerdict(s)
    BY <1>2, <2>1, <2>4 DEF FirstVerdict, FreshStart, RttOverAfter, Bump, Samples
  <2>5. QED
    BY <1>2, <2>1, <2>2, <2>3, <2>4, Verdicts DEF TypeOK
<1>3. QED
  BY <1>1, <1>2 DEF HNext, RttBelow

(* A timed-out sample never blames the RTT, for rtt_fail_count > 1.  With  *)
(* rtt_fail_count = 1, which validate accepts, it can: the first probe     *)
(* answers slowly, the line comes UP with the counter at its threshold,    *)
(* and the next timeout takes it DOWN for "rtt".                           *)
THEOREM RttBlamedOnAnswersOnly ==
  ASSUME RttFailCount > 1
  PROVE  HSpec => RttVerdictOnAnswer
<1>1. EstimatorInv /\ RttBelow /\ [HNext]_hvars => RttBelow'
  BY RttBelowStep
<1>2. HInit => RttBelow
  BY DEF HInit, Init, RttBelow
<1>3. HistoryInv => EstimatorInv
  BY DEF HistoryInv
<1>4. ASSUME EstimatorInv, RttBelow, [HNext]_hvars
      PROVE  [state = "Up" /\ state' = "Down" /\ reason' = "rtt" => last' # "fail"]_hvars
  <2>1. ASSUME NEW s \in Samples, HUpdate(s), state = "Up", state' = "Down", reason' = "rtt"
        PROVE  last' # "fail"
    <3>1. TypeOK /\ FreshStart /\ Update(s) /\ last' = s
      BY <1>4, <2>1 DEF EstimatorInv, HUpdate
    <3>2. GoDown(s)
      BY <2>1, <3>1, Verdicts
    <3>3. RttOverAfter(s) >= RttFailCount
      BY <2>1, <3>2 DEF GoDown, DownReason
    <3>4. rttOverCount \in Nat /\ RttFailCount \in Nat /\ rttOverCount < RttFailCount
      BY <1>4, <2>1, <3>1, ConfigAssumption DEF TypeOK, RttBelow
    <3>5. QED
      BY <3>1, <3>3, <3>4 DEF RttOverAfter
  <2>2. QED
    BY <1>4, <2>1 DEF HNext
<1>5. QED
  BY <1>1, <1>2, <1>3, <1>4, HistoryAlways, PTL DEF HSpec, RttVerdictOnAnswer

(* The history variables only observe: without them the behaviours are     *)
(* those of the estimator, so that its theorems hold of HSpec too.         *)
THEOREM HistoryObserves == HSpec => Spec
<1>1. HInit => Init
  BY DEF HInit
<1>2. [HNext]_hvars => [Next]_vars
  BY DEF HNext, HUpdate, Next, hvars
<1>3. QED
  BY <1>1, <1>2, PTL DEF HSpec, Spec
=============================================================================
