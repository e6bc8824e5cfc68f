---------------------------- MODULE LinkQuality ----------------------------
(***************************************************************************)
(* One line's LinkQualityEstimator (src/src/lqe.rs): a sliding window of   *)
(* probe verdicts, the consecutive-success and consecutive-timeout         *)
(* counters, the smoothed RTT, the UP/DOWN state machine, and the degrade  *)
(* machine that takes an UP line out of the ECMP set and lets it back in.  *)
(*                                                                         *)
(* Abstractions.                                                           *)
(*  - The smoothed RTT is kept as its only observable: whether it exceeds  *)
(*    max_rtt_ms.  A successful sample can move an EWMA to either side of  *)
(*    the limit, so a sample is "ok" (EWMA at or below the limit after     *)
(*    it), "slow" (above it) or "fail" (no answer, EWMA unchanged).        *)
(*  - Loss rates and thresholds are percentages of whole samples, so the   *)
(*    comparisons the code makes on doubles are exact here.                *)
(*  - A counter the code only compares with a threshold saturates at that  *)
(*    threshold: each bound below is the threshold itself.                 *)
(***************************************************************************)
EXTENDS Integers, Sequences, FiniteSets

CONSTANTS
  WindowSize,       \* window_size
  FailDown,         \* consecutive_fail_down
  RecoverCount,     \* recovery_success_count
  RttFailCount,     \* rtt_fail_count
  LossDown,         \* loss_threshold_down, in percent
  DegradeLoss,      \* degrade_loss_threshold, in percent; 0 turns degrading off
  DegradeHyst,      \* degrade_hysteresis, in percent
  EnterSamples,     \* degrade_enter_samples
  ExitSamples,      \* degrade_exit_samples
  MinOutSamples     \* degrade_min_out_samples

(* What DaemonConfig::validate accepts.                                    *)
ASSUME ConfigAssumption ==
  /\ WindowSize \in Nat \ {0}
  /\ FailDown \in Nat \ {0}
  /\ RecoverCount \in Nat \ {0}
  /\ RttFailCount \in Nat \ {0}
  /\ LossDown \in 0..100
  /\ DegradeLoss \in 0..100
  /\ DegradeHyst \in 0..100
  /\ EnterSamples \in Nat \ {0}
  /\ ExitSamples \in Nat \ {0}
  /\ MinOutSamples \in Nat
  /\ DegradeLoss > 0 => DegradeLoss < LossDown /\ DegradeHyst < DegradeLoss

Samples == {"ok", "slow", "fail"}
Reasons == {"consecutive_timeouts", "window_loss", "rtt"}

VARIABLES
  state,        \* "Up" or "Down"
  window,       \* the last verdicts, oldest first; TRUE is a success
  lostCount,    \* failures in window, kept incrementally
  timeouts,     \* consecutive_timeouts
  successes,    \* consecutive_successes
  rtt,          \* "none", "normal" or "over": rtt_ewma_ms against max_rtt_ms
  rttOverCount, \* rtt_over_count
  firstProbe,   \* first_probe
  samplesInUp,  \* samples_in_up
  degrade,      \* the degrade machine: on, enter, exit and out counters
  reason        \* last_state_reason

vars == <<state, window, lostCount, timeouts, successes, rtt, rttOverCount,
          firstProbe, samplesInUp, degrade, reason>>

(* degraded, degrade_enter_streak, degrade_exit_streak, degrade_out_samples *)
Degrade(on, enter, exit, out) == [on |-> on, enter |-> enter, exit |-> exit, out |-> out]

NotDegraded == Degrade(FALSE, 0, 0, 0)

Init ==
  /\ state = "Down"
  /\ window = <<>>
  /\ lostCount = 0
  /\ timeouts = 0
  /\ successes = 0
  /\ rtt = "none"
  /\ rttOverCount = 0
  /\ firstProbe = TRUE
  /\ samplesInUp = WindowSize
  /\ degrade = NotDegraded
  /\ reason = "none"

(* n + 1, held at the threshold n is compared with.                        *)
Bump(n, threshold) == IF n < threshold THEN n + 1 ELSE n

(* A line takes part in ECMP when it is UP and not degraded.               *)
InEcmp == state = "Up" /\ ~degrade.on

-----------------------------------------------------------------------------
(* Measurements a sample leaves behind.                                    *)

WindowFull(w) == Len(w) >= WindowSize

(* A full window first gives up its oldest verdict.                        *)
WindowKept == IF WindowFull(window) THEN Tail(window) ELSE window

(* Mutated: the lost counter forgets the verdict that leaves the window.   *)
LostKeptForgetful == lostCount

LostKept == IF WindowFull(window) /\ ~Head(window) THEN lostCount - 1 ELSE lostCount

WindowAfter(s) == Append(WindowKept, s # "fail")
LostAfter(s)   == IF s = "fail" THEN LostKept + 1 ELSE LostKept

(* lost / Len(w) > percent / 100, and >=.                                  *)
LossAbove(lost, w, percent)   == lost * 100 > percent * Len(w)
LossAtLeast(lost, w, percent) == lost * 100 >= percent * Len(w)

TimeoutsAfter(s)  == IF s = "fail" THEN Bump(timeouts, FailDown) ELSE 0

SuccessesAfter(s) == IF s = "fail" THEN 0 ELSE Bump(successes, RecoverCount)

RttAfter(s) == CASE s = "ok" -> "normal" [] s = "slow" -> "over" [] s = "fail" -> rtt

(* Mutated: a timeout repeats the verdict of the last measured RTT.        *)
RttOverAfterStale(s) ==
  IF RttAfter(s) = "over" THEN Bump(rttOverCount, RttFailCount)
  ELSE IF s = "ok" THEN 0 ELSE rttOverCount

RttOverAfter(s) ==
  CASE s = "slow" -> Bump(rttOverCount, RttFailCount)
    [] s = "ok"   -> 0
    [] s = "fail" -> rttOverCount

SamplesInUpAfter == IF state = "Up" THEN Bump(samplesInUp, WindowSize) ELSE samplesInUp

-----------------------------------------------------------------------------
(* The degrade machine (update_degrade_state), run on every sample before  *)
(* the UP/DOWN verdict.                                                    *)

(* Mutated: the subtraction is the wrong way round.                        *)
ExitLevelSwapped(lost, w) == lost * 100 <= (DegradeHyst - DegradeLoss) * Len(w)

(* Loss has fallen to degrade_loss_threshold - degrade_hysteresis.         *)
ExitLevel(lost, w) == lost * 100 <= (DegradeLoss - DegradeHyst) * Len(w)

(* Mutated: no settling time after a recovery.                             *)
EnteringUnsettled(bad) ==
  IF ~bad THEN Degrade(FALSE, 0, degrade.exit, degrade.out)
  ELSE IF degrade.enter + 1 >= EnterSamples THEN Degrade(TRUE, 0, 0, 0)
  ELSE Degrade(FALSE, degrade.enter + 1, degrade.exit, degrade.out)

(* A line that is not degraded: EnterSamples consecutive bad windows, and  *)
(* none counts before the window has turned over since the recovery.       *)
Entering(bad) ==
  IF SamplesInUpAfter < WindowSize \/ ~bad
  THEN Degrade(FALSE, 0, degrade.exit, degrade.out)
  ELSE IF degrade.enter + 1 >= EnterSamples THEN Degrade(TRUE, 0, 0, 0)
  ELSE Degrade(FALSE, degrade.enter + 1, degrade.exit, degrade.out)

(* Mutated: the minimum stay out of ECMP is not enforced.                  *)
LeavingEarly(clean) ==
  LET out  == Bump(degrade.out, MinOutSamples)
      exit == Bump(degrade.exit, ExitSamples)
  IN IF ~clean THEN Degrade(TRUE, degrade.enter, 0, out)
     ELSE IF exit >= ExitSamples THEN NotDegraded
     ELSE Degrade(TRUE, degrade.enter, exit, out)

(* A degraded line: ExitSamples consecutive clean windows, and at least    *)
(* MinOutSamples samples out of ECMP.                                      *)
Leaving(clean) ==
  LET out  == Bump(degrade.out, MinOutSamples)
      exit == Bump(degrade.exit, ExitSamples)
  IN IF ~clean THEN Degrade(TRUE, degrade.enter, 0, out)
     ELSE IF exit >= ExitSamples /\ out >= MinOutSamples THEN NotDegraded
     ELSE Degrade(TRUE, degrade.enter, exit, out)

DegradeAfter(s) ==
  LET lost == LostAfter(s)
      w    == WindowAfter(s)
  IN IF DegradeLoss = 0 THEN NotDegraded
     ELSE IF ~WindowFull(w) THEN Degrade(degrade.on, 0, 0, degrade.out)
     ELSE IF degrade.on THEN Leaving(ExitLevel(lost, w))
     ELSE Entering(LossAtLeast(lost, w, DegradeLoss))

-----------------------------------------------------------------------------
(* The UP/DOWN machine.  Update(s) feeds one probe sample; its verdict is  *)
(* one of five alternatives.                                               *)

(* Mutated: the loss is the one read before the sample entered the window. *)
DownReasonStaleLoss(s) ==
  IF TimeoutsAfter(s) >= FailDown THEN "consecutive_timeouts"
  ELSE IF WindowFull(window) /\ LossAbove(lostCount, window, LossDown) THEN "window_loss"
  ELSE IF RttOverAfter(s) >= RttFailCount THEN "rtt"
  ELSE "none"

(* Mutated: only answered samples are judged.                              *)
DownReasonOnAnswer(s) ==
  IF s # "fail" /\ RttOverAfter(s) >= RttFailCount THEN "rtt" ELSE "none"

(* Why an UP line goes DOWN on sample s, in the order the code tests.      *)
DownReason(s) ==
  IF TimeoutsAfter(s) >= FailDown THEN "consecutive_timeouts"
  ELSE IF /\ WindowFull(WindowAfter(s))
          /\ LossAbove(LostAfter(s), WindowAfter(s), LossDown) THEN "window_loss"
  ELSE IF RttOverAfter(s) >= RttFailCount THEN "rtt"
  ELSE "none"

(* Mutated: the first answer is enough.                                    *)
RecoversAtOnce(s) == s # "fail" /\ RttAfter(s) = "normal"

Recovers(s) == SuccessesAfter(s) >= RecoverCount /\ RttAfter(s) = "normal"

(* The first sample ever: a success is believed at once.                   *)
FirstVerdict(s) ==
  /\ firstProbe
  /\ IF s = "fail" THEN UNCHANGED <<state, reason>>
                   ELSE state' = "Up" /\ reason' = "recovery"
  /\ successes' = SuccessesAfter(s)
  /\ rttOverCount' = RttOverAfter(s)
  /\ samplesInUp' = SamplesInUpAfter
  /\ degrade' = DegradeAfter(s)

StayUp(s) ==
  /\ ~firstProbe /\ state = "Up"
  /\ DownReason(s) = "none"
  /\ successes' = SuccessesAfter(s)
  /\ rttOverCount' = RttOverAfter(s)
  /\ samplesInUp' = SamplesInUpAfter
  /\ degrade' = DegradeAfter(s)
  /\ UNCHANGED <<state, reason>>

(* Mutated: successes counted before the verdict still count after it.     *)
GoDownKeepingSuccesses(s) ==
  /\ ~firstProbe /\ state = "Up"
  /\ DownReason(s) # "none"
  /\ state' = "Down"
  /\ reason' = DownReason(s)
  /\ successes' = SuccessesAfter(s)
  /\ rttOverCount' = 0
  /\ samplesInUp' = SamplesInUpAfter
  /\ degrade' = DegradeAfter(s)

GoDown(s) ==
  /\ ~firstProbe /\ state = "Up"
  /\ DownReason(s) # "none"
  /\ state' = "Down"
  /\ reason' = DownReason(s)
  /\ successes' = 0
  /\ rttOverCount' = 0
  /\ samplesInUp' = SamplesInUpAfter
  /\ degrade' = DegradeAfter(s)

StayDown(s) ==
  /\ ~firstProbe /\ state = "Down"
  /\ ~Recovers(s)
  /\ successes' = SuccessesAfter(s)
  /\ rttOverCount' = RttOverAfter(s)
  /\ samplesInUp' = SamplesInUpAfter
  /\ degrade' = DegradeAfter(s)
  /\ UNCHANGED <<state, reason>>

(* Recovery also forgives a degradation and starts the settling time.      *)
GoUp(s) ==
  /\ ~firstProbe /\ state = "Down"
  /\ Recovers(s)
  /\ state' = "Up"
  /\ reason' = "recovery"
  /\ successes' = SuccessesAfter(s)
  /\ rttOverCount' = RttOverAfter(s)
  /\ samplesInUp' = 0
  /\ degrade' = Degrade(FALSE, DegradeAfter(s).enter, 0, DegradeAfter(s).out)

Update(s) ==
  /\ window' = WindowAfter(s)
  /\ lostCount' = LostAfter(s)
  /\ timeouts' = TimeoutsAfter(s)
  /\ rtt' = RttAfter(s)
  /\ firstProbe' = FALSE
  /\ FirstVerdict(s) \/ StayUp(s) \/ GoDown(s) \/ StayDown(s) \/ GoUp(s)

Next == \E s \in Samples : Update(s)

Spec == Init /\ [][Next]_vars

-----------------------------------------------------------------------------
(* Properties of the estimator itself.                                     *)

Failures(w) == Cardinality({i \in DOMAIN w : ~w[i]})

DegradeStates ==
  [on : BOOLEAN, enter : 0..EnterSamples, exit : 0..ExitSamples, out : 0..MinOutSamples]

(* Every variable of LinkQualityEstimator keeps its type and its bound.    *)
TypeOK ==
  /\ state \in {"Up", "Down"}
  /\ window \in Seq(BOOLEAN) /\ Len(window) <= WindowSize
  /\ lostCount \in 0..WindowSize
  /\ timeouts \in 0..FailDown
  /\ successes \in 0..RecoverCount
  /\ rtt \in {"none", "normal", "over"}
  /\ rttOverCount \in 0..RttFailCount
  /\ firstProbe \in BOOLEAN
  /\ samplesInUp \in 0..WindowSize
  /\ degrade \in DegradeStates
  /\ reason \in Reasons \cup {"none", "recovery"}

(* lost_count is maintained incrementally as verdicts enter and leave the  *)
(* window; loss_rate() reads it instead of counting.  It always equals the *)
(* number of failures in the window.                                       *)
LostCountExact == lostCount = Failures(window)

(* Failure detection is never overdue: a line that is UP has not missed    *)
(* FailDown probes in a row, and, once it has been UP for a sample, a full *)
(* window does not show more loss than loss_threshold_down.                *)
UpIsJustified ==
  state = "Up" =>
    /\ timeouts < FailDown
    /\ samplesInUp > 0 /\ WindowFull(window) => ~LossAbove(lostCount, window, LossDown)
=============================================================================
