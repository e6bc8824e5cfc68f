------------------------- MODULE LinkQualityHistory -------------------------
(***************************************************************************)
(* LinkQuality with history variables, to state what the estimator         *)
(* promises over many samples: how a line leaves ECMP and how it may come  *)
(* back.  The history variables observe; they never guard a step.          *)
(***************************************************************************)
EXTENDS LinkQuality

VARIABLES
  last,      \* the last sample ("none" before the first)
  failsUp,   \* failures among the samples since the line last came UP
  hurt,      \* some sample since then was not "ok"
  goodDown,  \* successes in a row while DOWN, all probed since the verdict
  away,      \* samples since the line last left ECMP
  beat       \* alternates with the samples, so that none is a stutter

hvars == <<vars, last, failsUp, hurt, goodDown, away, beat>>

AwayBound == IF MinOutSamples > RecoverCount THEN MinOutSamples ELSE RecoverCount

HInit ==
  /\ Init
  /\ last = "none"
  /\ failsUp = 0
  /\ hurt = FALSE
  /\ goodDown = 0
  /\ away = AwayBound
  /\ beat = FALSE

CameUp == state = "Down" /\ state' = "Up"
LeftEcmp == InEcmp /\ ~InEcmp'
JoinedEcmp == ~InEcmp /\ InEcmp'

HUpdate(s) ==
  /\ Update(s)
  /\ last' = s
  /\ failsUp' = IF CameUp THEN 0
                ELSE IF s = "fail" THEN Bump(failsUp, WindowSize) ELSE failsUp
  /\ hurt' = IF CameUp THEN s # "ok" ELSE hurt \/ s # "ok"
  /\ goodDown' = IF state' = "Down" /\ state = "Down" /\ s # "fail"
                 THEN Bump(goodDown, RecoverCount) ELSE 0
  /\ away' = IF LeftEcmp THEN 0 ELSE Bump(away, AwayBound)
  /\ beat' = ~beat

HNext == \E s \in Samples : HUpdate(s)

(* The event loop samples every line on every tick, for ever.  Without     *)
(* beat a good line's next success would often change nothing, and         *)
(* fairness would then ask for a sample that does change something.        *)
HSpec == HInit /\ [][HNext]_hvars /\ WF_hvars(HNext)

-----------------------------------------------------------------------------
(* A DOWN line comes back only after RecoverCount consecutive successes    *)
(* that were all probed after the DOWN verdict; nothing earned before the  *)
(* verdict counts.  Only the very first probe is believed alone.           *)
RecoveryServed ==
  [][ CameUp /\ ~firstProbe => goodDown + 1 >= RecoverCount ]_hvars

(* Failures that predate a recovery never take the recovered line out of   *)
(* ECMP again: when an UP line is degraded, the failures seen since it     *)
(* came UP are by themselves enough for the degrade threshold.             *)
DegradedOnFreshLoss ==
  [][ ~degrade.on /\ degrade'.on /\ state' = "Up"
      => failsUp' * 100 >= DegradeLoss * WindowSize ]_hvars

(* A recovery is not undone by old failures either: between coming UP and  *)
(* going DOWN again at least one sample was lost or slow.  The code states *)
(* that recovery does not look at the window, so this depends on           *)
(* RecoverCount against WindowSize and LossDown.                           *)
RecoveryStands == [][ state = "Up" /\ state' = "Down" => hurt' ]_hvars

(* No quick flapping: a line that left ECMP, for whichever reason, does    *)
(* not carry traffic again before RecoverCount successes or MinOutSamples  *)
(* samples, whichever is shorter.                                          *)
NoQuickRejoin ==
  [][ JoinedEcmp => \/ away + 1 >= MinOutSamples
                    \/ away + 1 >= RecoverCount ]_hvars

(* A timed-out sample must not blame the RTT: an UP line goes DOWN for     *)
(* "rtt" only on a sample that was answered.                               *)
RttVerdictOnAnswer ==
  [][ state = "Up" /\ state' = "Down" /\ reason' = "rtt" => last' # "fail" ]_hvars

(* A line whose probes all succeed from some time on ends up in ECMP for   *)
(* good, whatever its history: not stuck DOWN, not stuck degraded.         *)
GoodLineRejoins == <>[](last = "ok") => <>[]InEcmp

(* A line that stops answering ends up DOWN for good.                      *)
DeadLineDetected == <>[](last = "fail") => <>[](state = "Down")
=============================================================================
