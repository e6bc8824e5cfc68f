\* The proportions of the defaults (window 10, fail 3, recover 5, down at 50 %,
\* degrade at 20 % with 10 % hysteresis) on a window of 5.
CONSTANTS
  WindowSize = 5
  FailDown = 3
  RecoverCount = 3
  RttFailCount = 2
  LossDown = 50
  DegradeLoss = 40
  DegradeHyst = 20
  EnterSamples = 2
  ExitSamples = 2
  MinOutSamples = 4
SPECIFICATION HSpec
INVARIANTS TypeOK LostCountExact UpIsJustified
PROPERTIES RecoveryServed DegradedOnFreshLoss RecoveryStands NoQuickRejoin
           RttVerdictOnAnswer GoodLineRejoins DeadLineDetected
