\* remove_routes_on_exit with a policy of two prefixes.
CONSTANTS
  Lines = {1}
  Metric <- EqualMetric
  V6Lines = {}
  PolicyPrefixes <- TwoPrefixes
  QueueCapacity = 1
  HeartbeatTicks = 2
  RefreshTicks = 2
  WatchRetryTicks = 1
  RetryTicks <- ShortRetries
  QuietTicks = 0
  FlushInterval = 0
  FlushOnDown = FALSE
  FlushOnSwitch = FALSE
  ClearOnExit = TRUE
  Variants = {"standard"}
  InPlay = {"policies"}
  MaxChanges = 1
  MaxFailures = 0
  Failing = {"v4", "probe", "policies", "clear"}
  MaxIndex = 1
  Disturbances = {"signal"}
SPECIFICATION Spec
INVARIANTS SweepLeavesNoRules
\* The daemon stops when it is told to.
CHECK_DEADLOCK FALSE
