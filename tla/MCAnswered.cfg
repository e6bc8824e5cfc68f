\* One line, IPv4 routes only, nothing fails.
CONSTANTS
  Lines = {1}
  Metric <- EqualMetric
  V6Lines = {}
  PolicyPrefixes <- NoPolicies
  QueueCapacity = 1
  HeartbeatTicks = 2
  RefreshTicks = 2
  WatchRetryTicks = 1
  RetryTicks <- ShortRetries
  QuietTicks = 0
  FlushInterval = 0
  FlushOnDown = FALSE
  FlushOnSwitch = FALSE
  ClearOnExit = FALSE
  Variants = {"standard"}
  InPlay = {"v4"}
  MaxChanges = 1
  MaxFailures = 0
  Failing = {"v4", "probe", "policies", "clear"}
  MaxIndex = 1
  Disturbances = {}
SPECIFICATION Spec
INVARIANTS InflightAnswered
