\* One line with a policy of two prefixes; another program may remove a rule.
CONSTANTS
  Lines = {1}
  Metric <- EqualMetric
  V6Lines = {}
  PolicyPrefixes <- TwoPrefixes
  QueueCapacity = 1
  HeartbeatTicks = 2
  RefreshTicks = 2
  WatchRetryTicks = 1
  RetryTicks <- ShortRetries
  QuietTicks = 0
  FlushInterval = 0
  FlushOnDown = FALSE
  FlushOnSwitch = FALSE
  ClearOnExit = FALSE
  Variants = {"standard"}
  InPlay = {"policies"}
  MaxChanges = 2
  MaxFailures = 0
  Failing = {"v4", "probe", "policies", "clear"}
  MaxIndex = 1
  Disturbances = {"rules"}
SPECIFICATION Spec
PROPERTIES PoliciesConverge
