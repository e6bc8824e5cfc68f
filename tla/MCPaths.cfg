\* One line with a policy, whose interface disappears and returns under
\* another ifindex; the subscription to link events may be lost, a request
\* for the probe path and rule changes one by one may fail, another program
\* may take a rule or a route, and the daemon may be told to stop.
CONSTANTS
  Lines = {1}
  Metric <- EqualMetric
  V6Lines = {}
  PolicyPrefixes <- OnePrefix
  QueueCapacity = 2
  HeartbeatTicks = 2
  RefreshTicks = 2
  WatchRetryTicks = 1
  RetryTicks <- ShortRetries
  QuietTicks = 0
  FlushInterval = 0
  FlushOnDown = FALSE
  FlushOnSwitch = FALSE
  ClearOnExit = FALSE
  Variants = {"standard"}
  InPlay = {"policies", "probe"}
  MaxChanges = 2
  MaxFailures = 1
  Failing = {"policies", "probe"}
  MaxIndex = 2
  Disturbances = {"rules", "routes", "devices", "watch", "signal"}
SPECIFICATION Spec
INVARIANTS TypeOK RulesRecorded ExitLeavesNoPaths
PROPERTIES ProbePathsConverge PoliciesSettle
\* The daemon stops when it is told to.
CHECK_DEADLOCK FALSE
