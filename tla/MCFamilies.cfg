\* One line with both families and a queue that has no room for the
\* IPv6 update behind an IPv4 one; another program may remove routes, and
\* the daemon may be told to stop at any point.
CONSTANTS
  Lines = {1}
  Metric <- EqualMetric
  V6Lines = {1}
  PolicyPrefixes <- NoPolicies
  QueueCapacity = 1
  HeartbeatTicks = 2
  RefreshTicks = 2
  WatchRetryTicks = 1
  RetryTicks <- ShortRetries
  QuietTicks = 0
  FlushInterval = 0
  FlushOnDown = FALSE
  FlushOnSwitch = FALSE
  ClearOnExit = FALSE
  Variants = {"standard"}
  InPlay = {"v4"}
  MaxChanges = 2
  MaxFailures = 0
  Failing = {}
  MaxIndex = 1
  Disturbances = {"routes", "signal"}
SPECIFICATION Spec
INVARIANTS FamiliesAgree
PROPERTIES RoutesV6Converge ExitCompletes
\* The daemon stops when it is told to.
CHECK_DEADLOCK FALSE
