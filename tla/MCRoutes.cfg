\* Two lines of equal metric, IPv4 only; the sessions of a line that
\* joins the active set are flushed, and the daemon may be told to stop and
\* clear everything.
CONSTANTS
  Lines = {1, 2}
  Metric <- EqualMetric
  V6Lines = {}
  PolicyPrefixes <- NoPolicies
  QueueCapacity = 1
  HeartbeatTicks = 2
  RefreshTicks = 2
  WatchRetryTicks = 1
  RetryTicks <- ShortRetries
  QuietTicks = 0
  FlushInterval = 0
  FlushOnDown = FALSE
  FlushOnSwitch = TRUE
  ClearOnExit = TRUE
  Variants = {"standard"}
  InPlay = {"v4"}
  MaxChanges = 2
  MaxFailures = 1
  Failing = {"v4", "probe", "policies", "clear"}
  MaxIndex = 3
  Disturbances = {"routes", "devices", "signal"}
SPECIFICATION Spec
INVARIANTS OneOutstanding
PROPERTIES RoutesConverge
\* The daemon stops when it is told to.
CHECK_DEADLOCK FALSE
