\* One line that leaves and joins the active set; flushes on both
\* occasions, which may fail.
CONSTANTS
  Lines = {1}
  Metric <- EqualMetric
  V6Lines = {}
  PolicyPrefixes <- NoPolicies
  QueueCapacity = 2
  HeartbeatTicks = 2
  RefreshTicks = 2
  WatchRetryTicks = 1
  RetryTicks <- ShortRetries
  QuietTicks = 2
  FlushInterval = 2
  FlushOnDown = TRUE
  FlushOnSwitch = TRUE
  ClearOnExit = FALSE
  Variants = {"standard"}
  InPlay = {"v4"}
  MaxChanges = 3
  MaxFailures = 1
  Failing = {"flush"}
  MaxIndex = 1
  Disturbances = {}
SPECIFICATION HSpec
PROPERTIES ShortOutagesSpared OneFlushPerOutage DownLinesFlushed
