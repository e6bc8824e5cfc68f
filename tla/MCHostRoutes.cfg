CONSTANTS
  a = a
  b = b
  Lines = {a, b}
  Targets = {t}
  Peers = {p}
  Metric <- EqualMetric
  TargetsOf <- SharedTargets
  PeersOf <- TunnelB
  Strict = {}
  Slots = {1, 2}
  Layouts <- Swapping
  MaxIndex = 2
  MaxChanges = 1
  MaxFailures = 1
  MaxRuns = 2
SPECIFICATION Spec
INVARIANTS TypeOK HostsAccounted RulesHome UnderlayKnown
PROPERTIES PathsConverge UsableLineProbed UnderlayConverges
CHECK_DEADLOCK FALSE
