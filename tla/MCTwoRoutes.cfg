\* Both families in "auto" mode on a kernel without IPv6; nothing fails.
CONSTANTS
  Families = {"v4", "v6"}
  Hops = {h1}
  Modes = {"auto"}
  Kernels <- NoIpv6
  FailuresPerCall = 0
  Losses = {}
  MaxIds = 3
SPECIFICATION Spec
INVARIANTS OneRoute
CHECK_DEADLOCK FALSE
