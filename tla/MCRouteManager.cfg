\* One family, every mode and kernel; one request of a call may fail.
CONSTANTS
  Families = {"v4"}
  Hops = {h1, h2}
  Modes = {"standard", "auto", "resilient"}
  Kernels <- AnyKernel
  FailuresPerCall = 1
  Losses = {"rejected", "unacked"}
  MaxIds = 4
SPECIFICATION Spec
INVARIANTS TypeOK OneRoute MembersKnown
PROPERTIES LastRouteKept RoutesImplemented
\* The worker ends after the cleanup.
CHECK_DEADLOCK FALSE
