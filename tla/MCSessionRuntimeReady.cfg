\* A run settles, Pi answers get_state and dies before the rest of the refresh.
SPECIFICATION Spec
CONSTANTS
  Restarters = {}
  Closers = {}
  MaxRequests = 1
  MaxRefreshes = 1
  SlowCleanup = FALSE
INVARIANTS
  ReadyMeansProcess
CHECK_DEADLOCK FALSE
