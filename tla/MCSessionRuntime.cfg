\* Two restarts and a close that may overlap, three processes one after the other.
SPECIFICATION Spec
CONSTANTS
  Restarters = {"restart", "again"}
  Closers = {"close"}
  MaxRequests = 1
  MaxRefreshes = 1
  SlowCleanup = FALSE
INVARIANTS
  TypeOK
  ChildOwned
PROPERTIES
  OvertakenStartIsSilent
  StatusSettles
CHECK_DEADLOCK FALSE
