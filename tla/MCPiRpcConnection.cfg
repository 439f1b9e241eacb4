\* One life of a connection of either dialect, one command next to the handshake.
SPECIFICATION Spec
CONSTANTS
  Dialects = {"pi", "omp"}
  MaxCommands = 1
  MaxStarts = 1
  MaxBuffered = 1
INVARIANTS
  TypeOK
  Correlated
  Reachable
  FailureSettlesAll
  UnexpectedExitReported
  StartedMeansHandshake
  FailedStartStopsChild
PROPERTIES
  StopIsNotFailure
  ImplementsCalls
\* A stopped connection may rest for ever.
CHECK_DEADLOCK FALSE
