\* The handshake and stop() under the fairness of timers and of SIGKILL.
SPECIFICATION Spec
CONSTANTS
  Dialects = {"pi", "omp"}
  MaxCommands = 0
  MaxStarts = 1
  MaxBuffered = 1
PROPERTIES
  StartSettles
  StopReturns
  StoppedChildEnds
CHECK_DEADLOCK FALSE
