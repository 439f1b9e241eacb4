\* A command sent while stop() waits for the process.
SPECIFICATION Spec
CONSTANTS
  Dialects = {"pi"}
  MaxCommands = 1
  MaxStarts = 1
  MaxBuffered = 1
INVARIANTS
  NoRequestOutlivesProcess
CHECK_DEADLOCK FALSE
