\* A close of the session between the first guard of forkMessage and the operation.
SPECIFICATION Spec
CONSTANTS
  Forks = {"fork"}
  Kept = {}
  Overlap = FALSE
  Closes = TRUE
  Creates = FALSE
PROPERTIES
  ForkEnds
CHECK_DEADLOCK FALSE
