\* A cancellation while Pi's statistics and commands are still awaited.
SPECIFICATION Spec
CONSTANTS
  Forks = {"fork"}
  Kept = {}
  Overlap = FALSE
  Closes = FALSE
  Creates = FALSE
INVARIANTS
  CancelRecovers
CHECK_DEADLOCK FALSE
