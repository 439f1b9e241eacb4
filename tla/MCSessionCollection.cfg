\* Two calls at a time, three sessions, one failed write, one restart.
SPECIFICATION Spec
CONSTANTS
  s1 = s1
  s2 = s2
  f1 = f1
  Slots = {s1, s2}
  Files = {f1}
  MaxSessions = 3
  MaxCalls = 3
  MaxFailures = 1
  MaxLives = 2
  SavedOnly = FALSE
SYMMETRY Symmetry
INVARIANTS
  TypeOK
  StoredMatches
  IndexRemembers
  NoStrayProcess
PROPERTIES
  RestoredSelectionExists
CHECK_DEADLOCK FALSE
