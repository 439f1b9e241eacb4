\* Two calls at a time, no failed write, no restart: one file resumed twice.
SPECIFICATION Spec
CONSTANTS
  s1 = s1
  s2 = s2
  f1 = f1
  Slots = {s1, s2}
  Files = {f1}
  MaxSessions = 3
  MaxCalls = 3
  MaxFailures = 0
  MaxLives = 1
  SavedOnly = FALSE
SYMMETRY Symmetry
INVARIANT OneEntryPerFile
CHECK_DEADLOCK FALSE
