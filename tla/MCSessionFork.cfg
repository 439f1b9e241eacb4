\* A fork from the sidebar and one from a Session Tab, one after the other, which may be
\* cancelled, next to the creation of another session and to the close of the original.
SPECIFICATION Spec
CONSTANTS
  Forks = {"fork", "again"}
  Kept = {"again"}
  Overlap = FALSE
  Closes = TRUE
  Creates = TRUE
INVARIANTS
  TypeOK
  CollectionConsistent
  ForkOutcomeTrue
  ForkExcludesCreation
PROPERTIES
  OperationEnds
CHECK_DEADLOCK FALSE
