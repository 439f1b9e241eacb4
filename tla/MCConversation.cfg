SPECIFICATION Spec
CONSTANT
  Scenarios <- MCScenarios
INVARIANTS
  TypeOK
  ViewTrue
  RightPrompt
  QuietMeansDone
CHECK_DEADLOCK FALSE
