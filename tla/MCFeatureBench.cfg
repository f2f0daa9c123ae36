SPECIFICATION Spec
CONSTANTS
  Task = {t1, t2}
  MaxCommands = 3
  BadMetadata = FALSE
SYMMETRY Interchangeable
INVARIANTS
  ScoreOfBoundPrediction
  RedoneStaysInvalid
  AcceptedNeverRegress
CHECK_DEADLOCK FALSE
