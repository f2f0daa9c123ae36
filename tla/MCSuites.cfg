SPECIFICATION MCSpec
CONSTANTS
  NExec = 2
  Workers = {w1, w2}
  MaxCommands <- ByLength
  t1 = t1
  t2 = t2
  armA = armA
  armB = armB
  Tasks = {t1, t2}
  Arms = {armA, armB}
  Manifests <- MCManifests
  MaxEvals = 3
  NTasks = 1
  MaxInvocations = 3
SYMMETRY Interchangeable
CONSTRAINT FewLeft
INVARIANTS
  OverlapRejected
  TerminalIsAlone
  CountedPatchWasJudged
  AttemptSurvivesFirst
  OneHarborPerTask
  BoundIsFinal
PROPERTIES
  NoGateAfterDrift
  ResetAlone
CHECK_DEADLOCK FALSE
