SPECIFICATION MCSpec
CONSTANTS
  s1 = s1
  s2 = s2
  Calls = {c1, c2}
  Values <- MCValues
  Settings <- MCSettings
  Asks <- MCAsks
  Files <- MCFiles
  Scripts = {"s1", "s2", "broken"}
  Accepts <- MCAccepts
  MaxEdits = 1
  Versions = {1, 2}
  Installers = {i1, i2}
  ReusePids = FALSE
  MaxStarts = 2
  MaxBuilds = 2
  Sessions = {s1, s2}
  Scenes <- MCScenes
  Growth = 2
  TailLines = 1
  MaxHolds = 1
  LateJumps = 2
INVARIANT ResumeKeepsBudget
CHECK_DEADLOCK FALSE
