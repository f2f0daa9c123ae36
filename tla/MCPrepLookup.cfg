SPECIFICATION MCSpec
CONSTANTS
  p1 = p1
  p2 = p2
  p3 = p3
  Jobs = {j1, j2}
  Forking = {j1}
  MaxHops = 1
  MaxPasses = 3
  MaxResumes = 2
  Commands = {c1, c2}
  Suites = {"swebench", "marathon", "featurebench"}
  Contents = {1, 2}
  Procs = {p1, p2, p3}
  Nobody = Nobody
  MaxBytes = 3
  Scenes <- MCScenes
INVARIANT PrepSucceeds
CHECK_DEADLOCK FALSE
