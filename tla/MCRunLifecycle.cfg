SPECIFICATION Spec
CONSTANTS
  Stoppers = {s1, s2}
  Workers = {w1}
INVARIANTS
  ResumableIsQuiet
  StopReportHonest
PROPERTIES
  NoRevival
  AbortEndsRunner
CHECK_DEADLOCK FALSE
