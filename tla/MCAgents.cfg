SPECIFICATION MCSpec
CONSTANTS
  Retries = 2
  RepairLimit = 1
  Budget = 2
  Grace = 1
  p1 = p1
  p2 = p2
  p3 = p3
  p4 = p4
  Prompts = {p1, p2, p3, p4}
  Seeds = {seed0}
  MaxCalls = 4
  MaxRuns = 3
  Script <- TwoFanOuts
  EditPrompts = {q1, q2}
  EditSeeds = {seed1, seed2}
  Procs = {leader, child, grandchild, other}
  Leader = leader
  MaxPasses = 3
  SweepForks = 1
  MaxStops = 2
SYMMETRY Interchangeable
INVARIANTS
  ReplayFaithful
  ReplaysLongestPrefix
  SameScriptFullHit
  OneDeadline
  UsageCountedOnce
  RecordCoversWorkers
  SettledMeansGone
PROPERTIES
  RetryOnlyWhenSwept
CHECK_DEADLOCK FALSE
