SPECIFICATION MCSpec
CONSTANTS
  Callers = {a1, a2, a3}
  Permits = 1
  MaxAgents = 3
  BudgetTotal = 1
  Unlimited = Unlimited
  MaxTokens = 1
  HasWorktrees = TRUE
  HasReplay = TRUE
  Calls = {n1, n2}
  Children = {c1, c2}
INVARIANTS
  OvershootBounded
  NoOvertaking
PROPERTIES
  EveryCallEnds
  StopReachesScripts
CHECK_DEADLOCK FALSE
