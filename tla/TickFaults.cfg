SPECIFICATION Spec
CHECK_DEADLOCK FALSE
CONSTANTS
  NTasks = 2
  MaxRuns = 2
  Limit = 1
  BriefTask <- First
  RemoteTask <- Nobody
  BrokenTask <- Second
  ResultTask <- Nobody
  Overlap = FALSE
  Crashes = FALSE
  Cooldowns = TRUE
  ScopedTask <- First
  Commands <- QueueAndResolve
VIEW TickView
INVARIANTS
  CreditHolds
PROPERTIES
  ScopeRespected
