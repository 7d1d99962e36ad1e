SPECIFICATION Spec
CHECK_DEADLOCK FALSE
CONSTANTS
  NTasks = 2
  MaxRuns = 2
  Limit = 2
  BriefTask <- First
  RemoteTask <- Second
  BrokenTask <- Nobody
  ResultTask <- Both
  Overlap = FALSE
  Crashes = FALSE
  Cooldowns = FALSE
  ScopedTask <- Nobody
  Commands <- AllCommands
INVARIANTS
  OneLiveRun
