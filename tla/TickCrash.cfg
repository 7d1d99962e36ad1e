SPECIFICATION Spec
CHECK_DEADLOCK FALSE
CONSTANTS
  NTasks = 2
  MaxRuns = 2
  Limit = 1
  BriefTask <- Second
  RemoteTask <- Nobody
  BrokenTask <- Nobody
  ResultTask <- Both
  Overlap = FALSE
  Crashes = TRUE
  Cooldowns = FALSE
  ScopedTask <- Nobody
  Commands <- AllCommands
VIEW TickView
INVARIANTS
  ResumeRecorded
  TicketHasProbe
