SPECIFICATION FairSpec
CONSTANTS
  NTasks = 2
  MaxRuns = 2
  Limit = 2
  BriefTask <- Second
  RemoteTask <- Nobody
  BrokenTask <- Nobody
  ResultTask <- Both
  Overlap = FALSE
  Crashes = FALSE
  Cooldowns = FALSE
  ScopedTask <- Nobody
  Commands <- AllCommands
INVARIANTS
  TypeOK
  Supervised
  CreditHolds
  NoFalseLoss
  CancelHolds
PROPERTIES
  NoLaunchWhilePaused
  ResultIsSeen
  QueuedIsServed
