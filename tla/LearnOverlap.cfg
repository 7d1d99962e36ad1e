SPECIFICATION FairSpec
CONSTANTS
  NTasks = 1
  MaxDenials = 1
  MaxRows = 1
  MaxAttempts = 1
  MaxDisturbed = 2
  Overlap = TRUE
INVARIANTS
  TypeOK
  CursorBacked
  RepeatsExplained
PROPERTIES
  Learned
