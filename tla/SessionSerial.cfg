SPECIFICATION FairSpec
VIEW ListView
CHECK_DEADLOCK FALSE
CONSTANTS
  work = work
  GroupOrder <- OneGroup
  NoGroup = NoGroup
  MaxRequests = 2
  Overlap = FALSE
  Faults = TRUE
  MaxSessions = 2
  Existing = 0
INVARIANTS
  TypeOK
  ScreenIsFile
  NoOrphans
  DeletingIsUnderWay
PROPERTIES
  SpinnerEnds
