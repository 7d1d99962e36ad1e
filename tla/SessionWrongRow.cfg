SPECIFICATION Spec
CHECK_DEADLOCK FALSE
CONSTANTS
  work = work
  GroupOrder <- OneGroup
  NoGroup = NoGroup
  MaxRequests = 3
  Overlap = FALSE
  Faults = FALSE
  MaxSessions = 3
  Existing = 3
PROPERTIES
  DeletesWhatItNamed
