SPECIFICATION Spec
CHECK_DEADLOCK FALSE
CONSTANTS
  NoKey = NoKey
  c1 = c1
  c2 = c2
  Key = {dispatch, fallback, retain}
  GatedKey = {dispatch}
  EnvelopeKey = {dispatch}
  FallbackKey = {fallback}
  RetentionKey = {retain}
  Command <- OneCommand
  MaxApprovals = 3
  MaxTime = 2
  Ttl = 1
  Overlap = FALSE
  Crashes = FALSE
INVARIANTS
  TypeOK
  GrantUsedOnce
  DenialHolds
  AuditComplete
PROPERTIES
  NothingUndone
  ImplementsPerKey
