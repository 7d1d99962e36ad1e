SPECIFICATION Spec
CHECK_DEADLOCK FALSE
CONSTANTS
  NoKey = NoKey
  c1 = c1
  c2 = c2
  Key = {dispatch, retain}
  GatedKey = {dispatch}
  EnvelopeKey = {}
  FallbackKey = {}
  RetentionKey = {retain}
  Command <- Commands
  MaxApprovals = 2
  MaxTime = 1
  Ttl = 1
  Overlap = TRUE
  Crashes = FALSE
INVARIANTS
  DenialHolds
