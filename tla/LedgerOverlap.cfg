SPECIFICATION Spec
CHECK_DEADLOCK FALSE
CONSTANTS
  NoKey = NoKey
  c1 = c1
  c2 = c2
  Key = {dispatch, retain}
  GatedKey = {dispatch}
  EnvelopeKey = {dispatch}
  FallbackKey = {}
  RetentionKey = {retain}
  Command <- Commands
  MaxApprovals = 2
  MaxTime = 2
  Ttl = 1
  Overlap = TRUE
  Crashes = TRUE
VIEW LedgerView
SYMMETRY CommandSymmetry
INVARIANTS
  OneOpenRequest
  UseNeedsApproval
