SPECIFICATION Spec
CHECK_DEADLOCK FALSE
SYMMETRY OperatorSymmetry
CONSTANTS
  c1 = c1
  ann = ann
  bob = bob
  Claim <- OneClaim
  Degree <- AnyDegree
  Operator <- TwoOperators
  Existing = 1
  Waiting = 1
  MaxCandidates = 3
  MaxCount = 3
  MaxEntries = 2
  MaxCommands = 3
  MaxDecisions = 2
  MaxSelected = 1
  MaxAcks = 1
  AckQuery <- BroadOnly
  MaxCuts = 1
CONSTRAINT OneOfThree
INVARIANTS
  TypeOK
  OneFate
  AuditIsTrue
  LeavesOutWhatWasShown
  HiddenWasSeen
