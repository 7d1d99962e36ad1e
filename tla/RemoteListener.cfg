SPECIFICATION FairSpec
CONSTANTS
  Kind = {"ask", "confirm", "cancel", "pause", "foreign"}
  MaxUpdates = 3
  MaxDeaths = 1
  MaxRepairs = 1
INVARIANTS
  TypeOK
  EffectOnce
  ConfirmedOnce
  NoneSkipped
  StuckExplained
PROPERTY
  Answered
