SPECIFICATION FairSpec
CONSTANTS
  None = None
  Writers = {w1, w2}
  Contents = {x}
  MaxSequence = 3
  Processes = {p1, p2}
  BatchSize = 2
  MaxBlocks = 8
  MaxFailures = 1
CHECK_DEADLOCK FALSE
INVARIANTS
  TypeOK
PROPERTIES
  ChainHolds
  ReferencesStand
  EventsGetAnchored
