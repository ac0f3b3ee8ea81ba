SPECIFICATION Spec
CONSTANTS
  None = None
  Writers = {w1, w2}
  Contents = {x}
  MaxSequence = 3
  Processes = {p1}
  BatchSize = 2
  MaxBlocks = 1
  MaxFailures = 0
SYMMETRY Symmetry
CHECK_DEADLOCK FALSE
INVARIANT EventsVerify
