SPECIFICATION FairSpec
CONSTANTS
  SLOW_SYMMETRY = 2
  MaxFrames = 3
  MaxFailures = 2
INVARIANTS
  InOrder
PROPERTY Settled
CHECK_DEADLOCK FALSE
