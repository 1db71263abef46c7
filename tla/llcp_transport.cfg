SPECIFICATION Spec
CONSTANTS
  NB = 2
  Modulo = 4
  RW = 2
  Peers = {p, q}
  Callers = {p}
  Crossing = FALSE
  MaxSends = 5
  MaxFed = 3
INVARIANTS
  InOrder
  NoneStranded
CHECK_DEADLOCK FALSE
