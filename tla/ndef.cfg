CONSTANTS
  Tags <- MCTags
  Messages <- MCMessages
  MaxOps = 4
  MaxFaults = 1
SPECIFICATION Spec
INVARIANTS NotTorn Faithful Served
CHECK_DEADLOCK FALSE
