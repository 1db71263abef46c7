SPECIFICATION Spec
CONSTANTS
  None = None
  Finds <- MCFinds
  MaxCalls = 4
  MaxEvents = 3
  MaxFaults = 1
INVARIANTS
  BusyIsDriven
  Answered
  ListensToReader

CHECK_DEADLOCK FALSE
