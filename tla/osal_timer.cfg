\* Users that stop a timer before they start it again, and leave timers behind.
SPECIFICATION FairSpec
CONSTANTS
  PH_MAX_OSAL_NUM_TIMERS = 2
  MaxStarts = 3
  StartsRunning = FALSE
  StartsInCallback = FALSE
  LeavesTimers = TRUE
INVARIANTS
  CalledOnce
PROPERTIES
  StoppedStaysSilent
  ExpiryIsDelivered
CHECK_DEADLOCK FALSE
