SPECIFICATION FairSpec
CONSTANTS
  Messages = {m1, m2}
  PH_OSALNFC_EXIT_THREAD = exit
  NoMessage = none
  PH_OSAL_MSG_QUEUE_MAX_SIZE = 3
PROPERTIES
  ImplementsFifo
CHECK_DEADLOCK FALSE
