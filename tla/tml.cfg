\* The TML: queues, reference counts, ordering, and that everything is completed.
SPECIFICATION FairSpec
CONSTANTS
  Writes = {w1, w2}
  NoWrite = NoWrite
  MaxPackets = 3
  MaxTimeouts = 1
  MaxRestarts = 1
INVARIANTS
  WriteExclusion
  CompletedOnce
  ResponseAfterWriteCallback
  InOrder
PROPERTIES
  EveryWriteCompletes
  EveryPacketDelivered
CHECK_DEADLOCK FALSE
