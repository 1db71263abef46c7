SPECIFICATION Spec
CONSTANTS
  Ids = {"discover", "segmented", "hci"}
  Trans <- MCTrans
  NoTrans = NoTrans
  Conns = {"rf", "hci"}
  StaticConn = "rf"
  InitialCredits = 1
  MaxDataRegs = 2
  WriteResults = {TRUE, FALSE}
  MaxEntries = 1
  MaxPackets = 1
  MaxResets = 1
INVARIANTS NoOverrun CalledBackOnce
CHECK_DEADLOCK FALSE
