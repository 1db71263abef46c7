SPECIFICATION FairSpec
CONSTANTS
  Ids = {"discover", "deactivate", "listen", "reply"}
  Trans <- MCTrans
  NoTrans = NoTrans
  Conns = {"rf", "hci"}
  StaticConn = "rf"
  InitialCredits = 1
  MaxDataRegs = 1
  WriteResults = {TRUE, FALSE}
  MaxEntries = 1
  MaxPackets = 1
  MaxResets = 1
PROPERTIES EverySendEnds EveryExchangeEnds
CHECK_DEADLOCK FALSE
