SPECIFICATION FairSpec
CONSTANTS
  Handled = {"PostRfDiscoveryStart", "PostInitialize"}
  Devices = {"Tag", "Kovio", "Target", "Initiator", "PCD"}
  Operations = {"Start", "Stop", "UpdateDiscoveryState", "TargetReactivate", "TargetDeactivate",
                "TargetActivate", "WriteTag", "WriteP2P", "TargetSend", "ESETransceive",
                "SetRouting", "Enumerate"}
  RecoveryMode = TRUE
  TimesOut = TRUE
  SecureElements = 1
  MaxInputs = 4
  MaxFailures = 1
INVARIANTS
  ActiveHasDevice
  EventIsDriven
  OwnAnswer
  DiscoveryFollowsPower
  TagIsWatched
PROPERTY Answered
CHECK_DEADLOCK FALSE
