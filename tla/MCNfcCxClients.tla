--------------------------- MODULE MCNfcCxClients ---------------------------
(* NfcCxClients for TLC: a few files of each kind, and casts of two or      *)
(* three that get into each other's way.                                    *)
EXTENDS NfcCxClients

MCRole == [mgrA |-> "manager", mgrB |-> "manager", eseA |-> "ese", eseB |-> "ese",
           scA |-> "sc", scB |-> "sc", event |-> "event", radio |-> "radio",
           pubP |-> "p2p", pubW |-> "writetag", pubV |-> "writetag", pubR |-> "readonly",
           sub |-> "message", arr |-> "arrival"]
MCFiles == DOMAIN MCRole
MCSecureElements == {"ese"}
MCRadio == {TRUE}

Cast(requests, devices, events, idles, faults) ==
  [files |-> DOMAIN requests, devices |-> devices, events |-> events, idles |-> idles, faults |-> faults,
   requests |-> [f \in MCFiles |-> IF f \in DOMAIN requests THEN requests[f] ELSE {}]]

Mode == "SetCardEmulationMode"
Power == "SetPowerMode"
Wait == "DispatchPresence"
Again == "Beside"

MCScenarios == {
  Cast([mgrA |-> {Mode, Power, "Close"}, mgrB |-> {Mode, "Close"}], {}, 0, 1, 1),
  Cast([mgrA |-> {Mode, "Close"}, eseA |-> {"ESEDispatchTransmit", Wait, "Close"}], {}, 0, 1, 1),
  Cast([eseA |-> {"ESEDispatchSetPower", Wait, "Close"}, eseB |-> {Wait, "Close"}], {}, 0, 1, 1),
  Cast([mgrA |-> {"GetNext", "Close"}, event |-> {"GetNext", "Close"}], {}, 2, 1, 0),
  Cast([scA |-> {"DispatchTransmit", Wait, "Close"}, scB |-> {Wait}], {"iso"}, 0, 0, 1),
  Cast([scA |-> {Wait, Again, "Close"}], {"iso"}, 0, 0, 1),
  Cast([eseA |-> {Wait, Again, "Close"}], {}, 0, 0, 0),
  Cast([scA |-> {"DispatchTransmit", "Close"}, sub |-> {}], {"iso", "odd"}, 0, 0, 0),
  Cast([scA |-> {"DispatchSwitchProtocol", "DispatchSetPower", Wait}, radio |-> {"SetRadioState"}], {"odd"}, 0, 1, 1),
  Cast([pubP |-> {"SetPayload", "Close"}, pubW |-> {"SetPayload"}], {"peer"}, 0, 0, 0),
  Cast([pubW |-> {"SetPayload", "NfpDisable"}, pubV |-> {"SetPayload"}], {"tag"}, 0, 0, 0),
  Cast([pubW |-> {"SetPayload", "Close"}, pubR |-> {"GetNext"}], {"tag"}, 0, 0, 0),
  Cast([sub |-> {"GetNext", "NfpDisable"}, arr |-> {"GetNext", "Close"}], {"tag"}, 1, 0, 0),
  Cast([pubP |-> {"SetPayload", "NfpDisable", "NfpEnable"}, radio |-> {"SetRadioState"}], {"peer"}, 0, 1, 0)}
=============================================================================
