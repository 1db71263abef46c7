---------------------------- MODULE LibNfcState ----------------------------
(***************************************************************************)
(* The tables of LibNfc's state machine (LibNfc/phLibNfc_State.c) and the  *)
(* search for the target of an event.  An event without an entry has the   *)
(* target None; a connector is a target that a question about the context  *)
(* turns into a state.                                                     *)
(***************************************************************************)
EXTENDS NciDiscovery

\* phLibNfc_State2Event: what the caller asks for.
State2Event ==
  [Idle |-> [Init |-> "Init"],
   Init |-> [Reset |-> "Reset", Discovery |-> "DiscReq", Dummy |-> "Dummy"],
   Reset |-> [Reset |-> "Reset", Dummy |-> "Dummy"],
   Discovery |-> [Init |-> "Init", Reset |-> "Reset", Discovery |-> "DiscReq", Dummy |-> "Dummy"],
   Discovered |-> [Init |-> "Init", Reset |-> "Reset", Discovery |-> "DiscReq",
                   Activate |-> "DeviceType", Recv |-> "Recv", Dummy |-> "Dummy"],
   Transceive |-> [Init |-> "Init", Reset |-> "Reset", Discovery |-> "DiscReq",
                   DeActivate |-> "DeactType", DeActivateSleep |-> "Discovered",
                   Transceive |-> "Transceive", Dummy |-> "Dummy"],
   Send |-> [Init |-> "Init", Reset |-> "Reset", Discovery |-> "DiscReq", Send |-> "Recv",
             Dummy |-> "Dummy"],
   Recv |-> [Reset |-> "Reset", Discovery |-> "DiscReq", Recv |-> "Send", Dummy |-> "Dummy"],
   SEListen |-> [Reset |-> "Reset", Discovery |-> "DiscReq", Activate |-> "DeviceType",
                 Recv |-> "Send", Dummy |-> "Dummy"]]

\* phLibNfc_IntEvent2State: what happens.
IntEvent2State ==
  [Init |-> [ReqCompleted |-> "Init", Reseted |-> "Idle", BoardError |-> "Idle"],
   Reset |-> [ReqCompleted |-> "Idle", Reseted |-> "Idle"],
   Discovery |-> [ReqCompleted |-> "Discovery", Reseted |-> "Idle", Discovered |-> "ListnerNtf",
                  Activated |-> "ListnerNtf", BoardError |-> "Idle", Failed |-> "Init",
                  SEActivated |-> "SEListen", PCDActivated |-> "ListnerNtf"],
   Discovered |-> [ReqCompleted |-> "Discovered", Reseted |-> "Idle", TimeOut |-> "Discovered",
                   BoardError |-> "Idle"],
   Transceive |-> [ReqCompleted |-> "Transceive", Reseted |-> "Idle", TimeOut |-> "Transceive",
                   BoardError |-> "Idle", Failed |-> "Transceive"],
   Send |-> [ReqCompleted |-> "Send", Reseted |-> "Idle", Deactivated |-> "DeactType",
             PCDActivated |-> "SEListen"],
   Recv |-> [ReqCompleted |-> "Recv", Reseted |-> "Idle", Deactivated |-> "DeactType",
             PCDActivated |-> "SEListen"],
   SEListen |-> [ReqCompleted |-> "SEListen", Reseted |-> "Idle", BoardError |-> "Idle",
                 Deactivated |-> "DeactType", SEActivated |-> "SEListen",
                 PCDActivated |-> "SEListen"],
   Dummy |-> [ReqCompleted |-> "Dummy", Reseted |-> "Idle"]]

\* phLibNfc_StateConn: the answer 0 or 1 of the question picks a place.
State2State ==
  [Init |-> [DiscReq |-> <<"Discovery", "Init">>],
   Discovery |-> [ListnerNtf |-> <<"DeviceType", "Discovery">>,
                  DeviceType |-> <<"TgtType", "Discovered">>,
                  TgtType |-> <<"Recv", "SEListen">>,
                  DiscReq |-> <<"Discovery", "Init">>],
   Discovered |-> [DeviceType |-> <<"Recv", "Transceive">>, DiscReq |-> <<"Discovery", "Init">>],
   Transceive |-> [DeactType |-> <<"Discovery", "Init">>, DiscReq |-> <<"Discovery", "Init">>],
   Send |-> [DeactType |-> <<"Discovery", "Init">>, DiscReq |-> <<"Discovery", "Init">>],
   Recv |-> [DeactType |-> <<"Discovery", "Init">>, DiscReq |-> <<"Discovery", "Init">>],
   SEListen |-> [TgtType |-> <<"Recv", "SEListen">>, DeactType |-> <<"Discovery", "Init">>,
                 DiscReq |-> <<"Discovery", "Init">>]]

Entry(table, state, event) ==
  IF state \in DOMAIN table /\ event \in DOMAIN table[state] THEN table[state][event]
  ELSE None

States == {"Idle", "Init", "Reset", "Discovery", "Discovered", "Transceive", "Send", "Recv",
           "SEListen", "Dummy"}

(***************************************************************************)
(* The questions.  The device list is NCI's own, which pInfo points to     *)
(* (p.info: it is not NULL); p.cfg says whether the settings asked for     *)
(* enable anything.  Nobody registers a listener for kind "Other".         *)
(***************************************************************************)
ConnIsRfListnerRegistered(p) == p.info /\ \E i \in DOMAIN p.devs : p.devs[i].kind # "Other"
ConnChkDevType(p) == p.tech \/ p.totalDev > 1
ConnChkTgtType(p) == ~p.rfDep /\ p.totalDev <= 1
ChkDeActType(p) == p.mode \in {"Stop", "InternalStop"}
ChkDiscoveryType(cfg) == ~cfg

Answer1(p, connector, cfg) ==
  CASE connector = "ListnerNtf" -> ~ConnIsRfListnerRegistered(p)
    [] connector = "DeviceType" -> ConnChkDevType(p)
    [] connector = "TgtType" -> ConnChkTgtType(p)
    [] connector = "DeactType" -> ChkDeActType(p)
    [] connector = "DiscReq" -> ChkDiscoveryType(cfg)

Follow(p, curr, target, cfg) ==
  IF target \in States \cup {None} THEN target
  ELSE Entry(State2State, curr, target)[IF Answer1(p, target, cfg) THEN 2 ELSE 1]

\* phLibNfc_FindTrgtState: at most three connectors in a row.
FindTrgtState(p, curr, target, cfg) ==
  Follow(p, curr, Follow(p, curr, Follow(p, curr, target, cfg), cfg), cfg)

\* phLibNfc_StateStatusConversion: why an event is refused.
StateStatusConversion(p, event) ==
  CASE p.curr = "Init" /\ event = "Init" -> "initialised"
    [] ~(p.curr = "Init" /\ event = "Init") /\ p.trgt = "Reset" -> "shutdown"
    [] OTHER -> "invalid"
=============================================================================
