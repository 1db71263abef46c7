--------------------------- MODULE NfcCxRFProofs ---------------------------
(***************************************************************************)
(* Proofs about the RF interface of the class extension: one thing carries *)
(* every event on, a caller wakes to the status of its own event, an       *)
(* active state has a remote device, and discovery follows the power       *)
(* policy (the second part of the module).                                 *)
(*                                                                         *)
(* The inductive invariant is RfInv.  Its heart is Sound: a sequence runs  *)
(* exactly while an event does, and is carried by one message to resume it *)
(* or by one step that is to be answered, which is the step before the     *)
(* next one.  Two facts about the tables of the state machine are needed   *)
(* to keep it: a sequence whose completion answers a caller is started by  *)
(* the event of a caller only, and one whose completion clears the list of *)
(* remote devices leads to a state that is not active (Good, GoodHandler). *)
(* Owned says where the event of the caller is: queued, running or         *)
(* answered, and nowhere twice.                                            *)
(*                                                                         *)
(* The functions of the source are followed from the innermost outwards: a *)
(* step (StepEffectIs), a run of steps (RunCarries), a handler             *)
(* (StateHandlerWell), an event (EventProcessWell), the end of a sequence  *)
(* (SequenceCompleteWell) and its resumption (SequenceResumeWell); each    *)
(* lemma says what the caller of the event sees of it (Followed).          *)
(***************************************************************************)
EXTENDS NfcCxRF, FiniteSetTheorems, TLAPS

InternalEvents == {"ReqCompleted", "Failed", "Discovered", "Activated", "Deactivated",
                   "Recovery"}
DiscoveryModes == {"RfIdle", "RfDiscovery"}

Leaves(state, event, to) ==
  CASE state = "Idle" -> \/ event = "Init" /\ to = "Init"
                         \/ event = "ReqCompleted" /\ to = "Idle"
    [] state = "Init" -> \/ event = "ReqCompleted" /\ to = "RfIdle"
                         \/ event = "Failed" /\ to = "Shutdown"
    [] state = "RfIdle" -> \/ event = "Deinit" /\ to = "Shutdown"
                           \/ event = "ConfigDiscovery" /\ to \in DiscoveryModes
                           \/ event \in {"StopDiscovery", "Config", "SE"} /\ to = "RfIdle"
                           \/ event \in {"ReqCompleted", "Failed"} /\ to = "RfIdle"
                           \/ event = "Recovery" /\ to = "Recovery"
    [] state = "RfDiscovery" -> \/ event = "Deinit" /\ to = "Shutdown"
                                \/ event = "ConfigDiscovery" /\ to \in DiscoveryModes
                                \/ event = "StopDiscovery" /\ to = "RfIdle"
                                \/ event \in {"SE", "ReqCompleted", "Failed"} /\ to = "RfDiscovery"
                                \/ event = "Recovery" /\ to = "Recovery"
                                \/ event = "Discovered" /\ to = "RfDiscovered"
    [] state = "RfDiscovered" -> \/ event = "Deinit" /\ to = "Shutdown"
                                 \/ event \in {"ConfigDiscovery", "Deactivated", "Failed"} /\ to \in DiscoveryModes
                                 \/ event = "StopDiscovery" /\ to = "RfIdle"
                                 \/ event \in {"Activate", "Activated"} /\ to = "RfDataXchg"
                                 \/ event \in {"SE", "ReqCompleted"} /\ to = "RfDiscovered"
                                 \/ event = "Recovery" /\ to = "Recovery"
    [] state = "RfDataXchg" -> \/ event = "Deinit" /\ to = "Shutdown"
                               \/ event \in {"ConfigDiscovery", "Deactivated"} /\ to \in DiscoveryModes
                               \/ event = "StopDiscovery" /\ to = "RfIdle"
                               \/ event = "DeactivateSleep" /\ to = "RfDiscovered"
                               \/ event \in {"SE", "DataXchg", "ReqCompleted", "Failed"} /\ to = "RfDataXchg"
                               \/ event = "Recovery" /\ to = "Recovery"
    [] state = "Recovery" -> \/ event = "Deinit" /\ to = "Shutdown"
                             \/ event = "ReqCompleted" /\ to \in DiscoveryModes
                             \/ event = "Failed" /\ to = "Idle"
    [] state = "Shutdown" -> event \in {"ReqCompleted", "Failed"} /\ to = "Idle"

(* What the two tables of the state machine lead to, state by state. *)
LEMMA Targets ==
  ASSUME NEW c, c.state \in States, NEW event \in UserEvents \cup InternalEvents,
         FindTargetState(c, event) # None
  PROVE  Leaves(c.state, event, FindTargetState(c, event))
<1> DEFINE user == g_NfcCxUsrEvent2StateMap[c.state]
           own == g_NfcCxIntEvent2StateMap[c.state]
<1>u. /\ DOMAIN g_NfcCxUsrEvent2StateMap = {"Idle", "RfIdle", "RfDiscovery", "RfDiscovered",
                                            "RfDataXchg", "Recovery"}
      /\ DOMAIN g_NfcCxIntEvent2StateMap = {"Idle", "Init", "RfIdle", "RfDiscovery",
                                            "RfDiscovered", "RfDataXchg", "Recovery", "Shutdown"}
  BY DEF g_NfcCxUsrEvent2StateMap, g_NfcCxIntEvent2StateMap
<1>f. FindTargetState(c, event) =
        IF event \in UserEvents
        THEN IF c.state \in DOMAIN g_NfcCxUsrEvent2StateMap /\ event \in DOMAIN user
             THEN Connect(c, user[event]) ELSE None
        ELSE IF c.state \in DOMAIN g_NfcCxIntEvent2StateMap /\ event \in DOMAIN own
             THEN Connect(c, own[event]) ELSE None
  BY DEF FindTargetState
<1>1. CASE c.state = "Idle"
  <2>1. /\ DOMAIN user = {"Init"}
        /\ user["Init"] = "Init"
        /\ DOMAIN own = {"ReqCompleted"}
        /\ own["ReqCompleted"] = "Idle"
    BY <1>1 DEF g_NfcCxUsrEvent2StateMap, g_NfcCxIntEvent2StateMap
  <2> HIDE DEF user, own
  <2> QED  BY <1>1, <1>u, <1>f, <2>1
              DEF Connect, Leaves, DiscoveryModes, UserEvents, InternalEvents, None
<1>2. CASE c.state = "Init"
  <2>1. /\ DOMAIN own = {"ReqCompleted", "Failed"}
        /\ own["ReqCompleted"] = "RfIdle"
        /\ own["Failed"] = "Shutdown"
    BY <1>2 DEF g_NfcCxUsrEvent2StateMap, g_NfcCxIntEvent2StateMap
  <2> HIDE DEF user, own
  <2> QED  BY <1>2, <1>u, <1>f, <2>1
              DEF Connect, Leaves, DiscoveryModes, UserEvents, InternalEvents, None
<1>3. CASE c.state = "RfIdle"
  <2>1. /\ DOMAIN user = {"Deinit", "ConfigDiscovery", "StopDiscovery", "Config", "SE"}
        /\ user["Deinit"] = "Shutdown"
        /\ user["ConfigDiscovery"] = "ConnChkDiscMode"
        /\ user["StopDiscovery"] = "RfIdle"
        /\ user["Config"] = "RfIdle"
        /\ user["SE"] = "RfIdle"
        /\ DOMAIN own = {"ReqCompleted", "Recovery", "Failed"}
        /\ own["ReqCompleted"] = "RfIdle"
        /\ own["Recovery"] = "Recovery"
        /\ own["Failed"] = "RfIdle"
    BY <1>3 DEF g_NfcCxUsrEvent2StateMap, g_NfcCxIntEvent2StateMap
  <2> HIDE DEF user, own
  <2> QED  BY <1>3, <1>u, <1>f, <2>1
              DEF Connect, Leaves, DiscoveryModes, UserEvents, InternalEvents, None
<1>4. CASE c.state = "RfDiscovery"
  <2>1. /\ DOMAIN user = {"Deinit", "ConfigDiscovery", "StopDiscovery", "SE"}
        /\ user["Deinit"] = "Shutdown"
        /\ user["ConfigDiscovery"] = "ConnChkDiscMode"
        /\ user["StopDiscovery"] = "RfIdle"
        /\ user["SE"] = "RfDiscovery"
        /\ DOMAIN own = {"ReqCompleted", "Recovery", "Discovered", "Failed"}
        /\ own["ReqCompleted"] = "RfDiscovery"
        /\ own["Recovery"] = "Recovery"
        /\ own["Discovered"] = "RfDiscovered"
        /\ own["Failed"] = "RfDiscovery"
    BY <1>4 DEF g_NfcCxUsrEvent2StateMap, g_NfcCxIntEvent2StateMap
  <2> HIDE DEF user, own
  <2> QED  BY <1>4, <1>u, <1>f, <2>1
              DEF Connect, Leaves, DiscoveryModes, UserEvents, InternalEvents, None
<1>5. CASE c.state = "RfDiscovered"
  <2>1. /\ DOMAIN user = {"Deinit", "ConfigDiscovery", "StopDiscovery", "Activate", "SE"}
        /\ user["Deinit"] = "Shutdown"
        /\ user["ConfigDiscovery"] = "ConnChkDiscMode"
        /\ user["StopDiscovery"] = "RfIdle"
        /\ user["Activate"] = "ConnChkDeviceType"
        /\ user["SE"] = "RfDiscovered"
        /\ DOMAIN own = {"ReqCompleted", "Recovery", "Activated", "Deactivated", "Failed"}
        /\ own["ReqCompleted"] = "RfDiscovered"
        /\ own["Recovery"] = "Recovery"
        /\ own["Activated"] = "RfDataXchg"
        /\ own["Deactivated"] = "ConnChkDiscMode"
        /\ own["Failed"] = "ConnChkDiscMode"
    BY <1>5 DEF g_NfcCxUsrEvent2StateMap, g_NfcCxIntEvent2StateMap
  <2> HIDE DEF user, own
  <2> QED  BY <1>5, <1>u, <1>f, <2>1
              DEF Connect, Leaves, DiscoveryModes, UserEvents, InternalEvents, None
<1>6. CASE c.state = "RfDataXchg"
  <2>1. /\ DOMAIN user = {"Deinit", "ConfigDiscovery", "StopDiscovery", "DeactivateSleep",
                          "DataXchg", "SE"}
        /\ user["Deinit"] = "Shutdown"
        /\ user["ConfigDiscovery"] = "ConnChkDiscMode"
        /\ user["StopDiscovery"] = "RfIdle"
        /\ user["DeactivateSleep"] = "ConnChkDeviceType"
        /\ user["DataXchg"] = "RfDataXchg"
        /\ user["SE"] = "RfDataXchg"
        /\ DOMAIN own = {"ReqCompleted", "Recovery", "Deactivated", "Failed"}
        /\ own["ReqCompleted"] = "RfDataXchg"
        /\ own["Recovery"] = "Recovery"
        /\ own["Deactivated"] = "ConnChkDiscMode"
        /\ own["Failed"] = "RfDataXchg"
    BY <1>6 DEF g_NfcCxUsrEvent2StateMap, g_NfcCxIntEvent2StateMap
  <2> HIDE DEF user, own
  <2> QED  BY <1>6, <1>u, <1>f, <2>1
              DEF Connect, Leaves, DiscoveryModes, UserEvents, InternalEvents, None
<1>7. CASE c.state = "Recovery"
  <2>1. /\ DOMAIN user = {"Deinit"}
        /\ user["Deinit"] = "Shutdown"
        /\ DOMAIN own = {"ReqCompleted", "Failed"}
        /\ own["ReqCompleted"] = "ConnChkDiscMode"
        /\ own["Failed"] = "Idle"
    BY <1>7 DEF g_NfcCxUsrEvent2StateMap, g_NfcCxIntEvent2StateMap
  <2> HIDE DEF user, own
  <2> QED  BY <1>7, <1>u, <1>f, <2>1
              DEF Connect, Leaves, DiscoveryModes, UserEvents, InternalEvents, None
<1>8. CASE c.state = "Shutdown"
  <2>1. /\ DOMAIN own = {"ReqCompleted", "Failed"}
        /\ own["ReqCompleted"] = "Idle"
        /\ own["Failed"] = "Idle"
    BY <1>8 DEF g_NfcCxUsrEvent2StateMap, g_NfcCxIntEvent2StateMap
  <2> HIDE DEF user, own
  <2> QED  BY <1>8, <1>u, <1>f, <2>1
              DEF Connect, Leaves, DiscoveryModes, UserEvents, InternalEvents, None
<1> QED  BY <1>1, <1>2, <1>3, <1>4, <1>5, <1>6, <1>7, <1>8 DEF States

-----------------------------------------------------------------------------
(* The plans of the handlers *)

StepName ==
  ClientSteps \cup {"ClientConnect", "ClientPut", "ConfigureRoutingTable", "Deinitialize",
                    "DisableSecureElements", "ESEResetSeq", "ESETransceiveSeq", "Initialize",
                    "LlcpActivate", "LlcpCheck", "LlcpConfigure", "LlcpDeactivate",
                    "RemoteDevConnect", "RemoteDevDisconnect", "RemoteDevNtfRegister",
                    "RemoteDevSend", "RfDiscoveryConfig", "RfDiscoveryStop", "SEEnumerate",
                    "SENtfRegister", "SESetModeConfig", "SESetPowerAndLinkControl",
                    "SetDefaultRoutingTable", "TagCheckNdef", "TagConvertReadOnly",
                    "TagFormatNdef", "TagReadBarcode", "TagReadNdef", "TagWriteNdef",
                    "TargetPresenceCheck", "TargetTransceive"}

Leads(s) ==
  /\ s \in Seq(StepName) /\ s # <<>>
  /\ \A i \in {1, 2} : i \in DOMAIN s => s[i] # "PostInitialize"

(* A list of steps that never begins with PostInitialize, however it goes on: *)
(* it is what InitializeRedo needs to step back by three.                     *)
LEMMA LeadsOn ==
  ASSUME NEW s, Leads(s), Len(s) >= 2, NEW t \in Seq(StepName)
  PROVE  Leads(s \o t) /\ Len(s \o t) >= 2
<1>1. s \o t \in Seq(StepName) /\ Len(s \o t) = Len(s) + Len(t)
  BY DEF Leads
<1>2. \A i \in {1, 2} : (s \o t)[i] = s[i] /\ i \in DOMAIN s
  BY DEF Leads
<1> QED  BY <1>1, <1>2 DEF Leads

LEMMA LeadsAfter ==
  ASSUME NEW x \in StepName, x # "PostInitialize", NEW s, Leads(s)
  PROVE  Leads(<<x>> \o s) /\ Len(<<x>> \o s) >= 2
<1>1. <<x>> \in Seq(StepName) /\ Len(<<x>>) = 1 /\ <<x>>[1] = x
  OBVIOUS
<1>2. <<x>> \o s \in Seq(StepName) /\ Len(<<x>> \o s) = 1 + Len(s)
  BY <1>1 DEF Leads
<1>3. (<<x>> \o s)[1] = x /\ (<<x>> \o s)[2] = s[1]
  BY <1>1 DEF Leads
<1> QED  BY <1>2, <1>3 DEF Leads

LEMMA LeadsOne ==
  ASSUME NEW x \in StepName, x # "PostInitialize"
  PROVE  Leads(<<x>>)
  BY DEF Leads

LEMMA LeadsTwo ==
  ASSUME NEW x \in StepName, NEW y \in StepName, x # "PostInitialize", y # "PostInitialize"
  PROVE  Leads(<<x, y>>) /\ Len(<<x, y>>) >= 2
  BY DEF Leads

LEMMA LeadsThree ==
  ASSUME NEW x \in StepName, NEW y \in StepName, NEW z \in StepName,
         x # "PostInitialize", y # "PostInitialize"
  PROVE  Leads(<<x, y, z>>) /\ Len(<<x, y, z>>) >= 2
  BY DEF Leads

LEMMA LeadsFour ==
  ASSUME NEW w \in StepName, NEW x \in StepName, NEW y \in StepName, NEW z \in StepName,
         w # "PostInitialize", x # "PostInitialize"
  PROVE  Leads(<<w, x, y, z>>) /\ Len(<<w, x, y, z>>) >= 2
  BY DEF Leads

(* The sequences of the source are such lists. *)
LEMMA StepLists ==
  /\ Leads(INITIALIZE_SEQUENCE) /\ Len(INITIALIZE_SEQUENCE) >= 2
  /\ Leads(DEINITIALIZE_SEQUENCE) /\ Len(DEINITIALIZE_SEQUENCE) >= 2
  /\ Leads(RF_DISCOVERY_CONFIG_SEQUENCE) /\ Len(RF_DISCOVERY_CONFIG_SEQUENCE) >= 2
  /\ Leads(RF_DISCOVERY_STOP_SEQUENCE) /\ Len(RF_DISCOVERY_STOP_SEQUENCE) >= 2
  /\ Leads(DISCONNECT_STOP_SEQUENCE) /\ Len(DISCONNECT_STOP_SEQUENCE) >= 2
  /\ Leads(TAG_READ_NDEF_SEQUENCE) /\ Len(TAG_READ_NDEF_SEQUENCE) = 2
  /\ Leads(TAG_WRITE_NDEF_SEQUENCE)
  /\ Leads(SE_ENUMERATE_SEQUENCE) /\ Len(SE_ENUMERATE_SEQUENCE) >= 2
  /\ Leads(REGISTER_SEQUENCE)
<1>1. Leads(INITIALIZE_SEQUENCE) /\ Len(INITIALIZE_SEQUENCE) >= 2
  <2>1. /\ {"PreInitialize", "Initialize", "PostInitialize"} \subseteq StepName
        /\ "PostInitialize" \notin {"PreInitialize", "Initialize"}
    BY DEF StepName, ClientSteps
  <2> QED  BY <2>1, LeadsThree DEF INITIALIZE_SEQUENCE
<1>2. Leads(DEINITIALIZE_SEQUENCE) /\ Len(DEINITIALIZE_SEQUENCE) >= 2
  <2>1. /\ {"PreDeinitialize", "Deinitialize", "PostDeinitialize"} \subseteq StepName
        /\ "PostInitialize" \notin {"PreDeinitialize", "Deinitialize"}
    BY DEF StepName, ClientSteps
  <2> QED  BY <2>1, LeadsThree DEF DEINITIALIZE_SEQUENCE
<1>3. Leads(RF_DISCOVERY_CONFIG_SEQUENCE) /\ Len(RF_DISCOVERY_CONFIG_SEQUENCE) >= 2
  <2>1. /\ {"PreRfDiscoveryStart", "RfDiscoveryConfig", "PostRfDiscoveryStart"} \subseteq StepName
        /\ "PostInitialize" \notin {"PreRfDiscoveryStart", "RfDiscoveryConfig"}
    BY DEF StepName, ClientSteps
  <2> QED  BY <2>1, LeadsThree DEF RF_DISCOVERY_CONFIG_SEQUENCE
<1>4. Leads(RF_DISCOVERY_STOP_SEQUENCE) /\ Len(RF_DISCOVERY_STOP_SEQUENCE) >= 2
  <2>1. /\ {"PreRfDiscoveryStop", "RfDiscoveryStop", "PostRfDiscoveryStop"} \subseteq StepName
        /\ "PostInitialize" \notin {"PreRfDiscoveryStop", "RfDiscoveryStop"}
    BY DEF StepName, ClientSteps
  <2> QED  BY <2>1, LeadsThree DEF RF_DISCOVERY_STOP_SEQUENCE
<1>5. Leads(DISCONNECT_STOP_SEQUENCE) /\ Len(DISCONNECT_STOP_SEQUENCE) >= 2
  <2>1. /\ {"PreRfDiscoveryStop", "RemoteDevDisconnect", "PostRfDiscoveryStop"} \subseteq StepName
        /\ "PostInitialize" \notin {"PreRfDiscoveryStop", "RemoteDevDisconnect"}
    BY DEF StepName, ClientSteps
  <2> QED  BY <2>1, LeadsThree DEF DISCONNECT_STOP_SEQUENCE
<1>6. Leads(TAG_READ_NDEF_SEQUENCE) /\ Len(TAG_READ_NDEF_SEQUENCE) = 2
  <2>1. /\ "TagCheckNdef" \in StepName /\ "TagReadNdef" \in StepName
        /\ "PostInitialize" \notin {"TagCheckNdef", "TagReadNdef"}
    BY DEF StepName, ClientSteps
  <2> QED  BY <2>1, LeadsTwo DEF TAG_READ_NDEF_SEQUENCE
<1>7. Leads(TAG_WRITE_NDEF_SEQUENCE)
  <2>1. /\ {"TagFormatNdef", "TagCheckNdef", "TagWriteNdef"} \subseteq StepName
        /\ "PostInitialize" \notin {"TagFormatNdef", "TagCheckNdef"}
    BY DEF StepName, ClientSteps
  <2> QED  BY <2>1, LeadsThree DEF TAG_WRITE_NDEF_SEQUENCE
<1>8. Leads(SE_ENUMERATE_SEQUENCE) /\ Len(SE_ENUMERATE_SEQUENCE) >= 2
  <2>1. /\ {"PreSEEnumerate", "SEEnumerate", "PostSEEnumerate",
            "SetDefaultRoutingTable"} \subseteq StepName
        /\ "PostInitialize" \notin {"PreSEEnumerate", "SEEnumerate"}
    BY DEF StepName, ClientSteps
  <2> QED  BY <2>1, LeadsFour DEF SE_ENUMERATE_SEQUENCE
<1>9. Leads(REGISTER_SEQUENCE)
  <2>1. /\ {"RemoteDevNtfRegister", "LlcpConfigure", "SENtfRegister"} \subseteq StepName
        /\ "PostInitialize" \notin {"RemoteDevNtfRegister", "LlcpConfigure"}
    BY DEF StepName, ClientSteps
  <2> QED  BY <2>1, LeadsThree DEF REGISTER_SEQUENCE
<1> QED  BY <1>1, <1>2, <1>3, <1>4, <1>5, <1>6, <1>7, <1>8, <1>9

(* The sequences that answer whoever asked, and those that clear the list. *)
Answering == {"Init", "StopRfDiscovery", "TagActivate", "SESetMode", "SetRoutingTable",
              "SEEnumerate", "ESETransceive", "ESEReset", "RfDiscoveryConfig", "TagDeactivate",
              "TagWriteNdef", "TagConvertReadOnly", "TargetTransceive", "TargetPresenceCheck",
              "SNEPClientPut", "RemoteDevSend"}
Silent == {"Shutdown", "Recovery", "StartRfDiscovery", "TagReadNdef", "SNEPConnect",
           "TagDiscovered", "P2PDiscovered", "BarcodeRead"}
Clearing == {"P2PActive2RfIdle", "PCDActive2RfIdle", "TagActive2RfIdle",
             "P2PActive2RfDiscovery", "TagActive2RfDiscovery"}
Active == {"RfDiscovered", "RfDataXchg"}

Good(plan, event, to) ==
  /\ plan.status \in {"ok", "failed", "pending"}
  /\ plan.lost \in BOOLEAN /\ plan.clears \in BOOLEAN
  /\ plan.status = "pending" =>
       /\ Leads(plan.steps)
       /\ plan.done \in Answering \cup Silent \cup Clearing
       /\ plan.done = "TagReadNdef" => plan.steps = TAG_READ_NDEF_SEQUENCE
       /\ plan.done \in Answering => event \in UserEvents
       /\ plan.done \in Clearing => to \notin Active
  /\ plan.clears => to \notin Active

(* A plan is good when its completion fits the event and the state it leads to. *)
LEMMA GoodStart ==
  ASSUME NEW steps, Leads(steps), NEW event, NEW to,
         NEW done \in Answering \cup Silent \cup Clearing, done # "TagReadNdef",
         done \in Answering => event \in UserEvents,
         done \in Clearing => to \notin Active
  PROVE  Good(Start(steps, done), event, to) /\ Good(Losing(Start(steps, done)), event, to)
  BY DEF Good, Start, Losing

LEMMA GoodReturn ==
  ASSUME NEW status \in {"ok", "failed"}, NEW event, NEW to
  PROVE  /\ Good(Return(status), event, to)
         /\ to \notin Active => Good([Return(status) EXCEPT !.clears = TRUE], event, to)
  BY DEF Good, Return, Start

(* The operation of a queued event chooses among the sequences of its event. *)
SEOperations == {"SetMode", "ESETransceive", "ESEReset"}
DataOperations == {"WriteTag", "WriteP2P", "Transmit", "TargetSend", "ConvertToReadOnly",
                   "CheckPresence"}
Matches(event, op) ==
  /\ event = "SE" => op \in SEOperations
  /\ event = "DataXchg" => op \in DataOperations

(* The plan of each handler of g_NfcCxStateHandlers is good. *)
LEMMA GoodStateInitialize ==
  ASSUME NEW c, NEW to, NEW event \in UserEvents
  PROVE  Good(StateInitialize(c), event, to)
<1> DEFINE rest == IF c.EnableSEDiscovery THEN SE_ENUMERATE_SEQUENCE \o <<"DisableSecureElements">>
                   ELSE <<>>
<1>1. rest \in Seq(StepName)
  <2>1. <<"DisableSecureElements">> \in Seq(StepName)
    BY DEF StepName
  <2>2. SE_ENUMERATE_SEQUENCE \o <<"DisableSecureElements">> \in Seq(StepName)
    BY <2>1, StepLists, LeadsOn DEF Leads
  <2> QED  BY <2>2
<1> HIDE DEF rest
<1>2. Leads(INITIALIZE_SEQUENCE \o REGISTER_SEQUENCE)
      /\ Len(INITIALIZE_SEQUENCE \o REGISTER_SEQUENCE) >= 2
  <2>1. REGISTER_SEQUENCE \in Seq(StepName)
    BY StepLists DEF Leads
  <2> QED  BY <2>1, StepLists, LeadsOn
<1>3. Leads(INITIALIZE_SEQUENCE \o REGISTER_SEQUENCE \o rest)
  BY <1>1, <1>2, LeadsOn
<1>4. StateInitialize(c) = Start(INITIALIZE_SEQUENCE \o REGISTER_SEQUENCE \o rest, "Init")
  BY DEF StateInitialize, rest
<1> QED  BY <1>3, <1>4, GoodStart DEF Answering, Clearing

LEMMA GoodStateShutdown ==
  ASSUME NEW to, NEW event
  PROVE  Good(StateShutdown, event, to)
  BY StepLists, GoodStart DEF StateShutdown, Answering, Clearing, Silent

LEMMA GoodStateRecovery ==
  ASSUME NEW c, NEW to, NEW event
  PROVE  Good(StateRecovery(c), event, to)
<1> DEFINE elements == IF c.EnableSEDiscovery THEN SE_ENUMERATE_SEQUENCE ELSE <<>>
           s1 == <<"PreRecovery">> \o DEINITIALIZE_SEQUENCE
           s2 == s1 \o INITIALIZE_SEQUENCE
           s3 == s2 \o REGISTER_SEQUENCE
           s4 == s3 \o elements
           s5 == s4 \o <<"PostRecovery">>
<1>1. elements \in Seq(StepName) /\ <<"PostRecovery">> \in Seq(StepName)
  <2>1. <<"PostRecovery">> \in Seq(StepName)
    BY DEF StepName, ClientSteps
  <2> QED  BY <2>1, StepLists DEF Leads
<1>2. INITIALIZE_SEQUENCE \in Seq(StepName) /\ REGISTER_SEQUENCE \in Seq(StepName)
  BY StepLists DEF Leads
<1>3. Leads(s1) /\ Len(s1) >= 2
  <2>1. "PreRecovery" \in StepName /\ "PreRecovery" # "PostInitialize"
    BY DEF StepName, ClientSteps
  <2> QED  BY <2>1, StepLists, LeadsAfter
<1>r. StateRecovery(c) = Start(s5, "Recovery")
  BY DEF StateRecovery
<1> HIDE DEF elements, s1
<1>4. Leads(s2) /\ Len(s2) >= 2
  BY <1>2, <1>3, LeadsOn
<1> HIDE DEF s2
<1>5. Leads(s3) /\ Len(s3) >= 2
  BY <1>2, <1>4, LeadsOn
<1> HIDE DEF s3
<1>6. Leads(s4) /\ Len(s4) >= 2
  BY <1>1, <1>5, LeadsOn
<1> HIDE DEF s4
<1>7. Leads(s5)
  BY <1>1, <1>6, LeadsOn
<1> QED  BY <1>7, <1>r, GoodStart DEF Answering, Clearing, Silent

LEMMA GoodActive2RfIdle ==
  ASSUME NEW c, NEW event, NEW to, to \notin Active
  PROVE  Good(StateRfActive2RfIdle(c), event, to)
<1>1. "LlcpDeactivate" \in StepName /\ "LlcpDeactivate" # "PostInitialize"
  BY DEF StepName
<1>2. /\ Leads(<<"LlcpDeactivate">> \o DISCONNECT_STOP_SEQUENCE)
      /\ Leads(<<"LlcpDeactivate">> \o RF_DISCOVERY_STOP_SEQUENCE)
  BY <1>1, StepLists, LeadsAfter
<1>3. /\ "P2PActive2RfIdle" \in Clearing \ Answering
      /\ "PCDActive2RfIdle" \in Clearing \ Answering
      /\ "TagActive2RfIdle" \in Clearing \ Answering
  BY DEF Clearing, Answering
<1>4. \A s, d : Leads(s) /\ d \in Clearing \ Answering /\ d # "TagReadNdef" =>
         Good(Start(s, d), event, to) /\ Good(Losing(Start(s, d)), event, to)
  BY GoodStart
<1>5. Leads(DISCONNECT_STOP_SEQUENCE) /\ Leads(RF_DISCOVERY_STOP_SEQUENCE)
  BY StepLists
<1>6. CASE c.list = "Target"
  BY <1>2, <1>3, <1>4, <1>6 DEF StateRfActive2RfIdle
<1>7. CASE c.list = "Initiator"
  BY <1>2, <1>3, <1>4, <1>7 DEF StateRfActive2RfIdle
<1>8. CASE c.list = "PCD"
  BY <1>5, <1>3, <1>4, <1>8 DEF StateRfActive2RfIdle
<1>9. CASE c.list \notin {"Target", "Initiator", "PCD"}
  BY <1>5, <1>3, <1>4, <1>9 DEF StateRfActive2RfIdle
<1> QED  BY <1>6, <1>7, <1>8, <1>9

LEMMA GoodActive2RfDiscovery ==
  ASSUME NEW c, NEW event, NEW to, to \notin Active
  PROVE  Good(StateRfActive2RfDiscovery(c), event, to)
<1>1. "LlcpDeactivate" \in StepName /\ "LlcpDeactivate" # "PostInitialize"
  BY DEF StepName
<1>2. RF_DISCOVERY_CONFIG_SEQUENCE \in Seq(StepName)
  BY StepLists DEF Leads
<1>3. /\ Leads(<<"LlcpDeactivate">> \o DISCONNECT_STOP_SEQUENCE)
      /\ Len(<<"LlcpDeactivate">> \o DISCONNECT_STOP_SEQUENCE) >= 2
      /\ Leads(<<"LlcpDeactivate">> \o RF_DISCOVERY_CONFIG_SEQUENCE)
  BY <1>1, StepLists, LeadsAfter
<1>4. /\ Leads(<<"LlcpDeactivate">> \o DISCONNECT_STOP_SEQUENCE \o RF_DISCOVERY_CONFIG_SEQUENCE)
      /\ Leads(DISCONNECT_STOP_SEQUENCE \o RF_DISCOVERY_CONFIG_SEQUENCE)
  BY <1>2, <1>3, StepLists, LeadsOn
<1>5. /\ "P2PActive2RfDiscovery" \in Clearing \ Answering
      /\ "TagActive2RfDiscovery" \in Clearing \ Answering
  BY DEF Clearing, Answering
<1>6. \A s, d : Leads(s) /\ d \in Clearing \ Answering /\ d # "TagReadNdef" =>
         Good(Start(s, d), event, to) /\ Good(Losing(Start(s, d)), event, to)
  BY GoodStart
<1>7. CASE c.list = "Target"
  BY <1>4, <1>5, <1>6, <1>7 DEF StateRfActive2RfDiscovery
<1>8. CASE c.list = "Initiator"
  BY <1>3, <1>5, <1>6, <1>8 DEF StateRfActive2RfDiscovery
<1>9. CASE c.list = "PCD"
  BY <1>9, GoodReturn DEF StateRfActive2RfDiscovery
<1>10. CASE c.list \notin {"Target", "Initiator", "PCD"}
  BY <1>4, <1>5, <1>6, <1>10 DEF StateRfActive2RfDiscovery
<1> QED  BY <1>7, <1>8, <1>9, <1>10

LEMMA OneStep ==
  ASSUME NEW x \in StepName, x # "PostInitialize", NEW event, NEW to,
         NEW done \in Answering \cup Silent, done # "TagReadNdef",
         done \in Answering => event \in UserEvents
  PROVE  Good(Start(<<x>>, done), event, to)
<1>1. Leads(<<x>>) /\ done \notin Clearing
  BY LeadsOne DEF Answering, Silent, Clearing
<1> QED  BY <1>1, GoodStart

LEMMA TwoSteps ==
  ASSUME NEW x \in StepName, NEW y \in StepName, x # "PostInitialize", y # "PostInitialize",
         NEW event, NEW to, NEW done \in Answering \cup Silent, done # "TagReadNdef",
         done \in Answering => event \in UserEvents
  PROVE  Good(Start(<<x, y>>, done), event, to)
<1>1. Leads(<<x, y>>) /\ done \notin Clearing
  BY LeadsTwo DEF Answering, Silent, Clearing
<1> QED  BY <1>1, GoodStart

LEMMA GoodDiscovered ==
  ASSUME NEW c, NEW event, NEW to
  PROVE  Good(StateRfDiscovery2RfDiscovered(c), event, to)
<1>1. /\ {"RemoteDevConnect", "LlcpCheck", "LlcpActivate"} \subseteq StepName
      /\ "TagReadBarcode" \in StepName
  BY DEF StepName
<1>2. /\ "P2PDiscovered" \in Silent \ Clearing /\ "BarcodeRead" \in Silent \ Clearing
      /\ "TagDiscovered" \in Silent \ Clearing
      /\ "P2PDiscovered" \notin Answering
  BY DEF Silent, Clearing, Answering
<1>3. Leads(<<"RemoteDevConnect", "LlcpCheck", "LlcpActivate">>)
  BY <1>1, LeadsThree
<1>4. Good(Start(<<"RemoteDevConnect", "LlcpCheck", "LlcpActivate">>, "P2PDiscovered"), event, to)
  BY <1>2, <1>3, GoodStart
<1>5. Good(Start(<<"LlcpCheck", "LlcpActivate">>, "P2PDiscovered"), event, to)
  BY <1>1, <1>2, TwoSteps
<1>6. Good(Start(<<"TagReadBarcode">>, "BarcodeRead"), event, to)
  BY <1>1, <1>2, OneStep DEF Answering
<1>7. Good(Start(<<"RemoteDevConnect">>, "TagDiscovered"), event, to)
  BY <1>1, <1>2, OneStep DEF Answering
<1>8. Good(Return("ok"), event, to)
  BY GoodReturn
<1> QED  BY <1>4, <1>5, <1>6, <1>7, <1>8 DEF StateRfDiscovery2RfDiscovered

LEMMA GoodReadNdef ==
  ASSUME NEW event, NEW to
  PROVE  Good(Start(TAG_READ_NDEF_SEQUENCE, "TagReadNdef"), event, to)
  BY StepLists DEF Good, Start, Silent, Answering, Clearing

LEMMA GoodDataXchg ==
  ASSUME NEW c, NEW event, NEW to
  PROVE  Good(StateRfDiscovered2RfDataXchg(c, event), event, to)
<1>1. "RemoteDevConnect" \in StepName /\ "ClientConnect" \in StepName
  BY DEF StepName
<1>2. event \in UserEvents => Good(Start(<<"RemoteDevConnect">>, "TagActivate"), event, to)
  BY <1>1, OneStep DEF Answering
<1>3. Good(Start(<<"ClientConnect">>, "SNEPConnect"), event, to)
  BY <1>1, OneStep DEF Answering, Silent
<1>4. Good(Return("ok"), event, to) /\ Good(Return("failed"), event, to)
  BY GoodReturn
<1> QED  BY <1>2, <1>3, <1>4, GoodReadNdef DEF StateRfDiscovered2RfDataXchg

LEMMA GoodSEEvent ==
  ASSUME NEW op \in SEOperations, NEW event \in UserEvents, NEW to
  PROVE  Good(StateSEEvent(op), event, to)
<1>1. /\ "SESetPowerAndLinkControl" \in StepName /\ "SESetModeConfig" \in StepName
      /\ "ESETransceiveSeq" \in StepName /\ "ESEResetSeq" \in StepName
  BY DEF StepName
<1>2. /\ Good(Start(<<"SESetPowerAndLinkControl", "SESetModeConfig">>, "SESetMode"), event, to)
      /\ Good(Start(<<"ESETransceiveSeq">>, "ESETransceive"), event, to)
      /\ Good(Start(<<"ESEResetSeq">>, "ESEReset"), event, to)
  BY <1>1, OneStep, TwoSteps DEF Answering
<1> QED  BY <1>2 DEF StateSEEvent, SEOperations

LEMMA GoodRfIdle ==
  ASSUME NEW op, NEW event \in UserEvents, NEW to, event = "SE" => op \in SEOperations
  PROVE  Good(StateRfIdle(event, op), event, to)
<1>1. "ConfigureRoutingTable" \in StepName /\ "DisableSecureElements" \in StepName
  BY DEF StepName
<1>2. Good(Start(<<"ConfigureRoutingTable">>, "SetRoutingTable"), event, to)
  BY <1>1, OneStep DEF Answering
<1>3. Good(Start(SE_ENUMERATE_SEQUENCE \o <<"DisableSecureElements">>, "SEEnumerate"), event, to)
  <2>1. <<"DisableSecureElements">> \in Seq(StepName)
    BY <1>1
  <2>2. Leads(SE_ENUMERATE_SEQUENCE \o <<"DisableSecureElements">>)
    BY <2>1, StepLists, LeadsOn
  <2> QED  BY <2>2, GoodStart DEF Answering, Clearing
<1>4. event = "SE" => Good(StateSEEvent(op), event, to)
  BY GoodSEEvent
<1>5. Good(Return("ok"), event, to)
  BY GoodReturn
<1> QED  BY <1>2, <1>3, <1>4, <1>5 DEF StateRfIdle

LEMMA GoodRfDiscovery ==
  ASSUME NEW op, NEW event \in UserEvents, NEW to, event = "SE" => op \in SEOperations, NEW same
  PROVE  Good(StateRfDiscovery(event, op, same), event, to)
<1>1. Leads(RF_DISCOVERY_STOP_SEQUENCE \o RF_DISCOVERY_CONFIG_SEQUENCE)
  <2>1. RF_DISCOVERY_CONFIG_SEQUENCE \in Seq(StepName)
    BY StepLists DEF Leads
  <2> QED  BY <2>1, StepLists, LeadsOn
<1>2. Good(Start(RF_DISCOVERY_STOP_SEQUENCE \o RF_DISCOVERY_CONFIG_SEQUENCE, "RfDiscoveryConfig"),
           event, to)
  BY <1>1, GoodStart DEF Answering, Clearing
<1>3. event = "SE" => Good(StateSEEvent(op), event, to)
  BY GoodSEEvent
<1>4. Good(Return("ok"), event, to)
  BY GoodReturn
<1> QED  BY <1>2, <1>3, <1>4 DEF StateRfDiscovery

LEMMA GoodData ==
  ASSUME NEW c, NEW event \in UserEvents, NEW to, NEW op,
         event = "SE" => op \in SEOperations, event # "SE" => op \in DataOperations
  PROVE  Good(StateRfDataXchg(c, event, op), event, to)
<1>1. /\ "TagConvertReadOnly" \in StepName /\ "TargetTransceive" \in StepName
      /\ "TargetPresenceCheck" \in StepName /\ "ClientPut" \in StepName
      /\ "RemoteDevSend" \in StepName
  BY DEF StepName
<1>2. /\ Good(Start(<<"TagConvertReadOnly">>, "TagConvertReadOnly"), event, to)
      /\ Good(Start(<<"TargetTransceive">>, "TargetTransceive"), event, to)
      /\ Good(Start(<<"TargetPresenceCheck">>, "TargetPresenceCheck"), event, to)
      /\ Good(Start(<<"ClientPut">>, "SNEPClientPut"), event, to)
      /\ Good(Start(<<"RemoteDevSend">>, "RemoteDevSend"), event, to)
  BY <1>1, OneStep DEF Answering
<1>3. Good(Start(TAG_WRITE_NDEF_SEQUENCE, "TagWriteNdef"), event, to)
  BY StepLists, GoodStart DEF Answering, Clearing
<1>4. event = "SE" => Good(StateSEEvent(op), event, to)
  BY GoodSEEvent
<1>5. Good(Return("failed"), event, to)
  BY GoodReturn
<1>6. op \in {"WriteTag", "ConvertToReadOnly", "Transmit", "CheckPresence"} =>
        Good(TagSequence(op), event, to)
  BY <1>2, <1>3 DEF TagSequence
<1>7. CASE event = "SE"
  BY <1>4, <1>7 DEF StateRfDataXchg, SEOperations
<1>8. CASE event # "SE"
  BY <1>8, <1>2, <1>5, <1>6 DEF StateRfDataXchg, DataOperations
<1> QED  BY <1>7, <1>8

(* What the machine does on its way to a state is always well formed. *)
LEMMA GoodHandler ==
  ASSUME NEW c, c.state \in States, NEW event \in UserEvents \cup InternalEvents, NEW op,
         Matches(event, op), NEW same, NEW to, Leaves(c.state, event, to),
         event \in UserEvents \/ to # c.state
  PROVE  Good(Handler(c, to, event, op, same), event, to)
<1> DEFINE plan == Handler(c, to, event, op, same)
<1>e. /\ event = "SE" => op \in SEOperations
      /\ event = "DataXchg" => op \in DataOperations
  BY DEF Matches
<1>u. event \in {"ReqCompleted", "Failed", "Recovery", "Discovered", "Deactivated",
                 "Activated"} =>
        event \notin UserEvents
  BY DEF UserEvents
<1>r. Good(Return("ok"), event, to)
  BY GoodReturn
<1>1. CASE to = "Shutdown"
  <2>1. plan = StateShutdown
    BY <1>1 DEF Handler
  <2> QED  BY <2>1, GoodStateShutdown
<1>2. CASE to = "Recovery"
  <2>1. plan = StateRecovery(c)
    BY <1>2 DEF Handler
  <2> QED  BY <2>1, GoodStateRecovery
<1>3. CASE to = "Init"
  <2>1. c.state = "Idle" /\ event = "Init"
    BY <1>3 DEF Leaves, States, DiscoveryModes
  <2>2. plan = StateInitialize(c)
    BY <2>1, <1>3 DEF Handler
  <2> QED  BY <2>1, <2>2, GoodStateInitialize DEF UserEvents
<1>4. CASE to = "Idle"
  <2>1. plan = Return("ok")
    BY <1>4 DEF Handler
  <2> QED  BY <2>1, <1>r
<1>5. CASE to = "RfIdle"
  <2>1. CASE c.state = "RfIdle"
    <3>1. plan = StateRfIdle(event, op)
      BY <1>5, <2>1 DEF Handler
    <3> QED  BY <3>1, <1>5, <2>1, <1>e, GoodRfIdle
  <2>2. CASE c.state = "RfDiscovery"
    <3>1. plan = StateRfDiscovery2RfIdle
      BY <1>5, <2>2 DEF Handler
    <3>2. event \in {"ConfigDiscovery", "StopDiscovery"}
      BY <1>5, <2>2 DEF Leaves, DiscoveryModes
    <3>3. event \in UserEvents
      BY <3>2 DEF UserEvents
    <3> QED  BY <3>1, <3>3, StepLists, GoodStart DEF StateRfDiscovery2RfIdle, Answering, Clearing
  <2>3. CASE c.state \in {"RfDiscovered", "RfDataXchg"}
    <3>1. plan = StateRfActive2RfIdle(c)
      BY <1>5, <2>3 DEF Handler
    <3> QED  BY <3>1, <1>5, GoodActive2RfIdle DEF Active
  <2>4. CASE c.state \notin {"RfIdle", "RfDiscovery", "RfDiscovered", "RfDataXchg"}
    <3>1. plan = Return("ok")
      BY <1>5, <2>4 DEF Handler
    <3> QED  BY <3>1, <1>r
  <2> QED  BY <2>1, <2>2, <2>3, <2>4
<1>6. CASE to = "RfDiscovery"
  <2>1. CASE c.state \in {"RfIdle", "Recovery"}
    <3>1. plan = StateRfIdle2RfDiscovery
      BY <1>6, <2>1 DEF Handler
    <3> QED  BY <3>1, StepLists, GoodStart
                DEF StateRfIdle2RfDiscovery, Answering, Clearing, Silent
  <2>2. CASE c.state = "RfDiscovery"
    <3>1. plan = StateRfDiscovery(event, op, same)
      BY <1>6, <2>2 DEF Handler
    <3> QED  BY <3>1, <1>6, <2>2, <1>e, GoodRfDiscovery
  <2>3. CASE c.state \in {"RfDiscovered", "RfDataXchg"}
    <3>1. plan = StateRfActive2RfDiscovery(c)
      BY <1>6, <2>3 DEF Handler
    <3> QED  BY <3>1, <1>6, GoodActive2RfDiscovery DEF Active
  <2>4. CASE c.state \notin {"RfIdle", "Recovery", "RfDiscovery", "RfDiscovered", "RfDataXchg"}
    <3>1. plan = Return("ok")
      BY <1>6, <2>4 DEF Handler
    <3> QED  BY <3>1, <1>r
  <2> QED  BY <2>1, <2>2, <2>3, <2>4
<1>7. CASE to = "RfDiscovered"
  <2>1. CASE c.state = "RfDiscovery"
    <3>1. plan = StateRfDiscovery2RfDiscovered(c)
      BY <1>7, <2>1 DEF Handler
    <3> QED  BY <3>1, GoodDiscovered
  <2>2. CASE c.state = "RfDiscovered"
    <3>1. plan = StateSEEvent(op)
      BY <1>7, <2>2 DEF Handler
    <3>2. event = "SE" /\ event \in UserEvents
      BY <1>7, <2>2, <1>u DEF Leaves, DiscoveryModes
    <3> QED  BY <3>1, <3>2, <1>e, GoodSEEvent
  <2>3. CASE c.state = "RfDataXchg"
    <3>1. plan = StateRfDataXchg2RfDiscovered(c)
      BY <1>7, <2>3 DEF Handler
    <3>2. event \in UserEvents
      BY <1>7, <2>3 DEF Leaves, DiscoveryModes, UserEvents
    <3>3. "RemoteDevDisconnect" \in StepName
      BY DEF StepName
    <3>4. Good(Start(<<"RemoteDevDisconnect">>, "TagDeactivate"), event, to)
      BY <3>2, <3>3, OneStep DEF Answering
    <3>5. Good(Return("failed"), event, to)
      BY GoodReturn
    <3> QED  BY <3>1, <3>4, <3>5 DEF StateRfDataXchg2RfDiscovered
  <2>4. CASE c.state \notin {"RfDiscovery", "RfDiscovered", "RfDataXchg"}
    <3>1. plan = Return("ok")
      BY <1>7, <2>4 DEF Handler
    <3> QED  BY <3>1, <1>r
  <2> QED  BY <2>1, <2>2, <2>3, <2>4
<1>8. CASE to = "RfDataXchg"
  <2>1. CASE c.state = "RfDiscovered"
    <3>1. plan = StateRfDiscovered2RfDataXchg(c, event)
      BY <1>8, <2>1 DEF Handler
    <3> QED  BY <3>1, GoodDataXchg
  <2>2. CASE c.state = "RfDataXchg"
    <3>1. plan = StateRfDataXchg(c, event, op)
      BY <1>8, <2>2 DEF Handler
    <3>2. event \in {"SE", "DataXchg"} /\ event \in UserEvents
      BY <1>8, <2>2, <1>u DEF Leaves, DiscoveryModes
    <3> QED  BY <3>1, <3>2, <1>e, GoodData
  <2>3. CASE c.state \notin {"RfDiscovered", "RfDataXchg"}
    <3>1. plan = Return("ok")
      BY <1>8, <2>3 DEF Handler
    <3> QED  BY <3>1, <1>r
  <2> QED  BY <2>1, <2>2, <2>3
<1>9. to \in States
  BY DEF Leaves, States, DiscoveryModes
<1> QED  BY <1>1, <1>2, <1>3, <1>4, <1>5, <1>6, <1>7, <1>8, <1>9 DEF States

-----------------------------------------------------------------------------
(* What the threads share, with its types *)

Dones == Answering \cup Silent \cup Clearing
SequenceType == [steps : Seq(StepName), next : Int, done : Dones \cup {None}, user : BOOLEAN]
CallerOps == Operations \cup {"CheckPresence", None}
Reports == {"Discovered", "Activated", "Deactivated"}
EventType ==
  {e \in [event : UserEvents \cup Reports, op : CallerOps, request : Nat] :
     Matches(e.event, e.op)}
Ended == {"ok", "failed", "lost"}
Message == [kind : {"next"}, status : {None}] \cup [kind : {"resume"}, status : Ended]

TransitionStates == {"Idle", "UserEventRunning", "InternalEventRunning"}
StatusType == [is : Ended \cup {"pending"}, of : Nat]
AwaitedType == StepName \cup {None}
ListType == Devices \cup {None}
LinkStates == {"Default", "Activated", "Deactivated"}
PeerStates == {"away", "starting", "up"}

CxType ==
  [state : States, TransitionState : TransitionStates, request : Nat,
   PendingStateEvents : Seq(EventType), messages : Seq(Message),
   CurrentSequence : SequenceType, awaited : AwaitedType, watchdog : BOOLEAN,
   Status : StatusType, hNotifyComplete : Nat, list : ListType,
   bIsTagPresent : BOOLEAN, bIsTagConnected : BOOLEAN,
   bIsHCEConnected : BOOLEAN, bIsHCEActivated : BOOLEAN,
   hStartPresenceCheck : BOOLEAN, works : Nat,
   eLinkStatus : LinkStates, IsDeactivatePending : BOOLEAN,
   EnableSEDiscovery : BOOLEAN, switchedOn : 0 .. SecureElements,
   listening : BOOLEAN, reader : BOOLEAN, peer : PeerStates,
   failures : Nat, crashed : BOOLEAN]

LEMMA NoSequenceType == NoSequence \in SequenceType
<1>1. <<>> \in Seq(StepName)
  OBVIOUS
<1> QED  BY <1>1 DEF NoSequence, SequenceType

LEMMA NoneIsNoStep == None \notin StepName /\ None \notin Dones
  BY DEF None, StepName, ClientSteps, Dones, Answering, Silent, Clearing

(* Messages *)
NoResume(messages) == \A i \in DOMAIN messages : messages[i].kind # "resume"
OneResume(messages) ==
  \E i \in DOMAIN messages : /\ messages[i].kind = "resume"
                             /\ \A j \in DOMAIN messages :
                                  messages[j].kind = "resume" => j = i
HasNext(messages) == \E i \in DOMAIN messages : messages[i].kind = "next"

(* Messages are appended, and taken in order. *)
LEMMA AppendMessage ==
  ASSUME NEW messages \in Seq(Message), NEW m \in Message
  PROVE  /\ Append(messages, m) \in Seq(Message)
         /\ m.kind = "next" => /\ HasNext(Append(messages, m))
                               /\ NoResume(messages) => NoResume(Append(messages, m))
                               /\ OneResume(messages) => OneResume(Append(messages, m))
         /\ m.kind = "resume" /\ NoResume(messages) => OneResume(Append(messages, m))
         /\ HasNext(messages) => HasNext(Append(messages, m))
<1> DEFINE s == Append(messages, m)
<1>1. s \in Seq(Message) /\ Len(s) = Len(messages) + 1 /\ s[Len(messages) + 1] = m
  OBVIOUS
<1>2. \A i \in DOMAIN messages : s[i] = messages[i] /\ i # Len(messages) + 1
  OBVIOUS
<1>3. DOMAIN s = DOMAIN messages \cup {Len(messages) + 1}
  BY <1>1
<1>4. m.kind = "next" => m.kind # "resume"
  OBVIOUS
<1> HIDE DEF s
<1>5. m.kind = "next" => HasNext(s)
  BY <1>1, <1>3 DEF HasNext
<1>6. m.kind = "next" /\ NoResume(messages) => NoResume(s)
  BY <1>1, <1>2, <1>3, <1>4 DEF NoResume
<1>7. m.kind = "next" /\ OneResume(messages) => OneResume(s)
  <2> SUFFICES ASSUME m.kind = "next", OneResume(messages) PROVE OneResume(s)
    OBVIOUS
  <2>1. PICK i \in DOMAIN messages : /\ messages[i].kind = "resume"
                                     /\ \A j \in DOMAIN messages :
                                          messages[j].kind = "resume" => j = i
    BY DEF OneResume
  <2>2. i \in DOMAIN s /\ s[i].kind = "resume"
    BY <2>1, <1>2, <1>3
  <2>3. \A j \in DOMAIN s : s[j].kind = "resume" => j = i
    BY <2>1, <1>1, <1>2, <1>3, <1>4
  <2> QED  BY <2>2, <2>3 DEF OneResume
<1>8. m.kind = "resume" /\ NoResume(messages) => OneResume(s)
  BY <1>1, <1>2, <1>3 DEF NoResume, OneResume
<1>9. HasNext(messages) => HasNext(s)
  BY <1>2, <1>3 DEF HasNext
<1> QED  BY <1>1, <1>5, <1>6, <1>7, <1>8, <1>9 DEF s

LEMMA TakeMessage ==
  ASSUME NEW messages \in Seq(Message), messages # <<>>
  PROVE  /\ Tail(messages) \in Seq(Message) /\ Head(messages) \in Message
         /\ NoResume(messages) => NoResume(Tail(messages)) /\ Head(messages).kind # "resume"
         /\ OneResume(messages) =>
              IF Head(messages).kind = "resume" THEN NoResume(Tail(messages))
              ELSE OneResume(Tail(messages))
         /\ HasNext(messages) /\ Head(messages).kind = "resume" => HasNext(Tail(messages))
<1> DEFINE t == Tail(messages)
           h == Head(messages)
<1>1. t \in Seq(Message) /\ h \in Message /\ h = messages[1] /\ 1 \in DOMAIN messages
      /\ Len(t) = Len(messages) - 1
  OBVIOUS
<1>2. \A i \in DOMAIN t : t[i] = messages[i + 1] /\ i + 1 \in DOMAIN messages /\ i + 1 # 1
  OBVIOUS
<1>3. \A i \in DOMAIN messages : i # 1 => i - 1 \in DOMAIN t /\ t[i - 1] = messages[i]
  OBVIOUS
<1>4. \A i, j \in DOMAIN t : i + 1 = j + 1 => i = j
  OBVIOUS
<1> HIDE DEF t, h
<1>5. NoResume(messages) => NoResume(t) /\ h.kind # "resume"
  BY <1>1, <1>2 DEF NoResume
<1>6. ASSUME OneResume(messages) PROVE IF h.kind = "resume" THEN NoResume(t) ELSE OneResume(t)
  <2>1. PICK i \in DOMAIN messages : /\ messages[i].kind = "resume"
                                     /\ \A j \in DOMAIN messages :
                                          messages[j].kind = "resume" => j = i
    BY <1>6 DEF OneResume
  <2>2. h.kind = "resume" => i = 1
    BY <2>1, <1>1
  <2>3. h.kind = "resume" => NoResume(t)
    BY <2>1, <2>2, <1>2 DEF NoResume
  <2>4. h.kind # "resume" => i # 1
    BY <2>1, <1>1
  <2>5. ASSUME h.kind # "resume" PROVE OneResume(t)
    <3>1. i - 1 \in DOMAIN t /\ t[i - 1].kind = "resume"
      BY <2>1, <2>4, <2>5, <1>3
    <3>2. \A j \in DOMAIN t : t[j].kind = "resume" => j + 1 = i
      BY <2>1, <1>2
    <3>3. \A j \in DOMAIN t : j \in Int
      BY <1>1
    <3>4. i \in Int
      OBVIOUS
    <3>5. \A j \in DOMAIN t : t[j].kind = "resume" => j = i - 1
      BY <3>2, <3>3, <3>4
    <3> QED  BY <3>1, <3>5 DEF OneResume
  <2> QED  BY <2>3, <2>5
<1>7. HasNext(messages) /\ h.kind = "resume" => HasNext(t)
  BY <1>1, <1>3 DEF HasNext
<1> QED  BY <1>1, <1>5, <1>6, <1>7 DEF t, h

-----------------------------------------------------------------------------
(* Steps and their effects *)

(* A step returns success, pending or failure, never the loss of the link. *)
LEMMA ImmediateReturns ==
  ASSUME NEW c, NEW x
  PROVE  Immediate(c, x) \subseteq {"ok", "pending", "failed"}
<1>1. Fails(c) \subseteq {"failed"}
  BY DEF Fails
<1>2. ClientStep(x) \subseteq {"ok", "pending"}
  BY DEF ClientStep
<1>3. LlcpStep(c, x) \subseteq {"ok", "pending", "failed"}
  BY <1>1 DEF LlcpStep
<1>4. SEStep(c, x) \subseteq {"ok", "pending", "failed"}
  BY <1>1 DEF SEStep
<1>5. RemoteDevStep(c, x) \subseteq {"ok", "pending", "failed"}
  BY <1>1 DEF RemoteDevStep
<1>6. TagStep(c, x) \subseteq {"ok", "pending", "failed"}
  BY <1>1 DEF TagStep
<1> HIDE DEF ClientStep, LlcpStep, SEStep, RemoteDevStep, TagStep
<1> QED  BY <1>2, <1>3, <1>4, <1>5, <1>6 DEF Immediate

(* A run of steps ends at one of them. *)
LEMMA RunEnds ==
  ASSUME NEW c, NEW steps \in Seq(StepName), steps # <<>>, NEW from \in 1 .. Len(steps) + 1,
         NEW r \in SequenceRun(c, steps, from)
  PROVE  /\ r[1] \in 1 .. Len(steps) /\ steps[r[1]] \in StepName
         /\ r[2] \in {"ok", "pending", "failed"}
         /\ r[2] = "pending" => "pending" \in Immediate(c, steps[r[1]])
<1> DEFINE passes(n) == Skipped(steps, from, n) \/ "ok" \in Immediate(c, steps[n])
           stops == {n \in from .. Len(steps) :
                       ~Skipped(steps, from, n) /\ \A m \in from .. n - 1 : passes(m)}
<1>1. \/ \E n \in stops : \E s \in Immediate(c, steps[n]) \ {"ok"} : r = <<n, s>>
      \/ r = <<Len(steps), "ok">>
  <2> DEFINE halted == UNION {{<<n, s>> : s \in Immediate(c, steps[n]) \ {"ok"}} : n \in stops}
             whole == IF \A n \in from .. Len(steps) : passes(n) THEN {<<Len(steps), "ok">>} ELSE {}
  <2>1. SequenceRun(c, steps, from) = halted \cup whole
    BY DEF SequenceRun
  <2> HIDE DEF stops
  <2>2. r \in halted => \E n \in stops : \E s \in Immediate(c, steps[n]) \ {"ok"} : r = <<n, s>>
    OBVIOUS
  <2>3. r \in whole => r = <<Len(steps), "ok">>
    OBVIOUS
  <2> HIDE DEF halted, whole
  <2> QED  BY <2>1, <2>2, <2>3
<1>2. Len(steps) \in 1 .. Len(steps)
  OBVIOUS
<1>3. \A n \in stops : n \in 1 .. Len(steps)
  OBVIOUS
<1>4. \A n \in 1 .. Len(steps) : steps[n] \in StepName
  OBVIOUS
<1> HIDE DEF stops
<1>5. CASE \E n \in stops : \E s \in Immediate(c, steps[n]) \ {"ok"} : r = <<n, s>>
  <2>1. PICK n \in stops : \E s \in Immediate(c, steps[n]) \ {"ok"} : r = <<n, s>>
    BY <1>5
  <2>2. PICK s \in Immediate(c, steps[n]) \ {"ok"} : r = <<n, s>>
    BY <2>1
  <2>3. r[1] = n /\ r[2] = s
    BY <2>2
  <2> QED  BY <2>3, <1>3, <1>4, ImmediateReturns
<1>6. CASE r = <<Len(steps), "ok">>
  BY <1>6, <1>2, <1>4
<1> QED  BY <1>1, <1>5, <1>6

(* What the event and its caller see of a step: nothing. *)
Kept(c, d) ==
  /\ d.state = c.state /\ d.TransitionState = c.TransitionState /\ d.request = c.request
  /\ d.PendingStateEvents = c.PendingStateEvents /\ d.Status = c.Status
  /\ d.hNotifyComplete = c.hNotifyComplete /\ d.list = c.list /\ d.crashed = c.crashed
  /\ d.switchedOn = c.switchedOn

Stepped(c, awaited, watchdog, closing, link, up, n) ==
  [c EXCEPT !.awaited = awaited, !.watchdog = watchdog, !.IsDeactivatePending = closing,
            !.eLinkStatus = link, !.peer = up, !.failures = n]

(* What a step leaves alone *)
LEMMA SteppedIs ==
  ASSUME NEW c \in CxType, NEW awaited \in AwaitedType, NEW watchdog \in BOOLEAN,
         NEW closing \in BOOLEAN, NEW link \in LinkStates, NEW up \in PeerStates, NEW n \in Nat
  PROVE  LET d == Stepped(c, awaited, watchdog, closing, link, up, n)
         IN /\ d \in CxType /\ Kept(c, d)
            /\ d.messages = c.messages /\ d.CurrentSequence = c.CurrentSequence
            /\ d.awaited = awaited /\ d.IsDeactivatePending = closing
<1> DEFINE d == Stepped(c, awaited, watchdog, closing, link, up, n)
<1>1. d \in CxType
  BY DEF CxType, Stepped
<1>2. /\ Kept(c, d) /\ d.messages = c.messages /\ d.CurrentSequence = c.CurrentSequence
      /\ d.awaited = awaited /\ d.IsDeactivatePending = closing
  BY DEF CxType, Kept, Stepped
<1> QED  BY <1>1, <1>2

LEMMA StepEffectIs ==
  ASSUME NEW c \in CxType, NEW step \in StepName, NEW status \in {"ok", "failed", "pending"}
  PROVE  LET d == StepEffect(c, step, status)
         IN /\ d \in CxType /\ Kept(c, d)
            /\ d.messages = c.messages /\ d.CurrentSequence = c.CurrentSequence
            /\ d.awaited = IF status = "pending" THEN step ELSE None
            /\ d.IsDeactivatePending =>
                 c.IsDeactivatePending \/ (step = "LlcpDeactivate" /\ status = "pending")
<1> DEFINE n == c.failures + (IF status = "failed" THEN 1 ELSE 0)
           up == IF step = "LlcpActivate" /\ status = "ok" THEN "starting" ELSE c.peer
           link == IF step = "LlcpConfigure" THEN "Default" ELSE c.eLinkStatus
           closing == c.IsDeactivatePending \/ (step = "LlcpDeactivate" /\ status = "pending")
           watched == status = "pending" /\ step \in ClientSteps
           asked == IF status = "pending" THEN step ELSE None
<1>1. /\ n \in Nat /\ up \in PeerStates /\ link \in LinkStates
      /\ closing \in BOOLEAN /\ watched \in BOOLEAN /\ asked \in AwaitedType
  BY DEF CxType, PeerStates, LinkStates, AwaitedType
<1>2. StepEffect(c, step, status) = Stepped(c, asked, watched, closing, link, up, n)
  BY DEF StepEffect, Stepped
<1> HIDE DEF n, up, link, closing, watched, asked
<1>3. LET d == StepEffect(c, step, status)
      IN /\ d \in CxType /\ Kept(c, d)
         /\ d.messages = c.messages /\ d.CurrentSequence = c.CurrentSequence
         /\ d.awaited = asked /\ d.IsDeactivatePending = closing
  BY <1>1, <1>2, SteppedIs
<1>4. asked = IF status = "pending" THEN step ELSE None
  BY DEF asked
<1>5. closing => c.IsDeactivatePending \/ (step = "LlcpDeactivate" /\ status = "pending")
  BY DEF closing
<1> QED  BY <1>3, <1>4, <1>5

LEMMA DispatchResumeIs ==
  ASSUME NEW c \in CxType, NEW status \in Ended
  PROVE  LET d == DispatchResume(c, status)
         IN /\ d \in CxType /\ Kept(c, d)
            /\ d.CurrentSequence = c.CurrentSequence /\ d.awaited = c.awaited
            /\ d.IsDeactivatePending = c.IsDeactivatePending
            /\ NoResume(c.messages) => OneResume(d.messages)
            /\ HasNext(c.messages) => HasNext(d.messages)
<1> DEFINE m == [kind |-> "resume", status |-> status]
           s == Append(c.messages, m)
<1>1. m \in Message /\ m.kind = "resume"
  BY DEF Message, Ended
<1>2. c.messages \in Seq(Message)
  BY DEF CxType
<1>3. /\ NoResume(c.messages) => OneResume(s)
      /\ HasNext(c.messages) => HasNext(s)
  BY <1>1, <1>2, AppendMessage
<1>s. s \in Seq(Message)
  BY <1>1, <1>2
<1>4. DispatchResume(c, status) = [c EXCEPT !.messages = s]
  BY DEF DispatchResume, CxType
<1> HIDE DEF s, m
<1>5. DispatchResume(c, status) \in CxType
  BY <1>s, <1>4, ZenonT(60) DEF CxType
<1>6. LET d == DispatchResume(c, status)
      IN /\ Kept(c, d) /\ d.CurrentSequence = c.CurrentSequence /\ d.awaited = c.awaited
         /\ d.IsDeactivatePending = c.IsDeactivatePending /\ d.messages = s
  BY <1>4 DEF CxType, Kept
<1> QED  BY <1>3, <1>5, <1>6

LEMMA AppendEvent ==
  ASSUME NEW events \in Seq(EventType), NEW e \in EventType
  PROVE  Append(events, e) \in Seq(EventType)
  OBVIOUS

(* An event is queued with a message that takes it. *)
LEMMA QueueEventIs ==
  ASSUME NEW c \in CxType, NEW event \in UserEvents \cup Reports, NEW op \in CallerOps,
         Matches(event, op), NEW request \in Nat
  PROVE  LET d == QueueEvent(c, event, op, request)
         IN /\ d \in CxType
            /\ d.state = c.state /\ d.TransitionState = c.TransitionState /\ d.request = c.request
            /\ d.Status = c.Status /\ d.hNotifyComplete = c.hNotifyComplete /\ d.list = c.list
            /\ d.crashed = c.crashed /\ d.switchedOn = c.switchedOn
            /\ d.CurrentSequence = c.CurrentSequence /\ d.awaited = c.awaited
            /\ d.IsDeactivatePending = c.IsDeactivatePending
            /\ d.PendingStateEvents = Append(c.PendingStateEvents,
                                             [event |-> event, op |-> op, request |-> request])
            /\ HasNext(d.messages)
            /\ NoResume(c.messages) => NoResume(d.messages)
            /\ OneResume(c.messages) => OneResume(d.messages)
<1> DEFINE e == [event |-> event, op |-> op, request |-> request]
           m == [kind |-> "next", status |-> None]
           s == Append(c.messages, m)
           p == Append(c.PendingStateEvents, e)
<1>1. m \in Message /\ m.kind = "next"
  BY DEF Message
<1>2. c.messages \in Seq(Message) /\ c.PendingStateEvents \in Seq(EventType)
  BY DEF CxType
<1>3. /\ HasNext(s)
      /\ NoResume(c.messages) => NoResume(s)
      /\ OneResume(c.messages) => OneResume(s)
  BY <1>1, <1>2, AppendMessage
<1>s. s \in Seq(Message)
  BY <1>1, <1>2
<1>4. e \in EventType
  BY DEF EventType
<1>5. p \in Seq(EventType)
  BY <1>2, <1>4, AppendEvent
<1>6. QueueEvent(c, event, op, request) = [c EXCEPT !.PendingStateEvents = p, !.messages = s]
  BY DEF QueueEvent, CxType
<1>p. p = Append(c.PendingStateEvents, [event |-> event, op |-> op, request |-> request])
  OBVIOUS
<1> HIDE DEF s, m, p, e
<1>7. QueueEvent(c, event, op, request) \in CxType
  BY <1>s, <1>5, <1>6, ZenonT(60) DEF CxType
<1> DEFINE d == [c EXCEPT !.PendingStateEvents = p, !.messages = s]
<1>8. /\ d.state = c.state /\ d.TransitionState = c.TransitionState /\ d.request = c.request
      /\ d.Status = c.Status /\ d.hNotifyComplete = c.hNotifyComplete /\ d.list = c.list
      /\ d.crashed = c.crashed /\ d.switchedOn = c.switchedOn
  BY DEF CxType
<1>9. /\ d.CurrentSequence = c.CurrentSequence /\ d.awaited = c.awaited
      /\ d.IsDeactivatePending = c.IsDeactivatePending
      /\ d.PendingStateEvents = p /\ d.messages = s
  BY DEF CxType
<1> HIDE DEF d
<1>10. QueueEvent(c, event, op, request) = d
  BY <1>6 DEF d
<1> QED  BY <1>3, <1>7, <1>8, <1>9, <1>10, <1>p

-----------------------------------------------------------------------------
(* The end of an event, and the start of a sequence *)

Finished(c, status, told, messages) ==
  [c EXCEPT !.Status = status, !.hNotifyComplete = told, !.TransitionState = "Idle",
            !.request = 0, !.messages = messages]

(* An event that is done: its caller, if it has one, has the status. *)
LEMMA FinishedIs ==
  ASSUME NEW c \in CxType, NEW status \in StatusType, NEW told \in Nat,
         NEW messages \in Seq(Message)
  PROVE  LET d == Finished(c, status, told, messages)
         IN /\ d \in CxType
            /\ d.state = c.state /\ d.list = c.list /\ d.crashed = c.crashed
            /\ d.CurrentSequence = c.CurrentSequence /\ d.awaited = c.awaited
            /\ d.IsDeactivatePending = c.IsDeactivatePending
            /\ d.PendingStateEvents = c.PendingStateEvents
            /\ d.TransitionState = "Idle" /\ d.messages = messages
            /\ d.Status = status /\ d.hNotifyComplete = told
<1> DEFINE d == Finished(c, status, told, messages)
<1>1. "Idle" \in TransitionStates
  BY DEF TransitionStates
<1>2. d \in CxType
  BY <1>1 DEF CxType, Finished
<1>3. /\ d.state = c.state /\ d.list = c.list /\ d.crashed = c.crashed
      /\ d.CurrentSequence = c.CurrentSequence /\ d.awaited = c.awaited
      /\ d.IsDeactivatePending = c.IsDeactivatePending
      /\ d.PendingStateEvents = c.PendingStateEvents
  BY DEF CxType, Finished
<1>4. /\ d.TransitionState = "Idle" /\ d.messages = messages
      /\ d.Status = status /\ d.hNotifyComplete = told
  BY DEF CxType, Finished
<1> QED  BY <1>2, <1>3, <1>4

LEMMA EventDoneIs ==
  ASSUME NEW c \in CxType, NEW status \in Ended
  PROVE  LET d == EventDone(c, status)
         IN /\ d \in CxType
            /\ d.state = c.state /\ d.list = c.list /\ d.crashed = c.crashed
            /\ d.CurrentSequence = c.CurrentSequence /\ d.awaited = c.awaited
            /\ d.IsDeactivatePending = c.IsDeactivatePending
            /\ d.PendingStateEvents = c.PendingStateEvents
            /\ d.TransitionState = "Idle"
            /\ NoResume(c.messages) => NoResume(d.messages)
            /\ c.PendingStateEvents # <<>> => HasNext(d.messages)
            /\ c.TransitionState = "UserEventRunning" =>
                 /\ d.hNotifyComplete = c.request
                 /\ c.Status.is = "pending" => d.Status.of = c.request
                 /\ c.Status.is # "pending" => d.Status = c.Status
                 /\ d.Status.is # "pending"
            /\ c.TransitionState # "UserEventRunning" =>
                 d.hNotifyComplete = c.hNotifyComplete /\ d.Status = c.Status
<1> DEFINE user == c.TransitionState = "UserEventRunning"
           answer == IF user /\ c.Status.is = "pending" THEN [is |-> status, of |-> c.request]
                     ELSE c.Status
           told == IF user THEN c.request ELSE c.hNotifyComplete
           m == [kind |-> "next", status |-> None]
           messages == IF c.PendingStateEvents = <<>> THEN c.messages ELSE Append(c.messages, m)
<1>1. EventDone(c, status) = Finished(c, answer, told, messages)
  BY DEF EventDone, UserEventComplete, Finished, CxType
<1>2. answer \in StatusType /\ told \in Nat
  BY DEF CxType, StatusType, Ended
<1>3. m \in Message /\ m.kind = "next" /\ c.messages \in Seq(Message)
  BY DEF Message, CxType
<1>4. /\ Append(c.messages, m) \in Seq(Message) /\ HasNext(Append(c.messages, m))
      /\ NoResume(c.messages) => NoResume(Append(c.messages, m))
  BY <1>3, AppendMessage
<1>5. /\ messages \in Seq(Message)
      /\ NoResume(c.messages) => NoResume(messages)
      /\ c.PendingStateEvents # <<>> => HasNext(messages)
  BY <1>3, <1>4
<1>6. /\ user => /\ told = c.request
                 /\ c.Status.is = "pending" => answer.of = c.request
                 /\ c.Status.is # "pending" => answer = c.Status
                 /\ answer.is # "pending"
      /\ ~user => told = c.hNotifyComplete /\ answer = c.Status
  BY DEF Ended
<1> HIDE DEF answer, told, messages, m
<1>7. LET d == EventDone(c, status)
      IN /\ d \in CxType
         /\ d.state = c.state /\ d.list = c.list /\ d.crashed = c.crashed
         /\ d.CurrentSequence = c.CurrentSequence /\ d.awaited = c.awaited
         /\ d.IsDeactivatePending = c.IsDeactivatePending
         /\ d.PendingStateEvents = c.PendingStateEvents
         /\ d.TransitionState = "Idle" /\ d.messages = messages
         /\ d.Status = answer /\ d.hNotifyComplete = told
  BY <1>1, <1>2, <1>5, FinishedIs
<1> QED  BY <1>5, <1>6, <1>7

InSequence(q) ==
  /\ Leads(q.steps) /\ q.next \in 1 .. Len(q.steps) + 1
  /\ q.done \in Dones
  /\ q.done = "TagReadNdef" => q.steps = TAG_READ_NDEF_SEQUENCE

(* The step that is to be answered is the one before the next. *)
Awaiting(c) ==
  c.awaited \notin {None, "Deinitialize"} =>
    /\ c.CurrentSequence.next >= 2
    /\ c.CurrentSequence.steps[c.CurrentSequence.next - 1] = c.awaited
    /\ c.awaited = "DisableSecureElements" => c.switchedOn >= 1

(* DisableSecureElements waits only while an element is on, so that its count *)
(* never falls below zero.                                                    *)
LEMMA PendingDisables ==
  ASSUME NEW c \in CxType, NEW x, "pending" \in Immediate(c, x), x = "DisableSecureElements"
  PROVE  c.switchedOn >= 1
<1>1. Immediate(c, x) = SEStep(c, x)
  BY DEF Immediate, ClientSteps
<1>2. c.switchedOn # 0
  BY <1>1 DEF SEStep
<1>3. c.switchedOn \in 0 .. SecureElements
  BY DEF CxType
<1> QED  BY <1>2, <1>3, RfAssumption

(* A sequence under way: exactly one thing carries it on. *)
Carried(d) ==
  /\ InSequence(d.CurrentSequence) /\ Awaiting(d)
  /\ d.awaited = None => OneResume(d.messages)
  /\ d.awaited # None => NoResume(d.messages)
  /\ d.IsDeactivatePending => d.awaited = "LlcpDeactivate"

LEMMA SequenceDiffers ==
  ASSUME NEW q, InSequence(q)
  PROVE  q # NoSequence
<1>1. q.steps # <<>>
  BY DEF InSequence, Leads
<1>2. NoSequence.steps = <<>>
  BY DEF NoSequence
<1> QED  BY <1>1, <1>2

(* A step that is pending carries its sequence on. *)
LEMMA RunCarries ==
  ASSUME NEW c \in CxType, NoResume(c.messages), ~c.IsDeactivatePending,
         InSequence(c.CurrentSequence),
         NEW n \in 1 .. Len(c.CurrentSequence.steps),
         c.CurrentSequence.steps[n] \in StepName,
         c.CurrentSequence.next = n + 1,
         c.CurrentSequence.steps[n] = "DisableSecureElements" => c.switchedOn >= 1
  PROVE  LET d == StepEffect(c, c.CurrentSequence.steps[n], "pending")
         IN d \in CxType /\ Kept(c, d) /\ d.CurrentSequence = c.CurrentSequence /\ Carried(d)
<1> DEFINE x == c.CurrentSequence.steps[n]
           d == StepEffect(c, x, "pending")
<1>1. /\ d \in CxType /\ Kept(c, d) /\ d.messages = c.messages
      /\ d.CurrentSequence = c.CurrentSequence /\ d.awaited = x
      /\ d.IsDeactivatePending => x = "LlcpDeactivate"
  BY StepEffectIs, SMTT(30)
<1> HIDE DEF d
<1>2. x # None
  BY NoneIsNoStep
<1>3. Awaiting(d)
  <2>1. d.CurrentSequence.next = n + 1 /\ d.CurrentSequence.steps[n] = d.awaited
    BY <1>1
  <2>2. d.CurrentSequence.next >= 2 /\ d.CurrentSequence.next - 1 = n
    BY <2>1
  <2>3. d.awaited = "DisableSecureElements" => d.switchedOn >= 1
    BY <1>1 DEF Kept
  <2> QED  BY <2>1, <2>2, <2>3 DEF Awaiting
<1>4. Carried(d)
  BY <1>1, <1>2, <1>3 DEF Carried
<1> QED  BY <1>1, <1>4 DEF d

(* A sequence that has started is carried on. *)
LEMMA StartCarries ==
  ASSUME NEW c \in CxType, NoResume(c.messages), ~c.IsDeactivatePending,
         NEW plan, NEW event, NEW to, Good(plan, event, to), plan.status = "pending",
         NEW user \in BOOLEAN, NEW d \in SequenceStart(c, plan, user)
  PROVE  /\ d \in CxType /\ Kept(c, d) /\ Carried(d)
         /\ d.CurrentSequence.done = plan.done /\ d.CurrentSequence.user = user
<1>1. /\ Leads(plan.steps) /\ plan.done \in Dones
      /\ plan.done = "TagReadNdef" => plan.steps = TAG_READ_NDEF_SEQUENCE
  BY DEF Good, Dones
<1>2. plan.steps \in Seq(StepName) /\ plan.steps # <<>>
  BY <1>1 DEF Leads
<1>3. Len(plan.steps) \in Nat /\ 1 \in 1 .. Len(plan.steps) + 1
  BY <1>2
<1> DEFINE q(n, s) == [steps |-> plan.steps, done |-> plan.done, user |-> user,
                       next |-> IF s = "pending" THEN n + 1 ELSE Len(plan.steps) + 1]
           b(n, s) == [c EXCEPT !.CurrentSequence = q(n, s)]
           e(n, s) == StepEffect(b(n, s), plan.steps[n], s)
<1>4. PICK r \in SequenceRun(c, plan.steps, 1) :
        d = IF r[2] = "pending" THEN e(r[1], r[2]) ELSE DispatchResume(e(r[1], r[2]), r[2])
  BY DEF SequenceStart
<1>5. r[1] \in 1 .. Len(plan.steps) /\ plan.steps[r[1]] \in StepName
      /\ r[2] \in {"ok", "pending", "failed"}
  BY <1>2, <1>3, RunEnds
<1>p. r[2] = "pending" /\ plan.steps[r[1]] = "DisableSecureElements" => c.switchedOn >= 1
  <2>1. r[2] = "pending" => "pending" \in Immediate(c, plan.steps[r[1]])
    BY <1>2, <1>3, RunEnds
  <2> QED  BY <2>1, PendingDisables
<1> DEFINE n == r[1]
           s == r[2]
           x == plan.steps[n]
           seq == q(n, s)
           f == b(n, s)
<1>6. /\ seq.steps = plan.steps /\ seq.done = plan.done /\ seq.user = user
      /\ seq.next = IF s = "pending" THEN n + 1 ELSE Len(plan.steps) + 1
      /\ seq.next \in 1 .. Len(plan.steps) + 1
  BY <1>3, <1>5
<1>7. seq \in SequenceType
  BY <1>1, <1>2, <1>3, <1>5 DEF SequenceType
<1>8. InSequence(seq)
  BY <1>1, <1>6 DEF InSequence
<1>9. f = [c EXCEPT !.CurrentSequence = seq]
  OBVIOUS
<1>w. d = IF s = "pending" THEN StepEffect(f, x, s) ELSE DispatchResume(StepEffect(f, x, s), s)
  BY <1>4
<1> HIDE DEF seq
<1>10. f \in CxType
  BY <1>7, <1>9 DEF CxType
<1>11. /\ Kept(c, f) /\ f.messages = c.messages /\ f.CurrentSequence = seq
       /\ f.IsDeactivatePending = c.IsDeactivatePending
  BY <1>7, <1>9 DEF CxType, Kept
<1>12. n \in 1 .. Len(plan.steps) /\ x \in StepName /\ s \in {"ok", "pending", "failed"}
  BY <1>5
<1>q. s = "pending" /\ x = "DisableSecureElements" => c.switchedOn >= 1
  BY <1>p
<1> HIDE DEF f, n, s
<1>13. CASE s = "pending"
  <2>1. d = StepEffect(f, f.CurrentSequence.steps[n], "pending")
    BY <1>w, <1>13, <1>6, <1>11
  <2>2. /\ InSequence(f.CurrentSequence) /\ n \in 1 .. Len(f.CurrentSequence.steps)
        /\ f.CurrentSequence.steps[n] \in StepName /\ f.CurrentSequence.next = n + 1
        /\ f.CurrentSequence.steps[n] = "DisableSecureElements" => f.switchedOn >= 1
    BY <1>6, <1>8, <1>11, <1>12, <1>13, <1>q DEF Kept
  <2>3. d \in CxType /\ Kept(f, d) /\ d.CurrentSequence = f.CurrentSequence /\ Carried(d)
    BY <2>1, <2>2, <1>10, <1>11, RunCarries
  <2> QED  BY <2>3, <1>6, <1>11 DEF Kept
<1>14. CASE s # "pending"
  <2> DEFINE g == StepEffect(f, x, s)
  <2>s. s \in {"ok", "failed", "pending"} /\ ~f.IsDeactivatePending /\ x \in StepName
    BY <1>11, <1>12
  <2>1. /\ g \in CxType /\ Kept(f, g) /\ g.messages = f.messages
        /\ g.CurrentSequence = f.CurrentSequence /\ g.awaited = None
        /\ ~g.IsDeactivatePending
    BY <1>10, <2>s, <1>14, StepEffectIs
  <2> HIDE DEF g
  <2>2. d = DispatchResume(g, s) /\ s \in Ended
    BY <1>w, <1>12, <1>14 DEF g, Ended
  <2>3. /\ d \in CxType /\ Kept(g, d) /\ d.CurrentSequence = g.CurrentSequence
        /\ d.awaited = None /\ ~d.IsDeactivatePending /\ OneResume(d.messages)
    BY <2>1, <2>2, <1>11, DispatchResumeIs
  <2>4. Carried(d)
    BY <2>1, <2>3, <1>8, <1>11 DEF Carried, Awaiting
  <2> QED  BY <2>1, <2>3, <2>4, <1>6, <1>11 DEF Kept
<1> QED  BY <1>13, <1>14

-----------------------------------------------------------------------------
(* The state machine *)

(* A change that leaves the event, its sequence and its caller alone *)
Aside(c, d) ==
  /\ d \in CxType
  /\ d.state = c.state /\ d.TransitionState = c.TransitionState /\ d.request = c.request
  /\ d.PendingStateEvents = c.PendingStateEvents /\ d.Status = c.Status
  /\ d.hNotifyComplete = c.hNotifyComplete /\ d.crashed = c.crashed
  /\ d.messages = c.messages /\ d.CurrentSequence = c.CurrentSequence
  /\ d.awaited = c.awaited /\ d.IsDeactivatePending = c.IsDeactivatePending
  /\ d.switchedOn = c.switchedOn

(* What lies aside may change. *)
LEMMA AsideAside ==
  ASSUME NEW c, NEW d, NEW e, Aside(c, d), Aside(d, e)
  PROVE  Aside(c, e)
  BY DEF Aside

LEMMA ListAside ==
  ASSUME NEW c \in CxType
  PROVE  /\ Aside(c, c)
         /\ Aside(c, TagConnectionLost(c)) /\ TagConnectionLost(c).list = c.list
         /\ Aside(c, EndCardEmulation(c)) /\ EndCardEmulation(c).list = c.list
         /\ Aside(c, ClearRemoteDevList(c))
<1>1. Aside(c, c)
  BY DEF Aside
<1>2. None \in ListType
  BY DEF ListType
<1>3. TagConnectionLost(c) \in CxType /\ EndCardEmulation(c) \in CxType
      /\ ClearRemoteDevList(c) \in CxType
  BY <1>2 DEF TagConnectionLost, EndCardEmulation, ClearRemoteDevList, CxType
<1>4. Aside(c, TagConnectionLost(c)) /\ TagConnectionLost(c).list = c.list
  <2>1. TagConnectionLost(c) \in CxType
    BY <1>3
  <2> QED  BY <2>1 DEF TagConnectionLost, CxType, Aside
<1>5. Aside(c, EndCardEmulation(c)) /\ EndCardEmulation(c).list = c.list
  <2>1. EndCardEmulation(c) \in CxType
    BY <1>3
  <2> QED  BY <2>1 DEF EndCardEmulation, CxType, Aside
<1>6. Aside(c, ClearRemoteDevList(c))
  <2>1. ClearRemoteDevList(c) \in CxType
    BY <1>3
  <2> QED  BY <2>1 DEF ClearRemoteDevList, CxType, Aside
<1> QED  BY <1>1, <1>4, <1>5, <1>6

HasDevice(c) == c.state \in Active => c.list # None

Between(c) ==
  /\ c \in CxType /\ ~c.crashed /\ c.TransitionState # "Idle"
  /\ c.CurrentSequence = NoSequence /\ c.awaited = None /\ ~c.IsDeactivatePending
  /\ NoResume(c.messages)

Sound(c) ==
  /\ c.crashed => c.CurrentSequence = NoSequence
  /\ ~c.crashed =>
       /\ c.TransitionState # "Idle" <=> c.CurrentSequence # NoSequence
       /\ c.CurrentSequence = NoSequence =>
            c.awaited = None /\ ~c.IsDeactivatePending /\ NoResume(c.messages)
       /\ c.CurrentSequence # NoSequence =>
            /\ Carried(c)
            /\ c.CurrentSequence.done \in Answering \/ c.CurrentSequence.user =>
                 c.TransitionState = "UserEventRunning"
            /\ c.CurrentSequence.done \in Clearing => c.state \notin Active
       /\ c.TransitionState = "Idle" /\ c.PendingStateEvents # <<>> => HasNext(c.messages)

(* A status that has been reported is final. *)
Final(c) == c.hNotifyComplete # 0 => c.Status.is # "pending"

(* What the caller of the event sees when the machine goes on from c to d *)
Followed(c, d) ==
  /\ d.PendingStateEvents = c.PendingStateEvents
  /\ Final(c) => Final(d)
  /\ c.TransitionState = "UserEventRunning" =>
       \/ /\ d.TransitionState = "UserEventRunning" /\ d.request = c.request
          /\ d.hNotifyComplete = c.hNotifyComplete
          /\ d.Status = c.Status \/ d.Status.of = c.request
       \/ /\ d.TransitionState = "Idle" /\ d.hNotifyComplete = c.request
          /\ d.Status.of = c.request \/ (c.Status.is # "pending" /\ d.Status = c.Status)
  /\ c.TransitionState # "UserEventRunning" =>
       /\ d.TransitionState # "UserEventRunning"
       /\ d.Status = c.Status /\ d.hNotifyComplete = c.hNotifyComplete

Well(c, d) == d \in CxType /\ Sound(d) /\ HasDevice(d) /\ Followed(c, d)

(* From between two sequences of an event, its end keeps the machine sound. *)
LEMMA EventDoneWell ==
  ASSUME NEW c, Between(c), HasDevice(c), NEW status \in Ended
  PROVE  Well(c, EventDone(c, status))
<1> DEFINE d == EventDone(c, status)
<1>1. c \in CxType
  BY DEF Between
<1>2. /\ d \in CxType
      /\ d.state = c.state /\ d.list = c.list /\ d.crashed = c.crashed
      /\ d.CurrentSequence = c.CurrentSequence /\ d.awaited = c.awaited
      /\ d.IsDeactivatePending = c.IsDeactivatePending
      /\ d.PendingStateEvents = c.PendingStateEvents
      /\ d.TransitionState = "Idle"
      /\ NoResume(c.messages) => NoResume(d.messages)
      /\ c.PendingStateEvents # <<>> => HasNext(d.messages)
  BY <1>1, EventDoneIs
<1>3. /\ c.TransitionState = "UserEventRunning" =>
           /\ d.hNotifyComplete = c.request
           /\ c.Status.is = "pending" => d.Status.of = c.request
           /\ c.Status.is # "pending" => d.Status = c.Status
           /\ d.Status.is # "pending"
      /\ c.TransitionState # "UserEventRunning" =>
           d.hNotifyComplete = c.hNotifyComplete /\ d.Status = c.Status
  BY <1>1, EventDoneIs
<1> HIDE DEF d
<1>4. Sound(d)
  BY <1>2 DEF Sound, Between
<1>5. HasDevice(d)
  BY <1>2 DEF HasDevice
<1>6. Followed(c, d)
  BY <1>2, <1>3 DEF Followed, Final
<1> QED  BY <1>2, <1>4, <1>5, <1>6 DEF Well, d

LEMMA InState ==
  ASSUME NEW c \in CxType, NEW to \in States
  PROVE  LET d == [c EXCEPT !.state = to]
         IN /\ d \in CxType /\ d.state = to /\ d.list = c.list /\ d.switchedOn = c.switchedOn
            /\ d.TransitionState = c.TransitionState /\ d.request = c.request
            /\ d.PendingStateEvents = c.PendingStateEvents /\ d.Status = c.Status
            /\ d.hNotifyComplete = c.hNotifyComplete /\ d.crashed = c.crashed
            /\ d.messages = c.messages /\ d.CurrentSequence = c.CurrentSequence
            /\ d.awaited = c.awaited /\ d.IsDeactivatePending = c.IsDeactivatePending
<1> DEFINE d == [c EXCEPT !.state = to]
<1>1. d \in CxType /\ d.state = to /\ d.list = c.list /\ d.switchedOn = c.switchedOn
  BY DEF CxType
<1>2. /\ d.TransitionState = c.TransitionState /\ d.request = c.request
      /\ d.PendingStateEvents = c.PendingStateEvents /\ d.Status = c.Status
      /\ d.hNotifyComplete = c.hNotifyComplete /\ d.crashed = c.crashed
  BY DEF CxType
<1>3. /\ d.messages = c.messages /\ d.CurrentSequence = c.CurrentSequence
      /\ d.awaited = c.awaited /\ d.IsDeactivatePending = c.IsDeactivatePending
  BY DEF CxType
<1> QED  BY <1>1, <1>2, <1>3

(* The device that an active state needs: a handler that reads the list has *)
(* found one, and none that clears the list leads to an active state.       *)
LEMMA ActiveReads ==
  ASSUME NEW c, HasDevice(c), c.state \in States, NEW event, NEW to, Leaves(c.state, event, to),
         to \in Active, ~(ReadsList(c, to, event) /\ c.list = None)
  PROVE  c.list # None
<1>1. c.state \in Active \/ (c.state = "RfDiscovery" /\ to = "RfDiscovered")
  BY DEF Leaves, Active, States, DiscoveryModes
<1> QED  BY <1>1 DEF HasDevice, ReadsList

(* So does every handler of a state, with the sequence it starts or without. *)
LEMMA StateHandlerWell ==
  ASSUME NEW c, Between(c), HasDevice(c), NEW event \in UserEvents \cup InternalEvents, NEW op,
         Matches(event, op), NEW same, NEW to, Leaves(c.state, event, to),
         event \in UserEvents \/ to # c.state,
         event \in UserEvents => c.TransitionState = "UserEventRunning",
         NEW d \in StateHandler(c, to, event, op, same)
  PROVE  Well(c, d)
<1> DEFINE plan == Handler(c, to, event, op, same)
           lost == IF plan.lost THEN TagConnectionLost(c) ELSE c
           ready == IF plan.clears THEN ClearRemoteDevList(EndCardEmulation(lost)) ELSE lost
<1>1. c \in CxType /\ c.state \in States
  BY DEF Between, CxType
<1>2. to \in States
  BY <1>1 DEF Leaves, States, DiscoveryModes
<1>3. Good(plan, event, to)
  BY <1>1, GoodHandler
<1>4. /\ ReadsList(c, to, event) /\ c.list = None => d = [c EXCEPT !.crashed = TRUE]
      /\ ~(ReadsList(c, to, event) /\ c.list = None) =>
           IF plan.status # "pending" THEN d = EventDone([ready EXCEPT !.state = to], plan.status)
           ELSE \E e \in SequenceStart(ready, plan, event \in UserEvents) : d = [e EXCEPT !.state = to]
  BY DEF StateHandler
<1> HIDE DEF plan
<1>5. Aside(c, ready) /\ (~plan.clears => ready.list = c.list)
  <2>1. Aside(c, lost) /\ lost.list = c.list /\ lost \in CxType
    BY <1>1, ListAside DEF Aside
  <2> HIDE DEF lost
  <2>2. EndCardEmulation(lost) \in CxType /\ Aside(lost, EndCardEmulation(lost))
    BY <2>1, ListAside DEF Aside
  <2>3. Aside(EndCardEmulation(lost), ClearRemoteDevList(EndCardEmulation(lost)))
    BY <2>2, ListAside
  <2>4. Aside(c, ClearRemoteDevList(EndCardEmulation(lost)))
    BY <2>1, <2>2, <2>3, AsideAside
  <2> QED  BY <2>1, <2>4
<1> HIDE DEF ready
<1>6. Between(ready) /\ ready \in CxType
  BY <1>5 DEF Aside, Between
<1>7. CASE ReadsList(c, to, event) /\ c.list = None
  <2>1. d = [c EXCEPT !.crashed = TRUE]
    BY <1>4, <1>7
  <2>2. /\ d \in CxType /\ d.crashed /\ d.state = c.state /\ d.list = c.list
        /\ d.PendingStateEvents = c.PendingStateEvents /\ d.CurrentSequence = c.CurrentSequence
    BY <2>1, <1>1 DEF CxType
  <2>3. /\ d.TransitionState = c.TransitionState /\ d.request = c.request
        /\ d.Status = c.Status /\ d.hNotifyComplete = c.hNotifyComplete
    BY <2>1, <1>1 DEF CxType
  <2> QED  BY <2>2, <2>3 DEF Well, Sound, HasDevice, Followed, Final, Between
<1>8. CASE ~(ReadsList(c, to, event) /\ c.list = None)
  <2>1. to \in Active => ready.list # None
    <3>1. to \in Active => ~plan.clears
      BY <1>3 DEF Good
    <3>2. to \in Active => c.list # None
      BY <1>1, <1>8, ActiveReads
    <3> QED  BY <3>1, <3>2, <1>5
  <2>2. CASE plan.status # "pending"
    <3> DEFINE e == [ready EXCEPT !.state = to]
    <3>1. d = EventDone(e, plan.status) /\ plan.status \in Ended
      BY <1>3, <1>4, <1>8, <2>2 DEF Good, Ended
    <3>2. /\ e \in CxType /\ e.state = to /\ e.list = ready.list
          /\ e.TransitionState = ready.TransitionState /\ e.request = ready.request
          /\ e.PendingStateEvents = ready.PendingStateEvents /\ e.Status = ready.Status
          /\ e.hNotifyComplete = ready.hNotifyComplete /\ e.crashed = ready.crashed
          /\ e.messages = ready.messages /\ e.CurrentSequence = ready.CurrentSequence
          /\ e.awaited = ready.awaited /\ e.IsDeactivatePending = ready.IsDeactivatePending
      BY <1>2, <1>6, InState
    <3> HIDE DEF e
    <3>3. Between(e) /\ HasDevice(e)
      BY <3>2, <2>1, <1>6 DEF Between, HasDevice
    <3>4. Well(e, d)
      BY <3>1, <3>3, EventDoneWell
    <3>5. Followed(c, d)
      BY <3>2, <3>4, <1>5 DEF Well, Followed, Final, Aside
    <3> QED  BY <3>4, <3>5 DEF Well
  <2>3. CASE plan.status = "pending"
    <3>1. PICK e \in SequenceStart(ready, plan, event \in UserEvents) : d = [e EXCEPT !.state = to]
      BY <1>4, <1>8, <2>3
    <3>2. /\ e \in CxType /\ Kept(ready, e) /\ Carried(e)
          /\ e.CurrentSequence.done = plan.done
          /\ e.CurrentSequence.user = (event \in UserEvents)
      <4>1. NoResume(ready.messages) /\ ~ready.IsDeactivatePending
        BY <1>6 DEF Between
      <4>2. (event \in UserEvents) \in BOOLEAN
        OBVIOUS
      <4> QED  BY <4>1, <4>2, <1>3, <1>6, <2>3, <3>1, StartCarries
    <3>3. /\ d \in CxType /\ d.state = to /\ d.list = e.list /\ d.switchedOn = e.switchedOn
          /\ d.TransitionState = e.TransitionState /\ d.request = e.request
          /\ d.PendingStateEvents = e.PendingStateEvents /\ d.Status = e.Status
          /\ d.hNotifyComplete = e.hNotifyComplete /\ d.crashed = e.crashed
          /\ d.messages = e.messages /\ d.CurrentSequence = e.CurrentSequence
          /\ d.awaited = e.awaited /\ d.IsDeactivatePending = e.IsDeactivatePending
      BY <1>2, <3>1, <3>2, InState
    <3>4. Carried(d)
      BY <3>2, <3>3 DEF Carried, Awaiting
    <3>5. d.CurrentSequence # NoSequence
      BY <3>4, SequenceDiffers DEF Carried
    <3>6. d.TransitionState = c.TransitionState /\ d.TransitionState # "Idle" /\ ~d.crashed
      BY <3>2, <3>3, <1>5 DEF Kept, Aside, Between
    <3>c. /\ plan.done \in Answering => event \in UserEvents
          /\ plan.done \in Clearing => to \notin Active
      BY <1>3, <2>3 DEF Good
    <3>k. /\ d.CurrentSequence.done = plan.done
          /\ d.CurrentSequence.user => event \in UserEvents
      BY <3>2, <3>3
    <3>7. /\ d.CurrentSequence.done \in Answering \/ d.CurrentSequence.user =>
               d.TransitionState = "UserEventRunning"
          /\ d.CurrentSequence.done \in Clearing => d.state \notin Active
      <4>1. d.CurrentSequence.done \in Answering \/ d.CurrentSequence.user => event \in UserEvents
        BY <3>c, <3>k
      <4>2. d.CurrentSequence.done \in Clearing => d.state \notin Active
        BY <3>c, <3>k, <3>3
      <4> QED  BY <4>1, <4>2, <3>6
    <3>8. Sound(d)
      BY <3>4, <3>5, <3>6, <3>7 DEF Sound
    <3>9. HasDevice(d)
      BY <3>2, <3>3, <2>1 DEF Kept, HasDevice
    <3>10. Followed(c, d)
      BY <3>2, <3>3, <3>6, <1>5 DEF Kept, Aside, Followed, Final
    <3> QED  BY <3>3, <3>8, <3>9, <3>10 DEF Well
  <2> QED  BY <2>2, <2>3
<1> QED  BY <1>7, <1>8

LEMMA NoneIsInternal ==
  ASSUME NEW event \in InternalEvents
  PROVE  event \notin UserEvents /\ Matches(event, None)
  BY DEF InternalEvents, UserEvents, Matches

(* So does an event, and an event that is chained. *)
LEMMA EventProcessWell ==
  ASSUME NEW c, Between(c), HasDevice(c), NEW event \in UserEvents \cup InternalEvents, NEW op,
         Matches(event, op), NEW same,
         event \in UserEvents => c.TransitionState = "UserEventRunning",
         NEW d \in EventProcess(c, event, op, same)
  PROVE  Well(c, d)
<1> DEFINE to == FindTargetState(c, event)
<1>1. c \in CxType /\ c.state \in States
  BY DEF Between, CxType
<1>2. to # None => Leaves(c.state, event, to)
  BY <1>1, Targets
<1>3. \/ d = EventDone(c, "failed") \/ d = EventDone(c, "ok")
      \/ /\ to # None /\ (event \in UserEvents \/ to # c.state)
         /\ d \in StateHandler(c, to, event, op, same)
  BY DEF EventProcess
<1> HIDE DEF to
<1>4. CASE d = EventDone(c, "failed") \/ d = EventDone(c, "ok")
  <2>1. "ok" \in Ended /\ "failed" \in Ended
    BY DEF Ended
  <2> QED  BY <1>4, <2>1, EventDoneWell
<1>5. CASE /\ to # None /\ (event \in UserEvents \/ to # c.state)
           /\ d \in StateHandler(c, to, event, op, same)
  BY <1>2, <1>5, StateHandlerWell
<1> QED  BY <1>3, <1>4, <1>5

(* A completion answers only for its own event, and clears the list only  *)
(* when its sequence was to.                                              *)
LEMMA SeqCompleteIs ==
  ASSUME NEW seq, seq.done \in Dones, seq.user \in BOOLEAN, NEW status \in Ended
  PROVE  LET end == SeqComplete(seq, status)
         IN /\ end.event \in InternalEvents
            /\ end.answers \in BOOLEAN /\ end.clears \in BOOLEAN /\ end.submits \in BOOLEAN
            /\ end.answers => seq.done \in Answering \/ seq.user
            /\ end.clears => seq.done \in Clearing
<1> DEFINE end == SeqComplete(seq, status)
           Ends(e, answers, clears) ==
             /\ e.event \in InternalEvents
             /\ e.answers = answers /\ e.clears = clears /\ e.submits \in BOOLEAN
<1>1. \A event \in InternalEvents, answers \in BOOLEAN :
        /\ Ends(Completion(event, answers), answers, FALSE)
        /\ Ends([Completion(event, answers) EXCEPT !.clears = TRUE], answers, TRUE)
        /\ Ends([Completion(event, answers) EXCEPT !.submits = TRUE], answers, FALSE)
  BY DEF Completion
<1>2. /\ OrFailed(status) \in InternalEvents /\ OrDeactivated(status) \in InternalEvents
      /\ OrRecovery(status) \in InternalEvents /\ OrLinkFailed(status) \in InternalEvents
      /\ "Deactivated" \in InternalEvents /\ "ReqCompleted" \in InternalEvents
      /\ "Activated" \in InternalEvents
  BY DEF OrFailed, OrDeactivated, OrRecovery, OrLinkFailed, InternalEvents
<1> HIDE DEF Ends
<1>3. CASE seq.done = "Init"
  <2>1. Ends(end, TRUE, FALSE)
    BY <1>1, <1>2, <1>3 DEF SeqComplete, InitSeqComplete
  <2> QED  BY <2>1, <1>3 DEF Ends, Answering
<1>4. CASE seq.done = "Shutdown"
  <2>1. Ends(end, seq.user, FALSE)
    BY <1>1, <1>2, <1>4 DEF SeqComplete, ShutdownSeqComplete
  <2> QED  BY <2>1, <1>4 DEF Ends
<1>5. CASE seq.done = "Recovery"
  <2>1. Ends(end, FALSE, FALSE)
    BY <1>1, <1>2, <1>5 DEF SeqComplete, RecoverySeqComplete
  <2> QED  BY <2>1, <1>5 DEF Ends
<1>6. CASE seq.done = "StartRfDiscovery"
  <2>1. Ends(end, seq.user, FALSE)
    BY <1>1, <1>2, <1>6 DEF SeqComplete, StartRfDiscoverySeqComplete
  <2> QED  BY <2>1, <1>6 DEF Ends
<1>7. CASE seq.done \in {"P2PActive2RfIdle", "PCDActive2RfIdle", "TagActive2RfIdle"}
  <2>1. Ends(end, seq.user, TRUE)
    BY <1>1, <1>2, <1>7 DEF SeqComplete, Active2RfIdleSeqComplete
  <2> QED  BY <2>1, <1>7 DEF Ends, Clearing
<1>8. CASE seq.done \in {"P2PActive2RfDiscovery", "TagActive2RfDiscovery"}
  <2>1. Ends(end, seq.user, TRUE)
    BY <1>1, <1>2, <1>8 DEF SeqComplete, Active2RfDiscoverySeqComplete
  <2> QED  BY <2>1, <1>8 DEF Ends, Clearing
<1>9. CASE seq.done \in {"TagDiscovered", "P2PDiscovered", "BarcodeRead"}
  <2>1. Ends(end, FALSE, FALSE)
    BY <1>1, <1>2, <1>9 DEF SeqComplete, DiscoveredSeqComplete
  <2> QED  BY <2>1, <1>9 DEF Ends
<1>10. CASE seq.done = "TagReadNdef"
  <2>1. Ends(end, FALSE, FALSE)
    BY <1>1, <1>2, <1>10 DEF SeqComplete, TagReadNdefSeqComplete
  <2> QED  BY <2>1, <1>10 DEF Ends
<1>11. CASE seq.done = "SNEPConnect"
  <2>1. Ends(end, FALSE, FALSE)
    BY <1>1, <1>2, <1>11 DEF SeqComplete, SNEPConnectSeqComplete
  <2> QED  BY <2>1, <1>11 DEF Ends
<1>12. CASE seq.done \in {"StopRfDiscovery", "TagActivate", "SESetMode", "SetRoutingTable",
                          "SEEnumerate", "ESETransceive", "ESEReset", "RfDiscoveryConfig",
                          "TagDeactivate"}
  <2>1. Ends(end, TRUE, FALSE)
    BY <1>1, <1>2, <1>12 DEF SeqComplete, StopRfDiscoverySeqComplete, TagActivateSeqComplete,
                             SESeqComplete, RfDiscoveryConfigSeqComplete, TagDeactivateSeqComplete
  <2> QED  BY <2>1, <1>12 DEF Ends, Answering
<1>13. CASE seq.done \in {"TagWriteNdef", "TagConvertReadOnly", "TargetTransceive",
                          "TargetPresenceCheck", "SNEPClientPut", "RemoteDevSend"}
  <2>1. end = TagSeqComplete(seq.done, status)
    BY <1>13 DEF SeqComplete
  <2>2. Ends(end, TRUE, FALSE)
    BY <1>1, <1>2, <1>13, <2>1 DEF TagSeqComplete
  <2> QED  BY <2>2, <1>13 DEF Ends, Answering
<1> QED  BY <1>3, <1>4, <1>5, <1>6, <1>7, <1>8, <1>9, <1>10, <1>11, <1>12, <1>13
         DEF Dones, Answering, Silent, Clearing

LEMMA FollowedTwice ==
  ASSUME NEW c, NEW f, NEW d, Followed(c, f), Followed(f, d),
         c.TransitionState = "UserEventRunning" => f.TransitionState = "UserEventRunning"
  PROVE  Followed(c, d)
  BY DEF Followed, Final

(* A sequence that ends: nothing carries it on any more. *)
Ending(c) ==
  /\ c \in CxType /\ ~c.crashed /\ c.TransitionState # "Idle"
  /\ InSequence(c.CurrentSequence)
  /\ c.CurrentSequence.done \in Answering \/ c.CurrentSequence.user =>
       c.TransitionState = "UserEventRunning"
  /\ c.CurrentSequence.done \in Clearing => c.state \notin Active
  /\ c.awaited = None /\ ~c.IsDeactivatePending /\ NoResume(c.messages)

Closed(c, status, works) ==
  [c EXCEPT !.CurrentSequence = NoSequence, !.Status = status, !.works = works]

LEMMA ClosedIs ==
  ASSUME NEW c \in CxType, NEW status \in StatusType, NEW works \in Nat
  PROVE  LET d == Closed(c, status, works)
         IN /\ d \in CxType /\ d.CurrentSequence = NoSequence /\ d.Status = status
            /\ d.state = c.state /\ d.TransitionState = c.TransitionState
            /\ d.request = c.request /\ d.PendingStateEvents = c.PendingStateEvents
            /\ d.hNotifyComplete = c.hNotifyComplete /\ d.list = c.list /\ d.crashed = c.crashed
            /\ d.messages = c.messages /\ d.awaited = c.awaited
            /\ d.IsDeactivatePending = c.IsDeactivatePending
<1> DEFINE d == Closed(c, status, works)
<1>1. d \in CxType
  BY NoSequenceType DEF CxType, Closed
<1>2. /\ d.CurrentSequence = NoSequence /\ d.Status = status
      /\ d.state = c.state /\ d.TransitionState = c.TransitionState
      /\ d.request = c.request /\ d.PendingStateEvents = c.PendingStateEvents
  BY DEF CxType, Closed
<1>3. /\ d.hNotifyComplete = c.hNotifyComplete /\ d.list = c.list /\ d.crashed = c.crashed
      /\ d.messages = c.messages /\ d.awaited = c.awaited
      /\ d.IsDeactivatePending = c.IsDeactivatePending
  BY DEF CxType, Closed
<1> QED  BY <1>1, <1>2, <1>3

(* The completion of a sequence closes it, and chains its event. *)
LEMMA SequenceCompleteWell ==
  ASSUME NEW c, Ending(c), HasDevice(c), NEW status \in Ended,
         NEW d \in SequenceComplete(c, status)
  PROVE  Well(c, d)
<1> DEFINE seq == c.CurrentSequence
           end == SeqComplete(seq, status)
           card == IF seq.done = "PCDActive2RfIdle" THEN EndCardEmulation(c) ELSE c
           list == IF end.clears THEN ClearRemoteDevList(card) ELSE card
           answer == IF end.answers THEN [is |-> status, of |-> c.request] ELSE list.Status
           works == list.works + (IF end.submits THEN 1 ELSE 0)
           f == Closed(list, answer, works)
<1>1. c \in CxType /\ seq \in SequenceType /\ seq.done \in Dones
  BY DEF Ending, InSequence, CxType
<1>2. seq.user \in BOOLEAN
  BY <1>1 DEF SequenceType
<1>3. /\ end.event \in InternalEvents
      /\ end.answers \in BOOLEAN /\ end.clears \in BOOLEAN
      /\ end.answers => seq.done \in Answering \/ seq.user
      /\ end.clears => seq.done \in Clearing
  BY <1>1, <1>2, SeqCompleteIs
<1>4. d \in ChainEvent(f, end.event)
  BY DEF SequenceComplete, Closed
<1> HIDE DEF end, seq
<1>5. Aside(c, card) /\ card.list = c.list /\ card \in CxType
  BY <1>1, ListAside DEF Aside
<1> HIDE DEF card
<1>6. Aside(card, ClearRemoteDevList(card))
  BY <1>5, ListAside
<1>7. Aside(c, list) /\ (~end.clears => list.list = c.list)
  BY <1>5, <1>6, AsideAside
<1> HIDE DEF list
<1>8. list \in CxType
  BY <1>7 DEF Aside
<1>9. answer \in StatusType /\ works \in Nat
  <2>1. list.Status \in StatusType /\ c.request \in Nat /\ list.works \in Nat
    BY <1>1, <1>8 DEF CxType
  <2>2. [is |-> status, of |-> c.request] \in StatusType
    BY <2>1 DEF StatusType
  <2> QED  BY <2>1, <2>2
<1>10. /\ ~end.answers => answer = c.Status
       /\ end.answers => answer.of = c.request /\ answer.is # "pending"
  BY <1>7 DEF Aside, Ended
<1> HIDE DEF answer, works
<1>11. /\ f \in CxType /\ f.CurrentSequence = NoSequence /\ f.Status = answer
       /\ f.state = list.state /\ f.TransitionState = list.TransitionState
       /\ f.request = list.request /\ f.PendingStateEvents = list.PendingStateEvents
       /\ f.hNotifyComplete = list.hNotifyComplete /\ f.list = list.list
       /\ f.crashed = list.crashed
       /\ f.messages = list.messages /\ f.awaited = list.awaited
       /\ f.IsDeactivatePending = list.IsDeactivatePending
  BY <1>8, <1>9, ClosedIs
<1> HIDE DEF f
<1>12. Between(f)
  BY <1>7, <1>11 DEF Ending, Aside, Between
<1>13. HasDevice(f)
  <2>1. f.state = c.state /\ f.list = list.list
    BY <1>7, <1>11 DEF Aside
  <2>2. c.state \in Active => ~end.clears
    BY <1>3 DEF Ending, seq
  <2> QED  BY <2>1, <2>2, <1>7 DEF HasDevice
<1>14. Followed(c, f) /\ f.TransitionState = c.TransitionState
  <2>1. end.answers => c.TransitionState = "UserEventRunning"
    BY <1>3 DEF Ending, seq
  <2> QED  BY <2>1, <1>7, <1>10, <1>11 DEF Followed, Final, Aside
<1>15. end.event \notin UserEvents /\ Matches(end.event, None)
  BY <1>3, NoneIsInternal
<1>16. d \in EventProcess(f, end.event, None, FALSE)
  BY <1>4, <1>12 DEF ChainEvent, Between
<1>17. Well(f, d)
  BY <1>3, <1>12, <1>13, <1>15, <1>16, EventProcessWell
<1> QED  BY <1>14, <1>17, FollowedTwice DEF Well

Moved(c, n) == [c EXCEPT !.CurrentSequence.next = n]

LEMMA MovedIs ==
  ASSUME NEW c \in CxType, NEW n \in Int
  PROVE  LET d == Moved(c, n)
         IN /\ d \in CxType /\ Kept(c, d) /\ d.messages = c.messages
            /\ d.awaited = c.awaited /\ d.IsDeactivatePending = c.IsDeactivatePending
            /\ d.CurrentSequence.steps = c.CurrentSequence.steps
            /\ d.CurrentSequence.done = c.CurrentSequence.done
            /\ d.CurrentSequence.user = c.CurrentSequence.user
            /\ d.CurrentSequence.next = n
<1> DEFINE q == [c.CurrentSequence EXCEPT !.next = n]
           d == [c EXCEPT !.CurrentSequence = q]
<1>1. c.CurrentSequence \in SequenceType
  BY DEF CxType
<1>2. /\ q \in SequenceType /\ q.steps = c.CurrentSequence.steps
      /\ q.done = c.CurrentSequence.done /\ q.user = c.CurrentSequence.user /\ q.next = n
  BY <1>1 DEF SequenceType
<1>3. Moved(c, n) = d
  BY DEF Moved, CxType
<1> HIDE DEF q
<1>4. d \in CxType
  BY <1>2 DEF CxType
<1>5. Kept(c, d) /\ d.messages = c.messages
  BY DEF CxType, Kept
<1>6. /\ d.awaited = c.awaited /\ d.IsDeactivatePending = c.IsDeactivatePending
      /\ d.CurrentSequence = q
  BY DEF CxType
<1> HIDE DEF d
<1> QED  BY <1>2, <1>3, <1>4, <1>5, <1>6

LEMMA KeptFollowed ==
  ASSUME NEW c, NEW d, Kept(c, d), Final(c) => Final(d)
  PROVE  Followed(c, d)
  BY DEF Kept, Followed

LEMMA KeptFinal ==
  ASSUME NEW c, NEW d, Kept(c, d)
  PROVE  Final(c) => Final(d)
  BY DEF Kept, Final

(* A sequence that is resumed runs on or completes. *)
LEMMA SequenceResumeWell ==
  ASSUME NEW c, Ending(c), HasDevice(c), NEW status \in Ended, NEW d \in SequenceResume(c, status)
  PROVE  Well(c, d)
<1> DEFINE seq == c.CurrentSequence
           f(n) == [c EXCEPT !.CurrentSequence.next = n + 1]
           g(n, s) == StepEffect(f(n), seq.steps[n], s)
<1>1. c \in CxType /\ seq # NoSequence /\ InSequence(seq)
  BY SequenceDiffers DEF Ending
<1>2. \/ status # "ok" /\ d \in SequenceComplete(c, status)
      \/ \E r \in SequenceRun(c, seq.steps, seq.next) :
           d \in IF r[2] = "pending" THEN {g(r[1], r[2])} ELSE SequenceComplete(g(r[1], r[2]), r[2])
  BY <1>1 DEF SequenceResume
<1>3. CASE status # "ok" /\ d \in SequenceComplete(c, status)
  BY <1>3, SequenceCompleteWell
<1>4. CASE \E r \in SequenceRun(c, seq.steps, seq.next) :
             d \in IF r[2] = "pending" THEN {g(r[1], r[2])} ELSE SequenceComplete(g(r[1], r[2]), r[2])
  <2>1. PICK r \in SequenceRun(c, seq.steps, seq.next) :
          d \in IF r[2] = "pending" THEN {g(r[1], r[2])} ELSE SequenceComplete(g(r[1], r[2]), r[2])
    BY <1>4
  <2>2. /\ seq.steps \in Seq(StepName) /\ seq.steps # <<>> /\ seq.next \in 1 .. Len(seq.steps) + 1
    BY <1>1 DEF InSequence, Leads
  <2>3. /\ r[1] \in 1 .. Len(seq.steps) /\ seq.steps[r[1]] \in StepName
        /\ r[2] \in {"ok", "pending", "failed"}
    BY <2>2, RunEnds
  <2>4. r[2] = "pending" /\ seq.steps[r[1]] = "DisableSecureElements" => c.switchedOn >= 1
    <3>1. r[2] = "pending" => "pending" \in Immediate(c, seq.steps[r[1]])
      BY <2>2, RunEnds
    <3> QED  BY <3>1, <1>1, PendingDisables
  <2> DEFINE n == r[1]
             s == r[2]
             x == seq.steps[n]
             h == Moved(c, n + 1)
  <2>5. d \in IF s = "pending" THEN {StepEffect(h, x, s)} ELSE SequenceComplete(StepEffect(h, x, s), s)
    BY <2>1 DEF Moved
  <2>6. n \in 1 .. Len(seq.steps) /\ x \in StepName /\ s \in {"ok", "failed", "pending"}
        /\ n + 1 \in 1 .. Len(seq.steps) + 1 /\ n + 1 \in Int
    BY <2>2, <2>3
  <2>7. s = "pending" /\ x = "DisableSecureElements" => c.switchedOn >= 1
    BY <2>4
  <2> HIDE DEF n, s
  <2>8. /\ h \in CxType /\ Kept(c, h) /\ h.messages = c.messages
        /\ h.awaited = c.awaited /\ h.IsDeactivatePending = c.IsDeactivatePending
        /\ h.CurrentSequence.steps = seq.steps
        /\ h.CurrentSequence.done = seq.done
        /\ h.CurrentSequence.user = seq.user
        /\ h.CurrentSequence.next = n + 1
    BY <1>1, <2>6, MovedIs
  <2> HIDE DEF h
  <2>9. InSequence(h.CurrentSequence)
    BY <1>1, <2>6, <2>8 DEF InSequence
  <2>10. NoResume(h.messages) /\ ~h.IsDeactivatePending
    BY <2>8 DEF Ending
  <2>u. /\ h.CurrentSequence.done \in Answering \/ h.CurrentSequence.user =>
             h.TransitionState = "UserEventRunning"
        /\ h.CurrentSequence.done \in Clearing => h.state \notin Active
        /\ h.TransitionState # "Idle" /\ ~h.crashed
    <3>1. /\ seq.done \in Answering \/ seq.user => c.TransitionState = "UserEventRunning"
          /\ seq.done \in Clearing => c.state \notin Active
          /\ c.TransitionState # "Idle" /\ ~c.crashed
      BY DEF Ending
    <3>2. h.TransitionState = c.TransitionState /\ h.state = c.state /\ h.crashed = c.crashed
      BY <2>8 DEF Kept
    <3> QED  BY <3>1, <3>2, <2>8
  <2>11. CASE s = "pending"
    <3>1. d = StepEffect(h, h.CurrentSequence.steps[n], "pending")
      BY <2>5, <2>8, <2>11
    <3>2. /\ n \in 1 .. Len(h.CurrentSequence.steps)
          /\ h.CurrentSequence.steps[n] \in StepName
      BY <2>6, <2>8
    <3>3. h.CurrentSequence.steps[n] = "DisableSecureElements" => h.switchedOn >= 1
      BY <2>7, <2>8, <2>11 DEF Kept
    <3>4. d \in CxType /\ Kept(h, d) /\ d.CurrentSequence = h.CurrentSequence /\ Carried(d)
      BY <3>1, <3>2, <3>3, <2>8, <2>9, <2>10, RunCarries
    <3>5. /\ d.TransitionState = h.TransitionState /\ d.state = h.state /\ d.crashed = h.crashed
          /\ d.list = h.list
      BY <3>4 DEF Kept
    <3>6. d.CurrentSequence # NoSequence
      BY <3>4, <2>9, SequenceDiffers
    <3>7. /\ d.CurrentSequence.done \in Answering \/ d.CurrentSequence.user =>
               d.TransitionState = "UserEventRunning"
          /\ d.CurrentSequence.done \in Clearing => d.state \notin Active
          /\ d.TransitionState # "Idle" /\ ~d.crashed
      BY <2>u, <3>4, <3>5
    <3>8. Sound(d)
      BY <3>4, <3>6, <3>7 DEF Sound
    <3>9. HasDevice(d)
      BY <3>5, <2>8 DEF HasDevice, Kept
    <3>10. Kept(c, d)
      BY <3>4, <2>8 DEF Kept
    <3> QED  BY <3>4, <3>8, <3>9, <3>10, KeptFollowed, KeptFinal DEF Well
  <2>12. CASE s # "pending"
    <3> DEFINE e == StepEffect(h, x, s)
    <3>1. d \in SequenceComplete(e, s) /\ s \in Ended
      BY <2>5, <2>6, <2>12 DEF Ended
    <3>2. /\ e \in CxType /\ Kept(h, e) /\ e.messages = h.messages
          /\ e.CurrentSequence = h.CurrentSequence
          /\ e.awaited = None /\ ~e.IsDeactivatePending
      BY <2>6, <2>8, <2>10, <2>12, StepEffectIs
    <3> HIDE DEF e
    <3>3. /\ e.TransitionState = h.TransitionState /\ e.state = h.state /\ e.crashed = h.crashed
          /\ e.list = h.list
      BY <3>2 DEF Kept
    <3>4. /\ e.CurrentSequence.done \in Answering \/ e.CurrentSequence.user =>
               e.TransitionState = "UserEventRunning"
          /\ e.CurrentSequence.done \in Clearing => e.state \notin Active
          /\ e.TransitionState # "Idle" /\ ~e.crashed
      BY <2>u, <3>2, <3>3
    <3>5. Ending(e)
      BY <3>2, <3>4, <2>9, <2>10 DEF Ending
    <3>6. HasDevice(e) /\ Kept(c, e)
      BY <3>2, <3>3, <2>8 DEF HasDevice, Kept
    <3>7. Well(e, d)
      BY <3>1, <3>5, <3>6, SequenceCompleteWell
    <3>8. Followed(c, e)
      BY <3>6, KeptFollowed, KeptFinal
    <3>9. e.TransitionState = c.TransitionState
      BY <3>6 DEF Kept
    <3> QED  BY <3>7, <3>8, <3>9, FollowedTwice DEF Well
  <2> QED  BY <2>11, <2>12
<1> QED  BY <1>2, <1>3, <1>4

-----------------------------------------------------------------------------
(* Whose event it is *)

NoUser(events) == \A i \in DOMAIN events : events[i].event \notin UserEvents
OneUser(events, n) ==
  \E i \in DOMAIN events :
    /\ events[i].event \in UserEvents /\ events[i].request = n
    /\ \A j \in DOMAIN events : events[j].event \in UserEvents => j = i

(* One caller at a time has an event in the queue. *)
LEMMA AppendOwner ==
  ASSUME NEW events \in Seq(EventType), NEW e \in EventType
  PROVE  /\ e.event \notin UserEvents =>
              /\ NoUser(events) => NoUser(Append(events, e))
              /\ \A n : OneUser(events, n) => OneUser(Append(events, e), n)
         /\ e.event \in UserEvents /\ NoUser(events) => OneUser(Append(events, e), e.request)
<1> DEFINE s == Append(events, e)
<1>1. Len(s) = Len(events) + 1 /\ s[Len(events) + 1] = e /\ DOMAIN s = 1 .. Len(events) + 1
  OBVIOUS
<1>2. \A i \in DOMAIN events : s[i] = events[i] /\ i # Len(events) + 1
  OBVIOUS
<1>3. DOMAIN s = DOMAIN events \cup {Len(events) + 1}
  BY <1>1
<1> HIDE DEF s
<1>4. e.event \notin UserEvents /\ NoUser(events) => NoUser(s)
  BY <1>1, <1>2, <1>3 DEF NoUser
<1>5. ASSUME NEW n, e.event \notin UserEvents, OneUser(events, n) PROVE OneUser(s, n)
  <2>1. PICK i \in DOMAIN events :
           /\ events[i].event \in UserEvents /\ events[i].request = n
           /\ \A j \in DOMAIN events : events[j].event \in UserEvents => j = i
    BY <1>5 DEF OneUser
  <2>2. i \in DOMAIN s /\ s[i].event \in UserEvents /\ s[i].request = n
    BY <2>1, <1>2, <1>3
  <2>3. \A j \in DOMAIN s : s[j].event \in UserEvents => j = i
    BY <2>1, <1>1, <1>2, <1>3, <1>5
  <2> QED  BY <2>2, <2>3 DEF OneUser
<1>6. e.event \in UserEvents /\ NoUser(events) => OneUser(s, e.request)
  BY <1>1, <1>2, <1>3 DEF NoUser, OneUser
<1> QED  BY <1>4, <1>5, <1>6 DEF s

LEMMA TakeOwner ==
  ASSUME NEW events \in Seq(EventType), events # <<>>
  PROVE  /\ Tail(events) \in Seq(EventType) /\ Head(events) \in EventType
         /\ NoUser(events) => NoUser(Tail(events)) /\ Head(events).event \notin UserEvents
         /\ \A n : OneUser(events, n) =>
              IF Head(events).event \in UserEvents
              THEN NoUser(Tail(events)) /\ Head(events).request = n
              ELSE OneUser(Tail(events), n)
<1> DEFINE t == Tail(events)
           h == Head(events)
<1>1. t \in Seq(EventType) /\ h \in EventType /\ h = events[1] /\ 1 \in DOMAIN events
  OBVIOUS
<1>2. \A i \in DOMAIN t :
        t[i] = events[i + 1] /\ i + 1 \in DOMAIN events /\ i + 1 # 1 /\ i \in Int
  OBVIOUS
<1>3. \A i \in DOMAIN events : i \in Int /\ (i # 1 => i - 1 \in DOMAIN t /\ t[i - 1] = events[i])
  OBVIOUS
<1> HIDE DEF t, h
<1>4. NoUser(events) => NoUser(t) /\ h.event \notin UserEvents
  BY <1>1, <1>2 DEF NoUser
<1>5. ASSUME NEW n, OneUser(events, n)
      PROVE  IF h.event \in UserEvents THEN NoUser(t) /\ h.request = n ELSE OneUser(t, n)
  <2>1. PICK i \in DOMAIN events :
           /\ events[i].event \in UserEvents /\ events[i].request = n
           /\ \A j \in DOMAIN events : events[j].event \in UserEvents => j = i
    BY <1>5 DEF OneUser
  <2>2. CASE h.event \in UserEvents
    <3>1. i = 1
      BY <2>1, <2>2, <1>1
    <3>2. NoUser(t)
      BY <2>1, <3>1, <1>2 DEF NoUser
    <3> QED  BY <2>1, <2>2, <3>1, <3>2, <1>1
  <2>3. CASE h.event \notin UserEvents
    <3>1. i # 1
      BY <2>1, <2>3, <1>1
    <3>2. i - 1 \in DOMAIN t /\ t[i - 1].event \in UserEvents /\ t[i - 1].request = n
      BY <2>1, <3>1, <1>3
    <3>3. \A j \in DOMAIN t : t[j].event \in UserEvents => j + 1 = i
      BY <2>1, <1>2
    <3>4. \A j \in DOMAIN t : t[j].event \in UserEvents => j = i - 1
      BY <3>3, <1>2, <1>3
    <3> QED  BY <2>3, <3>2, <3>4 DEF OneUser
  <2> QED  BY <2>2, <2>3
<1> QED  BY <1>1, <1>4, <1>5 DEF t, h

(* The caller's event is queued, runs, or has been answered. *)
Mine(c, n) ==
  \/ /\ c.TransitionState # "UserEventRunning" /\ OneUser(c.PendingStateEvents, n)
     /\ c.Status.is = "pending" /\ c.hNotifyComplete = 0
  \/ /\ c.TransitionState = "UserEventRunning" /\ c.request = n /\ NoUser(c.PendingStateEvents)
     /\ c.hNotifyComplete = 0 /\ (c.Status.is = "pending" \/ c.Status.of = n)
  \/ /\ c.TransitionState # "UserEventRunning" /\ NoUser(c.PendingStateEvents)
     /\ c.hNotifyComplete = n /\ c.Status.of = n

Nobodys(c) == c.TransitionState # "UserEventRunning" /\ NoUser(c.PendingStateEvents)

Fine(c) == c \in CxType /\ Sound(c) /\ HasDevice(c) /\ Final(c)
Same(c, d) == /\ \A n \in Nat : Mine(c, n) => Mine(d, n)
              /\ Nobodys(c) => Nobodys(d)

LEMMA SameTwice ==
  ASSUME NEW c, NEW d, NEW e, Same(c, d), Same(d, e)
  PROVE  Same(c, e)
  BY DEF Same

(* A machine that goes on leaves the event of a caller with it. *)
LEMMA FollowedSame ==
  ASSUME NEW c, NEW d, Followed(c, d)
  PROVE  Same(c, d)
<1>1. ASSUME NEW n \in Nat, Mine(c, n) PROVE Mine(d, n)
  <2>1. CASE c.TransitionState = "UserEventRunning"
    BY <1>1, <2>1 DEF Mine, Followed
  <2>2. CASE c.TransitionState # "UserEventRunning"
    BY <1>1, <2>2 DEF Mine, Followed
  <2> QED  BY <2>1, <2>2
<1>2. Nobodys(c) => Nobodys(d)
  BY DEF Nobodys, Followed
<1> QED  BY <1>1, <1>2 DEF Same

LEMMA WellFine ==
  ASSUME NEW c, NEW d, Well(c, d), Final(c)
  PROVE  Fine(d) /\ Same(c, d)
<1>1. Followed(c, d)
  BY DEF Well
<1>2. Final(d)
  BY <1>1 DEF Followed
<1> QED  BY <1>1, <1>2, FollowedSame DEF Well, Fine

LEMMA AsideFine ==
  ASSUME NEW c, Fine(c), NEW d, Aside(c, d), d.list = c.list \/ d.list # None
  PROVE  Fine(d) /\ Same(c, d)
<1>1. Sound(d)
  BY DEF Fine, Aside, Sound, Carried, Awaiting
<1>2. HasDevice(d) /\ Final(d)
  BY DEF Fine, Aside, HasDevice, Final
<1>3. Same(c, d)
  BY DEF Aside, Same, Mine, Nobodys
<1> QED  BY <1>1, <1>2, <1>3 DEF Fine, Aside

(* An event in the queue changes nothing of what runs. *)
LEMMA QueueFine ==
  ASSUME NEW c, Fine(c), NEW event \in UserEvents \cup Reports, NEW op \in CallerOps,
         Matches(event, op), NEW request \in Nat
  PROVE  LET d == QueueEvent(c, event, op, request)
         IN /\ Fine(d)
            /\ event \notin UserEvents => Same(c, d)
            /\ event \in UserEvents /\ Nobodys(c) /\ c.Status.is = "pending"
                 /\ c.hNotifyComplete = 0 => Mine(d, request)
<1> DEFINE d == QueueEvent(c, event, op, request)
           e == [event |-> event, op |-> op, request |-> request]
<1>1. c \in CxType
  BY DEF Fine
<1>2. /\ d \in CxType
      /\ d.state = c.state /\ d.TransitionState = c.TransitionState /\ d.request = c.request
      /\ d.Status = c.Status /\ d.hNotifyComplete = c.hNotifyComplete /\ d.list = c.list
      /\ d.crashed = c.crashed /\ d.switchedOn = c.switchedOn
      /\ d.CurrentSequence = c.CurrentSequence /\ d.awaited = c.awaited
      /\ d.IsDeactivatePending = c.IsDeactivatePending
      /\ d.PendingStateEvents = Append(c.PendingStateEvents, e)
      /\ HasNext(d.messages)
      /\ NoResume(c.messages) => NoResume(d.messages)
      /\ OneResume(c.messages) => OneResume(d.messages)
  BY <1>1, QueueEventIs
<1>3. e \in EventType /\ e.event = event /\ e.request = request
  BY DEF EventType
<1>4. c.PendingStateEvents \in Seq(EventType)
  BY <1>1 DEF CxType
<1>5. /\ event \notin UserEvents =>
           /\ NoUser(c.PendingStateEvents) => NoUser(d.PendingStateEvents)
           /\ \A n : OneUser(c.PendingStateEvents, n) => OneUser(d.PendingStateEvents, n)
      /\ event \in UserEvents /\ NoUser(c.PendingStateEvents) =>
           OneUser(d.PendingStateEvents, request)
  BY <1>2, <1>3, <1>4, AppendOwner
<1> HIDE DEF d, e
<1>6. Carried(c) => Carried(d)
  BY <1>2 DEF Carried, Awaiting
<1>7. Sound(d)
  BY <1>2, <1>6 DEF Fine, Sound
<1>8. Fine(d)
  BY <1>2, <1>7 DEF Fine, HasDevice, Final
<1>9. event \notin UserEvents => Same(c, d)
  BY <1>2, <1>5 DEF Same, Mine, Nobodys
<1>10. event \in UserEvents /\ Nobodys(c) /\ c.Status.is = "pending" /\ c.hNotifyComplete = 0 =>
         Mine(d, request)
  BY <1>2, <1>5 DEF Nobodys, Mine
<1> QED  BY <1>8, <1>9, <1>10 DEF d

LEMMA QueueInternal ==
  ASSUME NEW c, Fine(c), NEW event \in Reports
  PROVE  Fine(QueueEvent(c, event, None, 0)) /\ Same(c, QueueEvent(c, event, None, 0))
<1>1. event \notin UserEvents /\ Matches(event, None) /\ None \in CallerOps /\ 0 \in Nat
  BY NoneIsInternal DEF CallerOps, Reports, InternalEvents
<1> QED  BY <1>1, QueueFine

(* The event of a caller *)
Asking == Operations \cup {"CheckPresence"}

(* Every event of an operation is one that its handlers know. *)
LEMMA EventTypes ==
  ASSUME NEW op \in Asking
  PROVE  /\ Len(GetEventType(op)) \in Nat /\ 1 \in 1 .. Len(GetEventType(op))
         /\ \A stage \in 1 .. Len(GetEventType(op)) :
              GetEventType(op)[stage] \in UserEvents /\ Matches(GetEventType(op)[stage], op)
<1> DEFINE Fits(s) == /\ Len(s) \in Nat /\ 1 \in 1 .. Len(s)
                      /\ \A stage \in 1 .. Len(s) : s[stage] \in UserEvents /\ Matches(s[stage], op)
<1>1. \A x \in UserEvents : Matches(x, op) => Fits(<<x>>)
  OBVIOUS
<1>2. \A x, y \in UserEvents : Matches(x, op) /\ Matches(y, op) => Fits(<<x, y>>)
  OBVIOUS
<1>3. \A x, y, z \in UserEvents :
        Matches(x, op) /\ Matches(y, op) /\ Matches(z, op) => Fits(<<x, y, z>>)
  OBVIOUS
<1> HIDE DEF Fits
<1>4. \A x \in UserEvents : x \notin {"SE", "DataXchg"} => Matches(x, op)
  BY DEF Matches
<1>5. /\ "Init" \in UserEvents /\ "Deinit" \in UserEvents /\ "ConfigDiscovery" \in UserEvents
      /\ "StopDiscovery" \in UserEvents /\ "Activate" \in UserEvents
      /\ "DeactivateSleep" \in UserEvents /\ "Config" \in UserEvents
      /\ "DataXchg" \in UserEvents /\ "SE" \in UserEvents
  BY DEF UserEvents
<1>6. CASE op \in {"Start", "Stop", "UpdateDiscoveryState", "TargetDeactivate", "TargetActivate"}
  <2>1. \E x \in UserEvents : x \notin {"SE", "DataXchg"} /\ GetEventType(op) = <<x>>
    BY <1>5, <1>6 DEF GetEventType
  <2>2. Fits(GetEventType(op))
    BY <2>1, <1>1, <1>4
  <2> QED  BY <2>2 DEF Fits
<1>7. CASE op \in {"WriteTag", "WriteP2P", "Transmit", "TargetSend", "ConvertToReadOnly",
                   "CheckPresence"}
  <2>1. GetEventType(op) = <<"DataXchg">> /\ Matches("DataXchg", op)
    BY <1>7 DEF GetEventType, Matches, SEOperations, DataOperations
  <2>2. Fits(GetEventType(op))
    BY <2>1, <1>1, <1>5
  <2> QED  BY <2>2 DEF Fits
<1>8. CASE op \in {"SetMode", "ESETransceive", "ESEReset"}
  <2>1. GetEventType(op) = <<"SE">> /\ Matches("SE", op)
    BY <1>8 DEF GetEventType, Matches, SEOperations, DataOperations
  <2>2. Fits(GetEventType(op))
    BY <2>1, <1>1, <1>5
  <2> QED  BY <2>2 DEF Fits
<1>9. CASE op = "TargetReactivate"
  <2>1. GetEventType(op) = <<"DeactivateSleep", "Activate">>
    BY <1>9 DEF GetEventType
  <2>2. Fits(GetEventType(op))
    BY <2>1, <1>2, <1>4, <1>5
  <2> QED  BY <2>2 DEF Fits
<1>10. CASE op \in {"SetRouting", "Enumerate"}
  <2>1. GetEventType(op) = <<"StopDiscovery", "Config", "ConfigDiscovery">>
    BY <1>10 DEF GetEventType, AroundConfig
  <2>2. Fits(GetEventType(op))
    BY <2>1, <1>3, <1>4, <1>5
  <2> QED  BY <2>2 DEF Fits
<1> QED  BY <1>6, <1>7, <1>8, <1>9, <1>10, RfAssumption DEF Asking, CallerOperations

(* A caller that executes an event has one event, and no answer yet. *)
LEMMA ExecuteFine ==
  ASSUME NEW c, Fine(c), NEW op \in Asking, NEW stage \in 1 .. Len(GetEventType(op)),
         executions \in Nat
  PROVE  /\ Fine(Execute(c, op, stage))
         /\ Nobodys(c) => Mine(Execute(c, op, stage), executions + 1)
<1> DEFINE asked == [is |-> "pending", of |-> 0]
           d == [c EXCEPT !.Status = asked, !.hNotifyComplete = 0]
           event == GetEventType(op)[stage]
<1>1. event \in UserEvents /\ Matches(event, op) /\ op \in CallerOps /\ executions + 1 \in Nat
  BY EventTypes DEF Asking, CallerOps
<1>2. Execute(c, op, stage) = QueueEvent(d, event, op, executions + 1)
  BY DEF Execute
<1>3. c \in CxType /\ asked \in StatusType /\ asked.is = "pending"
  BY DEF Fine, StatusType
<1> HIDE DEF asked
<1>4. d \in CxType
  BY <1>3 DEF CxType
<1>5. /\ d.state = c.state /\ d.list = c.list /\ d.TransitionState = c.TransitionState
      /\ d.PendingStateEvents = c.PendingStateEvents /\ d.crashed = c.crashed
      /\ d.messages = c.messages /\ d.CurrentSequence = c.CurrentSequence
  BY <1>3 DEF CxType
<1>6. /\ d.awaited = c.awaited /\ d.IsDeactivatePending = c.IsDeactivatePending
      /\ d.switchedOn = c.switchedOn /\ d.Status = asked /\ d.hNotifyComplete = 0
  BY <1>3 DEF CxType
<1> HIDE DEF d, event
<1>7. Carried(c) => Carried(d)
  BY <1>5, <1>6 DEF Carried, Awaiting
<1>8. Sound(d)
  BY <1>5, <1>6, <1>7 DEF Fine, Sound
<1>9. Fine(d)
  BY <1>4, <1>5, <1>6, <1>8 DEF Fine, HasDevice, Final
<1>10. Nobodys(c) => Nobodys(d)
  BY <1>5 DEF Nobodys
<1>11. d.Status.is = "pending" /\ d.hNotifyComplete = 0
  BY <1>3, <1>6
<1> QED  BY <1>1, <1>2, <1>9, <1>10, <1>11, QueueFine

-----------------------------------------------------------------------------
(* The LibNfc thread *)

Taken(c) == [c EXCEPT !.messages = Tail(@)]

LEMMA TakenIs ==
  ASSUME NEW c \in CxType, c.messages # <<>>
  PROVE  LET d == Taken(c)
         IN /\ d \in CxType /\ Kept(c, d) /\ d.messages = Tail(c.messages)
            /\ d.CurrentSequence = c.CurrentSequence /\ d.awaited = c.awaited
            /\ d.IsDeactivatePending = c.IsDeactivatePending
<1> DEFINE t == Tail(c.messages)
           d == [c EXCEPT !.messages = t]
<1>1. c.messages \in Seq(Message)
  BY DEF CxType
<1>2. t \in Seq(Message)
  BY <1>1
<1>3. Taken(c) = d
  BY DEF Taken, CxType
<1>4. t = Tail(c.messages)
  OBVIOUS
<1> HIDE DEF t
<1>5. d \in CxType
  BY <1>2 DEF CxType
<1>6. /\ Kept(c, d) /\ d.messages = t
      /\ d.CurrentSequence = c.CurrentSequence /\ d.awaited = c.awaited
      /\ d.IsDeactivatePending = c.IsDeactivatePending
  BY DEF CxType, Kept
<1> HIDE DEF d
<1> QED  BY <1>3, <1>4, <1>5, <1>6

Picked(c, events, request, running) ==
  [c EXCEPT !.PendingStateEvents = events, !.request = request, !.TransitionState = running]

LEMMA PickedIs ==
  ASSUME NEW c \in CxType, NEW events \in Seq(EventType), NEW request \in Nat,
         NEW running \in TransitionStates
  PROVE  LET d == Picked(c, events, request, running)
         IN /\ d \in CxType /\ d.state = c.state /\ d.list = c.list /\ d.crashed = c.crashed
            /\ d.Status = c.Status /\ d.hNotifyComplete = c.hNotifyComplete
            /\ d.messages = c.messages /\ d.CurrentSequence = c.CurrentSequence
            /\ d.awaited = c.awaited /\ d.IsDeactivatePending = c.IsDeactivatePending
            /\ d.PendingStateEvents = events /\ d.request = request /\ d.TransitionState = running
<1> DEFINE d == Picked(c, events, request, running)
<1>1. d \in CxType
  BY DEF CxType, Picked
<1>2. /\ d.state = c.state /\ d.list = c.list /\ d.crashed = c.crashed
      /\ d.Status = c.Status /\ d.hNotifyComplete = c.hNotifyComplete
      /\ d.messages = c.messages /\ d.CurrentSequence = c.CurrentSequence
  BY DEF CxType, Picked
<1>3. /\ d.awaited = c.awaited /\ d.IsDeactivatePending = c.IsDeactivatePending
      /\ d.PendingStateEvents = events /\ d.request = request /\ d.TransitionState = running
  BY DEF CxType, Picked
<1> QED  BY <1>1, <1>2, <1>3

(* The next event is taken when none runs; its owner does not change. *)
LEMMA NextFine ==
  ASSUME NEW b, Fine(b), ~b.crashed, b.messages # <<>>, Head(b.messages).kind = "next",
         NEW same, NEW d \in ProcessNextQueuedEvent(Taken(b), same)
  PROVE  Fine(d) /\ Same(b, d)
<1> DEFINE c == Taken(b)
<1>1. b \in CxType /\ Sound(b) /\ HasDevice(b) /\ Final(b) /\ b.messages \in Seq(Message)
      /\ b.PendingStateEvents \in Seq(EventType)
  BY DEF Fine, CxType
<1>2. /\ c \in CxType /\ Kept(b, c) /\ c.messages = Tail(b.messages)
      /\ c.CurrentSequence = b.CurrentSequence /\ c.awaited = b.awaited
      /\ c.IsDeactivatePending = b.IsDeactivatePending
  BY <1>1, TakenIs
<1>3. /\ NoResume(b.messages) => NoResume(c.messages)
      /\ OneResume(b.messages) => OneResume(c.messages)
  BY <1>1, <1>2, TakeMessage
<1>4. Same(b, c) /\ HasDevice(c) /\ Final(c)
  BY <1>1, <1>2 DEF Kept, Same, Mine, Nobodys, HasDevice, Final
<1>d. d \in ProcessNextQueuedEvent(c, same)
  OBVIOUS
<1> HIDE DEF c
<1>5. CASE c.TransitionState # "Idle" \/ c.PendingStateEvents = <<>>
  <2>1. d = c
    BY <1>5, <1>d DEF ProcessNextQueuedEvent
  <2>2. Carried(b) => Carried(c)
    BY <1>2, <1>3 DEF Carried, Awaiting, Kept
  <2>3. Sound(c)
    BY <1>1, <1>2, <1>3, <1>5, <2>2 DEF Sound, Kept
  <2> QED  BY <2>1, <2>3, <1>2, <1>4 DEF Fine
<1>6. CASE c.TransitionState = "Idle" /\ c.PendingStateEvents # <<>>
  <2> DEFINE e == Head(c.PendingStateEvents)
             running == IF e.event \in UserEvents THEN "UserEventRunning"
                        ELSE "InternalEventRunning"
             f == Picked(c, Tail(c.PendingStateEvents), e.request, running)
  <2>1. d \in EventProcess(f, e.event, e.op, same)
    BY <1>6, <1>d DEF ProcessNextQueuedEvent, Picked
  <2>2. c.PendingStateEvents \in Seq(EventType)
    BY <1>2 DEF CxType
  <2>3. Tail(c.PendingStateEvents) \in Seq(EventType) /\ e \in EventType
    BY <1>6, <2>2, TakeOwner
  <2>4. /\ NoUser(c.PendingStateEvents) =>
             NoUser(Tail(c.PendingStateEvents)) /\ e.event \notin UserEvents
        /\ \A n : OneUser(c.PendingStateEvents, n) =>
             IF e.event \in UserEvents
             THEN NoUser(Tail(c.PendingStateEvents)) /\ e.request = n
             ELSE OneUser(Tail(c.PendingStateEvents), n)
    BY <1>6, <2>2, TakeOwner
  <2>5. /\ e.event \in UserEvents \cup InternalEvents /\ e.request \in Nat
        /\ Matches(e.event, e.op)
    BY <2>3 DEF EventType, Reports, InternalEvents
  <2>6. /\ running \in TransitionStates /\ running # "Idle"
        /\ running = "UserEventRunning" <=> e.event \in UserEvents
    BY DEF TransitionStates
  <2> HIDE DEF running, e
  <2>7. /\ f \in CxType /\ f.state = c.state /\ f.list = c.list /\ f.crashed = c.crashed
        /\ f.Status = c.Status /\ f.hNotifyComplete = c.hNotifyComplete
        /\ f.messages = c.messages /\ f.CurrentSequence = c.CurrentSequence
        /\ f.awaited = c.awaited /\ f.IsDeactivatePending = c.IsDeactivatePending
        /\ f.PendingStateEvents = Tail(c.PendingStateEvents) /\ f.request = e.request
        /\ f.TransitionState = running
    BY <1>2, <2>3, <2>5, <2>6, PickedIs, ZenonT(60)
  <2> HIDE DEF f
  <2>8. Between(f)
    BY <1>1, <1>2, <1>3, <1>6, <2>6, <2>7 DEF Between, Sound, Kept
  <2>9. HasDevice(f) /\ Final(f)
    BY <1>4, <2>7 DEF HasDevice, Final
  <2>10. Same(c, f)
    <3>1. ASSUME NEW n \in Nat, Mine(c, n) PROVE Mine(f, n)
      <4>1. CASE OneUser(c.PendingStateEvents, n)
        BY <3>1, <4>1, <1>6, <2>4, <2>6, <2>7 DEF Mine
      <4>2. CASE NoUser(c.PendingStateEvents)
        BY <3>1, <4>2, <1>6, <2>4, <2>6, <2>7 DEF Mine
      <4> QED  BY <3>1, <4>1, <4>2 DEF Mine
    <3>2. Nobodys(c) => Nobodys(f)
      BY <2>4, <2>6, <2>7 DEF Nobodys
    <3> QED  BY <3>1, <3>2 DEF Same
  <2>11. Well(f, d)
    BY <2>1, <2>5, <2>6, <2>7, <2>8, <2>9, EventProcessWell
  <2>12. Fine(d) /\ Same(f, d)
    BY <2>9, <2>11, WellFine
  <2> QED  BY <2>10, <2>12, <1>4, SameTwice
<1> QED  BY <1>5, <1>6

(* The sequence goes on, for nothing else carries it on any more. *)
LEMMA ResumeFine ==
  ASSUME NEW b, Fine(b), ~b.crashed, b.messages # <<>>, Head(b.messages).kind = "resume",
         NEW d \in SequenceResume(Taken(b), Head(b.messages).status)
  PROVE  Fine(d) /\ Same(b, d)
<1> DEFINE c == Taken(b)
           status == Head(b.messages).status
<1>1. b \in CxType /\ Sound(b) /\ HasDevice(b) /\ Final(b) /\ b.messages \in Seq(Message)
  BY DEF Fine, CxType
<1>2. /\ c \in CxType /\ Kept(b, c) /\ c.messages = Tail(b.messages)
      /\ c.CurrentSequence = b.CurrentSequence /\ c.awaited = b.awaited
      /\ c.IsDeactivatePending = b.IsDeactivatePending
  BY <1>1, TakenIs
<1>3. /\ ~NoResume(b.messages)
      /\ OneResume(b.messages) => NoResume(c.messages)
      /\ Head(b.messages) \in Message
  BY <1>1, <1>2, TakeMessage
<1>4. Same(b, c) /\ HasDevice(c) /\ Final(c)
  BY <1>1, <1>2 DEF Kept, Same, Mine, Nobodys, HasDevice, Final
<1>5. status \in Ended
  BY <1>3 DEF Message
<1>d. d \in SequenceResume(c, status)
  OBVIOUS
<1> HIDE DEF c, status
<1>6. b.CurrentSequence # NoSequence /\ Carried(b) /\ b.awaited = None /\ OneResume(b.messages)
  BY <1>1, <1>3 DEF Sound, Carried
<1>7. ~b.IsDeactivatePending
  <2>1. None # "LlcpDeactivate"
    BY DEF None
  <2> QED  BY <1>6, <2>1 DEF Carried
<1>8. Ending(c)
  BY <1>1, <1>2, <1>3, <1>6, <1>7 DEF Ending, Sound, Carried, Kept
<1>9. Well(c, d)
  BY <1>4, <1>5, <1>8, <1>d, SequenceResumeWell
<1> QED  BY <1>4, <1>9, WellFine, SameTwice

-----------------------------------------------------------------------------
(* The answer to a step *)

(* A callback leaves the event alone and its sequence within its steps. *)
Back(c, d) ==
  /\ d \in CxType
  /\ d.state = c.state /\ d.TransitionState = c.TransitionState /\ d.request = c.request
  /\ d.PendingStateEvents = c.PendingStateEvents /\ d.Status = c.Status
  /\ d.hNotifyComplete = c.hNotifyComplete /\ d.list = c.list /\ d.crashed = c.crashed
  /\ d.messages = c.messages /\ (d.IsDeactivatePending => c.IsDeactivatePending)
  /\ InSequence(d.CurrentSequence)
  /\ d.CurrentSequence.done = c.CurrentSequence.done
  /\ d.CurrentSequence.user = c.CurrentSequence.user

LEMMA AsideBack ==
  ASSUME NEW c, InSequence(c.CurrentSequence), NEW d, Aside(c, d), d.list = c.list
  PROVE  Back(c, d)
  BY DEF Aside, Back

(* Each callback of a step, in turn *)
LEMMA MovedBack ==
  ASSUME NEW c \in CxType, InSequence(c.CurrentSequence),
         NEW n \in 1 .. Len(c.CurrentSequence.steps) + 1
  PROVE  Back(c, Moved(c, n))
<1> DEFINE d == Moved(c, n)
<1>1. n \in Int /\ Len(c.CurrentSequence.steps) \in Nat
  BY DEF InSequence, Leads
<1>2. /\ d \in CxType /\ Kept(c, d) /\ d.messages = c.messages
      /\ d.awaited = c.awaited /\ d.IsDeactivatePending = c.IsDeactivatePending
      /\ d.CurrentSequence.steps = c.CurrentSequence.steps
      /\ d.CurrentSequence.done = c.CurrentSequence.done
      /\ d.CurrentSequence.user = c.CurrentSequence.user
      /\ d.CurrentSequence.next = n
  BY <1>1, MovedIs
<1> HIDE DEF d
<1>3. InSequence(d.CurrentSequence)
  BY <1>2 DEF InSequence
<1> QED  BY <1>2, <1>3 DEF Back, Kept, d

LEMMA DeinitializeBack ==
  ASSUME NEW c \in CxType, InSequence(c.CurrentSequence)
  PROVE  Back(c, DeinitializeCB(c))
<1> DEFINE d == DeinitializeCB(c)
<1>1. 0 \in 0 .. SecureElements /\ "away" \in PeerStates
  BY RfAssumption DEF PeerStates
<1>2. d \in CxType
  BY <1>1 DEF CxType, DeinitializeCB
<1>3. /\ d.state = c.state /\ d.TransitionState = c.TransitionState /\ d.request = c.request
      /\ d.PendingStateEvents = c.PendingStateEvents /\ d.Status = c.Status
      /\ d.hNotifyComplete = c.hNotifyComplete /\ d.list = c.list /\ d.crashed = c.crashed
  BY DEF CxType, DeinitializeCB
<1>4. /\ d.messages = c.messages /\ d.IsDeactivatePending = c.IsDeactivatePending
      /\ d.CurrentSequence = c.CurrentSequence
  BY DEF CxType, DeinitializeCB
<1> QED  BY <1>2, <1>3, <1>4 DEF Back

Counted(c, n) == [c EXCEPT !.switchedOn = n]

LEMMA CountedIs ==
  ASSUME NEW c \in CxType, NEW n \in 0 .. SecureElements
  PROVE  LET d == Counted(c, n)
         IN /\ d \in CxType
            /\ d.state = c.state /\ d.TransitionState = c.TransitionState /\ d.request = c.request
            /\ d.PendingStateEvents = c.PendingStateEvents /\ d.Status = c.Status
            /\ d.hNotifyComplete = c.hNotifyComplete /\ d.list = c.list /\ d.crashed = c.crashed
            /\ d.messages = c.messages /\ d.IsDeactivatePending = c.IsDeactivatePending
            /\ d.CurrentSequence = c.CurrentSequence
<1> DEFINE d == Counted(c, n)
<1>1. d \in CxType
  BY DEF CxType, Counted
<1>2. /\ d.state = c.state /\ d.TransitionState = c.TransitionState /\ d.request = c.request
      /\ d.PendingStateEvents = c.PendingStateEvents /\ d.Status = c.Status
      /\ d.hNotifyComplete = c.hNotifyComplete /\ d.list = c.list /\ d.crashed = c.crashed
  BY DEF CxType, Counted
<1>3. /\ d.messages = c.messages /\ d.IsDeactivatePending = c.IsDeactivatePending
      /\ d.CurrentSequence = c.CurrentSequence
  BY DEF CxType, Counted
<1> QED  BY <1>1, <1>2, <1>3

LEMMA CountedBack ==
  ASSUME NEW c \in CxType, InSequence(c.CurrentSequence), NEW n \in 0 .. SecureElements
  PROVE  Back(c, Counted(c, n))
  BY CountedIs DEF Back

(* The four callbacks that only note what LibNfc reports *)
LEMMA NotingBack ==
  ASSUME NEW c \in CxType, InSequence(c.CurrentSequence), NEW status
  PROVE  /\ Back(c, RemoteDevConnectCB(c, status)) /\ Back(c, RemoteDevDisconnectCB(c))
         /\ Back(c, RfDiscoveryConfigCB(c, status)) /\ Back(c, RfDiscoveryStopCB(c))
         /\ Back(c, TagConnectionEstablished(c))
<1>1. ASSUME NEW v \in BOOLEAN
      PROVE  LET d == [c EXCEPT !.bIsTagPresent = v]
             IN Aside(c, d) /\ d.list = c.list
  BY DEF CxType, Aside
<1>2. ASSUME NEW v \in BOOLEAN, NEW w \in BOOLEAN
      PROVE  LET d == [c EXCEPT !.listening = v, !.reader = w]
             IN Aside(c, d) /\ d.list = c.list
  BY DEF CxType, Aside
<1>3. ASSUME NEW v \in BOOLEAN
      PROVE  LET d == [c EXCEPT !.listening = v]
             IN Aside(c, d) /\ d.list = c.list
  BY DEF CxType, Aside
<1>4. LET d == [c EXCEPT !.bIsTagConnected = TRUE]
      IN Aside(c, d) /\ d.list = c.list
  BY DEF CxType, Aside
<1>5. Aside(c, c)
  BY ListAside
<1>6. /\ Aside(c, TagConnectionEstablished(c)) /\ TagConnectionEstablished(c).list = c.list
  BY <1>4, <1>5 DEF TagConnectionEstablished
<1>7. /\ Aside(c, RemoteDevConnectCB(c, status)) /\ RemoteDevConnectCB(c, status).list = c.list
  <2> DEFINE v == c.bIsTagPresent \/ (status = "ok" /\ c.list \in {"Tag", "Kovio"})
  <2>1. v \in BOOLEAN
    BY DEF CxType
  <2>2. RemoteDevConnectCB(c, status) = [c EXCEPT !.bIsTagPresent = v]
    BY DEF RemoteDevConnectCB
  <2> HIDE DEF v
  <2> QED  BY <2>1, <2>2, <1>1
<1>8. /\ Aside(c, RfDiscoveryConfigCB(c, status)) /\ RfDiscoveryConfigCB(c, status).list = c.list
  <2> DEFINE v == status = "ok"
  <2>1. v \in BOOLEAN
    OBVIOUS
  <2>2. RfDiscoveryConfigCB(c, status) = [c EXCEPT !.listening = v]
    BY DEF RfDiscoveryConfigCB
  <2> HIDE DEF v
  <2> QED  BY <2>1, <2>2, <1>3
<1>9. /\ Aside(c, RemoteDevDisconnectCB(c)) /\ RemoteDevDisconnectCB(c).list = c.list
  BY <1>3 DEF RemoteDevDisconnectCB
<1>10. /\ Aside(c, RfDiscoveryStopCB(c)) /\ RfDiscoveryStopCB(c).list = c.list
  BY <1>2 DEF RfDiscoveryStopCB
<1> QED  BY <1>6, <1>7, <1>8, <1>9, <1>10, AsideBack

LEMMA BackTwice ==
  ASSUME NEW c, NEW d, NEW e, Back(c, d), Back(d, e)
  PROVE  Back(c, e)
  BY DEF Back

(* The read that is skipped is the second step of its sequence. *)
LEMMA CheckNdefBack ==
  ASSUME NEW c \in CxType, InSequence(c.CurrentSequence), Awaiting(c),
         c.awaited = "TagCheckNdef", c.CurrentSequence.done = "TagReadNdef",
         NEW status, NEW skip \in BOOLEAN
  PROVE  Back(c, TagCheckNdefCB(c, status, skip))
<1> DEFINE e == IF status = "lost" THEN c ELSE TagConnectionEstablished(c)
           n == e.CurrentSequence.next + (IF status = "ok" /\ skip THEN 1 ELSE 0)
<1>1. Back(c, e) /\ e.CurrentSequence = c.CurrentSequence
  <2>1. Back(c, c)
    BY DEF Back
  <2>2. TagConnectionEstablished(c).CurrentSequence = c.CurrentSequence
    BY DEF TagConnectionEstablished, CxType
  <2> QED  BY <2>1, <2>2, NotingBack
<1>2. TagCheckNdefCB(c, status, skip) = Moved(e, n)
  BY DEF TagCheckNdefCB, Moved
<1> DEFINE q == c.CurrentSequence
<1>3. q.steps = <<"TagCheckNdef", "TagReadNdef">> /\ q.next \in 1 .. 3 /\ Len(q.steps) = 2
  <2>1. q.steps = TAG_READ_NDEF_SEQUENCE /\ q.next \in 1 .. Len(q.steps) + 1
    BY DEF InSequence
  <2>2. Len(q.steps) = 2
    BY <2>1, StepLists
  <2> QED  BY <2>1, <2>2 DEF TAG_READ_NDEF_SEQUENCE
<1>4. q.next >= 2 /\ q.steps[q.next - 1] = "TagCheckNdef"
  BY DEF Awaiting, None
<1>5. q.next = 2
  <2>1. q.next # 3
    <3>1. q.next = 3 => q.steps[2] = "TagCheckNdef" /\ q.steps[2] = "TagReadNdef"
      BY <1>3, <1>4
    <3> QED  BY <3>1
  <2>2. q.next \in 1 .. 3 /\ q.next >= 2
    BY <1>3, <1>4
  <2>3. \A k \in 1 .. 3 : k >= 2 /\ k # 3 => k = 2
    OBVIOUS
  <2> QED  BY <2>1, <2>2, <2>3
<1>e. e.CurrentSequence.next = 2 /\ Len(e.CurrentSequence.steps) = 2
  BY <1>1, <1>3, <1>5
<1> HIDE DEF e
<1>6. n \in 1 .. Len(e.CurrentSequence.steps) + 1
  <2>1. n \in {2, 3}
    BY <1>e
  <2> QED  BY <1>e, <2>1
<1> HIDE DEF n
<1>7. Back(e, Moved(e, n))
  BY <1>1, <1>6, MovedBack DEF Back
<1> QED  BY <1>1, <1>2, <1>7, BackTwice

LEMMA DisableBack ==
  ASSUME NEW c \in CxType, InSequence(c.CurrentSequence), Awaiting(c),
         c.awaited = "DisableSecureElements", NEW status
  PROVE  Back(c, DisableSecureElementsCB(c, status))
<1> DEFINE e == Counted(c, c.switchedOn - 1)
           n == c.CurrentSequence.next - 1
<1>1. c.switchedOn >= 1 /\ c.CurrentSequence.next >= 2
  BY DEF Awaiting, None
<1>2. c.switchedOn - 1 \in 0 .. SecureElements
  <2>1. c.switchedOn \in 0 .. SecureElements
    BY DEF CxType
  <2> QED  BY <1>1, <2>1, RfAssumption
<1>3. n \in 1 .. Len(c.CurrentSequence.steps) + 1
  <2>1. c.CurrentSequence.next \in 1 .. Len(c.CurrentSequence.steps) + 1
        /\ Len(c.CurrentSequence.steps) \in Nat
    BY DEF InSequence, Leads
  <2> QED  BY <1>1, <2>1
<1>4. Back(c, e) /\ e.CurrentSequence = c.CurrentSequence /\ e \in CxType
  BY <1>2, CountedBack, CountedIs
<1>5. [c EXCEPT !.switchedOn = @ - 1, !.CurrentSequence.next = @ - 1] = Moved(e, n)
  BY DEF Moved, Counted, CxType
<1> HIDE DEF e, n
<1>6. Back(e, Moved(e, n))
  BY <1>3, <1>4, MovedBack DEF Back
<1>7. Back(c, Moved(e, n))
  BY <1>4, <1>6, BackTwice
<1>8. Back(c, c)
  BY DEF Back
<1> QED  BY <1>5, <1>7, <1>8 DEF DisableSecureElementsCB

LEMMA CallbackBack ==
  ASSUME NEW c \in CxType, InSequence(c.CurrentSequence), Awaiting(c), NEW status,
         NEW skip \in BOOLEAN
  PROVE  Back(c, Callback(c, status, skip))
<1>0. Back(c, c)
  BY DEF Back
<1>1. Back(c, SEEnumerateCB(c, status))
  <2> DEFINE n == IF status = "ok" THEN SecureElements ELSE c.switchedOn
  <2>1. n \in 0 .. SecureElements
    BY RfAssumption DEF CxType
  <2>2. SEEnumerateCB(c, status) = Counted(c, n)
    BY DEF SEEnumerateCB, Counted
  <2> HIDE DEF n
  <2> QED  BY <2>1, <2>2, CountedBack
<1>2. CASE c.awaited = "Deinitialize"
  BY <1>2, DeinitializeBack DEF Callback
<1>3. CASE c.awaited = "RemoteDevConnect"
  BY <1>3, NotingBack DEF Callback
<1>4. CASE c.awaited = "RemoteDevDisconnect"
  BY <1>4, NotingBack DEF Callback
<1>5. CASE c.awaited = "RfDiscoveryConfig"
  BY <1>5, NotingBack DEF Callback
<1>6. CASE c.awaited = "RfDiscoveryStop"
  BY <1>6, NotingBack DEF Callback
<1>7. CASE c.awaited = "TagCheckNdef" /\ c.CurrentSequence.done = "TagReadNdef"
  BY <1>7, CheckNdefBack DEF Callback
<1>8. CASE c.awaited = "SEEnumerate"
  BY <1>8, <1>1 DEF Callback
<1>9. CASE c.awaited = "DisableSecureElements"
  BY <1>9, DisableBack DEF Callback
<1>10. CASE /\ c.awaited \notin {"Deinitialize", "RemoteDevConnect", "RemoteDevDisconnect",
                                 "RfDiscoveryConfig", "RfDiscoveryStop", "SEEnumerate",
                                 "DisableSecureElements"}
            /\ ~(c.awaited = "TagCheckNdef" /\ c.CurrentSequence.done = "TagReadNdef")
  BY <1>0, <1>10 DEF Callback
<1> QED  BY <1>2, <1>3, <1>4, <1>5, <1>6, <1>7, <1>8, <1>9, <1>10

Heard(c, n) == [c EXCEPT !.awaited = None, !.watchdog = FALSE, !.failures = n]

LEMMA HeardIs ==
  ASSUME NEW c \in CxType, NEW n \in Nat
  PROVE  LET d == Heard(c, n)
         IN /\ d \in CxType /\ Kept(c, d) /\ d.messages = c.messages
            /\ d.CurrentSequence = c.CurrentSequence /\ d.awaited = None
            /\ d.IsDeactivatePending = c.IsDeactivatePending
<1> DEFINE d == Heard(c, n)
<1>1. None \in AwaitedType
  BY DEF AwaitedType
<1>2. d \in CxType
  BY <1>1 DEF CxType, Heard
<1>3. Kept(c, d) /\ d.messages = c.messages
  BY DEF CxType, Kept, Heard
<1>4. /\ d.CurrentSequence = c.CurrentSequence /\ d.awaited = None
      /\ d.IsDeactivatePending = c.IsDeactivatePending
  BY DEF CxType, Heard
<1> QED  BY <1>2, <1>3, <1>4

(* A sequence that is answered and told so goes on. *)
LEMMA ResumedFine ==
  ASSUME NEW b, Fine(b), ~b.crashed, b.awaited # None,
         NEW c, Back(b, c), c.awaited = None, ~c.IsDeactivatePending, NEW status \in Ended
  PROVE  Fine(DispatchResume(c, status)) /\ Same(b, DispatchResume(c, status))
<1> DEFINE d == DispatchResume(c, status)
<1>1. b \in CxType /\ Sound(b) /\ HasDevice(b) /\ Final(b) /\ c \in CxType
  BY DEF Fine, Back
<1>2. /\ d \in CxType /\ Kept(c, d)
      /\ d.CurrentSequence = c.CurrentSequence /\ d.awaited = c.awaited
      /\ d.IsDeactivatePending = c.IsDeactivatePending
      /\ NoResume(c.messages) => OneResume(d.messages)
      /\ HasNext(c.messages) => HasNext(d.messages)
  BY <1>1, DispatchResumeIs
<1> HIDE DEF d
<1>3. b.CurrentSequence # NoSequence /\ NoResume(b.messages)
  BY <1>1 DEF Sound, Carried
<1>4. c.CurrentSequence # NoSequence
  BY SequenceDiffers DEF Back
<1>5. Carried(d)
  <2>1. InSequence(d.CurrentSequence) /\ Awaiting(d)
    BY <1>2 DEF Back, Awaiting
  <2>2. OneResume(d.messages)
    BY <1>2, <1>3 DEF Back
  <2> QED  BY <1>2, <2>1, <2>2 DEF Carried
<1>6. Sound(d)
  <2>1. d.CurrentSequence # NoSequence /\ d.TransitionState # "Idle" /\ ~d.crashed
    BY <1>1, <1>2, <1>3, <1>4 DEF Sound, Back, Kept
  <2>2. /\ d.CurrentSequence.done \in Answering \/ d.CurrentSequence.user =>
             d.TransitionState = "UserEventRunning"
        /\ d.CurrentSequence.done \in Clearing => d.state \notin Active
    BY <1>1, <1>2, <1>3 DEF Sound, Back, Kept
  <2> QED  BY <1>5, <2>1, <2>2 DEF Sound
<1>7. HasDevice(d) /\ Final(d)
  BY <1>1, <1>2 DEF HasDevice, Final, Back, Kept
<1>8. Same(b, d)
  BY <1>2 DEF Same, Mine, Nobodys, Back, Kept
<1> QED  BY <1>2, <1>6, <1>7, <1>8 DEF Fine, d

LEMMA AnsweredFine ==
  ASSUME NEW b, Fine(b), ~b.crashed, b.awaited \notin {None, "LlcpDeactivate"},
         NEW status \in Answers(b), NEW skip \in BOOLEAN, NEW n \in Nat
  PROVE  LET d == DispatchResume(Heard(Callback(b, status, skip), n), status)
         IN Fine(d) /\ Same(b, d)
<1> DEFINE e == Callback(b, status, skip)
           c == Heard(e, n)
<1>1. b \in CxType /\ Sound(b)
  BY DEF Fine
<1>2. b.CurrentSequence # NoSequence /\ Carried(b)
  BY <1>1 DEF Sound
<1>3. InSequence(b.CurrentSequence) /\ Awaiting(b) /\ ~b.IsDeactivatePending
  BY <1>2 DEF Carried
<1>4. Back(b, e)
  BY <1>1, <1>3, CallbackBack
<1> HIDE DEF e
<1>5. /\ c \in CxType /\ Kept(e, c) /\ c.messages = e.messages
      /\ c.CurrentSequence = e.CurrentSequence /\ c.awaited = None
      /\ c.IsDeactivatePending = e.IsDeactivatePending
  BY <1>4, HeardIs DEF Back
<1> HIDE DEF c
<1>6. Back(b, c) /\ ~c.IsDeactivatePending
  BY <1>3, <1>4, <1>5 DEF Back, Kept
<1>7. status \in Ended
  BY DEF Answers, Links, Fails, Ended
<1>8. Fine(DispatchResume(c, status)) /\ Same(b, DispatchResume(c, status))
  BY <1>5, <1>6, <1>7, ResumedFine
<1> QED  BY <1>8 DEF c, e

-----------------------------------------------------------------------------
(* The inductive invariant *)

CallerType == [op : CallerOps, stage : Nat, prev : BOOLEAN, result : Ended]
PresenceType == {"off", "waiting", "sleeping", "asking", "checking"}

Typed ==
  /\ RFPowerState \in BOOLEAN /\ powered \in BOOLEAN
  /\ asleep \in BOOLEAN /\ expired \in BOOLEAN
  /\ presence \in PresenceType
  /\ executions \in Nat /\ devices \in Nat
  /\ caller \in CallerType
  /\ caller # NoCaller =>
       caller.op \in Asking /\ caller.stage \in 1 .. Len(GetEventType(caller.op))

Owned ==
  expired \/ IF caller = NoCaller THEN Nobodys(cx)
             ELSE executions >= 1 /\ Mine(cx, executions)

RfInv == Fine(cx) /\ Typed /\ Owned

(* PostInitialize comes after two steps at least, so that three steps back there *)
(* is a step.                                                                    *)
LEMMA RedoFine ==
  ASSUME NEW b, Fine(b), ~b.crashed, b.awaited = "PostInitialize", NEW n \in Nat
  PROVE  LET d == Moved([b EXCEPT !.awaited = "Deinitialize", !.watchdog = FALSE, !.failures = n],
                        b.CurrentSequence.next - 3)
         IN Fine(d) /\ Same(b, d)
<1> DEFINE c == [b EXCEPT !.awaited = "Deinitialize", !.watchdog = FALSE, !.failures = n]
           q == b.CurrentSequence
           d == Moved(c, q.next - 3)
<1>1. b \in CxType /\ Sound(b) /\ HasDevice(b) /\ Final(b)
  BY DEF Fine
<1>2. b.CurrentSequence # NoSequence /\ Carried(b)
  BY <1>1 DEF Sound, None
<1>3. InSequence(q) /\ Awaiting(b) /\ NoResume(b.messages) /\ ~b.IsDeactivatePending
  BY <1>2 DEF Carried, None
<1>4. q.next - 3 \in 1 .. Len(q.steps) + 1
  <2>1. q.next >= 2 /\ q.steps[q.next - 1] = "PostInitialize"
    BY <1>3 DEF Awaiting, None
  <2>2. q.next \in 1 .. Len(q.steps) + 1 /\ Len(q.steps) \in Nat /\ DOMAIN q.steps = 1 .. Len(q.steps)
    BY <1>3 DEF InSequence, Leads
  <2>3. \A i \in {1, 2} : i \in DOMAIN q.steps => q.steps[i] # "PostInitialize"
    BY <1>3 DEF InSequence, Leads
  <2>4. q.next - 1 \in 1 .. Len(q.steps)
    BY <2>1, <2>2
  <2>5. q.next - 1 \notin {1, 2}
    BY <2>1, <2>2, <2>3, <2>4
  <2> QED  BY <2>2, <2>4, <2>5
<1>5. "Deinitialize" \in AwaitedType
  BY DEF AwaitedType, StepName
<1>6. c \in CxType
  BY <1>1, <1>5 DEF CxType
<1>7. /\ Kept(b, c) /\ c.messages = b.messages /\ c.CurrentSequence = b.CurrentSequence
      /\ c.awaited = "Deinitialize" /\ c.IsDeactivatePending = b.IsDeactivatePending
  BY <1>1 DEF CxType, Kept
<1> HIDE DEF c
<1>8. q.next - 3 \in Int
  BY <1>1 DEF CxType, SequenceType
<1>9. /\ d \in CxType /\ Kept(c, d) /\ d.messages = c.messages
      /\ d.awaited = c.awaited /\ d.IsDeactivatePending = c.IsDeactivatePending
      /\ d.CurrentSequence.steps = c.CurrentSequence.steps
      /\ d.CurrentSequence.done = c.CurrentSequence.done
      /\ d.CurrentSequence.user = c.CurrentSequence.user
      /\ d.CurrentSequence.next = q.next - 3
  BY <1>6, <1>8, MovedIs
<1> HIDE DEF d
<1>10. InSequence(d.CurrentSequence)
  BY <1>3, <1>4, <1>7, <1>9 DEF InSequence
<1>11. Carried(d)
  BY <1>3, <1>7, <1>9, <1>10 DEF Carried, Awaiting, None
<1>12. Sound(d)
  <2>1. d.CurrentSequence # NoSequence
    BY <1>10, SequenceDiffers
  <2> QED  BY <1>1, <1>2, <1>7, <1>9, <1>11, <2>1 DEF Sound, Kept
<1>13. HasDevice(d) /\ Final(d)
  BY <1>1, <1>7, <1>9 DEF HasDevice, Final, Kept
<1>14. Same(b, d)
  BY <1>7, <1>9 DEF Same, Mine, Nobodys, Kept
<1> QED  BY <1>9, <1>12, <1>13, <1>14 DEF Fine, c, d

(* A report of the controller changes what surrounds the event, and queues *)
(* an internal one.                                                        *)
LEMMA ReportFine ==
  ASSUME NEW b, Fine(b), NEW c, Aside(b, c), c.list = b.list \/ c.list # None,
         NEW event \in Reports
  PROVE  /\ Fine(c) /\ Same(b, c)
         /\ Fine(QueueEvent(c, event, None, 0)) /\ Same(b, QueueEvent(c, event, None, 0))
<1>1. Fine(c) /\ Same(b, c)
  BY AsideFine
<1>2. Fine(QueueEvent(c, event, None, 0)) /\ Same(c, QueueEvent(c, event, None, 0))
  BY <1>1, QueueInternal
<1> QED  BY <1>1, <1>2, SameTwice

Found(c, dev) ==
  [SetRemoteDevList(c, dev) EXCEPT !.listening = FALSE, !.reader = (dev = "PCD")]

(* The reports of the controller, in turn *)
LEMMA FoundFine ==
  ASSUME NEW b, Fine(b), NEW dev \in Devices
  PROVE  LET d == QueueEvent(Found(b, dev), "Discovered", None, 0)
         IN Fine(d) /\ Same(b, d)
<1> DEFINE card == dev = "PCD"
           c == Found(b, dev)
           e == [b EXCEPT !.list = dev, !.bIsHCEConnected = card, !.listening = FALSE,
                          !.reader = card]
<1>1. b \in CxType
  BY DEF Fine
<1>2. dev \in ListType /\ dev # None /\ card \in BOOLEAN
  BY RfAssumption DEF ListType, None
<1>3. c = e
  BY <1>1 DEF Found, SetRemoteDevList, CxType
<1> HIDE DEF card, c
<1>4. e \in CxType /\ e.list = dev
  BY <1>1, <1>2, ZenonT(60) DEF CxType
<1>5. Aside(b, e)
  BY <1>1, <1>4 DEF CxType, Aside
<1>6. "Discovered" \in Reports
  BY DEF Reports
<1> QED  BY <1>2, <1>3, <1>4, <1>5, <1>6, ReportFine DEF c

LEMMA EmulationFine ==
  ASSUME NEW b, Fine(b)
  PROVE  LET d == QueueEvent([b EXCEPT !.bIsHCEActivated = TRUE], "Activated", None, 0)
         IN Fine(d) /\ Same(b, d)
<1> DEFINE c == [b EXCEPT !.bIsHCEActivated = TRUE]
<1>1. b \in CxType
  BY DEF Fine
<1>2. Aside(b, c) /\ c.list = b.list
  BY <1>1 DEF CxType, Aside
<1>3. "Activated" \in Reports
  BY DEF Reports
<1> HIDE DEF c
<1> QED  BY <1>2, <1>3, ReportFine DEF c

LEMMA ReaderLeftFine ==
  ASSUME NEW b, Fine(b)
  PROVE  LET c == [b EXCEPT !.reader = FALSE, !.listening = TRUE]
             d == QueueEvent(c, "Deactivated", None, 0)
         IN Fine(c) /\ Same(b, c) /\ Fine(d) /\ Same(b, d)
<1> DEFINE c == [b EXCEPT !.reader = FALSE, !.listening = TRUE]
<1>1. b \in CxType
  BY DEF Fine
<1>2. Aside(b, c) /\ c.list = b.list
  BY <1>1 DEF CxType, Aside
<1>3. "Deactivated" \in Reports
  BY DEF Reports
<1> HIDE DEF c
<1> QED  BY <1>2, <1>3, ReportFine DEF c

Linked(c, peer, link) == [c EXCEPT !.peer = peer, !.eLinkStatus = link]

LEMMA LinkedIs ==
  ASSUME NEW c \in CxType, NEW peer \in PeerStates, NEW link \in LinkStates
  PROVE  LET d == Linked(c, peer, link) IN Aside(c, d) /\ d.list = c.list
<1> DEFINE d == Linked(c, peer, link)
<1>1. d \in CxType
  BY DEF CxType, Linked
<1> QED  BY <1>1 DEF CxType, Aside, Linked

LEMMA LinkFine ==
  ASSUME NEW b, Fine(b), NEW peer \in PeerStates, NEW link \in LinkStates, NEW event \in Reports
  PROVE  LET d == QueueEvent(Linked(b, peer, link), event, None, 0)
         IN Fine(d) /\ Same(b, d)
<1>1. Aside(b, Linked(b, peer, link)) /\ Linked(b, peer, link).list = b.list
  BY LinkedIs DEF Fine
<1> QED  BY <1>1, ReportFine

(* The end of the link answers the deactivation that waits for it. *)
LEMMA LinkEndedFine ==
  ASSUME NEW b, Fine(b), ~b.crashed, b.IsDeactivatePending
  PROVE  LET c == [Linked(b, "away", "Deactivated") EXCEPT !.IsDeactivatePending = FALSE,
                                                           !.awaited = None]
             d == DispatchResume(c, "ok")
         IN b.awaited = "LlcpDeactivate" /\ Fine(d) /\ Same(b, d)
<1> DEFINE e == Linked(b, "away", "Deactivated")
           c == [e EXCEPT !.IsDeactivatePending = FALSE, !.awaited = None]
<1>1. b \in CxType /\ Sound(b)
  BY DEF Fine
<1>2. Carried(b) /\ b.awaited = "LlcpDeactivate" /\ InSequence(b.CurrentSequence)
  BY <1>1 DEF Sound, Carried
<1>3. "away" \in PeerStates /\ "Deactivated" \in LinkStates /\ None \in AwaitedType /\ "ok" \in Ended
  BY DEF PeerStates, LinkStates, AwaitedType, Ended
<1>4. Aside(b, e) /\ e.list = b.list
  BY <1>1, <1>3, LinkedIs
<1> HIDE DEF e
<1>5. e \in CxType
  BY <1>4 DEF Aside
<1>6. c \in CxType
  BY <1>3, <1>5 DEF CxType
<1>7. Kept(e, c) /\ c.messages = e.messages
  BY <1>5 DEF CxType, Kept
<1>8. c.CurrentSequence = e.CurrentSequence /\ c.awaited = None /\ ~c.IsDeactivatePending
  BY <1>5 DEF CxType
<1> HIDE DEF c
<1>9. Back(b, c)
  BY <1>2, <1>4, <1>6, <1>7, <1>8 DEF Back, Aside, Kept
<1>10. b.awaited # None
  BY <1>2 DEF None
<1> QED  BY <1>2, <1>3, <1>8, <1>9, <1>10, ResumedFine DEF c, e

(* What a caller does to the presence check lies aside. *)
LEMMA PausingFine ==
  ASSUME NEW b, Fine(b), NEW v \in BOOLEAN
  PROVE  LET c == [b EXCEPT !.hStartPresenceCheck = v] IN Fine(c) /\ Same(b, c)
<1> DEFINE c == [b EXCEPT !.hStartPresenceCheck = v]
<1>1. b \in CxType
  BY DEF Fine
<1>2. Aside(b, c) /\ c.list = b.list
  BY <1>1 DEF CxType, Aside
<1> HIDE DEF c
<1> QED  BY <1>2, AsideFine DEF c

LEMMA DoneFine ==
  ASSUME NEW b, Fine(b), NEW op, NEW result
  PROVE  Fine(Done(b, op, result)) /\ Same(b, Done(b, op, result))
<1> DEFINE v == b.hStartPresenceCheck \/ Resuming(op, result)
           w == b.EnableSEDiscovery \/ (op = "Enumerate" /\ result = "ok")
           c == [b EXCEPT !.hStartPresenceCheck = v, !.EnableSEDiscovery = w]
<1>1. b \in CxType
  BY DEF Fine
<1>2. v \in BOOLEAN /\ w \in BOOLEAN
  BY <1>1 DEF CxType, Resuming
<1>3. Done(b, op, result) = c
  BY DEF Done
<1> HIDE DEF v, w
<1>4. Aside(b, c) /\ c.list = b.list
  BY <1>1, <1>2 DEF CxType, Aside
<1> HIDE DEF c
<1> QED  BY <1>3, <1>4, AsideFine

(* A caller that is not over holds the lock, for its own execution. *)
LEMMA StartsOwned ==
  ASSUME RfInv, caller = NoCaller, NEW op \in Asking, NEW c, Fine(c), Same(cx, c),
         cx' = Execute(c, op, 1), executions' = executions + 1,
         caller'.op = op, caller'.stage = 1, caller' \in CallerType, expired' = expired
  PROVE  /\ Fine(cx)' /\ Owned'
         /\ executions' \in Nat /\ caller'.stage \in 1 .. Len(GetEventType(caller'.op))
<1>1. executions \in Nat /\ (expired \/ Nobodys(cx))
  BY DEF RfInv, Typed, Owned
<1>2. 1 \in 1 .. Len(GetEventType(op))
  BY EventTypes
<1>3. /\ Fine(Execute(c, op, 1))
      /\ Nobodys(c) => Mine(Execute(c, op, 1), executions + 1)
  BY <1>1, <1>2, ExecuteFine
<1>4. caller' # NoCaller
  BY DEF NoCaller
<1>5. Fine(cx')
  BY <1>3
<1>6. expired' \/ Mine(cx', executions')
  BY <1>1, <1>3 DEF Same
<1>7. Fine(cx)'
  BY <1>5 DEF Fine, Sound, Carried, Awaiting, HasDevice, Final
<1>8. Owned'
  BY <1>1, <1>4, <1>6 DEF Owned
<1> QED  BY <1>1, <1>2, <1>7, <1>8

(* Steps of the machine leave the callers as they are. *)
LEMMA MachineStep ==
  ASSUME RfInv, Fine(cx'), Same(cx, cx'), Typed',
         UNCHANGED <<caller, executions, expired>>
  PROVE  RfInv'
<1>1. Owned'
  <2>1. executions \in Nat /\ Owned
    BY DEF RfInv, Typed
  <2>2. CASE expired
    BY <2>2 DEF Owned
  <2>3. CASE ~expired /\ caller = NoCaller
    <3>1. Nobodys(cx')
      BY <2>1, <2>3 DEF Owned, Same
    <3> QED  BY <3>1, <2>3 DEF Owned
  <2>4. CASE ~expired /\ caller # NoCaller
    <3>1. executions >= 1 /\ Mine(cx', executions)
      BY <2>1, <2>4 DEF Owned, Same
    <3> QED  BY <3>1, <2>4 DEF Owned
  <2> QED  BY <2>2, <2>3, <2>4
<1> QED  BY <1>1 DEF RfInv

(* Each step of the system, in turn *)
LEMMA HandlerStep ==
  ASSUME RfInv, LibNfcMessageHandler
  PROVE  RfInv'
<1> DEFINE m == Head(cx.messages)
           skipped == /\ m.kind = "next" /\ cx.PendingStateEvents # <<>>
                      /\ cx.TransitionState = "Idle"
                      /\ Head(cx.PendingStateEvents).op = "CheckPresence"
                      /\ cx.state = "RfDiscovered"
<1>1. Fine(cx) /\ ~cx.crashed /\ cx.messages # <<>>
  BY DEF RfInv, LibNfcMessageHandler
<1>2. m.kind \in {"next", "resume"}
  <2>1. cx.messages \in Seq(Message)
    BY <1>1 DEF Fine, CxType
  <2>2. m \in Message
    BY <1>1, <2>1, TakeMessage
  <2> QED  BY <2>2 DEF Message
<1>3. Fine(cx') /\ Same(cx, cx')
  <2>1. CASE m.kind = "resume"
    <3>1. cx' \in SequenceResume(Taken(cx), m.status)
      BY <2>1 DEF LibNfcMessageHandler, Taken
    <3> QED  BY <1>1, <2>1, <3>1, ResumeFine
  <2>2. CASE m.kind = "next"
    <3>1. cx' \in UNION {ProcessNextQueuedEvent(Taken(cx), same) : same \in BOOLEAN}
      BY <2>2 DEF LibNfcMessageHandler, Taken
    <3>2. PICK same \in BOOLEAN : cx' \in ProcessNextQueuedEvent(Taken(cx), same)
      BY <3>1
    <3> QED  BY <1>1, <2>2, <3>2, NextFine
  <2> QED  BY <1>2, <2>1, <2>2
<1>4. Typed'
  <2>1. asleep' = (asleep \/ skipped)
    BY DEF LibNfcMessageHandler
  <2>2. asleep' \in BOOLEAN
    BY <2>1 DEF RfInv, Typed
  <2>3. UNCHANGED <<RFPowerState, caller, presence, powered, executions, devices, expired>>
    BY DEF LibNfcMessageHandler
  <2> QED  BY <2>2, <2>3 DEF RfInv, Typed
<1>5. UNCHANGED <<caller, executions, expired>>
  BY DEF LibNfcMessageHandler
<1> QED  BY <1>3, <1>4, <1>5, MachineStep

LEMMA AnswerStep ==
  ASSUME RfInv, StepAnswered
  PROVE  RfInv'
<1>1. Fine(cx) /\ ~cx.crashed /\ cx.awaited \notin {None, "LlcpDeactivate"}
  BY DEF RfInv, StepAnswered
<1>2. PICK status \in Answers(cx) : \E skip \in BOOLEAN :
        cx' = DispatchResume([Callback(cx, status, skip) EXCEPT
                                !.awaited = None, !.watchdog = FALSE,
                                !.failures = @ + IF status = "ok" THEN 0 ELSE 1], status)
  BY DEF StepAnswered
<1>3. PICK skip \in BOOLEAN :
        cx' = DispatchResume([Callback(cx, status, skip) EXCEPT
                                !.awaited = None, !.watchdog = FALSE,
                                !.failures = @ + IF status = "ok" THEN 0 ELSE 1], status)
  BY <1>2
<1> DEFINE e == Callback(cx, status, skip)
           n == e.failures + (IF status = "ok" THEN 0 ELSE 1)
<1>4. e \in CxType
  <2>1. Carried(cx) /\ cx \in CxType
    BY <1>1 DEF Fine, Sound
  <2> QED  BY <2>1, CallbackBack DEF Carried, Back
<1>5. cx' = DispatchResume(Heard(e, n), status)
  BY <1>3 DEF Heard
<1> HIDE DEF e
<1>6. n \in Nat
  BY <1>4 DEF CxType
<1>7. Fine(cx') /\ Same(cx, cx')
  BY <1>1, <1>5, <1>6, AnsweredFine DEF e
<1>8. Typed' /\ UNCHANGED <<caller, executions, expired>>
  BY DEF StepAnswered, onlyCx, RfInv, Typed
<1> QED  BY <1>7, <1>8, MachineStep

LEMMA RedoStep ==
  ASSUME RfInv, InitializeRedo
  PROVE  RfInv'
<1>1. Fine(cx) /\ ~cx.crashed /\ cx.awaited = "PostInitialize" /\ cx \in CxType
  BY DEF RfInv, InitializeRedo, Fine
<1> DEFINE n == cx.failures + 1
<1>2. n \in Nat
  BY <1>1 DEF CxType
<1>3. cx' = Moved([cx EXCEPT !.awaited = "Deinitialize", !.watchdog = FALSE, !.failures = n],
                  cx.CurrentSequence.next - 3)
  <2>1. cx' = [cx EXCEPT !.awaited = "Deinitialize", !.watchdog = FALSE,
                         !.CurrentSequence.next = @ - 3, !.failures = @ + 1]
    BY DEF InitializeRedo
  <2> QED  BY <1>1, <2>1 DEF Moved, CxType
<1> HIDE DEF n
<1>4. Fine(cx') /\ Same(cx, cx')
  BY <1>1, <1>2, <1>3, RedoFine
<1>5. Typed' /\ UNCHANGED <<caller, executions, expired>>
  BY DEF InitializeRedo, onlyCx, RfInv, Typed
<1> QED  BY <1>4, <1>5, MachineStep

LEMMA FoundStep ==
  ASSUME RfInv, NEW dev \in Devices, RemoteDevNtfCB(dev)
  PROVE  RfInv'
<1>1. Fine(cx)
  BY DEF RfInv
<1>2. cx' = QueueEvent(Found(cx, dev), "Discovered", None, 0)
  BY DEF RemoteDevNtfCB, Found
<1>3. Fine(cx') /\ Same(cx, cx')
  BY <1>1, <1>2, FoundFine
<1>4. Typed' /\ UNCHANGED <<caller, executions, expired>>
  BY DEF RemoteDevNtfCB, onlyCx, RfInv, Typed
<1> QED  BY <1>3, <1>4, MachineStep

LEMMA ReportStep ==
  ASSUME RfInv,
         \/ HandleSEDeviceHostEvent \/ HandleSecureElementEvent
         \/ LinkActivated \/ LinkDeactivated
  PROVE  RfInv'
<1>1. Fine(cx) /\ cx \in CxType
  BY DEF RfInv, Fine
<1>2. CASE HandleSEDeviceHostEvent
  <2>1. Fine(cx') /\ Same(cx, cx')
    BY <1>1, <1>2, EmulationFine DEF HandleSEDeviceHostEvent
  <2>2. Typed' /\ UNCHANGED <<caller, executions, expired>>
    BY <1>2 DEF HandleSEDeviceHostEvent, onlyCx, RfInv, Typed
  <2> QED  BY <2>1, <2>2, MachineStep
<1>3. CASE HandleSecureElementEvent
  <2>1. Fine(cx') /\ Same(cx, cx')
    BY <1>1, <1>3, ReaderLeftFine DEF HandleSecureElementEvent
  <2>2. Typed' /\ UNCHANGED <<caller, executions, expired>>
    BY <1>3 DEF HandleSecureElementEvent, onlyCx, RfInv, Typed
  <2> QED  BY <2>1, <2>2, MachineStep
<1>p. /\ {"up", "away"} \subseteq PeerStates /\ {"Activated", "Deactivated"} \subseteq LinkStates
      /\ {"Activated", "Deactivated"} \subseteq Reports
  BY DEF PeerStates, LinkStates, Reports
<1>4. CASE LinkActivated
  <2>1. cx' = QueueEvent(Linked(cx, "up", "Activated"), "Activated", None, 0)
    BY <1>4 DEF LinkActivated, Linked
  <2>2. Fine(cx') /\ Same(cx, cx')
    BY <1>1, <1>p, <2>1, LinkFine
  <2>3. Typed' /\ UNCHANGED <<caller, executions, expired>>
    BY <1>4 DEF LinkActivated, onlyCx, RfInv, Typed
  <2> QED  BY <2>2, <2>3, MachineStep
<1>5. CASE LinkDeactivated
  <2> DEFINE d == Linked(cx, "away", "Deactivated")
  <2>1. /\ ~cx.crashed
        /\ cx' = IF cx.IsDeactivatePending
                 THEN DispatchResume([d EXCEPT !.IsDeactivatePending = FALSE,
                                               !.awaited = IF @ = "LlcpDeactivate" THEN None
                                                           ELSE @], "ok")
                 ELSE QueueEvent(d, "Deactivated", None, 0)
    BY <1>5 DEF LinkDeactivated, Linked
  <2>2. d.awaited = cx.awaited /\ d \in CxType
    BY <1>1, <1>p, LinkedIs DEF Aside
  <2>3. Fine(cx') /\ Same(cx, cx')
    <3>1. CASE cx.IsDeactivatePending
      <4>1. cx.awaited = "LlcpDeactivate"
        BY <1>1, <2>1, <3>1, LinkEndedFine
      <4> HIDE DEF d
      <4>2. cx' = DispatchResume([d EXCEPT !.IsDeactivatePending = FALSE, !.awaited = None], "ok")
        BY <2>1, <2>2, <3>1, <4>1
      <4> QED  BY <1>1, <2>1, <3>1, <4>2, LinkEndedFine DEF d
    <3>2. CASE ~cx.IsDeactivatePending
      BY <1>1, <1>p, <2>1, <3>2, LinkFine
    <3> QED  BY <3>1, <3>2
  <2>4. Typed' /\ UNCHANGED <<caller, executions, expired>>
    BY <1>5 DEF LinkDeactivated, onlyCx, RfInv, Typed
  <2> QED  BY <2>3, <2>4, MachineStep
<1> QED  BY <1>2, <1>3, <1>4, <1>5

LEMMA BeginStep ==
  ASSUME RfInv, NEW op \in Operations, Begin(op)
  PROVE  RfInv'
<1> DEFINE v == cx.hStartPresenceCheck /\ op \notin Pausing
           c == [cx EXCEPT !.hStartPresenceCheck = v]
<1>1. Fine(cx) /\ Typed /\ op \in Asking
  BY DEF RfInv, Asking
<1>2. v \in BOOLEAN
  BY <1>1 DEF Fine, CxType
<1>3. cx' = Execute(c, op, 1)
  BY DEF Begin
<1> HIDE DEF v
<1>4. Fine(c) /\ Same(cx, c)
  BY <1>1, <1>2, PausingFine
<1> HIDE DEF c
<1>5. caller = NoCaller /\ executions' = executions + 1 /\ expired' = expired
      /\ caller' = [op |-> op, stage |-> 1, prev |-> RFPowerState, result |-> "ok"]
  BY DEF Begin
<1>6. caller' \in CallerType /\ caller'.op = op /\ caller'.stage = 1
  <2>1. op \in CallerOps /\ RFPowerState \in BOOLEAN /\ "ok" \in Ended
    BY <1>1 DEF CallerOps, Typed, Ended
  <2> QED  BY <1>5, <2>1 DEF CallerType
<1>7. /\ Fine(cx)' /\ Owned'
      /\ executions' \in Nat /\ caller'.stage \in 1 .. Len(GetEventType(caller'.op))
  BY <1>1, <1>3, <1>4, <1>5, <1>6, StartsOwned
<1>8. Typed'
  <2>1. RFPowerState' \in BOOLEAN
    BY <1>1 DEF Begin, Typed
  <2>2. UNCHANGED <<presence, powered, devices, asleep, expired>>
    BY DEF Begin
  <2> QED  BY <1>1, <1>6, <1>7, <2>1, <2>2 DEF Typed
<1> QED  BY <1>7, <1>8 DEF RfInv

LEMMA CheckStep ==
  ASSUME RfInv, TargetCheckPresence
  PROVE  RfInv'
<1>1. Fine(cx) /\ Typed /\ "CheckPresence" \in Asking
  BY DEF RfInv, Asking
<1>2. caller = NoCaller /\ executions' = executions + 1 /\ expired' = expired
      /\ caller' = [NoCaller EXCEPT !.op = "CheckPresence", !.stage = 1]
      /\ cx' = Execute(cx, "CheckPresence", 1)
  BY DEF TargetCheckPresence
<1>3. caller' \in CallerType /\ caller'.op = "CheckPresence" /\ caller'.stage = 1
  <2>1. "CheckPresence" \in CallerOps /\ "ok" \in Ended
    BY DEF CallerOps, Ended
  <2> QED  BY <1>2, <2>1 DEF CallerType, NoCaller
<1>4. Same(cx, cx)
  BY DEF Same
<1>5. /\ Fine(cx)' /\ Owned'
      /\ executions' \in Nat /\ caller'.stage \in 1 .. Len(GetEventType(caller'.op))
  BY <1>1, <1>2, <1>3, <1>4, StartsOwned
<1>6. Typed'
  <2>1. presence' = "checking"
    BY DEF TargetCheckPresence, PresenceStep
  <2>2. UNCHANGED <<RFPowerState, powered, devices, asleep, expired>>
    BY DEF TargetCheckPresence
  <2> QED  BY <1>1, <1>3, <1>5, <2>1, <2>2 DEF Typed, PresenceType
<1> QED  BY <1>5, <1>6 DEF RfInv

(* A caller that wakes, or gives up, leaves or executes its next event; if *)
(* it has not given up, its event has been answered and nobody's is left.  *)
LEMMA ReturnStep ==
  ASSUME RfInv, caller # NoCaller, NEW status \in Ended, Return2Caller(status),
         UNCHANGED <<devices, asleep>>, expired' \in BOOLEAN,
         ~expired' => ~expired /\ Nobodys(cx)
  PROVE  RfInv'
<1> DEFINE op == caller.op
           result == Result(status)
           over == \/ caller.stage = Len(GetEventType(op))
                   \/ status # "ok" /\ caller.stage = 1 /\ GivesUp(op)
<1>1. Fine(cx) /\ Typed /\ executions \in Nat
  BY DEF RfInv, Typed
<1>2. /\ caller \in CallerType /\ op \in Asking /\ caller.stage \in 1 .. Len(GetEventType(op))
  BY <1>1 DEF Typed
<1>3. result \in Ended
  BY <1>2 DEF CallerType, Result
<1>4. CASE over
  <2>1. caller' = NoCaller /\ cx' = Done(cx, op, result) /\ executions' = executions
    BY <1>4 DEF Return2Caller
  <2>2. /\ RFPowerState' = CASE op = "Stop" -> FALSE
                             [] op = "UpdateDiscoveryState" /\ result # "ok" -> caller.prev
                             [] OTHER -> RFPowerState
        /\ powered' = CASE op = "Start" -> result = "ok"
                        [] op = "Stop" -> FALSE
                        [] OTHER -> powered
        /\ presence' = CASE op # "CheckPresence" -> presence
                         [] result = "ok" /\ cx.bIsTagPresent -> "waiting"
                         [] OTHER -> "off"
    BY <1>4 DEF Return2Caller
  <2> HIDE DEF op, result, over
  <2>3. Fine(cx') /\ Same(cx, cx')
    BY <1>1, <2>1, DoneFine
  <2>4. RFPowerState' \in BOOLEAN
    <3>1. RFPowerState \in BOOLEAN /\ caller.prev \in BOOLEAN
      BY <1>1, <1>2 DEF Typed, CallerType
    <3> QED  BY <2>2, <3>1
  <2>5. powered' \in BOOLEAN
    <3>1. powered \in BOOLEAN
      BY <1>1 DEF Typed
    <3> QED  BY <2>2, <3>1
  <2>6. presence' \in PresenceType
    <3>1. presence \in PresenceType /\ "waiting" \in PresenceType /\ "off" \in PresenceType
      BY <1>1 DEF Typed, PresenceType
    <3> QED  BY <2>2, <3>1
  <2>7. NoCaller \in CallerType
    BY DEF NoCaller, CallerType, CallerOps, Ended
  <2>8. Typed'
    BY <1>1, <2>1, <2>4, <2>5, <2>6, <2>7 DEF Typed
  <2>9. Owned'
    <3>1. expired' \/ Nobodys(cx')
      BY <2>3 DEF Same
    <3> QED  BY <2>1, <3>1 DEF Owned
  <2> QED  BY <2>3, <2>8, <2>9 DEF RfInv
<1>5. CASE ~over
  <2>1. /\ caller' = [caller EXCEPT !.stage = @ + 1, !.result = result]
        /\ cx' = Execute(cx, op, caller.stage + 1) /\ executions' = executions + 1
        /\ UNCHANGED <<RFPowerState, powered, presence>>
    BY <1>5 DEF Return2Caller
  <2>2. caller.stage # Len(GetEventType(op)) /\ Len(GetEventType(op)) \in Nat
    BY <1>2, <1>5, EventTypes
  <2> HIDE DEF result, over
  <2>3. caller.stage + 1 \in 1 .. Len(GetEventType(op)) /\ caller.stage + 1 \in Nat
    BY <1>2, <2>2 DEF CallerType
  <2>4. /\ caller' \in CallerType /\ caller'.op = op /\ caller'.stage = caller.stage + 1
    BY <1>2, <1>3, <2>1, <2>3 DEF CallerType
  <2>5. caller' # NoCaller
    <3>1. caller'.op # None
      BY <1>2, <2>4, RfAssumption DEF Asking, CallerOperations, None
    <3> QED  BY <3>1 DEF NoCaller
  <2> HIDE DEF op
  <2>6. /\ Fine(Execute(cx, op, caller.stage + 1))
        /\ Nobodys(cx) => Mine(Execute(cx, op, caller.stage + 1), executions + 1)
    BY <1>1, <1>2, <2>3, ExecuteFine
  <2>7. Fine(cx') /\ (expired' \/ Mine(cx', executions'))
    BY <2>1, <2>6
  <2>8. Owned'
    BY <1>1, <2>1, <2>5, <2>7 DEF Owned
  <2>9. Typed'
    BY <1>1, <1>2, <2>1, <2>3, <2>4 DEF Typed, op
  <2> QED  BY <2>7, <2>8, <2>9 DEF RfInv
<1> QED  BY <1>4, <1>5

LEMMA CompletedStep ==
  ASSUME RfInv, Completed
  PROVE  RfInv'
<1>1. Fine(cx) /\ Typed /\ Owned /\ caller # NoCaller /\ cx.hNotifyComplete # 0
  BY DEF RfInv, Completed
<1>2. cx.Status.is \in Ended
  BY <1>1 DEF Fine, Final, CxType, StatusType
<1>3. ~expired => Nobodys(cx)
  BY <1>1 DEF Owned, Mine, Nobodys
<1>4. Return2Caller(cx.Status.is) /\ UNCHANGED <<devices, asleep, expired>>
  BY DEF Completed
<1>5. expired' \in BOOLEAN /\ (~expired' => ~expired /\ Nobodys(cx))
  BY <1>1, <1>3, <1>4 DEF Typed
<1> QED  BY <1>1, <1>2, <1>4, <1>5, ReturnStep

LEMMA TimedOutStep ==
  ASSUME RfInv, TimedOut
  PROVE  RfInv'
<1>1. /\ caller # NoCaller /\ expired' = TRUE /\ Return2Caller("failed")
      /\ UNCHANGED <<devices, asleep>>
  BY DEF TimedOut
<1>2. "failed" \in Ended
  BY DEF Ended
<1> QED  BY <1>1, <1>2, ReturnStep

LEMMA WatchStep ==
  ASSUME RfInv, PresenceThread
  PROVE  RfInv'
<1>1. Fine(cx) /\ cx \in CxType /\ Typed
  BY DEF RfInv, Fine
<1>2. cx' = cx \/ (cx.works > 0 /\ cx' = [cx EXCEPT !.works = @ - 1])
  BY DEF PresenceThread
<1>3. Fine(cx') /\ Same(cx, cx')
  <2>1. CASE cx' = cx
    BY <1>1, <2>1 DEF Same
  <2>2. CASE cx.works > 0 /\ cx' = [cx EXCEPT !.works = @ - 1]
    <3> DEFINE n == cx.works - 1
               c == [cx EXCEPT !.works = n]
    <3>1. n \in Nat
      BY <1>1, <2>2 DEF CxType
    <3>2. cx' = c
      BY <2>2
    <3> HIDE DEF n
    <3>3. Aside(cx, c) /\ c.list = cx.list
      BY <1>1, <3>1 DEF CxType, Aside
    <3> HIDE DEF c
    <3> QED  BY <1>1, <3>2, <3>3, AsideFine
  <2> QED  BY <1>2, <2>1, <2>2
<1>4. presence' \in PresenceType
  BY DEF PresenceThread, PresenceStep, Loop, PresenceType
<1>5. UNCHANGED <<RFPowerState, caller, powered, executions, devices, asleep, expired>>
  BY DEF PresenceThread
<1>6. Typed'
  BY <1>1, <1>4, <1>5 DEF Typed
<1> QED  BY <1>3, <1>5, <1>6, MachineStep

(* The invariant holds at first, is kept by every step, and so always holds. *)
LEMMA InitInv == Init => RfInv
<1> SUFFICES ASSUME Init PROVE RfInv
  OBVIOUS
<1>1. /\ None \in AwaitedType /\ None \in ListType /\ 0 \in 0 .. SecureElements
      /\ [is |-> "ok", of |-> 0] \in StatusType /\ "Idle" \in States
      /\ "Idle" \in TransitionStates /\ "Default" \in LinkStates /\ "away" \in PeerStates
      /\ <<>> \in Seq(EventType) /\ <<>> \in Seq(Message) /\ NoSequence \in SequenceType
  BY RfAssumption, NoSequenceType
     DEF AwaitedType, ListType, StatusType, Ended, States, TransitionStates, LinkStates, PeerStates
<1>2. cx \in CxType
  BY <1>1 DEF Init, CxType
<1>3. /\ cx.state = "Idle" /\ cx.TransitionState = "Idle" /\ cx.PendingStateEvents = <<>>
      /\ cx.messages = <<>> /\ cx.CurrentSequence = NoSequence /\ cx.awaited = None
      /\ cx.hNotifyComplete = 0 /\ ~cx.IsDeactivatePending
  BY DEF Init
<1>4. NoResume(<<>>) /\ NoUser(<<>>)
  BY DEF NoResume, NoUser
<1>5. Sound(cx) /\ HasDevice(cx) /\ Final(cx)
  BY <1>3, <1>4 DEF Sound, HasDevice, Final, Active
<1>6. Nobodys(cx)
  BY <1>3, <1>4 DEF Nobodys
<1>7. caller \in CallerType /\ caller = NoCaller
  BY DEF Init, NoCaller, CallerType, CallerOps, Ended
<1>8. Typed
  BY <1>7 DEF Init, Typed, PresenceType
<1> QED  BY <1>2, <1>5, <1>6, <1>7, <1>8 DEF RfInv, Fine, Owned

LEMMA NextInv == RfInv /\ [Next]_vars => RfInv'
<1> SUFFICES ASSUME RfInv, [Next]_vars PROVE RfInv'
  OBVIOUS
<1>1. CASE LibNfcMessageHandler
  BY <1>1, HandlerStep
<1>2. CASE StepAnswered
  BY <1>2, AnswerStep
<1>3. CASE InitializeRedo
  BY <1>3, RedoStep
<1>4. ASSUME NEW d \in Devices, RemoteDevNtfCB(d) PROVE RfInv'
  BY <1>4, FoundStep
<1>5. CASE HandleSEDeviceHostEvent \/ HandleSecureElementEvent \/ LinkActivated \/ LinkDeactivated
  BY <1>5, ReportStep
<1>6. ASSUME NEW op \in Operations, Begin(op) PROVE RfInv'
  BY <1>6, BeginStep
<1>7. CASE Completed
  BY <1>7, CompletedStep
<1>8. CASE TimedOut
  BY <1>8, TimedOutStep
<1>9. CASE PresenceThread
  BY <1>9, WatchStep
<1>10. CASE TargetCheckPresence
  BY <1>10, CheckStep
<1>11. CASE UNCHANGED vars
  <2>1. UNCHANGED <<cx, caller, executions, expired>> /\ Typed'
    BY <1>11 DEF vars, RfInv, Typed
  <2>2. Fine(cx') /\ Same(cx, cx')
    BY <2>1 DEF RfInv, Same
  <2> QED  BY <2>1, <2>2, MachineStep
<1> QED  BY <1>1, <1>2, <1>3, <1>4, <1>5, <1>6, <1>7, <1>8, <1>9, <1>10, <1>11 DEF Next

LEMMA SpecInv == Spec => []RfInv
<1> QED  BY InitInv, NextInv, PTL DEF Spec

-----------------------------------------------------------------------------

(* In the active states there is a remote device: the handlers of             *)
(* NfcCxRFInterfaceStateRfDiscovered2RfDataXchg and the like read the head of *)
(* pRemDevList without a check.                                               *)
THEOREM ActiveHasDeviceHolds == Spec => []ActiveHasDevice
<1>1. RfInv => ActiveHasDevice
  BY DEF RfInv, Fine, HasDevice, Active, ActiveHasDevice
<1> QED  BY <1>1, SpecInv, PTL

(* A caller that has not given up wakes to the status of its own event *)
(* (NfcCxRFInterfaceExecute), whatever other events set Status.        *)
THEOREM OwnAnswerHolds == Spec => []OwnAnswer
<1>1. RfInv => OwnAnswer
  BY DEF RfInv, Owned, Mine, OwnAnswer
<1> QED  BY <1>1, SpecInv, PTL

(* While an event runs exactly one thing can carry it on, and an event that *)
(* waits has a message to take it (NfcCxStateInterface, NfcCxSequence).     *)
THEOREM EventIsDrivenHolds == Spec => []EventIsDriven
<1>1. RfInv => EventIsDriven
  <2> SUFFICES ASSUME RfInv, ~cx.crashed
               PROVE  /\ cx.TransitionState # "Idle" <=> cx.CurrentSequence # NoSequence
                      /\ Cardinality(Resumes) + (IF cx.awaited = None THEN 0 ELSE 1)
                           = IF cx.CurrentSequence = NoSequence THEN 0 ELSE 1
                      /\ cx.TransitionState = "Idle" /\ cx.PendingStateEvents # <<>> => Nexts # {}
    BY DEF EventIsDriven
  <2>1. Sound(cx)
    BY DEF RfInv, Fine
  <2>2. NoResume(cx.messages) => Cardinality(Resumes) = 0
    <3>1. NoResume(cx.messages) => Resumes = {}
      BY DEF NoResume, Resumes
    <3> QED  BY <3>1, FS_EmptySet
  <2>3. OneResume(cx.messages) => Cardinality(Resumes) = 1
    <3>1. OneResume(cx.messages) => \E i : Resumes = {i}
      BY DEF OneResume, Resumes
    <3> QED  BY <3>1, FS_Singleton
  <2>4. HasNext(cx.messages) => Nexts # {}
    BY DEF HasNext, Nexts
  <2>5. cx.TransitionState # "Idle" <=> cx.CurrentSequence # NoSequence
    BY <2>1 DEF Sound
  <2>6. Cardinality(Resumes) + (IF cx.awaited = None THEN 0 ELSE 1)
          = IF cx.CurrentSequence = NoSequence THEN 0 ELSE 1
    <3>1. CASE cx.CurrentSequence = NoSequence
      BY <2>1, <2>2, <3>1 DEF Sound
    <3>2. CASE cx.CurrentSequence # NoSequence
      BY <2>1, <2>2, <2>3, <3>2 DEF Sound, Carried
    <3> QED  BY <3>1, <3>2
  <2>7. cx.TransitionState = "Idle" /\ cx.PendingStateEvents # <<>> => Nexts # {}
    BY <2>1, <2>4 DEF Sound
  <2> QED  BY <2>5, <2>6, <2>7
<1> QED  BY <1>1, SpecInv, PTL

(* The shared memory of the RF interface has its types. *)
THEOREM TypeCorrect == Spec => []TypeOK
<1>1. RfInv => TypeOK
  <2> SUFFICES ASSUME RfInv PROVE TypeOK
    OBVIOUS
  <2>1. cx \in CxType /\ Sound(cx) /\ Typed
    BY DEF RfInv, Fine
  <2>2. /\ cx.state \in States /\ cx.TransitionState \in TransitionStates
        /\ cx.PendingStateEvents \in Seq(EventType) /\ cx.messages \in Seq(Message)
        /\ cx.request \in Nat /\ cx.Status \in StatusType /\ cx.hNotifyComplete \in Nat
        /\ cx.list \in ListType /\ cx.switchedOn \in 0 .. SecureElements
        /\ cx.eLinkStatus \in LinkStates /\ cx.peer \in PeerStates
    BY <2>1 DEF CxType
  <2>3. /\ cx.bIsTagPresent \in BOOLEAN /\ cx.bIsTagConnected \in BOOLEAN
        /\ cx.bIsHCEConnected \in BOOLEAN /\ cx.bIsHCEActivated \in BOOLEAN
        /\ cx.hStartPresenceCheck \in BOOLEAN /\ cx.IsDeactivatePending \in BOOLEAN
        /\ cx.EnableSEDiscovery \in BOOLEAN /\ cx.watchdog \in BOOLEAN
        /\ cx.crashed \in BOOLEAN /\ cx.listening \in BOOLEAN /\ cx.reader \in BOOLEAN
    BY <2>1 DEF CxType
  <2>4. \A f \in {"bIsTagPresent", "bIsTagConnected", "bIsHCEConnected", "bIsHCEActivated",
                  "hStartPresenceCheck", "IsDeactivatePending", "EnableSEDiscovery", "watchdog",
                  "crashed", "listening", "reader"} : cx[f] \in BOOLEAN
    BY <2>3
  <2>5. cx.PendingStateEvents \in Seq([event : UserEvents \cup {"Discovered", "Activated",
                                                                "Deactivated"},
                                       op : Operations \cup {"CheckPresence", None},
                                       request : Nat])
    <3> DEFINE E == [event : UserEvents \cup Reports, op : CallerOps, request : Nat]
    <3>1. EventType \subseteq E
      BY DEF EventType
    <3>2. cx.PendingStateEvents \in Seq(E)
      <4> HIDE DEF E
      <4> QED  BY <2>2, <3>1
    <3> QED  BY <3>2 DEF Reports, CallerOps
  <2>6. cx.messages \in Seq([kind : {"next", "resume"}, status : {"ok", "failed", "lost", None}])
    <3> DEFINE M == [kind : {"next", "resume"}, status : {"ok", "failed", "lost", None}]
    <3>1. Message \subseteq M
      BY DEF Message, Ended
    <3> HIDE DEF M
    <3>2. cx.messages \in Seq(M)
      BY <2>2, <3>1
    <3> QED  BY <3>2 DEF M
  <2>7. cx.CurrentSequence.next \in 1 .. Len(cx.CurrentSequence.steps) + 1
    <3>1. CASE cx.CurrentSequence = NoSequence
      BY <3>1 DEF NoSequence
    <3>2. CASE cx.CurrentSequence # NoSequence
      BY <2>1, <3>2 DEF Sound, Carried, InSequence
    <3> QED  BY <3>1, <3>2
  <2>8. cx.Status \in [is : {"ok", "failed", "lost", "pending"}, of : Nat]
    <3>1. {"ok", "failed", "lost", "pending"} = Ended \cup {"pending"}
      BY DEF Ended
    <3> QED  BY <2>2, <3>1 DEF StatusType
  <2>9. /\ caller.op \in Operations \cup {"CheckPresence", None}
        /\ caller.result \in {"ok", "failed", "lost"}
    BY <2>1 DEF Typed, CallerType, CallerOps, Ended
  <2>10. /\ cx.TransitionState \in {"Idle", "UserEventRunning", "InternalEventRunning"}
         /\ cx.list \in Devices \cup {None}
         /\ cx.eLinkStatus \in {"Default", "Activated", "Deactivated"}
         /\ cx.peer \in {"away", "starting", "up"}
    BY <2>2 DEF TransitionStates, ListType, LinkStates, PeerStates
  <2>11. /\ RFPowerState \in BOOLEAN /\ powered \in BOOLEAN
         /\ presence \in {"off", "waiting", "sleeping", "asking", "checking"}
    BY <2>1 DEF Typed, PresenceType
  <2> QED  BY <2>2, <2>4, <2>5, <2>6, <2>7, <2>8, <2>9, <2>10, <2>11 DEF TypeOK
<1> QED  BY <1>1, SpecInv, PTL

(***************************************************************************)
(* Proof that discovery follows the power policy: when nothing has failed  *)
(* and nothing is left to do, the controller polls exactly when            *)
(* RFPowerState is set.                                                    *)
(*                                                                         *)
(* The inductive invariant is PowerInv, on top of RfInv above.             *)
(* While nothing has failed, a sequence is only told of success, and the   *)
(* state machine is where the operation of the caller puts it: Before its  *)
(* event is taken, During its sequence and After its end.  Without a       *)
(* caller it is Home, which agrees with RFPowerState.  Every step of the   *)
(* machine takes the event of a caller no further (Quietly), to its start  *)
(* (Begins) or to its end (Ends), and what nobody asked for never leads    *)
(* from a polling state to the idle one against RFPowerState (Stays).      *)
(***************************************************************************)

Polling == {"RfDiscovery", "RfDiscovered", "RfDataXchg"}
Working == Polling \cup {"RfIdle"}

Agrees(c) == c.state \in Working /\ (c.state \in Polling <=> RFPowerState)
Home(c) == IF powered THEN Agrees(c) ELSE c.state = "Idle"

(* What no event but those of the steering operations changes *)
Stays(c, d) ==
  /\ c.state = "Idle" => d.state = "Idle"
  /\ c.state = "RfIdle" => d.state = "RfIdle"
  /\ c.state \in Working => d.state \in Working
  /\ Agrees(c) => Agrees(d)

UserDones == Answering \cup Clearing \cup {"Shutdown", "StartRfDiscovery"}
Quiets == {"ReqCompleted", "Discovered", "Activated", "Deactivated"}
Steering == {"Init", "Deinit", "StopDiscovery", "ConfigDiscovery"}

LEMMA Polls ==
  ASSUME NEW c, c.state \in Working
  PROVE  c.state = "RfIdle" \/ c.state = "RfDiscovery" \/ c.state = "RfDiscovered"
         \/ c.state = "RfDataXchg"
  BY DEF Working, Polling

(* Where the tables send the events, as far as the power policy is concerned *)
LEMMA ModeTargets ==
  ASSUME NEW c, c.state \in States, NEW event \in {"ConfigDiscovery", "Deactivated"},
         FindTargetState(c, event) # None
  PROVE  FindTargetState(c, event) = IF RFPowerState THEN "RfDiscovery" ELSE "RfIdle"
<1> DEFINE user == g_NfcCxUsrEvent2StateMap[c.state]
           own == g_NfcCxIntEvent2StateMap[c.state]
<1>u. /\ DOMAIN g_NfcCxUsrEvent2StateMap = {"Idle", "RfIdle", "RfDiscovery", "RfDiscovered",
                                            "RfDataXchg", "Recovery"}
      /\ DOMAIN g_NfcCxIntEvent2StateMap = {"Idle", "Init", "RfIdle", "RfDiscovery",
                                            "RfDiscovered", "RfDataXchg", "Recovery", "Shutdown"}
  BY DEF g_NfcCxUsrEvent2StateMap, g_NfcCxIntEvent2StateMap
<1>1. ASSUME c.state \in DOMAIN g_NfcCxUsrEvent2StateMap, "ConfigDiscovery" \in DOMAIN user
      PROVE  user["ConfigDiscovery"] = "ConnChkDiscMode"
  BY <1>1, <1>u DEF g_NfcCxUsrEvent2StateMap
<1>2. ASSUME c.state \in DOMAIN g_NfcCxIntEvent2StateMap, "Deactivated" \in DOMAIN own
      PROVE  own["Deactivated"] = "ConnChkDiscMode"
  BY <1>2, <1>u DEF g_NfcCxIntEvent2StateMap
<1>3. Connect(c, "ConnChkDiscMode") = IF RFPowerState THEN "RfDiscovery" ELSE "RfIdle"
  BY DEF Connect
<1>4. "ConfigDiscovery" \in UserEvents /\ "Deactivated" \notin UserEvents
  BY DEF UserEvents
<1> HIDE DEF user, own
<1> QED  BY <1>1, <1>2, <1>3, <1>4 DEF FindTargetState, user, own

LEMMA Steers ==
  ASSUME NEW c, c.state \in States
  PROVE  /\ c.state = "Idle" => FindTargetState(c, "Init") = "Init"
         /\ c.state \in Working => /\ FindTargetState(c, "Deinit") = "Shutdown"
                                   /\ FindTargetState(c, "StopDiscovery") = "RfIdle"
                                   /\ FindTargetState(c, "ConfigDiscovery") # None
         /\ c.state = "Init" => FindTargetState(c, "ReqCompleted") = "RfIdle"
         /\ c.state = "Shutdown" => FindTargetState(c, "ReqCompleted") = "Idle"
         /\ c.state \in Working => FindTargetState(c, "ReqCompleted") = c.state
<1> DEFINE user == g_NfcCxUsrEvent2StateMap[c.state]
           own == g_NfcCxIntEvent2StateMap[c.state]
<1>u. /\ DOMAIN g_NfcCxUsrEvent2StateMap = {"Idle", "RfIdle", "RfDiscovery", "RfDiscovered",
                                            "RfDataXchg", "Recovery"}
      /\ DOMAIN g_NfcCxIntEvent2StateMap = {"Idle", "Init", "RfIdle", "RfDiscovery",
                                            "RfDiscovered", "RfDataXchg", "Recovery", "Shutdown"}
  BY DEF g_NfcCxUsrEvent2StateMap, g_NfcCxIntEvent2StateMap
<1>e. /\ {"Init", "Deinit", "StopDiscovery", "ConfigDiscovery"} \subseteq UserEvents
      /\ "ReqCompleted" \notin UserEvents
  BY DEF UserEvents
<1>c. /\ \A to \in {"Init", "Shutdown", "RfIdle", "Idle"} \cup Working : Connect(c, to) = to
      /\ Connect(c, "ConnChkDiscMode") # None
  BY DEF Connect, Working, Polling, None
<1>1. CASE c.state = "Idle"
  <2>1. "Init" \in DOMAIN user /\ user["Init"] = "Init"
    BY <1>1 DEF g_NfcCxUsrEvent2StateMap
  <2> HIDE DEF user
  <2>2. FindTargetState(c, "Init") = "Init"
    BY <1>1, <1>u, <1>e, <1>c, <2>1 DEF FindTargetState, user
  <2>3. c.state \notin Working
    BY <1>1 DEF Working, Polling
  <2> QED  BY <1>1, <2>2, <2>3
<1>2. CASE c.state \in Working
  <2>1. /\ "Deinit" \in DOMAIN user /\ user["Deinit"] = "Shutdown"
        /\ "StopDiscovery" \in DOMAIN user /\ user["StopDiscovery"] = "RfIdle"
        /\ "ConfigDiscovery" \in DOMAIN user /\ user["ConfigDiscovery"] = "ConnChkDiscMode"
    <3>1. CASE c.state = "RfIdle"
      BY <3>1 DEF g_NfcCxUsrEvent2StateMap
    <3>2. CASE c.state = "RfDiscovery"
      BY <3>2 DEF g_NfcCxUsrEvent2StateMap
    <3>3. CASE c.state = "RfDiscovered"
      BY <3>3 DEF g_NfcCxUsrEvent2StateMap
    <3>4. CASE c.state = "RfDataXchg"
      BY <3>4 DEF g_NfcCxUsrEvent2StateMap
    <3> QED  BY <1>2, <3>1, <3>2, <3>3, <3>4, Polls
  <2>2. "ReqCompleted" \in DOMAIN own /\ own["ReqCompleted"] = c.state
    <3>1. CASE c.state = "RfIdle"
      BY <3>1 DEF g_NfcCxIntEvent2StateMap
    <3>2. CASE c.state = "RfDiscovery"
      BY <3>2 DEF g_NfcCxIntEvent2StateMap
    <3>3. CASE c.state = "RfDiscovered"
      BY <3>3 DEF g_NfcCxIntEvent2StateMap
    <3>4. CASE c.state = "RfDataXchg"
      BY <3>4 DEF g_NfcCxIntEvent2StateMap
    <3> QED  BY <1>2, <3>1, <3>2, <3>3, <3>4, Polls
  <2>3. c.state \in DOMAIN g_NfcCxUsrEvent2StateMap /\ c.state \in DOMAIN g_NfcCxIntEvent2StateMap
    BY <1>2, <1>u, Polls
  <2>4. c.state # "Idle" /\ c.state # "Init" /\ c.state # "Shutdown"
    BY <1>2, Polls
  <2> HIDE DEF user, own
  <2>5. FindTargetState(c, "Deinit") = "Shutdown" /\ FindTargetState(c, "StopDiscovery") = "RfIdle"
    BY <1>e, <1>c, <2>1, <2>3 DEF FindTargetState, user
  <2>6. FindTargetState(c, "ConfigDiscovery") # None
    BY <1>e, <1>c, <2>1, <2>3 DEF FindTargetState, user
  <2>7. FindTargetState(c, "ReqCompleted") = c.state
    BY <1>2, <1>e, <1>c, <2>2, <2>3 DEF FindTargetState, own
  <2> QED  BY <2>4, <2>5, <2>6, <2>7
<1>3. CASE c.state = "Init" \/ c.state = "Shutdown"
  <2>1. /\ "ReqCompleted" \in DOMAIN own
        /\ own["ReqCompleted"] = IF c.state = "Init" THEN "RfIdle" ELSE "Idle"
    BY <1>3 DEF g_NfcCxIntEvent2StateMap
  <2> HIDE DEF own
  <2>2. FindTargetState(c, "ReqCompleted") = IF c.state = "Init" THEN "RfIdle" ELSE "Idle"
    BY <1>3, <1>u, <1>e, <1>c, <2>1 DEF FindTargetState, own
  <2>3. c.state \notin Working /\ c.state # "Idle"
    BY <1>3 DEF Working, Polling
  <2> QED  BY <1>3, <2>2, <2>3
<1>4. CASE c.state \notin Working \cup {"Idle", "Init", "Shutdown"}
  BY <1>4
<1> QED  BY <1>1, <1>2, <1>3, <1>4

LEMMA StaysTargets ==
  ASSUME NEW c, c.state \in States, NEW event \in UserEvents \cup Quiets, event \notin Steering,
         NEW d, d.state = IF FindTargetState(c, event) = None THEN c.state
                          ELSE FindTargetState(c, event)
  PROVE  Stays(c, d)
<1> DEFINE to == FindTargetState(c, event)
<1>1. CASE to = None
  BY <1>1 DEF Stays, Agrees
<1>2. CASE to # None
  <2>1. event \in UserEvents \cup InternalEvents /\ event # "Failed" /\ event # "Recovery"
    BY DEF Quiets, InternalEvents, UserEvents
  <2>2. Leaves(c.state, event, to)
    BY <1>2, <2>1, Targets
  <2>3. event = "Deactivated" => to = IF RFPowerState THEN "RfDiscovery" ELSE "RfIdle"
    BY <1>2, ModeTargets
  <2>4. d.state = to
    BY <1>2
  <2>5. event \notin {"Init", "Deinit", "StopDiscovery", "ConfigDiscovery", "Failed", "Recovery"}
    BY <2>1 DEF Steering
  <2> HIDE DEF to
  <2>6. CASE c.state = "Idle"
    BY <2>2, <2>4, <2>5, <2>6 DEF Leaves, Stays, Agrees, Working, Polling
  <2>7. CASE c.state = "RfIdle"
    BY <2>2, <2>4, <2>5, <2>7 DEF Leaves, Stays, Agrees, Working, Polling
  <2>8. CASE c.state \in Polling
    <3>1. to \in Polling \/ (event = "Deactivated" /\ to \in DiscoveryModes)
      BY <2>2, <2>5, <2>8 DEF Leaves, Polling, DiscoveryModes
    <3>2. CASE to \in Polling
      BY <2>4, <2>8, <3>2 DEF Stays, Agrees, Working, Polling
    <3>3. CASE event = "Deactivated"
      BY <2>3, <2>4, <2>8, <3>3 DEF Stays, Agrees, Working, Polling
    <3> QED  BY <3>1, <3>2, <3>3
  <2>9. CASE c.state \notin Working \cup {"Idle"}
    BY <2>9 DEF Stays, Agrees, Working
  <2> QED  BY <2>6, <2>7, <2>8, <2>9 DEF Working
<1> QED  BY <1>1, <1>2

(* Nothing but a step that fails counts a failure. *)
LEMMA Failures ==
  ASSUME NEW c \in CxType
  PROVE  /\ TagConnectionLost(c).failures = c.failures
         /\ EndCardEmulation(c).failures = c.failures
         /\ ClearRemoteDevList(c).failures = c.failures
         /\ Taken(c).failures = c.failures
         /\ \A to : [c EXCEPT !.state = to].failures = c.failures
         /\ \A q : [c EXCEPT !.CurrentSequence = q].failures = c.failures
         /\ \A status, works : Closed(c, status, works).failures = c.failures
         /\ \A n : Moved(c, n).failures = c.failures
         /\ \A events, request, running :
              Picked(c, events, request, running).failures = c.failures
         /\ \A status : DispatchResume(c, status).failures = c.failures
         /\ \A status : EventDone(c, status).failures = c.failures
<1>1. /\ TagConnectionLost(c).failures = c.failures
      /\ EndCardEmulation(c).failures = c.failures
      /\ ClearRemoteDevList(c).failures = c.failures
      /\ Taken(c).failures = c.failures
  BY DEF CxType, TagConnectionLost, EndCardEmulation, ClearRemoteDevList, Taken
<1>2. /\ \A to : [c EXCEPT !.state = to].failures = c.failures
      /\ \A q : [c EXCEPT !.CurrentSequence = q].failures = c.failures
      /\ \A n : Moved(c, n).failures = c.failures
  BY DEF CxType, Moved
<1>3. \A status, works : Closed(c, status, works).failures = c.failures
  BY DEF CxType, Closed
<1>4. \A events, request, running : Picked(c, events, request, running).failures = c.failures
  BY DEF CxType, Picked
<1>5. \A status : DispatchResume(c, status).failures = c.failures
  BY DEF CxType, DispatchResume
<1>6. ASSUME NEW status PROVE EventDone(c, status).failures = c.failures
  BY DEF CxType, EventDone, UserEventComplete
<1> QED  BY <1>1, <1>2, <1>3, <1>4, <1>5, <1>6

LEMMA StepFailures ==
  ASSUME NEW c \in CxType, NEW x, NEW status
  PROVE  /\ StepEffect(c, x, status).failures =
              IF status = "failed" THEN c.failures + 1 ELSE c.failures
         /\ StepEffect(c, x, status).messages = c.messages
<1>1. c.failures + 0 = c.failures
  BY DEF CxType
<1> QED  BY <1>1 DEF CxType, StepEffect

LEMMA ResumeMessages ==
  ASSUME NEW c \in CxType, NEW status
  PROVE  DispatchResume(c, status).messages =
           Append(c.messages, [kind |-> "resume", status |-> status])
  BY DEF CxType, DispatchResume

(* An event that is done gives its caller the status it ended with, unless *)
(* the caller has one.                                                     *)
LEMMA DoneStatus ==
  ASSUME NEW c \in CxType, NEW status, c.TransitionState = "UserEventRunning",
         c.Status.is = "pending"
  PROVE  EventDone(c, status).Status.is = status
<1>1. EventDone(c, status).Status = [is |-> status, of |-> c.request]
  BY DEF CxType, EventDone, UserEventComplete
<1> QED  BY <1>1

(* While nothing has failed, a sequence is only told of success. *)
Succeeds(messages) ==
  \A i \in DOMAIN messages : messages[i].kind = "resume" => messages[i].status = "ok"

LEMMA SuccessTold ==
  ASSUME NEW messages \in Seq(Message)
  PROVE  /\ NoResume(messages) => Succeeds(messages)
         /\ \A m \in Message : Succeeds(messages) /\ (m.kind = "resume" => m.status = "ok") =>
              Succeeds(Append(messages, m))
         /\ messages # <<>> /\ Succeeds(messages) =>
              /\ Succeeds(Tail(messages))
              /\ Head(messages).kind = "resume" => Head(messages).status = "ok"
<1>1. NoResume(messages) => Succeeds(messages)
  BY DEF NoResume, Succeeds
<1>2. ASSUME NEW m \in Message, Succeeds(messages), m.kind = "resume" => m.status = "ok"
      PROVE  Succeeds(Append(messages, m))
  <2> DEFINE s == Append(messages, m)
  <2>1. DOMAIN s = DOMAIN messages \cup {Len(messages) + 1} /\ s[Len(messages) + 1] = m
    OBVIOUS
  <2>2. \A i \in DOMAIN messages : s[i] = messages[i]
    OBVIOUS
  <2> HIDE DEF s
  <2>3. Succeeds(s)
    BY <1>2, <2>1, <2>2 DEF Succeeds
  <2> QED  BY <2>3 DEF s
<1>3. ASSUME messages # <<>>, Succeeds(messages)
      PROVE  /\ Succeeds(Tail(messages))
             /\ Head(messages).kind = "resume" => Head(messages).status = "ok"
  <2> DEFINE t == Tail(messages)
             h == Head(messages)
  <2>1. \A i \in DOMAIN t : t[i] = messages[i + 1] /\ i + 1 \in DOMAIN messages
    BY <1>3
  <2>2. h = messages[1] /\ 1 \in DOMAIN messages
    BY <1>3
  <2> HIDE DEF t, h
  <2>3. Succeeds(t) /\ (h.kind = "resume" => h.status = "ok")
    BY <1>3, <2>1, <2>2 DEF Succeeds
  <2> QED  BY <2>3 DEF t, h
<1> QED  BY <1>1, <1>2, <1>3

LEMMA DispatchSucceeds ==
  ASSUME NEW c \in CxType, Succeeds(c.messages)
  PROVE  Succeeds(DispatchResume(c, "ok").messages)
<1> DEFINE m == [kind |-> "resume", status |-> "ok"]
<1>1. m \in Message /\ m.status = "ok"
  BY DEF Message, Ended
<1>2. DispatchResume(c, "ok").messages = Append(c.messages, m)
  BY ResumeMessages
<1>3. c.messages \in Seq(Message)
  BY DEF CxType
<1> HIDE DEF m
<1> QED  BY <1>1, <1>2, <1>3, SuccessTold

(* A sequence that has started without a failure is only told of success. *)
LEMMA StartSucceeds ==
  ASSUME NEW c \in CxType, NoResume(c.messages),
         NEW plan, NEW event, NEW to, Good(plan, event, to), plan.status = "pending",
         NEW user \in BOOLEAN, NEW d \in SequenceStart(c, plan, user), d.failures = 0
  PROVE  c.failures = 0 /\ Succeeds(d.messages)
<1>1. Leads(plan.steps) /\ plan.done \in Dones
  BY DEF Good, Dones
<1>2. plan.steps \in Seq(StepName) /\ plan.steps # <<>>
  BY <1>1 DEF Leads
<1>3. Len(plan.steps) \in Nat /\ 1 \in 1 .. Len(plan.steps) + 1
  BY <1>2
<1> DEFINE q(n, s) == [steps |-> plan.steps, done |-> plan.done, user |-> user,
                       next |-> IF s = "pending" THEN n + 1 ELSE Len(plan.steps) + 1]
           b(n, s) == [c EXCEPT !.CurrentSequence = q(n, s)]
           e(n, s) == StepEffect(b(n, s), plan.steps[n], s)
<1>4. PICK r \in SequenceRun(c, plan.steps, 1) :
        d = IF r[2] = "pending" THEN e(r[1], r[2]) ELSE DispatchResume(e(r[1], r[2]), r[2])
  BY DEF SequenceStart
<1>5. r[1] \in 1 .. Len(plan.steps) /\ plan.steps[r[1]] \in StepName
      /\ r[2] \in {"ok", "failed", "pending"}
  BY <1>2, <1>3, RunEnds
<1> DEFINE s == r[2]
           x == plan.steps[r[1]]
           seq == q(r[1], s)
           f == [c EXCEPT !.CurrentSequence = seq]
           g == StepEffect(f, x, s)
<1>6. d = IF s = "pending" THEN g ELSE DispatchResume(g, s)
  BY <1>4
<1>7. seq \in SequenceType
  BY <1>1, <1>2, <1>3, <1>5 DEF SequenceType
<1>t. s \in {"ok", "failed", "pending"} /\ x \in StepName
  BY <1>5
<1> HIDE DEF seq, s, x
<1>8. f \in CxType
  BY <1>7 DEF CxType
<1>9. f.messages = c.messages /\ f.failures = c.failures /\ f.failures \in Nat
  BY <1>7 DEF CxType
<1> HIDE DEF f
<1>10. /\ g.failures = (IF s = "failed" THEN f.failures + 1 ELSE f.failures)
       /\ g.messages = f.messages
  BY <1>8, StepFailures
<1>11. g \in CxType
  BY <1>8, <1>t, StepEffectIs
<1> HIDE DEF g
<1>12. d.failures = g.failures
  BY <1>6, <1>11, Failures
<1>13. s # "failed" /\ c.failures = 0
  BY <1>9, <1>10, <1>12
<1>14. Succeeds(g.messages)
  <2>1. c.messages \in Seq(Message)
    BY DEF CxType
  <2> QED  BY <2>1, <1>9, <1>10, SuccessTold
<1>15. CASE s = "pending"
  BY <1>6, <1>13, <1>14, <1>15
<1>16. CASE s = "ok"
  BY <1>6, <1>11, <1>13, <1>14, <1>16, DispatchSucceeds
<1> QED  BY <1>t, <1>13, <1>15, <1>16

(* What the handlers do for the events of callers: the sequences they start *)
(* answer, and those of the steering events succeed unless they start one.  *)
Kind(plan, event) ==
  /\ plan.status \in {"ok", "failed", "pending"}
  /\ plan.status = "pending" => plan.done \in UserDones
  /\ event \in {"Init", "Deinit"} => plan.status = "pending"
  /\ event \in Steering => plan.status # "failed"

LEMMA KindStart ==
  ASSUME NEW steps, NEW done \in UserDones, NEW event
  PROVE  Kind(Start(steps, done), event) /\ Kind(Losing(Start(steps, done)), event)
  BY DEF Kind, Start, Losing

LEMMA KindReturn ==
  ASSUME NEW event, event \notin {"Init", "Deinit"}
  PROVE  /\ Kind(Return("ok"), event) /\ Kind([Return("ok") EXCEPT !.clears = TRUE], event)
         /\ event \notin Steering => Kind(Return("failed"), event)
  BY DEF Kind, Return, Start

LEMMA KindSEEvent ==
  ASSUME NEW op \in SEOperations, NEW event
  PROVE  Kind(StateSEEvent(op), event)
<1>1. {"SESetMode", "ESETransceive", "ESEReset"} \subseteq UserDones
  BY DEF UserDones, Answering
<1> QED  BY <1>1, KindStart DEF StateSEEvent, SEOperations

LEMMA KindRfIdle ==
  ASSUME NEW op, NEW event, event \notin {"Init", "Deinit"}, event = "SE" => op \in SEOperations
  PROVE  Kind(StateRfIdle(event, op), event)
<1>1. "SetRoutingTable" \in UserDones /\ "SEEnumerate" \in UserDones
  BY DEF UserDones, Answering
<1> QED  BY <1>1, KindStart, KindReturn, KindSEEvent DEF StateRfIdle

LEMMA KindRfDiscovery ==
  ASSUME NEW op, NEW event, event \notin {"Init", "Deinit"}, event = "SE" => op \in SEOperations,
         NEW same
  PROVE  Kind(StateRfDiscovery(event, op, same), event)
<1>1. "RfDiscoveryConfig" \in UserDones
  BY DEF UserDones, Answering
<1> QED  BY <1>1, KindStart, KindReturn, KindSEEvent DEF StateRfDiscovery

LEMMA KindActive ==
  ASSUME NEW c, NEW event, event \notin {"Init", "Deinit"}
  PROVE  Kind(StateRfActive2RfIdle(c), event) /\ Kind(StateRfActive2RfDiscovery(c), event)
<1>1. Clearing \subseteq UserDones
  BY DEF UserDones
<1>2. {"P2PActive2RfIdle", "PCDActive2RfIdle", "TagActive2RfIdle",
       "P2PActive2RfDiscovery", "TagActive2RfDiscovery"} \subseteq UserDones
  BY <1>1 DEF Clearing
<1>3. Kind(StateRfActive2RfIdle(c), event)
  BY <1>2, KindStart DEF StateRfActive2RfIdle
<1>4. Kind(StateRfActive2RfDiscovery(c), event)
  BY <1>2, KindStart, KindReturn DEF StateRfActive2RfDiscovery
<1> QED  BY <1>3, <1>4

LEMMA KindData ==
  ASSUME NEW c, NEW event \in {"SE", "DataXchg"}, NEW op,
         event = "SE" => op \in SEOperations, event = "DataXchg" => op \in DataOperations
  PROVE  Kind(StateRfDataXchg(c, event, op), event)
<1>1. {"TagWriteNdef", "TagConvertReadOnly", "TargetTransceive", "TargetPresenceCheck",
       "SNEPClientPut", "RemoteDevSend"} \subseteq UserDones
  BY DEF UserDones, Answering
<1>2. event \notin Steering /\ event \notin {"Init", "Deinit"}
  BY DEF Steering
<1>3. Kind(Return("failed"), event)
  BY <1>2, KindReturn
<1>4. CASE event = "SE"
  <2>1. StateRfDataXchg(c, event, op) = StateSEEvent(op)
    BY <1>4 DEF StateRfDataXchg, SEOperations
  <2> QED  BY <1>4, <2>1, KindSEEvent
<1>5. CASE event = "DataXchg"
  <2>1. op \in {"WriteTag", "ConvertToReadOnly", "Transmit", "CheckPresence"} =>
          Kind(TagSequence(op), event)
    BY <1>1, KindStart DEF TagSequence
  <2> QED  BY <1>1, <1>3, <1>5, <2>1, KindStart DEF StateRfDataXchg, DataOperations
<1> QED  BY <1>4, <1>5

LEMMA KindHandler ==
  ASSUME NEW c, c.state \in States, NEW event \in UserEvents, NEW op, Matches(event, op), NEW same,
         NEW to, Leaves(c.state, event, to)
  PROVE  Kind(Handler(c, to, event, op, same), event)
<1> DEFINE plan == Handler(c, to, event, op, same)
<1>d. /\ {"Init", "Shutdown", "StartRfDiscovery", "StopRfDiscovery", "TagActivate",
          "TagDeactivate"} \subseteq UserDones
  BY DEF UserDones, Answering
<1>e. /\ event = "SE" => op \in SEOperations
      /\ event = "DataXchg" => op \in DataOperations
  BY DEF Matches
<1>u. event \notin {"ReqCompleted", "Failed", "Recovery", "Discovered", "Deactivated",
                    "Activated"}
  BY DEF UserEvents
<1>1. CASE c.state = "Idle"
  <2>1. to = "Init"
    BY <1>1, <1>u DEF Leaves
  <2>2. plan = StateInitialize(c)
    BY <1>1, <2>1 DEF Handler
  <2> QED  BY <2>2, <1>d, KindStart DEF StateInitialize
<1>2. CASE event = "Deinit"
  <2>1. to = "Shutdown" \/ c.state = "Idle"
    BY <1>2, <1>u DEF Leaves, States
  <2>2. CASE to = "Shutdown"
    <3>1. plan = StateShutdown
      BY <2>2 DEF Handler
    <3> QED  BY <3>1, <1>d, KindStart DEF StateShutdown
  <2> QED  BY <2>1, <2>2, <1>1
<1>3. CASE event # "Deinit" /\ c.state \in Working
  <2>0. event # "Init"
    BY <1>3, <1>u DEF Leaves, Working, Polling
  <2>1. CASE c.state = "RfIdle" /\ to = "RfIdle"
    <3>1. plan = StateRfIdle(event, op)
      BY <2>1 DEF Handler
    <3> QED  BY <3>1, <2>0, <1>3, <1>e, KindRfIdle
  <2>2. CASE c.state = "RfIdle" /\ to = "RfDiscovery"
    <3>1. plan = StateRfIdle2RfDiscovery
      BY <2>2 DEF Handler
    <3> QED  BY <3>1, <1>d, KindStart DEF StateRfIdle2RfDiscovery
  <2>3. CASE c.state = "RfDiscovery" /\ to = "RfIdle"
    <3>1. plan = StateRfDiscovery2RfIdle
      BY <2>3 DEF Handler
    <3> QED  BY <3>1, <1>d, KindStart DEF StateRfDiscovery2RfIdle
  <2>4. CASE c.state = "RfDiscovery" /\ to = "RfDiscovery"
    <3>1. plan = StateRfDiscovery(event, op, same)
      BY <2>4 DEF Handler
    <3> QED  BY <3>1, <2>0, <1>3, <1>e, KindRfDiscovery
  <2>5. CASE c.state \in {"RfDiscovered", "RfDataXchg"} /\ to \in {"RfIdle", "RfDiscovery"}
    <3>1. plan = StateRfActive2RfIdle(c) \/ plan = StateRfActive2RfDiscovery(c)
      BY <2>5 DEF Handler
    <3> QED  BY <3>1, <2>0, <1>3, KindActive
  <2>6. CASE c.state = "RfDiscovered" /\ to = "RfDiscovered"
    <3>1. plan = StateSEEvent(op)
      BY <2>6 DEF Handler
    <3>2. event = "SE"
      BY <2>6, <1>u DEF Leaves, DiscoveryModes
    <3> QED  BY <3>1, <3>2, <1>e, KindSEEvent
  <2>7. CASE c.state = "RfDiscovered" /\ to = "RfDataXchg"
    <3>1. plan = StateRfDiscovered2RfDataXchg(c, event)
      BY <2>7 DEF Handler
    <3>2. event = "Activate"
      BY <2>7, <1>u DEF Leaves, DiscoveryModes
    <3>3. event \notin Steering /\ event \notin {"Init", "Deinit"}
      BY <3>2 DEF Steering
    <3> QED  BY <3>1, <3>3, <1>d, KindStart, KindReturn DEF StateRfDiscovered2RfDataXchg
  <2>8. CASE c.state = "RfDataXchg" /\ to = "RfDiscovered"
    <3>1. plan = StateRfDataXchg2RfDiscovered(c)
      BY <2>8 DEF Handler
    <3>2. event = "DeactivateSleep"
      BY <2>8, <1>u DEF Leaves, DiscoveryModes
    <3>3. event \notin Steering /\ event \notin {"Init", "Deinit"}
      BY <3>2 DEF Steering
    <3> QED  BY <3>1, <3>3, <1>d, KindStart, KindReturn DEF StateRfDataXchg2RfDiscovered
  <2>9. CASE c.state = "RfDataXchg" /\ to = "RfDataXchg"
    <3>1. plan = StateRfDataXchg(c, event, op)
      BY <2>9 DEF Handler
    <3>2. event \in {"SE", "DataXchg"}
      BY <2>9, <1>u DEF Leaves, DiscoveryModes
    <3> QED  BY <3>1, <3>2, <1>e, KindData
  <2>10. /\ c.state = "RfIdle" => to \in {"RfIdle", "RfDiscovery"}
         /\ c.state = "RfDiscovery" => to \in {"RfIdle", "RfDiscovery"}
         /\ c.state = "RfDiscovered" => to \in {"RfIdle", "RfDiscovery", "RfDiscovered", "RfDataXchg"}
         /\ c.state = "RfDataXchg" => to \in {"RfIdle", "RfDiscovery", "RfDiscovered", "RfDataXchg"}
    BY <1>3, <1>u DEF Leaves, DiscoveryModes
  <2>11. c.state \in {"RfIdle", "RfDiscovery", "RfDiscovered", "RfDataXchg"}
    BY <1>3, Polls
  <2> HIDE DEF plan
  <2> QED  BY <2>1, <2>2, <2>3, <2>4, <2>5, <2>6, <2>7, <2>8, <2>9, <2>10, <2>11
<1>4. c.state = "Idle" \/ event = "Deinit" \/ c.state \in Working
  BY <1>u DEF Leaves, States, Working, Polling
<1> QED  BY <1>1, <1>2, <1>3, <1>4

(* What a state handler leaves behind when nothing fails *)
Reaches(c, to, plan, user, d) ==
  /\ c.failures = 0 /\ Succeeds(d.messages) /\ d.state = to
  /\ plan.status = "pending" =>
       /\ d.TransitionState = c.TransitionState /\ d.Status = c.Status
       /\ d.CurrentSequence.done = plan.done /\ d.CurrentSequence.user = user
  /\ plan.status # "pending" =>
       /\ d.TransitionState = "Idle"
       /\ c.TransitionState = "UserEventRunning" =>
            IF c.Status.is = "pending" THEN d.Status.is = plan.status ELSE d.Status = c.Status

LEMMA StateHandlerGoes ==
  ASSUME NEW c, Between(c), NEW event \in UserEvents \cup InternalEvents, NEW op,
         Matches(event, op), NEW same, NEW to, Leaves(c.state, event, to),
         event \in UserEvents \/ to # c.state,
         NEW d \in StateHandler(c, to, event, op, same), ~d.crashed, d.failures = 0
  PROVE  Reaches(c, to, Handler(c, to, event, op, same), event \in UserEvents, d)
<1> DEFINE plan == Handler(c, to, event, op, same)
           lost == IF plan.lost THEN TagConnectionLost(c) ELSE c
           ready == IF plan.clears THEN ClearRemoteDevList(EndCardEmulation(lost)) ELSE lost
<1>1. c \in CxType /\ c.state \in States
  BY DEF Between, CxType
<1>2. to \in States
  BY <1>1 DEF Leaves, States, DiscoveryModes
<1>3. Good(plan, event, to)
  BY <1>1, GoodHandler
<1>4. /\ ReadsList(c, to, event) /\ c.list = None => d = [c EXCEPT !.crashed = TRUE]
      /\ ~(ReadsList(c, to, event) /\ c.list = None) =>
           IF plan.status # "pending" THEN d = EventDone([ready EXCEPT !.state = to], plan.status)
           ELSE \E e \in SequenceStart(ready, plan, event \in UserEvents) : d = [e EXCEPT !.state = to]
  BY DEF StateHandler
<1> HIDE DEF plan
<1>5. Aside(c, ready) /\ ready.failures = c.failures
  <2>1. Aside(c, lost) /\ lost \in CxType /\ lost.failures = c.failures
    BY <1>1, ListAside, Failures DEF Aside
  <2> HIDE DEF lost
  <2> DEFINE card == EndCardEmulation(lost)
  <2>2. card \in CxType /\ Aside(lost, card) /\ card.failures = lost.failures
    BY <2>1, ListAside, Failures DEF Aside
  <2> HIDE DEF card
  <2>3. Aside(card, ClearRemoteDevList(card)) /\ ClearRemoteDevList(card).failures = card.failures
    BY <2>2, ListAside, Failures
  <2>4. Aside(c, ClearRemoteDevList(card)) /\ ClearRemoteDevList(card).failures = c.failures
    BY <2>1, <2>2, <2>3, AsideAside
  <2> QED  BY <2>1, <2>4 DEF card
<1> HIDE DEF ready
<1>6. Between(ready) /\ ready \in CxType
  BY <1>5 DEF Aside, Between
<1>7. ~(ReadsList(c, to, event) /\ c.list = None)
  <2>1. ASSUME ReadsList(c, to, event), c.list = None PROVE FALSE
    <3>1. d = [c EXCEPT !.crashed = TRUE]
      BY <1>4, <2>1
    <3>2. d.crashed
      BY <3>1, <1>1 DEF CxType
    <3> QED  BY <3>2
  <2> QED  BY <2>1
<1>8. CASE plan.status # "pending"
  <2> DEFINE e == [ready EXCEPT !.state = to]
  <2>1. d = EventDone(e, plan.status) /\ plan.status \in Ended
    BY <1>3, <1>4, <1>7, <1>8 DEF Good, Ended
  <2>2. /\ e \in CxType /\ e.state = to /\ e.messages = ready.messages
        /\ e.TransitionState = ready.TransitionState /\ e.Status = ready.Status
    BY <1>2, <1>6, InState
  <2>3. e.failures = ready.failures
    BY <1>6, Failures
  <2> HIDE DEF e
  <2>4. /\ d.state = e.state /\ d.TransitionState = "Idle"
        /\ NoResume(e.messages) => NoResume(d.messages)
        /\ e.TransitionState = "UserEventRunning" /\ e.Status.is # "pending" => d.Status = e.Status
        /\ d \in CxType
    BY <2>1, <2>2, EventDoneIs
  <2>5. e.TransitionState = "UserEventRunning" /\ e.Status.is = "pending" =>
          d.Status.is = plan.status
    BY <2>1, <2>2, DoneStatus
  <2>6. c.failures = 0
    BY <2>1, <2>2, <2>3, <1>5, Failures
  <2>7. Succeeds(d.messages)
    <3>1. NoResume(d.messages)
      BY <2>2, <2>4, <1>6 DEF Between
    <3>2. d.messages \in Seq(Message)
      BY <2>4 DEF CxType
    <3> QED  BY <3>1, <3>2, SuccessTold
  <2>8. e.TransitionState = c.TransitionState /\ e.Status = c.Status
    BY <2>2, <1>5 DEF Aside
  <2> QED  BY <2>2, <2>4, <2>5, <2>6, <2>7, <2>8, <1>8 DEF Reaches, plan
<1>9. CASE plan.status = "pending"
  <2>1. PICK e \in SequenceStart(ready, plan, event \in UserEvents) : d = [e EXCEPT !.state = to]
    BY <1>4, <1>7, <1>9
  <2>2. NoResume(ready.messages) /\ ~ready.IsDeactivatePending /\ (event \in UserEvents) \in BOOLEAN
    BY <1>6 DEF Between
  <2>3. /\ e \in CxType /\ Kept(ready, e)
        /\ e.CurrentSequence.done = plan.done
        /\ e.CurrentSequence.user = (event \in UserEvents)
    BY <2>2, <1>3, <1>6, <1>9, StartCarries
  <2>4. /\ d.state = to /\ d.TransitionState = e.TransitionState /\ d.Status = e.Status
        /\ d.messages = e.messages /\ d.CurrentSequence = e.CurrentSequence
    BY <1>2, <2>1, <2>3, InState
  <2>5. e.failures = 0
    <3>1. d.failures = e.failures
      BY <2>1, <2>3, Failures
    <3> QED  BY <3>1
  <2>6. ready.failures = 0 /\ Succeeds(e.messages)
    BY <2>2, <2>5, <1>3, <1>6, <1>9, StartSucceeds
  <2>7. d.TransitionState = c.TransitionState /\ d.Status = c.Status
    BY <2>3, <2>4, <1>5 DEF Kept, Aside
  <2> QED  BY <2>3, <2>4, <2>6, <2>7, <1>5, <1>9 DEF Reaches, plan
<1> QED  BY <1>8, <1>9

(* An event that ends at once *)
LEMMA DoneGoes ==
  ASSUME NEW c, Between(c), NEW status \in Ended, EventDone(c, status).failures = 0
  PROVE  LET d == EventDone(c, status)
         IN /\ c.failures = 0 /\ Succeeds(d.messages) /\ d.state = c.state
            /\ d.TransitionState = "Idle"
            /\ c.TransitionState = "UserEventRunning" /\ c.Status.is # "pending" =>
                 d.Status = c.Status
<1> DEFINE d == EventDone(c, status)
<1>1. c \in CxType /\ NoResume(c.messages)
  BY DEF Between
<1>2. /\ d \in CxType /\ d.state = c.state /\ d.TransitionState = "Idle"
      /\ NoResume(c.messages) => NoResume(d.messages)
      /\ c.TransitionState = "UserEventRunning" /\ c.Status.is # "pending" => d.Status = c.Status
  BY <1>1, EventDoneIs
<1>3. d.failures = c.failures
  BY <1>1, Failures
<1> HIDE DEF d
<1>4. d.messages \in Seq(Message)
  BY <1>2 DEF CxType
<1>5. Succeeds(d.messages)
  BY <1>1, <1>2, <1>4, SuccessTold
<1>6. c.failures = 0
  BY <1>3 DEF d
<1> QED  BY <1>2, <1>5, <1>6 DEF d

(* The event of a caller runs a sequence that answers it, or is done. *)
LEMMA UserGoes ==
  ASSUME NEW c, Between(c), c.TransitionState = "UserEventRunning", c.Status.is = "pending",
         NEW event \in UserEvents, NEW op, Matches(event, op), NEW same,
         NEW d \in EventProcess(c, event, op, same), ~d.crashed, d.failures = 0
  PROVE  LET to == FindTargetState(c, event)
         IN /\ c.failures = 0 /\ Succeeds(d.messages)
            /\ d.state = IF to = None THEN c.state ELSE to
            /\ d.TransitionState = "UserEventRunning" =>
                 /\ d.Status = c.Status
                 /\ d.CurrentSequence.done \in UserDones /\ d.CurrentSequence.user
            /\ event \in {"Init", "Deinit"} /\ to # None => d.TransitionState = "UserEventRunning"
            /\ event \in Steering /\ to # None /\ d.TransitionState # "UserEventRunning" =>
                 d.Status.is = "ok"
<1> DEFINE to == FindTargetState(c, event)
<1>1. c \in CxType /\ c.state \in States
  BY DEF Between, CxType
<1>2. to # None => Leaves(c.state, event, to)
  BY <1>1, Targets
<1>3. \/ to = None /\ d = EventDone(c, "failed")
      \/ to # None /\ d \in StateHandler(c, to, event, op, same)
  BY DEF EventProcess
<1> HIDE DEF to
<1>4. CASE to = None /\ d = EventDone(c, "failed")
  <2>1. "failed" \in Ended
    BY DEF Ended
  <2>2. /\ c.failures = 0 /\ Succeeds(d.messages) /\ d.state = c.state
        /\ d.TransitionState = "Idle"
    BY <1>4, <2>1, DoneGoes
  <2> QED  BY <1>4, <2>2 DEF to
<1>5. CASE to # None /\ d \in StateHandler(c, to, event, op, same)
  <2> DEFINE plan == Handler(c, to, event, op, same)
  <2>1. Reaches(c, to, plan, event \in UserEvents, d)
    BY <1>2, <1>5, StateHandlerGoes
  <2>2. Kind(plan, event)
    BY <1>1, <1>2, <1>5, KindHandler
  <2> HIDE DEF plan
  <2>3. c.failures = 0 /\ Succeeds(d.messages) /\ d.state = to
    BY <2>1 DEF Reaches
  <2>4. d.TransitionState = "UserEventRunning" =>
          /\ d.Status = c.Status
          /\ d.CurrentSequence.done \in UserDones /\ d.CurrentSequence.user
    BY <2>1, <2>2 DEF Reaches, Kind
  <2>5. event \in {"Init", "Deinit"} => d.TransitionState = "UserEventRunning"
    BY <2>1, <2>2 DEF Reaches, Kind
  <2>6. event \in Steering /\ d.TransitionState # "UserEventRunning" => d.Status.is = "ok"
    BY <2>1, <2>2 DEF Reaches, Kind
  <2> QED  BY <1>5, <2>3, <2>4, <2>5, <2>6 DEF to
<1> QED  BY <1>3, <1>4, <1>5

(* The completion of the event of a caller, whose sequence has answered *)
Concludes(c, event) ==
  /\ event = "ReqCompleted" /\ c.state \in {"Idle", "Init", "Shutdown"} \cup Working
  /\ c.TransitionState = "UserEventRunning" /\ c.Status.is # "pending"

(* An event that is chained, when nothing fails *)
Advances(c, event, d) ==
  /\ c.failures = 0 /\ Succeeds(d.messages)
  /\ d.state = IF FindTargetState(c, event) = None THEN c.state ELSE FindTargetState(c, event)
  /\ Concludes(c, event) => d.TransitionState = "Idle" /\ d.Status = c.Status

LEMMA ChainGoes ==
  ASSUME NEW c, Between(c), NEW event \in Quiets, NEW op, Matches(event, op), NEW same,
         NEW d \in EventProcess(c, event, op, same), ~d.crashed, d.failures = 0
  PROVE  Advances(c, event, d)
<1> DEFINE to == FindTargetState(c, event)
           answered == Concludes(c, event)
<1>1. c \in CxType /\ c.state \in States
  BY DEF Between, CxType
<1>e. event \in InternalEvents /\ event \notin UserEvents
  BY DEF Quiets, InternalEvents, UserEvents
<1>2. to # None => Leaves(c.state, event, to)
  BY <1>1, <1>e, Targets
<1>3. \/ d = EventDone(c, "failed") /\ to = None
      \/ d = EventDone(c, "ok") /\ to = c.state
      \/ to # None /\ to # c.state /\ d \in StateHandler(c, to, event, op, same)
  BY <1>e DEF EventProcess
<1>i. "Idle" \in States /\ None \notin States
  BY DEF States, None
<1> HIDE DEF to
<1>4. CASE \/ d = EventDone(c, "failed") /\ to = None
           \/ d = EventDone(c, "ok") /\ to = c.state
  <2>1. "failed" \in Ended /\ "ok" \in Ended
    BY DEF Ended
  <2>2. /\ c.failures = 0 /\ Succeeds(d.messages) /\ d.state = c.state
        /\ d.TransitionState = "Idle"
        /\ c.TransitionState = "UserEventRunning" /\ c.Status.is # "pending" =>
             d.Status = c.Status
    BY <1>4, <2>1, DoneGoes
  <2> QED  BY <1>1, <1>4, <1>i, <2>2 DEF to, Concludes, Advances
<1>5. CASE to # None /\ to # c.state /\ d \in StateHandler(c, to, event, op, same)
  <2> DEFINE plan == Handler(c, to, event, op, same)
  <2>1. Reaches(c, to, plan, event \in UserEvents, d)
    BY <1>2, <1>5, <1>e, StateHandlerGoes
  <2>2. answered => plan.status # "pending"
    <3>1. answered => (c.state = "Init" /\ to = "RfIdle") \/ (c.state = "Shutdown" /\ to = "Idle")
      BY <1>2, <1>5 DEF Concludes, Leaves, Working, Polling
    <3>2. answered => plan = Return("ok")
      BY <3>1 DEF Handler
    <3> QED  BY <3>2 DEF Return, Start
  <2> HIDE DEF plan
  <2>3. c.failures = 0 /\ Succeeds(d.messages) /\ d.state = to
    BY <2>1 DEF Reaches
  <2>4. answered => d.TransitionState = "Idle" /\ d.Status = c.Status
    BY <2>1, <2>2 DEF Reaches, Concludes
  <2> QED  BY <1>5, <2>3, <2>4 DEF to, Advances
<1> QED  BY <1>3, <1>4, <1>5

(* A sequence that succeeds: that of a caller answers it and is done. *)
LEMMA OkCompletes ==
  ASSUME NEW seq, seq.done \in Dones, seq.user \in BOOLEAN
  PROVE  LET end == SeqComplete(seq, "ok")
         IN /\ end.event \in Quiets
            /\ seq.done \in UserDones /\ seq.user => end.event = "ReqCompleted" /\ end.answers
<1> DEFINE end == SeqComplete(seq, "ok")
           Ends(e, event, answers) == e.event = event /\ e.answers = answers
<1>1. \A event, answers :
        /\ Ends(Completion(event, answers), event, answers)
        /\ Ends([Completion(event, answers) EXCEPT !.clears = TRUE], event, answers)
        /\ Ends([Completion(event, answers) EXCEPT !.submits = TRUE], event, answers)
  BY DEF Completion
<1>2. /\ OrFailed("ok") = "ReqCompleted" /\ OrDeactivated("ok") = "ReqCompleted"
      /\ OrRecovery("ok") = "ReqCompleted" /\ OrLinkFailed("ok") = "ReqCompleted"
  BY DEF OrFailed, OrDeactivated, OrRecovery, OrLinkFailed
<1>q. {"ReqCompleted", "Activated", "Deactivated"} \subseteq Quiets
  BY DEF Quiets
<1> HIDE DEF Ends
<1>3. CASE seq.done = "Init"
  <2>1. Ends(end, "ReqCompleted", TRUE)
    BY <1>1, <1>2, <1>3 DEF SeqComplete, InitSeqComplete
  <2> QED  BY <2>1, <1>q DEF Ends
<1>4. CASE seq.done = "Shutdown"
  <2>1. Ends(end, "ReqCompleted", seq.user)
    BY <1>1, <1>2, <1>4 DEF SeqComplete, ShutdownSeqComplete
  <2> QED  BY <2>1, <1>q DEF Ends
<1>5. CASE seq.done = "Recovery"
  <2>1. Ends(end, "ReqCompleted", FALSE)
    BY <1>1, <1>2, <1>5 DEF SeqComplete, RecoverySeqComplete
  <2> QED  BY <2>1, <1>5, <1>q DEF Ends, UserDones, Answering, Clearing
<1>6. CASE seq.done = "StartRfDiscovery"
  <2>1. Ends(end, "ReqCompleted", seq.user)
    BY <1>1, <1>2, <1>6 DEF SeqComplete, StartRfDiscoverySeqComplete
  <2> QED  BY <2>1, <1>q DEF Ends
<1>7. CASE seq.done \in Clearing
  <2>1. Ends(end, "ReqCompleted", seq.user)
    BY <1>1, <1>2, <1>7 DEF SeqComplete, Clearing, Active2RfIdleSeqComplete,
                            Active2RfDiscoverySeqComplete
  <2> QED  BY <2>1, <1>q DEF Ends
<1>8. CASE seq.done \in {"TagDiscovered", "P2PDiscovered", "BarcodeRead"}
  <2>1. \E event \in {"ReqCompleted", "Activated", "Deactivated"} : Ends(end, event, FALSE)
    BY <1>1, <1>2, <1>8 DEF SeqComplete, DiscoveredSeqComplete
  <2> QED  BY <2>1, <1>8, <1>q DEF Ends, UserDones, Answering, Clearing
<1>9. CASE seq.done \in {"TagReadNdef", "SNEPConnect"}
  <2>1. Ends(end, "ReqCompleted", FALSE)
    BY <1>1, <1>2, <1>9 DEF SeqComplete, TagReadNdefSeqComplete, SNEPConnectSeqComplete
  <2> QED  BY <2>1, <1>9, <1>q DEF Ends, UserDones, Answering, Clearing
<1>10. CASE seq.done \in {"StopRfDiscovery", "TagActivate", "SESetMode", "SetRoutingTable",
                          "SEEnumerate", "ESETransceive", "ESEReset", "RfDiscoveryConfig",
                          "TagDeactivate"}
  <2>1. Ends(end, "ReqCompleted", TRUE)
    BY <1>1, <1>2, <1>10 DEF SeqComplete, StopRfDiscoverySeqComplete, TagActivateSeqComplete,
                             SESeqComplete, RfDiscoveryConfigSeqComplete, TagDeactivateSeqComplete
  <2> QED  BY <2>1, <1>q DEF Ends
<1>11. CASE seq.done \in {"TagWriteNdef", "TagConvertReadOnly", "TargetTransceive",
                          "TargetPresenceCheck", "SNEPClientPut", "RemoteDevSend"}
  <2>1. end = TagSeqComplete(seq.done, "ok")
    BY <1>11 DEF SeqComplete
  <2>2. Ends(end, "ReqCompleted", TRUE)
    BY <1>1, <1>2, <1>11, <2>1 DEF TagSeqComplete
  <2> QED  BY <2>2, <1>q DEF Ends
<1> QED  BY <1>3, <1>4, <1>5, <1>6, <1>7, <1>8, <1>9, <1>10, <1>11 DEF Dones, Answering, Silent

(* The completion of a sequence chains its event when it has set the status. *)
Chains(c, status, f) ==
  LET end == SeqComplete(c.CurrentSequence, status)
  IN /\ Between(f) /\ f.state = c.state /\ f.TransitionState = c.TransitionState
     /\ f.failures = c.failures
     /\ f.Status.is = IF end.answers THEN status ELSE c.Status.is

LEMMA CompleteChains ==
  ASSUME NEW c, Ending(c), NEW status \in Ended, NEW d \in SequenceComplete(c, status)
  PROVE  \E f : /\ Chains(c, status, f)
                /\ d \in EventProcess(f, SeqComplete(c.CurrentSequence, status).event, None, FALSE)
<1> DEFINE seq == c.CurrentSequence
           end == SeqComplete(seq, status)
           card == IF seq.done = "PCDActive2RfIdle" THEN EndCardEmulation(c) ELSE c
           list == IF end.clears THEN ClearRemoteDevList(card) ELSE card
           answer == IF end.answers THEN [is |-> status, of |-> c.request] ELSE list.Status
           works == list.works + (IF end.submits THEN 1 ELSE 0)
           f == Closed(list, answer, works)
<1>1. c \in CxType
  BY DEF Ending
<1>4. d \in ChainEvent(f, end.event)
  BY DEF SequenceComplete, Closed
<1> HIDE DEF end, seq
<1>5. Aside(c, card) /\ card \in CxType /\ card.failures = c.failures
  BY <1>1, ListAside, Failures DEF Aside
<1> HIDE DEF card
<1>6. Aside(card, ClearRemoteDevList(card)) /\ ClearRemoteDevList(card).failures = card.failures
  BY <1>5, ListAside, Failures
<1>7. Aside(c, list) /\ list.failures = c.failures
  BY <1>5, <1>6, AsideAside
<1> HIDE DEF list
<1>8. list \in CxType
  BY <1>7 DEF Aside
<1>9. answer \in StatusType /\ works \in Nat
  <2>1. list.Status \in StatusType /\ c.request \in Nat /\ list.works \in Nat
    BY <1>1, <1>8 DEF CxType
  <2>2. [is |-> status, of |-> c.request] \in StatusType
    BY <2>1 DEF StatusType
  <2> QED  BY <2>1, <2>2
<1>10. answer.is = IF end.answers THEN status ELSE c.Status.is
  BY <1>7 DEF Aside
<1> HIDE DEF answer, works
<1>11. /\ f \in CxType /\ f.CurrentSequence = NoSequence /\ f.Status = answer
       /\ f.state = list.state /\ f.TransitionState = list.TransitionState
       /\ f.crashed = list.crashed /\ f.messages = list.messages /\ f.awaited = list.awaited
       /\ f.IsDeactivatePending = list.IsDeactivatePending
  BY <1>8, <1>9, ClosedIs
<1>f. f.failures = list.failures
  BY <1>8, Failures
<1> HIDE DEF f
<1>12. Between(f)
  BY <1>7, <1>11 DEF Ending, Aside, Between
<1>13. f.state = c.state /\ f.TransitionState = c.TransitionState
  BY <1>7, <1>11 DEF Aside
<1>14. Chains(c, status, f)
  BY <1>7, <1>10, <1>11, <1>12, <1>13, <1>f DEF Chains, end, seq
<1>15. d \in EventProcess(f, end.event, None, FALSE)
  BY <1>4, <1>12 DEF ChainEvent, Between
<1> QED  BY <1>14, <1>15 DEF end, seq

(* Where the events of callers, with a sequence that succeeds, come to rest *)
Rests(state) == CASE state = "Init" -> "RfIdle" [] state = "Shutdown" -> "Idle" [] OTHER -> state

Asked(c) ==
  /\ c.TransitionState = "UserEventRunning"
  /\ c.CurrentSequence.done \in UserDones /\ c.CurrentSequence.user
Resting(c, d) == d.TransitionState = "Idle" /\ d.Status.is = "ok" /\ d.state = Rests(c.state)

LEMMA SequenceCompleteGoes ==
  ASSUME NEW c, Ending(c), NEW d \in SequenceComplete(c, "ok"), ~d.crashed, d.failures = 0
  PROVE  /\ c.failures = 0 /\ Succeeds(d.messages)
         /\ c.TransitionState # "UserEventRunning" => Stays(c, d)
         /\ Asked(c) /\ c.state \in {"Idle", "Init", "Shutdown"} \cup Working => Resting(c, d)
<1> DEFINE end == SeqComplete(c.CurrentSequence, "ok")
<1>1. /\ end.event \in Quiets
      /\ Asked(c) => end.event = "ReqCompleted" /\ end.answers
  <2>1. c.CurrentSequence.done \in Dones /\ c.CurrentSequence \in SequenceType
    BY DEF Ending, InSequence, CxType
  <2>2. c.CurrentSequence.user \in BOOLEAN
    BY <2>1 DEF SequenceType
  <2> QED  BY <2>1, <2>2, OkCompletes DEF Asked
<1> HIDE DEF end
<1>2. "ok" \in Ended
  BY DEF Ended
<1>3. PICK f : Chains(c, "ok", f) /\ d \in EventProcess(f, end.event, None, FALSE)
  BY <1>2, CompleteChains DEF end
<1>4. /\ Between(f) /\ f.state = c.state /\ f.TransitionState = c.TransitionState
      /\ f.failures = c.failures
      /\ end.answers => f.Status.is = "ok"
  BY <1>3 DEF Chains, end
<1> DEFINE event == end.event
<1>5. event \in Quiets /\ d \in EventProcess(f, event, None, FALSE)
  BY <1>1, <1>3
<1>n. Matches(event, None)
  <2>1. event \in InternalEvents
    BY <1>5 DEF Quiets, InternalEvents
  <2> QED  BY <2>1, NoneIsInternal
<1> HIDE DEF event
<1> DEFINE to == FindTargetState(f, event)
<1>g. Advances(f, event, d)
  <2>1. Between(f)
    BY <1>4
  <2> QED  BY <1>5, <1>n, <2>1, ChainGoes
<1>6. /\ f.failures = 0 /\ Succeeds(d.messages)
      /\ d.state = IF to = None THEN f.state ELSE to
      /\ Concludes(f, event) => d.TransitionState = "Idle" /\ d.Status = f.Status
  BY <1>g DEF Advances
<1>s. f.state \in States
  BY <1>4 DEF Between, CxType
<1>7. Stays(c, d)
  <2>1. event \in UserEvents \cup Quiets /\ event \notin Steering
    BY <1>5 DEF Quiets, Steering
  <2>2. Stays(f, d)
    BY <1>6, <1>s, <2>1, StaysTargets
  <2> QED  BY <1>4, <2>2 DEF Stays, Agrees
<1>8. ASSUME Asked(c), c.state \in {"Idle", "Init", "Shutdown"} \cup Working
      PROVE  Resting(c, d)
  <2>1. Concludes(f, event) /\ event = "ReqCompleted" /\ f.Status.is = "ok"
    BY <1>1, <1>4, <1>8 DEF Concludes, Asked, event
  <2>2. d.TransitionState = "Idle" /\ d.Status.is = "ok"
    BY <1>6, <2>1
  <2>3. d.state = Rests(c.state)
    <3>1. c.state = "Init" => to = "RfIdle"
      BY <1>4, <1>s, <2>1, Steers
    <3>2. c.state = "Shutdown" => to = "Idle"
      BY <1>4, <1>s, <2>1, Steers
    <3>3. c.state \in Working => to = c.state
      BY <1>4, <1>s, <2>1, Steers
    <3>4. c.state = "Idle" => d.state = "Idle"
      BY <1>7 DEF Stays
    <3>5. c.state \in Working => c.state # "Init" /\ c.state # "Shutdown" /\ c.state # None
      BY DEF Working, Polling, None
    <3>6. "RfIdle" # None /\ "Idle" # None
      BY DEF None
    <3> HIDE DEF to
    <3>7. c.state = "Init" => d.state = "RfIdle"
      BY <1>6, <3>1, <3>6
    <3>8. c.state = "Shutdown" => d.state = "Idle"
      BY <1>6, <3>2, <3>6
    <3>9. c.state \in Working => d.state = c.state
      BY <1>6, <3>3, <3>5
    <3> QED  BY <1>8, <3>4, <3>5, <3>7, <3>8, <3>9 DEF Rests
  <2> QED  BY <2>2, <2>3 DEF Resting
<1> QED  BY <1>4, <1>6, <1>7, <1>8

(* A failure that has been counted stays counted. *)
LEMMA FailuresStay ==
  ASSUME NEW c, Ending(c), NEW status \in Ended, NEW d \in SequenceComplete(c, status),
         ~d.crashed, d.failures = 0
  PROVE  c.failures = 0
<1> DEFINE end == SeqComplete(c.CurrentSequence, status)
<1>1. PICK f : Chains(c, status, f) /\ d \in EventProcess(f, end.event, None, FALSE)
  BY CompleteChains
<1>2. Between(f) /\ f.failures = c.failures
  BY <1>1 DEF Chains
<1>3. end.event \in InternalEvents
  <2>1. c.CurrentSequence.done \in Dones /\ c.CurrentSequence \in SequenceType
    BY DEF Ending, InSequence, CxType
  <2>2. c.CurrentSequence.user \in BOOLEAN
    BY <2>1 DEF SequenceType
  <2> QED  BY <2>1, <2>2, SeqCompleteIs
<1> DEFINE event == end.event
           to == FindTargetState(f, event)
<1>4. event \in InternalEvents /\ d \in EventProcess(f, event, None, FALSE)
  BY <1>1, <1>3
<1> HIDE DEF event
<1>5. event \notin UserEvents /\ Matches(event, None)
  BY <1>4, NoneIsInternal
<1>6. f \in CxType /\ f.state \in States
  BY <1>2 DEF Between, CxType
<1>7. to # None => Leaves(f.state, event, to)
  BY <1>4, <1>6, Targets
<1>8. \/ d = EventDone(f, "failed") \/ d = EventDone(f, "ok")
      \/ to # None /\ to # f.state /\ d \in StateHandler(f, to, event, None, FALSE)
  BY <1>4, <1>5 DEF EventProcess
<1> HIDE DEF to
<1>9. CASE d = EventDone(f, "failed") \/ d = EventDone(f, "ok")
  BY <1>2, <1>6, <1>9, Failures
<1>10. CASE to # None /\ to # f.state /\ d \in StateHandler(f, to, event, None, FALSE)
  <2>1. Reaches(f, to, Handler(f, to, event, None, FALSE), event \in UserEvents, d)
    BY <1>2, <1>4, <1>5, <1>7, <1>10, StateHandlerGoes
  <2> QED  BY <1>2, <2>1 DEF Reaches
<1> QED  BY <1>8, <1>9, <1>10

(* A sequence that runs on, and what is left of its event *)
Going(c, d) ==
  /\ d.state = c.state /\ d.TransitionState = c.TransitionState /\ d.Status = c.Status
  /\ d.hNotifyComplete = c.hNotifyComplete
  /\ d.CurrentSequence.done = c.CurrentSequence.done
  /\ d.CurrentSequence.user = c.CurrentSequence.user
Settles(c, d) ==
  /\ c.TransitionState # "UserEventRunning" => Stays(c, d)
  /\ Asked(c) /\ c.state \in {"Idle", "Init", "Shutdown"} \cup Working => Resting(c, d)

LEMMA SequenceResumeGoes ==
  ASSUME NEW c, Ending(c), NEW d \in SequenceResume(c, "ok"), ~d.crashed, d.failures = 0
  PROVE  /\ c.failures = 0 /\ Succeeds(d.messages)
         /\ Going(c, d) \/ Settles(c, d)
<1> DEFINE seq == c.CurrentSequence
           f(n) == [c EXCEPT !.CurrentSequence.next = n + 1]
           g(n, s) == StepEffect(f(n), seq.steps[n], s)
<1>1. c \in CxType /\ seq # NoSequence /\ InSequence(seq)
  BY SequenceDiffers DEF Ending
<1>2. PICK r \in SequenceRun(c, seq.steps, seq.next) :
        d \in IF r[2] = "pending" THEN {g(r[1], r[2])} ELSE SequenceComplete(g(r[1], r[2]), r[2])
  BY <1>1 DEF SequenceResume
<1>3. /\ seq.steps \in Seq(StepName) /\ seq.steps # <<>> /\ seq.next \in 1 .. Len(seq.steps) + 1
  BY <1>1 DEF InSequence, Leads
<1>4. /\ r[1] \in 1 .. Len(seq.steps) /\ seq.steps[r[1]] \in StepName
      /\ r[2] \in {"ok", "pending", "failed"}
  BY <1>3, RunEnds
<1> DEFINE n == r[1]
           s == r[2]
           x == seq.steps[n]
           h == Moved(c, n + 1)
           e == StepEffect(h, x, s)
<1>5. d \in IF s = "pending" THEN {e} ELSE SequenceComplete(e, s)
  BY <1>2 DEF Moved
<1>6. n \in 1 .. Len(seq.steps) /\ x \in StepName /\ s \in {"ok", "failed", "pending"}
      /\ n + 1 \in 1 .. Len(seq.steps) + 1 /\ n + 1 \in Int
  BY <1>3, <1>4
<1> HIDE DEF n, s
<1>7. /\ h \in CxType /\ Kept(c, h) /\ h.messages = c.messages
      /\ h.awaited = c.awaited /\ h.IsDeactivatePending = c.IsDeactivatePending
      /\ h.CurrentSequence.steps = seq.steps
      /\ h.CurrentSequence.done = seq.done
      /\ h.CurrentSequence.user = seq.user
      /\ h.CurrentSequence.next = n + 1
  BY <1>1, <1>6, MovedIs
<1>f. h.failures = c.failures /\ c.failures \in Nat
  <2>1. h.failures = c.failures
    BY <1>1, Failures
  <2> QED  BY <2>1, <1>1 DEF CxType
<1> HIDE DEF h, x
<1>8. InSequence(h.CurrentSequence)
  BY <1>1, <1>6, <1>7 DEF InSequence
<1>9. NoResume(h.messages) /\ ~h.IsDeactivatePending
  BY <1>7 DEF Ending
<1>10. /\ e \in CxType /\ Kept(h, e) /\ e.messages = h.messages
       /\ e.CurrentSequence = h.CurrentSequence
       /\ e.failures = IF s = "failed" THEN h.failures + 1 ELSE h.failures
       /\ s # "pending" => e.awaited = None /\ ~e.IsDeactivatePending
  <2>1. /\ e.failures = (IF s = "failed" THEN h.failures + 1 ELSE h.failures)
        /\ e.messages = h.messages
    BY <1>7, StepFailures
  <2>2. /\ e \in CxType /\ Kept(h, e) /\ e.CurrentSequence = h.CurrentSequence
        /\ s # "pending" => e.awaited = None /\ ~e.IsDeactivatePending
    BY <1>6, <1>7, <1>9, StepEffectIs
  <2> QED  BY <2>1, <2>2
<1> HIDE DEF e
<1>11. Going(c, e)
  BY <1>7, <1>10 DEF Going, Kept
<1>12. CASE s = "pending"
  <2>1. d = e /\ e.failures = 0
    BY <1>5, <1>12
  <2>2. Succeeds(e.messages)
    <3>1. e.messages \in Seq(Message) /\ NoResume(e.messages)
      BY <1>9, <1>10 DEF CxType
    <3> QED  BY <3>1, SuccessTold
  <2>3. c.failures = 0
    BY <2>1, <1>10, <1>12, <1>f
  <2> QED  BY <2>1, <2>2, <2>3, <1>11
<1>13. CASE s # "pending"
  <2>1. d \in SequenceComplete(e, s) /\ s \in Ended
    BY <1>5, <1>6, <1>13 DEF Ended
  <2>2. Ending(e)
    <3>1. /\ c.CurrentSequence.done \in Answering \/ c.CurrentSequence.user =>
               c.TransitionState = "UserEventRunning"
          /\ c.CurrentSequence.done \in Clearing => c.state \notin Active
          /\ c.TransitionState # "Idle" /\ ~c.crashed
      BY DEF Ending
    <3>2. e.crashed = c.crashed
      BY <1>7, <1>10 DEF Kept
    <3> QED  BY <3>1, <3>2, <1>8, <1>9, <1>10, <1>11, <1>13 DEF Ending, Going
  <2>3. e.failures = 0
    BY <2>1, <2>2, FailuresStay
  <2>4. s = "ok" /\ c.failures = 0
    BY <2>3, <1>6, <1>10, <1>13, <1>f
  <2>5. /\ Succeeds(d.messages)
        /\ e.TransitionState # "UserEventRunning" => Stays(e, d)
        /\ Asked(e) /\ e.state \in {"Idle", "Init", "Shutdown"} \cup Working => Resting(e, d)
    BY <2>1, <2>2, <2>4, SequenceCompleteGoes
  <2>6. Settles(c, d)
    <3>1. Asked(c) => Asked(e)
      BY <1>11 DEF Asked, Going
    <3>2. e.state = c.state /\ e.TransitionState = c.TransitionState
      BY <1>11 DEF Going
    <3>3. Stays(e, d) => Stays(c, d)
      BY <3>2 DEF Stays, Agrees
    <3>4. Resting(e, d) => Resting(c, d)
      BY <3>2 DEF Resting
    <3> QED  BY <2>5, <3>1, <3>2, <3>3, <3>4 DEF Settles
  <2> QED  BY <2>4, <2>5, <2>6
<1> QED  BY <1>12, <1>13

(* The events of callers in the queue are all of this kind. *)
Only(events, x) ==
  \A i \in DOMAIN events : events[i].event \in UserEvents => events[i].event = x

LEMMA OnlyIs ==
  ASSUME NEW events \in Seq(EventType), NEW x
  PROVE  /\ NoUser(events) => Only(events, x)
         /\ \A e \in EventType :
              /\ e.event \notin UserEvents /\ Only(events, x) => Only(Append(events, e), x)
              /\ NoUser(events) => Only(Append(events, e), e.event)
         /\ events # <<>> /\ Only(events, x) =>
              /\ Only(Tail(events), x)
              /\ Head(events).event \in UserEvents => Head(events).event = x
<1>1. NoUser(events) => Only(events, x)
  BY DEF NoUser, Only
<1>2. ASSUME NEW e \in EventType
      PROVE  /\ e.event \notin UserEvents /\ Only(events, x) => Only(Append(events, e), x)
             /\ NoUser(events) => Only(Append(events, e), e.event)
  <2> DEFINE s == Append(events, e)
  <2>1. DOMAIN s = DOMAIN events \cup {Len(events) + 1} /\ s[Len(events) + 1] = e
    OBVIOUS
  <2>2. \A i \in DOMAIN events : s[i] = events[i]
    OBVIOUS
  <2> HIDE DEF s
  <2>3. e.event \notin UserEvents /\ Only(events, x) => Only(s, x)
    BY <2>1, <2>2 DEF Only
  <2>4. NoUser(events) => Only(s, e.event)
    BY <2>1, <2>2 DEF NoUser, Only
  <2> QED  BY <2>3, <2>4 DEF s
<1>3. ASSUME events # <<>>, Only(events, x)
      PROVE  /\ Only(Tail(events), x)
             /\ Head(events).event \in UserEvents => Head(events).event = x
  <2> DEFINE t == Tail(events)
             h == Head(events)
  <2>1. \A i \in DOMAIN t : t[i] = events[i + 1] /\ i + 1 \in DOMAIN events
    BY <1>3
  <2>2. h = events[1] /\ 1 \in DOMAIN events
    BY <1>3
  <2> HIDE DEF t, h
  <2>3. Only(t, x) /\ (h.event \in UserEvents => h.event = x)
    BY <1>3, <2>1, <2>2 DEF Only
  <2> QED  BY <2>3 DEF t, h
<1> QED  BY <1>1, <1>2, <1>3

(* How a step of the machine moves the event of a caller: not at all, to its *)
(* start, or to its end.                                                     *)
Quietly(b, d) ==
  /\ d.TransitionState = "UserEventRunning" <=> b.TransitionState = "UserEventRunning"
  /\ b.TransitionState = "UserEventRunning" =>
       /\ d.state = b.state
       /\ d.CurrentSequence.done = b.CurrentSequence.done
       /\ d.CurrentSequence.user = b.CurrentSequence.user
  /\ b.TransitionState # "UserEventRunning" => Stays(b, d)
  /\ d.Status = b.Status /\ d.hNotifyComplete = b.hNotifyComplete
  /\ \A x : Only(b.PendingStateEvents, x) => Only(d.PendingStateEvents, x)
Begins(b, event, d) ==
  LET to == FindTargetState(b, event)
  IN /\ b.TransitionState # "UserEventRunning" /\ b.hNotifyComplete = 0
     /\ event \in UserEvents
     /\ \A x : Only(b.PendingStateEvents, x) => event = x /\ Only(d.PendingStateEvents, x)
     /\ d.state = IF to = None THEN b.state ELSE to
     /\ d.TransitionState = "UserEventRunning" =>
          /\ d.Status.is = "pending"
          /\ d.CurrentSequence.done \in UserDones /\ d.CurrentSequence.user
     /\ d.TransitionState # "UserEventRunning" => d.hNotifyComplete # 0
     /\ event \in {"Init", "Deinit"} /\ to # None => d.TransitionState = "UserEventRunning"
     /\ event \in Steering /\ to # None /\ d.TransitionState # "UserEventRunning" =>
          d.Status.is = "ok"
Ends(b, d) ==
  /\ b.TransitionState = "UserEventRunning" /\ Resting(b, d)
  /\ d.hNotifyComplete # 0
  /\ \A x : Only(b.PendingStateEvents, x) => Only(d.PendingStateEvents, x)

Stations == {"Idle", "Init", "Shutdown"} \cup Working
Placed(c) == c.TransitionState = "UserEventRunning" => Asked(c) /\ c.state \in Stations
Holds(c, n) == n # 0 /\ (Mine(c, n) \/ Nobodys(c))

LEMMA ResumeMoves ==
  ASSUME NEW b, Fine(b), ~b.crashed, b.messages # <<>>, Head(b.messages).kind = "resume",
         NEW n \in Nat, Holds(b, n),
         NEW d \in SequenceResume(Taken(b), Head(b.messages).status), ~d.crashed, d.failures = 0
  PROVE  /\ b.failures = 0
         /\ Succeeds(b.messages) /\ Placed(b) =>
              Succeeds(d.messages) /\ (Quietly(b, d) \/ Ends(b, d))
<1> DEFINE c == Taken(b)
           status == Head(b.messages).status
<1>1. b \in CxType /\ Sound(b) /\ HasDevice(b) /\ Final(b) /\ b.messages \in Seq(Message)
  BY DEF Fine, CxType
<1>2. /\ c \in CxType /\ Kept(b, c) /\ c.messages = Tail(b.messages)
      /\ c.CurrentSequence = b.CurrentSequence /\ c.awaited = b.awaited
      /\ c.IsDeactivatePending = b.IsDeactivatePending
  BY <1>1, TakenIs
<1>f. c.failures = b.failures
  BY <1>1, Failures
<1>3. /\ ~NoResume(b.messages)
      /\ OneResume(b.messages) => NoResume(c.messages)
  BY <1>1, <1>2, TakeMessage
<1>4. HasDevice(c) /\ Final(c)
  BY <1>1, <1>2 DEF Kept, HasDevice, Final
<1>5. status \in Ended /\ (Succeeds(b.messages) => status = "ok")
  <2>1. Head(b.messages) \in Message
    BY <1>1, TakeMessage
  <2>2. Succeeds(b.messages) => status = "ok"
    BY <1>1, SuccessTold
  <2> QED  BY <2>1, <2>2 DEF Message
<1>d. d \in SequenceResume(c, status)
  OBVIOUS
<1> HIDE DEF c, status
<1>6. b.CurrentSequence # NoSequence /\ Carried(b) /\ b.awaited = None /\ OneResume(b.messages)
  BY <1>1, <1>3 DEF Sound, Carried
<1>7. ~b.IsDeactivatePending
  <2>1. None # "LlcpDeactivate"
    BY DEF None
  <2> QED  BY <1>6, <2>1 DEF Carried
<1>8. Ending(c)
  BY <1>1, <1>2, <1>3, <1>6, <1>7 DEF Ending, Sound, Carried, Kept
<1>k. c.failures = 0
  <2>1. CASE status = "ok"
    BY <1>8, <1>d, <2>1, SequenceResumeGoes
  <2>2. CASE status # "ok"
    <3>1. d \in SequenceComplete(c, status)
      BY <1>2, <1>6, <1>d, <2>2 DEF SequenceResume
    <3> QED  BY <1>5, <1>8, <3>1, FailuresStay
  <2> QED  BY <2>1, <2>2
<1> SUFFICES ASSUME Succeeds(b.messages), Placed(b)
             PROVE  Succeeds(d.messages) /\ (Quietly(b, d) \/ Ends(b, d))
  BY <1>f, <1>k
<1>9. Followed(c, d)
  BY <1>4, <1>5, <1>8, <1>d, SequenceResumeWell DEF Well
<1>10. /\ Succeeds(d.messages)
       /\ Going(c, d) \/ Settles(c, d)
  BY <1>5, <1>8, <1>d, SequenceResumeGoes
<1>11. d.PendingStateEvents = b.PendingStateEvents
  BY <1>2, <1>9 DEF Followed, Kept
<1>12. CASE Going(c, d)
  <2>1. Stays(b, d)
    BY <1>2, <1>12 DEF Going, Kept, Stays, Agrees
  <2>2. Quietly(b, d)
    BY <1>2, <1>11, <1>12, <2>1 DEF Quietly, Going, Kept
  <2> QED  BY <2>2, <1>10
<1>13. CASE Settles(c, d) /\ c.TransitionState # "UserEventRunning"
  <2>1. Stays(c, d)
    BY <1>13 DEF Settles
  <2>2. Stays(b, d)
    BY <1>2, <2>1 DEF Kept, Stays, Agrees
  <2>3. Quietly(b, d)
    BY <1>2, <1>9, <1>11, <1>13, <2>2 DEF Quietly, Kept, Followed
  <2> QED  BY <2>3, <1>10
<1>14. CASE Settles(c, d) /\ c.TransitionState = "UserEventRunning"
  <2>1. b.TransitionState = "UserEventRunning" /\ b.state = c.state
    BY <1>2, <1>14 DEF Kept
  <2>2. Asked(c) /\ c.state \in Stations
    BY <1>2, <2>1 DEF Placed, Asked, Kept
  <2>3. Resting(c, d)
    BY <1>14, <2>2 DEF Settles, Stations
  <2>4. Resting(b, d)
    BY <2>1, <2>3 DEF Resting
  <2>5. d.hNotifyComplete # 0
    <3>1. Mine(b, n)
      BY <2>1 DEF Holds, Nobodys
    <3>2. c.request = n /\ n # 0
      BY <2>1, <3>1, <1>2 DEF Mine, Kept, Holds
    <3>3. d.TransitionState = "Idle"
      BY <2>3 DEF Resting
    <3> QED  BY <1>9, <1>14, <3>2, <3>3 DEF Followed
  <2>6. Ends(b, d)
    BY <2>1, <2>4, <2>5, <1>11 DEF Ends
  <2> QED  BY <2>6, <1>10
<1> QED  BY <1>10, <1>12, <1>13, <1>14

LEMMA SameTarget ==
  ASSUME NEW b, NEW f, f.state = b.state, f.bIsTagPresent = b.bIsTagPresent, NEW event
  PROVE  FindTargetState(f, event) = FindTargetState(b, event)
<1>1. \A target : Connect(f, target) = Connect(b, target)
  BY DEF Connect
<1> QED  BY <1>1 DEF FindTargetState

LEMMA TagKept ==
  ASSUME NEW c \in CxType
  PROVE  /\ Taken(c).bIsTagPresent = c.bIsTagPresent
         /\ \A events, request, running :
              Picked(c, events, request, running).bIsTagPresent = c.bIsTagPresent
<1>1. Taken(c).bIsTagPresent = c.bIsTagPresent
  BY DEF CxType, Taken
<1>2. \A events, request, running :
        Picked(c, events, request, running).bIsTagPresent = c.bIsTagPresent
  BY DEF CxType, Picked
<1> QED  BY <1>1, <1>2

LEMMA NextMoves ==
  ASSUME NEW b, Fine(b), ~b.crashed, b.messages # <<>>, Head(b.messages).kind = "next",
         NEW n \in Nat, Holds(b, n), NEW same,
         NEW d \in ProcessNextQueuedEvent(Taken(b), same), ~d.crashed, d.failures = 0
  PROVE  /\ b.failures = 0 /\ (Succeeds(b.messages) => Succeeds(d.messages))
         /\ Quietly(b, d) \/ \E event : Begins(b, event, d)
<1> DEFINE c == Taken(b)
<1>1. b \in CxType /\ Sound(b) /\ HasDevice(b) /\ Final(b) /\ b.messages \in Seq(Message)
      /\ b.PendingStateEvents \in Seq(EventType)
  BY DEF Fine, CxType
<1>2. /\ c \in CxType /\ Kept(b, c) /\ c.messages = Tail(b.messages)
      /\ c.CurrentSequence = b.CurrentSequence /\ c.awaited = b.awaited
      /\ c.IsDeactivatePending = b.IsDeactivatePending
  BY <1>1, TakenIs
<1>f. c.failures = b.failures /\ c.bIsTagPresent = b.bIsTagPresent
  BY <1>1, Failures, TagKept
<1>3. /\ NoResume(b.messages) => NoResume(c.messages)
      /\ Succeeds(b.messages) => Succeeds(c.messages)
  BY <1>1, <1>2, TakeMessage, SuccessTold
<1>4. HasDevice(c) /\ Final(c)
  BY <1>1, <1>2 DEF Kept, HasDevice, Final
<1>d. d \in ProcessNextQueuedEvent(c, same)
  OBVIOUS
<1> HIDE DEF c
<1>5. CASE c.TransitionState # "Idle" \/ c.PendingStateEvents = <<>>
  <2>1. d = c
    BY <1>5, <1>d DEF ProcessNextQueuedEvent
  <2>2. Stays(b, c)
    BY <1>2 DEF Kept, Stays, Agrees
  <2>3. Quietly(b, c)
    BY <1>2, <2>2 DEF Kept, Quietly
  <2> QED  BY <2>1, <2>3, <1>3, <1>f
<1>6. CASE c.TransitionState = "Idle" /\ c.PendingStateEvents # <<>>
  <2> DEFINE e == Head(c.PendingStateEvents)
             running == IF e.event \in UserEvents THEN "UserEventRunning"
                        ELSE "InternalEventRunning"
             rest == Tail(c.PendingStateEvents)
             request == e.request
             f == Picked(c, rest, request, running)
  <2>1. d \in EventProcess(f, e.event, e.op, same)
    BY <1>6, <1>d DEF ProcessNextQueuedEvent, Picked
  <2>2. c.PendingStateEvents \in Seq(EventType)
    BY <1>2 DEF CxType
  <2>3. rest \in Seq(EventType) /\ e \in EventType
    BY <1>6, <2>2, TakeOwner
  <2>4. /\ NoUser(c.PendingStateEvents) => e.event \notin UserEvents
        /\ \A k : OneUser(c.PendingStateEvents, k) /\ e.event \in UserEvents =>
             NoUser(rest) /\ request = k
    BY <1>6, <2>2, TakeOwner
  <2>x. \A x : Only(c.PendingStateEvents, x) =>
             /\ Only(rest, x)
             /\ e.event \in UserEvents => e.event = x
    BY <1>6, <2>2, OnlyIs
  <2>5. /\ e.event \in UserEvents \cup Quiets /\ e.event \in UserEvents \cup InternalEvents
        /\ e.event \notin {"ReqCompleted", "Failed", "Recovery"}
        /\ Matches(e.event, e.op)
    BY <2>3 DEF EventType, Reports, InternalEvents, Quiets, UserEvents
  <2>r. request \in Nat
    BY <2>3 DEF EventType
  <2>6. /\ running \in TransitionStates /\ running # "Idle"
        /\ running = "UserEventRunning" <=> e.event \in UserEvents
    BY DEF TransitionStates
  <2> HIDE DEF running, rest, request, e
  <2>7. /\ f \in CxType /\ f.state = c.state /\ f.list = c.list /\ f.crashed = c.crashed
        /\ f.Status = c.Status /\ f.hNotifyComplete = c.hNotifyComplete
        /\ f.messages = c.messages /\ f.CurrentSequence = c.CurrentSequence
        /\ f.awaited = c.awaited /\ f.IsDeactivatePending = c.IsDeactivatePending
        /\ f.PendingStateEvents = rest /\ f.request = request
        /\ f.TransitionState = running
    BY <1>2, <2>3, <2>r, <2>6, PickedIs
  <2>f. f.failures = c.failures /\ f.bIsTagPresent = c.bIsTagPresent
    BY <1>2, Failures, TagKept
  <2> HIDE DEF f
  <2>8. Between(f) /\ f.state \in States
    BY <1>1, <1>2, <1>3, <1>6, <2>6, <2>7 DEF Between, Sound, Kept, CxType
  <2>9. HasDevice(f) /\ Final(f)
    BY <1>4, <2>7 DEF HasDevice, Final
  <2>10. Followed(f, d)
    BY <2>1, <2>5, <2>6, <2>7, <2>8, <2>9, EventProcessWell DEF Well
  <2>11. d.PendingStateEvents = rest /\ f.state = b.state
         /\ b.TransitionState = "Idle" /\ b.PendingStateEvents = c.PendingStateEvents
         /\ f.Status = b.Status /\ f.hNotifyComplete = b.hNotifyComplete
    BY <1>2, <1>6, <2>7, <2>10 DEF Followed, Kept
  <2>12. CASE e.event \notin UserEvents
    <3>1. e.event \in Quiets /\ e.event \notin Steering
      BY <2>5, <2>12 DEF Quiets, Steering
    <3>2. Advances(f, e.event, d)
      BY <2>1, <2>5, <2>8, <3>1, ChainGoes
    <3>3. Stays(f, d)
      BY <2>8, <3>1, <3>2, StaysTargets DEF Advances
    <3>4. Stays(b, d)
      BY <2>11, <3>3 DEF Stays, Agrees
    <3>5. /\ d.TransitionState # "UserEventRunning" /\ d.Status = b.Status
          /\ d.hNotifyComplete = b.hNotifyComplete
      BY <2>6, <2>7, <2>10, <2>11, <2>12 DEF Followed
    <3>6. Quietly(b, d)
      BY <2>x, <2>11, <3>4, <3>5 DEF Quietly
    <3> QED  BY <3>2, <3>6, <1>f, <2>f DEF Advances
  <2>13. CASE e.event \in UserEvents
    <3> DEFINE event == e.event
               to == FindTargetState(f, event)
    <3>1. /\ n # 0 /\ OneUser(b.PendingStateEvents, n) /\ b.Status.is = "pending"
          /\ b.hNotifyComplete = 0
      BY <2>4, <2>11, <2>13 DEF Holds, Mine, Nobodys
    <3>2. f.TransitionState = "UserEventRunning" /\ f.Status.is = "pending"
      BY <2>6, <2>7, <2>11, <2>13, <3>1
    <3>3. /\ f.failures = 0 /\ Succeeds(d.messages)
          /\ d.state = IF to = None THEN f.state ELSE to
          /\ d.TransitionState = "UserEventRunning" =>
               /\ d.Status = f.Status
               /\ d.CurrentSequence.done \in UserDones /\ d.CurrentSequence.user
          /\ event \in {"Init", "Deinit"} /\ to # None => d.TransitionState = "UserEventRunning"
          /\ event \in Steering /\ to # None /\ d.TransitionState # "UserEventRunning" =>
               d.Status.is = "ok"
      BY <2>1, <2>5, <2>8, <2>13, <3>2, UserGoes
    <3>4. FindTargetState(f, event) = FindTargetState(b, event)
      BY <1>f, <2>f, <2>11, SameTarget
    <3>5. d.TransitionState # "UserEventRunning" => d.hNotifyComplete # 0
      BY <2>4, <2>7, <2>10, <2>11, <2>13, <3>1, <3>2 DEF Followed
    <3> HIDE DEF event, to
    <3>6. /\ b.TransitionState # "UserEventRunning" /\ b.hNotifyComplete = 0
          /\ event \in UserEvents
          /\ \A x : Only(b.PendingStateEvents, x) => event = x /\ Only(d.PendingStateEvents, x)
      BY <2>x, <2>11, <2>13, <3>1 DEF event
    <3>7. d.state = IF to = None THEN b.state ELSE to
      BY <2>11, <3>3
    <3>8. to = FindTargetState(b, event)
      BY <3>4 DEF to
    <3>9. d.TransitionState = "UserEventRunning" =>
               /\ d.Status.is = "pending"
               /\ d.CurrentSequence.done \in UserDones /\ d.CurrentSequence.user
      BY <3>2, <3>3
    <3>10. Begins(b, event, d)
      BY <3>3, <3>5, <3>6, <3>7, <3>8, <3>9 DEF Begins
    <3> QED  BY <3>3, <3>10, <1>f, <2>f
  <2> QED  BY <2>12, <2>13
<1> QED  BY <1>5, <1>6

-----------------------------------------------------------------------------
(* Where the event of a caller finds the state machine, where its sequence *)
(* runs and where it ends                                                  *)
Around == {"SetRouting", "Enumerate"}
Moding(op) == op \in {"Stop", "UpdateDiscoveryState"} \cup Around
Before(c, op, stage) ==
  CASE op = "UpdateDiscoveryState" -> c.state \in Working
    [] op \in Around /\ stage > 1 -> c.state = "RfIdle"
    [] OTHER -> Home(c)
During(c, op, stage) ==
  CASE op = "Start" -> c.state = "Init"
    [] op = "Stop" -> c.state = "Shutdown"
    [] op \in Around /\ stage < 3 -> c.state = "RfIdle"
    [] OTHER -> Home(c)
After(c, op, stage) ==
  CASE op = "Start" -> c.state = "RfIdle" /\ c.Status.is = "ok"
    [] op = "Stop" -> c.state = "Idle"
    [] op = "UpdateDiscoveryState" -> Agrees(c) /\ c.Status.is = "ok"
    [] op \in Around /\ stage = 1 -> c.state = "RfIdle" /\ c.Status.is = "ok"
    [] op \in Around /\ stage = 2 -> c.state = "RfIdle"
    [] OTHER -> Home(c)
Powers(op) == (op = "Start" => ~powered) /\ (Moding(op) => powered)

LEMMA OtherEvents ==
  ASSUME NEW op \in Asking, op # "Start", ~Moding(op), NEW stage \in 1 .. Len(GetEventType(op))
  PROVE  GetEventType(op)[stage] \in UserEvents \ Steering
<1>1. GetEventType(op)[stage] \in UserEvents
  BY EventTypes
<1>2. GetEventType(op)[stage] \notin Steering
  <2>1. CASE op \in {"TargetDeactivate", "TargetActivate"}
    <3>1. \E x \in {"DeactivateSleep", "Activate", "Config"} : GetEventType(op) = <<x>>
      BY <2>1 DEF GetEventType
    <3> QED  BY <3>1 DEF Steering
  <2>2. CASE op \in {"WriteTag", "WriteP2P", "Transmit", "TargetSend", "ConvertToReadOnly",
                     "CheckPresence"}
    <3>1. GetEventType(op) = <<"DataXchg">>
      BY <2>2 DEF GetEventType
    <3> QED  BY <3>1 DEF Steering
  <2>3. CASE op \in {"SetMode", "ESETransceive", "ESEReset"}
    <3>1. GetEventType(op) = <<"SE">>
      BY <2>3 DEF GetEventType
    <3> QED  BY <3>1 DEF Steering
  <2>4. CASE op = "TargetReactivate"
    <3>1. GetEventType(op) = <<"DeactivateSleep", "Activate">>
      BY <2>4 DEF GetEventType
    <3> QED  BY <3>1 DEF Steering
  <2> QED  BY <2>1, <2>2, <2>3, <2>4, RfAssumption DEF Asking, CallerOperations, Moding, Around
<1> QED  BY <1>1, <1>2

LEMMA SteeringEvents ==
  /\ GetEventType("Start") = <<"Init">>
  /\ GetEventType("Stop") = <<"Deinit">>
  /\ GetEventType("UpdateDiscoveryState") = <<"ConfigDiscovery">>
  /\ \A op \in Around : GetEventType(op) = <<"StopDiscovery", "Config", "ConfigDiscovery">>
  BY DEF GetEventType, AroundConfig, Around

(* A mode that is chosen agrees with the power policy. *)
LEMMA ModeAgrees ==
  ASSUME RFPowerState \in BOOLEAN, NEW b, b.state \in States, b.state \in Working,
         NEW d, d.state = IF FindTargetState(b, "ConfigDiscovery") = None THEN b.state
                          ELSE FindTargetState(b, "ConfigDiscovery")
  PROVE  Agrees(d)
<1>1. FindTargetState(b, "ConfigDiscovery") # None
  BY Steers
<1>2. d.state = IF RFPowerState THEN "RfDiscovery" ELSE "RfIdle"
  BY <1>1, ModeTargets
<1> QED  BY <1>2 DEF Agrees, Working, Polling

LEMMA BeginsPlaced ==
  ASSUME RFPowerState \in BOOLEAN, NEW b, b.state \in States, NEW op \in Asking,
         NEW stage \in 1 .. Len(GetEventType(op)), Before(b, op, stage), Powers(op),
         NEW d, Begins(b, GetEventType(op)[stage], d)
  PROVE  IF d.TransitionState = "UserEventRunning" THEN During(d, op, stage)
         ELSE After(d, op, stage)
<1> DEFINE event == GetEventType(op)[stage]
           to == FindTargetState(b, event)
<1>1. /\ d.state = IF to = None THEN b.state ELSE to
      /\ event \in {"Init", "Deinit"} /\ to # None => d.TransitionState = "UserEventRunning"
      /\ event \in Steering /\ to # None /\ d.TransitionState # "UserEventRunning" =>
           d.Status.is = "ok"
  BY DEF Begins
<1>2. CASE op = "Start"
  <2>1. event = "Init"
    BY <1>2, SteeringEvents
  <2>2. Home(b) /\ ~powered
    BY <1>2 DEF Before, Powers, Around
  <2>3. b.state = "Idle"
    BY <2>2 DEF Home
  <2>4. to = "Init"
    BY <2>1, <2>3, Steers
  <2> HIDE DEF event, to
  <2>5. d.state = "Init" /\ d.TransitionState = "UserEventRunning"
    BY <1>1, <2>1, <2>4 DEF None
  <2> QED  BY <1>2, <2>5 DEF During, Around
<1>3. CASE op = "Stop"
  <2>1. event = "Deinit"
    BY <1>3, SteeringEvents
  <2>2. Home(b) /\ powered
    BY <1>3 DEF Before, Powers, Moding, Around
  <2>3. b.state \in Working
    BY <2>2 DEF Home, Agrees
  <2>4. to = "Shutdown"
    BY <2>1, <2>3, Steers
  <2> HIDE DEF event, to
  <2>5. d.state = "Shutdown" /\ d.TransitionState = "UserEventRunning"
    BY <1>1, <2>1, <2>4 DEF None
  <2> QED  BY <1>3, <2>5 DEF During, Around
<1>4. CASE op = "UpdateDiscoveryState"
  <2>1. event = "ConfigDiscovery"
    BY <1>4, SteeringEvents
  <2>2. b.state \in Working /\ powered
    BY <1>4 DEF Before, Powers, Moding, Around
  <2>3. Agrees(d)
    BY <1>1, <2>1, <2>2, ModeAgrees
  <2>4. to # None /\ event \in Steering
    BY <2>1, <2>2, Steers DEF Steering
  <2> HIDE DEF event, to
  <2>5. d.TransitionState # "UserEventRunning" => d.Status.is = "ok"
    BY <1>1, <2>4
  <2> QED  BY <1>4, <2>2, <2>3, <2>5 DEF During, After, Home, Around
<1>5. CASE op \in Around
  <2>0. powered /\ stage \in 1 .. 3
    BY <1>5, SteeringEvents DEF Powers, Moding, Around
  <2>1. CASE stage = 1
    <3>1. event = "StopDiscovery"
      BY <1>5, <2>1, SteeringEvents
    <3>2. Home(b)
      BY <1>5, <2>1 DEF Before, Around
    <3>3. b.state \in Working
      BY <2>0, <3>2 DEF Home, Agrees
    <3>4. to = "RfIdle" /\ event \in Steering
      BY <3>1, <3>3, Steers DEF Steering
    <3> HIDE DEF event, to
    <3>5. d.state = "RfIdle" /\ (d.TransitionState # "UserEventRunning" => d.Status.is = "ok")
      BY <1>1, <3>4 DEF None
    <3> QED  BY <1>5, <2>1, <3>5 DEF During, After, Around
  <2>2. CASE stage = 2
    <3>1. event = "Config"
      BY <1>5, <2>2, SteeringEvents
    <3>2. b.state = "RfIdle"
      BY <1>5, <2>2 DEF Before, Around
    <3>3. event \in UserEvents \cup Quiets /\ event \notin Steering
      BY <3>1 DEF UserEvents, Steering
    <3>4. Stays(b, d)
      BY <1>1, <3>3, StaysTargets
    <3>5. d.state = "RfIdle"
      BY <3>2, <3>4 DEF Stays
    <3> QED  BY <1>5, <2>2, <3>5 DEF During, After, Around
  <2>3. CASE stage = 3
    <3>1. event = "ConfigDiscovery"
      BY <1>5, <2>3, SteeringEvents
    <3>2. b.state = "RfIdle"
      BY <1>5, <2>3 DEF Before, Around
    <3>3. b.state \in Working
      BY <3>2 DEF Working
    <3>4. Agrees(d)
      BY <1>1, <3>1, <3>3, ModeAgrees
    <3> QED  BY <1>5, <2>0, <2>3, <3>4 DEF During, After, Home, Around
  <2> QED  BY <2>0, <2>1, <2>2, <2>3
<1>6. CASE op # "Start" /\ ~Moding(op)
  <2>1. event \in UserEvents \cup Quiets /\ event \notin Steering
    BY <1>6, OtherEvents
  <2>2. Stays(b, d)
    BY <1>1, <2>1, StaysTargets
  <2>3. Home(b)
    BY <1>6 DEF Before, Moding, Around
  <2>4. Home(d)
    BY <2>2, <2>3 DEF Home, Stays
  <2> QED  BY <1>6, <2>4 DEF During, After, Moding, Around
<1> QED  BY <1>2, <1>3, <1>4, <1>5, <1>6 DEF Moding, Around

LEMMA HomeStations ==
  ASSUME NEW c, Home(c)
  PROVE  c.state \in Stations /\ c.state # "Init" /\ c.state # "Shutdown"
  BY DEF Home, Agrees, Stations, Working, Polling

LEMMA DuringStations ==
  ASSUME NEW c, NEW op, NEW stage, During(c, op, stage)
  PROVE  c.state \in Stations
<1>1. CASE op = "Start" \/ op = "Stop" \/ (op \in Around /\ stage < 3)
  BY <1>1 DEF During, Stations, Working, Around
<1>2. CASE ~(op = "Start" \/ op = "Stop" \/ (op \in Around /\ stage < 3))
  BY <1>2, HomeStations DEF During, Around
<1> QED  BY <1>1, <1>2

LEMMA EndsPlaced ==
  ASSUME NEW b, NEW op \in Asking, NEW stage \in 1 .. Len(GetEventType(op)),
         During(b, op, stage), Powers(op), NEW d, Ends(b, d)
  PROVE  After(d, op, stage)
<1>1. d.Status.is = "ok" /\ d.state = Rests(b.state)
  BY DEF Ends, Resting
<1>2. Home(b) => Home(d)
  <2>1. Home(b) => d.state = b.state
    BY <1>1, HomeStations DEF Rests
  <2> QED  BY <2>1 DEF Home, Agrees
<1>3. CASE op = "Start"
  BY <1>1, <1>3 DEF During, After, Rests, Around
<1>4. CASE op = "Stop"
  BY <1>1, <1>4 DEF During, After, Rests, Around
<1>5. CASE op = "UpdateDiscoveryState"
  BY <1>1, <1>2, <1>5 DEF During, After, Home, Powers, Moding, Around
<1>6. CASE op \in Around
  <2>0. stage \in 1 .. 3
    BY <1>6, SteeringEvents
  <2>1. CASE stage < 3
    <3>1. d.state = "RfIdle" /\ (stage = 1 \/ stage = 2)
      BY <1>1, <1>6, <2>0, <2>1 DEF During, Rests, Around
    <3> QED  BY <1>1, <1>6, <3>1 DEF After, Around
  <2>2. CASE stage = 3
    BY <1>2, <1>6, <2>2 DEF During, After, Around
  <2> QED  BY <2>0, <2>1, <2>2
<1>7. CASE op # "Start" /\ ~Moding(op)
  BY <1>2, <1>7 DEF During, After, Moding, Around
<1> QED  BY <1>3, <1>4, <1>5, <1>6, <1>7 DEF Moding, Around

LEMMA StaysPlaced ==
  ASSUME NEW b, NEW op, NEW stage, NEW d, Stays(b, d), d.Status = b.Status
  PROVE  /\ Home(b) => Home(d)
         /\ Before(b, op, stage) => Before(d, op, stage)
         /\ After(b, op, stage) => After(d, op, stage)
<1>1. Home(b) => Home(d)
  BY DEF Home, Stays
<1>2. Before(b, op, stage) => Before(d, op, stage)
  BY <1>1 DEF Before, Stays, Around
<1>3. After(b, op, stage) => After(d, op, stage)
  BY <1>1 DEF After, Stays, Around
<1> QED  BY <1>1, <1>2, <1>3

LEMMA SamePlaced ==
  ASSUME NEW b, NEW op, NEW stage, NEW d, d.state = b.state
  PROVE  During(b, op, stage) => During(d, op, stage)
<1>1. Home(b) => Home(d)
  BY DEF Home, Agrees
<1> QED  BY <1>1 DEF During, Around

(* A machine whose steps have all succeeded *)
Replies(c) == c.TransitionState = "UserEventRunning" => Asked(c) /\ c.Status.is \in {"pending", "ok"}
Runs(c, op, stage) ==
  CASE c.TransitionState = "UserEventRunning" -> During(c, op, stage)
    [] c.TransitionState # "UserEventRunning" /\ c.hNotifyComplete = 0 -> Before(c, op, stage)
    [] OTHER -> After(c, op, stage)
Place(c) ==
  IF caller = NoCaller THEN Home(c)
  ELSE /\ Only(c.PendingStateEvents, GetEventType(caller.op)[caller.stage])
       /\ Runs(c, caller.op, caller.stage)
Calm(c) == Succeeds(c.messages) /\ Replies(c) /\ Place(c)
Powered ==
  /\ ~powered => ~RFPowerState
  /\ Powers(caller.op)
  /\ caller.stage = 1 => caller.result = "ok"
PowerInv == Untroubled /\ ~cx.crashed => Calm(cx) /\ Powered

LEMMA MovesCalm ==
  ASSUME Typed, Powers(caller.op), NEW b, b.state \in States, Calm(b),
         caller = NoCaller => Nobodys(b),
         NEW d, Succeeds(d.messages),
         Quietly(b, d) \/ (\E event : Begins(b, event, d)) \/ Ends(b, d)
  PROVE  Calm(d)
<1> DEFINE op == caller.op
           stage == caller.stage
           asked == GetEventType(op)[stage]
<1>1. RFPowerState \in BOOLEAN
  BY DEF Typed
<1>2. caller # NoCaller => op \in Asking /\ stage \in 1 .. Len(GetEventType(op))
  BY DEF Typed
<1>3. Replies(b) /\ Place(b)
  BY DEF Calm
<1>4. CASE Quietly(b, d)
  <2>1. Replies(d)
    BY <1>3, <1>4 DEF Quietly, Replies, Asked
  <2>2. CASE caller = NoCaller
    <3>1. Stays(b, d) /\ d.Status = b.Status
      BY <1>4, <2>2 DEF Quietly, Nobodys
    <3>2. Home(d)
      BY <1>3, <2>2, <3>1, StaysPlaced DEF Place
    <3> QED  BY <2>1, <2>2, <3>2 DEF Calm, Place
  <2>3. CASE caller # NoCaller
    <3>1. Only(b.PendingStateEvents, asked) /\ Runs(b, op, stage)
      BY <1>3, <2>3 DEF Place
    <3>2. Only(d.PendingStateEvents, asked)
      BY <1>4, <3>1 DEF Quietly
    <3> HIDE DEF op, stage, asked
    <3>3. ASSUME b.TransitionState = "UserEventRunning" PROVE Runs(d, op, stage)
      <4>1. d.TransitionState = "UserEventRunning" /\ d.state = b.state
        BY <1>4, <3>3 DEF Quietly
      <4>2. During(b, op, stage)
        BY <3>1, <3>3 DEF Runs
      <4>3. During(d, op, stage)
        BY <4>1, <4>2, SamePlaced
      <4> QED  BY <4>1, <4>3 DEF Runs
    <3>4. ASSUME b.TransitionState # "UserEventRunning" PROVE Runs(d, op, stage)
      <4>1. /\ d.TransitionState # "UserEventRunning" /\ Stays(b, d) /\ d.Status = b.Status
            /\ d.hNotifyComplete = b.hNotifyComplete
        BY <1>4, <3>4 DEF Quietly
      <4>2. /\ Before(b, op, stage) => Before(d, op, stage)
            /\ After(b, op, stage) => After(d, op, stage)
        BY <4>1, StaysPlaced
      <4> QED  BY <3>1, <3>4, <4>1, <4>2 DEF Runs
    <3>5. Runs(d, op, stage)
      BY <3>3, <3>4
    <3> QED  BY <2>1, <2>3, <3>2, <3>5 DEF Calm, Place, op, stage, asked
  <2> QED  BY <2>2, <2>3
<1>5. CASE \E event : Begins(b, event, d)
  <2>1. PICK event : Begins(b, event, d)
    BY <1>5
  <2>2. /\ b.TransitionState # "UserEventRunning" /\ b.hNotifyComplete = 0
        /\ \A x : Only(b.PendingStateEvents, x) => event = x /\ Only(d.PendingStateEvents, x)
        /\ d.TransitionState = "UserEventRunning" =>
             d.Status.is = "pending" /\ d.CurrentSequence.done \in UserDones /\ d.CurrentSequence.user
        /\ d.TransitionState # "UserEventRunning" => d.hNotifyComplete # 0
    BY <2>1 DEF Begins
  <2>3. caller # NoCaller
    <3>1. ASSUME caller = NoCaller PROVE FALSE
      <4>1. \A x : Only(b.PendingStateEvents, x)
        BY <3>1 DEF Nobodys, NoUser, Only
      <4>2. event = TRUE /\ event = FALSE
        BY <2>2, <4>1
      <4> QED  BY <4>2
    <3> QED  BY <3>1
  <2>4. Only(b.PendingStateEvents, asked) /\ Runs(b, op, stage)
    BY <1>3, <2>3 DEF Place
  <2>5. event = asked /\ Only(d.PendingStateEvents, asked)
    BY <2>2, <2>4
  <2>6. Before(b, op, stage)
    BY <2>2, <2>4 DEF Runs
  <2>7. IF d.TransitionState = "UserEventRunning" THEN During(d, op, stage)
        ELSE After(d, op, stage)
    BY <1>1, <1>2, <2>1, <2>3, <2>5, <2>6, BeginsPlaced
  <2>8. Runs(d, op, stage)
    BY <2>2, <2>7 DEF Runs
  <2>9. Replies(d)
    BY <2>2 DEF Replies, Asked
  <2> QED  BY <2>3, <2>5, <2>8, <2>9 DEF Calm, Place
<1>6. CASE Ends(b, d)
  <2>1. /\ b.TransitionState = "UserEventRunning" /\ d.hNotifyComplete # 0
        /\ d.TransitionState # "UserEventRunning"
        /\ \A x : Only(b.PendingStateEvents, x) => Only(d.PendingStateEvents, x)
    BY <1>6 DEF Ends, Resting
  <2>2. caller # NoCaller
    BY <2>1 DEF Nobodys
  <2>3. Only(b.PendingStateEvents, asked) /\ Runs(b, op, stage)
    BY <1>3, <2>2 DEF Place
  <2>4. During(b, op, stage)
    BY <2>1, <2>3 DEF Runs
  <2>5. After(d, op, stage)
    BY <1>2, <1>6, <2>2, <2>4, EndsPlaced
  <2>6. Runs(d, op, stage) /\ Only(d.PendingStateEvents, asked)
    BY <2>1, <2>3, <2>5 DEF Runs
  <2>7. Replies(d)
    BY <2>1 DEF Replies
  <2> QED  BY <2>2, <2>6, <2>7 DEF Calm, Place
<1> QED  BY <1>4, <1>5, <1>6

LEMMA CalmPlaced ==
  ASSUME NEW c, Calm(c), caller = NoCaller => Nobodys(c)
  PROVE  Placed(c)
<1>1. ASSUME c.TransitionState = "UserEventRunning" PROVE c.state \in Stations
  <2>1. caller # NoCaller
    BY <1>1 DEF Nobodys
  <2>2. During(c, caller.op, caller.stage)
    BY <1>1, <2>1 DEF Calm, Place, Runs
  <2> QED  BY <2>2, DuringStations
<1> QED  BY <1>1 DEF Placed, Calm, Replies

-----------------------------------------------------------------------------
(* Each step of the system again *)

(* A step of the machine, the callers being where they were *)
LEMMA CalmStep ==
  ASSUME PowerInv, ~cx.crashed, UNCHANGED <<RFPowerState, caller, powered, expired>>,
         ~cx'.crashed /\ cx'.failures = 0 /\ ~expired =>
           cx.failures = 0 /\ (Calm(cx) /\ Powered => Calm(cx'))
  PROVE  PowerInv'
<1> SUFFICES ASSUME Untroubled', ~cx'.crashed PROVE Calm(cx)' /\ Powered'
  BY DEF PowerInv
<1>1. cx'.failures = 0 /\ ~expired
  BY DEF Untroubled
<1>2. Untroubled
  BY <1>1 DEF Untroubled
<1>3. Calm(cx') /\ Powered
  BY <1>1, <1>2 DEF PowerInv
<1>4. Powered'
  BY <1>3 DEF Powered, Powers
<1>5. /\ \A op, stage : Before(cx, op, stage)' <=> Before(cx', op, stage)
      /\ \A op, stage : During(cx, op, stage)' <=> During(cx', op, stage)
      /\ \A op, stage : After(cx, op, stage)' <=> After(cx', op, stage)
      /\ Home(cx)' <=> Home(cx')
  BY DEF Before, During, After, Home, Agrees, Around
<1>6. Calm(cx)'
  BY <1>3, <1>5 DEF Calm, Place, Runs
<1> QED  BY <1>4, <1>6

LEMMA Owner ==
  ASSUME RfInv, ~expired
  PROVE  /\ \E n \in Nat : Holds(cx, n)
         /\ caller = NoCaller => Nobodys(cx)
<1>1. Owned /\ executions \in Nat
  BY DEF RfInv, Typed
<1>2. 1 \in Nat /\ 1 # 0
  OBVIOUS
<1>3. CASE caller = NoCaller
  BY <1>1, <1>2, <1>3 DEF Owned, Holds
<1>4. CASE caller # NoCaller
  <2>1. executions # 0 /\ Mine(cx, executions)
    BY <1>1, <1>4 DEF Owned
  <2> QED  BY <1>1, <1>4, <2>1 DEF Holds
<1> QED  BY <1>3, <1>4

(* A machine that has moved is where the next step finds it. *)
LEMMA MachineCalm ==
  ASSUME RfInv, PowerInv, ~cx.crashed, UNCHANGED <<RFPowerState, caller, powered, expired>>,
         ~cx'.crashed /\ cx'.failures = 0 /\ ~expired =>
           /\ cx.failures = 0
           /\ Calm(cx) =>
                /\ Succeeds(cx'.messages)
                /\ Quietly(cx, cx') \/ (\E event : Begins(cx, event, cx')) \/ Ends(cx, cx')
  PROVE  PowerInv'
<1>1. ASSUME ~cx'.crashed, cx'.failures = 0, ~expired, Calm(cx), Powered
      PROVE  Calm(cx')
  <2>1. Typed /\ cx.state \in States /\ Powers(caller.op)
    BY <1>1 DEF RfInv, Fine, CxType, Powered
  <2>2. caller = NoCaller => Nobodys(cx)
    BY <1>1, Owner
  <2>3. /\ Succeeds(cx'.messages)
        /\ Quietly(cx, cx') \/ (\E event : Begins(cx, event, cx')) \/ Ends(cx, cx')
    BY <1>1
  <2> QED  BY <1>1, <2>1, <2>2, <2>3, MovesCalm
<1> QED  BY <1>1, CalmStep

LEMMA HandlerCalm ==
  ASSUME RfInv, PowerInv, LibNfcMessageHandler
  PROVE  PowerInv'
<1> DEFINE m == Head(cx.messages)
<1>1. Fine(cx) /\ ~cx.crashed /\ cx.messages # <<>>
  BY DEF RfInv, LibNfcMessageHandler
<1>2. m.kind \in {"next", "resume"}
  <2>1. cx.messages \in Seq(Message)
    BY <1>1 DEF Fine, CxType
  <2>2. m \in Message
    BY <1>1, <2>1, TakeMessage
  <2> QED  BY <2>2 DEF Message
<1>3. UNCHANGED <<RFPowerState, caller, powered, expired>>
  BY DEF LibNfcMessageHandler
<1>4. ASSUME ~cx'.crashed, cx'.failures = 0, ~expired
      PROVE  /\ cx.failures = 0
             /\ Calm(cx) =>
                  /\ Succeeds(cx'.messages)
                  /\ Quietly(cx, cx') \/ (\E event : Begins(cx, event, cx')) \/ Ends(cx, cx')
  <2>1. PICK n \in Nat : Holds(cx, n)
    BY <1>4, Owner
  <2>2. Calm(cx) => Succeeds(cx.messages) /\ Placed(cx)
    BY <1>4, CalmPlaced, Owner DEF Calm
  <2>3. CASE m.kind = "resume"
    <3>1. cx' \in SequenceResume(Taken(cx), m.status)
      BY <2>3 DEF LibNfcMessageHandler, Taken
    <3>2. /\ cx.failures = 0
          /\ Succeeds(cx.messages) /\ Placed(cx) =>
               Succeeds(cx'.messages) /\ (Quietly(cx, cx') \/ Ends(cx, cx'))
      BY <1>1, <1>4, <2>1, <2>3, <3>1, ResumeMoves
    <3> QED  BY <2>2, <3>2
  <2>4. CASE m.kind = "next"
    <3>1. cx' \in UNION {ProcessNextQueuedEvent(Taken(cx), same) : same \in BOOLEAN}
      BY <2>4 DEF LibNfcMessageHandler, Taken
    <3>2. PICK same \in BOOLEAN : cx' \in ProcessNextQueuedEvent(Taken(cx), same)
      BY <3>1
    <3>3. /\ cx.failures = 0 /\ (Succeeds(cx.messages) => Succeeds(cx'.messages))
          /\ Quietly(cx, cx') \/ \E event : Begins(cx, event, cx')
      BY <1>1, <1>4, <2>1, <2>4, <3>2, NextMoves
    <3> QED  BY <2>2, <3>3
  <2> QED  BY <1>2, <2>3, <2>4
<1> QED  BY <1>1, <1>3, <1>4, MachineCalm

(* A callback fails nothing by itself. *)
LEMMA CallbackFailures ==
  ASSUME NEW c \in CxType, NEW status, NEW skip
  PROVE  Callback(c, status, skip).failures = c.failures
<1>1. DeinitializeCB(c).failures = c.failures
  BY DEF CxType, DeinitializeCB
<1>2. RemoteDevDisconnectCB(c).failures = c.failures /\ RfDiscoveryStopCB(c).failures = c.failures
  BY DEF CxType, RemoteDevDisconnectCB, RfDiscoveryStopCB
<1>r. RemoteDevConnectCB(c, status).failures = c.failures
  <2> DEFINE v == c.bIsTagPresent \/ (status = "ok" /\ c.list \in {"Tag", "Kovio"})
             d == [c EXCEPT !.bIsTagPresent = v]
  <2>1. RemoteDevConnectCB(c, status) = d
    BY DEF RemoteDevConnectCB
  <2> HIDE DEF v
  <2>2. d.failures = c.failures
    BY DEF CxType
  <2> HIDE DEF d
  <2> QED  BY <2>1, <2>2
<1>v. RfDiscoveryConfigCB(c, status).failures = c.failures
  <2> DEFINE v == status = "ok"
             d == [c EXCEPT !.listening = v]
  <2>1. RfDiscoveryConfigCB(c, status) = d
    BY DEF RfDiscoveryConfigCB
  <2> HIDE DEF v
  <2>2. d.failures = c.failures
    BY DEF CxType
  <2> HIDE DEF d
  <2> QED  BY <2>1, <2>2
<1>3. TagConnectionEstablished(c) \in CxType /\ TagConnectionEstablished(c).failures = c.failures
  <2> DEFINE d == [c EXCEPT !.bIsTagConnected = TRUE]
  <2>1. d \in CxType
    BY DEF CxType
  <2>2. d.failures = c.failures
    BY DEF CxType
  <2>3. TagConnectionEstablished(c) = IF c.list = None THEN c ELSE d
    BY DEF TagConnectionEstablished
  <2> HIDE DEF d
  <2> QED  BY <2>1, <2>2, <2>3
<1>4. TagCheckNdefCB(c, status, skip).failures = c.failures
  <2> DEFINE d == IF status = "lost" THEN c ELSE TagConnectionEstablished(c)
             k == d.CurrentSequence.next + (IF status = "ok" /\ skip THEN 1 ELSE 0)
  <2>1. d \in CxType /\ d.failures = c.failures
    BY <1>3
  <2>2. TagCheckNdefCB(c, status, skip) = Moved(d, k)
    BY DEF TagCheckNdefCB, Moved
  <2> HIDE DEF d, k
  <2> QED  BY <2>1, <2>2, Failures
<1>5. SEEnumerateCB(c, status).failures = c.failures
  BY DEF CxType, SEEnumerateCB
<1>6. DisableSecureElementsCB(c, status).failures = c.failures
  BY DEF CxType, DisableSecureElementsCB
<1> QED  BY <1>1, <1>2, <1>r, <1>v, <1>4, <1>5, <1>6 DEF Callback

LEMMA HeardFailures ==
  ASSUME NEW c \in CxType, NEW n
  PROVE  Heard(c, n).failures = n
  BY DEF CxType, Heard

LEMMA BackQuietly ==
  ASSUME NEW b, NEW c, Back(b, c), NEW d, Kept(c, d), d.CurrentSequence = c.CurrentSequence
  PROVE  Quietly(b, d)
<1>1. /\ d.state = b.state /\ d.TransitionState = b.TransitionState /\ d.Status = b.Status
      /\ d.hNotifyComplete = b.hNotifyComplete /\ d.PendingStateEvents = b.PendingStateEvents
      /\ d.CurrentSequence.done = b.CurrentSequence.done
      /\ d.CurrentSequence.user = b.CurrentSequence.user
  BY DEF Back, Kept
<1>2. Stays(b, d)
  BY <1>1 DEF Stays, Agrees
<1> QED  BY <1>1, <1>2 DEF Quietly

LEMMA AnswerCalm ==
  ASSUME RfInv, PowerInv, StepAnswered
  PROVE  PowerInv'
<1>1. Fine(cx) /\ ~cx.crashed /\ cx.awaited \notin {None, "LlcpDeactivate"} /\ cx \in CxType
  BY DEF RfInv, StepAnswered, Fine
<1>2. PICK status \in Answers(cx) : \E skip \in BOOLEAN :
        cx' = DispatchResume([Callback(cx, status, skip) EXCEPT
                                !.awaited = None, !.watchdog = FALSE,
                                !.failures = @ + IF status = "ok" THEN 0 ELSE 1], status)
  BY DEF StepAnswered
<1>3. PICK skip \in BOOLEAN :
        cx' = DispatchResume([Callback(cx, status, skip) EXCEPT
                                !.awaited = None, !.watchdog = FALSE,
                                !.failures = @ + IF status = "ok" THEN 0 ELSE 1], status)
  BY <1>2
<1> DEFINE e == Callback(cx, status, skip)
           n == e.failures + (IF status = "ok" THEN 0 ELSE 1)
           c == Heard(e, n)
<1>4. Back(cx, e) /\ e \in CxType
  <2>1. Carried(cx)
    BY <1>1 DEF Fine, Sound
  <2> QED  BY <1>1, <2>1, CallbackBack DEF Carried, Back
<1>5. cx' = DispatchResume(c, status)
  BY <1>3 DEF Heard
<1>e. e.failures = cx.failures
  BY <1>1, CallbackFailures
<1> HIDE DEF e
<1>6. n \in Nat /\ (n = 0 => status = "ok" /\ cx.failures = 0)
  <2>1. e.failures \in Nat
    BY <1>4 DEF CxType
  <2> QED  BY <2>1, <1>e
<1> HIDE DEF n
<1>7. /\ c \in CxType /\ Kept(e, c) /\ c.messages = e.messages
      /\ c.CurrentSequence = e.CurrentSequence
  BY <1>4, <1>6, HeardIs
<1>8. c.failures = n
  BY <1>4, HeardFailures
<1> HIDE DEF c
<1>9. status \in Ended
  BY DEF Answers, Links, Fails, Ended
<1>10. Kept(c, cx') /\ cx'.CurrentSequence = c.CurrentSequence
  BY <1>5, <1>7, <1>9, DispatchResumeIs
<1>11. cx'.failures = n
  BY <1>5, <1>7, <1>8, Failures
<1>12. Quietly(cx, cx')
  <2>1. Kept(e, cx') /\ cx'.CurrentSequence = e.CurrentSequence
    BY <1>7, <1>10 DEF Kept
  <2> QED  BY <1>4, <2>1, BackQuietly
<1>13. ASSUME cx'.failures = 0, Calm(cx) PROVE Succeeds(cx'.messages)
  <2>1. status = "ok"
    BY <1>6, <1>11, <1>13
  <2>2. Succeeds(c.messages)
    BY <1>4, <1>7, <1>13 DEF Back, Calm
  <2> QED  BY <1>5, <1>7, <2>1, <2>2, DispatchSucceeds
<1>14. UNCHANGED <<RFPowerState, caller, powered, expired>>
  BY DEF StepAnswered, onlyCx
<1> QED  BY <1>1, <1>6, <1>11, <1>12, <1>13, <1>14, MachineCalm

LEMMA RedoCalm ==
  ASSUME RfInv, PowerInv, InitializeRedo
  PROVE  PowerInv'
<1>1. cx \in CxType
  BY DEF RfInv, Fine
<1>2. cx'.failures = cx.failures + 1
  BY <1>1 DEF InitializeRedo, CxType
<1>3. cx'.failures # 0
  BY <1>1, <1>2 DEF CxType
<1> QED  BY <1>3 DEF PowerInv, Untroubled

-----------------------------------------------------------------------------
(* What is reported unasked moves no event of a caller. *)
LEMMA QueueSucceeds ==
  ASSUME NEW c \in CxType, NEW event, NEW op, NEW request
  PROVE  LET d == QueueEvent(c, event, op, request)
         IN /\ d.failures = c.failures
            /\ Succeeds(c.messages) => Succeeds(d.messages)
<1> DEFINE m == [kind |-> "next", status |-> None]
           p == Append(c.PendingStateEvents,
                       [event |-> event, op |-> op, request |-> request])
           s == Append(c.messages, m)
           d == QueueEvent(c, event, op, request)
<1>1. m \in Message /\ m.kind # "resume"
  BY DEF Message
<1>2. c.messages \in Seq(Message)
  BY DEF CxType
<1> HIDE DEF m
<1>3. Succeeds(c.messages) => Succeeds(s)
  BY <1>1, <1>2, SuccessTold
<1>4. d = [c EXCEPT !.PendingStateEvents = p, !.messages = s]
  BY DEF QueueEvent, CxType, m
<1> HIDE DEF p, s, d
<1>5. d.failures = c.failures /\ d.messages = s
  BY <1>4 DEF CxType
<1> QED  BY <1>3, <1>5 DEF d

LEMMA ReportQuietly ==
  ASSUME NEW b, NEW c, Aside(b, c), c.failures = b.failures, NEW event \in Reports
  PROVE  LET d == QueueEvent(c, event, None, 0)
         IN /\ Quietly(b, c)
            /\ Quietly(b, d) /\ d.failures = b.failures
            /\ Succeeds(b.messages) => Succeeds(d.messages)
<1> DEFINE d == QueueEvent(c, event, None, 0)
           e == [event |-> event, op |-> None, request |-> 0]
<1>1. event \notin UserEvents /\ Matches(event, None) /\ None \in CallerOps /\ 0 \in Nat
  BY NoneIsInternal DEF CallerOps, Reports, InternalEvents
<1>2. c \in CxType /\ c.messages = b.messages
  BY DEF Aside
<1>3. /\ d.state = c.state /\ d.TransitionState = c.TransitionState
      /\ d.Status = c.Status /\ d.hNotifyComplete = c.hNotifyComplete
      /\ d.CurrentSequence = c.CurrentSequence
      /\ d.PendingStateEvents = Append(c.PendingStateEvents, e)
  BY <1>1, <1>2, QueueEventIs
<1>4. d.failures = c.failures /\ (Succeeds(c.messages) => Succeeds(d.messages))
  BY <1>2, QueueSucceeds
<1>5. e \in EventType /\ e.event = event
  BY <1>1 DEF EventType
<1> HIDE DEF d, e
<1>6. c.PendingStateEvents \in Seq(EventType)
  BY <1>2 DEF CxType
<1>7. \A x : Only(c.PendingStateEvents, x) => Only(d.PendingStateEvents, x)
  BY <1>1, <1>3, <1>5, <1>6, OnlyIs
<1>8. Stays(b, c) /\ Stays(b, d)
  BY <1>3 DEF Aside, Stays, Agrees
<1>9. Quietly(b, c)
  BY <1>8 DEF Aside, Quietly
<1>10. Quietly(b, d)
  BY <1>3, <1>7, <1>8 DEF Aside, Quietly
<1> QED  BY <1>2, <1>4, <1>9, <1>10 DEF d

LEMMA ReportCalm ==
  ASSUME RfInv, PowerInv, ~cx.crashed, UNCHANGED <<RFPowerState, caller, powered, expired>>,
         NEW c, Aside(cx, c), c.failures = cx.failures,
         cx' = c \/ \E event \in Reports : cx' = QueueEvent(c, event, None, 0)
  PROVE  PowerInv'
<1>1. c.messages = cx.messages
  BY DEF Aside
<1>2. \E event : event \in Reports
  BY DEF Reports
<1>3. /\ Quietly(cx, cx') /\ cx'.failures = cx.failures
      /\ Succeeds(cx.messages) => Succeeds(cx'.messages)
  <2>1. CASE cx' = c
    BY <1>1, <1>2, <2>1, ReportQuietly
  <2>2. CASE \E event \in Reports : cx' = QueueEvent(c, event, None, 0)
    BY <2>2, ReportQuietly
  <2> QED  BY <2>1, <2>2
<1> QED  BY <1>3, MachineCalm DEF Calm

LEMMA FoundCalm ==
  ASSUME RfInv, PowerInv, NEW dev \in Devices, RemoteDevNtfCB(dev)
  PROVE  PowerInv'
<1> DEFINE card == dev = "PCD"
           c == Found(cx, dev)
           e == [cx EXCEPT !.list = dev, !.bIsHCEConnected = card, !.listening = FALSE,
                           !.reader = card]
<1>1. cx \in CxType /\ ~cx.crashed
  BY DEF RfInv, Fine, RemoteDevNtfCB
<1>2. dev \in ListType /\ card \in BOOLEAN
  BY RfAssumption DEF ListType, None
<1>3. c = e
  BY <1>1 DEF Found, SetRemoteDevList, CxType
<1>4. cx' = QueueEvent(c, "Discovered", None, 0)
  BY DEF RemoteDevNtfCB, Found
<1> HIDE DEF card, c
<1>5. e \in CxType
  BY <1>1, <1>2 DEF CxType
<1>6. Aside(cx, e) /\ e.failures = cx.failures
  BY <1>1, <1>5 DEF CxType, Aside
<1>7. UNCHANGED <<RFPowerState, caller, powered, expired>>
  BY DEF RemoteDevNtfCB, onlyCx
<1>8. "Discovered" \in Reports
  BY DEF Reports
<1> HIDE DEF e
<1> QED  BY <1>1, <1>3, <1>4, <1>6, <1>7, <1>8, ReportCalm

LEMMA EmulationCalm ==
  ASSUME RfInv, PowerInv, HandleSEDeviceHostEvent \/ HandleSecureElementEvent
  PROVE  PowerInv'
<1>1. cx \in CxType /\ ~cx.crashed
  BY DEF RfInv, Fine, HandleSEDeviceHostEvent, HandleSecureElementEvent
<1>2. UNCHANGED <<RFPowerState, caller, powered, expired>>
  BY DEF HandleSEDeviceHostEvent, HandleSecureElementEvent, onlyCx
<1>3. "Activated" \in Reports /\ "Deactivated" \in Reports
  BY DEF Reports
<1>4. CASE HandleSEDeviceHostEvent
  <2> DEFINE c == [cx EXCEPT !.bIsHCEActivated = TRUE]
  <2>1. Aside(cx, c) /\ c.failures = cx.failures
    BY <1>1 DEF CxType, Aside
  <2>2. cx' = QueueEvent(c, "Activated", None, 0)
    BY <1>4 DEF HandleSEDeviceHostEvent
  <2> HIDE DEF c
  <2> QED  BY <1>1, <1>2, <1>3, <2>1, <2>2, ReportCalm
<1>5. CASE HandleSecureElementEvent
  <2> DEFINE c == [cx EXCEPT !.reader = FALSE, !.listening = TRUE]
  <2>1. Aside(cx, c) /\ c.failures = cx.failures
    BY <1>1 DEF CxType, Aside
  <2>2. cx' = c \/ cx' = QueueEvent(c, "Deactivated", None, 0)
    BY <1>5 DEF HandleSecureElementEvent
  <2> HIDE DEF c
  <2> QED  BY <1>1, <1>2, <1>3, <2>1, <2>2, ReportCalm
<1> QED  BY <1>4, <1>5

LEMMA LinkedFailures ==
  ASSUME NEW c \in CxType, NEW peer, NEW link
  PROVE  Linked(c, peer, link).failures = c.failures
  BY DEF CxType, Linked

(* The end of the link answers the deactivation that waits for it. *)
LEMMA LinkEndedCalm ==
  ASSUME RfInv, PowerInv, ~cx.crashed, cx.IsDeactivatePending,
         UNCHANGED <<RFPowerState, caller, powered, expired>>,
         cx' = DispatchResume([Linked(cx, "away", "Deactivated") EXCEPT
                                 !.IsDeactivatePending = FALSE, !.awaited = None], "ok")
  PROVE  PowerInv'
<1> DEFINE e == Linked(cx, "away", "Deactivated")
           c == [e EXCEPT !.IsDeactivatePending = FALSE, !.awaited = None]
<1>1. cx \in CxType
  BY DEF RfInv, Fine
<1>2. "away" \in PeerStates /\ "Deactivated" \in LinkStates /\ None \in AwaitedType /\ "ok" \in Ended
  BY DEF PeerStates, LinkStates, AwaitedType, Ended
<1>3. Aside(cx, e) /\ e.failures = cx.failures
  BY <1>1, <1>2, LinkedIs, LinkedFailures
<1>4. cx' = DispatchResume(c, "ok")
  OBVIOUS
<1> HIDE DEF e
<1>5. e \in CxType
  BY <1>3 DEF Aside
<1>6. c \in CxType /\ c.failures = e.failures
  BY <1>2, <1>5 DEF CxType
<1>7. Kept(e, c) /\ c.messages = e.messages
  BY <1>5 DEF CxType, Kept
<1>8. c.CurrentSequence = e.CurrentSequence
  BY <1>5 DEF CxType
<1> HIDE DEF c
<1>9. Kept(c, cx') /\ cx'.CurrentSequence = c.CurrentSequence
  BY <1>2, <1>4, <1>6, DispatchResumeIs
<1>10. cx'.failures = cx.failures
  BY <1>3, <1>4, <1>6, Failures
<1>11. Succeeds(cx.messages) => Succeeds(cx'.messages)
  BY <1>3, <1>4, <1>6, <1>7, DispatchSucceeds DEF Aside
<1>12. Quietly(cx, cx')
  <2>1. /\ cx'.state = cx.state /\ cx'.TransitionState = cx.TransitionState
        /\ cx'.Status = cx.Status /\ cx'.hNotifyComplete = cx.hNotifyComplete
        /\ cx'.PendingStateEvents = cx.PendingStateEvents
        /\ cx'.CurrentSequence = cx.CurrentSequence
    BY <1>3, <1>7, <1>8, <1>9 DEF Aside, Kept
  <2>2. Stays(cx, cx')
    BY <2>1 DEF Stays, Agrees
  <2> QED  BY <2>1, <2>2 DEF Quietly
<1> QED  BY <1>10, <1>11, <1>12, MachineCalm DEF Calm

LEMMA LinkCalm ==
  ASSUME RfInv, PowerInv, LinkActivated \/ LinkDeactivated
  PROVE  PowerInv'
<1>1. cx \in CxType /\ ~cx.crashed /\ Fine(cx)
  BY DEF RfInv, Fine, LinkActivated, LinkDeactivated
<1>2. UNCHANGED <<RFPowerState, caller, powered, expired>>
  BY DEF LinkActivated, LinkDeactivated, onlyCx
<1>p. /\ {"up", "away"} \subseteq PeerStates /\ {"Activated", "Deactivated"} \subseteq LinkStates
      /\ {"Activated", "Deactivated"} \subseteq Reports
  BY DEF PeerStates, LinkStates, Reports
<1>3. CASE LinkActivated
  <2> DEFINE c == Linked(cx, "up", "Activated")
  <2>1. cx' = QueueEvent(c, "Activated", None, 0)
    BY <1>3 DEF LinkActivated, Linked
  <2>2. Aside(cx, c) /\ c.failures = cx.failures
    BY <1>1, <1>p, LinkedIs, LinkedFailures
  <2> HIDE DEF c
  <2> QED  BY <1>1, <1>2, <1>p, <2>1, <2>2, ReportCalm
<1>4. CASE LinkDeactivated
  <2> DEFINE d == Linked(cx, "away", "Deactivated")
  <2>1. cx' = IF cx.IsDeactivatePending
              THEN DispatchResume([d EXCEPT !.IsDeactivatePending = FALSE,
                                            !.awaited = IF @ = "LlcpDeactivate" THEN None
                                                        ELSE @], "ok")
              ELSE QueueEvent(d, "Deactivated", None, 0)
    BY <1>4 DEF LinkDeactivated, Linked
  <2>2. d.awaited = cx.awaited /\ Aside(cx, d) /\ d.failures = cx.failures
    BY <1>1, <1>p, LinkedIs, LinkedFailures DEF Aside
  <2>3. CASE cx.IsDeactivatePending
    <3>1. cx.awaited = "LlcpDeactivate"
      BY <1>1, <2>3, LinkEndedFine
    <3> HIDE DEF d
    <3>2. cx' = DispatchResume([d EXCEPT !.IsDeactivatePending = FALSE, !.awaited = None], "ok")
      BY <2>1, <2>2, <2>3, <3>1
    <3> QED  BY <1>1, <1>2, <2>3, <3>2, LinkEndedCalm DEF d
  <2>4. CASE ~cx.IsDeactivatePending
    <3> HIDE DEF d
    <3> QED  BY <1>1, <1>2, <1>p, <2>1, <2>2, <2>4, ReportCalm
  <2> QED  BY <2>3, <2>4
<1> QED  BY <1>3, <1>4

LEMMA WatchCalm ==
  ASSUME RfInv, PowerInv, PresenceThread
  PROVE  PowerInv'
<1>1. cx \in CxType /\ ~cx.crashed
  BY DEF RfInv, Fine, PresenceThread, PresenceStep
<1>2. UNCHANGED <<RFPowerState, caller, powered, expired>>
  BY DEF PresenceThread
<1>3. CASE cx' = cx
  <2>1. Aside(cx, cx)
    BY <1>1 DEF Aside
  <2> QED  BY <1>1, <1>2, <1>3, <2>1, ReportCalm
<1>4. CASE cx.works > 0 /\ cx' = [cx EXCEPT !.works = @ - 1]
  <2> DEFINE n == cx.works - 1
             c == [cx EXCEPT !.works = n]
  <2>1. n \in Nat
    BY <1>1, <1>4 DEF CxType
  <2>2. cx' = c
    BY <1>4
  <2> HIDE DEF n
  <2>3. Aside(cx, c) /\ c.failures = cx.failures
    BY <1>1, <2>1 DEF CxType, Aside
  <2> HIDE DEF c
  <2> QED  BY <1>1, <1>2, <2>2, <2>3, ReportCalm
<1> QED  BY <1>3, <1>4 DEF PresenceThread

-----------------------------------------------------------------------------
(* What a caller executes waits, alone, where its operation begins. *)
LEMMA ExecuteIs ==
  ASSUME NEW c \in CxType, NEW op \in Asking, NEW stage \in 1 .. Len(GetEventType(op)),
         executions \in Nat
  PROVE  LET d == Execute(c, op, stage)
         IN /\ d.failures = c.failures /\ d.state = c.state
            /\ d.TransitionState = c.TransitionState /\ d.hNotifyComplete = 0
            /\ Succeeds(c.messages) => Succeeds(d.messages)
            /\ NoUser(c.PendingStateEvents) =>
                 Only(d.PendingStateEvents, GetEventType(op)[stage])
<1> DEFINE asked == [is |-> "pending", of |-> 0]
           b == [c EXCEPT !.Status = asked, !.hNotifyComplete = 0]
           event == GetEventType(op)[stage]
           n == executions + 1
           e == [event |-> event, op |-> op, request |-> n]
           d == QueueEvent(b, event, op, n)
<1>1. event \in UserEvents /\ Matches(event, op) /\ op \in CallerOps /\ n \in Nat
  BY EventTypes DEF Asking, CallerOps
<1>2. Execute(c, op, stage) = d
  BY DEF Execute
<1>3. asked \in StatusType
  BY DEF StatusType
<1> HIDE DEF asked
<1>4. b \in CxType
  BY <1>3 DEF CxType
<1>5. /\ b.state = c.state /\ b.TransitionState = c.TransitionState
      /\ b.PendingStateEvents = c.PendingStateEvents /\ b.messages = c.messages
      /\ b.hNotifyComplete = 0 /\ b.failures = c.failures
  BY DEF CxType
<1> HIDE DEF b, event, n
<1>6. /\ d.state = b.state /\ d.TransitionState = b.TransitionState
      /\ d.hNotifyComplete = b.hNotifyComplete
      /\ d.PendingStateEvents = Append(b.PendingStateEvents, e)
  BY <1>1, <1>4, QueueEventIs
<1>7. d.failures = b.failures /\ (Succeeds(b.messages) => Succeeds(d.messages))
  BY <1>4, QueueSucceeds
<1>8. e \in EventType /\ e.event = event
  BY <1>1 DEF EventType
<1> HIDE DEF d, e
<1>9. c.PendingStateEvents \in Seq(EventType)
  BY DEF CxType
<1>10. NoUser(c.PendingStateEvents) => Only(d.PendingStateEvents, event)
  BY <1>5, <1>6, <1>8, <1>9, OnlyIs
<1> QED  BY <1>2, <1>5, <1>6, <1>7, <1>10 DEF event

(* A caller begins, or goes on to its next event. *)
LEMMA AskedCalm ==
  ASSUME NEW c \in CxType, Nobodys(c), NEW op \in Asking,
         NEW stage \in 1 .. Len(GetEventType(op)), executions \in Nat,
         Succeeds(c.messages), Before(c, op, stage)
  PROVE  LET d == Execute(c, op, stage)
         IN /\ Succeeds(d.messages) /\ Replies(d)
            /\ Only(d.PendingStateEvents, GetEventType(op)[stage])
            /\ Runs(d, op, stage)
<1> DEFINE d == Execute(c, op, stage)
<1>1. /\ d.state = c.state /\ d.TransitionState = c.TransitionState /\ d.hNotifyComplete = 0
      /\ Succeeds(c.messages) => Succeeds(d.messages)
      /\ NoUser(c.PendingStateEvents) => Only(d.PendingStateEvents, GetEventType(op)[stage])
  BY ExecuteIs
<1> HIDE DEF d
<1>2. d.TransitionState # "UserEventRunning"
  BY <1>1 DEF Nobodys
<1>3. Before(d, op, stage)
  BY <1>1 DEF Before, Home, Agrees, Around
<1>4. Runs(d, op, stage) /\ Replies(d)
  BY <1>1, <1>2, <1>3 DEF Runs, Replies
<1> QED  BY <1>1, <1>4 DEF d, Nobodys

(* The new caller finds the machine where its operation begins. *)
LEMMA CallerCalm ==
  ASSUME NEW c \in CxType, Nobodys(c), NEW op \in Asking,
         NEW stage \in 1 .. Len(GetEventType(op)), executions \in Nat,
         Succeeds(c.messages), Before(c, op, stage),
         cx' = Execute(c, op, stage), caller'.op = op, caller'.stage = stage,
         caller' # NoCaller,
         op = "UpdateDiscoveryState" \/ RFPowerState' = RFPowerState, powered' = powered
  PROVE  Calm(cx)'
<1>1. /\ Succeeds(cx'.messages) /\ Replies(cx')
      /\ Only(cx'.PendingStateEvents, GetEventType(op)[stage])
      /\ Runs(cx', op, stage)
  BY AskedCalm
<1>2. cx'.TransitionState # "UserEventRunning" /\ cx'.hNotifyComplete = 0
  BY ExecuteIs DEF Nobodys
<1>3. Before(cx', op, stage)
  BY <1>1, <1>2 DEF Runs
<1>4. Before(cx, op, stage)'
  <2>1. CASE op = "UpdateDiscoveryState"
    BY <1>3, <2>1 DEF Before, Around
  <2>2. CASE op # "UpdateDiscoveryState"
    BY <1>3, <2>2 DEF Before, Home, Agrees, Around
  <2> QED  BY <2>1, <2>2
<1>5. Place(cx)'
  BY <1>1, <1>2, <1>4 DEF Place, Runs
<1> QED  BY <1>1, <1>5 DEF Calm

(* A caller takes the lock. *)
LEMMA FirstCalm ==
  ASSUME RfInv, PowerInv, ~cx.crashed, caller = NoCaller,
         NEW c \in CxType, Aside(cx, c), c.failures = cx.failures,
         NEW op \in Asking, cx' = Execute(c, op, 1),
         caller'.op = op, caller'.stage = 1, caller'.result = "ok",
         op = "Start" => ~powered, Moding(op) => powered,
         op = "UpdateDiscoveryState" \/ RFPowerState' = RFPowerState,
         powered' = powered, expired' = expired
  PROVE  PowerInv'
<1> SUFFICES ASSUME Untroubled' PROVE Calm(cx)' /\ Powered'
  BY DEF PowerInv
<1>1. executions \in Nat /\ 1 \in 1 .. Len(GetEventType(op))
  BY EventTypes DEF RfInv, Typed
<1>2. cx'.failures = cx.failures
  BY <1>1, ExecuteIs
<1>3. Untroubled
  BY <1>2 DEF Untroubled
<1>4. Calm(cx) /\ Powered
  BY <1>3 DEF PowerInv
<1>5. Nobodys(cx)
  BY <1>3, Owner DEF Untroubled
<1>6. Nobodys(c) /\ Succeeds(c.messages)
  BY <1>4, <1>5 DEF Aside, Nobodys, Calm
<1>7. Home(c)
  BY <1>4 DEF Calm, Place, Aside, Home, Agrees
<1>8. Before(c, op, 1)
  <2>1. op = "UpdateDiscoveryState" => c.state \in Working
    BY <1>7 DEF Home, Agrees, Moding, Around
  <2> QED  BY <1>7, <2>1 DEF Before, Around
<1>9. caller' # NoCaller
  BY DEF NoCaller
<1>10. Calm(cx)'
  BY <1>1, <1>6, <1>8, <1>9, CallerCalm
<1>11. Powered'
  BY <1>4 DEF Powered, Powers, Moding, Around
<1> QED  BY <1>10, <1>11

LEMMA BeginCalm ==
  ASSUME RfInv, PowerInv, NEW op \in Operations, Begin(op)
  PROVE  PowerInv'
<1> DEFINE v == cx.hStartPresenceCheck /\ op \notin Pausing
           c == [cx EXCEPT !.hStartPresenceCheck = v]
<1>1. cx \in CxType /\ op \in Asking
  BY DEF RfInv, Fine, Asking
<1>2. v \in BOOLEAN
  BY <1>1 DEF CxType
<1>3. cx' = Execute(c, op, 1)
  BY DEF Begin
<1> HIDE DEF v
<1>4. c \in CxType /\ c.failures = cx.failures
  BY <1>1, <1>2 DEF CxType
<1>5. Aside(cx, c)
  BY <1>1, <1>4 DEF CxType, Aside
<1> HIDE DEF c
<1>6. /\ caller = NoCaller /\ ~cx.crashed /\ (op = "Start" <=> ~powered)
      /\ caller' = [op |-> op, stage |-> 1, prev |-> RFPowerState, result |-> "ok"]
      /\ op = "UpdateDiscoveryState" \/ RFPowerState' = RFPowerState
      /\ powered' = powered /\ expired' = expired
  BY DEF Begin
<1>7. caller'.op = op /\ caller'.stage = 1 /\ caller'.result = "ok"
  BY <1>6
<1>8. Moding(op) => powered
  BY <1>6 DEF Moding, Around
<1> QED  BY <1>1, <1>3, <1>4, <1>5, <1>6, <1>7, <1>8, FirstCalm

LEMMA CheckCalm ==
  ASSUME RfInv, PowerInv, TargetCheckPresence
  PROVE  PowerInv'
<1>1. cx \in CxType /\ "CheckPresence" \in Asking
  BY DEF RfInv, Fine, Asking
<1>2. Aside(cx, cx)
  BY <1>1 DEF Aside
<1>3. /\ caller = NoCaller /\ ~cx.crashed
      /\ caller' = [NoCaller EXCEPT !.op = "CheckPresence", !.stage = 1]
      /\ cx' = Execute(cx, "CheckPresence", 1)
      /\ RFPowerState' = RFPowerState /\ powered' = powered /\ expired' = expired
  BY DEF TargetCheckPresence, PresenceStep
<1>4. caller'.op = "CheckPresence" /\ caller'.stage = 1 /\ caller'.result = "ok"
  BY <1>3 DEF NoCaller
<1>5. ~Moding("CheckPresence")
  BY DEF Moding, Around
<1> QED  BY <1>1, <1>2, <1>3, <1>4, <1>5, FirstCalm

LEMMA DoneAside ==
  ASSUME NEW b \in CxType, NEW op, NEW result
  PROVE  Aside(b, Done(b, op, result)) /\ Done(b, op, result).failures = b.failures
<1> DEFINE v == b.hStartPresenceCheck \/ Resuming(op, result)
           w == b.EnableSEDiscovery \/ (op = "Enumerate" /\ result = "ok")
           c == [b EXCEPT !.hStartPresenceCheck = v, !.EnableSEDiscovery = w]
<1>1. v \in BOOLEAN /\ w \in BOOLEAN
  BY DEF CxType, Resuming
<1>2. Done(b, op, result) = c
  BY DEF Done
<1> HIDE DEF v, w
<1>3. Aside(b, c) /\ c.failures = b.failures
  BY <1>1 DEF CxType, Aside
<1> HIDE DEF c
<1> QED  BY <1>2, <1>3

(* A caller whose last event has ended leaves the machine where it is due. *)
LEMMA LeftCalm ==
  ASSUME RfInv, PowerInv, ~cx.crashed, Untroubled, caller # NoCaller, Nobodys(cx),
         NEW d, Aside(cx, d), cx' = d, caller' = NoCaller,
         NEW result, caller.stage = 1 => result = cx.Status.is,
         After(cx, caller.op, caller.stage),
         caller.op \in Around => caller.stage = 3,
         caller.op = "UpdateDiscoveryState" \/ caller.op = "Start" => caller.stage = 1,
         caller.op = "Stop" => ~RFPowerState' /\ ~powered',
         caller.op = "Start" /\ result = "ok" => powered',
         caller.op \notin {"Start", "Stop"} => (powered' <=> powered),
         caller.op # "Stop" /\ (caller.op = "UpdateDiscoveryState" => result = "ok") =>
           (RFPowerState' <=> RFPowerState)
  PROVE  Calm(cx)' /\ Powered'
<1> DEFINE op == caller.op
<1>1. Calm(cx) /\ Powered
  BY DEF PowerInv
<1>2. d.state = cx.state /\ d.messages = cx.messages
      /\ d.TransitionState = cx.TransitionState
  BY DEF Aside
<1>3. Succeeds(cx'.messages) /\ Replies(cx')
  BY <1>1, <1>2 DEF Calm, Replies, Nobodys
<1>4. Home(cx)' /\ (~powered' => ~RFPowerState')
  <2>1. CASE op = "Start"
    <3>1. cx.state = "RfIdle" /\ result = "ok"
      BY <2>1 DEF After, Around
    <3>2. powered' /\ ~RFPowerState'
      BY <1>1, <2>1, <3>1 DEF Powered, Powers
    <3> QED  BY <1>2, <3>1, <3>2 DEF Home, Agrees, Working, Polling
  <2>2. CASE op = "Stop"
    <3>1. cx.state = "Idle"
      BY <2>2 DEF After, Around
    <3>2. ~powered' /\ ~RFPowerState'
      BY <2>2
    <3> QED  BY <1>2, <3>1, <3>2 DEF Home
  <2>3. CASE op = "UpdateDiscoveryState"
    <3>1. Agrees(cx) /\ result = "ok"
      BY <2>3 DEF After, Around
    <3>2. (powered' <=> powered) /\ (RFPowerState' <=> RFPowerState) /\ powered
      BY <1>1, <2>3, <3>1 DEF Powered, Powers, Moding, Around
    <3>3. Agrees(cx)'
      BY <1>2, <3>1, <3>2 DEF Agrees
    <3> QED  BY <3>2, <3>3 DEF Home
  <2>4. CASE op \notin {"Start", "Stop", "UpdateDiscoveryState"}
    <3>1. Home(cx)
      BY <2>4 DEF After, Around
    <3>2. (powered' <=> powered) /\ (RFPowerState' <=> RFPowerState)
      BY <2>4
    <3>3. ~powered' => ~RFPowerState'
      BY <1>1, <3>2 DEF Powered
    <3>4. CASE powered
      <4>1. Agrees(cx)
        BY <3>1, <3>4 DEF Home
      <4>2. Agrees(cx)'
        BY <1>2, <3>2, <4>1 DEF Agrees
      <4> QED  BY <3>2, <3>3, <3>4, <4>2 DEF Home
    <3>5. CASE ~powered
      <4>1. cx'.state = "Idle"
        BY <1>2, <3>1, <3>5 DEF Home
      <4> QED  BY <3>2, <3>3, <3>5, <4>1 DEF Home
    <3> QED  BY <3>4, <3>5
  <2> QED  BY <2>1, <2>2, <2>3, <2>4
<1>5. Calm(cx)'
  BY <1>3, <1>4 DEF Calm, Place
<1>6. NoCaller.op = None /\ NoCaller.stage = 0 /\ ~Moding(None) /\ None # "Start"
  BY DEF NoCaller, Moding, None, Around
<1>7. Powered'
  BY <1>4, <1>6 DEF Powered, Powers
<1> QED  BY <1>5, <1>7

(* Between the events of an operation the machine is where the next one is due. *)
LEMMA NextDue ==
  ASSUME NEW op \in Asking, NEW stage \in 1 .. Len(GetEventType(op)),
         stage # Len(GetEventType(op)), NEW c, After(c, op, stage)
  PROVE  stage + 1 \in 1 .. Len(GetEventType(op)) /\ Before(c, op, stage + 1)
<1>1. Len(GetEventType(op)) \in Nat /\ stage \in Nat
  BY EventTypes
<1>2. stage + 1 \in 1 .. Len(GetEventType(op))
  BY <1>1
<1>3. op \notin {"Start", "Stop", "UpdateDiscoveryState"}
  <2>1. ASSUME op \in {"Start", "Stop", "UpdateDiscoveryState"} PROVE FALSE
    <3>1. \E x : GetEventType(op) = <<x>>
      BY <2>1, SteeringEvents
    <3>2. Len(GetEventType(op)) = 1
      BY <3>1
    <3> QED  BY <3>2
  <2> QED  BY <2>1
<1>4. Before(c, op, stage + 1)
  <2>1. CASE op \in Around
    <3>1. Len(GetEventType(op)) = 3
      BY <2>1, SteeringEvents
    <3>2. stage = 1 \/ stage = 2
      BY <3>1
    <3>3. c.state = "RfIdle" /\ stage + 1 > 1
      BY <2>1, <3>2 DEF After, Around
    <3> QED  BY <2>1, <3>3 DEF Before, Around
  <2>2. CASE op \notin Around
    BY <1>3, <2>2 DEF After, Before, Around
  <2> QED  BY <2>1, <2>2
<1> QED  BY <1>2, <1>4

LEMMA CompletedCalm ==
  ASSUME RfInv, PowerInv, Completed
  PROVE  PowerInv'
<1> DEFINE op == caller.op
           status == cx.Status.is
           result == Result(status)
           over == \/ caller.stage = Len(GetEventType(op))
                   \/ status # "ok" /\ caller.stage = 1 /\ GivesUp(op)
<1> SUFFICES ASSUME Untroubled' PROVE Calm(cx)' /\ Powered'
  BY DEF PowerInv
<1>1. cx \in CxType /\ Typed /\ executions \in Nat /\ caller # NoCaller
      /\ cx.hNotifyComplete # 0 /\ ~cx.crashed
  BY DEF RfInv, Fine, Typed, Completed
<1>2. op \in Asking /\ caller.stage \in 1 .. Len(GetEventType(op)) /\ caller \in CallerType
  BY <1>1 DEF Typed
<1>3. Return2Caller(status) /\ expired' = expired
  BY DEF Completed
<1>4. cx'.failures = cx.failures
  <2>1. CASE over
    <3>1. cx' = Done(cx, op, result)
      BY <1>3, <2>1 DEF Return2Caller
    <3> HIDE DEF result, op
    <3> QED  BY <1>1, <3>1, DoneAside
  <2>2. CASE ~over
    <3>1. cx' = Execute(cx, op, caller.stage + 1)
      BY <1>3, <2>2 DEF Return2Caller
    <3>2. Len(GetEventType(op)) \in Nat /\ caller.stage # Len(GetEventType(op))
      BY <1>2, <2>2, EventTypes
    <3> HIDE DEF op
    <3>3. caller.stage + 1 \in 1 .. Len(GetEventType(op))
      BY <1>2, <3>2
    <3> QED  BY <1>1, <1>2, <3>1, <3>3, ExecuteIs
  <2> QED  BY <2>1, <2>2
<1>5. Untroubled
  BY <1>3, <1>4 DEF Untroubled
<1>6. Calm(cx) /\ Powered
  BY <1>1, <1>5 DEF PowerInv
<1>7. Nobodys(cx)
  BY <1>1, <1>5 DEF RfInv, Owned, Mine, Untroubled, Nobodys
<1>8. After(cx, op, caller.stage)
  BY <1>1, <1>6, <1>7 DEF Calm, Place, Runs, Nobodys
<1>9. CASE over
  <2>1. caller' = NoCaller /\ cx' = Done(cx, op, result)
    BY <1>3, <1>9 DEF Return2Caller
  <2>2. /\ RFPowerState' = CASE op = "Stop" -> FALSE
                             [] op = "UpdateDiscoveryState" /\ result # "ok" -> caller.prev
                             [] OTHER -> RFPowerState
        /\ powered' = CASE op = "Start" -> result = "ok"
                        [] op = "Stop" -> FALSE
                        [] OTHER -> powered
    BY <1>3, <1>9 DEF Return2Caller
  <2>3. op \in Around => caller.stage = 3
    <3>1. ASSUME op \in Around PROVE caller.stage = 3
      <4>1. Len(GetEventType(op)) = 3
        BY <3>1, SteeringEvents
      <4>2. caller.stage = 1 => status = "ok"
        BY <1>8, <3>1 DEF After, Around
      <4> QED  BY <1>9, <4>1, <4>2
    <3> QED  BY <3>1
  <2>4. caller.stage = 1 => result = status
    <3>1. caller.stage = 1 => caller.result = "ok"
      BY <1>6 DEF Powered
    <3>2. op = "SetRouting" => caller.stage = 3
      BY <2>3 DEF Around
    <3> QED  BY <3>1, <3>2 DEF Result
  <2>5. op = "UpdateDiscoveryState" \/ op = "Start" => caller.stage = 1
    <3>1. ASSUME op = "UpdateDiscoveryState" \/ op = "Start" PROVE caller.stage = 1
      <4>1. Len(GetEventType(op)) = 1
        BY <3>1, SteeringEvents
      <4> QED  BY <1>2, <4>1
    <3> QED  BY <3>1
  <2> HIDE DEF op, result, over, status
  <2>6. Aside(cx, cx')
    BY <1>1, <2>1, DoneAside
  <2>7. op = "Stop" => ~RFPowerState' /\ ~powered'
    BY <2>2
  <2>8. op = "Start" /\ result = "ok" => powered'
    BY <2>2
  <2>9. op \notin {"Start", "Stop"} => (powered' <=> powered)
    BY <2>2
  <2>10. op # "Stop" /\ (op = "UpdateDiscoveryState" => result = "ok") =>
           (RFPowerState' <=> RFPowerState)
    BY <2>2
  <2> QED  BY <1>1, <1>5, <1>7, <1>8, <2>1, <2>3, <2>4, <2>5, <2>6, <2>7, <2>8, <2>9, <2>10,
              LeftCalm DEF op, status
<1>10. CASE ~over
  <2>1. /\ caller' = [caller EXCEPT !.stage = @ + 1, !.result = result]
        /\ cx' = Execute(cx, op, caller.stage + 1)
        /\ RFPowerState' = RFPowerState /\ powered' = powered
    BY <1>3, <1>10 DEF Return2Caller
  <2>2. caller.stage # Len(GetEventType(op))
    BY <1>10
  <2> HIDE DEF result, over
  <2>3. caller'.op = op /\ caller'.stage = caller.stage + 1
    BY <1>2, <2>1 DEF CallerType
  <2>4. caller' # NoCaller
    <3>1. caller'.op # None
      BY <1>2, <2>3, RfAssumption DEF Asking, CallerOperations, None
    <3> QED  BY <3>1 DEF NoCaller
  <2> HIDE DEF op
  <2>5. caller.stage + 1 \in 1 .. Len(GetEventType(op)) /\ Before(cx, op, caller.stage + 1)
    BY <1>2, <1>8, <2>2, NextDue
  <2>6. Calm(cx)'
    BY <1>1, <1>2, <1>6, <1>7, <2>1, <2>3, <2>4, <2>5, CallerCalm DEF Calm
  <2>7. Powered'
    <3>1. caller.stage + 1 # 1
      BY <1>2
    <3>2. (~powered => ~RFPowerState) /\ Powers(op)
      BY <1>6 DEF Powered, op
    <3> QED  BY <2>1, <2>3, <3>1, <3>2 DEF Powered, Powers
  <2> QED  BY <2>6, <2>7
<1> QED  BY <1>9, <1>10

LEMMA InitPower == Init => PowerInv
<1> SUFFICES ASSUME Init PROVE Calm(cx) /\ Powered
  BY DEF PowerInv
<1>1. /\ cx.state = "Idle" /\ cx.TransitionState = "Idle" /\ cx.messages = <<>>
      /\ caller = NoCaller /\ ~powered /\ ~RFPowerState
  BY DEF Init
<1>2. Succeeds(<<>>)
  BY DEF Succeeds
<1>3. Calm(cx)
  BY <1>1, <1>2 DEF Calm, Replies, Place, Home
<1>4. NoCaller.op = None /\ NoCaller.stage = 0 /\ ~Moding(None) /\ None # "Start"
  BY DEF NoCaller, Moding, None, Around
<1>5. Powered
  BY <1>1, <1>4 DEF Powered, Powers
<1> QED  BY <1>3, <1>5

LEMMA NextPower == RfInv /\ PowerInv /\ [Next]_vars => PowerInv'
<1> SUFFICES ASSUME RfInv, PowerInv, [Next]_vars PROVE PowerInv'
  OBVIOUS
<1>1. CASE LibNfcMessageHandler
  BY <1>1, HandlerCalm
<1>2. CASE StepAnswered
  BY <1>2, AnswerCalm
<1>3. CASE InitializeRedo
  BY <1>3, RedoCalm
<1>4. ASSUME NEW d \in Devices, RemoteDevNtfCB(d) PROVE PowerInv'
  BY <1>4, FoundCalm
<1>5. CASE HandleSEDeviceHostEvent \/ HandleSecureElementEvent
  BY <1>5, EmulationCalm
<1>6. CASE LinkActivated \/ LinkDeactivated
  BY <1>6, LinkCalm
<1>7. ASSUME NEW op \in Operations, Begin(op) PROVE PowerInv'
  BY <1>7, BeginCalm
<1>8. CASE Completed
  BY <1>8, CompletedCalm
<1>9. CASE TimedOut
  BY <1>9 DEF TimedOut, PowerInv, Untroubled
<1>10. CASE PresenceThread
  BY <1>10, WatchCalm
<1>11. CASE TargetCheckPresence
  BY <1>11, CheckCalm
<1>12. CASE UNCHANGED vars
  <2>1. UNCHANGED <<cx, RFPowerState, caller, powered, expired>>
    BY <1>12 DEF vars
  <2>2. CASE cx.crashed
    BY <2>1, <2>2 DEF PowerInv
  <2>3. CASE ~cx.crashed
    <3>1. Calm(cx) => Calm(cx')
      BY <2>1
    <3>2. cx'.failures = cx.failures
      BY <2>1
    <3>3. ~cx'.crashed /\ cx'.failures = 0 /\ ~expired =>
            cx.failures = 0 /\ (Calm(cx) /\ Powered => Calm(cx'))
      BY <3>1, <3>2
    <3> QED  BY <2>1, <2>3, <3>3, CalmStep
  <2> QED  BY <2>2, <2>3
<1> QED  BY <1>1, <1>2, <1>3, <1>4, <1>5, <1>6, <1>7, <1>8, <1>9, <1>10, <1>11, <1>12 DEF Next

(* When nothing has failed and nothing is left to do, the controller polls   *)
(* exactly when NfcCxPowerShouldEnableDiscovery holds (power.cpp:512), in     *)
(* whatever order the callers' operations, the devices and the presence      *)
(* checks came.                                                              *)
THEOREM DiscoveryFollowsPowerHolds == Spec => []DiscoveryFollowsPower
<1>1. PowerInv => DiscoveryFollowsPower
  <2> SUFFICES ASSUME PowerInv, Quiet, caller = NoCaller, powered, Untroubled
               PROVE  cx.state \in {"RfDiscovery", "RfDiscovered", "RfDataXchg"} <=> RFPowerState
    BY DEF DiscoveryFollowsPower
  <2>1. Calm(cx)
    BY DEF PowerInv, Quiet
  <2>2. Agrees(cx)
    BY <2>1 DEF Calm, Place, Home
  <2> QED  BY <2>2 DEF Agrees, Polling
<1>2. Spec => []PowerInv
  BY InitPower, NextPower, SpecInv, PTL DEF Spec
<1> QED  BY <1>1, <1>2, PTL
=============================================================================
