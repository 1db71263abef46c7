------------------------------ MODULE NfcCxRF ------------------------------
(***************************************************************************)
(* The RF interface of the class extension (Cx/NfcCxRF.cpp) with its state *)
(* machine (NfcCxState.cpp) and its sequences (NfcCxSequence.cpp), and the *)
(* LLCP and SNEP interfaces (NfcCxLLCP.cpp, NfcCxSNEP.cpp).                *)
(*                                                                         *)
(* One thread, the LibNfc thread, runs the state machine: it takes its     *)
(* messages in order, and every callback of LibNfc comes on it.  A thread  *)
(* of a caller holds DeviceLock, queues one event and waits for it; the    *)
(* presence thread is such a caller.  The client driver answers its        *)
(* sequence handlers when it likes, on any thread.                         *)
(*                                                                         *)
(* The shared memory of all of them is the record cx; an operator named    *)
(* after a function takes it and returns it, or the set of what it may     *)
(* become.  Statuses are "ok", "failed", "lost" (STATUS_LINK_FAILED) and   *)
(* "pending".  Memory never runs out.  ChainEvent is only called when a    *)
(* sequence has ended, never in a state handler, so its message has no     *)
(* counterpart.                                                            *)
(***************************************************************************)
EXTENDS Integers, Sequences, FiniteSets

CONSTANTS Handled,         \* sequence points the client driver has handlers for
          Devices,         \* kinds of remote devices that come along
          Operations,      \* operations that callers ask for
          RecoveryMode,    \* NFC_CX_DRIVER_DISABLE_RECOVERY_MODE is not set
          TimesOut,        \* a caller may give up after MAX_WATCHDOG_TIMEOUT
          SecureElements,  \* elements that an enumeration finds switched on
          MaxInputs,       \* events of operations, presence checks and remote devices, after
                           \* which no operation begins and no device comes
          MaxFailures      \* steps that fail

ClientSteps == {"PreInitialize", "PostInitialize", "PreDeinitialize", "PostDeinitialize",
                "PreRfDiscoveryStart", "PostRfDiscoveryStart", "PreRfDiscoveryStop",
                "PostRfDiscoveryStop", "PreSEEnumerate", "PostSEEnumerate", "PreRecovery",
                "PostRecovery"}

CallerOperations == {"Start", "Stop", "UpdateDiscoveryState", "TargetReactivate",
                     "TargetDeactivate", "TargetActivate", "WriteTag", "WriteP2P", "Transmit",
                     "TargetSend", "ConvertToReadOnly", "SetMode", "ESETransceive", "ESEReset",
                     "SetRouting", "Enumerate"}

ASSUME RfAssumption ==
  /\ Handled \subseteq ClientSteps
  /\ Operations \subseteq CallerOperations
  /\ Devices \subseteq {"Tag", "Kovio", "Target", "Initiator", "PCD"}
  /\ RecoveryMode \in BOOLEAN /\ TimesOut \in BOOLEAN
  /\ {SecureElements, MaxInputs, MaxFailures} \subseteq Nat

VARIABLES
  cx,       \* what the threads share: see TypeOK
  RFPowerState, \* whether NfcCxPowerShouldEnableDiscovery holds of it
  caller,   \* who holds DeviceLock, and how far it is
  presence, \* where NfcCxRFInterfaceTagPresenceThread is
  powered,  \* the device is between D0 entry and D0 exit
  executions, devices, \* counted for the bounds
  asleep,   \* history: a presence check met a tag that a caller had put to sleep
  expired   \* history: a caller has given up

vars == <<cx, RFPowerState, caller, presence, powered, executions, devices, asleep, expired>>

None == "none"
NoSequence == [steps |-> <<>>, next |-> 1, done |-> None, user |-> FALSE]
NoCaller == [op |-> None, stage |-> 0, prev |-> FALSE, result |-> "ok"]

(***************************************************************************)
(* The tables of NfcCxState.cpp.  A state without a row, and a row without *)
(* the event, has NfcCxStateNone.                                          *)
(***************************************************************************)
States == {"Idle", "Init", "RfIdle", "RfDiscovery", "RfDiscovered", "RfDataXchg",
           "Recovery", "Shutdown"}
UserEvents == {"Init", "Deinit", "ConfigDiscovery", "StopDiscovery", "Activate",
               "DeactivateSleep", "Config", "DataXchg", "SE"}

g_NfcCxUsrEvent2StateMap ==
  [Idle |-> [Init |-> "Init"],
   RfIdle |-> [Deinit |-> "Shutdown", ConfigDiscovery |-> "ConnChkDiscMode",
               StopDiscovery |-> "RfIdle", Config |-> "RfIdle", SE |-> "RfIdle"],
   RfDiscovery |-> [Deinit |-> "Shutdown", ConfigDiscovery |-> "ConnChkDiscMode",
                    StopDiscovery |-> "RfIdle", SE |-> "RfDiscovery"],
   RfDiscovered |-> [Deinit |-> "Shutdown", ConfigDiscovery |-> "ConnChkDiscMode",
                     StopDiscovery |-> "RfIdle", Activate |-> "ConnChkDeviceType",
                     SE |-> "RfDiscovered"],
   RfDataXchg |-> [Deinit |-> "Shutdown", ConfigDiscovery |-> "ConnChkDiscMode",
                   StopDiscovery |-> "RfIdle", DeactivateSleep |-> "ConnChkDeviceType",
                   DataXchg |-> "RfDataXchg", SE |-> "RfDataXchg"],
   Recovery |-> [Deinit |-> "Shutdown"]]

g_NfcCxIntEvent2StateMap ==
  [Idle |-> [ReqCompleted |-> "Idle"],
   Init |-> [ReqCompleted |-> "RfIdle", Failed |-> "Shutdown"],
   RfIdle |-> [ReqCompleted |-> "RfIdle", Recovery |-> "Recovery", Failed |-> "RfIdle"],
   RfDiscovery |-> [ReqCompleted |-> "RfDiscovery", Recovery |-> "Recovery",
                    Discovered |-> "RfDiscovered", Failed |-> "RfDiscovery"],
   RfDiscovered |-> [ReqCompleted |-> "RfDiscovered", Recovery |-> "Recovery",
                     Activated |-> "RfDataXchg", Deactivated |-> "ConnChkDiscMode",
                     Failed |-> "ConnChkDiscMode"],
   RfDataXchg |-> [ReqCompleted |-> "RfDataXchg", Recovery |-> "Recovery",
                   Deactivated |-> "ConnChkDiscMode", Failed |-> "RfDataXchg"],
   Recovery |-> [ReqCompleted |-> "ConnChkDiscMode", Failed |-> "Idle"],
   Shutdown |-> [ReqCompleted |-> "Idle", Failed |-> "Idle"]]

(* NfcCxRFInterfaceConnChkDiscMode and NfcCxRFInterfaceConnChkDeviceType decide. *)
Connect(c, target) ==
  CASE target = "ConnChkDiscMode" -> IF RFPowerState THEN "RfDiscovery" ELSE "RfIdle"
    [] target = "ConnChkDeviceType" ->
         IF ~c.bIsTagPresent THEN None
         ELSE IF c.state = "RfDiscovered" THEN "RfDataXchg" ELSE "RfDiscovered"
    [] OTHER -> target

FindTargetState(c, event) ==
  LET map == IF event \in UserEvents THEN g_NfcCxUsrEvent2StateMap
             ELSE g_NfcCxIntEvent2StateMap
  IN IF c.state \in DOMAIN map /\ event \in DOMAIN map[c.state]
     THEN Connect(c, map[c.state][event]) ELSE None

(***************************************************************************)
(* What a state handler does: it starts a sequence with a completion, or   *)
(* returns a status at once.  lost, clears: it calls TagConnectionLost,    *)
(* ClearRemoteDevList (with the end of card emulation).                    *)
(***************************************************************************)
Start(steps, done) == [steps |-> steps, done |-> done, status |-> "pending",
                       lost |-> FALSE, clears |-> FALSE]
Return(status) == [Start(<<>>, None) EXCEPT !.status = status]
Losing(plan) == [plan EXCEPT !.lost = TRUE]

INITIALIZE_SEQUENCE == <<"PreInitialize", "Initialize", "PostInitialize">>
DEINITIALIZE_SEQUENCE == <<"PreDeinitialize", "Deinitialize", "PostDeinitialize">>
RF_DISCOVERY_CONFIG_SEQUENCE ==
  <<"PreRfDiscoveryStart", "RfDiscoveryConfig", "PostRfDiscoveryStart">>
RF_DISCOVERY_STOP_SEQUENCE == <<"PreRfDiscoveryStop", "RfDiscoveryStop", "PostRfDiscoveryStop">>
DISCONNECT_STOP_SEQUENCE ==
  <<"PreRfDiscoveryStop", "RemoteDevDisconnect", "PostRfDiscoveryStop">>
TAG_READ_NDEF_SEQUENCE == <<"TagCheckNdef", "TagReadNdef">>
TAG_WRITE_NDEF_SEQUENCE == <<"TagFormatNdef", "TagCheckNdef", "TagWriteNdef">>
SE_ENUMERATE_SEQUENCE ==
  <<"PreSEEnumerate", "SEEnumerate", "PostSEEnumerate", "SetDefaultRoutingTable">>

(* Registrations that follow every initialisation *)
REGISTER_SEQUENCE == <<"RemoteDevNtfRegister", "LlcpConfigure", "SENtfRegister">>

StateInitialize(c) ==
  Start(INITIALIZE_SEQUENCE \o REGISTER_SEQUENCE
        \o IF c.EnableSEDiscovery THEN SE_ENUMERATE_SEQUENCE \o <<"DisableSecureElements">>
           ELSE <<>>, "Init")

StateShutdown == Start(DEINITIALIZE_SEQUENCE, "Shutdown")

StateRecovery(c) ==
  Start(<<"PreRecovery">> \o DEINITIALIZE_SEQUENCE \o INITIALIZE_SEQUENCE \o REGISTER_SEQUENCE
        \o (IF c.EnableSEDiscovery THEN SE_ENUMERATE_SEQUENCE ELSE <<>>)
        \o <<"PostRecovery">>, "Recovery")

StateRfIdle2RfDiscovery == Start(RF_DISCOVERY_CONFIG_SEQUENCE, "StartRfDiscovery")

StateRfDiscovery2RfIdle == Start(RF_DISCOVERY_STOP_SEQUENCE, "StopRfDiscovery")

StateRfActive2RfIdle(c) ==
  CASE c.list = "Target" ->
         Start(<<"LlcpDeactivate">> \o DISCONNECT_STOP_SEQUENCE, "P2PActive2RfIdle")
    [] c.list = "Initiator" ->
         Start(<<"LlcpDeactivate">> \o RF_DISCOVERY_STOP_SEQUENCE, "P2PActive2RfIdle")
    [] c.list = "PCD" -> Start(RF_DISCOVERY_STOP_SEQUENCE, "PCDActive2RfIdle")
    [] OTHER -> Losing(Start(DISCONNECT_STOP_SEQUENCE, "TagActive2RfIdle"))

StateRfActive2RfDiscovery(c) ==
  CASE c.list = "Target" ->
         Start(<<"LlcpDeactivate">> \o DISCONNECT_STOP_SEQUENCE \o RF_DISCOVERY_CONFIG_SEQUENCE,
               "P2PActive2RfDiscovery")
    [] c.list = "Initiator" ->
         Start(<<"LlcpDeactivate">> \o RF_DISCOVERY_CONFIG_SEQUENCE, "P2PActive2RfDiscovery")
    [] c.list = "PCD" -> [Return("ok") EXCEPT !.clears = TRUE]
    [] OTHER -> Losing(Start(DISCONNECT_STOP_SEQUENCE \o RF_DISCOVERY_CONFIG_SEQUENCE,
                             "TagActive2RfDiscovery"))

StateRfDiscovery2RfDiscovered(c) ==
  CASE c.list = "Target" ->
         Start(<<"RemoteDevConnect", "LlcpCheck", "LlcpActivate">>, "P2PDiscovered")
    [] c.list = "Initiator" -> Start(<<"LlcpCheck", "LlcpActivate">>, "P2PDiscovered")
    [] c.list = "PCD" -> Return("ok")
    [] c.list = "Kovio" -> Start(<<"TagReadBarcode">>, "BarcodeRead")
    [] OTHER -> Start(<<"RemoteDevConnect">>, "TagDiscovered")

StateRfDiscovered2RfDataXchg(c, event) ==
  IF event \in UserEvents
  THEN IF c.bIsTagPresent THEN Start(<<"RemoteDevConnect">>, "TagActivate")
       ELSE Return("failed")
  ELSE CASE c.list \in {"Target", "Initiator"} -> Start(<<"ClientConnect">>, "SNEPConnect")
         [] c.list \in {"PCD", "Kovio"} -> Return("ok")
         [] OTHER -> Start(TAG_READ_NDEF_SEQUENCE, "TagReadNdef")

(* NfcCxRFInterfaceStateSEEvent: the operation of the event chooses. *)
StateSEEvent(op) ==
  CASE op = "SetMode" -> Start(<<"SESetPowerAndLinkControl", "SESetModeConfig">>, "SESetMode")
    [] op = "ESETransceive" -> Start(<<"ESETransceiveSeq">>, "ESETransceive")
    [] op = "ESEReset" -> Start(<<"ESEResetSeq">>, "ESEReset")

StateRfIdle(event, op) ==
  CASE event = "SE" -> StateSEEvent(op)
    [] event = "Config" /\ op = "SetRouting" ->
         Start(<<"ConfigureRoutingTable">>, "SetRoutingTable")
    [] event = "Config" /\ op = "Enumerate" ->
         Start(SE_ENUMERATE_SEQUENCE \o <<"DisableSecureElements">>, "SEEnumerate")
    [] OTHER -> Return("ok")

(* The configuration a caller asks for may be the one that is in force. *)
StateRfDiscovery(event, op, same) ==
  IF event = "SE" THEN StateSEEvent(op)
  ELSE IF same THEN Return("ok")
  ELSE Start(RF_DISCOVERY_STOP_SEQUENCE \o RF_DISCOVERY_CONFIG_SEQUENCE, "RfDiscoveryConfig")

StateRfDataXchg2RfDiscovered(c) ==
  IF c.bIsTagPresent THEN Start(<<"RemoteDevDisconnect">>, "TagDeactivate")
  ELSE Return("failed")

TagSequence(op) ==
  CASE op = "WriteTag" -> Start(TAG_WRITE_NDEF_SEQUENCE, "TagWriteNdef")
    [] op = "ConvertToReadOnly" -> Start(<<"TagConvertReadOnly">>, "TagConvertReadOnly")
    [] op = "Transmit" -> Start(<<"TargetTransceive">>, "TargetTransceive")
    [] op = "CheckPresence" -> Start(<<"TargetPresenceCheck">>, "TargetPresenceCheck")

StateRfDataXchg(c, event, op) ==
  CASE event = "SE" -> StateSEEvent(op)
    [] op \in {"WriteTag", "ConvertToReadOnly", "Transmit", "CheckPresence"} ->
         IF c.bIsTagPresent THEN TagSequence(op) ELSE Return("failed")
    [] op = "WriteP2P" -> IF c.eLinkStatus = "Activated"
                          THEN Start(<<"ClientPut">>, "SNEPClientPut") ELSE Return("failed")
    [] op = "TargetSend" -> Start(<<"RemoteDevSend">>, "RemoteDevSend")

(* g_NfcCxStateHandlers: without a handler a transition succeeds. *)
Handler(c, to, event, op, same) ==
  CASE c.state = "Idle" /\ to = "Init" -> StateInitialize(c)
    [] to = "Shutdown" -> StateShutdown
    [] to = "Recovery" -> StateRecovery(c)
    [] c.state = "RfIdle" /\ to = "RfIdle" -> StateRfIdle(event, op)
    [] c.state \in {"RfIdle", "Recovery"} /\ to = "RfDiscovery" -> StateRfIdle2RfDiscovery
    [] c.state = "RfDiscovery" /\ to = "RfIdle" -> StateRfDiscovery2RfIdle
    [] c.state = "RfDiscovery" /\ to = "RfDiscovery" -> StateRfDiscovery(event, op, same)
    [] c.state = "RfDiscovery" /\ to = "RfDiscovered" -> StateRfDiscovery2RfDiscovered(c)
    [] c.state \in {"RfDiscovered", "RfDataXchg"} /\ to = "RfIdle" -> StateRfActive2RfIdle(c)
    [] c.state \in {"RfDiscovered", "RfDataXchg"} /\ to = "RfDiscovery" ->
         StateRfActive2RfDiscovery(c)
    [] c.state = "RfDiscovered" /\ to = "RfDiscovered" -> StateSEEvent(op)
    [] c.state = "RfDiscovered" /\ to = "RfDataXchg" -> StateRfDiscovered2RfDataXchg(c, event)
    [] c.state = "RfDataXchg" /\ to = "RfDiscovered" -> StateRfDataXchg2RfDiscovered(c)
    [] c.state = "RfDataXchg" /\ to = "RfDataXchg" -> StateRfDataXchg(c, event, op)
    [] OTHER -> Return("ok")

(* The handlers that look at the type of the first remote device *)
ReadsList(c, to, event) ==
  \/ c.state = "RfDiscovery" /\ to = "RfDiscovered"
  \/ c.state \in {"RfDiscovered", "RfDataXchg"} /\ to \in {"RfIdle", "RfDiscovery"}
  \/ c.state = "RfDiscovered" /\ to = "RfDataXchg" /\ event \notin UserEvents

(***************************************************************************)
(* The completion of a sequence: the event it chains, whether it sets the  *)
(* status of the request (a Usr... variant does, for user events only),    *)
(* clears the list of remote devices, and starts the presence check.       *)
(***************************************************************************)
Completion(event, answers) ==
  [event |-> event, answers |-> answers, clears |-> FALSE, submits |-> FALSE]
OrFailed(status) == IF status = "ok" THEN "ReqCompleted" ELSE "Failed"
OrDeactivated(status) == IF status = "ok" THEN "ReqCompleted" ELSE "Deactivated"
OrRecovery(status) == IF status # "ok" /\ RecoveryMode THEN "Recovery" ELSE OrFailed(status)
OrLinkFailed(status) == IF status = "lost" THEN "Deactivated" ELSE OrFailed(status)

InitSeqComplete(status) == Completion(OrFailed(status), TRUE)
ShutdownSeqComplete(status, user) == Completion(OrFailed(status), user)
RecoverySeqComplete(status) == Completion(OrFailed(status), FALSE)
StartRfDiscoverySeqComplete(status, user) == Completion(OrRecovery(status), user)
StopRfDiscoverySeqComplete(status) == Completion(OrRecovery(status), TRUE)
Active2RfIdleSeqComplete(status, user) ==
  [Completion(OrRecovery(status), user) EXCEPT !.clears = TRUE]
Active2RfDiscoverySeqComplete(status, user) ==
  [Completion(OrRecovery(status), user) EXCEPT !.clears = TRUE]
DiscoveredSeqCompleteMutant(done, status) ==
  Completion(IF done = "TagDiscovered" /\ status = "ok" THEN "Activated"
             ELSE OrDeactivated(status), TRUE)

DiscoveredSeqComplete(done, status) ==
  Completion(CASE done = "BarcodeRead" -> "Deactivated"
               [] done = "TagDiscovered" /\ status = "ok" -> "Activated"
               [] OTHER -> OrDeactivated(status), FALSE)
TagReadNdefSeqCompleteMutant(status) ==
  Completion(IF status = "lost" THEN "Deactivated" ELSE "ReqCompleted", FALSE)

TagReadNdefSeqComplete(status) ==
  IF status = "lost" THEN Completion("Deactivated", FALSE)
  ELSE [Completion("ReqCompleted", FALSE) EXCEPT !.submits = TRUE]
SNEPConnectSeqComplete(status) == Completion(OrDeactivated(status), FALSE)
TagActivateSeqComplete(status) == Completion(OrFailed(status), TRUE)
SESeqComplete(status) == Completion(OrFailed(status), TRUE)
RfDiscoveryConfigSeqComplete(status) == Completion(OrRecovery(status), TRUE)
TagDeactivateSeqComplete(status) == Completion(OrFailed(status), TRUE)
TagSeqComplete(done, status) ==
  Completion(CASE done \in {"TagWriteNdef", "TargetTransceive"} -> OrLinkFailed(status)
               [] done = "TargetPresenceCheck" -> OrDeactivated(status)
               [] OTHER -> OrFailed(status), TRUE)

SeqComplete(seq, status) ==
  CASE seq.done = "Init" -> InitSeqComplete(status)
    [] seq.done = "Shutdown" -> ShutdownSeqComplete(status, seq.user)
    [] seq.done = "Recovery" -> RecoverySeqComplete(status)
    [] seq.done = "StartRfDiscovery" -> StartRfDiscoverySeqComplete(status, seq.user)
    [] seq.done = "StopRfDiscovery" -> StopRfDiscoverySeqComplete(status)
    [] seq.done \in {"P2PActive2RfIdle", "PCDActive2RfIdle", "TagActive2RfIdle"} ->
         Active2RfIdleSeqComplete(status, seq.user)
    [] seq.done \in {"P2PActive2RfDiscovery", "TagActive2RfDiscovery"} ->
         Active2RfDiscoverySeqComplete(status, seq.user)
    [] seq.done \in {"TagDiscovered", "P2PDiscovered", "BarcodeRead"} ->
         DiscoveredSeqComplete(seq.done, status)
    [] seq.done = "TagReadNdef" -> TagReadNdefSeqComplete(status)
    [] seq.done = "SNEPConnect" -> SNEPConnectSeqComplete(status)
    [] seq.done = "TagActivate" -> TagActivateSeqComplete(status)
    [] seq.done \in {"SESetMode", "SetRoutingTable", "SEEnumerate", "ESETransceive", "ESEReset"} ->
         SESeqComplete(status)
    [] seq.done = "RfDiscoveryConfig" -> RfDiscoveryConfigSeqComplete(status)
    [] seq.done = "TagDeactivate" -> TagDeactivateSeqComplete(status)
    [] OTHER -> TagSeqComplete(seq.done, status)

(* pRemDevList: one device stands for the list. *)
ClearRemoteDevList(c) == [c EXCEPT !.list = None, !.bIsHCEConnected = FALSE]
SetRemoteDevList(c, d) == [c EXCEPT !.list = d, !.bIsHCEConnected = (d = "PCD")]

(* The services are told of the loss of a tag only if they knew of it. *)
TagConnectionLost(c) ==
  [c EXCEPT !.bIsTagPresent = FALSE, !.bIsTagConnected = FALSE, !.hStartPresenceCheck = TRUE]
TagConnectionEstablished(c) ==
  IF c.list = None THEN c ELSE [c EXCEPT !.bIsTagConnected = TRUE]
EndCardEmulation(c) == [c EXCEPT !.bIsHCEActivated = FALSE]

UserEventCompleteMutant(c, status) ==
  IF status # "ok" THEN c
  ELSE [c EXCEPT !.Status = IF @.is = "pending" THEN [is |-> status, of |-> c.request] ELSE @,
                 !.hNotifyComplete = c.request]

UserEventComplete(c, status) ==
  [c EXCEPT !.Status = IF @.is = "pending" THEN [is |-> status, of |-> c.request] ELSE @,
            !.hNotifyComplete = c.request]

QueueEvent(c, event, op, request) ==
  [c EXCEPT !.PendingStateEvents =
              Append(@, [event |-> event, op |-> op, request |-> request]),
            !.messages = Append(@, [kind |-> "next", status |-> None])]

DispatchResume(c, status) ==
  [c EXCEPT !.messages = Append(@, [kind |-> "resume", status |-> status])]

(***************************************************************************)
(* The steps of a sequence.  Immediate: what a step may return.  A client  *)
(* step without a handler succeeds.  LibNfc may refuse what it is asked;   *)
(* MaxFailures bounds how often anything fails.                            *)
(***************************************************************************)
Fails(c) == IF c.failures < MaxFailures THEN {"failed"} ELSE {}
Links(c) == IF c.failures < MaxFailures THEN {"failed", "lost"} ELSE {}

ClientStep(step) == {IF step \in Handled THEN "pending" ELSE "ok"}
LlcpStep(c, step) ==
  CASE step = "LlcpDeactivate" -> IF c.eLinkStatus = "Activated" THEN {"pending"} \cup Fails(c)
                                  ELSE {"ok"}
    [] step = "LlcpActivate" -> {"ok"} \cup Fails(c)
    [] OTHER -> {"pending"} \cup Fails(c)
SEStep(c, step) ==
  CASE step = "SENtfRegister" -> {"ok"}
    [] step = "DisableSecureElements" -> IF c.switchedOn = 0 THEN {"ok"}
                                         ELSE {"pending"} \cup Fails(c)
    [] step = "SEEnumerate" -> {"pending"} \cup Fails(c)
    [] OTHER -> {"ok", "pending"} \cup Fails(c)
RemoteDevStep(c, step) ==
  CASE step = "RemoteDevNtfRegister" -> {"ok"} \cup Fails(c)
    [] step = "RemoteDevDisconnect" -> {"ok", "pending"} \cup Fails(c)
    [] OTHER -> {"pending"} \cup Fails(c)
TagStep(c, step) ==
  CASE step = "TagReadBarcode" -> {"ok"} \cup Fails(c)
    [] step = "TagFormatNdef" -> {"ok", "pending"} \cup Fails(c)
    [] OTHER -> {"pending"} \cup Fails(c)

Immediate(c, step) ==
  CASE step \in ClientSteps -> ClientStep(step)
    [] step = "Deinitialize" -> {"pending"} \* whatever phLibNfc_Mgt_DeInitialize returns
    [] step \in {"LlcpConfigure", "LlcpCheck", "LlcpActivate", "LlcpDeactivate"} ->
         LlcpStep(c, step)
    [] step \in {"SENtfRegister", "SEEnumerate", "DisableSecureElements", "SESetModeConfig",
                 "SESetPowerAndLinkControl", "SetDefaultRoutingTable"} -> SEStep(c, step)
    [] step \in {"RemoteDevNtfRegister", "RemoteDevConnect", "RemoteDevDisconnect"} ->
         RemoteDevStep(c, step)
    [] OTHER -> TagStep(c, step)

(* NfcCxRFInterfaceTagFormatNdef skips the check of a tag that is formatted. *)
Skipped(steps, from, n) ==
  /\ n > from /\ steps[n] = "TagCheckNdef" /\ steps[n - 1] = "TagFormatNdef"

(* NfcCxSequenceRun: steps run until one does not succeed; where, and what it returned. *)
SequenceRun(c, steps, from) ==
  LET passes(n) == Skipped(steps, from, n) \/ "ok" \in Immediate(c, steps[n])
      stops == {n \in from .. Len(steps) :
                  ~Skipped(steps, from, n) /\ \A m \in from .. n - 1 : passes(m)}
  IN (UNION {{<<n, s>> : s \in Immediate(c, steps[n]) \ {"ok"}} : n \in stops})
     \cup IF \A n \in from .. Len(steps) : passes(n) THEN {<<Len(steps), "ok">>} ELSE {}

(* What the step that ended the run left behind *)
StepEffect(c, step, status) ==
  [c EXCEPT
     !.awaited = IF status = "pending" THEN step ELSE None,
     !.watchdog = (status = "pending" /\ step \in ClientSteps),
     !.IsDeactivatePending = @ \/ (step = "LlcpDeactivate" /\ status = "pending"),
     !.eLinkStatus = IF step = "LlcpConfigure" THEN "Default" ELSE @,
     !.peer = IF step = "LlcpActivate" /\ status = "ok" THEN "starting" ELSE @,
     !.failures = @ + IF status = "failed" THEN 1 ELSE 0]

(* NfcCxSequenceStart *)
SequenceStart(c, plan, user) ==
  LET started(n, s) ==
        LET d == StepEffect(
                   [c EXCEPT !.CurrentSequence =
                               [steps |-> plan.steps, done |-> plan.done, user |-> user,
                                next |-> IF s = "pending" THEN n + 1
                                         ELSE Len(plan.steps) + 1]],
                   plan.steps[n], s)
        IN IF s = "pending" THEN d ELSE DispatchResume(d, s)
  IN {started(r[1], r[2]) : r \in SequenceRun(c, plan.steps, 1)}

(***************************************************************************)
(* The state machine                                                       *)
(***************************************************************************)
EventDoneMutant(c, status) ==
  LET d == IF c.TransitionState = "UserEventRunning" THEN UserEventComplete(c, status) ELSE c
  IN [d EXCEPT !.TransitionState = "Idle", !.request = 0]

EventDone(c, status) ==
  LET d == IF c.TransitionState = "UserEventRunning" THEN UserEventComplete(c, status) ELSE c
  IN [d EXCEPT !.TransitionState = "Idle", !.request = 0,
               !.messages = IF c.PendingStateEvents = <<>> THEN @
                            ELSE Append(@, [kind |-> "next", status |-> None])]

(* A handler that finds no remote device reads through a null pointer. *)
StateHandler(c, to, event, op, same) ==
  LET plan == Handler(c, to, event, op, same)
      lost == IF plan.lost THEN TagConnectionLost(c) ELSE c
      done == IF plan.clears THEN ClearRemoteDevList(EndCardEmulation(lost)) ELSE lost
  IN IF ReadsList(c, to, event) /\ c.list = None THEN {[c EXCEPT !.crashed = TRUE]}
     ELSE IF plan.status # "pending" THEN {EventDone([done EXCEPT !.state = to], plan.status)}
     ELSE {[d EXCEPT !.state = to] : d \in SequenceStart(done, plan, event \in UserEvents)}

(* NfcCxStateInterfaceEventProcess *)
EventProcess(c, event, op, same) ==
  LET to == FindTargetState(c, event)
  IN CASE to = None -> {EventDone(c, "failed")}
       [] event \notin UserEvents /\ to = c.state -> {EventDone(c, "ok")}
       [] OTHER -> StateHandler(c, to, event, op, same)

ProcessNextQueuedEvent(c, same) ==
  IF c.TransitionState # "Idle" \/ c.PendingStateEvents = <<>> THEN {c}
  ELSE LET e == Head(c.PendingStateEvents)
       IN EventProcess([c EXCEPT !.PendingStateEvents = Tail(@), !.request = e.request,
                                 !.TransitionState = IF e.event \in UserEvents
                                                     THEN "UserEventRunning"
                                                     ELSE "InternalEventRunning"],
                       e.event, e.op, same)

ChainEvent(c, event) ==
  IF c.TransitionState = "Idle" THEN {c} ELSE EventProcess(c, event, None, FALSE)

(* The completion step of a sequence, which is no longer the current one *)
SequenceComplete(c, status) ==
  LET end == SeqComplete(c.CurrentSequence, status)
      card == IF c.CurrentSequence.done = "PCDActive2RfIdle" THEN EndCardEmulation(c) ELSE c
      list == IF end.clears THEN ClearRemoteDevList(card) ELSE card
  IN ChainEvent([list EXCEPT !.CurrentSequence = NoSequence,
                             !.Status = IF end.answers THEN [is |-> status, of |-> c.request]
                                        ELSE @,
                             !.works = @ + IF end.submits THEN 1 ELSE 0],
                end.event)

(* NfcCxSequenceResume *)
SequenceResume(c, status) ==
  LET seq == c.CurrentSequence
      ran(n, s) ==
        LET d == StepEffect([c EXCEPT !.CurrentSequence.next = n + 1], seq.steps[n], s)
        IN IF s = "pending" THEN {d} ELSE SequenceComplete(d, s)
  IN IF seq = NoSequence THEN {c}
     ELSE IF status # "ok" THEN SequenceComplete(c, status)
     ELSE UNION {ran(r[1], r[2]) : r \in SequenceRun(c, seq.steps, seq.next)}

TypeOK ==
  /\ cx.state \in States
  /\ cx.TransitionState \in {"Idle", "UserEventRunning", "InternalEventRunning"}
  /\ cx.PendingStateEvents \in Seq([event : UserEvents \cup {"Discovered", "Activated",
                                                            "Deactivated"},
                                    op : Operations \cup {"CheckPresence", None},
                                    request : Nat])
  /\ cx.messages \in Seq([kind : {"next", "resume"}, status : {"ok", "failed", "lost", None}])
  /\ cx.CurrentSequence.next \in 1 .. Len(cx.CurrentSequence.steps) + 1
  /\ cx.request \in Nat
  /\ cx.Status \in [is : {"ok", "failed", "lost", "pending"}, of : Nat]
  /\ cx.hNotifyComplete \in Nat
  /\ cx.list \in Devices \cup {None}
  /\ cx.switchedOn \in 0 .. SecureElements
  /\ \A f \in {"bIsTagPresent", "bIsTagConnected", "bIsHCEConnected", "bIsHCEActivated",
               "hStartPresenceCheck", "IsDeactivatePending", "EnableSEDiscovery", "watchdog",
               "crashed", "listening", "reader"} : cx[f] \in BOOLEAN
  /\ cx.eLinkStatus \in {"Default", "Activated", "Deactivated"}
  /\ cx.peer \in {"away", "starting", "up"}
  /\ RFPowerState \in BOOLEAN /\ powered \in BOOLEAN
  /\ presence \in {"off", "waiting", "sleeping", "asking", "checking"}
  /\ caller.op \in Operations \cup {"CheckPresence", None}
  /\ caller.result \in {"ok", "failed", "lost"}

Init ==
  /\ cx = [state |-> "Idle", TransitionState |-> "Idle", request |-> 0,
           PendingStateEvents |-> <<>>, messages |-> <<>>,
           CurrentSequence |-> NoSequence, awaited |-> None, watchdog |-> FALSE,
           Status |-> [is |-> "ok", of |-> 0], hNotifyComplete |-> 0,
           list |-> None, bIsTagPresent |-> FALSE, bIsTagConnected |-> FALSE,
           bIsHCEConnected |-> FALSE, bIsHCEActivated |-> FALSE,
           hStartPresenceCheck |-> TRUE, works |-> 0,
           eLinkStatus |-> "Default", IsDeactivatePending |-> FALSE,
           EnableSEDiscovery |-> FALSE, switchedOn |-> 0,
           listening |-> FALSE, reader |-> FALSE, peer |-> "away",
           failures |-> 0, crashed |-> FALSE]
  /\ RFPowerState = FALSE /\ powered = FALSE
  /\ caller = NoCaller
  /\ presence = "off"
  /\ executions = 0 /\ devices = 0
  /\ asleep = FALSE /\ expired = FALSE

(***************************************************************************)
(* The LibNfc thread takes a message.                                      *)
(***************************************************************************)
LibNfcMessageHandler ==
  /\ cx.messages # <<>> /\ ~cx.crashed
  /\ LET m == Head(cx.messages)
         c == [cx EXCEPT !.messages = Tail(@)]
     IN /\ cx' \in CASE m.kind = "resume" -> SequenceResume(c, m.status)
                     [] m.kind = "next" -> UNION {ProcessNextQueuedEvent(c, same) :
                                                    same \in BOOLEAN}
        /\ asleep' = (asleep \/ /\ m.kind = "next" /\ cx.PendingStateEvents # <<>>
                                /\ cx.TransitionState = "Idle"
                                /\ Head(cx.PendingStateEvents).op = "CheckPresence"
                                /\ cx.state = "RfDiscovered")
  /\ UNCHANGED <<RFPowerState, caller, presence, powered, executions, devices, expired>>

onlyCx == <<RFPowerState, caller, presence, powered, executions, asleep, expired>>

(***************************************************************************)
(* A step is answered: what its callback does, before it resumes.          *)
(***************************************************************************)
DeinitializeCB(c) ==
  [c EXCEPT !.bIsTagPresent = FALSE, !.switchedOn = 0,
            !.listening = FALSE, !.reader = FALSE, !.peer = "away"]
RemoteDevConnectCB(c, status) ==
  [c EXCEPT !.bIsTagPresent = @ \/ (status = "ok" /\ c.list \in {"Tag", "Kovio"})]
RemoteDevDisconnectCBMutant(c) == ClearRemoteDevList([c EXCEPT !.listening = FALSE])

RemoteDevDisconnectCB(c) == [c EXCEPT !.listening = FALSE]
RfDiscoveryConfigCB(c, status) == [c EXCEPT !.listening = (status = "ok")]
RfDiscoveryStopCB(c) == [c EXCEPT !.listening = FALSE, !.reader = FALSE]

(* With a publication to write the read is skipped. *)
TagCheckNdefCB(c, status, skip) ==
  LET d == IF status = "lost" THEN c ELSE TagConnectionEstablished(c)
  IN [d EXCEPT !.CurrentSequence.next = @ + IF status = "ok" /\ skip THEN 1 ELSE 0]


SEEnumerateCB(c, status) ==
  [c EXCEPT !.switchedOn = IF status = "ok" THEN SecureElements ELSE @]

(* NfcCxRepeatSequence until none is switched on *)
DisableSecureElementsCB(c, status) ==
  IF status = "ok" THEN [c EXCEPT !.switchedOn = @ - 1, !.CurrentSequence.next = @ - 1] ELSE c

Callback(c, status, skip) ==
  CASE c.awaited = "Deinitialize" -> DeinitializeCB(c)
    [] c.awaited = "RemoteDevConnect" -> RemoteDevConnectCB(c, status)
    [] c.awaited = "RemoteDevDisconnect" -> RemoteDevDisconnectCB(c)
    [] c.awaited = "RfDiscoveryConfig" -> RfDiscoveryConfigCB(c, status)
    [] c.awaited = "RfDiscoveryStop" -> RfDiscoveryStopCB(c)
    [] c.awaited = "TagCheckNdef" /\ c.CurrentSequence.done = "TagReadNdef" ->
         TagCheckNdefCB(c, status, skip)
    [] c.awaited = "SEEnumerate" -> SEEnumerateCB(c, status)
    [] c.awaited = "DisableSecureElements" -> DisableSecureElementsCB(c, status)
    [] OTHER -> c

Answers(c) ==
  IF c.awaited = "Deinitialize" THEN {"ok"}
  ELSE {"ok"} \cup IF c.awaited \in {"TagCheckNdef", "TagReadNdef", "TagWriteNdef",
                                     "TargetTransceive"} THEN Links(c) ELSE Fails(c)

StepAnswered ==
  /\ cx.awaited \notin {None, "LlcpDeactivate"} /\ ~cx.crashed
  /\ \E status \in Answers(cx), skip \in BOOLEAN :
       LET d == [Callback(cx, status, skip) EXCEPT !.awaited = None, !.watchdog = FALSE,
                                                   !.failures = @ + IF status = "ok" THEN 0 ELSE 1]
       IN cx' = DispatchResume(d, status)
  /\ UNCHANGED <<onlyCx, devices>>

(* The client asks to initialise again: NfcCxRFInterfacePostInitializeCB. *)
InitializeRedo ==
  /\ cx.awaited = "PostInitialize" /\ cx.failures < MaxFailures /\ ~cx.crashed
  /\ cx' = [cx EXCEPT !.awaited = "Deinitialize", !.watchdog = FALSE,
                      !.CurrentSequence.next = @ - 3, !.failures = @ + 1]
  /\ UNCHANGED <<onlyCx, devices>>

(***************************************************************************)
(* What the controller reports unasked                                     *)
(***************************************************************************)
RemoteDevNtfCB(d) ==
  /\ cx.listening /\ executions + devices < MaxInputs /\ ~cx.crashed
  /\ devices' = devices + 1
  /\ cx' = QueueEvent([SetRemoteDevList(cx, d) EXCEPT !.listening = FALSE,
                                                      !.reader = (d = "PCD")],
                      "Discovered", None, 0)
  /\ UNCHANGED onlyCx

HandleSEDeviceHostEvent ==
  /\ cx.reader /\ ~cx.bIsHCEActivated /\ ~cx.crashed
  /\ cx' = QueueEvent([cx EXCEPT !.bIsHCEActivated = TRUE], "Activated", None, 0)
  /\ UNCHANGED <<onlyCx, devices>>

(* The external reader has left; the controller goes back to discovery by itself. *)
HandleSecureElementEvent ==
  /\ cx.reader /\ ~cx.crashed
  /\ LET d == [cx EXCEPT !.reader = FALSE, !.listening = TRUE]
     IN cx' = IF cx.bIsHCEConnected THEN QueueEvent(d, "Deactivated", None, 0) ELSE d
  /\ UNCHANGED <<onlyCx, devices>>

LinkActivated ==
  /\ cx.peer = "starting" /\ ~cx.crashed
  /\ cx' = QueueEvent([cx EXCEPT !.peer = "up", !.eLinkStatus = "Activated"],
                      "Activated", None, 0)
  /\ UNCHANGED <<onlyCx, devices>>

LinkDeactivated ==
  /\ cx.peer # "away" /\ ~cx.crashed
  /\ LET d == [cx EXCEPT !.peer = "away", !.eLinkStatus = "Deactivated"]
     IN cx' = IF cx.IsDeactivatePending
              THEN DispatchResume([d EXCEPT !.IsDeactivatePending = FALSE,
                                            !.awaited = IF @ = "LlcpDeactivate" THEN None
                                                        ELSE @], "ok")
              ELSE QueueEvent(d, "Deactivated", None, 0)
  /\ UNCHANGED <<onlyCx, devices>>

(***************************************************************************)
(* The callers.  An operation executes one event, or several in turn.      *)
(***************************************************************************)
AroundConfigMutant == <<"StopDiscovery", "Config">>   \* the discovery is not configured again

(* The routing table and the secure elements are set up while the discovery is stopped. *)
AroundConfig == <<"StopDiscovery", "Config", "ConfigDiscovery">>

GetEventType(op) ==
  CASE op = "Start" -> <<"Init">>
    [] op = "Stop" -> <<"Deinit">>
    [] op = "UpdateDiscoveryState" -> <<"ConfigDiscovery">>
    [] op = "TargetReactivate" -> <<"DeactivateSleep", "Activate">>
    [] op = "TargetDeactivate" -> <<"DeactivateSleep">>
    [] op = "TargetActivate" -> <<"Activate">>
    [] op \in {"WriteTag", "WriteP2P", "Transmit", "TargetSend", "ConvertToReadOnly",
               "CheckPresence"} -> <<"DataXchg">>
    [] op \in {"SetMode", "ESETransceive", "ESEReset"} -> <<"SE">>
    [] op \in {"SetRouting", "Enumerate"} -> AroundConfig

(* NfcCxRFInterfaceExecute, as far as its wait *)
Execute(c, op, stage) ==
  QueueEvent([c EXCEPT !.Status = [is |-> "pending", of |-> 0], !.hNotifyComplete = 0],
             GetEventType(op)[stage], op, executions + 1)

(* Operations that stop the presence check while they work *)
Pausing == {"WriteTag", "Transmit", "ConvertToReadOnly", "TargetReactivate", "TargetDeactivate"}
Resuming(op, result) ==
  \/ op \in {"WriteTag", "Transmit", "ConvertToReadOnly", "TargetReactivate", "TargetActivate"}
  \/ op = "TargetDeactivate" /\ result # "ok"

Begin(op) ==
  /\ caller = NoCaller /\ ~cx.crashed
  /\ executions + devices < MaxInputs
  /\ op = "Start" <=> ~powered
  /\ op = "Enumerate" => ~cx.EnableSEDiscovery
  /\ caller' = [op |-> op, stage |-> 1, prev |-> RFPowerState, result |-> "ok"]
  /\ RFPowerState' = IF op = "UpdateDiscoveryState" THEN ~RFPowerState ELSE RFPowerState
  /\ cx' = Execute([cx EXCEPT !.hStartPresenceCheck = @ /\ op \notin Pausing], op, 1)
  /\ executions' = executions + 1
  /\ UNCHANGED <<presence, powered, devices, asleep, expired>>

Done(c, op, result) ==
  [c EXCEPT !.hStartPresenceCheck = @ \/ Resuming(op, result),
            !.EnableSEDiscovery = @ \/ (op = "Enumerate" /\ result = "ok")]

(* What is kept of the status of an event: the first that failed.  Setting the routing    *)
(* table looks neither at that of the stop nor at that of the configuration after it.     *)
Result(status) ==
  IF caller.result # "ok" \/ (caller.op = "SetRouting" /\ caller.stage # 2)
  THEN caller.result ELSE status

(* Whether the operation ends with a first event that failed *)
GivesUp(op) == op # "SetRouting"

(* The caller goes on to its next event, or leaves. *)
Return2Caller(status) ==
  LET op == caller.op
      result == Result(status)
      over == \/ caller.stage = Len(GetEventType(op))
              \/ status # "ok" /\ caller.stage = 1 /\ GivesUp(op)
  IN IF over
     THEN /\ caller' = NoCaller
          /\ cx' = Done(cx, op, result)
          /\ RFPowerState' = CASE op = "Stop" -> FALSE
                               [] op = "UpdateDiscoveryState" /\ result # "ok" -> caller.prev
                               [] OTHER -> RFPowerState
          /\ powered' = CASE op = "Start" -> result = "ok"
                          [] op = "Stop" -> FALSE
                          [] OTHER -> powered
          /\ presence' = CASE op # "CheckPresence" -> presence
                           [] result = "ok" /\ cx.bIsTagPresent -> "waiting"
                           [] OTHER -> "off"
          /\ UNCHANGED executions
     ELSE /\ caller' = [caller EXCEPT !.stage = @ + 1, !.result = result]
          /\ cx' = Execute(cx, op, caller.stage + 1)
          /\ executions' = executions + 1
          /\ UNCHANGED <<RFPowerState, powered, presence>>

Completed ==
  /\ caller # NoCaller /\ cx.hNotifyComplete # 0 /\ ~cx.crashed
  /\ Return2Caller(cx.Status.is)
  /\ UNCHANGED <<devices, asleep, expired>>

(* NfcCxDeviceSetFailed is called; the event goes on without its caller. *)
TimedOut ==
  /\ TimesOut /\ caller # NoCaller /\ cx.hNotifyComplete = 0 /\ ~cx.crashed
  /\ expired' = TRUE
  /\ Return2Caller("failed")
  /\ UNCHANGED <<devices, asleep>>

(***************************************************************************)
(* NfcCxRFInterfaceTagPresenceThread: one at a time, works are queued.     *)
(***************************************************************************)
PresenceStep(from, to) == presence = from /\ presence' = to /\ ~cx.crashed
Loop == IF cx.bIsTagPresent THEN "waiting" ELSE "off"

PresenceThread ==
  /\ \/ /\ cx.works > 0 /\ PresenceStep("off", Loop)
        /\ cx' = [cx EXCEPT !.works = @ - 1]
     \/ /\ cx.hStartPresenceCheck /\ PresenceStep("waiting", "sleeping")
        /\ UNCHANGED cx
     \/ /\ PresenceStep("sleeping", IF cx.bIsTagPresent /\ cx.hStartPresenceCheck
                                    THEN "asking" ELSE Loop)
        /\ UNCHANGED cx
  /\ UNCHANGED <<RFPowerState, caller, powered, executions, devices, asleep, expired>>

TargetCheckPresence ==
  /\ caller = NoCaller /\ executions + devices < MaxInputs
  /\ PresenceStep("asking", "checking")
  /\ caller' = [NoCaller EXCEPT !.op = "CheckPresence", !.stage = 1]
  /\ cx' = Execute(cx, "CheckPresence", 1)
  /\ executions' = executions + 1
  /\ UNCHANGED <<RFPowerState, powered, devices, asleep, expired>>

Next ==
  \/ LibNfcMessageHandler
  \/ StepAnswered \/ InitializeRedo
  \/ \E d \in Devices : RemoteDevNtfCB(d)
  \/ HandleSEDeviceHostEvent \/ HandleSecureElementEvent
  \/ LinkActivated \/ LinkDeactivated
  \/ \E op \in Operations : Begin(op)
  \/ Completed \/ TimedOut
  \/ PresenceThread \/ TargetCheckPresence

Spec == Init /\ [][Next]_vars

(* The LibNfc thread runs, LibNfc and the client answer, a signalled caller wakes.   *)
(* (The first is WF_vars(LibNfcMessageHandler), with its guard in place of ENABLED.) *)
MessageWaits == cx.messages # <<>> /\ ~cx.crashed
Fairness ==
  /\ []<>~MessageWaits \/ []<><<LibNfcMessageHandler>>_vars
  /\ WF_vars(StepAnswered) /\ WF_vars(LinkDeactivated)
  /\ WF_vars(Completed)
  /\ WF_vars(PresenceThread)

FairSpec == Spec /\ Fairness

Resumes == {i \in DOMAIN cx.messages : cx.messages[i].kind = "resume"}
Nexts == {i \in DOMAIN cx.messages : cx.messages[i].kind = "next"}
Quiet == cx.TransitionState = "Idle" /\ cx.PendingStateEvents = <<>> /\ ~cx.crashed
Untroubled == cx.failures = 0 /\ ~expired

(* While an event runs exactly one thing can carry it on, a message to     *)
(* resume its sequence or a step that is still to be answered, and there   *)
(* is none without one; an event that waits has a message to take it.      *)
(* Otherwise the caller that holds DeviceLock waits for ever, or the       *)
(* sequence advances twice (NfcCxSequence.cpp, NfcCxState.cpp).            *)
EventIsDriven ==
  ~cx.crashed =>
    /\ cx.TransitionState # "Idle" <=> cx.CurrentSequence # NoSequence
    /\ Cardinality(Resumes) + (IF cx.awaited = None THEN 0 ELSE 1)
         = IF cx.CurrentSequence = NoSequence THEN 0 ELSE 1
    /\ cx.TransitionState = "Idle" /\ cx.PendingStateEvents # <<>> => Nexts # {}

(* A caller that has not given up wakes to the status of its own event,    *)
(* though Status and hNotifyComplete are shared with the sequences of      *)
(* events that nobody waits for.                                           *)
OwnAnswer ==
  caller # NoCaller /\ cx.hNotifyComplete # 0 /\ ~expired =>
    cx.hNotifyComplete = executions /\ cx.Status.of = executions

(* In the active states there is a remote device, whatever was reported,   *)
(* lost or stopped in between.                                             *)
ActiveHasDevice == cx.state \in {"RfDiscovered", "RfDataXchg"} => cx.list # None

(* When nothing has failed and nothing is left to do, the controller polls *)
(* exactly when the power policy asks for it.                              *)
DiscoveryFollowsPower ==
  Quiet /\ caller = NoCaller /\ powered /\ Untroubled =>
    (cx.state \in {"RfDiscovery", "RfDiscovered", "RfDataXchg"} <=> RFPowerState)

(* While a tag is in data exchange, and no check has met it put to sleep,  *)
(* the presence thread watches it or will: otherwise its removal is never  *)
(* seen and the state machine stays there (NfcCxRF.cpp:3926).              *)
TagIsWatched ==
  Quiet /\ cx.state = "RfDataXchg" /\ cx.list = "Tag" /\ ~asleep /\ Untroubled =>
    cx.bIsTagPresent /\ (cx.works > 0 \/ presence # "off")

(* A caller gets its answer, whether the steps succeed or not. *)
Answered == caller # NoCaller ~> caller = NoCaller \/ cx.crashed
=============================================================================
