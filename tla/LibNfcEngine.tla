---------------------------- MODULE LibNfcEngine ----------------------------
(***************************************************************************)
(* The engine of LibNfc: its sequences (LibNfc/phLibNfc_Sequence.c, the    *)
(* steps in _Discovery.c, phLibNfc.c and _InternalConnect.c), the          *)
(* transitions between its states (_State_Functions.c) and the state       *)
(* handler (_State.c), on the NCI layer of NciDiscovery.                   *)
(*                                                                         *)
(* An operator named after a function (without phLibNfc_) takes the record *)
(* q of NciDiscovery and LibNfcStart and returns what the function makes   *)
(* of it, its result in q.st.                                              *)
(*                                                                         *)
(* Kinds of device: "Tag" (an ISO 15693 tag), "Ultra" and "Mifare"         *)
(* (Mifare Ultralight and Classic), "Target" and "Initiator" (peers),      *)
(* "Other" (nobody registers for it).  Left out: Felica and ISO-DEP, whose *)
(* connection and presence check are sequences of their own, Mifare        *)
(* Classic authentication, and card emulation.                             *)
(*                                                                         *)
(* q.broken names what ends the history: an access through NULL ("null"),  *)
(* a command on top of another ("overrun"), or a defect known by name.     *)
(***************************************************************************)
EXTENDS LibNfcState, TLC

Ops == {"Config", "Connect", "Disconnect", "Transceive", "Check", "Send", "Receive", "DeInit"}
Exchanges == {"Transceive", "Send", "Receive"}

LibNfcStart == NciStart @@
  [curr |-> "Init", trgt |-> None, flag |-> "Complete",  \* StateContext
   lseq |-> None, lnext |-> 0,      \* pSeqHandler and SeqNext
   deferred |-> <<>>,               \* pDeferredEvent
   dq |-> 0,                        \* queued DeferredEventHandler callbacks
   mode |-> "Config",               \* DiscDisconnMode
   delay |-> FALSE,                 \* bDiscDelayFlag
   inProg |-> FALSE,                \* bDiscoverInProgress
   skip |-> "Complete",             \* bSkipTransceive
   notifyEn |-> FALSE,              \* bDiscovery_Notify_Enable
   callL |-> TRUE,                  \* bCall_RegisterListner_Cb
   info |-> FALSE,                  \* pInfo is not NULL
   list |-> <<>>,                   \* psRemoteDevList with Map_Handle
   devCnt |-> 0,                    \* dev_cnt
   conn |-> None,                   \* Connected_handle
   dummy |-> None,                  \* DummyConnect_handle
   tech |-> FALSE, rfDep |-> FALSE, \* bTechMode, bRfInterface = NFC-DEP
   totalDev |-> 0,                  \* bTotalNumDev
   pcd |-> FALSE,                   \* bPcdConnected
   only |-> FALSE,                  \* bReactivation_Flag = ONLYSELECT
   cfg |-> FALSE,                   \* tADDconfig enables something
   tagEvent |-> None,               \* DiscTagTrigEvent
   post |-> <<>>,                   \* queued ConnectTimer and ChkPresenceTimer
   delayTimers |-> 0, initTimer |-> FALSE,
   slot |-> [op \in Ops |-> None],  \* CBInfo
   owed |-> [op \in Ops |-> 0],     \* answers owed to callers that got PENDING
   alive |-> TRUE]                  \* the library context exists

Broken(q, why) == [q EXCEPT !.broken = IF @ = None THEN why ELSE @]
Null(q) == St(Broken(q, "null"), "failed")

\* The caller of op is told; one in a slot that is Late was given up before.
Told(q, op) ==
  CASE q.slot[op] = None -> q
    [] q.slot[op] = "Late" -> [q EXCEPT !.slot[op] = None]
    [] OTHER -> [q EXCEPT !.slot[op] = None, !.owed[q.slot[op]] = @ - 1]

Accept(q, op) == [q EXCEPT !.slot[op] = op, !.owed[op] = @ + 1]

ClearInfo(q) ==
  [q EXCEPT !.conn = None, !.dummy = None, !.list = <<>>, !.devCnt = 0, !.totalDev = 0,
            !.only = FALSE, !.info = FALSE]

\* MapRemoteDevHandle: the places of dev in the list given to the clients.
Map(q, dev) == {i \in DOMAIN q.list : dev # None /\ q.list[i].id = dev.id}
SessionOpened(q, dev) == \E i \in RetrieveRemDevInfo(q, dev.id) : q.devs[i].open
CopySession(q, dev) ==
  [q EXCEPT !.list = [i \in DOMAIN @ |-> IF i \in Map(q, dev)
                                         THEN [@[i] EXCEPT !.open = SessionOpened(q, dev)] ELSE @[i]]]
Device(d) == [kind |-> d.kind, id |-> d.id]
IsMfc(dev) == dev # None /\ dev.kind = "Mifare"          \* ChkMfCTag

(***************************************************************************)
(* Sequences: their steps, and what starts each step.                      *)
(***************************************************************************)
Steps ==
  [Discover |-> <<"PowerSubState", "SetConfig", "StartDisc">>,
   ReStartDiscover |-> <<"StartDisc">>,
   WithDisc |-> <<"DeactIdle", "PowerSubState", "SetConfig", "StartDisc">>,
   WithDiscDelay |-> <<"DeactIdle", "Delay", "PowerSubState", "SetConfig", "StartDisc">>,
   WithDeact |-> <<"DeactDisc">>,
   WithDeactSleep |-> <<"DeactSleep">>,
   DeactAndDisc |-> <<"DeactIdle", "StartDisc">>,
   DeactAndDiscDelay |-> <<"DeactIdle", "Delay", "StartDisc">>,
   ToIdle |-> <<"DeactIdle">>,
   ToIdleDelay |-> <<"DeactIdle", "Delay">>,
   Deactivate |-> <<"DeactDisc">>,
   MFCSeq2 |-> <<"DeactSleep", "Select">>, MFCSeq2Select |-> <<"Select">>,
   MFCSeq |-> <<"DeactSleep", "Select">>, MFCSeqSelect |-> <<"Select">>,
   DistinguishMifareUL |-> <<"GetVersion", "DeactCard", "ConnectCard", "Authenticate",
                             "DeactCard", "ConnectCard">>,
   InvokeNciTranscv |-> <<"Transceive">>]

DeactType(q, step) ==
  CASE step = "DeactIdle" -> "Idle"
    [] step = "DeactDisc" -> "Disc"
    [] step = "DeactSleep" /\ q.conn.kind = "Target" -> "SleepAf"
    [] OTHER -> "Sleep"

\* phLibNfc_SendDeactSleepCmd for "DeactSleep"
SendDeactCmd(q, step) ==
  IF step = "DeactSleep" /\ q.conn = None THEN Null(q)
  ELSE Deactivate(q, DeactType(q, step), "Seq")

DummyDisc(q) == St([q EXCEPT !.delayTimers = @ + 1], "pending")

\* With nothing to discover the timer is started and the step fails.
StartDiscSeq(q) == IF q.cfg THEN StartDiscovery(q, "Seq") ELSE St(DummyDisc(q), "invalid")

\* pInfo->pRemDevList[0], which may be NULL itself.
FirstDevice(q) == IF q.devs = <<>> THEN None ELSE Device(q.devs[1])
StepDevice(q, step) ==
  IF step \in {"ConnectCard", "GetVersion", "Authenticate"} THEN FirstDevice(q) ELSE q.conn

Initiate(q, step) ==
  CASE step = "PowerSubState" -> St(q, "ok")
    [] step = "SetConfig" -> SetConfig(q, "Seq")
    [] step = "StartDisc" -> StartDiscSeq(q)
    [] step \in {"DeactIdle", "DeactDisc", "DeactCard", "DeactSleep"} -> SendDeactCmd(q, step)
    [] step = "Delay" -> DummyDisc(q)
    [] step \in {"ConnectCard", "GetVersion", "Authenticate"} /\ ~q.info -> Null(q)
    [] step \in {"Select", "ConnectCard"} ->
         IF StepDevice(q, step) = None THEN St(q, "invalid")
         ELSE Connect(q, StepDevice(q, step), "Seq")
    [] step \in {"GetVersion", "Authenticate", "Transceive"} ->
         IF StepDevice(q, step) = None THEN St(q, "invalid")
         ELSE Transceive(q, StepDevice(q, step), IF step = "Transceive" THEN "Seq" ELSE "UL")

\* The steps from lnext + 1 on, until one does not end at once.
RECURSIVE InitiateFrom(_)
FurtherFrom(q) ==
  IF q.st = "ok" /\ q.lnext < Len(Steps[q.lseq]) THEN InitiateFrom(q) ELSE q
InitiateFrom(q) ==
  FurtherFrom([Initiate(q, Steps[q.lseq][q.lnext + 1]) EXCEPT !.lnext = q.lnext + 1])

\* PHLIBNFC_INIT_SEQUENCE and the first call of phLibNfc_SeqHandler.  Only a
\* first step can fail at once, and then the completion is not called.
StartSequence(q, seq) == InitiateFrom([q EXCEPT !.lseq = seq, !.lnext = 0])

(***************************************************************************)
(* Transitions of the state machine: what the state handler calls between  *)
(* two states.                                                             *)
(***************************************************************************)
ProcessDiscReq(q, mode) ==
  CASE mode \in {"Config", "Start"} ->
         StartSequence(q, IF mode = "Config" THEN "Discover" ELSE "ReStartDiscover")
    [] mode = "Resume" -> St(q, "failed")
    [] OTHER -> St(q, "invalid")

\* A device that is asleep, and every Mifare Classic tag, is restarted.
ReDiscMode(q, mode) ==
  IF \/ \E i \in Map(q, q.conn) : ~q.list[i].open
     \/ IsMfc(q.conn)
  THEN "Restart" ELSE mode

ReDiscSequence(q, mode) ==
  CASE mode = "Config" -> IF q.delay THEN "WithDiscDelay" ELSE "WithDisc"
    [] mode \in {"Resume", "Continue"} ->
         IF q.delay /\ Map(q, q.conn) # {} THEN "DeactAndDiscDelay" ELSE "WithDeact"
    [] mode \in {"Start", "Restart"} ->
         IF q.delay THEN "DeactAndDiscDelay" ELSE "DeactAndDisc"

ReDiscoverIn(q, mode) ==
  CASE mode \in {"Resume", "Start"} /\ q.inProg -> St(q, "failed")
    [] mode = "InternalContinue" -> St([q EXCEPT !.inProg = TRUE], "ok")
    [] mode \in {"Config", "Continue", "Restart"} \/ (mode \in {"Resume", "Start"} /\ ~q.inProg) ->
         StartSequence([q EXCEPT !.delay = FALSE], ReDiscSequence(q, mode))
    [] OTHER -> St(q, "invalid")

ProcessReDiscReq(q, mode) == ReDiscoverIn(q, ReDiscMode(q, mode))

Actv2Init(q, mode) ==
  [(IF mode = "InternalStop" THEN St(q, "ok")
    ELSE StartSequence([q EXCEPT !.delay = FALSE], IF q.delay THEN "ToIdleDelay" ELSE "ToIdle"))
     EXCEPT !.inProg = FALSE]

DummyInit(q, mode) ==
  IF mode = "Config" THEN St([q EXCEPT !.initTimer = TRUE], "pending") ELSE St(q, "failed")

\* phNciNfc_Release: nothing of what was under way is waited for.
Release(q, cb) ==
  [PrepareNciShutDown(q) EXCEPT !.ifNtf = cb, !.seq = "Reset", !.cmd = <<"Reset", None>>,
                                !.timer = None, !.st = "pending"]

DiscoveredEntry(q) ==
  IF q.devCnt < 1 THEN St([q EXCEPT !.devCnt = 0], "ok")
  ELSE St([q EXCEPT !.list = [i \in DOMAIN q.devs |-> [q.devs[i] EXCEPT !.open = FALSE]],
                    !.conn = IF q.list # <<>> THEN None ELSE @,
                    !.dummy = IF Len(q.devs) = 1 THEN Device(q.devs[1]) ELSE @], "ok")

Discovered2Transceive(q, dev) ==
  IF ~SessionOpened(q, dev) THEN Connect(q, dev, "Connect")
  ELSE IF dev.kind \in {"Target", "Mifare"}
       THEN St([q EXCEPT !.post = Append(@, "ConnectTimer")], "pending")
       ELSE StartSequence(q, "InvokeNciTranscv")

DummyFunc(q) == StartSequence(q, IF q.only THEN "MFCSeq2Select" ELSE "MFCSeq2")

\* arg is Param1: the mode of a discovery request, the device of a connection.
StateTransition(q, from, to, arg) ==
  CASE to = "Init" /\ from = "Init" -> DummyInit(q, arg)
    [] to = "Init" /\ from # "Init" -> Actv2Init(q, arg)
    [] to = "Reset" -> Release(q, "Shutdown")
    [] to = "Idle" -> St(q, "ok")
    [] to = "Discovery" /\ from = "Init" -> ProcessDiscReq(q, arg)
    [] to = "Discovery" /\ from # "Init" -> ProcessReDiscReq(q, arg)
    [] to \in {"Discovered", "Recv", "SEListen"} /\ from = "Discovery" -> DiscoveredEntry(q)
    [] to = "Transceive" /\ from = "Discovered" -> Discovered2Transceive(q, arg)
    [] to = "Discovered" /\ from = "Transceive" -> StartSequence(q, "WithDeactSleep")
    [] to = "Recv" /\ from = "Send" -> SendData(q, "Send")
    [] to = "Send" /\ from = "Recv" -> ReceiveData(q, "Receive")
    [] to = "Dummy" -> DummyFunc(q)
    [] OTHER -> q

\* phLibNfc_StateTransition is NULL for the others.
HasTransition(from, to) ==
  \/ from # to /\ ~(from = "Reset" /\ to = "Idle") /\ from # "Dummy"
  \/ from = to /\ from \in {"Discovery", "Init"}

(***************************************************************************)
(* The state handler.                                                      *)
(***************************************************************************)
\* phLibNfc_TranscvExit.  A deferred request carries its mode where the
\* exchange is expected, and it is followed as a pointer.
TranscvExit(q, arg) ==
  CASE q.skip = "InProgress" -> St(q, "ok")
    [] q.skip # "InProgress" /\ arg \in {None, "Config"} -> St(q, "invalid")
    [] q.skip # "InProgress" /\ arg = "Exchange" ->
         IF q.conn = None THEN Null(q) ELSE Transceive(q, q.conn, "Xchg")
    [] OTHER -> Broken(q, "deferred")

\* The exit of the state, and the transition when there is one.
Left(q, arg) == IF q.curr = "Transceive" THEN TranscvExit(q, arg) ELSE St(q, "ok")
Through(q, from, to, arg) == IF HasTransition(from, to) THEN StateTransition(q, from, to, arg) ELSE q
Awaiting(q, target) == IF q.st = "pending" THEN [q EXCEPT !.flag = "Busy", !.trgt = target] ELSE q

UsrEventTo(q, event, arg, target) ==
  IF target = None THEN St(q, StateStatusConversion(q, event))
  ELSE Awaiting(Through(Left(q, arg), q.curr, target, arg), target)

HandleUsrEvent(q, event, arg, cfg) ==
  UsrEventTo(q, event, arg, FindTrgtState(q, q.curr, Entry(State2Event, q.curr, event), cfg))

\* phLibNfc_StateDiscoveryEntry
DiscoveryEntry(q) ==
  IF q.notifyEn
  THEN ClearInfo(StartSequence([q EXCEPT !.notifyEn = FALSE, !.callL = FALSE], "Deactivate"))
  ELSE ClearInfo(q)

StateEntry(q, target) ==
  CASE target = "Discovery" -> DiscoveryEntry(q)
    [] target = "SEListen" -> St([q EXCEPT !.pcd = TRUE], "ok")
    [] OTHER -> q

\* What ConnIsRfListnerRegisterd does while it answers.
ListnerAnswered(q, event) ==
  IF q.curr = "Discovery" /\ event \in {"Discovered", "Activated", "PCDActivated"}
  THEN [q EXCEPT !.notifyEn = ~ConnIsRfListnerRegistered(q),
                 !.devCnt = IF ConnIsRfListnerRegistered(q) THEN Len(q.devs) ELSE @]
  ELSE q

IntEventTarget(q, event) ==
  IF q.flag = "Busy" THEN Entry(IntEvent2State, q.trgt, event)
  ELSE FindTrgtState(q, q.curr, Entry(IntEvent2State, q.curr, event), FALSE)

Entered(q, target) ==
  [StateEntry(q, target) EXCEPT !.curr = IF target \in {None, "Dummy"} THEN @ ELSE target,
                                !.trgt = None, !.flag = "Complete"]

EndTransitionMutant(q, event, arg, target) ==   \* only a transition ends the wait
  IF target \in {None, "Dummy"} THEN St(q, "invalid") ELSE Entered(St(q, "ok"), target)

EndTransition(q, event, arg, target) == Entered(St(q, "ok"), target)

IntEventTo(q, event, arg, target) ==
  CASE q.flag = "Busy" /\ event \in {"Discovered", "Activated", "PCDActivated"} -> St(q, "failed")
    [] q.flag = "Busy" /\ event \notin {"Discovered", "Activated", "PCDActivated"} ->
         EndTransition(q, event, arg, target)
    [] q.flag # "Busy" /\ target = None -> Entered(St(ListnerAnswered(q, event), "invalid"), target)
    [] OTHER ->
         Entered(IF target = q.curr THEN St(ListnerAnswered(q, event), "ok")
                 ELSE Through(St(ListnerAnswered(q, event), "ok"), q.curr, target, arg), target)

HandleIntEvent(q, event, arg) == IntEventTo(q, event, arg, IntEventTarget(q, event))

UserEvents == {"Init", "Reset", "Discovery", "Activate", "DeActivate", "DeActivateSleep",
               "Transceive", "Send", "Recv", "Dummy"}

WaitingInDummy(q) ==
  IF q.st = "pending" THEN [q EXCEPT !.st = "ok", !.flag = "Busy", !.trgt = "Dummy"] ELSE q

HandleEvent(q, event, arg, cfg) ==
  CASE event \in UserEvents /\ q.flag = "Complete" -> HandleUsrEvent(q, event, arg, cfg)
    [] event \in UserEvents /\ q.flag = "Busy" ->
         St(q, IF q.trgt = "Reset" THEN "shutdown" ELSE "busy")
    [] OTHER -> WaitingInDummy(HandleIntEvent(q, event, arg))

\* A request of the same kind that waits already takes the new settings.
AddDeferredEvent(q, event, arg) ==
  LET own == arg = "Config"   \* the settings are the caller's, on its stack
  IN  St([q EXCEPT !.deferred =
            IF \E i \in DOMAIN @ : @[i].event = event
            THEN [i \in DOMAIN @ |-> IF @[i].event = event
                                      THEN [@[i] EXCEPT !.arg = "Config", !.own = own] ELSE @[i]]
            ELSE Append(@, [event |-> event, arg |-> arg, own |-> own])], "ok")

\* While a deferred request waits, a call that was refused or done at once is
\* said to be pending, and its caller waits for ever.
Deferring(q, event, arg) ==
  CASE q.st = "busy" /\ event \in {"Init", "Reset", "Discovery"} -> AddDeferredEvent(q, event, arg)
    [] q.st # "busy" /\ q.deferred # <<>> /\ q.flag = "Complete" ->
         St([(IF event \in UserEvents THEN Broken(q, "deferred") ELSE q) EXCEPT !.dq = @ + 1],
            "pending")
    [] OTHER -> q

StateHandler(q, event, arg, cfg) == Deferring(HandleEvent(q, event, arg, cfg), event, arg)

Happened(q, event, arg) == StateHandler(q, event, arg, FALSE)

UpdateEvent(s) ==
  CASE s = "board" -> "BoardError" [] s = "timeout" -> "TimeOut" [] s = "failed" -> "Failed"
    [] OTHER -> "ReqCompleted"
=============================================================================
