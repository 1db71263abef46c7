------------------------------- MODULE LibNfc -------------------------------
(***************************************************************************)
(* LibNfc: the library's entry points for discovery, connection, data      *)
(* exchange, presence checks, listen mode and shutdown, and the callbacks  *)
(* that complete them (LibNfc/phLibNfc.c, _Discovery.c, _InternalConnect.c,*)
(* _Deactivate.c, _Target.c), with the engine of LibNfcEngine, the NCI     *)
(* layer and its controller.                                               *)
(*                                                                         *)
(* The library runs on one thread: each action is one message, callback,   *)
(* timer or call that this thread takes, with every call it makes; the     *)
(* callbacks that the NCI layer makes on the way (p.up) are steps of their *)
(* own that nothing comes between.  Its clients are told by a count:       *)
(* p.owed[op] is what is owed to the callers whose call returned PENDING.  *)
(***************************************************************************)
EXTENDS LibNfcEngine

CONSTANTS
  Finds,      \* what comes into the field: sequences of one or two devices
  MaxCalls,   \* bound: calls of the clients
  MaxEvents,  \* bound: what the controller does of its own accord
  MaxFaults   \* bound: lost answers, failed commands, early timeouts

VARIABLES p, calls, events, faults

vars == <<p, calls, events, faults>>

(***************************************************************************)
(* What completes a sequence or a request.                                 *)
(***************************************************************************)
InvokeDiscDisconnCb(q) == Told(Told(q, "Config"), "Disconnect")

ReDiscoveryCompleteMutant(q, s) ==   \* tells nobody of a failure
  LET r == Happened([q EXCEPT !.skip = "Complete"], UpdateEvent(IF s = "ok" THEN s ELSE "failed"), None)
  IN  IF s = "ok" THEN InvokeDiscDisconnCb(r) ELSE r

\* phLibNfc_StartDiscoverSeqComplete, phLibNfc_ReDiscoveryComplete
ReDiscoveryComplete(q, s) ==
  InvokeDiscDisconnCb(Happened([q EXCEPT !.skip = "Complete"],
                               UpdateEvent(IF s = "ok" THEN s ELSE "failed"), None))

DiscDeactivateComplete(q, s) ==
  InvokeDiscDisconnCb(Happened([q EXCEPT !.skip = "Complete",
                                         !.conn = IF s = "ok" THEN None ELSE @,
                                         !.dummy = IF s = "ok" THEN None ELSE @],
                               UpdateEvent(IF s = "ok" THEN s ELSE "failed"), None))

ProcessDeactComplete(q, s) ==
  Told(Happened([q EXCEPT !.skip = "Complete", !.conn = IF s = "ok" THEN None ELSE @],
                UpdateEvent(IF s = "ok" THEN s ELSE "failed"), None), "Disconnect")

\* A failure is not told to the state machine, which stays busy.
DeactivateComplete(q, s) ==
  IF s = "failed" THEN Broken(q, "busy") ELSE Happened(q, "ReqCompleted", None)

\* The device is shown to the client, or the discovery goes on without it: a
\* device that the machine has accepted too, when a deferred request waits.
ShowDevice(q) ==
  CASE q.st = "pending" -> Broken(q, "deferred")
    [] q.st \in {"ok", "busy"} /\ q.callL -> q
    [] q.st \notin {"ok", "busy", "pending"} -> StartSequence(q, "WithDeact")
    [] OTHER -> [q EXCEPT !.callL = TRUE]

ProcessDevInfo(q, event, s) ==
  IF s = "failed" THEN StartSequence(q, "DeactAndDisc")
  ELSE ShowDevice(Happened(q, event, None))

ReqInfoComplete(q, s) == ProcessDevInfo(q, q.tagEvent, IF s = "ok" THEN s ELSE "failed")

\* What the answer must be depends on the device; only success reads the list.
ChkPresence_Cb(q, s) ==
  Told(IF s = "ok" /\ q.list = <<>> THEN Null(q) ELSE q, "Check")

CheckedMFC(q, status) == ChkPresence_Cb(q, IF q.st = "ok" THEN status ELSE "failed")

ReActivateMFCComplete1(q, s) ==
  LET status == IF s = "ok" THEN s ELSE "timeout"
  IN  CheckedMFC(Happened([q EXCEPT !.only = s # "ok"], UpdateEvent(status), None), status)

\* The client of an exchange: an internal presence check, or the caller.
TranscvDone(q, s) ==
  IF q.slot["Transceive"] = "Check"
  THEN ChkPresence_Cb([q EXCEPT !.slot["Transceive"] = None], s)
  ELSE Told(q, "Transceive")

ReActivateMFCComplete(q, s) ==
  TranscvDone(Happened([q EXCEPT !.only = s # "ok"], UpdateEvent(s), None), "failed")

\* The client of a connection is told, and dev is connected when all went well.
Connecting(q, dev, status) ==
  Told(IF q.st = "ok" /\ status = "ok" /\ Map(q, dev) # {}
       THEN CopySession([q EXCEPT !.conn = dev], dev) ELSE q, "Connect")

InternConnect_Cb(q, s) ==
  LET status == IF s = "ok" /\ Map(q, q.dummy) # {} THEN "ok" ELSE "failed"
  IN  Connecting(Happened(q, UpdateEvent(status), None), q.dummy, status)

SequenceComplete(q, s) ==
  CASE q.lseq \in {"Discover", "ReStartDiscover", "WithDisc", "WithDiscDelay", "WithDeact",
                   "DeactAndDisc", "DeactAndDiscDelay"} -> ReDiscoveryComplete(q, s)
    [] q.lseq \in {"ToIdle", "ToIdleDelay"} -> DiscDeactivateComplete(q, s)
    [] q.lseq = "WithDeactSleep" -> ProcessDeactComplete(q, s)
    [] q.lseq = "Deactivate" -> DeactivateComplete(q, s)
    [] q.lseq \in {"MFCSeq2", "MFCSeq2Select"} -> ReActivateMFCComplete1(q, s)
    [] q.lseq \in {"MFCSeq", "MFCSeqSelect"} -> ReActivateMFCComplete(q, s)
    [] q.lseq = "DistinguishMifareUL" -> ReqInfoComplete(q, s)
    [] q.lseq = "InvokeNciTranscv" -> InternConnect_Cb(q, s)

\* What is made of the answer to a step; answered: a packet came, in arg.
SequenceProcess(q, step, arg) ==
  CASE step = "StartDisc" \/ q.lseq = "WithDeact" -> St([q EXCEPT !.inProg = TRUE], "ok")
    [] step = "Select" /\ arg \notin {None, q.conn} -> St(q, "failed")
    [] step = "GetVersion" /\ arg = "ok" ->
         IF ~q.info \/ q.devs = <<>> THEN Null(q) ELSE St([q EXCEPT !.lnext = @ + 3], "ok")
    [] step = "Authenticate" /\ (~q.info \/ q.devs = <<>>) ->
         St(Broken(q, IF q.info THEN "lost" ELSE "null"), "failed")
    [] OTHER -> St(q, "ok")

\* phLibNfc_SeqHandler, called with the result of the step under way.  After
\* the completion a stray call repeats the last step's process and completes.
Ended(q) ==
  IF q.st = "pending" THEN q ELSE SequenceComplete([q EXCEPT !.lnext = Len(Steps[q.lseq])], q.st)
Processed(q, s, arg) ==
  IF s = "ok" THEN SequenceProcess(q, Steps[q.lseq][q.lnext], arg) ELSE St(q, s)

LSeqHandler(q, s, arg) ==
  IF q.lseq = None THEN q ELSE Ended(FurtherFrom(Processed(q, s, arg)))

(***************************************************************************)
(* Callbacks of the NCI layer.                                             *)
(***************************************************************************)
KeepConnected(q, found) ==
  Told(IF found /\ q.st = "ok" THEN q ELSE [q EXCEPT !.conn = None], "Connect")

RemoteDev_Connect_Cb(q, s, dev) ==
  LET found == s = "ok" /\ dev # None /\ Map(q, dev) # {}
      a == IF s = "ok" /\ dev # None THEN [q EXCEPT !.conn = dev, !.dummy = dev] ELSE q
  IN  KeepConnected(Happened(IF found THEN CopySession(a, dev) ELSE a,
                             UpdateEvent(IF found THEN "ok" ELSE "failed"), None), found)

\* An answer with data whose request is not counted as a success is dropped.
Exchanged(q, s) ==
  LET ok == q.st = "ok" /\ Map(q, q.conn) # {}
  IN  IF s = "ok" /\ ~ok THEN Broken([q EXCEPT !.slot["Transceive"] = None], "deferred")
      ELSE TranscvDone(q, IF s = "ok" THEN s ELSE "failed")

TranscvCb(q, s) ==
  IF s # "ok" /\ IsMfc(q.conn)
  THEN StartSequence(q, IF q.only THEN "MFCSeqSelect" ELSE "MFCSeq")
  ELSE Exchanged(Happened(q, UpdateEvent(s), None), s)

P2pRemoteDev_SendCb(q, s) == Told(Happened(q, "ReqCompleted", None), "Send")

\* The receiver stays registered.
PacketGiven(q) == IF q.slot["Receive"] = None THEN q ELSE [q EXCEPT !.owed["Receive"] = @ - 1]
P2pRemoteDev_ReceiveCb(q, s) == PacketGiven(Happened(q, "ReqCompleted", None))

TechModeAndRfInterface(q, kind) ==
  [q EXCEPT !.tech = kind \notin Listening,
            !.rfDep = IF kind \in Listening THEN kind # "PCD" ELSE @]

\* phLibNfc_RequestMoreInfo: which Ultralight it is takes two commands.
Distinguished(q, event, s) == IF q.st = "pending" THEN q ELSE ProcessDevInfo(q, event, s)

RequestMoreInfo(q, event, s) ==
  Distinguished(IF Len(q.devs) = 1 /\ q.devs[1].kind = "Ultra"
                THEN StartSequence([q EXCEPT !.tagEvent = event], "DistinguishMifareUL")
                ELSE St(q, "ok"), event, s)

\* A loss does not stop a deactivation or an exchange that is under way, but
\* the machine is free: what they end in then falls upon the next device.
NotificationRegister_Resp_Cb(q, s) ==
  LET d == q.devs[1]
      crossed == q.flag = "Complete" /\ ("Deactivate" \in {q.seq, q.timer} \/ q.data = "Xchg")
      a == [ClearInfo([q EXCEPT !.inProg = FALSE, !.pcd = FALSE]) EXCEPT
              !.callL = TRUE, !.info = TRUE, !.totalDev = Len(q.devs)]
      event == CASE s = "multiple" -> "Discovered"
                 [] s # "multiple" /\ d.kind = "PCD" -> "PCDActivated"
                 [] OTHER -> "Activated"
  IN  CASE crossed -> Broken(q, "crossed")
        [] ~crossed /\ s = "failed" -> StartSequence([q EXCEPT !.callL = TRUE], "DeactAndDisc")
        [] OTHER -> RequestMoreInfo(IF s = "multiple" THEN a ELSE TechModeAndRfInterface(a, d.kind),
                                    event, s)

ListenModeDeactvNtfHandler(q) ==
  IF q.devCnt = 0 \/ q.list = <<>> \/ q.list[1].kind # "Initiator" THEN q
  ELSE IF q.slot["Receive"] # None THEN Told(q, "Receive") ELSE Told(q, "Send")

DeActvNtfRegister_Resp_CbMutant(q, type) ==   \* the machine is not told of it
  LET a == ListenModeDeactvNtfHandler([q EXCEPT !.flag = "Complete"])
  IN  IF q.slot["Receive"] = None THEN Happened(a, "Deactivated", "InternalContinue") ELSE a

DeActvNtfRegister_Resp_Cb(q, type) ==
  LET m == IF type = "Idle" THEN "InternalStop" ELSE "InternalContinue"
      a == ListenModeDeactvNtfHandler([q EXCEPT !.flag = "Complete", !.mode = m])
  IN  IF q.devCnt > 0 /\ q.list = <<>> THEN Null(q) ELSE Happened(a, "Deactivated", m)

\* phLibNfc_ClearLibContext, without the one caller it tells.
ClearLibContext(q) == [q EXCEPT !.alive = FALSE]

ShutDown(q) == Told(IF q.st = "ok" THEN ClearLibContext(q) ELSE Broken(q, "deferred"), "DeInit")
ShutdownCb(q, s) == ShutDown(Happened(q, "ReqCompleted", None))

Upcall(q, u) ==
  CASE u.to \in {"Seq", "UL"} -> LSeqHandler(q, IF u.to = "UL" THEN "ok" ELSE u.st,
                                           IF u.to = "UL" THEN u.st ELSE u.arg)
    [] u.to = "Connect" -> RemoteDev_Connect_Cb(q, u.st, u.arg)
    [] u.to = "Xchg" -> TranscvCb(q, u.st)
    [] u.to = "Send" -> P2pRemoteDev_SendCb(q, u.st)
    [] u.to = "Receive" -> P2pRemoteDev_ReceiveCb(q, u.st)
    [] u.to = "Discovery" -> NotificationRegister_Resp_Cb(q, u.st)
    [] u.to = "Deactivated" -> DeActvNtfRegister_Resp_Cb(q, u.arg)
    [] u.to = "Shutdown" -> ShutdownCb(q, u.st)

(***************************************************************************)
(* Timers and queued callbacks of the library.                             *)
(***************************************************************************)
ConnectTimer_Cb(q) == Connecting(Happened(q, "ReqCompleted", None), q.dummy, "ok")

Posted(q) ==
  LET r == [q EXCEPT !.post = Tail(@)]
  IN  IF Head(q.post) = "ConnectTimer" THEN ConnectTimer_Cb(r) ELSE ChkPresence_Cb(r, "ok")

DelayDiscTimerCb(q) == Up([q EXCEPT !.delayTimers = @ - 1], "Seq", "ok")

DummyInitTimerCb(q) ==
  Told(Happened([q EXCEPT !.initTimer = FALSE, !.skip = "Complete"], "ReqCompleted", None), "Config")

\* A request with settings of its own finds what is on the stack by now.
DeferredEventHandler(q) ==
  LET r == [q EXCEPT !.dq = @ - 1, !.deferred = IF @ = <<>> THEN @ ELSE Tail(@)]
      d == Head(q.deferred)
  IN  IF q.deferred = <<>> THEN {r}
      ELSE {StateHandler(r, d.event, d.arg, cfg) : cfg \in IF d.own THEN BOOLEAN ELSE {q.cfg}}

(***************************************************************************)
(* The calls of the clients.  A device is given by its place in the list.  *)
(***************************************************************************)
EnablePriority(q, curr, trgt) ==
  IF q.curr # curr \/ q.trgt # trgt THEN q
  ELSE [q EXCEPT !.flag = "Complete", !.trgt = None, !.lseq = None, !.lnext = 0]

\* phLibNfc_EnablePriorityDiscDiscon and _EnablePriorityDiscovery with
\* phNciNfc_AbortDataTransfer: a request that is not the awaited exchange
\* loses its completion, and the machine stays busy.
Interrupt(q, curr, trgt) ==
  LET e == EnablePriority(q, curr, trgt)
  IN  AbortDataTransfer(IF e.flag = "Busy" /\ e.ifNtf # None THEN Broken(e, "busy") ELSE e)

\* What a new discovery does to an exchange with a peer.
InterruptTarget(q) ==
  LET a == Interrupt(q, "Transceive", "Transceive")
  IN  CASE a.slot["Transceive"] = None -> [a EXCEPT !.delay = TRUE]
        [] a.slot["Transceive"] # None /\ Map(a, a.conn) # {} -> TranscvDone(a, "failed")
        [] OTHER -> a

InterruptListener(q) ==
  LET a == Interrupt(q, "Recv", "Send")
  IN  CASE a.slot["Receive"] # None -> Told(a, "Receive")
        [] a.slot["Receive"] = None /\ a.slot["Send"] # None -> Told(a, "Send")
        [] OTHER -> [a EXCEPT !.delay = TRUE]

Asleep(q) == \E i \in Map(q, q.conn) : ~q.list[i].open

\* phLibNfc_Mgt_ConfigureDiscovery; enable: the new settings enable something.
ConfigureDiscovery(s, what, enable) ==
  LET q == IF what = "Config" THEN [s EXCEPT !.cfg = enable] ELSE s
      mode == IF what = "Resume" /\ ((q.conn = None /\ q.devCnt > 1) \/ Asleep(q))
              THEN "Start" ELSE what
      a == CASE q.conn # None -> IF q.conn.kind = "Target" THEN InterruptTarget(q) ELSE q
             [] q.conn = None /\ q.list # <<>> ->
                  IF q.list[1].kind \in Listening THEN InterruptListener(q) ELSE q
             [] OTHER -> q
      refused == mode # "Config" /\ a.curr = (IF a.cfg THEN "Discovery" ELSE "Init")
      b == [a EXCEPT !.mode = mode, !.delay = IF what = "Config" THEN @ ELSE FALSE,
                     !.skip = "InProgress"]
      r == StateHandler(b, "Discovery", mode, a.cfg)
  IN  CASE refused -> St(a, "invalid")
        [] ~refused /\ r.st = "pending" -> Accept(r, "Config")
        [] OTHER -> [r EXCEPT !.skip = "Complete"]

\* phLibNfc_RemoteDev_Connect: a refusal leaves the device connected.
ConnectDev(q, i) ==
  LET dev == Device(q.list[i])
      r == StateHandler([TechModeAndRfInterface(q, dev.kind) EXCEPT !.conn = dev], "Activate", dev, FALSE)
  IN  IF q.trgt = "Reset" \/ q.conn # None THEN q
      ELSE IF r.st = "pending" THEN Accept(r, "Connect") ELSE r

\* phLibNfc_RemoteDev_Disconnect: the client of an interrupted exchange is
\* not told, unless a later call interrupts again.
Disconnect(q, i, what) ==
  LET mode == CASE what = "Sleep" -> "Stop"
                [] what = "Continue" /\ ((q.conn = None /\ q.devCnt > 1) \/ ~q.list[i].open) -> "Restart"
                [] OTHER -> what
      a == [q EXCEPT !.mode = mode, !.skip = "InProgress"]
      b == IF q.list[i].kind = "Target"
           THEN [Interrupt(a, "Transceive", "Transceive")
                   EXCEPT !.owed["Transceive"] = 0,
                          !.slot["Transceive"] = IF @ = None THEN @ ELSE "Late"]
           ELSE a
      r == StateHandler(b, IF what = "Sleep" THEN "DeActivateSleep" ELSE "DeActivate", mode, FALSE)
  IN  IF q.trgt = "Reset" \/ (what = "Sleep" /\ q.conn = None) THEN q
      ELSE IF r.st = "pending" THEN Accept(r, "Disconnect") ELSE [r EXCEPT !.skip = "Complete"]

\* phLibNfc_RemoteDev_Transceive, and phLibNfc_InternalTransceive for a check.
TransceiveDev(q, slot) ==
  LET r == StateHandler(q, "Transceive", "Exchange", FALSE)
  IN  IF r.st # "pending" THEN r
      ELSE IF slot = "Check" THEN Accept([r EXCEPT !.slot["Transceive"] = slot], "Check")
           ELSE Accept(r, "Transceive")

CheckPresence(q) ==
  LET mfc == StateHandler([q EXCEPT !.skip = "InProgress"], "Dummy", "Config", FALSE)
  IN  CASE q.conn.kind = "Target" -> Accept([q EXCEPT !.post = Append(@, "ChkPresenceTimer")], "Check")
        [] q.conn.kind = "Mifare" ->
             [(IF mfc.st = "pending" THEN Accept(mfc, "Check") ELSE mfc) EXCEPT !.skip = "Complete"]
        [] OTHER -> TransceiveDev(q, "Check")

\* phLibNfc_RemoteDev_Receive, phLibNfc_RemoteDev_Send: the receiver stays
\* registered when it is refused.
Receive(q) ==
  LET r == StateHandler([q EXCEPT !.slot["Receive"] = "Receive"], "Recv", None, FALSE)
  IN  IF q.trgt = "Reset" THEN q ELSE IF r.st = "pending" THEN Accept(r, "Receive") ELSE r

Send(q) ==
  LET r == StateHandler([q EXCEPT !.slot["Send"] = "Send"], "Send", "Exchange", FALSE)
  IN  IF q.trgt = "Reset" THEN q
      ELSE IF r.st = "pending" THEN Accept(r, "Send") ELSE [r EXCEPT !.slot["Send"] = None]

\* phLibNfc_Mgt_DeInitialize, with phLibNfc_StatePrepareShutdown.
DeInitialize(q) ==
  LET a == [q EXCEPT !.flag = "Complete", !.trgt = None, !.lseq = None, !.lnext = 0,
                     !.curr = IF @ = "Idle" THEN q.trgt ELSE @]
      r == StateHandler(a, "Reset", None, FALSE)
  IN  IF q.trgt = "Reset" THEN q
      ELSE IF r.st = "pending" THEN Accept(r, "DeInit") ELSE ClearLibContext(r)
(***************************************************************************)
(* The machine.                                                            *)
(***************************************************************************)
Init ==
  /\ p = LibNfcStart
  /\ calls = 0 /\ events = 0 /\ faults = 0

\* The callbacks that a step of the NCI layer makes come before anything else.
Runs == p.alive /\ p.broken = None /\ p.up = <<>>
Becomes(q) == p' = St(IF q.broken = None THEN q ELSE [q EXCEPT !.up = <<>>], "ok")

\* The clients ask for one thing at a time, as NfcCx does; what they may ask
\* for during an exchange interrupts it, and a shutdown comes at any time.  A
\* call that changes nothing is no step.
MayCall(op) ==
  CASE op = "DeInit" -> p.owed[op] = 0
    [] op \in {"Config", "Disconnect"} -> \A o \in Ops \ Exchanges : p.owed[o] = 0
    [] op \in {"Send", "Receive"} ->
         p.owed[op] = 0 /\ \A o \in Ops \ {"Send", "Receive"} : p.owed[o] = 0
    [] OTHER -> \A o \in Ops \ {"Receive"} : p.owed[o] = 0

Call(op, r) ==
  /\ Runs /\ calls < MaxCalls /\ MayCall(op)
  /\ St(r, "ok") # p
  /\ Becomes(r) /\ calls' = calls + 1 /\ UNCHANGED <<events, faults>>

Kind(i) == p.list[i].kind
Connected(i) == p.conn = Device(p.list[i])

CallDiscovery == \E what \in {"Config", "Start", "Resume"}, enable \in BOOLEAN :
                   Call("Config", ConfigureDiscovery(p, what, enable))
CallConnect == \E i \in DOMAIN p.list : Call("Connect", ConnectDev(p, i))
CallDisconnect == \E i \in DOMAIN p.list, what \in {"Stop", "Continue", "Restart", "Sleep"} :
                    Call("Disconnect", Disconnect(p, i, what))
CallTransceive == \E i \in DOMAIN p.list :
                    /\ Connected(i) /\ Call("Transceive", TransceiveDev(p, "Transceive"))
CallCheckPresence == \E i \in DOMAIN p.list :
                       Connected(i) /\ Call("Check", CheckPresence(p))
CallReceive == \E i \in DOMAIN p.list : Kind(i) \in Listening /\ Call("Receive", Receive(p))
CallSend == \E i \in DOMAIN p.list : Kind(i) \in Listening /\ Call("Send", Send(p))
CallDeInit == Call("DeInit", DeInitialize(p))

Fault == faults < MaxFaults /\ faults' = faults + 1
Free == UNCHANGED faults

\* What the controller does.
Execute ==
  /\ Runs /\ p.cmd # <<>>
  /\ p' \in Executes(p) /\ UNCHANGED <<calls, events>> /\ Free

SelectedDeviceIsGone ==
  /\ Runs /\ p.cmd # <<>> /\ p.cmd[1] = "Select" /\ p.rf = "W4Select"
  /\ p' \in SelectFails(p) /\ UNCHANGED <<calls, events>> /\ Fault

Environment ==
  /\ Runs /\ events < MaxEvents /\ events' = events + 1
  /\ \/ \E found \in Finds : p' \in Meets(p, found)
     \/ p' \in Leaves(p)
     \/ p' \in Speaks(p)
  /\ UNCHANGED <<calls, faults>>

DeviceAnswers ==
  /\ Runs
  /\ \/ p' \in Answers(p, "ok") /\ Free
     \/ p' \in Answers(p, "failed") /\ Fault
  /\ UNCHANGED <<calls, events>>

\* What the library's thread takes next.
Deliver ==
  /\ Runs /\ p.wire # <<>>
  /\ Becomes(Message([p EXCEPT !.wire = Tail(@)], Head(p.wire)))
  /\ UNCHANGED <<calls, events>> /\ Free

CommandLost ==
  /\ Runs /\ p.cmd # <<>>
  /\ \E s \in {"timeout", "failed"} : Becomes(Response([p EXCEPT !.cmd = <<>>], p.cmd[1], s))
  /\ UNCHANGED <<calls, events>> /\ Fault

\* A timeout comes by itself when nothing else can, and early as a fault.
NotificationTimeout ==
  /\ Runs /\ p.timer # None
  /\ Becomes(NtfTimeout(p)) /\ UNCHANGED <<calls, events>>
  /\ IF p.wire = <<>> /\ p.cmd = <<>> THEN Free ELSE Fault

ExchangeTimeout ==
  /\ Runs /\ p.data = "Xchg"
  /\ \E intact \in BOOLEAN : Becomes(CompleteDataXchgSequence([p EXCEPT !.pkt = FALSE], "failed", intact))
  /\ UNCHANGED <<calls, events>>
  /\ IF AnswerComes(p) THEN Fault ELSE Free

PacketSent ==
  /\ Runs /\ p.data = "Send"
  /\ \/ Becomes(SendCb(p, "ok")) /\ Free
     \/ Becomes(SendCb(p, "failed")) /\ Fault
  /\ UNCHANGED <<calls, events>>

CallBack ==
  /\ p.up # <<>>
  /\ Becomes(AfterUpcall(Upcall([p EXCEPT !.up = Tail(@)], Head(p.up)), Head(p.up)))
  /\ UNCHANGED <<calls, events>> /\ Free

Queued ==
  /\ Runs
  /\ \/ p.temp /\ Becomes(TempReceiveCb(p))
     \/ p.delayTimers > 0 /\ Becomes(DelayDiscTimerCb(p))
     \/ p.initTimer /\ Becomes(DummyInitTimerCb(p))
     \/ p.post # <<>> /\ Becomes(Posted(p))
     \/ p.dq > 0 /\ \E q \in DeferredEventHandler(p) : Becomes(q)
  /\ UNCHANGED <<calls, events>> /\ Free

Next ==
  \/ CallDiscovery \/ CallConnect \/ CallDisconnect \/ CallTransceive \/ CallCheckPresence
  \/ CallReceive \/ CallSend \/ CallDeInit
  \/ Execute \/ SelectedDeviceIsGone \/ Environment \/ DeviceAnswers
  \/ Deliver \/ CommandLost \/ NotificationTimeout \/ ExchangeTimeout \/ PacketSent \/ CallBack \/ Queued

Spec == Init /\ [][Next]_vars

(***************************************************************************)
(* Properties.                                                             *)
(***************************************************************************)
TypeOK ==
  /\ p.curr \in States /\ p.trgt \in States \cup {None} /\ p.flag \in {"Busy", "Complete"}
  /\ p.lseq \in DOMAIN Steps \cup {None}
  /\ p.broken \in {None, "null", "overrun", "deferred", "lost", "freed", "busy",
                   "dropped", "crossed"}
  /\ DOMAIN p.owed = Ops /\ DOMAIN p.slot = Ops

\* Nothing is under way that would call the library.
Quiet ==
  /\ Runs /\ p.cmd = <<>> /\ p.wire = <<>> /\ p.timer = None /\ p.data = None
  /\ ~p.temp /\ p.delayTimers = 0 /\ ~p.initTimer /\ p.post = <<>> /\ p.dq = 0

\* The state machine is busy only while something is under way that ends its
\* transition, or a reader in the field may still send the packet asked for:
\* a transition that nothing ends refuses every later call.
\* (phLibNfc_StateHandler, phLibNfc_SeqHandler)
BusyIsDriven == Quiet /\ p.flag = "Busy" => p.rdr = "Receive" /\ p.rf = "Listen"

\* When nothing is under way, every call that returned PENDING was answered
\* exactly once, except those for a packet, and no deferred request is left
\* behind: each way a sequence, an exchange or a wait ends tells its client.
Answered ==
  Quiet => /\ \A op \in Ops \ {"Receive"} : p.owed[op] = 0
           /\ p.flag = "Complete" => p.deferred = <<>>

\* Unless a command was lost, a library at rest that takes itself to serve a
\* reader has one: losses, activations and requests that cross on the way do
\* not leave it listening to an empty field.  (phLibNfc_DeActvNtfRegister_
\* Resp_Cb, phLibNfc_NotificationRegister_Resp_Cb)
ListensToReader ==
  Quiet /\ p.flag = "Complete" /\ faults = 0 /\ p.curr \in {"Recv", "Send", "SEListen"}
    => p.rf = "Listen"
=============================================================================
