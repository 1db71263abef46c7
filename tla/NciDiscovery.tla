---------------------------- MODULE NciDiscovery ----------------------------
(***************************************************************************)
(* The NCI layer between LibNfc and the NCI core, as far as discovery and  *)
(* data go: Nci/phNciNfc.c, _Discovery.c, _Sequence.c, _Common.c,          *)
(* _ListenMgmt.c and _RFReader.c, with the controller they talk to.        *)
(*                                                                         *)
(* The state is the record p (its fields are in NciStart), which LibNfc    *)
(* extends with its own.  An operator named after a function (without      *)
(* phNciNfc_) takes p and returns what the function makes of it; p.st is   *)
(* the status it returns.  The whole layer runs on one thread, so nothing  *)
(* comes between the steps of a handler.  A call of the layer above is     *)
(* always the last thing a handler does and is queued in p.up: LibNfc      *)
(* takes it in the same step.                                              *)
(*                                                                         *)
(* A remote device is [kind, id].  The lists of devices hold pointers that *)
(* may outlive what they point to; such memory is taken to keep its        *)
(* contents.  A command that is sent while another waits for its answer or *)
(* its notification sets p.broken, and nothing is said of what follows.    *)
(***************************************************************************)
EXTENDS Integers, Sequences, FiniteSets

CONSTANT None    \* NULL, and nothing

Listening == {"Initiator", "PCD"}        \* kinds that are met in listen mode
FrameRf == {"Tag", "Ultra", "Mifare", "Other"}

NciStart ==
  [ifNtf |-> None,       \* IfNtf: whom the completion of a sequence calls
   actvCb |-> None,      \* tRegSyncInfo.pActvNtfCb
   deactCb |-> None,     \* tRegSyncInfo.pDeActvNtfCb
   xchgCb |-> None,      \* tTranscvCtxt.pNotify
   seq |-> None,         \* the sequence that waits for the answer to its command
   cmd |-> <<>>,         \* the command on its way to the controller
   data |-> None,        \* "Xchg": waits for data; "Send": a packet on its way
   rdr |-> None,         \* who has the next packet: "Buffer", "Receive"
   buffered |-> FALSE,   \* tLstnModeRecvInfo.bDataBuffEnable
   temp |-> FALSE,       \* TempReceiveCb is queued
   timer |-> None,       \* what dwNtfTimerId waits for
   mfc |-> FALSE,        \* ProcessGenericErrNtfMFC is registered
   deactType |-> "Idle", \* NciDiscContext.eDeActvType
   disc |-> FALSE,       \* NciDiscContext.bDiscState
   devs |-> <<>>,        \* NciDiscContext.tDevInfo, with SessionOpened
   active |-> None,      \* tActvDevIf.pDevInfo
   reader |-> FALSE,     \* gpphNciNfc_RdrDataXchgSequence is allocated
   up |-> <<>>,          \* calls of the layer above
   st |-> "ok",
   broken |-> None,      \* "overrun"; "freed": freed memory is used
   pkt |-> FALSE,        \* a packet of an exchange is with the controller
   rf |-> "Idle",        \* the controller
   field |-> None,       \* the device it has activated
   heard |-> <<>>,       \* the devices it has found
   wire |-> <<>>]        \* what it has sent

St(p, s) == [p EXCEPT !.st = s]
Up(p, to, s) == [p EXCEPT !.up = Append(@, [to |-> to, st |-> s, arg |-> None])]
UpArg(p, to, s, a) == [p EXCEPT !.up = Append(@, [to |-> to, st |-> s, arg |-> a])]

(***************************************************************************)
(* Sequences of one command each; Notify calls the layer above once.       *)
(***************************************************************************)
SeqHandler(p, seq, arg) ==
  IF p.seq # None \/ p.timer # None THEN [p EXCEPT !.broken = "overrun", !.st = "pending"]
  ELSE [p EXCEPT !.seq = seq, !.cmd = <<seq, arg>>, !.st = "pending"]

Notify(p, s) ==
  IF p.ifNtf = None THEN p ELSE Up([p EXCEPT !.ifNtf = None], p.ifNtf, s)

(***************************************************************************)
(* The list of remote devices.                                             *)
(***************************************************************************)
Opened(p) == {i \in DOMAIN p.devs : p.devs[i].open}
RetrieveRemDevInfo(p, id) == {i \in DOMAIN p.devs : p.devs[i].id = id}
RdrMgmtRelease(p) == [p EXCEPT !.reader = FALSE]
ClearDiscContext(p) ==
  [p EXCEPT !.devs = <<>>, !.disc = FALSE, !.deactType = "Idle"]

ListenMgmt_DeActivate(p, kind) ==
  IF kind \in Listening THEN [p EXCEPT !.buffered = FALSE] ELSE p

ProcessActivatedIfDeActv(q, i) ==
  LET p == ListenMgmt_DeActivate(q, q.devs[i].kind)
  IN  CASE p.deactType = "Idle" -> ClearDiscContext(RdrMgmtRelease(p))
        [] p.deactType \in {"Sleep", "SleepAf"} -> [p EXCEPT !.devs[i].open = FALSE]
        [] p.deactType = "Disc" ->
             [ClearDiscContext(RdrMgmtRelease(p)) EXCEPT !.disc = TRUE]

ProcessDeActvState(p) ==
  CASE p.devs = <<>> /\ p.disc -> ClearDiscContext(RdrMgmtRelease(p))
    [] p.devs = <<>> /\ ~p.disc -> p
    [] Opened(p) # {} -> ProcessActivatedIfDeActv(p, CHOOSE i \in Opened(p) : TRUE)
    [] OTHER -> IF p.deactType = "Idle" THEN ClearDiscContext(RdrMgmtRelease(p)) ELSE p

(***************************************************************************)
(* Calls of the layer above.                                               *)
(***************************************************************************)
StartDiscovery(q, cb) ==
  LET p == ProcessDeActvState([q EXCEPT !.deactType = "Idle"])
  IN  SeqHandler([p EXCEPT !.ifNtf = cb], "Discover", None)

Connect(p, dev, cb) == SeqHandler([p EXCEPT !.ifNtf = cb], "Select", dev)

SetConfig(p, cb) == SeqHandler([p EXCEPT !.ifNtf = cb], "Config", None)

ValidateSuppDeActvType(kind, type) ==
  \/ type \in {"Idle", "Disc"} \/ kind \in FrameRf
  \/ kind = "IsoDep" /\ type = "Sleep"
  \/ kind = "Target" /\ type = "SleepAf"

\* Whoever waits for a packet is forgotten when the next request takes its place.
Dropping(p) ==
  LET waits == p.data = "Send" \/ (p.data = "Xchg" /\ p.xchgCb # None)
  IN  [p EXCEPT !.broken = IF @ = None /\ waits THEN "dropped" ELSE @]

Deactivate(q, type, cb) ==
  LET p == [Dropping(q) EXCEPT !.ifNtf = cb]
      kind == p.devs[CHOOSE i \in Opened(p) : TRUE].kind
      send(ntf) == SeqHandler([p EXCEPT !.deactCb = ntf, !.deactType = type, !.data = None,
                                        !.rdr = None], "Deactivate", type)
  IN  CASE p.devs = <<>> -> send(IF type = "Idle" THEN None ELSE cb)
        [] p.devs # <<>> /\ Opened(p) = {} -> send(None)
        [] OTHER -> IF ValidateSuppDeActvType(kind, type) THEN send(cb) ELSE St(p, "failed")

Transceive(p, dev, cb) ==
  IF p.active # dev THEN St(p, "invalid")
  ELSE IF ~p.reader THEN St(p, "failed")
  ELSE [Dropping(p) EXCEPT !.xchgCb = cb, !.data = "Xchg", !.pkt = (p.rf = "Poll"), !.st = "pending"]

DummyReadReq(p) == [p EXCEPT !.buffered = FALSE, !.rdr = "Buffer"]

ReceiveData(p, cb) ==
  IF p.buffered THEN [p EXCEPT !.ifNtf = cb, !.temp = TRUE, !.buffered = FALSE, !.st = "pending"]
  ELSE [p EXCEPT !.ifNtf = cb, !.rdr = "Receive", !.st = "pending"]

SendData(p, cb) == [p EXCEPT !.ifNtf = cb, !.data = "Send", !.st = "pending"]

AbortDataTransfer(p) == [p EXCEPT !.xchgCb = None, !.ifNtf = None]

PrepareNciShutDown(p) ==
  [p EXCEPT !.xchgCb = None, !.ifNtf = None, !.seq = None, !.data = None, !.rdr = None,
            !.mfc = FALSE, !.cmd = <<>>, !.pkt = FALSE]

(***************************************************************************)
(* Answers to commands.                                                    *)
(***************************************************************************)
CompleteDiscSequence(p, s) == Notify(IF s = "ok" THEN [p EXCEPT !.disc = TRUE] ELSE p, s)

CompleteDiscSelSequence(p, s) ==
  IF s # "ok" THEN Notify(p, s)
  ELSE [p EXCEPT !.actvCb = p.ifNtf, !.mfc = TRUE, !.timer = "Select"]

CompleteDeactivate(p, s) ==
  CASE s # "ok" -> Notify(p, s)
    [] s = "ok" /\ p.deactCb = None -> Notify(ProcessDeActvState(p), s)
    [] OTHER -> [p EXCEPT !.timer = "Deactivate"]

Response(q, op, s) ==
  LET p == [q EXCEPT !.seq = None]
  IN  IF q.seq # op THEN q
      ELSE CASE op = "Discover" -> CompleteDiscSequence(p, s)
             [] op = "Select" -> CompleteDiscSelSequence(p, s)
             [] op = "Deactivate" -> CompleteDeactivate(p, s)
             [] OTHER -> Notify(p, s)

(***************************************************************************)
(* Notifications.                                                          *)
(***************************************************************************)
TargetDiscoveryComplete(p, s) == Up(p, "Discovery", s)

\* The context is cleared when LibNfc has seen the failure: see AfterUpcall.
ProcessDiscNtf(q, dev, last) ==
  LET p == [q EXCEPT !.devs = Append(@, [kind |-> dev.kind, id |-> dev.id, open |-> FALSE])]
  IN  CASE ~q.disc -> UpArg(q, "Discovery", "failed", "Clear")
        [] q.disc /\ ~last -> p
        [] OTHER -> TargetDiscoveryComplete([p EXCEPT !.disc = FALSE], "multiple")

AfterUpcall(p, u) == IF u.to = "Discovery" /\ u.arg = "Clear" THEN ClearDiscContext(RdrMgmtRelease(p)) ELSE p

ProcessActvNtf(q, dev) ==
  LET p == [q EXCEPT !.timer = None, !.mfc = FALSE, !.disc = FALSE]
      found == IF Opened(p) # {} THEN Opened(p) ELSE RetrieveRemDevInfo(p, dev.id)
      place == IF p.devs = <<>> THEN 1 ELSE CHOOSE i \in found : TRUE
      ok == p.devs = <<>> \/ found # {}
      opened == [kind |-> dev.kind, id |-> dev.id, open |-> TRUE]
      a == [p EXCEPT !.devs = IF @ = <<>> THEN <<opened>> ELSE [@ EXCEPT ![place] = opened],
                     !.active = dev, !.reader = @ \/ dev.kind \notin Listening]
      r == IF ~ok THEN p ELSE IF dev.kind \in Listening THEN DummyReadReq(a) ELSE a
  IN  IF p.actvCb # None THEN UpArg([r EXCEPT !.actvCb = None], p.actvCb, IF ok THEN "ok" ELSE "failed", dev)
      ELSE TargetDiscoveryComplete(r, IF ok THEN "single" ELSE "failed")

DeActvNtfCb(q, type, reason) ==
  LET p == ProcessDeActvState([q EXCEPT !.timer = None])
      sleeps == {"Sleep", "SleepAf"}
      asked == \/ reason = "DhRequest" /\ (\/ type = q.deactType
                                           \/ q.deactType \in sleeps /\ type \in sleeps \cup {"Idle"})
               \/ reason = "Failed" /\ type = q.deactType /\ type # "Disc"
  IN  IF q.deactCb = None THEN p
      ELSE Up([p EXCEPT !.deactCb = None], q.deactCb, IF asked THEN "ok" ELSE "failed")

\* With a packet buffered the completion of a command may be forgotten, taken
\* for a receiver.
ProcessDeActvNtf(q, type, reason) ==
  LET forgets == q.buffered /\ q.ifNtf # None /\ q.seq # None
      p == [q EXCEPT !.rdr = None, !.buffered = FALSE,
                     !.broken = IF @ = None /\ forgets THEN "dropped" ELSE @,
                     !.ifNtf = IF q.buffered THEN None ELSE @]
      s == ProcessDeActvState(p)
  IN  IF reason \notin {"EndPoint", "LinkLoss"} THEN DeActvNtfCb(p, type, reason)
      ELSE UpArg([s EXCEPT !.disc = @ \/ type = "Disc"], "Deactivated", "lost",
                 IF type = "Idle" THEN "Idle" ELSE "Disc")

\* CORE_GENERIC_ERROR_NTF with Target activation failed: both handlers.
ProcessGenericErrNtf(p) ==
  LET r == [p EXCEPT !.timer = None, !.mfc = FALSE]
  IN  IF p.mfc THEN Notify([r EXCEPT !.actvCb = None], "failed") ELSE [r EXCEPT !.actvCb = None]

NtfTimeout(p) ==
  IF p.timer = "Deactivate" THEN DeActvNtfCb(p, p.deactType, "DhRequest")
  ELSE LET r == [p EXCEPT !.timer = None, !.actvCb = None]
       IN  IF p.actvCb = None THEN r ELSE UpArg(r, p.actvCb, "failed", None)

(***************************************************************************)
(* Data: the answer to an exchange, or the lack of one; packets in listen  *)
(* mode.  The sequence of an exchange may have been freed with the device  *)
(* when its timeout comes: then the memory it is read from is intact, or   *)
(* the history ends.                                                       *)
(***************************************************************************)
CompleteDataXchgSequence(q, s, intact) ==
  LET p == [q EXCEPT !.data = None]
  IN  CASE ~p.reader /\ ~intact -> [p EXCEPT !.broken = "freed"]
        [] (p.reader \/ intact) /\ p.xchgCb # None -> Up(p, p.xchgCb, s)
        [] OTHER -> p

SendCb(p, s) ==
  LET r == DummyReadReq([p EXCEPT !.data = None]) IN IF r.ifNtf = None THEN r ELSE Up(r, r.ifNtf, s)

DataNtf(p) ==
  CASE p.data = "Xchg" -> CompleteDataXchgSequence(p, "ok", TRUE)
    [] p.data # "Xchg" /\ p.rdr = "Buffer" -> [p EXCEPT !.rdr = None, !.buffered = TRUE]
    [] p.data # "Xchg" /\ p.rdr = "Receive" ->
         LET r == [p EXCEPT !.rdr = None] IN IF r.ifNtf = None THEN r ELSE Up(r, r.ifNtf, "ok")
    [] OTHER -> p

TempReceiveCb(p) ==
  LET r == [p EXCEPT !.temp = FALSE, !.ifNtf = None]
  IN  IF p.ifNtf = None THEN r ELSE Up(r, p.ifNtf, "ok")

\* A library that is shutting down waits for the reset only.
Message(p, m) ==
  CASE p.seq = "Reset" /\ (m.op # "Rsp" \/ m.arg # "Reset") -> p
    [] m.op = "Rsp" -> Response(p, m.arg, m.st)
    [] m.op = "Actv" -> ProcessActvNtf(p, m.arg)
    [] m.op = "Disc" -> ProcessDiscNtf(p, m.arg, FALSE)
    [] m.op = "LastDisc" -> ProcessDiscNtf(p, m.arg, TRUE)
    [] m.op = "Deactv" -> ProcessDeActvNtf(p, m.arg, m.st)
    [] m.op = "GenericErr" -> ProcessGenericErrNtf(p)
    [] m.op = "Data" -> DataNtf(p)
    [] m.op = "IntfErr" -> IF p.data = "Xchg" THEN CompleteDataXchgSequence(p, "failed", TRUE) ELSE p

(***************************************************************************)
(* The controller, and what it may do (NCI 1.1, chapter 5): each command   *)
(* is executed at some moment after it was sent, and what was sent before  *)
(* is on its way already.                                                  *)
(***************************************************************************)
Say(p, op, arg, s) == [p EXCEPT !.wire = Append(@, [op |-> op, arg |-> arg, st |-> s])]
Answer(p, s) == Say([p EXCEPT !.cmd = <<>>], "Rsp", p.cmd[1], s)
Active(p) == p.rf \in {"Poll", "Listen"}

Executes(p) ==
  LET op == p.cmd[1]
      arg == p.cmd[2]
      a == Answer(p, "ok")
      left == [a EXCEPT !.field = None, !.pkt = FALSE]
      told(rf, type) == Say([left EXCEPT !.rf = rf], "Deactv", type, "DhRequest")
  IN  CASE op = "Config" -> {a}
        [] op = "Reset" -> {[Answer([p EXCEPT !.wire = <<>>], "ok") EXCEPT
                               !.rf = "Idle", !.field = None, !.heard = <<>>, !.pkt = FALSE]}
        [] op = "Discover" /\ p.rf = "Idle" -> {[a EXCEPT !.rf = "Discovery"]}
        [] op = "Select" /\ p.rf = "W4Select" /\ (\E i \in DOMAIN p.heard : p.heard[i] = arg) ->
             {Say([a EXCEPT !.rf = "Poll", !.field = arg], "Actv", arg, "ok")}
        [] op = "Deactivate" /\ Active(p) ->
             CASE arg = "Idle" -> {told("Idle", arg)}
               [] arg = "Disc" -> {told("Discovery", arg)}
               [] arg \in {"Sleep", "SleepAf"} /\ p.rf = "Poll" ->
                    {[told("W4Select", arg) EXCEPT !.heard = <<p.field>>]}
               [] OTHER -> {told("Idle", "Idle")}
        [] op = "Deactivate" /\ p.rf \in {"Discovery", "W4Select"} /\ arg = "Idle" ->
             {[left EXCEPT !.rf = "Idle", !.heard = <<>>]}
        [] OTHER -> {Answer(p, "failed")}

\* A selected device does not answer.
SelectFails(p) ==
  IF p.cmd # <<>> /\ p.cmd[1] = "Select" /\ p.rf = "W4Select"
  THEN {Say(Answer(p, "ok"), "GenericErr", None, "ok")} ELSE {}

Meets(p, found) ==   \* one or several devices come into the field
  IF p.rf # "Discovery" THEN {}
  ELSE IF Len(found) = 1
       THEN {Say([p EXCEPT !.rf = IF found[1].kind \in Listening THEN "Listen" ELSE "Poll",
                           !.field = found[1]], "Actv", found[1], "ok")}
       ELSE {Say(Say([p EXCEPT !.rf = "W4Select", !.heard = found], "Disc", found[1], "ok"),
                 "LastDisc", found[2], "ok")}

Leaves(p) ==         \* the device is lost
  IF Active(p) THEN {Say([p EXCEPT !.rf = "Discovery", !.field = None, !.pkt = FALSE], "Deactv", "Disc", "LinkLoss")}
  ELSE {}

Speaks(p) ==         \* the remote reader sends a packet
  IF p.rf = "Listen" THEN {Say(p, "Data", None, "ok")} ELSE {}

Answers(p, s) ==     \* the device answers the exchange, or the field does not
  IF p.pkt THEN {Say([p EXCEPT !.pkt = FALSE], IF s = "ok" THEN "Data" ELSE "IntfErr", None, "ok")}
  ELSE {}

AnswerComes(p) == p.pkt \/ \E i \in DOMAIN p.wire : p.wire[i].op \in {"Data", "IntfErr"}
=============================================================================
