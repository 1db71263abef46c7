---------------------------- MODULE NciCoreSend ----------------------------
(***************************************************************************)
(* The sending side of the NCI core (libs/NfcCoreLib/lib/NciCore): the     *)
(* send state machine (phNciNfc_CoreSend.c), the credits of the logical    *)
(* connections and the wait for them (phNciNfc_LoglConnMgmt.c), the list   *)
(* of callbacks waiting for a response or for data                         *)
(* (phNciNfc_CoreRecvMgr.c), and the single response timer they share.     *)
(*                                                                         *)
(* Everything runs on the LibNfc thread, one message at a time: a request  *)
(* of the upper layer, a write completion, a received packet, the expiry   *)
(* of a timer.  What interleaves is the order of those messages.           *)
(*                                                                         *)
(* A transaction is a record                                               *)
(*   data : a data message (TRUE) or a control command (FALSE)             *)
(*   conn : its logical connection (commands: the static one, which        *)
(*          phNciNfc_CoreIfTxRx writes into bConn_ID)                      *)
(*   op   : group and opcode of a command                                  *)
(*   only : sent with phNciNfc_CoreIfTxOnly (data only, no response)       *)
(*   segs : packets it takes on the wire (1 for a command)                 *)
(* and an id that keeps transactions apart.  The logical connections stay  *)
(* open; timers can always be created; every TxRx has a response timeout.  *)
(***************************************************************************)
EXTENDS Integers, Sequences, FiniteSets

CONSTANTS Trans,          \* the transactions of the upper layer, each issued once
          NoTrans,        \* "no transaction"
          Conns,          \* the logical connections
          StaticConn,     \* CONNRFTYPE_STATIC, the connection to the remote device
          InitialCredits, \* credits a connection is opened with
          MaxDataRegs,    \* PHNCINFC_CORE_MAX_DATA_REGS (3 in the code)
          WriteResults,   \* what phTmlNfc_Write may answer: TRUE is PENDING
          MaxEntries,     \* entries of a CORE_CONN_CREDITS_NTF: 1 or 2
          MaxPackets,     \* bound on data packets and interface errors received
          MaxResets       \* bound on the resets of the controller or of the core

ASSUME SendAssumption ==
  /\ NoTrans \notin Trans
  /\ StaticConn \in Conns
  /\ \A t \in Trans : /\ t.data \in BOOLEAN
                      /\ t.only \in BOOLEAN
                      /\ t.conn \in Conns
                      /\ t.segs \in Nat \ {0}
                      /\ t.only => t.data
                      /\ ~t.data => t.segs = 1 /\ t.conn = StaticConn
  /\ InitialCredits \in 0 .. 255
  /\ MaxDataRegs \in Nat \ {0}
  /\ WriteResults \subseteq BOOLEAN
  /\ MaxEntries \in {1, 2}
  /\ MaxPackets \in Nat
  /\ MaxResets \in Nat

VARIABLES
  sendState,      \* SendStateContext.CurrState
  tx,             \* TxInfo and its progress: see TxType
  credits,        \* bNumCredits of each connection
  awaited,        \* bCreditsAwaited, with the credit timer that runs with it
  rspReg,         \* the transaction of aRspRegList[0]
  dataRegs,       \* the transactions of aDataRegList
  timer,          \* TimerInfo and the timer it names: see TimerType
  tml,            \* writes at the transport layer, the first one at the transport
  arrived,        \* the first write reached the controller, its completion did not come
  owed,           \* commands the controller has not answered
  atNfcc,         \* data packets of each connection the controller holds
  issued,         \* transactions the upper layer has handed over
  pending,        \* accepted, not called back and not given up
  calls,          \* callbacks made for each transaction
  writeFailed,    \* transactions under way when a write completed with an error
  failedEntry,    \* the state is Send but its entry function failed
  packets, resets \* counters for the bounds

sender == <<sendState, tx, failedEntry>>
regs == <<rspReg, dataRegs>>
wire == <<tml, arrived>>
nfcc == <<owed, atNfcc>>
upper == <<issued, pending, calls>>
bounds == <<packets, resets>>
vars == <<sender, credits, awaited, regs, timer, wire, nfcc, upper, writeFailed, bounds>>

Slots == 1 .. MaxDataRegs
Entries == Trans \cup {NoTrans}

(***************************************************************************)
(* trans: TxInfo and IntNtf;  left: dwBytes_Remaining, in packets;         *)
(* notify: IntNtfFlag;  timed: dwRspTimeOutMs is not 0.                    *)
(***************************************************************************)
TxType == [trans : Entries, left : Nat, notify : BOOLEAN, timed : BOOLEAN]

(***************************************************************************)
(* status: TimerStatus;  of: the transaction whose header PktHeaderInfo    *)
(* holds;  armed: the threadpool timer is set;  fired: it went off         *)
(* (bFired) and its message waits in the queue of the LibNfc thread.       *)
(***************************************************************************)
TimerType == [status : {"idle", "queued", "running"}, of : Entries,
              armed : BOOLEAN, fired : BOOLEAN]

TypeOK ==
  /\ sendState \in {"idle", "send", "waitCredit"}
  /\ tx \in TxType
  /\ failedEntry \in BOOLEAN
  /\ credits \in [Conns -> 0 .. 255]
  /\ awaited \in BOOLEAN
  /\ rspReg \in Entries
  /\ dataRegs \in [Slots -> Entries]
  /\ timer \in TimerType
  /\ tml \in Seq(Trans)
  /\ arrived \in BOOLEAN
  /\ owed \in SUBSET Trans
  /\ atNfcc \in [Conns -> Nat]
  /\ issued \in SUBSET Trans
  /\ pending \in SUBSET Trans
  /\ calls \in [Trans -> Nat]
  /\ writeFailed \in SUBSET Trans
  /\ packets \in Nat
  /\ resets \in Nat

Init ==
  /\ sendState = "idle"
  /\ tx = [trans |-> NoTrans, left |-> 0, notify |-> FALSE, timed |-> FALSE]
  /\ failedEntry = FALSE
  /\ credits = [c \in Conns |-> InitialCredits]
  /\ awaited = FALSE
  /\ rspReg = NoTrans
  /\ dataRegs = [i \in Slots |-> NoTrans]
  /\ timer = [status |-> "idle", of |-> NoTrans, armed |-> FALSE, fired |-> FALSE]
  /\ tml = <<>>
  /\ arrived = FALSE
  /\ owed = {}
  /\ atNfcc = [c \in Conns |-> 0]
  /\ issued = {}
  /\ pending = {}
  /\ calls = [t \in Trans |-> 0]
  /\ writeFailed = {}
  /\ packets = 0
  /\ resets = 0

-----------------------------------------------------------------------------
(* The registrations *)

Lowest(S) == CHOOSE i \in S : \A j \in S : i <= j
FreeSlots == {i \in Slots : dataRegs[i] = NoTrans}
EntriesOf(r, c) == {i \in Slots : r[i] # NoTrans /\ r[i].conn = c}

(* phNciNfc_CoreInvokeCb: the first entry of connection c is removed and called. *)
WithoutFirst(r, c) ==
  IF EntriesOf(r, c) = {} THEN r ELSE [r EXCEPT ![Lowest(EntriesOf(r, c))] = NoTrans]

(***************************************************************************)
(* phNciNfc_CoreRegisterForNotifications: a command overwrites the single  *)
(* response slot, data takes the first free slot of aDataRegList.  The     *)
(* response timer is queued only for a transaction that found a slot and   *)
(* has a timeout.  Without a slot the packet is sent all the same.         *)
(***************************************************************************)
Registers(t) == ~t.data \/ FreeSlots # {}
RspRegAfter(t) == IF t.data THEN rspReg ELSE t
DataRegsAfter(t) == IF t.data /\ FreeSlots # {}
                      THEN [dataRegs EXCEPT ![Lowest(FreeSlots)] = t]
                      ELSE dataRegs
TimerAfter(t, timed) == IF Registers(t) /\ timed
                          THEN [timer EXCEPT !.status = "queued", !.of = t]
                          ELSE timer

(* The timer is no longer wanted: phOsalNfc_Timer_Stop only if it runs. *)
Cancelled(tm) == IF tm.status = "running"
                   THEN [tm EXCEPT !.status = "idle", !.armed = FALSE, !.fired = FALSE]
                   ELSE [tm EXCEPT !.status = "idle"]

(* phNciNfc_CoreStartResponseTimer *)
StartedMutant(tm) == IF tm.status = "queued" THEN [tm EXCEPT !.status = "idle"] ELSE tm
Started(tm) == IF tm.status = "queued"
                 THEN [tm EXCEPT !.status = "running", !.armed = TRUE] ELSE tm

Callback(t) == IF t = NoTrans
                 THEN UNCHANGED <<calls, pending>>
                 ELSE /\ calls' = [calls EXCEPT ![t] = @ + 1]
                      /\ pending' = pending \ {t}

-----------------------------------------------------------------------------
(* The send state machine *)

(* Whether phNciNfc_DecrConnCredit and phTmlNfc_Write succeed, credits being cr. *)
CanSend(t, ok, cr) == ok /\ (t.data => cr[t.conn] > 0)

(* phNciNfc_DecrConnCredit *)
TakeCreditMutant(t, cr) == cr
TakeCredit(t, cr) == IF t.data /\ cr[t.conn] > 0 THEN [cr EXCEPT ![t.conn] = @ - 1] ELSE cr

(* What remains after a packet; an interface error may have set it to 0. *)
Remains(left) == IF left > 0 THEN left - 1 ELSE 0

(***************************************************************************)
(* phNciNfc_CoreSendEntry: take a credit for a data packet, hand the next  *)
(* packet of t to the transport layer, count it off.  A credit taken for a *)
(* write that is refused is not given back.                                *)
(***************************************************************************)
CoreSendEntry(t, left, notify, timed, ok, cr) ==
  /\ sendState' = "send"
  /\ credits' = TakeCredit(t, cr)
  /\ failedEntry' = ~CanSend(t, ok, cr)
  /\ tx' = [trans |-> t, notify |-> notify, timed |-> timed,
            left |-> IF CanSend(t, ok, cr) THEN Remains(left) ELSE left]

ToTml(t, ok, cr) == IF CanSend(t, ok, cr) THEN Append(tml, t) ELSE tml

(* phNciNfc_CoreSendChkCreditAvail without a credit: phNciNfc_RegForConnCredits *)
RegForConnCreditsMutant == UNCHANGED awaited
RegForConnCredits == awaited' = TRUE

(***************************************************************************)
(* The upper layer sends one command at a time: an NCI sequence goes on    *)
(* when the response callback ran.  After a reset it starts no data        *)
(* exchange before the core is initialised again.                          *)
(***************************************************************************)
MayIssue(t) ==
  /\ t \notin issued
  /\ ~t.data => \A u \in pending : u.data
  /\ t.data => resets = 0

FLOW_CONTROL_DISABLED == 255

NeedsCredit(t) == t.data /\ credits[t.conn] = 0

(***************************************************************************)
(* phNciNfc_CoreIfTxRx and phNciNfc_CoreIfTxOnly with the sender idle (any *)
(* other state answers NFCSTATUS_BUSY and changes nothing), Idle to Send:  *)
(* register, send the first packet.  If the entry of Send fails            *)
(* phNciNfc_UnRegCallBack removes the first entry of the connection and    *)
(* the caller gets the error, but CurrState stays Send.                    *)
(***************************************************************************)
TxToSend(t) ==
  /\ MayIssue(t)
  /\ sendState = "idle"
  /\ ~NeedsCredit(t)
  /\ issued' = issued \cup {t}
  /\ \E ok \in WriteResults :
       /\ CoreSendEntry(t, t.segs, t.only, ~t.only, ok, credits)
       /\ tml' = ToTml(t, ok, credits)
       /\ pending' = IF ok THEN pending \cup {t} ELSE pending
       /\ \/ /\ t.only
             /\ UNCHANGED <<regs, timer>>
          \/ /\ ~t.only /\ ok
             /\ rspReg' = RspRegAfter(t)
             /\ dataRegs' = DataRegsAfter(t)
             /\ timer' = TimerAfter(t, TRUE)
          \/ /\ ~t.only /\ ~ok
             /\ rspReg' = IF t.data THEN rspReg ELSE NoTrans
             /\ dataRegs' = IF t.data THEN WithoutFirst(DataRegsAfter(t), t.conn) ELSE dataRegs
             /\ timer' = IF t.data /\ EntriesOf(DataRegsAfter(t), t.conn) = {}
                           THEN timer ELSE Cancelled(TimerAfter(t, TRUE))
  /\ UNCHANGED <<awaited, arrived, nfcc, calls, writeFailed, bounds>>

(* Idle to WaitCredit: nothing is registered but the wait for credits. *)
TxToWaitCredit(t) ==
  /\ MayIssue(t)
  /\ sendState = "idle"
  /\ NeedsCredit(t)
  /\ sendState' = "waitCredit"
  /\ tx' = [trans |-> t, left |-> t.segs, notify |-> t.only, timed |-> ~t.only]
  /\ RegForConnCredits
  /\ issued' = issued \cup {t}
  /\ pending' = pending \cup {t}
  /\ UNCHANGED <<failedEntry, credits, regs, timer, wire, nfcc, calls, writeFailed, bounds>>

(***************************************************************************)
(* The transport carries the first write to the controller.  Its           *)
(* completion comes later: the controller may answer before it.            *)
(***************************************************************************)
Arrive ==
  /\ tml # <<>> /\ ~arrived
  /\ arrived' = TRUE
  /\ LET t == Head(tml) IN
       IF t.data THEN /\ atNfcc' = [atNfcc EXCEPT ![t.conn] = @ + 1]
                      /\ UNCHANGED owed
                 ELSE /\ owed' = owed \cup {t}
                      /\ UNCHANGED atNfcc
  /\ UNCHANGED <<sender, credits, awaited, regs, timer, tml, upper, writeFailed, bounds>>

(***************************************************************************)
(* phNciNfc_CoreSendCb with the status of the write: an error sets         *)
(* IntNtfFlag, whatever state the sender is in, so that the upper layer is *)
(* called when the sender goes idle.                                       *)
(***************************************************************************)
Completes(ok) ==
  /\ tml # <<>>
  /\ ok => arrived
  /\ arrived' = FALSE
  /\ writeFailed' = IF ok \/ tx.trans = NoTrans THEN writeFailed
                                                ELSE writeFailed \cup {tx.trans}
  /\ UNCHANGED <<regs, nfcc, issued, bounds>>

NotifyMutant(ok) == TRUE
Notify(ok) == tx.notify \/ ~ok

(* The event is taken only in Send: in the other states only IntNtfFlag changes. *)
CompleteIgnored(ok) ==
  /\ Completes(ok)
  /\ sendState # "send"
  /\ tml' = Tail(tml)
  /\ tx' = [tx EXCEPT !.notify = Notify(ok)]
  /\ UNCHANGED <<sendState, failedEntry, credits, awaited, timer, calls, pending>>

(* Nothing is left: phNciNfc_StateSend2Idle calls back, or starts the response timer. *)
SendToIdle(ok) ==
  /\ Completes(ok)
  /\ sendState = "send" /\ tx.left = 0
  /\ sendState' = "idle"
  /\ failedEntry' = FALSE
  /\ tml' = Tail(tml)
  /\ tx' = [tx EXCEPT !.notify = Notify(ok)]
  /\ IF Notify(ok)
       THEN Callback(tx.trans) /\ UNCHANGED timer
       ELSE /\ timer' = Started(timer)
            /\ UNCHANGED <<calls, pending>>
  /\ UNCHANGED <<credits, awaited>>

(* More packets, and a credit for the next one: Send is entered again. *)
SendToSend(ok) ==
  /\ Completes(ok)
  /\ sendState = "send" /\ tx.left > 0
  /\ credits[tx.trans.conn] > 0
  /\ \E w \in WriteResults :
       /\ CoreSendEntry(tx.trans, tx.left, Notify(ok), tx.timed, w, credits)
       /\ tml' = Tail(ToTml(tx.trans, w, credits))
  /\ UNCHANGED <<awaited, timer, calls, pending>>

(* More packets, no credit. *)
SendToWaitCredit(ok) ==
  /\ Completes(ok)
  /\ sendState = "send" /\ tx.left > 0
  /\ credits[tx.trans.conn] = 0
  /\ sendState' = "waitCredit"
  /\ failedEntry' = FALSE
  /\ tml' = Tail(tml)
  /\ tx' = [tx EXCEPT !.notify = Notify(ok)]
  /\ RegForConnCredits
  /\ UNCHANGED <<credits, timer, calls, pending>>

SendComplete(ok) == CompleteIgnored(ok) \/ SendToIdle(ok) \/ SendToSend(ok) \/ SendToWaitCredit(ok)

(***************************************************************************)
(* The wait for credits is over without any: phNciNfc_StateWaitCredit2Idle *)
(* drops a queued response timer and calls back.  Registrations stay.      *)
(***************************************************************************)
WaitCreditToIdle ==
  /\ sendState' = "idle"
  /\ timer' = IF timer.status = "queued" THEN [timer EXCEPT !.status = "idle"] ELSE timer
  /\ Callback(tx.trans)
  /\ UNCHANGED <<failedEntry, tx, tml, regs>>

(* phNciNfc_WaitCreditTimerCb, with phNciNfc_CreditsUpdateCB *)
CreditTimeout ==
  /\ awaited
  /\ awaited' = FALSE
  /\ \/ sendState = "waitCredit" /\ WaitCreditToIdle
     \/ /\ sendState # "waitCredit"
        /\ UNCHANGED <<sender, tml, regs, timer, calls, pending>>
  /\ UNCHANGED <<credits, arrived, nfcc, issued, writeFailed, bounds>>

(***************************************************************************)
(* bNumCredits is a byte: += wraps at 256, then the sum is capped at       *)
(* MAX_CREDITS_LIMIT (0xFE).                                               *)
(***************************************************************************)
AddCredits(x, v) == IF (x + v) % 256 > 254 THEN 254 ELSE (x + v) % 256

(* The loop over the entries reads the first one again and again. *)
CreditsAfter(entries) ==
  LET x == credits[entries[1].conn]
      v == entries[1].credits
  IN  IF Len(entries) = 1 THEN AddCredits(x, v) ELSE AddCredits(AddCredits(x, v), v)

CreditEntry == [conn : Conns, credits : 1 .. InitialCredits]
CreditLists == {<<e>> : e \in CreditEntry} \cup
               (IF MaxEntries = 2 THEN CreditEntry \X CreditEntry ELSE {})

(***************************************************************************)
(* The wait ends with the first notification, whichever connection it is   *)
(* for: Send is entered (the transaction registers, once more if it had    *)
(* already sent a packet), and fails if its own connection has no credit.  *)
(***************************************************************************)
WaitCreditToSend(cr) ==
  /\ \E ok \in WriteResults :
       /\ CoreSendEntry(tx.trans, tx.left, tx.notify, tx.timed, ok, cr)
       /\ tml' = ToTml(tx.trans, ok, cr)
  /\ IF tx.notify
       THEN UNCHANGED <<regs, timer>>
       ELSE /\ rspReg' = RspRegAfter(tx.trans)
            /\ dataRegs' = DataRegsAfter(tx.trans)
            /\ timer' = TimerAfter(tx.trans, tx.timed)
  /\ UNCHANGED <<calls, pending>>

(* The controller gives back, entry by entry, packets it holds no longer. *)
Given(entries, c) ==
  LET amount(i) == IF entries[i].conn = c THEN entries[i].credits ELSE 0
  IN  IF Len(entries) = 1 THEN amount(1) ELSE amount(1) + amount(2)

(***************************************************************************)
(* phNciNfc_ProcessConnCreditNtf, with phNciNfc_CreditsUpdateCB.  A        *)
(* controller that opened the connections with FLOW_CONTROL_DISABLED sends *)
(* no such notification.                                                   *)
(***************************************************************************)
CreditNtf(entries) ==
  /\ InitialCredits # FLOW_CONTROL_DISABLED
  /\ \A c \in Conns : Given(entries, c) <= atNfcc[c]
  /\ atNfcc' = [c \in Conns |-> atNfcc[c] - Given(entries, c)]
  /\ awaited' = FALSE
  /\ LET n == CreditsAfter(entries)
         cr == [credits EXCEPT ![entries[1].conn] = n]
     IN  \/ /\ awaited /\ sendState = "waitCredit"
            /\ IF n > 0 THEN WaitCreditToSend(cr) ELSE WaitCreditToIdle /\ credits' = cr
         \/ /\ ~(awaited /\ sendState = "waitCredit")
            /\ credits' = cr
            /\ UNCHANGED <<sender, tml, regs, timer, calls, pending>>
  /\ UNCHANGED <<arrived, owed, issued, writeFailed, bounds>>

-----------------------------------------------------------------------------
(* Received packets and the response timer *)

(* phNciNfc_StateDummy2Idle, phNciNfc_CoreRecvManager for a response. *)
Response(t) ==
  /\ t \in owed
  /\ owed' = owed \ {t}
  /\ timer' = IF /\ timer.status # "idle" /\ timer.of # NoTrans
                 /\ ~timer.of.data /\ timer.of.op = t.op
                THEN Cancelled(timer) ELSE timer
  /\ IF rspReg # NoTrans /\ rspReg.op = t.op
       THEN Callback(rspReg) /\ rspReg' = NoTrans
       ELSE UNCHANGED <<calls, pending, rspReg>>
  /\ UNCHANGED <<sender, credits, awaited, dataRegs, wire, atNfcc, issued, writeFailed, bounds>>

(* The data callback of connection c, if any, with data or with an error. *)
DataCallback(c) ==
  /\ timer' = IF /\ timer.status # "idle" /\ timer.of # NoTrans
                 /\ timer.of.data /\ timer.of.conn = c
                THEN Cancelled(timer) ELSE timer
  /\ Callback(IF EntriesOf(dataRegs, c) = {} THEN NoTrans
              ELSE dataRegs[Lowest(EntriesOf(dataRegs, c))])
  /\ dataRegs' = WithoutFirst(dataRegs, c)
  /\ packets < MaxPackets
  /\ packets' = packets + 1
  /\ UNCHANGED <<sendState, failedEntry, credits, awaited, rspReg, wire, nfcc, issued,
                 writeFailed, resets>>

DataPacket(c) == DataCallback(c) /\ UNCHANGED tx

(***************************************************************************)
(* phNciNfc_ProcessIntfErrNtf: as above with NFCSTATUS_RF_ERROR, and       *)
(* phNciNfc_CoreResetSendStateMachine forgets the bytes that remain and    *)
(* the timeout of the transaction being sent, on whatever connection.      *)
(***************************************************************************)
InterfaceErr(c) == DataCallback(c) /\ tx' = [tx EXCEPT !.left = 0, !.timed = FALSE]

RspTimerFires ==
  /\ timer.armed
  /\ timer' = [timer EXCEPT !.armed = FALSE, !.fired = TRUE]
  /\ UNCHANGED <<sender, credits, awaited, regs, wire, nfcc, upper, writeFailed, bounds>>

(***************************************************************************)
(* phOsalNfc_TimerDeferredCall and phNciNfc_RspTimeOutCb: whatever the     *)
(* timer was started for, NFCSTATUS_RESPONSE_TIMEOUT goes to the callback  *)
(* registered for the header in TimerInfo.                                 *)
(***************************************************************************)
RspTimeOut ==
  /\ timer.fired
  /\ timer' = [timer EXCEPT !.status = "idle", !.armed = FALSE, !.fired = FALSE]
  /\ LET t == timer.of IN
       \/ /\ ~t.data
          /\ UNCHANGED dataRegs
          /\ IF rspReg # NoTrans /\ rspReg.op = t.op
               THEN Callback(rspReg) /\ rspReg' = NoTrans
               ELSE UNCHANGED <<calls, pending, rspReg>>
       \/ /\ t.data
          /\ Callback(IF EntriesOf(dataRegs, t.conn) = {} THEN NoTrans
                      ELSE dataRegs[Lowest(EntriesOf(dataRegs, t.conn))])
          /\ dataRegs' = WithoutFirst(dataRegs, t.conn)
          /\ UNCHANGED rspReg
  /\ UNCHANGED <<sender, credits, awaited, wire, nfcc, issued, writeFailed, bounds>>

-----------------------------------------------------------------------------
(* Deactivation and resets *)

(***************************************************************************)
(* phNciNfc_InterfaceDeactivate drops the data callbacks of the connection *)
(* to the remote device (phNciNfc_CoreRecvMgrDeRegDataCb); the exchanges   *)
(* are given up.  The RF_DEACTIVATE_CMD that follows is a TxToSend.        *)
(***************************************************************************)
DeRegDataCb ==
  /\ EntriesOf(dataRegs, StaticConn) # {}
  /\ pending' = pending \ {dataRegs[i] : i \in EntriesOf(dataRegs, StaticConn)}
  /\ dataRegs' = [i \in Slots |-> IF i \in EntriesOf(dataRegs, StaticConn)
                                    THEN NoTrans ELSE dataRegs[i]]
  /\ UNCHANGED <<sender, credits, awaited, rspReg, timer, wire, nfcc, issued, calls,
                 writeFailed, bounds>>

(***************************************************************************)
(* phNciNfc_CoreResetSenderStateMachine and phTmlNfc_WriteAbort: the       *)
(* sender is idle, writes not yet at the transport are dropped.  The       *)
(* upper layer gives up what was under way; the credit wait, the response  *)
(* timer and a write at the transport are left alone.                      *)
(***************************************************************************)
ResetSender ==
  /\ resets < MaxResets
  /\ resets' = resets + 1
  /\ sendState' = "idle"
  /\ failedEntry' = FALSE
  /\ \/ tml = <<>> /\ UNCHANGED tml
     \/ \E k \in 1 .. Len(tml) : tml' = SubSeq(tml, 1, k)
  /\ pending' = {}
  /\ UNCHANGED <<tx, credits, awaited, timer, arrived, issued, calls, writeFailed, packets>>

(* phNciNfc_ResetNtfCb: the controller started again and holds nothing. *)
ResetNtf ==
  /\ ResetSender
  /\ owed' = {}
  /\ atNfcc' = [c \in Conns |-> 0]
  /\ UNCHANGED regs

(* phNciNfc_Reset to release the core: phNciNfc_CoreRecvMgrRelease first. *)
Release ==
  /\ ResetSender
  /\ rspReg' = NoTrans
  /\ dataRegs' = [i \in Slots |-> NoTrans]
  /\ UNCHANGED nfcc

-----------------------------------------------------------------------------
Next ==
  \/ \E t \in Trans : TxToSend(t) \/ TxToWaitCredit(t) \/ Response(t)
  \/ Arrive
  \/ \E ok \in BOOLEAN : SendComplete(ok)
  \/ CreditTimeout
  \/ \E entries \in CreditLists : CreditNtf(entries)
  \/ \E c \in Conns : DataPacket(c) \/ InterfaceErr(c)
  \/ RspTimerFires
  \/ RspTimeOut
  \/ DeRegDataCb
  \/ ResetNtf
  \/ Release

Spec == Init /\ [][Next]_vars

(***************************************************************************)
(* The transport completes every write, timers that are set go off, and    *)
(* the LibNfc thread handles every message.                                *)
(***************************************************************************)
Fairness == /\ WF_vars(\E ok \in BOOLEAN : SendComplete(ok))
            /\ WF_vars(CreditTimeout)
            /\ WF_vars(RspTimerFires)
            /\ WF_vars(RspTimeOut)

FairSpec == Spec /\ Fairness

-----------------------------------------------------------------------------
(* Packets of connection c the core has handed over and the controller does not hold. *)
OnTheWay(c) == {i \in DOMAIN tml : tml[i].data /\ tml[i].conn = c /\ ~(arrived /\ i = 1)}

(***************************************************************************)
(* The controller is never sent more data packets than it has buffers for: *)
(* credits left, packets under way and packets it holds never exceed what  *)
(* the connection was opened with (phNciNfc_DecrConnCredit before each     *)
(* packet, phNciNfc_ProcessConnCreditNtf).                                 *)
(***************************************************************************)
NoOverrun == \A c \in Conns :
               credits[c] + Cardinality(OnTheWay(c)) + atNfcc[c] <= InitialCredits

(***************************************************************************)
(* A transaction is called back at most once: by its response, by a        *)
(* timeout, by an error or by the end of its sending, whichever comes      *)
(* first.  Two cases are left out, in which the registration outlives the  *)
(* callback: a write that failed, and segmented data, which registers once *)
(* more after a wait for credits.                                          *)
(***************************************************************************)
CalledBackOnce == \A t \in Trans :
                    \/ calls[t] <= 1
                    \/ t \in writeFailed
                    \/ t.data /\ ~t.only /\ t.segs > 1

(***************************************************************************)
(* The sender is never left in a state no event will take it out of: in    *)
(* Send a write completion is due (unless the entry of Send failed), in    *)
(* WaitCredit the credit timer runs.                                       *)
(***************************************************************************)
SenderHasEvent == /\ sendState = "send" => tml # <<>> \/ failedEntry
                  /\ sendState = "waitCredit" => awaited

(***************************************************************************)
(* A response timer that TimerInfo calls running is set, or has gone off   *)
(* and its message is on the way: stopping and restarting never loses it.  *)
(***************************************************************************)
RunningTimerFires == timer.status = "running" => timer.armed \/ timer.fired

(* The sender always comes back to idle, unless the entry of Send failed. *)
EverySendEnds == sendState # "idle" ~> (sendState = "idle" \/ failedEntry)

(***************************************************************************)
(* Every accepted transaction is called back, or given up by a reset or a  *)
(* deactivation (comment of phNciNfc_SendEvt2Status: the upper layer is    *)
(* invoked after a response, a timeout or a failed send).                  *)
(***************************************************************************)
EveryExchangeEnds == \A t \in Trans : t \in pending ~> (t \notin pending \/ failedEntry)

=============================================================================
