------------------------------ MODULE LlcpLink ------------------------------
(***************************************************************************)
(* The LLCP link layer (Fri/phFriNfc_Llcp.c) over its MAC                  *)
(* (phFriNfc_LlcpMacNfcip.c): two devices that both run it, one as the     *)
(* initiator and one as the target, take turns to send.  A device without  *)
(* a frame to send answers with SYMM after a while; one that hears nothing *)
(* for the link timeout deactivates the link.                              *)
(*                                                                         *)
(* Everything runs on the message thread of its device: an action is one   *)
(* message, with all the callbacks below it.  An operator named after a    *)
(* function takes the record of one device and returns it.  Frames of the  *)
(* layer above are numbered from 1; the layer above may send the next one  *)
(* from inside the callbacks named in `replies`.  The parameters are       *)
(* carried by the activation of NFCIP, so the PAX phase does not occur,    *)
(* and the flags of the conformance test mode are off.                     *)
(***************************************************************************)
EXTENDS Integers, Sequences

CONSTANTS SLOW_SYMMETRY,  \* PHFRINFC_LLCP_SLOW_SYMMETRY
          MaxFrames,      \* bound: frames that each device is given to send
          MaxFailures     \* bound: radio failures and link timeouts that come too early

ASSUME LinkAssumption == {SLOW_SYMMETRY, MaxFrames, MaxFailures} \subseteq Nat

VARIABLES end,      \* the two devices
          air,      \* the frame on its way to each device
          failures  \* counted for the bound

vars == <<end, air, failures>>

None == 0
SYMM == -1
DISC == -2
Ends == {"Initiator", "Target"}
Peer(e) == IF e = "Initiator" THEN "Target" ELSE "Initiator"
Frames == {SYMM, DISC} \cup 1..MaxFrames
Callbacks == {"sent", "received"}

TypeOK ==
  /\ end \in [Ends -> [role : Ends, state : {"RECV", "SEND", "CHECKED"},
       pfSendCB : BOOLEAN, psSendHeader : Frames \cup {None}, bDiscPendingFlag : BOOLEAN,
       timer : {"off", "recv", "send"}, deferred : 0..1, nSymmetryCounter : 0..SLOW_SYMMETRY,
       MacSend_Cb : BOOLEAN, MacReceive_Cb : BOOLEAN, SendPending : BOOLEAN,
       RecvPending : BOOLEAN, sTxBuffer : Frames \cup {None}, sending : BOOLEAN,
       receiving : BOOLEAN, out : {None}, given : 0..MaxFrames, told : 0..MaxFrames,
       refused : 0..MaxFrames, arrived : Seq(1..MaxFrames), downs : 0..1]]
  /\ air \in [Ends -> Frames \cup {None}]
  /\ failures \in 0..MaxFailures

(***************************************************************************)
(* The MAC.  sending and receiving say what the radio has been asked for:  *)
(* an initiator asks for both at once, a transceive.  out is the frame     *)
(* handed to the radio in this step.                                       *)
(***************************************************************************)
Transceive(x) == [x EXCEPT !.sending = TRUE, !.receiving = TRUE, !.out = x.sTxBuffer]

Rejects(x) == x.role = "Initiator" /\ x.MacSend_Cb

MacSend(x) ==
  LET y == [x EXCEPT !.MacSend_Cb = TRUE] IN
  CASE ~x.RecvPending -> [y EXCEPT !.SendPending = TRUE]
    [] x.RecvPending /\ x.role = "Initiator" -> Transceive([y EXCEPT !.SendPending = TRUE])
    [] OTHER -> [y EXCEPT !.sending = TRUE, !.out = x.sTxBuffer]

MacReceive(x) ==
  LET y == [x EXCEPT !.MacReceive_Cb = TRUE, !.RecvPending = TRUE] IN
  CASE x.MacReceive_Cb -> x
    [] ~x.MacReceive_Cb /\ x.role = "Target" -> [y EXCEPT !.receiving = TRUE]
    [] OTHER -> IF x.SendPending THEN Transceive(y) ELSE y

(***************************************************************************)
(* The link                                                                *)
(***************************************************************************)
ResetLTO(x) ==
  CASE x.state = "RECV" -> [x EXCEPT !.timer = "recv"]
    [] x.state # "RECV" /\ x.nSymmetryCounter >= SLOW_SYMMETRY -> [x EXCEPT !.timer = "send"]
    [] OTHER -> [x EXCEPT !.timer = "off", !.deferred = @ + 1]


InternalSend(x, frame) ==
  MacSend([ResetLTO([x EXCEPT !.state = "RECV"]) EXCEPT !.sTxBuffer = frame])

(* Deactivation of the MAC calls back with a failure, which finds the link *)
(* down already, and its reset forgets the rest.                           *)
InternalDeactivate(x) ==
  IF x.state = "CHECKED" THEN x
  ELSE [x EXCEPT !.state = "CHECKED", !.timer = "off", !.psSendHeader = None,
                 !.pfSendCB = FALSE, !.refused = IF x.pfSendCB THEN @ + 1 ELSE @,
                 !.downs = @ + 1, !.MacSend_Cb = FALSE, !.MacReceive_Cb = FALSE,
                 !.SendPending = FALSE, !.RecvPending = FALSE,
                 !.bDiscPendingFlag = @ /\ ~x.RecvPending]

Send(x) ==
  LET y == [x EXCEPT !.pfSendCB = TRUE, !.nSymmetryCounter = 0, !.given = @ + 1] IN
  CASE x.pfSendCB \/ x.state = "CHECKED" -> x
    [] ~x.pfSendCB /\ x.state = "SEND" -> InternalSend(y, y.given)
    [] OTHER -> [y EXCEPT !.psSendHeader = y.given]

(* A callback of the layer above, which may send its next frame in it *)
CallUpper(x, callback, replies) ==
  IF callback \in replies /\ x.given < MaxFrames THEN Send(x) ELSE x

HandlePendingSendMutant(x) ==
  IF x.psSendHeader = None THEN x
  ELSE IF Rejects(x) THEN InternalDeactivate(x) ELSE InternalSend(x, x.psSendHeader)

(* A pending DISC is never found here: Receive_CB has ended the link first. *)
HandlePendingSend(x) ==
  IF x.psSendHeader = None THEN x
  ELSE LET y == [x EXCEPT !.psSendHeader = None]
       IN IF Rejects(y) THEN InternalDeactivate(y) ELSE InternalSend(y, x.psSendHeader)

Slower(x) == [x EXCEPT !.nSymmetryCounter = IF @ < SLOW_SYMMETRY THEN @ + 1 ELSE @]

SendSymm(x) ==
  IF x.psSendHeader # None THEN HandlePendingSend(x) ELSE InternalSend(Slower(x), SYMM)

HandleIncomingPacket(x, frame, replies) ==
  CASE frame = SYMM -> Slower(x)
    [] frame = DISC -> InternalDeactivate(x)
    [] OTHER -> CallUpper([x EXCEPT !.nSymmetryCounter = 0, !.arrived = Append(@, frame)],
                          "received", replies)

Receive_CBMutant(x, ok, frame, replies) ==
  CASE ~ok \/ x.bDiscPendingFlag ->
         InternalDeactivate([x EXCEPT !.bDiscPendingFlag = FALSE])
    [] ok /\ ~x.bDiscPendingFlag /\ x.state = "RECV" ->
         LET y == HandleIncomingPacket([x EXCEPT !.state = "SEND"], frame, replies)
         IN MacReceive(IF y.psSendHeader # None THEN HandlePendingSend(y) ELSE y)
    [] OTHER -> MacReceive(x)

Receive_CB(x, ok, frame, replies) ==
  CASE ~ok \/ x.bDiscPendingFlag ->
         InternalDeactivate([x EXCEPT !.bDiscPendingFlag = FALSE])
    [] ok /\ ~x.bDiscPendingFlag /\ x.state = "RECV" ->
         LET y == HandleIncomingPacket([x EXCEPT !.state = "SEND"], frame, replies)
         IN MacReceive(CASE y.psSendHeader # None -> HandlePendingSend(y)
                         [] y.psSendHeader = None /\ y.state = "CHECKED" -> y
                         [] OTHER -> ResetLTO(y))
    [] OTHER -> MacReceive(x)

Send_CB(x, ok, replies) ==
  LET y == IF x.psSendHeader = None /\ x.pfSendCB
           THEN CallUpper([x EXCEPT !.pfSendCB = FALSE,
                                    !.told = IF ok THEN @ + 1 ELSE @,
                                    !.refused = IF ok THEN @ ELSE @ + 1], "sent", replies)
           ELSE x
  IN IF ok THEN y ELSE InternalDeactivate(y)

(* TriggerSendCb, TriggerRecvCb: the callback is forgotten, then called. *)
TriggerSendCb(x, ok, replies) ==
  IF x.MacSend_Cb THEN Send_CB([x EXCEPT !.MacSend_Cb = FALSE], ok, replies) ELSE x
TriggerRecvCb(x, ok, frame, replies) ==
  IF x.MacReceive_Cb THEN Receive_CB([x EXCEPT !.MacReceive_Cb = FALSE], ok, frame, replies)
  ELSE x

(***************************************************************************)
(* The messages of a device                                                *)
(***************************************************************************)
(* A step of device e that consumes what was on its way to it, or not *)
Step(e, x, consumes) ==
  /\ end' = [end EXCEPT ![e] = [x EXCEPT !.out = None]]
  /\ air' = [a \in Ends |->
       CASE a = Peer(e) /\ x.out # None -> x.out
         [] a = e /\ consumes -> None
         [] OTHER -> air[a]]

Fails(ok) == failures' = IF ok THEN failures ELSE failures + 1
MayFail(ok) == ok \/ failures < MaxFailures

(* The initiator has the answer to its frame.  A deferred callback that is *)
(* queued comes first: the queue is in order.                              *)
Transceive_Cb(ok, replies) ==
  LET x == end["Initiator"]
      y == [x EXCEPT !.sending = FALSE, !.receiving = FALSE, !.SendPending = FALSE,
                     !.RecvPending = FALSE]
  IN /\ x.receiving /\ x.deferred = 0 /\ MayFail(ok) /\ (ok => air["Initiator"] # None)
     /\ Step("Initiator", TriggerRecvCb(TriggerSendCb(y, ok, replies), ok, air["Initiator"],
                                        replies), ok)
     /\ Fails(ok)

Target_Send_Cb(ok, replies) ==
  LET x == end["Target"]
      y == [x EXCEPT !.sending = FALSE, !.SendPending = FALSE, !.RecvPending = FALSE]
  IN /\ x.sending /\ MayFail(ok)
     /\ Step("Target", TriggerSendCb(y, ok, replies), FALSE)
     /\ Fails(ok)

(* A frame that was held back until the receive is sent after its callback. *)
Target_Receive_Cb(ok, replies) ==
  LET x == end["Target"]
      y == TriggerRecvCb([x EXCEPT !.receiving = FALSE], ok, air["Target"], replies)
  IN /\ x.receiving /\ ~x.sending /\ x.deferred = 0 /\ MayFail(ok) /\ (ok => air["Target"] # None)
     /\ Step("Target", IF y.SendPending THEN MacSend(y) ELSE y, ok)
     /\ Fails(ok)

Timer_CBSend(e) ==
  LET x == end[e] IN
  /\ x.timer = "send"
  /\ Step(e, IF x.state = "SEND" THEN SendSymm([x EXCEPT !.timer = "off"])
             ELSE [x EXCEPT !.timer = "off"], FALSE)
  /\ UNCHANGED failures

DeferredSymm(e) ==
  LET x == [end[e] EXCEPT !.deferred = @ - 1] IN
  /\ end[e].deferred > 0
  /\ Step(e, IF x.state = "SEND" THEN SendSymm(x) ELSE x, FALSE)
  /\ UNCHANGED failures

(* Nothing can come for device e any more. *)
Silent(e) == air[e] = None /\ end[Peer(e)].state = "CHECKED"

(* The link timeout: when there is silence, or too early *)
Timer_CBRecv(e) ==
  /\ end[e].timer = "recv" /\ end[e].state = "RECV"
  /\ Silent(e) \/ failures < MaxFailures
  /\ Step(e, InternalDeactivate(end[e]), FALSE)
  /\ failures' = IF Silent(e) THEN failures ELSE failures + 1

UpperSends(e) ==
  /\ end[e].given < MaxFrames /\ ~end[e].pfSendCB /\ end[e].state # "CHECKED"
  /\ Step(e, Send(end[e]), FALSE)
  /\ UNCHANGED failures

(* phFriNfc_Llcp_Deactivate: a DISC now, or at the next receive the end without one *)
Deactivate(e) ==
  LET x == end[e] IN
  /\ x.state # "CHECKED" /\ failures < MaxFailures
  /\ Step(e, CASE x.state = "RECV" -> [x EXCEPT !.bDiscPendingFlag = TRUE]
               [] x.state # "RECV" /\ Rejects(x) -> InternalDeactivate(x)
               [] OTHER -> InternalSend(x, DISC), FALSE)
  /\ failures' = failures + 1

(* Both have been activated: the initiator has the turn. *)
Activated(e) ==
  LET x == [role |-> e, state |-> IF e = "Initiator" THEN "SEND" ELSE "RECV",
            pfSendCB |-> FALSE, psSendHeader |-> None, bDiscPendingFlag |-> FALSE,
            timer |-> "off", deferred |-> 0, nSymmetryCounter |-> 0, MacSend_Cb |-> FALSE,
            MacReceive_Cb |-> FALSE, SendPending |-> FALSE, RecvPending |-> FALSE,
            sTxBuffer |-> None, sending |-> FALSE, receiving |-> FALSE, out |-> None,
            given |-> 0, told |-> 0, refused |-> 0, arrived |-> <<>>, downs |-> 0]
  IN MacReceive(ResetLTO(x))

Init ==
  /\ end = [e \in Ends |-> Activated(e)]
  /\ air = [e \in Ends |-> None]
  /\ failures = 0

Receives(replies) == Transceive_Cb(TRUE, replies) \/ Target_Receive_Cb(TRUE, replies)
Loses(replies) ==
  Transceive_Cb(FALSE, replies) \/ Target_Receive_Cb(FALSE, replies)
  \/ Target_Send_Cb(FALSE, replies)
Timers(e) == Timer_CBSend(e) \/ DeferredSymm(e) \/ Timer_CBRecv(e)

Next ==
  \/ \E replies \in SUBSET Callbacks :
       Receives(replies) \/ Loses(replies) \/ Target_Send_Cb(TRUE, replies)
  \/ \E e \in Ends : Timers(e) \/ UpperSends(e) \/ Deactivate(e)

Spec == Init /\ [][Next]_vars

(* The radio works, queued callbacks run and timers end; a timeout only in silence. *)
Fairness ==
  /\ WF_vars(\E replies \in SUBSET Callbacks : Receives(replies))
  /\ WF_vars(\E replies \in SUBSET Callbacks : Target_Send_Cb(TRUE, replies))
  /\ \A e \in Ends : WF_vars(Timer_CBSend(e) \/ DeferredSymm(e))
                     /\ WF_vars(Silent(e) /\ Timer_CBRecv(e))
FairSpec == Spec /\ Fairness

(***************************************************************************)
(* Properties                                                              *)
(***************************************************************************)
(* Never do both devices believe that it is their turn, and while one has  *)
(* the turn nothing is on the air to it (the symmetry of LLCP).            *)
OneSender ==
  /\ ~(\A e \in Ends : end[e].state = "SEND")
  /\ \A e \in Ends : end[e].state = "SEND" => air[e] = None

(* Frames arrive in the order they were given, none twice and none left    *)
(* out; and when the initiator has been told of a success, the frame has   *)
(* arrived.                                                                *)
InOrder ==
  \A e \in Ends :
    LET arrived == end[Peer(e)].arrived IN
    /\ \A i \in 1..Len(arrived) : arrived[i] = i
    /\ Len(arrived) <= end[e].given
    /\ e = "Initiator" => end[e].told <= Len(arrived)

(* Every frame that the link accepts is called back, with a success or a   *)
(* failure.                                                                *)
Settled == \A e \in Ends : []<>(end[e].given = end[e].told + end[e].refused)
=============================================================================
