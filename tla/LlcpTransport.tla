--------------------------- MODULE LlcpTransport ---------------------------
(***************************************************************************)
(* The connection-oriented transport of LLCP (Fri/phFriNfc_LlcpTransport.c *)
(* and _Connection.c): sockets that share one link, with windows, sequence *)
(* numbers, and operations that wait in flags of the socket until the link *)
(* is free.  Everything runs on the message thread.  An operator named     *)
(* after a function takes the record of the transport and returns it.      *)
(*                                                                         *)
(* The link below takes one frame: it sends it at once when this device    *)
(* has the turn, and holds it, the header by reference, until the next     *)
(* frame has come when it has not.  Across the link are conforming peers,  *)
(* one for each connection.  Callers connect to socket 0, the registered   *)
(* listener; the application connects to the others by name.  `app` names  *)
(* what the application does inside its callbacks.  Working buffers have   *)
(* no linear part, as SNEP makes them, and the peers give no cause for a   *)
(* frame reject.                                                           *)
(***************************************************************************)
EXTENDS Integers, Sequences

CONSTANTS NB,         \* PHFRINFC_LLCP_NB_SOCKET_MAX
          Modulo,     \* of the sequence numbers, 16 in the code
          RW,         \* the receive window of both sides
          Peers, Callers,
          Crossing,   \* TRUE: a connection may begin while there is another
          MaxSends,   \* bound: messages of the application on one connection
          MaxFed      \* bound: messages of one peer

ASSUME TransportAssumption ==
  /\ {NB, Modulo, RW} \subseteq Nat \ {0} /\ {MaxSends, MaxFed} \subseteq Nat
  /\ Callers \subseteq Peers /\ Crossing \in BOOLEAN

VARIABLES t,      \* the transport and the link below it
          peer    \* the other side of each connection

vars == <<t, peer>>

None == "none"
Socks == 0..NB-1
Choices == {{}, {"recv"}, {"send"}, {"send", "recv"}, {"close"}, {"reject"}}
Kinds == {"CONNECT", "CC", "DISC", "DM", "I", "RR", "RNR"}
Names == Peers \cup {None}

(* co: eSocket_Type is connection-oriented *)
Socket == [co : BOOLEAN, eSocket_State : {"Default", "Listening", "Bound", "Connecting", "Accepted", "Rejected",
                            "Connected", "Disconnecting", "Created"},
           sSap : Socks, dSap : Names, hdr : [ptype : Kinds \cup {None}, dsap : Names, ssap : Socks],
           VS : 0..Modulo-1, VSA : 0..Modulo-1, VR : 0..Modulo-1, VRA : 0..Modulo-1,
           bSocketSendPending : BOOLEAN, pfSocketSend_Cb : BOOLEAN,
           bSocketRecvPending : BOOLEAN, bSocketRRPending : BOOLEAN,
           bSocketRNRPending : BOOLEAN, bSocketAcceptPending : BOOLEAN,
           bSocketConnectPending : BOOLEAN, bSocketDiscPending : BOOLEAN,
           ReceiverBusyCondition : BOOLEAN, pfSocketAccept_Cb : BOOLEAN,
           pfSocketConnect_Cb : BOOLEAN, pfSocketDisconnect_Cb : {None, "user", "close"},
           given : 0..MaxSends, arrived : 0..MaxFed, buffered : Seq(1..MaxFed)]

Fresh == [co |-> FALSE, eSocket_State |-> "Default", sSap |-> 0, dSap |-> None, hdr |-> [ptype |-> None, dsap |-> None, ssap |-> 0],
          VS |-> 0, VSA |-> 0, VR |-> 0, VRA |-> 0, bSocketSendPending |-> FALSE,
          pfSocketSend_Cb |-> FALSE, bSocketRecvPending |-> FALSE, bSocketRRPending |-> FALSE,
          bSocketRNRPending |-> FALSE, bSocketAcceptPending |-> FALSE,
          bSocketConnectPending |-> FALSE, bSocketDiscPending |-> FALSE,
          ReceiverBusyCondition |-> FALSE, pfSocketAccept_Cb |-> FALSE,
          pfSocketConnect_Cb |-> FALSE, pfSocketDisconnect_Cb |-> None,
          given |-> 0, arrived |-> 0, buffered |-> <<>>]

Peer == [st : {"idle", "calling", "called", "open", "closing", "gone"}, sap : Socks,
         fed : 0..MaxFed, acked : 0..MaxFed, got : 0..MaxSends, confirmed : 0..MaxSends,
         stopped : BOOLEAN, gap : BOOLEAN]

TypeOK ==
  /\ DOMAIN t.sock = Socks /\ \A s \in Socks : t.sock[s] \in Socket
  /\ t.bSendPending \in BOOLEAN /\ t.bDmPending \in Names /\ t.socketIndex \in Socks
  /\ t.pfLinkSendCb \in BOOLEAN /\ t.turn \in BOOLEAN /\ t.up \in BOOLEAN
  /\ t.pfSendCB \in BOOLEAN
  /\ peer \in [Peers -> Peer]

Next16(n) == (n + 1) % Modulo
Free(x) == {s \in Socks : x.sock[s].eSocket_State = "Default"}
NoFrame == [kind |-> None, s |-> NB, peer |-> None, sap |-> 0, ns |-> 0, nr |-> 0, n |-> 0]
First(S) == CHOOSE s \in S : \A u \in S : s <= u

(***************************************************************************)
(* The link                                                                *)
(***************************************************************************)
(* What is on the air is the frame with the header as it is at that time. *)
Transmit(x) ==
  LET f == x.held
  IN [x EXCEPT !.held = NoFrame, !.turn = FALSE,
        !.out = Append(@, IF f.s = NB THEN f
                          ELSE LET h == x.sock[f.s].hdr
                               IN [f EXCEPT !.kind = h.ptype, !.peer = h.dsap, !.sap = h.ssap])]

Llcp_Send(x, frame) ==
  CASE x.pfSendCB \/ ~x.up -> x
    [] ~x.pfSendCB /\ x.up /\ x.turn -> Transmit([x EXCEPT !.pfSendCB = TRUE, !.held = frame])
    [] OTHER -> [x EXCEPT !.pfSendCB = TRUE, !.held = frame]

(* The callback of a frame that the link refuses is forgotten. *)
LinkSend(x, frame) ==
  IF x.pfLinkSendCb \/ x.pfSendCB \/ ~x.up THEN x
  ELSE Llcp_Send([x EXCEPT !.pfLinkSendCb = TRUE], frame)

Frame(kind, x, s) == [kind |-> kind, s |-> s, peer |-> x.sock[s].dSap, sap |-> x.sock[s].sSap,
                      ns |-> x.sock[s].VS, nr |-> x.sock[s].VR, n |-> x.sock[s].given]

(* The header is filled in, the link is taken for it, and the socket noted. *)
Header(x, s, kind) ==
  [x EXCEPT !.sock[s].hdr = [ptype |-> kind, dsap |-> x.sock[s].dSap, ssap |-> x.sock[s].sSap]]
SendFrame(x, s, kind) ==
  LinkSend([Header(x, s, kind) EXCEPT !.bSendPending = TRUE], Frame(kind, x, s))
SendNoted(x, s, kind) == SendFrame([x EXCEPT !.socketIndex = s], s, kind)

SendDisconnectMode(x, p) ==
  IF x.bSendPending THEN [x EXCEPT !.bDmPending = p]
  ELSE Llcp_Send([x EXCEPT !.bSendPending = TRUE],
                 [NoFrame EXCEPT !.kind = "DM", !.peer = p])

(***************************************************************************)
(* Sending on a socket                                                     *)
(***************************************************************************)
ABS_SUB(a, b) == IF a > b THEN a - b ELSE b - a
CHECK_SEND_RWMutant(k) == ABS_SUB(k.VS, k.VSA) % Modulo <= RW
CHECK_SEND_RW(k) == ABS_SUB(k.VS, k.VSA) % Modulo < RW

performSendInfo(x, s) ==
  LET k == x.sock[s]
      y == [x EXCEPT !.sock[s].bSocketSendPending = FALSE,
                     !.sock[s].bSocketRRPending = @ /\ k.ReceiverBusyCondition,
                     !.sock[s].VRA = k.VR]
  IN [SendNoted(y, s, "I") EXCEPT !.sock[s].VS = Next16(@)]

Send_ReceiveReady(x, s) ==
  LET k == x.sock[s] IN
  CASE k.VRA = k.VR -> x
    [] k.VRA # k.VR /\ x.bSendPending -> [x EXCEPT !.sock[s].bSocketRRPending = TRUE]
    [] OTHER -> SendNoted([x EXCEPT !.sock[s].VRA = k.VR], s, "RR")

Send_ReceiveNotReady(x, s) ==
  IF x.bSendPending THEN [x EXCEPT !.sock[s].bSocketRNRPending = TRUE]
  ELSE SendNoted([x EXCEPT !.sock[s].VRA = x.sock[s].VR], s, "RNR")

Send(x, s) ==
  LET k == x.sock[s]
      y == [x EXCEPT !.sock[s].pfSocketSend_Cb = TRUE, !.sock[s].given = @ + 1]
  IN CASE k.eSocket_State # "Connected" \/ k.pfSocketSend_Cb \/ k.given = MaxSends -> x
       [] OTHER -> IF ~CHECK_SEND_RW(k) \/ x.bSendPending
                   THEN [y EXCEPT !.sock[s].bSocketSendPending = TRUE]
                   ELSE performSendInfo(y, s)

(***************************************************************************)
(* Receiving, closing, and the callbacks of the application                *)
(***************************************************************************)
TriggerSendCb(x, s, app) ==
  LET y == [x EXCEPT !.sock[s].pfSocketSend_Cb = FALSE]
  IN IF x.sock[s].pfSocketSend_Cb /\ "send" \in app THEN Send(y, s) ELSE y

Arrives(x, s, n) == [x EXCEPT !.sock[s].arrived = n,
                              !.wrong = @ \/ n # x.sock[s].arrived + 1]

Recv(x, s, app) ==
  LET k == x.sock[s]
      y == Arrives([x EXCEPT !.sock[s].buffered = Tail(@), !.sock[s].VR = Next16(@)],
                   s, Head(k.buffered))
      z == IF "send" \in app THEN Send(y, s) ELSE y
  IN CASE k.eSocket_State # "Connected" \/ k.bSocketRecvPending -> x
       [] k.eSocket_State = "Connected" /\ ~k.bSocketRecvPending /\ k.buffered = <<>> ->
            [x EXCEPT !.sock[s].bSocketRecvPending = TRUE]
       [] OTHER -> IF k.ReceiverBusyCondition
                   THEN Send_ReceiveReady([z EXCEPT !.sock[s].ReceiverBusyCondition = FALSE], s)
                   ELSE z

(* A callback in which the application goes on *)
CallApp(x, s, app) ==
  LET y == IF "recv" \in app THEN Recv(x, s, {}) ELSE x
  IN IF "send" \in app THEN Send(y, s) ELSE y

TriggerRecvCb(x, s, n, app) ==
  CallApp(Arrives([x EXCEPT !.sock[s].bSocketRecvPending = FALSE], s, n), s, app)

Disconnect(x, s, callback) ==
  LET k == x.sock[s]
      waits == k.bSocketSendPending \/ k.bSocketRecvPending
      y == [x EXCEPT !.sock[s].eSocket_State = "Disconnecting",
                     !.sock[s].pfSocketDisconnect_Cb = callback,
                     !.sock[s].bSocketSendPending = FALSE, !.sock[s].bSocketRecvPending = FALSE,
                     !.sock[s].pfSocketSend_Cb = @ /\ ~waits]
  IN IF x.bSendPending
     THEN [Header(y, s, "DISC") EXCEPT !.sock[s].bSocketDiscPending = TRUE]
     ELSE SendNoted(y, s, "DISC")

(* Back to default; the callbacks that wait are called with ABORTED.  The *)
(* header and the flags of an answer, an accept or a connection that wait *)
(* stay as they are.                                                      *)
FreeSocket(x, s) ==
  LET k == x.sock[s]
  IN [x EXCEPT !.sock[s] =
        [Fresh EXCEPT !.hdr = k.hdr, !.bSocketRRPending = k.bSocketRRPending,
                      !.bSocketRNRPending = k.bSocketRNRPending,
                      !.bSocketAcceptPending = k.bSocketAcceptPending,
                      !.bSocketConnectPending = k.bSocketConnectPending]]

Close(x, s) ==
  IF x.sock[s].eSocket_State = "Connected" THEN Disconnect(x, s, "close") ELSE FreeSocket(x, s)

DisconnectClose_CB(x, s) ==
  [FreeSocket(x, s) EXCEPT
     !.sock[s].ReceiverBusyCondition = x.sock[s].ReceiverBusyCondition]

pSocketErrCb(x, s, app) == IF "close" \in app THEN Close(x, s) ELSE x

SendLlcp_CB(x, ok, app) ==
  LET s == x.socketIndex
      k == x.sock[s]
      y == [x EXCEPT !.sock[s].eSocket_State = "Connected"]
  IN CASE ok /\ k.eSocket_State = "Accepted" ->
            [CallApp(y, s, app) EXCEPT !.sock[s].pfSocketAccept_Cb = FALSE]
       [] ok /\ k.eSocket_State = "Rejected" -> Close(x, s)
       [] (ok => k.eSocket_State = "Connected") /\ ~k.bSocketSendPending ->
            TriggerSendCb(x, s, app)
       [] OTHER -> x

(* What a socket has waited to do, if anything *)
Acts(x, s) ==
  LET k == x.sock[s]
  IN /\ k.co
     /\ IF k.bSocketSendPending THEN CHECK_SEND_RW(k)
        ELSE \/ k.bSocketRRPending \/ k.bSocketRNRPending \/ k.bSocketAcceptPending
             \/ k.bSocketConnectPending \/ k.bSocketDiscPending

HandlePendingOperations(x, s, app) ==
  LET k == x.sock[s] IN
  CASE k.bSocketSendPending -> performSendInfo(x, s)
    [] ~k.bSocketSendPending /\ k.bSocketRRPending ->
         Send_ReceiveReady([x EXCEPT !.sock[s].bSocketRRPending = FALSE], s)
    [] ~k.bSocketSendPending /\ ~k.bSocketRRPending /\ k.bSocketRNRPending ->
         Send_ReceiveNotReady([x EXCEPT !.sock[s].bSocketRNRPending = FALSE], s)
    [] OTHER ->
         CASE k.bSocketAcceptPending ->
                SendFrame([x EXCEPT !.sock[s].bSocketAcceptPending = FALSE,
                                    !.sock[s].eSocket_State = "Accepted"], s, "CC")
           [] ~k.bSocketAcceptPending /\ k.bSocketConnectPending ->
                SendFrame([x EXCEPT !.sock[s].bSocketConnectPending = FALSE,
                                    !.sock[s].eSocket_State = "Connecting"], s, "CONNECT")
           [] OTHER ->
                pSocketErrCb(SendFrame([x EXCEPT !.sock[s].bSocketDiscPending = FALSE,
                                          !.sock[s].eSocket_State = "Disconnecting"], s, "DISC"),
                             s, app)

(* From the socket after the noted one, the first that has something to do; *)
(* after a disconnect mode frame there is no search when that socket is not *)
(* in use.                                                                  *)
HandleAllMutant(x, sentDm, app) ==
  LET at(i) == (x.socketIndex + i) % NB
      ready == {i \in 1..NB-1 : Acts(x, at(i))}
  IN IF ready = {} \/ (sentDm /\ ~x.sock[at(1)].co) THEN x
     ELSE HandlePendingOperations(x, at(First(ready)), app)

HandleAll(x, sentDm, app) ==
  LET at(i) == (x.socketIndex + i) % NB
      ready == {i \in 1..NB : Acts(x, at(i))}
  IN IF ready = {} \/ (sentDm /\ ~x.sock[at(1)].co) THEN x
     ELSE HandlePendingOperations(x, at(First(ready)), app)

Send_CB(x, ok, app) ==
  LET sentDm == x.bDmPending # None
      y == [x EXCEPT !.bSendPending = FALSE, !.bDmPending = None, !.pfSendCB = FALSE]
      z == IF sentDm THEN SendDisconnectMode(y, x.bDmPending) ELSE y
  IN HandleAll(IF z.pfLinkSendCb THEN SendLlcp_CB([z EXCEPT !.pfLinkSendCb = FALSE], ok, app)
               ELSE z, sentDm, app)

(***************************************************************************)
(* Frames of the peers                                                     *)
(***************************************************************************)
Handle_Connection(x, p, app) ==
  LET s == First(Free(x))
      y == [x EXCEPT !.socketIndex = s,
              !.sock[s] = [@ EXCEPT !.co = TRUE, !.eSocket_State = "Bound", !.dSap = p, !.sSap = 0]]
  IN CASE Free(x) = {} -> SendDisconnectMode(x, p)
       [] Free(x) # {} /\ "reject" \in app ->
            SendDisconnectMode([y EXCEPT !.sock[s].eSocket_State = "Rejected",
                                         !.sock[s].pfSocketSend_Cb = TRUE], p)
       [] OTHER ->
            LET z == [y EXCEPT !.sock[s].pfSocketAccept_Cb = TRUE]
            IN IF x.bSendPending THEN [z EXCEPT !.sock[s].bSocketAcceptPending = TRUE]
               ELSE SendNoted([z EXCEPT !.sock[s].eSocket_State = "Accepted"], s, "CC")

Handle_ConnectionComplete(x, f, app) ==
  LET S == {s \in Socks : x.sock[s].eSocket_State = "Connecting" /\ x.sock[s].sSap = f.sap}
      s == First(S)
      y == CallApp([x EXCEPT !.sock[s].eSocket_State = "Connected", !.sock[s].dSap = f.peer],
                   s, app)
  IN IF S = {} THEN x ELSE [y EXCEPT !.sock[s].pfSocketConnect_Cb = FALSE]

Handle_Disconnect(x, f, app) ==
  LET S == {s \in Socks : x.sock[s].eSocket_State = "Connected" /\ x.sock[s].sSap = f.sap}
      s == First(S)
      k == x.sock[s]
      y == [x EXCEPT !.sock[s].eSocket_State = "Disconnecting",
              !.sock[s].pfSocketSend_Cb = @ /\ ~k.bSocketSendPending,
              !.sock[s].bSocketSendPending = FALSE, !.sock[s].bSocketRecvPending = FALSE]
  IN IF S = {} THEN x ELSE pSocketErrCb(SendDisconnectMode(y, f.peer), s, app)

Handle_DisconnetMode(x, f, app) ==
  LET S == {s \in Socks : x.sock[s].eSocket_State \in {"Disconnecting", "Connecting"}
                          /\ x.sock[s].sSap = f.sap}
      s == First(S)
      k == x.sock[s]
      connecting == k.eSocket_State = "Connecting" /\ k.pfSocketConnect_Cb
      closing == ~connecting /\ k.pfSocketDisconnect_Cb = "close"
      y == CASE connecting -> [x EXCEPT !.sock[s].pfSocketConnect_Cb = FALSE]
             [] closing -> DisconnectClose_CB(x, s)
             [] OTHER -> [x EXCEPT !.sock[s].pfSocketDisconnect_Cb = None]
      z == [y EXCEPT !.sock[s].eSocket_State = "Created"]
  IN CASE S = {} -> x
       [] S # {} /\ closing -> z
       [] OTHER -> pSocketErrCb(z, s, app)

OutOfWindow(f, k) == (f.ns - k.VRA) % Modulo >= RW

Handle_Receive_IFrame(x, f, app) ==
  LET S == {s \in Socks : /\ x.sock[s].eSocket_State \in {"Connected", "Accepted"}
                          /\ x.sock[s].sSap = f.sap /\ x.sock[s].dSap = f.peer}
      s == First(S)
      y == [x EXCEPT !.sock[s].VSA = f.nr]
      z == TriggerRecvCb([y EXCEPT !.sock[s].VR = Next16(@)], s, f.n, app)
      b == [y EXCEPT !.sock[s].ReceiverBusyCondition = TRUE]
  IN CASE S = {} -> x
       [] S # {} /\ OutOfWindow(f, x.sock[s]) -> [x EXCEPT !.wrong = TRUE]
       [] OTHER ->
            CASE y.sock[s].bSocketRecvPending /\ y.sock[s].buffered = <<>> ->
                   IF z.sock[s].bSocketSendPending /\ CHECK_SEND_RW(z.sock[s])
                   THEN IF z.bSendPending THEN z ELSE performSendInfo(z, s)
                   ELSE Send_ReceiveReady(z, s)
              [] Len(y.sock[s].buffered) >= RW -> [y EXCEPT !.wrong = TRUE]
              [] OTHER ->
                   [(IF y.sock[s].ReceiverBusyCondition THEN y ELSE Send_ReceiveNotReady(b, s))
                      EXCEPT !.sock[s].buffered = Append(@, f.n)]

(* A receive ready frame, or a receive not ready one *)
Handle_ReceiveReady(x, f) ==
  LET S == {s \in Socks : /\ x.sock[s].eSocket_State = "Connected"
                          /\ x.sock[s].sSap = f.sap /\ x.sock[s].dSap = f.peer}
      s == First(S)
      y == [x EXCEPT !.sock[s].VSA = f.nr]
  IN IF S = {} THEN x
     ELSE IF y.sock[s].bSocketSendPending /\ CHECK_SEND_RW(y.sock[s]) /\ ~y.bSendPending
          THEN performSendInfo(y, s) ELSE y

IncommingFrame(x, f, app) ==
  CASE f.kind = "CONNECT" -> Handle_Connection(x, f.peer, app)
    [] f.kind = "CC" -> Handle_ConnectionComplete(x, f, app)
    [] f.kind = "DISC" -> Handle_Disconnect(x, f, app)
    [] f.kind = "DM" -> Handle_DisconnetMode(x, f, app)
    [] f.kind = "I" -> Handle_Receive_IFrame(x, f, app)
    [] f.kind \in {"RR", "RNR"} -> Handle_ReceiveReady(x, f)
    [] OTHER -> x

(***************************************************************************)
(* The peers: conforming, each with one connection in its life             *)
(***************************************************************************)
NewPeer == [st |-> "idle", sap |-> 0, fed |-> 0, acked |-> 0, got |-> 0, confirmed |-> 0,
            stopped |-> FALSE, gap |-> FALSE]
Gone(r) == [NewPeer EXCEPT !.st = "gone", !.gap = r.gap]

(* Peer r hears frame f. *)
Acked(r, nr) == {a \in r.acked..r.fed : a % Modulo = nr}
Hears(r, f) ==
  CASE f.kind = "CONNECT" /\ r.st = "idle" -> [r EXCEPT !.st = "called", !.sap = f.sap]
    [] f.kind = "CC" /\ r.st = "calling" -> [r EXCEPT !.st = "open"]
    [] f.kind = "DM" -> Gone(r)
    [] f.kind = "DISC" /\ r.st = "open" -> [r EXCEPT !.st = "closing"]
    [] f.kind \in {"I", "RR", "RNR"} /\ r.st = "open" ->
         LET a == Acked(r, f.nr)
             good == a # {} /\ (f.kind = "I" => /\ f.ns = r.got % Modulo /\ f.n = r.got + 1
                                                  /\ r.got - r.confirmed < RW)
         IN IF ~good THEN [r EXCEPT !.gap = TRUE]
            ELSE [r EXCEPT !.acked = CHOOSE v \in a : TRUE,
                           !.got = IF f.kind = "I" THEN @ + 1 ELSE @,
                           !.stopped = IF f.kind = "I" THEN @ ELSE f.kind = "RNR"]
    [] OTHER -> r

MayBegin(p) ==
  Crossing \/ \A o \in Peers \ {p} : peer[o].st \in {"idle", "gone"}

(* The frames that peer p may send, with what it becomes *)
Says(p) ==
  LET r == peer[p]
      f(kind) == [NoFrame EXCEPT !.kind = kind, !.peer = p, !.sap = r.sap,
                    !.ns = r.fed % Modulo, !.nr = r.got % Modulo, !.n = r.fed + 1]
      told == [r EXCEPT !.confirmed = r.got]
  IN CASE r.st = "idle" /\ p \in Callers /\ MayBegin(p) ->
            {[frame |-> f("CONNECT"), then |-> [r EXCEPT !.st = "calling"]]}
       [] r.st = "called" -> {[frame |-> f("CC"), then |-> [r EXCEPT !.st = "open"]],
                              [frame |-> f("DM"), then |-> Gone(r)]}
       [] r.st = "closing" -> {[frame |-> f("DM"), then |-> Gone(r)]}
       [] r.st = "open" ->
            {[frame |-> f("RR"), then |-> told], [frame |-> f("DISC"), then |-> Gone(r)]}
            \cup (IF r.fed < MaxFed /\ r.fed - r.acked < RW /\ ~r.stopped
                  THEN {[frame |-> f("I"), then |-> [told EXCEPT !.fed = @ + 1]]} ELSE {})
       [] OTHER -> {}

(***************************************************************************)
(* The messages of this device                                             *)
(***************************************************************************)
Start == [sock |-> [s \in Socks |-> IF s = 0 THEN [Fresh EXCEPT !.co = TRUE, !.eSocket_State = "Listening"]
                                    ELSE Fresh],
          bSendPending |-> FALSE, bDmPending |-> None, socketIndex |-> 0, pfLinkSendCb |-> FALSE,
          pfSendCB |-> FALSE, held |-> NoFrame, turn |-> FALSE, up |-> TRUE, wrong |-> FALSE,
          out |-> <<>>]
Heard(q, out) == IF out = <<>> THEN q
                 ELSE [q EXCEPT ![out[1].peer] = Hears(@, out[1])]

(* A step to x, with the peers at q: what was sent is heard. *)
Step(x, q) ==
  /\ t' = [x EXCEPT !.out = <<>>]
  /\ peer' = Heard(q, x.out)

(* The link has sent its frame, and calls back. *)
Sent == t.pfSendCB /\ t.held.kind = None
LinkSent(app) == Sent /\ Step(Send_CB(t, TRUE, app), peer)

(* A frame of peer p comes, or a symmetry frame: this device has the turn, *)
(* and a frame that was held goes out.                                     *)
TurnTo(x, q) ==
  Step(IF x.held.kind # None THEN Transmit(x) ELSE x, q)

Incoming(p, app) ==
  /\ t.up /\ ~t.turn /\ ~Sent
  /\ \E say \in Says(p) :
       TurnTo(IncommingFrame([t EXCEPT !.turn = TRUE], say.frame, app),
              [peer EXCEPT ![p] = say.then])

IncomingSymm == t.up /\ ~t.turn /\ ~Sent /\ TurnTo([t EXCEPT !.turn = TRUE], peer)

OwnSymm == t.turn /\ t' = [t EXCEPT !.turn = FALSE] /\ UNCHANGED peer

(* The socket is made, and connects to the service of peer p. *)
ConnectByUri(p) ==
  /\ t.up /\ p \notin Callers /\ peer[p].st = "idle" /\ MayBegin(p) /\ Free(t) # {}
  /\ \A s \in Socks : t.sock[s].hdr.dsap # p
  /\ LET s == First(Free(t))
         x == Header([t EXCEPT !.sock[s] = [@ EXCEPT !.co = TRUE, !.eSocket_State = "Bound",
                                !.sSap = s, !.dSap = p, !.pfSocketConnect_Cb = TRUE]],
                     s, "CONNECT")
     IN Step(IF x.bSendPending THEN [x EXCEPT !.sock[s].bSocketConnectPending = TRUE]
             ELSE SendNoted([x EXCEPT !.sock[s].eSocket_State = "Connecting"], s, "CONNECT"),
             peer)

AppSends(s) == t.up /\ Send(t, s) # t /\ Step(Send(t, s), peer)
AppReceives(s, app) == t.up /\ Recv(t, s, app) # t /\ Step(Recv(t, s, app), peer)
AppDisconnects(s) ==
  /\ t.up /\ t.sock[s].eSocket_State = "Connected"
  /\ Step(Disconnect(t, s, "user"), peer)
AppCloses(s) ==
  /\ t.up /\ t.sock[s].eSocket_State \in {"Connected", "Disconnecting", "Created"}
  /\ t.sock[s].co /\ Step(Close(t, s), peer)

(* The link calls back with a failure, then all the sockets that have a    *)
(* connection are closed.  The next activation resets the transport: Init. *)
CloseAll(x) ==
  LET closed == {s \in Socks : x.sock[s].co /\ x.sock[s].eSocket_State \in
                   {"Connected", "Connecting", "Accepted", "Disconnecting", "Rejected"}}
  IN [x EXCEPT !.sock = [s \in Socks |-> IF s \in closed THEN Close(x, s).sock[s] ELSE x.sock[s]],
               !.bSendPending = FALSE, !.bDmPending = None, !.pfLinkSendCb = FALSE]

LinkLost(app) ==
  LET x == [t EXCEPT !.up = FALSE, !.turn = FALSE, !.held = NoFrame]
  IN t.up /\ Step(CloseAll(IF t.pfSendCB THEN Send_CB(x, FALSE, app) ELSE x), peer)

Init == t = Start /\ peer = [p \in Peers |-> NewPeer]

Next ==
  \/ \E app \in Choices :
       \/ LinkSent(app) \/ LinkLost(app) \/ \E p \in Peers : Incoming(p, app)
       \/ \E s \in Socks : AppReceives(s, app)
  \/ IncomingSymm \/ OwnSymm
  \/ \E p \in Peers : ConnectByUri(p)
  \/ \E s \in Socks : AppSends(s) \/ AppDisconnects(s) \/ AppCloses(s)

Spec == Init /\ [][Next]_vars

(***************************************************************************)
(* Properties                                                              *)
(***************************************************************************)
(* Both ways the messages of a connection arrive in order, none twice and  *)
(* none left out; no frame is outside a window or finds the buffers full.  *)
InOrder == ~t.wrong /\ \A p \in Peers : ~peer[p].gap

(* While a send waits for its callback, its frame is on the link, under    *)
(* its own socket, or it waits for the link, for a full window, or for the *)
(* application to receive what has come: nothing else is needed.           *)
NoneStranded ==
  \A s \in Socks :
    LET k == t.sock[s]
    IN k.eSocket_State = "Connected" /\ k.pfSocketSend_Cb =>
         IF k.bSocketSendPending THEN t.bSendPending \/ ~CHECK_SEND_RW(k) \/ k.buffered # <<>>
         ELSE t.pfLinkSendCb /\ t.socketIndex = s
=============================================================================
