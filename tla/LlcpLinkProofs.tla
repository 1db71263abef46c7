--------------------------- MODULE LlcpLinkProofs ---------------------------
(***************************************************************************)
(* Proofs about the LLCP link: the turn to send alternates, and frames     *)
(* arrive in order, for any number of frames, radio failures and early     *)
(* timeouts, under LinkAssumption alone.                                   *)
(*                                                                         *)
(* The inductive invariant is IInv. Shapes says that between two messages  *)
(* a device is in one of three shapes: its link is down, it has the turn,  *)
(* or it waits for a frame (Down, Turn, Waits); each fixes what the MAC    *)
(* has been asked for, so that no step finds a MAC that refuses it. Turns  *)
(* relates the states of both devices to the frames on the air. Follows    *)
(* says what the peer has of the frames of a device: all that were handed  *)
(* to its MAC, but for the one on its way; and that what reaches the       *)
(* initiator was sent after its own frame had arrived, which makes the     *)
(* success it is told of true.                                             *)
(*                                                                         *)
(* The functions of the source are followed from the bottom up, first the  *)
(* fields that an operator sets (the lemmas named ...Record), then the     *)
(* operators by what they leave of the shapes: InternalSendFrame,          *)
(* MacReceives, SendFrame, FrameTold, SendCallback, Incoming, TurnBegins,  *)
(* ReceiveCallback. Every message of a device then has an Outcome, in      *)
(* which a frame leaves only from a device that has the turn or has been   *)
(* given it by the frame consumed; StepKeeps shows that an Outcome of one  *)
(* device keeps the relations between the two.                             *)
(***************************************************************************)
EXTENDS LlcpLink, TLAPS

Opt == Frames \cup {None}
Counts == 0 .. MaxFrames

States == {"RECV", "SEND", "CHECKED"}
TimerStates == {"off", "recv", "send"}
Bit == 0..1
Symmetries == 0 .. SLOW_SYMMETRY
Arrivals == Seq(1..MaxFrames)

(* A device in the middle of a step: a frame may be on its way out. *)
Device ==
  [role : Ends, state : States, pfSendCB : BOOLEAN, psSendHeader : Opt,
   bDiscPendingFlag : BOOLEAN, timer : TimerStates, deferred : Bit,
   nSymmetryCounter : Symmetries, MacSend_Cb : BOOLEAN, MacReceive_Cb : BOOLEAN,
   SendPending : BOOLEAN, RecvPending : BOOLEAN, sTxBuffer : Opt, sending : BOOLEAN,
   receiving : BOOLEAN, out : Opt, given : Counts, told : Nat, refused : Nat,
   arrived : Arrivals, downs : Bit]

LEMMA Values ==
  /\ SYMM \in Frames /\ DISC \in Frames /\ None \notin Frames /\ Frames \subseteq Opt /\ None \in Opt
  /\ SYMM # DISC /\ 1..MaxFrames \subseteq Frames
  /\ \A f \in Opt : f \in Int
  /\ \A f \in Frames : f > 0 <=> f \in 1..MaxFrames
  /\ \A f \in Frames : f \notin {SYMM, DISC} => f \in 1..MaxFrames
  BY LinkAssumption DEF Opt, Frames, SYMM, DISC, None

LEMMA Constants ==
  /\ "RECV" \in States /\ "SEND" \in States /\ "CHECKED" \in States
  /\ "off" \in TimerStates /\ "recv" \in TimerStates /\ "send" \in TimerStates
  /\ 0 \in Bit /\ 1 \in Bit /\ 0 \in Symmetries
  /\ "Initiator" \in Ends /\ "Target" \in Ends
  /\ \A e \in Ends : e = "Initiator" \/ e = "Target"
  /\ \A s \in States : s = "RECV" \/ s = "SEND" \/ s = "CHECKED"
  BY LinkAssumption DEF States, TimerStates, Bit, Symmetries, Ends

Waiting(x) == IF x.pfSendCB THEN 1 ELSE 0

(* What the layer above is owed; a header that waits is that of the last frame. *)
Owed(x) ==
  /\ x.given = x.told + x.refused + Waiting(x)
  /\ x.psSendHeader # None => x.pfSendCB /\ x.psSendHeader = x.given
Counted(x) == Owed(x) /\ (x.state # "CHECKED" => x.refused = 0 /\ x.downs = 0)

Down(x) ==
  /\ x.state = "CHECKED" /\ x.psSendHeader = None /\ ~x.pfSendCB
  /\ ~x.MacSend_Cb /\ ~x.SendPending /\ x.out = None

(* The device has the turn. *)
Turn(x) ==
  /\ x.state = "SEND" /\ x.psSendHeader = None /\ ~x.pfSendCB
  /\ ~x.MacSend_Cb /\ x.MacReceive_Cb /\ ~x.SendPending /\ x.RecvPending
  /\ ~x.sending /\ (x.receiving <=> x.role = "Target")

(* The device waits for a frame. *)
Waits(x) ==
  /\ x.state = "RECV" /\ x.MacReceive_Cb /\ x.receiving
  /\ x.role = "Initiator" => x.MacSend_Cb /\ x.SendPending /\ x.RecvPending /\ x.sending
  /\ x.role = "Target" =>
       /\ x.MacSend_Cb <=> x.sending
       /\ x.sending => x.RecvPending
       /\ x.SendPending => x.sending
  /\ x.pfSendCB => x.MacSend_Cb \/ x.psSendHeader # None

Good(x) == x \in Device /\ Counted(x) /\ (Down(x) \/ Turn(x) \/ Waits(x))

Alive(x) == x.state # "CHECKED"
(* How many frames the device has handed to its MAC *)
Sent(x) == x.given - (IF x.psSendHeader = None THEN 0 ELSE 1)
Numbered(f) == f \in 1..MaxFrames

Shapes ==
  /\ end \in [Ends -> Device]
  /\ \A e \in Ends : end[e].role = e /\ end[e].out = None /\ Good(end[e])

(* One device has the turn, or a frame is on its way to one. *)
Alternate(x, y, toX, toY) ==
  /\ x.state = "SEND" => toX = None
  /\ Alive(x) /\ Alive(y) =>
       /\ x.state = "SEND" => y.state = "RECV" /\ toY = None
       /\ toX # None => toY = None
Turns == \A e \in Ends : Alternate(end[e], end[Peer(e)], air[e], air[Peer(e)])

(* y has what x has sent, but for the frame on its way; and what is on its *)
(* way to the initiator has been sent after its own frame has arrived.     *)
Ahead(x, y, toX, toY) ==
  LET n == Len(y.arrived)
  IN /\ \A i \in 1..n : y.arrived[i] = i
     /\ n <= x.given
     /\ Alive(y) /\ Numbered(toY) => toY = n + 1 /\ toY <= x.given
     /\ Alive(x) /\ Alive(y) => Sent(x) = IF Numbered(toY) THEN n + 1 ELSE n
     /\ x.role = "Initiator" => x.told <= n
     /\ x.role = "Initiator" /\ Alive(x) /\ toX # None => Sent(x) <= n
Follows(e) == Ahead(end[e], end[Peer(e)], air[e], air[Peer(e)])

AirType == air \in [Ends -> Opt] /\ failures \in 0..MaxFailures

(* The inductive invariant *)
IInv == AirType /\ Shapes /\ Turns /\ \A e \in Ends : Follows(e)
-----------------------------------------------------------------------------
(* The operators of the link, from the bottom up *)

(* The fields that an operator leaves alone, in groups *)
SameCounts(x, y) ==
  /\ y.role = x.role /\ y.arrived = x.arrived /\ y.given = x.given /\ y.told = x.told
  /\ y.deferred = x.deferred
SameLink(x, y) ==
  /\ y.state = x.state /\ (y.pfSendCB <=> x.pfSendCB) /\ y.psSendHeader = x.psSendHeader
  /\ y.refused = x.refused /\ y.downs = x.downs
SameRadio(x, y) ==
  /\ (y.MacReceive_Cb <=> x.MacReceive_Cb)
  /\ (y.SendPending <=> x.SendPending) /\ (y.RecvPending <=> x.RecvPending)
  /\ (y.sending <=> x.sending) /\ (y.receiving <=> x.receiving)
  /\ y.sTxBuffer = x.sTxBuffer /\ y.out = x.out
SameMac(x, y) == SameRadio(x, y) /\ (y.MacSend_Cb <=> x.MacSend_Cb)

LEMMA Fields ==
  ASSUME NEW x \in Device
  PROVE  /\ x.role \in Ends /\ x.state \in States /\ x.psSendHeader \in Opt /\ x.given \in Counts
         /\ x.told \in Nat /\ x.refused \in Nat /\ x.arrived \in Arrivals /\ x.downs \in Bit
         /\ x.deferred \in Bit /\ x.out \in Opt /\ x.sTxBuffer \in Opt
         /\ x.role = "Initiator" \/ x.role = "Target"
         /\ x.state = "RECV" \/ x.state = "SEND" \/ x.state = "CHECKED"
  BY Constants DEF Device

Ended(x, disc, refused, downs) ==
  [x EXCEPT !.state = "CHECKED", !.timer = "off", !.psSendHeader = None,
            !.pfSendCB = FALSE, !.refused = refused, !.downs = downs,
            !.MacSend_Cb = FALSE, !.MacReceive_Cb = FALSE,
            !.SendPending = FALSE, !.RecvPending = FALSE, !.bDiscPendingFlag = disc]

LEMMA EndedRecord ==
  ASSUME NEW x \in Device, NEW disc \in BOOLEAN, NEW refused \in Nat, NEW downs \in Bit,
         NEW y, y = Ended(x, disc, refused, downs)
  PROVE  /\ y \in Device /\ SameCounts(x, y) /\ y.out = x.out /\ (y.sending <=> x.sending)
         /\ (y.receiving <=> x.receiving) /\ y.state = "CHECKED" /\ y.psSendHeader = None
         /\ y.refused = refused /\ ~y.pfSendCB /\ ~y.MacSend_Cb
         /\ ~y.MacReceive_Cb /\ ~y.SendPending /\ ~y.RecvPending
<1>1. y \in Device
  BY Values, Constants DEF Device, Ended
<1>2. SameCounts(x, y) /\ y.out = x.out /\ (y.sending <=> x.sending) /\ (y.receiving <=> x.receiving)
  BY DEF Device, SameCounts, Ended
<1>3. /\ y.state = "CHECKED" /\ y.psSendHeader = None /\ y.refused = refused
      /\ ~y.pfSendCB /\ ~y.MacSend_Cb /\ ~y.MacReceive_Cb
      /\ ~y.SendPending /\ ~y.RecvPending
  BY DEF Device, Ended
<1> QED  BY <1>1, <1>2, <1>3

LEMMA Deactivated ==
  ASSUME NEW x \in Device, x.state # "CHECKED", x.downs = 0
  PROVE  LET y == InternalDeactivate(x)
         IN /\ y \in Device /\ SameCounts(x, y) /\ y.state = "CHECKED" /\ y.psSendHeader = None
            /\ ~y.pfSendCB /\ ~y.MacSend_Cb /\ ~y.MacReceive_Cb /\ ~y.SendPending
            /\ ~y.RecvPending /\ y.out = x.out /\ (y.sending <=> x.sending)
            /\ (y.receiving <=> x.receiving)
            /\ x.pfSendCB => y.refused = x.refused + 1
            /\ ~x.pfSendCB => y.refused = x.refused
<1> DEFINE d == x.bDiscPendingFlag /\ ~x.RecvPending
           r == IF x.pfSendCB THEN x.refused + 1 ELSE x.refused
           n == x.downs + 1
           y == Ended(x, d, r, n)
<1>1. d \in BOOLEAN /\ r \in Nat /\ n \in Bit
  BY Constants DEF Device
<1>2. InternalDeactivate(x) = y
  BY DEF InternalDeactivate, Device, Ended
<1>3. (x.pfSendCB => r = x.refused + 1) /\ (~x.pfSendCB => r = x.refused)
  OBVIOUS
<1> HIDE DEF d, r, n
<1>4. /\ y \in Device /\ SameCounts(x, y) /\ y.out = x.out /\ (y.sending <=> x.sending)
      /\ (y.receiving <=> x.receiving) /\ y.state = "CHECKED" /\ y.psSendHeader = None
      /\ y.refused = r /\ ~y.pfSendCB /\ ~y.MacSend_Cb
      /\ ~y.MacReceive_Cb /\ ~y.SendPending /\ ~y.RecvPending
  BY <1>1, EndedRecord
<1> HIDE DEF y
<1> QED  BY <1>2, <1>3, <1>4

(* What the layer below does with a frame: out at once, or held back. *)
Out(y, frame) ==
  /\ y.role = "Target" /\ y.RecvPending /\ y.sending /\ ~y.SendPending /\ y.out = frame
Held(y, frame) ==
  /\ ~y.RecvPending /\ ~y.sending /\ y.SendPending /\ y.out = None /\ y.sTxBuffer = frame
Transceived(y, frame) ==
  /\ y.role = "Initiator" /\ y.RecvPending /\ y.SendPending /\ y.sending /\ y.receiving
  /\ y.out = frame

(* What a frame leaves alone on its way to the MAC *)
SameLayer(x, y) ==
  /\ SameCounts(x, y) /\ (y.MacReceive_Cb <=> x.MacReceive_Cb)
  /\ (y.pfSendCB <=> x.pfSendCB) /\ y.psSendHeader = x.psSendHeader
  /\ y.refused = x.refused /\ y.downs = x.downs

Handed(x, frame) ==
  [x EXCEPT !.state = "RECV", !.timer = "recv", !.sTxBuffer = frame, !.MacSend_Cb = TRUE]

LEMMA HandedRecord ==
  ASSUME NEW x \in Device, NEW frame \in Opt, NEW y, y = Handed(x, frame)
  PROVE  /\ y \in Device /\ SameLayer(x, y) /\ y.state = "RECV" /\ y.MacSend_Cb
         /\ y.sTxBuffer = frame /\ y.out = x.out /\ (y.RecvPending <=> x.RecvPending)
         /\ (y.SendPending <=> x.SendPending) /\ (y.sending <=> x.sending)
         /\ (y.receiving <=> x.receiving)
<1>1. y \in Device
  BY Constants DEF Device, Handed
<1>2. SameLayer(x, y)
  BY DEF Device, SameCounts, SameLayer, Handed
<1>3. /\ y.state = "RECV" /\ y.MacSend_Cb
      /\ y.sTxBuffer = frame /\ y.out = x.out /\ (y.RecvPending <=> x.RecvPending)
      /\ (y.SendPending <=> x.SendPending) /\ (y.sending <=> x.sending)
      /\ (y.receiving <=> x.receiving)
  BY DEF Device, Handed
<1> QED  BY <1>1, <1>2, <1>3

LEMMA PendingRecord ==
  ASSUME NEW x \in Device, NEW y, y = [x EXCEPT !.SendPending = TRUE]
  PROVE  /\ y \in Device /\ SameLayer(x, y) /\ y.SendPending /\ y.state = x.state
         /\ (y.MacSend_Cb <=> x.MacSend_Cb)
         /\ y.sTxBuffer = x.sTxBuffer /\ y.out = x.out /\ (y.RecvPending <=> x.RecvPending)
         /\ (y.sending <=> x.sending) /\ (y.receiving <=> x.receiving)
<1>1. y \in Device
  BY DEF Device
<1>2. SameLayer(x, y)
  BY DEF Device, SameCounts, SameLayer
<1>3. /\ y.SendPending /\ y.state = x.state /\ (y.MacSend_Cb <=> x.MacSend_Cb)
      /\ y.sTxBuffer = x.sTxBuffer /\ y.out = x.out /\ (y.RecvPending <=> x.RecvPending)
      /\ (y.sending <=> x.sending) /\ (y.receiving <=> x.receiving)
  BY DEF Device
<1> QED  BY <1>1, <1>2, <1>3

LEMMA TransceiveRecord ==
  ASSUME NEW x \in Device, NEW y, y = Transceive(x)
  PROVE  /\ y \in Device /\ SameLayer(x, y) /\ y.sending /\ y.receiving /\ y.state = x.state
         /\ (y.MacSend_Cb <=> x.MacSend_Cb) /\ (y.SendPending <=> x.SendPending)
         /\ y.sTxBuffer = x.sTxBuffer /\ y.out = x.sTxBuffer
         /\ (y.RecvPending <=> x.RecvPending)
<1>1. y \in Device
  BY DEF Device, Transceive
<1>2. SameLayer(x, y)
  BY DEF Device, SameCounts, SameLayer, Transceive
<1>3. /\ y.sending /\ y.receiving /\ y.state = x.state
      /\ (y.MacSend_Cb <=> x.MacSend_Cb) /\ (y.SendPending <=> x.SendPending)
      /\ y.sTxBuffer = x.sTxBuffer /\ y.out = x.sTxBuffer
      /\ (y.RecvPending <=> x.RecvPending)
  BY DEF Device, Transceive
<1> QED  BY <1>1, <1>2, <1>3

Sending(x, frame) == [x EXCEPT !.sending = TRUE, !.out = frame]

LEMMA SendingRecord ==
  ASSUME NEW x \in Device, NEW frame \in Opt, NEW y, y = Sending(x, frame)
  PROVE  /\ y \in Device /\ SameLayer(x, y) /\ y.sending /\ y.state = x.state
         /\ (y.MacSend_Cb <=> x.MacSend_Cb) /\ (y.SendPending <=> x.SendPending)
         /\ y.out = frame /\ y.sTxBuffer = x.sTxBuffer /\ (y.receiving <=> x.receiving)
         /\ (y.RecvPending <=> x.RecvPending)
<1>1. y \in Device
  BY DEF Device, Sending
<1>2. SameLayer(x, y)
  BY DEF Device, Sending, SameCounts, SameLayer
<1>3. /\ y.sending /\ y.state = x.state
      /\ (y.MacSend_Cb <=> x.MacSend_Cb) /\ (y.SendPending <=> x.SendPending)
      /\ y.out = frame /\ y.sTxBuffer = x.sTxBuffer /\ (y.receiving <=> x.receiving)
      /\ (y.RecvPending <=> x.RecvPending)
  BY DEF Device, Sending
<1> QED  BY <1>1, <1>2, <1>3

LEMMA InternalSendFrame ==
  ASSUME NEW x \in Device, x.out = None, ~x.SendPending, ~x.sending, NEW frame \in Opt
  PROVE  LET y == InternalSend(x, frame)
         IN /\ y \in Device /\ SameLayer(x, y) /\ y.state = "RECV" /\ y.MacSend_Cb
            /\ ~x.RecvPending => Held(y, frame) /\ (y.receiving <=> x.receiving)
            /\ x.RecvPending /\ x.role = "Target" => Out(y, frame) /\ (y.receiving <=> x.receiving)
            /\ x.RecvPending /\ x.role = "Initiator" => Transceived(y, frame)
<1> DEFINE a == [[x EXCEPT !.state = "RECV"] EXCEPT !.timer = "recv"]
           b == [a EXCEPT !.sTxBuffer = frame]
           c == Handed(x, frame)
<1>1. ResetLTO([x EXCEPT !.state = "RECV"]) = a
  BY DEF ResetLTO, Device
<1>2. InternalSend(x, frame) = MacSend(b)
  BY <1>1 DEF InternalSend
<1>3. (b.RecvPending <=> x.RecvPending) /\ b.role = x.role /\ b.sTxBuffer = frame
      /\ [b EXCEPT !.MacSend_Cb = TRUE] = c
  BY DEF Device, Handed
<1>4. /\ c \in Device /\ SameLayer(x, c) /\ c.state = "RECV" /\ c.MacSend_Cb
      /\ c.sTxBuffer = frame /\ c.out = x.out /\ (c.RecvPending <=> x.RecvPending)
      /\ (c.SendPending <=> x.SendPending) /\ (c.sending <=> x.sending)
      /\ (c.receiving <=> x.receiving)
  BY HandedRecord
<1> HIDE DEF b, c
<1>5. CASE ~x.RecvPending
  <2> DEFINE y == [c EXCEPT !.SendPending = TRUE]
  <2>1. MacSend(b) = y
    BY <1>3, <1>5 DEF MacSend
  <2>2. /\ y \in Device /\ SameLayer(c, y) /\ y.SendPending /\ y.state = c.state
        /\ (y.MacSend_Cb <=> c.MacSend_Cb)
        /\ y.sTxBuffer = c.sTxBuffer /\ y.out = c.out /\ (y.RecvPending <=> c.RecvPending)
        /\ (y.sending <=> c.sending) /\ (y.receiving <=> c.receiving)
    BY <1>4, PendingRecord
  <2> HIDE DEF y
  <2> QED  BY <1>2, <1>4, <1>5, <2>1, <2>2 DEF Held, SameLayer, SameCounts
<1>6. CASE x.RecvPending /\ x.role = "Initiator"
  <2> DEFINE d == [c EXCEPT !.SendPending = TRUE]
             y == Transceive(d)
  <2>1. MacSend(b) = y
    BY <1>3, <1>6 DEF MacSend
  <2>2. /\ d \in Device /\ SameLayer(c, d) /\ d.SendPending /\ d.state = c.state
        /\ (d.MacSend_Cb <=> c.MacSend_Cb) /\ (d.RecvPending <=> c.RecvPending)
        /\ d.sTxBuffer = c.sTxBuffer
    BY <1>4, PendingRecord
  <2> HIDE DEF d
  <2>3. /\ y \in Device /\ SameLayer(d, y) /\ y.sending /\ y.receiving /\ y.state = d.state
        /\ (y.MacSend_Cb <=> d.MacSend_Cb) /\ (y.SendPending <=> d.SendPending)
        /\ y.out = d.sTxBuffer /\ (y.RecvPending <=> d.RecvPending)
    BY <2>2, TransceiveRecord
  <2> HIDE DEF y
  <2> QED  BY <1>2, <1>4, <1>6, <2>1, <2>2, <2>3 DEF Transceived, SameLayer, SameCounts
<1>7. CASE x.RecvPending /\ x.role = "Target"
  <2> DEFINE y == Sending(c, frame)
  <2>1. MacSend(b) = y
    BY <1>3, <1>4, <1>7 DEF MacSend, Sending
  <2>2. /\ y \in Device /\ SameLayer(c, y) /\ y.sending /\ y.state = c.state
        /\ (y.MacSend_Cb <=> c.MacSend_Cb) /\ (y.SendPending <=> c.SendPending)
        /\ y.out = frame /\ (y.receiving <=> c.receiving)
        /\ (y.RecvPending <=> c.RecvPending)
    BY <1>4, SendingRecord
  <2> HIDE DEF y
  <2> QED  BY <1>2, <1>4, <1>7, <2>1, <2>2 DEF Out, SameLayer, SameCounts
<1> QED  BY <1>5, <1>6, <1>7, Fields

(* The target sends at its receive what it had held back. *)
LEMMA MacSendHeld ==
  ASSUME NEW x \in Device, x.role = "Target", x.RecvPending
  PROVE  LET y == MacSend(x)
         IN /\ y \in Device /\ SameLayer(x, y) /\ y.state = x.state
            /\ y.MacSend_Cb /\ y.sending /\ y.RecvPending
            /\ (y.receiving <=> x.receiving) /\ y.out = x.sTxBuffer
            /\ y.sTxBuffer = x.sTxBuffer
<1> DEFINE a == [x EXCEPT !.MacSend_Cb = TRUE]
           y == Sending(a, x.sTxBuffer)
<1>1. MacSend(x) = y
  BY DEF MacSend, Sending, Device
<1>2. ASSUME NEW z, z = [x EXCEPT !.MacSend_Cb = TRUE]
      PROVE  /\ z \in Device /\ SameLayer(x, z) /\ z.state = x.state /\ z.MacSend_Cb
             /\ z.sTxBuffer = x.sTxBuffer
             /\ z.RecvPending /\ (z.receiving <=> x.receiving)
  <2>1. z \in Device
    BY <1>2 DEF Device
  <2>2. SameLayer(x, z)
    BY <1>2 DEF Device, SameLayer, SameCounts
  <2>3. z.state = x.state /\ z.sTxBuffer = x.sTxBuffer /\ z.MacSend_Cb /\ z.RecvPending /\ (z.receiving <=> x.receiving)
    BY <1>2 DEF Device
  <2> QED  BY <2>1, <2>2, <2>3
<1>3. /\ a \in Device /\ SameLayer(x, a) /\ a.state = x.state /\ a.MacSend_Cb
      /\ a.sTxBuffer = x.sTxBuffer
      /\ a.RecvPending /\ (a.receiving <=> x.receiving)
  BY <1>2
<1>4. x.sTxBuffer \in Opt
  BY Fields
<1> HIDE DEF a
<1>5. /\ y \in Device /\ SameLayer(a, y) /\ y.sending /\ y.state = a.state
      /\ (y.MacSend_Cb <=> a.MacSend_Cb) /\ (y.SendPending <=> a.SendPending)
      /\ y.out = x.sTxBuffer /\ y.sTxBuffer = a.sTxBuffer /\ (y.receiving <=> a.receiving)
      /\ (y.RecvPending <=> a.RecvPending)
  BY <1>3, <1>4, SendingRecord
<1> HIDE DEF y
<1> QED  BY <1>1, <1>3, <1>5 DEF SameLayer, SameCounts

Listening(x) == [x EXCEPT !.MacReceive_Cb = TRUE, !.RecvPending = TRUE]

(* What a receive leaves alone *)
SameUpper(x, y) ==
  /\ SameCounts(x, y) /\ SameLink(x, y) /\ (y.MacSend_Cb <=> x.MacSend_Cb)
  /\ (y.SendPending <=> x.SendPending) /\ y.sTxBuffer = x.sTxBuffer

LEMMA ListeningRecord ==
  ASSUME NEW x \in Device, NEW y, y = Listening(x)
  PROVE  /\ y \in Device /\ SameUpper(x, y) /\ y.MacReceive_Cb /\ y.RecvPending
         /\ (y.receiving <=> x.receiving) /\ (y.sending <=> x.sending) /\ y.out = x.out
<1>1. y \in Device
  BY DEF Device, Listening
<1>2. SameUpper(x, y)
  BY DEF Device, SameUpper, SameLink, SameCounts, Listening
<1>3. /\ y.MacReceive_Cb /\ y.RecvPending /\ y.out = x.out
      /\ (y.receiving <=> x.receiving) /\ (y.sending <=> x.sending)
  BY DEF Device, Listening
<1> QED  BY <1>1, <1>2, <1>3

LEMMA ReceivingRecord ==
  ASSUME NEW x \in Device, NEW y, y = [x EXCEPT !.receiving = TRUE]
  PROVE  /\ y \in Device /\ SameUpper(x, y) /\ y.receiving /\ y.out = x.out
         /\ (y.MacReceive_Cb <=> x.MacReceive_Cb) /\ (y.RecvPending <=> x.RecvPending)
         /\ (y.sending <=> x.sending)
<1>1. y \in Device
  BY DEF Device
<1>2. SameUpper(x, y)
  BY DEF Device, SameUpper, SameLink, SameCounts
<1>3. /\ y.receiving /\ y.out = x.out /\ (y.sending <=> x.sending)
      /\ (y.MacReceive_Cb <=> x.MacReceive_Cb) /\ (y.RecvPending <=> x.RecvPending)
  BY DEF Device
<1> QED  BY <1>1, <1>2, <1>3

LEMMA MacReceives ==
  ASSUME NEW x \in Device, ~x.MacReceive_Cb
  PROVE  LET y == MacReceive(x)
         IN /\ y \in Device /\ SameUpper(x, y) /\ y.MacReceive_Cb /\ y.RecvPending
            /\ x.role = "Target" => y.receiving /\ (y.sending <=> x.sending) /\ y.out = x.out
            /\ x.role = "Initiator" /\ ~x.SendPending =>
                 (y.receiving <=> x.receiving) /\ (y.sending <=> x.sending) /\ y.out = x.out
            /\ x.role = "Initiator" /\ x.SendPending =>
                 y.receiving /\ y.sending /\ y.out = x.sTxBuffer
<1> DEFINE a == Listening(x)
<1>1. /\ a \in Device /\ SameUpper(x, a) /\ a.MacReceive_Cb /\ a.RecvPending
      /\ (a.receiving <=> x.receiving) /\ (a.sending <=> x.sending) /\ a.out = x.out
  BY ListeningRecord
<1>2. CASE x.role = "Target"
  <2> DEFINE y == [a EXCEPT !.receiving = TRUE]
  <2>1. MacReceive(x) = y
    BY <1>2 DEF MacReceive, Listening
  <2> HIDE DEF a
  <2>2. /\ y \in Device /\ SameUpper(a, y) /\ y.receiving /\ y.out = a.out
        /\ (y.MacReceive_Cb <=> a.MacReceive_Cb) /\ (y.RecvPending <=> a.RecvPending)
        /\ (y.sending <=> a.sending)
    BY <1>1, ReceivingRecord
  <2> HIDE DEF y
  <2> QED  BY <1>1, <1>2, <2>1, <2>2 DEF SameUpper, SameLink, SameCounts
<1>3. CASE x.role = "Initiator" /\ ~x.SendPending
  <2>1. MacReceive(x) = a
    BY <1>3 DEF MacReceive, Listening
  <2> HIDE DEF a
  <2> QED  BY <1>1, <1>3, <2>1
<1>4. CASE x.role = "Initiator" /\ x.SendPending
  <2> DEFINE y == Transceive(a)
  <2>1. MacReceive(x) = y
    BY <1>4 DEF MacReceive, Listening
  <2> HIDE DEF a
  <2>2. /\ y \in Device /\ SameLayer(a, y) /\ y.sending /\ y.receiving /\ y.state = a.state
        /\ (y.MacSend_Cb <=> a.MacSend_Cb) /\ (y.SendPending <=> a.SendPending)
        /\ y.sTxBuffer = a.sTxBuffer /\ y.out = a.sTxBuffer
        /\ (y.RecvPending <=> a.RecvPending)
    BY <1>1, TransceiveRecord
  <2> HIDE DEF y
  <2> QED  BY <1>1, <1>4, <2>1, <2>2 DEF SameUpper, SameLayer, SameLink, SameCounts
<1> QED  BY <1>2, <1>3, <1>4, Fields

Accepted(x) == [x EXCEPT !.pfSendCB = TRUE, !.nSymmetryCounter = 0, !.given = @ + 1]
Queued(x, frame) == [x EXCEPT !.psSendHeader = frame]

(* What a frame of the layer above leaves alone *)
SameRest(x, y) ==
  /\ y.role = x.role /\ y.arrived = x.arrived /\ y.told = x.told /\ y.deferred = x.deferred
  /\ y.refused = x.refused /\ y.downs = x.downs

LEMMA AcceptedRecord ==
  ASSUME NEW x \in Device, x.given < MaxFrames, NEW y, y = Accepted(x)
  PROVE  /\ y \in Device /\ SameRest(x, y) /\ SameMac(x, y) /\ y.state = x.state /\ y.pfSendCB
         /\ y.psSendHeader = x.psSendHeader /\ y.given = x.given + 1
         /\ y.given \in 1..MaxFrames /\ y.given \in Opt
<1>1. x.given + 1 \in 1..MaxFrames /\ x.given + 1 \in Counts
  BY Fields, LinkAssumption DEF Counts
<1>2. y \in Device
  BY <1>1, Constants DEF Device, Accepted
<1>3. SameRest(x, y) /\ SameMac(x, y)
  BY DEF Device, SameRest, SameMac, SameRadio, Accepted
<1>4. y.state = x.state /\ y.pfSendCB /\ y.psSendHeader = x.psSendHeader /\ y.given = x.given + 1
  BY DEF Device, Accepted
<1> QED  BY <1>1, <1>2, <1>3, <1>4, Values

LEMMA QueuedRecord ==
  ASSUME NEW x \in Device, NEW frame \in Opt, NEW y, y = Queued(x, frame)
  PROVE  /\ y \in Device /\ SameCounts(x, y) /\ SameMac(x, y) /\ y.state = x.state
         /\ (y.pfSendCB <=> x.pfSendCB) /\ y.psSendHeader = frame
         /\ y.refused = x.refused /\ y.downs = x.downs
<1>1. y \in Device
  BY DEF Device, Queued
<1>2. SameCounts(x, y) /\ SameMac(x, y)
  BY DEF Device, SameCounts, SameMac, SameRadio, Queued
<1>3. /\ y.state = x.state /\ (y.pfSendCB <=> x.pfSendCB) /\ y.psSendHeader = frame
      /\ y.refused = x.refused /\ y.downs = x.downs
  BY DEF Device, Queued
<1> QED  BY <1>1, <1>2, <1>3

(* The frame waits for the turn. *)
Queues(x, y) ==
  /\ SameRest(x, y) /\ SameMac(x, y) /\ y.state = x.state /\ y.given = x.given + 1
  /\ y.pfSendCB /\ y.psSendHeader = y.given

(* The frame goes to the MAC. *)
SendsNow(x, y) ==
  /\ SameRest(x, y) /\ y.state = "RECV" /\ y.MacSend_Cb /\ y.given = x.given + 1
  /\ y.pfSendCB /\ y.psSendHeader = None /\ (y.MacReceive_Cb <=> x.MacReceive_Cb)
  /\ ~x.RecvPending => Held(y, y.given) /\ (y.receiving <=> x.receiving)
  /\ x.RecvPending /\ x.role = "Target" => Out(y, y.given) /\ (y.receiving <=> x.receiving)
  /\ x.RecvPending /\ x.role = "Initiator" => Transceived(y, y.given)

LEMMA SendCounts ==
  ASSUME NEW x \in Device, NEW y \in Device, Owed(x), ~x.pfSendCB, x.state # "CHECKED",
         Queues(x, y) \/ SendsNow(x, y)
  PROVE  Owed(y)
<1>1. /\ x.given \in Nat /\ x.told \in Nat /\ x.refused \in Nat /\ x.given = x.told + x.refused
      /\ y.given = x.given + 1 /\ y.told = x.told /\ y.refused = x.refused /\ y.downs = x.downs
      /\ y.pfSendCB
  BY Fields, LinkAssumption DEF Owed, Waiting, Queues, SendsNow, SameRest, Counts
<1>2. y.psSendHeader # None => y.psSendHeader = y.given
  BY DEF Queues, SendsNow
<1> QED  BY <1>1, <1>2 DEF Owed, Waiting

LEMMA SendFrame ==
  ASSUME NEW x \in Device, Owed(x), x.given < MaxFrames,
         x.state = "SEND" => x.out = None /\ ~x.SendPending /\ ~x.sending
  PROVE  LET y == Send(x)
         IN /\ y \in Device /\ Owed(y)
            /\ \/ y = x
               \/ ~x.pfSendCB /\ x.state = "SEND" /\ SendsNow(x, y)
               \/ ~x.pfSendCB /\ x.state = "RECV" /\ Queues(x, y)
<1> DEFINE a == Accepted(x)
<1>1. /\ a \in Device /\ SameRest(x, a) /\ SameMac(x, a) /\ a.state = x.state /\ a.pfSendCB
      /\ a.psSendHeader = x.psSendHeader /\ a.given = x.given + 1
      /\ a.given \in 1..MaxFrames /\ a.given \in Opt
  BY AcceptedRecord
<1>2. CASE x.pfSendCB \/ x.state = "CHECKED"
  BY <1>2 DEF Send
<1>3. CASE ~x.pfSendCB /\ x.state = "SEND"
  <2> DEFINE y == InternalSend(a, a.given)
  <2>1. Send(x) = y
    BY <1>3 DEF Send, Accepted
  <2>2. x.psSendHeader = None
    BY <1>3 DEF Owed
  <2> HIDE DEF a
  <2>3. a.out = None /\ ~a.SendPending /\ ~a.sending
    BY <1>1, <1>3 DEF SameMac, SameRadio
  <2>4. /\ y \in Device /\ SameLayer(a, y) /\ y.state = "RECV" /\ y.MacSend_Cb
        /\ ~a.RecvPending => Held(y, a.given) /\ (y.receiving <=> a.receiving)
        /\ a.RecvPending /\ a.role = "Target" => Out(y, a.given) /\ (y.receiving <=> a.receiving)
        /\ a.RecvPending /\ a.role = "Initiator" => Transceived(y, a.given)
    BY <1>1, <2>3, InternalSendFrame
  <2> HIDE DEF y
  <2>5. SendsNow(x, y)
    BY <1>1, <2>2, <2>4 DEF SendsNow, SameLayer, SameCounts, SameRest, SameMac, SameRadio
  <2>6. Owed(y)
    BY <1>3, <2>4, <2>5, SendCounts
  <2> QED  BY <1>3, <2>1, <2>4, <2>5, <2>6
<1>4. CASE ~x.pfSendCB /\ x.state = "RECV"
  <2> DEFINE y == Queued(a, a.given)
  <2>1. Send(x) = y
    BY <1>4 DEF Send, Accepted, Queued
  <2> HIDE DEF a
  <2>2. /\ y \in Device /\ SameCounts(a, y) /\ SameMac(a, y) /\ y.state = a.state
        /\ (y.pfSendCB <=> a.pfSendCB) /\ y.psSendHeader = a.given
        /\ y.refused = a.refused /\ y.downs = a.downs
    BY <1>1, QueuedRecord
  <2> HIDE DEF y
  <2>3. Queues(x, y)
    BY <1>1, <2>2 DEF Queues, SameCounts, SameRest, SameMac, SameRadio
  <2>4. Owed(y)
    BY <1>4, <2>2, <2>3, SendCounts
  <2> QED  BY <1>4, <2>1, <2>2, <2>3, <2>4
<1> QED  BY <1>2, <1>3, <1>4, Fields

(* The callback of the layer above for its frame *)
Told(x, told, refused) == [x EXCEPT !.pfSendCB = FALSE, !.told = told, !.refused = refused]

LEMMA ToldRecord ==
  ASSUME NEW x \in Device, NEW told \in Nat, NEW refused \in Nat, NEW y, y = Told(x, told, refused)
  PROVE  /\ y \in Device /\ SameMac(x, y) /\ ~y.pfSendCB /\ y.told = told /\ y.refused = refused
         /\ y.state = x.state /\ y.psSendHeader = x.psSendHeader /\ y.given = x.given
         /\ y.role = x.role /\ y.arrived = x.arrived /\ y.deferred = x.deferred
         /\ y.downs = x.downs
<1>1. y \in Device
  BY DEF Device, Told
<1>2. SameMac(x, y)
  BY DEF Device, SameMac, SameRadio, Told
<1>3. /\ ~y.pfSendCB /\ y.told = told /\ y.refused = refused
      /\ y.state = x.state /\ y.psSendHeader = x.psSendHeader /\ y.given = x.given
      /\ y.role = x.role /\ y.arrived = x.arrived /\ y.deferred = x.deferred
      /\ y.downs = x.downs
  BY DEF Device, Told
<1> QED  BY <1>1, <1>2, <1>3

LEMMA UpperCalled ==
  ASSUME NEW x \in Device, Owed(x), x.state = "RECV", NEW callback, NEW replies
  PROVE  LET y == CallUpper(x, callback, replies)
         IN y \in Device /\ Owed(y) /\ (y = x \/ (~x.pfSendCB /\ Queues(x, y)))
<1>1. CASE callback \in replies /\ x.given < MaxFrames
  <2>1. CallUpper(x, callback, replies) = Send(x)
    BY <1>1 DEF CallUpper
  <2> QED  BY <1>1, <2>1, SendFrame
<1>2. CASE ~(callback \in replies /\ x.given < MaxFrames)
  BY <1>2 DEF CallUpper
<1> QED  BY <1>1, <1>2

(* What Send_CB does to the layer above: it is told of a frame that went out. *)
Tells(x, y) ==
  /\ y.role = x.role /\ y.arrived = x.arrived /\ y.deferred = x.deferred /\ y.downs = x.downs
  /\ y.given \in {x.given, x.given + 1} /\ y.state = x.state /\ SameRadio(x, y)
  /\ y.pfSendCB => y.psSendHeader # None
  /\ Sent(y) = Sent(x)

LEMMA FrameTold ==
  ASSUME NEW x \in Device, Owed(x), x.state = "RECV", NEW ok \in BOOLEAN, NEW replies
  PROVE  LET z == Told(x, IF ok THEN x.told + 1 ELSE x.told, IF ok THEN x.refused ELSE x.refused + 1)
             y == IF x.psSendHeader = None /\ x.pfSendCB THEN CallUpper(z, "sent", replies) ELSE x
         IN /\ y \in Device /\ Owed(y) /\ Tells(x, y) /\ (y.MacSend_Cb <=> x.MacSend_Cb)
            /\ ok => y.refused = x.refused
            /\ ~ok => y.told = x.told
            /\ y.told = x.told \/ (y.told = x.told + 1 /\ x.psSendHeader = None /\ x.pfSendCB)
<1> DEFINE t == IF ok THEN x.told + 1 ELSE x.told
           r == IF ok THEN x.refused ELSE x.refused + 1
           z == Told(x, t, r)
           y == CallUpper(z, "sent", replies)
<1>1. CASE ~(x.psSendHeader = None /\ x.pfSendCB)
  <2>1. Tells(x, x)
    BY <1>1, Fields DEF Tells, SameRadio
  <2> QED  BY <1>1, <2>1
<1>2. CASE x.psSendHeader = None /\ x.pfSendCB
  <2>1. /\ x.given \in Nat /\ x.told \in Nat /\ x.refused \in Nat
        /\ x.given = x.told + x.refused + 1
    BY <1>2, Fields, LinkAssumption DEF Owed, Waiting, Counts
  <2>2. t \in Nat /\ r \in Nat /\ x.given = t + r /\ (ok => r = x.refused) /\ (~ok => t = x.told)
        /\ t \in {x.told, x.told + 1}
    BY <2>1
  <2> HIDE DEF t, r
  <2>3. /\ z \in Device /\ SameMac(x, z) /\ ~z.pfSendCB /\ z.told = t /\ z.refused = r
        /\ z.state = x.state /\ z.psSendHeader = x.psSendHeader /\ z.given = x.given
        /\ z.role = x.role /\ z.arrived = x.arrived /\ z.deferred = x.deferred
        /\ z.downs = x.downs
    BY <2>2, ToldRecord
  <2> HIDE DEF z
  <2>4. Owed(z)
    BY <1>2, <2>1, <2>2, <2>3 DEF Owed, Waiting
  <2>5. y \in Device /\ Owed(y) /\ (y = z \/ (~z.pfSendCB /\ Queues(z, y)))
    BY <2>3, <2>4, UpperCalled
  <2>6. CASE y = z
    <3>1. Tells(x, z) /\ z.told = t /\ z.refused = r /\ (z.MacSend_Cb <=> x.MacSend_Cb)
      BY <1>2, <2>3 DEF Tells, Sent, SameMac
    <3> QED  BY <1>2, <2>2, <2>5, <2>6, <3>1 DEF t, r, z
  <2>7. CASE Queues(z, y)
    <3> HIDE DEF y
    <3>1. y.told = t /\ y.refused = r /\ (y.MacSend_Cb <=> x.MacSend_Cb)
      BY <2>3, <2>7 DEF Queues, SameRest, SameMac
    <3>2. Sent(y) = Sent(x) /\ y.psSendHeader # None /\ y.given = x.given + 1
      BY <1>2, <2>1, <2>3, <2>7 DEF Queues, Sent, None
    <3>3. Tells(x, y)
      BY <2>3, <2>7, <3>2 DEF Tells, Queues, SameRest, SameMac, SameRadio
    <3> QED  BY <1>2, <2>2, <2>5, <3>1, <3>3 DEF t, r, z, y
  <2> QED  BY <2>5, <2>6, <2>7
<1> QED  BY <1>1, <1>2

Cleared(x) == [x EXCEPT !.MacSend_Cb = FALSE]

LEMMA ClearedRecord ==
  ASSUME NEW x \in Device, NEW y, y = Cleared(x)
  PROVE  y \in Device /\ SameCounts(x, y) /\ SameLink(x, y) /\ SameRadio(x, y) /\ ~y.MacSend_Cb
<1>1. y \in Device
  BY DEF Device, Cleared
<1>2. SameCounts(x, y) /\ SameLink(x, y) /\ SameRadio(x, y)
  BY DEF Device, SameCounts, SameLink, SameRadio, Cleared
<1>3. ~y.MacSend_Cb
  BY DEF Device, Cleared
<1> QED  BY <1>1, <1>2, <1>3

(* The layer above is told of a frame only when its header is gone. *)
ToldOf(x, y) ==
  y.told = x.told \/ (y.told = x.told + 1 /\ x.psSendHeader = None /\ x.pfSendCB)

LEMMA SendCallback ==
  ASSUME NEW x \in Device, Counted(x), x.state = "RECV", x.MacSend_Cb, NEW replies
  PROVE  LET y == TriggerSendCb(x, TRUE, replies)
         IN y \in Device /\ Counted(y) /\ Tells(x, y) /\ ToldOf(x, y) /\ ~y.MacSend_Cb
<1> DEFINE a == Cleared(x)
           z == Told(a, IF TRUE THEN a.told + 1 ELSE a.told, IF TRUE THEN a.refused ELSE a.refused + 1)
           y == IF a.psSendHeader = None /\ a.pfSendCB THEN CallUpper(z, "sent", replies) ELSE a
<1>1. /\ a \in Device /\ SameCounts(x, a) /\ SameLink(x, a) /\ SameRadio(x, a) /\ ~a.MacSend_Cb
  BY ClearedRecord
<1>2. TriggerSendCb(x, TRUE, replies) = y
  BY DEF TriggerSendCb, Send_CB, Cleared, Told
<1> HIDE DEF a
<1>3. Owed(a)
  BY <1>1 DEF Counted, Owed, Waiting, SameCounts, SameLink
<1>4. a.state = "RECV"
  BY <1>1 DEF SameLink
<1>5. /\ y \in Device /\ Owed(y) /\ Tells(a, y) /\ (y.MacSend_Cb <=> a.MacSend_Cb)
      /\ y.refused = a.refused
      /\ y.told = a.told \/ (y.told = a.told + 1 /\ a.psSendHeader = None /\ a.pfSendCB)
  BY <1>1, <1>3, <1>4, FrameTold
<1> HIDE DEF y
<1>6. Tells(x, y)
  BY <1>1, <1>5 DEF Tells, Sent, SameCounts, SameLink, SameRadio
<1>7. Counted(y)
  BY <1>1, <1>5 DEF Counted, Tells, SameLink
<1>8. ToldOf(x, y)
  BY <1>1, <1>5 DEF ToldOf, SameCounts, SameLink
<1> QED  BY <1>1, <1>2, <1>5, <1>6, <1>7, <1>8

(* The link goes down: the layer above is refused what it is owed. *)
BreaksDown(x, y) ==
  /\ y.role = x.role /\ y.arrived = x.arrived /\ y.told = x.told /\ y.deferred = x.deferred
  /\ y.given \in {x.given, x.given + 1} /\ y.state = "CHECKED" /\ Counted(y) /\ Down(y)
  /\ ~y.MacReceive_Cb /\ (y.sending <=> x.sending) /\ (y.receiving <=> x.receiving)

LEMMA LinkDown ==
  ASSUME NEW x \in Device, Owed(x), x.state # "CHECKED", x.downs = 0, x.out = None
  PROVE  LET y == InternalDeactivate(x) IN y \in Device /\ BreaksDown(x, y) /\ y.given = x.given
<1> DEFINE y == InternalDeactivate(x)
<1>0. InternalDeactivate(x) = y
  OBVIOUS
<1>1. /\ y \in Device /\ SameCounts(x, y) /\ y.state = "CHECKED" /\ y.psSendHeader = None
      /\ ~y.pfSendCB /\ ~y.MacSend_Cb /\ ~y.MacReceive_Cb /\ ~y.SendPending
      /\ ~y.RecvPending /\ y.out = x.out /\ (y.sending <=> x.sending)
      /\ (y.receiving <=> x.receiving)
      /\ x.pfSendCB => y.refused = x.refused + 1
      /\ ~x.pfSendCB => y.refused = x.refused
  BY Deactivated
<1> HIDE DEF y
<1>2. /\ x.given \in Nat /\ x.told \in Nat /\ x.refused \in Nat
  BY Fields, LinkAssumption DEF Counts
<1>3. y.given = y.told + y.refused
  BY <1>1, <1>2 DEF Owed, Waiting, SameCounts
<1>4. y.given \in Nat
  BY <1>1, <1>2 DEF SameCounts
<1>5. Counted(y)
  BY <1>1, <1>2, <1>3, <1>4 DEF Counted, Owed, Waiting, SameCounts
<1> QED  BY <1>0, <1>1, <1>5 DEF Down, BreaksDown, SameCounts

LEMMA SendCallbackFails ==
  ASSUME NEW x \in Device, Counted(x), x.state = "RECV", x.MacSend_Cb, x.out = None, NEW replies
  PROVE  LET y == TriggerSendCb(x, FALSE, replies)
         IN y \in Device /\ BreaksDown(x, y)
<1> DEFINE a == Cleared(x)
           z == Told(a, IF FALSE THEN a.told + 1 ELSE a.told,
                     IF FALSE THEN a.refused ELSE a.refused + 1)
           b == IF a.psSendHeader = None /\ a.pfSendCB THEN CallUpper(z, "sent", replies) ELSE a
           y == InternalDeactivate(b)
<1>1. /\ a \in Device /\ SameCounts(x, a) /\ SameLink(x, a) /\ SameRadio(x, a) /\ ~a.MacSend_Cb
  BY ClearedRecord
<1>2. TriggerSendCb(x, FALSE, replies) = y
  BY DEF TriggerSendCb, Send_CB, Cleared, Told
<1> HIDE DEF a
<1>3. Owed(a)
  BY <1>1 DEF Counted, Owed, Waiting, SameCounts, SameLink
<1>4. a.state = "RECV"
  BY <1>1 DEF SameLink
<1>5. b \in Device /\ Owed(b) /\ Tells(a, b) /\ b.told = a.told
  BY <1>1, <1>3, <1>4, FrameTold
<1> HIDE DEF b
<1>6. b.state # "CHECKED" /\ b.downs = 0 /\ b.out = None
  BY <1>1, <1>4, <1>5 DEF Tells, Counted, SameLink, SameRadio
<1>7. y \in Device /\ BreaksDown(b, y) /\ y.given = b.given
  BY <1>5, <1>6, LinkDown
<1> HIDE DEF y
<1> QED  BY <1>1, <1>2, <1>5, <1>7 DEF BreaksDown, Tells, SameCounts, SameRadio

(* A MAC in which nothing is under way: a receive has just called back. *)
Idle(x) ==
  /\ ~x.MacSend_Cb /\ ~x.MacReceive_Cb /\ ~x.SendPending /\ ~x.sending /\ ~x.receiving
  /\ x.out = None /\ (x.role = "Initiator" => ~x.RecvPending)

(* The frame is with the MAC, which waits for the receive or not. *)
HandedOn(y, frame) ==
  /\ y.state = "RECV" /\ y.MacSend_Cb /\ ~y.MacReceive_Cb /\ ~y.receiving
  /\ y.psSendHeader = None
  /\ Held(y, frame) \/ Out(y, frame)

(* The frame has gone out, or goes out as soon as the receive is there. *)
Leaves(y, frame) ==
  /\ y.state = "RECV" /\ y.MacSend_Cb /\ y.MacReceive_Cb /\ y.receiving /\ y.RecvPending
  /\ y.psSendHeader = None
  /\ \/ y.role = "Initiator" /\ y.SendPending /\ y.sending /\ y.out = frame
     \/ y.role = "Target" /\ y.sending /\ y.out = frame /\ (y.SendPending => y.sTxBuffer = frame)
     \/ y.role = "Target" /\ y.SendPending /\ ~y.sending /\ y.out = None /\ y.sTxBuffer = frame

LEMMA ReceiveAfterHandedOn ==
  ASSUME NEW x \in Device, NEW frame, HandedOn(x, frame)
  PROVE  LET y == MacReceive(x)
         IN y \in Device /\ SameCounts(x, y) /\ SameLink(x, y) /\ Leaves(y, frame)
<1> DEFINE y == MacReceive(x)
<1>0. MacReceive(x) = y
  OBVIOUS
<1>1. /\ y \in Device /\ SameUpper(x, y) /\ y.MacReceive_Cb /\ y.RecvPending
      /\ x.role = "Target" => y.receiving /\ (y.sending <=> x.sending) /\ y.out = x.out
      /\ x.role = "Initiator" /\ ~x.SendPending =>
           (y.receiving <=> x.receiving) /\ (y.sending <=> x.sending) /\ y.out = x.out
      /\ x.role = "Initiator" /\ x.SendPending =>
           y.receiving /\ y.sending /\ y.out = x.sTxBuffer
  BY MacReceives DEF HandedOn
<1> HIDE DEF y
<1>2. CASE x.role = "Initiator"
  <2>1. Held(x, frame)
    BY <1>2 DEF HandedOn, Out
  <2> QED  BY <1>0, <1>1, <1>2, <2>1 DEF HandedOn, Held, Leaves, SameUpper, SameLink, SameCounts
<1>3. CASE x.role = "Target"
  BY <1>0, <1>1, <1>3 DEF HandedOn, Held, Out, Leaves, SameUpper, SameLink, SameCounts
<1> QED  BY <1>2, <1>3, Fields

LEMMA ReceiveAfterTurn ==
  ASSUME NEW x \in Device, Idle(x), x.state = "SEND", x.psSendHeader = None, ~x.pfSendCB
  PROVE  LET y == MacReceive(x)
         IN y \in Device /\ SameCounts(x, y) /\ SameLink(x, y) /\ Turn(y) /\ y.out = None
<1> DEFINE y == MacReceive(x)
<1>0. MacReceive(x) = y
  OBVIOUS
<1>1. /\ y \in Device /\ SameUpper(x, y) /\ y.MacReceive_Cb /\ y.RecvPending
      /\ x.role = "Target" => y.receiving /\ (y.sending <=> x.sending) /\ y.out = x.out
      /\ x.role = "Initiator" /\ ~x.SendPending =>
           (y.receiving <=> x.receiving) /\ (y.sending <=> x.sending) /\ y.out = x.out
      /\ x.role = "Initiator" /\ x.SendPending =>
           y.receiving /\ y.sending /\ y.out = x.sTxBuffer
  BY MacReceives DEF Idle
<1> HIDE DEF y
<1>2. CASE x.role = "Initiator"
  BY <1>0, <1>1, <1>2 DEF Idle, Turn, SameUpper, SameLink, SameCounts
<1>3. CASE x.role = "Target"
  BY <1>0, <1>1, <1>3 DEF Idle, Turn, SameUpper, SameLink, SameCounts
<1> QED  BY <1>2, <1>3, Fields

LEMMA ReceiveAfterDown ==
  ASSUME NEW x \in Device, Down(x)
  PROVE  LET y == MacReceive(x)
         IN y \in Device /\ SameCounts(x, y) /\ SameLink(x, y) /\ Down(y)
<1> DEFINE y == MacReceive(x)
<1>0. MacReceive(x) = y
  OBVIOUS
<1>1. CASE x.MacReceive_Cb
  <2>1. y = x
    BY <1>1 DEF MacReceive
  <2> QED  BY <2>1 DEF SameCounts, SameLink
<1>2. CASE ~x.MacReceive_Cb
  <2>1. /\ y \in Device /\ SameUpper(x, y)
        /\ x.role = "Target" => y.out = x.out
        /\ x.role = "Initiator" /\ ~x.SendPending => y.out = x.out
    BY <1>2, MacReceives
  <2> HIDE DEF y
  <2> QED  BY <1>0, <2>1, Fields DEF Down, SameUpper, SameLink, SameCounts
<1> QED  BY <1>1, <1>2

Begun(x) == [x EXCEPT !.state = "SEND"]
Arrived(x, frame) == [x EXCEPT !.nSymmetryCounter = 0, !.arrived = Append(@, frame)]

LEMMA BegunRecord ==
  ASSUME NEW x \in Device, NEW y, y = Begun(x)
  PROVE  /\ y \in Device /\ SameCounts(x, y) /\ SameMac(x, y) /\ y.state = "SEND"
         /\ (y.pfSendCB <=> x.pfSendCB) /\ y.psSendHeader = x.psSendHeader
         /\ y.refused = x.refused /\ y.downs = x.downs
<1>1. y \in Device
  BY Constants DEF Device, Begun
<1>2. SameCounts(x, y) /\ SameMac(x, y)
  BY DEF Device, SameCounts, SameMac, SameRadio, Begun
<1>3. /\ y.state = "SEND" /\ (y.pfSendCB <=> x.pfSendCB) /\ y.psSendHeader = x.psSendHeader
      /\ y.refused = x.refused /\ y.downs = x.downs
  BY DEF Device, Begun
<1> QED  BY <1>1, <1>2, <1>3

LEMMA ArrivedRecord ==
  ASSUME NEW x \in Device, NEW frame \in 1..MaxFrames, NEW y, y = Arrived(x, frame)
  PROVE  /\ y \in Device /\ SameLink(x, y) /\ SameMac(x, y)
         /\ y.arrived = Append(x.arrived, frame) /\ y.role = x.role /\ y.given = x.given
         /\ y.told = x.told /\ y.deferred = x.deferred
<1>1. Append(x.arrived, frame) \in Arrivals
  BY Fields DEF Arrivals
<1>2. y \in Device
  BY <1>1, Constants DEF Device, Arrived
<1>3. SameLink(x, y) /\ SameMac(x, y)
  BY DEF Device, SameLink, SameMac, SameRadio, Arrived
<1>4. /\ y.arrived = Append(x.arrived, frame) /\ y.role = x.role /\ y.given = x.given
      /\ y.told = x.told /\ y.deferred = x.deferred
  BY DEF Device, Arrived
<1> QED  BY <1>2, <1>3, <1>4

LEMMA SlowerRecord ==
  ASSUME NEW x \in Device, NEW y, y = Slower(x)
  PROVE  y \in Device /\ SameCounts(x, y) /\ SameLink(x, y) /\ SameMac(x, y)
<1> DEFINE n == IF x.nSymmetryCounter < SLOW_SYMMETRY THEN x.nSymmetryCounter + 1
                ELSE x.nSymmetryCounter
<1>1. n \in Symmetries
  <2>1. x.nSymmetryCounter \in Symmetries
    BY DEF Device
  <2> QED  BY <2>1, LinkAssumption DEF Symmetries
<1>2. y = [x EXCEPT !.nSymmetryCounter = n]
  BY DEF Slower, Device
<1> HIDE DEF n
<1>3. y \in Device
  BY <1>1, <1>2 DEF Device
<1>4. SameCounts(x, y) /\ SameLink(x, y) /\ SameMac(x, y)
  BY <1>2 DEF Device, SameCounts, SameLink, SameMac, SameRadio
<1> QED  BY <1>3, <1>4

(* The timer of a device that has the turn, or that waits for it *)
LEMMA LTOReset ==
  ASSUME NEW x \in Device, x.state # "RECV" => x.deferred = 0, NEW y, y = ResetLTO(x)
  PROVE  /\ y \in Device /\ SameLink(x, y) /\ SameMac(x, y) /\ y.arrived = x.arrived
         /\ y.role = x.role /\ y.given = x.given /\ y.told = x.told
<1>1. CASE y = [x EXCEPT !.timer = "recv"]
  <2>1. y \in Device
    BY <1>1, Constants DEF Device
  <2>2. /\ SameLink(x, y) /\ SameMac(x, y) /\ y.arrived = x.arrived
        /\ y.role = x.role /\ y.given = x.given /\ y.told = x.told
    BY <1>1 DEF Device, SameLink, SameMac, SameRadio
  <2> QED  BY <2>1, <2>2
<1>2. CASE y = [x EXCEPT !.timer = "send"]
  <2>1. y \in Device
    BY <1>2, Constants DEF Device
  <2>2. /\ SameLink(x, y) /\ SameMac(x, y) /\ y.arrived = x.arrived
        /\ y.role = x.role /\ y.given = x.given /\ y.told = x.told
    BY <1>2 DEF Device, SameLink, SameMac, SameRadio
  <2> QED  BY <2>1, <2>2
<1>3. CASE x.deferred = 0 /\ y = [x EXCEPT !.timer = "off", !.deferred = @ + 1]
  <2>1. y = [x EXCEPT !.timer = "off", !.deferred = 1]
    BY <1>3 DEF Device
  <2>2. y \in Device
    BY <2>1, Constants DEF Device
  <2>3. /\ SameLink(x, y) /\ SameMac(x, y) /\ y.arrived = x.arrived
        /\ y.role = x.role /\ y.given = x.given /\ y.told = x.told
    BY <2>1 DEF Device, SameLink, SameMac, SameRadio
  <2> QED  BY <2>2, <2>3
<1> QED  BY <1>1, <1>2, <1>3, Fields DEF ResetLTO

Arrives(x, y, frame) ==
  y.arrived = IF frame \in 1..MaxFrames THEN Append(x.arrived, frame) ELSE x.arrived

(* The turn begins with nothing done, or with a frame that is given in the callback. *)
Keeps(x, y) ==
  /\ y.state = "SEND" /\ Idle(y) /\ y.given = x.given /\ (y.pfSendCB <=> x.pfSendCB)
  /\ y.psSendHeader = x.psSendHeader
HandsOn(x, y) ==
  /\ HandedOn(y, y.given) /\ y.given = x.given + 1 /\ x.psSendHeader = None

(* What a receive never changes *)
Stays(x, y) == y.role = x.role /\ y.told = x.told

LEMMA Incoming ==
  ASSUME NEW x \in Device, Counted(x), Idle(x), x.state = "SEND", NEW frame \in Frames,
         NEW replies
  PROVE  LET y == HandleIncomingPacket(x, frame, replies)
         IN /\ y \in Device /\ Counted(y) /\ Stays(x, y) /\ y.deferred = x.deferred
            /\ \/ Down(y) /\ y.arrived = x.arrived /\ y.given = x.given
               \/ Arrives(x, y, frame) /\ (Keeps(x, y) \/ HandsOn(x, y))
<1> DEFINE y == HandleIncomingPacket(x, frame, replies)
<1>0. HandleIncomingPacket(x, frame, replies) = y
  OBVIOUS
<1>1. CASE frame = SYMM
  <2>1. y = Slower(x)
    BY <1>1 DEF HandleIncomingPacket, SYMM, DISC
  <2> HIDE DEF y
  <2>2. y \in Device /\ SameCounts(x, y) /\ SameLink(x, y) /\ SameMac(x, y)
    BY <2>1, SlowerRecord
  <2>3. Keeps(x, y)
    BY <2>2 DEF Keeps, Idle, SameCounts, SameLink, SameMac, SameRadio
  <2>4. Arrives(x, y, frame)
    BY <1>1, <2>2 DEF Arrives, SameCounts, SYMM
  <2>5. Counted(y)
    BY <2>2 DEF Counted, Owed, Waiting, SameCounts, SameLink
  <2> QED  BY <1>0, <2>2, <2>3, <2>4, <2>5 DEF Stays, SameCounts
<1>2. CASE frame = DISC
  <2>1. y = InternalDeactivate(x)
    BY <1>2, Values DEF HandleIncomingPacket
  <2>2. x.downs = 0 /\ x.out = None /\ x.state # "CHECKED" /\ Owed(x)
    BY DEF Counted, Idle
  <2>3. y \in Device /\ BreaksDown(x, y) /\ y.given = x.given
    BY <2>1, <2>2, LinkDown
  <2> HIDE DEF y
  <2> QED  BY <1>0, <2>3 DEF BreaksDown, Stays
<1>3. CASE frame \in 1..MaxFrames
  <2> DEFINE a == Arrived(x, frame)
  <2>1. frame # SYMM /\ frame # DISC
    BY <1>3 DEF SYMM, DISC
  <2>2. y = CallUpper(a, "received", replies)
    BY <2>1 DEF HandleIncomingPacket, Arrived
  <2> HIDE DEF y
  <2>3. /\ a \in Device /\ SameLink(x, a) /\ SameMac(x, a)
        /\ a.arrived = Append(x.arrived, frame) /\ a.role = x.role /\ a.given = x.given
        /\ a.told = x.told /\ a.deferred = x.deferred
    BY <1>3, ArrivedRecord
  <2> HIDE DEF a
  <2>4. Counted(a) /\ Idle(a) /\ a.state = "SEND"
    BY <2>3 DEF Counted, Owed, Waiting, Idle, SameLink, SameMac, SameRadio
  <2>5. Arrives(x, a, frame) /\ Stays(x, a) /\ Keeps(x, a)
    BY <1>3, <2>3, <2>4 DEF Arrives, Stays, Keeps, SameLink
  <2>6. CASE y = a
    BY <1>0, <2>3, <2>4, <2>5, <2>6
  <2>7. CASE a.given < MaxFrames /\ y = Send(a)
    <3>1. /\ y \in Device /\ Owed(y)
          /\ \/ y = a
             \/ ~a.pfSendCB /\ a.state = "SEND" /\ SendsNow(a, y)
             \/ ~a.pfSendCB /\ a.state = "RECV" /\ Queues(a, y)
      BY <2>3, <2>4, <2>7, SendFrame DEF Counted, Idle
    <3>2. CASE ~a.pfSendCB /\ SendsNow(a, y)
      <4>1. x.psSendHeader = None
        BY <2>3, <3>2 DEF Counted, Owed, SameLink
      <4>2. HandsOn(x, y)
        BY <2>3, <2>4, <3>1, <3>2, <4>1, Fields
           DEF SendsNow, HandsOn, HandedOn, Idle, SameRest, SameLink, SameMac, SameRadio, Transceived
      <4>3. Arrives(x, y, frame) /\ Stays(x, y) /\ y.deferred = x.deferred
        BY <2>3, <2>5, <3>2 DEF SendsNow, SameRest, Arrives, Stays
      <4>4. Counted(y)
        BY <2>4, <3>1, <3>2 DEF SendsNow, SameRest, Counted
      <4> QED  BY <1>0, <3>1, <4>2, <4>3, <4>4
    <3> QED  BY <2>4, <2>6, <3>1, <3>2
  <2> QED  BY <2>2, <2>6, <2>7 DEF CallUpper
<1> QED  BY <1>1, <1>2, <1>3, Values

(* The turn ends with the frame that waits, if there is one. *)
Resume(x) ==
  CASE x.psSendHeader # None -> HandlePendingSend(x)
    [] x.psSendHeader = None /\ x.state = "CHECKED" -> x
    [] OTHER -> ResetLTO(x)

LEMMA PendingSent ==
  ASSUME NEW x \in Device, Counted(x), Idle(x), x.state = "SEND", x.psSendHeader # None
  PROVE  LET y == HandlePendingSend(x)
         IN /\ y \in Device /\ Counted(y) /\ Stays(x, y) /\ y.arrived = x.arrived
            /\ HandedOn(y, y.given) /\ y.given = x.given
<1> DEFINE a == Queued(x, None)
           y == InternalSend(a, x.psSendHeader)
<1>1. /\ a \in Device /\ SameCounts(x, a) /\ SameMac(x, a) /\ a.state = x.state
      /\ (a.pfSendCB <=> x.pfSendCB) /\ a.psSendHeader = None
      /\ a.refused = x.refused /\ a.downs = x.downs
  BY Values, QueuedRecord
<1>2. ~Rejects(a)
  BY <1>1 DEF Rejects, Idle, SameMac
<1>3. HandlePendingSend(x) = y
  BY <1>2 DEF HandlePendingSend, Queued
<1> HIDE DEF a
<1>4. a.out = None /\ ~a.SendPending /\ ~a.sending /\ x.psSendHeader \in Opt
  BY <1>1, Fields DEF Idle, SameMac, SameRadio
<1>5. /\ y \in Device /\ SameLayer(a, y) /\ y.state = "RECV" /\ y.MacSend_Cb
      /\ ~a.RecvPending => Held(y, x.psSendHeader) /\ (y.receiving <=> a.receiving)
      /\ a.RecvPending /\ a.role = "Target" =>
           Out(y, x.psSendHeader) /\ (y.receiving <=> a.receiving)
      /\ a.RecvPending /\ a.role = "Initiator" => Transceived(y, x.psSendHeader)
  BY <1>1, <1>4, InternalSendFrame
<1> HIDE DEF y
<1>6. x.psSendHeader = x.given /\ x.pfSendCB /\ Owed(x)
  BY DEF Counted, Owed
<1>7. y.given = x.given /\ y.arrived = x.arrived /\ Stays(x, y)
  BY <1>1, <1>5 DEF SameLayer, SameCounts, Stays
<1>8. HandedOn(y, y.given)
  BY <1>1, <1>5, <1>6, <1>7, Fields DEF HandedOn, Idle, SameLayer, SameCounts, SameMac, SameRadio
<1>9. Counted(y)
  BY <1>1, <1>5, <1>6 DEF Counted, Owed, Waiting, SameLayer, SameCounts
<1> QED  BY <1>3, <1>5, <1>7, <1>8, <1>9

(* What a callback of the receive has made of the device, its frame with the MAC or not *)
Resumed(x, y) ==
  \/ Down(y) /\ y.given = x.given
  \/ Idle(y) /\ y.state = "SEND" /\ y.psSendHeader = None /\ ~y.pfSendCB /\ y.given = x.given
     /\ x.psSendHeader = None
  \/ HandedOn(y, y.given) /\ y.given = Sent(x) + 1

LEMMA TurnBegins ==
  ASSUME NEW x \in Device, Counted(x), Idle(x), x.state = "SEND", x.deferred = 0,
         x.pfSendCB => x.psSendHeader # None, NEW frame \in Frames, NEW replies
  PROVE  LET y == Resume(HandleIncomingPacket(x, frame, replies))
         IN /\ y \in Device /\ Counted(y) /\ Stays(x, y) /\ Resumed(x, y)
            /\ y.given \in {x.given, x.given + 1}
            /\ IF y.state = "CHECKED" THEN y.arrived = x.arrived ELSE Arrives(x, y, frame)
<1> DEFINE a == HandleIncomingPacket(x, frame, replies)
           y == Resume(a)
<1>0. Resume(HandleIncomingPacket(x, frame, replies)) = y
  OBVIOUS
<1>1. /\ a \in Device /\ Counted(a) /\ Stays(x, a) /\ a.deferred = x.deferred
      /\ \/ Down(a) /\ a.arrived = x.arrived /\ a.given = x.given
         \/ Arrives(x, a, frame) /\ (Keeps(x, a) \/ HandsOn(x, a))
  BY Incoming
<1> HIDE DEF a
<1>2. x.given \in Nat /\ Sent(x) + 1 = IF x.psSendHeader = None THEN x.given + 1 ELSE x.given
  BY Fields, LinkAssumption DEF Sent, Counts
<1>3. CASE Down(a) /\ a.arrived = x.arrived /\ a.given = x.given
  <2>1. y = a
    BY <1>3 DEF Resume, Down
  <2> HIDE DEF y
  <2> QED  BY <1>0, <1>1, <1>3, <2>1 DEF Resumed, Down
<1>4. CASE Arrives(x, a, frame) /\ Keeps(x, a) /\ x.psSendHeader # None
  <2>1. y = HandlePendingSend(a) /\ a.psSendHeader # None /\ Idle(a) /\ a.state = "SEND"
    BY <1>4 DEF Resume, Keeps
  <2> HIDE DEF y
  <2>2. /\ y \in Device /\ Counted(y) /\ Stays(a, y) /\ y.arrived = a.arrived
        /\ HandedOn(y, y.given) /\ y.given = a.given
    BY <1>1, <2>1, PendingSent
  <2>3. y.given = x.given /\ Stays(x, y) /\ Arrives(x, y, frame)
    BY <1>1, <1>4, <2>2 DEF Keeps, Stays, Arrives
  <2>4. Resumed(x, y)
    BY <1>2, <1>4, <2>2, <2>3 DEF Resumed
  <2> QED  BY <1>0, <2>2, <2>3, <2>4 DEF HandedOn
<1>5. CASE Arrives(x, a, frame) /\ Keeps(x, a) /\ x.psSendHeader = None
  <2>1. y = ResetLTO(a) /\ a.state = "SEND" /\ Idle(a) /\ a.psSendHeader = None /\ ~a.pfSendCB
    BY <1>5 DEF Resume, Keeps
  <2> HIDE DEF y
  <2>2. /\ y \in Device /\ SameLink(a, y) /\ SameMac(a, y) /\ y.arrived = a.arrived
        /\ y.role = a.role /\ y.given = a.given /\ y.told = a.told
    BY <1>1, <2>1, LTOReset
  <2>3. y.given = x.given /\ Stays(x, y) /\ Arrives(x, y, frame)
    BY <1>1, <1>5, <2>2 DEF Keeps, Stays, Arrives
  <2>4. Idle(y) /\ y.state = "SEND" /\ y.psSendHeader = None /\ ~y.pfSendCB
    BY <2>1, <2>2 DEF Idle, SameLink, SameMac, SameRadio
  <2>5. Counted(y)
    BY <1>1, <2>2 DEF Counted, Owed, Waiting, SameLink
  <2> QED  BY <1>0, <1>5, <2>2, <2>3, <2>4, <2>5 DEF Resumed
<1>6. CASE Arrives(x, a, frame) /\ HandsOn(x, a)
  <2>1. y = ResetLTO(a) /\ a.state = "RECV" /\ a.psSendHeader = None /\ HandedOn(a, a.given)
    BY <1>6 DEF Resume, HandsOn, HandedOn
  <2> HIDE DEF y
  <2>2. /\ y \in Device /\ SameLink(a, y) /\ SameMac(a, y) /\ y.arrived = a.arrived
        /\ y.role = a.role /\ y.given = a.given /\ y.told = a.told
    BY <1>1, <2>1, LTOReset
  <2>3. y.given = x.given + 1 /\ Stays(x, y) /\ Arrives(x, y, frame)
    BY <1>1, <1>6, <2>2 DEF HandsOn, Stays, Arrives
  <2>4. HandedOn(y, y.given)
    BY <2>1, <2>2 DEF HandedOn, Held, Out, SameLink, SameMac, SameRadio
  <2>5. Counted(y)
    BY <1>1, <2>2 DEF Counted, Owed, Waiting, SameLink
  <2>6. Resumed(x, y)
    BY <1>2, <1>6, <2>3, <2>4 DEF Resumed, HandsOn
  <2> QED  BY <1>0, <2>2, <2>3, <2>4, <2>5, <2>6 DEF HandedOn
<1> QED  BY <1>1, <1>3, <1>4, <1>5, <1>6

Forgotten(x) == [x EXCEPT !.MacReceive_Cb = FALSE]
Kept(x) == [x EXCEPT !.bDiscPendingFlag = FALSE]

LEMMA ForgottenRecord ==
  ASSUME NEW x \in Device, NEW y, y = Forgotten(x)
  PROVE  /\ y \in Device /\ SameCounts(x, y) /\ SameLink(x, y) /\ ~y.MacReceive_Cb
         /\ (y.MacSend_Cb <=> x.MacSend_Cb) /\ (y.SendPending <=> x.SendPending)
         /\ (y.RecvPending <=> x.RecvPending) /\ (y.sending <=> x.sending)
         /\ (y.receiving <=> x.receiving) /\ y.out = x.out
         /\ (y.bDiscPendingFlag <=> x.bDiscPendingFlag)
<1>1. y \in Device
  BY DEF Device, Forgotten
<1>2. SameCounts(x, y) /\ SameLink(x, y)
  BY DEF Device, SameCounts, SameLink, Forgotten
<1>3. /\ ~y.MacReceive_Cb
      /\ (y.MacSend_Cb <=> x.MacSend_Cb) /\ (y.SendPending <=> x.SendPending)
      /\ (y.RecvPending <=> x.RecvPending) /\ (y.sending <=> x.sending)
      /\ (y.receiving <=> x.receiving) /\ y.out = x.out
      /\ (y.bDiscPendingFlag <=> x.bDiscPendingFlag)
  BY DEF Device, Forgotten
<1> QED  BY <1>1, <1>2, <1>3

LEMMA KeptRecord ==
  ASSUME NEW x \in Device, NEW y, y = Kept(x)
  PROVE  y \in Device /\ SameCounts(x, y) /\ SameLink(x, y) /\ SameMac(x, y)
<1>1. y \in Device
  BY DEF Device, Kept
<1>2. SameCounts(x, y) /\ SameLink(x, y) /\ SameMac(x, y)
  BY DEF Device, SameCounts, SameLink, SameMac, SameRadio, Kept
<1> QED  BY <1>1, <1>2

(* The receive ends with a failure, or a DISC was asked for: the link ends. *)
LEMMA ReceiveEnds ==
  ASSUME NEW x \in Device, Counted(x), x.state # "CHECKED", x.out = None
  PROVE  LET y == InternalDeactivate(Kept(Forgotten(x))) IN y \in Device /\ BreaksDown(x, y)
<1> DEFINE a == Forgotten(x)
           b == Kept(a)
           y == InternalDeactivate(b)
<1>0. InternalDeactivate(Kept(Forgotten(x))) = y
  OBVIOUS
<1>1. /\ a \in Device /\ SameCounts(x, a) /\ SameLink(x, a) /\ a.out = x.out
      /\ (a.sending <=> x.sending) /\ (a.receiving <=> x.receiving)
  BY ForgottenRecord
<1> HIDE DEF a
<1>2. b \in Device /\ SameCounts(a, b) /\ SameLink(a, b) /\ SameMac(a, b)
  BY <1>1, KeptRecord
<1> HIDE DEF b
<1>3. Owed(b) /\ b.state # "CHECKED" /\ b.downs = 0 /\ b.out = None
  BY <1>1, <1>2 DEF Counted, Owed, Waiting, SameCounts, SameLink, SameMac, SameRadio
<1>4. y \in Device /\ BreaksDown(b, y) /\ y.given = b.given
  BY <1>2, <1>3, LinkDown
<1> HIDE DEF y
<1> QED  BY <1>0, <1>1, <1>2, <1>4 DEF BreaksDown, SameCounts, SameMac, SameRadio

LEMMA ReceiveFails ==
  ASSUME NEW x \in Device, Counted(x), x.state # "CHECKED", x.out = None, x.MacReceive_Cb,
         NEW frame, NEW replies
  PROVE  LET y == TriggerRecvCb(x, FALSE, frame, replies) IN y \in Device /\ BreaksDown(x, y)
<1>1. TriggerRecvCb(x, FALSE, frame, replies) = InternalDeactivate(Kept(Forgotten(x)))
  BY DEF TriggerRecvCb, Receive_CB, Kept, Forgotten
<1> QED  BY <1>1, ReceiveEnds

(* Nothing comes of a callback once the link is down. *)
LEMMA StaysDown ==
  ASSUME NEW x \in Device, Down(x), NEW ok \in BOOLEAN, NEW frame, NEW replies
  PROVE  LET y == TriggerRecvCb(x, ok, frame, replies)
         IN y \in Device /\ SameCounts(x, y) /\ SameLink(x, y) /\ Down(y)
<1> DEFINE a == Forgotten(x)
<1>1. /\ a \in Device /\ SameCounts(x, a) /\ SameLink(x, a) /\ a.out = x.out
      /\ (a.MacSend_Cb <=> x.MacSend_Cb) /\ (a.SendPending <=> x.SendPending)
  BY ForgottenRecord
<1>2. CASE ~x.MacReceive_Cb
  BY <1>2 DEF TriggerRecvCb, SameCounts, SameLink
<1>3. CASE x.MacReceive_Cb /\ (~ok \/ a.bDiscPendingFlag)
  <2> DEFINE b == Kept(a)
  <2>1. TriggerRecvCb(x, ok, frame, replies) = InternalDeactivate(b)
    BY <1>3 DEF TriggerRecvCb, Receive_CB, Kept, Forgotten
  <2> HIDE DEF a
  <2>2. b \in Device /\ SameCounts(a, b) /\ SameLink(a, b) /\ SameMac(a, b)
    BY <1>1, KeptRecord
  <2> HIDE DEF b
  <2>3. b.state = "CHECKED" /\ SameCounts(x, b) /\ SameLink(x, b) /\ Down(b)
    BY <1>1, <2>2 DEF Down, SameCounts, SameLink, SameMac, SameRadio
  <2>4. InternalDeactivate(b) = b
    BY <2>3 DEF InternalDeactivate
  <2> QED  BY <2>1, <2>2, <2>3, <2>4
<1>4. CASE x.MacReceive_Cb /\ ok /\ ~a.bDiscPendingFlag
  <2>1. a.state = "CHECKED" /\ Down(a)
    BY <1>1 DEF Down, SameLink
  <2>2. TriggerRecvCb(x, ok, frame, replies) = MacReceive(a)
    BY <1>4, <2>1 DEF TriggerRecvCb, Receive_CB, Forgotten
  <2> HIDE DEF a
  <2> DEFINE y == MacReceive(a)
  <2>3. y \in Device /\ SameCounts(a, y) /\ SameLink(a, y) /\ Down(y)
    BY <1>1, <2>1, ReceiveAfterDown
  <2> HIDE DEF y
  <2>4. TriggerRecvCb(x, ok, frame, replies) = y
    BY <2>2 DEF y
  <2> QED  BY <1>1, <2>3, <2>4 DEF SameCounts, SameLink
<1> QED  BY <1>2, <1>3, <1>4

(* After a receive: the link is down, the turn is the device's, or its frame leaves. *)
Received(x, y, frame) ==
  /\ Counted(y) /\ Stays(x, y) /\ y.given \in {x.given, x.given + 1}
  /\ \/ Down(y) /\ y.arrived = x.arrived
     \/ Arrives(x, y, frame) /\ Turn(y) /\ y.out = None /\ Sent(y) = Sent(x)
     \/ Arrives(x, y, frame) /\ Leaves(y, y.given) /\ y.given = Sent(x) + 1

LEMMA ReceiveCallback ==
  ASSUME NEW x \in Device, Counted(x), x.state = "RECV", x.deferred = 0, x.MacReceive_Cb,
         Idle(Forgotten(x)), x.pfSendCB => x.psSendHeader # None,
         NEW frame \in Frames, NEW replies
  PROVE  LET y == TriggerRecvCb(x, TRUE, frame, replies)
         IN y \in Device /\ Received(x, y, frame)
<1> DEFINE a == Forgotten(x)
           b == Begun(a)
           c == Resume(HandleIncomingPacket(b, frame, replies))
           y == MacReceive(c)
<1>1. /\ a \in Device /\ SameCounts(x, a) /\ SameLink(x, a)
  BY ForgottenRecord
<1>2. Idle(a) /\ a.state = "RECV"
  BY <1>1 DEF SameLink
<1>3. CASE a.bDiscPendingFlag
  <2> DEFINE z == InternalDeactivate(Kept(Forgotten(x)))
  <2>1. TriggerRecvCb(x, TRUE, frame, replies) = z
    BY <1>3 DEF TriggerRecvCb, Receive_CB, Kept, Forgotten
  <2>2. x.out = None
    BY ForgottenRecord DEF Idle
  <2>3. z \in Device /\ BreaksDown(x, z)
    BY <2>2, ReceiveEnds
  <2> HIDE DEF z
  <2> QED  BY <2>1, <2>3 DEF BreaksDown, Received, Stays
<1>4. CASE ~a.bDiscPendingFlag
  <2>1. TriggerRecvCb(x, TRUE, frame, replies) = y
    BY <1>2, <1>4 DEF TriggerRecvCb, Receive_CB, Resume, Begun, Forgotten
  <2> HIDE DEF a
  <2>2. /\ b \in Device /\ SameCounts(a, b) /\ SameMac(a, b) /\ b.state = "SEND"
        /\ (b.pfSendCB <=> a.pfSendCB) /\ b.psSendHeader = a.psSendHeader
        /\ b.refused = a.refused /\ b.downs = a.downs
    BY <1>1, BegunRecord
  <2> HIDE DEF b
  <2>3. Counted(b) /\ Idle(b) /\ b.deferred = 0 /\ (b.pfSendCB => b.psSendHeader # None)
    BY <1>1, <1>2, <2>2
       DEF Counted, Owed, Waiting, Idle, SameCounts, SameLink, SameMac, SameRadio
  <2>4. /\ c \in Device /\ Counted(c) /\ Stays(b, c) /\ Resumed(b, c)
        /\ c.given \in {b.given, b.given + 1}
        /\ IF c.state = "CHECKED" THEN c.arrived = b.arrived ELSE Arrives(b, c, frame)
    BY <2>2, <2>3, TurnBegins
  <2> HIDE DEF c
  <2>5. /\ Stays(x, c) /\ c.given \in {x.given, x.given + 1} /\ Sent(b) = Sent(x)
        /\ b.given = x.given /\ b.arrived = x.arrived /\ b.psSendHeader = x.psSendHeader
    BY <1>1, <2>2, <2>4 DEF Stays, SameCounts, SameLink, Sent
  <2>6. ASSUME SameCounts(c, y), SameLink(c, y)
        PROVE  /\ Stays(x, y) /\ y.given \in {x.given, x.given + 1} /\ Counted(y)
               /\ y.given = c.given /\ y.arrived = c.arrived /\ y.psSendHeader = c.psSendHeader
    <3> HIDE DEF y
    <3> QED  BY <2>4, <2>5, <2>6 DEF Stays, Counted, Owed, Waiting, SameCounts, SameLink
  <2>7. CASE Down(c) /\ c.given = b.given
    <3>1. y \in Device /\ SameCounts(c, y) /\ SameLink(c, y) /\ Down(y)
      BY <2>4, <2>7, ReceiveAfterDown
    <3> HIDE DEF y
    <3>2. c.arrived = x.arrived
      BY <2>4, <2>5, <2>7 DEF Down
    <3> QED  BY <2>1, <2>6, <3>1, <3>2 DEF Received
  <2>8. CASE Idle(c) /\ c.state = "SEND" /\ c.psSendHeader = None /\ ~c.pfSendCB
             /\ c.given = b.given /\ b.psSendHeader = None
    <3>1. y \in Device /\ SameCounts(c, y) /\ SameLink(c, y) /\ Turn(y) /\ y.out = None
      BY <2>4, <2>8, ReceiveAfterTurn
    <3> HIDE DEF y
    <3>2. Arrives(x, c, frame)
      BY <2>4, <2>5, <2>8 DEF Arrives
    <3>3. Sent(y) = Sent(x) /\ Arrives(x, y, frame)
      BY <2>5, <2>6, <2>8, <3>1, <3>2 DEF Sent, Arrives
    <3> QED  BY <2>1, <2>6, <3>1, <3>3 DEF Received
  <2>9. CASE HandedOn(c, c.given) /\ c.given = Sent(b) + 1
    <3>1. y \in Device /\ SameCounts(c, y) /\ SameLink(c, y) /\ Leaves(y, c.given)
      BY <2>4, <2>9, ReceiveAfterHandedOn
    <3> HIDE DEF y
    <3>2. Arrives(x, c, frame)
      BY <2>4, <2>5, <2>9 DEF Arrives, HandedOn
    <3>3. y.given = Sent(x) + 1 /\ Leaves(y, y.given) /\ Arrives(x, y, frame)
      BY <2>5, <2>6, <2>9, <3>1, <3>2 DEF Arrives
    <3> QED  BY <2>1, <2>6, <3>1, <3>3 DEF Received
  <2> QED  BY <2>4, <2>7, <2>8, <2>9 DEF Resumed
<1> QED  BY <1>3, <1>4
-----------------------------------------------------------------------------
(* The messages of a device: what a step that consumes f, or None, makes of it *)
Outcome(x, y, f) ==
  /\ y.role = x.role /\ Good(y) /\ y.given >= x.given
  /\ Alive(y) => Alive(x)
  /\ \/ y.arrived = x.arrived /\ (Alive(y) => ~Numbered(f))
     \/ Numbered(f) /\ x.state = "RECV" /\ y.arrived = Append(x.arrived, f)
  /\ \/ y.told = x.told
     \/ /\ y.told = x.told + 1 /\ x.psSendHeader = None /\ x.pfSendCB /\ Alive(x)
        /\ x.role = "Initiator" => f # None
  /\ y.out # None => Waits(y) /\ (x.state = "SEND" \/ f # None)
  /\ Alive(y) => Sent(y) = IF Numbered(y.out) THEN Sent(x) + 1 ELSE Sent(x)
  /\ Numbered(y.out) => y.out = Sent(y)
  /\ y.state = "SEND" => y.out = None /\ (x.state = "SEND" \/ f # None)

LEMMA DownOutcome ==
  ASSUME NEW x \in Device, NEW y \in Device, Counted(y), Down(y), y.role = x.role,
         y.given >= x.given, y.arrived = x.arrived, y.told = x.told, NEW f
  PROVE  Outcome(x, y, f)
  BY Values DEF Outcome, Good, Down, Alive, Numbered, None

TransceiveOver(x) ==
  [x EXCEPT !.sending = FALSE, !.receiving = FALSE, !.SendPending = FALSE, !.RecvPending = FALSE]
SendOver(x) == [x EXCEPT !.sending = FALSE, !.SendPending = FALSE, !.RecvPending = FALSE]
ReceiveOver(x) == [x EXCEPT !.receiving = FALSE]

LEMMA TransceiveOverRecord ==
  ASSUME NEW x \in Device, NEW y, y = TransceiveOver(x)
  PROVE  /\ y \in Device /\ SameCounts(x, y) /\ SameLink(x, y) /\ y.out = x.out
         /\ (y.MacSend_Cb <=> x.MacSend_Cb) /\ (y.MacReceive_Cb <=> x.MacReceive_Cb)
         /\ ~y.sending /\ ~y.receiving /\ ~y.SendPending /\ ~y.RecvPending
<1>1. y \in Device
  BY DEF Device, TransceiveOver
<1>2. SameCounts(x, y) /\ SameLink(x, y)
  BY DEF Device, SameCounts, SameLink, TransceiveOver
<1>3. /\ y.out = x.out
      /\ (y.MacSend_Cb <=> x.MacSend_Cb) /\ (y.MacReceive_Cb <=> x.MacReceive_Cb)
      /\ ~y.sending /\ ~y.receiving /\ ~y.SendPending /\ ~y.RecvPending
  BY DEF Device, TransceiveOver
<1> QED  BY <1>1, <1>2, <1>3

LEMMA SendOverRecord ==
  ASSUME NEW x \in Device, NEW y, y = SendOver(x)
  PROVE  /\ y \in Device /\ SameCounts(x, y) /\ SameLink(x, y) /\ y.out = x.out
         /\ (y.MacSend_Cb <=> x.MacSend_Cb) /\ (y.MacReceive_Cb <=> x.MacReceive_Cb)
         /\ ~y.sending /\ (y.receiving <=> x.receiving) /\ ~y.SendPending /\ ~y.RecvPending
<1>1. y \in Device
  BY DEF Device, SendOver
<1>2. SameCounts(x, y) /\ SameLink(x, y)
  BY DEF Device, SameCounts, SameLink, SendOver
<1>3. /\ y.out = x.out
      /\ (y.MacSend_Cb <=> x.MacSend_Cb) /\ (y.MacReceive_Cb <=> x.MacReceive_Cb)
      /\ ~y.sending /\ (y.receiving <=> x.receiving) /\ ~y.SendPending /\ ~y.RecvPending
  BY DEF Device, SendOver
<1> QED  BY <1>1, <1>2, <1>3

LEMMA ReceiveOverRecord ==
  ASSUME NEW x \in Device, NEW y, y = ReceiveOver(x)
  PROVE  /\ y \in Device /\ SameCounts(x, y) /\ SameLink(x, y) /\ y.out = x.out
         /\ (y.MacSend_Cb <=> x.MacSend_Cb) /\ (y.MacReceive_Cb <=> x.MacReceive_Cb)
         /\ (y.sending <=> x.sending) /\ ~y.receiving
         /\ (y.SendPending <=> x.SendPending) /\ (y.RecvPending <=> x.RecvPending)
<1>1. y \in Device
  BY DEF Device, ReceiveOver
<1>2. SameCounts(x, y) /\ SameLink(x, y)
  BY DEF Device, SameCounts, SameLink, ReceiveOver
<1>3. /\ y.out = x.out
      /\ (y.MacSend_Cb <=> x.MacSend_Cb) /\ (y.MacReceive_Cb <=> x.MacReceive_Cb)
      /\ (y.sending <=> x.sending) /\ ~y.receiving
      /\ (y.SendPending <=> x.SendPending) /\ (y.RecvPending <=> x.RecvPending)
  BY DEF Device, ReceiveOver
<1> QED  BY <1>1, <1>2, <1>3

LEMMA BrokenOutcome ==
  ASSUME NEW x \in Device, NEW y \in Device, BreaksDown(x, y), NEW f
  PROVE  Outcome(x, y, f)
<1>1. y.given >= x.given
  BY Fields, LinkAssumption DEF BreaksDown, Counts
<1> QED  BY <1>1, DownOutcome DEF BreaksDown

LEMMA StillDownOutcome ==
  ASSUME NEW x \in Device, Counted(x), Down(x), NEW y \in Device, SameCounts(x, y), SameLink(x, y),
         Down(y), NEW f
  PROVE  Outcome(x, y, f)
<1>1. Counted(y)
  BY DEF Counted, Owed, Waiting, SameCounts, SameLink
<1>2. y.given >= x.given
  BY Fields, LinkAssumption DEF SameCounts, Counts
<1> QED  BY <1>1, <1>2, DownOutcome DEF SameCounts

LEMMA SentCount ==
  ASSUME NEW x \in Device, Owed(x)
  PROVE  /\ Sent(x) \in 0..MaxFrames /\ Sent(x) \in {x.given, x.given - 1}
         /\ x.psSendHeader = None => Sent(x) = x.given
<1>1. x.given \in 0..MaxFrames
  BY Fields DEF Counts
<1>2. x.psSendHeader # None => x.given # 0
  BY DEF Owed, None
<1> QED  BY <1>1, <1>2, LinkAssumption DEF Sent

(* The frame of the layer above has gone out, or the turn is there, or nothing is. *)
LEMMA ReceivedOutcome ==
  ASSUME NEW x \in Device, NEW y \in Device, NEW w \in Device, NEW f \in Frames,
         Counted(x), x.state = "RECV", w.role = x.role, w.arrived = x.arrived, Sent(w) = Sent(x),
         w.given \in {x.given, x.given + 1}, ToldOf(x, w), Received(w, y, f),
         y.SendPending => y.sending
  PROVE  Outcome(x, y, f)
<1>1. y.given >= x.given
  BY Fields, LinkAssumption DEF Received, Counts
<1>2. y.role = x.role /\ y.told = w.told
  BY DEF Received, Stays
<1>3. f # None /\ Alive(x)
  BY Values DEF Alive
<1>4. CASE Down(y) /\ y.arrived = w.arrived
  BY <1>1, <1>2, <1>3, <1>4, Values DEF Outcome, Good, Down, Alive, Numbered, None, ToldOf, Received
<1>5. CASE Arrives(w, y, f) /\ Turn(y) /\ y.out = None /\ Sent(y) = Sent(w)
  <2>1. ~Numbered(y.out)
    BY <1>5 DEF Numbered, None
  <2>2. Good(y)
    BY <1>5 DEF Good, Received
  <2> QED  BY <1>1, <1>2, <1>3, <1>5, <2>1, <2>2 DEF Outcome, Arrives, Alive, Numbered, ToldOf
<1>6. CASE Arrives(w, y, f) /\ Leaves(y, y.given) /\ y.given = Sent(w) + 1
  <2>1. Waits(y) /\ y.out = y.given
    BY <1>6 DEF Waits, Leaves
  <2>2. Sent(y) = y.given
    BY <1>6, Fields, LinkAssumption DEF Leaves, Sent, Counts
  <2>3. Sent(y) = Sent(x) + 1 /\ Numbered(y.out)
    <3>1. Sent(x) \in 0..MaxFrames /\ y.given \in 0..MaxFrames
      BY SentCount, Fields DEF Counted, Counts
    <3> QED  BY <1>6, <2>1, <2>2, <3>1, LinkAssumption DEF Numbered
  <2>4. Good(y) /\ y.state = "RECV"
    BY <1>6, <2>1 DEF Good, Received, Leaves
  <2> QED  BY <1>1, <1>2, <1>3, <1>6, <2>1, <2>2, <2>3, <2>4
           DEF Outcome, Arrives, Alive, Numbered, ToldOf
<1> QED  BY <1>4, <1>5, <1>6 DEF Received

(* Forgetting the callback of the receive leaves an idle MAC. *)
LEMMA IdleAfter ==
  ASSUME NEW x \in Device, ~x.MacSend_Cb, ~x.SendPending, ~x.sending, ~x.receiving,
         x.out = None, x.role = "Initiator" => ~x.RecvPending
  PROVE  Idle(Forgotten(x))
<1> DEFINE a == Forgotten(x)
<1>1. /\ SameCounts(x, a) /\ ~a.MacReceive_Cb
      /\ (a.MacSend_Cb <=> x.MacSend_Cb) /\ (a.SendPending <=> x.SendPending)
      /\ (a.RecvPending <=> x.RecvPending) /\ (a.sending <=> x.sending)
      /\ (a.receiving <=> x.receiving) /\ a.out = x.out
  BY ForgottenRecord
<1> HIDE DEF a
<1>2. Idle(a)
  BY <1>1 DEF Idle, SameCounts
<1> QED  BY <1>2 DEF a

LEMMA TransceiveCallback ==
  ASSUME NEW x, Good(x), x.role = "Initiator", x.receiving, x.out = None, x.deferred = 0,
         NEW f \in Frames, NEW replies
  PROVE  Outcome(x, TriggerRecvCb(TriggerSendCb(TransceiveOver(x), TRUE, replies), TRUE, f,
                                  replies), f)
<1> DEFINE r == TransceiveOver(x)
           w == TriggerSendCb(r, TRUE, replies)
           y == TriggerRecvCb(w, TRUE, f, replies)
<1>0. TriggerRecvCb(TriggerSendCb(TransceiveOver(x), TRUE, replies), TRUE, f, replies) = y
  OBVIOUS
<1>1. x \in Device /\ Counted(x) /\ (Down(x) \/ Waits(x))
  BY DEF Good, Turn
<1>2. /\ r \in Device /\ SameCounts(x, r) /\ SameLink(x, r) /\ r.out = x.out
      /\ (r.MacSend_Cb <=> x.MacSend_Cb) /\ (r.MacReceive_Cb <=> x.MacReceive_Cb)
      /\ ~r.sending /\ ~r.receiving /\ ~r.SendPending /\ ~r.RecvPending
  BY <1>1, TransceiveOverRecord
<1>3. Counted(r)
  BY <1>1, <1>2 DEF Counted, Owed, Waiting, SameCounts, SameLink
<1>4. CASE Down(x)
  <2>1. w = r
    BY <1>2, <1>4 DEF TriggerSendCb, Down
  <2> HIDE DEF r, w
  <2>2. Down(r)
    BY <1>2, <1>4 DEF Down, SameLink
  <2>3. y \in Device /\ SameCounts(r, y) /\ SameLink(r, y) /\ Down(y)
    BY <1>2, <2>1, <2>2, StaysDown
  <2> HIDE DEF y
  <2>4. SameCounts(x, y) /\ SameLink(x, y)
    BY <1>2, <2>3 DEF SameCounts, SameLink
  <2> QED  BY <1>0, <1>1, <1>4, <2>3, <2>4, StillDownOutcome
<1>5. CASE Waits(x)
  <2>1. r.state = "RECV" /\ r.MacSend_Cb /\ r.MacReceive_Cb /\ r.role = "Initiator" /\ r.deferred = 0
    BY <1>2, <1>5 DEF Waits, SameCounts, SameLink
  <2> HIDE DEF r
  <2>2. w \in Device /\ Counted(w) /\ Tells(r, w) /\ ToldOf(r, w) /\ ~w.MacSend_Cb
    BY <1>2, <1>3, <2>1, SendCallback
  <2> HIDE DEF w
  <2>3. /\ w.state = "RECV" /\ w.MacReceive_Cb /\ w.role = "Initiator" /\ w.deferred = 0
        /\ ~w.SendPending /\ ~w.sending /\ ~w.receiving /\ ~w.RecvPending /\ w.out = None
        /\ w.pfSendCB => w.psSendHeader # None
    BY <1>2, <2>1, <2>2 DEF Tells, SameRadio
  <2>4. Idle(Forgotten(w))
    BY <2>2, <2>3, IdleAfter
  <2>5. y \in Device /\ Received(w, y, f)
    BY <2>2, <2>3, <2>4, ReceiveCallback
  <2> HIDE DEF y
  <2>6. /\ w.role = x.role /\ w.arrived = x.arrived /\ Sent(w) = Sent(x) /\ x.state = "RECV"
        /\ w.given \in {x.given, x.given + 1} /\ ToldOf(x, w)
    BY <1>2, <2>1, <2>2 DEF Tells, ToldOf, Sent, SameCounts, SameLink
  <2>7. y.SendPending => y.sending
    BY <1>1, <2>5, <2>6 DEF Received, Stays, Down, Turn, Leaves
  <2> QED  BY <1>0, <1>1, <2>2, <2>5, <2>6, <2>7, ReceivedOutcome
<1> QED  BY <1>1, <1>4, <1>5

LEMMA TransceiveFailure ==
  ASSUME NEW x, Good(x), x.role = "Initiator", x.receiving, x.out = None,
         NEW f, NEW replies
  PROVE  Outcome(x, TriggerRecvCb(TriggerSendCb(TransceiveOver(x), FALSE, replies), FALSE, f,
                                  replies), None)
<1> DEFINE r == TransceiveOver(x)
           w == TriggerSendCb(r, FALSE, replies)
           y == TriggerRecvCb(w, FALSE, f, replies)
<1>0. TriggerRecvCb(TriggerSendCb(TransceiveOver(x), FALSE, replies), FALSE, f, replies) = y
  OBVIOUS
<1>1. x \in Device /\ Counted(x) /\ (Down(x) \/ Waits(x))
  BY DEF Good, Turn
<1>2. /\ r \in Device /\ SameCounts(x, r) /\ SameLink(x, r) /\ r.out = x.out
      /\ (r.MacSend_Cb <=> x.MacSend_Cb) /\ ~r.SendPending
  BY <1>1, TransceiveOverRecord
<1>3. Counted(r)
  BY <1>1, <1>2 DEF Counted, Owed, Waiting, SameCounts, SameLink
<1>4. CASE Down(x)
  <2>1. w = r
    BY <1>2, <1>4 DEF TriggerSendCb, Down
  <2> HIDE DEF r, w
  <2>2. Down(r)
    BY <1>2, <1>4 DEF Down, SameLink
  <2>3. y \in Device /\ SameCounts(r, y) /\ SameLink(r, y) /\ Down(y)
    BY <1>2, <2>1, <2>2, StaysDown
  <2> HIDE DEF y
  <2>4. SameCounts(x, y) /\ SameLink(x, y)
    BY <1>2, <2>3 DEF SameCounts, SameLink
  <2> QED  BY <1>0, <1>1, <1>4, <2>3, <2>4, StillDownOutcome
<1>5. CASE Waits(x)
  <2>1. r.state = "RECV" /\ r.MacSend_Cb /\ r.out = None
    BY <1>2, <1>5 DEF Waits, SameCounts, SameLink
  <2> HIDE DEF r
  <2>2. w \in Device /\ BreaksDown(r, w)
    BY <1>2, <1>3, <2>1, SendCallbackFails
  <2> HIDE DEF w
  <2>3. y = w
    BY <2>2 DEF TriggerRecvCb, BreaksDown
  <2> HIDE DEF y
  <2>4. w.given >= x.given /\ w.role = x.role /\ w.arrived = x.arrived /\ w.told = x.told
    BY <1>1, <1>2, <2>2, Fields, LinkAssumption DEF BreaksDown, SameCounts, Counts
  <2> QED  BY <1>0, <1>1, <2>2, <2>3, <2>4, DownOutcome DEF BreaksDown
<1> QED  BY <1>1, <1>4, <1>5

LEMMA TargetSendCallback ==
  ASSUME NEW x, Good(x), x.role = "Target", x.sending, x.out = None, NEW ok \in BOOLEAN,
         NEW replies
  PROVE  Outcome(x, TriggerSendCb(SendOver(x), ok, replies), None)
<1> DEFINE r == SendOver(x)
           y == TriggerSendCb(r, ok, replies)
<1>0. TriggerSendCb(SendOver(x), ok, replies) = y
  OBVIOUS
<1>1. x \in Device /\ Counted(x) /\ (Down(x) \/ Waits(x))
  BY DEF Good, Turn
<1>2. /\ r \in Device /\ SameCounts(x, r) /\ SameLink(x, r) /\ r.out = x.out
      /\ (r.MacSend_Cb <=> x.MacSend_Cb) /\ (r.MacReceive_Cb <=> x.MacReceive_Cb)
      /\ ~r.sending /\ (r.receiving <=> x.receiving) /\ ~r.SendPending /\ ~r.RecvPending
  BY <1>1, SendOverRecord
<1>3. Counted(r)
  BY <1>1, <1>2 DEF Counted, Owed, Waiting, SameCounts, SameLink
<1>4. CASE Down(x)
  <2>1. y = r
    BY <1>2, <1>4 DEF TriggerSendCb, Down
  <2> HIDE DEF r, y
  <2>2. Down(r)
    BY <1>2, <1>4 DEF Down, SameLink
  <2> QED  BY <1>0, <1>1, <1>2, <1>4, <2>1, <2>2, StillDownOutcome
<1>5. CASE Waits(x)
  <2>1. r.state = "RECV" /\ r.MacSend_Cb /\ r.MacReceive_Cb /\ r.role = "Target" /\ r.receiving
    BY <1>2, <1>5 DEF Waits, SameCounts, SameLink
  <2> HIDE DEF r
  <2>2. CASE ok
    <3>1. y = TriggerSendCb(r, TRUE, replies)
      BY <2>2
    <3> HIDE DEF y
    <3>2. y \in Device /\ Counted(y) /\ Tells(r, y) /\ ToldOf(r, y) /\ ~y.MacSend_Cb
      BY <1>2, <1>3, <2>1, <3>1, SendCallback
    <3>3. Waits(y) /\ y.out = None /\ y.state = "RECV"
      BY <1>2, <2>1, <3>2 DEF Waits, Tells, SameRadio
    <3>4. Sent(y) = Sent(x) /\ y.role = x.role /\ y.arrived = x.arrived /\ ToldOf(x, y)
          /\ x.state = "RECV"
      BY <1>2, <2>1, <3>2 DEF Tells, ToldOf, Sent, SameCounts, SameLink
    <3>5. y.given >= x.given
      BY <1>1, <1>2, <3>2, Fields, LinkAssumption DEF Tells, SameCounts, Counts
    <3>6. ~Numbered(None)
      BY DEF Numbered, None
    <3> QED  BY <1>0, <3>2, <3>3, <3>4, <3>5, <3>6 DEF Outcome, Good, Alive, ToldOf
  <2>3. CASE ~ok
    <3>1. y = TriggerSendCb(r, FALSE, replies)
      BY <2>3
    <3> HIDE DEF y
    <3>2. y \in Device /\ BreaksDown(r, y)
      BY <1>2, <1>3, <2>1, <3>1, SendCallbackFails
    <3>3. y.given >= x.given /\ y.role = x.role /\ y.arrived = x.arrived /\ y.told = x.told
      BY <1>1, <1>2, <3>2, Fields, LinkAssumption DEF BreaksDown, SameCounts, Counts
    <3> QED  BY <1>0, <1>1, <3>2, <3>3, DownOutcome DEF BreaksDown
  <2> QED  BY <2>2, <2>3
<1> QED  BY <1>1, <1>4, <1>5

(* A frame that was held back goes out once the callback of the receive is over. *)
Released(y) == IF y.SendPending THEN MacSend(y) ELSE y

LEMMA TargetReceiveCallback ==
  ASSUME NEW x, Good(x), x.role = "Target", x.receiving, ~x.sending, x.out = None,
         x.deferred = 0, x.state # "SEND", NEW f \in Frames, NEW replies
  PROVE  Outcome(x, Released(TriggerRecvCb(ReceiveOver(x), TRUE, f, replies)), f)
<1> DEFINE r == ReceiveOver(x)
           w == TriggerRecvCb(r, TRUE, f, replies)
           y == Released(w)
<1>0. Released(TriggerRecvCb(ReceiveOver(x), TRUE, f, replies)) = y
  OBVIOUS
<1>1. x \in Device /\ Counted(x) /\ (Down(x) \/ Waits(x))
  BY DEF Good, Turn
<1>2. /\ r \in Device /\ SameCounts(x, r) /\ SameLink(x, r) /\ r.out = x.out
      /\ (r.MacSend_Cb <=> x.MacSend_Cb) /\ (r.MacReceive_Cb <=> x.MacReceive_Cb)
      /\ (r.sending <=> x.sending) /\ ~r.receiving
      /\ (r.SendPending <=> x.SendPending) /\ (r.RecvPending <=> x.RecvPending)
  BY <1>1, ReceiveOverRecord
<1>3. Counted(r)
  BY <1>1, <1>2 DEF Counted, Owed, Waiting, SameCounts, SameLink
<1> HIDE DEF r
<1>4. CASE Down(x)
  <2>1. Down(r)
    BY <1>2, <1>4 DEF Down, SameLink
  <2>2. w \in Device /\ SameCounts(r, w) /\ SameLink(r, w) /\ Down(w)
    BY <1>2, <2>1, StaysDown
  <2> HIDE DEF w
  <2>3. SameCounts(x, w) /\ SameLink(x, w)
    BY <1>2, <2>2 DEF SameCounts, SameLink
  <2>4. y = w
    BY <2>2 DEF Released, Down
  <2> HIDE DEF y
  <2> QED  BY <1>0, <1>1, <1>4, <2>2, <2>3, <2>4, StillDownOutcome
<1>5. CASE Waits(x)
  <2>1. /\ r.state = "RECV" /\ ~r.MacSend_Cb /\ r.MacReceive_Cb /\ r.role = "Target"
        /\ ~r.SendPending /\ ~r.sending /\ ~r.receiving /\ r.out = None /\ r.deferred = 0
        /\ r.pfSendCB => r.psSendHeader # None
    BY <1>2, <1>5 DEF Waits, SameCounts, SameLink
  <2>2. Idle(Forgotten(r))
    BY <1>2, <2>1, IdleAfter
  <2>3. w \in Device /\ Received(r, w, f)
    BY <1>2, <1>3, <2>1, <2>2, ReceiveCallback
  <2> HIDE DEF w
  <2>4. w.role = "Target"
    BY <2>1, <2>3 DEF Received, Stays
  <2>5. y \in Device /\ Received(r, y, f) /\ (y.SendPending => y.sending)
    <3>1. CASE w.SendPending
      <4>1. y = MacSend(w)
        BY <3>1 DEF Released
      <4>2. Arrives(r, w, f) /\ Leaves(w, w.given) /\ w.given = Sent(r) + 1
        BY <2>3, <3>1 DEF Received, Down, Turn
      <4>3. w.RecvPending /\ w.sTxBuffer = w.given
        BY <2>4, <3>1, <4>2 DEF Leaves
      <4>4. /\ y \in Device /\ SameLayer(w, y) /\ y.state = w.state
            /\ y.MacSend_Cb /\ y.sending /\ y.RecvPending
            /\ (y.receiving <=> w.receiving) /\ y.out = w.sTxBuffer /\ y.sTxBuffer = w.sTxBuffer
        BY <2>3, <2>4, <4>1, <4>3, MacSendHeld
      <4> HIDE DEF y
      <4>5. y.given = w.given /\ y.arrived = w.arrived /\ Counted(y)
        BY <2>3, <4>4 DEF SameLayer, SameCounts, Received, Counted, Owed, Waiting
      <4>6. Leaves(y, y.given) /\ Arrives(r, y, f)
        BY <2>4, <4>2, <4>3, <4>4, <4>5 DEF Leaves, Arrives, SameLayer, SameCounts
      <4>7. Stays(r, y) /\ y.given \in {r.given, r.given + 1}
        BY <2>3, <4>4 DEF Received, Stays, SameLayer, SameCounts
      <4> QED  BY <4>2, <4>4, <4>5, <4>6, <4>7 DEF Received
    <3>3. CASE ~w.SendPending
      BY <2>3, <3>3 DEF Released
    <3> QED  BY <3>1, <3>3
  <2> HIDE DEF y
  <2>6. Sent(r) = Sent(x) /\ r.given = x.given /\ r.arrived = x.arrived /\ r.role = x.role
        /\ ToldOf(x, r) /\ x.state = "RECV"
    BY <1>2, <2>1 DEF Sent, ToldOf, SameCounts, SameLink
  <2> QED  BY <1>0, <1>1, <1>2, <2>5, <2>6, ReceivedOutcome
<1> QED  BY <1>1, <1>4, <1>5

LEMMA TargetReceiveFailure ==
  ASSUME NEW x, Good(x), x.out = None, NEW f, NEW replies
  PROVE  Outcome(x, Released(TriggerRecvCb(ReceiveOver(x), FALSE, f, replies)), None)
<1> DEFINE r == ReceiveOver(x)
           w == TriggerRecvCb(r, FALSE, f, replies)
           y == Released(w)
<1>0. Released(TriggerRecvCb(ReceiveOver(x), FALSE, f, replies)) = y
  OBVIOUS
<1>1. x \in Device /\ Counted(x) /\ (Down(x) \/ (x.state # "CHECKED" /\ x.MacReceive_Cb))
  BY DEF Good, Turn, Waits
<1>2. /\ r \in Device /\ SameCounts(x, r) /\ SameLink(x, r) /\ r.out = x.out
      /\ (r.MacSend_Cb <=> x.MacSend_Cb) /\ (r.MacReceive_Cb <=> x.MacReceive_Cb)
      /\ (r.SendPending <=> x.SendPending)
  BY <1>1, ReceiveOverRecord
<1>3. Counted(r)
  BY <1>1, <1>2 DEF Counted, Owed, Waiting, SameCounts, SameLink
<1> HIDE DEF r
<1>4. CASE Down(x)
  <2>1. Down(r)
    BY <1>2, <1>4 DEF Down, SameLink
  <2>2. w \in Device /\ SameCounts(r, w) /\ SameLink(r, w) /\ Down(w)
    BY <1>2, <2>1, StaysDown
  <2> HIDE DEF w
  <2>3. SameCounts(x, w) /\ SameLink(x, w)
    BY <1>2, <2>2 DEF SameCounts, SameLink
  <2>4. y = w
    BY <2>2 DEF Released, Down
  <2> HIDE DEF y
  <2> QED  BY <1>0, <1>1, <1>4, <2>2, <2>3, <2>4, StillDownOutcome
<1>5. CASE x.state # "CHECKED" /\ x.MacReceive_Cb
  <2>1. r.state # "CHECKED" /\ r.MacReceive_Cb /\ r.out = None
    BY <1>2, <1>5 DEF SameLink
  <2>2. w \in Device /\ BreaksDown(r, w)
    BY <1>2, <1>3, <2>1, ReceiveFails
  <2> HIDE DEF w
  <2>3. y = w
    BY <2>2 DEF Released, BreaksDown, Down
  <2> HIDE DEF y
  <2>4. w.given >= x.given /\ w.role = x.role /\ w.arrived = x.arrived /\ w.told = x.told
    BY <1>1, <1>2, <2>2, Fields, LinkAssumption DEF BreaksDown, SameCounts, Counts
  <2> QED  BY <1>0, <1>1, <2>2, <2>3, <2>4, DownOutcome DEF BreaksDown
<1> QED  BY <1>1, <1>4, <1>5

(* A device that does nothing with its link *)
SameDevice(x, y) == SameLink(x, y) /\ SameMac(x, y) /\ y.role = x.role /\ y.arrived = x.arrived
                    /\ y.given = x.given /\ y.told = x.told

LEMMA SameGood ==
  ASSUME NEW x, Good(x), NEW y \in Device, SameDevice(x, y)
  PROVE  Good(y)
<1>1. Counted(y)
  BY DEF Good, Counted, Owed, Waiting, SameDevice, SameLink
<1>2. CASE Down(x)
  BY <1>1, <1>2 DEF Good, Down, SameDevice, SameLink, SameMac, SameRadio
<1>3. CASE Turn(x)
  BY <1>1, <1>3 DEF Good, Turn, SameDevice, SameLink, SameMac, SameRadio
<1>4. CASE Waits(x)
  BY <1>1, <1>4 DEF Good, Waits, SameDevice, SameLink, SameMac, SameRadio
<1> QED  BY <1>2, <1>3, <1>4 DEF Good

LEMMA SameOutcome ==
  ASSUME NEW x, Good(x), x.out = None, NEW y \in Device, SameDevice(x, y)
  PROVE  Outcome(x, y, None)
<1>1. Good(y)
  BY SameGood
<1>2. y.given >= x.given
  BY Fields, LinkAssumption DEF Good, SameDevice, Counts
<1>3. ~Numbered(None)
  BY DEF Numbered, None
<1>4. Sent(y) = Sent(x) /\ y.state = x.state /\ y.out = None
  BY DEF Sent, SameDevice, SameLink, SameMac, SameRadio
<1> QED  BY <1>1, <1>2, <1>3, <1>4 DEF Outcome, SameDevice, Alive

(* A frame that the device sends in its turn, SYMM or DISC *)
LEMMA TurnSends ==
  ASSUME NEW x, Good(x), x.state = "SEND", x.out = None, NEW a \in Device, SameDevice(x, a),
         NEW frame \in {SYMM, DISC}
  PROVE  Outcome(x, InternalSend(a, frame), None)
<1> DEFINE y == InternalSend(a, frame)
<1>0. InternalSend(a, frame) = y
  OBVIOUS
<1>1. Good(a) /\ a.state = "SEND" /\ a.out = None /\ a.role = x.role
  BY SameGood DEF SameDevice, SameLink, SameMac, SameRadio
<1>2. Turn(a) /\ Counted(a)
  BY <1>1 DEF Good, Down, Waits
<1>3. frame \in Opt /\ ~Numbered(frame)
  BY Values DEF Numbered, SYMM, DISC
<1>4. /\ y \in Device /\ SameLayer(a, y) /\ y.state = "RECV" /\ y.MacSend_Cb
      /\ a.role = "Target" => Out(y, frame) /\ (y.receiving <=> a.receiving)
      /\ a.role = "Initiator" => Transceived(y, frame)
  BY <1>1, <1>2, <1>3, InternalSendFrame DEF Turn
<1> HIDE DEF y
<1>5. Waits(y) /\ y.out = frame
  BY <1>1, <1>2, <1>4, Fields DEF Waits, Turn, Out, Transceived, SameLayer, SameCounts
<1>6. Counted(y)
  BY <1>1, <1>2, <1>4 DEF Counted, Owed, Waiting, SameLayer, SameCounts
<1>7. /\ Sent(y) = Sent(x) /\ y.arrived = x.arrived /\ y.told = x.told /\ y.role = x.role
      /\ y.given = x.given
  BY <1>1, <1>4 DEF Sent, SameLayer, SameCounts, SameDevice, SameLink
<1>8. y.given >= x.given /\ ~Numbered(None)
  BY <1>7, Fields, LinkAssumption DEF Good, Counts, Numbered, None
<1> QED  BY <1>0, <1>3, <1>4, <1>5, <1>6, <1>7, <1>8 DEF Outcome, Good, Alive

LEMMA SymmetrySent ==
  ASSUME NEW x, Good(x), x.state = "SEND", x.out = None, NEW a \in Device, SameDevice(x, a)
  PROVE  Outcome(x, SendSymm(a), None)
<1> DEFINE b == Slower(a)
<1>1. b \in Device /\ SameCounts(a, b) /\ SameLink(a, b) /\ SameMac(a, b)
  BY SlowerRecord
<1>2. SendSymm(a) = InternalSend(b, SYMM)
  <2>1. a.psSendHeader = None
    BY DEF Good, Turn, Down, Waits, SameDevice, SameLink
  <2> QED  BY <2>1 DEF SendSymm
<1> HIDE DEF b
<1>3. SameDevice(x, b)
  BY <1>1 DEF SameDevice, SameCounts, SameLink, SameMac, SameRadio
<1> QED  BY <1>1, <1>2, <1>3, TurnSends

LEMMA UpperOutcome ==
  ASSUME NEW x, Good(x), x.out = None, x.given < MaxFrames, ~x.pfSendCB, x.state # "CHECKED"
  PROVE  Outcome(x, Send(x), None)
<1> DEFINE y == Send(x)
<1>0. Send(x) = y
  OBVIOUS
<1>1. x \in Device /\ Counted(x) /\ (Turn(x) \/ Waits(x)) /\ ~Numbered(None)
  BY DEF Good, Down, Numbered, None
<1>2. /\ y \in Device /\ Owed(y)
      /\ \/ y = x
         \/ ~x.pfSendCB /\ x.state = "SEND" /\ SendsNow(x, y)
         \/ ~x.pfSendCB /\ x.state = "RECV" /\ Queues(x, y)
  BY <1>1, SendFrame DEF Counted, Turn, Waits
<1> HIDE DEF y
<1>3. x.psSendHeader = None /\ Sent(x) = x.given
  BY <1>1, SentCount DEF Counted, Owed
<1>4. x.given \in 0..MaxFrames /\ y.given \in 0..MaxFrames
  BY <1>1, <1>2, Fields DEF Counts
<1>5. CASE y = x
  <2>1. SameDevice(x, x)
    BY DEF SameDevice, SameLink, SameMac, SameRadio
  <2> QED  BY <1>0, <1>1, <1>5, <2>1, SameOutcome
<1>6. CASE x.state = "SEND" /\ SendsNow(x, y)
  <2>1. Turn(x)
    BY <1>1, <1>6 DEF Waits
  <2>2. Waits(y) /\ y.out = y.given /\ Sent(y) = y.given /\ y.given = x.given + 1
    <3>1. y.role = x.role /\ y.psSendHeader = None /\ y.given = x.given + 1
      BY <1>6 DEF SendsNow, SameRest
    <3>2. Sent(y) = y.given
      BY <1>4, <3>1 DEF Sent
    <3>3. CASE x.role = "Initiator"
      BY <1>6, <2>1, <3>1, <3>2, <3>3 DEF SendsNow, Transceived, Turn, Waits
    <3>4. CASE x.role = "Target"
      BY <1>6, <2>1, <3>1, <3>2, <3>4 DEF SendsNow, Out, Turn, Waits
    <3> QED  BY <1>1, <3>3, <3>4, Fields
  <2>3. Numbered(y.out) /\ Sent(y) = Sent(x) + 1 /\ y.given >= x.given
    BY <1>3, <1>4, <2>2, LinkAssumption DEF Numbered
  <2>4. Counted(y) /\ y.told = x.told /\ y.role = x.role /\ y.arrived = x.arrived
        /\ y.state = "RECV"
    BY <1>1, <1>2, <1>6 DEF SendsNow, SameRest, Counted
  <2> QED  BY <1>0, <1>1, <1>2, <1>6, <2>2, <2>3, <2>4 DEF Outcome, Good, Alive
<1>7. CASE x.state = "RECV" /\ Queues(x, y)
  <2>1. y.psSendHeader # None /\ Sent(y) = Sent(x) /\ y.given >= x.given
    BY <1>3, <1>4, <1>7, LinkAssumption DEF Queues, Sent, None
  <2>2. Waits(x)
    BY <1>1, <1>7 DEF Turn
  <2>3. Waits(y) /\ y.out = None
    BY <1>7, <2>1, <2>2 DEF Waits, Queues, SameRest, SameMac, SameRadio
  <2>4. Counted(y) /\ y.told = x.told /\ y.role = x.role /\ y.arrived = x.arrived
        /\ y.state = "RECV"
    BY <1>1, <1>2, <1>7 DEF Queues, SameRest, Counted
  <2> QED  BY <1>0, <1>1, <1>2, <1>7, <2>1, <2>3, <2>4 DEF Outcome, Good, Alive
<1> QED  BY <1>1, <1>2, <1>5, <1>6, <1>7 DEF Turn, Waits

LEMMA TimeoutOutcome ==
  ASSUME NEW x, Good(x), x.out = None, x.state # "CHECKED"
  PROVE  Outcome(x, InternalDeactivate(x), None)
<1>1. x \in Device /\ Owed(x) /\ x.downs = 0
  BY DEF Good, Counted
<1> DEFINE y == InternalDeactivate(x)
<1>2. y \in Device /\ BreaksDown(x, y) /\ y.given = x.given
  BY <1>1, LinkDown
<1> HIDE DEF y
<1>3. Outcome(x, y, None)
  BY <1>1, <1>2, BrokenOutcome
<1> QED  BY <1>3 DEF y
-----------------------------------------------------------------------------
(* The two devices and the air between them *)

LEMMA RestGood ==
  ASSUME NEW y, Good(y)
  PROVE  LET z == [y EXCEPT !.out = None] IN Good(z) /\ z.out = None /\ SameCounts(y, z)
         /\ SameLink(y, z)
<1> DEFINE z == [y EXCEPT !.out = None]
<1>0. [y EXCEPT !.out = None] = z
  OBVIOUS
<1>1. y \in Device
  BY DEF Good
<1>2. ASSUME NEW d \in Device, NEW x, x = [d EXCEPT !.out = None]
      PROVE  /\ x \in Device /\ SameCounts(d, x) /\ SameLink(d, x) /\ x.out = None
             /\ (x.MacSend_Cb <=> d.MacSend_Cb) /\ (x.MacReceive_Cb <=> d.MacReceive_Cb)
             /\ (x.SendPending <=> d.SendPending) /\ (x.RecvPending <=> d.RecvPending)
             /\ (x.sending <=> d.sending) /\ (x.receiving <=> d.receiving)
  <2>1. x \in Device
    BY <1>2, Values DEF Device
  <2>2. SameCounts(d, x) /\ SameLink(d, x)
    BY <1>2 DEF Device, SameCounts, SameLink
  <2>3. /\ x.out = None
        /\ (x.MacSend_Cb <=> d.MacSend_Cb) /\ (x.MacReceive_Cb <=> d.MacReceive_Cb)
        /\ (x.SendPending <=> d.SendPending) /\ (x.RecvPending <=> d.RecvPending)
        /\ (x.sending <=> d.sending) /\ (x.receiving <=> d.receiving)
    BY <1>2 DEF Device
  <2> QED  BY <2>1, <2>2, <2>3
<1>3. /\ z \in Device /\ SameCounts(y, z) /\ SameLink(y, z) /\ z.out = None
      /\ (z.MacSend_Cb <=> y.MacSend_Cb) /\ (z.MacReceive_Cb <=> y.MacReceive_Cb)
      /\ (z.SendPending <=> y.SendPending) /\ (z.RecvPending <=> y.RecvPending)
      /\ (z.sending <=> y.sending) /\ (z.receiving <=> y.receiving)
  BY <1>1, <1>2
<1> HIDE DEF z
<1>4. Counted(z)
  BY <1>3 DEF Good, Counted, Owed, Waiting, SameCounts, SameLink
<1>5. CASE Down(y)
  BY <1>0, <1>3, <1>4, <1>5 DEF Good, Down, SameLink
<1>6. CASE Turn(y)
  BY <1>0, <1>3, <1>4, <1>6 DEF Good, Turn, SameCounts, SameLink
<1>7. CASE Waits(y)
  BY <1>0, <1>3, <1>4, <1>7 DEF Good, Waits, SameCounts, SameLink
<1> QED  BY <1>5, <1>6, <1>7 DEF Good

(* What a step of x leaves of the turns and of the order, y and its air being the peer's *)
LEMMA TurnsKept ==
  ASSUME NEW x, NEW y, NEW q, NEW toX \in Opt, NEW toQ \in Opt, NEW consumes \in BOOLEAN,
         q.state \in States, y.state \in States, x.state \in States,
         Outcome(x, y, IF consumes THEN toX ELSE None),
         Alternate(x, q, toX, toQ), Alternate(q, x, toQ, toX)
  PROVE  LET nX == IF consumes THEN None ELSE toX
             nQ == IF y.out # None THEN y.out ELSE toQ
         IN Alternate(y, q, nX, nQ) /\ Alternate(q, y, nQ, nX)
<1> DEFINE f == IF consumes THEN toX ELSE None
<1>1. /\ Alive(y) => Alive(x)
      /\ y.out # None => y.state = "RECV" /\ (x.state = "SEND" \/ f # None)
      /\ y.state = "SEND" => y.out = None /\ (x.state = "SEND" \/ f # None)
  BY DEF Outcome, Waits
<1>2. f # None => consumes /\ toX # None
  OBVIOUS
<1>3. /\ x.state = "RECV" \/ x.state = "SEND" \/ x.state = "CHECKED"
      /\ y.state = "RECV" \/ y.state = "SEND" \/ y.state = "CHECKED"
      /\ q.state = "RECV" \/ q.state = "SEND" \/ q.state = "CHECKED"
  BY Constants
<1> HIDE DEF f
<1> QED  BY <1>1, <1>2, <1>3 DEF Alternate, Alive

LEMMA SenderKept ==
  ASSUME NEW x, Good(x), NEW y, NEW q \in Device, NEW toX \in Opt, NEW toQ \in Opt,
         NEW consumes \in BOOLEAN, Outcome(x, y, IF consumes THEN toX ELSE None),
         Alternate(x, q, toX, toQ), Alternate(q, x, toQ, toX), Ahead(x, q, toX, toQ)
  PROVE  Ahead(y, q, IF consumes THEN None ELSE toX, IF y.out # None THEN y.out ELSE toQ)
<1> DEFINE f == IF consumes THEN toX ELSE None
           nX == IF consumes THEN None ELSE toX
           nQ == IF y.out # None THEN y.out ELSE toQ
           n == Len(q.arrived)
<1>1. /\ Alive(y) => Alive(x)
      /\ y.out # None => Alive(y) /\ (x.state = "SEND" \/ f # None)
      /\ y.given >= x.given /\ y.role = x.role
      /\ Alive(y) => Sent(y) = IF Numbered(y.out) THEN Sent(x) + 1 ELSE Sent(x)
      /\ Numbered(y.out) => y.out = Sent(y)
      /\ \/ y.told = x.told
         \/ /\ y.told = x.told + 1 /\ x.psSendHeader = None /\ x.pfSendCB /\ Alive(x)
            /\ x.role = "Initiator" => f # None
  BY DEF Outcome, Waits, Alive
<1>2. (f # None => consumes /\ toX # None) /\ (nX # None => toX # None /\ f = None)
  OBVIOUS
<1>3. ~Numbered(None)
  BY DEF Numbered, None
<1>4. /\ x \in Device /\ y \in Device /\ Owed(x) /\ Owed(y) /\ n \in Nat
      /\ Alive(x) => x.refused = 0
  <2>1. q.arrived \in Seq(1..MaxFrames)
    BY Fields DEF Arrivals
  <2> QED  BY <2>1 DEF Outcome, Good, Counted, Alive
<1>5. /\ Sent(x) \in 0..MaxFrames /\ x.given \in 0..MaxFrames /\ x.told \in Nat
      /\ x.psSendHeader = None => Sent(x) = x.given
      /\ Sent(y) \in 0..MaxFrames /\ y.given \in 0..MaxFrames /\ Sent(y) <= y.given
  BY <1>4, SentCount, Fields, LinkAssumption DEF Counts
<1>6. y.out # None /\ Alive(q) => toQ = None /\ (Alive(x) => Sent(x) = n)
  BY <1>1, <1>2, <1>3 DEF Alternate, Ahead, Alive
<1> HIDE DEF f, nX, n
<1>7. (\A i \in 1..n : q.arrived[i] = i) /\ n <= y.given
  BY <1>1, <1>4, <1>5, LinkAssumption DEF Ahead, n
<1>8. Alive(q) /\ Numbered(nQ) => nQ = n + 1 /\ nQ <= y.given
  BY <1>1, <1>3, <1>4, <1>5, <1>6, LinkAssumption DEF Ahead, n
<1>9. Alive(y) /\ Alive(q) => Sent(y) = IF Numbered(nQ) THEN n + 1 ELSE n
  BY <1>1, <1>3, <1>4, <1>5, <1>6 DEF Ahead, n
<1>10. y.role = "Initiator" => y.told <= n
  <2>1. ASSUME x.role = "Initiator" PROVE x.told <= n
    BY <2>1 DEF Ahead, n
  <2>2. ASSUME x.role = "Initiator", y.told = x.told + 1, x.psSendHeader = None, x.pfSendCB,
               Alive(x), f # None
        PROVE  y.told <= n
    <3>1. Sent(x) <= n
      BY <1>2, <2>2 DEF Ahead, n
    <3>2. x.given = x.told + 1
      BY <1>4, <1>5, <2>2 DEF Owed, Waiting
    <3> QED  BY <1>5, <2>2, <3>1, <3>2
  <2> QED  BY <1>1, <2>1, <2>2
<1>11. y.role = "Initiator" /\ Alive(y) /\ nX # None => Sent(y) <= n
  <2> SUFFICES ASSUME y.role = "Initiator", Alive(y), nX # None
               PROVE  Sent(y) <= n
    OBVIOUS
  <2>1. toX # None /\ f = None /\ x.state # "SEND"
    BY <1>2 DEF Alternate
  <2>2. y.out = None
    BY <1>1, <2>1
  <2> QED  BY <1>1, <1>3, <2>1, <2>2 DEF Ahead, n
<1> QED  BY <1>7, <1>8, <1>9, <1>10, <1>11 DEF Ahead, nX, n

LEMMA ReceiverKept ==
  ASSUME NEW x, Good(x), NEW y, NEW q \in Device, NEW toX \in Opt, NEW toQ \in Opt,
         NEW consumes \in BOOLEAN, Outcome(x, y, IF consumes THEN toX ELSE None),
         Alternate(x, q, toX, toQ), Alternate(q, x, toQ, toX), Ahead(q, x, toQ, toX),
         Owed(q)
  PROVE  Ahead(q, y, IF y.out # None THEN y.out ELSE toQ, IF consumes THEN None ELSE toX)
<1> DEFINE f == IF consumes THEN toX ELSE None
           nX == IF consumes THEN None ELSE toX
           nQ == IF y.out # None THEN y.out ELSE toQ
           m == Len(x.arrived)
<1>1. /\ Alive(y) => Alive(x)
      /\ y.out # None => Alive(y) /\ (x.state = "SEND" \/ f # None)
      /\ \/ y.arrived = x.arrived /\ (Alive(y) => ~Numbered(f))
         \/ Numbered(f) /\ x.state = "RECV" /\ y.arrived = Append(x.arrived, f)
  BY DEF Outcome, Waits, Alive
<1>2. /\ f # None => consumes /\ toX # None /\ f = toX
      /\ nX # None => toX = nX /\ f = None /\ ~consumes
      /\ ~consumes => nX = toX
      /\ consumes => f = toX /\ nX = None
  OBVIOUS
<1>3. ~Numbered(None)
  BY DEF Numbered, None
<1>4. x.arrived \in Seq(1..MaxFrames) /\ m \in Nat /\ Sent(q) \in Int /\ q.told \in Nat
      /\ q.given \in 0..MaxFrames
  <2>1. x.arrived \in Seq(1..MaxFrames)
    BY Fields DEF Good, Arrivals
  <2> QED  BY <2>1, SentCount, Fields DEF Counts
<1>5. y.out # None => nX = None
  BY <1>1, <1>2 DEF Alternate
<1>6. CASE y.arrived = x.arrived /\ (Alive(y) => ~Numbered(f))
  <2> HIDE DEF f, nX, nQ, m
  <2>1. Alive(y) => (Numbered(nX) <=> Numbered(toX)) /\ (Numbered(nX) => nX = toX)
    BY <1>2, <1>3, <1>6
  <2>2. Alive(y) /\ Numbered(nX) => nX = m + 1 /\ nX <= q.given
    BY <1>1, <2>1 DEF Ahead, m
  <2>3. Alive(q) /\ Alive(y) => Sent(q) = IF Numbered(nX) THEN m + 1 ELSE m
    BY <1>1, <2>1 DEF Ahead, m
  <2>4. q.role = "Initiator" /\ Alive(q) /\ nQ # None => Sent(q) <= m
    BY <1>1, <1>3, <1>4, <1>5, <2>3 DEF Ahead, m, nQ
  <2>5. (\A i \in 1..m : x.arrived[i] = i) /\ m <= q.given
        /\ (q.role = "Initiator" => q.told <= m)
    BY DEF Ahead, m
  <2> QED  BY <1>6, <2>2, <2>3, <2>4, <2>5 DEF Ahead, nX, nQ, m
<1>7. CASE Numbered(f) /\ x.state = "RECV" /\ y.arrived = Append(x.arrived, f)
  <2>1. f = toX /\ nX = None /\ Alive(x)
    BY <1>2, <1>3, <1>7 DEF Alive
  <2>2. f = m + 1 /\ f <= q.given /\ (Alive(q) => Sent(q) = m + 1)
    BY <1>7, <2>1 DEF Ahead
  <2>3. Len(y.arrived) = m + 1 /\ \A i \in 1 .. m + 1 : y.arrived[i] = i
    <3>1. f \in 1..MaxFrames /\ Len(Append(x.arrived, f)) = m + 1
      BY <1>4, <1>7 DEF Numbered
    <3>2. \A i \in 1..m : Append(x.arrived, f)[i] = x.arrived[i]
      BY <1>4, <3>1
    <3>3. Append(x.arrived, f)[m + 1] = f
      BY <1>4, <3>1
    <3>4. \A i \in 1..m : x.arrived[i] = i
      BY DEF Ahead
    <3> HIDE DEF m, f
    <3> QED  BY <1>4, <1>7, <2>2, <3>1, <3>2, <3>3, <3>4
  <2>4. q.role = "Initiator" => q.told <= m + 1
    BY <1>4 DEF Ahead
  <2> HIDE DEF f, nX, nQ, m
  <2> QED  BY <1>3, <1>4, <2>1, <2>2, <2>3, <2>4 DEF Ahead, nX, nQ
<1> QED  BY <1>1, <1>6, <1>7

(* Only the fields of the rest count. *)
LEMMA AheadSame ==
  ASSUME NEW x, NEW y, NEW w, NEW z, NEW toX, NEW toY, Ahead(x, y, toX, toY),
         SameCounts(x, w), SameLink(x, w), SameCounts(y, z), SameLink(y, z)
  PROVE  Ahead(w, z, toX, toY)
  BY DEF Ahead, SameCounts, SameLink, Sent, Alive

LEMMA AlternateSame ==
  ASSUME NEW x, NEW y, NEW w, NEW z, NEW toX, NEW toY, Alternate(x, y, toX, toY),
         SameLink(x, w), SameLink(y, z)
  PROVE  Alternate(w, z, toX, toY)
  BY DEF Alternate, SameLink, Alive

(* An outcome of one device keeps what holds between the two. *)
LEMMA StepKeeps ==
  ASSUME IInv, NEW e \in Ends, NEW y, NEW consumes \in BOOLEAN,
         Outcome(end[e], y, IF consumes THEN air[e] ELSE None),
         Step(e, y, consumes), failures' \in 0..MaxFailures
  PROVE  IInv'
<1> DEFINE p == Peer(e)
           x == end[e]
           q == end[p]
           z == [y EXCEPT !.out = None]
           nX == IF consumes THEN None ELSE air[e]
           nQ == IF y.out # None THEN y.out ELSE air[p]
<1>1. p \in Ends /\ p # e /\ Peer(p) = e /\ \A d \in Ends : d = e \/ d = p
  BY DEF Peer, Ends
<1>2. Good(z) /\ z.out = None /\ SameCounts(y, z) /\ SameLink(y, z)
  BY RestGood DEF Outcome
<1>3. end \in [Ends -> Device] /\ air \in [Ends -> Opt]
  BY DEF IInv, Shapes, AirType
<1>4. end' = [end EXCEPT ![e] = z]
  BY DEF Step
<1>5. z \in Device /\ y \in Device /\ z.role = e
  BY <1>2 DEF Good, Outcome, IInv, Shapes, SameCounts
<1>6. end' \in [Ends -> Device] /\ end'[e] = z /\ end'[p] = q
  <2> HIDE DEF z, p
  <2> QED  BY <1>1, <1>3, <1>4, <1>5
<1>7. air' = [a \in Ends |-> CASE a = p /\ y.out # None -> y.out
                               [] a = e /\ consumes -> None
                               [] OTHER -> air[a]]
  BY DEF Step
<1>8. air'[e] = nX /\ air'[p] = nQ
  <2> HIDE DEF p
  <2>1. air'[e] = nX
    BY <1>1, <1>7
  <2>2. air'[p] = nQ
    BY <1>1, <1>7
  <2> QED  BY <2>1, <2>2
<1>9. nX \in Opt /\ nQ \in Opt
  BY <1>1, <1>3, <1>5, Values, Fields
<1>10. air' \in [Ends -> Opt]
  <2>1. \A d \in Ends : air'[d] \in Opt
    BY <1>1, <1>8, <1>9
  <2> QED  BY <1>7, <2>1
<1>11. Shapes'
  <2>1. q.role = p /\ q.out = None /\ Good(q)
    BY <1>1 DEF IInv, Shapes
  <2>2. \A d \in Ends : end'[d].role = d /\ end'[d].out = None /\ Good(end'[d])
    BY <1>1, <1>2, <1>5, <1>6, <2>1
  <2> QED  BY <1>6, <2>2 DEF Shapes, Good, Counted, Owed, Waiting, Down, Turn, Waits
<1>12. /\ Good(x) /\ q \in Device /\ Owed(q) /\ air[e] \in Opt /\ air[p] \in Opt
       /\ Alternate(x, q, air[e], air[p]) /\ Alternate(q, x, air[p], air[e])
       /\ Ahead(x, q, air[e], air[p]) /\ Ahead(q, x, air[p], air[e])
  <2>1. Good(x) /\ Good(q) /\ air[e] \in Opt /\ air[p] \in Opt
    BY <1>1, <1>3 DEF IInv, Shapes
  <2>2. Alternate(x, q, air[e], air[p]) /\ Ahead(x, q, air[e], air[p])
    BY DEF IInv, Turns, Follows
  <2>3. Alternate(q, x, air[p], air[e]) /\ Ahead(q, x, air[p], air[e])
    BY <1>1 DEF IInv, Turns, Follows
  <2> QED  BY <2>1, <2>2, <2>3 DEF Good, Counted
<1>13. x.state \in States /\ y.state \in States /\ q.state \in States
  BY <1>5, <1>12, Fields DEF Good
<1> HIDE DEF x, q, z, nX, nQ
<1>14. Alternate(z, q, nX, nQ) /\ Alternate(q, z, nQ, nX)
  <2>1. Alternate(y, q, nX, nQ) /\ Alternate(q, y, nQ, nX)
    BY <1>12, <1>13, TurnsKept DEF x, nX, nQ
  <2>2. SameLink(q, q)
    BY DEF SameLink
  <2> QED  BY <1>2, <2>1, <2>2, AlternateSame
<1>15. Ahead(z, q, nX, nQ) /\ Ahead(q, z, nQ, nX)
  <2>1. Ahead(y, q, nX, nQ)
    BY <1>12, SenderKept DEF x, nX, nQ
  <2>2. Ahead(q, y, nQ, nX)
    BY <1>12, ReceiverKept DEF x, nX, nQ
  <2>3. SameLink(q, q) /\ SameCounts(q, q)
    BY DEF SameLink, SameCounts
  <2> QED  BY <1>2, <2>1, <2>2, <2>3, AheadSame
<1>16. Turns'
  <2>1. \A d \in Ends : Alternate(end'[d], end'[Peer(d)], air'[d], air'[Peer(d)])
    BY <1>1, <1>6, <1>8, <1>14
  <2> QED  BY <2>1 DEF Turns, Alternate, Alive
<1>17. \A d \in Ends : Follows(d)'
  <2>1. \A d \in Ends : Ahead(end'[d], end'[Peer(d)], air'[d], air'[Peer(d)])
    BY <1>1, <1>6, <1>8, <1>15
  <2> QED  BY <2>1 DEF Follows, Ahead, Alive, Sent, Numbered
<1> QED  BY <1>10, <1>11, <1>16, <1>17 DEF IInv, AirType
-----------------------------------------------------------------------------
Fresh(e) ==
  [role |-> e, state |-> IF e = "Initiator" THEN "SEND" ELSE "RECV",
   pfSendCB |-> FALSE, psSendHeader |-> None, bDiscPendingFlag |-> FALSE,
   timer |-> "off", deferred |-> 0, nSymmetryCounter |-> 0, MacSend_Cb |-> FALSE,
   MacReceive_Cb |-> FALSE, SendPending |-> FALSE, RecvPending |-> FALSE,
   sTxBuffer |-> None, sending |-> FALSE, receiving |-> FALSE, out |-> None,
   given |-> 0, told |-> 0, refused |-> 0, arrived |-> <<>>, downs |-> 0]

LEMMA FreshRecord ==
  ASSUME NEW e \in Ends, NEW x, x = Fresh(e)
  PROVE  /\ x \in Device /\ Counted(x) /\ Idle(x) /\ x.role = e /\ x.deferred = 0
         /\ x.arrived = <<>> /\ x.given = 0 /\ x.told = 0 /\ x.psSendHeader = None
         /\ ~x.pfSendCB /\ x.state = IF e = "Initiator" THEN "SEND" ELSE "RECV"
<1>1. <<>> \in Arrivals /\ 0 \in Counts
  BY LinkAssumption DEF Arrivals, Counts
<1>2. x \in Device
  <2>1. x.state \in States
    BY Constants DEF Fresh
  <2> QED  BY <1>1, <2>1, Values, Constants DEF Device, Fresh
<1>3. Counted(x)
  BY DEF Counted, Owed, Waiting, Fresh
<1>4. Idle(x)
  BY DEF Idle, Fresh
<1>5. /\ x.role = e /\ x.deferred = 0
      /\ x.arrived = <<>> /\ x.given = 0 /\ x.told = 0 /\ x.psSendHeader = None
      /\ ~x.pfSendCB /\ x.state = IF e = "Initiator" THEN "SEND" ELSE "RECV"
  BY DEF Fresh
<1> QED  BY <1>2, <1>3, <1>4, <1>5

LEMMA ActivatedGood ==
  ASSUME NEW e \in Ends
  PROVE  LET y == Activated(e)
         IN /\ Good(y) /\ y.role = e /\ y.out = None /\ y.arrived = <<>> /\ y.given = 0
            /\ y.told = 0 /\ y.psSendHeader = None
            /\ y.state = IF e = "Initiator" THEN "SEND" ELSE "RECV"
<1> DEFINE x == Fresh(e)
           a == ResetLTO(x)
           y == MacReceive(a)
<1>1. Activated(e) = y
  BY DEF Activated, Fresh
<1>2. /\ x \in Device /\ Counted(x) /\ Idle(x) /\ x.role = e /\ x.deferred = 0
      /\ x.arrived = <<>> /\ x.given = 0 /\ x.told = 0 /\ x.psSendHeader = None
      /\ ~x.pfSendCB /\ x.state = IF e = "Initiator" THEN "SEND" ELSE "RECV"
  BY FreshRecord
<1> HIDE DEF x
<1>3. /\ a \in Device /\ SameLink(x, a) /\ SameMac(x, a) /\ a.arrived = x.arrived
      /\ a.role = x.role /\ a.given = x.given /\ a.told = x.told
  BY <1>2, LTOReset
<1> HIDE DEF a
<1>4. Counted(a) /\ Idle(a) /\ a.psSendHeader = None /\ ~a.pfSendCB
  BY <1>2, <1>3 DEF Counted, Owed, Waiting, Idle, SameLink, SameMac, SameRadio
<1>5. CASE e = "Initiator"
  <2>1. a.state = "SEND"
    BY <1>2, <1>3, <1>5 DEF SameLink
  <2>2. y \in Device /\ SameCounts(a, y) /\ SameLink(a, y) /\ Turn(y) /\ y.out = None
    BY <1>3, <1>4, <2>1, ReceiveAfterTurn
  <2> HIDE DEF y
  <2>3. Counted(y)
    BY <1>4, <2>2 DEF Counted, Owed, Waiting, SameCounts, SameLink
  <2> QED  BY <1>1, <1>2, <1>3, <1>4, <1>5, <2>1, <2>2, <2>3 DEF Good, SameCounts, SameLink
<1>6. CASE e = "Target"
  <2>1. a.state = "RECV" /\ a.role = "Target"
    BY <1>2, <1>3, <1>6 DEF SameLink
  <2>2. /\ y \in Device /\ SameUpper(a, y) /\ y.MacReceive_Cb /\ y.RecvPending
        /\ y.receiving /\ (y.sending <=> a.sending) /\ y.out = a.out
    BY <1>3, <1>4, <2>1, MacReceives DEF Idle
  <2> HIDE DEF y
  <2>3. Counted(y)
    BY <1>4, <2>2 DEF Counted, Owed, Waiting, SameUpper, SameCounts, SameLink
  <2>4. Waits(y) /\ y.out = None
    BY <1>4, <2>1, <2>2 DEF Waits, Idle, SameUpper, SameCounts, SameLink
  <2> QED  BY <1>1, <1>2, <1>3, <1>4, <1>6, <2>1, <2>2, <2>3, <2>4
           DEF Good, SameUpper, SameCounts, SameLink
<1> QED  BY <1>5, <1>6 DEF Ends

LEMMA InitIInv == Init => IInv
<1> SUFFICES ASSUME Init PROVE IInv
  OBVIOUS
<1>1. \A e \in Ends : end[e] = Activated(e) /\ air[e] = None /\ Peer(e) \in Ends /\ Peer(e) # e
  BY DEF Init, Ends, Peer
<1>2. \A e \in Ends :
        /\ Good(end[e]) /\ end[e].role = e /\ end[e].out = None /\ end[e].arrived = <<>>
        /\ end[e].given = 0 /\ end[e].told = 0 /\ end[e].psSendHeader = None
        /\ end[e].state = IF e = "Initiator" THEN "SEND" ELSE "RECV"
  BY <1>1, ActivatedGood
<1>3. AirType
  BY Values, LinkAssumption DEF Init, AirType
<1>4. Shapes
  <2>1. \A e \in Ends : end[e] \in Device
    BY <1>2 DEF Good
  <2>2. end = [e \in Ends |-> Activated(e)]
    BY DEF Init
  <2>3. end = [e \in Ends |-> end[e]]
    BY <1>1, <2>2
  <2> QED  BY <1>2, <2>1, <2>3 DEF Shapes
<1>5. Turns
  <2> SUFFICES ASSUME NEW e \in Ends
               PROVE  Alternate(end[e], end[Peer(e)], air[e], air[Peer(e)])
    BY DEF Turns
  <2>1. end[e].state = "SEND" => end[Peer(e)].state = "RECV"
    BY <1>1, <1>2 DEF Ends
  <2> QED  BY <1>1, <2>1 DEF Alternate
<1>6. ASSUME NEW e \in Ends PROVE Follows(e)
  <2>1. Len(end[Peer(e)].arrived) = 0 /\ end[e].given = 0 /\ end[e].told = 0
        /\ Sent(end[e]) = 0
    BY <1>1, <1>2 DEF Sent
  <2>2. ~Numbered(None)
    BY DEF Numbered, None
  <2> QED  BY <1>1, <2>1, <2>2 DEF Follows, Ahead
<1> QED  BY <1>3, <1>4, <1>5, <1>6 DEF IInv

LEMMA FailuresBounded ==
  ASSUME failures \in 0..MaxFailures, NEW ok \in BOOLEAN, MayFail(ok), Fails(ok)
  PROVE  failures' \in 0..MaxFailures
  BY LinkAssumption DEF MayFail, Fails

LEMMA DeviceFacts ==
  ASSUME IInv, NEW e \in Ends
  PROVE  /\ Good(end[e]) /\ end[e].role = e /\ end[e].out = None /\ end[e] \in Device
         /\ air[e] \in Opt /\ failures \in 0..MaxFailures
         /\ air[e] # None => air[e] \in Frames /\ end[e].state # "SEND"
<1>1. air \in [Ends -> Opt]
  BY DEF IInv, AirType
<1>2. air[e] # None => end[e].state # "SEND"
  BY DEF IInv, Turns, Alternate
<1> QED  BY <1>1, <1>2 DEF IInv, Shapes, AirType, Good, Opt

LEMMA TransceiveStep ==
  ASSUME IInv, NEW ok \in BOOLEAN, NEW replies, Transceive_Cb(ok, replies)
  PROVE  IInv'
<1> DEFINE x == end["Initiator"]
           f == air["Initiator"]
           y == TriggerRecvCb(TriggerSendCb(TransceiveOver(x), ok, replies), ok, f, replies)
<1>1. /\ x.receiving /\ x.deferred = 0 /\ MayFail(ok) /\ (ok => f # None)
      /\ Step("Initiator", y, ok) /\ Fails(ok)
  BY DEF Transceive_Cb, TransceiveOver
<1>2. "Initiator" \in Ends
  BY Constants
<1>3. /\ Good(x) /\ x.role = "Initiator" /\ x.out = None /\ failures \in 0..MaxFailures
      /\ f # None => f \in Frames
  BY <1>2, DeviceFacts
<1>4. failures' \in 0..MaxFailures
  BY <1>1, <1>3, FailuresBounded
<1> HIDE DEF x, f
<1>5. Outcome(x, y, IF ok THEN f ELSE None)
  <2>1. CASE ok
    BY <1>1, <1>3, <2>1, TransceiveCallback
  <2>2. CASE ~ok
    BY <1>1, <1>3, <2>2, TransceiveFailure
  <2> QED  BY <2>1, <2>2
<1> HIDE DEF y
<1> QED  BY <1>1, <1>2, <1>4, <1>5, StepKeeps DEF x, f

LEMMA TargetSendStep ==
  ASSUME IInv, NEW ok \in BOOLEAN, NEW replies, Target_Send_Cb(ok, replies)
  PROVE  IInv'
<1> DEFINE x == end["Target"]
           y == TriggerSendCb(SendOver(x), ok, replies)
<1>1. x.sending /\ MayFail(ok) /\ Step("Target", y, FALSE) /\ Fails(ok)
  BY DEF Target_Send_Cb, SendOver
<1>2. "Target" \in Ends
  BY Constants
<1>3. Good(x) /\ x.role = "Target" /\ x.out = None /\ failures \in 0..MaxFailures
  BY <1>2, DeviceFacts
<1>4. failures' \in 0..MaxFailures
  BY <1>1, <1>3, FailuresBounded
<1> HIDE DEF x
<1>5. Outcome(x, y, None)
  BY <1>1, <1>3, TargetSendCallback
<1> HIDE DEF y
<1> QED  BY <1>1, <1>2, <1>4, <1>5, StepKeeps DEF x

LEMMA TargetReceiveStep ==
  ASSUME IInv, NEW ok \in BOOLEAN, NEW replies, Target_Receive_Cb(ok, replies)
  PROVE  IInv'
<1> DEFINE x == end["Target"]
           f == air["Target"]
           y == Released(TriggerRecvCb(ReceiveOver(x), ok, f, replies))
<1>1. /\ x.receiving /\ ~x.sending /\ x.deferred = 0 /\ MayFail(ok) /\ (ok => f # None)
      /\ Step("Target", y, ok) /\ Fails(ok)
  BY DEF Target_Receive_Cb, ReceiveOver, Released
<1>2. "Target" \in Ends
  BY Constants
<1>3. /\ Good(x) /\ x.role = "Target" /\ x.out = None /\ failures \in 0..MaxFailures
      /\ f # None => f \in Frames /\ x.state # "SEND"
  BY <1>2, DeviceFacts
<1>4. failures' \in 0..MaxFailures
  BY <1>1, <1>3, FailuresBounded
<1> HIDE DEF x, f
<1>5. Outcome(x, y, IF ok THEN f ELSE None)
  <2>1. CASE ok
    BY <1>1, <1>3, <2>1, TargetReceiveCallback
  <2>2. CASE ~ok
    BY <1>1, <1>3, <2>2, TargetReceiveFailure
  <2> QED  BY <2>1, <2>2
<1> HIDE DEF y
<1> QED  BY <1>1, <1>2, <1>4, <1>5, StepKeeps DEF x, f

(* A timer or a queued callback that finds the turn sends SYMM. *)
LEMMA QuietRecord ==
  ASSUME NEW x \in Device, NEW y,
         \/ y = [x EXCEPT !.timer = "off"]
         \/ x.deferred > 0 /\ y = [x EXCEPT !.deferred = @ - 1]
         \/ y = [x EXCEPT !.bDiscPendingFlag = TRUE]
  PROVE  y \in Device /\ SameDevice(x, y)
<1>1. CASE y = [x EXCEPT !.timer = "off"]
  <2>1. y \in Device
    BY <1>1, Constants DEF Device
  <2>2. SameDevice(x, y)
    BY <1>1 DEF Device, SameDevice, SameLink, SameMac, SameRadio
  <2> QED  BY <2>1, <2>2
<1>2. CASE x.deferred > 0 /\ y = [x EXCEPT !.deferred = @ - 1]
  <2>1. x.deferred - 1 \in Bit
    BY <1>2, Fields DEF Bit
  <2>2. y = [x EXCEPT !.deferred = x.deferred - 1]
    BY <1>2 DEF Device
  <2>3. y \in Device
    BY <2>1, <2>2 DEF Device
  <2>4. SameDevice(x, y)
    BY <2>2 DEF Device, SameDevice, SameLink, SameMac, SameRadio
  <2> QED  BY <2>3, <2>4
<1>3. CASE y = [x EXCEPT !.bDiscPendingFlag = TRUE]
  <2>1. y \in Device
    BY <1>3 DEF Device
  <2>2. SameDevice(x, y)
    BY <1>3 DEF Device, SameDevice, SameLink, SameMac, SameRadio
  <2> QED  BY <2>1, <2>2
<1> QED  BY <1>1, <1>2, <1>3

LEMMA TimerSendStep ==
  ASSUME IInv, NEW e \in Ends, Timer_CBSend(e) \/ DeferredSymm(e)
  PROVE  IInv'
<1> DEFINE x == end[e]
<1>1. PICK a : /\ \/ a = [x EXCEPT !.timer = "off"]
                  \/ x.deferred > 0 /\ a = [x EXCEPT !.deferred = @ - 1]
               /\ Step(e, IF x.state = "SEND" THEN SendSymm(a) ELSE a, FALSE)
               /\ failures' = failures
  <2>1. CASE Timer_CBSend(e)
    BY <2>1 DEF Timer_CBSend
  <2>2. CASE DeferredSymm(e)
    <3>1. [x EXCEPT !.deferred = @ - 1].state = x.state
      BY DeviceFacts DEF Device
    <3> QED  BY <2>2, <3>1 DEF DeferredSymm
  <2> QED  BY <2>1, <2>2
<1>2. Good(x) /\ x.out = None /\ x \in Device /\ failures \in 0..MaxFailures
  BY DeviceFacts
<1> DEFINE y == IF x.state = "SEND" THEN SendSymm(a) ELSE a
<1> HIDE DEF x
<1>3. a \in Device /\ SameDevice(x, a)
  BY <1>1, <1>2, QuietRecord
<1>4. Outcome(x, y, None)
  <2>1. CASE x.state = "SEND"
    BY <1>2, <1>3, <2>1, SymmetrySent
  <2>2. CASE x.state # "SEND"
    BY <1>2, <1>3, <2>2, SameOutcome
  <2> QED  BY <2>1, <2>2
<1>5. Step(e, y, FALSE) /\ failures' \in 0..MaxFailures
  BY <1>1, <1>2
<1> HIDE DEF y
<1> QED  BY <1>4, <1>5, StepKeeps DEF x

LEMMA TimerRecvStep ==
  ASSUME IInv, NEW e \in Ends, Timer_CBRecv(e)
  PROVE  IInv'
<1> DEFINE x == end[e]
           y == InternalDeactivate(x)
<1>1. x.state = "RECV" /\ (Silent(e) \/ failures < MaxFailures) /\ Step(e, y, FALSE)
      /\ failures' = IF Silent(e) THEN failures ELSE failures + 1
  BY DEF Timer_CBRecv
<1>2. Good(x) /\ x.out = None /\ failures \in 0..MaxFailures
  BY DeviceFacts
<1>3. failures' \in 0..MaxFailures
  BY <1>1, <1>2, LinkAssumption
<1> HIDE DEF x
<1>4. Outcome(x, y, None)
  BY <1>1, <1>2, TimeoutOutcome
<1> HIDE DEF y
<1> QED  BY <1>1, <1>3, <1>4, StepKeeps DEF x

LEMMA UpperStep ==
  ASSUME IInv, NEW e \in Ends, UpperSends(e)
  PROVE  IInv'
<1> DEFINE x == end[e]
           y == Send(x)
<1>1. /\ x.given < MaxFrames /\ ~x.pfSendCB /\ x.state # "CHECKED" /\ Step(e, y, FALSE)
      /\ failures' = failures
  BY DEF UpperSends
<1>2. Good(x) /\ x.out = None /\ failures \in 0..MaxFailures
  BY DeviceFacts
<1> HIDE DEF x
<1>3. Outcome(x, y, None)
  BY <1>1, <1>2, UpperOutcome
<1> HIDE DEF y
<1> QED  BY <1>1, <1>2, <1>3, StepKeeps DEF x

LEMMA DeactivateStep ==
  ASSUME IInv, NEW e \in Ends, Deactivate(e)
  PROVE  IInv'
<1> DEFINE x == end[e]
           d == [x EXCEPT !.bDiscPendingFlag = TRUE]
           y == CASE x.state = "RECV" -> d
                  [] x.state # "RECV" /\ Rejects(x) -> InternalDeactivate(x)
                  [] OTHER -> InternalSend(x, DISC)
<1>1. /\ x.state # "CHECKED" /\ failures < MaxFailures /\ Step(e, y, FALSE)
      /\ failures' = failures + 1
  BY DEF Deactivate
<1>2. Good(x) /\ x.out = None /\ x \in Device /\ failures \in 0..MaxFailures
  BY DeviceFacts
<1>3. failures' \in 0..MaxFailures
  BY <1>1, <1>2, LinkAssumption
<1> HIDE DEF x
<1>4. Outcome(x, y, None)
  <2>1. CASE x.state = "RECV"
    <3>1. y = d
      BY <2>1
    <3>2. d \in Device /\ SameDevice(x, d)
      BY <1>2, QuietRecord
    <3> HIDE DEF d, y
    <3> QED  BY <1>2, <3>1, <3>2, SameOutcome
  <2>2. CASE x.state = "SEND"
    <3>1. ~Rejects(x)
      BY <1>2, <2>2 DEF Good, Turn, Down, Waits, Rejects
    <3>2. y = InternalSend(x, DISC)
      BY <2>2, <3>1
    <3>3. SameDevice(x, x)
      BY DEF SameDevice, SameLink, SameMac, SameRadio
    <3> HIDE DEF y
    <3> QED  BY <1>2, <2>2, <3>2, <3>3, TurnSends
  <2> QED  BY <1>1, <1>2, <2>1, <2>2, Fields
<1> HIDE DEF y
<1> QED  BY <1>1, <1>3, <1>4, StepKeeps DEF x

(* Every message keeps the invariant. *)
LEMMA NextIInv == IInv /\ [Next]_vars => IInv'
<1> SUFFICES ASSUME IInv, [Next]_vars PROVE IInv'
  OBVIOUS
<1>1. ASSUME NEW replies \in SUBSET Callbacks,
             Receives(replies) \/ Loses(replies) \/ Target_Send_Cb(TRUE, replies)
      PROVE  IInv'
  BY <1>1, TransceiveStep, TargetSendStep, TargetReceiveStep DEF Receives, Loses
<1>2. ASSUME NEW e \in Ends, Timers(e) \/ UpperSends(e) \/ Deactivate(e)
      PROVE  IInv'
  BY <1>2, TimerSendStep, TimerRecvStep, UpperStep, DeactivateStep DEF Timers
<1>3. CASE UNCHANGED vars
  BY <1>3 DEF vars, IInv, AirType, Shapes, Turns, Follows, Alternate, Ahead, Good, Counted, Owed,
              Waiting, Down, Turn, Waits, Alive, Sent, Numbered
<1> QED  BY <1>1, <1>2, <1>3 DEF Next

(* In every reachable state of the link each device is down, has the turn or
   waits, the turns alternate, and the peer has what a device has sent. *)
THEOREM IInvHolds == Spec => []IInv
  BY InitIInv, NextIInv, PTL DEF Spec

(* The frames that the layer above hands to phFriNfc_Llcp_Send arrive in the
   order given, none twice and none left out, and one whose success the
   initiator has been told of has arrived. *)
THEOREM InOrderHolds == Spec => []InOrder
<1>1. IInv => InOrder
  <2> SUFFICES ASSUME IInv, NEW e \in Ends
               PROVE  LET arrived == end[Peer(e)].arrived
                      IN /\ \A i \in 1..Len(arrived) : arrived[i] = i
                         /\ Len(arrived) <= end[e].given
                         /\ e = "Initiator" => end[e].told <= Len(arrived)
    BY DEF InOrder
  <2> QED  BY DEF IInv, Follows, Ahead, Shapes
<1> QED  BY <1>1, IInvHolds, PTL

(* Both devices never believe that the turn is theirs, and nothing is on the
   air to the one that has it: LLCP is symmetric. *)
THEOREM OneSenderHolds == Spec => []OneSender
<1>1. IInv => OneSender
  <2> SUFFICES ASSUME IInv PROVE OneSender
    OBVIOUS
  <2>1. "Initiator" \in Ends /\ Peer("Initiator") \in Ends
    BY DEF Ends, Peer
  <2> QED  BY <2>1 DEF IInv, Turns, Alternate, Alive, OneSender
<1> QED  BY <1>1, IInvHolds, PTL

(* The records of the two devices keep their types; between two messages no
   frame waits in the hands of the radio's caller. *)
THEOREM TypeCorrect == Spec => []TypeOK
<1>1. IInv => TypeOK
  <2> SUFFICES ASSUME IInv PROVE TypeOK
    OBVIOUS
  <2>1. ASSUME NEW e \in Ends
        PROVE  end[e] \in Device /\ end[e].out = None /\ end[e].told \in Counts
               /\ end[e].refused \in Counts
    <3>1. end[e] \in Device /\ end[e].out = None /\ Owed(end[e])
      BY DEF IInv, Shapes, Good, Counted
    <3>2. end[e].given = end[e].told + end[e].refused + Waiting(end[e])
          /\ Waiting(end[e]) \in 0..1
      BY <3>1 DEF Owed, Waiting
    <3>3. end[e].told \in Nat /\ end[e].refused \in Nat /\ end[e].given \in 0..MaxFrames
      BY <3>1, Fields DEF Counts
    <3> QED  BY <3>1, <3>2, <3>3, LinkAssumption DEF Counts
  <2>2. ASSUME NEW x \in Device, x.out = None, x.told \in Counts, x.refused \in Counts
        PROVE  x \in [role : Ends, state : {"RECV", "SEND", "CHECKED"},
                 pfSendCB : BOOLEAN, psSendHeader : Frames \cup {None},
                 bDiscPendingFlag : BOOLEAN, timer : {"off", "recv", "send"},
                 deferred : 0..1, nSymmetryCounter : 0..SLOW_SYMMETRY,
                 MacSend_Cb : BOOLEAN, MacReceive_Cb : BOOLEAN, SendPending : BOOLEAN,
                 RecvPending : BOOLEAN, sTxBuffer : Frames \cup {None}, sending : BOOLEAN,
                 receiving : BOOLEAN, out : {None}, given : 0..MaxFrames, told : 0..MaxFrames,
                 refused : 0..MaxFrames, arrived : Seq(1..MaxFrames), downs : 0..1]
    <3> HIDE DEF Frames, Ends
    <3> QED  BY <2>2 DEF Device, States, TimerStates, Bit, Symmetries, Counts, Opt, Arrivals
  <2>3. air \in [Ends -> Frames \cup {None}] /\ failures \in 0..MaxFailures
    BY DEF IInv, AirType, Opt
  <2>4. end \in [Ends -> Device]
    BY DEF IInv, Shapes
  <2> QED  BY <2>1, <2>2, <2>3, <2>4 DEF TypeOK
<1> QED  BY <1>1, IInvHolds, PTL
=============================================================================
