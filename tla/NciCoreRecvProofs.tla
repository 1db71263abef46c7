------------------------- MODULE NciCoreRecvProofs -------------------------
(***************************************************************************)
(* What holds of the receiving core for any messages, noise, buffers,      *)
(* timeouts and any size of wPayloadSize: it is never deaf (IInv), it reads*)
(* into the last buffer of its chain only (JInv), and what it delivers is  *)
(* the messages of the controller (FInv).                                  *)
(*                                                                         *)
(* IInv needs no more of the types than that the queues of packets, reads  *)
(* and messages are what they seem, JInv also those of the chain.  FInv    *)
(* says that the segments in the chain and the packets still to be handled *)
(* are a tail of what the controller sent, in its order; the payload of a  *)
(* message is put together by induction over its segments.                 *)
(***************************************************************************)
EXTENDS NciCoreRecv, SequenceTheorems, WellFoundedInduction, TLAPS

Kinds == {"segment", "ignored", "invalid"}
SomeByte == Nat \X Nat \X Nat
SomePacket == [kind : Kinds, msg : Nat, seg : Nat, hdr : Headers \cup {NoHeader}, pbf : BOOLEAN,
               bytes : Seq(SomeByte)]
Posts == [buf : AllBuffers \cup {NoBuffer}, len : Nat]

ControllerInv ==
  /\ begun \in Seq(Shapes)
  /\ sent \in Seq(Nat)
  /\ Len(sent) = Len(begun)
  /\ packets \in Seq(SomePacket)

QueuesInv ==
  /\ reads \in Seq(AllBuffers)
  /\ posted \in Seq(Posts)

IInv == ControllerInv /\ QueuesInv /\ NeverDeaf

(* A segment is a packet, whatever the message. *)
LEMMA SegmentIsPacket ==
  ASSUME NEW shape \in Shapes, NEW m \in Nat, NEW k \in 1 .. Len(shape.segs)
  PROVE  SegmentOf(m, shape, k) \in SomePacket
<1>1. /\ shape.segs \in Seq(Nat)
      /\ shape.hdr \in Headers
  BY RecvAssumption DEF RecvAssumption, Headers
<1>2. shape.segs[k] \in Nat /\ k \in Nat /\ Len(shape.segs) \in Nat
  BY <1>1
<1>3. Bytes(m, k, shape.segs[k]) \in Seq(SomeByte)
  <2>1. \A i \in 1 .. shape.segs[k] : <<m, k, i>> \in SomeByte
    BY <1>2 DEF SomeByte
  <2> QED BY <1>2, <2>1 DEF Bytes
<1> QED BY <1>1, <1>2, <1>3 DEF SegmentOf, Segment, SomePacket, Kinds

LEMMA NoiseIsPacket == \A k \in Noise : NoisePacket(k) \in SomePacket
<1> SUFFICES ASSUME NEW k \in Noise PROVE NoisePacket(k) \in SomePacket OBVIOUS
<1>1. k \in Kinds BY RecvAssumption DEF RecvAssumption, Kinds
<1>2. <<>> \in Seq(SomeByte) OBVIOUS
<1> HIDE DEF Kinds
<1> QED BY <1>1, <1>2 DEF NoisePacket, SomePacket

(* A completion in a queue of messages stays one when another follows. *)
LEMMA AppendKeeps ==
  ASSUME NEW q \in Seq(Posts), NEW e \in Posts
  PROVE  /\ Append(q, e) \in Seq(Posts)
         /\ \A i \in DOMAIN q : i \in DOMAIN Append(q, e) /\ Append(q, e)[i] = q[i]
         /\ Len(Append(q, e)) \in DOMAIN Append(q, e)
         /\ Append(q, e)[Len(Append(q, e))] = e
OBVIOUS

LEMMA TailKeeps ==
  ASSUME NEW q \in Seq(Posts), q # <<>>
  PROVE  /\ Tail(q) \in Seq(Posts)
         /\ \A i \in DOMAIN q : i # 1 => i - 1 \in DOMAIN Tail(q) /\ Tail(q)[i - 1] = q[i]
OBVIOUS

(* Every path that handles a packet ends by opening a read. *)
LEMMA CoreRecvOpens ==
  ASSUME NEW r, NEW open \in Seq(AllBuffers), CoreRecv(r, open)
  PROVE  reads' \in Seq(AllBuffers) /\ reads' # <<>>
<1>1. PICK b \in AllBuffers : reads' = Append(open, b)
  BY DEF CoreRecv, AllBuffers
<1> QED BY <1>1

LEMMA InitHolds == Init => IInv
<1> SUFFICES ASSUME Init PROVE IInv OBVIOUS
<1>1. ControllerInv BY DEF Init, ControllerInv
<1>2. HeadBuffer \in AllBuffers BY DEF AllBuffers
<1>3. QueuesInv BY <1>2 DEF Init, QueuesInv
<1>4. NeverDeaf BY DEF Init, NeverDeaf
<1> QED BY <1>1, <1>3, <1>4 DEF IInv

(* The controller only adds packets. *)
LEMMA ControllerStep ==
  ASSUME IInv,
         \/ \E shape \in Shapes : Begin(shape)
         \/ \E m \in Open : Continue(m)
         \/ \E k \in Noise : MakeNoise(k)
  PROVE  IInv'
<1>1. reads' = reads /\ posted' = posted
  BY DEF Begin, Continue, MakeNoise
<1>2. QueuesInv' /\ NeverDeaf'
  BY <1>1 DEF IInv, QueuesInv, NeverDeaf, Completions
<1>3. ControllerInv'
  <2>1. ASSUME NEW shape \in Shapes, Begin(shape) PROVE ControllerInv'
    <3>1. 1 \in 1 .. Len(shape.segs)
      BY RecvAssumption DEF RecvAssumption
    <3>2. SegmentOf(Len(begun) + 1, shape, 1) \in SomePacket
      BY <3>1, SegmentIsPacket DEF IInv, ControllerInv
    <3>3. packets' \in Seq(SomePacket)
      BY <2>1, <3>2 DEF Begin, IInv, ControllerInv
    <3> QED BY <2>1, <3>3 DEF Begin, IInv, ControllerInv
  <2>2. ASSUME NEW m \in Open, Continue(m) PROVE ControllerInv'
    <3>1. m \in Nat /\ begun[m] \in Shapes /\ sent[m] \in Nat /\ sent[m] < Len(begun[m].segs)
      BY DEF Open, IInv, ControllerInv
    <3>2. Len(begun[m].segs) \in Nat
      BY <3>1, RecvAssumption DEF RecvAssumption
    <3>3. sent[m] + 1 \in 1 .. Len(begun[m].segs)
      BY <3>1, <3>2
    <3>4. SegmentOf(m, begun[m], sent[m] + 1) \in SomePacket
      BY <3>1, <3>3, SegmentIsPacket
    <3>5. packets' \in Seq(SomePacket)
      BY <2>2, <3>4 DEF Continue, IInv, ControllerInv
    <3>6. sent' \in Seq(Nat) /\ Len(sent') = Len(sent)
      <4>1. sent \in Seq(Nat) BY DEF IInv, ControllerInv
      <4>2. sent' = [sent EXCEPT ![m] = sent[m] + 1] BY <2>2 DEF Continue
      <4>3. sent[m] + 1 \in Nat BY <3>1
      <4>4. m \in 1 .. Len(sent) BY DEF Open, IInv, ControllerInv
      <4>5. /\ [sent EXCEPT ![m] = sent[m] + 1] \in Seq(Nat)
            /\ Len([sent EXCEPT ![m] = sent[m] + 1]) = Len(sent)
        BY <4>1, <4>3, <4>4, ExceptSeq
      <4> QED BY <4>2, <4>5
    <3> QED BY <2>2, <3>5, <3>6 DEF Continue, IInv, ControllerInv
  <2>3. ASSUME NEW k \in Noise, MakeNoise(k) PROVE ControllerInv'
    <3>1. packets' \in Seq(SomePacket)
      BY <2>3, NoiseIsPacket DEF MakeNoise, IInv, ControllerInv
    <3> QED BY <2>3, <3>1 DEF MakeNoise, IInv, ControllerInv
  <2> QED BY <2>1, <2>2, <2>3
<1> QED BY <1>2, <1>3 DEF IInv

(* A read that is taken leaves its completion. *)
LEMMA ReceiveStep == IInv /\ Receive => IInv'
<1> SUFFICES ASSUME IInv, Receive PROVE IInv' OBVIOUS
<1> DEFINE c == Completion(Head(reads), Len(Head(packets).bytes))
<1>1. Head(reads) \in AllBuffers /\ Tail(reads) \in Seq(AllBuffers)
  BY DEF IInv, QueuesInv, Receive
<1>2. Head(packets) \in SomePacket /\ Tail(packets) \in Seq(SomePacket)
  BY DEF IInv, ControllerInv, Receive
<1>3. Len(Head(packets).bytes) \in Nat
  BY <1>2 DEF SomePacket
<1>4. c \in Posts /\ c.buf \in AllBuffers
  BY <1>1, <1>3 DEF Completion, Posts
<1>5. posted' = Append(posted, c) /\ reads' = Tail(reads) /\ packets' = Tail(packets)
      /\ begun' = begun /\ sent' = sent
  BY DEF Receive, nfcc
<1>6. posted \in Seq(Posts) BY DEF IInv, QueuesInv
<1> HIDE DEF c
<1>7. /\ posted' \in Seq(Posts)
      /\ Len(posted') \in DOMAIN posted' /\ posted'[Len(posted')] = c
  BY <1>4, <1>5, <1>6, AppendKeeps
<1>8. IsCompletion(c)
  BY <1>4, RecvAssumption DEF RecvAssumption, IsCompletion, AllBuffers, NoBuffer, HeadBuffer
<1>9. NeverDeaf'
  BY <1>7, <1>8 DEF NeverDeaf, Completions
<1>10. ControllerInv' BY <1>2, <1>5 DEF IInv, ControllerInv
<1>11. QueuesInv' BY <1>1, <1>5, <1>7 DEF QueuesInv
<1> QED BY <1>9, <1>10, <1>11 DEF IInv

(* A packet handled opens the next read, whatever became of it. *)
LEMMA CoreRecvCbStep == IInv /\ CoreRecvCb => IInv'
<1> SUFFICES ASSUME IInv, CoreRecvCb PROVE IInv' OBVIOUS
<1>1. \E r : CoreRecv(r, reads)
  BY DEF CoreRecvCb, Drop, Collect, Deliver
<1>2. reads' \in Seq(AllBuffers) /\ reads' # <<>>
  BY <1>1, CoreRecvOpens DEF IInv, QueuesInv
<1>3. posted' \in Seq(Posts)
  BY TailKeeps DEF CoreRecvCb, IInv, QueuesInv
<1>4. ControllerInv'
  BY DEF CoreRecvCb, nfcc, IInv, ControllerInv
<1> QED BY <1>2, <1>3, <1>4 DEF IInv, QueuesInv, NeverDeaf

(* The timeout opens the read it aborted; an expiry that does not count     *)
(* takes no completion away.                                               *)
LEMMA RspTimeOutCbStep == IInv /\ RspTimeOutCb => IInv'
<1> SUFFICES ASSUME IInv, RspTimeOutCb PROVE IInv' OBVIOUS
<1>1. posted \in Seq(Posts) /\ posted # <<>> /\ posted' = Tail(posted)
  BY DEF RspTimeOutCb, IInv, QueuesInv
<1>2. posted' \in Seq(Posts)
  BY <1>1, TailKeeps
<1>3. ControllerInv'
  BY DEF RspTimeOutCb, nfcc, IInv, ControllerInv
<1>4. CASE timer.fired
  <2>1. CoreRecv(DeleteList(tReceiveInfo), ReadAbort)
    BY <1>4 DEF RspTimeOutCb, Reopen
  <2>2. ReadAbort \in Seq(AllBuffers) BY DEF ReadAbort
  <2>3. reads' \in Seq(AllBuffers) /\ reads' # <<>>
    BY <2>1, <2>2, CoreRecvOpens
  <2> QED BY <1>2, <1>3, <2>3 DEF IInv, QueuesInv, NeverDeaf
<1>5. CASE ~timer.fired
  <2>1. reads' = reads BY <1>5 DEF RspTimeOutCb
  <2>2. NeverDeaf'
    <3>1. CASE reads # <<>> BY <2>1, <3>1 DEF NeverDeaf
    <3>2. CASE reads = <<>>
      <4>1. PICK i \in DOMAIN posted : IsCompletion(posted[i])
        BY <3>2 DEF IInv, NeverDeaf, Completions
      <4>2. i # 1
        BY <4>1 DEF RspTimeOutCb
      <4>3. i - 1 \in DOMAIN posted' /\ posted'[i - 1] = posted[i]
        BY <1>1, <4>2, TailKeeps
      <4>4. i - 1 \in Completions'
        BY <4>1, <4>3 DEF Completions, IsCompletion
      <4> QED BY <4>4 DEF NeverDeaf
    <3> QED BY <3>1, <3>2
  <2> QED BY <1>2, <1>3, <2>1, <2>2 DEF IInv, QueuesInv
<1> QED BY <1>4, <1>5

LEMMA TimerStep ==
  ASSUME IInv, Expire \/ \E h \in Answers : Request(h) PROVE IInv'
<1>1. CASE Expire
  <2>1. Expiry \in Posts BY DEF Expiry, Posts
  <2>2. posted \in Seq(Posts) /\ posted' = Append(posted, Expiry)
    BY <1>1 DEF Expire, IInv, QueuesInv
  <2>3. /\ posted' \in Seq(Posts)
        /\ \A i \in DOMAIN posted : i \in DOMAIN posted' /\ posted'[i] = posted[i]
    BY <2>1, <2>2, AppendKeeps
  <2>4. reads' = reads BY <1>1 DEF Expire, wire
  <2>5. NeverDeaf'
    BY <2>3, <2>4 DEF IInv, NeverDeaf, Completions, IsCompletion
  <2>6. ControllerInv' BY <1>1 DEF Expire, nfcc, wire, IInv, ControllerInv
  <2> QED BY <2>3, <2>4, <2>5, <2>6 DEF IInv, QueuesInv
<1>2. CASE \E h \in Answers : Request(h)
  BY <1>2 DEF Request, nfcc, wire, IInv, ControllerInv, QueuesInv, NeverDeaf, Completions
<1> QED BY <1>1, <1>2

LEMMA StepHolds == IInv /\ [Next]_vars => IInv'
<1> SUFFICES ASSUME IInv, [Next]_vars PROVE IInv' OBVIOUS
<1>1. CASE Next
  BY <1>1, ControllerStep, ReceiveStep, CoreRecvCbStep, RspTimeOutCbStep, TimerStep DEF Next
<1>2. CASE UNCHANGED vars
  BY <1>2 DEF vars, nfcc, wire, IInv, ControllerInv, QueuesInv, NeverDeaf, Completions
<1> QED BY <1>1, <1>2

(***************************************************************************)
(* phNciNfc_CoreRecvCb and phNciNfc_RspTimeOutCb always leave a read open  *)
(* or a completion to handle: NeverDeaf is an invariant, whatever the      *)
(* controller sends and whenever the timer goes off.                       *)
(***************************************************************************)
THEOREM AlwaysListens == Spec => []NeverDeaf
<1>1. IInv => NeverDeaf BY DEF IInv
<1> QED BY InitHolds, StepHolds, <1>1, PTL DEF Spec

-----------------------------------------------------------------------------
(***************************************************************************)
(* Where the next packet goes.  The chain is a record of a sequence of     *)
(* buffers and a count modulo SizeLimit, and every buffer holds a packet.  *)
(***************************************************************************)
ChainInv == tReceiveInfo \in ChainType /\ mem \in [AllBuffers -> SomePacket]

JInv == IInv /\ ChainInv /\ OnlyReadIntoChain

USE DEF HEADER_LEN

LEMMA SizeFact == SizeLimit \in Nat /\ SizeLimit > 0
BY RecvAssumption DEF RecvAssumption

(* Emptying the chain, dropping its last buffer and adding a segment give a chain. *)
LEMMA ChainOps ==
  ASSUME NEW r \in ChainType
  PROVE  /\ DeleteList(r) \in ChainType
         /\ RemoveLastChainedNode(r) \in ChainType
         /\ \A h \in Headers \cup {NoHeader} : [r EXCEPT !.HeaderInfo = h] \in ChainType
         /\ \A n \in Nat : AddSegment(r, n) \in ChainType
<1>1. DeleteList(r) \in ChainType
  <2>1. <<HeadBuffer>> \in Seq(AllBuffers) BY DEF AllBuffers
  <2>2. 0 \in 0 .. SizeLimit - 1 BY SizeFact
  <2> HIDE DEF HeadBuffer
  <2> QED BY <2>1, <2>2 DEF DeleteList, ChainType
<1>2. RemoveLastChainedNode(r) \in ChainType
  <2>1. r.list \in Seq(AllBuffers) BY DEF ChainType
  <2>2. Len(r.list) > 1 => Front(r.list) \in Seq(AllBuffers)
    BY <2>1 DEF Front
  <2> QED BY <2>2 DEF RemoveLastChainedNode, ChainType
<1>3. \A h \in Headers \cup {NoHeader} : [r EXCEPT !.HeaderInfo = h] \in ChainType
  BY DEF ChainType
<1>4. ASSUME NEW n \in Nat PROVE AddSegment(r, n) \in ChainType
  <2> DEFINE lens == [r.lens EXCEPT ![Last(r.list)] = n]
             size == (r.wPayloadSize + HEADER_LEN + n) % SizeLimit
  <2>1. lens \in [AllBuffers -> Nat] BY DEF ChainType
  <2>2. size \in 0 .. SizeLimit - 1 BY SizeFact DEF ChainType
  <2>3. AddSegment(r, n) = [r EXCEPT !.lens = lens, !.wPayloadSize = size]
    BY DEF AddSegment, ChainType
  <2> HIDE DEF lens, size
  <2> QED BY <2>1, <2>2, <2>3 DEF ChainType
<1> QED BY <1>1, <1>2, <1>3, <1>4

(* The read that is opened goes into the buffer the next packet belongs into. *)
LEMMA CoreRecvIntoLast ==
  ASSUME NEW r \in ChainType, CoreRecv(r, <<>>)
  PROVE  tReceiveInfo' \in ChainType /\ reads' = <<LastNode'>>
<1>1. PICK b \in AllBuffers : /\ tReceiveInfo' = GetNewNode(r, b)
                              /\ reads' = Append(<<>>, b)
                              /\ r.wPayloadSize = 0 => b = HeadBuffer
  BY DEF CoreRecv, AllBuffers
<1>2. reads' = <<b>> BY <1>1
<1>3. CASE r.wPayloadSize = 0
  BY <1>1, <1>2, <1>3 DEF GetNewNode, LastNode
<1>4. CASE r.wPayloadSize # 0
  <2> DEFINE l == Append(r.list, b)
  <2>1. l \in Seq(AllBuffers) /\ Last(l) = b
    BY <1>1 DEF ChainType, Last
  <2>2. tReceiveInfo' = [r EXCEPT !.list = l]
    BY <1>1, <1>4 DEF GetNewNode
  <2> HIDE DEF l
  <2>3. tReceiveInfo' \in ChainType /\ tReceiveInfo'.list = l
        /\ tReceiveInfo'.wPayloadSize = r.wPayloadSize
    BY <2>1, <2>2 DEF ChainType
  <2> QED BY <1>2, <1>4, <2>1, <2>3 DEF LastNode
<1> QED BY <1>3, <1>4

LEMMA CoreRecvChain ==
  ASSUME NEW r \in ChainType, NEW open, CoreRecv(r, open)
  PROVE  tReceiveInfo' \in ChainType
<1>1. PICK b \in AllBuffers : tReceiveInfo' = GetNewNode(r, b)
  BY DEF CoreRecv, AllBuffers
<1>2. Append(r.list, b) \in Seq(AllBuffers)
  BY DEF ChainType
<1> QED BY <1>1, <1>2 DEF GetNewNode, ChainType

(* Taking the only completion leaves none. *)
LEMMA TakenWasOnly ==
  ASSUME posted \in Seq(Posts), posted # <<>>, posted' = Tail(posted), IsCompletion(posted[1]),
         \A i, j \in Completions : i = j
  PROVE  Completions' = {}
<1> SUFFICES ASSUME NEW k \in Completions' PROVE FALSE OBVIOUS
<1>1. k \in DOMAIN posted' /\ IsCompletion(posted'[k])
  BY DEF Completions, IsCompletion
<1>2. k + 1 \in DOMAIN posted /\ posted[k + 1] = posted'[k]
  BY <1>1
<1>3. k + 1 \in Completions /\ 1 \in Completions /\ k + 1 # 1
  BY <1>1, <1>2 DEF Completions, IsCompletion
<1> QED BY <1>3

LEMMA JInitHolds == Init => JInv
<1> SUFFICES ASSUME Init PROVE JInv OBVIOUS
<1>1. IInv BY InitHolds
<1>2. tReceiveInfo \in ChainType
  BY SizeFact DEF Init, ChainType, AllBuffers
<1>3. mem \in [AllBuffers -> SomePacket]
  <2>1. NoisePacket("invalid") \in SomePacket
    <3>1. <<>> \in Seq(SomeByte) OBVIOUS
    <3> QED BY <3>1 DEF NoisePacket, SomePacket, Kinds
  <2> QED BY <2>1 DEF Init
<1>4. OnlyReadIntoChain
  BY DEF Init, OnlyReadIntoChain, ReadIntoChain, LastNode, Completions
<1> QED BY <1>1, <1>2, <1>3, <1>4 DEF JInv, ChainInv

(* Steps that change neither the chain, nor the reads, nor their completions. *)
LEMMA Untouched ==
  ASSUME JInv, UNCHANGED <<tReceiveInfo, mem, reads, overtaken>>, IInv',
         Completions' = Completions, \A i \in Completions : posted'[i] = posted[i]
  PROVE  JInv'
BY DEF JInv, ChainInv, OnlyReadIntoChain, ReadIntoChain, LastNode

LEMMA JControllerStep ==
  ASSUME JInv, IInv',
         \/ \E shape \in Shapes : Begin(shape)
         \/ \E m \in Open : Continue(m)
         \/ \E k \in Noise : MakeNoise(k)
         \/ \E h \in Answers : Request(h)
  PROVE  JInv'
<1>1. UNCHANGED <<tReceiveInfo, mem, reads, posted, overtaken>>
  BY DEF Begin, Continue, MakeNoise, Request, wire, history
<1>2. Completions' = Completions /\ \A i \in Completions : posted'[i] = posted[i]
  BY <1>1 DEF Completions, IsCompletion
<1> QED BY <1>1, <1>2, Untouched

(* An expiry is no completion. *)
LEMMA JExpireStep == JInv /\ IInv' /\ Expire => JInv'
<1> SUFFICES ASSUME JInv, IInv', Expire PROVE JInv' OBVIOUS
<1>1. Expiry \in Posts /\ ~IsCompletion(Expiry)
  BY DEF Expiry, Posts, IsCompletion
<1>2. posted \in Seq(Posts) /\ posted' = Append(posted, Expiry)
  BY DEF Expire, JInv, IInv, QueuesInv
<1> HIDE DEF Expiry
<1>3. \A i \in DOMAIN posted' : i \in DOMAIN posted \/ (i = Len(posted) + 1 /\ posted'[i] = Expiry)
  BY <1>1, <1>2
<1>4. \A i \in DOMAIN posted : i \in DOMAIN posted' /\ posted'[i] = posted[i]
  BY <1>1, <1>2, AppendKeeps
<1>5. Completions' = Completions /\ \A i \in Completions : posted'[i] = posted[i]
  BY <1>1, <1>3, <1>4 DEF Completions, IsCompletion
<1>6. UNCHANGED <<tReceiveInfo, mem, reads, overtaken>>
  BY DEF Expire, wire, history
<1> QED BY <1>5, <1>6, Untouched

(* The packet goes into the buffer of the open read; the completion names it. *)
LEMMA JReceiveStep == JInv /\ IInv' /\ Receive => JInv'
<1> SUFFICES ASSUME JInv, IInv', Receive PROVE JInv' OBVIOUS
<1> DEFINE c == Completion(Head(reads), Len(Head(packets).bytes))
<1>1. /\ reads \in Seq(AllBuffers) /\ reads # <<>> /\ posted \in Seq(Posts)
      /\ packets \in Seq(SomePacket) /\ packets # <<>>
  BY DEF Receive, JInv, IInv, QueuesInv, ControllerInv
<1>2. Head(packets) \in SomePacket /\ Head(reads) \in AllBuffers
  BY <1>1
<1>3. mem' \in [AllBuffers -> SomePacket]
  BY <1>2 DEF Receive, JInv, ChainInv
<1>4. UNCHANGED <<tReceiveInfo, overtaken>> /\ reads' = Tail(reads) /\ posted' = Append(posted, c)
  BY DEF Receive, history
<1>5. CASE overtaken
  BY <1>3, <1>4, <1>5 DEF JInv, ChainInv, OnlyReadIntoChain
<1>6. CASE ReadIntoChain
  <2>1. reads = <<LastNode>> /\ Completions = {}
    BY <1>1, <1>6 DEF ReadIntoChain
  <2>2. c \in Posts /\ c.buf = LastNode
    <3>1. Len(Head(packets).bytes) \in Nat BY <1>2 DEF SomePacket
    <3> QED BY <1>2, <2>1, <3>1 DEF Completion, Posts
  <2> HIDE DEF c
  <2>3. reads' = <<>> BY <1>4, <2>1
  <2>4. \A i \in DOMAIN posted' : \/ i \in DOMAIN posted /\ posted'[i] = posted[i]
                                  \/ i = Len(posted) + 1 /\ posted'[i] = c
    BY <1>1, <1>4, <2>2
  <2>5. \A i \in Completions' : i = Len(posted) + 1 /\ posted'[i] = c
    BY <2>1, <2>4 DEF Completions, IsCompletion
  <2>6. LastNode' = LastNode BY <1>4 DEF LastNode
  <2>7. ReadIntoChain' BY <2>2, <2>3, <2>5, <2>6 DEF ReadIntoChain
  <2> QED BY <1>3, <1>4, <2>7 DEF JInv, ChainInv, OnlyReadIntoChain
<1> QED BY <1>5, <1>6 DEF JInv, OnlyReadIntoChain

(* Whatever is made of a packet, the chain is one, and the next read ends it. *)
LEMMA JCoreRecvCbStep == JInv /\ IInv' /\ CoreRecvCb => JInv'
<1> SUFFICES ASSUME JInv, IInv', CoreRecvCb PROVE JInv' OBVIOUS
<1> DEFINE p == mem[Head(posted).buf]
           n == Head(posted).len
           r == IF Interrupts(tReceiveInfo, p) THEN DeleteList(tReceiveInfo) ELSE tReceiveInfo
           h == [r EXCEPT !.HeaderInfo = p.hdr]
           s == AddSegment(h, n)
<1>1. /\ posted \in Seq(Posts) /\ posted # <<>> /\ posted' = Tail(posted)
      /\ IsCompletion(posted[1]) /\ Head(posted) = posted[1]
  BY DEF CoreRecvCb, JInv, IInv, QueuesInv
<1>2. n \in Nat /\ p \in SomePacket
  <2>1. posted[1] \in Posts BY <1>1
  <2>2. posted[1].buf \in AllBuffers /\ posted[1].len \in Nat
    BY <1>1, <2>1 DEF Posts, IsCompletion
  <2> QED BY <1>1, <2>2 DEF JInv, ChainInv
<1>3. tReceiveInfo \in ChainType BY DEF JInv, ChainInv
<1>4. s \in ChainType
  <2>1. r \in ChainType BY <1>3, ChainOps
  <2>2. p.hdr \in Headers \cup {NoHeader} BY <1>2 DEF SomePacket
  <2> HIDE DEF r, p
  <2>3. h \in ChainType BY <2>1, <2>2, ChainOps
  <2> HIDE DEF h, n
  <2> QED BY <1>2, <2>3, ChainOps
<1>5. mem' \in [AllBuffers -> SomePacket]
  <2>1. mem' = mem \/ mem' = [mem EXCEPT ![HeadBuffer] = p]
    BY DEF CoreRecvCb, Drop
  <2> QED BY <1>2, <2>1 DEF JInv, ChainInv
<1>6. overtaken' = overtaken BY DEF CoreRecvCb
<1>7. PICK q \in ChainType : CoreRecv(q, reads)
  <2>1. Drop(p) \/ Collect(s) \/ Deliver(s, mem')
    BY DEF CoreRecvCb
  <2>2. CASE Drop(p)
    BY <1>3, <2>2, ChainOps DEF Drop
  <2>3. CASE Collect(s)
    BY <1>4, <2>3 DEF Collect
  <2>4. CASE Deliver(s, mem')
    <3> HIDE DEF s
    <3> QED BY <1>4, <2>4, ChainOps DEF Deliver
  <2> QED BY <2>1, <2>2, <2>3, <2>4
<1>8. tReceiveInfo' \in ChainType
  BY <1>7, CoreRecvChain
<1>9. CASE overtaken
  BY <1>5, <1>6, <1>8, <1>9 DEF JInv, ChainInv, OnlyReadIntoChain
<1>10. CASE ReadIntoChain
  <2>1. 1 \in Completions BY <1>1 DEF Completions
  <2>2. reads = <<>> BY <1>10, <2>1 DEF ReadIntoChain
  <2>3. Completions' = {}
    BY <1>1, <1>10, TakenWasOnly DEF ReadIntoChain
  <2>4. reads' = <<LastNode'>>
    BY <1>7, <2>2, CoreRecvIntoLast
  <2>5. ReadIntoChain' BY <2>3, <2>4 DEF ReadIntoChain
  <2> QED BY <1>5, <1>8, <2>5 DEF JInv, ChainInv, OnlyReadIntoChain
<1> QED BY <1>9, <1>10 DEF JInv, OnlyReadIntoChain

(* The timeout opens the only read, unless a completion is posted. *)
LEMMA JRspTimeOutCbStep == JInv /\ IInv' /\ RspTimeOutCb => JInv'
<1> SUFFICES ASSUME JInv, IInv', RspTimeOutCb PROVE JInv' OBVIOUS
<1>1. /\ posted \in Seq(Posts) /\ posted # <<>> /\ posted' = Tail(posted)
      /\ ~IsCompletion(posted[1])
  BY DEF RspTimeOutCb, JInv, IInv, QueuesInv
<1>2. tReceiveInfo \in ChainType /\ mem' \in [AllBuffers -> SomePacket]
  BY DEF RspTimeOutCb, JInv, ChainInv
<1>3. \A k \in Completions' : k + 1 \in Completions /\ posted'[k] = posted[k + 1] /\ k \in Int
  BY <1>1 DEF Completions, IsCompletion
<1>4. CASE timer.fired
  <2>1. CoreRecv(DeleteList(tReceiveInfo), <<>>)
    BY <1>4 DEF RspTimeOutCb, Reopen, ReadAbort
  <2>2. tReceiveInfo' \in ChainType /\ reads' = <<LastNode'>>
    BY <1>2, <2>1, ChainOps, CoreRecvIntoLast
  <2>3. overtaken' = (overtaken \/ Completions # {})
    BY <1>4 DEF RspTimeOutCb
  <2>4. OnlyReadIntoChain'
    <3>1. CASE Completions # {} BY <2>3, <3>1 DEF OnlyReadIntoChain
    <3>2. CASE Completions = {}
      <4>1. Completions' = {} BY <1>3, <3>2
      <4> QED BY <2>2, <4>1 DEF OnlyReadIntoChain, ReadIntoChain
    <3> QED BY <3>1, <3>2
  <2> QED BY <1>2, <2>2, <2>4 DEF JInv, ChainInv
<1>5. CASE ~timer.fired
  <2>1. UNCHANGED <<tReceiveInfo, reads, overtaken>>
    BY <1>5 DEF RspTimeOutCb
  <2>2. LastNode' = LastNode BY <2>1 DEF LastNode
  <2>3. ReadIntoChain => ReadIntoChain'
    BY <1>3, <2>1, <2>2 DEF ReadIntoChain
  <2> QED BY <1>2, <2>1, <2>3 DEF JInv, ChainInv, OnlyReadIntoChain
<1> QED BY <1>4, <1>5

LEMMA JStepHolds == JInv /\ [Next]_vars => JInv'
<1> SUFFICES ASSUME JInv, [Next]_vars PROVE JInv' OBVIOUS
<1>1. IInv' BY StepHolds DEF JInv
<1>2. CASE Next
  BY <1>1, <1>2, JControllerStep, JExpireStep, JReceiveStep, JCoreRecvCbStep, JRspTimeOutCbStep
     DEF Next
<1>3. CASE UNCHANGED vars
  <2>1. UNCHANGED <<tReceiveInfo, mem, reads, posted, overtaken>>
    BY <1>3 DEF vars, wire, history
  <2>2. Completions' = Completions /\ \A i \in Completions : posted'[i] = posted[i]
    BY <2>1 DEF Completions, IsCompletion
  <2> QED BY <1>1, <2>1, <2>2, Untouched
<1> QED BY <1>2, <1>3

(***************************************************************************)
(* OnlyReadIntoChain is an invariant, also when wPayloadSize wraps: as long*)
(* as no expiry is handled with a completion behind it, the transport layer*)
(* holds one read at a time and writes into the last buffer of the chain.  *)
(***************************************************************************)
THEOREM ReadsStayInChain == Spec => []OnlyReadIntoChain
<1>1. JInv => OnlyReadIntoChain BY DEF JInv
<1> QED BY JInitHolds, JStepHolds, <1>1, PTL DEF Spec

-----------------------------------------------------------------------------
(***************************************************************************)
(* What is delivered.  The payload of a message is put together by a fold  *)
(* over the chain, so that its proof needs induction: WFMin of the library *)
(* gives it, for sets of natural numbers.                                  *)
(***************************************************************************)
(* Natural numbers are well founded: what holds of zero and goes on holds of all. *)
LEMMA Inductive ==
  ASSUME NEW T, 0 \in T, \A n \in Nat : n \in T => n + 1 \in T
  PROVE  Nat \subseteq T
<1> DEFINE R == OpToRel(<, Nat)
           Rest == Nat \ T
<1>1. IsWellFoundedOn(R, Nat)
  BY NatLessThanWellFounded
<1>2. \A x, y \in Nat : x < y => <<x, y>> \in R
  BY DEF OpToRel
<1> SUFFICES ASSUME Rest # {} PROVE FALSE
  OBVIOUS
<1>3. PICK x \in Rest : \A y \in Rest : <<y, x>> \notin R
  <2>1. Rest \subseteq Nat OBVIOUS
  <2> HIDE DEF R, Rest
  <2> QED BY <1>1, <2>1, WFMin, Zenon
<1> HIDE DEF R
<1>4. x # 0 /\ x \in Nat
  OBVIOUS
<1>5. x - 1 \in Nat /\ x - 1 < x
  BY <1>4
<1>6. x - 1 \in T
  BY <1>2, <1>3, <1>4, <1>5
<1> QED BY <1>4, <1>5, <1>6

(***************************************************************************)
(* FlattenSeq: the function of its definition exists, ...                  *)
(***************************************************************************)
Body(s, n, f) == [i \in 1 .. n |-> IF i = 1 THEN s[i] ELSE f[i - 1] \o s[i]]
Flatten(s) == CHOOSE f : f = Body(s, Len(s), f)

LEMMA FlattenDef ==
  ASSUME NEW s PROVE FlattenSeq(s) = IF Len(s) = 0 THEN s ELSE Flatten(s)[Len(s)]
BY DEF FlattenSeq, Flatten, Body

LEMMA BodyExists ==
  ASSUME NEW s
  PROVE  \A n \in Nat : \E f : f = Body(s, n, f)
<1> DEFINE T == {n \in Nat : \E f : f = Body(s, n, f)}
<1>1. 0 \in T
  <2>1. [i \in 1 .. 0 |-> i] = Body(s, 0, [i \in 1 .. 0 |-> i])
    BY DEF Body
  <2> QED BY <2>1
<1>2. ASSUME NEW n \in Nat, n \in T PROVE n + 1 \in T
  <2>1. PICK f : f = Body(s, n, f) BY <1>2
  <2> DEFINE last == IF n + 1 = 1 THEN s[n + 1] ELSE f[n] \o s[n + 1]
             g == [i \in 1 .. n + 1 |-> IF i = n + 1 THEN last ELSE f[i]]
  <2>2. \A i \in 1 .. n : g[i] = f[i]
    OBVIOUS
  <2>3. \A i \in 1 .. n : f[i] = IF i = 1 THEN s[i] ELSE f[i - 1] \o s[i]
    BY <2>1 DEF Body
  <2>4. \A i \in 1 .. n + 1 : g[i] = IF i = 1 THEN s[i] ELSE g[i - 1] \o s[i]
    <3> SUFFICES ASSUME NEW i \in 1 .. n + 1
                 PROVE  g[i] = IF i = 1 THEN s[i] ELSE g[i - 1] \o s[i]
      OBVIOUS
    <3>1. g[n + 1] = last OBVIOUS
    <3>2. i = 1 \/ i - 1 \in 1 .. n OBVIOUS
    <3> HIDE DEF g
    <3> QED BY <2>2, <2>3, <3>1, <3>2
  <2>5. g = Body(s, n + 1, g)
    <3>1. g = [i \in 1 .. n + 1 |-> g[i]] OBVIOUS
    <3> HIDE DEF g
    <3> QED BY <2>4, <3>1 DEF Body
  <2> HIDE DEF g
  <2> QED BY <2>5
<1> HIDE DEF T
<1>3. Nat \subseteq T BY <1>1, <1>2, Inductive
<1> QED BY <1>3 DEF T

LEMMA FlattenFcn ==
  ASSUME NEW s, Len(s) \in Nat
  PROVE  Flatten(s) = Body(s, Len(s), Flatten(s))
<1>1. \E f : f = Body(s, Len(s), f)
  BY BodyExists
<1> QED BY <1>1 DEF Flatten

(* ... and it puts one sequence after the other. *)
LEMMA FlattenIs ==
  ASSUME NEW s, Len(s) \in Nat
  PROVE  \A i \in 1 .. Len(s) :
           Flatten(s)[i] = IF i = 1 THEN s[i] ELSE Flatten(s)[i - 1] \o s[i]
<1>1. Flatten(s) = Body(s, Len(s), Flatten(s))
  BY FlattenFcn
<1> QED BY <1>1 DEF Body

LEMMA FlattenSeqs ==
  ASSUME NEW B, NEW s \in Seq(Seq(B))
  PROVE  /\ \A i \in 1 .. Len(s) : Flatten(s)[i] \in Seq(B)
         /\ FlattenSeq(s) \in Seq(B)
<1> DEFINE T == {n \in Nat : n \in 1 .. Len(s) => Flatten(s)[n] \in Seq(B)}
<1>1. 0 \in T OBVIOUS
<1>2. ASSUME NEW n \in Nat, n \in T PROVE n + 1 \in T
  <2> SUFFICES ASSUME n + 1 \in 1 .. Len(s) PROVE Flatten(s)[n + 1] \in Seq(B)
    OBVIOUS
  <2>1. Flatten(s)[n + 1] = IF n + 1 = 1 THEN s[n + 1] ELSE Flatten(s)[n] \o s[n + 1]
    BY FlattenIs, SMTT(30)
  <2>2. s[n + 1] \in Seq(B) OBVIOUS
  <2>3. n # 0 => Flatten(s)[n] \in Seq(B) BY <1>2
  <2> QED BY <2>1, <2>2, <2>3
<1>3. Nat \subseteq T
  <2> HIDE DEF T
  <2> QED BY <1>1, <1>2, Inductive
<1>4. \A i \in 1 .. Len(s) : Flatten(s)[i] \in Seq(B)
  BY <1>3
<1>5. FlattenSeq(s) \in Seq(B)
  <2>1. CASE Len(s) = 0
    <3>1. FlattenSeq(s) = s BY <2>1, FlattenDef
    <3>2. s \in Seq(B) BY <2>1
    <3> QED BY <3>1, <3>2
  <2>2. CASE Len(s) # 0
    <3>1. Len(s) \in 1 .. Len(s) BY <2>2
    <3> QED BY <2>2, <3>1, <1>4, FlattenDef
  <2> QED BY <2>1, <2>2
<1> QED BY <1>4, <1>5

LEMMA FlattenAppend ==
  ASSUME NEW B, NEW s \in Seq(Seq(B)), NEW x \in Seq(B)
  PROVE  FlattenSeq(Append(s, x)) = FlattenSeq(s) \o x
<1> DEFINE a == Append(s, x)
           T == {n \in Nat : n \in 1 .. Len(s) => Flatten(a)[n] = Flatten(s)[n]}
<1>1. /\ a \in Seq(Seq(B)) /\ Len(a) = Len(s) + 1 /\ a[Len(s) + 1] = x
      /\ \A i \in 1 .. Len(s) : a[i] = s[i]
  OBVIOUS
<1>2. Len(s) \in Nat OBVIOUS
<1> HIDE DEF a
<1>10. \A i \in 1 .. Len(s) :
         Flatten(s)[i] = IF i = 1 THEN s[i] ELSE Flatten(s)[i - 1] \o s[i]
  BY <1>2, FlattenIs
<1>11. \A i \in 1 .. Len(a) :
         Flatten(a)[i] = IF i = 1 THEN a[i] ELSE Flatten(a)[i - 1] \o a[i]
  <2>1. Len(a) \in Nat BY <1>1, <1>2
  <2> QED BY <2>1, FlattenIs, Zenon
<1>3. 0 \in T OBVIOUS
<1>4. ASSUME NEW n \in Nat, n \in T PROVE n + 1 \in T
  <2> SUFFICES ASSUME n + 1 \in 1 .. Len(s) PROVE Flatten(a)[n + 1] = Flatten(s)[n + 1]
    OBVIOUS
  <2>1. Flatten(s)[n + 1] = IF n + 1 = 1 THEN s[n + 1] ELSE Flatten(s)[n] \o s[n + 1]
    BY <1>10
  <2>2. Flatten(a)[n + 1] = IF n + 1 = 1 THEN a[n + 1] ELSE Flatten(a)[n] \o a[n + 1]
    BY <1>1, <1>2, <1>11
  <2>3. n # 0 => Flatten(a)[n] = Flatten(s)[n] BY <1>4
  <2> QED BY <1>1, <2>1, <2>2, <2>3
<1>5. Nat \subseteq T
  <2> HIDE DEF T
  <2> QED BY <1>3, <1>4, Inductive
<1>6. FlattenSeq(a) = Flatten(a)[Len(s) + 1]
  BY <1>1, <1>2, FlattenDef
<1>7. Flatten(a)[Len(s) + 1] = IF Len(s) + 1 = 1 THEN x ELSE Flatten(a)[Len(s)] \o x
  <2>1. Len(s) + 1 \in 1 .. Len(a) BY <1>1, <1>2
  <2> QED BY <1>1, <1>2, <2>1, FlattenIs
<1>8. CASE Len(s) = 0
  <2>1. FlattenSeq(s) = <<>> BY <1>8, FlattenDef
  <2>2. <<>> \o x = x OBVIOUS
  <2> QED BY <1>6, <1>7, <1>8, <2>1, <2>2 DEF a
<1>9. CASE Len(s) # 0
  <2>1. FlattenSeq(s) = Flatten(s)[Len(s)] BY <1>9, FlattenDef
  <2>2. Flatten(a)[Len(s)] = Flatten(s)[Len(s)]
    <3>1. Len(s) \in T BY <1>5, <1>2
    <3> QED BY <3>1, <1>2, <1>9
  <2> QED BY <1>2, <1>6, <1>7, <1>9, <2>1, <2>2 DEF a
<1> QED BY <1>2, <1>8, <1>9

-----------------------------------------------------------------------------
(***************************************************************************)
(* The payload of n segments of message m behind the first j, where g      *)
(* gives the length of each of its segments.                               *)
(***************************************************************************)
Segs(g, m, j, n) == [i \in 1 .. n |-> Bytes(m, j + i, g[j + i])]
Part(g, m, j, n) == FlattenSeq(Segs(g, m, j, n))

LEMMA BytesAre ==
  ASSUME NEW m \in Nat, NEW k \in Nat, NEW n \in Nat
  PROVE  /\ Bytes(m, k, n) \in Seq(SomeByte) /\ Len(Bytes(m, k, n)) = n
         /\ \A i \in 1 .. n : Bytes(m, k, n)[i] = <<m, k, i>>
<1>1. \A i \in 1 .. n : <<m, k, i>> \in SomeByte
  BY DEF SomeByte
<1> QED BY <1>1 DEF Bytes

LEMMA SegsAre ==
  ASSUME NEW g \in Seq(Nat), NEW m \in Nat, NEW j \in Nat, NEW n \in Nat, j + n <= Len(g)
  PROVE  Segs(g, m, j, n) \in Seq(Seq(SomeByte)) /\ Len(Segs(g, m, j, n)) = n
<1>1. \A i \in 1 .. n : j + i \in Nat /\ g[j + i] \in Nat
  OBVIOUS
<1>2. \A i \in 1 .. n : Bytes(m, j + i, g[j + i]) \in Seq(SomeByte)
  BY <1>1, BytesAre
<1> QED BY <1>2 DEF Segs

LEMMA PartNone ==
  ASSUME NEW g, NEW m, NEW j PROVE Part(g, m, j, 0) = <<>>
<1>1. Segs(g, m, j, 0) = <<>> BY DEF Segs
<1>2. Len(<<>>) = 0 OBVIOUS
<1> QED BY <1>1, <1>2, FlattenDef DEF Part

LEMMA PartNext ==
  ASSUME NEW g \in Seq(Nat), NEW m \in Nat, NEW j \in Nat, NEW n \in Nat, j + n + 1 <= Len(g)
  PROVE  /\ Part(g, m, j, n) \in Seq(SomeByte)
         /\ Part(g, m, j, n + 1) = Part(g, m, j, n) \o Bytes(m, j + n + 1, g[j + n + 1])
         /\ Len(Part(g, m, j, n + 1)) = Len(Part(g, m, j, n)) + g[j + n + 1]
<1> DEFINE s == Segs(g, m, j, n)
           x == Bytes(m, j + n + 1, g[j + n + 1])
<1>1. s \in Seq(Seq(SomeByte)) /\ Len(s) = n
  BY SegsAre
<1>2. x \in Seq(SomeByte) /\ Len(x) = g[j + n + 1]
  <2>1. j + n + 1 \in 1 .. Len(g) OBVIOUS
  <2>2. g[j + n + 1] \in Nat /\ j + n + 1 \in Nat BY <2>1
  <2> QED BY <2>2, BytesAre
<1>3. Segs(g, m, j, n + 1) = Append(s, x)
  <2> DEFINE t == Segs(g, m, j, n + 1)
  <2>1. t \in Seq(Seq(SomeByte)) /\ Len(t) = n + 1
    <3>1. n + 1 \in Nat /\ j + (n + 1) <= Len(g) OBVIOUS
    <3> QED BY <3>1, SegsAre
  <2>2. \A i \in 1 .. n : t[i] = s[i]
    BY DEF Segs
  <2>3. t[n + 1] = x
    <3>1. n + 1 \in 1 .. n + 1 OBVIOUS
    <3>2. t[n + 1] = Bytes(m, j + (n + 1), g[j + (n + 1)])
      BY <3>1 DEF Segs
    <3>3. j + (n + 1) = j + n + 1 OBVIOUS
    <3> HIDE DEF t
    <3> QED BY <3>2, <3>3, Zenon
  <2> HIDE DEF t, s, x
  <2>4. t = Append(s, x) BY <1>1, <1>2, <2>1, <2>2, <2>3
  <2> QED BY <2>4 DEF t
<1> HIDE DEF s, x
<1>4. FlattenSeq(Append(s, x)) = FlattenSeq(s) \o x /\ FlattenSeq(s) \in Seq(SomeByte)
  BY <1>1, <1>2, FlattenAppend, FlattenSeqs, Zenon
<1>5. Len(FlattenSeq(s) \o x) = Len(FlattenSeq(s)) + Len(x)
  BY <1>2, <1>4
<1>6. /\ Part(g, m, j, n) = FlattenSeq(s)
      /\ Part(g, m, j, n + 1) = FlattenSeq(Append(s, x))
  BY <1>3 DEF Part, s
<1> QED BY <1>2, <1>4, <1>5, <1>6 DEF x

LEMMA PartIs ==
  ASSUME NEW g \in Seq(Nat), NEW m \in Nat, NEW j \in Nat, NEW n \in Nat, j + n <= Len(g)
  PROVE  Part(g, m, j, n) \in Seq(SomeByte)
<1>1. Segs(g, m, j, n) \in Seq(Seq(SomeByte)) BY SegsAre
<1> QED BY <1>1, FlattenSeqs DEF Part

(* The parts of a message make up the message. *)
LEMMA PartSplit ==
  ASSUME NEW g \in Seq(Nat), NEW m \in Nat, NEW j \in Nat
  PROVE  \A n \in Nat : j + n <= Len(g) => Part(g, m, 0, j + n) = Part(g, m, 0, j) \o Part(g, m, j, n)
<1> DEFINE T == {n \in Nat : j + n <= Len(g) =>
                    Part(g, m, 0, j + n) = Part(g, m, 0, j) \o Part(g, m, j, n)}
<1>1. 0 \in T
  <2> SUFFICES ASSUME j <= Len(g) PROVE Part(g, m, 0, j + 0) = Part(g, m, 0, j) \o Part(g, m, j, 0)
    OBVIOUS
  <2>1. Part(g, m, 0, j) \in Seq(SomeByte)
    <3>1. 0 + j <= Len(g) OBVIOUS
    <3> QED BY <3>1, PartIs
  <2>2. Part(g, m, 0, j) \o <<>> = Part(g, m, 0, j) BY <2>1
  <2>3. j + 0 = j OBVIOUS
  <2> QED BY <2>2, <2>3, PartNone
<1>2. ASSUME NEW n \in Nat, n \in T PROVE n + 1 \in T
  <2> SUFFICES ASSUME j + (n + 1) <= Len(g)
               PROVE  Part(g, m, 0, j + (n + 1)) = Part(g, m, 0, j) \o Part(g, m, j, n + 1)
    OBVIOUS
  <2> DEFINE x == Bytes(m, j + n + 1, g[j + n + 1])
  <2>1. Part(g, m, 0, j + n) = Part(g, m, 0, j) \o Part(g, m, j, n)
    BY <1>2
  <2>2. /\ Part(g, m, j, n) \in Seq(SomeByte)
        /\ Part(g, m, j, n + 1) = Part(g, m, j, n) \o x
    <3>1. j + n + 1 <= Len(g) OBVIOUS
    <3> QED BY <3>1, PartNext
  <2>3. Part(g, m, 0, (j + n) + 1) = Part(g, m, 0, j + n) \o x
    <3>1. j + n \in Nat /\ 0 + (j + n) + 1 <= Len(g) /\ 0 + (j + n) + 1 = j + n + 1 /\ 0 \in Nat
      OBVIOUS
    <3> DEFINE q == j + n
    <3>2. Part(g, m, 0, q + 1) = Part(g, m, 0, q) \o Bytes(m, 0 + q + 1, g[0 + q + 1])
      <4> HIDE DEF q
      <4> QED BY <3>1, PartNext DEF q
    <3> QED BY <3>1, <3>2
  <2>4. Part(g, m, 0, j) \in Seq(SomeByte)
    <3>1. 0 + j <= Len(g) OBVIOUS
    <3> QED BY <3>1, PartIs
  <2>5. x \in Seq(SomeByte)
    <3>1. j + n + 1 \in Nat /\ g[j + n + 1] \in Nat OBVIOUS
    <3> QED BY <3>1, BytesAre
  <2>6. j + (n + 1) = (j + n) + 1 OBVIOUS
  <2> HIDE DEF x
  <2>7. ASSUME NEW a \in Seq(SomeByte), NEW b \in Seq(SomeByte), NEW c \in Seq(SomeByte)
        PROVE  (a \o b) \o c = a \o (b \o c)
    BY ConcatAssociative, SMTT(30)
  <2>8. (Part(g, m, 0, j) \o Part(g, m, j, n)) \o x = Part(g, m, 0, j) \o (Part(g, m, j, n) \o x)
    BY <2>2, <2>4, <2>5, <2>7
  <2>9. Part(g, m, 0, (j + n) + 1) = Part(g, m, 0, j) \o (Part(g, m, j, n) \o x)
    BY <2>1, <2>3, <2>8, Zenon
  <2> QED BY <2>2, <2>6, <2>9, Zenon
<1>3. Nat \subseteq T
  <2> HIDE DEF T
  <2> QED BY <1>1, <1>2, Inductive
<1> QED BY <1>3

-----------------------------------------------------------------------------
(***************************************************************************)
(* The packets that are still to be handled.  B are the messages begun, N  *)
(* how many segments of each were sent, and X the broken messages.         *)
(***************************************************************************)
Counts(B, m) ==   \* message m fits, and all of it is copied
  /\ Len(Part(B[m].segs, m, 0, Len(B[m].segs))) + Len(B[m].segs) * HEADER_LEN < SizeLimit
  /\ \A k \in 1 .. Len(B[m].segs) - 1 : B[m].segs[k] # 0

Sent(p, B, N) ==
  /\ p.msg \in 1 .. Len(B)
  /\ p.seg \in 1 .. N[p.msg]
  /\ p = SegmentOf(p.msg, B[p.msg], p.seg)

ControlOK(B, N) ==
  /\ B \in Seq(Shapes) /\ N \in Seq(Nat) /\ Len(N) = Len(B)
  /\ \A m \in 1 .. Len(B) : N[m] \in 1 .. Len(B[m].segs)
  /\ \A m, o \in 1 .. Len(B) : m < o /\ B[m].hdr = B[o].hdr => N[m] = Len(B[m].segs)

IsSeg(p) == p.kind = "segment"
SegOf(p, m) == p.kind = "segment" /\ p.msg = m

\* The segments of a message come in their order, and those of messages with one header
\* one message after the other.
InOrder(s) ==
  \A i, j \in 1 .. Len(s) : i < j /\ IsSeg(s[i]) /\ IsSeg(s[j]) =>
     /\ s[i].msg = s[j].msg => s[i].seg < s[j].seg
     /\ s[i].msg # s[j].msg /\ s[i].hdr = s[j].hdr => s[i].msg < s[j].msg

\* The segments behind one that is still to be handled are, too.
Follows(s, N) ==
  \A i \in 1 .. Len(s) : IsSeg(s[i]) =>
     \A k \in s[i].seg .. N[s[i].msg] :
        \E j \in 1 .. Len(s) : SegOf(s[j], s[i].msg) /\ s[j].seg = k

\* Nothing that counts comes between the segments of a message that is not broken.
Contiguous(s, X) ==
  \A i, l \in 1 .. Len(s) :
     i < l /\ IsSeg(s[i]) /\ s[i].msg \notin X /\ ~SegOf(s[l], s[i].msg) /\ s[l].kind # "ignored"
     => \E j \in i .. l - 1 : SegOf(s[j], s[i].msg) /\ ~s[j].pbf

StreamOK(s, B, N, X) ==
  /\ \A i \in 1 .. Len(s) : IsSeg(s[i]) => Sent(s[i], B, N)
  /\ InOrder(s) /\ Follows(s, N) /\ Contiguous(s, X)

LEMMA SentIs ==
  ASSUME NEW p, NEW B, NEW N, Sent(p, B, N)
  PROVE  /\ IsSeg(p) /\ p.hdr = B[p.msg].hdr
         /\ p.pbf = (p.seg < Len(B[p.msg].segs))
         /\ p.bytes = Bytes(p.msg, p.seg, B[p.msg].segs[p.seg])
BY DEF Sent, SegmentOf, Segment, IsSeg

LEMMA SegmentIs ==
  ASSUME NEW m, NEW shape, NEW k
  PROVE  /\ IsSeg(SegmentOf(m, shape, k)) /\ SegmentOf(m, shape, k).msg = m
         /\ SegmentOf(m, shape, k).seg = k /\ SegmentOf(m, shape, k).hdr = shape.hdr
         /\ SegmentOf(m, shape, k).pbf = (k < Len(shape.segs))
         /\ SegmentOf(m, shape, k).bytes = Bytes(m, k, shape.segs[k])
BY DEF SegmentOf, Segment, IsSeg

(* What goes on holds when packets are left out that are no segments, or   *)
(* come before all that are left: e says where the others were.            *)
LEMMA Thinned ==
  ASSUME NEW s, NEW t, NEW B, NEW N, NEW X, Len(s) \in Nat, Len(t) \in Nat,
         StreamOK(s, B, N, X), ControlOK(B, N),
         NEW e \in [1 .. Len(t) -> 1 .. Len(s)],
         \A i, j \in 1 .. Len(t) : i < j => e[i] < e[j],
         \A i \in 1 .. Len(t) : t[i] = s[e[i]],
         \A j \in 1 .. Len(s) : \/ \E i \in 1 .. Len(t) : e[i] = j
                                \/ ~IsSeg(s[j])
                                \/ \A i \in 1 .. Len(t) : j < e[i]
  PROVE  StreamOK(t, B, N, X)
<1>1. \A i \in 1 .. Len(t) : e[i] \in 1 .. Len(s)
  OBVIOUS
<1>2. \A i, j \in 1 .. Len(t) : e[i] <= e[j] => i <= j
  BY <1>1
<1>3. \A i \in 1 .. Len(t) : IsSeg(t[i]) => Sent(t[i], B, N)
  BY <1>1 DEF StreamOK
<1>4. InOrder(t)
  BY <1>1 DEF StreamOK, InOrder
<1>5. Follows(t, N)
  <2> SUFFICES ASSUME NEW i \in 1 .. Len(t), IsSeg(t[i]), NEW k \in t[i].seg .. N[t[i].msg]
               PROVE  \E j \in 1 .. Len(t) : SegOf(t[j], t[i].msg) /\ t[j].seg = k
    BY DEF Follows
  <2>1. PICK j \in 1 .. Len(s) : SegOf(s[j], t[i].msg) /\ s[j].seg = k
    <3>1. e[i] \in 1 .. Len(s) /\ t[i] = s[e[i]] BY <1>1
    <3> QED BY <3>1 DEF StreamOK, Follows
  <2>2. t[i].seg \in Int /\ k \in Int /\ k >= t[i].seg
    <3>1. Sent(t[i], B, N) BY <1>3
    <3>2. t[i].seg \in Int BY <3>1 DEF Sent
    <3> QED BY <3>2
  <2>3. ~(j < e[i])
    <3>1. j < e[i] => s[j].seg < t[i].seg
      BY <1>1, <2>1 DEF StreamOK, InOrder, SegOf, IsSeg
    <3> QED BY <2>1, <2>2, <3>1
  <2>4. PICK l \in 1 .. Len(t) : e[l] = j
    BY <2>1, <2>3 DEF SegOf, IsSeg
  <2> QED BY <2>1, <2>4
<1>6. Contiguous(t, X)
  <2> SUFFICES ASSUME NEW i \in 1 .. Len(t), NEW l \in 1 .. Len(t), i < l, IsSeg(t[i]),
                      t[i].msg \notin X, ~SegOf(t[l], t[i].msg), t[l].kind # "ignored"
               PROVE  \E j \in i .. l - 1 : SegOf(t[j], t[i].msg) /\ ~t[j].pbf
    BY DEF Contiguous
  <2>1. e[i] \in 1 .. Len(s) /\ e[l] \in 1 .. Len(s) /\ e[i] < e[l] /\ t[i] = s[e[i]] /\ t[l] = s[e[l]]
    BY <1>1
  <2>2. PICK j \in e[i] .. e[l] - 1 : SegOf(s[j], t[i].msg) /\ ~s[j].pbf
    BY <2>1 DEF StreamOK, Contiguous
  <2>3. j \in 1 .. Len(s) /\ ~(j < e[i])
    BY <2>1
  <2>4. PICK q \in 1 .. Len(t) : e[q] = j
    BY <2>2, <2>3 DEF SegOf, IsSeg
  <2>5. i <= q /\ ~(l <= q)
    <3>1. e[i] <= e[q] /\ ~(e[l] <= e[q]) BY <2>1, <2>4
    <3>2. l <= q => e[l] <= e[q] BY <2>1, <2>4
    <3> QED BY <1>2, <3>1, <3>2
  <2>6. q \in i .. l - 1 /\ t[q] = s[j] BY <2>4, <2>5
  <2> QED BY <2>2, <2>6
<1> QED BY <1>3, <1>4, <1>5, <1>6 DEF StreamOK

LEMMA TailOK ==
  ASSUME NEW s \in Seq(SomePacket), s # <<>>, NEW B, NEW N, NEW X,
         StreamOK(s, B, N, X), ControlOK(B, N)
  PROVE  StreamOK(Tail(s), B, N, X)
<1> DEFINE t == Tail(s)
           e == [i \in 1 .. Len(t) |-> i + 1]
<1>1. Len(t) = Len(s) - 1 /\ Len(s) \in Nat /\ Len(t) \in Nat /\ Len(s) > 0
  OBVIOUS
<1>2. \A i \in 1 .. Len(t) : t[i] = s[i + 1]
  OBVIOUS
<1> HIDE DEF t
<1>3. e \in [1 .. Len(t) -> 1 .. Len(s)] /\ \A i \in 1 .. Len(t) : e[i] = i + 1
  BY <1>1
<1> HIDE DEF e
<1>4. \A j \in 1 .. Len(s) : \/ \E i \in 1 .. Len(t) : e[i] = j
                             \/ \A i \in 1 .. Len(t) : j < e[i]
  <2> SUFFICES ASSUME NEW j \in 1 .. Len(s), j # 1
               PROVE  \E i \in 1 .. Len(t) : e[i] = j
    BY <1>1, <1>3
  <2>1. j - 1 \in 1 .. Len(t) /\ e[j - 1] = j BY <1>1, <1>3
  <2> QED BY <2>1
<1>5. \A i, j \in 1 .. Len(t) : i < j => e[i] < e[j]
  BY <1>1, <1>3
<1>6. \A i \in 1 .. Len(t) : t[i] = s[e[i]]
  BY <1>2, <1>3
<1>7. StreamOK(t, B, N, X)
  BY <1>1, <1>3, <1>4, <1>5, <1>6, Thinned
<1> QED BY <1>7 DEF t

(* A packet that is no segment is taken out of the second place. *)
LEMMA SkipOK ==
  ASSUME NEW s, NEW t, NEW B, NEW N, NEW X, StreamOK(s, B, N, X), ControlOK(B, N),
         Len(s) \in Nat, Len(t) \in Nat, Len(s) = Len(t) + 1, Len(t) > 0,
         t[1] = s[1], \A i \in 2 .. Len(t) : t[i] = s[i + 1], ~IsSeg(s[2])
  PROVE  StreamOK(t, B, N, X)
<1> DEFINE e == [i \in 1 .. Len(t) |-> IF i = 1 THEN 1 ELSE i + 1]
<1>1. e \in [1 .. Len(t) -> 1 .. Len(s)] /\ \A i \in 1 .. Len(t) : e[i] = IF i = 1 THEN 1 ELSE i + 1
  OBVIOUS
<1> HIDE DEF e
<1>2. \A j \in 1 .. Len(s) : (\E i \in 1 .. Len(t) : e[i] = j) \/ ~IsSeg(s[j])
  <2> SUFFICES ASSUME NEW j \in 1 .. Len(s), j # 2
               PROVE  \E i \in 1 .. Len(t) : e[i] = j
    OBVIOUS
  <2>1. CASE j = 1
    <3>1. 1 \in 1 .. Len(t) /\ e[1] = 1 BY <1>1
    <3> QED BY <2>1, <3>1
  <2>2. CASE j # 1
    <3>1. j - 1 \in 1 .. Len(t) /\ e[j - 1] = j BY <1>1, <2>2
    <3> QED BY <3>1
  <2> QED BY <2>1, <2>2
<1>3. \A i, j \in 1 .. Len(t) : i < j => e[i] < e[j]
  BY <1>1
<1>4. \A i \in 1 .. Len(t) : t[i] = s[e[i]]
  <2> SUFFICES ASSUME NEW i \in 1 .. Len(t) PROVE t[i] = s[e[i]]
    OBVIOUS
  <2> QED BY <1>1
<1> QED BY <1>1, <1>2, <1>3, <1>4, Thinned

LEMMA ConsIs ==
  ASSUME NEW v \in SomePacket, NEW s \in Seq(SomePacket)
  PROVE  /\ <<v>> \o s \in Seq(SomePacket) /\ <<v>> \o s # <<>> /\ Tail(<<v>> \o s) = s
         /\ Len(<<v>> \o s) = Len(s) + 1 /\ (<<v>> \o s)[1] = v
         /\ \A i \in 1 .. Len(s) : (<<v>> \o s)[i + 1] = s[i]
OBVIOUS

LEMMA ConsTail ==
  ASSUME NEW v \in SomePacket, NEW s \in Seq(SomePacket), NEW B, NEW N, NEW X,
         StreamOK(<<v>> \o s, B, N, X), ControlOK(B, N)
  PROVE  StreamOK(s, B, N, X)
<1>1. <<v>> \o s \in Seq(SomePacket) /\ <<v>> \o s # <<>> /\ Tail(<<v>> \o s) = s
  BY ConsIs
<1> QED BY <1>1, TailOK

LEMMA AppendIs ==
  ASSUME NEW s \in Seq(SomePacket), NEW p \in SomePacket
  PROVE  /\ Append(s, p) \in Seq(SomePacket) /\ Len(Append(s, p)) = Len(s) + 1 /\ Len(s) \in Nat
         /\ Append(s, p)[Len(s) + 1] = p
         /\ \A i \in 1 .. Len(s) : Append(s, p)[i] = s[i]
         /\ \A i \in 1 .. Len(s) + 1 : i = Len(s) + 1 \/ i \in 1 .. Len(s)
OBVIOUS

(* The controller goes from B, N, X on to B2, N2, X2 when it sends packet p. *)
Grows(B, N, X, B2, N2, X2) ==
  /\ Len(B) <= Len(B2) /\ \A m \in 1 .. Len(B) : B2[m] = B[m] /\ N[m] <= N2[m]
  /\ X \subseteq X2

Sends(p, B, N, X, B2, N2, X2) ==
  /\ Grows(B, N, X, B2, N2, X2)
  /\ IsSeg(p) => /\ Sent(p, B2, N2) /\ p.seg = N2[p.msg]
                 /\ \A m \in 1 .. Len(B) : m # p.msg /\ B[m].hdr = p.hdr => m < p.msg
  /\ \A m \in 1 .. Len(B) : \/ N2[m] = N[m] /\ ~SegOf(p, m)
                            \/ N2[m] = N[m] + 1 /\ SegOf(p, m)
  /\ \A m \in 1 .. Len(B2) : m \in 1 .. Len(B) \/ (SegOf(p, m) /\ p.seg = 1)
  /\ p.kind # "ignored" =>
       \A m \in 1 .. Len(B) : m \in X2 \/ SegOf(p, m) \/ N[m] = Len(B[m].segs)

LEMMA SentGrows ==
  ASSUME NEW p, NEW B, NEW N, NEW X, NEW B2, NEW N2, NEW X2,
         ControlOK(B, N), ControlOK(B2, N2), Grows(B, N, X, B2, N2, X2), Sent(p, B, N)
  PROVE  Sent(p, B2, N2)
<1>1. p.msg \in 1 .. Len(B) /\ p.seg \in 1 .. N[p.msg] /\ p = SegmentOf(p.msg, B[p.msg], p.seg)
  BY DEF Sent
<1>2. Len(B) \in Nat /\ Len(B2) \in Nat BY DEF ControlOK
<1>3. p.msg \in 1 .. Len(B2) /\ B2[p.msg] = B[p.msg] /\ N[p.msg] <= N2[p.msg]
  BY <1>1, <1>2 DEF Grows
<1>4. N[p.msg] \in Nat /\ N2[p.msg] \in Nat BY <1>1, <1>3 DEF ControlOK
<1>5. p.seg \in 1 .. N2[p.msg] BY <1>1, <1>3, <1>4
<1> QED BY <1>1, <1>3, <1>5, Zenon DEF Sent

LEMMA AppendOK ==
  ASSUME NEW s \in Seq(SomePacket), NEW p \in SomePacket,
         NEW B, NEW N, NEW X, NEW B2, NEW N2, NEW X2,
         ControlOK(B, N), ControlOK(B2, N2), Sends(p, B, N, X, B2, N2, X2), StreamOK(s, B, N, X)
  PROVE  StreamOK(Append(s, p), B2, N2, X2)
<1> DEFINE t == Append(s, p)
           e == Len(s) + 1
<1>1. /\ Len(t) = e /\ Len(s) \in Nat /\ t[e] = p
      /\ \A i \in 1 .. Len(s) : t[i] = s[i]
      /\ \A i \in 1 .. e : i = e \/ i \in 1 .. Len(s)
  BY AppendIs
<1> HIDE DEF t
<1>2. \A i \in 1 .. Len(s) : IsSeg(s[i]) => Sent(s[i], B, N)
  BY DEF StreamOK
<1>3. \A i \in 1 .. Len(s) : IsSeg(s[i]) =>
        /\ s[i].msg \in 1 .. Len(B) /\ s[i].seg \in 1 .. N[s[i].msg] /\ s[i].hdr = B[s[i].msg].hdr
        /\ s[i].pbf = (s[i].seg < Len(B[s[i].msg].segs))
        /\ N[s[i].msg] \in Nat /\ N2[s[i].msg] \in Nat
  <2> SUFFICES ASSUME NEW i \in 1 .. Len(s), IsSeg(s[i])
               PROVE  /\ s[i].msg \in 1 .. Len(B) /\ s[i].seg \in 1 .. N[s[i].msg]
                      /\ s[i].hdr = B[s[i].msg].hdr
                      /\ s[i].pbf = (s[i].seg < Len(B[s[i].msg].segs))
                      /\ N[s[i].msg] \in Nat /\ N2[s[i].msg] \in Nat
    OBVIOUS
  <2>1. Sent(s[i], B, N) BY <1>2
  <2>2. s[i].msg \in 1 .. Len(B) /\ s[i].seg \in 1 .. N[s[i].msg] BY <2>1 DEF Sent
  <2>3. N[s[i].msg] \in Nat /\ N2[s[i].msg] \in Nat
    <3>1. N \in Seq(Nat) /\ N2 \in Seq(Nat) /\ Len(N) = Len(B) /\ Len(N2) = Len(B2)
          /\ Len(B) <= Len(B2)
      BY DEF ControlOK, Sends, Grows
    <3>2. s[i].msg \in 1 .. Len(N) /\ s[i].msg \in 1 .. Len(N2) BY <2>2, <3>1
    <3> QED BY <3>1, <3>2, SMTT(30)
  <2> QED BY <2>1, <2>2, <2>3, SentIs
<1>4. \A i \in 1 .. Len(t) : IsSeg(t[i]) => Sent(t[i], B2, N2)
  <2>1. \A i \in 1 .. Len(s) : IsSeg(s[i]) => Sent(s[i], B2, N2)
    BY <1>2, SentGrows DEF Sends
  <2> QED BY <1>1, <2>1 DEF Sends
<1>5. InOrder(t)
  <2> SUFFICES ASSUME NEW i \in 1 .. Len(t), NEW j \in 1 .. Len(t), i < j, IsSeg(t[i]), IsSeg(t[j])
               PROVE  /\ t[i].msg = t[j].msg => t[i].seg < t[j].seg
                      /\ t[i].msg # t[j].msg /\ t[i].hdr = t[j].hdr => t[i].msg < t[j].msg
    BY DEF InOrder
  <2>1. i \in 1 .. Len(s) /\ t[i] = s[i] BY <1>1
  <2>2. CASE j \in 1 .. Len(s)
    BY <1>1, <2>1, <2>2 DEF StreamOK, InOrder
  <2>3. CASE j = e
    <3>1. t[j] = p BY <1>1, <2>3
    <3>2. s[i].msg \in 1 .. Len(B) /\ s[i].seg \in 1 .. N[s[i].msg] /\ N[s[i].msg] \in Nat
          /\ s[i].hdr = B[s[i].msg].hdr
      BY <1>3, <2>1
    <3>3. s[i].msg = p.msg => p.seg = N[p.msg] + 1
      BY <2>1, <3>1, <3>2 DEF Sends, SegOf, IsSeg
    <3>4. s[i].msg = p.msg => s[i].seg < p.seg BY <3>2, <3>3
    <3>5. s[i].msg # p.msg /\ s[i].hdr = p.hdr => s[i].msg < p.msg
      BY <2>1, <3>1, <3>2 DEF Sends
    <3> QED BY <2>1, <3>1, <3>4, <3>5
  <2> QED BY <1>1, <2>2, <2>3
<1>6. Follows(t, N2)
  <2> SUFFICES ASSUME NEW i \in 1 .. Len(t), IsSeg(t[i]), NEW k \in t[i].seg .. N2[t[i].msg]
               PROVE  \E j \in 1 .. Len(t) : SegOf(t[j], t[i].msg) /\ t[j].seg = k
    BY DEF Follows
  <2>1. CASE i = e
    <3>1. t[i] = p BY <1>1, <2>1
    <3>2. k = p.seg
      <4>1. p.seg = N2[p.msg] /\ p.seg \in Nat BY <3>1 DEF Sends, SomePacket
      <4> QED BY <3>1, <4>1
    <3> QED BY <3>1, <3>2 DEF SegOf, IsSeg
  <2>2. CASE i \in 1 .. Len(s)
    <3> DEFINE m == s[i].msg
    <3>1. t[i] = s[i] BY <1>1, <2>2
    <3>2. m \in 1 .. Len(B) /\ s[i].seg \in 1 .. N[m] /\ N[m] \in Nat /\ N2[m] \in Nat
      BY <1>3, <2>2, <3>1
    <3>3. CASE k <= N[m]
      <4>1. k \in s[i].seg .. N[m] BY <3>1, <3>2, <3>3
      <4>2. PICK j \in 1 .. Len(s) : SegOf(s[j], m) /\ s[j].seg = k
        BY <2>2, <3>1, <4>1 DEF StreamOK, Follows
      <4>3. j \in 1 .. Len(t) /\ t[j] = s[j] BY <1>1
      <4> QED BY <3>1, <4>2, <4>3
    <3>4. CASE ~(k <= N[m])
      <4>1. N2[m] = N[m] + 1 /\ SegOf(p, m)
        BY <3>1, <3>2, <3>4, SMTT(30) DEF Sends
      <4>2. k = N2[m] BY <3>1, <3>2, <3>4, <4>1
      <4>3. p.seg = k BY <4>1, <4>2 DEF Sends, SegOf, IsSeg
      <4>4. e \in 1 .. Len(t) BY <1>1
      <4> QED BY <1>1, <3>1, <4>1, <4>3, <4>4
    <3> QED BY <3>3, <3>4
  <2> QED BY <1>1, <2>1, <2>2
<1>7. Contiguous(t, X2)
  <2> SUFFICES ASSUME NEW i \in 1 .. Len(t), NEW l \in 1 .. Len(t), i < l, IsSeg(t[i]),
                      t[i].msg \notin X2, ~SegOf(t[l], t[i].msg), t[l].kind # "ignored"
               PROVE  \E j \in i .. l - 1 : SegOf(t[j], t[i].msg) /\ ~t[j].pbf
    BY DEF Contiguous
  <2> DEFINE m == s[i].msg
  <2>1. i \in 1 .. Len(s) /\ t[i] = s[i] BY <1>1
  <2>2. m \notin X BY <2>1 DEF Sends, Grows
  <2>3. CASE l \in 1 .. Len(s)
    <3>1. t[l] = s[l] BY <1>1, <2>3
    <3>2. PICK j \in i .. l - 1 : SegOf(s[j], m) /\ ~s[j].pbf
      BY <2>1, <2>2, <2>3, <3>1 DEF StreamOK, Contiguous
    <3>3. j \in 1 .. Len(s) BY <2>1, <2>3
    <3> QED BY <1>1, <2>1, <3>2, <3>3
  <2>4. CASE l = e
    <3>1. m \in 1 .. Len(B) /\ s[i].seg \in 1 .. N[m] /\ N[m] \in Nat
      BY <1>3, <2>1
    <3>2. N[m] = Len(B[m].segs)
      BY <1>1, <2>1, <2>4, <3>1 DEF Sends
    <3>3. N[m] \in s[i].seg .. N[m] BY <3>1
    <3>4. PICK j \in 1 .. Len(s) : SegOf(s[j], m) /\ s[j].seg = N[m]
      BY <2>1, <3>3 DEF StreamOK, Follows
    <3>5. ~(j < i)
      <4>1. j < i => s[j].seg < s[i].seg
        BY <2>1, <3>4 DEF StreamOK, InOrder, SegOf, IsSeg
      <4> QED BY <3>1, <3>4, <4>1
    <3>6. ~s[j].pbf
      <4>1. s[j].pbf = (s[j].seg < Len(B[m].segs))
        BY <1>3, <3>4 DEF SegOf, IsSeg
      <4>2. ~(s[j].seg < Len(B[m].segs)) BY <3>1, <3>2, <3>4, SMTT(30)
      <4> QED BY <4>1, <4>2, Zenon
    <3>7. j \in i .. l - 1 /\ t[j] = s[j] BY <1>1, <2>1, <2>4, <3>5
    <3> QED BY <2>1, <3>4, <3>6, <3>7
  <2> QED BY <1>1, <2>3, <2>4
<1> QED BY <1>4, <1>5, <1>6, <1>7 DEF StreamOK, t

-----------------------------------------------------------------------------
(***************************************************************************)
(* The chain.  r is tReceiveInfo, memory the buffers, s the packets still  *)
(* to be handled and d the messages delivered.                             *)
(***************************************************************************)
ListOK(r) ==
  /\ r.list \in Seq(AllBuffers) /\ Len(r.list) >= 1 /\ r.list[1] = HeadBuffer
  /\ \A i, j \in 1 .. Len(r.list) : r.list[i] = r.list[j] => i = j
  /\ Len(r.list) = 1 => r.wPayloadSize = 0

\* The buffers that hold a segment.
Held(r) == IF r.wPayloadSize = 0 THEN 2 .. Len(r.list) ELSE 1 .. Len(r.list) - 1

Segment_of(q, B, N, m) == IsSeg(q) /\ Sent(q, B, N) /\ q.msg = m

\* n buffers hold the segments up to the k-th of message m, or the last ones of them.
Filled(r, memory, B, X, m, k, n) ==
  /\ n <= k /\ (n = k \/ m \in X)
  /\ \A i \in 1 .. n : /\ memory[r.list[i]] = SegmentOf(m, B[m], k - n + i)
                       /\ r.lens[r.list[i]] = B[m].segs[k - n + i]
  /\ r.wPayloadSize = Len(Part(B[m].segs, m, k - n, n)) + n * HEADER_LEN

\* The chain holds the segments of message m up to the k-th, and waits for more.
Holds(r, memory, B, N, X, m, k) ==
  /\ r.HeaderInfo = B[m].hdr /\ k < Len(B[m].segs)
  /\ \A i \in Held(r) : Segment_of(memory[r.list[i]], B, N, m)
  /\ Counts(B, m) => Filled(r, memory, B, X, m, k, Len(r.list) - 1)

\* Of a message that is not broken and is not complete, the first segment is still to be
\* handled, unless it is that of the chain.
Coming(s, B, N, m) == N[m] < Len(B[m].segs) \/ \E i \in 1 .. Len(s) : SegOf(s[i], m)
Starts(s, m) == \E i \in 1 .. Len(s) : SegOf(s[i], m) /\ s[i].seg = 1
Begun(s, B, N, X, chained) ==
  \A m \in 1 .. Len(B) : Counts(B, m) /\ m \notin X /\ Coming(s, B, N, m) =>
    Starts(s, m) \/ m = chained

Chain(r, memory, s, B, N, X) ==
  \/ Len(r.list) = 1 /\ StreamOK(s, B, N, X) /\ Begun(s, B, N, X, 0)
  \/ /\ Len(r.list) # 1
     /\ \E m \in 1 .. Len(B) : \E k \in 1 .. N[m] :
          /\ StreamOK(<<SegmentOf(m, B[m], k)>> \o s, B, N, X)
          /\ Holds(r, memory, B, N, X, m, k)
          /\ Begun(s, B, N, X, m)

\* The deliveries with bytes of message m
HasByte(z, m) == \E j \in DOMAIN z : z[j][1] = m
Has(d, m) == {i \in DOMAIN d : HasByte(d[i].bytes, m)}

All(B, m) == Part(B[m].segs, m, 0, Len(B[m].segs))

Ends(d, s, B, N) ==
  \A m \in 1 .. Len(B) : N[m] = Len(B[m].segs) /\ Counts(B, m) /\ Last(B[m].segs) # 0 =>
    Has(d, m) # {} \/ \E i \in 1 .. Len(s) : SegOf(s[i], m) /\ ~s[i].pbf
Over(d, s, B, N) ==
  \A m \in 1 .. Len(B) : Has(d, m) # {} =>
    N[m] = Len(B[m].segs) /\ \A i \in 1 .. Len(s) : ~SegOf(s[i], m)
Known(d, B) == \A m \in Nat : m > Len(B) => Has(d, m) = {}
Right(d, B, X) ==
  \A m \in 1 .. Len(B) : Counts(B, m) => \A i \in Has(d, m) :
    /\ d[i].hdr = B[m].hdr
    /\ \A j \in Has(d, m) : j = i
    /\ d[i].bytes = All(B, m) \/ (m \in X /\ IsSuffix(d[i].bytes, All(B, m)))

Deliveries(d, s, B, N, X) == Ends(d, s, B, N) /\ Over(d, s, B, N) /\ Known(d, B) /\ Right(d, B, X)

Flow(r, memory, s, B, N, X, d) ==
  /\ ControlOK(B, N) /\ ListOK(r) /\ Chain(r, memory, s, B, N, X) /\ Deliveries(d, s, B, N, X)

(* What is known of the first messages does not change when the controller goes on. *)
LEMMA CountsGrows ==
  ASSUME NEW B, NEW N, NEW X, NEW B2, NEW N2, NEW X2, Grows(B, N, X, B2, N2, X2),
         NEW m \in 1 .. Len(B)
  PROVE  (Counts(B, m) <=> Counts(B2, m)) /\ All(B, m) = All(B2, m)
<1>1. B2[m] = B[m] BY DEF Grows
<1>2. All(B, m) = All(B2, m) BY <1>1, Zenon DEF All
<1>3. Counts(B, m) <=> Counts(B2, m) BY <1>1, Zenon DEF Counts
<1> QED BY <1>2, <1>3

LEMMA HoldsGrows ==
  ASSUME NEW r, NEW memory, NEW B, NEW N, NEW X, NEW B2, NEW N2, NEW X2,
         ControlOK(B, N), ControlOK(B2, N2), Grows(B, N, X, B2, N2, X2),
         NEW m \in 1 .. Len(B), NEW k, Holds(r, memory, B, N, X, m, k)
  PROVE  Holds(r, memory, B2, N2, X2, m, k)
<1>1. B2[m] = B[m] /\ X \subseteq X2 BY DEF Grows
<1>2. r.HeaderInfo = B2[m].hdr /\ k < Len(B2[m].segs)
  BY <1>1 DEF Holds
<1>3. \A i \in Held(r) : Segment_of(memory[r.list[i]], B2, N2, m)
  <2> SUFFICES ASSUME NEW i \in Held(r) PROVE Segment_of(memory[r.list[i]], B2, N2, m)
    OBVIOUS
  <2> DEFINE q == memory[r.list[i]]
  <2>1. Segment_of(q, B, N, m) BY DEF Holds
  <2> HIDE DEF q
  <2>2. Sent(q, B2, N2) BY <2>1, SentGrows DEF Segment_of
  <2>3. Segment_of(q, B2, N2, m) BY <2>1, <2>2 DEF Segment_of
  <2> QED BY <2>3 DEF q
<1>4. Counts(B2, m) => Filled(r, memory, B2, X2, m, k, Len(r.list) - 1)
  <2> SUFFICES ASSUME Counts(B2, m) PROVE Filled(r, memory, B2, X2, m, k, Len(r.list) - 1)
    OBVIOUS
  <2>1. Counts(B, m) BY CountsGrows
  <2>2. Filled(r, memory, B, X, m, k, Len(r.list) - 1) BY <2>1 DEF Holds
  <2> QED BY <1>1, <2>2, Zenon DEF Filled
<1> QED BY <1>2, <1>3, <1>4 DEF Holds

LEMMA BegunAppend ==
  ASSUME NEW s \in Seq(SomePacket), NEW p \in SomePacket,
         NEW B, NEW N, NEW X, NEW B2, NEW N2, NEW X2,
         ControlOK(B, N), ControlOK(B2, N2), Sends(p, B, N, X, B2, N2, X2),
         NEW c, Begun(s, B, N, X, c)
  PROVE  Begun(Append(s, p), B2, N2, X2, c)
<1> DEFINE t == Append(s, p)
<1>1. /\ Len(t) = Len(s) + 1 /\ Len(s) \in Nat /\ t[Len(s) + 1] = p
      /\ \A i \in 1 .. Len(s) : t[i] = s[i]
      /\ \A i \in 1 .. Len(s) + 1 : i = Len(s) + 1 \/ i \in 1 .. Len(s)
  BY AppendIs
<1> HIDE DEF t
<1> SUFFICES ASSUME NEW m \in 1 .. Len(B2), Counts(B2, m), m \notin X2, Coming(t, B2, N2, m)
             PROVE  Starts(t, m) \/ m = c
  BY DEF Begun, t
<1>2. CASE m \notin 1 .. Len(B)
  <2>1. SegOf(p, m) /\ p.seg = 1 BY <1>2 DEF Sends
  <2>2. Len(s) + 1 \in 1 .. Len(t) BY <1>1
  <2> QED BY <1>1, <2>1, <2>2 DEF Starts
<1>3. CASE m \in 1 .. Len(B)
  <2>1. B2[m] = B[m] /\ X \subseteq X2 /\ Grows(B, N, X, B2, N2, X2)
    BY <1>3 DEF Sends, Grows
  <2>2. Counts(B, m) BY <1>3, <2>1, CountsGrows
  <2>3. N[m] \in Nat /\ N2[m] \in 1 .. Len(B2[m].segs)
    <3>1. N \in Seq(Nat) /\ m \in 1 .. Len(N) BY <1>3 DEF ControlOK
    <3> QED BY <3>1 DEF ControlOK
  <2>4. Coming(s, B, N, m)
    <3>1. CASE SegOf(p, m)
      <4>1. N2[m] = N[m] + 1 BY <1>3, <3>1 DEF Sends
      <4> QED BY <2>1, <2>3, <4>1 DEF Coming
    <3>2. CASE ~SegOf(p, m)
      <4>1. N2[m] = N[m] BY <1>3, <3>2 DEF Sends
      <4>2. CASE N2[m] < Len(B2[m].segs) BY <2>1, <4>1, <4>2 DEF Coming
      <4>3. CASE \E i \in 1 .. Len(t) : SegOf(t[i], m)
        <5>1. PICK i \in 1 .. Len(t) : SegOf(t[i], m) BY <4>3
        <5>2. i \in 1 .. Len(s) /\ t[i] = s[i] BY <1>1, <3>2, <5>1
        <5> QED BY <5>1, <5>2 DEF Coming
      <4> QED BY <4>2, <4>3 DEF Coming
    <3> QED BY <3>1, <3>2
  <2>5. Starts(s, m) \/ m = c
    BY <1>3, <2>1, <2>2, <2>4 DEF Begun
  <2>6. ASSUME Starts(s, m) PROVE Starts(t, m)
    <3>1. PICK i \in 1 .. Len(s) : SegOf(s[i], m) /\ s[i].seg = 1 BY <2>6 DEF Starts
    <3>2. i \in 1 .. Len(t) /\ t[i] = s[i] BY <1>1
    <3> QED BY <3>1, <3>2 DEF Starts
  <2> QED BY <2>5, <2>6
<1> QED BY <1>2, <1>3

LEMMA DeliveriesAppend ==
  ASSUME NEW s \in Seq(SomePacket), NEW p \in SomePacket, NEW d,
         NEW B, NEW N, NEW X, NEW B2, NEW N2, NEW X2,
         ControlOK(B, N), ControlOK(B2, N2), Sends(p, B, N, X, B2, N2, X2),
         Deliveries(d, s, B, N, X)
  PROVE  Deliveries(d, Append(s, p), B2, N2, X2)
<1> DEFINE t == Append(s, p)
<1>1. /\ Len(t) = Len(s) + 1 /\ Len(s) \in Nat /\ t[Len(s) + 1] = p
      /\ \A i \in 1 .. Len(s) : t[i] = s[i]
      /\ \A i \in 1 .. Len(s) + 1 : i = Len(s) + 1 \/ i \in 1 .. Len(s)
      /\ Len(s) + 1 \in 1 .. Len(t)
  BY AppendIs
<1> HIDE DEF t
<1>2. Grows(B, N, X, B2, N2, X2) /\ Len(B) \in Nat /\ Len(B2) \in Nat
  BY DEF Sends, ControlOK
<1>3. \A m \in 1 .. Len(B) : /\ B2[m] = B[m] /\ N[m] \in Nat /\ N2[m] \in 1 .. Len(B2[m].segs)
                             /\ (Counts(B2, m) <=> Counts(B, m)) /\ All(B2, m) = All(B, m)
  <2> SUFFICES ASSUME NEW m \in 1 .. Len(B)
               PROVE  /\ B2[m] = B[m] /\ N[m] \in Nat /\ N2[m] \in 1 .. Len(B2[m].segs)
                      /\ (Counts(B2, m) <=> Counts(B, m)) /\ All(B2, m) = All(B, m)
    OBVIOUS
  <2>1. N \in Seq(Nat) /\ m \in 1 .. Len(N) /\ m \in 1 .. Len(B2) BY <1>2 DEF ControlOK, Grows
  <2>2. B2[m] = B[m] BY <1>2 DEF Grows
  <2>3. N[m] \in Nat BY <2>1
  <2>4. N2[m] \in 1 .. Len(B2[m].segs) BY <2>1 DEF ControlOK
  <2>5. (Counts(B2, m) <=> Counts(B, m)) /\ All(B2, m) = All(B, m)
    BY <1>2, CountsGrows, Zenon
  <2> QED BY <2>2, <2>3, <2>4, <2>5
<1>4. ASSUME NEW m \in 1 .. Len(B2), SegOf(p, m)
      PROVE  /\ Has(d, m) = {}
             /\ m \in 1 .. Len(B) => N2[m] = N[m] + 1
             /\ N2[m] = Len(B2[m].segs) => ~p.pbf
  <2>1. Has(d, m) = {}
    <3>1. CASE m \in 1 .. Len(B)
      <4>1. N2[m] = N[m] + 1 BY <1>4, <3>1 DEF Sends
      <4>2. N[m] # Len(B[m].segs) BY <1>3, <3>1, <4>1
      <4> QED BY <3>1, <4>2 DEF Deliveries, Over
    <3>2. CASE m \notin 1 .. Len(B)
      <4>1. m \in Nat /\ m > Len(B) BY <1>2, <3>2
      <4> QED BY <4>1 DEF Deliveries, Known
    <3> QED BY <3>1, <3>2
  <2>2. Sent(p, B2, N2) /\ p.seg = N2[m] /\ p.msg = m
    BY <1>4 DEF Sends, SegOf, IsSeg
  <2>3. p.pbf = (p.seg < Len(B2[m].segs)) BY <2>2, SentIs
  <2>4. N2[m] = Len(B2[m].segs) => ~(p.seg < Len(B2[m].segs))
    BY <2>2 DEF SomePacket
  <2> QED BY <1>4, <2>1, <2>3, <2>4 DEF Sends
<1>5. ASSUME NEW m \in 1 .. Len(B2), ~SegOf(p, m)
      PROVE  m \in 1 .. Len(B) /\ N2[m] = N[m]
  BY <1>5 DEF Sends
<1>6. Ends(d, t, B2, N2)
  <2> SUFFICES ASSUME NEW m \in 1 .. Len(B2), N2[m] = Len(B2[m].segs), Counts(B2, m),
                      Last(B2[m].segs) # 0
               PROVE  Has(d, m) # {} \/ \E i \in 1 .. Len(t) : SegOf(t[i], m) /\ ~t[i].pbf
    BY DEF Ends
  <2>1. CASE SegOf(p, m) BY <1>1, <1>4, <2>1
  <2>2. CASE ~SegOf(p, m)
    <3>1. m \in 1 .. Len(B) /\ N2[m] = N[m] BY <1>5, <2>2
    <3>2. N[m] = Len(B[m].segs) /\ Counts(B, m) /\ Last(B[m].segs) # 0 BY <1>3, <3>1
    <3>3. Has(d, m) # {} \/ \E i \in 1 .. Len(s) : SegOf(s[i], m) /\ ~s[i].pbf
      BY <3>1, <3>2 DEF Deliveries, Ends
    <3> QED BY <1>1, <3>3
  <2> QED BY <2>1, <2>2
<1>7. Over(d, t, B2, N2)
  <2> SUFFICES ASSUME NEW m \in 1 .. Len(B2), Has(d, m) # {}
               PROVE  N2[m] = Len(B2[m].segs) /\ \A i \in 1 .. Len(t) : ~SegOf(t[i], m)
    BY DEF Over
  <2>1. ~SegOf(p, m) BY <1>4
  <2>2. m \in 1 .. Len(B) /\ N2[m] = N[m] BY <1>5, <2>1
  <2>3. N[m] = Len(B[m].segs) /\ \A i \in 1 .. Len(s) : ~SegOf(s[i], m)
    BY <2>2 DEF Deliveries, Over
  <2> QED BY <1>1, <1>3, <2>1, <2>2, <2>3
<1>8. Known(d, B2)
  BY <1>2 DEF Deliveries, Known, Grows
<1>9. Right(d, B2, X2)
  <2> SUFFICES ASSUME NEW m \in 1 .. Len(B2), Counts(B2, m), NEW i \in Has(d, m)
               PROVE  /\ d[i].hdr = B2[m].hdr
                      /\ \A j \in Has(d, m) : j = i
                      /\ d[i].bytes = All(B2, m) \/ (m \in X2 /\ IsSuffix(d[i].bytes, All(B2, m)))
    BY DEF Right
  <2>1. m \in 1 .. Len(B) BY <1>4, <1>5
  <2>2. B2[m] = B[m] /\ Counts(B, m) /\ All(B2, m) = All(B, m) /\ X \subseteq X2
    BY <1>2, <1>3, <2>1 DEF Grows
  <2>3. /\ d[i].hdr = B[m].hdr
        /\ \A j \in Has(d, m) : j = i
        /\ d[i].bytes = All(B, m) \/ (m \in X /\ IsSuffix(d[i].bytes, All(B, m)))
    BY <2>1, <2>2, Zenon DEF Deliveries, Right
  <2>4. m \in X => m \in X2 BY <2>2
  <2> HIDE DEF Has
  <2> QED BY <2>2, <2>3, <2>4, Zenon
<1> QED BY <1>6, <1>7, <1>8, <1>9 DEF Deliveries, t

(* What the controller does keeps the flow. *)
LEMMA FlowAppend ==
  ASSUME NEW r, NEW memory, NEW s \in Seq(SomePacket), NEW p \in SomePacket, NEW d,
         NEW B, NEW N, NEW X, NEW B2, NEW N2, NEW X2,
         Flow(r, memory, s, B, N, X, d), ControlOK(B2, N2), Sends(p, B, N, X, B2, N2, X2)
  PROVE  Flow(r, memory, Append(s, p), B2, N2, X2, d)
<1>1. ControlOK(B, N) /\ Chain(r, memory, s, B, N, X) BY DEF Flow
<1>2. Deliveries(d, Append(s, p), B2, N2, X2)
  BY <1>1, DeliveriesAppend DEF Flow
<1>3. Chain(r, memory, Append(s, p), B2, N2, X2)
  <2>1. CASE Len(r.list) = 1
    <3>1. StreamOK(s, B, N, X) /\ Begun(s, B, N, X, 0) BY <1>1, <2>1 DEF Chain
    <3>2. StreamOK(Append(s, p), B2, N2, X2) BY <1>1, <3>1, AppendOK
    <3>3. Begun(Append(s, p), B2, N2, X2, 0) BY <1>1, <3>1, BegunAppend
    <3> QED BY <2>1, <3>2, <3>3 DEF Chain
  <2>2. CASE Len(r.list) # 1
    <3>0. PICK m \in 1 .. Len(B) : \E k \in 1 .. N[m] :
            /\ StreamOK(<<SegmentOf(m, B[m], k)>> \o s, B, N, X)
            /\ Holds(r, memory, B, N, X, m, k)
            /\ Begun(s, B, N, X, m)
      BY <1>1, <2>2 DEF Chain
    <3>1. PICK k \in 1 .. N[m] :
            /\ StreamOK(<<SegmentOf(m, B[m], k)>> \o s, B, N, X)
            /\ Holds(r, memory, B, N, X, m, k)
            /\ Begun(s, B, N, X, m)
      BY <3>0
    <3> DEFINE v == SegmentOf(m, B[m], k)
               c == <<v>> \o s
    <3>2. /\ B2[m] = B[m] /\ m \in 1 .. Len(B2) /\ Grows(B, N, X, B2, N2, X2) /\ k \in 1 .. N2[m]
          /\ N[m] \in 1 .. Len(B[m].segs) /\ B[m] \in Shapes /\ m \in Nat
      <4>1. /\ B \in Seq(Shapes) /\ N \in Seq(Nat) /\ Len(N) = Len(B) /\ B2 \in Seq(Shapes)
            /\ N2 \in Seq(Nat) /\ Len(N2) = Len(B2) /\ Len(B) \in Nat /\ Len(B2) \in Nat
            /\ N[m] \in 1 .. Len(B[m].segs) /\ Grows(B, N, X, B2, N2, X2)
        BY <1>1 DEF ControlOK, Sends
      <4>2. B2[m] = B[m] /\ N[m] <= N2[m] /\ Len(B) <= Len(B2) BY <4>1 DEF Grows
      <4>3. m \in 1 .. Len(B2) /\ N[m] \in Nat /\ N2[m] \in Nat BY <4>1, <4>2, SMTT(30)
      <4> QED BY <4>1, <4>2, <4>3
    <3>3. v \in SomePacket
      <4>1. k \in 1 .. Len(B[m].segs)
        <5>1. Len(B[m].segs) \in Nat BY <3>2, RecvAssumption DEF RecvAssumption
        <5> QED BY <3>2, <5>1
      <4> QED BY <3>2, <4>1, SegmentIsPacket
    <3> HIDE DEF v
    <3>4. c \in Seq(SomePacket) /\ Append(c, p) = <<v>> \o Append(s, p)
      BY <3>3
    <3>5. StreamOK(c, B, N, X) BY <3>1 DEF v
    <3> HIDE DEF c
    <3>6. StreamOK(Append(c, p), B2, N2, X2) BY <1>1, <3>4, <3>5, AppendOK
    <3>7. Holds(r, memory, B2, N2, X2, m, k) BY <1>1, <3>1, <3>2, HoldsGrows
    <3>8. Begun(Append(s, p), B2, N2, X2, m) BY <1>1, <3>1, BegunAppend
    <3>9. v = SegmentOf(m, B2[m], k) BY <3>2, Zenon DEF v
    <3>10. StreamOK(<<SegmentOf(m, B2[m], k)>> \o Append(s, p), B2, N2, X2)
      BY <3>4, <3>6, <3>9, Zenon
    <3> QED BY <2>2, <3>2, <3>7, <3>8, <3>10 DEF Chain
  <2> QED BY <2>1, <2>2
<1> QED BY <1>2, <1>3 DEF Flow

-----------------------------------------------------------------------------
LEMMA ShapeIs ==
  ASSUME NEW B, NEW N, ControlOK(B, N), NEW m \in 1 .. Len(B)
  PROVE  /\ B[m] \in Shapes /\ B[m].segs \in Seq(Nat) /\ Len(B[m].segs) \in Nat
         /\ Len(B[m].segs) >= 1 /\ B[m].hdr \in Headers
         /\ m \in Nat /\ N[m] \in 1 .. Len(B[m].segs) /\ N[m] \in Nat
<1>1. B \in Seq(Shapes) /\ N[m] \in 1 .. Len(B[m].segs) BY DEF ControlOK
<1>2. B[m] \in Shapes /\ m \in Nat BY <1>1
<1>3. B[m].segs \in Seq(Nat) /\ B[m].segs # <<>> /\ B[m].hdr \in Headers
  BY <1>2, RecvAssumption DEF RecvAssumption, Headers
<1>4. Len(B[m].segs) \in Nat BY <1>3
<1> QED BY <1>1, <1>2, <1>3, <1>4

LEMMA SegmentInRange ==
  ASSUME NEW B, NEW N, ControlOK(B, N), NEW m \in 1 .. Len(B), NEW k \in 1 .. N[m]
  PROVE  SegmentOf(m, B[m], k) \in SomePacket /\ k \in Nat /\ k >= 1 /\ k <= Len(B[m].segs)
<1>1. B[m] \in Shapes /\ m \in Nat /\ N[m] \in 1 .. Len(B[m].segs) /\ Len(B[m].segs) \in Nat
  BY ShapeIs
<1>2. k \in 1 .. Len(B[m].segs) BY <1>1
<1> QED BY <1>1, <1>2, SegmentIsPacket

LEMMA FilledSize ==
  ASSUME NEW r, NEW memory, NEW B, NEW N, NEW X, ControlOK(B, N), NEW m \in 1 .. Len(B),
         NEW n \in Nat, NEW k \in Nat, k <= Len(B[m].segs), Filled(r, memory, B, X, m, k, n)
  PROVE  /\ Part(B[m].segs, m, k - n, n) \in Seq(SomeByte)
         /\ r.wPayloadSize = Len(Part(B[m].segs, m, k - n, n)) + n * HEADER_LEN
         /\ r.wPayloadSize \in Nat /\ (n > 0 => r.wPayloadSize > 0)
<1>1. n <= k /\ r.wPayloadSize = Len(Part(B[m].segs, m, k - n, n)) + n * HEADER_LEN
  BY DEF Filled
<1>2. k - n \in Nat /\ (k - n) + n <= Len(B[m].segs) BY <1>1
<1>3. B[m].segs \in Seq(Nat) /\ m \in Nat BY ShapeIs
<1>4. Part(B[m].segs, m, k - n, n) \in Seq(SomeByte)
  <2> DEFINE j == k - n
  <2>1. j \in Nat /\ j + n <= Len(B[m].segs) BY <1>2
  <2> HIDE DEF j
  <2>2. Part(B[m].segs, m, j, n) \in Seq(SomeByte) BY <1>3, <2>1, PartIs
  <2> QED BY <2>2 DEF j
<1>5. Len(Part(B[m].segs, m, k - n, n)) \in Nat BY <1>4
<1> QED BY <1>1, <1>4, <1>5

(* The chain does not depend on what the other buffers hold. *)
LEMMA HoldsElsewhere ==
  ASSUME NEW r, NEW memory, NEW memory2, NEW B, NEW N, NEW X, ControlOK(B, N), ListOK(r),
         NEW m \in 1 .. Len(B), NEW k \in 1 .. N[m],
         \A i \in Held(r) : memory2[r.list[i]] = memory[r.list[i]],
         Holds(r, memory, B, N, X, m, k)
  PROVE  Holds(r, memory2, B, N, X, m, k)
<1>1. \A i \in Held(r) : Segment_of(memory2[r.list[i]], B, N, m)
  <2> SUFFICES ASSUME NEW i \in Held(r) PROVE Segment_of(memory2[r.list[i]], B, N, m)
    OBVIOUS
  <2>1. Segment_of(memory[r.list[i]], B, N, m) BY DEF Holds
  <2> QED BY <2>1, Zenon
<1>2. ASSUME Counts(B, m) PROVE Filled(r, memory2, B, X, m, k, Len(r.list) - 1)
  <2> DEFINE n == Len(r.list) - 1
  <2>1. n \in Nat BY DEF ListOK
  <2>2. Filled(r, memory, B, X, m, k, n) BY <1>2 DEF Holds
  <2>3. k \in Nat /\ k <= Len(B[m].segs) BY SegmentInRange
  <2> HIDE DEF n
  <2>4. n > 0 => r.wPayloadSize # 0
    BY <2>1, <2>2, <2>3, FilledSize
  <2>5. \A i \in 1 .. n : i \in Held(r) BY <2>1, <2>4 DEF Held, n
  <2>6. \A i \in 1 .. n : memory2[r.list[i]] = memory[r.list[i]]
    BY <2>5
  <2>7. Filled(r, memory2, B, X, m, k, n) BY <2>2, <2>6, Zenon DEF Filled
  <2> QED BY <2>7 DEF n
<1> QED BY <1>1, <1>2 DEF Holds

LEMMA MoreBroken ==
  ASSUME NEW s, NEW B, NEW N, NEW X, NEW X2, X \subseteq X2, NEW c
  PROVE  /\ StreamOK(s, B, N, X) => StreamOK(s, B, N, X2)
         /\ Begun(s, B, N, X, c) => Begun(s, B, N, X2, c)
BY DEF StreamOK, Contiguous, Begun

LEMMA NotChained ==
  ASSUME NEW s, NEW B, NEW N, NEW X, NEW c, Begun(s, B, N, X, c),
         c \notin 1 .. Len(B) \/ c \in X \/ ~Counts(B, c)
  PROVE  Begun(s, B, N, X, 0)
BY DEF Begun

(* A packet of another message, or an invalid one, finds the message of the chain broken. *)
LEMMA Interrupted ==
  ASSUME NEW r, NEW memory, NEW s \in Seq(SomePacket), NEW B, NEW N, NEW X,
         ControlOK(B, N), Chain(r, memory, s, B, N, X),
         s # <<>>, s[1].kind # "ignored",
         Len(r.list) = 1 \/ ~IsSeg(s[1]) \/ s[1].hdr # r.HeaderInfo
  PROVE  StreamOK(s, B, N, X) /\ Begun(s, B, N, X, 0)
<1>1. CASE Len(r.list) = 1 BY <1>1 DEF Chain
<1>2. CASE Len(r.list) # 1
  <2>0. PICK m \in 1 .. Len(B) : \E k \in 1 .. N[m] :
          /\ StreamOK(<<SegmentOf(m, B[m], k)>> \o s, B, N, X)
          /\ Holds(r, memory, B, N, X, m, k)
          /\ Begun(s, B, N, X, m)
    BY <1>2 DEF Chain
  <2>1. PICK k \in 1 .. N[m] :
          /\ StreamOK(<<SegmentOf(m, B[m], k)>> \o s, B, N, X)
          /\ Holds(r, memory, B, N, X, m, k)
          /\ Begun(s, B, N, X, m)
    BY <2>0
  <2> DEFINE v == SegmentOf(m, B[m], k)
             t == <<v>> \o s
  <2>2. v \in SomePacket BY SegmentInRange
  <2>3. IsSeg(v) /\ v.msg = m /\ v.hdr = B[m].hdr /\ v.pbf = (k < Len(B[m].segs))
    BY SegmentIs
  <2>4. r.HeaderInfo = B[m].hdr /\ k < Len(B[m].segs) BY <2>1 DEF Holds
  <2>5. v.pbf BY <2>3, <2>4, Zenon
  <2> HIDE DEF v
  <2>6. t[1] = v /\ t[1 + 1] = s[1] /\ Len(t) = Len(s) + 1 /\ Len(s) >= 1 /\ Len(s) \in Nat
    <3>1. Len(s) \in Nat /\ Len(s) >= 1 OBVIOUS
    <3>2. 1 \in 1 .. Len(s) BY <3>1
    <3> QED BY <2>2, <3>1, <3>2, ConsIs
  <2>7. StreamOK(t, B, N, X) BY <2>1 DEF v
  <2>8. StreamOK(s, B, N, X) BY <2>2, <2>7, ConsTail
  <2> HIDE DEF t
  <2>9. ~SegOf(s[1], m)
    <3>1. CASE ~IsSeg(s[1]) BY <3>1 DEF IsSeg, SegOf
    <3>2. CASE IsSeg(s[1])
      <4>1. s[1].hdr # B[m].hdr BY <1>2, <2>4, <3>2
      <4>2. 1 \in 1 .. Len(s) BY <2>6
      <4>3. Sent(s[1], B, N) BY <2>8, <3>2, <4>2 DEF StreamOK
      <4>4. s[1].hdr = B[s[1].msg].hdr BY <4>3, SentIs
      <4> QED BY <4>1, <4>4 DEF SegOf
    <3> QED BY <3>1, <3>2
  <2>10. m \in X
    <3> SUFFICES ASSUME m \notin X PROVE FALSE OBVIOUS
    <3>1. 1 \in 1 .. Len(t) /\ 2 \in 1 .. Len(t) /\ 1 < 2 /\ t[2] = s[1] BY <2>6
    <3>2. \E j \in 1 .. 2 - 1 : SegOf(t[j], m) /\ ~t[j].pbf
      BY <2>3, <2>6, <2>7, <2>9, <3>1 DEF StreamOK, Contiguous
    <3> QED BY <2>5, <2>6, <3>2
  <2>11. Begun(s, B, N, X, 0) BY <2>1, <2>10, NotChained
  <2> QED BY <2>8, <2>11
<1> QED BY <1>1, <1>2

(* A segment with the header of the chain is the next one of its message. *)
LEMMA NextSegment ==
  ASSUME NEW B, NEW N, NEW X, ControlOK(B, N), NEW m \in 1 .. Len(B), NEW k \in 1 .. N[m],
         NEW s \in Seq(SomePacket), s # <<>>, IsSeg(s[1]), s[1].hdr = B[m].hdr,
         StreamOK(<<SegmentOf(m, B[m], k)>> \o s, B, N, X), k < Len(B[m].segs)
  PROVE  s[1].msg = m /\ s[1].seg = k + 1
<1> DEFINE v == SegmentOf(m, B[m], k)
           t == <<v>> \o s
           p == s[1]
<1>1. v \in SomePacket /\ k \in Nat BY SegmentInRange
<1>2. IsSeg(v) /\ v.msg = m /\ v.seg = k /\ v.hdr = B[m].hdr BY SegmentIs
<1>3. StreamOK(t, B, N, X) OBVIOUS
<1> HIDE DEF v
<1>4. t[1] = v /\ t[2] = p /\ Len(t) = Len(s) + 1 /\ Len(s) >= 1 /\ Len(s) \in Nat
  <2>1. Len(s) \in Nat /\ Len(s) >= 1 OBVIOUS
  <2>2. 1 \in 1 .. Len(s) /\ 1 + 1 = 2 BY <2>1
  <2> QED BY <1>1, <2>1, <2>2, ConsIs
<1> HIDE DEF t, p
<1>5. 1 \in 1 .. Len(t) /\ 2 \in 1 .. Len(t) BY <1>4
<1>6. IsSeg(p) /\ Sent(p, B, N) /\ p.hdr = B[m].hdr BY <1>3, <1>4, <1>5 DEF StreamOK, p
<1>7. N[m] \in Nat /\ N[m] \in 1 .. Len(B[m].segs) /\ m \in Nat BY ShapeIs
<1>8. p.msg \in 1 .. Len(B) /\ p.seg \in 1 .. N[p.msg] /\ p.hdr = B[p.msg].hdr
  BY <1>6, SentIs DEF Sent
<1>9. p.msg \in Nat /\ N[p.msg] \in Nat BY <1>8, ShapeIs
<1>10. \A i \in v.seg .. N[v.msg] : \E j \in 1 .. Len(t) : SegOf(t[j], v.msg) /\ t[j].seg = i
  <2>1. Follows(t, N) BY <1>3, Zenon DEF StreamOK
  <2> QED BY <1>2, <1>4, <1>5, <2>1, Zenon DEF Follows
<1>11. p.msg = m
  <2> SUFFICES ASSUME p.msg # m PROVE FALSE OBVIOUS
  <2>1. m < p.msg
    BY <1>2, <1>3, <1>4, <1>5, <1>6 DEF StreamOK, InOrder
  <2>2. N[m] = Len(B[m].segs) BY <1>6, <1>8, <2>1 DEF ControlOK
  <2>3. N[m] \in v.seg .. N[v.msg] BY <1>2, <1>7
  <2>4. PICK j \in 1 .. Len(t) : SegOf(t[j], m) /\ t[j].seg = N[m]
    BY <1>2, <1>10, <2>3, Zenon
  <2>5. j # 1 BY <1>1, <1>2, <1>4, <1>7, <2>2, <2>4
  <2>6. j # 2 BY <1>4, <2>4 DEF SegOf
  <2>7. 2 < j BY <2>5, <2>6
  <2>8. IsSeg(t[j]) /\ t[j].msg = m BY <2>4 DEF SegOf, IsSeg
  <2>9. t[j].hdr = B[m].hdr
    <3>1. Sent(t[j], B, N) BY <1>3, <2>8 DEF StreamOK
    <3> QED BY <2>8, <3>1, SentIs
  <2>10. p.msg < m
    BY <1>3, <1>4, <1>5, <1>6, <2>7, <2>8, <2>9 DEF StreamOK, InOrder
  <2> QED BY <1>7, <1>9, <2>1, <2>10
<1>12. p.seg = k + 1
  <2>1. k < p.seg /\ p.seg \in Nat /\ p.seg <= N[m]
    <3>1. v.seg < p.seg
      BY <1>2, <1>3, <1>4, <1>5, <1>6, <1>11 DEF StreamOK, InOrder
    <3> QED BY <1>2, <1>8, <1>11, <3>1, <1>7
  <2>2. k + 1 \in v.seg .. N[v.msg] BY <1>1, <1>2, <1>7, <2>1
  <2>3. PICK j \in 1 .. Len(t) : SegOf(t[j], m) /\ t[j].seg = k + 1
    BY <1>2, <1>10, <2>2, Zenon
  <2>4. j # 1 BY <1>1, <1>2, <1>4, <2>3
  <2>5. IsSeg(t[j]) /\ t[j].msg = m BY <2>3 DEF SegOf, IsSeg
  <2>6. 2 < j => p.seg < t[j].seg
    BY <1>3, <1>4, <1>5, <1>6, <1>11, <2>5 DEF StreamOK, InOrder
  <2>7. j = 2 BY <1>1, <2>1, <2>3, <2>4, <2>6
  <2> QED BY <1>4, <2>3, <2>7
<1> QED BY <1>11, <1>12 DEF p

(* What is left to handle behind packet p *)
LEMMA RestBegun ==
  ASSUME NEW s \in Seq(SomePacket), s # <<>>, NEW B, NEW N, NEW X, NEW c, NEW c2,
         ControlOK(B, N), StreamOK(s, B, N, X), Begun(s, B, N, X, c),
         \/ ~IsSeg(s[1]) /\ c2 = c
         \/ IsSeg(s[1]) /\ c \in {0, s[1].msg} /\ c2 = IF s[1].pbf THEN s[1].msg ELSE 0
  PROVE  Begun(Tail(s), B, N, X, c2)
<1> DEFINE t == Tail(s)
           p == s[1]
<1>1. Len(t) = Len(s) - 1 /\ Len(s) \in Nat /\ Len(s) >= 1 /\ 1 \in 1 .. Len(s)
      /\ (\A i \in 1 .. Len(t) : t[i] = s[i + 1] /\ i + 1 \in 1 .. Len(s))
      /\ \A j \in 1 .. Len(s) : j = 1 \/ (j - 1 \in 1 .. Len(t) /\ t[j - 1] = s[j])
  OBVIOUS
<1> HIDE DEF t, p
<1> SUFFICES ASSUME NEW m \in 1 .. Len(B), Counts(B, m), m \notin X, Coming(t, B, N, m)
             PROVE  Starts(t, m) \/ m = c2
  BY DEF Begun, t
<1>2. Coming(s, B, N, m)
  <2>1. CASE N[m] < Len(B[m].segs) BY <2>1 DEF Coming
  <2>2. CASE \E i \in 1 .. Len(t) : SegOf(t[i], m) BY <1>1, <2>2 DEF Coming
  <2> QED BY <2>1, <2>2 DEF Coming
<1>3. Starts(s, m) \/ m = c BY <1>2 DEF Begun
<1>4. ASSUME Starts(s, m), ~SegOf(p, m) PROVE Starts(t, m)
  <2>1. PICK i \in 1 .. Len(s) : SegOf(s[i], m) /\ s[i].seg = 1 BY <1>4 DEF Starts
  <2>2. i # 1 BY <1>4, <2>1 DEF p
  <2> QED BY <1>1, <2>1, <2>2 DEF Starts
<1>5. CASE ~IsSeg(p)
  <2>1. ~SegOf(p, m) BY <1>5 DEF IsSeg, SegOf
  <2>2. c2 = c BY <1>5 DEF p
  <2> QED BY <1>3, <1>4, <2>1, <2>2
<1>6. CASE IsSeg(p)
  <2>1. c \in {0, p.msg} /\ c2 = IF p.pbf THEN p.msg ELSE 0 BY <1>6 DEF p
  <2>2. CASE ~SegOf(p, m)
    <3>1. m # p.msg /\ m # 0 BY <1>6, <2>2 DEF SegOf, IsSeg
    <3> QED BY <1>3, <1>4, <2>1, <2>2, <3>1
  <2>3. CASE SegOf(p, m)
    <3>1. p.msg = m BY <2>3 DEF SegOf
    <3>2. CASE p.pbf BY <2>1, <3>1, <3>2
    <3>3. CASE ~p.pbf
      <4>1. Sent(p, B, N) BY <1>1, <1>6 DEF StreamOK, p
      <4>2. p.seg \in 1 .. N[m] /\ p.pbf = (p.seg < Len(B[m].segs)) BY <3>1, <4>1, SentIs DEF Sent
      <4>3. N[m] \in 1 .. Len(B[m].segs) /\ N[m] \in Nat /\ Len(B[m].segs) \in Nat BY ShapeIs
      <4>4. ~(p.seg < Len(B[m].segs)) BY <3>3, <4>2, Zenon
      <4>5. p.seg = N[m] /\ N[m] = Len(B[m].segs) BY <4>2, <4>3, <4>4
      <4>6. PICK i \in 1 .. Len(t) : SegOf(t[i], m) BY <4>5, <4>3 DEF Coming
      <4>7. i + 1 \in 1 .. Len(s) /\ t[i] = s[i + 1] /\ 1 < i + 1 BY <1>1
      <4>8. s[i + 1].msg = m /\ IsSeg(s[i + 1]) BY <4>6, <4>7 DEF SegOf, IsSeg
      <4>9. p.seg < s[i + 1].seg
        BY <1>1, <1>6, <3>1, <4>7, <4>8 DEF StreamOK, InOrder, p
      <4>10. s[i + 1].seg \in 1 .. N[m]
        <5>1. Sent(s[i + 1], B, N) BY <4>7, <4>8 DEF StreamOK
        <5> QED BY <4>8, <5>1 DEF Sent
      <4> QED BY <4>3, <4>5, <4>9, <4>10
    <3> QED BY <3>2, <3>3
  <2> QED BY <2>2, <2>3
<1> QED BY <1>5, <1>6

-----------------------------------------------------------------------------
(***************************************************************************)
(* A segment p is added: the chain holds the segments up to p.             *)
(***************************************************************************)
Full(q, memory, B, N, X, p) ==
  /\ q.list \in Seq(AllBuffers) /\ Len(q.list) >= 1 /\ q.list[1] = HeadBuffer
  /\ \A i, j \in 1 .. Len(q.list) : q.list[i] = q.list[j] => i = j
  /\ q.HeaderInfo = p.hdr
  /\ \A i \in 1 .. Len(q.list) : Segment_of(memory[q.list[i]], B, N, p.msg)
  /\ Counts(B, p.msg) => Filled(q, memory, B, X, p.msg, p.seg, Len(q.list))

Added(r, h, n) == AddSegment([r EXCEPT !.HeaderInfo = h], n)

LEMMA AddIs ==
  ASSUME NEW r \in ChainType
  PROVE  \A h \in Headers \cup {NoHeader}, n \in Nat :
           /\ Added(r, h, n).list = r.list /\ Added(r, h, n).HeaderInfo = h
           /\ Added(r, h, n).lens = [r.lens EXCEPT ![Last(r.list)] = n]
           /\ Added(r, h, n).wPayloadSize = (r.wPayloadSize + HEADER_LEN + n) % SizeLimit
           /\ r.lens \in [AllBuffers -> Nat] /\ Added(r, h, n) \in ChainType
<1> SUFFICES ASSUME NEW h \in Headers \cup {NoHeader}, NEW n \in Nat, NEW q, q = Added(r, h, n)
             PROVE  /\ q.list = r.list /\ q.HeaderInfo = h
                    /\ q.lens = [r.lens EXCEPT ![Last(r.list)] = n]
                    /\ q.wPayloadSize = (r.wPayloadSize + HEADER_LEN + n) % SizeLimit
                    /\ r.lens \in [AllBuffers -> Nat] /\ q \in ChainType
  OBVIOUS
<1> DEFINE o == [r EXCEPT !.HeaderInfo = h]
<1>1. o \in ChainType BY ChainOps
<1>2. /\ o.list = r.list /\ o.HeaderInfo = h /\ o.lens = r.lens /\ o.wPayloadSize = r.wPayloadSize
      /\ r.lens \in [AllBuffers -> Nat] /\ r.wPayloadSize \in Nat
  BY DEF ChainType
<1> HIDE DEF o
<1>3. q = AddSegment(o, n) BY DEF o, Added
<1>4. q \in ChainType BY <1>1, <1>3, ChainOps
<1>5. /\ q.list = o.list /\ q.HeaderInfo = o.HeaderInfo
      /\ q.lens = [o.lens EXCEPT ![Last(o.list)] = n]
      /\ q.wPayloadSize = (o.wPayloadSize + HEADER_LEN + n) % SizeLimit
  <2> DEFINE l == [o.lens EXCEPT ![Last(o.list)] = n]
             w == (o.wPayloadSize + HEADER_LEN + n) % SizeLimit
  <2>1. q = [o EXCEPT !.lens = l, !.wPayloadSize = w]
    BY <1>1, <1>3 DEF AddSegment, ChainType
  <2> HIDE DEF l, w
  <2>2. q.list = o.list /\ q.HeaderInfo = o.HeaderInfo /\ q.lens = l /\ q.wPayloadSize = w
    BY <1>1, <2>1 DEF ChainType
  <2> QED BY <2>2 DEF l, w
<1> QED BY <1>2, <1>4, <1>5

\* A part of one segment, and a part of no more than the message
LEMMA PartOne ==
  ASSUME NEW g \in Seq(Nat), NEW m \in Nat, NEW k \in 1 .. Len(g)
  PROVE  Len(Part(g, m, k - 1, 1)) = g[k] /\ g[k] \in Nat
<1> DEFINE j == k - 1
<1>1. j \in Nat /\ j + 0 + 1 <= Len(g) /\ k = j + 0 + 1 /\ g[k] \in Nat
  OBVIOUS
<1> HIDE DEF j
<1>2. Len(Part(g, m, j, 0 + 1)) = Len(Part(g, m, j, 0)) + g[j + 0 + 1]
  BY <1>1, PartNext
<1>3. Len(Part(g, m, j, 0)) = 0
  <2>1. Len(<<>>) = 0 OBVIOUS
  <2> QED BY <2>1, PartNone
<1>4. Len(Part(g, m, j, 1)) = g[k] BY <1>1, <1>2, <1>3
<1> QED BY <1>1, <1>4 DEF j

LEMMA PartFits ==
  ASSUME NEW B, NEW N, ControlOK(B, N), NEW m \in 1 .. Len(B), Counts(B, m),
         NEW k \in Nat, NEW n \in Nat, n <= k, k <= Len(B[m].segs)
  PROVE  /\ Len(Part(B[m].segs, m, k - n, n)) \in Nat
         /\ Len(Part(B[m].segs, m, k - n, n)) + n * HEADER_LEN < SizeLimit
<1> DEFINE g == B[m].segs
           j == k - n
           z == Len(g) - k
<1>1. g \in Seq(Nat) /\ m \in Nat /\ Len(g) \in Nat BY ShapeIs
<1>2. j \in Nat /\ z \in Nat /\ j + n = k /\ k + z = Len(g) /\ 0 + j <= Len(g) /\ 0 + k <= Len(g)
  BY <1>1
<1>3. Len(Part(g, m, 0, Len(g))) + Len(g) * HEADER_LEN < SizeLimit BY DEF Counts
<1> HIDE DEF g, j, z
<1>4. Part(g, m, 0, k + z) = Part(g, m, 0, k) \o Part(g, m, k, z)
  <2>1. \A y \in Nat : k + y <= Len(g) => Part(g, m, 0, k + y) = Part(g, m, 0, k) \o Part(g, m, k, y)
    BY <1>1, PartSplit
  <2>2. k + z <= Len(g) BY <1>1, <1>2
  <2> QED BY <1>2, <2>1, <2>2
<1>5. Part(g, m, 0, j + n) = Part(g, m, 0, j) \o Part(g, m, j, n)
  BY <1>1, <1>2, PartSplit, SMTT(30)
<1>6. /\ Part(g, m, 0, j) \in Seq(SomeByte) /\ Part(g, m, j, n) \in Seq(SomeByte)
      /\ Part(g, m, 0, k) \in Seq(SomeByte) /\ Part(g, m, k, z) \in Seq(SomeByte)
  <2>1. \A x, y \in Nat : x + y <= Len(g) => Part(g, m, x, y) \in Seq(SomeByte)
    BY <1>1, PartIs
  <2>2. 0 \in Nat /\ j + n <= Len(g) /\ k + z <= Len(g) BY <1>1, <1>2
  <2> QED BY <1>2, <2>1, <2>2
<1>7. Len(Part(g, m, 0, k)) = Len(Part(g, m, 0, j)) + Len(Part(g, m, j, n))
  BY <1>2, <1>5, <1>6, SMTT(30)
<1>8. Len(Part(g, m, 0, Len(g))) = Len(Part(g, m, 0, k)) + Len(Part(g, m, k, z))
  <2>1. Part(g, m, 0, Len(g)) = Part(g, m, 0, k + z) BY <1>2, Zenon
  <2>2. Len(Part(g, m, 0, k) \o Part(g, m, k, z)) = Len(Part(g, m, 0, k)) + Len(Part(g, m, k, z))
    BY <1>6
  <2> QED BY <1>4, <2>1, <2>2
<1>9. Len(Part(g, m, j, n)) \in Nat /\ Len(Part(g, m, 0, j)) \in Nat /\ Len(Part(g, m, k, z)) \in Nat
  BY <1>6
<1>10. Len(Part(g, m, j, n)) + n * HEADER_LEN < SizeLimit
  BY <1>1, <1>2, <1>3, <1>7, <1>8, <1>9, SizeFact
<1> QED BY <1>9, <1>10 DEF g, j

LEMMA ListIs ==
  ASSUME NEW r, ListOK(r)
  PROVE  /\ r.list \in Seq(AllBuffers) /\ Len(r.list) \in Nat /\ Len(r.list) >= 1
         /\ r.list[1] = HeadBuffer
         /\ \A i, j \in 1 .. Len(r.list) : r.list[i] = r.list[j] => i = j
         /\ Last(r.list) = r.list[Len(r.list)] /\ r.list[Len(r.list)] \in AllBuffers
         /\ (Len(r.list) = 1 => r.list = <<HeadBuffer>> /\ r.wPayloadSize = 0)
<1> DEFINE l == r.list
<1> HIDE DEF HeadBuffer
<1>1. l \in Seq(AllBuffers) /\ Len(l) >= 1 /\ l[1] = HeadBuffer BY DEF ListOK
<1> HIDE DEF l
<1>2. Len(l) \in Nat /\ l[Len(l)] \in AllBuffers /\ Last(l) = l[Len(l)]
      /\ (Len(l) = 1 => l = <<HeadBuffer>>)
  BY <1>1 DEF Last
<1> QED BY <1>1, <1>2 DEF ListOK, l

LEMMA SentLen ==
  ASSUME NEW B, NEW N, ControlOK(B, N), NEW p, Sent(p, B, N)
  PROVE  /\ p.msg \in 1 .. Len(B) /\ p.seg \in 1 .. Len(B[p.msg].segs) /\ p.seg \in Nat
         /\ Len(p.bytes) = B[p.msg].segs[p.seg] /\ Len(p.bytes) \in Nat
<1>1. p.msg \in 1 .. Len(B) /\ p.seg \in 1 .. N[p.msg] BY DEF Sent
<1>2. /\ p.msg \in Nat /\ N[p.msg] \in 1 .. Len(B[p.msg].segs) /\ N[p.msg] \in Nat
      /\ B[p.msg].segs \in Seq(Nat) /\ Len(B[p.msg].segs) \in Nat
  BY <1>1, ShapeIs
<1>3. p.seg \in 1 .. Len(B[p.msg].segs) /\ p.seg \in Nat BY <1>1, <1>2
<1>4. B[p.msg].segs[p.seg] \in Nat BY <1>2, <1>3, SMTT(30)
<1>5. p.bytes = Bytes(p.msg, p.seg, B[p.msg].segs[p.seg]) BY SentIs
<1>6. Len(p.bytes) = B[p.msg].segs[p.seg]
  <2> DEFINE a == p.msg
             b == p.seg
             c == B[p.msg].segs[p.seg]
             z == p.bytes
  <2>1. a \in Nat /\ b \in Nat /\ c \in Nat /\ z = Bytes(a, b, c) BY <1>2, <1>3, <1>4, <1>5
  <2> HIDE DEF a, b, c, z
  <2>2. Len(z) = c BY <2>1, BytesAre
  <2> QED BY <2>2 DEF z, c
<1> QED BY <1>1, <1>3, <1>4, <1>6

LEMMA FullAnew ==
  ASSUME NEW B, NEW N, NEW X, ControlOK(B, N), NEW r \in ChainType, r.list = <<HeadBuffer>>,
         r.wPayloadSize = 0, NEW memory, NEW p \in SomePacket, Sent(p, B, N),
         memory[HeadBuffer] = p, p.seg = 1 \/ p.msg \in X \/ ~Counts(B, p.msg),
         NEW q, q = Added(r, p.hdr, Len(p.bytes))
  PROVE  Full(q, memory, B, N, X, p)
<1> DEFINE n == Len(p.bytes)
           m == p.msg
           k == p.seg
           g == B[m].segs
<1>1. m \in 1 .. Len(B) /\ k \in 1 .. Len(g) /\ k \in Nat /\ n = g[k] /\ n \in Nat
  BY SentLen
<1>2. /\ q.list = <<HeadBuffer>> /\ q.HeaderInfo = p.hdr
      /\ q.lens = [r.lens EXCEPT ![Last(r.list)] = n]
      /\ q.wPayloadSize = (0 + HEADER_LEN + n) % SizeLimit
      /\ r.lens \in [AllBuffers -> Nat]
  <2> DEFINE h == p.hdr
  <2>1. h \in Headers \cup {NoHeader} BY DEF SomePacket
  <2>2. q = Added(r, h, n) OBVIOUS
  <2> HIDE DEF n, h
  <2>3. /\ Added(r, h, n).list = r.list /\ Added(r, h, n).HeaderInfo = h
        /\ Added(r, h, n).lens = [r.lens EXCEPT ![Last(r.list)] = n]
        /\ Added(r, h, n).wPayloadSize = (r.wPayloadSize + HEADER_LEN + n) % SizeLimit
        /\ r.lens \in [AllBuffers -> Nat]
    <3>1. \A x \in Headers \cup {NoHeader}, y \in Nat :
            /\ Added(r, x, y).list = r.list /\ Added(r, x, y).HeaderInfo = x
            /\ Added(r, x, y).lens = [r.lens EXCEPT ![Last(r.list)] = y]
            /\ Added(r, x, y).wPayloadSize = (r.wPayloadSize + HEADER_LEN + y) % SizeLimit
            /\ r.lens \in [AllBuffers -> Nat] /\ Added(r, x, y) \in ChainType
      BY AddIs
    <3>2. n \in Nat BY <1>1
    <3> QED BY <2>1, <3>1, <3>2, Zenon
  <2> QED BY <2>2, <2>3, Zenon DEF h
<1>3. Last(r.list) = HeadBuffer /\ HeadBuffer \in AllBuffers
  <2> HIDE DEF HeadBuffer
  <2> QED BY DEF Last, AllBuffers
<1>4. q.lens[HeadBuffer] = n
  <2> HIDE DEF n, HeadBuffer
  <2> QED BY <1>2, <1>3
<1>5. Len(q.list) = 1 /\ q.list[1] = HeadBuffer /\ q.list \in Seq(AllBuffers)
  <2>1. q.list = <<HeadBuffer>> BY <1>2
  <2> HIDE DEF HeadBuffer
  <2> QED BY <1>3, <2>1
<1>6. Segment_of(p, B, N, m) BY SentIs DEF Segment_of
<1>7. ASSUME Counts(B, m) PROVE Filled(q, memory, B, X, m, k, 1)
  <2>0. g \in Seq(Nat) /\ m \in Nat BY <1>1, ShapeIs
  <2>1. 1 <= k /\ (1 = k \/ m \in X) BY <1>1, <1>7
  <2>2. Len(Part(g, m, k - 1, 1)) = n
    <3> HIDE DEF g
    <3> QED BY <1>1, <2>0, PartOne
  <2>3. n + 1 * HEADER_LEN < SizeLimit
    <3> DEFINE y == B[m].segs
    <3>0. k <= Len(y) /\ 1 \in Nat /\ g = y BY <1>1, <2>0
    <3> HIDE DEF m, k, n
    <3>1. Len(Part(y, m, k - 1, 1)) + 1 * HEADER_LEN < SizeLimit
      BY <1>1, <1>7, <2>1, <3>0, PartFits
    <3> HIDE DEF y, g
    <3> QED BY <2>2, <3>0, <3>1
  <2>4. q.wPayloadSize = Len(Part(g, m, k - 1, 1)) + 1 * HEADER_LEN
    <3> HIDE DEF n, g, m, k
    <3>1. (0 + HEADER_LEN + n) % SizeLimit = n + 1 * HEADER_LEN BY <1>1, <2>3, SizeFact, SMTT(30)
    <3> QED BY <1>2, <2>2, <3>1
  <2>5. memory[q.list[1]] = SegmentOf(m, B[m], k - 1 + 1)
    <3>1. k - 1 + 1 = k BY <1>1
    <3>2. p = SegmentOf(m, B[m], k) BY DEF Sent
    <3> HIDE DEF m, k
    <3> QED BY <1>5, <3>1, <3>2
  <2>6. q.lens[q.list[1]] = g[k - 1 + 1]
    <3>1. k - 1 + 1 = k BY <1>1
    <3> HIDE DEF m, k, n, g, HeadBuffer
    <3> QED BY <1>1, <1>4, <1>5, <3>1
  <2>7. \A i \in 1 .. 1 : i = 1 OBVIOUS
  <2> HIDE DEF n, m, k, g
  <2>8. Filled(q, memory, B, X, m, k, 1)
    BY <2>1, <2>4, <2>5, <2>6, <2>7 DEF Filled, g
  <2> QED BY <2>8
<1> HIDE DEF n
<1>8. \A i \in 1 .. 1 : i = 1 OBVIOUS
<1>9. \A i \in 1 .. Len(q.list) : Segment_of(memory[q.list[i]], B, N, m)
  <2> HIDE DEF m, HeadBuffer
  <2> QED BY <1>5, <1>6, <1>8
<1>10. Counts(B, p.msg) => Filled(q, memory, B, X, p.msg, p.seg, Len(q.list))
  BY <1>5, <1>7
<1> QED BY <1>2, <1>5, <1>9, <1>10 DEF Full

LEMMA SizeGrows ==
  \A w, n, l, y, z \in Int : y = z + n /\ z = w - (l - 1) * HEADER_LEN
                             => w + HEADER_LEN + n = y + l * HEADER_LEN
OBVIOUS

LEMMA FullNext ==
  ASSUME NEW B, NEW N, NEW X, ControlOK(B, N), NEW r \in ChainType, ListOK(r), Len(r.list) # 1,
         NEW m \in 1 .. Len(B), NEW k \in 1 .. N[m], NEW memory, Holds(r, memory, B, N, X, m, k),
         NEW p \in SomePacket, Sent(p, B, N), p.msg = m, p.seg = k + 1,
         memory[IF r.wPayloadSize = 0 THEN HeadBuffer ELSE Last(r.list)] = p,
         NEW q, q = Added(r, p.hdr, Len(p.bytes))
  PROVE  Full(q, memory, B, N, X, p)
<1> DEFINE n == Len(p.bytes)
           g == B[m].segs
           l == Len(r.list)
<1>1. k + 1 \in 1 .. Len(g) /\ k \in Nat /\ n = g[k + 1] /\ n \in Nat
  BY SentLen, SegmentInRange
<1>2. /\ q.list = r.list /\ q.HeaderInfo = p.hdr
      /\ q.lens = [r.lens EXCEPT ![Last(r.list)] = n]
      /\ q.wPayloadSize = (r.wPayloadSize + HEADER_LEN + n) % SizeLimit
      /\ r.lens \in [AllBuffers -> Nat]
  <2> DEFINE h == p.hdr
  <2>1. h \in Headers \cup {NoHeader} BY DEF SomePacket
  <2>2. q = Added(r, h, n) OBVIOUS
  <2> HIDE DEF n, h
  <2>3. /\ Added(r, h, n).list = r.list /\ Added(r, h, n).HeaderInfo = h
        /\ Added(r, h, n).lens = [r.lens EXCEPT ![Last(r.list)] = n]
        /\ Added(r, h, n).wPayloadSize = (r.wPayloadSize + HEADER_LEN + n) % SizeLimit
        /\ r.lens \in [AllBuffers -> Nat]
    <3>1. \A x \in Headers \cup {NoHeader}, y \in Nat :
            /\ Added(r, x, y).list = r.list /\ Added(r, x, y).HeaderInfo = x
            /\ Added(r, x, y).lens = [r.lens EXCEPT ![Last(r.list)] = y]
            /\ Added(r, x, y).wPayloadSize = (r.wPayloadSize + HEADER_LEN + y) % SizeLimit
            /\ r.lens \in [AllBuffers -> Nat] /\ Added(r, x, y) \in ChainType
      BY AddIs
    <3>2. n \in Nat BY <1>1
    <3> QED BY <2>1, <3>1, <3>2, ZenonT(30)
  <2> QED BY <2>2, <2>3, Zenon DEF h
<1>3. /\ r.list \in Seq(AllBuffers) /\ l \in Nat /\ l >= 2 /\ r.list[1] = HeadBuffer
      /\ \A i, j \in 1 .. l : r.list[i] = r.list[j] => i = j
      /\ Last(r.list) = r.list[l] /\ r.list[l] \in AllBuffers
  <2>1. /\ r.list \in Seq(AllBuffers) /\ l \in Nat /\ l >= 1
        /\ r.list[1] = HeadBuffer
        /\ \A i, j \in 1 .. l : r.list[i] = r.list[j] => i = j
        /\ Last(r.list) = r.list[l] /\ r.list[l] \in AllBuffers
    BY ListIs, Zenon
  <2>2. l # 1 OBVIOUS
  <2> HIDE DEF l
  <2>3. l >= 2 BY <2>1, <2>2
  <2> QED BY <2>1, <2>3
<1>4. Segment_of(p, B, N, m) BY SentIs DEF Segment_of
<1>5. \A i \in 1 .. l : Segment_of(memory[r.list[i]], B, N, m)
  <2> SUFFICES ASSUME NEW i \in 1 .. l, i \notin Held(r)
               PROVE  Segment_of(memory[r.list[i]], B, N, m)
    BY DEF Holds
  <2>1. CASE r.wPayloadSize = 0
    <3>1. i = 1 BY <1>3, <2>1 DEF Held
    <3>2. memory[r.list[i]] = p BY <1>3, <2>1, <3>1
    <3> QED BY <1>4, <3>2, Zenon
  <2>2. CASE r.wPayloadSize # 0
    <3>1. i = l BY <1>3, <2>2 DEF Held
    <3>2. memory[r.list[i]] = p BY <1>3, <2>2, <3>1
    <3> QED BY <1>4, <3>2, Zenon
  <2> QED BY <2>1, <2>2
<1>6. ASSUME Counts(B, m) PROVE Filled(q, memory, B, X, m, k + 1, l)
  <2> DEFINE j == k - (l - 1)
  <2>0. g \in Seq(Nat) /\ m \in Nat /\ Len(g) \in Nat BY ShapeIs
  <2>1. Filled(r, memory, B, X, m, k, l - 1) BY <1>6 DEF Holds
  <2>2. /\ l - 1 <= k /\ (l - 1 = k \/ m \in X)
        /\ \A i \in 1 .. l - 1 : /\ memory[r.list[i]] = SegmentOf(m, B[m], j + i)
                                 /\ r.lens[r.list[i]] = g[j + i]
        /\ r.wPayloadSize = Len(Part(g, m, j, l - 1)) + (l - 1) * HEADER_LEN
    BY <2>1 DEF Filled
  <2>3. l - 1 \in Nat /\ k <= Len(g) BY <1>1, <1>3, <2>0
  <2>4. r.wPayloadSize \in Nat /\ r.wPayloadSize > 0
    BY <1>1, <1>3, <2>1, <2>3, FilledSize
  <2>5. j \in Nat /\ (k + 1) - l = j /\ j + l = k + 1 /\ j + (l - 1) + 1 = k + 1
        /\ j + (l - 1) + 1 <= Len(g) /\ l <= k + 1 /\ k + 1 <= Len(g) /\ k + 1 \in Nat
    BY <1>1, <1>3, <2>0, <2>2
  <2> HIDE DEF j, l, n, g
  <2>6. Len(Part(g, m, j, l - 1 + 1)) = Len(Part(g, m, j, l - 1)) + g[j + (l - 1) + 1]
    BY <2>0, <2>3, <2>5, PartNext, SMTT(30)
  <2>7. l - 1 + 1 = l BY <1>3
  <2>8. Len(Part(g, m, j, l)) = Len(Part(g, m, j, l - 1)) + n
    BY <1>1, <2>5, <2>6, <2>7
  <2>9. Len(Part(g, m, j, l)) + l * HEADER_LEN < SizeLimit /\ Len(Part(g, m, j, l)) \in Nat
    <3>1. /\ Len(Part(g, m, (k + 1) - l, l)) \in Nat
          /\ Len(Part(g, m, (k + 1) - l, l)) + l * HEADER_LEN < SizeLimit
      BY <1>3, <1>6, <2>5, PartFits DEF g
    <3> QED BY <2>5, <3>1
  <2>10. q.wPayloadSize = Len(Part(g, m, j, l)) + l * HEADER_LEN
    <3>1. r.wPayloadSize + HEADER_LEN + n = Len(Part(g, m, j, l)) + l * HEADER_LEN
      <4>1. Len(Part(g, m, j, l - 1)) = r.wPayloadSize - (l - 1) * HEADER_LEN
            /\ Len(Part(g, m, j, l - 1)) \in Int
        <5>1. Len(Part(g, m, j, l - 1)) \in Nat
          <6>1. Part(g, m, j, l - 1) \in Seq(SomeByte)
            BY <2>0, <2>3, <2>5, PartNext
          <6> QED BY <6>1
        <5>2. r.wPayloadSize = Len(Part(g, m, j, l - 1)) + (l - 1) * HEADER_LEN BY <2>2
        <5> DEFINE w == r.wPayloadSize
                   z == Len(Part(g, m, j, l - 1))
        <5>3. z \in Nat /\ w = z + (l - 1) * HEADER_LEN /\ l \in Nat BY <1>3, <5>1, <5>2
        <5> HIDE DEF w, z
        <5>4. z = w - (l - 1) * HEADER_LEN /\ z \in Int BY <5>3
        <5> QED BY <5>4 DEF w, z
      <4> DEFINE w == r.wPayloadSize
                 z == Len(Part(g, m, j, l - 1))
                 y == Len(Part(g, m, j, l))
      <4>2. /\ z \in Int /\ w \in Nat /\ n \in Nat /\ l \in Nat /\ y = z + n
            /\ z = w - (l - 1) * HEADER_LEN
        BY <1>1, <1>3, <2>4, <2>8, <4>1
      <4>3. y \in Int BY <4>2
      <4> HIDE DEF w, z, y
      <4>4. w + HEADER_LEN + n = y + l * HEADER_LEN
        <5> HIDE DEF n, l
        <5>1. w \in Int /\ n \in Int /\ l \in Int BY <4>2
        <5> QED BY <4>2, <4>3, <5>1, SizeGrows
      <4> QED BY <4>4 DEF w, y
    <3> DEFINE z == Len(Part(g, m, j, l)) + l * HEADER_LEN
    <3>2. z \in Nat /\ z < SizeLimit BY <1>3, <2>9
    <3>3. q.wPayloadSize = z % SizeLimit BY <1>2, <3>1, Zenon
    <3> HIDE DEF z
    <3>4. q.wPayloadSize = z BY <3>2, <3>3, SizeFact
    <3> QED BY <3>4 DEF z
  <2>11. \A i \in 1 .. l : /\ memory[q.list[i]] = SegmentOf(m, B[m], j + i)
                           /\ q.lens[q.list[i]] = g[j + i]
    <3>1. \A i \in 1 .. l : i \in 1 .. l - 1 \/ i = l BY <1>3
    <3>2. ASSUME NEW i \in 1 .. l - 1
          PROVE  memory[q.list[i]] = SegmentOf(m, B[m], j + i) /\ q.lens[q.list[i]] = g[j + i]
      <4>1. i \in 1 .. l /\ l \in 1 .. l /\ i # l BY <1>3
      <4>2. r.list[i] # r.list[l] /\ r.list[i] \in AllBuffers BY <1>3, <4>1, SMTT(30) DEF l
      <4>3. q.lens[r.list[i]] = r.lens[r.list[i]] BY <1>2, <1>3, <4>2
      <4> QED BY <1>2, <2>2, <4>3
    <3>3. memory[q.list[l]] = SegmentOf(m, B[m], j + l)
      <4>1. memory[r.list[l]] = p BY <1>3, <2>4
      <4>2. p = SegmentOf(m, B[m], k + 1) BY DEF Sent
      <4> QED BY <1>2, <2>5, <4>1, <4>2
    <3>4. q.lens[q.list[l]] = g[j + l] BY <1>1, <1>2, <1>3, <2>5, SMTT(30)
    <3> QED BY <3>1, <3>2, <3>3, <3>4
  <2>12. l <= k + 1 /\ (l = k + 1 \/ m \in X) BY <1>1, <1>3, <2>2
  <2>13. Filled(q, memory, B, X, m, k + 1, l)
    BY <2>5, <2>10, <2>11, <2>12 DEF Filled, g
  <2> QED BY <2>13 DEF l
<1>7. Counts(B, p.msg) => Filled(q, memory, B, X, p.msg, p.seg, Len(q.list))
  BY <1>2, <1>6
<1> HIDE DEF n
<1>8. \A i \in 1 .. Len(q.list) : Segment_of(memory[q.list[i]], B, N, p.msg)
  BY <1>2, <1>5
<1> QED BY <1>2, <1>3, <1>7, <1>8 DEF Full

LEMMA NodeIs ==
  ASSUME NEW q \in ChainType, q.wPayloadSize # 0, NEW b \in AllBuffers
  PROVE  /\ GetNewNode(q, b).list = Append(q.list, b) /\ GetNewNode(q, b).lens = q.lens
         /\ GetNewNode(q, b).wPayloadSize = q.wPayloadSize
         /\ GetNewNode(q, b).HeaderInfo = q.HeaderInfo
<1> DEFINE l == Append(q.list, b)
<1>1. GetNewNode(q, b) = [q EXCEPT !.list = l] BY DEF GetNewNode
<1> HIDE DEF l
<1>2. /\ GetNewNode(q, b).list = l /\ GetNewNode(q, b).lens = q.lens
      /\ GetNewNode(q, b).wPayloadSize = q.wPayloadSize
      /\ GetNewNode(q, b).HeaderInfo = q.HeaderInfo
  BY <1>1 DEF ChainType
<1> QED BY <1>2 DEF l

(* A buffer that is not in the chain is put at its end. *)
LEMMA NewNodeIs ==
  ASSUME NEW l \in Seq(AllBuffers), NEW b \in AllBuffers \ Range(l), Len(l) >= 1, l[1] = HeadBuffer,
         \A i, j \in 1 .. Len(l) : l[i] = l[j] => i = j
  PROVE  /\ Append(l, b) \in Seq(AllBuffers) /\ Len(Append(l, b)) = Len(l) + 1
         /\ Append(l, b)[1] = HeadBuffer /\ Append(l, b)[Len(l) + 1] = b
         /\ \A i \in 1 .. Len(l) : Append(l, b)[i] = l[i]
         /\ \A i, j \in 1 .. Len(Append(l, b)) : Append(l, b)[i] = Append(l, b)[j] => i = j
<1> DEFINE t == Append(l, b)
<1> HIDE DEF HeadBuffer
<1>1. /\ t \in Seq(AllBuffers) /\ Len(t) = Len(l) + 1 /\ t[Len(l) + 1] = b /\ Len(l) \in Nat
      /\ \A i \in 1 .. Len(l) : t[i] = l[i]
  OBVIOUS
<1>2. \A i \in 1 .. Len(l) : l[i] # b
  BY DEF Range
<1> HIDE DEF t
<1>3. t[1] = HeadBuffer
  <2>1. 1 \in 1 .. Len(l) BY <1>1
  <2> QED BY <1>1, <2>1
<1>4. ASSUME NEW i \in 1 .. Len(t), NEW j \in 1 .. Len(t), t[i] = t[j] PROVE i = j
  <2>1. \A x \in 1 .. Len(t) : x = Len(l) + 1 \/ x \in 1 .. Len(l) BY <1>1
  <2>2. CASE i = Len(l) + 1 /\ j = Len(l) + 1 BY <2>2
  <2>3. CASE i = Len(l) + 1 /\ j \in 1 .. Len(l) BY <1>1, <1>2, <1>4, <2>3
  <2>4. CASE i \in 1 .. Len(l) /\ j = Len(l) + 1 BY <1>1, <1>2, <1>4, <2>4
  <2>5. CASE i \in 1 .. Len(l) /\ j \in 1 .. Len(l) BY <1>1, <1>4, <2>5
  <2> QED BY <2>1, <2>2, <2>3, <2>4, <2>5
<1> QED BY <1>1, <1>3, <1>4 DEF t

LEMMA ConsOfTail ==
  ASSUME NEW s \in Seq(SomePacket), s # <<>>
  PROVE  <<s[1]>> \o Tail(s) = s /\ Tail(s) \in Seq(SomePacket)
OBVIOUS

(* More segments are to follow. *)
LEMMA CollectChain ==
  ASSUME NEW B, NEW N, NEW X, ControlOK(B, N), NEW q \in ChainType, NEW memory,
         NEW s \in Seq(SomePacket), s # <<>>, StreamOK(s, B, N, X), IsSeg(s[1]), s[1].pbf,
         Full(q, memory, B, N, X, s[1]), Begun(Tail(s), B, N, X, s[1].msg),
         NEW b \in IF q.wPayloadSize = 0 THEN {HeadBuffer} ELSE Buffers \ Range(q.list),
         NEW r, r = GetNewNode(q, b)
  PROVE  ListOK(r) /\ Chain(r, memory, Tail(s), B, N, X)
<1> DEFINE p == s[1]
           m == p.msg
           k == p.seg
           t == Tail(s)
<1>1. Sent(p, B, N)
  <2>1. 1 \in 1 .. Len(s)
    <3>1. Len(s) \in Nat /\ Len(s) >= 1 OBVIOUS
    <3> QED BY <3>1
  <2> QED BY <2>1 DEF StreamOK
<1>2. m \in 1 .. Len(B) /\ k \in 1 .. N[m] /\ k \in Nat /\ p = SegmentOf(m, B[m], k)
  BY <1>1, SentLen DEF Sent
<1>3. k < Len(B[m].segs) /\ p.hdr = B[m].hdr
  <2>1. p.pbf = (p.seg < Len(B[m].segs)) /\ p.hdr = B[m].hdr BY <1>1, SentIs
  <2>2. p.pbf OBVIOUS
  <2> QED BY <2>1, <2>2, Zenon
<1>4. StreamOK(<<SegmentOf(m, B[m], k)>> \o t, B, N, X) /\ StreamOK(t, B, N, X)
  <2>1. <<p>> \o t = s BY ConsOfTail
  <2>2. StreamOK(<<p>> \o t, B, N, X) BY <2>1, Zenon
  <2>3. StreamOK(t, B, N, X) BY TailOK
  <2> HIDE DEF p, m, k, t
  <2> QED BY <1>2, <2>2, <2>3, Zenon
<1>5. Begun(t, B, N, X, m) OBVIOUS
<1>6. Full(q, memory, B, N, X, p) OBVIOUS
<1> HIDE DEF p, t
<1>7. /\ q.list \in Seq(AllBuffers) /\ Len(q.list) >= 1 /\ Len(q.list) \in Nat
      /\ q.list[1] = HeadBuffer
      /\ \A i, j \in 1 .. Len(q.list) : q.list[i] = q.list[j] => i = j
      /\ q.HeaderInfo = B[m].hdr
      /\ \A i \in 1 .. Len(q.list) : Segment_of(memory[q.list[i]], B, N, m)
      /\ Counts(B, m) => Filled(q, memory, B, X, m, k, Len(q.list))
  <2>1. q.list \in Seq(AllBuffers) BY DEF ChainType
  <2>2. Len(q.list) \in Nat BY <2>1
  <2> QED BY <1>3, <1>6, <2>2 DEF Full
<1>8. Counts(B, m) => q.wPayloadSize > 0
  <2> DEFINE l == Len(q.list)
  <2> SUFFICES ASSUME Counts(B, m) PROVE q.wPayloadSize > 0 OBVIOUS
  <2>1. Filled(q, memory, B, X, m, k, l) /\ l \in Nat /\ l > 0 BY <1>7
  <2>2. k <= Len(B[m].segs)
    <3>1. Len(B[m].segs) \in Nat BY <1>2, ShapeIs
    <3> QED BY <1>2, <1>3, <3>1
  <2> HIDE DEF l, k, m
  <2> QED BY <1>2, <2>1, <2>2, FilledSize
<1>9. CASE q.wPayloadSize = 0
  <2>1. r = q BY <1>9 DEF GetNewNode
  <2>2. ListOK(r) BY <1>7, <1>9, <2>1 DEF ListOK
  <2>3. ~Counts(B, m) BY <1>8, <1>9
  <2>4. CASE Len(q.list) = 1
    <3>1. Begun(t, B, N, X, 0) BY <1>5, <2>3, NotChained
    <3>2. Len(r.list) = 1 BY <2>1, <2>4
    <3> HIDE DEF m, k
    <3>3. Chain(r, memory, t, B, N, X) BY <1>4, <3>1, <3>2, Zenon DEF Chain
    <3> QED BY <2>2, <3>3 DEF t
  <2>5. CASE Len(q.list) # 1
    <3>1. \A i \in Held(q) : i \in 1 .. Len(q.list) BY <1>7, <1>9 DEF Held
    <3>2. Holds(q, memory, B, N, X, m, k)
      <4> HIDE DEF m, k
      <4> QED BY <1>3, <1>7, <2>3, <3>1 DEF Holds
    <3>3. Len(r.list) # 1 BY <2>1, <2>5
    <3> HIDE DEF m, k
    <3>4. Chain(r, memory, t, B, N, X) BY <1>2, <1>4, <1>5, <2>1, <3>2, <3>3, Zenon DEF Chain
    <3> QED BY <2>2, <3>4 DEF t
  <2> QED BY <2>4, <2>5
<1>10. CASE q.wPayloadSize # 0
  <2> DEFINE l == Len(q.list)
  <2>1. b \in AllBuffers \ Range(q.list) BY <1>10 DEF AllBuffers
  <2>2. /\ r.list = Append(q.list, b) /\ r.lens = q.lens
        /\ r.wPayloadSize = q.wPayloadSize /\ r.HeaderInfo = q.HeaderInfo
    BY <1>10, <2>1, NodeIs
  <2>3. /\ r.list \in Seq(AllBuffers) /\ Len(r.list) = l + 1
        /\ r.list[1] = HeadBuffer
        /\ \A i \in 1 .. l : r.list[i] = q.list[i]
        /\ \A i, j \in 1 .. Len(r.list) : r.list[i] = r.list[j] => i = j
    <3> DEFINE o == q.list
    <3>1. /\ o \in Seq(AllBuffers) /\ b \in AllBuffers \ Range(o) /\ Len(o) >= 1 /\ o[1] = HeadBuffer
          /\ \A i, j \in 1 .. Len(o) : o[i] = o[j] => i = j
      BY <1>7, <2>1
    <3> HIDE DEF o, HeadBuffer
    <3>2. /\ Append(o, b) \in Seq(AllBuffers) /\ Len(Append(o, b)) = Len(o) + 1
          /\ Append(o, b)[1] = HeadBuffer
          /\ \A i \in 1 .. Len(o) : Append(o, b)[i] = o[i]
          /\ \A i, j \in 1 .. Len(Append(o, b)) : Append(o, b)[i] = Append(o, b)[j] => i = j
      BY <3>1, NewNodeIs
    <3> QED BY <2>2, <3>2 DEF o
  <2>4. l \in Nat /\ l >= 1 BY <1>7
  <2>5. ListOK(r) BY <2>3, <2>4 DEF ListOK
  <2>6. Held(r) = 1 .. l BY <1>10, <2>2, <2>3, <2>4 DEF Held
  <2>7. \A i \in Held(r) : Segment_of(memory[r.list[i]], B, N, m) BY <1>7, <2>3, <2>6
  <2>8. Counts(B, m) => Filled(r, memory, B, X, m, k, Len(r.list) - 1)
    <3> SUFFICES ASSUME Counts(B, m) PROVE Filled(r, memory, B, X, m, k, Len(r.list) - 1)
      OBVIOUS
    <3>1. Filled(q, memory, B, X, m, k, l) BY <1>7
    <3>2. Len(r.list) - 1 = l BY <2>3, <2>4
    <3>3. Filled(r, memory, B, X, m, k, l) BY <2>2, <2>3, <3>1, Zenon DEF Filled
    <3> QED BY <3>2, <3>3
  <2>9. Len(r.list) # 1 BY <2>3, <2>4
  <2>10. r.HeaderInfo = B[m].hdr BY <1>7, <2>2
  <2> HIDE DEF m, k
  <2>11. Holds(r, memory, B, N, X, m, k) BY <1>3, <2>7, <2>8, <2>10 DEF Holds
  <2>12. Chain(r, memory, t, B, N, X) BY <1>2, <1>4, <1>5, <2>9, <2>11, Zenon DEF Chain
  <2> QED BY <2>5, <2>12 DEF t
<1> QED BY <1>9, <1>10

-----------------------------------------------------------------------------
(***************************************************************************)
(* What is put together.                                                   *)
(***************************************************************************)
LEMMA Least ==
  ASSUME NEW T \in SUBSET Nat, T # {}
  PROVE  \E x \in T : \A y \in T : x <= y
<1> DEFINE R == OpToRel(<, Nat)
<1>1. IsWellFoundedOn(R, Nat) BY NatLessThanWellFounded
<1>2. \A x, y \in Nat : x < y => <<x, y>> \in R BY DEF OpToRel
<1> HIDE DEF R
<1>3. PICK x \in T : \A y \in T : <<y, x>> \notin R
  <2>1. T \subseteq Nat OBVIOUS
  <2> QED BY <1>1, <2>1, WFMin, Zenon
<1>4. ASSUME NEW y \in T PROVE x <= y
  <2>1. x \in Nat /\ y \in Nat /\ <<y, x>> \notin R BY <1>3
  <2>2. ~(y < x) BY <1>2, <2>1
  <2> QED BY <2>1, <2>2
<1> QED BY <1>4

Payloads(q, memory, n) == [i \in 1 .. n |-> Payload(q.list[i], q.lens[q.list[i]], memory)]
Copy(q, bytes) == [i \in 1 .. DataLength(q) |-> IF i <= Len(bytes) THEN bytes[i] ELSE Unset]

\* The buffers up to the first without payload are copied.
LEMMA ExtractUpTo ==
  ASSUME NEW q, q.list \in Seq(AllBuffers), NEW memory
  PROVE  \E n \in 0 .. Len(q.list) :
           /\ Extract(q, memory) = Copy(q, FlattenSeq(Payloads(q, memory, n)))
           /\ n < Len(q.list) => q.lens[q.list[n + 1]] = 0
           /\ \A i \in 1 .. n : q.lens[q.list[i]] # 0
<1> DEFINE l == Len(q.list)
           empty == {i \in DOMAIN q.list : q.lens[q.list[i]] = 0}
           last == IF empty = {} THEN l
                   ELSE (CHOOSE i \in empty : \A j \in empty : i <= j) - 1
<1>1. Extract(q, memory) = Copy(q, FlattenSeq(Payloads(q, memory, last)))
  BY DEF Extract, Copy, Payloads
<1> DEFINE gaps == {i \in 1 .. l : q.lens[q.list[i]] = 0}
<1>2. l \in Nat /\ empty = gaps
  OBVIOUS
<1> QED
  <2>1. empty = gaps BY <1>2
  <2>2. CASE gaps = {}
    <3>1. last = l BY <2>1, <2>2
    <3>2. \A i \in 1 .. l : q.lens[q.list[i]] # 0 BY <2>2
    <3>3. l \in 0 .. l /\ ~(l < l) BY <1>2
    <3> HIDE DEF last, empty, gaps
    <3> QED BY <1>1, <3>1, <3>2, <3>3
  <2>3. CASE gaps # {}
    <3> DEFINE first == CHOOSE i \in gaps : \A j \in gaps : i <= j
    <3>1. gaps \in SUBSET Nat OBVIOUS
    <3>2. first \in gaps /\ \A j \in gaps : first <= j
      <4> HIDE DEF gaps
      <4>1. \E x \in gaps : \A y \in gaps : x <= y BY <2>3, <3>1, Least
      <4> QED BY <4>1
    <3>3. last = first - 1
      <4> HIDE DEF gaps
      <4> QED BY <2>1, <2>3
    <3> HIDE DEF first, last, empty
    <3>4. first \in 1 .. l /\ q.lens[q.list[first]] = 0 BY <3>2
    <3>5. \A j \in 1 .. l : q.lens[q.list[j]] = 0 => first <= j BY <3>2
    <3>6. last \in 0 .. l /\ last + 1 = first BY <1>2, <3>3, <3>4
    <3>7. \A i \in 1 .. last : q.lens[q.list[i]] # 0
      BY <1>2, <3>4, <3>5, <3>6
    <3> QED BY <1>1, <3>4, <3>6, <3>7
  <2> QED BY <2>2, <2>3

\* The bytes of message m, and those nothing was written to
BytesOf(m) == {x \in SomeByte : x[1] \in {0, m}}

LEMMA PayloadOf ==
  ASSUME NEW B, NEW N, ControlOK(B, N), NEW m, NEW b, NEW n \in Nat, NEW memory,
         Segment_of(memory[b], B, N, m)
  PROVE  /\ Payload(b, n, memory) \in Seq(BytesOf(m))
         /\ n = Len(memory[b].bytes) => Payload(b, n, memory) = memory[b].bytes
<1> DEFINE z == memory[b].bytes
           k == memory[b].seg
           p == memory[b]
<1>1. /\ m \in 1 .. Len(B) /\ k \in Nat /\ B[m].segs[k] \in Nat /\ z = Bytes(m, k, B[m].segs[k])
      /\ m \in Nat
  <2>1. Sent(p, B, N) /\ p.msg = m BY DEF Segment_of
  <2> HIDE DEF p
  <2>2. p.msg \in 1 .. Len(B) /\ p.seg \in 1 .. Len(B[p.msg].segs) /\ p.seg \in Nat
        /\ p.bytes = Bytes(p.msg, p.seg, B[p.msg].segs[p.seg])
    BY <2>1, SentLen, SentIs
  <2>3. B[p.msg].segs \in Seq(Nat) /\ p.msg \in Nat BY <2>2, ShapeIs
  <2>4. B[p.msg].segs[p.seg] \in Nat BY <2>2, <2>3
  <2>5. p.msg = m BY <2>1
  <2>6. /\ m \in 1 .. Len(B) /\ p.seg \in Nat /\ B[m].segs[p.seg] \in Nat
        /\ p.bytes = Bytes(m, p.seg, B[m].segs[p.seg]) /\ m \in Nat
    BY <2>2, <2>3, <2>4, <2>5, Zenon
  <2> QED BY <2>6 DEF p
<1> DEFINE c == B[m].segs[k]
<1>2. k \in Nat /\ c \in Nat /\ z = Bytes(m, k, c) /\ m \in Nat BY <1>1
<1>3. Payload(b, n, memory) = [i \in 1 .. n |-> IF i <= Len(z) THEN z[i] ELSE Unset]
  BY DEF Payload
<1> HIDE DEF z, k, c
<1>4. Len(z) = c /\ z \in Seq(SomeByte) /\ \A i \in 1 .. c : z[i] = <<m, k, i>>
  BY <1>2, BytesAre
<1>5. Unset \in BytesOf(m) BY DEF Unset, BytesOf, SomeByte
<1>6. \A i \in 1 .. c : <<m, k, i>> \in BytesOf(m) BY <1>2 DEF BytesOf, SomeByte
<1>7. [i \in 1 .. n |-> IF i <= Len(z) THEN z[i] ELSE Unset] \in Seq(BytesOf(m))
  <2>1. \A i \in 1 .. n : (IF i <= Len(z) THEN z[i] ELSE Unset) \in BytesOf(m)
    BY <1>2, <1>4, <1>5, <1>6
  <2> HIDE DEF Unset, BytesOf
  <2> QED BY <2>1
<1>8. n = Len(z) => [i \in 1 .. n |-> IF i <= Len(z) THEN z[i] ELSE Unset] = z
  <2> HIDE DEF Unset
  <2> QED BY <1>4
<1> QED BY <1>3, <1>7, <1>8 DEF z

(* Whatever is delivered has bytes of one message only. *)
LEMMA ExtractOf ==
  ASSUME NEW B, NEW N, NEW X, ControlOK(B, N), NEW q \in ChainType, NEW memory, NEW p,
         Full(q, memory, B, N, X, p)
  PROVE  /\ \A j \in DOMAIN Extract(q, memory) : Extract(q, memory)[j][1] \in {0, p.msg}
         /\ DataLength(q) \in Int /\ (DataLength(q) >= 0 => Extract(q, memory) \in Seq(SomeByte))
<1> DEFINE m == p.msg
           l == Len(q.list)
<1>1. q.list \in Seq(AllBuffers) /\ l \in Nat /\ q.lens \in [AllBuffers -> Nat]
  <2>1. q.list \in Seq(AllBuffers) /\ q.lens \in [AllBuffers -> Nat] BY DEF ChainType
  <2> QED BY <2>1
<1>2. \A i \in 1 .. l : Segment_of(memory[q.list[i]], B, N, m) BY DEF Full
<1>3. PICK n \in 0 .. l : Extract(q, memory) = Copy(q, FlattenSeq(Payloads(q, memory, n)))
  BY <1>1, ExtractUpTo
<1> HIDE DEF m, l
<1> DEFINE f == Payloads(q, memory, n)
           bytes == FlattenSeq(f)
<1>4. f \in Seq(Seq(BytesOf(m)))
  <2>1. ASSUME NEW i \in 1 .. n
        PROVE  Payload(q.list[i], q.lens[q.list[i]], memory) \in Seq(BytesOf(m))
    <3>1. i \in 1 .. l BY <1>1, <1>3
    <3>2. q.list[i] \in AllBuffers BY <1>1, <3>1 DEF l
    <3>3. q.lens[q.list[i]] \in Nat /\ Segment_of(memory[q.list[i]], B, N, m) BY <1>1, <1>2, <3>1, <3>2
    <3> QED BY <3>3, PayloadOf
  <2>2. n \in Nat BY <1>1, <1>3
  <2> HIDE DEF BytesOf
  <2> QED BY <2>1, <2>2 DEF Payloads
<1>5. bytes \in Seq(BytesOf(m))
  <2> HIDE DEF f
  <2> QED BY <1>4, FlattenSeqs
<1> HIDE DEF bytes
<1>6. Extract(q, memory) = [i \in 1 .. DataLength(q) |-> IF i <= Len(bytes) THEN bytes[i] ELSE Unset]
  BY <1>3 DEF Copy, bytes
<1>7. ASSUME NEW j \in 1 .. DataLength(q)
      PROVE  (IF j <= Len(bytes) THEN bytes[j] ELSE Unset)[1] \in {0, m}
  <2>1. CASE j <= Len(bytes)
    <3>1. j \in Int /\ j >= 1 OBVIOUS
    <3>2. j \in 1 .. Len(bytes) BY <1>5, <2>1, <3>1
    <3>3. bytes[j] \in BytesOf(m) BY <1>5, <3>2
    <3> QED BY <2>1, <3>3 DEF BytesOf
  <2>2. CASE ~(j <= Len(bytes)) BY <2>2 DEF Unset
  <2> QED BY <2>1, <2>2
<1>8. \A j \in DOMAIN Extract(q, memory) : Extract(q, memory)[j][1] \in {0, m}
  <2> DEFINE e(i) == IF i <= Len(bytes) THEN bytes[i] ELSE Unset
  <2>1. DOMAIN Extract(q, memory) = 1 .. DataLength(q) BY <1>6
  <2>2. \A j \in 1 .. DataLength(q) : Extract(q, memory)[j] = e(j) BY <1>6
  <2> HIDE DEF e
  <2>3. \A j \in 1 .. DataLength(q) : e(j)[1] \in {0, m} BY <1>7 DEF e
  <2> QED BY <2>1, <2>2, <2>3
<1>9. DataLength(q) \in Int
  <2>1. q.wPayloadSize \in Int BY SizeFact DEF ChainType
  <2>2. (l * HEADER_LEN) % SizeLimit \in Int BY <1>1, SizeFact
  <2> QED BY <2>1, <2>2 DEF DataLength, l
<1>10. ASSUME DataLength(q) >= 0 PROVE Extract(q, memory) \in Seq(SomeByte)
  <2> DEFINE n2 == DataLength(q)
             e(i) == IF i <= Len(bytes) THEN bytes[i] ELSE Unset
  <2>1. n2 \in Nat BY <1>9, <1>10
  <2>2. Extract(q, memory) = [i \in 1 .. n2 |-> e(i)] BY <1>6
  <2>3. ASSUME NEW i \in 1 .. n2 PROVE e(i) \in SomeByte
    <3>1. CASE i <= Len(bytes)
      <4>1. i \in 1 .. Len(bytes) BY <1>5, <2>1, <3>1
      <4>2. bytes[i] \in BytesOf(m) BY <1>5, <4>1
      <4> QED BY <3>1, <4>2 DEF BytesOf
    <3>2. CASE ~(i <= Len(bytes))
      <4>1. Unset \in SomeByte BY DEF Unset, SomeByte
      <4> QED BY <3>2, <4>1
    <3> QED BY <3>1, <3>2
  <2> HIDE DEF n2, e
  <2>4. [i \in 1 .. n2 |-> e(i)] \in Seq(SomeByte) BY <2>1, <2>3
  <2> QED BY <2>2, <2>4
<1> QED BY <1>8, <1>9, <1>10 DEF m

(* Of a message that counts it is the segments received, one after the other. *)
LEMMA ExtractIs ==
  ASSUME NEW B, NEW N, NEW X, ControlOK(B, N), NEW q \in ChainType, NEW memory, NEW p,
         Full(q, memory, B, N, X, p), Sent(p, B, N), ~p.pbf, Counts(B, p.msg)
  PROVE  /\ DataLength(q) \in Nat /\ p.seg = Len(B[p.msg].segs)
         /\ Len(q.list) <= p.seg /\ (Len(q.list) = p.seg \/ p.msg \in X)
         /\ Extract(q, memory) = Part(B[p.msg].segs, p.msg, p.seg - Len(q.list), Len(q.list))
<1> DEFINE m == p.msg
           k == p.seg
           l == Len(q.list)
           g == B[m].segs
           j == k - l
<1>1. /\ q.list \in Seq(AllBuffers) /\ l \in Nat /\ q.lens \in [AllBuffers -> Nat]
      /\ l >= 1 /\ q.wPayloadSize \in 0 .. SizeLimit - 1
  <2>1. q.list \in Seq(AllBuffers) /\ q.lens \in [AllBuffers -> Nat]
        /\ q.wPayloadSize \in 0 .. SizeLimit - 1
    BY DEF ChainType
  <2> QED BY <2>1 DEF Full
<1>2. \A i \in 1 .. l : Segment_of(memory[q.list[i]], B, N, m) BY DEF Full
<1>3. m \in 1 .. Len(B) /\ k \in 1 .. Len(g) /\ k \in Nat BY SentLen
<1>4. g \in Seq(Nat) /\ Len(g) \in Nat /\ m \in Nat BY <1>3, ShapeIs
<1>5. k = Len(g)
  <2>1. p.pbf = (p.seg < Len(B[p.msg].segs)) BY SentIs
  <2>2. ~(k < Len(g)) BY <2>1, Zenon
  <2> HIDE DEF k, g
  <2> QED BY <1>3, <1>4, <2>2
<1>6. Filled(q, memory, B, X, m, k, l) BY DEF Full
<1>7. Counts(B, m) OBVIOUS
<1>20. \A i \in 1 .. Len(g) - 1 : g[i] # 0 BY <1>7 DEF Counts
<1> HIDE DEF m, k, l
<1>8. /\ l <= k /\ (l = k \/ m \in X)
      /\ \A i \in 1 .. l : memory[q.list[i]] = SegmentOf(m, B[m], j + i) /\ q.lens[q.list[i]] = g[j + i]
      /\ q.wPayloadSize = Len(Part(g, m, j, l)) + l * HEADER_LEN
  BY <1>6 DEF Filled
<1>9. Part(g, m, j, l) \in Seq(SomeByte) /\ Len(Part(g, m, j, l)) \in Nat
  <2>1. j \in Nat /\ j + l <= Len(g) BY <1>1, <1>3, <1>4, <1>5, <1>8
  <2> HIDE DEF j, g
  <2>2. Part(g, m, j, l) \in Seq(SomeByte) BY <1>1, <1>4, <2>1, PartIs
  <2> QED BY <2>2
<1>10. DataLength(q) = Len(Part(g, m, j, l))
  <2> DEFINE z == Len(Part(g, m, j, l))
             w == q.wPayloadSize
  <2>1. z \in Nat /\ w = z + l * HEADER_LEN /\ w \in 0 .. SizeLimit - 1 /\ l \in Nat
    BY <1>1, <1>8, <1>9
  <2>2. DataLength(q) = w - ((l * HEADER_LEN) % SizeLimit) BY DEF DataLength, l
  <2> HIDE DEF z, w
  <2>3. (l * HEADER_LEN) % SizeLimit = l * HEADER_LEN BY <2>1, SizeFact
  <2>4. DataLength(q) = z BY <2>1, <2>2, <2>3
  <2> QED BY <2>4 DEF z
<1>11. PICK n \in 0 .. l :
         /\ Extract(q, memory) = Copy(q, FlattenSeq(Payloads(q, memory, n)))
         /\ n < l => q.lens[q.list[n + 1]] = 0
  BY <1>1, ExtractUpTo DEF l
<1>12. j \in Nat /\ j + l = Len(g) /\ j + l = k BY <1>1, <1>3, <1>4, <1>5, <1>8
<1> HIDE DEF j, g
<1>13. n = l \/ (n = l - 1 /\ g[Len(g)] = 0)
  <2> SUFFICES ASSUME n # l PROVE n = l - 1 /\ g[Len(g)] = 0 OBVIOUS
  <2>1. n < l /\ n + 1 \in 1 .. l BY <1>1, <1>11
  <2>2. g[j + (n + 1)] = 0 BY <1>8, <1>11, <2>1
  <2>3. j + (n + 1) \in 1 .. Len(g) BY <1>1, <1>12, <2>1
  <2>4. j + (n + 1) = Len(g) BY <1>20, <1>4, <2>2, <2>3
  <2> QED BY <1>1, <1>11, <1>12, <2>2, <2>4
<1>14. Payloads(q, memory, n) = Segs(g, m, j, n)
  <2>1. ASSUME NEW i \in 1 .. n
        PROVE  Payload(q.list[i], q.lens[q.list[i]], memory) = Bytes(m, j + i, g[j + i])
    <3>1. i \in 1 .. l BY <1>1, <1>11
    <3>2. memory[q.list[i]] = SegmentOf(m, B[m], j + i) /\ q.lens[q.list[i]] = g[j + i]
          /\ Segment_of(memory[q.list[i]], B, N, m)
      BY <1>2, <1>8, <3>1
    <3>3. j + i \in 1 .. Len(g) /\ j + i \in Nat BY <1>1, <1>12, <3>1
    <3>4. g[j + i] \in Nat BY <1>4, <3>3
    <3> DEFINE b == q.list[i]
               y == g[j + i]
               a == j + i
               z == memory[b].bytes
    <3>5. z = Bytes(m, a, y)
      <4> HIDE DEF a
      <4>1. SegmentOf(m, B[m], a).bytes = Bytes(m, a, B[m].segs[a]) BY DEF SegmentOf, Segment
      <4> QED BY <3>2, <4>1, Zenon DEF g, a
    <3>6. Segment_of(memory[b], B, N, m) /\ y \in Nat /\ a \in Nat BY <3>2, <3>3, <3>4
    <3>7. Len(z) = y
      <4> HIDE DEF z, a, y
      <4> QED BY <1>4, <3>5, <3>6, BytesAre
    <3>8. y = Len(memory[b].bytes) => Payload(b, y, memory) = memory[b].bytes
      <4>1. \A x \in Nat : x = Len(memory[b].bytes) => Payload(b, x, memory) = memory[b].bytes
        <5> HIDE DEF b, y
        <5> QED BY <3>6, PayloadOf
      <4> HIDE DEF b, y
      <4> QED BY <3>6, <4>1
    <3>9. Payload(b, y, memory) = z BY <3>7, <3>8
    <3>10. q.lens[q.list[i]] = y BY <3>2
    <3> HIDE DEF y, z, a
    <3>11. Payload(b, q.lens[q.list[i]], memory) = Bytes(m, a, y) BY <3>5, <3>9, <3>10, Zenon
    <3> QED BY <3>11, Zenon DEF b, a, y
  <2> QED BY <2>1 DEF Payloads, Segs
<1>15. FlattenSeq(Payloads(q, memory, n)) = Part(g, m, j, l)
  <2>1. FlattenSeq(Payloads(q, memory, n)) = Part(g, m, j, n) BY <1>14, Zenon DEF Part
  <2>2. CASE n = l BY <2>1, <2>2
  <2>3. CASE n = l - 1 /\ g[Len(g)] = 0
    <3>1. n \in Nat /\ j + n + 1 <= Len(g) /\ j + n + 1 = Len(g) /\ n + 1 = l
      BY <1>1, <1>12, <2>3
    <3>2. Part(g, m, j, n) \in Seq(SomeByte)
          /\ Part(g, m, j, n + 1) = Part(g, m, j, n) \o Bytes(m, j + n + 1, g[j + n + 1])
      BY <1>4, <1>12, <3>1, PartNext, ZenonT(30)
    <3>3. Bytes(m, j + n + 1, g[j + n + 1]) = <<>> BY <2>3, <3>1 DEF Bytes
    <3>4. Part(g, m, j, n) \o <<>> = Part(g, m, j, n) BY <3>2
    <3>5. Part(g, m, j, l) = Part(g, m, j, n) BY <3>1, <3>2, <3>3, <3>4
    <3> QED BY <2>1, <3>5
  <2> QED BY <1>13, <2>2, <2>3
<1>16. Extract(q, memory) = Part(g, m, j, l)
  <2> DEFINE z == Part(g, m, j, l)
  <2>1. Extract(q, memory) = [i \in 1 .. Len(z) |-> IF i <= Len(z) THEN z[i] ELSE Unset]
    BY <1>10, <1>11, <1>15 DEF Copy
  <2>2. z \in Seq(SomeByte) BY <1>9
  <2> HIDE DEF z, Unset
  <2>3. [i \in 1 .. Len(z) |-> IF i <= Len(z) THEN z[i] ELSE Unset] = z BY <2>2
  <2> QED BY <2>1, <2>3 DEF z
<1>17. Extract(q, memory) = Part(g, m, k - l, l) BY <1>16 DEF j
<1> QED BY <1>5, <1>8, <1>9, <1>10, <1>17 DEF m, k, l, g

LEMMA SuffixIs ==
  ASSUME NEW T, NEW u \in Seq(T), NEW s \in Seq(T)
  PROVE  IsSuffix(s, u \o s)
<1> DEFINE t == u \o s
           n == Len(s)
           k == Len(u)
           rs == Reverse(s)
           rt == Reverse(t)
<1>1. /\ n \in Nat /\ k \in Nat /\ Len(t) = k + n
      /\ \A i \in 1 .. n : t[k + i] = s[i]
  OBVIOUS
<1>2. rs = [i \in 1 .. n |-> s[(n - i) + 1]] /\ rt = [i \in 1 .. Len(t) |-> t[(Len(t) - i) + 1]]
  BY DEF Reverse
<1> HIDE DEF t
<1>3. Len(rs) = n /\ Len(rt) = Len(t) BY <1>1, <1>2
<1>4. ASSUME NEW i \in 1 .. n PROVE rs[i] = rt[i]
  <2>1. rs[i] = s[(n - i) + 1] BY <1>2
  <2>2. i \in 1 .. Len(t) BY <1>1
  <2>3. rt[i] = t[(Len(t) - i) + 1] BY <1>2, <2>2
  <2>4. (Len(t) - i) + 1 = k + ((n - i) + 1) /\ (n - i) + 1 \in 1 .. n BY <1>1
  <2> QED BY <1>1, <2>1, <2>3, <2>4
<1> HIDE DEF rs, rt, n, k
<1>5. SubSeq(rs, 1, n) = SubSeq(rt, 1, n)
  <2>1. \A i \in 1 .. n : rs[i] = rt[i] BY <1>4
  <2>2. SubSeq(rs, 1, n) = [i \in 1 .. n |-> rs[i]] /\ SubSeq(rt, 1, n) = [i \in 1 .. n |-> rt[i]]
    BY <1>1 DEF SubSeq
  <2>3. [i \in 1 .. n |-> rs[i]] = [i \in 1 .. n |-> rt[i]] BY <2>1
  <2> QED BY <2>2, <2>3
<1>6. Len(rs) <= Len(rt) BY <1>1, <1>3
<1>7. IsPrefix(rs, rt) BY <1>3, <1>5, <1>6 DEF IsPrefix
<1> QED BY <1>7 DEF IsSuffix, rs, rt, t

\* The last byte of a part that ends with a segment that has any
LEMMA PartHas ==
  ASSUME NEW g \in Seq(Nat), NEW m \in Nat, NEW j \in Nat, NEW n \in Nat, n > 0, j + n <= Len(g),
         g[j + n] # 0
  PROVE  HasByte(Part(g, m, j, n), m)
<1> DEFINE y == n - 1
           c == g[j + n]
           a == Part(g, m, j, y)
           z == Bytes(m, j + n, c)
           t == Part(g, m, j, n)
<1>1. y \in Nat /\ j + y + 1 <= Len(g) /\ y + 1 = n /\ j + y + 1 = j + n /\ c \in Nat /\ j + n \in Nat
  OBVIOUS
<1>2. a \in Seq(SomeByte) /\ t = a \o z
  <2>1. /\ Part(g, m, j, y) \in Seq(SomeByte)
        /\ Part(g, m, j, y + 1) = Part(g, m, j, y) \o Bytes(m, j + y + 1, g[j + y + 1])
    <3> HIDE DEF y
    <3> QED BY <1>1, PartNext, SMTT(30)
  <2> HIDE DEF y
  <2> QED BY <1>1, <2>1
<1>3. z \in Seq(SomeByte) /\ Len(z) = c /\ \A i \in 1 .. c : z[i] = <<m, j + n, i>>
  <2> DEFINE x == j + n
  <2> HIDE DEF c, x
  <2> QED BY <1>1, BytesAre DEF x
<1>4. c >= 1 BY <1>1
<1> HIDE DEF y, c, a, z, t
<1>5. Len(a) + c \in 1 .. Len(t) /\ t[Len(a) + c] = z[c] /\ DOMAIN t = 1 .. Len(t)
  BY <1>1, <1>2, <1>3, <1>4
<1>6. z[c] = <<m, j + n, c>> BY <1>1, <1>3, <1>4
<1>7. t[Len(a) + c][1] = m BY <1>5, <1>6
<1> QED BY <1>5, <1>7 DEF t, HasByte

(* The last segment ends its message. *)
LEMMA LastSegment ==
  ASSUME NEW s \in Seq(SomePacket), s # <<>>, NEW B, NEW N, NEW X, ControlOK(B, N),
         StreamOK(s, B, N, X), IsSeg(s[1]), ~s[1].pbf
  PROVE  /\ Sent(s[1], B, N) /\ s[1].msg \in 1 .. Len(B)
         /\ s[1].seg = Len(B[s[1].msg].segs) /\ N[s[1].msg] = s[1].seg
         /\ \A i \in 1 .. Len(Tail(s)) : ~SegOf(Tail(s)[i], s[1].msg)
<1> DEFINE t == Tail(s)
           p == s[1]
           m == p.msg
<1>1. Len(t) = Len(s) - 1 /\ Len(s) \in Nat /\ Len(s) >= 1 /\ 1 \in 1 .. Len(s)
      /\ \A i \in 1 .. Len(t) : t[i] = s[i + 1] /\ i + 1 \in 1 .. Len(s) /\ 1 < i + 1
  OBVIOUS
<1> HIDE DEF t, p
<1>2. Sent(p, B, N) /\ IsSeg(p) /\ ~p.pbf BY <1>1 DEF StreamOK, p
<1>3. m \in 1 .. Len(B) /\ p.seg \in 1 .. N[m] /\ p.pbf = (p.seg < Len(B[m].segs))
  BY <1>2, SentIs DEF Sent
<1>4. N[m] \in 1 .. Len(B[m].segs) /\ N[m] \in Nat /\ Len(B[m].segs) \in Nat BY <1>3, ShapeIs
<1>5. ~(p.seg < Len(B[m].segs)) BY <1>2, <1>3, Zenon
<1>6. p.seg = N[m] /\ N[m] = Len(B[m].segs) BY <1>3, <1>4, <1>5
<1>7. ASSUME NEW i \in 1 .. Len(t), SegOf(t[i], m) PROVE FALSE
  <2>1. i + 1 \in 1 .. Len(s) /\ t[i] = s[i + 1] /\ 1 < i + 1 BY <1>1
  <2>2. s[i + 1].msg = m /\ IsSeg(s[i + 1]) BY <1>7, <2>1 DEF SegOf, IsSeg
  <2>3. p.seg < s[i + 1].seg
    BY <1>1, <1>2, <2>1, <2>2 DEF StreamOK, InOrder, p
  <2>4. s[i + 1].seg \in 1 .. N[m]
    <3>1. Sent(s[i + 1], B, N) BY <2>1, <2>2 DEF StreamOK
    <3> QED BY <2>2, <3>1 DEF Sent
  <2> QED BY <1>4, <1>6, <2>3, <2>4
<1>8. \A i \in 1 .. Len(t) : ~SegOf(t[i], m) BY <1>7
<1> QED BY <1>2, <1>3, <1>6, <1>8 DEF t, p

Delivery == [hdr : Headers \cup {NoHeader}, bytes : Seq(SomeByte)]

(* Another delivery adds to those with bytes of message m, if it has any. *)
LEMMA HasAppend ==
  ASSUME NEW d \in Seq(Delivery), NEW e \in Delivery, NEW m
  PROVE  /\ Append(d, e) \in Seq(Delivery) /\ Append(d, e)[Len(d) + 1] = e
         /\ \A i \in Has(d, m) : i \in Has(Append(d, e), m) /\ Append(d, e)[i] = d[i]
         /\ \A i \in Has(Append(d, e), m) :
              \/ i \in Has(d, m) /\ Append(d, e)[i] = d[i]
              \/ i = Len(d) + 1 /\ HasByte(e.bytes, m)
         /\ HasByte(e.bytes, m) => Len(d) + 1 \in Has(Append(d, e), m)
<1> DEFINE t == Append(d, e)
<1>1. /\ t \in Seq(Delivery) /\ t[Len(d) + 1] = e /\ DOMAIN t = 1 .. Len(d) + 1
      /\ DOMAIN d = 1 .. Len(d) /\ Len(d) \in Nat
      /\ \A i \in 1 .. Len(d) : t[i] = d[i]
  OBVIOUS
<1> HIDE DEF t
<1>2. \A i \in DOMAIN t : i \in DOMAIN d \/ i = Len(d) + 1 BY <1>1
<1>3. \A i \in DOMAIN d : i \in DOMAIN t /\ t[i] = d[i] BY <1>1
<1>4. Len(d) + 1 \in DOMAIN t BY <1>1
<1>5. /\ \A i \in Has(d, m) : i \in Has(t, m) /\ t[i] = d[i]
      /\ \A i \in Has(t, m) :
           \/ i \in Has(d, m) /\ t[i] = d[i]
           \/ i = Len(d) + 1 /\ HasByte(e.bytes, m)
      /\ HasByte(e.bytes, m) => Len(d) + 1 \in Has(t, m)
  BY <1>1, <1>2, <1>3, <1>4, Zenon DEF Has
<1> QED BY <1>1, <1>5 DEF t

Handed(d, q, memory) ==
  IF DataLength(q) >= 0
    THEN Append(d, [hdr |-> q.HeaderInfo, bytes |-> Extract(q, memory)])
    ELSE d

LEMMA DeliverStep ==
  ASSUME NEW B, NEW N, NEW X, ControlOK(B, N), NEW q \in ChainType, NEW memory,
         NEW s \in Seq(SomePacket), s # <<>>, StreamOK(s, B, N, X), IsSeg(s[1]), ~s[1].pbf,
         Full(q, memory, B, N, X, s[1]), NEW d \in Seq(Delivery), Deliveries(d, s, B, N, X)
  PROVE  /\ Handed(d, q, memory) \in Seq(Delivery)
         /\ Deliveries(Handed(d, q, memory), Tail(s), B, N, X)
<1> DEFINE p == s[1]
           m0 == p.msg
           g == B[m0].segs
           t == Tail(s)
           l == Len(q.list)
           e == [hdr |-> q.HeaderInfo, bytes |-> Extract(q, memory)]
           d2 == Handed(d, q, memory)
<1>1. /\ Sent(p, B, N) /\ m0 \in 1 .. Len(B) /\ p.seg = Len(g) /\ N[m0] = p.seg
      /\ \A i \in 1 .. Len(t) : ~SegOf(t[i], m0)
  BY LastSegment
<1>2. Len(t) = Len(s) - 1 /\ Len(s) \in Nat /\ 1 \in 1 .. Len(s)
      /\ (\A i \in 1 .. Len(t) : t[i] = s[i + 1] /\ i + 1 \in 1 .. Len(s))
      /\ \A j \in 1 .. Len(s) : j = 1 \/ (j - 1 \in 1 .. Len(t) /\ t[j - 1] = s[j])
  OBVIOUS
<1>3. SegOf(p, m0) BY DEF SegOf, IsSeg
<1>4. Full(q, memory, B, N, X, p) OBVIOUS
<1>5. ~p.pbf OBVIOUS
<1>6. Ends(d, s, B, N) /\ Over(d, s, B, N) /\ Known(d, B) /\ Right(d, B, X)
  BY DEF Deliveries
<1>7. q.HeaderInfo = B[m0].hdr /\ q.HeaderInfo \in Headers \cup {NoHeader}
  <2>1. q.HeaderInfo = p.hdr BY <1>4 DEF Full
  <2>2. p.hdr = B[m0].hdr BY <1>1, SentIs
  <2>3. q.HeaderInfo \in Headers \cup {NoHeader} BY DEF ChainType
  <2> QED BY <2>1, <2>2, <2>3
<1>8. l \in Nat /\ l >= 1
  <2>1. q.list \in Seq(AllBuffers) BY DEF ChainType
  <2> QED BY <1>4, <2>1 DEF Full
<1>9. /\ g \in Seq(Nat) /\ Len(g) \in Nat /\ Len(g) >= 1 /\ m0 \in Nat /\ m0 # 0
      /\ Len(B) \in Nat
  <2>1. Len(B) \in Nat BY DEF ControlOK
  <2>2. m0 # 0 BY <1>1, <2>1
  <2> QED BY <1>1, <2>1, <2>2, ShapeIs
<1> HIDE DEF p, t
<1>10. /\ \A j \in DOMAIN e.bytes : e.bytes[j][1] \in {0, m0}
       /\ DataLength(q) \in Int /\ (DataLength(q) >= 0 => e.bytes \in Seq(SomeByte))
  <2>1. e.bytes = Extract(q, memory) OBVIOUS
  <2>2. /\ \A j \in DOMAIN Extract(q, memory) : Extract(q, memory)[j][1] \in {0, m0}
        /\ DataLength(q) \in Int /\ (DataLength(q) >= 0 => Extract(q, memory) \in Seq(SomeByte))
    BY <1>4, ExtractOf
  <2> HIDE DEF e
  <2> QED BY <2>1, <2>2, Zenon
<1>11. e.hdr = B[m0].hdr /\ (DataLength(q) >= 0 => e \in Delivery)
  BY <1>7, <1>10 DEF Delivery
<1>12. d2 = IF DataLength(q) >= 0 THEN Append(d, e) ELSE d BY DEF Handed
<1> DEFINE j == p.seg - l
<1>13. Counts(B, m0) =>
         /\ DataLength(q) >= 0
         /\ l <= p.seg /\ (l = p.seg \/ m0 \in X)
         /\ e.bytes = Part(g, m0, j, l)
  <2> SUFFICES ASSUME Counts(B, m0)
               PROVE  /\ DataLength(q) >= 0
                      /\ l <= p.seg /\ (l = p.seg \/ m0 \in X)
                      /\ e.bytes = Part(g, m0, j, l)
    OBVIOUS
  <2>1. /\ DataLength(q) \in Nat
        /\ Len(q.list) <= p.seg /\ (Len(q.list) = p.seg \/ p.msg \in X)
        /\ Extract(q, memory) = Part(B[p.msg].segs, p.msg, p.seg - Len(q.list), Len(q.list))
    <3>1. Sent(p, B, N) BY <1>1
    <3> QED BY <1>4, <1>5, <3>1, ExtractIs
  <2>2. e.bytes = Extract(q, memory) OBVIOUS
  <2>3. DataLength(q) >= 0 BY <2>1
  <2> HIDE DEF e
  <2> QED BY <2>1, <2>2, <2>3
<1> HIDE DEF e, d2, m0, l
<1>14. d2 \in Seq(Delivery)
  <2>1. CASE DataLength(q) >= 0
    <3>1. e \in Delivery BY <1>11, <2>1
    <3>2. d2 = Append(d, e) BY <1>12, <2>1
    <3> QED BY <3>1, <3>2
  <2>2. CASE ~(DataLength(q) >= 0) BY <1>12, <2>2
  <2> QED BY <2>1, <2>2
<1>15. ASSUME NEW m \in Nat, m # 0, m # m0
       PROVE  /\ \A i \in Has(d, m) : i \in Has(d2, m)
              /\ \A i \in Has(d2, m) : i \in Has(d, m) /\ d2[i] = d[i]
  <2>1. CASE DataLength(q) >= 0
    <3>1. e \in Delivery /\ d2 = Append(d, e) BY <1>11, <1>12, <2>1
    <3>2. ~HasByte(e.bytes, m) BY <1>10, <1>15 DEF HasByte
    <3>3. /\ \A i \in Has(d, m) : i \in Has(Append(d, e), m) /\ Append(d, e)[i] = d[i]
          /\ \A i \in Has(Append(d, e), m) :
              \/ i \in Has(d, m) /\ Append(d, e)[i] = d[i]
              \/ i = Len(d) + 1 /\ HasByte(e.bytes, m)
      BY <3>1, HasAppend
    <3> QED BY <3>1, <3>2, <3>3, Zenon
  <2>2. CASE ~(DataLength(q) >= 0) BY <1>12, <2>2, Zenon
  <2> QED BY <2>1, <2>2
<1>16. Has(d, m0) = {} BY <1>1, <1>2, <1>3, <1>6 DEF Over, p
<1>17. ASSUME NEW i \in Has(d2, m0) PROVE i = Len(d) + 1 /\ d2[i] = e
  <2>1. CASE DataLength(q) >= 0
    <3>1. e \in Delivery /\ d2 = Append(d, e) BY <1>11, <1>12, <2>1
    <3>2. /\ Append(d, e)[Len(d) + 1] = e
          /\ \A y \in Has(Append(d, e), m0) : y \in Has(d, m0) \/ y = Len(d) + 1
      BY <3>1, HasAppend
    <3>3. i = Len(d) + 1 BY <1>16, <3>1, <3>2
    <3> QED BY <3>1, <3>2, <3>3
  <2>2. CASE ~(DataLength(q) >= 0)
    <3>1. d2 = d BY <1>12, <2>2
    <3> QED BY <1>16, <3>1
  <2> QED BY <2>1, <2>2
<1>18. Ends(d2, t, B, N)
  <2> SUFFICES ASSUME NEW m \in 1 .. Len(B), N[m] = Len(B[m].segs), Counts(B, m),
                      Last(B[m].segs) # 0
               PROVE  Has(d2, m) # {} \/ \E i \in 1 .. Len(t) : SegOf(t[i], m) /\ ~t[i].pbf
    BY DEF Ends
  <2>1. CASE m = m0
    <3>1. DataLength(q) >= 0 /\ l <= p.seg /\ e.bytes = Part(g, m0, j, l) BY <1>13, <2>1
    <3>2. j \in Nat /\ j + l = Len(g) /\ l > 0 BY <1>1, <1>8, <1>9, <3>1
    <3>3. g[j + l] # 0 BY <2>1, <3>2 DEF Last
    <3>4. HasByte(Part(g, m0, j, l), m0)
      <4>1. /\ g \in Seq(Nat) /\ m0 \in Nat /\ j \in Nat /\ l \in Nat /\ l > 0
            /\ j + l <= Len(g) /\ g[j + l] # 0
        BY <1>8, <1>9, <3>2, <3>3
      <4> HIDE DEF j, g
      <4> QED BY <4>1, PartHas
    <3>5. e \in Delivery /\ d2 = Append(d, e) BY <1>11, <1>12, <3>1
    <3>6. HasByte(e.bytes, m0) BY <3>1, <3>4, Zenon
    <3>7. Len(d) + 1 \in Has(Append(d, e), m0) BY <3>5, <3>6, HasAppend
    <3> QED BY <2>1, <3>5, <3>7
  <2>2. CASE m # m0
    <3>1. m \in Nat /\ m # 0 BY <1>9
    <3>2. Has(d, m) # {} \/ \E i \in 1 .. Len(s) : SegOf(s[i], m) /\ ~s[i].pbf
      BY <1>6 DEF Ends
    <3>3. CASE Has(d, m) # {} BY <1>15, <2>2, <3>1, <3>3
    <3>4. CASE \E i \in 1 .. Len(s) : SegOf(s[i], m) /\ ~s[i].pbf
      <4>1. PICK i \in 1 .. Len(s) : SegOf(s[i], m) /\ ~s[i].pbf BY <3>4
      <4>2. i # 1 BY <2>2, <4>1 DEF SegOf, p, m0
      <4>3. i - 1 \in 1 .. Len(t) /\ t[i - 1] = s[i] BY <1>2, <4>2
      <4>4. SegOf(t[i - 1], m) /\ ~t[i - 1].pbf BY <4>1, <4>3, Zenon
      <4> QED BY <4>3, <4>4
    <3> QED BY <3>2, <3>3, <3>4
  <2> QED BY <2>1, <2>2
<1>19. Over(d2, t, B, N)
  <2> SUFFICES ASSUME NEW m \in 1 .. Len(B), Has(d2, m) # {}
               PROVE  N[m] = Len(B[m].segs) /\ \A i \in 1 .. Len(t) : ~SegOf(t[i], m)
    BY DEF Over
  <2>1. CASE m = m0 BY <1>1, <2>1
  <2>2. CASE m # m0
    <3>1. m \in Nat /\ m # 0 BY <1>9
    <3>2. Has(d, m) # {} BY <1>15, <2>2, <3>1
    <3>3. N[m] = Len(B[m].segs) /\ \A i \in 1 .. Len(s) : ~SegOf(s[i], m) BY <1>6, <3>2 DEF Over
    <3> QED BY <1>2, <3>3
  <2> QED BY <2>1, <2>2
<1>20. Known(d2, B)
  <2> SUFFICES ASSUME NEW m \in Nat, m > Len(B), NEW i \in Has(d2, m) PROVE FALSE
    BY DEF Known
  <2>1. m # m0 /\ m # 0 BY <1>1, <1>9
  <2>2. i \in Has(d, m) BY <1>15, <2>1
  <2> QED BY <1>6, <2>2 DEF Known
<1>21. Right(d2, B, X)
  <2> SUFFICES ASSUME NEW m \in 1 .. Len(B), Counts(B, m), NEW i \in Has(d2, m)
               PROVE  /\ d2[i].hdr = B[m].hdr
                      /\ \A y \in Has(d2, m) : y = i
                      /\ d2[i].bytes = All(B, m) \/ (m \in X /\ IsSuffix(d2[i].bytes, All(B, m)))
    BY DEF Right
  <2>1. CASE m = m0
    <3>1. d2[i] = e /\ \A y \in Has(d2, m) : y = i BY <1>17, <2>1
    <3>2. d2[i].hdr = B[m].hdr BY <1>11, <2>1, <3>1
    <3>3. l <= p.seg /\ (l = p.seg \/ m0 \in X) /\ e.bytes = Part(g, m0, j, l) BY <1>13, <2>1
    <3>4. All(B, m) = Part(g, m0, 0, Len(g)) BY <2>1, Zenon DEF All
    <3>5. j \in Nat /\ j + l = Len(g) BY <1>1, <1>8, <1>9, <3>3
    <3>6. CASE l = p.seg
      <4>1. j = 0 /\ l = Len(g) BY <1>1, <1>8, <3>6
      <4>2. e.bytes = All(B, m)
        <5> HIDE DEF j, g
        <5> QED BY <3>3, <3>4, <4>1, Zenon
      <4> QED BY <3>1, <3>2, <4>2
    <3>7. CASE m0 \in X
      <4> HIDE DEF j, g
      <4>1. \A y \in Nat : j + y <= Len(g) =>
              Part(g, m0, 0, j + y) = Part(g, m0, 0, j) \o Part(g, m0, j, y)
        BY <1>9, <3>5, PartSplit
      <4>2. j + l <= Len(g) /\ 0 + j <= Len(g) BY <1>8, <1>9, <3>5
      <4>3. Part(g, m0, 0, Len(g)) = Part(g, m0, 0, j) \o Part(g, m0, j, l)
        BY <1>8, <3>5, <4>1, <4>2
      <4>4. Part(g, m0, 0, j) \in Seq(SomeByte) /\ Part(g, m0, j, l) \in Seq(SomeByte)
        BY <1>8, <1>9, <3>5, <4>2, PartIs
      <4>5. IsSuffix(Part(g, m0, j, l), Part(g, m0, 0, j) \o Part(g, m0, j, l))
        BY <4>4, SuffixIs
      <4>6. IsSuffix(e.bytes, All(B, m)) BY <3>3, <3>4, <4>3, <4>5, Zenon
      <4> QED BY <2>1, <3>1, <3>2, <3>7, <4>6
    <3> QED BY <3>3, <3>6, <3>7
  <2>2. CASE m # m0
    <3>1. m \in Nat /\ m # 0 BY <1>9
    <3>2. \A y \in Has(d2, m) : y \in Has(d, m) /\ d2[y] = d[y] BY <1>15, <2>2, <3>1
    <3>3. i \in Has(d, m) /\ d2[i] = d[i] BY <3>2
    <3>4. /\ d[i].hdr = B[m].hdr
          /\ \A y \in Has(d, m) : y = i
          /\ d[i].bytes = All(B, m) \/ (m \in X /\ IsSuffix(d[i].bytes, All(B, m)))
      BY <1>6, <3>3, Zenon DEF Right
    <3> QED BY <3>2, <3>3, <3>4, Zenon
  <2> QED BY <2>1, <2>2
<1>22. Deliveries(d2, t, B, N, X) BY <1>18, <1>19, <1>20, <1>21 DEF Deliveries
<1> QED BY <1>14, <1>22 DEF d2, t

-----------------------------------------------------------------------------
(***************************************************************************)
(* A packet is handled: r is the chain before, r2 the one after, s what is *)
(* still to be handled.                                                    *)
(***************************************************************************)
LEMMA TailIs ==
  ASSUME NEW s \in Seq(SomePacket), s # <<>>
  PROVE  /\ Tail(s) \in Seq(SomePacket) /\ s[1] \in SomePacket /\ 1 \in 1 .. Len(s)
         /\ Len(Tail(s)) = Len(s) - 1 /\ Len(s) \in Nat
         /\ \A i \in 1 .. Len(Tail(s)) : Tail(s)[i] = s[i + 1] /\ i + 1 \in 1 .. Len(s)
         /\ \A i \in 1 .. Len(s) : i = 1 \/ (i - 1 \in 1 .. Len(Tail(s)) /\ Tail(s)[i - 1] = s[i])
OBVIOUS

(* Nothing is delivered with a packet that is not the last of a message. *)
LEMMA DeliveriesRest ==
  ASSUME NEW s \in Seq(SomePacket), s # <<>>, NEW d, NEW B, NEW N, NEW X,
         Deliveries(d, s, B, N, X), ~IsSeg(s[1]) \/ s[1].pbf
  PROVE  Deliveries(d, Tail(s), B, N, X)
<1> DEFINE t == Tail(s)
<1>1. /\ \A i \in 1 .. Len(t) : t[i] = s[i + 1] /\ i + 1 \in 1 .. Len(s)
      /\ \A i \in 1 .. Len(s) : i = 1 \/ (i - 1 \in 1 .. Len(t) /\ t[i - 1] = s[i])
  BY TailIs
<1> HIDE DEF t
<1>2. Ends(d, t, B, N)
  <2>1. \A m \in 1 .. Len(B) : (\E i \in 1 .. Len(s) : SegOf(s[i], m) /\ ~s[i].pbf)
                                 => \E i \in 1 .. Len(t) : SegOf(t[i], m) /\ ~t[i].pbf
    <3> SUFFICES ASSUME NEW m \in 1 .. Len(B), NEW i \in 1 .. Len(s), SegOf(s[i], m), ~s[i].pbf
                 PROVE  \E j \in 1 .. Len(t) : SegOf(t[j], m) /\ ~t[j].pbf
      OBVIOUS
    <3>1. i # 1 BY DEF SegOf, IsSeg
    <3>2. i - 1 \in 1 .. Len(t) /\ t[i - 1] = s[i] BY <1>1, <3>1
    <3> QED BY <3>2
  <2>2. Ends(d, s, B, N) BY DEF Deliveries
  <2> QED BY <2>1, <2>2, Zenon DEF Ends
<1>3. Over(d, t, B, N)
  <2>1. Over(d, s, B, N) BY DEF Deliveries
  <2> SUFFICES ASSUME NEW m \in 1 .. Len(B), Has(d, m) # {}
               PROVE  N[m] = Len(B[m].segs) /\ \A i \in 1 .. Len(t) : ~SegOf(t[i], m)
    BY DEF Over
  <2>2. N[m] = Len(B[m].segs) /\ \A i \in 1 .. Len(s) : ~SegOf(s[i], m)
    BY <2>1 DEF Over
  <2>3. ASSUME NEW i \in 1 .. Len(t) PROVE ~SegOf(t[i], m)
    <3>1. i + 1 \in 1 .. Len(s) /\ t[i] = s[i + 1] BY <1>1
    <3>2. ~SegOf(s[i + 1], m) BY <2>2, <3>1
    <3> QED BY <3>1, <3>2, Zenon
  <2> QED BY <2>2, <2>3
<1>4. Known(d, B) /\ Right(d, B, X) BY DEF Deliveries
<1> QED BY <1>2, <1>3, <1>4 DEF Deliveries, t

LEMMA DeliveriesBroken ==
  ASSUME NEW s, NEW d, NEW B, NEW N, NEW X, NEW X2, X \subseteq X2, Deliveries(d, s, B, N, X)
  PROVE  Deliveries(d, s, B, N, X2)
BY DEF Deliveries, Right

LEMMA Emptied ==
  ASSUME NEW r, r.list = <<HeadBuffer>>, r.wPayloadSize = 0, NEW memory, NEW s, NEW B, NEW N, NEW X,
         StreamOK(s, B, N, X), Begun(s, B, N, X, 0)
  PROVE  ListOK(r) /\ Chain(r, memory, s, B, N, X)
<1>1. r.list \in Seq(AllBuffers) /\ Len(r.list) = 1 /\ r.list[1] = HeadBuffer
  BY DEF AllBuffers
<1>2. ListOK(r) BY <1>1 DEF ListOK
<1>3. Chain(r, memory, s, B, N, X) BY <1>1 DEF Chain
<1> QED BY <1>2, <1>3

(* An invalid packet empties the chain. *)
LEMMA InvalidStep ==
  ASSUME NEW r, NEW memory, NEW s \in Seq(SomePacket), NEW B, NEW N, NEW X, NEW d,
         Flow(r, memory, s, B, N, X, d), s # <<>>, s[1].kind # "ignored", ~IsSeg(s[1]),
         NEW r2, r2.list = <<HeadBuffer>>, r2.wPayloadSize = 0, NEW memory2
  PROVE  Flow(r2, memory2, Tail(s), B, N, X, d)
<1>1. ControlOK(B, N) /\ Chain(r, memory, s, B, N, X) /\ Deliveries(d, s, B, N, X)
  BY DEF Flow
<1>2. StreamOK(s, B, N, X) /\ Begun(s, B, N, X, 0) BY <1>1, Interrupted
<1>3. StreamOK(Tail(s), B, N, X) BY <1>1, <1>2, TailOK
<1>4. Begun(Tail(s), B, N, X, 0) BY <1>1, <1>2, RestBegun
<1>5. Deliveries(d, Tail(s), B, N, X) BY <1>1, DeliveriesRest
<1>6. ListOK(r2) /\ Chain(r2, memory2, Tail(s), B, N, X) BY <1>3, <1>4, Emptied
<1> QED BY <1>1, <1>5, <1>6 DEF Flow

LEMMA ArithTwo == \A n \in Nat : n >= 1 /\ n # 1 => n >= 2
OBVIOUS

LEMMA FrontIs ==
  ASSUME NEW l \in Seq(AllBuffers), Len(l) >= 1, Len(l) # 1
  PROVE  /\ Front(l) \in Seq(AllBuffers) /\ Len(Front(l)) = Len(l) - 1 /\ Len(Front(l)) >= 1
         /\ Len(l) \in Nat /\ Len(l) >= 2
         /\ \A i \in 1 .. Len(Front(l)) : Front(l)[i] = l[i] /\ i \in 1 .. Len(l)
         /\ (\A i, j \in 1 .. Len(l) : l[i] = l[j] => i = j) =>
              \A i, j \in 1 .. Len(Front(l)) : Front(l)[i] = Front(l)[j] => i = j
<1> DEFINE f == Front(l)
<1>0. Len(l) \in Nat OBVIOUS
<1>1. Len(l) \in Nat /\ Len(l) >= 2 BY <1>0, ArithTwo
<1>2. /\ f \in Seq(AllBuffers) /\ Len(f) = Len(l) - 1
      /\ \A i \in 1 .. Len(f) : f[i] = l[i] /\ i \in 1 .. Len(l)
  BY <1>1 DEF Front
<1> HIDE DEF f
<1>3. Len(f) >= 1 BY <1>1, <1>2
<1> QED BY <1>1, <1>2, <1>3 DEF f

LEMMA LongIs ==
  ASSUME NEW r, ListOK(r), Len(r.list) # 1
  PROVE  /\ r.list \in Seq(AllBuffers) /\ Len(r.list) \in Nat /\ Len(r.list) >= 2
         /\ Len(r.list) >= 1 /\ r.list[1] = HeadBuffer
<1> DEFINE l == r.list
<1>1. l \in Seq(AllBuffers) /\ Len(l) >= 1 /\ Len(l) # 1 /\ l[1] = HeadBuffer
  BY Zenon DEF ListOK
<1> HIDE DEF l
<1>2. Len(l) \in Nat BY <1>1
<1>3. Len(l) >= 2 BY <1>1, <1>2, ArithTwo
<1> QED BY <1>1, <1>2, <1>3 DEF l

(* A timeout empties the chain, and its message is broken. *)
LEMMA TimeoutStep ==
  ASSUME NEW r, NEW memory, NEW s \in Seq(SomePacket), NEW B, NEW N, NEW X, NEW d,
         Flow(r, memory, s, B, N, X, d), NEW X2, X \subseteq X2,
         r.wPayloadSize # 0 => \A i \in Held(r) : memory[r.list[i]].msg \in X2,
         NEW r2, r2.list = <<HeadBuffer>>, r2.wPayloadSize = 0
  PROVE  Flow(r2, memory, s, B, N, X2, d)
<1>1. /\ ControlOK(B, N) /\ Chain(r, memory, s, B, N, X) /\ Deliveries(d, s, B, N, X)
      /\ ListOK(r)
  BY DEF Flow
<1>2. Deliveries(d, s, B, N, X2) BY <1>1, DeliveriesBroken
<1>3. StreamOK(s, B, N, X2) /\ Begun(s, B, N, X2, 0)
  <2>1. CASE Len(r.list) = 1
    BY <1>1, <2>1, MoreBroken DEF Chain
  <2>2. CASE Len(r.list) # 1
    <3>0. PICK m \in 1 .. Len(B) : \E k \in 1 .. N[m] :
            /\ StreamOK(<<SegmentOf(m, B[m], k)>> \o s, B, N, X)
            /\ Holds(r, memory, B, N, X, m, k)
            /\ Begun(s, B, N, X, m)
      BY <1>1, <2>2 DEF Chain
    <3>1. PICK k \in 1 .. N[m] :
            /\ StreamOK(<<SegmentOf(m, B[m], k)>> \o s, B, N, X)
            /\ Holds(r, memory, B, N, X, m, k)
            /\ Begun(s, B, N, X, m)
      BY <3>0
    <3>2. SegmentOf(m, B[m], k) \in SomePacket /\ k \in Nat /\ k <= Len(B[m].segs)
      BY <1>1, SegmentInRange
    <3>3. StreamOK(s, B, N, X) BY <1>1, <3>1, <3>2, ConsTail
    <3>4. StreamOK(s, B, N, X2) /\ Begun(s, B, N, X2, m) BY <3>1, <3>3, MoreBroken
    <3>5. Len(r.list) \in Nat /\ Len(r.list) >= 2 BY <1>1, <2>2, LongIs
    <3>6. m \in X2 \/ ~Counts(B, m)
      <4>1. CASE r.wPayloadSize # 0
        <5>1. 1 \in Held(r) BY <3>5, <4>1 DEF Held
        <5>2. Segment_of(memory[r.list[1]], B, N, m) BY <3>1, <5>1 DEF Holds
        <5> QED BY <4>1, <5>1, <5>2 DEF Segment_of
      <4>2. CASE r.wPayloadSize = 0
        <5> SUFFICES ASSUME Counts(B, m) PROVE FALSE OBVIOUS
        <5> DEFINE n == Len(r.list) - 1
        <5>1. n \in Nat /\ n > 0 BY <3>5
        <5>2. Filled(r, memory, B, X, m, k, n) BY <3>1 DEF Holds
        <5> HIDE DEF n
        <5>3. r.wPayloadSize > 0 BY <1>1, <3>2, <5>1, <5>2, FilledSize
        <5> QED BY <4>2, <5>3
      <4> QED BY <4>1, <4>2
    <3>7. Begun(s, B, N, X2, 0) BY <3>4, <3>6, NotChained
    <3> QED BY <3>4, <3>7
  <2> QED BY <2>1, <2>2
<1>4. ListOK(r2) /\ Chain(r2, memory, s, B, N, X2) BY <1>3, Emptied
<1> QED BY <1>1, <1>2, <1>4 DEF Flow

(* A packet that is ignored is dropped, and a buffer takes the place of its own. *)
LEMMA IgnoredStep ==
  ASSUME NEW r \in ChainType, NEW memory, NEW s \in Seq(SomePacket), NEW B, NEW N, NEW X, NEW d,
         Flow(r, memory, s, B, N, X, d), s # <<>>, ~IsSeg(s[1]),
         NEW b \in AllBuffers,
         r.wPayloadSize # 0 => b \notin Range(Front(r.list)),
         NEW r2, r2 = GetNewNode(RemoveLastChainedNode(r), b)
  PROVE  Flow(r2, memory, Tail(s), B, N, X, d)
<1>1. /\ ControlOK(B, N) /\ Chain(r, memory, s, B, N, X) /\ Deliveries(d, s, B, N, X)
      /\ ListOK(r)
  BY DEF Flow
<1>2. Deliveries(d, Tail(s), B, N, X) BY <1>1, DeliveriesRest
<1>3. /\ ListOK(r2) /\ Len(r2.list) = Len(r.list) /\ r2.HeaderInfo = r.HeaderInfo
      /\ r2.lens = r.lens /\ r2.wPayloadSize = r.wPayloadSize
      /\ \A i \in 1 .. Len(r.list) - 1 : r2.list[i] = r.list[i]
      /\ Held(r2) = Held(r) /\ \A i \in Held(r) : r2.list[i] = r.list[i]
  <2>1. CASE r.wPayloadSize = 0
    <3>1. r2 = r BY <2>1 DEF GetNewNode, RemoveLastChainedNode
    <3> QED BY <1>1, <3>1, Zenon
  <2>2. CASE r.wPayloadSize # 0
    <3> DEFINE l == r.list
               f == Front(l)
               o == [r EXCEPT !.list = f]
               t == Append(f, b)
    <3>1. /\ l \in Seq(AllBuffers) /\ Len(l) >= 1 /\ Len(l) # 1 /\ l[1] = HeadBuffer
          /\ \A i, j \in 1 .. Len(l) : l[i] = l[j] => i = j
      BY <1>1, <2>2 DEF ListOK
    <3>3. /\ f \in Seq(AllBuffers) /\ Len(f) = Len(l) - 1 /\ Len(f) >= 1 /\ Len(l) \in Nat
          /\ Len(l) >= 2
          /\ \A i \in 1 .. Len(f) : f[i] = l[i] /\ i \in 1 .. Len(l)
          /\ \A i, j \in 1 .. Len(f) : f[i] = f[j] => i = j
      <4> HIDE DEF l
      <4> QED BY <3>1, FrontIs
    <3>2. o = RemoveLastChainedNode(r)
      <4> DEFINE w == r.wPayloadSize
      <4>1. Len(l) > 1 /\ w # 0 BY <2>2, <3>1, <3>3
      <4> QED BY <4>1 DEF RemoveLastChainedNode
    <3> HIDE DEF l
    <3>4. o \in ChainType
      <4> HIDE DEF f
      <4> QED BY <3>3 DEF ChainType
    <3>5. /\ o.list = f /\ o.wPayloadSize = r.wPayloadSize /\ o.HeaderInfo = r.HeaderInfo
          /\ o.lens = r.lens
      <4> HIDE DEF f
      <4> QED BY DEF ChainType
    <3> HIDE DEF o
    <3>6. /\ r2.list = t /\ r2.lens = r.lens /\ r2.wPayloadSize = r.wPayloadSize
          /\ r2.HeaderInfo = r.HeaderInfo
      BY <2>2, <3>2, <3>4, <3>5, NodeIs
    <3>7. /\ t \in Seq(AllBuffers) /\ Len(t) = Len(f) + 1 /\ t[1] = HeadBuffer
          /\ \A i \in 1 .. Len(f) : t[i] = f[i]
          /\ \A i, j \in 1 .. Len(t) : t[i] = t[j] => i = j
      <4>1. b \notin Range(f) BY <2>2 DEF l
      <4>2. f[1] = HeadBuffer
        <5>1. 1 \in 1 .. Len(f) BY <3>3
        <5>2. f[1] = l[1] BY <3>3, <5>1
        <5> QED BY <3>1, <5>2
      <4> HIDE DEF f
      <4>3. b \in AllBuffers \ Range(f) BY <4>1
      <4> QED BY <3>3, <4>2, <4>3, NewNodeIs
    <3> HIDE DEF f, t
    <3>8. ListOK(r2) BY <3>3, <3>6, <3>7 DEF ListOK
    <3>9. Len(r2.list) = Len(l) /\ \A i \in 1 .. Len(l) - 1 : r2.list[i] = l[i]
      BY <3>3, <3>6, <3>7
    <3>10. Held(r2) = 1 .. Len(l) - 1 /\ Held(r) = 1 .. Len(l) - 1
      <4>1. Held(r2) = 1 .. Len(r2.list) - 1 BY <2>2, <3>6, Zenon DEF Held
      <4>2. Held(r) = 1 .. Len(r.list) - 1 BY <2>2, Zenon DEF Held
      <4> QED BY <3>9, <4>1, <4>2, Zenon DEF l
    <3> QED BY <3>6, <3>8, <3>9, <3>10, Zenon DEF l
  <2> QED BY <2>1, <2>2
<1>4. Chain(r2, memory, Tail(s), B, N, X)
  <2>1. CASE Len(r.list) = 1
    <3>1. StreamOK(s, B, N, X) /\ Begun(s, B, N, X, 0) BY <1>1, <2>1 DEF Chain
    <3>2. StreamOK(Tail(s), B, N, X) BY <1>1, <3>1, TailOK
    <3>3. Begun(Tail(s), B, N, X, 0) BY <1>1, <3>1, RestBegun
    <3> QED BY <1>3, <2>1, <3>2, <3>3 DEF Chain
  <2>2. CASE Len(r.list) # 1
    <3>0. PICK m \in 1 .. Len(B) : \E k \in 1 .. N[m] :
            /\ StreamOK(<<SegmentOf(m, B[m], k)>> \o s, B, N, X)
            /\ Holds(r, memory, B, N, X, m, k)
            /\ Begun(s, B, N, X, m)
      BY <1>1, <2>2 DEF Chain
    <3>1. PICK k \in 1 .. N[m] :
            /\ StreamOK(<<SegmentOf(m, B[m], k)>> \o s, B, N, X)
            /\ Holds(r, memory, B, N, X, m, k)
            /\ Begun(s, B, N, X, m)
      BY <3>0
    <3> DEFINE v == SegmentOf(m, B[m], k)
               u == <<v>> \o s
               t == <<v>> \o Tail(s)
    <3>2. v \in SomePacket BY <1>1, SegmentInRange
    <3>3. StreamOK(u, B, N, X) BY <3>1
    <3> HIDE DEF v
    <3>4. StreamOK(s, B, N, X) BY <1>1, <3>2, <3>3, ConsTail
    <3>5. Begun(Tail(s), B, N, X, m) BY <1>1, <3>1, <3>4, RestBegun
    <3>6. StreamOK(t, B, N, X)
      <4>1. /\ Len(u) \in Nat /\ Len(t) \in Nat /\ Len(u) = Len(t) + 1 /\ Len(t) > 0
            /\ t[1] = u[1] /\ (\A i \in 2 .. Len(t) : t[i] = u[i + 1]) /\ u[2] = s[1]
        BY <3>2
      <4>2. ~IsSeg(u[2]) BY <4>1, Zenon
      <4> HIDE DEF u, t
      <4> QED BY <1>1, <3>3, <4>1, <4>2, SkipOK
    <3>7. Holds(r2, memory, B, N, X, m, k)
      <4>1. Len(r2.list) - 1 = Len(r.list) - 1 BY <1>3, Zenon
      <4>2. \A i \in Held(r2) : Segment_of(memory[r2.list[i]], B, N, m)
        BY <1>3, <3>1, Zenon DEF Holds
      <4>3. ASSUME Counts(B, m) PROVE Filled(r2, memory, B, X, m, k, Len(r2.list) - 1)
        <5> DEFINE n == Len(r.list) - 1
        <5>1. Filled(r, memory, B, X, m, k, n) BY <3>1, <4>3, Zenon DEF Holds
        <5>2. \A i \in 1 .. n : r2.list[i] = r.list[i] BY <1>3
        <5> HIDE DEF n
        <5>3. Filled(r2, memory, B, X, m, k, n) BY <1>3, <5>1, <5>2, Zenon DEF Filled
        <5> QED BY <4>1, <5>3, Zenon DEF n
      <4>4. r2.HeaderInfo = B[m].hdr /\ k < Len(B[m].segs)
        BY <1>3, <3>1, Zenon DEF Holds
      <4> QED BY <4>2, <4>3, <4>4, Zenon DEF Holds
    <3>8. \E j \in 1 .. N[m] :
            /\ StreamOK(<<SegmentOf(m, B[m], j)>> \o Tail(s), B, N, X)
            /\ Holds(r2, memory, B, N, X, m, j)
            /\ Begun(Tail(s), B, N, X, m)
      BY <3>5, <3>6, <3>7, Zenon DEF v
    <3>9. Len(r2.list) # 1 BY <1>3, <2>2, Zenon
    <3> QED BY <3>8, <3>9 DEF Chain
  <2> QED BY <2>1, <2>2
<1> QED BY <1>1, <1>2, <1>3, <1>4 DEF Flow

(* The next segment of a message that is not broken is its first, unless the chain holds it. *)
LEMMA FirstIs ==
  ASSUME NEW s \in Seq(SomePacket), s # <<>>, NEW B, NEW N, NEW X, ControlOK(B, N),
         StreamOK(s, B, N, X), Begun(s, B, N, X, 0), IsSeg(s[1])
  PROVE  s[1].seg = 1 \/ s[1].msg \in X \/ ~Counts(B, s[1].msg)
<1> DEFINE p == s[1]
           m == p.msg
<1>1. 1 \in 1 .. Len(s) /\ Len(s) \in Nat BY TailIs
<1>2. Sent(p, B, N) BY <1>1 DEF StreamOK
<1>3. m \in 1 .. Len(B) /\ p.seg \in Nat /\ p.seg >= 1 BY <1>2, SentLen
<1> SUFFICES ASSUME m \notin X, Counts(B, m) PROVE p.seg = 1 OBVIOUS
<1>4. SegOf(p, m) BY DEF SegOf, IsSeg
<1>5. Coming(s, B, N, m) BY <1>1, <1>4, Zenon DEF Coming
<1>6. Len(B) \in Nat BY DEF ControlOK
<1>7. Starts(s, m)
  <2>1. m # 0 BY <1>3, <1>6
  <2> QED BY <1>3, <1>5, <2>1, Zenon DEF Begun
<1>8. PICK i \in 1 .. Len(s) : SegOf(s[i], m) /\ s[i].seg = 1 BY <1>7 DEF Starts
<1>9. CASE i = 1 BY <1>8, <1>9
<1>10. CASE i # 1
  <2>1. 1 < i BY <1>1, <1>10
  <2>2. IsSeg(s[1]) /\ IsSeg(s[i]) /\ s[1].msg = s[i].msg BY <1>4, <1>8 DEF SegOf, IsSeg
  <2>3. InOrder(s) BY DEF StreamOK
  <2>4. s[1].seg < s[i].seg BY <1>1, <2>1, <2>2, <2>3 DEF InOrder
  <2> QED BY <1>3, <1>8, <2>4
<1> QED BY <1>9, <1>10

(* A segment is alone in the head, or goes on with the chain. *)
LEMMA AddedFull ==
  ASSUME NEW r \in ChainType, NEW memory, NEW s \in Seq(SomePacket), NEW B, NEW N, NEW X, NEW d,
         Flow(r, memory, s, B, N, X, d), s # <<>>, IsSeg(s[1]),
         memory[IF r.wPayloadSize = 0 THEN HeadBuffer ELSE Last(r.list)] = s[1],
         NEW o \in ChainType, NEW memory2,
         \/ /\ Len(r.list) # 1 /\ s[1].hdr # r.HeaderInfo
            /\ o.list = <<HeadBuffer>> /\ o.wPayloadSize = 0 /\ memory2[HeadBuffer] = s[1]
         \/ /\ Len(r.list) = 1 \/ s[1].hdr = r.HeaderInfo
            /\ o = r /\ memory2 = memory,
         NEW q, q = Added(o, s[1].hdr, Len(s[1].bytes))
  PROVE  /\ StreamOK(s, B, N, X) /\ Full(q, memory2, B, N, X, s[1])
         /\ Begun(s, B, N, X, 0) \/ Begun(s, B, N, X, s[1].msg)
<1> DEFINE p == s[1]
<1>1. ControlOK(B, N) /\ Chain(r, memory, s, B, N, X) /\ ListOK(r) BY DEF Flow
<1>2. p \in SomePacket /\ 1 \in 1 .. Len(s) BY TailIs
<1>3. CASE Len(r.list) = 1 \/ p.hdr # r.HeaderInfo
  <2>1. p.kind # "ignored" BY DEF IsSeg
  <2>2. StreamOK(s, B, N, X) /\ Begun(s, B, N, X, 0) BY <1>1, <1>3, <2>1, Interrupted
  <2>3. Sent(p, B, N) BY <1>2, <2>2 DEF StreamOK
  <2>4. p.seg = 1 \/ p.msg \in X \/ ~Counts(B, p.msg) BY <1>1, <2>2, FirstIs
  <2>5. o.list = <<HeadBuffer>> /\ o.wPayloadSize = 0 /\ memory2[HeadBuffer] = p
    <3>1. CASE Len(r.list) # 1 BY <1>3, <3>1, Zenon
    <3>2. CASE Len(r.list) = 1
      <4>1. o = r /\ memory2 = memory BY <3>2, Zenon
      <4> DEFINE l == r.list
      <4>2. r.wPayloadSize = 0 /\ l \in Seq(AllBuffers) /\ l[1] = HeadBuffer /\ Len(l) = 1
        BY <1>1, <3>2, Zenon DEF ListOK
      <4>3. l = <<HeadBuffer>>
        <5> HIDE DEF l
        <5> QED BY <4>2
      <4>4. memory[HeadBuffer] = p BY <4>2, Zenon
      <4> QED BY <4>1, <4>2, <4>3, <4>4, Zenon
    <3> QED BY <3>1, <3>2
  <2>6. q = Added(o, p.hdr, Len(p.bytes)) OBVIOUS
  <2> HIDE DEF p
  <2>7. Full(q, memory2, B, N, X, p) BY <1>1, <1>2, <2>3, <2>4, <2>5, <2>6, FullAnew
  <2> QED BY <2>2, <2>7 DEF p
<1>4. CASE Len(r.list) # 1 /\ p.hdr = r.HeaderInfo
  <2>0. PICK m \in 1 .. Len(B) : \E k \in 1 .. N[m] :
          /\ StreamOK(<<SegmentOf(m, B[m], k)>> \o s, B, N, X)
          /\ Holds(r, memory, B, N, X, m, k)
          /\ Begun(s, B, N, X, m)
    BY <1>1, <1>4, Zenon DEF Chain
  <2>1. PICK k \in 1 .. N[m] :
          /\ StreamOK(<<SegmentOf(m, B[m], k)>> \o s, B, N, X)
          /\ Holds(r, memory, B, N, X, m, k)
          /\ Begun(s, B, N, X, m)
    BY <2>0
  <2>2. SegmentOf(m, B[m], k) \in SomePacket BY <1>1, SegmentInRange
  <2>3. StreamOK(s, B, N, X) BY <1>1, <2>1, <2>2, ConsTail
  <2>4. k < Len(B[m].segs) /\ r.HeaderInfo = B[m].hdr BY <2>1, Zenon DEF Holds
  <2>5. p.msg = m /\ p.seg = k + 1
    <3>1. s[1].hdr = B[m].hdr BY <1>4, <2>4, Zenon
    <3> QED BY <1>1, <2>1, <2>4, <3>1, NextSegment, ZenonT(30)
  <2>6. Sent(p, B, N) BY <1>2, <2>3 DEF StreamOK
  <2>7. o = r /\ memory2 = memory BY <1>4, Zenon
  <2>8. /\ q = Added(r, p.hdr, Len(p.bytes)) /\ Len(r.list) # 1
        /\ memory[IF r.wPayloadSize = 0 THEN HeadBuffer ELSE Last(r.list)] = p
    BY <1>4, <2>7, Zenon
  <2>9. Begun(s, B, N, X, p.msg) BY <2>1, <2>5, Zenon
  <2> HIDE DEF p
  <2>10. Full(q, memory, B, N, X, p) BY <1>1, <1>2, <2>1, <2>5, <2>6, <2>8, FullNext
  <2>11. Full(q, memory2, B, N, X, p) BY <2>7, <2>10, Zenon
  <2> QED BY <2>3, <2>9, <2>11, Zenon DEF p
<1> QED BY <1>3, <1>4

(* A segment with more behind it is collected, ... *)
LEMMA CollectStep ==
  ASSUME NEW q \in ChainType, NEW memory, NEW s \in Seq(SomePacket), NEW B, NEW N, NEW X, NEW d,
         ControlOK(B, N), Deliveries(d, s, B, N, X), s # <<>>, IsSeg(s[1]), s[1].pbf,
         StreamOK(s, B, N, X), Full(q, memory, B, N, X, s[1]),
         Begun(s, B, N, X, 0) \/ Begun(s, B, N, X, s[1].msg),
         NEW b \in IF q.wPayloadSize = 0 THEN {HeadBuffer} ELSE Buffers \ Range(q.list),
         NEW r, r = GetNewNode(q, b)
  PROVE  Flow(r, memory, Tail(s), B, N, X, d)
<1>1. Begun(Tail(s), B, N, X, s[1].msg)
  <2> DEFINE m == s[1].msg
  <2>1. PICK c \in {0, m} : Begun(s, B, N, X, c) BY Zenon
  <2>2. s[1].msg = IF s[1].pbf THEN s[1].msg ELSE 0 BY Zenon
  <2> QED BY <2>1, <2>2, RestBegun
<1>2. ListOK(r) /\ Chain(r, memory, Tail(s), B, N, X) BY <1>1, CollectChain
<1>3. Deliveries(d, Tail(s), B, N, X) BY DeliveriesRest
<1> QED BY <1>2, <1>3 DEF Flow

(* ... and with the last one the message is delivered and the chain emptied. *)
LEMMA LastStep ==
  ASSUME NEW q \in ChainType, NEW memory, NEW s \in Seq(SomePacket), NEW B, NEW N, NEW X,
         NEW d \in Seq(Delivery),
         ControlOK(B, N), Deliveries(d, s, B, N, X), s # <<>>, IsSeg(s[1]), ~s[1].pbf,
         StreamOK(s, B, N, X), Full(q, memory, B, N, X, s[1]),
         Begun(s, B, N, X, 0) \/ Begun(s, B, N, X, s[1].msg),
         NEW r, r.list = <<HeadBuffer>>, r.wPayloadSize = 0
  PROVE  /\ Handed(d, q, memory) \in Seq(Delivery)
         /\ Flow(r, memory, Tail(s), B, N, X, Handed(d, q, memory))
<1>1. Begun(Tail(s), B, N, X, 0)
  <2> DEFINE m == s[1].msg
  <2>1. PICK c \in {0, m} : Begun(s, B, N, X, c) BY Zenon
  <2>2. 0 = IF s[1].pbf THEN s[1].msg ELSE 0 BY Zenon
  <2> QED BY <2>1, <2>2, RestBegun
<1>2. StreamOK(Tail(s), B, N, X) BY TailOK
<1>3. ListOK(r) /\ Chain(r, memory, Tail(s), B, N, X) BY <1>1, <1>2, Emptied
<1>4. /\ Handed(d, q, memory) \in Seq(Delivery)
      /\ Deliveries(Handed(d, q, memory), Tail(s), B, N, X)
  BY DeliverStep
<1> QED BY <1>3, <1>4 DEF Flow

-----------------------------------------------------------------------------
(* What the controller sends: the first segment of a message, ... *)
LEMMA BeginSends ==
  ASSUME NEW B, NEW N, NEW X, ControlOK(B, N), NEW shape \in Shapes, NEW O,
         O = {m \in 1 .. Len(B) : N[m] < Len(B[m].segs)},
         \A m \in O : B[m].hdr # shape.hdr,
         NEW B2, B2 = Append(B, shape), NEW N2, N2 = Append(N, 1), NEW X2, X2 = X \cup O,
         NEW p, p = SegmentOf(Len(B) + 1, shape, 1)
  PROVE  p \in SomePacket /\ ControlOK(B2, N2) /\ Sends(p, B, N, X, B2, N2, X2)
<1> DEFINE z == Len(B) + 1
<1>1. /\ B \in Seq(Shapes) /\ N \in Seq(Nat) /\ Len(N) = Len(B) /\ Len(B) \in Nat /\ z \in Nat
  BY DEF ControlOK
<1>2. Len(shape.segs) \in Nat /\ Len(shape.segs) >= 1
  BY RecvAssumption DEF RecvAssumption
<1>3. /\ B2 \in Seq(Shapes) /\ N2 \in Seq(Nat) /\ Len(N2) = z /\ Len(B2) = z
      /\ B2[z] = shape /\ N2[z] = 1
      /\ \A m \in 1 .. Len(B) : B2[m] = B[m] /\ N2[m] = N[m]
  BY <1>1
<1>4. \A m \in 1 .. z : m = z \/ m \in 1 .. Len(B) BY <1>1
<1>5. /\ IsSeg(p) /\ p.msg = z /\ p.seg = 1 /\ p.hdr = shape.hdr
  BY SegmentIs
<1>6. p \in SomePacket
  <2>1. 1 \in 1 .. Len(shape.segs) BY <1>2
  <2> QED BY <1>1, <2>1, SegmentIsPacket
<1>7. p = SegmentOf(z, shape, 1) OBVIOUS
<1> HIDE DEF z
<1>8. \A m \in 1 .. Len(B) : /\ N[m] \in 1 .. Len(B[m].segs) /\ m # z /\ m < z /\ m \in 1 .. z
                             /\ m \in O \/ N[m] = Len(B[m].segs)
  <2> SUFFICES ASSUME NEW m \in 1 .. Len(B)
               PROVE  /\ N[m] \in 1 .. Len(B[m].segs) /\ m # z /\ m < z /\ m \in 1 .. z
                      /\ m \in O \/ N[m] = Len(B[m].segs)
    OBVIOUS
  <2>1. N[m] \in 1 .. Len(B[m].segs) /\ Len(B[m].segs) \in Nat BY ShapeIs
  <2>2. m # z /\ m < z /\ m \in 1 .. z BY <1>1 DEF z
  <2> QED BY <2>1, <2>2
<1>9. \A m \in 1 .. z : N2[m] \in 1 .. Len(B2[m].segs)
  <2> SUFFICES ASSUME NEW m \in 1 .. z PROVE N2[m] \in 1 .. Len(B2[m].segs) OBVIOUS
  <2>1. CASE m = z BY <1>2, <1>3, <2>1
  <2>2. CASE m \in 1 .. Len(B) BY <1>3, <1>8, <2>2
  <2> QED BY <1>4, <2>1, <2>2
<1>10. ASSUME NEW m \in 1 .. z, NEW o \in 1 .. z, m < o, B2[m].hdr = B2[o].hdr
       PROVE  N2[m] = Len(B2[m].segs)
  <2>1. m \in 1 .. Len(B) BY <1>1, <1>10 DEF z
  <2>2. B2[m] = B[m] /\ N2[m] = N[m] BY <1>3, <2>1
  <2>3. CASE o = z
    <3>1. m \notin O BY <1>3, <1>10, <2>2, <2>3
    <3> QED BY <1>8, <2>1, <2>2, <3>1, Zenon
  <2>4. CASE o \in 1 .. Len(B)
    <3>1. B2[o] = B[o] BY <1>3, <2>4
    <3>2. B[m].hdr = B[o].hdr BY <1>10, <2>2, <3>1, Zenon
    <3>3. N[m] = Len(B[m].segs) BY <1>10, <2>1, <2>4, <3>2, Zenon DEF ControlOK
    <3> QED BY <2>2, <3>3, Zenon
  <2> QED BY <1>4, <2>3, <2>4
<1>11. ControlOK(B2, N2)
  <2>1. Len(N2) = Len(B2) /\ Len(B2) = z BY <1>3
  <2> QED BY <1>3, <1>9, <1>10, <2>1, Zenon DEF ControlOK
<1>12. Grows(B, N, X, B2, N2, X2)
  <2>1. Len(B) <= Len(B2) BY <1>1, <1>3 DEF z
  <2>2. ASSUME NEW m \in 1 .. Len(B) PROVE B2[m] = B[m] /\ N[m] <= N2[m]
    <3>1. N[m] \in Nat BY ShapeIs
    <3> QED BY <1>3, <3>1
  <2> QED BY <2>1, <2>2 DEF Grows
<1>13. Sent(p, B2, N2)
  <2>1. p.msg \in 1 .. Len(B2) BY <1>1, <1>3, <1>5 DEF z
  <2>2. p.seg \in 1 .. N2[p.msg] BY <1>3, <1>5
  <2>3. p = SegmentOf(p.msg, B2[p.msg], p.seg) BY <1>3, <1>5, <1>7, Zenon
  <2> QED BY <2>1, <2>2, <2>3 DEF Sent
<1>14. /\ p.seg = N2[p.msg]
       /\ \A m \in 1 .. Len(B) : m # p.msg /\ B[m].hdr = p.hdr => m < p.msg
       /\ \A m \in 1 .. Len(B) : N2[m] = N[m] /\ ~SegOf(p, m)
       /\ \A m \in 1 .. Len(B) : m \in X2 \/ SegOf(p, m) \/ N[m] = Len(B[m].segs)
  BY <1>3, <1>5, <1>8, Zenon DEF SegOf, IsSeg
<1>15. \A m \in 1 .. Len(B2) : m \in 1 .. Len(B) \/ (SegOf(p, m) /\ p.seg = 1)
  BY <1>3, <1>4, <1>5, Zenon DEF SegOf, IsSeg
<1> QED BY <1>6, <1>11, <1>12, <1>13, <1>14, <1>15, Zenon DEF Sends

(* ... the next segment of one, ... *)
LEMMA ContinueSends ==
  ASSUME NEW B, NEW N, NEW X, ControlOK(B, N), NEW O,
         O = {m \in 1 .. Len(B) : N[m] < Len(B[m].segs)}, NEW z \in O,
         NEW N2, N2 = [N EXCEPT ![z] = @ + 1], NEW X2, X2 = X \cup (O \ {z}),
         NEW p, p = SegmentOf(z, B[z], N[z] + 1)
  PROVE  p \in SomePacket /\ ControlOK(B, N2) /\ Sends(p, B, N, X, B, N2, X2)
<1> DEFINE k == N[z] + 1
<1>1. B \in Seq(Shapes) /\ N \in Seq(Nat) /\ Len(N) = Len(B) /\ Len(B) \in Nat BY DEF ControlOK
<1>2. z \in 1 .. Len(B) /\ N[z] < Len(B[z].segs) OBVIOUS
<1>3. /\ N[z] \in Nat /\ N[z] >= 1 /\ Len(B[z].segs) \in Nat /\ k \in 1 .. Len(B[z].segs)
      /\ k \in Nat /\ B[z] \in Shapes /\ z \in Nat
  BY <1>2, ShapeIs
<1>4. /\ N2 \in Seq(Nat) /\ Len(N2) = Len(B) /\ N2[z] = k
      /\ \A m \in 1 .. Len(B) : m # z => N2[m] = N[m]
  BY <1>1, <1>2, <1>3
<1>5. IsSeg(p) /\ p.msg = z /\ p.seg = k /\ p.hdr = B[z].hdr BY SegmentIs
<1>6. p \in SomePacket BY <1>3, SegmentIsPacket
<1>7. p = SegmentOf(z, B[z], k) OBVIOUS
<1>8. \A m \in 1 .. Len(B) : m \in O \/ N[m] = Len(B[m].segs)
  <2> SUFFICES ASSUME NEW m \in 1 .. Len(B) PROVE m \in O \/ N[m] = Len(B[m].segs) OBVIOUS
  <2>1. N[m] \in 1 .. Len(B[m].segs) /\ Len(B[m].segs) \in Nat BY ShapeIs
  <2> QED BY <2>1
<1>9. \A m, o \in 1 .. Len(B) : m < o /\ B[m].hdr = B[o].hdr => N[m] = Len(B[m].segs)
  BY DEF ControlOK
<1>10. \A o \in 1 .. Len(B) : o # z /\ B[o].hdr = B[z].hdr => o < z
  <2> SUFFICES ASSUME NEW o \in 1 .. Len(B), o # z, B[o].hdr = B[z].hdr PROVE o < z OBVIOUS
  <2>1. o \in Nat /\ z \in Nat BY <1>1, <1>2
  <2>2. ~(z < o) BY <1>2, <1>3, <1>9
  <2> QED BY <2>1, <2>2
<1>11. N2[z] = N[z] + 1 BY <1>4
<1> HIDE DEF k
<1>12. ControlOK(B, N2)
  <2>1. \A m \in 1 .. Len(B) : N2[m] \in 1 .. Len(B[m].segs)
    <3> SUFFICES ASSUME NEW m \in 1 .. Len(B) PROVE N2[m] \in 1 .. Len(B[m].segs) OBVIOUS
    <3>1. CASE m = z BY <1>3, <1>4, <3>1
    <3>2. CASE m # z BY <1>4, <3>2 DEF ControlOK
    <3> QED BY <3>1, <3>2
  <2>2. \A m, o \in 1 .. Len(B) : m < o /\ B[m].hdr = B[o].hdr => N2[m] = Len(B[m].segs)
    <3> SUFFICES ASSUME NEW m \in 1 .. Len(B), NEW o \in 1 .. Len(B), m < o, B[m].hdr = B[o].hdr
                 PROVE  N2[m] = Len(B[m].segs)
      OBVIOUS
    <3>1. N[m] = Len(B[m].segs) BY <1>9
    <3>2. m # z BY <1>2, <1>3, <3>1
    <3> QED BY <1>4, <3>1, <3>2
  <2> QED BY <1>1, <1>4, <2>1, <2>2 DEF ControlOK
<1>13. Grows(B, N, X, B, N2, X2)
  <2>1. ASSUME NEW m \in 1 .. Len(B) PROVE N[m] <= N2[m]
    <3>1. N[m] \in Nat BY ShapeIs
    <3> QED BY <1>4, <1>11, <3>1
  <2> QED BY <1>1, <2>1 DEF Grows
<1>14. Sent(p, B, N2)
  <2>1. p.seg \in 1 .. N2[p.msg] BY <1>3, <1>4, <1>5
  <2>2. p = SegmentOf(p.msg, B[p.msg], p.seg) BY <1>5, <1>7, Zenon
  <2> QED BY <1>2, <1>5, <2>1, <2>2 DEF Sent
<1>15. /\ p.seg = N2[p.msg]
       /\ \A m \in 1 .. Len(B) : m # p.msg /\ B[m].hdr = p.hdr => m < p.msg
       /\ \A m \in 1 .. Len(B) : m \in X2 \/ SegOf(p, m) \/ N[m] = Len(B[m].segs)
  BY <1>4, <1>5, <1>8, <1>10, Zenon DEF SegOf, IsSeg
<1>16. \A m \in 1 .. Len(B) : \/ N2[m] = N[m] /\ ~SegOf(p, m)
                              \/ N2[m] = N[m] + 1 /\ SegOf(p, m)
  BY <1>4, <1>5, <1>11, Zenon DEF SegOf, IsSeg
<1> QED BY <1>6, <1>12, <1>13, <1>14, <1>15, <1>16, Zenon DEF Sends

(* ... or a packet that is no segment. *)
LEMMA NoiseSends ==
  ASSUME NEW B, NEW N, NEW X, ControlOK(B, N), NEW k \in Noise, NEW O,
         O = {m \in 1 .. Len(B) : N[m] < Len(B[m].segs)},
         NEW X2, X2 = IF k = "invalid" THEN X \cup O ELSE X,
         NEW p, p = NoisePacket(k)
  PROVE  p \in SomePacket /\ ~IsSeg(p) /\ Sends(p, B, N, X, B, N, X2)
<1>1. p.kind = k BY DEF NoisePacket
<1>2. k = "ignored" \/ k = "invalid" BY RecvAssumption DEF RecvAssumption
<1>3. ~IsSeg(p) /\ \A m : ~SegOf(p, m) BY <1>1, <1>2 DEF IsSeg, SegOf
<1>4. p \in SomePacket BY NoiseIsPacket
<1>5. ASSUME NEW m \in 1 .. Len(B) PROVE N[m] <= N[m] /\ (m \in O \/ N[m] = Len(B[m].segs))
  <2>1. N[m] \in 1 .. Len(B[m].segs) /\ Len(B[m].segs) \in Nat /\ N[m] \in Nat BY ShapeIs
  <2> QED BY <2>1
<1>6. Len(B) <= Len(B) BY DEF ControlOK
<1>7. X \subseteq X2 /\ (p.kind # "ignored" => O \subseteq X2) BY <1>1, <1>2
<1>8. Grows(B, N, X, B, N, X2) BY <1>5, <1>6, <1>7 DEF Grows
<1> QED BY <1>3, <1>4, <1>5, <1>7, <1>8, Zenon DEF Sends

-----------------------------------------------------------------------------
(***************************************************************************)
(* The same of the states.  The packet that was received is still to be    *)
(* handled, in the last buffer of the chain.                               *)
(***************************************************************************)
Stream == IF Completions = {} THEN packets ELSE <<mem[LastNode]>> \o packets

LengthsRight == \A i \in Completions : posted[i].len = Len(mem[posted[i].buf].bytes)

FlowInv ==
  \/ overtaken
  \/ /\ delivered \in Seq(Delivery) /\ LengthsRight
     /\ Flow(tReceiveInfo, mem, Stream, begun, sent, broken, delivered)

FInv == JInv /\ FlowInv

LEMMA LastIn ==
  ASSUME NEW r \in ChainType, ListOK(r)
  PROVE  (IF r.wPayloadSize = 0 THEN HeadBuffer ELSE Last(r.list)) \in AllBuffers
<1>1. CASE r.wPayloadSize = 0 BY <1>1 DEF AllBuffers
<1>2. CASE r.wPayloadSize # 0
  <2>1. Len(r.list) # 1 BY <1>2, Zenon DEF ListOK
  <2>2. r.list \in Seq(AllBuffers) /\ Len(r.list) \in Nat /\ Len(r.list) >= 2 BY <2>1, LongIs
  <2>3. Last(r.list) \in AllBuffers BY <2>2 DEF Last
  <2> QED BY <1>2, <2>3
<1> QED BY <1>1, <1>2

LEMMA StreamIs ==
  ASSUME JInv, ListOK(tReceiveInfo)
  PROVE  /\ Stream \in Seq(SomePacket) /\ packets \in Seq(SomePacket)
         /\ mem[LastNode] \in SomePacket /\ LastNode \in AllBuffers
         /\ Completions = {} => Stream = packets
         /\ Completions # {} => Stream = <<mem[LastNode]>> \o packets
<1>1. packets \in Seq(SomePacket) BY DEF JInv, IInv, ControllerInv
<1>2. tReceiveInfo \in ChainType /\ mem \in [AllBuffers -> SomePacket] BY DEF JInv, ChainInv
<1>3. LastNode \in AllBuffers BY <1>2, LastIn DEF LastNode
<1>4. mem[LastNode] \in SomePacket BY <1>2, <1>3
<1>5. <<mem[LastNode]>> \o packets \in Seq(SomePacket) BY <1>1, <1>4, ConsIs
<1> QED BY <1>1, <1>3, <1>4, <1>5 DEF Stream

(* At first there is nothing to be handled. *)
LEMMA FInitHolds == Init => FInv
<1> SUFFICES ASSUME Init PROVE FInv OBVIOUS
<1>1. JInv BY JInitHolds
<1>2. Completions = {} BY DEF Init, Completions
<1>3. Stream = <<>> /\ begun = <<>> /\ sent = <<>> /\ delivered = <<>> /\ broken = {}
  BY <1>2 DEF Init, Stream
<1>4. ControlOK(<<>>, <<>>) BY DEF ControlOK
<1>5. StreamOK(<<>>, <<>>, <<>>, {}) BY DEF StreamOK, InOrder, Follows, Contiguous
<1>6. Begun(<<>>, <<>>, <<>>, {}, 0) BY DEF Begun
<1>7. Deliveries(<<>>, <<>>, <<>>, <<>>, {})
  BY DEF Deliveries, Ends, Over, Known, Right, Has
<1>8. tReceiveInfo.list = <<HeadBuffer>> /\ tReceiveInfo.wPayloadSize = 0 BY DEF Init
<1>9. ListOK(tReceiveInfo) /\ Chain(tReceiveInfo, mem, <<>>, <<>>, <<>>, {})
  BY <1>5, <1>6, <1>8, Emptied
<1>10. Flow(tReceiveInfo, mem, <<>>, <<>>, <<>>, {}, <<>>) BY <1>4, <1>7, <1>9 DEF Flow
<1>11. Flow(tReceiveInfo, mem, Stream, begun, sent, broken, delivered)
  BY <1>3, <1>10, Zenon
<1>12. delivered \in Seq(Delivery) /\ LengthsRight BY <1>2, <1>3 DEF LengthsRight
<1> QED BY <1>1, <1>11, <1>12 DEF FInv, FlowInv

(* A packet is sent. *)
LEMMA SendStep ==
  ASSUME FInv, ~overtaken, NEW p \in SomePacket, packets' = Append(packets, p),
         UNCHANGED <<reads, mem, posted, tReceiveInfo, delivered, overtaken>>,
         ControlOK(begun', sent'), Sends(p, begun, sent, broken, begun', sent', broken')
  PROVE  FlowInv'
<1>1. /\ delivered \in Seq(Delivery) /\ LengthsRight
      /\ Flow(tReceiveInfo, mem, Stream, begun, sent, broken, delivered)
  BY DEF FInv, FlowInv
<1>2. ListOK(tReceiveInfo) /\ JInv BY <1>1 DEF Flow, FInv
<1>3. Stream \in Seq(SomePacket) /\ mem[LastNode] \in SomePacket /\ packets \in Seq(SomePacket)
  BY <1>2, StreamIs
<1>4. Flow(tReceiveInfo, mem, Append(Stream, p), begun', sent', broken', delivered)
  BY <1>1, <1>3, FlowAppend
<1>5. Completions' = Completions /\ LastNode' = LastNode BY DEF Completions, IsCompletion, LastNode
<1>6. Stream' = Append(Stream, p)
  <2>1. CASE Completions = {}
    <3>1. Stream = packets /\ Stream' = packets' BY <1>5, <2>1 DEF Stream
    <3> QED BY <3>1
  <2>2. CASE Completions # {}
    <3> DEFINE v == mem[LastNode]
    <3>1. Stream = <<v>> \o packets /\ Stream' = <<v>> \o packets'
      BY <1>5, <2>2 DEF Stream
    <3>2. v \in SomePacket BY <1>3
    <3> HIDE DEF v
    <3>3. <<v>> \o Append(packets, p) = Append(<<v>> \o packets, p) BY <1>3, <3>2
    <3> QED BY <3>1, <3>3
  <2> QED BY <2>1, <2>2
<1>7. LengthsRight' BY <1>1, <1>5 DEF LengthsRight
<1>8. Flow(tReceiveInfo', mem', Stream', begun', sent', broken', delivered')
  BY <1>4, <1>6, Zenon
<1> QED BY <1>1, <1>7, <1>8 DEF FlowInv

LEMMA FControllerStep ==
  ASSUME FInv, ~overtaken,
         \/ \E shape \in Shapes : Begin(shape)
         \/ \E m \in Open : Continue(m)
         \/ \E k \in Noise : MakeNoise(k)
  PROVE  FlowInv'
<1>1. ControlOK(begun, sent) BY DEF FInv, FlowInv, Flow
<1>2. begun \in Seq(Shapes) /\ Open = {m \in 1 .. Len(begun) : sent[m] < Len(begun[m].segs)}
  BY <1>1 DEF ControlOK, Open
<1>3. ASSUME NEW shape \in Shapes, Begin(shape) PROVE FlowInv'
  <2> DEFINE p == SegmentOf(Len(begun) + 1, shape, 1)
  <2>1. /\ packets' = Append(packets, p) /\ begun' = Append(begun, shape) /\ sent' = Append(sent, 1)
        /\ broken' = broken \cup Open /\ \A m \in Open : begun[m].hdr # shape.hdr
        /\ UNCHANGED <<reads, mem, posted, tReceiveInfo, delivered, overtaken>>
    BY <1>3 DEF Begin
  <2>2. p \in SomePacket /\ ControlOK(begun', sent')
        /\ Sends(p, begun, sent, broken, begun', sent', broken')
    BY <1>1, <1>2, <2>1, BeginSends
  <2> HIDE DEF p
  <2> QED BY <2>1, <2>2, SendStep
<1>4. ASSUME NEW z \in Open, Continue(z) PROVE FlowInv'
  <2> DEFINE p == SegmentOf(z, begun[z], sent[z] + 1)
  <2>1. /\ packets' = Append(packets, p) /\ begun' = begun /\ sent' = [sent EXCEPT ![z] = @ + 1]
        /\ broken' = broken \cup (Open \ {z})
        /\ UNCHANGED <<reads, mem, posted, tReceiveInfo, delivered, overtaken>>
    BY <1>4 DEF Continue
  <2>2. p \in SomePacket /\ ControlOK(begun, sent')
        /\ Sends(p, begun, sent, broken, begun, sent', broken')
    BY <1>1, <1>2, <2>1, ContinueSends
  <2>3. ControlOK(begun', sent') /\ Sends(p, begun, sent, broken, begun', sent', broken')
    BY <2>1, <2>2, Zenon
  <2> HIDE DEF p
  <2> QED BY <2>1, <2>2, <2>3, SendStep
<1>5. ASSUME NEW k \in Noise, MakeNoise(k) PROVE FlowInv'
  <2> DEFINE p == NoisePacket(k)
  <2>1. /\ packets' = Append(packets, p) /\ begun' = begun /\ sent' = sent
        /\ broken' = IF k = "invalid" THEN broken \cup Open ELSE broken
        /\ UNCHANGED <<reads, mem, posted, tReceiveInfo, delivered, overtaken>>
    BY <1>5 DEF MakeNoise
  <2>2. p \in SomePacket /\ Sends(p, begun, sent, broken, begun, sent, broken')
    BY <1>1, <1>2, <2>1, NoiseSends
  <2>3. ControlOK(begun', sent') /\ Sends(p, begun, sent, broken, begun', sent', broken')
    BY <1>1, <2>1, <2>2, Zenon
  <2> HIDE DEF p
  <2> QED BY <2>1, <2>2, <2>3, SendStep
<1> QED BY <1>3, <1>4, <1>5

(* No step of the chain, but perhaps one of the messages. *)
LEMMA FUntouched ==
  ASSUME FInv, UNCHANGED <<begun, sent, packets, mem, tReceiveInfo, broken, delivered, overtaken>>,
         Completions' = {} <=> Completions = {}, LengthsRight => LengthsRight'
  PROVE  FlowInv'
<1>1. CASE overtaken BY <1>1 DEF FlowInv
<1>2. CASE ~overtaken
  <2>1. /\ delivered \in Seq(Delivery) /\ LengthsRight
        /\ Flow(tReceiveInfo, mem, Stream, begun, sent, broken, delivered)
    BY <1>2 DEF FInv, FlowInv
  <2>2. LastNode' = LastNode BY DEF LastNode
  <2>3. Stream' = Stream BY <2>2, Zenon DEF Stream
  <2>4. Flow(tReceiveInfo', mem', Stream', begun', sent', broken', delivered')
    BY <2>1, <2>3, Zenon
  <2> QED BY <2>1, <2>4 DEF FlowInv
<1> QED BY <1>1, <1>2

(* The buffers of the chain are not written to. *)
LEMMA HeldNotLast ==
  ASSUME NEW r, ListOK(r), NEW i \in Held(r)
  PROVE  r.list[i] # IF r.wPayloadSize = 0 THEN HeadBuffer ELSE Last(r.list)
<1> DEFINE l == r.list
<1>1. l \in Seq(AllBuffers) /\ Len(l) >= 1 /\ l[1] = HeadBuffer
      /\ \A a, b \in 1 .. Len(l) : l[a] = l[b] => a = b
  BY Zenon DEF ListOK
<1>2. CASE r.wPayloadSize = 0
  <2>1. i \in 2 .. Len(l) BY <1>2, Zenon DEF Held
  <2> HIDE DEF l
  <2>2. l[i] # HeadBuffer
    <3>1. Len(l) \in Nat BY <1>1
    <3>2. i \in 1 .. Len(l) /\ 1 \in 1 .. Len(l) /\ i # 1 BY <2>1, <3>1
    <3> QED BY <1>1, <3>2, Zenon
  <2> QED BY <1>2, <2>2, Zenon DEF l
<1>3. CASE r.wPayloadSize # 0
  <2>1. i \in 1 .. Len(l) - 1 BY <1>3, Zenon DEF Held
  <2> HIDE DEF l
  <2>2. l[i] # Last(l)
    <3>1. Len(l) \in Nat BY <1>1
    <3>2. i \in 1 .. Len(l) /\ Len(l) \in 1 .. Len(l) /\ i # Len(l) BY <2>1, <3>1
    <3> QED BY <1>1, <3>2, Zenon DEF Last
  <2> QED BY <1>3, <2>2, Zenon DEF l
<1> QED BY <1>2, <1>3

LEMMA FlowElsewhere ==
  ASSUME NEW r, NEW memory, NEW s, NEW B, NEW N, NEW X, NEW d, Flow(r, memory, s, B, N, X, d),
         NEW memory2, \A i \in Held(r) : memory2[r.list[i]] = memory[r.list[i]]
  PROVE  Flow(r, memory2, s, B, N, X, d)
<1>1. ControlOK(B, N) /\ ListOK(r) /\ Chain(r, memory, s, B, N, X) BY DEF Flow
<1>2. CASE Len(r.list) = 1
  <2>1. Chain(r, memory2, s, B, N, X) BY <1>1, <1>2 DEF Chain
  <2> QED BY <2>1 DEF Flow
<1>3. CASE Len(r.list) # 1
  <2>0. PICK m \in 1 .. Len(B) : \E k \in 1 .. N[m] :
          /\ StreamOK(<<SegmentOf(m, B[m], k)>> \o s, B, N, X)
          /\ Holds(r, memory, B, N, X, m, k)
          /\ Begun(s, B, N, X, m)
    BY <1>1, <1>3, Zenon DEF Chain
  <2>1. PICK k \in 1 .. N[m] :
          /\ StreamOK(<<SegmentOf(m, B[m], k)>> \o s, B, N, X)
          /\ Holds(r, memory, B, N, X, m, k)
          /\ Begun(s, B, N, X, m)
    BY <2>0
  <2>2. Holds(r, memory2, B, N, X, m, k) BY <1>1, <2>1, HoldsElsewhere
  <2>3. Chain(r, memory2, s, B, N, X) BY <1>3, <2>1, <2>2, Zenon DEF Chain
  <2> QED BY <2>3, Zenon DEF Flow
<1> QED BY <1>2, <1>3

(* The transport layer writes the next packet into the last buffer. *)
LEMMA FReceiveStep == FInv /\ ~overtaken /\ Receive => FlowInv'
<1> SUFFICES ASSUME FInv, ~overtaken, Receive PROVE FlowInv' OBVIOUS
<1> DEFINE c == Completion(Head(reads), Len(Head(packets).bytes))
<1>1. /\ delivered \in Seq(Delivery) /\ LengthsRight /\ JInv /\ ListOK(tReceiveInfo)
      /\ Flow(tReceiveInfo, mem, Stream, begun, sent, broken, delivered)
  BY DEF FInv, FlowInv, Flow
<1>2. /\ packets \in Seq(SomePacket) /\ packets # <<>> /\ packets' = Tail(packets)
      /\ posted \in Seq(Posts) /\ posted' = Append(posted, c) /\ reads # <<>>
      /\ mem' = [mem EXCEPT ![Head(reads)] = Head(packets)]
      /\ UNCHANGED <<begun, sent, tReceiveInfo, broken, delivered, overtaken>>
      /\ mem \in [AllBuffers -> SomePacket] /\ tReceiveInfo \in ChainType
  BY <1>1 DEF JInv, IInv, ControllerInv, QueuesInv, ChainInv, Receive, nfcc, history
<1>3. reads = <<LastNode>> /\ Completions = {}
  BY <1>1, <1>2 DEF JInv, OnlyReadIntoChain, ReadIntoChain
<1>4. /\ Stream = packets /\ LastNode \in AllBuffers /\ Head(reads) = LastNode
      /\ Head(packets) \in SomePacket /\ <<Head(packets)>> \o Tail(packets) = packets
  BY <1>1, <1>2, <1>3, StreamIs
<1>5. mem'[LastNode] = Head(packets) /\ LastNode' = LastNode
  <2>1. mem'[LastNode] = Head(packets) BY <1>2, <1>4
  <2>2. LastNode' = LastNode BY <1>2 DEF LastNode
  <2> QED BY <2>1, <2>2
<1>6. c \in Posts /\ c.buf = LastNode /\ c.len = Len(Head(packets).bytes) /\ IsCompletion(c)
  <2>1. Len(Head(packets).bytes) \in Nat BY <1>4 DEF SomePacket
  <2>2. NoBuffer \notin AllBuffers
    BY RecvAssumption DEF RecvAssumption, AllBuffers, NoBuffer, HeadBuffer
  <2> QED BY <1>4, <2>1, <2>2 DEF Completion, Posts, IsCompletion
<1> HIDE DEF c
<1>7. /\ Len(posted) + 1 \in DOMAIN posted' /\ posted'[Len(posted) + 1] = c
      /\ \A i \in DOMAIN posted' : \/ i \in DOMAIN posted /\ posted'[i] = posted[i]
                                   \/ i = Len(posted) + 1
  BY <1>2, <1>6
<1>8. Len(posted) + 1 \in Completions' /\ \A i \in Completions' : posted'[i] = c
  BY <1>3, <1>6, <1>7 DEF Completions, IsCompletion
<1>9. Stream' = Stream
  <2>1. Stream' = <<mem'[LastNode']>> \o packets' BY <1>8 DEF Stream
  <2> QED BY <1>2, <1>4, <1>5, <2>1, Zenon
<1>10. LengthsRight'
  <2>1. \A i \in Completions' : posted'[i].len = Len(mem'[posted'[i].buf].bytes)
    BY <1>5, <1>6, <1>8, Zenon
  <2> QED BY <2>1 DEF LengthsRight
<1>11. ASSUME NEW i \in Held(tReceiveInfo)
       PROVE  mem'[tReceiveInfo.list[i]] = mem[tReceiveInfo.list[i]]
  <2>1. tReceiveInfo.list[i] # LastNode BY <1>1, HeldNotLast DEF LastNode
  <2> QED BY <1>2, <1>4, <2>1
<1>12. Flow(tReceiveInfo, mem', Stream, begun, sent, broken, delivered)
  BY <1>1, <1>11, FlowElsewhere
<1>13. Flow(tReceiveInfo', mem', Stream', begun', sent', broken', delivered')
  BY <1>2, <1>9, <1>12, Zenon
<1>14. delivered' \in Seq(Delivery) BY <1>1, <1>2
<1> QED BY <1>10, <1>13, <1>14, Zenon DEF FlowInv

(* What the read is opened with after the chain was emptied *)
LEMMA EmptyRecv ==
  ASSUME NEW r \in ChainType, NEW open, CoreRecv(DeleteList(r), open)
  PROVE  tReceiveInfo'.list = <<HeadBuffer>> /\ tReceiveInfo'.wPayloadSize = 0
<1> DEFINE o == DeleteList(r)
<1>1. o.list = <<HeadBuffer>> /\ o.wPayloadSize = 0 BY DEF DeleteList, ChainType
<1>2. PICK b : tReceiveInfo' = GetNewNode(o, b) BY DEF CoreRecv
<1> HIDE DEF o
<1>3. tReceiveInfo' = o BY <1>1, <1>2 DEF GetNewNode
<1> QED BY <1>1, <1>3

(* Steps of the timer that leave the chain alone, and no step. *)
LEMMA FTimerStep ==
  ASSUME FInv, Expire \/ (\E h \in Answers : Request(h)) \/ UNCHANGED vars
  PROVE  FlowInv'
<1>1. UNCHANGED <<begun, sent, packets, mem, tReceiveInfo, broken, delivered, overtaken>>
  BY DEF Expire, Request, vars, nfcc, wire, history
<1>2. CASE posted' = posted
  <2>1. Completions' = Completions BY <1>2 DEF Completions, IsCompletion
  <2>2. LengthsRight => LengthsRight' BY <1>1, <1>2, <2>1 DEF LengthsRight
  <2> QED BY <1>1, <2>1, <2>2, FUntouched
<1>3. CASE posted' = Append(posted, Expiry)
  <2>1. Expiry \in Posts /\ ~IsCompletion(Expiry)
    BY DEF Expiry, Posts, IsCompletion
  <2>2. posted \in Seq(Posts) BY DEF FInv, JInv, IInv, QueuesInv
  <2> HIDE DEF Expiry
  <2>3. \A i \in DOMAIN posted' : i \in DOMAIN posted \/ (i = Len(posted) + 1 /\ posted'[i] = Expiry)
    BY <1>3, <2>1, <2>2
  <2>4. \A i \in DOMAIN posted : i \in DOMAIN posted' /\ posted'[i] = posted[i]
    BY <1>3, <2>1, <2>2, AppendKeeps
  <2>5. Completions' = Completions /\ \A i \in Completions : posted'[i] = posted[i]
    BY <2>1, <2>3, <2>4 DEF Completions, IsCompletion
  <2>6. LengthsRight => LengthsRight' BY <1>1, <2>5 DEF LengthsRight
  <2> QED BY <1>1, <2>5, <2>6, FUntouched
<1>4. posted' = posted \/ posted' = Append(posted, Expiry)
  BY DEF Expire, Request, vars
<1> QED BY <1>2, <1>3, <1>4

(* The chain that a timeout empties is of a message that is broken then. *)
LEMMA FRspTimeOutCbStep == FInv /\ ~overtaken /\ RspTimeOutCb => FlowInv'
<1> SUFFICES ASSUME FInv, ~overtaken, RspTimeOutCb PROVE FlowInv' OBVIOUS
<1>1. /\ posted \in Seq(Posts) /\ posted # <<>> /\ posted' = Tail(posted)
      /\ ~IsCompletion(posted[1])
  BY DEF RspTimeOutCb, FInv, JInv, IInv, QueuesInv
<1>2. UNCHANGED <<begun, sent, packets, mem, delivered>>
  BY DEF RspTimeOutCb, nfcc
<1>3. /\ \A k \in Completions' : k + 1 \in Completions /\ posted'[k] = posted[k + 1]
      /\ \A k \in Completions : k - 1 \in Completions'
  <2>1. \A k \in DOMAIN posted' : k + 1 \in DOMAIN posted /\ posted'[k] = posted[k + 1]
    BY <1>1
  <2>2. \A k \in DOMAIN posted : k # 1 => k - 1 \in DOMAIN posted' /\ posted'[k - 1] = posted[k]
    BY <1>1
  <2> QED BY <1>1, <2>1, <2>2 DEF Completions, IsCompletion
<1>4. CASE ~timer.fired
  <2>1. UNCHANGED <<tReceiveInfo, broken, overtaken>> BY <1>4 DEF RspTimeOutCb
  <2>2. Completions' = {} <=> Completions = {} BY <1>3
  <2>3. LengthsRight => LengthsRight' BY <1>2, <1>3 DEF LengthsRight
  <2> QED BY <1>2, <2>1, <2>2, <2>3, FUntouched
<1>5. CASE timer.fired
  <2>1. /\ CoreRecv(DeleteList(tReceiveInfo), <<>>) /\ broken' = broken \cup Chained \cup Open
        /\ overtaken' = (overtaken \/ Completions # {})
    BY <1>5 DEF RspTimeOutCb, Reopen, ReadAbort
  <2>2. CASE Completions # {} BY <2>1, <2>2 DEF FlowInv
  <2>3. CASE Completions = {}
    <3>1. /\ delivered \in Seq(Delivery) /\ JInv /\ ListOK(tReceiveInfo)
          /\ Flow(tReceiveInfo, mem, Stream, begun, sent, broken, delivered)
      BY DEF FInv, FlowInv, Flow
    <3>2. tReceiveInfo \in ChainType BY <3>1 DEF JInv, ChainInv
    <3>3. tReceiveInfo'.list = <<HeadBuffer>> /\ tReceiveInfo'.wPayloadSize = 0
      BY <2>1, <3>2, EmptyRecv
    <3>4. ASSUME tReceiveInfo.wPayloadSize # 0
          PROVE  \A i \in Held(tReceiveInfo) : mem[tReceiveInfo.list[i]].msg \in broken'
      <4> DEFINE l == tReceiveInfo.list
                 f == Front(l)
      <4>1. Len(l) # 1 BY <3>1, <3>4, Zenon DEF ListOK
      <4>2. /\ l \in Seq(AllBuffers) /\ Len(l) >= 1 /\ Len(l) \in Nat
        BY <3>1, <4>1, LongIs
      <4>3. Held(tReceiveInfo) = 1 .. Len(l) - 1 BY <3>4, Zenon DEF Held
      <4>4. Chained = {mem[b].msg : b \in Range(f)} BY <3>4 DEF Chained
      <4> HIDE DEF l
      <4>5. /\ f \in Seq(AllBuffers) /\ Len(f) = Len(l) - 1
            /\ \A i \in 1 .. Len(f) : f[i] = l[i]
        BY <4>1, <4>2, FrontIs
      <4> HIDE DEF f
      <4>6. \A i \in 1 .. Len(f) : f[i] \in Range(f) BY <4>5 DEF Range
      <4>7. \A i \in 1 .. Len(l) - 1 : mem[l[i]].msg \in Chained
        BY <4>4, <4>5, <4>6
      <4>8. \A i \in Held(tReceiveInfo) : mem[l[i]].msg \in broken' BY <2>1, <4>3, <4>7
      <4> QED BY <4>8 DEF l
    <3>5. broken \subseteq broken' BY <2>1
    <3>6. Stream \in Seq(SomePacket) /\ Stream = packets BY <2>3, <3>1, StreamIs
    <3>7. Flow(tReceiveInfo', mem, Stream, begun, sent, broken', delivered)
      BY <3>1, <3>3, <3>4, <3>5, <3>6, TimeoutStep
    <3>8. Completions' = {} BY <1>3, <2>3
    <3>9. Stream' = Stream BY <1>2, <3>6, <3>8 DEF Stream
    <3>10. LengthsRight' BY <3>8 DEF LengthsRight
    <3>11. Flow(tReceiveInfo', mem', Stream', begun', sent', broken', delivered')
      BY <1>2, <3>7, <3>9, Zenon
    <3>12. delivered' \in Seq(Delivery) BY <1>2, <3>1
    <3> QED BY <3>10, <3>11, <3>12, Zenon DEF FlowInv
  <2> QED BY <2>2, <2>3
<1> QED BY <1>4, <1>5

LEMMA InterruptsIs ==
  ASSUME NEW r, ListOK(r), NEW p
  PROVE  Interrupts(r, p) <=> Len(r.list) # 1 /\ p.hdr # r.HeaderInfo
<1> DEFINE l == r.list
           z == Len(l)
<1>1. l \in Seq(AllBuffers) /\ z >= 1 BY Zenon DEF ListOK
<1> HIDE DEF l
<1>2. z \in Nat BY <1>1
<1> HIDE DEF z
<1>3. z > 1 <=> z # 1 BY <1>1, <1>2
<1>4. Len(r.list) = z BY Zenon DEF z, l
<1>5. Len(r.list) > 1 <=> Len(r.list) # 1 BY <1>3, <1>4, Zenon
<1> QED BY <1>5, Zenon DEF Interrupts, Expected

(* A packet is handled. *)
LEMMA FCoreRecvCbStep == FInv /\ ~overtaken /\ CoreRecvCb => FlowInv'
<1> SUFFICES ASSUME FInv, ~overtaken, CoreRecvCb PROVE FlowInv' OBVIOUS
<1> DEFINE p == mem[Head(posted).buf]
           n == Head(posted).len
           R == tReceiveInfo
<1>1. /\ delivered \in Seq(Delivery) /\ LengthsRight /\ JInv /\ ListOK(R)
      /\ ControlOK(begun, sent) /\ Deliveries(delivered, Stream, begun, sent, broken)
      /\ Flow(R, mem, Stream, begun, sent, broken, delivered)
  BY DEF FInv, FlowInv, Flow
<1>2. /\ posted \in Seq(Posts) /\ posted # <<>> /\ posted' = Tail(posted)
      /\ IsCompletion(posted[1]) /\ Head(posted) = posted[1]
      /\ R \in ChainType /\ ReadIntoChain
      /\ UNCHANGED <<begun, sent, packets, broken, overtaken>>
  BY <1>1 DEF CoreRecvCb, JInv, IInv, QueuesInv, ChainInv, OnlyReadIntoChain, nfcc
<1>3. 1 \in Completions BY <1>2 DEF Completions
<1>4. p = mem[LastNode] /\ n = Len(p.bytes)
  <2>1. posted[1].buf = LastNode BY <1>2, <1>3 DEF ReadIntoChain
  <2>2. posted[1].len = Len(mem[posted[1].buf].bytes) BY <1>1, <1>3 DEF LengthsRight
  <2> QED BY <1>2, <2>1, <2>2, Zenon
<1>5. Completions' = {} BY <1>2, TakenWasOnly DEF ReadIntoChain
<1>6. /\ Stream = <<p>> \o packets /\ Stream \in Seq(SomePacket) /\ p \in SomePacket
      /\ packets \in Seq(SomePacket)
  BY <1>1, <1>3, <1>4, StreamIs
<1>7. Stream # <<>> /\ Stream[1] = p /\ Tail(Stream) = packets
  BY <1>6, ConsIs
<1>8. Stream' = Tail(Stream) /\ LengthsRight'
  BY <1>2, <1>5, <1>7 DEF Stream, LengthsRight
<1>9. p.hdr \in Headers \cup {NoHeader} /\ n \in Nat
  BY <1>4, <1>6 DEF SomePacket
<1> DEFINE Fine == /\ delivered' \in Seq(Delivery)
                   /\ Flow(tReceiveInfo', mem', Tail(Stream), begun, sent, broken, delivered')
<1>10. ASSUME Fine PROVE FlowInv'
  <2>1. Flow(tReceiveInfo', mem', Stream', begun', sent', broken', delivered')
    BY <1>2, <1>8, <1>10, Zenon
  <2> QED BY <1>8, <1>10, <2>1, Zenon DEF FlowInv
<1>11. CASE ~Valid(p, n)
  <2>1. Drop(p)
    BY <1>11 DEF CoreRecvCb
  <2>2. ~IsSeg(Stream[1]) BY <1>4, <1>7, <1>11 DEF Valid, IsSeg
  <2>3. delivered' = delivered BY <2>1 DEF Drop
  <2>4. CASE p.kind = "ignored"
    <3>1. mem' = mem BY <2>1, <2>4 DEF Drop
    <3>2. CoreRecv(RemoveLastChainedNode(R), reads) BY <2>1, <2>4 DEF Drop
    <3> DEFINE o == RemoveLastChainedNode(R)
    <3>3. PICK b \in IF o.wPayloadSize = 0 THEN {HeadBuffer} ELSE Buffers \ Range(o.list) :
            tReceiveInfo' = GetNewNode(o, b)
      BY <3>2 DEF CoreRecv
    <3>4. b \in AllBuffers BY <3>3 DEF AllBuffers
    <3>5. R.wPayloadSize # 0 => b \notin Range(Front(R.list))
      <4> SUFFICES ASSUME R.wPayloadSize # 0 PROVE b \notin Range(Front(R.list)) OBVIOUS
      <4> DEFINE l == R.list
                 f == Front(l)
      <4>1. Len(l) # 1 BY <1>1, Zenon DEF ListOK
      <4>2. Len(l) \in Nat /\ Len(l) >= 2 BY <1>1, <4>1, LongIs
      <4>3. Len(l) > 1
        <5> HIDE DEF l
        <5> QED BY <4>2
      <4>4. o = [R EXCEPT !.list = f] BY <4>3 DEF RemoveLastChainedNode
      <4> HIDE DEF f, o
      <4>5. o.list = f /\ o.wPayloadSize = R.wPayloadSize BY <1>2, <4>4 DEF ChainType
      <4>6. b \notin Range(f) BY <3>3, <4>5
      <4> QED BY <4>6 DEF f
    <3> HIDE DEF o
    <3>6. Flow(tReceiveInfo', mem, Tail(Stream), begun, sent, broken, delivered)
      <4>1. tReceiveInfo' = GetNewNode(RemoveLastChainedNode(R), b) BY <3>3 DEF o
      <4> QED BY <1>1, <1>2, <1>6, <1>7, <2>2, <3>4, <3>5, <4>1, IgnoredStep
    <3> QED BY <1>1, <1>10, <2>3, <3>1, <3>6, Zenon
  <2>5. CASE p.kind # "ignored"
    <3>1. CoreRecv(DeleteList(R), reads) BY <2>1, <2>5 DEF Drop
    <3>2. tReceiveInfo'.list = <<HeadBuffer>> /\ tReceiveInfo'.wPayloadSize = 0
      BY <1>2, <3>1, EmptyRecv
    <3>3. Stream[1].kind # "ignored" BY <1>7, <2>5, Zenon
    <3>4. Flow(tReceiveInfo', mem', Tail(Stream), begun, sent, broken, delivered)
      BY <1>1, <1>6, <1>7, <2>2, <3>2, <3>3, InvalidStep
    <3> QED BY <1>1, <1>10, <2>3, <3>4, Zenon
  <2> QED BY <2>4, <2>5
<1>12. CASE Valid(p, n)
  <2> DEFINE anew == Interrupts(R, p)
             o == IF anew THEN DeleteList(R) ELSE R
             q == AddSegment([o EXCEPT !.HeaderInfo = p.hdr], n)
  <2>1. /\ mem' = IF anew THEN [mem EXCEPT ![HeadBuffer] = p] ELSE mem
        /\ IF p.pbf THEN Collect(q) ELSE Deliver(q, mem')
    BY <1>12 DEF CoreRecvCb
  <2>2. IsSeg(Stream[1]) BY <1>7, <1>12 DEF Valid, IsSeg
  <2>3. q = Added(o, Stream[1].hdr, Len(Stream[1].bytes))
    BY <1>4, <1>7, Zenon DEF Added
  <2>4. o \in ChainType BY <1>2, ChainOps
  <2> HIDE DEF q
  <2>5. q \in ChainType
    <3>1. q = Added(o, p.hdr, n) BY <1>4, <1>7, <2>3, Zenon
    <3> HIDE DEF o, p, n
    <3> QED BY <1>9, <2>4, <3>1, AddIs
  <2>6. \/ /\ Len(R.list) # 1 /\ Stream[1].hdr # R.HeaderInfo
           /\ o.list = <<HeadBuffer>> /\ o.wPayloadSize = 0 /\ mem'[HeadBuffer] = Stream[1]
        \/ /\ Len(R.list) = 1 \/ Stream[1].hdr = R.HeaderInfo
           /\ o = R /\ mem' = mem
    <3>1. anew <=> Len(R.list) # 1 /\ p.hdr # R.HeaderInfo BY <1>1, InterruptsIs
    <3>2. CASE anew
      <4>1. Len(R.list) # 1 /\ p.hdr # R.HeaderInfo
        BY <3>1, <3>2, Zenon
      <4>2. o = DeleteList(R) /\ mem' = [mem EXCEPT ![HeadBuffer] = p] BY <2>1, <3>2
      <4>3. o.list = <<HeadBuffer>> /\ o.wPayloadSize = 0
        BY <1>2, <4>2 DEF DeleteList, ChainType
      <4>4. mem \in [AllBuffers -> SomePacket] /\ HeadBuffer \in AllBuffers
        BY <1>1 DEF JInv, ChainInv, AllBuffers
      <4>5. mem'[HeadBuffer] = p
        <5> HIDE DEF p
        <5> QED BY <4>2, <4>4
      <4> QED BY <1>7, <4>1, <4>3, <4>5, Zenon
    <3>3. CASE ~anew
      <4>1. o = R /\ mem' = mem BY <2>1, <3>3
      <4>2. Len(R.list) = 1 \/ p.hdr = R.HeaderInfo
        BY <3>1, <3>3, Zenon
      <4> QED BY <1>7, <4>1, <4>2, Zenon
    <3> QED BY <3>2, <3>3
  <2>7. mem[IF R.wPayloadSize = 0 THEN HeadBuffer ELSE Last(R.list)] = Stream[1]
    BY <1>4, <1>7, Zenon DEF LastNode
  <2> HIDE DEF o, anew
  <2>8. /\ StreamOK(Stream, begun, sent, broken)
        /\ Full(q, mem', begun, sent, broken, Stream[1])
        /\ \/ Begun(Stream, begun, sent, broken, 0)
           \/ Begun(Stream, begun, sent, broken, Stream[1].msg)
    BY <1>1, <1>2, <1>6, <1>7, <2>2, <2>3, <2>4, <2>6, <2>7, AddedFull, ZenonT(30)
  <2>9. CASE p.pbf
    <3>1. Collect(q) BY <2>1, <2>9
    <3>2. PICK b \in IF q.wPayloadSize = 0 THEN {HeadBuffer} ELSE Buffers \ Range(q.list) :
            tReceiveInfo' = GetNewNode(q, b)
      BY <3>1 DEF Collect, CoreRecv
    <3>3. delivered' = delivered BY <3>1 DEF Collect
    <3>4. Stream[1].pbf BY <1>7, <2>9, Zenon
    <3>5. Flow(tReceiveInfo', mem', Tail(Stream), begun, sent, broken, delivered)
      BY <1>1, <1>6, <1>7, <2>2, <2>5, <2>8, <3>2, <3>4, CollectStep
    <3> QED BY <1>1, <1>10, <3>3, <3>5, Zenon
  <2>10. CASE ~p.pbf
    <3>1. Deliver(q, mem') BY <2>1, <2>10
    <3>2. CoreRecv(DeleteList(q), reads) /\ delivered' = Handed(delivered, q, mem')
      BY <3>1, Zenon DEF Deliver, Handed
    <3>3. tReceiveInfo'.list = <<HeadBuffer>> /\ tReceiveInfo'.wPayloadSize = 0
      BY <2>5, <3>2, EmptyRecv
    <3>4. ~Stream[1].pbf BY <1>7, <2>10, Zenon
    <3>5. /\ Handed(delivered, q, mem') \in Seq(Delivery)
          /\ Flow(tReceiveInfo', mem', Tail(Stream), begun, sent, broken, Handed(delivered, q, mem'))
      BY <1>1, <1>6, <1>7, <2>2, <2>5, <2>8, <3>3, <3>4, LastStep
    <3> QED BY <1>10, <3>2, <3>5, Zenon
  <2> QED BY <2>9, <2>10
<1> QED BY <1>11, <1>12

LEMMA FStepHolds == FInv /\ [Next]_vars => FInv'
<1> SUFFICES ASSUME FInv, [Next]_vars PROVE FInv' OBVIOUS
<1>1. JInv' BY JStepHolds DEF FInv
<1>2. FlowInv'
  <2>1. CASE overtaken
    <3>1. overtaken'
      BY <2>1 DEF Next, Begin, Continue, MakeNoise, Receive, CoreRecvCb, Request, Expire,
                  RspTimeOutCb, vars, history
    <3> QED BY <3>1 DEF FlowInv
  <2>2. CASE ~overtaken
    BY <2>2, FControllerStep, FReceiveStep, FCoreRecvCbStep, FRspTimeOutCbStep, FTimerStep DEF Next
  <2> QED BY <2>1, <2>2
<1> QED BY <1>1, <1>2 DEF FInv

(* The chain and what is still to be handled are always a tail of what was sent. *)
LEMMA FlowHolds == Spec => []FInv
BY FInitHolds, FStepHolds, PTL DEF Spec

LEMMA WholeIs ==
  ASSUME ControlOK(begun, sent), NEW m \in DOMAIN begun
  PROVE  /\ Whole(m) = All(begun, m) /\ m \in 1 .. Len(begun)
         /\ Fits(m) /\ Copied(m) <=> Counts(begun, m)
<1> DEFINE g == begun[m].segs
           l == Len(g)
<1>1. m \in 1 .. Len(begun) BY DEF ControlOK
<1>2. g \in Seq(Nat) /\ l \in Nat BY <1>1, ShapeIs
<1>3. Segs(g, m, 0, l) = [k \in DOMAIN g |-> Bytes(m, k, g[k])]
  <2> HIDE DEF g
  <2>1. DOMAIN g = 1 .. l BY <1>2
  <2>2. \A k \in 1 .. l : 0 + k = k BY <1>2
  <2> HIDE DEF l
  <2>3. \A k \in 1 .. l : Bytes(m, 0 + k, g[0 + k]) = Bytes(m, k, g[k]) BY <2>2, Zenon
  <2>4. [k \in 1 .. l |-> Bytes(m, 0 + k, g[0 + k])] = [k \in 1 .. l |-> Bytes(m, k, g[k])]
    BY <2>3
  <2> QED BY <2>1, <2>4, Zenon DEF Segs
<1>4. Whole(m) = Part(g, m, 0, l) BY <1>3, Zenon DEF Whole, Part
<1>5. Fits(m) <=> Len(Part(g, m, 0, l)) + l * HEADER_LEN < SizeLimit
  BY <1>4, Zenon DEF Fits
<1> QED BY <1>1, <1>4, <1>5, Zenon DEF All, Copied, Counts

LEMMA GotIs == \A m : Got(m) = Has(delivered, m)
BY DEF Got, Has, HasByte

(***************************************************************************)
(* What is delivered of a message that fits is the message, whole, once and*)
(* under its own header, or its end when it was broken: for any messages,  *)
(* noise, buffers and timeouts, as long as no expiry is handled with a     *)
(* completion behind it.                                                   *)
(***************************************************************************)
THEOREM DeliveredWholeHolds == Spec => []DeliveredWhole
<1>1. FInv => DeliveredWhole
  <2> SUFFICES ASSUME FInv, ~overtaken, NEW m \in DOMAIN begun, Fits(m), Copied(m), NEW i \in Got(m)
               PROVE  /\ delivered[i].hdr = begun[m].hdr
                      /\ \A j \in Got(m) : j = i
                      /\ \/ delivered[i].bytes = Whole(m)
                         \/ m \in broken /\ IsSuffix(delivered[i].bytes, Whole(m))
    BY DEF DeliveredWhole
  <2>1. ControlOK(begun, sent) /\ Right(delivered, begun, broken)
    BY DEF FInv, FlowInv, Flow, Deliveries
  <2>2. m \in 1 .. Len(begun) /\ Counts(begun, m) /\ Whole(m) = All(begun, m) BY <2>1, WholeIs
  <2>3. i \in Has(delivered, m) BY GotIs
  <2>4. /\ delivered[i].hdr = begun[m].hdr /\ \A j \in Has(delivered, m) : j = i
        /\ \/ delivered[i].bytes = All(begun, m)
           \/ m \in broken /\ IsSuffix(delivered[i].bytes, All(begun, m))
    BY <2>1, <2>2, <2>3, Zenon DEF Right
  <2> QED BY <2>2, <2>4, GotIs, Zenon
<1> QED BY <1>1, FlowHolds, PTL

(***************************************************************************)
(* Once all packets are handled, every complete message that fits and whose*)
(* last segment has payload is delivered, or its end.                      *)
(***************************************************************************)
THEOREM NothingLostHolds == Spec => []NothingLost
<1>1. FInv => NothingLost
  <2> SUFFICES ASSUME FInv, packets = <<>>, Completions = {}, ~overtaken,
                      NEW m \in DOMAIN begun \ Open, Fits(m), Copied(m), Last(begun[m].segs) # 0
               PROVE  Got(m) # {}
    BY DEF NothingLost
  <2>1. ControlOK(begun, sent) /\ Ends(delivered, Stream, begun, sent)
    BY DEF FInv, FlowInv, Flow, Deliveries
  <2>2. m \in 1 .. Len(begun) /\ Counts(begun, m) BY <2>1, WholeIs
  <2>3. sent[m] = Len(begun[m].segs)
    <3>1. sent[m] \in 1 .. Len(begun[m].segs) /\ Len(begun[m].segs) \in Nat BY <2>1, <2>2, ShapeIs
    <3>2. ~(sent[m] < Len(begun[m].segs)) BY DEF Open
    <3> QED BY <3>1, <3>2
  <2>4. Stream = <<>> BY DEF Stream
  <2>5. \A i \in 1 .. Len(Stream) : FALSE BY <2>4
  <2>6. Has(delivered, m) # {} BY <2>1, <2>2, <2>3, <2>5, Zenon DEF Ends
  <2> QED BY <2>6, GotIs
<1> QED BY <1>1, FlowHolds, PTL
=============================================================================
