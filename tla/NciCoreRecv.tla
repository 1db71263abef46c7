---------------------------- MODULE NciCoreRecv ----------------------------
(***************************************************************************)
(* The receiving side of the NCI core (libs/NfcCoreLib/lib/NciCore): the   *)
(* receive state machine (phNciNfc_CoreRecv.c), the chain of buffers in    *)
(* which segments are collected (phNciNfc_CoreMemMgr.c), the read request  *)
(* that is always open at the transport layer (phNciNfc_Core.c) and the    *)
(* delivery of a message (phNciNfc_CoreRecvMgr.c).                         *)
(*                                                                         *)
(* The core runs on the LibNfc thread.  The transport layer writes a       *)
(* packet into the buffer of a read at once and posts a message; what it   *)
(* races with is the message of the response timer, which aborts the read  *)
(* and empties the chain.                                                  *)
(*                                                                         *)
(* A header stands for message type with group and opcode, or connection.  *)
(* A byte stands for its message, its segment and its place there.  The    *)
(* memory manager may hand out a freed buffer again; memory never runs     *)
(* out, and the core is not released.                                      *)
(***************************************************************************)
EXTENDS Integers, Sequences, FiniteSets, SequencesExt

CONSTANTS Shapes,      \* messages of the controller: header and payload of each segment
          Answers,     \* headers an exchange waits for: responses and data
          NoHeader,    \* a header no message has
          Noise,       \* kinds of packets that are no segments: "ignored", "invalid"
          Buffers,     \* buffers the memory manager may hand out
          SizeLimit,   \* 2^16: wPayloadSize counts modulo this
          Interleaves, \* the controller begins a message while it sends another
          MaxMessages, MaxNoise, MaxRequests \* bounds

HEADER_LEN == 3
HeadBuffer == 0 \* ListHead, the part of the chain that is not allocated
NoBuffer == -1

ASSUME RecvAssumption ==
  /\ \A s \in Shapes : s.hdr # NoHeader /\ s.segs \in Seq(Nat) /\ s.segs # <<>>
  /\ Answers \subseteq {s.hdr : s \in Shapes}
  /\ Noise \subseteq {"ignored", "invalid"}
  /\ HeadBuffer \notin Buffers /\ NoBuffer \notin Buffers
  /\ SizeLimit \in Nat \ {0}
  /\ Interleaves \in BOOLEAN
  /\ {MaxMessages, MaxNoise, MaxRequests} \subseteq Nat

VARIABLES
  begun,    \* the messages the controller began, in this order
  sent,     \* segments of each of them that were sent
  noise,    \* packets sent that are no segments
  packets,  \* packets the transport layer holds, no read being open
  reads,    \* buffers of the reads open at the transport layer
  mem,      \* what was last written into each buffer
  posted,   \* messages of the LibNfc thread: read completions, expiries
  CurrState,   \* RecvStateContext.CurrState
  tReceiveInfo,\* the chain: see ChainType
  timer,    \* TimerInfo: see TimerType
  requests, \* exchanges the upper layer waited for
  delivered,\* messages handed to the upper layer
  broken,   \* messages whose segments were not received one after the other
  overtaken \* an expiry was handled with a read completion behind it

nfcc == <<begun, sent, noise>>
wire == <<packets, reads, mem>>
history == <<delivered, broken, overtaken>>
vars == <<nfcc, wire, posted, CurrState, tReceiveInfo, timer, requests, history>>

Headers == {s.hdr : s \in Shapes}
AllBuffers == Buffers \cup {HeadBuffer}
Message == 1 .. MaxMessages

(***************************************************************************)
(* A packet: its kind ("segment" or noise), which segment of which message *)
(* it is, whether more follow (the packet boundary flag) and its payload.  *)
(***************************************************************************)
Segment(m, k, h, more, bytes) ==
  [kind |-> "segment", msg |-> m, seg |-> k, hdr |-> h, pbf |-> more, bytes |-> bytes]
NoisePacket(k) ==
  [kind |-> k, msg |-> 0, seg |-> 0, hdr |-> NoHeader, pbf |-> FALSE, bytes |-> <<>>]

Byte == (0 .. MaxMessages) \X Nat \X Nat
Unset == <<0, 0, 0>> \* a byte nothing was written to

PacketType == [kind : {"segment", "ignored", "invalid"}, msg : 0 .. MaxMessages, seg : Nat,
               hdr : Headers \cup {NoHeader}, pbf : BOOLEAN, bytes : Seq(Byte)]

(***************************************************************************)
(* list: the buffers of the chain, wNumOfNodes of them;  lens: the payload *)
(* of each (tMem.wLen without the header);  wPayloadSize: bytes received,  *)
(* headers included;  HeaderInfo: the header of the last segment.          *)
(***************************************************************************)
ChainType == [list : Seq(AllBuffers), lens : [AllBuffers -> Nat],
              wPayloadSize : 0 .. SizeLimit - 1, HeaderInfo : Headers \cup {NoHeader}]

(* of: the header waited for;  fired: the timer went off and its message counts *)
TimerType == [of : Answers \cup {NoHeader}, fired : BOOLEAN]

(* A completed read, with the length the transport layer reports, or an expiry. *)
Completion(b, n) == [buf |-> b, len |-> n]
Expiry == [buf |-> NoBuffer, len |-> 0]
IsCompletion(p) == p.buf # NoBuffer
Completions == {i \in DOMAIN posted : IsCompletion(posted[i])}

TypeOK ==
  /\ begun \in Seq(Shapes)
  /\ sent \in Seq(Nat)
  /\ noise \in Nat
  /\ packets \in Seq(PacketType)
  /\ reads \in Seq(AllBuffers)
  /\ mem \in [AllBuffers -> PacketType]
  /\ posted \in Seq([buf : AllBuffers \cup {NoBuffer}, len : Nat])
  /\ CurrState \in {"Idle", "Recv"}
  /\ tReceiveInfo \in ChainType
  /\ timer \in TimerType
  /\ requests \in Nat
  /\ delivered \in Seq([hdr : Headers, bytes : Seq(Byte)])
  /\ broken \subseteq Message
  /\ overtaken \in BOOLEAN

(* phNciNfc_CoreRecvMgrInit, and phNciNfc_CoreReceiveManager_Init opens the first read. *)
Init ==
  /\ begun = <<>> /\ sent = <<>> /\ noise = 0
  /\ packets = <<>>
  /\ reads = <<HeadBuffer>>
  /\ mem = [b \in AllBuffers |-> NoisePacket("invalid")]
  /\ posted = <<>>
  /\ CurrState = "Idle"
  /\ tReceiveInfo = [list |-> <<HeadBuffer>>, lens |-> [b \in AllBuffers |-> 0],
                     wPayloadSize |-> 0, HeaderInfo |-> NoHeader]
  /\ timer = [of |-> NoHeader, fired |-> FALSE]
  /\ requests = 0
  /\ delivered = <<>> /\ broken = {} /\ overtaken = FALSE

-----------------------------------------------------------------------------
(* The controller *)

(* The bytes of the k-th segment of message m, which has n of them. *)
Bytes(m, k, n) == [i \in 1 .. n |-> <<m, k, i>>]

SegmentOf(m, shape, k) ==
  Segment(m, k, shape.hdr, k < Len(shape.segs), Bytes(m, k, shape.segs[k]))

Open == {m \in DOMAIN begun : sent[m] < Len(begun[m].segs)}

(* Begin a message, with its first segment ... *)
Begin(shape) ==
  /\ Len(begun) < MaxMessages
  /\ Interleaves \/ Open = {}
  /\ \A m \in Open : begun[m].hdr # shape.hdr
  /\ begun' = Append(begun, shape)
  /\ sent' = Append(sent, 1)
  /\ packets' = Append(packets, SegmentOf(Len(begun) + 1, shape, 1))
  /\ broken' = broken \cup Open
  /\ UNCHANGED <<noise, reads, mem, posted, CurrState, tReceiveInfo, timer, requests,
                 delivered, overtaken>>

(* ... and go on with it. *)
Continue(m) ==
  /\ m \in Open
  /\ sent' = [sent EXCEPT ![m] = @ + 1]
  /\ packets' = Append(packets, SegmentOf(m, begun[m], sent[m] + 1))
  /\ broken' = broken \cup (Open \ {m})
  /\ UNCHANGED <<begun, noise, reads, mem, posted, CurrState, tReceiveInfo, timer, requests,
                 delivered, overtaken>>

(***************************************************************************)
(* "ignored": a command or the notification of a transmission error;       *)
(* "invalid": an unknown message type, group or opcode, or a wrong length. *)
(***************************************************************************)
MakeNoise(k) ==
  /\ noise < MaxNoise
  /\ noise' = noise + 1
  /\ packets' = Append(packets, NoisePacket(k))
  /\ broken' = IF k = "invalid" THEN broken \cup Open ELSE broken
  /\ UNCHANGED <<begun, sent, reads, mem, posted, CurrState, tReceiveInfo, timer, requests,
                 delivered, overtaken>>

(***************************************************************************)
(* The transport layer: the first packet goes into the buffer of the first *)
(* read, and a message to the LibNfc thread.                               *)
(***************************************************************************)
Receive ==
  /\ packets # <<>> /\ reads # <<>>
  /\ packets' = Tail(packets)
  /\ reads' = Tail(reads)
  /\ mem' = [mem EXCEPT ![Head(reads)] = Head(packets)]
  /\ posted' = Append(posted, Completion(Head(reads), Len(Head(packets).bytes)))
  /\ UNCHANGED <<nfcc, CurrState, tReceiveInfo, timer, requests, history>>

-----------------------------------------------------------------------------
(* The chain of buffers *)

DeleteList(r) == [r EXCEPT !.list = <<HeadBuffer>>, !.wPayloadSize = 0]

(* The last buffer is dropped with the packet in it; the head is never dropped. *)
RemoveNoneMutant(r) == r
RemoveLastChainedNode(r) ==
  IF Len(r.list) > 1 /\ r.wPayloadSize # 0 THEN [r EXCEPT !.list = Front(@)] ELSE r

(* phNciNfc_CoreUpdatePacketLen and wPayloadSize for a segment of n bytes *)
AddSegment(r, n) ==
  [r EXCEPT !.lens[Last(r.list)] = n, !.wPayloadSize = (@ + HEADER_LEN + n) % SizeLimit]

(***************************************************************************)
(* phNciNfc_CoreRecv with phNciNfc_CoreGetNewNode: the head if nothing was *)
(* received, else a new buffer at the end of the chain.                    *)
(***************************************************************************)
GetNewNode(r, b) == IF r.wPayloadSize = 0 THEN r ELSE [r EXCEPT !.list = Append(@, b)]

CoreRecv(r, open) ==
  \E b \in IF r.wPayloadSize = 0 THEN {HeadBuffer} ELSE Buffers \ Range(r.list) :
    /\ tReceiveInfo' = GetNewNode(r, b)
    /\ reads' = Append(open, b)

(* The n payload bytes of buffer b. *)
Payload(b, n, memory) ==
  [i \in 1 .. n |-> IF i <= Len(memory[b].bytes) THEN memory[b].bytes[i] ELSE Unset]

(* phNciNfc_CoreGetDataLength: negative when it fails *)
DataLength(r) == r.wPayloadSize - ((Len(r.list) * HEADER_LEN) % SizeLimit)

(***************************************************************************)
(* phNciNfc_CoreExtractData: buffer after buffer, and not beyond one       *)
(* without payload.  The rest of the memory the message is copied to is    *)
(* whatever it was.                                                        *)
(***************************************************************************)
Extract(r, memory) ==
  LET empty == {i \in DOMAIN r.list : r.lens[r.list[i]] = 0}
      last == IF empty = {} THEN Len(r.list) ELSE (CHOOSE i \in empty : \A j \in empty : i <= j) - 1
      bytes == FlattenSeq([i \in 1 .. last |-> Payload(r.list[i], r.lens[r.list[i]], memory)])
  IN  [i \in 1 .. DataLength(r) |-> IF i <= Len(bytes) THEN bytes[i] ELSE Unset]

-----------------------------------------------------------------------------
(* The receive state machine *)

(* phNciNfc_CoreRecvChkExptdPktType: the packet goes on with the chain. *)
ExpectedMutant(r, p) == TRUE
Expected(r, p) == p.hdr = r.HeaderInfo

(* What phNciNfc_CoreRecvChkPktType makes of packet p of n bytes *)
Valid(p, n) == p.kind = "segment" /\ Len(p.bytes) = n

(* A packet of another message: the chain is dropped, the packet moves to the head. *)
Interrupts(r, p) == Len(r.list) > 1 /\ ~Expected(r, p)

(* phNciNfc_StateDummy2Idle: a message with the header that is waited for came. *)
StopsTimer(h) == timer.of = h
Answered(h) == IF StopsTimer(h) THEN [of |-> NoHeader, fired |-> FALSE] ELSE timer

(***************************************************************************)
(* The last segment came: stop the timer, hand the message up, empty the   *)
(* chain.                                                                  *)
(***************************************************************************)
Deliver(r, memory) ==
  /\ CurrState' = "Idle"
  /\ timer' = Answered(r.HeaderInfo)
  /\ delivered' = IF DataLength(r) >= 0
                    THEN Append(delivered, [hdr |-> r.HeaderInfo, bytes |-> Extract(r, memory)])
                    ELSE delivered
  /\ CoreRecv(DeleteList(r), reads)

(* More segments follow. *)
Collect(r) ==
  /\ CurrState' = "Recv"
  /\ CoreRecv(r, reads)
  /\ UNCHANGED <<timer, delivered>>

(***************************************************************************)
(* A packet that is no segment.  One with a wrong group, opcode or length  *)
(* moves to the head like any packet of another message.                   *)
(***************************************************************************)
Drop(p) ==
  /\ CoreRecv(IF p.kind = "ignored" THEN RemoveLastChainedNode(tReceiveInfo)
                                    ELSE DeleteList(tReceiveInfo), reads)
  /\ \/ UNCHANGED mem
     \/ p.kind = "invalid" /\ Len(tReceiveInfo.list) > 1 /\ mem' = [mem EXCEPT ![HeadBuffer] = p]
  /\ UNCHANGED <<CurrState, timer, delivered>>

(***************************************************************************)
(* phNciNfc_CoreRecvCb with phNciNfc_RecvStateHandler, and the next read.  *)
(* Idle and Recv take a packet alike.                                      *)
(***************************************************************************)
CoreRecvCb ==
  /\ posted # <<>> /\ IsCompletion(Head(posted))
  /\ posted' = Tail(posted)
  /\ LET p == mem[Head(posted).buf]
         n == Head(posted).len
         anew == Interrupts(tReceiveInfo, p)
         r == IF anew THEN DeleteList(tReceiveInfo) ELSE tReceiveInfo
         s == AddSegment([r EXCEPT !.HeaderInfo = p.hdr], n)
     IN  \/ /\ ~Valid(p, n)
            /\ Drop(p)
         \/ /\ Valid(p, n)
            /\ mem' = IF anew THEN [mem EXCEPT ![HeadBuffer] = p] ELSE mem
            /\ IF p.pbf THEN Collect(s) ELSE Deliver(s, mem')
  /\ UNCHANGED <<nfcc, packets, requests, broken, overtaken>>

-----------------------------------------------------------------------------
(* The response timer *)

(* The upper layer sends something and waits for the answer. *)
Request(h) ==
  /\ timer.of = NoHeader
  /\ requests < MaxRequests
  /\ requests' = requests + 1
  /\ timer' = [of |-> h, fired |-> FALSE]
  /\ UNCHANGED <<nfcc, wire, posted, CurrState, tReceiveInfo, history>>

(* The threadpool timer goes off. *)
Expire ==
  /\ timer.of # NoHeader /\ ~timer.fired
  /\ timer' = [timer EXCEPT !.fired = TRUE]
  /\ posted' = Append(posted, Expiry)
  /\ UNCHANGED <<nfcc, wire, CurrState, tReceiveInfo, requests, history>>

(* The messages in the chain: the last buffer is that of the open read. *)
Chained == IF tReceiveInfo.wPayloadSize = 0 THEN {}
           ELSE {mem[b].msg : b \in Range(Front(tReceiveInfo.list))}

(* phTmlNfc_ReadAbort: no read stays open. *)
ReadAbort == <<>>

(* The chain is emptied, and the read opened again. *)
ReopenMutant == tReceiveInfo' = DeleteList(tReceiveInfo) /\ reads' = ReadAbort
Reopen == CoreRecv(DeleteList(tReceiveInfo), ReadAbort)

(***************************************************************************)
(* phNciNfc_RspTimeOutCb: the read is aborted, the chain emptied, the      *)
(* timeout reported and the read opened again.  Nothing happens when the   *)
(* timer was stopped after it went off.                                    *)
(***************************************************************************)
RspTimeOutCb ==
  /\ posted # <<>> /\ ~IsCompletion(Head(posted))
  /\ posted' = Tail(posted)
  /\ IF timer.fired
       THEN /\ timer' = [of |-> NoHeader, fired |-> FALSE]
            /\ CurrState' = "Idle"
            /\ Reopen
            /\ broken' = broken \cup Chained \cup Open
            /\ overtaken' = (overtaken \/ Completions # {})
       ELSE UNCHANGED <<timer, CurrState, tReceiveInfo, reads, broken, overtaken>>
  /\ UNCHANGED <<nfcc, packets, mem, requests, delivered>>

-----------------------------------------------------------------------------
Next ==
  \/ \E shape \in Shapes : Begin(shape)
  \/ \E m \in Open : Continue(m)
  \/ \E k \in Noise : MakeNoise(k)
  \/ Receive \/ CoreRecvCb
  \/ \E h \in Answers : Request(h)
  \/ Expire \/ RspTimeOutCb

Spec == Init /\ [][Next]_vars

-----------------------------------------------------------------------------
(* The core always waits for a packet: a read is open, or its completion is to be handled. *)
NeverDeaf == reads # <<>> \/ Completions # {}

(* The buffer the next packet belongs into: see GetNewNode. *)
LastNode == IF tReceiveInfo.wPayloadSize = 0 THEN HeadBuffer ELSE Last(tReceiveInfo.list)

(***************************************************************************)
(* There is one such read, and its buffer is the last of the chain         *)
(* (comment of phNciNfc_RspTimeOutCb: the abort keeps the transport layer  *)
(* from using buffers of the chain after they are freed).                  *)
(***************************************************************************)
ReadIntoChain ==
  /\ reads # <<>> => reads = <<LastNode>> /\ Completions = {}
  /\ \A i, j \in Completions : i = j /\ posted[i].buf = LastNode

(* It is so as long as no expiry is handled with a completion behind it. *)
OnlyReadIntoChain == overtaken \/ ReadIntoChain

(* The payload of message m *)
Whole(m) == FlattenSeq([k \in DOMAIN begun[m].segs |-> Bytes(m, k, begun[m].segs[k])])

(* wPayloadSize can count message m. *)
Fits(m) == Len(Whole(m)) + Len(begun[m].segs) * HEADER_LEN < SizeLimit

(* A segment without payload ends what is copied (phNciNfc_CoreExtractData). *)
Copied(m) == \A k \in 1 .. Len(begun[m].segs) - 1 : begun[m].segs[k] # 0

(* The deliveries with bytes of message m *)
Got(m) == {i \in DOMAIN delivered : \E j \in DOMAIN delivered[i].bytes : delivered[i].bytes[j][1] = m}

(***************************************************************************)
(* What is delivered with bytes of a message is that message, whole, once  *)
(* and under its own header; dropped packets in its middle do not matter.  *)
(* Of a message that was not received one segment after the other it may   *)
(* be the end.  (phNciNfc_CoreRecvCb, phNciNfc_CoreRecvManager)            *)
(***************************************************************************)
DeliveredWhole ==
  \A m \in {n \in DOMAIN begun : Fits(n) /\ Copied(n)} : \A i \in Got(m) :
    \/ overtaken
    \/ /\ delivered[i].hdr = begun[m].hdr
       /\ \A j \in Got(m) : j = i
       /\ \/ delivered[i].bytes = Whole(m)
          \/ m \in broken /\ IsSuffix(delivered[i].bytes, Whole(m))

(***************************************************************************)
(* Once the packets are handled, every message whose last segment was sent *)
(* is delivered, or its end if it is broken, unless that has no payload.   *)
(***************************************************************************)
NothingLost ==
  packets = <<>> /\ Completions = {} /\ ~overtaken =>
    \A m \in DOMAIN begun \ Open :
      Fits(m) /\ Copied(m) /\ Last(begun[m].segs) # 0 => Got(m) # {}

=============================================================================
