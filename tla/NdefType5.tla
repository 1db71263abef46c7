----------------------------- MODULE NdefType5 -----------------------------
(* The mapping of NDEF messages on a type 5 tag (ISO 15693): blocks of four*)
(* bytes, the capability container in the first one or two, a list of TLVs *)
(* after it. Some tags let several blocks be read at once. Proprietary     *)
(* TLVs are passed over byte by byte. Pages read by an inventory command   *)
(* and making a tag read-only are left out.                                *)
EXTENDS NdefTag, TLC

\* Where the length field of a message, and the message, begin; a message of
\* 255 bytes or more has a length field of three bytes, of which only the
\* last is written.
LenField(n, size)   == n.cc.tlvByte + (IF size >= 255 THEN 3 ELSE 1)
LenBlock(n, size)   == n.cc.tlvBlk + (IF LenField(n, size) > 3 THEN 1 ELSE 0)
LenByte(n, size)    == LenField(n, size) % 4
ValueBlock(n)       == n.cc.tlvBlk + (IF LenField(n, n.cc.ActualSize) + 1 > 3 THEN 1 ELSE 0)
ValueByte(n)        == (LenField(n, n.cc.ActualSize) + 1) % 4
RemainingSize(n, b) == n.cc.max - 4 * b

ReadBlock(n, state) == Send(n, state, [op |-> "Read", block |-> n.cc.CurrentBlock, blocks |-> 1])
WriteBlock(n, bytes) == Send(n, "WRITE_NDEF", [op |-> "Write", block |-> n.cc.CurrentBlock, bytes |-> bytes])

\* As many blocks as the tag has left; none left is taken for 65536.
ReadRemainingInMultiple(n, state) ==
  LET rest   == RemainingSize(n, n.cc.CurrentBlock) \div 4
      blocks == IF rest = 0 THEN 65536 ELSE rest
      most   == n.cc.MaxNFCVFrameSize \div 4
  IN Send(n, state, [op |-> "Read", block |-> n.cc.CurrentBlock,
                     blocks |-> IF most > 0 THEN Min({blocks, most}) ELSE blocks])

ReadOn(n, state) == IF n.cc.mbr THEN ReadRemainingInMultiple(n, state) ELSE ReadBlock(n, state)

ISO15693_ChkNdef(n, frame) ==
  ReadBlock([n EXCEPT !.cc = [seq |-> "T", sub |-> 0, CurrentBlock |-> 0, ActualSize |-> 0, tlvBlk |-> 0,
                              tlvByte |-> 0, stored |-> <<>>, remaining |-> 0, mbr |-> FALSE, max |-> 0,
                              MaxNFCVFrameSize |-> frame]],
            "CHECK_NDEF_FIRST_BLOCK")

\* A container whose size is 0 goes on in the second block.
CheckCCBytesFirstBlock(n, c) ==
  LET m == [n EXCEPT !.CardState = IF c.writable THEN "READ_WRITE" ELSE "READ_ONLY", !.cc.CurrentBlock = 1]
  IN IF ~c.valid THEN CrHandler(n, "NO_NDEF_SUPPORT")
     ELSE IF c.size = 0 THEN ReadBlock([m EXCEPT !.cc.mbr = c.mbr], "CHECK_NDEF_SECOND_BLOCK")
     ELSE LET k == [m EXCEPT !.cc.max = 8 * c.size, !.cc.mbr = c.mbr /\ ~c.exceeded]
          IN ReadOn(k, n.State)

CheckCCBytesSecondBlock(n, c) ==
  ReadOn([n EXCEPT !.cc.max = 8 * c.size2, !.cc.CurrentBlock = 2], n.State)

---------------------------------------------------------------------------
\* The search for the NDEF TLV, a byte at a time: c.i is the index of the byte,
\* c.bad that the list makes no sense.
Failed(c) == [c EXCEPT !.bad = TRUE]

TypeByte(c, b) ==
  CASE b = 3   -> [c EXCEPT !.sub = 0, !.seq = "L", !.tlvByte = c.i, !.tlvBlk = c.CurrentBlock]
    [] b = 0   -> [c EXCEPT !.sub = 0]
    [] b = 253 -> [c EXCEPT !.sub = 0, !.seq = "PROP_L"]
    [] b \notin {0, 3, 253} -> Failed(c)

\* One of the one or three bytes of a length; seq is where it leads to.
LengthByte(c, b, seq) ==
  CASE c.sub = 0 /\ b # 255 -> [c EXCEPT !.ActualSize = b, !.seq = seq]
    [] c.sub = 0 /\ b = 255 -> [c EXCEPT !.sub = 1]
    [] c.sub = 1            -> [c EXCEPT !.ActualSize = 256 * b, !.sub = 2]
    [] c.sub = 2            -> [c EXCEPT !.ActualSize = @ + b, !.sub = 0, !.seq = seq]

\* The place noted is that of the last byte of the value, and the value is
\* passed over here as well as in the next step.
PropLength(c, b, length) ==
  LET d   == LengthByte(c, b, "PROP_V")
      end == 4 * c.CurrentBlock + c.i + d.ActualSize
  IN IF (c.sub = 0 /\ b = 0) \/ (d.seq = "PROP_V" /\ c.max <= end) THEN Failed(c)
     ELSE [d EXCEPT !.tlvByte = end % 4, !.tlvBlk = end \div 4, !.i = Min({length, c.i + d.ActualSize})]

PropValue(c, length) ==
  LET rest == c.ActualSize - c.sub
      here == length - c.i
  IN IF rest > here THEN [c EXCEPT !.i = length, !.sub = @ + here]
     ELSE [c EXCEPT !.i = @ + rest, !.sub = 0, !.seq = "T"]

NdefLength(c, b) ==
  LET d == LengthByte(c, b, "V")
      from == 4 * c.CurrentBlock + (IF (c.i + 1) % 4 = 0 THEN 4 ELSE (c.i + 1) % 4)
  IN IF d.seq = "V" /\ c.max - from < d.ActualSize THEN Failed(c) ELSE d

Step(c, buf) ==
  LET b == At(buf, c.i)
      d == CASE c.seq = "T"      -> TypeByte(c, b)
             [] c.seq = "L"      -> NdefLength(c, b)
             [] c.seq = "PROP_L" -> PropLength(c, b, Len(buf))
             [] c.seq = "PROP_V" -> PropValue(c, Len(buf))
  IN [d EXCEPT !.i = @ + 1]

\* Every step passes over a byte at least.
Parse(start, buf) ==
  LET after[k \in 0..Len(buf)] ==
        IF k = 0 THEN start
        ELSE LET c == after[k - 1]
             IN IF c.bad \/ c.seq = "V" \/ c.i >= Len(buf) THEN c ELSE Step(c, buf)
  IN after[Len(buf)]

\* After a proprietary TLV the block where it ends is read again.
ProcessCheckNdef(n, buf) ==
  LET again == n.cc.seq = "PROP_V"
      start == [n.cc EXCEPT !.seq = IF again THEN "T" ELSE @] @@
               [i |-> IF again THEN n.cc.tlvByte ELSE 0, bad |-> FALSE]
      c     == Parse(start, buf)
      next  == IF c.seq = "PROP_V" THEN c.tlvBlk ELSE c.CurrentBlock + 1
      Kept(m, seq) == [m EXCEPT !.cc = [@ EXCEPT !.seq = seq, !.sub = IF seq = "T" THEN 0 ELSE c.sub,
                          !.ActualSize = c.ActualSize, !.tlvByte = c.tlvByte, !.tlvBlk = c.tlvBlk]]
  IN CASE c.bad -> CrHandler(Kept(n, "T"), "NO_NDEF_SUPPORT")
       [] ~c.bad /\ c.seq = "V" ->
            CrHandler([Kept(n, "T") EXCEPT !.CardState =
                         IF @ = "READ_ONLY" THEN @ ELSE IF c.ActualSize > 0 THEN "READ_WRITE" ELSE "INITIALIZED"], "SUCCESS")
       [] ~c.bad /\ c.seq # "V" ->
            LET m == [Kept(n, c.seq) EXCEPT !.cc.CurrentBlock = next]
            IN IF RemainingSize(m, next) > 0 THEN ReadOn(m, n.State) ELSE CrHandler(Kept(m, "T"), "NO_NDEF_SUPPORT")

---------------------------------------------------------------------------
ISO15693_RdNdef(n, size) ==
  LET m == [n EXCEPT !.ApduBuffer = <<>>, !.ApduBufferSize = size, !.ApduBuffIndex = 0,
                     !.cc.remaining = n.cc.ActualSize, !.cc.CurrentBlock = ValueBlock(n)]
  IN IF n.cc.ActualSize = 0 \/ n.CardState = "INITIALIZED" THEN NotStarted(m) ELSE ReadOn(m, "READ_NDEF")

\* What a buffer too small has left over is given first, whatever was read.
ProcessReadNdef(n, data) ==
  LET old    == n.cc.stored
      space  == n.ApduBufferSize - n.ApduBuffIndex
      skip   == IF n.cc.CurrentBlock = ValueBlock(n) THEN ValueByte(n) ELSE 0
      k      == IF old # <<>> THEN (IF Len(old) <= space THEN Len(old) ELSE Len(old) - space)
                ELSE Min({space, n.cc.remaining, Len(data) - skip})
      bytes  == IF old # <<>> THEN SubSeq(old, 1, k) ELSE Slice(data, skip, k)
      stored == IF old # <<>> THEN SubSeq(old, k + 1, Len(old))
                ELSE IF space < n.cc.remaining THEN SubSeq(data, skip + k + 1, Len(data)) ELSE <<>>
      m      == [n EXCEPT !.ApduBuffer = @ \o bytes, !.ApduBuffIndex = @ + k,
                          !.cc.stored = stored, !.cc.remaining = @ - k]
  IN IF m.ApduBuffIndex # m.ApduBufferSize /\ m.cc.remaining # 0
     THEN ReadOn([m EXCEPT !.cc.CurrentBlock = @ + Len(data) \div 4], "READ_NDEF")
     ELSE CrHandler(m, "SUCCESS")

---------------------------------------------------------------------------
\* When the length is the first byte of a block, the block is written at once
\* with three bytes, also of a shorter message: those behind it are not
\* defined, and are 0 here.
ISO15693_WrNdef(n, msg, size) ==
  LET m == [n EXCEPT !.ApduBuffer = msg, !.ApduBufferSize = size, !.ApduBuffIndex = 0,
                     !.WrNdefPacketLength = 0, !.cc.CurrentBlock = LenBlock(n, size)]
  IN IF LenByte(n, size) # 0
     THEN ReadBlock([m EXCEPT !.cc.seq = "RD_BEFORE_WR_NDEF_L_0"], "WRITE_NDEF")
     ELSE WriteBlock([m EXCEPT !.cc.seq = "WRITE_DATA", !.ApduBuffIndex = 3], Pad(<<0>> \o Slice(msg, 0, 3), 4))

\* The length is cleared with the first bytes of the message; what follows in the block is kept.
ClearLength(n, data) ==
  LET at   == LenByte(n, n.ApduBufferSize)
      head == NextBytes(n, 3 - at)
  IN WriteBlock([n EXCEPT !.cc.seq = "WRITE_DATA", !.ApduBuffIndex = @ + Len(head)], Put(data, at, <<0>> \o head))

WriteData(n) ==
  LET all  == n.ApduBufferSize = n.ApduBuffIndex \/ n.cc.CurrentBlock = n.cc.max \div 4
      k    == IF n.ApduBufferSize > n.ApduBuffIndex THEN Min({4, n.ApduBufferSize - n.ApduBuffIndex}) ELSE 4
  IN IF all
     THEN ReadBlock([n EXCEPT !.cc.seq = "RD_BEFORE_WR_NDEF_L", !.cc.CurrentBlock = LenBlock(n, n.ApduBuffIndex)],
                    "WRITE_NDEF")
     ELSE WriteBlock([n EXCEPT !.cc.CurrentBlock = @ + 1, !.ApduBuffIndex = @ + k],
                     Pad(Slice(n.ApduBuffer, n.ApduBuffIndex, k), 4))

SetLength(n, data) ==
  WriteBlock([n EXCEPT !.cc.seq = "WRITE_NDEF_TLV_L"],
             Put(data, LenByte(n, n.ApduBuffIndex), <<n.ApduBuffIndex % 256>>))

\* The state of the card is left as it was: an empty tag stays "INITIALIZED".
ProcessWriteNdef(n, data) ==
  CASE n.cc.seq = "RD_BEFORE_WR_NDEF_L_0" -> ClearLength(n, data)
    [] n.cc.seq = "WRITE_DATA"            -> WriteData(n)
    [] n.cc.seq = "RD_BEFORE_WR_NDEF_L"   -> SetLength(n, data)
    [] n.cc.seq = "WRITE_NDEF_TLV_L"      ->
         CrHandler([n EXCEPT !.WrNdefPacketLength = n.ApduBuffIndex, !.cc.ActualSize = n.ApduBuffIndex], "SUCCESS")

ISO15693_Process(n, r) ==
  CASE ~(r.rf /\ r.ok) -> CrHandler(n, IF r.rf THEN "FAILED" ELSE "RF_ERROR")
    [] r.rf /\ r.ok ->
         CASE n.State = "CHECK_NDEF_FIRST_BLOCK" /\ n.cc.CurrentBlock = 0  -> CheckCCBytesFirstBlock(n, r.data)
           [] n.State = "CHECK_NDEF_SECOND_BLOCK" /\ n.cc.CurrentBlock = 1 -> CheckCCBytesSecondBlock(n, r.data)
           [] n.State = "READ_NDEF"  -> ProcessReadNdef(n, r.data)
           [] n.State = "WRITE_NDEF" -> ProcessWriteNdef(n, r.data)
           [] OTHER                  -> ProcessCheckNdef(n, r.data)

ISO15693_GetContainerSize(n) == [max |-> n.cc.max, actual |-> n.cc.ActualSize]

---------------------------------------------------------------------------
\* The tag: cc its container, mem its blocks from the first on, of which the
\* container takes one, or two.
Blocks(tag, cmd) == Slice(tag.mem, 4 * cmd.block, 4 * cmd.blocks)

Answer(tag, n) ==
  IF n.cmd.op = "Read"
  THEN IF 4 * (n.cmd.block + n.cmd.blocks) > Len(tag.mem) THEN Refused
       ELSE IF n.cmd.block = (IF n.State = "CHECK_NDEF_SECOND_BLOCK" THEN 1 ELSE 0)
            THEN Ok(tag.cc) ELSE Ok(Blocks(tag, n.cmd))
  ELSE IF n.cmd.op = "GetSystemInfo"
  THEN Ok([size |-> IF n.cmd.ext = (Len(tag.mem) > 1024) THEN Len(tag.mem) ELSE 0, mbr |-> TRUE])
  ELSE IF n.cmd.op = "WriteCC" THEN Ok(<<>>)
  ELSE IF tag.cc.writable /\ 4 * n.cmd.block < Len(tag.mem) THEN Ok(<<>>) ELSE Refused

Executed(tag, n) ==
  IF n.cmd.op = "WriteCC" THEN [tag EXCEPT !.cc = n.cmd.cc]
  ELSE IF n.cmd.op = "Write" /\ tag.cc.writable /\ 4 * n.cmd.block < Len(tag.mem)
  THEN [tag EXCEPT !.mem = Put(@, 4 * n.cmd.block, n.cmd.bytes)] ELSE tag

NdefTLV(tag) ==
  LET from[i \in Nat] ==
        IF i > Len(tag.mem) - 2 THEN -1
        ELSE IF At(tag.mem, i) = 0
        THEN LET next == {j \in i + 1..Len(tag.mem) - 1 : At(tag.mem, j) # 0}
             IN IF next = {} THEN -1 ELSE from[Min(next)]
        ELSE IF At(tag.mem, i) = 253 THEN from[i + 2 + At(tag.mem, i + 1)]
        ELSE IF At(tag.mem, i) = 3 THEN i ELSE -1
  IN from[IF tag.cc.size = 0 THEN 8 ELSE 4]

Formatted(tag) == tag.cc.valid

Found(tag) ==
  LET i == NdefTLV(tag) IN IF i = -1 THEN <<>> ELSE Slice(tag.mem, i + 2, At(tag.mem, i + 1))
=============================================================================
