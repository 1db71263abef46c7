----------------------------- MODULE NdefType2 -----------------------------
(* The mapping of NDEF messages on a type 2 tag (Mifare Ultralight): blocks*)
(* of four bytes from block 4 on hold a list of TLVs. A command reads four *)
(* blocks or writes one. A length above 254 takes three bytes. The tags of *)
(* the model have one sector, so no sector is selected.                    *)
EXTENDS NdefTag

SkippedTLV == {1, 2, 253}   \* lock control, memory control, proprietary

Offset(n)   == 4 * (n.cc.NdefTLVBlock - 4) + n.cc.NdefTLVByte - 1
InBlock(n)  == n.cc.NdefTLVByte - 1
IsLong(n)   == n.ApduBufferSize > 254
Length16(k) == <<k \div 256, k % 256>>

MfUL_H_Rd(n, state, block) == Send(n, state, [op |-> "Read", block |-> block])

MfUL_H_Wr4bytes(n, state, block, bytes) ==
  Send([n EXCEPT !.cc.Buffer = bytes, !.cc.PrevOperation = "WRITE"], state,
       [op |-> "Write4", block |-> block, bytes |-> bytes])

\* NumOfLReminWrite is not reset.
MifareUL_H_Reset(NumOfLReminWrite) ==
  [NdefTLVBlock |-> 4, NdefTLVByte |-> 0, found |-> FALSE, NoLbytesinTLV |-> 0, prevLenByteValue |-> 0,
   ActualSize |-> 0, CardMemSize |-> 0, RemainingSize |-> 0, CurrentBlock |-> 2, PrevOperation |-> "none",
   ReadBuf |-> Zeros(64), ReadBufIndex |-> 0, ByteNumber |-> 0, Buffer |-> Zeros(4),
   NdefTLVBuffer |-> Zeros(4), NdefTLVBuffer1 |-> Zeros(4), SetTermTLVFlag |-> FALSE, DataCount |-> 0,
   NumOfBytesWritten |-> 0, NumOfLReminWrite |-> NumOfLReminWrite]

MifareUL_ChkNdef(n, NumOfLReminWrite) ==
  MfUL_H_Rd([n EXCEPT !.cc = [MifareUL_H_Reset(NumOfLReminWrite) EXCEPT !.PrevOperation = "CHECK"]],
            "CHK_NDEF_COMP", 2)

MfUL_H_RdCardfindNdefTLV(n, block) == MfUL_H_Rd(n, "FND_NDEF_COMP", block)

\* The list is read again, and searched from its beginning.
MifareUL_RdNdef(n, size) ==
  MfUL_H_RdCardfindNdefTLV(
    [n EXCEPT !.ApduBuffer = <<>>, !.ApduBufferSize = size,
              !.cc = [@ EXCEPT !.CurrentBlock = 4, !.found = FALSE, !.NdefTLVByte = 0, !.NdefTLVBlock = 4,
                               !.RemainingSize = n.cc.CardMemSize, !.NoLbytesinTLV = 0,
                               !.ReadBufIndex = 0, !.PrevOperation = "READ"]], 4)

\* Lock bits and capability container; cc.size in units of eight bytes.
MfUL_H_ChkCCBytes(n, cc) ==
  LET size == IF 8 * cc.size > 256 THEN 8 * cc.size - 2 ELSE 8 * cc.size
  IN IF cc.magic /\ cc.version
     THEN MfUL_H_RdCardfindNdefTLV(
            [n EXCEPT !.CardState = IF cc.locked \/ ~cc.writable THEN "READ_ONLY" ELSE "INITIALIZED",
                      !.cc.CardMemSize = size, !.cc.RemainingSize = size, !.cc.CurrentBlock = 4], 4)
     ELSE CrHandler([n EXCEPT !.CardState = "INVALID"], "NO_NDEF_SUPPORT")

---------------------------------------------------------------------------
MfUL_H_Rd16Bytes(n) == MfUL_H_Rd([n EXCEPT !.cc.PrevOperation = "READ"], "READ", n.cc.CurrentBlock)

\* The TLV is found. What was wrong with its length, if anything, is forgotten here.
MfUL_H_NxtOp(n) ==
  IF n.cc.PrevOperation = "READ"
  THEN MfUL_H_Rd16Bytes([n EXCEPT !.cc.CurrentBlock = 4 * (n.cc.NdefTLVBlock \div 4)])
  ELSE IF n.cc.ActualSize > n.cc.CardMemSize - 2
  THEN CrHandler([n EXCEPT !.CardState = "INVALID"], "NO_NDEF_SUPPORT")
  ELSE CrHandler(n, "SUCCESS")

NotFound(n) ==
  CrHandler([n EXCEPT !.CardState = IF n.cc.PrevOperation = "CHECK" THEN "INVALID" ELSE @], "NO_NDEF_SUPPORT")

\* The list goes on in the next four blocks.
MfUL_H_Chk16Bytes(n) ==
  MfUL_H_RdCardfindNdefTLV([n EXCEPT !.cc.CurrentBlock = @ + 4], n.cc.CurrentBlock + 4)

NdefTLVAt(n, i, buf) ==
  LET at   == [n EXCEPT !.cc.found = TRUE, !.cc.NdefTLVByte = (i % 4) + 1,
                        !.cc.NdefTLVBlock = 4 * (@ \div 4) + i \div 4, !.cc.RemainingSize = @ - 1]
      L    == At(buf, i + 1)
      long == 256 * At(buf, i + 2) + At(buf, i + 3)
      rem  == at.cc.RemainingSize
      With(m, length) == [m EXCEPT !.cc.ActualSize = length, !.CardState = CardStateFor(m, length),
                                   !.cc.RemainingSize = @ - 1]
  IN CASE i = 15            -> MfUL_H_Chk16Bytes([at EXCEPT !.cc.NoLbytesinTLV = 3])
       [] i = 14 /\ L = 255 -> MfUL_H_Chk16Bytes([at EXCEPT !.cc.NoLbytesinTLV = 2])
       [] i = 13 /\ L = 255 -> MfUL_H_Chk16Bytes([at EXCEPT !.cc.NoLbytesinTLV = 1, !.cc.RemainingSize = @ - 1,
                                                            !.cc.prevLenByteValue = At(buf, 15)])
       [] i < 13 /\ L = 255 -> MfUL_H_NxtOp(IF long > rem - 1 THEN [at EXCEPT !.cc.RemainingSize = @ - 1]
                                            ELSE With(at, long))
       [] i < 15 /\ L < 255 -> MfUL_H_NxtOp(IF rem < L \/ rem < 2 \/ (L = 0 /\ n.cc.PrevOperation = "READ")
                                            THEN [at EXCEPT !.cc.ActualSize = L] ELSE With(at, L))

\* From the position that NdefTLVByte says in the blocks just read; it is not
\* reset for the blocks that follow. Empty bytes and other TLVs are passed over.
MfUL_H_findNDEFTLV(n, buf) ==
  LET start  == IF n.cc.NdefTLVByte > 0 THEN n.cc.NdefTLVByte - 1 ELSE 0
      Rem(i) == n.cc.RemainingSize - (i - start)
      End(i) == i + 2 + At(buf, i + 1)
      Skips(i) == At(buf, i) \in SkippedTLV /\ i < 15 /\ At(buf, i + 1) \notin {0, 255} /\ Rem(End(i)) >= 0
      \* where the search stops, and where the last TLV that was passed over ends
      from[i \in 0..16, s \in -1..16] ==
        IF i = 16 THEN <<i, s>>
        ELSE IF At(buf, i) = 0 THEN from[i + 1, s]
        ELSE IF Skips(i) /\ End(i) <= 16 THEN from[End(i), End(i)] ELSE <<i, s>>
      i == from[start, -1][1]
      s == from[start, -1][2]
      Passed(m, e) == [m EXCEPT !.cc.NdefTLVByte = (e % 4) + 1, !.cc.NdefTLVBlock = 4 * (@ \div 4) + e \div 4]
      m == LET r == [n EXCEPT !.cc.RemainingSize = Rem(i)] IN IF s >= 0 THEN Passed(r, s) ELSE r
  IN CASE i = 16 /\ s < 16 /\ Rem(i) > 0 -> MfUL_H_Chk16Bytes([m EXCEPT !.cc.NdefTLVBlock = @ + 4])
       [] i = 16 /\ (s = 16 \/ Rem(i) <= 0) -> NotFound(m)
       [] i < 16 ->
            IF At(buf, i) = 3 THEN NdefTLVAt(m, i, buf)
            ELSE IF Skips(i)
            THEN LET e == Passed([m EXCEPT !.cc.RemainingSize = Rem(End(i)), !.cc.ActualSize = At(buf, i + 1)], End(i))
                 IN MfUL_H_RdCardfindNdefTLV(e, e.cc.NdefTLVBlock)
            ELSE IF At(buf, i) \in SkippedTLV /\ i = 15
            THEN MfUL_H_Chk16Bytes([m EXCEPT !.cc.NoLbytesinTLV = 3, !.cc.NdefTLVByte = 4, !.cc.RemainingSize = @ - 1])
            ELSE NotFound(m)

\* The rest of a TLV whose first bytes ended the blocks before. A long length
\* is put together in the other order here than where it is found whole.
MfUL_H_ChkRemainTLV(n, buf) ==
  LET k == n.cc.NoLbytesinTLV
      length == CASE k = 1 -> n.cc.prevLenByteValue + 256 * At(buf, 0)
                  [] k = 2 -> At(buf, 0) + 256 * At(buf, 1)
                  [] k = 3 -> IF At(buf, 0) = 255 \/ (At(buf, 0) = 0 /\ ~n.cc.found)
                              THEN At(buf, 1) + 256 * At(buf, 2) ELSE At(buf, 0)
      used == IF k = 3 THEN (IF At(buf, 0) = 255 THEN 3 ELSE 1) ELSE k + 1
      m == [n EXCEPT !.cc.NoLbytesinTLV = 0, !.cc.ActualSize = length, !.cc.RemainingSize = @ - used,
                     !.CardState = CardStateFor(n, length)]
      passed == [m EXCEPT !.cc.RemainingSize = @ - length, !.cc.NdefTLVByte = (length % 4) + 1,
                          !.cc.NdefTLVBlock = n.cc.CurrentBlock + length \div 4,
                          !.cc.CurrentBlock = n.cc.CurrentBlock + length \div 4]
  IN IF n.cc.found THEN MfUL_H_NxtOp(m)
     ELSE IF length < 16 THEN MfUL_H_findNDEFTLV(passed, buf)
     ELSE MfUL_H_RdCardfindNdefTLV(passed, passed.cc.NdefTLVBlock)

---------------------------------------------------------------------------
\* On a tag of more than 144 bytes the first blocks are kept from the byte
\* after the TLV's type on, when the TLV begins in the first of them.
MfUL_H_CopyRdBytes(n, data) ==
  LET from == IF n.cc.CurrentBlock = n.cc.NdefTLVBlock /\ n.cc.CardMemSize > 144 THEN n.cc.NdefTLVByte ELSE 0
      index == n.cc.ReadBufIndex + 16 - from
  IN [n EXCEPT !.cc.ReadBuf = Put(IF Len(@) < index THEN Pad(@, index) ELSE @, n.cc.ReadBufIndex,
                                  SubSeq(data, from + 1, 16)),
               !.cc.ReadBufIndex = index,
               !.cc.CurrentBlock = IF index # n.cc.CardMemSize THEN @ + 4 ELSE @]

\* Mutant: a byte that looks like the type is enough.
Mutant_CalcByteNum(n) ==
  LET found == {i \in 0..15 : At(n.cc.ReadBuf, i) = 3}
  IN [n EXCEPT !.cc.ByteNumber = IF found = {} THEN @ ELSE Min(found) + 1]

\* Where the length of the message is: after the first byte that looks like
\* the type of a TLV of that length.
MfUL_CalcByteNum(n) ==
  LET buf == n.cc.ReadBuf
      Is(i) == /\ At(buf, i) = 3
               /\ \/ At(buf, i + 1) = n.cc.ActualSize
                  \/ At(buf, i + 1) = 255 /\ 256 * At(buf, i + 2) + At(buf, i + 3) = n.cc.ActualSize
      found == {i \in 0..15 : Is(i)}
  IN [n EXCEPT !.cc.ByteNumber = IF found = {} THEN @ ELSE Min(found) + 1]

MfUL_H_CpDataToUserBuf(n) ==
  LET k == Min({n.ApduBufferSize, n.cc.ActualSize})
  IN [n EXCEPT !.ApduBuffer = Slice(n.cc.ReadBuf, n.cc.ByteNumber, k),
               !.cc.ByteNumber = IF k = n.cc.ActualSize THEN 0 ELSE @ + k]

ReadEnough(n) == n.cc.ReadBufIndex >= n.cc.ActualSize + Offset(n) + 4

MfUL_H_ProRead(n, data) ==
  LET m == IF ReadEnough(n) THEN n ELSE MfUL_H_CopyRdBytes(n, data)
      c == MfUL_CalcByteNum(m)
  IN IF ReadEnough(m)
     THEN CrHandler(MfUL_H_CpDataToUserBuf(
            [c EXCEPT !.cc.ByteNumber = @ + (IF At(c.cc.ReadBuf, @) = 255 THEN 3 ELSE 1)]), "SUCCESS")
     ELSE MfUL_H_Rd16Bytes(m)

---------------------------------------------------------------------------
\* The block that holds the first length byte, written with the length 0, and
\* k bytes of the message; a shorter message is followed by a terminator.
FirstBlock(n, block, head) ==
  LET k == Min({4 - Len(head), n.ApduBufferSize})
      used == head \o SubSeq(n.ApduBuffer, 1, k)
      bytes == IF Len(used) < 4 THEN Pad(used \o <<254>>, 4) ELSE used
  IN MfUL_H_Wr4bytes(
       [n EXCEPT !.cc.CurrentBlock = block, !.cc.NdefTLVBuffer = bytes, !.cc.NumOfBytesWritten = k,
                 !.cc.DataCount = Len(used), !.cc.SetTermTLVFlag = @ \/ Len(used) < 4], "WRITE", block, bytes)

NoLength(n) == IF IsLong(n) THEN <<255, 0, 0>> ELSE <<0>>

MfUL_H_RdBeforeWrite(n) ==
  CASE InBlock(n) = 0      -> FirstBlock(n, n.cc.NdefTLVBlock, <<3>> \o NoLength(n))
    [] InBlock(n) = 3      -> FirstBlock(n, n.cc.NdefTLVBlock + 1, NoLength(n))
    [] InBlock(n) \in 1..2 -> MfUL_H_RdCardfindNdefTLV(n, n.cc.NdefTLVBlock)
    [] InBlock(n) = -1     -> NotStarted(n)   \* a read that failed has forgotten where the TLV is

\* The TLV is not searched: it is where the check, or a read, found it.
MifareUL_WrNdef(n, msg, size) ==
  MfUL_H_RdBeforeWrite(
    [n EXCEPT !.ApduBuffer = msg, !.ApduBufferSize = size, !.WrNdefPacketLength = 0,
              !.cc = [@ EXCEPT !.CurrentBlock = n.cc.NdefTLVBlock, !.NoLbytesinTLV = 0, !.ReadBufIndex = 0,
                               !.RemainingSize = n.cc.CardMemSize - Offset(n) - 2, !.PrevOperation = "WRITE"]])

\* The block is read first, to keep what stands in front of the TLV. When no
\* byte of a short message goes with it, NumOfBytesWritten keeps its value.
MfUL_H_CallWrOp(n, data) ==
  LET b     == InBlock(n)
      old   == SubSeq(data, 1, 4)
      bytes == CASE IsLong(n) /\ b = 1  -> SubSeq(old, 1, 2) \o <<255, 0>>
                 [] IsLong(n) /\ b = 2  -> SubSeq(old, 1, 3) \o <<255>>
                 [] ~IsLong(n) /\ b = 1 -> SubSeq(old, 1, 2) \o <<0, At(n.ApduBuffer, n.ApduBuffIndex)>>
                 [] ~IsLong(n) /\ b = 2 -> SubSeq(old, 1, 3) \o <<0>>
  IN MfUL_H_Wr4bytes(
       [n EXCEPT !.cc = [@ EXCEPT !.CurrentBlock = n.cc.NdefTLVBlock, !.NdefTLVBuffer = bytes, !.DataCount = 4,
                           !.NumOfLReminWrite = IF IsLong(n) THEN b ELSE @,
                           !.NumOfBytesWritten = IF IsLong(n) THEN 0 ELSE IF b = 1 THEN 1 ELSE @]],
       "WRITE", n.cc.NdefTLVBlock, bytes)

\* The next block of the message, after the length bytes that remain to clear.
MfUL_H_fillSendBufToWr(n) ==
  LET clear == n.cc.NumOfLReminWrite
      rest  == Min({n.ApduBufferSize - n.ApduBuffIndex, n.cc.RemainingSize})
      k     == Min({rest, 4}) - (IF n.cc.NumOfBytesWritten = 0 THEN clear ELSE 0)
      used  == Zeros(clear) \o Slice(n.ApduBuffer, n.ApduBuffIndex, k)
      bytes == IF Len(used) < 4 THEN Pad(used \o <<254>>, 4) ELSE used
      isSecond == n.cc.CurrentBlock = n.cc.NdefTLVBlock + (IF InBlock(n) < 3 THEN 1 ELSE 2)
  IN MfUL_H_Wr4bytes(
       [n EXCEPT !.cc = [@ EXCEPT !.NumOfBytesWritten = k, !.DataCount = Len(used),
                           !.SetTermTLVFlag = @ \/ Len(used) < 4,
                           !.NdefTLVBuffer1 = IF isSecond THEN bytes ELSE @, !.NumOfLReminWrite = 0]],
       "WRITE", n.cc.CurrentBlock, bytes)

MfUL_H_WrTermTLV(n) ==
  MfUL_H_Wr4bytes(n, "TERM_TLV", n.cc.CurrentBlock, <<254, 0, 0, At(n.cc.Buffer, 3)>>)

\* The length is written last; two writes when its bytes are in two blocks.
MfUL_H_UpdateWrLen(n) ==
  LET b      == InBlock(n)
      remain == n.cc.NumOfLReminWrite
      block  == n.cc.NdefTLVBlock + (IF b = 3 THEN 1 ELSE 0)
      len    == Length16(n.ApduBuffIndex)
      first  == n.cc.NdefTLVBuffer
      second == n.cc.NdefTLVBuffer1
      L      == IF b = 3 THEN 0 ELSE b + 1   \* where the first length byte is
      long   == n.ApduBuffIndex > 254
      later  == IF long /\ b \in 1..2 THEN b ELSE 0
  IN IF remain > 0
     THEN MfUL_H_Wr4bytes([n EXCEPT !.cc.NumOfLReminWrite = 0], "WR_LEN_TLV", block + 1,
            IF remain = 1 THEN <<n.ApduBuffIndex % 256>> \o Tail(second) ELSE len \o SubSeq(second, 3, 4))
     ELSE MfUL_H_Wr4bytes([n EXCEPT !.cc.NumOfLReminWrite = later],
            IF later = 0 THEN "WR_LEN_TLV" ELSE "TERM_TLV", block,
            IF long THEN Put(first, L + 1, SubSeq(len, 1, 2 - later)) ELSE Put(first, L, <<n.ApduBuffIndex>>))

MfUL_H_ProWrittenBytes(n) ==
  LET m == [n EXCEPT !.ApduBuffIndex = @ + n.cc.NumOfBytesWritten,
                     !.cc.RemainingSize = @ - n.cc.NumOfBytesWritten]
      end == [m EXCEPT !.WrNdefPacketLength = m.ApduBuffIndex,
                       !.cc.SetTermTLVFlag = @ \/ m.cc.RemainingSize = 0,
                       !.cc.CurrentBlock = IF n.cc.DataCount < 4 THEN @ ELSE @ + 1]
  IN IF m.ApduBuffIndex # m.ApduBufferSize /\ m.cc.RemainingSize # 0
     THEN MfUL_H_fillSendBufToWr([m EXCEPT !.cc.CurrentBlock = @ + 1])
     ELSE IF end.cc.SetTermTLVFlag THEN MfUL_H_UpdateWrLen(end) ELSE MfUL_H_WrTermTLV(end)

MifareUL_H_Complete(n, status) ==
  CrHandler([n EXCEPT !.WrNdefPacketLength = IF n.State = "WRITE" /\ status # "SUCCESS" THEN 0 ELSE @], status)

MifareUL_Process(n, r) ==
  CASE ~(r.rf /\ r.ok) -> MifareUL_H_Complete(n, IF r.rf THEN "FAILED" ELSE "RF_ERROR")
    [] r.rf /\ r.ok ->
         CASE n.State = "CHK_NDEF_COMP" -> MfUL_H_ChkCCBytes(n, r.data)
           [] n.State = "FND_NDEF_COMP" ->
                IF n.cc.PrevOperation = "WRITE" THEN MfUL_H_CallWrOp(n, r.data)
                ELSE IF n.cc.NoLbytesinTLV > 0 THEN MfUL_H_ChkRemainTLV(n, r.data)
                ELSE MfUL_H_findNDEFTLV(n, r.data)
           [] n.State = "READ"     -> MfUL_H_ProRead(n, r.data)
           [] n.State = "WRITE"    -> MfUL_H_ProWrittenBytes(n)
           [] n.State = "TERM_TLV" -> MfUL_H_UpdateWrLen(n)
           [] n.State = "WR_LEN_TLV" ->
                CrHandler([Written(n) EXCEPT !.ApduBuffIndex = 0, !.cc.NumOfBytesWritten = 0,
                                             !.cc.NdefTLVBuffer = n.cc.Buffer], "SUCCESS")

MifareUL_GetContainerSize(n) == [max |-> n.cc.RemainingSize, actual |-> n.cc.ActualSize]

---------------------------------------------------------------------------
\* The tag: cc its container, its lock bits and how many dynamic ones of its
\* bits are set; mem its bytes from block 4 on.
\* A block behind the last one is refused.
InMemory(tag, block) == block >= 4 /\ 4 * (block - 4) < Len(tag.mem)
DynLock    == 40
Writable(tag, block) ==
  /\ ~tag.cc.locked
  /\ \/ InMemory(tag, block) /\ tag.cc.writable /\ (block < 16 \/ tag.cc.dyn = 0)
     \/ block \in {2, 3}
     \/ block = DynLock /\ tag.cc.ul = "ULC"

Answer(tag, n) ==
  CASE n.cmd.op = "Read" /\ n.cmd.block = 2 -> Ok(tag.cc)
    [] n.cmd.op = "Read" /\ n.cmd.block # 2 ->
         IF n.cmd.block = DynLock /\ tag.cc.ul = "ULC" 
         THEN Ok(IF n.State = "RO_RD_DYN_LOCK_BYTES" THEN tag.cc.dyn ELSE Pad(<<tag.cc.dyn>>, 16))
         ELSE IF InMemory(tag, n.cmd.block) THEN Ok(Pad(Slice(tag.mem, 4 * (n.cmd.block - 4), 16), 16)) ELSE Refused
    [] n.cmd.op = "Write4" ->
         IF Writable(tag, n.cmd.block) THEN Ok(<<>>) ELSE Refused

Executed(tag, n) ==
  IF n.cmd.op # "Write4" THEN tag
  ELSE IF ~Writable(tag, n.cmd.block) THEN tag
  ELSE IF InMemory(tag, n.cmd.block) THEN [tag EXCEPT !.mem = Put(@, 4 * (n.cmd.block - 4), n.cmd.bytes)]
  ELSE [tag EXCEPT !.cc = n.cmd.bytes @@ tag.cc]

Formatted(tag) == tag.cc.magic
ReadOnly(tag)  == ~tag.cc.writable /\ tag.cc.locked /\ (tag.cc.size = 18 => tag.cc.dyn >= 12)

\* The first NDEF TLV of the list, -1 if there is none, and its message.
NdefTLV(tag) ==
  LET from[i \in Nat] ==
        IF i > Len(tag.mem) - 3 THEN -1
        ELSE IF At(tag.mem, i) = 0 THEN from[i + 1]
        ELSE IF At(tag.mem, i) \in SkippedTLV THEN from[i + 2 + At(tag.mem, i + 1)]
        ELSE IF At(tag.mem, i) = 3 THEN i ELSE -1
  IN from[0]

Found(tag) ==
  LET i == NdefTLV(tag)
      L == At(tag.mem, i + 1)
  IN CASE i = -1             -> <<>>
       [] i >= 0 /\ L = 255 -> Slice(tag.mem, i + 4, 256 * At(tag.mem, i + 2) + At(tag.mem, i + 3))
       [] i >= 0 /\ L < 255 -> Slice(tag.mem, i + 2, L)
=============================================================================
