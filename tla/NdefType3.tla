----------------------------- MODULE NdefType3 -----------------------------
(* The mapping of NDEF messages on a type 3 tag (Felica): an attribute     *)
(* block says how long the message is and whether it is being written,     *)
(* and blocks of 16 bytes hold the message. The attribute block's checksum *)
(* is not modelled: the tags of the model have a right one.                *)
EXTENDS NdefTag

Blocks(length) == (length + 15) \div 16
Rest(n) == n.ApduBufferSize - n.ApduBuffIndex

Transceive(n, state, cmd) == Send(n, state, cmd)

HRdAttrInfo(n, op) == Transceive([n EXCEPT !.cc.OpFlag = op], "RD_ATTR", [op |-> "ReadAttr"])

NoAttrInfo == [Nbr |-> 0, Nbw |-> 0, Nmaxb |-> 0, WriteFlag |-> FALSE, RdWrFlag |-> FALSE, Ln |-> 0]

Felica_HReset == [OpFlag |-> "NONE", attr |-> NoAttrInfo, CurBlockNo |-> 0, Last |-> FALSE,
                  NoBlocksWritten |-> 0, written |-> 0]

Felica_ChkNdef(n) ==
  Transceive([n EXCEPT !.cc = Felica_HReset], "SELECT_NDEF_APP", [op |-> "Poll"])

Felica_RdNdef(n, size) ==
  HRdAttrInfo([n EXCEPT !.ApduBuffer = <<>>, !.ApduBufferSize = size, !.ApduBuffIndex = 0,
                        !.cc.CurBlockNo = 0, !.cc.Last = FALSE], "RD")

Felica_WrNdef(n, msg, size) ==
  HRdAttrInfo([n EXCEPT !.ApduBuffer = msg, !.ApduBufferSize = size, !.WrNdefPacketLength = 0], "WR")

Felica_EraseNdef(n) == HRdAttrInfo(n, "WR_EMPTY")

\* A new attribute block is taken over when it makes sense.
HUpdateAttrInfo(n, attr) ==
  IF attr.Nmaxb # 0 /\ attr.Nbr <= attr.Nmaxb /\ attr.Nbw <= attr.Nmaxb /\ Blocks(attr.Ln) <= attr.Nmaxb
  THEN [n EXCEPT !.cc.attr = attr, !.CardState = IF attr.RdWrFlag THEN "READ_WRITE" ELSE "READ_ONLY"]
  ELSE CrHandler(n, "INVALID_FORMAT")

\* Mutant: the attribute block is not marked while the blocks are written.
Mutant_HUpdateAttrBlkForWrOp(n, started) ==
  LET attr == IF started THEN n.cc.attr ELSE [n.cc.attr EXCEPT !.Ln = n.ApduBuffIndex]
  IN Transceive(n, IF started THEN "ATTR_BLK_WR_BEGIN" ELSE "ATTR_BLK_WR_END",
                [op |-> "WriteAttr", attr |-> attr])

\* Before the first block the attribute block says that a write has begun,
\* and keeps the old length; after the last one it has the new length.
HUpdateAttrBlkForWrOp(n, started) ==
  LET attr == IF started THEN [n.cc.attr EXCEPT !.WriteFlag = TRUE]
              ELSE [n.cc.attr EXCEPT !.WriteFlag = FALSE, !.Ln = n.ApduBuffIndex]
  IN Transceive(n, IF started THEN "ATTR_BLK_WR_BEGIN" ELSE "ATTR_BLK_WR_END",
                [op |-> "WriteAttr", attr |-> attr])

HWrEmptyMsg(n) ==
  Transceive(n, "WR_EMPTY_MSG", [op |-> "WriteAttr", attr |-> [n.cc.attr EXCEPT !.Ln = 0]])

HChkAttrBlkForWrOp(n) ==
  IF n.cc.attr.RdWrFlag
  THEN HUpdateAttrBlkForWrOp([n EXCEPT !.cc.CurBlockNo = 0, !.cc.NoBlocksWritten = 0], TRUE)
  ELSE CrHandler(n, "INVALID_DEVICE_REQUEST")

\* As many blocks as one command may write; the last one is filled up.
HUpdateData(n) ==
  LET full   == Rest(n) >= 16 * n.cc.attr.Nbw
      blocks == IF full THEN Min({n.cc.attr.Nbw, n.cc.attr.Nmaxb - n.cc.CurBlockNo}) ELSE Blocks(Rest(n))
      bytes  == NextBytes(n, 16 * blocks)
  IN IF Rest(n) > 0
     THEN Transceive([n EXCEPT !.cc.NoBlocksWritten = blocks, !.cc.written = Len(bytes)], "WR_BLOCK",
            [op |-> "Write", block |-> n.cc.CurBlockNo, bytes |-> Pad(bytes, 16 * blocks)])
     ELSE HUpdateAttrBlkForWrOp(n, FALSE)

\* How many blocks the next command reads, and whether the code knows that
\* the last block of the message is among them.
HSetTrxLen(n) ==
  LET Nbc  == Blocks(n.cc.attr.Ln)
      want == Min({Blocks(Rest(n)), Nbc - n.cc.CurBlockNo})
  IN IF want >= n.cc.attr.Nbr
     THEN [blocks |-> Min({n.cc.attr.Nbr, Nbc}), last |-> n.cc.attr.Nbr >= Nbc]
     ELSE [blocks |-> want, last |-> want = Nbc - n.cc.CurBlockNo]

HReadData(n) ==
  LET trx == HSetTrxLen(n)
  IN IF Rest(n) > 0 /\ n.cc.CurBlockNo < Blocks(n.cc.attr.Ln)
     THEN Transceive([n EXCEPT !.cc.Last = @ \/ trx.last], "RD_BLOCK",
            [op |-> "Read", block |-> n.cc.CurBlockNo, blocks |-> trx.blocks])
     ELSE CrHandler([n EXCEPT !.ApduBuffIndex = 0], "SUCCESS")

HChkAttrBlkForRdOp(n) ==
  LET state == CardStateFor(n, n.cc.attr.Ln)
  IN IF n.cc.attr.WriteFlag THEN CrHandler(n, "READ_FAILED")
     ELSE IF state = "INVALID" THEN CrHandler([n EXCEPT !.CardState = state], "NO_NDEF_SUPPORT")
     ELSE HReadData([n EXCEPT !.CardState = state])

\* The bytes of the blocks that were read and belong to the message; when the
\* code does not know that it has the last block, as many as the buffer takes.
HAfterRead_CopyDataToBuff(n, data) ==
  LET k == Min({Rest(n), IF n.cc.Last THEN n.cc.attr.Ln - n.ApduBuffIndex ELSE Len(data)})
  IN [n EXCEPT !.ApduBuffer = @ \o SubSeq(data, 1, k), !.ApduBuffIndex = @ + k]

AfterAttr(n) ==
  CASE n.cc.OpFlag = "WR"       -> HChkAttrBlkForWrOp(n)
    [] n.cc.OpFlag = "RD"       -> HChkAttrBlkForRdOp(n)
    [] n.cc.OpFlag = "WR_EMPTY" -> HWrEmptyMsg(n)
    [] n.cc.OpFlag = "CHK"      -> SetCardState([n EXCEPT !.ApduBuffIndex = 0, !.cc.OpFlag = "NONE"], n.cc.attr.Ln)

Felica_Process(n, r) ==
  CASE ~r.rf -> CrHandler(n, IF n.State = "WR_EMPTY_MSG" THEN "INVALID_DEVICE_REQUEST" ELSE "RF_ERROR")
    [] r.rf /\ n.State = "SELECT_NDEF_APP" ->
         IF r.ok THEN HRdAttrInfo(n, "CHK") ELSE CrHandler(n, "NO_NDEF_SUPPORT")
    [] r.rf /\ n.State = "RD_ATTR" ->
         IF ~r.ok THEN CrHandler(n, "READ_FAILED")
         ELSE LET m == HUpdateAttrInfo(n, r.data) IN IF m.cmd = NoCmd THEN m ELSE AfterAttr(m)
    [] r.rf /\ n.State = "ATTR_BLK_WR_BEGIN" ->
         IF r.ok THEN HUpdateData(n) ELSE CrHandler(n, "WRITE_FAILED")
    [] r.rf /\ n.State \in {"ATTR_BLK_WR_END", "WR_EMPTY_MSG"} ->
         CrHandler(n, IF r.ok THEN "SUCCESS" ELSE "WRITE_FAILED")
    [] r.rf /\ n.State = "WR_BLOCK" ->
         IF r.ok
         THEN HUpdateData([n EXCEPT !.ApduBuffIndex = @ + n.cc.written,
                                    !.WrNdefPacketLength = n.ApduBuffIndex + n.cc.written,
                                    !.cc.CurBlockNo = @ + n.cc.NoBlocksWritten])
         ELSE CrHandler([n EXCEPT !.ApduBuffIndex = 0, !.ApduBufferSize = 0], "WRITE_FAILED")
    [] r.rf /\ n.State = "RD_BLOCK" ->
         IF r.ok /\ Len(r.data) = 16 * n.cmd.blocks
         THEN HReadData(HAfterRead_CopyDataToBuff([n EXCEPT !.cc.CurBlockNo = @ + n.cmd.blocks], r.data))
         ELSE CrHandler([n EXCEPT !.ApduBuffIndex = 0], "READ_FAILED")

Felica_GetContainerSize(n) == [max |-> 16 * n.cc.attr.Nmaxb, actual |-> n.cc.attr.Ln]

---------------------------------------------------------------------------
\* The tag: attr its attribute block, mem its blocks one after another.
Accepts(tag, cmd) ==
  CASE cmd.op \in {"Poll", "ReadAttr"} -> TRUE
    [] cmd.op = "WriteAttr" -> tag.attr.RdWrFlag
    [] cmd.op = "Write" -> tag.attr.RdWrFlag /\ Len(cmd.bytes) <= 16 * tag.attr.Nbw
                             /\ 16 * cmd.block + Len(cmd.bytes) <= Len(tag.mem)
    [] cmd.op = "Read"  -> cmd.blocks <= tag.attr.Nbr /\ 16 * (cmd.block + cmd.blocks) <= Len(tag.mem)

Answer(tag, n) ==
  IF ~Accepts(tag, n.cmd) THEN Refused
  ELSE CASE n.cmd.op = "ReadAttr" -> Ok(tag.attr)
         [] n.cmd.op = "Read"     -> Ok(Slice(tag.mem, 16 * n.cmd.block, 16 * n.cmd.blocks))
         [] OTHER                 -> Ok(<<>>)

Executed(tag, n) ==
  IF ~Accepts(tag, n.cmd) THEN tag
  ELSE CASE n.cmd.op = "WriteAttr" -> [tag EXCEPT !.attr = n.cmd.attr]
         [] n.cmd.op = "Write"     -> [tag EXCEPT !.mem = Put(@, 16 * n.cmd.block, n.cmd.bytes)]
         [] OTHER                  -> tag

Found(tag) == IF tag.attr.WriteFlag THEN <<>> ELSE SubSeq(tag.mem, 1, tag.attr.Ln)
=============================================================================
