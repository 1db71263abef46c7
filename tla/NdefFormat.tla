----------------------------- MODULE NdefFormat -----------------------------
(* Formatting a blank tag so that it can hold messages, and making a tag   *)
(* read-only (phFriNfc_SmtCrdFmt.c and the formats of the tag types). The  *)
(* component has a context of its own, of which n.fmt keeps what outlives  *)
(* an operation: how many dynamic lock bits have been written, and the     *)
(* static variables of the parser that looks for them.                     *)
(*                                                                         *)
(* Left out: the keys of a Mifare Classic tag, dynamic lock bytes that lie *)
(* between the TLVs, or in more than one block.                            *)
EXTENDS NdefTag

ParseFromStart == [state |-> "LOCK_TLV_T", index |-> 0, remaining |-> 0, v |-> <<>>, length |-> 0, bad |-> FALSE]

FormatContext == [LockBitsWritten |-> 0, parse |-> ParseFromStart]

FormatError(n) == CrHandler(n, "FORMAT_ERROR")

\* phFriNfc_NdefSmtCrd_Reset leaves LockBitsWritten as it is.
SmtCrd_Reset(n) ==
  [n EXCEPT !.fmt = [LockBitsWritten |-> @.LockBitsWritten, parse |-> @.parse, Current |-> 0, size |-> 0, mbr |-> FALSE,
                     CardType |-> "none", NoOfLockBits |-> 0, LockBlock |-> 0]]

---------------------------------------------------------------------------
\* Type 1, static memory: container and empty message, a byte at a time; every
\* byte must come back.
StaticTopaz == <<225, 16, 14, 0, 3, 0, 254>>

Topaz_WriteByte(n) ==
  Send(n, "FORMAT", [op |-> "WriteE", at |-> n.fmt.Current, value |-> At(StaticTopaz, n.fmt.Current)])

TopazFormat(n) == Topaz_WriteByte(n)

TopazFormat_Process(n, r) ==
  LET m == [n EXCEPT !.fmt.Current = @ + 1]
  IN IF r.data # At(StaticTopaz, n.fmt.Current) THEN FormatError(n)
     ELSE IF m.fmt.Current < Len(StaticTopaz) THEN Topaz_WriteByte(m) ELSE CrHandler(m, "SUCCESS")

\* Read-only: the access byte of the container, then the two lock bytes.
CC_RWA == 3
LOCK0  == 104

Topaz_ConvertToReadOnly(n) == Send(n, "WR_CC_BYTE", [op |-> "WriteE", at |-> CC_RWA, value |-> 15])

\* The case of the first lock byte runs on into that of the second, which
\* compares the command just sent with the answer it should get: the operation
\* ends as a failure and the command is on its way.
Topaz_ReadOnly_Process(n, r) ==
  CASE n.State = "WR_CC_BYTE"    -> Send(n, "WR_LOCK0_BYTE", [op |-> "WriteE", at |-> LOCK0, value |-> 255])
    [] n.State = "WR_LOCK0_BYTE" -> CrHandler(n, "INVALID_RECEIVE_LENGTH")

---------------------------------------------------------------------------
\* Type 2. The first read takes the lock bits and the container (OTP bytes).
MfUL_Transceive(n, state, cmd) == Send(n, state, cmd)
Read16(n, state, block) == MfUL_Transceive(n, state, [op |-> "Read", block |-> block])
Write4(n, state, block, what) == MfUL_Transceive(n, state, [op |-> "Write4", block |-> block, bytes |-> what])

\* The size that the container will say, in units of eight bytes.
MfUL_Format(n, tag) ==
  LET size == CASE tag.cc.ul = "UL" -> 6 [] tag.cc.ul = "ULC" -> 18 [] tag.cc.ul = "EV1" -> Len(tag.mem) \div 8
  IN Read16([n EXCEPT !.fmt.CardType = IF tag.cc.ul = "ULC" THEN "ULC" ELSE "UL", !.fmt.size = size],
            "RD_16BYTES", 2)

FirstTLV(n)  == IF n.fmt.CardType = "ULC" THEN <<1, 3, 160, 16>> ELSE <<3, 0, 254, 0>>
SecondTLV    == <<68, 3, 0, 254>>

MfUL_ProRd16Bytes(n, cc) ==
  CASE cc.locked -> FormatError(n)
    [] ~cc.locked /\ cc.size = 0 /\ ~cc.magic ->
         Write4(n, "WR_OTPBYTES", 3, [magic |-> TRUE, version |-> TRUE, size |-> n.fmt.size, writable |-> TRUE])
    [] ~cc.locked /\ cc.magic -> IF cc.version /\ cc.writable THEN Write4(n, "WR_TLV", 4, FirstTLV(n))
                                 ELSE FormatError(n)
    [] OTHER -> FormatError(n)

MfUL_Format_Process(n, r) ==
  CASE n.State = "RD_16BYTES"  -> MfUL_ProRd16Bytes(n, r.data)
    [] n.State = "WR_OTPBYTES" -> Write4(n, "WR_TLV", 4, FirstTLV(n))
    [] n.State = "WR_TLV"      -> IF n.fmt.CardType = "ULC" THEN Write4(n, "WR_TLV1", 5, SecondTLV)
                                  ELSE CrHandler(n, "SUCCESS")
    [] n.State = "WR_TLV1"     -> CrHandler(n, "SUCCESS")

MfUL_ConvertToReadOnly(n) == Read16(n, "RO_RD_16BYTES", 2)

\* The container is kept for the write that makes it read-only.
WriteOTP(n)  == Write4(n, "RO_WR_OTP_BYTES", 3, [magic |-> TRUE, version |-> TRUE, size |-> n.fmt.size, writable |-> FALSE])
WriteLock(n) == Write4(n, "RO_WR_LOCK_BYTES", 2, [locked |-> TRUE])

MfUL_ROContainer(n, cc) ==
  LET m == [n EXCEPT !.fmt.size = cc.size]
  IN CASE cc.size = 6  -> WriteOTP(m)
       [] cc.size = 18 -> Read16([m EXCEPT !.fmt.Current = 4], "RO_NDEF_PARSE_RD_BYTES", 4)
       [] cc.size \notin {6, 18} -> CrHandler(m, "INVALID_DEVICE_REQUEST")

CalcRemainingLockBits(n) == (n.fmt.NoOfLockBits - n.fmt.LockBitsWritten) % 256

\* A lock control TLV says where the dynamic lock bits are, and how many.
GetLockBytesInfo(n, v) ==
  LET address == ((v[1] \div 16) * (2^(v[3] % 16)) + (v[1] % 16)) % 256
  IN [n EXCEPT !.fmt.NoOfLockBits = v[2], !.fmt.LockBlock = address \div 4]

\* Without one they follow the memory.
GetDefaultLockBytesInfo(n) ==
  [n EXCEPT !.fmt.NoOfLockBits = (8 * n.fmt.size - 48) \div 8, !.fmt.LockBlock = (16 + 8 * n.fmt.size) \div 4]

\* One byte of the list: empty bytes, one lock control TLV, empty bytes, the
\* NDEF TLV; anything else is not understood. A length of three bytes is never
\* read to its end: its second byte is taken again and again.
ParseByte(p, b) ==
  CASE p.state = "LOCK_TLV_T" -> IF b = 0 THEN p ELSE IF b = 1 THEN [p EXCEPT !.state = "LOCK_TLV_L"]
                                 ELSE IF b = 3 THEN [p EXCEPT !.state = "NDEF_TLV_L", !.v = <<>>] ELSE [p EXCEPT !.bad = TRUE]
    [] p.state = "LOCK_TLV_L" -> IF b = 3 THEN [p EXCEPT !.state = "LOCK_TLV_V"] ELSE [p EXCEPT !.bad = TRUE]
    [] p.state = "LOCK_TLV_V" -> IF Len(p.v) < 2 THEN [p EXCEPT !.v = Append(@, b)]
                                 ELSE [p EXCEPT !.v = Append(@, b), !.state = "NDEF_TLV_T"]
    [] p.state = "NDEF_TLV_T" -> IF b = 0 THEN p ELSE IF b = 3 THEN [p EXCEPT !.state = "NDEF_TLV_L"]
                                 ELSE [p EXCEPT !.bad = TRUE]
    [] p.state = "NDEF_TLV_L" -> IF p.index = 0 /\ b = 255 THEN [p EXCEPT !.index = 1]
                                 ELSE IF p.index = 0 THEN [p EXCEPT !.length = b, !.state = "NDEF_TLV_V"]
                                 ELSE [p EXCEPT !.length = 256 * b]

\* Once the NDEF TLV, or something that is not understood, has come the rest is not looked at.
ParseStep(p, b) ==
  IF p.bad \/ p.state = "NDEF_TLV_V" THEN p
  ELSE LET q == ParseByte(p, b)
       IN IF q.state = "NDEF_TLV_V" THEN [q EXCEPT !.bad = q.remaining - 1 < q.length]
          ELSE [q EXCEPT !.remaining = @ - 1, !.bad = @ \/ p.remaining = 1]

MfUL_ReadWriteLockBytes(n) == Read16(n, "RO_RD_DYN_LOCK_BYTES", n.fmt.LockBlock)

MfUL_ParseTLVs(n, data) ==
  LET p0   == IF n.fmt.parse.remaining = 0 THEN [n.fmt.parse EXCEPT !.remaining = 8 * n.fmt.size] ELSE n.fmt.parse
      p    == FoldLeft(ParseStep, p0, data)
      done == [n EXCEPT !.fmt.parse = ParseFromStart]
      info == IF p.v = <<>> THEN GetDefaultLockBytesInfo(done) ELSE GetLockBytesInfo(done, p.v)
  IN CASE p.bad -> CrHandler(done, "NO_NDEF_SUPPORT")
       [] ~p.bad /\ p.state = "NDEF_TLV_V" -> MfUL_ReadWriteLockBytes(info)
       [] OTHER -> Read16([n EXCEPT !.fmt.parse = p, !.fmt.Current = @ + 4], n.State, n.fmt.Current + 4)

\* The bits that have not been written yet are set in what was read; they are
\* counted as written when the command is sent.
MfUL_UpdateAndWriteLockBits(n, bits) ==
  LET rest == CalcRemainingLockBits(n)
  IN Write4([n EXCEPT !.fmt.LockBitsWritten = @ + rest], "RO_WR_DYN_LOCK_BYTES", n.fmt.LockBlock,
            [dyn |-> IF rest = 0 THEN bits ELSE rest])

MfUL_ReadOnly_Process(n, r) ==
  CASE n.State = "RO_RD_16BYTES"          -> MfUL_ROContainer(n, r.data)
    [] n.State = "RO_NDEF_PARSE_RD_BYTES" -> MfUL_ParseTLVs(n, r.data)
    [] n.State = "RO_RD_DYN_LOCK_BYTES"   -> MfUL_UpdateAndWriteLockBits(n, r.data)
    [] n.State = "RO_WR_DYN_LOCK_BYTES"   -> WriteOTP(n)
    [] n.State = "RO_WR_OTP_BYTES"        -> WriteLock(n)
    [] n.State = "RO_WR_LOCK_BYTES"       -> CrHandler(n, "SUCCESS")

---------------------------------------------------------------------------
\* Type 4 (Desfire): each step creates one thing more on the card.
Desf(n, state, op) == Send(n, state, [op |-> op])

Desfire_Format(n) == Desf(n, "GET_HW_VERSION", "GetVersion")

\* An answer that is not the expected one to the third command ends in no
\* command and no completion.
Desf_HGetUIDDetails(n, r) ==
  IF r.ok THEN Desf([n EXCEPT !.fmt.CardType = IF r.data.ev1 THEN "EV1" ELSE "EV0"], "GET_UID", "GetUID")
  ELSE Desf(n, "GET_UID", "hung")

\* The state each answer leads to.
NextStep == [GET_UID |-> "CREATE_AID", CREATE_AID |-> "SELECT_APP", SELECT_APP |-> "CREATE_CCFILE",
             CREATE_CCFILE |-> "CREATE_NDEFFILE", CREATE_NDEFFILE |-> "WRITE_CC_FILE",
             WRITE_CC_FILE |-> "WRITE_NDEF_FILE"]

\* The last answer, good or bad, makes the operation a success; a card of the
\* newer kind is activated again before it is told.
Desf_HWrNDEFData(n, r) ==
  IF r.ok /\ n.fmt.CardType = "EV1" THEN Desf(n, "REACTIVATE", "Reconnect") ELSE CrHandler(n, "SUCCESS")

Desf_Format_Process(n, r) ==
  CASE n.State = "GET_HW_VERSION"  -> IF r.ok THEN Desf(n, "GET_SW_VERSION", "GetVersion") ELSE FormatError(n)
    [] n.State = "GET_SW_VERSION"  -> Desf_HGetUIDDetails(n, r)
    [] n.State \in DOMAIN NextStep -> IF r.ok THEN Desf(n, NextStep[n.State], NextStep[n.State]) ELSE FormatError(n)
    [] n.State = "WRITE_NDEF_FILE" -> Desf_HWrNDEFData(n, r)
    [] n.State = "REACTIVATE"      -> CrHandler(n, "SUCCESS")

ReadOnlySelectApp(n, type) ==
  Send([n EXCEPT !.fmt.CardType = type], IF type = "EV1" THEN "RO_SELECT_APP_EV1" ELSE "RO_SELECT_APP",
       [op |-> "SelectNative", ev1 |-> type = "EV1"])

Desfire_ConvertToReadOnly(n) == ReadOnlySelectApp(n, "EV1")

Desf_HReadOnlyReadCCFile(n)  == Desf(n, "RO_READ_CC_FILE", "ReadCC")
Desf_HReadOnlyWriteCCFile(n) == Desf(n, "RO_UPDATE_CC_FILE", "LockCC")

Desf_ReadOnly_Process(n, r) ==
  CASE n.State = "RO_SELECT_APP_EV1" -> IF r.ok THEN Desf_HReadOnlyReadCCFile(n) ELSE ReadOnlySelectApp(n, "EV0")
    [] n.State = "RO_SELECT_APP"     -> IF r.ok THEN Desf_HReadOnlyReadCCFile(n) ELSE FormatError(n)
    [] n.State = "RO_READ_CC_FILE"   -> IF r.ok THEN Desf_HReadOnlyWriteCCFile(n) ELSE FormatError(n)
    [] n.State = "RO_UPDATE_CC_FILE" -> IF ~r.ok THEN FormatError(n)
                                        ELSE IF n.fmt.CardType = "EV1" THEN Desf(n, "REACTIVATE", "Reconnect")
                                        ELSE CrHandler(n, "SUCCESS")
    [] n.State = "REACTIVATE"        -> CrHandler(n, "SUCCESS")

---------------------------------------------------------------------------
\* Type 5: the size of the tag, then its container, in a block of its first
\* 256 or in two, then an empty message in the block after it.
FmtReadWrite(n, state, cmd) == Send(n, state, cmd)

ISO15693_Format(n) == FmtReadWrite(n, "GET_SYS_INFO", [op |-> "GetSystemInfo", ext |-> FALSE])

ReadBlock0(n, info) ==
  FmtReadWrite([n EXCEPT !.fmt.size = info.size, !.fmt.mbr = info.mbr], "RD_SINGLE_BLK_CHECK",
               [op |-> "Read", block |-> 0, blocks |-> 1])

WriteContainer(n, state, cc) == FmtReadWrite(n, state, [op |-> "WriteCC", cc |-> cc])

SmallContainer(size) ==
  [valid |-> TRUE, writable |-> TRUE, size |-> size \div 8, size2 |-> 0, mbr |-> FALSE, exceeded |-> FALSE]
FirstOfTwo(n) ==
  [valid |-> TRUE, writable |-> TRUE, size |-> 0, size2 |-> 0, mbr |-> n.fmt.mbr, exceeded |-> FALSE]

\* A block 0 that is not empty is left alone.
ISO15693_Container(n, cc) ==
  IF cc.valid THEN CrHandler(n, "INVALID_FORMAT")
  ELSE IF n.fmt.size \div 4 <= 256 THEN WriteContainer(n, "WRITE_CC_FMT", SmallContainer(n.fmt.size))
  ELSE WriteContainer([n EXCEPT !.fmt.Current = 1], "WRITE_CC_SECOND_BLOCK_FMT", FirstOfTwo(n))

ISO15693_FmtProcess(n, r) ==
  CASE n.State = "GET_SYS_INFO" /\ r.data.size > 0 -> ReadBlock0(n, r.data)
    [] n.State = "GET_SYS_INFO" /\ r.data.size = 0 ->
         FmtReadWrite(n, "EXT_GET_SYS_INFO", [op |-> "GetSystemInfo", ext |-> TRUE])
    [] n.State = "EXT_GET_SYS_INFO" ->
         IF r.data.size > 0 THEN ReadBlock0(n, r.data) ELSE CrHandler(n, "INVALID_RECEIVE_LENGTH")
    [] n.State = "RD_SINGLE_BLK_CHECK"       -> ISO15693_Container(n, r.data)
    [] n.State = "WRITE_CC_SECOND_BLOCK_FMT" ->
         WriteContainer(n, "WRITE_CC_FMT", [FirstOfTwo(n) EXCEPT !.size2 = n.fmt.size \div 8])
    [] n.State = "WRITE_CC_FMT"   -> FmtReadWrite(n, "WRITE_NDEF_TLV", [op |-> "Write", block |-> n.fmt.Current + 1,
                                                                        bytes |-> <<3, 0, 254, 0>>])
    [] n.State = "WRITE_NDEF_TLV" -> CrHandler(n, "SUCCESS")

---------------------------------------------------------------------------
\* The dispatch of phFriNfc_SmtCrdFmt.c and, for a type 1 tag that is made
\* read-only, of the mapping.
Format(n, tag) ==
  LET m == SmtCrd_Reset(n)
  IN CASE tag.kind = "type1" -> TopazFormat(m)
       [] tag.kind = "type2" -> MfUL_Format(m, tag)
       [] tag.kind = "type4" -> Desfire_Format(m)
       [] tag.kind = "type5" -> ISO15693_Format(m)

ConvertToReadOnly(n, tag) ==
  CASE tag.kind = "type1" -> Topaz_ConvertToReadOnly(n)
    [] tag.kind = "type2" -> MfUL_ConvertToReadOnly(SmtCrd_Reset(n))
    [] tag.kind = "type4" -> Desfire_ConvertToReadOnly(SmtCrd_Reset(n))

Format_Process(n, tag, r) ==
  CASE ~r.rf \/ (~r.ok /\ tag.kind # "type4") -> CrHandler(n, IF r.rf THEN "FAILED" ELSE "RF_ERROR")
    [] r.rf /\ (r.ok \/ tag.kind = "type4") ->
         CASE tag.kind = "type1" -> TopazFormat_Process(n, r)
           [] tag.kind = "type2" -> MfUL_Format_Process(n, r)
           [] tag.kind = "type4" -> Desf_Format_Process(n, r)
           [] tag.kind = "type5" -> ISO15693_FmtProcess(n, r)

ReadOnly_Process(n, tag, r) ==
  CASE ~r.rf \/ (~r.ok /\ tag.kind # "type4") -> CrHandler(n, IF r.rf THEN "FAILED" ELSE "RF_ERROR")
    [] r.rf /\ (r.ok \/ tag.kind = "type4") ->
         CASE tag.kind = "type1" -> Topaz_ReadOnly_Process(n, r)
           [] tag.kind = "type2" -> MfUL_ReadOnly_Process(n, r)
           [] tag.kind = "type4" -> Desf_ReadOnly_Process(n, r)
=============================================================================
