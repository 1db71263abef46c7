----------------------------- MODULE NdefType4 -----------------------------
(* The mapping of NDEF messages on a type 4 tag: the file holds the length *)
(* of the message (NLEN) in its first two bytes and the message after it.  *)
(* The tag is a card application with a capability container and a file.   *)
EXTENDS NdefTag

FileSpace(n) == n.cc.NdefFileSize - 2

HSendTransCmd(n, state, cmd) == Send(n, state, cmd)

SelectSmartTag(n) ==
  LET ev1 == IF n.cc.op = "CHK" THEN n.cc.CardType = "none" ELSE n.cc.CardType = "EV1"
  IN HSendTransCmd(n, IF ev1 THEN "SELECT_SMART_TAG_EV1" ELSE "SELECT_SMART_TAG",
                   [op |-> "SelectApp", ev1 |-> ev1])

SelectFile(n) == HSendTransCmd(n, "SELECT_FILE",
                   [op |-> "SelectFile", file |-> IF n.cc.op = "CHK" THEN "CC" ELSE "NDEF"])

HGetLeBytes(n) ==
  IF n.cc.op = "GET_LEN" THEN 2
  ELSE LET rest == Min({n.ApduBufferSize - n.ApduBuffIndex, n.cc.NdefDataLen - n.ApduBuffIndex,
                        n.cc.MaxRespSize})
       IN IF n.ApduBuffIndex = 0 /\ rest \in {1, 2} THEN rest + 2 ELSE rest

ReadBinary(n) ==
  IF n.cc.op = "CHK"
  THEN HSendTransCmd(n, "READ_CAP_CONT", [op |-> "ReadBinary", off |-> 0, le |-> 15])
  ELSE HSendTransCmd(n, "READ_BIN",
         [op  |-> "ReadBinary", le |-> HGetLeBytes(n),
          off |-> IF n.ApduBuffIndex = 0 THEN 0 ELSE n.ApduBuffIndex + 2])

HSetGet_NLEN(n) ==
  IF n.cc.op = "GET_LEN" THEN SelectSmartTag(n)
  ELSE HSendTransCmd(n, "UPDATE_BIN_END",
         [op |-> "UpdateBinary", off |-> 0, bytes |-> Be16(n.ApduBuffIndex)])

\* Mutant: the two bytes of NLEN are not counted.
Mutant_UpdateBinary(n) ==
  LET space == FileSpace(n)
      m     == [n EXCEPT !.ApduBufferSize = Min({@, space})]
      first == n.ApduBuffIndex = 0
      rest  == m.ApduBufferSize - m.ApduBuffIndex
      chunk == IF rest >= m.cc.MaxCmdSize THEN m.cc.MaxCmdSize ELSE rest
      bytes == NextBytes(m, chunk)
  IN IF rest > 0
     THEN HSendTransCmd([m EXCEPT !.cc.written = chunk], "UPDATE_BIN_BEGIN",
            [op |-> "UpdateBinary", off |-> IF first THEN 0 ELSE m.ApduBuffIndex + 2,
             bytes |-> IF first THEN <<0, 0>> \o bytes ELSE bytes])
     ELSE HSetGet_NLEN(m)

\* The first command clears NLEN together with the first bytes.
UpdateBinary(n) ==
  LET space == FileSpace(n)
      m     == [n EXCEPT !.ApduBufferSize = Min({@, space})]
      first == n.ApduBuffIndex = 0
      rest  == m.ApduBufferSize - m.ApduBuffIndex
      chunk == IF rest >= m.cc.MaxCmdSize THEN m.cc.MaxCmdSize - (IF first THEN 2 ELSE 0) ELSE rest
      bytes == NextBytes(m, chunk)
  IN IF rest > 0
     THEN HSendTransCmd([m EXCEPT !.cc.written = chunk], "UPDATE_BIN_BEGIN",
            [op |-> "UpdateBinary", off |-> IF first THEN 0 ELSE m.ApduBuffIndex + 2,
             bytes |-> IF first THEN <<0, 0>> \o bytes ELSE bytes])
     ELSE HSetGet_NLEN(m)

Desfire_ChkNdef(n) ==
  SelectSmartTag([n EXCEPT !.cc = [op |-> "CHK", CardType |-> "none", NdefFileSize |-> 0,
    MaxRespSize |-> 0, MaxCmdSize |-> 0, NdefDataLen |-> 0, written |-> 0]])

Desfire_RdNdef(n, size) ==
  LET m == [n EXCEPT !.cc.op = "READ", !.ApduBuffer = <<>>, !.ApduBufferSize = size]
  IN IF m.cc.CardType = "EV1" THEN SelectFile(m) ELSE SelectSmartTag(m)

Desfire_WrNdef(n, msg, size) ==
  LET m == [n EXCEPT !.cc.op = "WRITE", !.ApduBuffer = msg, !.ApduBufferSize = size,
                     !.WrNdefPacketLength = 0]
  IN IF m.cc.CardType = "EV1" THEN SelectFile(m) ELSE SelectSmartTag(m)

\* What the capability container says (c is the container's record).
Update_SmartTagCapContainer(n, c) ==
  IF c.version /\ c.MLe >= 15 /\ c.MLc > 0 /\ c.size - 2 > 4
  THEN LET m == [n EXCEPT !.cc.MaxRespSize = c.MLe, !.cc.MaxCmdSize = c.MLc,
                          !.cc.NdefFileSize = c.size, !.cc.op = "GET_LEN",
                          !.CardState = IF c.writable THEN "READ_WRITE" ELSE "READ_ONLY"]
       IN IF m.cc.CardType = "EV1" THEN SelectFile(m) ELSE HSetGet_NLEN(m)
  ELSE CrHandler(n, "NO_NDEF_SUPPORT")

HProcGetLen(n, data) ==
  LET length == 256 * data[1] + data[2]
  IN IF length > FileSpace(n) \/ length = 65535
     THEN CrHandler([n EXCEPT !.ApduBuffIndex = 0], "NO_NDEF_SUPPORT")
     ELSE SetCardState([n EXCEPT !.cc.NdefDataLen = length, !.cc.op = "CHK", !.ApduBuffIndex = 0], length)

\* An empty message ends the operation twice: the second completion finds
\* nobody waiting, so the first is what the caller is told.
HProcReadData(n, data) ==
  LET first  == n.ApduBuffIndex = 0
      length == IF first THEN 256 * data[1] + data[2] ELSE n.cc.NdefDataLen
      body   == IF first THEN SubSeq(data, 3, Len(data)) ELSE data
      bytes  == SubSeq(body, 1, Min({length, Len(body)}))
      m      == [n EXCEPT !.cc.NdefDataLen = length, !.ApduBuffer = @ \o bytes,
                          !.ApduBuffIndex = @ + Len(bytes)]
  IN CASE length = 0 -> CrHandler([n EXCEPT !.CardState = "INITIALIZED", !.cc.NdefDataLen = 0], "EOF")
       [] length > 0 /\ n.ApduBufferSize - n.ApduBuffIndex < Len(bytes) ->
            CrHandler([n EXCEPT !.cc.NdefDataLen = length], "BUFFER_TOO_SMALL")
       [] OTHER ->
            IF m.ApduBuffIndex < length /\ m.ApduBufferSize > m.ApduBuffIndex
            THEN ReadBinary(m)
            ELSE CrHandler([m EXCEPT !.ApduBuffIndex = 0], "SUCCESS")

HProcWritten(n) ==
  LET m == [n EXCEPT !.ApduBuffIndex = @ + n.cc.written, !.WrNdefPacketLength = @ + n.cc.written]
  IN UpdateBinary(m)

Desfire_Process(n, r) ==
  CASE ~r.rf -> CrHandler(n, "RF_ERROR")
    [] r.rf /\ n.State = "SELECT_SMART_TAG_EV1" ->
         IF r.ok THEN SelectFile([n EXCEPT !.cc.CardType = "EV1"])
         ELSE SelectSmartTag([n EXCEPT !.cc.CardType = "4A"])
    [] r.rf /\ n.State = "SELECT_SMART_TAG" ->
         IF r.ok THEN SelectFile(n)
         ELSE CrHandler([n EXCEPT !.cc.CardType = "none"], "SMART_TAG_FUNC_NOT_SUPPORTED")
    [] r.rf /\ n.State = "SELECT_FILE" ->
         IF ~r.ok THEN CrHandler(n, "INVALID_REMOTE_DEVICE")
         ELSE IF n.cc.op = "WRITE" THEN UpdateBinary(n) ELSE ReadBinary(n)
    [] r.rf /\ n.State = "READ_CAP_CONT" ->
         IF r.ok THEN Update_SmartTagCapContainer(n, r.data) ELSE CrHandler(n, "INVALID_REMOTE_DEVICE")
    [] r.rf /\ n.State = "READ_BIN" ->
         IF ~(r.ok /\ Len(r.data) = HGetLeBytes(n))
         THEN CrHandler([n EXCEPT !.ApduBuffIndex = 0], "READ_FAILED")
         ELSE IF n.cc.op = "GET_LEN" THEN HProcGetLen(n, r.data) ELSE HProcReadData(n, r.data)
    [] r.rf /\ n.State = "UPDATE_BIN_BEGIN" ->
         IF r.ok THEN HProcWritten(n) ELSE CrHandler([n EXCEPT !.ApduBuffIndex = 0], "WRITE_FAILED")
    [] r.rf /\ n.State = "UPDATE_BIN_END" ->
         IF r.ok
         THEN CrHandler([Written(n) EXCEPT !.cc.NdefDataLen = n.WrNdefPacketLength, !.ApduBuffIndex = 0],
                        "SUCCESS")
         ELSE CrHandler([n EXCEPT !.ApduBuffIndex = 0], "WRITE_FAILED")

Desfire_GetContainerSize(n) == [max |-> FileSpace(n), actual |-> n.cc.NdefDataLen]

---------------------------------------------------------------------------
\* The tag: c its capability container, mem its file, ev1 which application it
\* has, stage how far it has been formatted: each step creates, or fills, one thing more.
Stage == [CREATE_AID |-> 1, CREATE_CCFILE |-> 2, CREATE_NDEFFILE |-> 3, WRITE_CC_FILE |-> 4]

Accepts(tag, cmd) ==
  CASE cmd.op \in {"SelectApp", "SelectNative"} -> cmd.ev1 = tag.ev1 /\ tag.stage >= 1
    [] cmd.op = "SelectFile"   -> tag.stage >= (IF cmd.file = "CC" THEN 2 ELSE 3)
    [] cmd.op \in {"CREATE_AID", "CREATE_CCFILE", "CREATE_NDEFFILE"} -> tag.stage = Stage[cmd.op] - 1
    [] cmd.op = "SELECT_APP" -> tag.stage >= 1
    [] cmd.op \in {"WRITE_CC_FILE", "WRITE_NDEF_FILE", "ReadCC", "LockCC"} -> tag.stage >= 3
    [] cmd.op \in {"GetVersion", "GetUID", "Reconnect"} -> TRUE
    [] cmd.op = "ReadBinary"   -> TRUE
    [] cmd.op = "UpdateBinary" -> tag.c.writable /\ Len(cmd.bytes) <= tag.c.MLc
                                    /\ cmd.off + Len(cmd.bytes) <= Len(tag.mem)

Answer(tag, n) ==
  IF ~Accepts(tag, n.cmd) THEN Refused
  ELSE IF n.State = "READ_CAP_CONT" THEN Ok([tag.c EXCEPT !.version = tag.stage = 4])
  ELSE IF n.cmd.op = "GetVersion" THEN Ok([ev1 |-> tag.ev1])
  ELSE IF n.cmd.op = "ReadBinary" THEN Ok(Slice(tag.mem, n.cmd.off, n.cmd.le)) ELSE Ok(<<>>)

Executed(tag, n) ==
  IF ~Accepts(tag, n.cmd) THEN tag
  ELSE IF n.cmd.op = "UpdateBinary" THEN [tag EXCEPT !.mem = Put(@, n.cmd.off, n.cmd.bytes)]
  ELSE IF n.cmd.op \in DOMAIN Stage THEN [tag EXCEPT !.stage = Max({@, Stage[n.cmd.op]})]
  ELSE IF n.cmd.op = "WRITE_NDEF_FILE" THEN [tag EXCEPT !.mem = Put(@, 0, <<0, 0>>)]
  ELSE IF n.cmd.op = "LockCC" THEN [tag EXCEPT !.c.writable = FALSE] ELSE tag

Formatted(tag) == tag.stage = 4
ReadOnly(tag)  == ~tag.c.writable

\* What a reader of this code finds on the tag.
Found(tag) ==
  LET length == 256 * tag.mem[1] + tag.mem[2]
  IN IF length = 0 \/ length > Len(tag.mem) - 2 THEN <<>> ELSE SubSeq(tag.mem, 3, length + 2)
=============================================================================
