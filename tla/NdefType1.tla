----------------------------- MODULE NdefType1 -----------------------------
(* The mapping of NDEF messages on a type 1 tag with static memory (Topaz):*)
(* a capability container in the first four bytes, a list of TLVs after    *)
(* it, and commands that write one byte. The first byte of the container   *)
(* (NMN) is cleared while a message is written.                            *)
EXTENDS NdefTag

RWBytes == 96
NMN     == 225

\* InternalState: 0 to 3 are the bytes of the container.
WR_T_OF_TLV == 4
WR_NMN_0    == 5
WR_NMN_E1   == 6
WR_L_TLV_0  == 7
WR_L_TLV    == 8

Byte(block, byte) == 8 * (block - 1) + byte

Tpz_H_RdBytes(n) == Send(n, "READALL", [op |-> "ReadAll"])
Tpz_H_WrAByte(n, state, at, value) == Send(n, state, [op |-> "WriteE", at |-> at, value |-> value])

Topaz_H_Reset == [PrevOperation |-> "none", InternalState |-> 0, found |-> FALSE, TLV |-> 4,
                  L |-> 0, CurrentBlock |-> 1, ByteNumber |-> 0, RemainingSize |-> 0]

Topaz_ChkNdef(n) ==
  Tpz_H_RdBytes([n EXCEPT !.cc = [Topaz_H_Reset EXCEPT !.PrevOperation = "CHECK"]])

Topaz_RdNdef(n, size) ==
  Tpz_H_RdBytes([n EXCEPT !.ApduBuffer = <<>>, !.ApduBufferSize = size, !.ApduBuffIndex = 0,
                          !.cc.PrevOperation = "READ", !.cc.CurrentBlock = 1, !.cc.ByteNumber = 0])

Topaz_WrNdef(n, msg, size) ==
  Tpz_H_RdBytes([n EXCEPT !.ApduBuffer = msg, !.ApduBufferSize = size, !.ApduBuffIndex = 0,
                          !.WrNdefPacketLength = 0, !.cc.PrevOperation = "WRITE",
                          !.cc.CurrentBlock = 1, !.cc.ByteNumber = 0, !.cc.RemainingSize = RWBytes - 4])

\* The next byte, and the next block after the last byte of one.
NextByte(n) ==
  [n EXCEPT !.cc.CurrentBlock = IF n.cc.ByteNumber + 1 > 7 THEN @ + 1 ELSE @,
            !.cc.ByteNumber = (@ + 1) % 8]

Tpz_H_ChkLockBits(n, data) ==
  [n EXCEPT !.CardState = IF data.locked \/ At(data.mem, 3) = 15 THEN "READ_ONLY"
                          ELSE IF At(data.mem, 3) = 0 THEN "READ_WRITE" ELSE "INVALID"]

Compliant(mem) == At(mem, 1) \div 16 = 1 /\ At(mem, 2) <= 14

Tpz_H_ChkCCBytes(n, mem) ==
  /\ At(mem, 0) = NMN /\ Compliant(mem)
  /\ At(mem, 3) \in IF n.cc.PrevOperation = "WRITE" THEN {0} ELSE {0, 15}

\* Where the NDEF TLV is: -1 when the list ends, or runs past the memory, before it.
NdefTLV(mem) ==
  LET from[i \in Nat] ==
        IF i > RWBytes - 3 \/ At(mem, i) = 254 THEN -1
        ELSE IF At(mem, i) = 3 THEN i
        ELSE IF At(mem, i) = 0 THEN from[i + 1]
        ELSE IF At(mem, i + 1) > RWBytes - i - 2 THEN -1 ELSE from[i + 2 + At(mem, i + 1)]
  IN from[4]

\* ok: whether it is found, and usable; its length sets the card's state.
Tpz_H_findNDEFTLV(n, mem) ==
  LET i     == NdefTLV(mem)
      L     == At(mem, i + 1)
      state == CardStateFor(n, L)
      ok    == /\ i >= 0
               /\ L <= RWBytes - i - 2 /\ state # "INVALID"
               /\ ~(L = 0 /\ n.cc.PrevOperation = "READ")
      seen  == IF i >= 0 THEN [n EXCEPT !.CardState = state] ELSE n
  IN [ok |-> ok,
      n  |-> IF ok THEN [seen EXCEPT !.cc.found = TRUE, !.cc.TLV = i, !.cc.L = L, !.cc.ByteNumber = i,
                                     !.cc.RemainingSize = RWBytes - i - 2]
             ELSE IF n.cc.found \/ n.cc.PrevOperation = "READ" THEN seen
             ELSE [seen EXCEPT !.cc.TLV = 4, !.cc.ByteNumber = 4, !.cc.RemainingSize = RWBytes - 6]]

\* The message is copied out of the memory that was read: one command reads all of it.
Tpz_H_CpDataToUsrBuf(n, mem) ==
  LET k == Min({n.ApduBufferSize, n.cc.L})
  IN [n EXCEPT !.ApduBuffer = Slice(mem, n.cc.ByteNumber + 2, k), !.cc.L = @ - k]

\* The container's bytes when it has none, then the type of the TLV.
CCByte(i) == <<NMN, 16, 14, 0>>[i + 1]
Tpz_H_WrCCorTLV(n) ==
  LET i == n.cc.InternalState
  IN Tpz_H_WrAByte(n, "WR_CC_OR_TLV", IF i = WR_T_OF_TLV THEN n.cc.TLV ELSE i,
                    IF i = WR_T_OF_TLV THEN 3 ELSE CCByte(i))

Tpz_H_ProCCTLV(n) ==
  IF n.cc.InternalState < WR_T_OF_TLV
  THEN Tpz_H_WrCCorTLV([n EXCEPT !.cc.InternalState = @ + 1])
  ELSE Tpz_H_WrAByte(NextByte([n EXCEPT !.cc.InternalState = WR_NMN_0]), "WRITE_NMN", 0, 0)

Tpz_H_CallNxtOp(n, mem) ==
  CASE n.cc.PrevOperation = "CHECK" ->
         IF At(mem, 0) = NMN /\ At(mem, 3) < 16 /\ n.CardState # "INVALID"
         THEN LET m == [n EXCEPT !.cc.RemainingSize = RWBytes - 4,
                                 !.CardState = IF @ = "READ_ONLY" THEN @ ELSE "INITIALIZED"]
              IN CrHandler(IF Compliant(mem) THEN Tpz_H_findNDEFTLV(m, mem).n ELSE m, "SUCCESS")
         ELSE CrHandler([n EXCEPT !.CardState = IF @ = "READ_ONLY" THEN @ ELSE "INVALID"], "NO_NDEF_SUPPORT")
    [] n.cc.PrevOperation = "READ" ->
         LET f == Tpz_H_findNDEFTLV(n, mem)
         IN IF ~Tpz_H_ChkCCBytes(n, mem) THEN CrHandler(n, "INVALID_FORMAT")
            ELSE IF f.ok THEN CrHandler(Tpz_H_CpDataToUsrBuf(f.n, mem), "SUCCESS")
            ELSE CrHandler(f.n, "EOF")
    [] n.cc.PrevOperation = "WRITE" ->
         IF n.CardState \notin {"READ_WRITE", "INITIALIZED"} THEN CrHandler(n, "INVALID_RECEIVE_LENGTH")
         ELSE IF Tpz_H_ChkCCBytes(n, mem)
         THEN Tpz_H_WrCCorTLV([Tpz_H_findNDEFTLV(n, mem).n EXCEPT !.cc.InternalState = WR_T_OF_TLV])
         ELSE Tpz_H_WrCCorTLV([n EXCEPT !.cc.TLV = 4, !.cc.ByteNumber = 4, !.cc.InternalState = 0])

Tpz_H_ProReadAll(n, data) == Tpz_H_CallNxtOp(Tpz_H_ChkLockBits(n, data), data.mem)

WrUsrByte(n) == Tpz_H_WrAByte(n, "WRITE", Byte(n.cc.CurrentBlock, n.cc.ByteNumber), At(n.ApduBuffer, n.ApduBuffIndex))

Tpz_H_WrLByte(n) ==
  Tpz_H_WrAByte([n EXCEPT !.cc.InternalState = WR_L_TLV], "WRITE_L_TLV", n.cc.TLV + 1, n.ApduBuffIndex)

Tpz_H_ProWrUsrData(n) ==
  LET m == NextByte([n EXCEPT !.ApduBuffIndex = @ + 1, !.cc.RemainingSize = @ - 1])
  IN IF m.ApduBuffIndex = m.ApduBufferSize \/ m.cc.RemainingSize = 0 THEN Tpz_H_WrLByte(m) ELSE WrUsrByte(m)

Tpz_H_WrByte0ValE1(n) ==
  Tpz_H_WrAByte([n EXCEPT !.cc.InternalState = WR_NMN_E1], "WRITE_NMN", 0, NMN)

Tpz_H_ProWrTLV(n) ==
  IF n.cc.InternalState = WR_L_TLV_0 THEN WrUsrByte(NextByte(n))
  ELSE Tpz_H_WrByte0ValE1([n EXCEPT !.cc.L = n.ApduBuffIndex])

Tpz_H_ProWrNMN(n) ==
  IF n.cc.InternalState = WR_NMN_0
  THEN Tpz_H_WrAByte([n EXCEPT !.cc.InternalState = WR_L_TLV_0], "WRITE_L_TLV", n.cc.TLV + 1, 0)
  ELSE CrHandler([Written(n) EXCEPT !.WrNdefPacketLength = n.ApduBuffIndex], "SUCCESS")

Topaz_Process(n, r) ==
  CASE ~r.rf          -> CrHandler(n, "RF_ERROR")
    [] r.rf /\ ~r.ok  -> CrHandler(n, "INVALID_RECEIVE_LENGTH")
    [] r.rf /\ r.ok   ->
         CASE n.State = "READALL"      -> Tpz_H_ProReadAll(n, r.data)
           [] n.State = "WR_CC_OR_TLV" -> Tpz_H_ProCCTLV(n)
           [] n.State = "WRITE_NMN"    -> Tpz_H_ProWrNMN(n)
           [] n.State = "WRITE_L_TLV"  -> Tpz_H_ProWrTLV(n)
           [] n.State = "WRITE"        -> Tpz_H_ProWrUsrData(n)

Topaz_GetContainerSize(n) == [max |-> n.cc.RemainingSize, actual |-> n.cc.L]

---------------------------------------------------------------------------
\* The tag: mem its blocks 1 to 12, locked its lock bits, which are behind them.
Answer(tag, n) ==
  CASE n.cmd.op = "ReadAll" -> Ok([mem |-> tag.mem, locked |-> tag.locked])
    [] n.cmd.op = "WriteE"  -> IF tag.locked THEN Refused ELSE Ok(n.cmd.value)

Executed(tag, n) ==
  IF n.cmd.op = "WriteE" /\ ~tag.locked
  THEN [tag EXCEPT !.mem = Put(@, n.cmd.at, <<n.cmd.value>>), !.locked = n.cmd.at >= RWBytes] ELSE tag

\* The container of a tag that has been formatted.
Formatted(tag) == At(tag.mem, 0) = NMN

\* The tag says of itself that it is not to be written, and refuses it.
ReadOnly(tag) == At(tag.mem, 3) = 15 /\ tag.locked

Found(tag) ==
  LET i == NdefTLV(tag.mem)
  IN IF At(tag.mem, 0) # NMN \/ i < 0 THEN <<>>
     ELSE IF At(tag.mem, i + 1) > RWBytes - i - 2 THEN <<>> ELSE Slice(tag.mem, i + 2, At(tag.mem, i + 1))
=============================================================================
