------------------------------ MODULE NdefMap ------------------------------
(* Reading and writing NDEF messages on a tag, formatting it and making it *)
(* read-only: the entry points of LibNfc                                   *)
(* (phLibNfc_ndef_raw.c), the mapping component that dispatches them       *)
(* (phFriNfc_NdefMap.c), the mapping of each tag type, and a tag that may  *)
(* be taken away, or fail to answer, at every command.                     *)
EXTENDS NdefTag

CONSTANTS Tags,       \* the tags that may lie on the reader, each with its kind
          Messages,   \* the messages the client writes
          MaxOps,     \* how many operations the client starts
          MaxFaults   \* how many commands fail

VARIABLES tag,   \* the tag on the reader
          n,     \* phFriNfc_NdefMap_t
          lib,   \* ndef_cntx of LibNfc, and which callback is pending
          h      \* history, which no action of the program reads (see below)

\* h.known: the messages the tag may hold: none, what it held before, what
\* was written completely last, and what has been started since. h.placed:
\* no write has been put where the code's own arithmetic goes wrong. h.last
\* and h.result: the last operation that ended, and what its caller was
\* told; h.msg is what it was to write and h.got what it read.

vars == <<tag, n, lib, h>>

T1 == INSTANCE NdefType1
T2 == INSTANCE NdefType2
T3 == INSTANCE NdefType3
T4 == INSTANCE NdefType4
T5 == INSTANCE NdefType5
F  == INSTANCE NdefFormat

EmptyMessage == <<208, 0, 0>>

---------------------------------------------------------------------------
\* phFriNfc_NdefFunc: the mapping of the tag's kind.
MapChkNdef(t) ==
  LET m == [Reset EXCEPT !.fmt = n.fmt]
  IN CASE t.kind = "type1" -> T1!Topaz_ChkNdef(m)
       [] t.kind = "type2" -> T2!MifareUL_ChkNdef(m, IF n.cc = <<>> THEN 0 ELSE n.cc.NumOfLReminWrite)
       [] t.kind = "type3" -> T3!Felica_ChkNdef(m)
       [] t.kind = "type4" -> T4!Desfire_ChkNdef(m)
       [] t.kind = "type5" -> T5!ISO15693_ChkNdef(m, t.frame)

MapRdNdef(t, m, size) ==
  CASE t.kind = "type1" -> T1!Topaz_RdNdef(m, size)
    [] t.kind = "type2" -> T2!MifareUL_RdNdef(m, size)
    [] t.kind = "type3" -> T3!Felica_RdNdef(m, size)
    [] t.kind = "type4" -> T4!Desfire_RdNdef(m, size)
    [] t.kind = "type5" -> T5!ISO15693_RdNdef(m, size)

MapWrNdef(t, m, msg, size) ==
  CASE t.kind = "type1" -> T1!Topaz_WrNdef(m, msg, size)
    [] t.kind = "type2" -> T2!MifareUL_WrNdef(m, msg, size)
    [] t.kind = "type3" -> T3!Felica_WrNdef(m, msg, size)
    [] t.kind = "type4" -> T4!Desfire_WrNdef(m, msg, size)
    [] t.kind = "type5" -> T5!ISO15693_WrNdef(m, msg, size)

MapProcess(t, m, r) ==
  CASE t.kind = "type1" -> T1!Topaz_Process(m, r)
    [] t.kind = "type2" -> T2!MifareUL_Process(m, r)
    [] t.kind = "type3" -> T3!Felica_Process(m, r)
    [] t.kind = "type4" -> T4!Desfire_Process(m, r)
    [] t.kind = "type5" -> T5!ISO15693_Process(m, r)

MapGetContainerSize(t, m) ==
  CASE t.kind = "type1" -> T1!Topaz_GetContainerSize(m)
    [] t.kind = "type2" -> T2!MifareUL_GetContainerSize(m)
    [] t.kind = "type3" -> T3!Felica_GetContainerSize(m)
    [] t.kind = "type4" -> T4!Desfire_GetContainerSize(m)
    [] t.kind = "type5" -> T5!ISO15693_GetContainerSize(m)

Answer(t, m) ==
  CASE t.kind = "type1" -> T1!Answer(t, m)
    [] t.kind = "type2" -> T2!Answer(t, m)
    [] t.kind = "type3" -> T3!Answer(t, m)
    [] t.kind = "type4" -> T4!Answer(t, m)
    [] t.kind = "type5" -> T5!Answer(t, m)

Executed(t, m) ==
  CASE t.kind = "type1" -> T1!Executed(t, m)
    [] t.kind = "type2" -> T2!Executed(t, m)
    [] t.kind = "type3" -> T3!Executed(t, m)
    [] t.kind = "type4" -> T4!Executed(t, m)
    [] t.kind = "type5" -> T5!Executed(t, m)

Found(t) ==
  CASE t.kind = "type1" -> T1!Found(t)
    [] t.kind = "type2" -> T2!Found(t)
    [] t.kind = "type3" -> T3!Found(t)
    [] t.kind = "type4" -> T4!Found(t)
    [] t.kind = "type5" -> T5!Found(t)

Formatted(t) ==
  CASE t.kind = "type1" -> T1!Formatted(t)
    [] t.kind = "type2" -> T2!Formatted(t)
    [] t.kind = "type3" -> TRUE
    [] t.kind = "type4" -> T4!Formatted(t)
    [] t.kind = "type5" -> T5!Formatted(t)

ReadOnly(t) ==
  CASE t.kind = "type1" -> T1!ReadOnly(t)
    [] t.kind = "type2" -> T2!ReadOnly(t)
    [] t.kind = "type4" -> T4!ReadOnly(t)

---------------------------------------------------------------------------
Init ==
  /\ tag \in Tags
  /\ n = [Reset EXCEPT !.fmt = F!FormatContext]
  /\ lib = [is_ndef |-> "not_done", NdefLength |-> 0, NdefActualSize |-> 0,
            dwWrLength |-> 0, eraseLen |-> Len(EmptyMessage), IsTagNdefFormatted |-> FALSE, pending |-> "none"]
  /\ h = [known |-> {Found(tag), <<>>}, placed |-> TRUE, resumed |-> FALSE, msg |-> <<>>,
          last |-> "none", result |-> "none", got |-> <<>>, ops |-> 0, faults |-> 0]

CheckNdef_Cb(m) ==
  IF m.status = "SUCCESS"
  THEN lib' = [lib EXCEPT !.pending = "none", !.is_ndef = "yes", !.IsTagNdefFormatted = TRUE,
                          !.NdefLength = MapGetContainerSize(tag, m).max,
                          !.NdefActualSize = MapGetContainerSize(tag, m).actual]
  ELSE lib' = [lib EXCEPT !.pending = "none", !.is_ndef = "no", !.IsTagNdefFormatted = FALSE]

Read_Cb(m) ==
  lib' = [lib EXCEPT !.pending = "none",
                     !.is_ndef = IF m.status = "RF_ERROR" THEN "no" ELSE @]

\* The length that an operation has written is a variable of its caller:
\* dwWrLength for a write, a static of EraseNdef for an erase.
Write_Cb(m) ==
  LET length == IF lib.pending = "erase" THEN lib.dwWrLength ELSE m.WrNdefPacketLength
  IN lib' = [lib EXCEPT !.pending = "none", !.dwWrLength = length,
                        !.eraseLen = IF lib.pending = "erase" /\ tag.kind # "type3"
                                     THEN m.WrNdefPacketLength ELSE @,
                        !.NdefActualSize = IF m.status = "SUCCESS" THEN length ELSE @]

\* A tag that has been formatted counts as one without NDEF until it is checked.
Format_Cb == lib' = [lib EXCEPT !.pending = "none"]

\* The operation goes on with its next command, or its callback runs; that of
\* a tag made read-only notes it in the mapping's context.
Continue(m) ==
  /\ n' = IF m.cmd = NoCmd /\ lib.pending = "readonly" /\ m.status = "SUCCESS"
          THEN [m EXCEPT !.CardState = "READ_ONLY"] ELSE m
  /\ IF m.cmd # NoCmd
     THEN UNCHANGED lib
     ELSE CASE lib.pending = "check"              -> CheckNdef_Cb(m)
            [] lib.pending = "read"               -> Read_Cb(m)
            [] lib.pending \in {"write", "erase"} -> Write_Cb(m)
            [] lib.pending \in {"format", "readonly"} -> Format_Cb

Noted(m, g) ==
  h' = IF m.cmd # NoCmd THEN g
       ELSE [g EXCEPT !.last = lib.pending, !.result = m.status,
                      !.got = IF lib.pending = "read" THEN m.ApduBuffer ELSE @,
                      !.known = IF lib.pending = "write" /\ m.status = "SUCCESS" THEN {g.msg, <<>>} ELSE @]

Idle == lib.pending = "none" /\ h.ops < MaxOps

\* A type 5 tag has as much room for a message as its container says, less
\* what stands in front; the client is told of the former only, and a longer one is cut off at the end of
\* the tag.
NoRoom(t, k) == t.kind = "type5" /\ T5!NdefTLV(t) + 2 + k > n.cc.max

\* A message on a type 1 tag whose TLV begins in the last byte of the second
\* block, or after it, is written in front of its TLV. And a write after an
\* interrupted one first puts the container in order, and then the TLV where
\* others may stand. On a type 5 tag the length of a message of one or two
\* bytes that begins with a block is missed, and the tag filled to its end; of
\* a length above 254 only the last byte is written.
\* A tag that the check has failed to read is formatted over what it holds,
\* in more than one write.
OverWritten(t) ==
  \/ t.kind = "type1" /\ T1!NdefTLV(t.mem) \notin {-1, 4}
  \/ t.kind = "type2" /\ t.cc.ul = "ULC" /\ Formatted(t)

OutOfPlace(t, k) ==
  \/ /\ t.kind = "type1"
     /\ \/ T1!NdefTLV(t.mem) > 14
        \/ T1!At(t.mem, 0) # T1!NMN /\ T1!NdefTLV(t.mem) # 4
  \/ /\ t.kind = "type2"
     /\ \/ n.cc.NdefTLVByte = 3 /\ n.cc.NumOfBytesWritten # 0
        \/ n.cc.NdefTLVByte \in {2, 3} /\ k > 254
        \/ T2!NdefTLV(t) > 15 /\ T2!Offset(n) # T2!NdefTLV(t)
  \/ t.kind = "type5" /\ (NoRoom(t, k) \/ k > 254 \/ (T5!LenByte(n, k) = 0 /\ k < 3))

\* A read of a type 2 tag that had not room for the whole message leaves the
\* position where the next one begins, which is not reset; on a type 5 tag it
\* leaves what was over, and the length is not read again: after a write that
\* was cut off it is that of the message before.
Resumed(t) ==
  \/ t.kind = "type2" /\ t.cc.size > 18 /\ n.cc.ByteNumber > 0
  \/ t.kind = "type5" /\ (n.cc.stored # <<>> \/ n.cc.ActualSize # Len(Found(t)))

\* The formatting component counts the dynamic lock bits that it has written,
\* and keeps where it is in the list, from one operation, or tag, to the next.
Counted == n.fmt.LockBitsWritten > 0 \/ n.fmt.parse # F!ParseFromStart

\* The operation starts with the command of m, if it has one.
Start(op, msg, m, l) ==
  /\ n' = m
  /\ lib' = [l EXCEPT !.pending = IF m.cmd = NoCmd THEN "none" ELSE op]
  /\ h' = [h EXCEPT !.ops = @ + 1, !.msg = msg, !.known = @ \cup {msg}, !.got = <<>>,
                    !.last = IF m.cmd = NoCmd THEN op ELSE "none",
                    !.result = IF m.cmd = NoCmd THEN m.status ELSE "none",
                    !.resumed = (op = "read" /\ Resumed(tag)) \/ (op = "readonly" /\ Counted)
                                \/ (op = "format" /\ Formatted(tag)),
                    !.placed = /\ @
                               /\ op \in {"write", "erase"} => ~OutOfPlace(tag, Len(msg))
                               /\ op = "format" => ~OverWritten(tag)]
  /\ UNCHANGED tag

CheckNdef == Idle /\ Start("check", <<>>, MapChkNdef(tag), lib)

\* The client reads with the buffer size the check reported.
Read ==
  /\ Idle /\ lib.is_ndef = "yes" /\ lib.NdefActualSize > 0
  /\ n.CardState \in {"READ_WRITE", "READ_ONLY"}
  /\ Start("read", <<>>, MapRdNdef(tag, [n EXCEPT !.ApduBuffIndex = 0], lib.NdefActualSize), lib)

Write(msg) ==
  /\ Idle /\ lib.is_ndef = "yes" /\ Len(msg) <= lib.NdefLength
  /\ n.CardState \in {"READ_WRITE", "INITIALIZED"}
  /\ Start("write", msg, MapWrNdef(tag, [n EXCEPT !.ApduBuffIndex = 0], msg, Len(msg)),
           [lib EXCEPT !.dwWrLength = 0])

\* A write of length 0. On most tags the empty message is written, as many
\* bytes of it as EraseNdef's static length says.
Erase ==
  /\ Idle /\ lib.is_ndef = "yes"
  /\ n.CardState \in {"READ_WRITE", "INITIALIZED"}
  /\ IF tag.kind = "type3"
     THEN Start("erase", EmptyMessage, T3!Felica_EraseNdef(n), lib)
     ELSE /\ lib.eraseLen > 0
          /\ Start("erase", EmptyMessage,
                   MapWrNdef(tag, [n EXCEPT !.ApduBuffIndex = 0], EmptyMessage, lib.eraseLen),
                   [lib EXCEPT !.eraseLen = 0])

\* phLibNfc_RemoteDev_FormatNdef, as the RF interface calls it: after a check that failed.
Format ==
  /\ Idle /\ lib.is_ndef = "no" /\ ~lib.IsTagNdefFormatted
  /\ tag.kind # "type3"
  /\ Start("format", <<>>, F!Format(n, tag), lib)

\* phLibNfc_ConvertToReadOnlyNdef: a type 3 tag is refused, a type 5 tag not supported.
MakeReadOnly ==
  /\ Idle /\ lib.is_ndef = "yes" /\ n.CardState = "READ_WRITE"
  /\ tag.kind \in {"type1", "type2", "type4"}
  /\ Start("readonly", <<>>, F!ConvertToReadOnly(n, tag), lib)

Process(t, m, r) ==
  CASE lib.pending = "format"   -> F!Format_Process(m, t, r)
    [] lib.pending = "readonly" -> F!ReadOnly_Process(m, t, r)
    [] lib.pending \notin {"format", "readonly"} -> MapProcess(t, m, r)

Outstanding == lib.pending # "none" /\ n.cmd.op # "hung"

TagAnswers ==
  /\ Outstanding
  /\ LET m == Process(tag, n, Answer(tag, n)) IN Continue(m) /\ Noted(m, h)
  /\ tag' = Executed(tag, n)

Fault == Outstanding /\ h.faults < MaxFaults

\* The tag does not accept the command.
TagRefuses ==
  /\ Fault
  /\ LET m == Process(tag, n, Refused) IN Continue(m) /\ Noted(m, [h EXCEPT !.faults = @ + 1])
  /\ UNCHANGED tag

\* No answer arrives; the tag may have executed the command.
NoAnswer ==
  /\ Fault
  /\ LET m == Process(tag, n, RfError) IN Continue(m) /\ Noted(m, [h EXCEPT !.faults = @ + 1])
  /\ tag' \in {tag, Executed(tag, n)}

\* The tag is taken away and comes back: phLibNfc_ClearNdefInfo.
Presented ==
  /\ lib.pending = "none" /\ lib.is_ndef # "not_done"
  /\ lib' = [lib EXCEPT !.is_ndef = "not_done"]
  /\ UNCHANGED <<tag, n, h>>

Next ==
  \/ CheckNdef \/ Read \/ (\E msg \in Messages : Write(msg)) \/ Erase \/ Format \/ MakeReadOnly
  \/ TagAnswers \/ TagRefuses \/ NoAnswer \/ Presented

Spec == Init /\ [][Next]_vars

---------------------------------------------------------------------------
\* However many operations are made, and at whichever command a write or an
\* erase is cut off, the tag holds a message that the client has written, the
\* one before, or none: never part of one. The order in which the mappings
\* clear the length, write the message and set the length is for this
\* (DesfireMap.c:1271-1290, FelicaMap.c:1195-1240, TopazMap.c:1117-1170,
\* MifareULMap.c:2507-2797).
NotTorn == h.placed => Found(tag) \in h.known

\* A type 3 tag whose message ends where a whole command ends is read to the
\* end of the client's buffer.
PastTheEnd(t) == t.kind = "type3" /\ T3!Blocks(t.attr.Ln) % t.attr.Nbr = 0

\* A type 2 tag with bytes in front of its TLV that look like one of the same
\* length is read from there.
Lookalike(t) ==
  /\ t.kind = "type2"
  /\ LET i == T2!NdefTLV(t)
     IN \E j \in 16 * (i \div 16)..(i - 1) : At(t.mem, j) = 3 /\ At(t.mem, j + 1) = At(t.mem, i + 1)

\* What the client is told is true: after a write reported as a success the
\* tag holds the message, after an erase or a format it holds none, a read
\* that succeeds returns the message from its first byte, as much of it as the
\* buffer takes, and nothing behind it, and a tag that has been made read-only
\* says so and keeps every part of itself locked.
Faithful ==
  h.placed /\ h.result = "SUCCESS" =>
    CASE h.last = "write" -> Found(tag) = h.msg
      [] h.last = "erase" -> Found(tag) \in {<<>>, EmptyMessage}
      [] h.last = "read"  -> /\ Slice(h.got, 0, Len(Found(tag))) = Slice(Found(tag), 0, n.ApduBufferSize)
                                \/ Lookalike(tag) \/ h.resumed
                             /\ Len(h.got) > Len(Found(tag)) => PastTheEnd(tag) \/ h.resumed
      [] h.last = "format"   -> Formatted(tag) /\ Found(tag) = <<>>
      [] h.last = "readonly" -> ReadOnly(tag) \/ h.resumed
      [] h.last = "check"    -> TRUE

\* The first command of a write on a type 4 tag is one byte longer than the
\* tag accepts, for one length of the message.
OneTooLong(t, k) == t.kind = "type4" /\ k = t.c.MLc - 1

\* A read of a type 2 tag goes on for some bytes after the message, and from
\* the wrong blocks if the TLV is not in the first four.
ReadsBehind(t) ==
  /\ t.kind = "type2"
  /\ LET i == T2!NdefTLV(t)
     IN (i > 15 \/ t.cc.size > 18) /\ Len(Found(t)) + i + 16 * (i \div 16) + 8 > Len(t.mem)

\* The place noted for a proprietary TLV of a type 5 tag is its last value
\* byte, which is then taken for the type of a TLV.
Misread(t) == t.kind = "type5" /\ \E i \in 4..9 : t.mem[i + 1] = 253

\* A check of a tag that has not been formatted finds no NDEF, and one that has is not formatted again.
Blank == (h.last = "check" /\ ~Formatted(tag)) \/ (h.last = "format" /\ h.resumed)

\* A type 1 tag is made read-only, and the client told that it has failed; so
\* is whatever it writes then.
NeverTold(t) == t.kind = "type1" /\ t.locked

\* A type 2 tag whose container gives another size is not made read-only.
OtherSize(t) == h.last = "readonly" /\ t.kind = "type2" /\ t.cc.size \notin {6, 18}

\* On a tag that always answers, every operation succeeds: after whatever
\* other operations the length limits, block counts and positions that a
\* check leaves behind describe the tag as it is, so that no command asks for
\* more than the tag has or accepts.
Served ==
  h.placed /\ h.faults = 0 =>
    \/ h.result \in {"none", "SUCCESS"}
    \/ Blank \/ OtherSize(tag) \/ NeverTold(tag)
    \/ OneTooLong(tag, Len(h.msg))
    \/ ReadsBehind(tag)
    \/ Misread(tag)
=============================================================================
