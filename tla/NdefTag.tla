------------------------------ MODULE NdefTag ------------------------------
(* What the mappings of the five tag types have in common: the component   *)
(* context phFriNfc_NdefMap_t of an operation in progress, and the bytes   *)
(* of a tag's memory.                                                      *)
(*                                                                         *)
(* An operation sends one command after another to the tag. "cmd" is the   *)
(* command that waits for its answer; when it is NoCmd the operation is    *)
(* over and "status" is what its completion routine was given. The         *)
(* fields that only some tag type keeps are under "cc", those of the       *)
(* component that formats tags under "fmt".                                *)
EXTENDS Integers, Sequences, SequencesExt, FiniteSetsExt

NoCmd == [op |-> "none"]

Reset == [State |-> "RESET_INIT", op |-> "none", CardState |-> "INVALID",
          ApduBuffer |-> <<>>, ApduBufferSize |-> 0, ApduBuffIndex |-> 0,
          WrNdefPacketLength |-> 0, cc |-> <<>>, cmd |-> NoCmd, status |-> "none", fmt |-> <<>>]

Send(n, state, cmd) == [n EXCEPT !.State = state, !.cmd = cmd]

\* HCrHandler of every mapping: the completion routine is called.
CrHandler(n, status) ==
  [n EXCEPT !.State = "RESET_INIT", !.cmd = NoCmd, !.status = status]

\* An operation that is refused before its first command: nobody is called back.
NotStarted(n) == [n EXCEPT !.cmd = NoCmd, !.status = "FAILED"]

CardStateFor(n, length) ==
  IF n.CardState = "INVALID" \/ (length = 0 /\ n.CardState = "READ_ONLY") THEN "INVALID"
  ELSE IF length = 0 THEN "INITIALIZED"
  ELSE IF n.CardState = "READ_ONLY" THEN "READ_ONLY" ELSE "READ_WRITE"

\* A check ends when the state of the card is known.
SetCardState(n, length) ==
  LET state == CardStateFor(n, length)
  IN CrHandler([n EXCEPT !.CardState = state], IF state = "INVALID" THEN "NO_NDEF_SUPPORT" ELSE "SUCCESS")

\* After a first message the card is no longer empty.
Written(n) == [n EXCEPT !.CardState = IF @ = "INITIALIZED" THEN "READ_WRITE" ELSE @]

---------------------------------------------------------------------------
\* Memory is a sequence of bytes, addressed from 0.
At(mem, a)       == mem[a + 1]
Slice(mem, a, k) == SubSeq(mem, a + 1, Min({a + k, Len(mem)}))
Put(mem, a, bytes) ==
  [i \in DOMAIN mem |-> IF i > a /\ i <= a + Len(bytes) THEN bytes[i - a] ELSE mem[i]]
Zeros(k) == [i \in 1..k |-> 0]
Be16(k)  == <<k \div 256, k % 256>>
Pad(bytes, k) == bytes \o Zeros(k - Len(bytes))

\* The bytes of the message that go next, at most k of them.
NextBytes(n, k) == Slice(n.ApduBuffer, n.ApduBuffIndex, Min({k, n.ApduBufferSize - n.ApduBuffIndex}))

\* How a tag answers.
Ok(data)  == [rf |-> TRUE, ok |-> TRUE, data |-> data]
Refused   == [rf |-> TRUE, ok |-> FALSE, data |-> <<>>]
RfError   == [rf |-> FALSE, ok |-> FALSE, data |-> <<>>]
=============================================================================
