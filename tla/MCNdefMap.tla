----------------------------- MODULE MCNdefMap -----------------------------
(* Small tags and messages for NdefMap. A message is made of the bytes     *)
(* 101, 102, ...; what a tag held before of 201, 202, ...                  *)
EXTENDS NdefMap

New(k) == [i \in 1..k |-> 101 + (i % 50)]
Old(k) == [i \in 1..k |-> 200 + i]

Type4(length, size, MLc, ev1) ==
  [kind |-> "type4", ev1 |-> ev1, stage |-> 4,
   c |-> [version |-> TRUE, MLe |-> 15, MLc |-> MLc, size |-> size, writable |-> TRUE],
   mem |-> Pad(Be16(length) \o Old(length), size)]

Type3(length, Nbr, Nbw, Nmaxb) ==
  [kind |-> "type3",
   attr |-> [Nbr |-> Nbr, Nbw |-> Nbw, Nmaxb |-> Nmaxb, WriteFlag |-> FALSE, RdWrFlag |-> TRUE, Ln |-> length],
   mem |-> Pad(Old(length), 16 * Nmaxb)]

Type1(tlvs, length) ==
  [kind |-> "type1", locked |-> FALSE,
   mem |-> Pad(<<225, 16, 14, 0>> \o tlvs \o <<3, length>> \o Old(length) \o <<254>>, 96)]

\* Every byte behind the list is 0.
Type2(tlvs, length, size) ==
  [kind |-> "type2",
   cc |-> [magic |-> TRUE, version |-> TRUE, size |-> size \div 8, writable |-> TRUE, locked |-> FALSE,
          ul |-> CASE size = 48 -> "UL" [] size = 144 -> "ULC" [] OTHER -> "EV1", dyn |-> 0],
   mem |-> Pad(tlvs \o <<3, length>> \o Old(length) \o <<254>>, size)]

\* "ext" tags have a container of two blocks; frame is the reader's limit.
Type5(tlvs, length, mbr, frame, ext) ==
  [kind |-> "type5", frame |-> frame,
   cc |-> [valid |-> TRUE, writable |-> TRUE, size |-> IF ext THEN 0 ELSE 4, size2 |-> 4,
           mbr |-> mbr, exceeded |-> FALSE],
   mem |-> Pad(Zeros(IF ext THEN 8 ELSE 4) \o tlvs \o <<3, length>> \o Old(length) \o <<254>>, 40)]

LockTLV     == <<1, 3, 242, 48, 51>>
LockTLVC    == <<1, 3, 160, 16, 68>>
OtherTLV(k) == <<253, k>> \o [i \in 1..k |-> i]

BlankCC   == [valid |-> FALSE, writable |-> TRUE, size |-> 0, size2 |-> 0, mbr |-> FALSE, exceeded |-> FALSE]
NotYet(t) ==
  CASE t.kind = "type1" -> [t EXCEPT !.mem = Zeros(96)]
    [] t.kind = "type2" -> [t EXCEPT !.mem = Zeros(Len(t.mem)), !.cc.magic = FALSE, !.cc.version = FALSE, !.cc.size = 0]
    [] t.kind = "type4" -> [t EXCEPT !.mem = Zeros(Len(t.mem)), !.stage = 0]

MCBlank ==
  {NotYet(Type1(<<>>, 0)), NotYet(Type2(<<>>, 0, 48)), NotYet(Type2(<<>>, 0, 144)), NotYet(Type2(<<>>, 0, 160)),
   NotYet(Type4(0, 32, 13, TRUE)), NotYet(Type4(0, 32, 13, FALSE))} \cup
  {[kind |-> "type5", frame |-> 16, cc |-> BlankCC, mem |-> Zeros(size)] : size \in {40, 1032}}

MCTags ==
  MCBlank \cup
  {Type2(<<>>, 5, 144), Type2(LockTLVC, 5, 144), Type2([i \in 1..13 |-> 0] \o LockTLVC, 5, 144)} \cup
  {Type1(<<>>, 0), Type1(<<0>> \o LockTLV, 11), Type1(OtherTLV(12), 20),
   [Type1(<<>>, 0) EXCEPT !.mem = Pad(<<225, 16, 14, 0, 254>>, 96)]} \cup
  {Type2(<<>>, 0, 48), Type2(LockTLV, 5, 48), Type2(<<0, 0>>, 4, 48), Type2(OtherTLV(13), 4, 48),
   Type2(OtherTLV(21), 4, 48), Type2(OtherTLV(12), 4, 160), Type2(<<0>>, 7, 320)} \cup
  {Type3(17, 1, 1, 3), Type3(50, 2, 1, 4), Type3(0, 4, 2, 4)} \cup
  {Type4(0, 22, 13, TRUE), Type4(17, 32, 13, FALSE), Type4(17, 32, 8, TRUE)} \cup
  {Type5(OtherTLV(5) \o <<0, 0>>, 1, FALSE, 0, FALSE), Type5(<<>>, 0, FALSE, 0, FALSE),
   Type5(<<0, 0, 0>>, 9, TRUE, 16, FALSE), Type5(<<0, 0>>, 17, TRUE, 8, TRUE)}
MCMessages == {New(k) : k \in {1, 12, 13, 33, 60, 260}}
=============================================================================
