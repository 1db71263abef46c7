------------------------- MODULE NciCoreSendProofs -------------------------
(***************************************************************************)
(* Proofs about the sending side of the NCI core.  The invariant of the    *)
(* types needs one strengthening: a sender that is not idle has a          *)
(* transaction.  Given the types, the credits, the events of the sender    *)
(* and the response timer are each inductive.  That nobody is called back  *)
(* twice needs SndInv and OnceInv: who still refers to a transaction, and  *)
(* that of the sender, its registrations and its timer at most one calls.  *)
(***************************************************************************)
EXTENDS NciCoreSend, TLAPS, FiniteSetTheorems, WellFoundedInduction

SenderHasTrans == sendState # "idle" => tx.trans \in Trans

IInv == TypeOK /\ SenderHasTrans

-----------------------------------------------------------------------------
(* Operators *)

LEMMA TransFacts ==
  /\ NoTrans \notin Trans
  /\ NoTrans \in Entries /\ Trans \subseteq Entries
  /\ \A t \in Entries : t # NoTrans => t \in Trans
  /\ \A t \in Trans : t.data \in BOOLEAN /\ t.only \in BOOLEAN /\ t.conn \in Conns
                      /\ t.segs \in Nat \ {0}
  BY SendAssumption DEF SendAssumption, Entries

LEMMA WithoutFirstType ==
  ASSUME NEW r \in [Slots -> Entries], NEW c
  PROVE  WithoutFirst(r, c) \in [Slots -> Entries]
  BY TransFacts DEF WithoutFirst

LEMMA RegistersType ==
  ASSUME TypeOK, NEW t \in Trans, NEW timed
  PROVE  /\ RspRegAfter(t) \in Entries
         /\ DataRegsAfter(t) \in [Slots -> Entries]
         /\ TimerAfter(t, timed) \in TimerType
<1>1. RspRegAfter(t) \in Entries
  BY TransFacts DEF TypeOK, RspRegAfter
<1>2. DataRegsAfter(t) \in [Slots -> Entries]
  BY TransFacts DEF TypeOK, DataRegsAfter
<1>3. TimerAfter(t, timed) \in TimerType
  BY TransFacts DEF TypeOK, TimerAfter, TimerType
<1> QED  BY <1>1, <1>2, <1>3

LEMMA TimerOps ==
  ASSUME NEW tm \in TimerType
  PROVE  /\ Cancelled(tm) \in TimerType
         /\ Started(tm) \in TimerType
         /\ (tm.status = "running" => tm.armed \/ tm.fired)
              => /\ Cancelled(tm).status # "running"
                 /\ Started(tm).status = "running" => Started(tm).armed \/ Started(tm).fired
  BY DEF TimerType, Cancelled, Started

LEMMA CallbackType ==
  ASSUME TypeOK, NEW t, Callback(t)
  PROVE  calls' \in [Trans -> Nat] /\ pending' \in SUBSET Trans
<1>1. CASE t = NoTrans
  BY <1>1 DEF Callback, TypeOK
<1>2. CASE t # NoTrans
  BY <1>2 DEF Callback, TypeOK
<1> QED  BY <1>1, <1>2

LEMMA CreditType ==
  ASSUME NEW t \in Trans, NEW cr \in [Conns -> 0 .. 255]
  PROVE  TakeCredit(t, cr) \in [Conns -> 0 .. 255]
<1>1. t.conn \in Conns
  BY TransFacts
<1>2. ASSUME cr[t.conn] > 0
      PROVE  cr[t.conn] - 1 \in 0 .. 255
  BY <1>1, <1>2
<1> QED  BY <1>1, <1>2 DEF TakeCredit

LEMMA EntryType ==
  ASSUME NEW t \in Trans, NEW left \in Nat, NEW notify \in BOOLEAN, NEW timed \in BOOLEAN,
         NEW can
  PROVE  [trans |-> t, notify |-> notify, timed |-> timed,
          left |-> IF can THEN Remains(left) ELSE left] \in TxType
<1>1. (IF can THEN Remains(left) ELSE left) \in Nat
  BY DEF Remains
<1> QED  BY <1>1, TransFacts DEF TxType

LEMMA SeqFacts ==
  ASSUME NEW S, NEW s \in Seq(S)
  PROVE  /\ s # <<>> => Tail(s) \in Seq(S) /\ Head(s) \in S /\ Len(s) > 0
         /\ \A e \in S : Append(s, e) \in Seq(S) /\ Append(s, e) # <<>>
         /\ \A e \in S : s # <<>> => Tail(Append(s, e)) \in Seq(S) /\ Tail(Append(s, e)) # <<>>
         /\ \A k \in 1 .. Len(s) : SubSeq(s, 1, k) \in Seq(S)
<1>1. s # <<>> => Tail(s) \in Seq(S) /\ Head(s) \in S /\ Len(s) > 0
  OBVIOUS
<1>2. \A e \in S : Append(s, e) \in Seq(S) /\ Len(Append(s, e)) = Len(s) + 1
  OBVIOUS
<1>3. ASSUME NEW e \in S
      PROVE  Append(s, e) # <<>>
  <2>1. Len(Append(s, e)) > 0
    BY <1>2, <1>3
  <2> QED  BY <2>1
<1>4. ASSUME NEW e \in S, s # <<>>
      PROVE  Tail(Append(s, e)) \in Seq(S) /\ Tail(Append(s, e)) # <<>>
  <2>1. Append(s, e) \in Seq(S) /\ Len(Append(s, e)) >= 2
    BY <1>1, <1>2, <1>4
  <2>2. Tail(Append(s, e)) \in Seq(S) /\ Len(Tail(Append(s, e))) = Len(Append(s, e)) - 1
    BY <2>1
  <2> QED  BY <2>1, <2>2
<1>5. ASSUME NEW k \in 1 .. Len(s)
      PROVE  SubSeq(s, 1, k) \in Seq(S)
  OBVIOUS
<1> QED  BY <1>1, <1>2, <1>3, <1>4, <1>5

LEMMA ToTmlType ==
  ASSUME TypeOK, NEW t \in Trans, NEW ok, NEW cr
  PROVE  /\ ToTml(t, ok, cr) \in Seq(Trans)
         /\ tml # <<>> => Tail(ToTml(t, ok, cr)) \in Seq(Trans)
         /\ CanSend(t, ok, cr) => /\ ToTml(t, ok, cr) # <<>>
                                  /\ tml # <<>> => Tail(ToTml(t, ok, cr)) # <<>>
  BY SeqFacts DEF ToTml, TypeOK

LEMMA CreditsAfterType ==
  ASSUME TypeOK, NEW entries \in CreditLists
  PROVE  /\ entries[1].conn \in Conns
         /\ CreditsAfter(entries) \in 0 .. 255
         /\ \A c \in Conns : Given(entries, c) \in Nat
<1>1. \A x, v \in Nat : AddCredits(x, v) \in Nat /\ AddCredits(x, v) \in 0 .. 255
  BY DEF AddCredits
<1>2. entries[1] \in CreditEntry /\ (Len(entries) = 1 \/ entries[2] \in CreditEntry)
  BY DEF CreditLists
<1>3. \A e \in CreditEntry : e.conn \in Conns /\ e.credits \in Nat
  BY SendAssumption DEF CreditEntry, SendAssumption
<1>4. entries[1].conn \in Conns /\ credits[entries[1].conn] \in 0 .. 255
  <2>1. credits \in [Conns -> 0 .. 255]
    BY DEF TypeOK
  <2> QED  BY <1>2, <1>3, <2>1
<1>5. CreditsAfter(entries) \in 0 .. 255
  <2>1. AddCredits(credits[entries[1].conn], entries[1].credits) \in 0 .. 255
    <3>1. credits[entries[1].conn] \in Nat /\ entries[1].credits \in Nat
      BY <1>2, <1>3, <1>4
    <3> QED  BY <1>1, <3>1
  <2>2. CASE Len(entries) = 1
    BY <2>1, <2>2 DEF CreditsAfter
  <2>3. CASE Len(entries) # 1
    <3>1. entries[1].credits \in Nat
      BY <1>2, <1>3
    <3>2. AddCredits(credits[entries[1].conn], entries[1].credits) \in Nat
      BY <2>1
    <3>3. AddCredits(AddCredits(credits[entries[1].conn], entries[1].credits), entries[1].credits) \in 0 .. 255
      BY <1>1, <3>1, <3>2
    <3> QED  BY <2>3, <3>3 DEF CreditsAfter
  <2> QED  BY <2>2, <2>3
<1>6. \A c \in Conns : Given(entries, c) \in Nat
  BY <1>2, <1>3 DEF Given
<1> QED  BY <1>4, <1>5, <1>6

-----------------------------------------------------------------------------
(* Types: one lemma per action, or for the part several actions share *)

LEMMA InitType == Init => IInv
<1> SUFFICES ASSUME Init PROVE IInv
  OBVIOUS
<1>1. tx \in TxType /\ timer \in TimerType /\ rspReg \in Entries
  BY TransFacts DEF Init, TxType, TimerType
<1>2. credits \in [Conns -> 0 .. 255] /\ dataRegs \in [Slots -> Entries]
  BY TransFacts, SendAssumption DEF Init, SendAssumption
<1>3. atNfcc \in [Conns -> Nat] /\ calls \in [Trans -> Nat] /\ tml \in Seq(Trans)
  BY DEF Init
<1> QED  BY <1>1, <1>2, <1>3 DEF Init, IInv, TypeOK, SenderHasTrans

LEMMA TxToSendType ==
  ASSUME IInv, NEW t \in Trans, TxToSend(t)
  PROVE  IInv'
<1>1. PICK ok \in WriteResults :
        /\ CoreSendEntry(t, t.segs, t.only, ~t.only, ok, credits)
        /\ tml' = ToTml(t, ok, credits)
        /\ pending' = IF ok THEN pending \cup {t} ELSE pending
        /\ \/ UNCHANGED <<regs, timer>>
           \/ /\ rspReg' = RspRegAfter(t)
              /\ dataRegs' = DataRegsAfter(t)
              /\ timer' = TimerAfter(t, TRUE)
           \/ /\ rspReg' = IF t.data THEN rspReg ELSE NoTrans
              /\ dataRegs' = IF t.data THEN WithoutFirst(DataRegsAfter(t), t.conn) ELSE dataRegs
              /\ timer' = IF t.data /\ EntriesOf(DataRegsAfter(t), t.conn) = {}
                            THEN timer ELSE Cancelled(TimerAfter(t, TRUE))
  BY DEF TxToSend
<1>2. TypeOK /\ credits \in [Conns -> 0 .. 255]
  BY DEF IInv, TypeOK
<1>3. t.segs \in Nat /\ t.only \in BOOLEAN /\ (~t.only) \in BOOLEAN
  BY TransFacts
<1>4. /\ sendState' = "send" /\ failedEntry' \in BOOLEAN /\ credits' \in [Conns -> 0 .. 255]
      /\ tx' \in TxType /\ tx'.trans = t
  <2>1. CoreSendEntry(t, t.segs, t.only, ~t.only, ok, credits)
    BY <1>1
  <2>2. TakeCredit(t, credits) \in [Conns -> 0 .. 255]
    BY <1>2, CreditType
  <2>3. [trans |-> t, notify |-> t.only, timed |-> ~t.only,
         left |-> IF CanSend(t, ok, credits) THEN Remains(t.segs) ELSE t.segs] \in TxType
    BY <1>3, EntryType
  <2> QED  BY <2>1, <2>2, <2>3 DEF CoreSendEntry
<1>5. tml' \in Seq(Trans)
  BY <1>1, <1>2, ToTmlType
<1>6. rspReg' \in Entries
  BY <1>1, <1>2, RegistersType, TransFacts DEF TypeOK, regs
<1>7. dataRegs' \in [Slots -> Entries]
  <2>1. DataRegsAfter(t) \in [Slots -> Entries] /\ dataRegs \in [Slots -> Entries]
    BY <1>2, RegistersType DEF TypeOK
  <2>2. WithoutFirst(DataRegsAfter(t), t.conn) \in [Slots -> Entries]
    BY <2>1, WithoutFirstType
  <2> QED  BY <1>1, <2>1, <2>2 DEF regs
<1>8. timer' \in TimerType
  BY <1>1, <1>2, RegistersType, TimerOps DEF TypeOK
<1>9. pending' \in SUBSET Trans
  BY <1>1, <1>2 DEF TypeOK
<1>10. issued' \in SUBSET Trans
  BY <1>2 DEF TxToSend, TypeOK
<1>11. UNCHANGED <<awaited, arrived, owed, atNfcc, calls, writeFailed, packets, resets>>
  BY DEF TxToSend, nfcc, bounds
<1> QED  BY <1>2, <1>4, <1>5, <1>6, <1>7, <1>8, <1>9, <1>10, <1>11 DEF IInv, TypeOK, SenderHasTrans

LEMMA TxToWaitCreditType ==
  ASSUME IInv, NEW t \in Trans, TxToWaitCredit(t)
  PROVE  IInv'
<1>1. t.segs \in Nat /\ t.only \in BOOLEAN /\ (~t.only) \in BOOLEAN /\ t \in Entries
  BY TransFacts
<1>2. tx' \in TxType /\ tx'.trans = t
  BY <1>1 DEF TxToWaitCredit, TxType
<1>3. sendState' = "waitCredit" /\ awaited' = TRUE
  BY DEF TxToWaitCredit, RegForConnCredits
<1>4. issued' \in SUBSET Trans /\ pending' \in SUBSET Trans
  BY DEF TxToWaitCredit, IInv, TypeOK
<1>5. UNCHANGED <<failedEntry, credits, rspReg, dataRegs, timer, tml, arrived, owed, atNfcc, calls,
                  writeFailed, packets, resets>>
  BY DEF TxToWaitCredit, regs, wire, nfcc, bounds
<1> QED  BY <1>2, <1>3, <1>4, <1>5 DEF IInv, TypeOK, SenderHasTrans

LEMMA ArriveType ==
  ASSUME IInv, Arrive
  PROVE  IInv'
<1>1. Head(tml) \in Trans
  BY SeqFacts DEF Arrive, IInv, TypeOK
<1>2. owed' \in SUBSET Trans
  BY <1>1 DEF Arrive, IInv, TypeOK
<1>3. atNfcc' \in [Conns -> Nat]
  <2>1. Head(tml).conn \in Conns /\ atNfcc \in [Conns -> Nat]
    BY <1>1, TransFacts DEF IInv, TypeOK
  <2>2. \/ atNfcc' = [atNfcc EXCEPT ![Head(tml).conn] = @ + 1]
        \/ atNfcc' = atNfcc
    BY DEF Arrive
  <2> QED  BY <2>1, <2>2
<1>4. UNCHANGED <<sendState, tx, failedEntry, credits, awaited, rspReg, dataRegs, timer, tml, issued,
                  pending, calls, writeFailed, packets, resets>>
  BY DEF Arrive, sender, regs, upper, bounds
<1>5. arrived' = TRUE
  BY DEF Arrive
<1> QED  BY <1>2, <1>3, <1>4, <1>5 DEF IInv, TypeOK, SenderHasTrans

(* What every completion of a write leaves typed. *)
LEMMA CompletesType ==
  ASSUME IInv, NEW ok \in BOOLEAN, Completes(ok)
  PROVE  /\ tml # <<>> /\ tml \in Seq(Trans) /\ Tail(tml) \in Seq(Trans)
         /\ arrived' \in BOOLEAN
         /\ writeFailed' \in SUBSET Trans
         /\ [tx EXCEPT !.notify = Notify(ok)] \in TxType
         /\ [tx EXCEPT !.notify = Notify(ok)].trans = tx.trans
         /\ Notify(ok) \in BOOLEAN
         /\ UNCHANGED <<rspReg, dataRegs, owed, atNfcc, issued, packets, resets>>
<1>1. tml # <<>> /\ tml \in Seq(Trans) /\ Tail(tml) \in Seq(Trans)
  BY SeqFacts DEF Completes, IInv, TypeOK
<1>2. arrived' \in BOOLEAN
  BY DEF Completes
<1>3. tx \in TxType
  BY DEF IInv, TypeOK
<1>4. tx.trans = NoTrans \/ tx.trans \in Trans
  BY <1>3 DEF TxType, Entries
<1>5. writeFailed' \in SUBSET Trans
  BY <1>4 DEF Completes, IInv, TypeOK
<1>6. Notify(ok) \in BOOLEAN
  BY DEF Notify
<1>7. /\ [tx EXCEPT !.notify = Notify(ok)] \in TxType
      /\ [tx EXCEPT !.notify = Notify(ok)].trans = tx.trans
  BY <1>3, <1>6 DEF TxType
<1>8. UNCHANGED <<rspReg, dataRegs, owed, atNfcc, issued, packets, resets>>
  BY DEF Completes, regs, nfcc, bounds
<1> QED  BY <1>1, <1>2, <1>5, <1>6, <1>7, <1>8

LEMMA SendCompleteType ==
  ASSUME IInv, NEW ok \in BOOLEAN, SendComplete(ok)
  PROVE  IInv'
<1>1. Completes(ok)
  BY DEF SendComplete, CompleteIgnored, SendToIdle, SendToSend, SendToWaitCredit
<1>2. /\ tml # <<>> /\ tml \in Seq(Trans) /\ Tail(tml) \in Seq(Trans)
      /\ arrived' \in BOOLEAN
      /\ writeFailed' \in SUBSET Trans
      /\ [tx EXCEPT !.notify = Notify(ok)] \in TxType
      /\ [tx EXCEPT !.notify = Notify(ok)].trans = tx.trans
      /\ Notify(ok) \in BOOLEAN
      /\ UNCHANGED <<rspReg, dataRegs, owed, atNfcc, issued, packets, resets>>
  BY <1>1, CompletesType
<1>3. TypeOK /\ SenderHasTrans
  BY DEF IInv
<1>4. CASE CompleteIgnored(ok)
  BY <1>2, <1>3, <1>4 DEF CompleteIgnored, IInv, TypeOK, SenderHasTrans
<1>5. CASE SendToIdle(ok)
  <2>1. calls' \in [Trans -> Nat] /\ pending' \in SUBSET Trans
    BY <1>3, <1>5, CallbackType DEF SendToIdle, TypeOK
  <2>2. timer' \in TimerType
    BY <1>3, <1>5, TimerOps DEF SendToIdle, TypeOK
  <2>3. /\ sendState' = "idle" /\ failedEntry' = FALSE /\ tml' = Tail(tml)
        /\ tx' = [tx EXCEPT !.notify = Notify(ok)]
        /\ UNCHANGED <<credits, awaited>>
    BY <1>5 DEF SendToIdle
  <2> QED  BY <1>2, <1>3, <2>1, <2>2, <2>3 DEF IInv, TypeOK, SenderHasTrans
<1>6. CASE SendToSend(ok)
  <2>1. PICK w \in WriteResults :
          /\ CoreSendEntry(tx.trans, tx.left, Notify(ok), tx.timed, w, credits)
          /\ tml' = Tail(ToTml(tx.trans, w, credits))
    BY <1>6 DEF SendToSend
  <2>2. tx.trans \in Trans /\ tx.left \in Nat /\ tx.timed \in BOOLEAN
    BY <1>3, <1>6 DEF SendToSend, SenderHasTrans, TypeOK, TxType
  <2>3. credits \in [Conns -> 0 .. 255]
    BY <1>3 DEF TypeOK
  <2>4. /\ sendState' = "send" /\ failedEntry' \in BOOLEAN /\ credits' \in [Conns -> 0 .. 255]
        /\ tx' \in TxType /\ tx'.trans = tx.trans
    <3>1. CoreSendEntry(tx.trans, tx.left, Notify(ok), tx.timed, w, credits)
      BY <2>1
    <3>2. TakeCredit(tx.trans, credits) \in [Conns -> 0 .. 255]
      BY <2>2, <2>3, CreditType
    <3>3. [trans |-> tx.trans, notify |-> Notify(ok), timed |-> tx.timed,
           left |-> IF CanSend(tx.trans, w, credits) THEN Remains(tx.left) ELSE tx.left] \in TxType
      BY <1>2, <2>2, EntryType
    <3> QED  BY <3>1, <3>2, <3>3 DEF CoreSendEntry
  <2>5. tml' \in Seq(Trans)
    BY <1>2, <1>3, <2>1, <2>2, ToTmlType
  <2>6. UNCHANGED <<awaited, timer, calls, pending>>
    BY <1>6 DEF SendToSend
  <2> QED  BY <1>2, <1>3, <2>2, <2>4, <2>5, <2>6 DEF IInv, TypeOK, SenderHasTrans
<1>7. CASE SendToWaitCredit(ok)
  <2>1. /\ sendState' = "waitCredit" /\ failedEntry' = FALSE /\ tml' = Tail(tml)
        /\ tx' = [tx EXCEPT !.notify = Notify(ok)] /\ awaited' = TRUE
        /\ UNCHANGED <<credits, timer, calls, pending>>
    BY <1>7 DEF SendToWaitCredit, RegForConnCredits
  <2>2. tx.trans \in Trans
    BY <1>3, <1>7 DEF SendToWaitCredit, SenderHasTrans
  <2> QED  BY <1>2, <1>3, <2>1, <2>2 DEF IInv, TypeOK, SenderHasTrans
<1> QED  BY <1>4, <1>5, <1>6, <1>7 DEF SendComplete

LEMMA WaitCreditToIdleType ==
  ASSUME TypeOK, WaitCreditToIdle
  PROVE  /\ sendState' = "idle" /\ timer' \in TimerType
         /\ calls' \in [Trans -> Nat] /\ pending' \in SUBSET Trans
         /\ UNCHANGED <<failedEntry, tx, tml, rspReg, dataRegs>>
<1>1. timer' \in TimerType
  BY DEF WaitCreditToIdle, TypeOK, TimerType
<1>2. calls' \in [Trans -> Nat] /\ pending' \in SUBSET Trans
  BY CallbackType DEF WaitCreditToIdle
<1> QED  BY <1>1, <1>2 DEF WaitCreditToIdle, regs

LEMMA CreditTimeoutType ==
  ASSUME IInv, CreditTimeout
  PROVE  IInv'
<1>1. TypeOK /\ SenderHasTrans
  BY DEF IInv
<1>2. awaited' = FALSE /\ UNCHANGED <<credits, arrived, owed, atNfcc, issued, writeFailed, packets, resets>>
  BY DEF CreditTimeout, nfcc, bounds
<1>3. CASE WaitCreditToIdle
  BY <1>1, <1>2, <1>3, WaitCreditToIdleType DEF IInv, TypeOK, SenderHasTrans
<1>4. CASE UNCHANGED <<sender, tml, regs, timer, calls, pending>>
  BY <1>1, <1>2, <1>4 DEF IInv, TypeOK, SenderHasTrans, sender, regs
<1> QED  BY <1>3, <1>4 DEF CreditTimeout

LEMMA WaitCreditToSendType ==
  ASSUME IInv, NEW cr \in [Conns -> 0 .. 255], tx.trans \in Trans, WaitCreditToSend(cr)
  PROVE  /\ sendState' = "send" /\ failedEntry' \in BOOLEAN /\ credits' \in [Conns -> 0 .. 255]
         /\ tx' \in TxType /\ tx'.trans = tx.trans
         /\ tml' \in Seq(Trans)
         /\ rspReg' \in Entries /\ dataRegs' \in [Slots -> Entries] /\ timer' \in TimerType
         /\ UNCHANGED <<calls, pending>>
<1>1. PICK ok \in WriteResults :
        /\ CoreSendEntry(tx.trans, tx.left, tx.notify, tx.timed, ok, cr)
        /\ tml' = ToTml(tx.trans, ok, cr)
  BY DEF WaitCreditToSend
<1>2. TypeOK
  BY DEF IInv
<1>3. tx.left \in Nat /\ tx.notify \in BOOLEAN /\ tx.timed \in BOOLEAN
  BY <1>2 DEF TypeOK, TxType
<1>4. TakeCredit(tx.trans, cr) \in [Conns -> 0 .. 255]
  BY CreditType
<1>5. [trans |-> tx.trans, notify |-> tx.notify, timed |-> tx.timed,
       left |-> IF CanSend(tx.trans, ok, cr) THEN Remains(tx.left) ELSE tx.left] \in TxType
  BY <1>3, EntryType
<1>6. /\ sendState' = "send" /\ failedEntry' \in BOOLEAN /\ credits' \in [Conns -> 0 .. 255]
      /\ tx' \in TxType /\ tx'.trans = tx.trans
  BY <1>1, <1>4, <1>5 DEF CoreSendEntry
<1>7. tml' \in Seq(Trans)
  BY <1>1, <1>2, ToTmlType
<1>8. rspReg' \in Entries /\ dataRegs' \in [Slots -> Entries] /\ timer' \in TimerType
  <2>1. \/ UNCHANGED <<rspReg, dataRegs, timer>>
        \/ /\ rspReg' = RspRegAfter(tx.trans)
           /\ dataRegs' = DataRegsAfter(tx.trans)
           /\ timer' = TimerAfter(tx.trans, tx.timed)
    BY DEF WaitCreditToSend, regs
  <2> QED  BY <1>2, <2>1, RegistersType DEF TypeOK
<1>9. UNCHANGED <<calls, pending>>
  BY DEF WaitCreditToSend
<1> QED  BY <1>6, <1>7, <1>8, <1>9

(* The three outcomes of a credit notification. *)
LEMMA CreditNtfCases ==
  ASSUME IInv, NEW entries \in CreditLists, CreditNtf(entries),
         NEW cr, cr = [credits EXCEPT ![entries[1].conn] = CreditsAfter(entries)]
  PROVE  /\ cr \in [Conns -> 0 .. 255]
         /\ \/ sendState = "waitCredit" /\ WaitCreditToSend(cr)
            \/ WaitCreditToIdle /\ credits' = cr
            \/ /\ ~(awaited /\ sendState = "waitCredit")
               /\ credits' = cr
               /\ UNCHANGED <<sender, tml, regs, timer, calls, pending>>
<1>1. entries[1].conn \in Conns /\ CreditsAfter(entries) \in 0 .. 255
  BY CreditsAfterType DEF IInv
<1>2. cr \in [Conns -> 0 .. 255]
  BY <1>1 DEF IInv, TypeOK
<1> QED  BY <1>2 DEF CreditNtf

LEMMA CreditNtfType ==
  ASSUME IInv, NEW entries \in CreditLists, CreditNtf(entries)
  PROVE  IInv'
<1>1. TypeOK /\ SenderHasTrans
  BY DEF IInv
<1>2. PICK cr : cr = [credits EXCEPT ![entries[1].conn] = CreditsAfter(entries)]
  OBVIOUS
<1>3. cr \in [Conns -> 0 .. 255]
  BY <1>2, CreditNtfCases
<1>4. /\ awaited' = FALSE
      /\ UNCHANGED <<arrived, owed, issued, writeFailed, packets, resets>>
  BY DEF CreditNtf, bounds
<1>5. atNfcc' \in [Conns -> Nat]
  <2>1. \A c \in Conns : Given(entries, c) \in Nat /\ atNfcc[c] \in Nat /\ Given(entries, c) <= atNfcc[c]
    BY <1>1, CreditsAfterType DEF CreditNtf, TypeOK
  <2>2. \A c \in Conns : atNfcc[c] - Given(entries, c) \in Nat
    BY <2>1
  <2>3. atNfcc' = [c \in Conns |-> atNfcc[c] - Given(entries, c)]
    BY DEF CreditNtf
  <2> QED  BY <2>2, <2>3
<1>6. CASE sendState = "waitCredit" /\ WaitCreditToSend(cr)
  <2>1. tx.trans \in Trans
    BY <1>1, <1>6 DEF SenderHasTrans
  <2>2. /\ sendState' = "send" /\ failedEntry' \in BOOLEAN /\ credits' \in [Conns -> 0 .. 255]
        /\ tx' \in TxType /\ tx'.trans = tx.trans
        /\ tml' \in Seq(Trans)
        /\ rspReg' \in Entries /\ dataRegs' \in [Slots -> Entries] /\ timer' \in TimerType
        /\ UNCHANGED <<calls, pending>>
    BY <1>3, <1>6, <2>1, WaitCreditToSendType
  <2> QED  BY <1>1, <1>4, <1>5, <2>1, <2>2 DEF IInv, TypeOK, SenderHasTrans
<1>7. CASE WaitCreditToIdle /\ credits' = cr
  BY <1>1, <1>3, <1>4, <1>5, <1>7, WaitCreditToIdleType DEF IInv, TypeOK, SenderHasTrans
<1>8. CASE credits' = cr /\ UNCHANGED <<sender, tml, regs, timer, calls, pending>>
  BY <1>1, <1>3, <1>4, <1>5, <1>8 DEF IInv, TypeOK, SenderHasTrans, sender, regs
<1> QED  BY <1>2, <1>6, <1>7, <1>8, CreditNtfCases

LEMMA ResponseType ==
  ASSUME IInv, NEW t \in Trans, Response(t)
  PROVE  IInv'
<1>1. TypeOK /\ SenderHasTrans
  BY DEF IInv
<1>2. owed' \in SUBSET Trans
  BY <1>1 DEF Response, TypeOK
<1>3. timer' \in TimerType
  BY <1>1, TimerOps DEF Response, TypeOK
<1>4. /\ rspReg' \in Entries
      /\ calls' \in [Trans -> Nat] /\ pending' \in SUBSET Trans
  BY <1>1, CallbackType, TransFacts DEF Response, TypeOK
<1>5. UNCHANGED <<sendState, tx, failedEntry, credits, awaited, dataRegs, tml, arrived, atNfcc, issued,
                  writeFailed, packets, resets>>
  BY DEF Response, sender, wire, bounds
<1> QED  BY <1>1, <1>2, <1>3, <1>4, <1>5 DEF IInv, TypeOK, SenderHasTrans

LEMMA DataCallbackType ==
  ASSUME IInv, NEW c \in Conns, DataCallback(c), tx' \in TxType, tx'.trans = tx.trans
  PROVE  IInv'
<1>1. TypeOK /\ SenderHasTrans
  BY DEF IInv
<1>2. timer' \in TimerType
  BY <1>1, TimerOps DEF DataCallback, TypeOK
<1>3. calls' \in [Trans -> Nat] /\ pending' \in SUBSET Trans
  BY <1>1, CallbackType DEF DataCallback
<1>4. dataRegs' \in [Slots -> Entries]
  BY <1>1, WithoutFirstType DEF DataCallback, TypeOK
<1>5. packets' \in Nat
  BY <1>1 DEF DataCallback, TypeOK
<1>6. UNCHANGED <<sendState, failedEntry, credits, awaited, rspReg, tml, arrived, owed, atNfcc, issued,
                  writeFailed, resets>>
  BY DEF DataCallback, wire, nfcc
<1> QED  BY <1>1, <1>2, <1>3, <1>4, <1>5, <1>6 DEF IInv, TypeOK, SenderHasTrans

LEMMA ReceivedType ==
  ASSUME IInv, NEW c \in Conns, DataPacket(c) \/ InterfaceErr(c)
  PROVE  IInv'
<1>1. DataCallback(c)
  BY DEF DataPacket, InterfaceErr
<1>2. tx \in TxType
  BY DEF IInv, TypeOK
<1>3. tx' \in TxType /\ tx'.trans = tx.trans
  <2>1. tx' = tx \/ tx' = [tx EXCEPT !.left = 0, !.timed = FALSE]
    BY DEF DataPacket, InterfaceErr
  <2>2. [tx EXCEPT !.left = 0] \in TxType /\ [tx EXCEPT !.left = 0].trans = tx.trans
    BY <1>2 DEF TxType
  <2>3. ASSUME NEW x \in TxType
        PROVE  [x EXCEPT !.timed = FALSE] \in TxType /\ [x EXCEPT !.timed = FALSE].trans = x.trans
    BY DEF TxType
  <2>4. [tx EXCEPT !.left = 0, !.timed = FALSE] = [[tx EXCEPT !.left = 0] EXCEPT !.timed = FALSE]
    OBVIOUS
  <2> QED  BY <1>2, <2>1, <2>2, <2>3, <2>4
<1> QED  BY <1>1, <1>3, DataCallbackType

LEMMA RspTimerType ==
  ASSUME IInv, RspTimerFires \/ RspTimeOut
  PROVE  IInv'
<1>1. TypeOK /\ SenderHasTrans
  BY DEF IInv
<1>2. timer' \in TimerType
  BY <1>1 DEF RspTimerFires, RspTimeOut, TypeOK, TimerType
<1>3. UNCHANGED <<sendState, tx, failedEntry, credits, awaited, tml, arrived, owed, atNfcc, issued,
                  writeFailed, packets, resets>>
  BY DEF RspTimerFires, RspTimeOut, sender, wire, nfcc, upper, bounds
<1>4. CASE RspTimerFires
  BY <1>1, <1>2, <1>3, <1>4 DEF RspTimerFires, regs, upper, IInv, TypeOK, SenderHasTrans
<1>5. CASE RspTimeOut
  <2>1. rspReg' \in Entries
    BY <1>1, <1>5, TransFacts DEF RspTimeOut, TypeOK
  <2>2. dataRegs' \in [Slots -> Entries]
    BY <1>1, <1>5, WithoutFirstType DEF RspTimeOut, TypeOK
  <2>3. calls' \in [Trans -> Nat] /\ pending' \in SUBSET Trans
    BY <1>1, <1>5, CallbackType DEF RspTimeOut, TypeOK
  <2> QED  BY <1>1, <1>2, <1>3, <2>1, <2>2, <2>3 DEF IInv, TypeOK, SenderHasTrans
<1> QED  BY <1>4, <1>5

LEMMA DeRegDataCbType ==
  ASSUME IInv, DeRegDataCb
  PROVE  IInv'
<1>1. TypeOK /\ SenderHasTrans
  BY DEF IInv
<1>2. dataRegs' \in [Slots -> Entries]
  BY <1>1, TransFacts DEF DeRegDataCb, TypeOK
<1>3. pending' \in SUBSET Trans
  BY <1>1 DEF DeRegDataCb, TypeOK
<1>4. UNCHANGED <<sendState, tx, failedEntry, credits, awaited, rspReg, timer, tml, arrived, owed, atNfcc,
                  issued, calls, writeFailed, packets, resets>>
  BY DEF DeRegDataCb, sender, wire, nfcc, bounds
<1> QED  BY <1>1, <1>2, <1>3, <1>4 DEF IInv, TypeOK, SenderHasTrans

LEMMA ResetType ==
  ASSUME IInv, ResetNtf \/ Release
  PROVE  IInv'
<1>1. TypeOK /\ SenderHasTrans /\ ResetSender
  BY DEF IInv, ResetNtf, Release
<1>2. tml' \in Seq(Trans)
  <2>1. tml \in Seq(Trans)
    BY <1>1 DEF TypeOK
  <2>2. \/ tml' = tml
        \/ \E k \in 1 .. Len(tml) : tml' = SubSeq(tml, 1, k)
    BY <1>1 DEF ResetSender
  <2> QED  BY <2>1, <2>2, SeqFacts
<1>3. resets' \in Nat
  BY <1>1 DEF ResetSender, TypeOK
<1>4. rspReg' \in Entries /\ dataRegs' \in [Slots -> Entries]
  BY <1>1, TransFacts DEF ResetNtf, Release, TypeOK, regs
<1>5. owed' \in SUBSET Trans /\ atNfcc' \in [Conns -> Nat]
  BY <1>1 DEF ResetNtf, Release, TypeOK, nfcc
<1>6. /\ sendState' = "idle" /\ failedEntry' = FALSE /\ pending' = {}
      /\ UNCHANGED <<tx, credits, awaited, timer, arrived, issued, calls, writeFailed, packets>>
  BY <1>1 DEF ResetSender
<1> QED  BY <1>1, <1>2, <1>3, <1>4, <1>5, <1>6 DEF IInv, TypeOK, SenderHasTrans

LEMMA StutterType ==
  ASSUME IInv, UNCHANGED vars
  PROVE  IInv'
  BY DEF vars, sender, regs, wire, nfcc, upper, bounds, IInv, TypeOK, SenderHasTrans

LEMMA StepType == IInv /\ [Next]_vars => IInv'
<1> SUFFICES ASSUME IInv, [Next]_vars PROVE IInv'
  OBVIOUS
<1>1. ASSUME NEW t \in Trans, TxToSend(t) \/ TxToWaitCredit(t) \/ Response(t)
      PROVE  IInv'
  BY <1>1, TxToSendType, TxToWaitCreditType, ResponseType
<1>2. CASE Arrive
  BY <1>2, ArriveType
<1>3. ASSUME NEW ok \in BOOLEAN, SendComplete(ok)
      PROVE  IInv'
  BY <1>3, SendCompleteType
<1>4. CASE CreditTimeout
  BY <1>4, CreditTimeoutType
<1>5. ASSUME NEW entries \in CreditLists, CreditNtf(entries)
      PROVE  IInv'
  BY <1>5, CreditNtfType
<1>6. ASSUME NEW c \in Conns, DataPacket(c) \/ InterfaceErr(c)
      PROVE  IInv'
  BY <1>6, ReceivedType
<1>7. CASE RspTimerFires \/ RspTimeOut
  BY <1>7, RspTimerType
<1>8. CASE DeRegDataCb
  BY <1>8, DeRegDataCbType
<1>9. CASE ResetNtf \/ Release
  BY <1>9, ResetType
<1>10. CASE UNCHANGED vars
  BY <1>10, StutterType
<1> QED  BY <1>1, <1>2, <1>3, <1>4, <1>5, <1>6, <1>7, <1>8, <1>9, <1>10 DEF Next

(***************************************************************************)
(* Every variable keeps its type; in particular the credits of every       *)
(* connection stay within a byte, whatever notifications are received      *)
(* (bNumCredits of phNciNfc_LoglConnMgmt.c is a uint8_t).                  *)
(***************************************************************************)
THEOREM TypeCorrect == Spec => []TypeOK
<1>1. IInv => TypeOK
  BY DEF IInv
<1> QED  BY <1>1, InitType, StepType, PTL DEF Spec

LEMMA IInvHolds == Spec => []IInv
  BY InitType, StepType, PTL DEF Spec

-----------------------------------------------------------------------------
(* The response timer *)

LEMMA TimerStep ==
  ASSUME IInv, RunningTimerFires, [Next]_vars
  PROVE  RunningTimerFires'
<1>1. TypeOK /\ timer \in TimerType
  BY DEF IInv, TypeOK
<1>2. ASSUME timer' = timer
      PROVE  RunningTimerFires'
  BY <1>2 DEF RunningTimerFires
<1>3. ASSUME timer' = Cancelled(timer) \/ timer' = Started(timer)
      PROVE  RunningTimerFires'
  BY <1>1, <1>3, TimerOps DEF RunningTimerFires
<1>4. ASSUME NEW t, NEW timed, timer' = TimerAfter(t, timed)
      PROVE  RunningTimerFires'
  BY <1>1, <1>4 DEF TimerAfter, RunningTimerFires, TimerType
<1>5. ASSUME NEW t \in Trans, TxToSend(t)
      PROVE  RunningTimerFires'
  <2>1. timer' = timer \/ timer' = TimerAfter(t, TRUE) \/ timer' = Cancelled(TimerAfter(t, TRUE))
    BY <1>5 DEF TxToSend
  <2>2. ASSUME timer' = Cancelled(TimerAfter(t, TRUE))
        PROVE  RunningTimerFires'
    <3>1. TimerAfter(t, TRUE) \in TimerType
      BY <1>1, RegistersType
    <3>2. Cancelled(TimerAfter(t, TRUE)).status = "idle"
      BY <3>1 DEF Cancelled, TimerType
    <3> QED  BY <2>2, <3>2 DEF RunningTimerFires
  <2> QED  BY <1>2, <1>4, <2>1, <2>2
<1>6. ASSUME WaitCreditToIdle
      PROVE  RunningTimerFires'
  BY <1>1, <1>6 DEF WaitCreditToIdle, RunningTimerFires, TimerType
<1>7. ASSUME NEW entries \in CreditLists, CreditNtf(entries)
      PROVE  RunningTimerFires'
  <2>1. PICK cr : cr = [credits EXCEPT ![entries[1].conn] = CreditsAfter(entries)]
    OBVIOUS
  <2>2. \/ WaitCreditToSend(cr)
        \/ WaitCreditToIdle
        \/ timer' = timer
    BY <1>7, <2>1, CreditNtfCases
  <2>3. WaitCreditToSend(cr) => timer' = timer \/ timer' = TimerAfter(tx.trans, tx.timed)
    BY DEF WaitCreditToSend
  <2> QED  BY <1>2, <1>4, <1>6, <2>2, <2>3
<1>8. ASSUME RspTimerFires \/ RspTimeOut
      PROVE  RunningTimerFires'
  BY <1>1, <1>8 DEF RspTimerFires, RspTimeOut, RunningTimerFires, TimerType
<1>9. ASSUME NEW ok \in BOOLEAN, SendComplete(ok)
      PROVE  timer' = timer \/ timer' = Started(timer)
  BY <1>9 DEF SendComplete, CompleteIgnored, SendToIdle, SendToSend, SendToWaitCredit
<1>10. ASSUME NEW t \in Trans, TxToWaitCredit(t) \/ Response(t)
       PROVE  timer' = timer \/ timer' = Cancelled(timer)
  BY <1>10 DEF TxToWaitCredit, Response
<1>11. ASSUME NEW c \in Conns, DataPacket(c) \/ InterfaceErr(c)
       PROVE  timer' = timer \/ timer' = Cancelled(timer)
  BY <1>11 DEF DataPacket, InterfaceErr, DataCallback
<1>12. Arrive \/ DeRegDataCb \/ ResetNtf \/ Release \/ UNCHANGED vars => timer' = timer
  BY DEF Arrive, DeRegDataCb, ResetNtf, Release, ResetSender, vars
<1>13. CreditTimeout => timer' = timer \/ WaitCreditToIdle
  BY DEF CreditTimeout
<1> QED  BY <1>2, <1>3, <1>5, <1>6, <1>7, <1>8, <1>9, <1>10, <1>11, <1>12, <1>13 DEF Next

(***************************************************************************)
(* TimerInfo never says running for a timer that is neither set nor on its *)
(* way (phNciNfc_CoreStartResponseTimer, and the four places that stop it).*)
(***************************************************************************)
THEOREM ResponseTimerNeverLost == Spec => []RunningTimerFires
<1>1. Init => RunningTimerFires
  BY DEF Init, RunningTimerFires
<1>2. IInv /\ RunningTimerFires /\ [Next]_vars => RunningTimerFires'
  BY TimerStep
<1> QED  BY <1>1, <1>2, IInvHolds, PTL DEF Spec

-----------------------------------------------------------------------------
(* The events of the sender *)

LEMMA EventStep ==
  ASSUME IInv, SenderHasEvent, [Next]_vars
  PROVE  SenderHasEvent'
<1>1. TypeOK /\ SenderHasTrans /\ tml \in Seq(Trans)
  BY DEF IInv, TypeOK
<1>2. ASSUME sendState' = "idle"
      PROVE  SenderHasEvent'
  BY <1>2 DEF SenderHasEvent
<1>3. ASSUME UNCHANGED <<sendState, failedEntry, awaited, tml>>
      PROVE  SenderHasEvent'
  BY <1>3 DEF SenderHasEvent
<1>4. ASSUME NEW t \in Trans, NEW left, NEW notify, NEW timed, NEW ok, NEW cr,
             CoreSendEntry(t, left, notify, timed, ok, cr),
             \/ tml' = ToTml(t, ok, cr)
             \/ tml # <<>> /\ tml' = Tail(ToTml(t, ok, cr))
      PROVE  SenderHasEvent'
  <2>1. sendState' = "send" /\ failedEntry' = ~CanSend(t, ok, cr)
    BY <1>4 DEF CoreSendEntry
  <2>2. CanSend(t, ok, cr) => tml' # <<>>
    BY <1>1, <1>4, ToTmlType
  <2> QED  BY <2>1, <2>2 DEF SenderHasEvent
<1>5. ASSUME NEW t \in Trans, TxToSend(t)
      PROVE  SenderHasEvent'
  BY <1>4, <1>5 DEF TxToSend
<1>6. ASSUME NEW t \in Trans, TxToWaitCredit(t)
      PROVE  SenderHasEvent'
  BY <1>6 DEF TxToWaitCredit, RegForConnCredits, SenderHasEvent
<1>7. ASSUME NEW ok \in BOOLEAN, SendComplete(ok)
      PROVE  SenderHasEvent'
  <2>1. CASE CompleteIgnored(ok)
    BY <2>1 DEF CompleteIgnored, SenderHasEvent
  <2>2. CASE SendToIdle(ok)
    BY <1>2, <2>2 DEF SendToIdle
  <2>3. CASE SendToSend(ok)
    <3>1. tml # <<>> /\ tx.trans \in Trans
      BY <1>1, <2>3 DEF SendToSend, Completes, SenderHasTrans
    <3> QED  BY <1>4, <2>3, <3>1 DEF SendToSend
  <2>4. CASE SendToWaitCredit(ok)
    BY <2>4 DEF SendToWaitCredit, RegForConnCredits, SenderHasEvent
  <2> QED  BY <1>7, <2>1, <2>2, <2>3, <2>4 DEF SendComplete
<1>8. CASE CreditTimeout
  BY <1>2, <1>8 DEF CreditTimeout, WaitCreditToIdle, sender, SenderHasEvent
<1>9. ASSUME NEW entries \in CreditLists, CreditNtf(entries)
      PROVE  SenderHasEvent'
  <2>1. PICK cr : cr = [credits EXCEPT ![entries[1].conn] = CreditsAfter(entries)]
    OBVIOUS
  <2>2. CASE sendState = "waitCredit" /\ WaitCreditToSend(cr)
    <3>1. tx.trans \in Trans
      BY <1>1, <2>2 DEF SenderHasTrans
    <3> QED  BY <1>4, <2>2, <3>1 DEF WaitCreditToSend
  <2>3. CASE WaitCreditToIdle
    BY <1>2, <2>3 DEF WaitCreditToIdle
  <2>4. CASE ~(awaited /\ sendState = "waitCredit") /\ UNCHANGED <<sender, tml>>
    BY <2>4 DEF sender, SenderHasEvent
  <2> QED  BY <1>9, <2>1, <2>2, <2>3, <2>4, CreditNtfCases
<1>10. CASE ResetNtf \/ Release
  BY <1>2, <1>10 DEF ResetNtf, Release, ResetSender
<1>11. CASE Arrive \/ RspTimerFires \/ RspTimeOut \/ DeRegDataCb \/ UNCHANGED vars
  <2>1. UNCHANGED <<sendState, failedEntry, awaited, tml>>
    BY <1>11 DEF Arrive, RspTimerFires, RspTimeOut, DeRegDataCb, vars, sender, wire
  <2> QED  BY <1>3, <2>1
<1>12. ASSUME NEW t \in Trans, Response(t)
       PROVE  SenderHasEvent'
  BY <1>3, <1>12 DEF Response, sender, wire
<1>13. ASSUME NEW c \in Conns, DataPacket(c) \/ InterfaceErr(c)
       PROVE  SenderHasEvent'
  BY <1>3, <1>13 DEF DataPacket, InterfaceErr, DataCallback, wire
<1> QED  BY <1>5, <1>6, <1>7, <1>8, <1>9, <1>10, <1>11, <1>12, <1>13 DEF Next

(***************************************************************************)
(* Outside Idle the sender always has an event to come: the completion of  *)
(* a write, or the timer of its wait for credits.  The only exception is a *)
(* failed entry of Send, which phNciNfc_StateHandler does not undo.        *)
(***************************************************************************)
THEOREM SenderNeverStranded == Spec => []SenderHasEvent
<1>1. Init => SenderHasEvent
  BY DEF Init, SenderHasEvent
<1>2. IInv /\ SenderHasEvent /\ [Next]_vars => SenderHasEvent'
  BY EventStep
<1> QED  BY <1>1, <1>2, IInvHolds, PTL DEF Spec

-----------------------------------------------------------------------------
(* The credits *)

(* The data packets of connection c in the writes s from position k on, and *)
(* where those start that have not reached the controller.                  *)
On(s, k, c) == {i \in DOMAIN s : s[i].data /\ s[i].conn = c /\ k <= i}

First(a) == IF a THEN 2 ELSE 1

One(t, c) == IF t.data /\ t.conn = c THEN 1 ELSE 0

LEMMA OnFinite ==
  ASSUME NEW s \in Seq(Trans), NEW k \in {1, 2}, NEW c
  PROVE  IsFiniteSet(On(s, k, c)) /\ Cardinality(On(s, k, c)) \in Nat
<1>1. On(s, k, c) \in SUBSET (1 .. Len(s)) /\ Len(s) \in Nat
  BY DEF On
<1>2. IsFiniteSet(1 .. Len(s))
  BY <1>1, FS_Interval
<1>3. IsFiniteSet(On(s, k, c))
  BY <1>1, <1>2, FS_Subset
<1> QED  BY <1>3, FS_CardinalityType

LEMMA OnAppend ==
  ASSUME NEW s \in Seq(Trans), NEW t \in Trans, NEW k \in {1, 2}, NEW c
  PROVE  Cardinality(On(Append(s, t), k, c)) <= Cardinality(On(s, k, c)) + One(t, c)
<1>1. Append(s, t) \in Seq(Trans)
  BY SeqFacts
<1>2. /\ DOMAIN Append(s, t) = DOMAIN s \cup {Len(s) + 1}
      /\ \A i \in DOMAIN s : Append(s, t)[i] = s[i]
      /\ Append(s, t)[Len(s) + 1] = t
  OBVIOUS
<1>3. CASE t.data /\ t.conn = c
  <2>1. On(Append(s, t), k, c) \in SUBSET (On(s, k, c) \cup {Len(s) + 1})
    BY <1>2 DEF On
  <2>2. /\ IsFiniteSet(On(s, k, c) \cup {Len(s) + 1})
        /\ Cardinality(On(s, k, c) \cup {Len(s) + 1}) <= Cardinality(On(s, k, c)) + 1
    <3>1. IsFiniteSet(On(s, k, c)) /\ Cardinality(On(s, k, c)) \in Nat
      BY OnFinite
    <3>2. Cardinality(On(s, k, c) \cup {Len(s) + 1}) =
            IF Len(s) + 1 \in On(s, k, c) THEN Cardinality(On(s, k, c)) ELSE Cardinality(On(s, k, c)) + 1
      BY <3>1, FS_AddElement
    <3>3. IsFiniteSet(On(s, k, c) \cup {Len(s) + 1})
      BY <3>1, FS_AddElement
    <3> QED  BY <3>1, <3>2, <3>3
  <2>3. Cardinality(On(Append(s, t), k, c)) <= Cardinality(On(s, k, c) \cup {Len(s) + 1})
    BY <2>1, <2>2, FS_Subset
  <2>4. Cardinality(On(s, k, c) \cup {Len(s) + 1}) \in Nat /\ Cardinality(On(s, k, c)) \in Nat
    BY <2>2, OnFinite, FS_CardinalityType
  <2>5. Cardinality(On(Append(s, t), k, c)) \in Nat
    BY <1>1, OnFinite
  <2> QED  BY <1>3, <2>2, <2>3, <2>4, <2>5 DEF One
<1>4. CASE ~(t.data /\ t.conn = c)
  <2>1. On(Append(s, t), k, c) \in SUBSET On(s, k, c)
    BY <1>2, <1>4 DEF On
  <2>2. Cardinality(On(Append(s, t), k, c)) <= Cardinality(On(s, k, c))
    BY <2>1, OnFinite, FS_Subset
  <2>3. Cardinality(On(s, k, c)) \in Nat
    BY OnFinite
  <2> QED  BY <1>4, <2>2, <2>3 DEF One
<1> QED  BY <1>3, <1>4

LEMMA OnTail ==
  ASSUME NEW s \in Seq(Trans), s # <<>>, NEW k \in {1, 2}, NEW c
  PROVE  Cardinality(On(Tail(s), 1, c)) <= Cardinality(On(s, k, c))
<1> DEFINE f == [i \in On(Tail(s), 1, c) |-> i + 1]
<1>1. \A i \in DOMAIN Tail(s) : i \in Nat /\ i + 1 \in DOMAIN s /\ i + 1 # 1 /\ Tail(s)[i] = s[i + 1]
  OBVIOUS
<1>2. \A i \in On(Tail(s), 1, c) : i \in Nat /\ i + 1 \in On(s, k, c)
  BY <1>1 DEF On
<1>3. f \in Injection(On(Tail(s), 1, c), On(s, k, c))
  <2>1. f \in [On(Tail(s), 1, c) -> On(s, k, c)]
    BY <1>2
  <2>2. \A i, j \in DOMAIN f : f[i] = f[j] => i = j
    <3>1. \A i \in DOMAIN f : i \in Nat /\ f[i] = i + 1
      BY <1>2
    <3> HIDE DEF f
    <3> QED  BY <3>1
  <2> HIDE DEF f
  <2>3. IsInjective(f)
    BY <2>2 DEF IsInjective
  <2> QED  BY <2>1, <2>3 DEF Injection
<1> HIDE DEF f
<1> QED  BY <1>3, OnFinite, FS_Injection

LEMMA OnPrefix ==
  ASSUME NEW s \in Seq(Trans), NEW m \in 1 .. Len(s), NEW k \in {1, 2}, NEW c
  PROVE  Cardinality(On(SubSeq(s, 1, m), k, c)) <= Cardinality(On(s, k, c))
<1>1. On(SubSeq(s, 1, m), k, c) \in SUBSET On(s, k, c)
  <2>1. \A i \in DOMAIN SubSeq(s, 1, m) : i \in DOMAIN s /\ SubSeq(s, 1, m)[i] = s[i]
    OBVIOUS
  <2> QED  BY <2>1 DEF On
<1> QED  BY <1>1, OnFinite, FS_Subset

LEMMA OnArrive ==
  ASSUME NEW s \in Seq(Trans), s # <<>>, NEW c
  PROVE  Cardinality(On(s, 2, c)) + One(Head(s), c) = Cardinality(On(s, 1, c))
<1>1. On(s, 2, c) = On(s, 1, c) \ {1}
  BY DEF On
<1>2. 1 \in On(s, 1, c) <=> Head(s).data /\ Head(s).conn = c
  BY DEF On
<1>3. Cardinality(On(s, 1, c)) \in Nat /\ IsFiniteSet(On(s, 1, c))
  BY OnFinite
<1>4. Cardinality(On(s, 2, c)) = IF 1 \in On(s, 1, c) THEN Cardinality(On(s, 1, c)) - 1
                                                           ELSE Cardinality(On(s, 1, c))
  BY <1>1, <1>3, FS_RemoveElement
<1>5. CASE Head(s).data /\ Head(s).conn = c
  <2>1. One(Head(s), c) = 1 /\ 1 \in On(s, 1, c)
    BY <1>2, <1>5 DEF One
  <2>2. Cardinality(On(s, 2, c)) = Cardinality(On(s, 1, c)) - 1
    BY <1>4, <2>1
  <2> QED  BY <1>3, <2>1, <2>2
<1>6. CASE ~(Head(s).data /\ Head(s).conn = c)
  <2>1. One(Head(s), c) = 0 /\ 1 \notin On(s, 1, c)
    BY <1>2, <1>6 DEF One
  <2>2. Cardinality(On(s, 2, c)) = Cardinality(On(s, 1, c))
    BY <1>4, <2>1
  <2> QED  BY <1>3, <2>1, <2>2
<1> QED  BY <1>5, <1>6

(* NoOverrun for one connection, of any writes.                             *)
Within(cr, s, k, n, c) == cr[c] + Cardinality(On(s, k, c)) + n[c] <= InitialCredits

LEMMA CreditNats ==
  ASSUME NEW cr \in [Conns -> 0 .. 255], NEW n \in [Conns -> Nat], NEW c \in Conns
  PROVE  cr[c] \in Nat /\ cr[c] <= 255 /\ n[c] \in Nat /\ InitialCredits \in Nat /\ InitialCredits <= 255
<1>1. cr[c] \in 0 .. 255 /\ n[c] \in Nat
  OBVIOUS
<1>2. InitialCredits \in 0 .. 255
  BY SendAssumption DEF SendAssumption
<1> QED  BY <1>1, <1>2

AllWithin == \A c \in Conns : Within(credits, tml, First(arrived), atNfcc, c)

LEMMA NoOverrunIsWithin == TypeOK /\ AllWithin => NoOverrun
<1> SUFFICES ASSUME TypeOK, AllWithin PROVE NoOverrun
  OBVIOUS
<1>1. ASSUME NEW c \in Conns
      PROVE  OnTheWay(c) = On(tml, First(arrived), c)
  <2>1. \A i \in DOMAIN tml : i \in Nat /\ i >= 1
    BY DEF TypeOK
  <2> QED  BY <2>1 DEF OnTheWay, On, First, TypeOK
<1> QED  BY <1>1 DEF NoOverrun, AllWithin, Within

(* The parts of the state AllWithin is about, all typed.                    *)
LEMMA WithinTypes ==
  ASSUME TypeOK
  PROVE  /\ credits \in [Conns -> 0 .. 255] /\ tml \in Seq(Trans)
         /\ First(arrived) \in {1, 2} /\ atNfcc \in [Conns -> Nat]
  BY DEF TypeOK, First

(* A packet is sent only with a credit, which it takes.                     *)
LEMMA SendWithin ==
  ASSUME NEW cr \in [Conns -> 0 .. 255], NEW s \in Seq(Trans), NEW k \in {1, 2}, NEW n \in [Conns -> Nat],
         NEW c \in Conns, Within(cr, s, k, n, c),
         NEW t \in Trans, NEW ok
  PROVE  /\ Within(TakeCredit(t, cr), s, k, n, c)
         /\ CanSend(t, ok, cr) => Within(TakeCredit(t, cr), Append(s, t), k, n, c)
<1>1. /\ Cardinality(On(s, k, c)) \in Nat /\ Cardinality(On(Append(s, t), k, c)) \in Nat
      /\ Cardinality(On(Append(s, t), k, c)) <= Cardinality(On(s, k, c)) + One(t, c)
  BY OnFinite, OnAppend, SeqFacts
<1>2. cr[c] \in Nat /\ n[c] \in Nat /\ InitialCredits \in Nat /\ t.conn \in Conns
  BY TransFacts, CreditNats
<1>3. CASE t.data /\ t.conn = c /\ cr[c] > 0
  <2>1. TakeCredit(t, cr)[c] = cr[c] - 1 /\ One(t, c) = 1
    BY <1>3 DEF TakeCredit, One
  <2> QED  BY <1>1, <1>2, <1>3, <2>1 DEF Within
<1>4. CASE t.data /\ t.conn = c /\ ~(cr[c] > 0)
  <2>1. TakeCredit(t, cr) = cr /\ ~CanSend(t, ok, cr)
    BY <1>4 DEF TakeCredit, CanSend
  <2> QED  BY <2>1
<1>5. CASE ~(t.data /\ t.conn = c)
  <2>1. TakeCredit(t, cr)[c] = cr[c] /\ One(t, c) = 0
    BY <1>2, <1>5 DEF TakeCredit, One
  <2> QED  BY <1>1, <1>2, <2>1 DEF Within
<1> QED  BY <1>3, <1>4, <1>5

LEMMA TailWithin ==
  ASSUME NEW cr \in [Conns -> 0 .. 255], NEW s \in Seq(Trans), s # <<>>, NEW k \in {1, 2}, NEW n \in [Conns -> Nat],
         NEW c \in Conns, Within(cr, s, k, n, c)
  PROVE  Within(cr, Tail(s), 1, n, c)
<1>1. /\ Cardinality(On(s, k, c)) \in Nat /\ Cardinality(On(Tail(s), 1, c)) \in Nat
      /\ Cardinality(On(Tail(s), 1, c)) <= Cardinality(On(s, k, c))
  BY OnFinite, OnTail, SeqFacts
<1>2. cr[c] \in Nat /\ n[c] \in Nat /\ InitialCredits \in Nat
  BY CreditNats
<1>3. cr[c] + Cardinality(On(s, k, c)) + n[c] <= InitialCredits
  BY DEF Within
<1>4. cr[c] + Cardinality(On(Tail(s), 1, c)) + n[c] <= InitialCredits
  BY <1>1, <1>2, <1>3
<1> QED  BY <1>4 DEF Within

(* With one entry the credits returned are those of packets the controller  *)
(* holds no longer, and neither the byte nor its cap is in the way.         *)
LEMMA CreditWithin ==
  ASSUME MaxEntries = 1, TypeOK, AllWithin, NEW entries \in CreditLists, CreditNtf(entries),
         NEW cr, cr = [credits EXCEPT ![entries[1].conn] = CreditsAfter(entries)],
         NEW c \in Conns
  PROVE  Within(cr, tml, First(arrived), atNfcc', c)
<1>1. Len(entries) = 1 /\ entries[1] \in CreditEntry
  BY DEF CreditLists
<1>2. entries[1].conn \in Conns /\ entries[1].credits \in Nat
  BY <1>1, SendAssumption DEF CreditEntry, SendAssumption
<1>3. /\ credits[c] \in Nat /\ atNfcc[c] \in Nat /\ InitialCredits \in Nat /\ InitialCredits <= 255
      /\ Cardinality(On(tml, First(arrived), c)) \in Nat
  BY WithinTypes, OnFinite, CreditNats
<1>4. credits[c] + Cardinality(On(tml, First(arrived), c)) + atNfcc[c] <= InitialCredits
  BY DEF AllWithin, Within
<1>5. Given(entries, c) <= atNfcc[c] /\ atNfcc'[c] = atNfcc[c] - Given(entries, c)
  BY DEF CreditNtf
<1>6. CASE entries[1].conn = c
  <2>1. Given(entries, c) = entries[1].credits
    BY <1>1, <1>6 DEF Given
  <2>2. cr[c] = AddCredits(credits[c], entries[1].credits)
    BY <1>1, <1>6 DEF CreditsAfter, TypeOK
  <2>3. credits[c] + entries[1].credits <= 255
    BY <1>2, <1>3, <1>4, <1>5, <2>1
  <2>4. AddCredits(credits[c], entries[1].credits) <= credits[c] + entries[1].credits
        /\ AddCredits(credits[c], entries[1].credits) \in Nat
    BY <1>2, <1>3, <2>3 DEF AddCredits
  <2> QED  BY <1>2, <1>3, <1>4, <1>5, <2>1, <2>2, <2>4 DEF Within
<1>7. CASE entries[1].conn # c
  <2>1. Given(entries, c) = 0
    BY <1>1, <1>7 DEF Given
  <2>2. cr[c] = credits[c]
    BY <1>2, <1>7 DEF TypeOK
  <2> QED  BY <1>3, <1>4, <1>5, <2>1, <2>2 DEF Within
<1> QED  BY <1>6, <1>7

(* Handing a packet over keeps every connection within its credits, from    *)
(* the writes s that were there: tml, or its tail at a completion.          *)
LEMMA EntryWithin ==
  ASSUME NEW t \in Trans, NEW ok, NEW cr \in [Conns -> 0 .. 255],
         NEW s \in Seq(Trans), NEW k \in {1, 2}, NEW n \in [Conns -> Nat],
         \A c \in Conns : Within(cr, s, k, n, c),
         credits' = TakeCredit(t, cr),
         tml' = IF CanSend(t, ok, cr) THEN Append(s, t) ELSE s
  PROVE  \A c \in Conns : Within(credits', tml', k, n, c)
<1>1. ASSUME NEW c \in Conns
      PROVE  /\ Within(TakeCredit(t, cr), s, k, n, c)
             /\ CanSend(t, ok, cr) => Within(TakeCredit(t, cr), Append(s, t), k, n, c)
  BY <1>1, SendWithin
<1> QED  BY <1>1

LEMMA OverrunStep ==
  ASSUME MaxEntries = 1, IInv, AllWithin, [Next]_vars
  PROVE  AllWithin'
<1>1. TypeOK /\ SenderHasTrans
  BY DEF IInv
<1>2. /\ credits \in [Conns -> 0 .. 255] /\ tml \in Seq(Trans)
      /\ First(arrived) \in {1, 2} /\ atNfcc \in [Conns -> Nat]
  BY <1>1, WithinTypes
<1>3. \A c \in Conns : Within(credits, tml, First(arrived), atNfcc, c)
  BY DEF AllWithin
<1>4. ASSUME UNCHANGED <<credits, tml, arrived, atNfcc>>
      PROVE  AllWithin'
  BY <1>3, <1>4 DEF AllWithin
<1>5. ASSUME NEW t \in Trans, TxToSend(t)
      PROVE  AllWithin'
  <2>1. PICK ok \in WriteResults :
          /\ credits' = TakeCredit(t, credits)
          /\ tml' = IF CanSend(t, ok, credits) THEN Append(tml, t) ELSE tml
    BY <1>5 DEF TxToSend, CoreSendEntry, ToTml
  <2>2. \A c \in Conns : Within(credits', tml', First(arrived), atNfcc, c)
    BY <1>2, <1>3, <2>1, EntryWithin
  <2>3. UNCHANGED <<arrived, atNfcc>>
    BY <1>5 DEF TxToSend, nfcc
  <2> QED  BY <2>2, <2>3 DEF AllWithin
<1>6. CASE Arrive
  <2>1. tml # <<>> /\ First(arrived) = 1 /\ First(arrived') = 2
    BY <1>6 DEF Arrive, First
  <2>2. Head(tml) \in Trans /\ Head(tml).conn \in Conns
    BY <1>2, <2>1, SeqFacts, TransFacts
  <2>3. ASSUME NEW c \in Conns
        PROVE  Within(credits', tml', First(arrived'), atNfcc', c)
    <3>1. atNfcc'[c] = atNfcc[c] + One(Head(tml), c)
      BY <1>2, <1>6, <2>2 DEF Arrive, One
    <3>2. Cardinality(On(tml, 2, c)) + One(Head(tml), c) = Cardinality(On(tml, 1, c))
      BY <1>2, <2>1, OnArrive
    <3>3. credits[c] + Cardinality(On(tml, 1, c)) + atNfcc[c] <= InitialCredits
      BY <1>3, <2>1 DEF Within
    <3>4. /\ credits[c] \in Nat /\ atNfcc[c] \in Nat /\ InitialCredits \in Nat
          /\ Cardinality(On(tml, 1, c)) \in Nat /\ Cardinality(On(tml, 2, c)) \in Nat
      BY <1>2, CreditNats, OnFinite
    <3>5. One(Head(tml), c) \in Nat
      BY DEF One
    <3>6. credits[c] + Cardinality(On(tml, 2, c)) + atNfcc'[c] <= InitialCredits
      BY <3>1, <3>2, <3>3, <3>4, <3>5
    <3>7. UNCHANGED <<credits, tml>>
      BY <1>6 DEF Arrive
    <3> QED  BY <2>1, <3>6, <3>7 DEF Within
  <2> QED  BY <2>3 DEF AllWithin
<1>7. ASSUME NEW ok \in BOOLEAN, SendComplete(ok)
      PROVE  AllWithin'
  <2>1. Completes(ok)
    BY <1>7 DEF SendComplete, CompleteIgnored, SendToIdle, SendToSend, SendToWaitCredit
  <2>2. tml # <<>> /\ First(arrived') = 1 /\ UNCHANGED atNfcc /\ Tail(tml) \in Seq(Trans)
    BY <1>2, <2>1, SeqFacts DEF Completes, nfcc, First
  <2>3. \A c \in Conns : Within(credits, Tail(tml), 1, atNfcc, c)
    BY <1>2, <1>3, <2>2, TailWithin
  <2>4. CASE CompleteIgnored(ok) \/ SendToIdle(ok) \/ SendToWaitCredit(ok)
    <3>1. tml' = Tail(tml) /\ UNCHANGED credits
      BY <2>4 DEF CompleteIgnored, SendToIdle, SendToWaitCredit
    <3> QED  BY <2>2, <2>3, <3>1 DEF AllWithin
  <2>5. CASE SendToSend(ok)
    <3>1. PICK w \in WriteResults :
            /\ credits' = TakeCredit(tx.trans, credits)
            /\ tml' = Tail(ToTml(tx.trans, w, credits))
      BY <2>5 DEF SendToSend, CoreSendEntry
    <3>2. tx.trans \in Trans
      BY <1>1, <2>5 DEF SendToSend, SenderHasTrans
    <3>3. Tail(Append(tml, tx.trans)) = Append(Tail(tml), tx.trans)
      BY <1>2, <2>2, <3>2
    <3>4. tml' = IF CanSend(tx.trans, w, credits) THEN Append(Tail(tml), tx.trans) ELSE Tail(tml)
      BY <3>1, <3>3 DEF ToTml
    <3>5. \A c \in Conns : Within(credits', tml', 1, atNfcc, c)
      BY <1>2, <2>2, <2>3, <3>1, <3>2, <3>4, EntryWithin
    <3> QED  BY <2>2, <3>5 DEF AllWithin
  <2> QED  BY <1>7, <2>4, <2>5 DEF SendComplete
<1>8. ASSUME NEW entries \in CreditLists, CreditNtf(entries)
      PROVE  AllWithin'
  <2>1. PICK cr : cr = [credits EXCEPT ![entries[1].conn] = CreditsAfter(entries)]
    OBVIOUS
  <2>2. cr \in [Conns -> 0 .. 255]
    BY <1>8, <2>1, CreditNtfCases
  <2>3. \A c \in Conns : Within(cr, tml, First(arrived), atNfcc', c)
    BY <1>1, <1>8, <2>1, CreditWithin
  <2>4. UNCHANGED arrived
    BY <1>8 DEF CreditNtf
  <2>5. CASE credits' = cr /\ UNCHANGED tml
    BY <2>3, <2>4, <2>5 DEF AllWithin
  <2>6. CASE sendState = "waitCredit" /\ WaitCreditToSend(cr)
    <3>1. tx.trans \in Trans
      BY <1>1, <2>6 DEF SenderHasTrans
    <3>2. atNfcc' \in [Conns -> Nat]
      <4>1. IInv'
        BY <1>8, CreditNtfType
      <4> QED  BY <4>1 DEF IInv, TypeOK
    <3>3. \A c \in Conns : Within(credits', tml', First(arrived), atNfcc', c)
      <4>1. PICK ok \in WriteResults :
              /\ credits' = TakeCredit(tx.trans, cr)
              /\ tml' = IF CanSend(tx.trans, ok, cr) THEN Append(tml, tx.trans) ELSE tml
        BY <2>6 DEF WaitCreditToSend, CoreSendEntry, ToTml
      <4> QED  BY <1>2, <2>2, <2>3, <3>1, <3>2, <4>1, EntryWithin
    <3> QED  BY <2>4, <3>3 DEF AllWithin
  <2>7. WaitCreditToIdle => UNCHANGED tml
    BY DEF WaitCreditToIdle
  <2> QED  BY <1>8, <2>1, <2>5, <2>6, <2>7, CreditNtfCases
<1>9. CASE ResetNtf \/ Release
  <2>1. ResetSender /\ UNCHANGED <<credits, arrived>>
    BY <1>9 DEF ResetNtf, Release, ResetSender
  <2>2. atNfcc' \in [Conns -> Nat] /\ \A c \in Conns : atNfcc'[c] <= atNfcc[c]
    BY <1>2, <1>9 DEF ResetNtf, Release, nfcc
  <2>3. tml' \in Seq(Trans)
    BY <1>2, <2>1, SeqFacts DEF ResetSender
  <2>4. ASSUME NEW c \in Conns
        PROVE  Within(credits', tml', First(arrived'), atNfcc', c)
    <3>1. Cardinality(On(tml', First(arrived), c)) <= Cardinality(On(tml, First(arrived), c))
      <4>1. CASE tml' = tml
        <5>1. Cardinality(On(tml, First(arrived), c)) \in Nat
          BY <1>2, OnFinite
        <5> QED  BY <4>1, <5>1
      <4>2. CASE \E k \in 1 .. Len(tml) : tml' = SubSeq(tml, 1, k)
        BY <1>2, <4>2, OnPrefix
      <4> QED  BY <2>1, <4>1, <4>2 DEF ResetSender
    <3>2. credits[c] + Cardinality(On(tml, First(arrived), c)) + atNfcc[c] <= InitialCredits
      BY <1>3 DEF Within
    <3>3. /\ credits[c] \in Nat /\ atNfcc[c] \in Nat /\ InitialCredits \in Nat /\ atNfcc'[c] \in Nat
          /\ Cardinality(On(tml, First(arrived), c)) \in Nat
          /\ Cardinality(On(tml', First(arrived), c)) \in Nat
      BY <1>2, <2>2, <2>3, CreditNats, OnFinite
    <3>4. atNfcc'[c] <= atNfcc[c]
      BY <2>2
    <3>5. credits[c] + Cardinality(On(tml', First(arrived), c)) + atNfcc'[c] <= InitialCredits
      BY <3>1, <3>2, <3>3, <3>4
    <3> QED  BY <2>1, <3>5 DEF Within
  <2> QED  BY <2>4 DEF AllWithin
<1>10. ASSUME NEW t \in Trans, TxToWaitCredit(t) \/ Response(t)
       PROVE  AllWithin'
  BY <1>4, <1>10 DEF TxToWaitCredit, Response, wire, nfcc
<1>11. ASSUME NEW c \in Conns, DataPacket(c) \/ InterfaceErr(c)
       PROVE  AllWithin'
  BY <1>4, <1>11 DEF DataPacket, InterfaceErr, DataCallback, wire, nfcc
<1>12. CASE CreditTimeout
  <2>1. UNCHANGED <<credits, tml, arrived, atNfcc>>
    BY <1>12 DEF CreditTimeout, WaitCreditToIdle, nfcc
  <2> QED  BY <1>4, <2>1
<1>13. CASE RspTimerFires \/ RspTimeOut \/ DeRegDataCb \/ UNCHANGED vars
  <2>1. UNCHANGED <<credits, tml, arrived, atNfcc>>
    BY <1>13 DEF RspTimerFires, RspTimeOut, DeRegDataCb, vars, wire, nfcc
  <2> QED  BY <1>4, <2>1
<1> QED  BY <1>5, <1>6, <1>7, <1>8, <1>9, <1>10, <1>11, <1>12, <1>13 DEF Next

(***************************************************************************)
(* With one entry per CORE_CONN_CREDITS_NTF the controller is never sent   *)
(* more data than it has buffers for, whatever is lost, refused or reset   *)
(* (phNciNfc_DecrConnCredit, phNciNfc_ProcessConnCreditNtf).               *)
(***************************************************************************)
THEOREM CreditsNeverOverdrawn ==
  ASSUME MaxEntries = 1
  PROVE  Spec => []NoOverrun
<1>1. Init => AllWithin
  <2> SUFFICES ASSUME Init, NEW c \in Conns PROVE Within(credits, tml, First(arrived), atNfcc, c)
    BY DEF AllWithin
  <2>1. On(tml, First(arrived), c) = {}
    BY DEF Init, On
  <2>2. Cardinality(On(tml, First(arrived), c)) = 0
    BY <2>1, FS_EmptySet
  <2>3. credits[c] = InitialCredits /\ atNfcc[c] = 0 /\ InitialCredits \in Nat
    BY SendAssumption DEF Init, SendAssumption
  <2> QED  BY <2>2, <2>3 DEF Within
<1>2. IInv /\ AllWithin /\ [Next]_vars => AllWithin'
  BY OverrunStep
<1>3. IInv /\ AllWithin => NoOverrun
  BY NoOverrunIsWithin DEF IInv
<1> QED  BY <1>1, <1>2, <1>3, IInvHolds, PTL DEF Spec

-----------------------------------------------------------------------------
(* One callback for each transaction *)

(* The transactions the property speaks of *)
Plain(t) == t \notin writeFailed /\ ~(t.data /\ ~t.only /\ t.segs > 1)

(* What is registered, sent or called back was issued. *)
RegsInv ==
  /\ rspReg # NoTrans => ~rspReg.data /\ rspReg \in issued
  /\ \A i \in Slots : dataRegs[i] # NoTrans =>
       dataRegs[i].data /\ ~dataRegs[i].only /\ dataRegs[i] \in issued
  /\ tx.trans # NoTrans => tx.trans \in issued
  /\ \A t \in Trans : calls[t] # 0 => t \in issued

(* What the sender knows of its transaction *)
SenderInv ==
  /\ resets <= MaxResets
  /\ sendState # "idle" =>
       /\ resets > 0 => ~tx.trans.data
       /\ tx.trans.only => tx.notify
       /\ tx.notify => tx.trans.only \/ tx.trans \in writeFailed
       /\ tx.left <= tx.trans.segs
  /\ sendState = "send" =>
       /\ failedEntry /\ resets > 0 => FALSE \in WriteResults
       /\ ~failedEntry /\ tx.trans.segs = 1 => tx.left = 0

(* Each reset leaves at most one write behind whose completion nobody expects. *)
QueueInv ==
  /\ Len(tml) <= resets + (IF sendState = "send" /\ ~failedEntry THEN 1 ELSE 0)
  /\ sendState = "waitCredit" => tml = <<>>

Registered(t) == rspReg = t \/ \E i \in Slots : dataRegs[i] = t

(* The sender itself may call t back, or register it once more. *)
Coming(t) ==
  /\ tx.trans = t
  /\ \/ sendState = "waitCredit"
     \/ sendState = "send" /\ (tx.notify \/ (failedEntry /\ tml # <<>>))

Once(t) ==
  /\ calls[t] <= 1
  /\ calls[t] = 1 => ~Registered(t) /\ ~Coming(t)
  /\ ~(Registered(t) /\ Coming(t))
  /\ \A i, j \in Slots : dataRegs[i] = t /\ dataRegs[j] = t => i = j

OnceInv == \A t \in Trans : Plain(t) => Once(t)

LEMMA LowestIn ==
  ASSUME NEW S, S \subseteq Slots, S # {}
  PROVE  Lowest(S) \in S
<1>1. S \subseteq Nat
  BY SendAssumption DEF Slots
<1> DEFINE less == {p \in Nat \X Nat : p[1] < p[2]}
<1>2. IsWellFoundedOn(less, Nat)
  BY NatLessThanWellFounded DEF OpToRel
<1>3. PICK i \in S : \A j \in S : ~(<<j, i>> \in less)
  <2> HIDE DEF less
  <2> QED  BY <1>1, <1>2, WFMin
<1>4. ASSUME NEW j \in S
      PROVE  i <= j
  <2>1. i \in Nat /\ j \in Nat
    BY <1>1
  <2>2. ~(j < i)
    <3>1. j < i => <<j, i>> \in less
      BY <2>1
    <3> QED  BY <1>3, <3>1
  <2> QED  BY <2>1, <2>2
<1> QED  BY <1>4 DEF Lowest

(* The entry a packet of connection c calls, and what it leaves *)
LEMMA FirstEntry ==
  ASSUME NEW r \in [Slots -> Entries], NEW c, EntriesOf(r, c) # {}
  PROVE  \E k \in Slots :
           /\ k = Lowest(EntriesOf(r, c)) /\ r[k] \in Trans
           /\ \A i \in Slots : WithoutFirst(r, c)[i] = IF i = k THEN NoTrans ELSE r[i]
<1>1. Lowest(EntriesOf(r, c)) \in EntriesOf(r, c)
  BY LowestIn DEF EntriesOf
<1> QED  BY <1>1, TransFacts DEF EntriesOf, WithoutFirst

LEMMA Shrinks ==
  ASSUME NEW r \in [Slots -> Entries], NEW c, NEW i \in Slots
  PROVE  WithoutFirst(r, c)[i] \in {r[i], NoTrans}
  BY FirstEntry DEF WithoutFirst

(* A registration fills one slot at most. *)
LEMMA OneSlot ==
  ASSUME TypeOK, NEW t \in Trans
  PROVE  /\ RspRegAfter(t) = IF t.data THEN rspReg ELSE t
         /\ \A i \in Slots : DataRegsAfter(t)[i] = dataRegs[i]
                             \/ (t.data /\ DataRegsAfter(t)[i] = t)
         /\ \A i, j \in Slots : DataRegsAfter(t)[i] # dataRegs[i] /\ DataRegsAfter(t)[j] # dataRegs[j]
                                => i = j
<1>1. dataRegs \in [Slots -> Entries]
  BY DEF TypeOK
<1>2. CASE t.data /\ FreeSlots # {}
  <2>1. PICK k : DataRegsAfter(t) = [dataRegs EXCEPT ![k] = t]
    BY <1>2 DEF DataRegsAfter
  <2>2. \A i \in Slots : DataRegsAfter(t)[i] = IF i = k THEN t ELSE dataRegs[i]
    BY <1>1, <2>1
  <2> QED  BY <1>2, <2>2 DEF RspRegAfter
<1>3. CASE ~(t.data /\ FreeSlots # {})
  <2>1. DataRegsAfter(t) = dataRegs
    BY <1>3 DEF DataRegsAfter
  <2> QED  BY <2>1 DEF RspRegAfter
<1> QED  BY <1>2, <1>3

LEMMA EntryFields ==
  ASSUME NEW t, NEW left, NEW notify, NEW timed, NEW ok, NEW cr,
         CoreSendEntry(t, left, notify, timed, ok, cr)
  PROVE  /\ sendState' = "send" /\ (failedEntry' <=> ~CanSend(t, ok, cr))
         /\ tx'.trans = t /\ tx'.notify = notify
         /\ tx'.left = IF CanSend(t, ok, cr) THEN Remains(left) ELSE left
  BY DEF CoreSendEntry

LEMMA Lengths ==
  ASSUME NEW s \in Seq(Trans)
  PROVE  /\ Len(s) \in Nat /\ (Len(s) <= 0 <=> s = <<>>)
         /\ s # <<>> => Len(Tail(s)) = Len(s) - 1
         /\ \A t \in Trans : Len(Append(s, t)) = Len(s) + 1
         /\ \A k \in 1 .. Len(s) : Len(SubSeq(s, 1, k)) = k
<1>1. Len(s) \in Nat /\ (Len(s) = 0 <=> s = <<>>)
  OBVIOUS
<1>2. s # <<>> => Len(Tail(s)) = Len(s) - 1
  OBVIOUS
<1>3. \A t \in Trans : Len(Append(s, t)) = Len(s) + 1
  OBVIOUS
<1>4. ASSUME NEW k \in 1 .. Len(s)
      PROVE  Len(SubSeq(s, 1, k)) = k
  OBVIOUS
<1> QED  BY <1>1, <1>2, <1>3, <1>4

LEMMA CalledIssued ==
  ASSUME IInv, RegsInv, NEW x \in Entries, x # NoTrans => x \in issued, Callback(x),
         issued \subseteq issued'
  PROVE  \A t \in Trans : calls'[t] # 0 => t \in issued'
<1>1. CASE x = NoTrans
  BY <1>1 DEF Callback, RegsInv
<1>2. CASE x # NoTrans
  BY <1>2, TransFacts DEF Callback, RegsInv, IInv, TypeOK
<1> QED  BY <1>1, <1>2

LEMMA RegsFrame ==
  ASSUME RegsInv, NEW x \in Entries, x # NoTrans => x \in issued', issued \subseteq issued',
         rspReg' \in {rspReg, NoTrans} \/ (rspReg' = x /\ ~x.data),
         \A i \in Slots : dataRegs'[i] \in {dataRegs[i], NoTrans}
                          \/ (dataRegs'[i] = x /\ x.data /\ ~x.only),
         tx'.trans \in {tx.trans, x},
         \A t \in Trans : calls'[t] # 0 => t \in issued'
  PROVE  RegsInv'
  BY DEF RegsInv

(* What is issued stays issued, and a write that failed stays failed. *)
LEMMA Grows ==
  ASSUME IInv, [Next]_vars
  PROVE  issued \subseteq issued' /\ writeFailed \subseteq writeFailed'
<1>1. ASSUME NEW t \in Trans, TxToSend(t) \/ TxToWaitCredit(t) \/ Response(t)
      PROVE  issued \subseteq issued' /\ writeFailed \subseteq writeFailed'
  BY <1>1 DEF TxToSend, TxToWaitCredit, Response
<1>2. ASSUME NEW ok \in BOOLEAN, SendComplete(ok)
      PROVE  issued \subseteq issued' /\ writeFailed \subseteq writeFailed'
  BY <1>2 DEF SendComplete, CompleteIgnored, SendToIdle, SendToSend, SendToWaitCredit, Completes
<1>3. ASSUME NEW entries \in CreditLists, CreditNtf(entries)
      PROVE  issued \subseteq issued' /\ writeFailed \subseteq writeFailed'
  BY <1>3 DEF CreditNtf
<1>4. ASSUME NEW c \in Conns, DataPacket(c) \/ InterfaceErr(c)
      PROVE  issued \subseteq issued' /\ writeFailed \subseteq writeFailed'
  BY <1>4 DEF DataPacket, InterfaceErr, DataCallback
<1>5. CASE Arrive \/ CreditTimeout \/ RspTimerFires \/ RspTimeOut \/ DeRegDataCb \/ UNCHANGED vars
  BY <1>5 DEF Arrive, CreditTimeout, RspTimerFires, RspTimeOut, DeRegDataCb, upper, vars
<1>6. CASE ResetNtf \/ Release
  BY <1>6 DEF ResetNtf, Release, ResetSender
<1> QED  BY <1>1, <1>2, <1>3, <1>4, <1>5, <1>6 DEF Next

LEMMA RegsStep ==
  ASSUME IInv, RegsInv, SenderInv, [Next]_vars
  PROVE  RegsInv'
<1>0. /\ TypeOK /\ SenderHasTrans /\ issued \subseteq issued'
      /\ dataRegs \in [Slots -> Entries] /\ rspReg \in Entries /\ tx.trans \in Entries
      /\ \A t \in Trans : calls[t] # 0 => t \in issued
      /\ tx.trans # NoTrans => tx.trans \in issued
      /\ rspReg # NoTrans => rspReg \in issued
      /\ \A i \in Slots : dataRegs[i] # NoTrans => dataRegs[i] \in issued
  BY Grows DEF IInv, TypeOK, TxType, RegsInv
<1>1. ASSUME rspReg' \in {rspReg, NoTrans}, \A i \in Slots : dataRegs'[i] \in {dataRegs[i], NoTrans},
             tx'.trans = tx.trans, \A t \in Trans : calls'[t] # 0 => t \in issued'
      PROVE  RegsInv'
  BY <1>0, <1>1, TransFacts, RegsFrame
<1>2. ASSUME UNCHANGED <<rspReg, dataRegs, tx, calls>>
      PROVE  RegsInv'
  BY <1>0, <1>1, <1>2
<1>3. ASSUME Callback(tx.trans) \/ calls' = calls
      PROVE  \A t \in Trans : calls'[t] # 0 => t \in issued'
  BY <1>0, <1>3, CalledIssued
<1>4. ASSUME NEW t \in Trans, TxToSend(t)
      PROVE  RegsInv'
  <2>1. t \in issued' /\ tx'.trans = t /\ UNCHANGED calls
    BY <1>4, EntryFields DEF TxToSend
  <2>2. rspReg' \in {rspReg, NoTrans} \/ (rspReg' = t /\ ~t.data)
    BY <1>4 DEF TxToSend, RspRegAfter, regs
  <2>3. ASSUME NEW i \in Slots
        PROVE  dataRegs'[i] \in {dataRegs[i], NoTrans} \/ (dataRegs'[i] = t /\ t.data /\ ~t.only)
    <3>1. \/ dataRegs' = dataRegs
          \/ ~t.only /\ dataRegs' = DataRegsAfter(t)
          \/ ~t.only /\ dataRegs' = WithoutFirst(DataRegsAfter(t), t.conn)
      BY <1>4 DEF TxToSend, regs
    <3>2. DataRegsAfter(t)[i] = dataRegs[i] \/ (t.data /\ DataRegsAfter(t)[i] = t)
      BY <1>0, OneSlot
    <3>3. WithoutFirst(DataRegsAfter(t), t.conn)[i] \in {DataRegsAfter(t)[i], NoTrans}
      BY <1>0, RegistersType, Shrinks
    <3> QED  BY <3>1, <3>2, <3>3
  <2> QED  BY <1>0, <2>1, <2>2, <2>3, TransFacts, RegsFrame
<1>5. ASSUME NEW t \in Trans, TxToWaitCredit(t)
      PROVE  RegsInv'
  <2>1. t \in issued' /\ tx'.trans = t /\ UNCHANGED <<rspReg, dataRegs, calls>>
    BY <1>5 DEF TxToWaitCredit, regs
  <2> QED  BY <1>0, <2>1, TransFacts, RegsFrame
<1>6. ASSUME NEW ok \in BOOLEAN, SendComplete(ok)
      PROVE  RegsInv'
  <2>1. Completes(ok)
    BY <1>6 DEF SendComplete, CompleteIgnored, SendToIdle, SendToSend, SendToWaitCredit
  <2>2. UNCHANGED <<rspReg, dataRegs>> /\ [tx EXCEPT !.notify = Notify(ok)].trans = tx.trans
    BY <1>0, <2>1, CompletesType
  <2>3. tx'.trans = tx.trans
    BY <1>6, <2>2, EntryFields DEF SendComplete, CompleteIgnored, SendToIdle, SendToSend, SendToWaitCredit
  <2>4. Callback(tx.trans) \/ calls' = calls
    BY <1>6 DEF SendComplete, CompleteIgnored, SendToIdle, SendToSend, SendToWaitCredit
  <2> QED  BY <1>1, <1>3, <2>2, <2>3, <2>4
<1>7. ASSUME WaitCreditToIdle
      PROVE  RegsInv'
  <2>1. UNCHANGED <<rspReg, dataRegs, tx>> /\ Callback(tx.trans)
    BY <1>7 DEF WaitCreditToIdle, regs
  <2> QED  BY <1>1, <1>3, <2>1
<1>8. CASE CreditTimeout
  BY <1>2, <1>7, <1>8 DEF CreditTimeout, sender, regs
<1>9. ASSUME NEW entries \in CreditLists, CreditNtf(entries)
      PROVE  RegsInv'
  <2>1. PICK cr : cr = [credits EXCEPT ![entries[1].conn] = CreditsAfter(entries)]
    OBVIOUS
  <2>2. CASE sendState = "waitCredit" /\ WaitCreditToSend(cr)
    <3> DEFINE t == tx.trans
    <3>1. t \in Trans /\ (t.only => tx.notify)
      BY <1>0, <2>2 DEF SenderHasTrans, SenderInv
    <3>2. tx'.trans = t /\ UNCHANGED calls
      BY <2>2, EntryFields DEF WaitCreditToSend
    <3>3. rspReg' = rspReg \/ (rspReg' = t /\ ~t.data)
      BY <2>2 DEF WaitCreditToSend, RspRegAfter, regs
    <3>4. ASSUME NEW i \in Slots
          PROVE  dataRegs'[i] = dataRegs[i] \/ (dataRegs'[i] = t /\ t.data /\ ~t.only)
      <4>1. dataRegs' = dataRegs \/ (~t.only /\ dataRegs' = DataRegsAfter(t))
        BY <2>2, <3>1 DEF WaitCreditToSend, regs
      <4> QED  BY <1>0, <3>1, <4>1, OneSlot
    <3> QED  BY <1>0, <3>1, <3>2, <3>3, <3>4, TransFacts, RegsFrame
  <2>3. CASE UNCHANGED <<sender, tml, regs, timer, calls, pending>>
    BY <1>2, <2>3 DEF sender, regs
  <2> QED  BY <1>7, <1>9, <2>1, <2>2, <2>3, CreditNtfCases
<1>10. ASSUME NEW t \in Trans, Response(t)
       PROVE  RegsInv'
  <2>1. rspReg' \in {rspReg, NoTrans} /\ UNCHANGED <<dataRegs, tx>>
        /\ (Callback(rspReg) \/ calls' = calls)
    BY <1>10 DEF Response, sender
  <2>2. \A u \in Trans : calls'[u] # 0 => u \in issued'
    BY <1>0, <2>1, CalledIssued
  <2> QED  BY <1>1, <2>1, <2>2
<1>11. ASSUME NEW c, Callback(IF EntriesOf(dataRegs, c) = {} THEN NoTrans
                              ELSE dataRegs[Lowest(EntriesOf(dataRegs, c))])
       PROVE  \A u \in Trans : calls'[u] # 0 => u \in issued'
  <2>1. PICK x : x = IF EntriesOf(dataRegs, c) = {} THEN NoTrans
                     ELSE dataRegs[Lowest(EntriesOf(dataRegs, c))]
    OBVIOUS
  <2>2. x \in Entries /\ (x # NoTrans => x \in issued)
    <3>1. CASE EntriesOf(dataRegs, c) = {}
      BY <2>1, <3>1, TransFacts
    <3>2. CASE EntriesOf(dataRegs, c) # {}
      <4>1. PICK k \in Slots : k = Lowest(EntriesOf(dataRegs, c)) /\ dataRegs[k] \in Trans
        BY <1>0, <3>2, FirstEntry
      <4> QED  BY <1>0, <2>1, <3>2, <4>1, TransFacts
    <3> QED  BY <3>1, <3>2
  <2> QED  BY <1>0, <1>11, <2>1, <2>2, CalledIssued
<1>12. ASSUME NEW c \in Conns, DataPacket(c) \/ InterfaceErr(c)
       PROVE  RegsInv'
  <2>1. DataCallback(c) /\ tx'.trans = tx.trans
    BY <1>0, <1>12 DEF DataPacket, InterfaceErr, TypeOK, TxType
  <2>2. dataRegs' = WithoutFirst(dataRegs, c) /\ UNCHANGED rspReg
    BY <2>1 DEF DataCallback
  <2>3. \A u \in Trans : calls'[u] # 0 => u \in issued'
    BY <1>11, <2>1 DEF DataCallback
  <2> QED  BY <1>0, <1>1, <2>1, <2>2, <2>3, Shrinks
<1>13. CASE RspTimeOut
  <2>1. UNCHANGED tx
    BY <1>13 DEF RspTimeOut, sender
  <2>2. CASE ~timer.of.data
    <3>1. rspReg' \in {rspReg, NoTrans} /\ UNCHANGED dataRegs
          /\ (Callback(rspReg) \/ calls' = calls)
      BY <1>13, <2>2 DEF RspTimeOut
    <3>2. \A u \in Trans : calls'[u] # 0 => u \in issued'
      BY <1>0, <3>1, CalledIssued
    <3> QED  BY <1>1, <2>1, <3>1, <3>2
  <2>3. CASE timer.of.data
    <3>1. dataRegs' = WithoutFirst(dataRegs, timer.of.conn) /\ UNCHANGED rspReg
      BY <1>13, <2>3 DEF RspTimeOut
    <3>2. \A u \in Trans : calls'[u] # 0 => u \in issued'
      BY <1>11, <1>13, <2>3 DEF RspTimeOut
    <3> QED  BY <1>0, <1>1, <2>1, <3>1, <3>2, Shrinks
  <2> QED  BY <2>2, <2>3
<1>14. CASE DeRegDataCb
  <2>1. \A i \in Slots : dataRegs'[i] \in {dataRegs[i], NoTrans}
    BY <1>14 DEF DeRegDataCb
  <2>2. UNCHANGED <<rspReg, tx, calls>>
    BY <1>14 DEF DeRegDataCb, sender
  <2> QED  BY <1>1, <1>3, <2>1, <2>2
<1>15. CASE ResetNtf \/ Release
  <2>1. /\ rspReg' \in {rspReg, NoTrans} /\ \A i \in Slots : dataRegs'[i] \in {dataRegs[i], NoTrans}
        /\ UNCHANGED <<tx, calls>>
    BY <1>15 DEF ResetNtf, Release, ResetSender, regs
  <2> QED  BY <1>1, <1>3, <2>1
<1>16. CASE Arrive \/ RspTimerFires \/ UNCHANGED vars
  BY <1>2, <1>16 DEF Arrive, RspTimerFires, vars, sender, regs, upper
<1> QED  BY <1>4, <1>5, <1>6, <1>8, <1>9, <1>10, <1>12, <1>13, <1>14, <1>15, <1>16 DEF Next

(* A refusal the transport does not make, or one reset: then no sender fails twice. *)
Refusals == FALSE \notin WriteResults \/ MaxResets <= 1

SndInv == RegsInv /\ SenderInv /\ QueueInv

LEMMA EntryQueue ==
  ASSUME IInv, SndInv, sendState # "send", NEW t \in Trans,
         NEW left, NEW notify, NEW timed, NEW ok, NEW cr,
         CoreSendEntry(t, left, notify, timed, ok, cr), tml' = ToTml(t, ok, cr),
         resets' = resets
  PROVE  QueueInv'
<1>1. /\ tml \in Seq(Trans) /\ resets \in Nat /\ Len(tml) <= resets
      /\ sendState' = "send" /\ (failedEntry' <=> ~CanSend(t, ok, cr))
  BY EntryFields DEF SndInv, QueueInv, IInv, TypeOK
<1>2. CASE CanSend(t, ok, cr)
  <2>1. Len(tml') = Len(tml) + 1 /\ Len(tml) \in Nat
    BY <1>1, <1>2, Lengths DEF ToTml
  <2>2. Len(tml') <= resets' + 1
    BY <1>1, <2>1
  <2> QED  BY <1>1, <1>2, <2>2 DEF QueueInv
<1>3. CASE ~CanSend(t, ok, cr)
  <2>1. tml' = tml
    BY <1>3 DEF ToTml
  <2>2. Len(tml') <= resets' + 0
    BY <1>1, <2>1
  <2> QED  BY <1>1, <1>3, <2>2 DEF QueueInv
<1> QED  BY <1>2, <1>3

LEMMA TxToSendSnd ==
  ASSUME IInv, SndInv, NEW t \in Trans, TxToSend(t)
  PROVE  (SenderInv /\ QueueInv)'
<1>1. PICK ok \in WriteResults :
        /\ CoreSendEntry(t, t.segs, t.only, ~t.only, ok, credits)
        /\ tml' = ToTml(t, ok, credits)
  BY DEF TxToSend
<1>2. /\ sendState' = "send" /\ (failedEntry' <=> ~CanSend(t, ok, credits))
      /\ tx'.trans = t /\ tx'.notify = t.only
      /\ tx'.left = IF CanSend(t, ok, credits) THEN Remains(t.segs) ELSE t.segs
  BY <1>1, EntryFields
<1>3. sendState = "idle" /\ resets' = resets /\ (t.data => resets = 0) /\ ~NeedsCredit(t)
  BY DEF TxToSend, MayIssue, bounds
<1>4. t.data \in BOOLEAN /\ t.only \in BOOLEAN /\ t.segs \in Nat /\ t.conn \in Conns
  BY TransFacts
<1>5. credits[t.conn] \in Nat
  <2>1. credits \in [Conns -> 0 .. 255]
    BY DEF IInv, TypeOK
  <2> QED  BY <1>4, <2>1
<1>6. resets \in Nat /\ resets <= MaxResets
  BY DEF IInv, TypeOK, SndInv, SenderInv
<1>7. ~CanSend(t, ok, credits) => ~ok
  BY <1>3, <1>5 DEF CanSend, NeedsCredit
<1>8. ~ok => FALSE \in WriteResults
  BY <1>1, SendAssumption DEF SendAssumption
<1>9. (CanSend(t, ok, credits) /\ t.segs = 1 => tx'.left = 0) /\ tx'.left <= t.segs
  BY <1>2, <1>4 DEF Remains
<1>10. SenderInv'
  <2>1. resets' > 0 => ~tx'.trans.data
    BY <1>2, <1>3, <1>6
  <2>2. (tx'.trans.only => tx'.notify) /\ (tx'.notify => tx'.trans.only) /\ tx'.left <= tx'.trans.segs
    BY <1>2, <1>9
  <2>3. failedEntry' => FALSE \in WriteResults
    BY <1>2, <1>7, <1>8
  <2>4. ~failedEntry' /\ tx'.trans.segs = 1 => tx'.left = 0
    BY <1>2, <1>9
  <2> QED  BY <1>2, <1>3, <1>6, <2>1, <2>2, <2>3, <2>4 DEF SenderInv
<1> QED  BY <1>1, <1>3, <1>10, EntryQueue

LEMMA CompleteSnd ==
  ASSUME Refusals, IInv, SndInv, NEW ok \in BOOLEAN, SendComplete(ok)
  PROVE  (SenderInv /\ QueueInv)'
<1>1. Completes(ok)
  BY DEF SendComplete, CompleteIgnored, SendToIdle, SendToSend, SendToWaitCredit
<1>2. /\ tml # <<>> /\ tml \in Seq(Trans) /\ Len(Tail(tml)) = Len(tml) - 1 /\ Len(tml) \in Nat
      /\ Len(tml) > 0
  <2>1. tml # <<>> /\ tml \in Seq(Trans)
    BY <1>1, CompletesType
  <2>2. Len(Tail(tml)) = Len(tml) - 1 /\ Len(tml) \in Nat /\ ~(Len(tml) <= 0)
    BY <2>1, Lengths
  <2> QED  BY <2>1, <2>2
<1>3. /\ [tx EXCEPT !.notify = Notify(ok)].trans = tx.trans
      /\ [tx EXCEPT !.notify = Notify(ok)].notify = Notify(ok)
      /\ [tx EXCEPT !.notify = Notify(ok)].left = tx.left
  BY DEF IInv, TypeOK, TxType
<1>4. resets' = resets /\ resets \in Nat /\ resets <= MaxResets /\ MaxResets \in Nat
  BY <1>1, SendAssumption DEF Completes, bounds, IInv, TypeOK, SndInv, SenderInv, SendAssumption
<1>5. Len(tml) <= resets + (IF sendState = "send" /\ ~failedEntry THEN 1 ELSE 0)
  BY DEF SndInv, QueueInv
<1>6. sendState # "idle" =>
        /\ tx.trans \in Trans
        /\ resets > 0 => ~tx.trans.data
        /\ tx.trans.only => tx.notify
        /\ tx.notify => tx.trans.only \/ tx.trans \in writeFailed
        /\ tx.left <= tx.trans.segs
  BY DEF SndInv, SenderInv, IInv, SenderHasTrans
<1>7. sendState # "idle" =>
        /\ tx.trans.only => Notify(ok)
        /\ Notify(ok) => tx.trans.only \/ tx.trans \in writeFailed'
  BY <1>1, <1>6, TransFacts DEF Notify, Completes
<1>8. sendState = "send" /\ failedEntry /\ resets > 0 => resets = 1
  <2>1. sendState = "send" /\ failedEntry /\ resets > 0 => MaxResets <= 1
    BY DEF SndInv, SenderInv, Refusals
  <2> QED  BY <1>4, <2>1
<1>9. CASE CompleteIgnored(ok)
  <2>1. /\ sendState # "send" /\ sendState' = sendState /\ tml' = Tail(tml)
        /\ tx' = [tx EXCEPT !.notify = Notify(ok)] /\ failedEntry' = failedEntry
    BY <1>9 DEF CompleteIgnored
  <2>2. sendState = "idle"
    BY <1>2, <2>1 DEF SndInv, QueueInv, IInv, TypeOK
  <2>3. Len(tml') <= resets'
    BY <1>2, <1>4, <1>5, <2>1
  <2> QED  BY <1>4, <2>1, <2>2, <2>3 DEF SenderInv, QueueInv
<1>10. CASE SendToIdle(ok)
  <2>1. sendState' = "idle" /\ sendState = "send" /\ tml' = Tail(tml)
    BY <1>10 DEF SendToIdle
  <2>2. Len(tml') <= resets'
    BY <1>2, <1>4, <1>5, <2>1
  <2> QED  BY <1>4, <2>1, <2>2 DEF SenderInv, QueueInv
<1>11. CASE SendToSend(ok)
  <2>1. PICK w \in WriteResults :
          /\ CoreSendEntry(tx.trans, tx.left, Notify(ok), tx.timed, w, credits)
          /\ tml' = Tail(ToTml(tx.trans, w, credits))
    BY <1>11 DEF SendToSend
  <2>2. /\ sendState' = "send" /\ (failedEntry' <=> ~CanSend(tx.trans, w, credits))
        /\ tx'.trans = tx.trans /\ tx'.notify = Notify(ok)
        /\ tx'.left = IF CanSend(tx.trans, w, credits) THEN Remains(tx.left) ELSE tx.left
    BY <2>1, EntryFields
  <2>3. sendState = "send" /\ credits[tx.trans.conn] > 0 /\ tx.left \in Nat /\ tx.left > 0
    BY <1>11 DEF SendToSend, IInv, TypeOK, TxType
  <2>4. ~CanSend(tx.trans, w, credits) => FALSE \in WriteResults
    <3>1. ~CanSend(tx.trans, w, credits) => ~w
      BY <2>3 DEF CanSend
    <3> QED  BY <2>1, <3>1, SendAssumption DEF SendAssumption
  <2>5. /\ tx.trans.segs = 1 /\ CanSend(tx.trans, w, credits) => tx'.left = 0
        /\ tx'.left <= tx.trans.segs
    <3>1. tx.trans.segs \in Nat /\ tx.left <= tx.trans.segs
      BY <1>6, <2>3, TransFacts
    <3> QED  BY <2>2, <2>3, <3>1 DEF Remains
  <2>6. SenderInv'
    BY <1>4, <1>6, <1>7, <2>2, <2>3, <2>4, <2>5 DEF SenderInv
  <2>7. Len(tml') <= resets' + (IF failedEntry' THEN 0 ELSE 1)
    <3>1. CASE CanSend(tx.trans, w, credits)
      <4>1. tml' = Tail(Append(tml, tx.trans)) /\ tx.trans \in Trans
        BY <1>6, <2>1, <2>3, <3>1 DEF ToTml
      <4>2. Append(tml, tx.trans) \in Seq(Trans) /\ Append(tml, tx.trans) # <<>>
        BY <1>2, <4>1, SeqFacts
      <4>3. Len(tml') = Len(tml)
        BY <1>2, <4>1, <4>2, Lengths
      <4>4. Len(tml') <= resets' + 1
        BY <1>2, <1>4, <1>5, <4>3
      <4> QED  BY <2>2, <3>1, <4>4
    <3>2. CASE ~CanSend(tx.trans, w, credits)
      <4>1. Len(tml') = Len(tml) - 1
        BY <1>2, <2>1, <3>2 DEF ToTml
      <4> QED  BY <1>2, <1>4, <1>5, <2>2, <3>2, <4>1
    <3> QED  BY <3>1, <3>2
  <2> QED  BY <2>2, <2>6, <2>7 DEF QueueInv
<1>12. CASE SendToWaitCredit(ok)
  <2>1. /\ sendState' = "waitCredit" /\ failedEntry' = FALSE /\ tml' = Tail(tml)
        /\ tx' = [tx EXCEPT !.notify = Notify(ok)] /\ sendState = "send"
        /\ tx.left > 0
    BY <1>12 DEF SendToWaitCredit
  <2>2. SenderInv'
    BY <1>3, <1>4, <1>6, <1>7, <2>1 DEF SenderInv
  <2>3. Len(tml') <= 0
    <3>1. CASE failedEntry
      BY <1>2, <1>4, <1>5, <1>8, <2>1, <3>1
    <3>2. CASE ~failedEntry
      <4>1. tx.trans \in Trans /\ tx.trans.segs # 1
        BY <1>6, <2>1, <3>2 DEF SndInv, SenderInv
      <4>2. tx.trans.data
        BY <4>1, SendAssumption DEF SendAssumption
      <4>3. resets = 0
        BY <1>4, <1>6, <2>1, <4>2
      <4> QED  BY <1>2, <1>5, <2>1, <4>3
    <3> QED  BY <3>1, <3>2
  <2>4. tml' \in Seq(Trans)
    BY <1>1, <2>1, CompletesType
  <2>5. tml' = <<>>
    BY <2>3, <2>4, Lengths
  <2> QED  BY <1>4, <2>1, <2>2, <2>3, <2>5 DEF QueueInv
<1> QED  BY <1>9, <1>10, <1>11, <1>12 DEF SendComplete

LEMMA CreditSnd ==
  ASSUME IInv, SndInv, NEW cr \in [Conns -> 0 .. 255], sendState = "waitCredit",
         WaitCreditToSend(cr), resets' = resets, writeFailed' = writeFailed
  PROVE  (SenderInv /\ QueueInv)'
<1>1. PICK ok \in WriteResults :
        /\ CoreSendEntry(tx.trans, tx.left, tx.notify, tx.timed, ok, cr)
        /\ tml' = ToTml(tx.trans, ok, cr)
  BY DEF WaitCreditToSend
<1>2. /\ sendState' = "send" /\ (failedEntry' <=> ~CanSend(tx.trans, ok, cr))
      /\ tx'.trans = tx.trans /\ tx'.notify = tx.notify
      /\ tx'.left = IF CanSend(tx.trans, ok, cr) THEN Remains(tx.left) ELSE tx.left
  BY <1>1, EntryFields
<1>3. /\ tx.trans \in Trans /\ tx.left \in Nat /\ tx.trans.segs \in Nat /\ tx.left <= tx.trans.segs
      /\ resets > 0 => ~tx.trans.data
      /\ tx.trans.only => tx.notify
      /\ tx.notify => tx.trans.only \/ tx.trans \in writeFailed
      /\ resets <= MaxResets
  BY TransFacts DEF SndInv, SenderInv, IInv, SenderHasTrans, TypeOK, TxType
<1>4. resets > 0 /\ ~CanSend(tx.trans, ok, cr) => FALSE \in WriteResults
  BY <1>1, <1>3, SendAssumption DEF CanSend, SendAssumption
<1>5. /\ tx.trans.segs = 1 /\ CanSend(tx.trans, ok, cr) => tx'.left = 0
      /\ tx'.left <= tx.trans.segs
  BY <1>2, <1>3 DEF Remains
<1>6. SenderInv'
  BY <1>2, <1>3, <1>4, <1>5 DEF SenderInv
<1> QED  BY <1>1, <1>3, <1>6, EntryQueue

LEMMA SndStep ==
  ASSUME Refusals, IInv, SndInv, [Next]_vars
  PROVE  SndInv'
<1>0. RegsInv' /\ tml \in Seq(Trans) /\ resets \in Nat /\ IInv' /\ writeFailed \subseteq writeFailed'
  BY RegsStep, StepType, Grows DEF SndInv, IInv, TypeOK
<1>1. ASSUME UNCHANGED <<sendState, failedEntry, tml, resets>>,
             UNCHANGED tx \/ tx' = [tx EXCEPT !.left = 0, !.timed = FALSE]
      PROVE  SndInv'
  <2>1. /\ tx'.trans = tx.trans /\ tx'.notify = tx.notify
        /\ tx'.left = tx.left \/ tx'.left = 0
    BY <1>1 DEF IInv, TypeOK, TxType
  <2>2. sendState # "idle" => tx.trans.segs \in Nat
    BY TransFacts DEF IInv, SenderHasTrans
  <2>3. /\ sendState # "idle" => tx'.left <= tx'.trans.segs
        /\ sendState = "send" /\ ~failedEntry /\ tx'.trans.segs = 1 => tx'.left = 0
    <3>1. /\ sendState # "idle" => tx.left <= tx.trans.segs
          /\ sendState = "send" /\ ~failedEntry /\ tx.trans.segs = 1 => tx.left = 0
      BY DEF SndInv, SenderInv
    <3>2. CASE tx'.left = tx.left
      BY <2>1, <3>1, <3>2
    <3>3. CASE tx'.left = 0
      BY <2>1, <2>2, <3>3
    <3> QED  BY <2>1, <3>2, <3>3
  <2>4. SenderInv'
    BY <1>0, <1>1, <2>1, <2>3 DEF SndInv, SenderInv
  <2> QED  BY <1>0, <1>1, <2>4 DEF SndInv, QueueInv
<1>3. ASSUME NEW t \in Trans, TxToSend(t)
      PROVE  SndInv'
  BY <1>0, <1>3, TxToSendSnd DEF SndInv
<1>4. ASSUME NEW t \in Trans, TxToWaitCredit(t)
      PROVE  SndInv'
  <2>1. /\ sendState = "idle" /\ sendState' = "waitCredit" /\ t.data /\ resets = 0
        /\ tx' = [trans |-> t, left |-> t.segs, notify |-> t.only, timed |-> ~t.only]
        /\ UNCHANGED <<tml, resets>>
    BY <1>4 DEF TxToWaitCredit, NeedsCredit, MayIssue, wire, bounds
  <2>2. SenderInv'
    BY <2>1, TransFacts DEF SndInv, SenderInv
  <2>3. tml = <<>>
    BY <1>0, <2>1, Lengths DEF SndInv, QueueInv
  <2>4. Len(tml) <= resets
    BY <1>0, <2>1, <2>3, Lengths
  <2> QED  BY <1>0, <2>1, <2>2, <2>3, <2>4 DEF SndInv, QueueInv
<1>5. ASSUME NEW ok \in BOOLEAN, SendComplete(ok)
      PROVE  SndInv'
  BY <1>0, <1>5, CompleteSnd DEF SndInv
<1>6. ASSUME WaitCreditToIdle, sendState = "waitCredit", UNCHANGED resets
      PROVE  SndInv'
  <2>1. sendState' = "idle" /\ tml' = tml /\ Len(tml) <= resets
    BY <1>0, <1>6 DEF WaitCreditToIdle, SndInv, QueueInv
  <2> QED  BY <1>0, <1>6, <2>1 DEF SndInv, SenderInv, QueueInv
<1>7. CASE CreditTimeout
  <2>1. UNCHANGED resets
    BY <1>7 DEF CreditTimeout, bounds
  <2> QED  BY <1>1, <1>6, <1>7, <2>1 DEF CreditTimeout, sender
<1>8. ASSUME NEW entries \in CreditLists, CreditNtf(entries)
      PROVE  SndInv'
  <2>1. UNCHANGED <<resets, writeFailed>>
    BY <1>8 DEF CreditNtf, bounds
  <2>2. PICK cr : cr = [credits EXCEPT ![entries[1].conn] = CreditsAfter(entries)]
    OBVIOUS
  <2>3. \/ sendState = "waitCredit" /\ WaitCreditToSend(cr)
        \/ sendState = "waitCredit" /\ WaitCreditToIdle
        \/ UNCHANGED <<sender, tml>>
    BY <1>8, <2>2 DEF CreditNtf
  <2>4. cr \in [Conns -> 0 .. 255]
    BY <1>8, <2>2, CreditNtfCases
  <2>5. CASE sendState = "waitCredit" /\ WaitCreditToSend(cr)
    BY <1>0, <2>1, <2>4, <2>5, CreditSnd DEF SndInv
  <2> QED  BY <1>1, <1>6, <2>1, <2>3, <2>5 DEF sender
<1>9. CASE ResetNtf \/ Release
  <2>1. /\ sendState' = "idle" /\ resets < MaxResets /\ resets' = resets + 1
        /\ tml' = tml \/ \E k \in 1 .. Len(tml) : tml' = SubSeq(tml, 1, k)
    BY <1>9 DEF ResetNtf, Release, ResetSender
  <2>2. Len(tml') <= Len(tml) /\ Len(tml) \in Nat /\ Len(tml) <= resets + 1
    <3>1. Len(tml) \in Nat /\ Len(tml) <= resets + 1
      BY <1>0, Lengths DEF SndInv, QueueInv
    <3>2. Len(tml') <= Len(tml)
      BY <1>0, <2>1, <3>1, Lengths
    <3> QED  BY <3>1, <3>2
  <2>3. Len(tml') <= resets' /\ resets' <= MaxResets
    <3>1. Len(tml') \in Nat /\ MaxResets \in Nat
      BY <1>0, Lengths, SendAssumption DEF IInv, TypeOK, SendAssumption
    <3> QED  BY <1>0, <2>1, <2>2, <3>1
  <2> QED  BY <1>0, <2>1, <2>3 DEF SndInv, SenderInv, QueueInv
<1>10. ASSUME NEW c \in Conns, DataPacket(c) \/ InterfaceErr(c)
       PROVE  SndInv'
  <2>1. UNCHANGED <<sendState, failedEntry, tml, resets>>
        /\ (UNCHANGED tx \/ tx' = [tx EXCEPT !.left = 0, !.timed = FALSE])
    BY <1>10 DEF DataPacket, InterfaceErr, DataCallback, wire
  <2> QED  BY <1>1, <2>1
<1>11. ASSUME NEW t \in Trans, Response(t)
       PROVE  SndInv'
  BY <1>1, <1>11 DEF Response, sender, wire, bounds
<1>12. CASE Arrive \/ RspTimerFires \/ RspTimeOut \/ DeRegDataCb \/ UNCHANGED vars
  <2>1. UNCHANGED <<sendState, failedEntry, tml, resets, tx>>
    BY <1>12 DEF Arrive, RspTimerFires, RspTimeOut, DeRegDataCb, vars, sender, wire, bounds
  <2> QED  BY <1>1, <2>1
<1> QED  BY <1>3, <1>4, <1>5, <1>7, <1>8, <1>9, <1>10, <1>11, <1>12 DEF Next

(* A step that calls t not, and after which nothing may call it that might not before *)
LEMMA OnceFrame ==
  ASSUME NEW t \in Trans, Once(t), calls'[t] = calls[t],
         Registered(t)' => Registered(t), Coming(t)' => Coming(t),
         \A i \in Slots : dataRegs'[i] = t => dataRegs[i] = t
  PROVE  Once(t)'
  BY DEF Once

(* A step that calls t, which was registered or to be called by the sender, and no longer is *)
LEMMA OnceCalled ==
  ASSUME TypeOK, NEW t \in Trans, Once(t), calls'[t] = calls[t] + 1, Registered(t) \/ Coming(t),
         ~Registered(t)', ~Coming(t)'
  PROVE  Once(t)'
<1>1. calls[t] \in Nat /\ calls[t] # 1 /\ calls[t] <= 1
  BY DEF TypeOK, Once
<1>2. calls'[t] = 1
  BY <1>1
<1>3. \A i \in Slots : dataRegs'[i] # t
  BY DEF Registered
<1> QED  BY <1>2, <1>3 DEF Once

LEMMA CallsOf ==
  ASSUME TypeOK, NEW x, Callback(x), NEW t \in Trans
  PROVE  calls'[t] = IF t = x THEN calls[t] + 1 ELSE calls[t]
<1>1. t # NoTrans
  BY TransFacts
<1>2. CASE x = NoTrans
  BY <1>1, <1>2 DEF Callback
<1>3. CASE x # NoTrans
  BY <1>3 DEF Callback, TypeOK
<1> QED  BY <1>2, <1>3

(* The response slot or an entry of the data list is called: the packets of the receiver *)
LEMMA RspCalled ==
  ASSUME IInv, SndInv, NEW t \in Trans, Once(t), Coming(t)' => Coming(t),
         dataRegs' = dataRegs,
         \/ Callback(rspReg) /\ rspReg' = NoTrans
         \/ UNCHANGED <<calls, rspReg>>
  PROVE  Once(t)'
<1>1. CASE UNCHANGED <<calls, rspReg>>
  BY <1>1, OnceFrame DEF Registered
<1>2. CASE Callback(rspReg) /\ rspReg' = NoTrans
  <2>1. calls'[t] = IF t = rspReg THEN calls[t] + 1 ELSE calls[t]
    BY <1>2, CallsOf DEF IInv
  <2>2. CASE t # rspReg
    BY <1>2, <2>1, <2>2, TransFacts, OnceFrame DEF Registered
  <2>3. CASE t = rspReg
    <3>1. Registered(t) /\ ~Coming(t)
      BY <2>3 DEF Registered, Once
    <3>2. \A i \in Slots : dataRegs[i] # t
      BY <2>3, TransFacts DEF SndInv, RegsInv
    <3>3. ~Registered(t)'
      BY <1>2, <3>2, TransFacts DEF Registered
    <3> QED  BY <2>1, <2>3, <3>1, <3>3, OnceCalled DEF IInv
  <2> QED  BY <2>2, <2>3
<1> QED  BY <1>1, <1>2

LEMMA DataCalled ==
  ASSUME IInv, SndInv, NEW t \in Trans, Once(t), Coming(t)' => Coming(t), NEW c,
         rspReg' = rspReg, dataRegs' = WithoutFirst(dataRegs, c),
         Callback(IF EntriesOf(dataRegs, c) = {} THEN NoTrans
                  ELSE dataRegs[Lowest(EntriesOf(dataRegs, c))])
  PROVE  Once(t)'
<1>0. TypeOK /\ dataRegs \in [Slots -> Entries] /\ t # NoTrans
  BY TransFacts DEF IInv, TypeOK
<1>1. CASE EntriesOf(dataRegs, c) = {}
  <2>1. Callback(NoTrans) /\ dataRegs' = dataRegs
    BY <1>1 DEF WithoutFirst
  <2>2. calls' = calls
    BY <2>1 DEF Callback
  <2> QED  BY <2>1, <2>2, OnceFrame DEF Registered
<1>2. CASE EntriesOf(dataRegs, c) # {}
  <2>1. PICK k \in Slots :
          /\ k = Lowest(EntriesOf(dataRegs, c)) /\ dataRegs[k] \in Trans
          /\ \A i \in Slots : WithoutFirst(dataRegs, c)[i] = IF i = k THEN NoTrans ELSE dataRegs[i]
    BY <1>0, <1>2, FirstEntry
  <2>2. calls'[t] = IF t = dataRegs[k] THEN calls[t] + 1 ELSE calls[t]
    <3>1. Callback(dataRegs[k])
      BY <1>2, <2>1
    <3> QED  BY <1>0, <3>1, CallsOf
  <2>3. \A i \in Slots : dataRegs'[i] = IF i = k THEN NoTrans ELSE dataRegs[i]
    BY <2>1
  <2>4. CASE t # dataRegs[k]
    BY <1>0, <2>2, <2>3, <2>4, OnceFrame DEF Registered
  <2>5. CASE t = dataRegs[k]
    <3>1. Registered(t) /\ ~Coming(t)
      BY <2>5 DEF Registered, Once
    <3>2. \A i \in Slots : i # k => dataRegs[i] # t
      BY <2>5 DEF Once
    <3>3. rspReg # t
      BY <1>0, <2>5 DEF SndInv, RegsInv
    <3>4. ~Registered(t)'
      BY <1>0, <2>3, <3>2, <3>3 DEF Registered
    <3> QED  BY <1>0, <2>2, <2>5, <3>1, <3>4, OnceCalled
  <2> QED  BY <2>4, <2>5
<1> QED  BY <1>1, <1>2

LEMMA OnceTxToSend ==
  ASSUME IInv, SndInv, NEW u \in Trans, TxToSend(u), NEW t \in Trans, Plain(t), Once(t)
  PROVE  Once(t)'
<1>0. TypeOK /\ dataRegs \in [Slots -> Entries] /\ t # NoTrans /\ u # NoTrans
  BY TransFacts DEF IInv, TypeOK
<1>1. PICK ok \in WriteResults :
        /\ CoreSendEntry(u, u.segs, u.only, ~u.only, ok, credits)
        /\ tml' = ToTml(u, ok, credits)
        /\ \/ u.only /\ UNCHANGED <<regs, timer>>
           \/ ~u.only /\ ok /\ rspReg' = RspRegAfter(u) /\ dataRegs' = DataRegsAfter(u)
           \/ /\ ~u.only /\ ~ok
              /\ rspReg' = IF u.data THEN rspReg ELSE NoTrans
              /\ dataRegs' = IF u.data THEN WithoutFirst(DataRegsAfter(u), u.conn) ELSE dataRegs
  BY DEF TxToSend
<1>2. /\ sendState = "idle" /\ u \notin issued /\ calls' = calls /\ ~NeedsCredit(u)
      /\ u.data => resets = 0
      /\ sendState' = "send" /\ (failedEntry' <=> ~CanSend(u, ok, credits))
      /\ tx'.trans = u /\ tx'.notify = u.only
  BY <1>1, EntryFields DEF TxToSend, MayIssue
<1>3. ASSUME NEW i \in Slots
      PROVE  dataRegs'[i] \in {dataRegs[i], NoTrans} \/ (dataRegs'[i] = u /\ u.data /\ ~u.only)
  <2>1. DataRegsAfter(u)[i] = dataRegs[i] \/ (u.data /\ DataRegsAfter(u)[i] = u)
    BY <1>0, OneSlot
  <2>2. WithoutFirst(DataRegsAfter(u), u.conn)[i] \in {DataRegsAfter(u)[i], NoTrans}
    BY <1>0, RegistersType, Shrinks
  <2> QED  BY <1>1, <2>1, <2>2 DEF regs
<1>4. rspReg' \in {rspReg, NoTrans} \/ (rspReg' = u /\ ~u.data /\ ok)
  BY <1>1 DEF RspRegAfter, regs
<1>5. CASE t # u
  <2>1. Registered(t)' => Registered(t)
    BY <1>0, <1>3, <1>4, <1>5 DEF Registered
  <2>2. ~Coming(t)'
    BY <1>2, <1>5 DEF Coming
  <2> QED  BY <1>0, <1>2, <1>3, <1>5, <2>1, <2>2, OnceFrame
<1>6. CASE t = u
  <2>1. calls[t] = 0 /\ rspReg # t /\ \A i \in Slots : dataRegs[i] # t
    BY <1>0, <1>2, <1>6 DEF SndInv, RegsInv
  <2>2. calls'[t] = 0
    BY <1>2, <2>1
  <2>3. \A i, j \in Slots : dataRegs'[i] = t /\ dataRegs'[j] = t => i = j
    <3>1. ASSUME NEW i \in Slots, NEW j \in Slots, dataRegs'[i] = t, dataRegs'[j] = t
          PROVE  i = j
      <4>1. dataRegs' = DataRegsAfter(u) \/ dataRegs' = WithoutFirst(DataRegsAfter(u), u.conn)
        BY <1>1, <2>1, <3>1 DEF regs
      <4>2. /\ WithoutFirst(DataRegsAfter(u), u.conn)[i] \in {DataRegsAfter(u)[i], NoTrans}
            /\ WithoutFirst(DataRegsAfter(u), u.conn)[j] \in {DataRegsAfter(u)[j], NoTrans}
        BY <1>0, RegistersType, Shrinks
      <4>3. DataRegsAfter(u)[i] = t /\ DataRegsAfter(u)[j] = t
        BY <1>0, <3>1, <4>1, <4>2
      <4> QED  BY <1>0, <2>1, <4>3, OneSlot
    <3> QED  BY <3>1
  <2>4. ~(Registered(t)' /\ Coming(t)')
    <3>1. ASSUME Registered(t)', Coming(t)'
          PROVE  FALSE
      <4>1. ~u.only
        BY <1>1, <2>1, <3>1, <1>6 DEF Registered, regs
      <4>2. ~CanSend(u, ok, credits) /\ tml' # <<>>
        BY <1>2, <3>1, <4>1 DEF Coming
      <4>3. ~ok
        <5>1. u.conn \in Conns /\ credits \in [Conns -> 0 .. 255]
          BY <1>0, TransFacts DEF TypeOK
        <5>2. credits[u.conn] \in Nat
          BY <5>1
        <5>3. u.data => credits[u.conn] > 0
          BY <1>2, <5>2 DEF NeedsCredit
        <5> QED  BY <4>2, <5>3 DEF CanSend
      <4>4. ASSUME ~u.data
            PROVE  FALSE
        <5>1. rspReg' = NoTrans /\ dataRegs' = dataRegs
          BY <1>1, <4>1, <4>3, <4>4
        <5>2. rspReg' # t
          BY <1>0, <5>1
        <5>3. \A k \in Slots : dataRegs'[k] # t
          BY <2>1, <5>1
        <5> QED  BY <3>1, <5>2, <5>3 DEF Registered
      <4>5. tml = <<>>
        <5>1. Len(tml) <= 0 /\ tml \in Seq(Trans)
          BY <1>0, <1>2, <4>4 DEF SndInv, QueueInv, TypeOK
        <5> QED  BY <5>1, Lengths
      <4> QED  BY <1>1, <4>2, <4>5 DEF ToTml
    <3> QED  BY <3>1
  <2> QED  BY <2>2, <2>3, <2>4 DEF Once
<1> QED  BY <1>5, <1>6

LEMMA OnceComplete ==
  ASSUME IInv, SndInv, NEW ok \in BOOLEAN, SendComplete(ok),
         NEW t \in Trans, Plain(t), Plain(t)', Once(t)
  PROVE  Once(t)'
<1>0. TypeOK /\ t # NoTrans /\ tx \in TxType
  BY TransFacts DEF IInv, TypeOK
<1>1. Completes(ok)
  BY DEF SendComplete, CompleteIgnored, SendToIdle, SendToSend, SendToWaitCredit
<1>2. /\ UNCHANGED <<rspReg, dataRegs>> /\ tml # <<>>
      /\ [tx EXCEPT !.notify = Notify(ok)].trans = tx.trans
  BY <1>1, CompletesType
<1>3. tx.trans = t => ok /\ Notify(ok) = tx.notify
  <2>1. tx.trans = t => ok
    BY <1>0, <1>1 DEF Completes, Plain
  <2>2. ok => Notify(ok) = tx.notify
    BY <1>0 DEF Notify, TxType
  <2> QED  BY <2>1, <2>2
<1>4. Registered(t)' => Registered(t)
  BY <1>2 DEF Registered
<1>5. ASSUME calls' = calls, Coming(t)' => Coming(t)
      PROVE  Once(t)'
  BY <1>2, <1>4, <1>5, OnceFrame
(* In Send with more to send, a plain transaction is to be called. *)
<1>6. ASSUME sendState = "send", tx.left > 0, tx.trans = t
      PROVE  Coming(t)
  <2>1. CASE failedEntry
    BY <1>2, <1>6, <2>1 DEF Coming
  <2>2. CASE ~failedEntry
    <3>1. t.segs \in Nat \ {0} /\ t.segs # 1 /\ (t.only => tx.notify)
      BY <1>6, <2>2, TransFacts DEF SndInv, SenderInv
    <3>2. t.segs > 1
      BY <3>1
    <3>3. t.data
      BY <3>1, SendAssumption DEF SendAssumption
    <3>4. tx.notify
      BY <3>1, <3>2, <3>3, TransFacts DEF Plain
    <3> QED  BY <1>6, <3>4 DEF Coming
  <2> QED  BY <2>1, <2>2
<1>7. CASE CompleteIgnored(ok)
  <2>1. /\ sendState # "send" /\ sendState' = sendState /\ tx'.trans = tx.trans /\ calls' = calls
    BY <1>2, <1>7 DEF CompleteIgnored
  <2> QED  BY <1>5, <2>1 DEF Coming
<1>8. CASE SendToIdle(ok)
  <2>1. /\ sendState = "send" /\ sendState' = "idle"
        /\ IF Notify(ok) THEN Callback(tx.trans) ELSE calls' = calls
    BY <1>8 DEF SendToIdle
  <2>2. ~Coming(t)'
    BY <2>1 DEF Coming
  <2>3. CASE Notify(ok) /\ tx.trans = t
    <3>1. Coming(t)
      BY <1>3, <2>1, <2>3 DEF Coming
    <3>2. calls'[t] = calls[t] + 1
      BY <1>0, <2>1, <2>3, CallsOf
    <3>3. ~Registered(t)'
      BY <1>4, <3>1 DEF Once
    <3> QED  BY <1>0, <2>2, <3>1, <3>2, <3>3, OnceCalled
  <2>4. CASE ~(Notify(ok) /\ tx.trans = t)
    <3>1. calls'[t] = calls[t]
      BY <1>0, <2>1, <2>4, CallsOf
    <3> QED  BY <1>2, <1>4, <2>2, <3>1, OnceFrame
  <2> QED  BY <2>3, <2>4
<1>9. CASE SendToSend(ok)
  <2>1. PICK w \in WriteResults : CoreSendEntry(tx.trans, tx.left, Notify(ok), tx.timed, w, credits)
    BY <1>9 DEF SendToSend
  <2>2. tx'.trans = tx.trans /\ sendState = "send" /\ tx.left > 0 /\ calls' = calls
    BY <1>9, <2>1, EntryFields DEF SendToSend
  <2>3. Coming(t)' => Coming(t)
    BY <1>6, <2>2 DEF Coming
  <2> QED  BY <1>5, <2>2, <2>3
<1>10. CASE SendToWaitCredit(ok)
  <2>1. tx'.trans = tx.trans /\ sendState = "send" /\ tx.left > 0 /\ calls' = calls
    BY <1>2, <1>10 DEF SendToWaitCredit
  <2>2. Coming(t)' => Coming(t)
    BY <1>6, <2>1 DEF Coming
  <2> QED  BY <1>5, <2>1, <2>2
<1> QED  BY <1>7, <1>8, <1>9, <1>10 DEF SendComplete

LEMMA OnceToIdle ==
  ASSUME IInv, SndInv, sendState = "waitCredit", WaitCreditToIdle, NEW t \in Trans, Once(t)
  PROVE  Once(t)'
<1>1. TypeOK /\ UNCHANGED <<rspReg, dataRegs>> /\ sendState' = "idle" /\ Callback(tx.trans)
  BY DEF WaitCreditToIdle, regs, IInv
<1>2. ~Coming(t)' /\ (Registered(t)' <=> Registered(t))
  BY <1>1 DEF Coming, Registered
<1>3. CASE tx.trans = t
  <2>1. Coming(t) /\ ~Registered(t)
    BY <1>3 DEF Coming, Once
  <2>2. calls'[t] = calls[t] + 1
    BY <1>1, <1>3, CallsOf
  <2> QED  BY <1>1, <1>2, <2>1, <2>2, OnceCalled
<1>4. CASE tx.trans # t
  <2>1. calls'[t] = calls[t]
    BY <1>1, <1>4, CallsOf
  <2> QED  BY <1>1, <1>2, <2>1, OnceFrame
<1> QED  BY <1>3, <1>4

LEMMA OnceToSend ==
  ASSUME IInv, SndInv, NEW cr, sendState = "waitCredit", WaitCreditToSend(cr),
         NEW t \in Trans, Once(t)
  PROVE  Once(t)'
<1>0. TypeOK /\ dataRegs \in [Slots -> Entries] /\ tx.trans \in Trans /\ t # NoTrans
  BY TransFacts DEF IInv, TypeOK, SenderHasTrans
<1>1. PICK ok \in WriteResults :
        /\ CoreSendEntry(tx.trans, tx.left, tx.notify, tx.timed, ok, cr)
        /\ tml' = ToTml(tx.trans, ok, cr)
  BY DEF WaitCreditToSend
<1>2. /\ tx'.trans = tx.trans /\ tx'.notify = tx.notify /\ calls' = calls /\ tml = <<>>
      /\ sendState' = "send" /\ (failedEntry' <=> ~CanSend(tx.trans, ok, cr))
  BY <1>1, EntryFields DEF WaitCreditToSend, SndInv, QueueInv
<1>3. \/ tx.notify /\ UNCHANGED <<rspReg, dataRegs>>
      \/ ~tx.notify /\ rspReg' = RspRegAfter(tx.trans) /\ dataRegs' = DataRegsAfter(tx.trans)
  BY DEF WaitCreditToSend, regs
<1>4. CASE tx.trans # t
  <2>1. Registered(t)' => Registered(t)
    BY <1>0, <1>3, <1>4, OneSlot DEF Registered
  <2>2. \A i \in Slots : dataRegs'[i] = t => dataRegs[i] = t
    BY <1>0, <1>3, <1>4, OneSlot
  <2>3. ~Coming(t)'
    BY <1>2, <1>4 DEF Coming
  <2> QED  BY <1>2, <2>1, <2>2, <2>3, OnceFrame
<1>5. CASE tx.trans = t
  <2>1. Coming(t)
    BY <1>5 DEF Coming
  <2>2. ~Registered(t) /\ calls[t] <= 1 /\ calls[t] # 1
    BY <2>1 DEF Once
  <2>3. calls'[t] <= 1 /\ calls'[t] # 1
    BY <1>2, <2>2
  <2>4. ~(Registered(t)' /\ Coming(t)')
    <3>1. CASE tx.notify
      BY <1>3, <2>2, <3>1 DEF Registered
    <3>2. CASE ~tx.notify
      <4>1. ~CanSend(tx.trans, ok, cr) => tml' = <<>>
        BY <1>1, <1>2 DEF ToTml
      <4> QED  BY <1>2, <3>2, <4>1 DEF Coming
    <3> QED  BY <3>1, <3>2
  <2>5. \A i, j \in Slots : dataRegs'[i] = t /\ dataRegs'[j] = t => i = j
    <3>1. \A i \in Slots : dataRegs[i] # t
      BY <2>2 DEF Registered
    <3> QED  BY <1>0, <1>3, <3>1, OneSlot
  <2> QED  BY <2>3, <2>4, <2>5 DEF Once
<1> QED  BY <1>4, <1>5

LEMMA OnceStep ==
  ASSUME IInv, SndInv, OnceInv, [Next]_vars
  PROVE  OnceInv'
<1> SUFFICES ASSUME NEW t \in Trans, Plain(t)'
             PROVE  Once(t)'
  BY DEF OnceInv
<1>0. Plain(t) /\ Once(t) /\ TypeOK /\ t # NoTrans
  BY Grows, TransFacts DEF Plain, OnceInv, IInv
<1>1. ASSUME UNCHANGED <<calls, rspReg, dataRegs>>, Coming(t)' => Coming(t)
      PROVE  Once(t)'
  BY <1>0, <1>1, OnceFrame DEF Registered
<1>2. ASSUME UNCHANGED <<sendState, failedEntry, tml>>, tx'.trans = tx.trans, tx'.notify = tx.notify
      PROVE  Coming(t)' => Coming(t)
  BY <1>2 DEF Coming
<1>3. ASSUME NEW u \in Trans, TxToSend(u)
      PROVE  Once(t)'
  BY <1>0, <1>3, OnceTxToSend
<1>4. ASSUME NEW u \in Trans, TxToWaitCredit(u)
      PROVE  Once(t)'
  <2>1. /\ tx'.trans = u /\ u \notin issued /\ UNCHANGED <<calls, rspReg, dataRegs>>
    BY <1>4 DEF TxToWaitCredit, MayIssue, regs
  <2>2. CASE t # u
    <3>1. ~Coming(t)'
      BY <2>1, <2>2 DEF Coming
    <3> QED  BY <1>1, <2>1, <3>1
  <2>3. CASE t = u
    <3>1. calls[t] = 0 /\ ~Registered(t)
      BY <1>0, <2>1, <2>3 DEF SndInv, RegsInv, Registered
    <3>2. calls'[t] = 0 /\ ~Registered(t)'
      BY <2>1, <3>1 DEF Registered
    <3>3. \A i \in Slots : dataRegs'[i] # t
      BY <3>2 DEF Registered
    <3> QED  BY <3>2, <3>3 DEF Once
  <2> QED  BY <2>2, <2>3
<1>5. ASSUME NEW ok \in BOOLEAN, SendComplete(ok)
      PROVE  Once(t)'
  BY <1>0, <1>5, OnceComplete
<1>6. CASE CreditTimeout
  <2>1. CASE sendState = "waitCredit" /\ WaitCreditToIdle
    BY <1>0, <2>1, OnceToIdle
  <2>2. CASE UNCHANGED <<sender, tml, regs, timer, calls, pending>>
    BY <1>1, <1>2, <2>2 DEF sender, regs
  <2> QED  BY <1>6, <2>1, <2>2 DEF CreditTimeout
<1>7. ASSUME NEW entries \in CreditLists, CreditNtf(entries)
      PROVE  Once(t)'
  <2>1. PICK cr : cr = [credits EXCEPT ![entries[1].conn] = CreditsAfter(entries)]
    OBVIOUS
  <2>2. \/ sendState = "waitCredit" /\ WaitCreditToSend(cr)
        \/ sendState = "waitCredit" /\ WaitCreditToIdle
        \/ UNCHANGED <<sender, tml, regs, calls>>
    BY <1>7, <2>1 DEF CreditNtf
  <2>3. CASE UNCHANGED <<sender, tml, regs, calls>>
    BY <1>1, <1>2, <2>3 DEF sender, regs
  <2> QED  BY <1>0, <2>2, <2>3, OnceToIdle, OnceToSend
<1>8. ASSUME NEW u \in Trans, Response(u)
      PROVE  Once(t)'
  <2>1. Coming(t)' => Coming(t)
    BY <1>2, <1>8 DEF Response, sender, wire
  <2>2. /\ dataRegs' = dataRegs
        /\ (Callback(rspReg) /\ rspReg' = NoTrans) \/ UNCHANGED <<calls, rspReg>>
    BY <1>8 DEF Response
  <2> QED  BY <1>0, <2>1, <2>2, RspCalled
<1>9. ASSUME NEW c \in Conns, DataPacket(c) \/ InterfaceErr(c)
      PROVE  Once(t)'
  <2>1. /\ DataCallback(c) /\ tx'.trans = tx.trans /\ tx'.notify = tx.notify
    BY <1>0, <1>9 DEF DataPacket, InterfaceErr, TypeOK, TxType
  <2>2. Coming(t)' => Coming(t)
    BY <1>2, <2>1 DEF DataCallback, wire
  <2>3. /\ rspReg' = rspReg /\ dataRegs' = WithoutFirst(dataRegs, c)
        /\ Callback(IF EntriesOf(dataRegs, c) = {} THEN NoTrans
                    ELSE dataRegs[Lowest(EntriesOf(dataRegs, c))])
    BY <2>1 DEF DataCallback
  <2> QED  BY <1>0, <2>2, <2>3, DataCalled
<1>10. CASE RspTimeOut
  <2>1. Coming(t)' => Coming(t)
    BY <1>2, <1>10 DEF RspTimeOut, sender, wire
  <2>2. CASE ~timer.of.data
    <3>1. /\ dataRegs' = dataRegs
          /\ (Callback(rspReg) /\ rspReg' = NoTrans) \/ UNCHANGED <<calls, rspReg>>
      BY <1>10, <2>2 DEF RspTimeOut
    <3> QED  BY <1>0, <2>1, <3>1, RspCalled
  <2>3. CASE timer.of.data
    <3>1. /\ rspReg' = rspReg /\ dataRegs' = WithoutFirst(dataRegs, timer.of.conn)
          /\ Callback(IF EntriesOf(dataRegs, timer.of.conn) = {} THEN NoTrans
                      ELSE dataRegs[Lowest(EntriesOf(dataRegs, timer.of.conn))])
      BY <1>10, <2>3 DEF RspTimeOut
    <3> QED  BY <1>0, <2>1, <3>1, DataCalled
  <2> QED  BY <2>2, <2>3
<1>11. CASE DeRegDataCb \/ ResetNtf \/ Release
  <2>1. /\ calls' = calls /\ rspReg' \in {rspReg, NoTrans}
        /\ \A i \in Slots : dataRegs'[i] \in {dataRegs[i], NoTrans}
    BY <1>11 DEF DeRegDataCb, ResetNtf, Release, ResetSender, regs
  <2>2. Coming(t)' => Coming(t)
    <3>1. CASE DeRegDataCb
      BY <1>2, <3>1 DEF DeRegDataCb, sender, wire
    <3>2. CASE ResetNtf \/ Release
      BY <3>2 DEF ResetNtf, Release, ResetSender, Coming
    <3> QED  BY <1>11, <3>1, <3>2
  <2>3. Registered(t)' => Registered(t)
    BY <1>0, <2>1 DEF Registered
  <2> QED  BY <1>0, <2>1, <2>2, <2>3, OnceFrame
<1>12. CASE Arrive \/ RspTimerFires \/ UNCHANGED vars
  <2>1. UNCHANGED <<sendState, failedEntry, tml, tx, calls, rspReg, dataRegs>>
    BY <1>12 DEF Arrive, RspTimerFires, vars, sender, wire, regs, upper
  <2> QED  BY <1>1, <1>2, <2>1
<1> QED  BY <1>3, <1>4, <1>5, <1>6, <1>7, <1>8, <1>9, <1>10, <1>11, <1>12 DEF Next

(***************************************************************************)
(* A transaction is called back once, by whatever comes first, for any     *)
(* number of transactions, connections and packets: the callback that is   *)
(* called is taken from its list, and the sender calls only what is in no  *)
(* list.  With refused writes this needs the bound of one reset: after two *)
(* the sender may register a command again that was called by a late       *)
(* timeout (two writes whose completions nobody expects any more take the  *)
(* failed Send twice to the wait for credits).                             *)
(***************************************************************************)
THEOREM CalledBackOnceHolds ==
  ASSUME FALSE \notin WriteResults \/ MaxResets <= 1
  PROVE  Spec => []CalledBackOnce
<1>1. Init => SndInv /\ OnceInv
  <2> SUFFICES ASSUME Init PROVE SndInv /\ OnceInv
    OBVIOUS
  <2>1. /\ rspReg = NoTrans /\ \A i \in Slots : dataRegs[i] = NoTrans
        /\ sendState = "idle" /\ tml = <<>> /\ resets = 0 /\ tx.trans = NoTrans
        /\ \A t \in Trans : calls[t] = 0
    BY DEF Init
  <2>2. Len(tml) <= resets /\ resets <= MaxResets
    BY <2>1, SendAssumption DEF SendAssumption
  <2>3. \A t \in Trans : ~Registered(t) /\ ~Coming(t)
    BY <2>1, TransFacts DEF Registered, Coming
  <2> QED  BY <2>1, <2>2, <2>3, TransFacts DEF SndInv, RegsInv, SenderInv, QueueInv, OnceInv, Once
<1>2. IInv /\ SndInv /\ OnceInv /\ [Next]_vars => (SndInv /\ OnceInv)'
  BY SndStep, OnceStep DEF Refusals
<1>3. IInv /\ OnceInv => CalledBackOnce
  <2> SUFFICES ASSUME IInv, OnceInv, NEW t \in Trans
               PROVE  calls[t] <= 1 \/ t \in writeFailed \/ (t.data /\ ~t.only /\ t.segs > 1)
    BY DEF CalledBackOnce
  <2> QED  BY DEF OnceInv, Plain, Once
<1> QED  BY <1>1, <1>2, <1>3, IInvHolds, PTL DEF Spec

=============================================================================
