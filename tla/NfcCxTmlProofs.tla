--------------------------- MODULE NfcCxTmlProofs ---------------------------
(***************************************************************************)
(* Proofs about the TML.  IInv is inductive: its parts say where the       *)
(* LibNfc thread is, what each reference count stands for, what WriteQueue *)
(* holds, and which writes a packet passed to the core had to wait for.    *)
(* OrderInv adds where each packet is: in one place, and those places in   *)
(* the order in which the packets came.                                    *)
(***************************************************************************)
EXTENDS NfcCxTml, TLAPS

-----------------------------------------------------------------------------
(* Sequences *)

(* What Append and Tail do to the positions of a sequence.                  *)
LEMMA AppendFacts ==
  ASSUME NEW S, NEW s \in Seq(S), NEW e \in S
  PROVE  /\ Append(s, e) \in Seq(S)
         /\ DOMAIN Append(s, e) = DOMAIN s \cup {Len(s) + 1}
         /\ Len(s) + 1 \notin DOMAIN s
         /\ \A i \in DOMAIN s : Append(s, e)[i] = s[i]
         /\ Append(s, e)[Len(s) + 1] = e
  OBVIOUS

LEMMA TailFacts ==
  ASSUME NEW S, NEW s \in Seq(S), s # <<>>
  PROVE  /\ Tail(s) \in Seq(S)
         /\ Head(s) \in S
         /\ 1 \in DOMAIN s
         /\ Head(s) = s[1]
         /\ \A i \in DOMAIN Tail(s) : i + 1 \in DOMAIN s /\ Tail(s)[i] = s[i + 1]
         /\ \A i \in DOMAIN s : i = 1 \/ (i - 1 \in DOMAIN Tail(s) /\ Tail(s)[i - 1] = s[i])
         /\ DOMAIN s \subseteq Int /\ DOMAIN Tail(s) \subseteq Int \ {0}
  OBVIOUS

(* The kinds of messages are disjoint and each has the fields of its kind.  *)
LEMMA MessageFacts ==
  /\ \A m \in Messages : m.kind = "read" => m.pkt \in Packets /\ m.ctx \in 0 .. MaxRestarts
                                             /\ m.waited \in BOOLEAN
  /\ \A m \in Messages : m.kind = "write" => m.req \in Writes /\ m = WriteMsg(m.req)
  /\ \A p \in Packets, c \in 0 .. MaxRestarts, b \in BOOLEAN :
       ReadMsg(p, c, b) \in Messages /\ ReadMsg(p, c, b).kind = "read" /\ ReadMsg(p, c, b).pkt = p
  /\ \A w \in Writes : WriteMsg(w) \in Messages /\ WriteMsg(w).kind = "write" /\ WriteMsg(w).req = w
  /\ TimerMsg \in Messages /\ TimerMsg.kind = "timer"
  /\ InitMsg \in Messages /\ InitMsg.kind = "init"
  BY DEF Messages, ReadMsg, WriteMsg, TimerMsg, InitMsg

(* Another message at the end of the queue, or taken from its head, leaves  *)
(* the completions of writes as they were.                                  *)
LEMMA AppendOther ==
  ASSUME NEW s \in Seq(Messages), NEW m \in Messages, NEW w \in Writes, m # WriteMsg(w)
  PROVE  /\ HasWrite(Append(s, m), w) <=> HasWrite(s, w)
         /\ WriteOnce(s, w) => WriteOnce(Append(s, m), w)
  BY AppendFacts DEF HasWrite, WriteOnce

LEMMA AppendWrite ==
  ASSUME NEW s \in Seq(Messages), NEW w \in Writes, ~HasWrite(s, w)
  PROVE  HasWrite(Append(s, WriteMsg(w)), w) /\ WriteOnce(Append(s, WriteMsg(w)), w)
  BY AppendFacts, MessageFacts DEF HasWrite, WriteOnce

LEMMA TailOther ==
  ASSUME NEW s \in Seq(Messages), s # <<>>, NEW w \in Writes, Head(s) # WriteMsg(w), WriteOnce(s, w)
  PROVE  /\ HasWrite(Tail(s), w) <=> HasWrite(s, w)
         /\ WriteOnce(Tail(s), w)
<1>1. ASSUME NEW i \in DOMAIN s, s[i] = WriteMsg(w)
      PROVE  HasWrite(Tail(s), w)
  <2>1. i # 1 /\ i - 1 \in DOMAIN Tail(s) /\ Tail(s)[i - 1] = s[i]
    BY <1>1, TailFacts
  <2> QED  BY <1>1, <2>1 DEF HasWrite
<1>2. ASSUME NEW i \in DOMAIN Tail(s), Tail(s)[i] = WriteMsg(w)
      PROVE  i + 1 \in DOMAIN s /\ s[i + 1] = WriteMsg(w) /\ i \in Int
  BY <1>2, TailFacts
<1>3. WriteOnce(Tail(s), w)
  BY <1>2 DEF WriteOnce
<1> QED  BY <1>1, <1>2, <1>3 DEF HasWrite

LEMMA TailWrite ==
  ASSUME NEW s \in Seq(Messages), s # <<>>, NEW w \in Writes, Head(s) = WriteMsg(w), WriteOnce(s, w)
  PROVE  HasWrite(s, w) /\ ~HasWrite(Tail(s), w) /\ WriteOnce(Tail(s), w)
  BY TailFacts DEF HasWrite, WriteOnce

(* The same for the reads: a read put in the queue waited for its writes.   *)
LEMMA AppendRead ==
  ASSUME NEW s \in Seq(Messages), NEW m \in Messages, ReadsCalledBack(s),
         m.kind = "read" => CalledBackBefore(m.pkt)
  PROVE  ReadsCalledBack(Append(s, m))
  BY AppendFacts DEF ReadsCalledBack

LEMMA TailRead ==
  ASSUME NEW s \in Seq(Messages), s # <<>>, ReadsCalledBack(s)
  PROVE  ReadsCalledBack(Tail(s)) /\ (Head(s).kind = "read" => CalledBackBefore(Head(s).pkt))
  BY TailFacts DEF ReadsCalledBack

-----------------------------------------------------------------------------
(* Steps that leave the writes alone *)

(* A queue of messages with the completions of msgQueue, and reads that     *)
(* waited for their writes.                                                 *)
QueueKept(s) ==
  /\ s \in Seq(Messages)
  /\ \A w \in Writes : HasWrite(s, w) <=> HasWrite(msgQueue, w)
  /\ \A w \in Writes : WriteOnce(s, w)
  /\ ReadsCalledBack(s)

LEMMA KeptSame == IInv => QueueKept(msgQueue)
  BY DEF IInv, TypeOK, CompletedOnce, PacketInv, QueueKept

(* The packets passed to the core have arrived and waited for their writes. *)
LEMMA DeliveredKept ==
  IInv => Arrived(readNotificationQueue) /\ \A i \in DOMAIN delivered : CalledBackBefore(delivered[i])
  BY DEF IInv, PacketInv, ResponseAfterWriteCallback, CalledBackBefore, Arrived

LEMMA KeptAppend ==
  ASSUME NEW s, QueueKept(s), NEW m \in Messages, m.kind # "write",
         m.kind = "read" => CalledBackBefore(m.pkt)
  PROVE  QueueKept(Append(s, m))
<1>1. \A w \in Writes : m # WriteMsg(w)
  BY DEF WriteMsg
<1>2. \A w \in Writes : /\ HasWrite(Append(s, m), w) <=> HasWrite(s, w)
                        /\ WriteOnce(s, w) => WriteOnce(Append(s, m), w)
  BY <1>1, AppendOther DEF QueueKept
<1>3. Append(s, m) \in Seq(Messages) /\ ReadsCalledBack(Append(s, m))
  BY AppendFacts, AppendRead DEF QueueKept
<1> QED  BY <1>2, <1>3 DEF QueueKept

LEMMA KeptTail ==
  ASSUME IInv, msgQueue # <<>>, Head(msgQueue).kind # "write"
  PROVE  /\ QueueKept(Tail(msgQueue))
         /\ Head(msgQueue) \in Messages
         /\ Head(msgQueue).kind = "read" => CalledBackBefore(Head(msgQueue).pkt)
<1>1. msgQueue \in Seq(Messages) /\ QueueKept(msgQueue)
  BY KeptSame DEF QueueKept
<1>2. \A w \in Writes : Head(msgQueue) # WriteMsg(w)
  BY DEF WriteMsg
<1>3. \A w \in Writes : /\ HasWrite(Tail(msgQueue), w) <=> HasWrite(msgQueue, w)
                        /\ WriteOnce(Tail(msgQueue), w)
  BY <1>1, <1>2, TailOther DEF QueueKept
<1> QED  BY <1>1, <1>3, TailFacts, TailRead DEF QueueKept

(* While no write is at the transport, every packet received has seen its   *)
(* writes called back.                                                      *)
LEMMA QuietPackets ==
  ASSUME IInv, AtTransport = {}
  PROVE  \A p \in 1 .. received : CalledBackBefore(p)
  BY TmlAssumption DEF IInv, PacketInv, TypeOK, CalledBackBefore, AtTransport, TmlAssumption, Packets

LEMMA NotPending ==
  ASSUME IInv, ~isWriteCompletionPending
  PROVE  AtTransport = {}
  BY DEF IInv, WriteExclusion

(* A step of the reading side keeps the invariant when it keeps the queue   *)
(* and passes on only packets whose writes were called back.                *)
LEMMA ReadingStep ==
  ASSUME IInv, TypeOK',
         UNCHANGED <<wstate, refCount, writeQueue, isWriteCompletionPending, before, received>>,
         lib'.cur = lib.cur, lib'.sending = lib.sending,
         lib'.pc = lib.pc \/ {lib.pc, lib'.pc} \subseteq {"idle", "readCb", "inlineReadCb", "processWrite"},
         lib'.pc = "processWrite" => lib.sending = NoWrite,
         QueueKept(msgQueue'),
         \A i \in DOMAIN delivered' : CalledBackBefore(delivered'[i]),
         Arrived(readNotificationQueue'),
         \/ dispatcher' = dispatcher
         \/ dispatcher'.pc = "waiting" /\ dispatcher.pc # "idle" /\ dispatcher'.pkt = dispatcher.pkt
         \/ dispatcher'.pc = "idle"
  PROVE  IInv'
<1> USE DEF IInv
<1>1. ThreadInv'
  BY DEF ThreadInv
<1>2. ReferenceInv'
  BY DEF ReferenceInv
<1>3. QueueInv'
  BY DEF QueueInv
<1>4. CompletedOnce'
  <2> SUFFICES ASSUME NEW w \in Writes
               PROVE  /\ WriteOnce(msgQueue', w)
                      /\ wstate'[w] = "posted" <=> HasWrite(msgQueue', w) \/ lib'.cur = w
                      /\ ~(HasWrite(msgQueue', w) /\ lib'.cur = w)
                      /\ wstate'[w] = "posted" => refCount'[w] = 0 /\ lib'.sending # w
    BY DEF CompletedOnce, HasWrite, WriteOnce, WriteMsg
  <2>1. wstate[w] = "posted" <=> HasWrite(msgQueue, w) \/ lib.cur = w
    BY DEF CompletedOnce
  <2>2. ~(HasWrite(msgQueue, w) /\ lib.cur = w)
    BY DEF CompletedOnce
  <2>3. wstate[w] = "posted" => refCount[w] = 0 /\ lib.sending # w
    BY DEF CompletedOnce
  <2>4. WriteOnce(msgQueue', w) /\ (HasWrite(msgQueue', w) <=> HasWrite(msgQueue, w))
    BY DEF QueueKept
  <2> QED  BY <2>1, <2>2, <2>3, <2>4, Zenon
<1>5. WriteExclusion'
  BY DEF WriteExclusion, AtTransport
<1>6. PacketInv'
  BY DEF PacketInv, CalledBackBefore, ReadsCalledBack, QueueKept, Arrived
<1>7. ResponseAfterWriteCallback'
  BY DEF ResponseAfterWriteCallback, CalledBackBefore
<1> QED  BY <1>1, <1>2, <1>3, <1>4, <1>5, <1>6, <1>7

(* NfcCxTml_Read hands over a packet only while no write is pending.        *)
LEMMA ReadKeeps ==
  ASSUME IInv, NEW s, QueueKept(s), NfcCxTml_Read(s)
  PROVE  /\ QueueKept(msgQueue') /\ readQueue' \in Nat
         /\ readNotificationQueue' \in Seq(Packets) /\ Arrived(readNotificationQueue')
<1>1. CASE /\ msgQueue' = s /\ UNCHANGED readNotificationQueue
           /\ readQueue' \in {readQueue, readQueue + 1}
  BY <1>1, DeliveredKept DEF IInv, TypeOK
<1>2. CASE /\ PacketReady
           /\ msgQueue' = Append(s, ReadMsg(Head(readNotificationQueue), restarts, FALSE))
           /\ readNotificationQueue' = Tail(readNotificationQueue)
           /\ UNCHANGED readQueue
  <2> DEFINE m == ReadMsg(Head(readNotificationQueue), restarts, FALSE)
  <2>1. Head(readNotificationQueue) \in Packets /\ readNotificationQueue' \in Seq(Packets)
    BY <1>2, TailFacts DEF PacketReady, IInv, TypeOK
  <2>5. Head(readNotificationQueue) \in 1 .. received /\ Arrived(readNotificationQueue')
    BY <1>2, TailFacts, DeliveredKept DEF PacketReady, Arrived, IInv, TypeOK
  <2>2. m \in Messages /\ m.kind = "read" /\ m.pkt = Head(readNotificationQueue)
    BY <2>1, MessageFacts DEF IInv, TypeOK
  <2>3. CalledBackBefore(m.pkt)
    BY <1>2, <2>2, <2>5, NotPending, QuietPackets DEF PacketReady
  <2>4. QueueKept(Append(s, m))
    BY <2>2, <2>3, KeptAppend
  <2> QED  BY <1>2, <2>1, <2>4, <2>5 DEF IInv, TypeOK
<1> QED  BY <1>1, <1>2 DEF NfcCxTml_Read

LEMMA DeferredReadStep ==
  ASSUME IInv, NfcCxTml_DeferredReadCompletion
  PROVE  IInv'
<1> USE DEF NfcCxTml_DeferredReadCompletion, NextMessage
<1>1. msgQueue # <<>> /\ Head(msgQueue).kind = "read" /\ msgQueue' = Tail(msgQueue)
  OBVIOUS
<1>2. /\ QueueKept(msgQueue')
      /\ Head(msgQueue).pkt \in Packets /\ CalledBackBefore(Head(msgQueue).pkt)
      /\ Head(msgQueue).waited \in BOOLEAN
  BY <1>1, KeptTail, MessageFacts
<1>3. delivered \in Seq(Packets) /\ delivered' = Append(delivered, Head(msgQueue).pkt)
  BY DEF IInv, TypeOK
<1>4. delivered' \in Seq(Packets) /\ Arrived(readNotificationQueue') /\ \A i \in DOMAIN delivered' : CalledBackBefore(delivered'[i])
  BY <1>2, <1>3, AppendFacts, DeliveredKept DEF queues
<1>5. dispatcher' \in DispatcherType /\ (dispatcher' = dispatcher \/ dispatcher'.pc = "idle")
  BY TmlAssumption DEF TmlAssumption, IInv, TypeOK, Signal, DispatcherType, DispatcherIdle
<1>6. /\ lib' \in LibType /\ lib'.cur = lib.cur /\ lib'.sending = lib.sending
      /\ {lib.pc, lib'.pc} \subseteq {"idle", "readCb"}
  BY <1>2 DEF IInv, TypeOK, LibType
<1>7. core' \in CoreType
  BY DEF IInv, TypeOK, CoreType, ProcessPacket
<1>8. TypeOK'
  BY <1>2, <1>4, <1>5, <1>6, <1>7 DEF IInv, TypeOK, QueueKept, queues, writes, bounds
<1>9. UNCHANGED <<wstate, refCount, writeQueue, isWriteCompletionPending, before, received>>
  BY DEF queues, writes
<1> QED  BY <1>2, <1>4, <1>5, <1>6, <1>8, <1>9, ReadingStep

LEMMA ReadCallbackStep ==
  ASSUME IInv, ReadCallbackReturn
  PROVE  IInv'
<1> USE DEF ReadCallbackReturn
<1>1. /\ QueueKept(msgQueue') /\ readQueue' \in Nat
      /\ readNotificationQueue' \in Seq(Packets) /\ Arrived(readNotificationQueue')
  BY KeptSame, DeliveredKept, ReadKeeps DEF phNciNfc_CoreRecv, IInv, TypeOK
<1>2. dispatcher' \in DispatcherType /\ (dispatcher' = dispatcher \/ dispatcher'.pc = "idle")
  BY TmlAssumption DEF TmlAssumption, IInv, TypeOK, Signal, DispatcherType, DispatcherIdle
<1>3. /\ lib' \in LibType /\ lib'.cur = lib.cur /\ lib'.sending = lib.sending
      /\ {lib.pc, lib'.pc} \subseteq {"idle", "readCb", "inlineReadCb", "processWrite"}
      /\ lib.sending = NoWrite
  BY DEF IInv, TypeOK, LibType
<1>4. TypeOK'
  BY <1>1, <1>2, <1>3 DEF IInv, TypeOK, QueueKept, writes, packets, bounds
<1>5. \A i \in DOMAIN delivered' : CalledBackBefore(delivered'[i])
  BY DeliveredKept DEF packets
<1>6. UNCHANGED <<wstate, refCount, writeQueue, isWriteCompletionPending, before, received>>
  BY DEF writes, packets
<1> QED  BY <1>1, <1>2, <1>3, <1>4, <1>5, <1>6, ReadingStep

LEMMA ResponseTimeoutStep ==
  ASSUME IInv, ResponseTimeout
  PROVE  IInv'
<1> USE DEF ResponseTimeout, NextMessage
<1>1. QueueKept(msgQueue')
  BY KeptTail
<1>2. readQueue' \in Nat /\ readNotificationQueue' \in Seq(Packets)
  BY DEF IInv, TypeOK, phTmlNfc_ReadAbort
<1>3. core' \in CoreType
  BY DEF IInv, TypeOK, CoreType
<1>4. /\ lib' \in LibType /\ lib'.cur = lib.cur /\ lib'.sending = lib.sending
      /\ {lib.pc, lib'.pc} \subseteq {"idle", "readCb"}
  BY DEF IInv, TypeOK, LibType
<1>5. TypeOK'
  BY <1>1, <1>2, <1>3, <1>4 DEF IInv, TypeOK, QueueKept, writes, packets, bounds
<1>6. Arrived(readNotificationQueue') /\ \A i \in DOMAIN delivered' : CalledBackBefore(delivered'[i])
  BY DeliveredKept DEF packets, phTmlNfc_ReadAbort
<1>7. UNCHANGED <<wstate, refCount, writeQueue, isWriteCompletionPending, before, received, dispatcher>>
  BY DEF writes, packets
<1> QED  BY <1>1, <1>4, <1>5, <1>6, <1>7, ReadingStep

LEMMA CoreInitStep ==
  ASSUME IInv, CoreInit
  PROVE  IInv'
<1> USE DEF CoreInit, NextMessage
<1>1. QueueKept(Tail(msgQueue))
  BY KeptTail
<1>2. /\ QueueKept(msgQueue') /\ readQueue' \in Nat
      /\ readNotificationQueue' \in Seq(Packets) /\ Arrived(readNotificationQueue')
  BY <1>1, ReadKeeps
<1>3. core' \in CoreType
  BY DEF IInv, TypeOK, CoreType
<1>4. TypeOK'
  BY <1>2, <1>3 DEF IInv, TypeOK, QueueKept, writes, packets, bounds
<1>5. \A i \in DOMAIN delivered' : CalledBackBefore(delivered'[i])
  BY DeliveredKept DEF packets
<1>6. UNCHANGED <<wstate, refCount, writeQueue, isWriteCompletionPending, before, received,
                  dispatcher, lib>>
  BY DEF writes, packets
<1>7. lib'.pc = "processWrite" => lib.sending = NoWrite
  BY DEF IInv, ThreadInv
<1> QED  BY <1>2, <1>4, <1>5, <1>6, <1>7, ReadingStep

LEMMA DispatchPostStep ==
  ASSUME IInv, DispatchPost
  PROVE  IInv'
<1>1. PICK waited \in BOOLEAN :
        /\ msgQueue' = Append(msgQueue, ReadMsg(dispatcher.pkt, dispatcher.ctx, waited))
        /\ dispatcher' = IF waited THEN [dispatcher EXCEPT !.pc = "waiting"] ELSE DispatcherIdle
  BY DEF DispatchPost
<1> DEFINE m == ReadMsg(dispatcher.pkt, dispatcher.ctx, waited)
<1>2. m \in Messages /\ m.kind = "read" /\ m.pkt = dispatcher.pkt
  BY MessageFacts DEF DispatchPost, IInv, TypeOK, ThreadInv, DispatcherType, Packets
<1>3. CalledBackBefore(m.pkt)
  BY <1>2 DEF DispatchPost, IInv, PacketInv
<1>4. QueueKept(msgQueue')
  BY <1>1, <1>2, <1>3, KeptSame, KeptAppend
<1>5. /\ dispatcher' \in DispatcherType
      /\ \/ dispatcher'.pc = "waiting" /\ dispatcher.pc # "idle" /\ dispatcher'.pkt = dispatcher.pkt
         \/ dispatcher'.pc = "idle"
  <2>1. dispatcher \in DispatcherType /\ DispatcherIdle \in DispatcherType /\ DispatcherIdle.pc = "idle"
    BY TmlAssumption DEF TmlAssumption, IInv, TypeOK, DispatcherType, DispatcherIdle
  <2>2. CASE waited
    BY <1>1, <2>1, <2>2 DEF DispatchPost, DispatcherType
  <2>3. CASE ~waited
    BY <1>1, <2>1, <2>3
  <2> QED  BY <2>2, <2>3
<1>6. TypeOK'
  BY <1>4, <1>5 DEF DispatchPost, IInv, TypeOK, QueueKept, queues, writes, packets, bounds
<1>7. Arrived(readNotificationQueue') /\ \A i \in DOMAIN delivered' : CalledBackBefore(delivered'[i])
  BY DeliveredKept DEF DispatchPost, queues, packets
<1>8. UNCHANGED <<wstate, refCount, writeQueue, isWriteCompletionPending, before, received, lib>>
  BY DEF DispatchPost, queues, writes, packets
<1>9. lib'.pc = "processWrite" => lib.sending = NoWrite
  BY <1>8 DEF IInv, ThreadInv
<1> QED  BY <1>4, <1>5, <1>6, <1>7, <1>8, <1>9, ReadingStep

LEMMA TimerStep ==
  ASSUME IInv, TimerFires \/ RequestInit
  PROVE  IInv'
<1>1. PICK m \in {TimerMsg, InitMsg} : msgQueue' = Append(msgQueue, m)
  BY DEF TimerFires, RequestInit
<1>2. QueueKept(msgQueue')
  <2>1. m \in Messages /\ m.kind # "write" /\ m.kind # "read"
    BY MessageFacts
  <2> QED  BY <1>1, <2>1, KeptSame, KeptAppend
<1>3. /\ core' \in CoreType /\ timeouts' \in 0 .. MaxTimeouts
      /\ UNCHANGED <<interfaceState, queues, writes, lib, dispatcher, packets, deviceFailed, restarts>>
  <2>1. CASE TimerFires
    <3>1. timeouts \in Nat /\ timeouts < MaxTimeouts /\ timeouts' = timeouts + 1
      BY <2>1, TmlAssumption DEF TmlAssumption, TimerFires, IInv, TypeOK
    <3>2. core' \in CoreType
      BY <2>1 DEF TimerFires, IInv, TypeOK, CoreType
    <3> QED  BY <2>1, <3>1, <3>2, TmlAssumption DEF TmlAssumption, TimerFires
  <2>2. CASE RequestInit
    BY <2>2 DEF RequestInit, IInv, TypeOK, bounds
  <2> QED  BY <2>1, <2>2
<1>4. TypeOK'
  BY <1>2, <1>3 DEF IInv, TypeOK, QueueKept, queues, writes, packets
<1>5. Arrived(readNotificationQueue') /\ \A i \in DOMAIN delivered' : CalledBackBefore(delivered'[i])
  BY <1>3, DeliveredKept DEF queues, packets
<1>6. UNCHANGED <<wstate, refCount, writeQueue, isWriteCompletionPending, before, received, lib,
                  dispatcher>>
  BY <1>3 DEF queues, writes, packets
<1>7. lib'.pc = "processWrite" => lib.sending = NoWrite
  BY <1>6 DEF IInv, ThreadInv
<1> QED  BY <1>2, <1>4, <1>5, <1>6, <1>7, ReadingStep

(* The waits that end, the start and the stop touch no queue.               *)
LEMMA QuietStep ==
  ASSUME IInv,
         \/ DispatchWaitTimeout \/ WriteWaitTimeout
         \/ NfcCxTmlInterfaceStart \/ NfcCxTmlInterfaceStop
         \/ UNCHANGED vars
  PROVE  IInv'
<1> USE DEF DispatchWaitTimeout, WriteWaitTimeout, NfcCxTmlInterfaceStart, NfcCxTmlInterfaceStop, vars
<1>1. UNCHANGED <<queues, writes, packets, msgQueue, lib, core, bounds>>
  BY DEF queues, writes, packets, bounds
<1>2. QueueKept(msgQueue')
  BY <1>1, KeptSame
<1>3. dispatcher' \in DispatcherType /\ (dispatcher' = dispatcher \/ dispatcher'.pc = "idle")
  BY TmlAssumption DEF TmlAssumption, IInv, TypeOK, DispatcherType, DispatcherIdle
<1>4. interfaceState' \in {"stopped", "running"} /\ deviceFailed' \in BOOLEAN
  BY DEF IInv, TypeOK
<1>5. TypeOK'
  BY <1>1, <1>3, <1>4 DEF IInv, TypeOK, queues, writes, packets, bounds
<1>6. Arrived(readNotificationQueue') /\ \A i \in DOMAIN delivered' : CalledBackBefore(delivered'[i])
  BY <1>1, DeliveredKept DEF queues, packets
<1>7. UNCHANGED <<wstate, refCount, writeQueue, isWriteCompletionPending, before, received, lib>>
  BY <1>1 DEF queues, writes, packets
<1>8. lib'.pc = "processWrite" => lib.sending = NoWrite
  BY <1>7 DEF IInv, ThreadInv
<1> QED  BY <1>2, <1>3, <1>5, <1>6, <1>7, <1>8, ReadingStep

(* A new packet: it takes a read only while no write is at the transport,   *)
(* and otherwise remembers the one that is.                                 *)
LEMMA DispatchStep ==
  ASSUME IInv, NfcCxTmlDispatchReadNotification
  PROVE  IInv'
<1> USE DEF NfcCxTmlDispatchReadNotification
<1>1. PICK p \in Packets : p = received + 1 /\ received' = p /\ received \in Nat
  BY TmlAssumption DEF TmlAssumption, IInv, TypeOK, Packets
<1>2. /\ UNCHANGED <<interfaceState, writeQueue, isWriteCompletionPending, wstate, refCount, session,
                     msgQueue, lib, delivered, core, deviceFailed, timeouts, restarts>>
      /\ dispatcher.pc = "idle"
  BY DEF writes, bounds
<1>3. before' = [before EXCEPT ![p] = AtTransport] /\ AtTransport \subseteq Writes
  BY <1>1 DEF AtTransport
<1>4. \A q \in Packets : before'[q] = IF q = p THEN AtTransport ELSE before[q]
  BY <1>3 DEF IInv, TypeOK
<1>5. /\ readQueue' \in Nat /\ readNotificationQueue' \in Seq(Packets)
      /\ dispatcher' \in DispatcherType
      /\ dispatcher' = dispatcher \/ (ReadReady /\ dispatcher'.pkt = p)
  <2>1. CASE ReadReady
    BY <1>1, <2>1, TmlAssumption DEF TmlAssumption, ReadReady, IInv, TypeOK, DispatcherType, Packets
  <2>2. CASE ~ReadReady
    <3>1. readNotificationQueue' = Append(readNotificationQueue, p) /\ UNCHANGED <<readQueue, dispatcher>>
      BY <1>1, <2>2
    <3>2. readNotificationQueue \in Seq(Packets) /\ readQueue \in Nat /\ dispatcher \in DispatcherType
      BY DEF IInv, TypeOK
    <3>3. Append(readNotificationQueue, p) \in Seq(Packets)
      BY <1>1, <3>2
    <3> QED  BY <3>1, <3>2, <3>3
  <2> QED  BY <2>1, <2>2
<1>6. TypeOK'
  <2>1. received' \in 0 .. MaxPackets
    BY <1>1 DEF Packets
  <2>2. before' \in [Packets -> SUBSET Writes]
    BY <1>3 DEF IInv, TypeOK
  <2> QED  BY <1>2, <1>5, <2>1, <2>2 DEF IInv, TypeOK
<1>7. ThreadInv' /\ ReferenceInv' /\ QueueInv' /\ CompletedOnce' /\ WriteExclusion'
  <2>1. ThreadInv'
    BY <1>1, <1>2, <1>5 DEF IInv, ThreadInv
  <2>2. ReferenceInv' /\ QueueInv'
    BY <1>2 DEF IInv, ReferenceInv, QueueInv
  <2>3. CompletedOnce'
    BY <1>2 DEF IInv, CompletedOnce, HasWrite, WriteOnce
  <2>4. WriteExclusion'
    BY <1>2 DEF IInv, WriteExclusion, AtTransport
  <2> QED  BY <2>1, <2>2, <2>3, <2>4
<1>8. \A q \in Packets : CalledBackBefore(q) => CalledBackBefore(q)'
  BY <1>1, <1>2, <1>4 DEF CalledBackBefore
<1>9. \A q \in Packets : q \in 1 .. received => q \in 1 .. received'
  BY <1>1
<1>10. PacketInv'
  <2>1. \A q \in Packets : \A w \in before'[q] : wstate[w] \in {"sent", "done", "posted", "calledBack"}
    BY <1>4 DEF IInv, PacketInv, AtTransport
  <2>2. \A q \in Packets : q > received' => before'[q] = {}
    BY <1>1, <1>4, TmlAssumption DEF TmlAssumption, Packets, IInv, PacketInv
  <2>3. dispatcher'.pc = "posting" => CalledBackBefore(dispatcher.pkt)'
    <3>1. CASE dispatcher' = dispatcher
      BY <1>2, <3>1
    <3>2. CASE ReadReady /\ dispatcher'.pkt = p
      <4>1. AtTransport = {}
        BY <3>2, NotPending DEF ReadReady
      <4>2. CalledBackBefore(p)'
        <5>1. before'[p] = {}
          BY <1>1, <1>4, <4>1
        <5>2. p \in 1 .. received'
          BY <1>1 DEF Packets
        <5> QED  BY <5>1, <5>2 DEF CalledBackBefore
      <4> QED  BY <3>2, <4>2 DEF CalledBackBefore
    <3> QED  BY <1>5, <3>1, <3>2
  <2>4. ReadsCalledBack(msgQueue)'
    <3>1. \A i \in DOMAIN msgQueue : msgQueue[i].kind = "read" => msgQueue[i].pkt \in Packets
      BY MessageFacts DEF IInv, TypeOK
    <3> QED  BY <1>2, <1>8, <3>1 DEF IInv, PacketInv, ReadsCalledBack
  <2>5. Arrived(delivered)'
    BY <1>2, <1>9 DEF IInv, TypeOK, PacketInv, Arrived
  <2>6. Arrived(readNotificationQueue)'
    <3>1. CASE ReadReady
      BY <1>9, <3>1 DEF IInv, TypeOK, PacketInv, Arrived
    <3>2. CASE ~ReadReady
      <4>1. readNotificationQueue' = Append(readNotificationQueue, p)
        BY <1>1, <3>2
      <4> QED  BY <1>1, <1>9, <4>1, AppendFacts DEF IInv, TypeOK, PacketInv, Arrived
    <3> QED  BY <3>1, <3>2
  <2> QED  BY <1>2, <2>1, <2>2, <2>3, <2>4, <2>5, <2>6 DEF PacketInv
<1>11. ResponseAfterWriteCallback'
  <2>1. \A i \in DOMAIN delivered : delivered[i] \in Packets
    BY DEF IInv, TypeOK
  <2>2. \A i \in DOMAIN delivered : CalledBackBefore(delivered[i])'
    BY <1>2, <1>8, <2>1, DeliveredKept
  <2> QED  BY <1>2, <2>2 DEF ResponseAfterWriteCallback, CalledBackBefore
<1> QED  BY <1>6, <1>7, <1>10, <1>11 DEF IInv

-----------------------------------------------------------------------------
(* Steps of the writes *)

(* A write only advances towards its callback, so the packets that waited   *)
(* for their writes still have.                                             *)
LEMMA PacketFrame ==
  ASSUME IInv, TypeOK', UNCHANGED <<before, received, dispatcher>>,
         \A w \in Writes : wstate[w] = "calledBack" => wstate'[w] = "calledBack",
         \A w \in AtTransport : wstate'[w] \in {"sent", "done", "posted", "calledBack"},
         ReadsCalledBack(msgQueue'),
         Arrived(readNotificationQueue') /\ \A i \in DOMAIN delivered' : CalledBackBefore(delivered'[i])
  PROVE  PacketInv' /\ ResponseAfterWriteCallback'
<1>1. \A p \in Packets : \A w \in before[p] : w \in Writes
  BY DEF IInv, TypeOK
<1>2. \A p \in Packets : CalledBackBefore(p) => CalledBackBefore(p)'
  BY <1>1 DEF CalledBackBefore
<1>3. \A p \in Packets : \A w \in before'[p] : wstate'[w] \in {"sent", "done", "posted", "calledBack"}
  BY <1>1 DEF IInv, PacketInv, AtTransport
<1>4. dispatcher'.pc = "posting" => CalledBackBefore(dispatcher.pkt)'
  <2>1. dispatcher.pc = "posting" => dispatcher.pkt \in Packets
    BY TmlAssumption DEF TmlAssumption, IInv, TypeOK, ThreadInv, DispatcherType, Packets
  <2> QED  BY <1>2, <2>1 DEF IInv, PacketInv
<1>5. ReadsCalledBack(msgQueue)'
  <2>1. \A i \in DOMAIN msgQueue' : msgQueue'[i].kind = "read" => msgQueue'[i].pkt \in Packets
    BY MessageFacts DEF TypeOK
  <2> QED  BY <1>2, <2>1 DEF ReadsCalledBack
<1>6. \A i \in DOMAIN delivered' : CalledBackBefore(delivered'[i]) /\ delivered'[i] \in Packets
  BY DEF TypeOK
<1>7. Arrived(delivered)' /\ Arrived(readNotificationQueue)'
  BY <1>6 DEF Arrived, CalledBackBefore
<1>8. PacketInv'
  BY <1>3, <1>4, <1>5, <1>7 DEF IInv, PacketInv
<1>9. \A i \in DOMAIN delivered' : \A w \in before'[delivered'[i]] : wstate'[w] = "calledBack"
  BY <1>1, <1>6 DEF CalledBackBefore
<1> QED  BY <1>8, <1>9 DEF ResponseAfterWriteCallback

(* The deferred completion of a write that has none yet and is not posted.  *)
LEMMA NotPosted ==
  ASSUME IInv, NEW w \in Writes, wstate[w] # "posted"
  PROVE  ~HasWrite(msgQueue, w) /\ lib.cur # w
  BY DEF IInv, CompletedOnce

(* With nothing at the transport, a write may be handed to it.              *)
LEMMA HandStep ==
  ASSUME IInv, AtTransport = {}, NEW w \in Writes, wstate[w] \in {"none", "queued"},
         HandToTransport(w), isWriteCompletionPending' = TRUE, UNCHANGED msgQueue,
         lib.sending = NoWrite, lib'.sending = w, lib'.cur = lib.cur, lib'.pc # "postWrite"
  PROVE  /\ wstate' \in [Writes -> WriteStates] /\ refCount' \in [Writes -> 0 .. 2]
         /\ wstate'[w] \in {"sent", "done"} /\ \A v \in Writes : v # w => wstate'[v] = wstate[v]
         /\ ReferenceInv' /\ CompletedOnce' /\ WriteExclusion'
<1>1. PICK accepted \in BOOLEAN :
        /\ wstate' = [wstate EXCEPT ![w] = IF accepted THEN "sent" ELSE "done"]
        /\ refCount' = [refCount EXCEPT ![w] = IF accepted THEN 2 ELSE 1]
  BY DEF HandToTransport
<1>2. wstate \in [Writes -> WriteStates] /\ refCount \in [Writes -> 0 .. 2]
  BY DEF IInv, TypeOK
<1>3. wstate' \in [Writes -> WriteStates] /\ refCount' \in [Writes -> 0 .. 2]
  BY <1>1, <1>2 DEF WriteStates
<1>4. \/ wstate'[w] = "sent" /\ refCount'[w] = 2
      \/ wstate'[w] = "done" /\ refCount'[w] = 1
  BY <1>1, <1>2
<1>5. \A v \in Writes : v # w => wstate'[v] = wstate[v] /\ refCount'[v] = refCount[v]
  BY <1>1, <1>2
<1>6. \A v \in Writes : wstate[v] \notin {"sent", "done", "posted"}
  BY DEF AtTransport
<1>7. ReferenceInv'
  BY <1>4, <1>5, <1>6 DEF ReferenceInv
<1>8. CompletedOnce'
  <2> SUFFICES ASSUME NEW v \in Writes
               PROVE  WriteOnce(msgQueue, v) /\ ~HasWrite(msgQueue, v) /\ lib'.cur # v /\ wstate'[v] # "posted"
    BY DEF CompletedOnce, HasWrite, WriteOnce, WriteMsg
  <2> QED  BY <1>4, <1>5, <1>6, NotPosted DEF IInv, CompletedOnce
<1>9. WriteExclusion'
  BY <1>4, <1>5, <1>6 DEF WriteExclusion, AtTransport
<1> QED  BY <1>3, <1>4, <1>5, <1>7, <1>8, <1>9

(* The last of the two references posts the deferred completion.            *)
LEMMA DropStep ==
  ASSUME IInv, NEW w \in Writes, wstate[w] \in {"sent", "done"},
         NEW state \in {"sent", "done"}, DropReference(w, state), refCount[w] \in {1, 2},
         UNCHANGED <<isWriteCompletionPending, writeQueue>>,
         lib'.pc = lib.pc, lib'.cur = lib.cur, lib'.sending \in {lib.sending, NoWrite},
         refCount[w] = 1 => lib'.sending # w
  PROVE  /\ wstate' \in [Writes -> WriteStates] /\ refCount' \in [Writes -> 0 .. 2]
         /\ refCount'[w] = refCount[w] - 1 /\ wstate'[w] = IF refCount[w] = 1 THEN "posted" ELSE state
         /\ \A v \in Writes : v # w => wstate'[v] = wstate[v] /\ refCount'[v] = refCount[v]
         /\ msgQueue' \in Seq(Messages) /\ ReadsCalledBack(msgQueue')
         /\ CompletedOnce' /\ WriteExclusion' /\ QueueInv'
<1>1. wstate \in [Writes -> WriteStates] /\ refCount \in [Writes -> 0 .. 2] /\ msgQueue \in Seq(Messages)
  BY DEF IInv, TypeOK
<1>2. /\ wstate' = [wstate EXCEPT ![w] = IF refCount[w] = 1 THEN "posted" ELSE state]
      /\ refCount' = [refCount EXCEPT ![w] = @ - 1]
      /\ msgQueue' = IF refCount[w] = 1 THEN Append(msgQueue, WriteMsg(w)) ELSE msgQueue
  BY DEF DropReference
<1>3. wstate' \in [Writes -> WriteStates] /\ refCount' \in [Writes -> 0 .. 2]
  BY <1>1, <1>2 DEF WriteStates
<1>4. refCount'[w] = refCount[w] - 1 /\ wstate'[w] = IF refCount[w] = 1 THEN "posted" ELSE state
  BY <1>1, <1>2
<1>5. \A v \in Writes : v # w => wstate'[v] = wstate[v] /\ refCount'[v] = refCount[v]
  BY <1>1, <1>2
<1>6. WriteMsg(w) \in Messages /\ WriteMsg(w).kind # "read"
  BY MessageFacts
<1>7. msgQueue' \in Seq(Messages) /\ ReadsCalledBack(msgQueue')
  BY <1>1, <1>2, <1>6, AppendFacts, AppendRead DEF IInv, PacketInv
<1>8. CompletedOnce'
  <2> SUFFICES ASSUME NEW v \in Writes
               PROVE  /\ WriteOnce(msgQueue', v)
                      /\ wstate'[v] = "posted" <=> HasWrite(msgQueue', v) \/ lib'.cur = v
                      /\ ~(HasWrite(msgQueue', v) /\ lib'.cur = v)
                      /\ wstate'[v] = "posted" => refCount'[v] = 0 /\ lib'.sending # v
    BY DEF CompletedOnce, HasWrite, WriteOnce, WriteMsg
  <2>0. /\ WriteOnce(msgQueue, v)
        /\ wstate[v] = "posted" <=> HasWrite(msgQueue, v) \/ lib.cur = v
        /\ ~(HasWrite(msgQueue, v) /\ lib.cur = v)
        /\ wstate[v] = "posted" => refCount[v] = 0 /\ lib.sending # v
    BY DEF IInv, CompletedOnce
  <2>1. CASE v # w
    <3>1. WriteMsg(w) # WriteMsg(v)
      BY <2>1 DEF WriteMsg
    <3>2. (HasWrite(msgQueue', v) <=> HasWrite(msgQueue, v)) /\ WriteOnce(msgQueue', v)
      BY <1>1, <1>2, <1>6, <2>0, <3>1, AppendOther
    <3>3. lib'.cur = lib.cur /\ wstate'[v] = wstate[v] /\ refCount'[v] = refCount[v]
      BY <1>5, <2>1
    <3>4. lib.sending # v => lib'.sending # v
      BY TmlAssumption DEF TmlAssumption
    <3> QED  BY <2>0, <3>2, <3>3, <3>4, Zenon
  <2>2. CASE v = w
    <3>1. ~HasWrite(msgQueue, w) /\ lib.cur # w
      BY NotPosted
    <3>2. CASE refCount[w] = 1
      <4>1. HasWrite(msgQueue', w) /\ WriteOnce(msgQueue', w)
        BY <1>1, <1>2, <3>1, <3>2, AppendWrite
      <4>2. wstate'[w] = "posted" /\ refCount'[w] = 0 /\ lib'.sending # w /\ lib'.cur # w
        BY <1>4, <3>1, <3>2
      <4> QED  BY <2>2, <4>1, <4>2
    <3>3. CASE refCount[w] # 1
      <4>1. msgQueue' = msgQueue /\ wstate'[w] # "posted" /\ lib'.cur # w
        BY <1>2, <1>4, <3>1, <3>3
      <4> QED  BY <2>0, <2>2, <3>1, <4>1
    <3> QED  BY <3>2, <3>3
  <2> QED  BY <2>1, <2>2
<1>9. AtTransport' = AtTransport
  BY <1>4, <1>5 DEF AtTransport
<1>10. WriteExclusion'
  BY <1>9 DEF IInv, WriteExclusion
<1>11. QueueInv'
  BY <1>1, <1>5 DEF IInv, TypeOK, QueueInv
<1> QED  BY <1>3, <1>4, <1>5, <1>7, <1>8, <1>10, <1>11

LEMMA WriteReturnStep ==
  ASSUME IInv, NfcCxTml_WriteReturn
  PROVE  IInv'
<1> USE DEF NfcCxTml_WriteReturn
<1>1. PICK w \in Writes : w = lib.sending
  BY DEF IInv, TypeOK, LibType
<1>2. wstate[w] \in {"sent", "done"} /\ refCount[w] = IF wstate[w] = "sent" THEN 2 ELSE 1
  BY <1>1 DEF IInv, ReferenceInv
<1>3. DropReference(w, wstate[w])
  BY <1>1
<1>4. lib' \in LibType /\ lib'.pc = lib.pc /\ lib'.cur = lib.cur /\ lib'.sending = NoWrite /\ NoWrite # w
  BY TmlAssumption DEF TmlAssumption, IInv, TypeOK, LibType
<1>5. UNCHANGED <<isWriteCompletionPending, writeQueue>>
  BY DEF queues
<1>6. /\ wstate' \in [Writes -> WriteStates] /\ refCount' \in [Writes -> 0 .. 2]
      /\ refCount'[w] = refCount[w] - 1 /\ wstate'[w] = IF refCount[w] = 1 THEN "posted" ELSE wstate[w]
      /\ \A v \in Writes : v # w => wstate'[v] = wstate[v] /\ refCount'[v] = refCount[v]
      /\ msgQueue' \in Seq(Messages) /\ ReadsCalledBack(msgQueue')
      /\ CompletedOnce' /\ WriteExclusion' /\ QueueInv'
  BY <1>2, <1>3, <1>4, <1>5, DropStep
<1>7. TypeOK'
  BY <1>4, <1>6 DEF IInv, TypeOK, queues, packets, bounds
<1>8. ThreadInv'
  BY <1>4 DEF IInv, ThreadInv, packets
<1>9. ReferenceInv'
  <2>1. \A v \in Writes : v # w => /\ wstate[v] = "sent" => refCount[v] = 1
                                   /\ wstate[v] # "done"
    BY <1>1 DEF IInv, ReferenceInv
  <2> QED  BY <1>2, <1>4, <1>6, <2>1, TmlAssumption DEF TmlAssumption, ReferenceInv
<1>10. PacketInv' /\ ResponseAfterWriteCallback'
  <2>1. UNCHANGED <<before, received, dispatcher, delivered, readNotificationQueue>>
    BY DEF packets, queues
  <2>2. \A v \in Writes : wstate[v] = "calledBack" => wstate'[v] = "calledBack"
    BY <1>2, <1>6
  <2>3. \A v \in AtTransport : wstate'[v] \in {"sent", "done", "posted", "calledBack"}
    BY <1>2, <1>6 DEF AtTransport
  <2> QED  BY <1>6, <1>7, <2>1, <2>2, <2>3, PacketFrame, DeliveredKept
<1> QED  BY <1>6, <1>7, <1>8, <1>9, <1>10 DEF IInv

LEMMA WriteCompletionStep ==
  ASSUME IInv, NEW w \in Writes, NfcCxTml_WriteCompletion(w)
  PROVE  IInv'
<1> USE DEF NfcCxTml_WriteCompletion
<1>1. wstate[w] = "sent" /\ refCount[w] = IF lib.sending = w THEN 2 ELSE 1
  BY DEF IInv, ReferenceInv
<1>2. lib' = lib /\ UNCHANGED <<isWriteCompletionPending, writeQueue>>
  BY DEF queues
<1>3. /\ wstate' \in [Writes -> WriteStates] /\ refCount' \in [Writes -> 0 .. 2]
      /\ refCount'[w] = refCount[w] - 1 /\ wstate'[w] = IF refCount[w] = 1 THEN "posted" ELSE "done"
      /\ \A v \in Writes : v # w => wstate'[v] = wstate[v] /\ refCount'[v] = refCount[v]
      /\ msgQueue' \in Seq(Messages) /\ ReadsCalledBack(msgQueue')
      /\ CompletedOnce' /\ WriteExclusion' /\ QueueInv'
  BY <1>1, <1>2, DropStep
<1>4. TypeOK'
  BY <1>3 DEF IInv, TypeOK, queues, packets, bounds
<1>5. ThreadInv'
  BY DEF IInv, ThreadInv, packets
<1>6. ReferenceInv'
  <2>1. lib.sending \in Writes \cup {NoWrite}
    BY DEF IInv, TypeOK, LibType
  <2>2. \A v \in Writes : /\ wstate'[v] = "sent" => refCount'[v] = IF lib.sending = v THEN 2 ELSE 1
                          /\ wstate'[v] = "done" => refCount'[v] = 1 /\ lib.sending = v
    BY <1>1, <1>3 DEF IInv, ReferenceInv
  <2>3. lib.sending # NoWrite => wstate'[lib.sending] \in {"sent", "done"}
    BY <1>1, <1>3, <2>1 DEF IInv, ReferenceInv
  <2> QED  BY <1>2, <2>2, <2>3 DEF ReferenceInv
<1>7. PacketInv' /\ ResponseAfterWriteCallback'
  <2>1. UNCHANGED <<before, received, dispatcher, delivered, readNotificationQueue>>
    BY DEF packets, queues
  <2>2. \A v \in Writes : wstate[v] = "calledBack" => wstate'[v] = "calledBack"
    BY <1>1, <1>3
  <2>3. \A v \in AtTransport : wstate'[v] \in {"sent", "done", "posted", "calledBack"}
    BY <1>1, <1>3 DEF AtTransport
  <2> QED  BY <1>3, <1>4, <2>1, <2>2, <2>3, PacketFrame, DeliveredKept
<1> QED  BY <1>3, <1>4, <1>5, <1>6, <1>7 DEF IInv

(* The rest of the steps of a write leave the reads where they are, except  *)
(* for the packet that NfcCxTml_PostWriteCompletion passes inline.          *)
LEMMA DeferredWriteStep ==
  ASSUME IInv, NfcCxTml_DeferredWriteCompletion
  PROVE  IInv'
<1> USE DEF NfcCxTml_DeferredWriteCompletion, NextMessage
<1>1. /\ msgQueue \in Seq(Messages) /\ msgQueue # <<>> /\ msgQueue' = Tail(msgQueue)
      /\ Head(msgQueue) \in Messages /\ Head(msgQueue).kind = "write" /\ Tail(msgQueue) \in Seq(Messages)
  BY TailFacts DEF IInv, TypeOK
<1>2. PICK w \in Writes : w = Head(msgQueue).req /\ Head(msgQueue) = WriteMsg(w)
  BY <1>1, MessageFacts
<1>3. HasWrite(msgQueue, w) /\ ~HasWrite(msgQueue', w) /\ WriteOnce(msgQueue', w)
  <2>1. WriteOnce(msgQueue, w)
    BY DEF IInv, CompletedOnce
  <2> QED  BY <1>1, <1>2, <2>1, TailWrite
<1>4. \A v \in Writes : v # w => (HasWrite(msgQueue', v) <=> HasWrite(msgQueue, v)) /\ WriteOnce(msgQueue', v)
  <2> TAKE v \in Writes
  <2> HAVE v # w
  <2>1. Head(msgQueue) # WriteMsg(v)
    <3>1. WriteMsg(w).req = w /\ WriteMsg(v).req = v
      BY MessageFacts
    <3> QED  BY <1>2, <3>1
  <2>2. WriteOnce(msgQueue, v)
    BY DEF IInv, CompletedOnce
  <2> QED  BY <1>1, <2>1, <2>2, TailOther
<1>5. /\ lib' \in LibType /\ lib'.pc = "writeCb" /\ lib'.cur = w /\ lib'.sending = lib.sending
      /\ lib.pc = "idle" /\ lib.sending = NoWrite
  BY <1>2 DEF IInv, TypeOK, LibType
<1>6. lib.cur = NoWrite
  BY <1>5 DEF IInv, ThreadInv, TypeOK, LibType
<1>7. core' \in CoreType
  BY DEF IInv, TypeOK, CoreType
<1>8. UNCHANGED <<queues, writes, packets, dispatcher>>
  OBVIOUS
<1>9. TypeOK'
  BY <1>1, <1>5, <1>7 DEF IInv, TypeOK, queues, writes, packets, bounds
<1>10. ThreadInv'
  BY <1>5, <1>8, TmlAssumption DEF TmlAssumption, IInv, ThreadInv, packets
<1>11. ReferenceInv' /\ QueueInv' /\ WriteExclusion'
  <2>1. UNCHANGED <<wstate, refCount, writeQueue, isWriteCompletionPending>>
    BY <1>8 DEF queues, writes
  <2>2. ReferenceInv'
    BY <1>5, <2>1 DEF IInv, ReferenceInv
  <2>3. QueueInv'
    BY <2>1 DEF IInv, QueueInv
  <2>4. WriteExclusion'
    BY <1>5, <2>1 DEF IInv, WriteExclusion, AtTransport
  <2> QED  BY <2>2, <2>3, <2>4
<1>12. CompletedOnce'
  <2> SUFFICES ASSUME NEW v \in Writes
               PROVE  /\ WriteOnce(msgQueue', v)
                      /\ wstate'[v] = "posted" <=> HasWrite(msgQueue', v) \/ lib'.cur = v
                      /\ ~(HasWrite(msgQueue', v) /\ lib'.cur = v)
                      /\ wstate'[v] = "posted" => refCount'[v] = 0 /\ lib'.sending # v
    BY DEF CompletedOnce, HasWrite, WriteOnce, WriteMsg
  <2>0. /\ wstate[v] = "posted" <=> HasWrite(msgQueue, v) \/ lib.cur = v
        /\ wstate[v] = "posted" => refCount[v] = 0 /\ lib.sending # v
        /\ lib.cur # v
    BY <1>6, TmlAssumption DEF TmlAssumption, IInv, CompletedOnce
  <2>1. wstate' = wstate /\ refCount' = refCount
    BY DEF writes
  <2>2. CASE v = w
    BY <1>3, <1>5, <2>0, <2>1, <2>2
  <2>3. CASE v # w
    <3>1. (HasWrite(msgQueue', v) <=> HasWrite(msgQueue, v)) /\ WriteOnce(msgQueue', v) /\ lib'.cur # v
      BY <1>4, <1>5, <2>3
    <3> QED  BY <1>5, <2>0, <2>1, <3>1
  <2> QED  BY <2>2, <2>3
<1>13. PacketInv' /\ ResponseAfterWriteCallback'
  <2>1. ReadsCalledBack(msgQueue')
    BY <1>1, TailRead DEF IInv, PacketInv
  <2> QED  BY <1>8, <1>9, <2>1, PacketFrame, DeliveredKept DEF AtTransport, packets, queues, writes
<1> QED  BY <1>9, <1>10, <1>11, <1>12, <1>13 DEF IInv

LEMMA WriteCallbackStep ==
  ASSUME IInv, WriteCallbackReturn
  PROVE  IInv'
<1> USE DEF WriteCallbackReturn
<1>1. PICK w \in Writes : w = lib.cur
  BY DEF IInv, ThreadInv, TypeOK, LibType
<1>2. wstate[w] = "posted" /\ ~HasWrite(msgQueue, w) /\ refCount[w] = 0
  BY <1>1 DEF IInv, CompletedOnce
<1>3. /\ lib' \in LibType /\ lib'.pc = "postWrite" /\ lib'.cur = NoWrite
      /\ lib'.sending = NoWrite /\ lib.sending = NoWrite
  BY DEF IInv, TypeOK, LibType
<1>4. wstate' \in [Writes -> WriteStates] /\ wstate'[w] = "calledBack"
      /\ \A v \in Writes : v # w => wstate'[v] = wstate[v]
  BY <1>1 DEF IInv, TypeOK, WriteStates
<1>5. UNCHANGED <<queues, refCount, msgQueue, packets, dispatcher>>
  OBVIOUS
<1>6. TypeOK'
  BY <1>3, <1>4 DEF IInv, TypeOK, queues, packets, bounds
<1>7. ThreadInv'
  BY <1>3, <1>5 DEF IInv, ThreadInv, packets
<1>8. ReferenceInv' /\ QueueInv'
  BY <1>2, <1>3, <1>4, <1>5 DEF IInv, TypeOK, ReferenceInv, QueueInv, queues
<1>9. \A v \in Writes : wstate[v] \in {"sent", "done", "posted"} => v = w
  BY <1>2 DEF IInv, WriteExclusion, AtTransport
<1>10. CompletedOnce'
  <2> SUFFICES ASSUME NEW v \in Writes
               PROVE  /\ WriteOnce(msgQueue, v)
                      /\ wstate'[v] # "posted" /\ ~HasWrite(msgQueue, v) /\ lib'.cur # v
    BY <1>5 DEF CompletedOnce, HasWrite, WriteOnce, WriteMsg
  <2>1. lib'.cur # v /\ WriteOnce(msgQueue, v)
    BY <1>3, TmlAssumption DEF TmlAssumption, IInv, CompletedOnce
  <2>2. CASE v = w
    BY <1>2, <1>4, <2>1, <2>2
  <2>3. CASE v # w
    <3>1. wstate[v] # "posted" /\ wstate'[v] # "posted"
      BY <1>4, <1>9, <2>3
    <3> QED  BY <2>1, <3>1, NotPosted
  <2> QED  BY <2>2, <2>3
<1>11. WriteExclusion'
  <2>1. AtTransport' = {}
    BY <1>4, <1>9 DEF AtTransport
  <2>2. isWriteCompletionPending
    BY <1>2 DEF IInv, WriteExclusion, AtTransport
  <2> QED  BY <1>3, <1>5, <2>1, <2>2 DEF WriteExclusion, queues
<1>12. PacketInv' /\ ResponseAfterWriteCallback'
  <2>1. ReadsCalledBack(msgQueue')
    BY <1>5 DEF IInv, PacketInv, ReadsCalledBack
  <2>2. \A v \in Writes : wstate[v] = "calledBack" => wstate'[v] = "calledBack"
    BY <1>4
  <2>3. \A v \in AtTransport : wstate'[v] \in {"sent", "done", "posted", "calledBack"}
    BY <1>4 DEF AtTransport
  <2> QED  BY <1>5, <1>6, <2>1, <2>2, <2>3, PacketFrame, DeliveredKept DEF packets, queues
<1> QED  BY <1>6, <1>7, <1>8, <1>10, <1>11, <1>12 DEF IInv

(* phTmlNfc_Write: the write waits, or goes to an idle transport.           *)
LEMMA WriteStep ==
  ASSUME IInv, NEW w \in Writes, phTmlNfc_Write(w)
  PROVE  IInv'
<1> USE DEF phTmlNfc_Write
<1>1. /\ wstate[w] = "none" /\ lib.sending = NoWrite
      /\ lib.pc \in {"idle", "readCb", "inlineReadCb", "writeCb"}
      /\ UNCHANGED <<interfaceState, readQueue, readNotificationQueue, msgQueue, dispatcher,
                     packets, deviceFailed, bounds>>
      /\ core' \in CoreType /\ session' \in [Writes -> 0 .. MaxRestarts]
  BY DEF IInv, TypeOK, CoreType
<1>2. wstate \in [Writes -> WriteStates] /\ refCount \in [Writes -> 0 .. 2]
      /\ writeQueue \in Seq(Writes) /\ lib \in LibType
  BY DEF IInv, TypeOK
<1>3. \A i \in DOMAIN writeQueue : writeQueue[i] # w
  BY <1>1 DEF IInv, QueueInv
<1>4. CASE /\ writeQueue' = Append(writeQueue, w)
           /\ wstate' = [wstate EXCEPT ![w] = "queued"]
           /\ refCount' = [refCount EXCEPT ![w] = 1]
           /\ UNCHANGED <<isWriteCompletionPending, lib>>
  <2>1. wstate' \in [Writes -> WriteStates] /\ wstate'[w] = "queued"
        /\ \A v \in Writes : v # w => wstate'[v] = wstate[v] /\ refCount'[v] = refCount[v]
    BY <1>2, <1>4 DEF WriteStates
  <2>2. refCount' \in [Writes -> 0 .. 2] /\ writeQueue' \in Seq(Writes)
    BY <1>2, <1>4
  <2>3. TypeOK'
    BY <1>1, <1>4, <2>1, <2>2 DEF IInv, TypeOK, packets, bounds
  <2>4. ThreadInv'
    BY <1>1, <1>4 DEF IInv, ThreadInv, packets
  <2>5. ReferenceInv'
    BY <1>1, <1>2, <1>4, <2>1 DEF IInv, ReferenceInv, LibType
  <2>6. QueueInv'
    <3>1. \A i \in DOMAIN writeQueue : writeQueue[i] \in Writes
      BY <1>2
    <3> QED  BY <1>2, <1>3, <1>4, <2>1, <3>1, AppendFacts DEF IInv, QueueInv
  <2>7. CompletedOnce'
    <3> SUFFICES ASSUME NEW v \in Writes
                 PROVE  /\ WriteOnce(msgQueue, v)
                        /\ wstate'[v] = "posted" <=> HasWrite(msgQueue, v) \/ lib.cur = v
                        /\ ~(HasWrite(msgQueue, v) /\ lib.cur = v)
                        /\ wstate'[v] = "posted" => refCount'[v] = 0 /\ lib.sending # v
      BY <1>1, <1>4 DEF CompletedOnce, HasWrite, WriteOnce, WriteMsg
    <3>1. CASE v = w
      BY <1>1, <2>1, <3>1, NotPosted DEF IInv, CompletedOnce
    <3>2. CASE v # w
      BY <2>1, <3>2 DEF IInv, CompletedOnce
    <3> QED  BY <3>1, <3>2
  <2>8. AtTransport' = AtTransport
    BY <1>1, <2>1 DEF AtTransport
  <2>9. WriteExclusion'
    BY <1>4, <2>8 DEF IInv, WriteExclusion
  <2>10. PacketInv' /\ ResponseAfterWriteCallback'
    <3>1. ReadsCalledBack(msgQueue')
      BY <1>1 DEF IInv, PacketInv, ReadsCalledBack
    <3>2. \A v \in Writes : wstate[v] = "calledBack" => wstate'[v] = "calledBack"
      BY <1>1, <2>1
    <3>3. \A v \in AtTransport : wstate'[v] \in {"sent", "done", "posted", "calledBack"}
      BY <2>8 DEF AtTransport
    <3> QED  BY <1>1, <2>3, <3>1, <3>2, <3>3, PacketFrame, DeliveredKept DEF packets
  <2> QED  BY <2>3, <2>4, <2>5, <2>6, <2>7, <2>9, <2>10 DEF IInv
<1>5. CASE /\ ~WriteBusy
           /\ isWriteCompletionPending' = TRUE
           /\ HandToTransport(w)
           /\ lib' = [lib EXCEPT !.sending = w]
           /\ UNCHANGED writeQueue
  <2>1. AtTransport = {}
    BY <1>5, NotPending DEF WriteBusy
  <2>2. /\ lib' \in LibType /\ lib'.pc = lib.pc /\ lib'.pc # "postWrite"
        /\ lib'.cur = lib.cur /\ lib'.sending = w
    BY <1>1, <1>2, <1>5 DEF LibType
  <2>3. /\ wstate' \in [Writes -> WriteStates] /\ refCount' \in [Writes -> 0 .. 2]
        /\ wstate'[w] \in {"sent", "done"} /\ \A v \in Writes : v # w => wstate'[v] = wstate[v]
        /\ ReferenceInv' /\ CompletedOnce' /\ WriteExclusion'
    BY <1>1, <1>5, <2>1, <2>2, HandStep
  <2>4. TypeOK'
    BY <1>1, <1>5, <2>2, <2>3 DEF IInv, TypeOK, packets, bounds
  <2>5. ThreadInv'
    BY <1>1, <2>2 DEF IInv, ThreadInv, packets
  <2>6. QueueInv'
    BY <1>2, <1>3, <1>5, <2>3 DEF IInv, QueueInv
  <2>7. PacketInv' /\ ResponseAfterWriteCallback'
    <3>1. ReadsCalledBack(msgQueue')
      BY <1>1 DEF IInv, PacketInv, ReadsCalledBack
    <3>2. \A v \in Writes : wstate[v] = "calledBack" => wstate'[v] = "calledBack"
      BY <1>1, <2>3
    <3> QED  BY <1>1, <2>1, <2>4, <3>1, <3>2, PacketFrame, DeliveredKept DEF packets
  <2> QED  BY <2>3, <2>4, <2>5, <2>6, <2>7 DEF IInv
<1> QED  BY <1>4, <1>5

LEMMA CoreReleaseStep ==
  ASSUME IInv, CoreRelease
  PROVE  IInv'
<1> USE DEF CoreRelease, phTmlNfc_WriteAbort, phTmlNfc_ReadAbort
<1>1. UNCHANGED <<interfaceState, isWriteCompletionPending, refCount, session, msgQueue, lib,
                  dispatcher, packets, deviceFailed, timeouts, readNotificationQueue>>
  OBVIOUS
<1>2. /\ wstate' \in [Writes -> WriteStates]
      /\ \A w \in Writes : wstate'[w] = IF wstate[w] = "queued" THEN "aborted" ELSE wstate[w]
  BY DEF IInv, TypeOK, WriteStates
<1>3. /\ restarts' \in 0 .. MaxRestarts /\ readQueue' \in Nat
      /\ writeQueue' \in Seq(Writes) /\ core' \in CoreType
  BY TmlAssumption DEF TmlAssumption, IInv, TypeOK, CoreType, CoreDown
<1>4. TypeOK'
  BY <1>1, <1>2, <1>3 DEF IInv, TypeOK, packets
<1>5. ThreadInv' /\ QueueInv'
  BY <1>1 DEF IInv, ThreadInv, QueueInv, packets
<1>6. ReferenceInv'
  BY <1>1, <1>2 DEF IInv, TypeOK, LibType, ReferenceInv
<1>7. CompletedOnce'
  BY <1>1, <1>2 DEF IInv, CompletedOnce, HasWrite, WriteOnce, WriteMsg
<1>8. AtTransport' = AtTransport
  BY <1>2 DEF AtTransport
<1>9. WriteExclusion'
  BY <1>1, <1>8 DEF IInv, WriteExclusion
<1>10. PacketInv' /\ ResponseAfterWriteCallback'
  <2>1. ReadsCalledBack(msgQueue')
    BY <1>1 DEF IInv, PacketInv, ReadsCalledBack
  <2>2. \A v \in Writes : wstate[v] = "calledBack" => wstate'[v] = "calledBack"
    BY <1>2
  <2>3. \A v \in AtTransport : wstate'[v] \in {"sent", "done", "posted", "calledBack"}
    BY <1>2 DEF AtTransport
  <2> QED  BY <1>1, <1>4, <2>1, <2>2, <2>3, PacketFrame, DeliveredKept DEF packets
<1> QED  BY <1>4, <1>5, <1>6, <1>7, <1>9, <1>10 DEF IInv

(* ProcessWrite sends a queued write only while the transport is idle.      *)
LEMMA ProcessWriteStep ==
  ASSUME IInv, NEW pending \in BOOLEAN, ProcessWrite(pending), lib.pc \in {"postWrite", "processWrite"},
         lib.pc = "postWrite" => pending = FALSE,
         lib.pc = "processWrite" => pending = isWriteCompletionPending,
         UNCHANGED <<interfaceState, readQueue, readNotificationQueue, msgQueue, dispatcher,
                     packets, core, deviceFailed, bounds>>
  PROVE  IInv'
<1>1. lib.sending = NoWrite /\ lib.cur = NoWrite
  BY DEF IInv, TypeOK, LibType, ThreadInv
<1>2. wstate \in [Writes -> WriteStates] /\ refCount \in [Writes -> 0 .. 2]
      /\ writeQueue \in Seq(Writes) /\ lib \in LibType
  BY DEF IInv, TypeOK
<1>3. CASE /\ SendsQueued(pending)
           /\ writeQueue' = Tail(writeQueue)
           /\ isWriteCompletionPending' = TRUE
           /\ HandToTransport(Head(writeQueue))
           /\ UNCHANGED session
           /\ lib' = [lib EXCEPT !.pc = "idle", !.sending = Head(writeQueue)]
  <2>1. AtTransport = {}
    BY <1>3, NotPending DEF SendsQueued, IInv, WriteExclusion
  <2>2. PICK w \in Writes : /\ w = Head(writeQueue) /\ w = writeQueue[1] /\ wstate[w] = "queued"
                           /\ 1 \in DOMAIN writeQueue /\ writeQueue # <<>>
    BY <1>2, <1>3, TailFacts DEF SendsQueued, IInv, QueueInv
  <2>3. /\ lib' \in LibType /\ lib'.pc = "idle" /\ lib'.cur = NoWrite /\ lib'.sending = w
    BY <1>1, <1>2, <1>3, <2>2 DEF LibType
  <2>4. /\ wstate' \in [Writes -> WriteStates] /\ refCount' \in [Writes -> 0 .. 2]
        /\ wstate'[w] \in {"sent", "done"} /\ \A v \in Writes : v # w => wstate'[v] = wstate[v]
        /\ ReferenceInv' /\ CompletedOnce' /\ WriteExclusion'
    <3>1. HandToTransport(w)
      BY <1>3, <2>2
    <3> QED  BY <1>1, <1>3, <2>1, <2>2, <2>3, <3>1, HandStep
  <2>5. writeQueue' \in Seq(Writes)
    BY <1>2, <1>3, <2>2, TailFacts
  <2>6. TypeOK'
    BY <1>3, <2>3, <2>4, <2>5 DEF IInv, TypeOK, packets, bounds
  <2>7. ThreadInv'
    BY <2>3, TmlAssumption DEF TmlAssumption, IInv, ThreadInv, packets
  <2>8. QueueInv'
    <3>1. \A i \in DOMAIN writeQueue' : /\ i + 1 \in DOMAIN writeQueue /\ i \in Int \ {0}
                                        /\ writeQueue'[i] = writeQueue[i + 1]
      BY <1>2, <1>3, <2>2, TailFacts
    <3>2. \A i \in DOMAIN writeQueue' : writeQueue'[i] # w /\ writeQueue'[i] \in Writes
      BY <1>2, <2>2, <3>1 DEF IInv, QueueInv
    <3>3. \A i \in DOMAIN writeQueue' : wstate'[writeQueue'[i]] = "queued"
      BY <2>4, <3>1, <3>2 DEF IInv, QueueInv
    <3> QED  BY <3>1, <3>3 DEF IInv, QueueInv
  <2>9. PacketInv' /\ ResponseAfterWriteCallback'
    <3>1. ReadsCalledBack(msgQueue')
      BY DEF IInv, PacketInv, ReadsCalledBack
    <3>2. \A v \in Writes : wstate[v] = "calledBack" => wstate'[v] = "calledBack"
      BY <2>2, <2>4
    <3> QED  BY <2>1, <2>6, <3>1, <3>2, PacketFrame, DeliveredKept DEF packets
  <2> QED  BY <2>4, <2>6, <2>7, <2>8, <2>9 DEF IInv
<1>4. CASE /\ isWriteCompletionPending' = pending
           /\ lib' = [lib EXCEPT !.pc = "idle"]
           /\ UNCHANGED <<writeQueue, writes>>
  <2>1. /\ lib' \in LibType /\ lib'.pc = "idle" /\ lib'.cur = NoWrite /\ lib'.sending = NoWrite
        /\ UNCHANGED <<wstate, refCount, session, writeQueue>>
    BY <1>1, <1>2, <1>4 DEF LibType, writes
  <2>2. TypeOK'
    BY <1>4, <2>1 DEF IInv, TypeOK, packets, bounds
  <2>3. ThreadInv'
    BY <2>1 DEF IInv, ThreadInv, packets
  <2>4. ReferenceInv' /\ QueueInv'
    BY <1>1, <2>1 DEF IInv, ReferenceInv, QueueInv
  <2>5. CompletedOnce'
    BY <1>1, <2>1 DEF IInv, CompletedOnce, HasWrite, WriteOnce, WriteMsg
  <2>6. WriteExclusion'
    BY <1>4, <2>1 DEF IInv, WriteExclusion, AtTransport
  <2>7. PacketInv' /\ ResponseAfterWriteCallback'
    <3>1. ReadsCalledBack(msgQueue')
      BY DEF IInv, PacketInv, ReadsCalledBack
    <3> QED  BY <2>1, <2>2, <3>1, PacketFrame, DeliveredKept DEF packets, AtTransport
  <2> QED  BY <2>2, <2>3, <2>4, <2>5, <2>6, <2>7 DEF IInv
<1> QED  BY <1>3, <1>4 DEF ProcessWrite

LEMMA PostWriteStep ==
  ASSUME IInv, NfcCxTml_PostWriteCompletion
  PROVE  IInv'
<1> USE DEF NfcCxTml_PostWriteCompletion
<1>1. lib.pc = "postWrite" /\ lib.sending = NoWrite /\ lib.cur = NoWrite /\ AtTransport = {}
  BY DEF IInv, TypeOK, LibType, ThreadInv, WriteExclusion
<1>2. CASE ProcessWrite(FALSE) /\ UNCHANGED <<readQueue, readNotificationQueue, delivered, core, deviceFailed>>
  BY <1>1, <1>2, ProcessWriteStep DEF packets
<1>3. CASE /\ InlineRead
           /\ isWriteCompletionPending' = FALSE
           /\ readQueue' = readQueue - 1
           /\ readNotificationQueue' = Tail(readNotificationQueue)
           /\ \/ /\ deviceFailed' = TRUE
                 /\ lib' = [lib EXCEPT !.pc = "idle"]
                 /\ UNCHANGED <<delivered, core>>
              \/ /\ delivered' = Append(delivered, Head(readNotificationQueue))
                 /\ lib' = [lib EXCEPT !.pc = "inlineReadCb"]
                 /\ ProcessPacket
                 /\ UNCHANGED deviceFailed
           /\ UNCHANGED <<writeQueue, writes>>
  <2>1. UNCHANGED <<interfaceState, msgQueue, dispatcher, received, before, bounds,
                    wstate, refCount, session, writeQueue>>
    BY <1>3 DEF writes
  <2>2. readNotificationQueue \in Seq(Packets) /\ readNotificationQueue # <<>> /\ readQueue' \in Nat
    BY <1>3 DEF InlineRead, IInv, TypeOK
  <2>3. /\ readNotificationQueue' \in Seq(Packets) /\ Arrived(readNotificationQueue')
        /\ Head(readNotificationQueue) \in Packets /\ CalledBackBefore(Head(readNotificationQueue))
    <3>1. Head(readNotificationQueue) \in 1 .. received /\ Arrived(readNotificationQueue')
      BY <1>3, <2>2, TailFacts, DeliveredKept DEF Arrived
    <3> QED  BY <1>1, <1>3, <2>2, <3>1, TailFacts, QuietPackets
  <2>4. delivered' \in Seq(Packets) /\ \A i \in DOMAIN delivered' : CalledBackBefore(delivered'[i])
    <3>1. delivered \in Seq(Packets)
      BY DEF IInv, TypeOK
    <3>2. CASE delivered' = delivered
      BY <3>1, <3>2, DeliveredKept
    <3>3. CASE delivered' = Append(delivered, Head(readNotificationQueue))
      BY <2>3, <3>1, <3>3, AppendFacts, DeliveredKept
    <3> QED  BY <1>3, <3>2, <3>3
  <2>5. /\ lib' \in LibType /\ lib'.pc \in {"idle", "inlineReadCb"}
        /\ lib'.cur = NoWrite /\ lib'.sending = NoWrite
    BY <1>1, <1>3 DEF IInv, TypeOK, LibType
  <2>6. core' \in CoreType /\ deviceFailed' \in BOOLEAN
    BY <1>3 DEF IInv, TypeOK, CoreType, ProcessPacket
  <2>7. TypeOK'
    BY <1>3, <2>1, <2>2, <2>3, <2>4, <2>5, <2>6 DEF IInv, TypeOK, bounds
  <2>8. ThreadInv'
    BY <2>1, <2>5 DEF IInv, ThreadInv
  <2>9. ReferenceInv' /\ QueueInv'
    BY <1>1, <2>1, <2>5 DEF IInv, ReferenceInv, QueueInv
  <2>10. CompletedOnce'
    BY <1>1, <2>1, <2>5 DEF IInv, CompletedOnce, HasWrite, WriteOnce, WriteMsg
  <2>11. WriteExclusion'
    BY <1>1, <1>3, <2>1, <2>5 DEF IInv, WriteExclusion, AtTransport
  <2>12. PacketInv' /\ ResponseAfterWriteCallback'
    <3>1. ReadsCalledBack(msgQueue')
      BY <2>1 DEF IInv, PacketInv, ReadsCalledBack
    <3> QED  BY <2>1, <2>3, <2>4, <2>7, <3>1, PacketFrame DEF AtTransport
  <2> QED  BY <2>7, <2>8, <2>9, <2>10, <2>11, <2>12 DEF IInv
<1> QED  BY <1>2, <1>3

LEMMA PostWriteProcessStep ==
  ASSUME IInv, PostWriteProcessWrite
  PROVE  IInv'
<1>1. /\ lib.pc = "processWrite" /\ ProcessWrite(isWriteCompletionPending)
      /\ UNCHANGED <<interfaceState, readQueue, readNotificationQueue, msgQueue, dispatcher,
                     packets, core, deviceFailed, bounds>>
  BY DEF PostWriteProcessWrite
<1>2. isWriteCompletionPending \in BOOLEAN
  BY DEF IInv, TypeOK
<1> QED  BY <1>1, <1>2, ProcessWriteStep

-----------------------------------------------------------------------------
(* The order of the packets *)

(* A message that is no read leaves the reads in the queue alone.           *)
LEMMA AppendNoRead ==
  ASSUME NEW s \in Seq(Messages), NEW m \in Messages, m.kind # "read"
  PROVE  /\ NoneIn(s) => NoneIn(Append(s, m))
         /\ \A p : OneIn(s, p) => OneIn(Append(s, m), p)
<1>1. NoneIn(s) => NoneIn(Append(s, m))
  BY AppendFacts DEF NoneIn
<1>2. ASSUME NEW p, OneIn(s, p) PROVE OneIn(Append(s, m), p)
  <2>1. PICK i \in DOMAIN s : /\ s[i].kind = "read" /\ s[i].pkt = p
                              /\ \A j \in DOMAIN s : s[j].kind = "read" => j = i
    BY <1>2 DEF OneIn
  <2>2. i \in DOMAIN Append(s, m) /\ Append(s, m)[i] = s[i]
    BY AppendFacts
  <2>3. \A j \in DOMAIN Append(s, m) : Append(s, m)[j].kind = "read" => j = i
    BY <2>1, AppendFacts
  <2> QED  BY <2>1, <2>2, <2>3 DEF OneIn
<1> QED  BY <1>1, <1>2

LEMMA AppendIsRead ==
  ASSUME NEW s \in Seq(Messages), NEW m \in Messages, m.kind = "read", NoneIn(s)
  PROVE  OneIn(Append(s, m), m.pkt)
<1>1. /\ Len(s) + 1 \in DOMAIN Append(s, m) /\ Append(s, m)[Len(s) + 1] = m
      /\ \A j \in DOMAIN Append(s, m) : Append(s, m)[j].kind = "read" => j = Len(s) + 1
  BY AppendFacts DEF NoneIn
<1> QED  BY <1>1 DEF OneIn

LEMMA TailNoRead ==
  ASSUME NEW s \in Seq(Messages), s # <<>>, Head(s).kind # "read"
  PROVE  /\ NoneIn(s) => NoneIn(Tail(s))
         /\ \A p : OneIn(s, p) => OneIn(Tail(s), p)
<1>1. NoneIn(s) => NoneIn(Tail(s))
  BY TailFacts DEF NoneIn
<1>2. ASSUME NEW p, OneIn(s, p) PROVE OneIn(Tail(s), p)
  <2>1. PICK i \in DOMAIN s : /\ s[i].kind = "read" /\ s[i].pkt = p
                              /\ \A j \in DOMAIN s : s[j].kind = "read" => j = i
    BY <1>2 DEF OneIn
  <2>2. i - 1 \in DOMAIN Tail(s) /\ Tail(s)[i - 1] = s[i]
    BY <2>1, TailFacts
  <2>3. \A j \in DOMAIN Tail(s) : Tail(s)[j].kind = "read" => j + 1 = i /\ j \in Int
    BY <2>1, TailFacts
  <2>4. \A j \in DOMAIN Tail(s) : Tail(s)[j].kind = "read" => j = i - 1
    BY <2>3
  <2> QED  BY <2>1, <2>2, <2>4 DEF OneIn
<1> QED  BY <1>1, <1>2

LEMMA TailIsRead ==
  ASSUME NEW s \in Seq(Messages), s # <<>>, Head(s).kind = "read"
  PROVE  /\ ~NoneIn(s)
         /\ \A p : OneIn(s, p) => NoneIn(Tail(s)) /\ Head(s).pkt = p
<1>1. 1 \in DOMAIN s /\ Head(s) = s[1]
  BY TailFacts
<1>2. ~NoneIn(s)
  BY <1>1 DEF NoneIn
<1>3. ASSUME NEW p, OneIn(s, p) PROVE NoneIn(Tail(s)) /\ Head(s).pkt = p
  <2>1. s[1].pkt = p /\ \A j \in DOMAIN s : s[j].kind = "read" => j = 1
    BY <1>1, <1>3 DEF OneIn
  <2>2. \A j \in DOMAIN Tail(s) : Tail(s)[j].kind # "read"
    <3> SUFFICES ASSUME NEW j \in DOMAIN Tail(s), Tail(s)[j].kind = "read" PROVE FALSE
      OBVIOUS
    <3>1. j + 1 \in DOMAIN s /\ s[j + 1] = Tail(s)[j] /\ j \in Int \ {0}
      BY TailFacts
    <3>2. j + 1 = 1
      BY <2>1, <3>1
    <3> QED  BY <3>1, <3>2
  <2> QED  BY <1>1, <2>1, <2>2 DEF NoneIn
<1> QED  BY <1>2, <1>3

(* There is one initialisation in the queue, and while the core is up none. *)
NoInit(s) == \A i \in DOMAIN s : s[i] # InitMsg

LEMMA InitAppend ==
  ASSUME NEW s \in Seq(Messages), NEW m \in Messages, InitOnce(s)
  PROVE  /\ m # InitMsg => InitOnce(Append(s, m)) /\ (NoInit(s) => NoInit(Append(s, m)))
         /\ NoInit(s) => InitOnce(Append(s, m))
  BY AppendFacts DEF InitOnce, NoInit

LEMMA InitTail ==
  ASSUME NEW s \in Seq(Messages), s # <<>>, InitOnce(s)
  PROVE  /\ InitOnce(Tail(s))
         /\ NoInit(s) => NoInit(Tail(s))
         /\ Head(s) = InitMsg => NoInit(Tail(s))
<1>1. InitOnce(Tail(s))
  <2> SUFFICES ASSUME NEW i \in DOMAIN Tail(s), NEW j \in DOMAIN Tail(s),
                      Tail(s)[i] = InitMsg, Tail(s)[j] = InitMsg
               PROVE  i = j
    BY DEF InitOnce
  <2>1. /\ i + 1 \in DOMAIN s /\ s[i + 1] = InitMsg /\ j + 1 \in DOMAIN s /\ s[j + 1] = InitMsg
        /\ i \in Int /\ j \in Int
    BY TailFacts
  <2>2. i + 1 = j + 1
    BY <2>1 DEF InitOnce
  <2> QED  BY <2>1, <2>2
<1>2. NoInit(s) => NoInit(Tail(s))
  BY TailFacts DEF NoInit
<1>3. ASSUME Head(s) = InitMsg PROVE NoInit(Tail(s))
  <2> SUFFICES ASSUME NEW j \in DOMAIN Tail(s), Tail(s)[j] = InitMsg PROVE FALSE
    BY DEF NoInit
  <2>1. j + 1 \in DOMAIN s /\ s[j + 1] = InitMsg /\ j \in Int \ {0} /\ 1 \in DOMAIN s /\ s[1] = InitMsg
    BY <1>3, TailFacts
  <2>2. j + 1 = 1
    BY <2>1 DEF InitOnce
  <2> QED  BY <2>1, <2>2
<1> QED  BY <1>1, <1>2, <1>3

LEMMA InitInvAlt == InitInv <=> InitOnce(msgQueue) /\ (core.up => NoInit(msgQueue))
  BY DEF InitInv, NoInit

(* Another packet at the end of a counted queue, or taken from its head.    *)
LEMMA CountedFacts ==
  ASSUME NEW s \in Seq(Packets), NEW n \in Int, Counted(s, n)
  PROVE  /\ \A p \in Packets : p = n + Len(s) + 1 => Counted(Append(s, p), n)
         /\ s # <<>> => Head(s) = n + 1 /\ Counted(Tail(s), n + 1) /\ Len(Tail(s)) = Len(s) - 1
<1>1. ASSUME NEW p \in Packets, p = n + Len(s) + 1 PROVE Counted(Append(s, p), n)
  <2>1. Len(s) \in Nat
    OBVIOUS
  <2>2. n + (Len(s) + 1) = p
    BY <1>1, <2>1
  <2>3. /\ DOMAIN Append(s, p) = DOMAIN s \cup {Len(s) + 1} /\ Append(s, p)[Len(s) + 1] = p
        /\ \A i \in DOMAIN s : Append(s, p)[i] = s[i]
    BY AppendFacts
  <2> QED  BY <2>2, <2>3 DEF Counted
<1>2. ASSUME s # <<>> PROVE Head(s) = n + 1 /\ Counted(Tail(s), n + 1) /\ Len(Tail(s)) = Len(s) - 1
  <2>1. 1 \in DOMAIN s /\ Head(s) = s[1]
    BY <1>2, TailFacts
  <2>2. \A i \in DOMAIN Tail(s) : i \in Int /\ i + 1 \in DOMAIN s /\ Tail(s)[i] = s[i + 1]
    BY <1>2, TailFacts
  <2>3. \A i \in DOMAIN Tail(s) : Tail(s)[i] = n + (i + 1) /\ i \in Int
    BY <2>2 DEF Counted
  <2>4. \A i \in DOMAIN Tail(s) : Tail(s)[i] = n + 1 + i
    BY <2>3
  <2>5. Len(Tail(s)) = Len(s) - 1
    BY <1>2
  <2> QED  BY <2>1, <2>4, <2>5 DEF Counted
<1> QED  BY <1>1, <1>2

(* What the order amounts to while nothing disturbs it.                     *)
Ordered ==
  /\ Counted(delivered, 0) /\ Counted(readNotificationQueue, Taken)
  /\ OneRead /\ InitInv /\ NoIdlePacket

LEMMA OrderedInv == OrderInv <=> (core.fired => timeouts > 0) /\ (Disturbed \/ Ordered)
  BY DEF OrderInv, Ordered

LEMMA OrderTypes ==
  ASSUME TypeOK
  PROVE  /\ msgQueue \in Seq(Messages)
         /\ delivered \in Seq(Packets) /\ readNotificationQueue \in Seq(Packets)
         /\ received \in Nat /\ Len(delivered) \in Nat /\ Len(readNotificationQueue) \in Nat
         /\ Taken \in Int /\ readQueue \in Nat
         /\ timeouts \in Nat /\ restarts \in Nat
         /\ deviceFailed \in BOOLEAN /\ core.up \in BOOLEAN /\ core.fired \in BOOLEAN
<1>1. /\ msgQueue \in Seq(Messages) /\ received \in Nat /\ readQueue \in Nat
      /\ timeouts \in Nat /\ restarts \in Nat
      /\ deviceFailed \in BOOLEAN /\ core.up \in BOOLEAN /\ core.fired \in BOOLEAN
  BY TmlAssumption DEF TmlAssumption, TypeOK, CoreType
<1>2. delivered \in Seq(Packets) /\ readNotificationQueue \in Seq(Packets)
  BY DEF TypeOK
<1>3. Len(delivered) \in Nat /\ Len(readNotificationQueue) \in Nat
  BY <1>2
<1> QED  BY <1>1, <1>2, <1>3 DEF Taken

(* A step that moves no packet and opens no read.                           *)
LEMMA OrderFrame ==
  ASSUME IInv, OrderInv,
         UNCHANGED <<readQueue, readNotificationQueue, delivered, received>>,
         Posting' <=> Posting, dispatcher'.pkt = dispatcher.pkt \/ ~Posting,
         ReadingCb' <=> ReadingCb, core'.up <=> core.up, core'.fired => core.fired \/ timeouts' > 0,
         Disturbed => Disturbed', timeouts > 0 => timeouts' > 0,
         NoneIn(msgQueue) => NoneIn(msgQueue'),
         \A p : OneIn(msgQueue, p) => OneIn(msgQueue', p),
         ~Disturbed => InitInv', ~Disturbed => NoIdlePacket'
  PROVE  OrderInv'
<1>1. core'.fired => timeouts' > 0
  BY DEF OrderInv
<1>2. CASE Disturbed
  BY <1>1, <1>2 DEF OrderInv
<1>3. CASE Ordered
  <2>1. Taken' = Taken
    BY DEF Taken
  <2>2. Counted(delivered', 0) /\ Counted(readNotificationQueue', Taken')
    BY <1>3, <2>1 DEF Ordered
  <2>3. OneRead'
    <3> DEFINE next == Len(delivered) + 1
    <3>1. CASE /\ NoneIn(msgQueue) /\ ~Posting
               /\ Taken = next - 1
               /\ readQueue \in {0, 1}
               /\ readQueue = 1 => core.up /\ ~ReadingCb
               /\ ReadingCb => core.up
      BY <2>1, <3>1 DEF OneRead
    <3>2. CASE /\ Taken = next
               /\ readQueue = 0 /\ core.up /\ ~ReadingCb
               /\ \/ OneIn(msgQueue, next) /\ ~Posting
                  \/ NoneIn(msgQueue) /\ Posting /\ dispatcher.pkt = next
      BY <2>1, <3>2 DEF OneRead
    <3> QED  BY <1>3, <3>1, <3>2 DEF Ordered, OneRead
  <2>4. Disturbed \/ (InitInv' /\ NoIdlePacket')
    OBVIOUS
  <2> QED  BY <1>1, <1>2, <2>2, <2>3, <2>4 DEF OrderInv, Counted
<1> QED  BY <1>2, <1>3, OrderedInv

LEMMA NoIdleKept ==
  ASSUME NoIdlePacket, UNCHANGED <<readQueue, readNotificationQueue, deviceFailed>>,
         isWriteCompletionPending => isWriteCompletionPending'
  PROVE  NoIdlePacket'
  BY DEF NoIdlePacket

LEMMA DisturbedKept ==
  ASSUME UNCHANGED <<deviceFailed, bounds>>
  PROVE  Disturbed' <=> Disturbed
  BY DEF bounds, Disturbed

LEMMA CalmFacts ==
  ASSUME OrderInv, ~Disturbed
  PROVE  /\ NoIdlePacket /\ InitInv /\ InitOnce(msgQueue) /\ (core.up => NoInit(msgQueue))
         /\ OneRead /\ Counted(delivered, 0) /\ Counted(readNotificationQueue, Taken)
  BY InitInvAlt DEF OrderInv

(* The messages of the writes and of the core, and the callbacks of writes. *)
LEMMA OrderWriteSteps ==
  ASSUME IInv, IInv', OrderInv,
         \/ NfcCxTml_WriteReturn \/ WriteCallbackReturn
         \/ \E w \in Writes : phTmlNfc_Write(w) \/ NfcCxTml_WriteCompletion(w)
         \/ PostWriteProcessWrite
         \/ DispatchWaitTimeout \/ WriteWaitTimeout
         \/ NfcCxTmlInterfaceStart \/ NfcCxTmlInterfaceStop
         \/ UNCHANGED vars
  PROVE  OrderInv'
<1>0. /\ msgQueue \in Seq(Messages) /\ deviceFailed \in BOOLEAN /\ isWriteCompletionPending \in BOOLEAN
      /\ lib \in LibType /\ core \in CoreType /\ dispatcher \in DispatcherType
  BY DEF IInv, TypeOK
<1>1. /\ UNCHANGED <<readQueue, readNotificationQueue, delivered, received, bounds>>
      /\ deviceFailed => deviceFailed'
      /\ core'.up = core.up /\ core'.fired = core.fired
  BY <1>0 DEF NfcCxTml_WriteReturn, WriteCallbackReturn, phTmlNfc_Write, NfcCxTml_WriteCompletion,
     PostWriteProcessWrite, DispatchWaitTimeout, WriteWaitTimeout, NfcCxTmlInterfaceStart,
     NfcCxTmlInterfaceStop, vars, queues, packets, bounds, CoreType
<1>2. isWriteCompletionPending => isWriteCompletionPending'
  BY <1>0 DEF NfcCxTml_WriteReturn, WriteCallbackReturn, phTmlNfc_Write, NfcCxTml_WriteCompletion,
     PostWriteProcessWrite, ProcessWrite, DispatchWaitTimeout, WriteWaitTimeout,
     NfcCxTmlInterfaceStart, NfcCxTmlInterfaceStop, vars, queues
<1>3. ReadingCb' <=> ReadingCb
  BY <1>0 DEF ReadingCb, NfcCxTml_WriteReturn, WriteCallbackReturn, phTmlNfc_Write,
     NfcCxTml_WriteCompletion, PostWriteProcessWrite, ProcessWrite, DispatchWaitTimeout,
     WriteWaitTimeout, NfcCxTmlInterfaceStart, NfcCxTmlInterfaceStop, vars, LibType
<1>4. (Posting' <=> Posting) /\ (dispatcher'.pkt = dispatcher.pkt \/ ~Posting)
  BY <1>0 DEF Posting, NfcCxTml_WriteReturn, WriteCallbackReturn, phTmlNfc_Write,
     NfcCxTml_WriteCompletion, PostWriteProcessWrite, DispatchWaitTimeout, WriteWaitTimeout,
     NfcCxTmlInterfaceStart, NfcCxTmlInterfaceStop, vars, DispatcherIdle
<1>5. msgQueue' = msgQueue \/ \E w \in Writes : msgQueue' = Append(msgQueue, WriteMsg(w))
  <2>1. CASE NfcCxTml_WriteReturn
    BY <1>0, <2>1 DEF NfcCxTml_WriteReturn, DropReference, LibType
  <2>2. ASSUME NEW w \in Writes, phTmlNfc_Write(w) \/ NfcCxTml_WriteCompletion(w)
        PROVE  msgQueue' = msgQueue \/ msgQueue' = Append(msgQueue, WriteMsg(w))
    BY <2>2 DEF phTmlNfc_Write, NfcCxTml_WriteCompletion, DropReference
  <2>3. CASE \/ WriteCallbackReturn \/ PostWriteProcessWrite \/ DispatchWaitTimeout
             \/ WriteWaitTimeout \/ NfcCxTmlInterfaceStart \/ NfcCxTmlInterfaceStop
             \/ UNCHANGED vars
    BY <2>3 DEF WriteCallbackReturn, PostWriteProcessWrite, DispatchWaitTimeout, WriteWaitTimeout,
       NfcCxTmlInterfaceStart, NfcCxTmlInterfaceStop, vars
  <2> QED  BY <2>1, <2>2, <2>3
<1>6. /\ NoneIn(msgQueue) => NoneIn(msgQueue')
      /\ \A p : OneIn(msgQueue, p) => OneIn(msgQueue', p)
      /\ InitOnce(msgQueue) => InitOnce(msgQueue') /\ (NoInit(msgQueue) => NoInit(msgQueue'))
  <2>1. CASE msgQueue' = msgQueue
    BY <2>1
  <2>2. ASSUME NEW w \in Writes, msgQueue' = Append(msgQueue, WriteMsg(w))
        PROVE  <1>6!1 /\ <1>6!2 /\ <1>6!3
    <3>1. WriteMsg(w) \in Messages /\ WriteMsg(w).kind = "write" /\ WriteMsg(w) # InitMsg
      BY MessageFacts
    <3> QED  BY <1>0, <2>2, <3>1, AppendNoRead, InitAppend
  <2> QED  BY <1>5, <2>1, <2>2
<1>7. ASSUME ~Disturbed PROVE InitInv' /\ (NoIdlePacket' \/ deviceFailed')
  <2>1. InitInv'
    BY <1>1, <1>6, <1>7, CalmFacts, InitInvAlt DEF InitInv, NoInit
  <2>2. NoIdlePacket' \/ deviceFailed'
    BY <1>1, <1>2, <1>7, CalmFacts DEF NoIdlePacket
  <2> QED  BY <2>1, <2>2
<1>8. Disturbed => Disturbed'
  BY <1>1 DEF Disturbed, bounds
<1>9. ASSUME ~Disturbed PROVE NoIdlePacket'
  BY <1>7, <1>9 DEF NoIdlePacket
<1>10. timeouts' = timeouts
  BY <1>1 DEF bounds
<1> QED  BY <1>1, <1>3, <1>4, <1>6, <1>7, <1>8, <1>9, <1>10, OrderFrame

(* Messages of other kinds at the head of the queue.                        *)
LEMMA OrderTailSteps ==
  ASSUME IInv, IInv', OrderInv,
         NfcCxTml_DeferredWriteCompletion \/ (ResponseTimeout /\ ~core.fired)
  PROVE  OrderInv'
<1>0. msgQueue \in Seq(Messages) /\ lib \in LibType /\ core \in CoreType
  BY DEF IInv, TypeOK
<1>1. /\ UNCHANGED <<readQueue, readNotificationQueue, delivered, received, bounds, deviceFailed,
                     dispatcher, isWriteCompletionPending>>
      /\ core'.up = core.up /\ core'.fired = core.fired
      /\ msgQueue # <<>> /\ msgQueue' = Tail(msgQueue) /\ Head(msgQueue).kind \in {"write", "timer"}
  BY <1>0 DEF NfcCxTml_DeferredWriteCompletion, ResponseTimeout, NextMessage, queues, packets,
     CoreType, bounds
<1>2. ReadingCb' <=> ReadingCb
  BY <1>0 DEF NfcCxTml_DeferredWriteCompletion, ResponseTimeout, NextMessage, LibType, ReadingCb
<1>3. /\ NoneIn(msgQueue) => NoneIn(msgQueue')
      /\ \A p : OneIn(msgQueue, p) => OneIn(msgQueue', p)
      /\ InitOnce(msgQueue) => InitOnce(msgQueue') /\ (NoInit(msgQueue) => NoInit(msgQueue'))
  BY <1>0, <1>1, TailNoRead, InitTail
<1>4. ASSUME ~Disturbed PROVE InitInv' /\ NoIdlePacket'
  <2>1. InitInv'
    BY <1>1, <1>3, <1>4, CalmFacts, InitInvAlt DEF InitInv, NoInit
  <2> QED  BY <1>1, <1>4, <2>1, CalmFacts, NoIdleKept
<1>5. (Disturbed' <=> Disturbed) /\ timeouts' = timeouts /\ (Posting' <=> Posting)
  BY <1>1, DisturbedKept DEF bounds, Posting
<1> QED  BY <1>1, <1>2, <1>3, <1>4, <1>5, OrderFrame

(* After a timeout, a release or a failure nothing is said.                 *)
LEMMA OrderDisturbed ==
  ASSUME IInv, IInv', OrderInv, TimerFires \/ CoreRelease \/ (ResponseTimeout /\ core.fired)
  PROVE  OrderInv'
<1>1. timeouts \in Nat /\ restarts \in Nat /\ core \in CoreType
  BY TmlAssumption DEF TmlAssumption, IInv, TypeOK
<1>2. CASE TimerFires
  BY <1>1, <1>2 DEF TimerFires, OrderInv, Disturbed
<1>3. CASE CoreRelease
  <2>1. ~core'.fired /\ restarts' > 0
    BY <1>1, <1>3 DEF CoreRelease, CoreDown
  <2> QED  BY <2>1 DEF OrderInv, Disturbed
<1>4. CASE ResponseTimeout /\ core.fired
  BY <1>1, <1>4 DEF ResponseTimeout, OrderInv, Disturbed, bounds
<1> QED  BY <1>2, <1>3, <1>4

(* The initialisation is posted while the core is down and none is.         *)
LEMMA OrderRequestInit ==
  ASSUME IInv, IInv', OrderInv, RequestInit
  PROVE  OrderInv'
<1>0. msgQueue \in Seq(Messages) /\ core.up \in BOOLEAN
  BY DEF IInv, TypeOK, CoreType
<1>1. /\ UNCHANGED <<readQueue, readNotificationQueue, delivered, received, bounds, deviceFailed,
                     dispatcher, isWriteCompletionPending, core, lib>>
      /\ msgQueue' = Append(msgQueue, InitMsg) /\ NoInit(msgQueue) /\ ~core.up
  BY DEF RequestInit, queues, packets, NoInit
<1>2. /\ NoneIn(msgQueue) => NoneIn(msgQueue')
      /\ \A p : OneIn(msgQueue, p) => OneIn(msgQueue', p)
      /\ InitOnce(msgQueue) => InitOnce(msgQueue')
  BY <1>0, <1>1, MessageFacts, AppendNoRead, InitAppend
<1>3. ASSUME ~Disturbed PROVE InitInv' /\ NoIdlePacket'
  <2>1. InitInv'
    BY <1>1, <1>2, <1>3, CalmFacts DEF InitInv
  <2> QED  BY <1>1, <1>3, <2>1, CalmFacts, NoIdleKept
<1>4. (Disturbed' <=> Disturbed) /\ timeouts' = timeouts /\ (Posting' <=> Posting) /\ (ReadingCb' <=> ReadingCb)
  BY <1>1, DisturbedKept DEF bounds, Posting, ReadingCb
<1> QED  BY <1>1, <1>2, <1>3, <1>4, OrderFrame

(* A read that is opened takes the next packet or waits for it.             *)
LEMMA OpenRead ==
  ASSUME IInv, NEW s \in Seq(Messages), NfcCxTml_Read(s),
         NoneIn(s), InitOnce(s), NoInit(s),
         Counted(readNotificationQueue, Taken), Taken = Len(delivered), readQueue = 0,
         UNCHANGED <<delivered, received, isWriteCompletionPending>>,
         ~Posting', ~ReadingCb', core'.up \/ interfaceState = "stopped"
  PROVE  /\ Counted(readNotificationQueue', Taken') /\ OneRead'
         /\ InitOnce(msgQueue') /\ NoInit(msgQueue') /\ NoIdlePacket'
<1>0. /\ readNotificationQueue \in Seq(Packets) /\ Taken \in Int /\ received \in Nat
      /\ Len(delivered) \in Nat /\ restarts \in 0 .. MaxRestarts
      /\ Len(readNotificationQueue) \in Nat
  BY OrderTypes DEF IInv, TypeOK
<1>1. CASE interfaceState = "stopped" /\ msgQueue' = s /\ UNCHANGED <<readQueue, readNotificationQueue>>
  <2>1. Taken' = Taken
    BY <1>1 DEF Taken
  <2> QED  BY <1>0, <1>1, <2>1 DEF OneRead, NoIdlePacket
<1>2. CASE /\ interfaceState = "running" /\ PacketReady
           /\ msgQueue' = Append(s, ReadMsg(Head(readNotificationQueue), restarts, FALSE))
           /\ readNotificationQueue' = Tail(readNotificationQueue)
           /\ UNCHANGED readQueue
  <2> DEFINE p == Head(readNotificationQueue)
             m == ReadMsg(p, restarts, FALSE)
  <2>1. p = Taken + 1 /\ Counted(readNotificationQueue', Taken + 1)
        /\ Len(readNotificationQueue') = Len(readNotificationQueue) - 1
    BY <1>0, <1>2, CountedFacts DEF PacketReady
  <2>2. Taken' = Taken + 1
    BY <1>0, <2>1 DEF Taken
  <2>3. p \in Packets
    BY <1>0, <1>2, TailFacts DEF PacketReady
  <2>4. m \in Messages /\ m.kind = "read" /\ m.pkt = p /\ m # InitMsg
    BY <1>0, <2>3, MessageFacts
  <2> HIDE DEF m, p
  <2>5. OneIn(msgQueue', p)
    BY <1>2, <2>4, AppendIsRead DEF m, p
  <2>6. InitOnce(msgQueue') /\ NoInit(msgQueue')
    BY <1>2, <2>4, InitAppend DEF m, p
  <2>7. p = Len(delivered') + 1 /\ Taken' = Len(delivered') + 1
    BY <1>0, <2>1, <2>2 DEF p
  <2>8. OneRead'
    BY <1>2, <2>5, <2>7 DEF OneRead
  <2>9. NoIdlePacket'
    BY <1>2 DEF NoIdlePacket
  <2> QED  BY <2>1, <2>2, <2>6, <2>8, <2>9
<1>3. CASE /\ interfaceState = "running" /\ ~PacketReady
           /\ readQueue' = readQueue + 1 /\ msgQueue' = s
           /\ UNCHANGED readNotificationQueue
  <2>1. Taken' = Taken /\ readQueue' = 1
    BY <1>3 DEF Taken
  <2>2. NoIdlePacket'
    BY <1>3 DEF NoIdlePacket, PacketReady
  <2> QED  BY <1>0, <1>3, <2>1, <2>2 DEF OneRead
<1> QED  BY <1>1, <1>2, <1>3 DEF NfcCxTml_Read

LEMMA OrderReadCallback ==
  ASSUME IInv, IInv', OrderInv, ReadCallbackReturn
  PROVE  OrderInv'
<1> USE DEF ReadCallbackReturn
<1>0. /\ msgQueue \in Seq(Messages) /\ lib \in LibType /\ dispatcher \in DispatcherType
      /\ Taken \in Int /\ Len(delivered) \in Nat
  BY OrderTypes DEF IInv, TypeOK
<1>1. /\ UNCHANGED <<isWriteCompletionPending, delivered, received, core, deviceFailed, bounds>>
      /\ ReadingCb /\ ~ReadingCb'
  BY <1>0 DEF packets, ReadingCb, LibType
<1>2. Disturbed' <=> Disturbed
  BY <1>1, DisturbedKept
<1>3. CASE Disturbed
  BY <1>1, <1>2, <1>3 DEF OrderInv, bounds
<1>4. CASE ~Disturbed
  <2>1. /\ NoneIn(msgQueue) /\ ~Posting /\ Taken = Len(delivered) /\ readQueue = 0 /\ core.up
    BY <1>0, <1>1, <1>4, CalmFacts DEF OneRead
  <2>2. ~Posting'
    BY <2>1 DEF Signal, Posting, DispatcherIdle
  <2>3. NfcCxTml_Read(msgQueue)
    BY <2>1 DEF phNciNfc_CoreRecv
  <2>4. /\ Counted(readNotificationQueue', Taken') /\ OneRead'
        /\ InitOnce(msgQueue') /\ NoInit(msgQueue') /\ NoIdlePacket'
    BY <1>0, <1>1, <1>4, <2>1, <2>2, <2>3, CalmFacts, OpenRead
  <2>5. InitInv'
    BY <2>4 DEF InitInv, NoInit
  <2>6. Counted(delivered', 0)
    BY <1>1, <1>4, CalmFacts
  <2> QED  BY <1>1, <2>4, <2>5, <2>6 DEF OrderInv, bounds
<1> QED  BY <1>3, <1>4

LEMMA OrderCoreInit ==
  ASSUME IInv, IInv', OrderInv, CoreInit
  PROVE  OrderInv'
<1> USE DEF CoreInit, NextMessage
<1>0. /\ msgQueue \in Seq(Messages) /\ lib \in LibType /\ core \in CoreType
      /\ interfaceState \in {"stopped", "running"}
      /\ Taken \in Int /\ Len(delivered) \in Nat
  BY OrderTypes DEF IInv, TypeOK
<1>1. /\ UNCHANGED <<isWriteCompletionPending, delivered, received, deviceFailed, bounds, dispatcher, lib>>
      /\ (core'.up <=> interfaceState = "running") /\ core'.fired = core.fired /\ ~ReadingCb'
      /\ msgQueue # <<>> /\ Head(msgQueue).kind = "init"
  BY <1>0 DEF packets, ReadingCb, CoreType
<1>2. Disturbed' <=> Disturbed
  BY <1>1, DisturbedKept
<1>3. CASE Disturbed
  BY <1>1, <1>2, <1>3 DEF OrderInv, bounds
<1>4. CASE ~Disturbed
  <2>1. Head(msgQueue) = InitMsg
    <3>1. Head(msgQueue) \in Messages
      BY <1>0, <1>1, TailFacts
    <3> QED  BY <1>1, <3>1 DEF Messages, InitMsg, TimerMsg
  <2>2. ~core.up
    BY <1>0, <1>1, <1>4, <2>1, CalmFacts, TailFacts DEF NoInit
  <2>3. NoneIn(msgQueue) /\ ~Posting /\ Taken = Len(delivered) /\ readQueue = 0
    BY <1>0, <1>4, <2>2, CalmFacts DEF OneRead
  <2>4. Tail(msgQueue) \in Seq(Messages) /\ NoneIn(Tail(msgQueue))
        /\ InitOnce(Tail(msgQueue)) /\ NoInit(Tail(msgQueue))
    BY <1>0, <1>1, <1>4, <2>1, <2>3, CalmFacts, TailNoRead, InitTail, TailFacts
  <2>5. ~Posting'
    BY <1>1, <2>3 DEF Posting
  <2>6. core'.up \/ interfaceState = "stopped"
    BY <1>0, <1>1
  <2>7. /\ Counted(readNotificationQueue', Taken') /\ OneRead'
        /\ InitOnce(msgQueue') /\ NoInit(msgQueue') /\ NoIdlePacket'
    BY <1>1, <1>4, <2>3, <2>4, <2>5, <2>6, CalmFacts, OpenRead
  <2>8. InitInv'
    BY <2>7 DEF InitInv, NoInit
  <2>9. Counted(delivered', 0)
    BY <1>1, <1>4, CalmFacts
  <2> QED  BY <1>1, <2>7, <2>8, <2>9 DEF OrderInv, bounds
<1> QED  BY <1>3, <1>4

(* The packet that was taken from its read is posted.                       *)
LEMMA OrderDispatchPost ==
  ASSUME IInv, IInv', OrderInv, DispatchPost
  PROVE  OrderInv'
<1>1. PICK waited \in BOOLEAN :
        /\ msgQueue' = Append(msgQueue, ReadMsg(dispatcher.pkt, dispatcher.ctx, waited))
        /\ dispatcher' = IF waited THEN [dispatcher EXCEPT !.pc = "waiting"] ELSE DispatcherIdle
  BY DEF DispatchPost
<1> DEFINE m == ReadMsg(dispatcher.pkt, dispatcher.ctx, waited)
<1>2. m \in Messages /\ m.kind = "read" /\ m.pkt = dispatcher.pkt /\ m # InitMsg
  <2>1. IInv /\ DispatchPost
    OBVIOUS
  <2> HIDE DEF m
  <2>2. dispatcher.pkt \in Packets /\ dispatcher.ctx \in 0 .. MaxRestarts
    <3>1. dispatcher \in DispatcherType /\ dispatcher.pkt \in 1 .. received /\ received \in 0 .. MaxPackets
      BY <2>1 DEF DispatchPost, IInv, TypeOK, ThreadInv
    <3> QED  BY <3>1, TmlAssumption DEF DispatcherType, Packets, TmlAssumption
  <2>3. m \in Messages /\ m.kind = "read" /\ m.pkt = dispatcher.pkt
    BY <2>2, MessageFacts DEF m
  <2> QED  BY <2>3, MessageFacts
<1>3. /\ msgQueue \in Seq(Messages) /\ dispatcher \in DispatcherType
      /\ UNCHANGED <<readQueue, readNotificationQueue, isWriteCompletionPending, delivered, received,
                     core, deviceFailed, bounds, lib>>
      /\ Posting
  BY DEF DispatchPost, IInv, TypeOK, queues, packets, Posting
<1>4. ~Posting'
  BY <1>1, <1>3 DEF Posting, DispatcherIdle, DispatcherType
<1>5. Disturbed' <=> Disturbed
  BY <1>3, DisturbedKept
<1>6. CASE Disturbed
  BY <1>3, <1>5, <1>6 DEF OrderInv, bounds
<1>7. CASE ~Disturbed
  <2> HIDE DEF m
  <2>1. /\ NoneIn(msgQueue) /\ dispatcher.pkt = Len(delivered) + 1 /\ Taken = Len(delivered) + 1
        /\ readQueue = 0 /\ core.up /\ ~ReadingCb
    BY <1>3, <1>7, CalmFacts DEF OneRead
  <2>2. OneIn(msgQueue', dispatcher.pkt)
    BY <1>1, <1>2, <1>3, <2>1, AppendIsRead DEF m
  <2>3. InitOnce(msgQueue') /\ NoInit(msgQueue')
    BY <1>1, <1>2, <1>3, <1>7, <2>1, InitAppend, CalmFacts DEF m
  <2>4. Taken' = Taken /\ ~ReadingCb'
    BY <1>3, <2>1 DEF Taken, ReadingCb
  <2>5. OneRead'
    BY <1>3, <1>4, <2>1, <2>2, <2>4 DEF OneRead
  <2>6. InitInv' /\ NoIdlePacket'
    BY <1>3, <1>7, <2>3, CalmFacts, NoIdleKept DEF InitInv, NoInit
  <2>7. Counted(delivered', 0) /\ Counted(readNotificationQueue', Taken')
    BY <1>3, <1>7, <2>4, CalmFacts
  <2> QED  BY <1>3, <2>5, <2>6, <2>7 DEF OrderInv, bounds
<1> QED  BY <1>6, <1>7

(* A new packet takes the open read only when no other packet waits.        *)
LEMMA OrderDispatch ==
  ASSUME IInv, IInv', OrderInv, NfcCxTmlDispatchReadNotification
  PROVE  OrderInv'
<1> USE DEF NfcCxTmlDispatchReadNotification
<1>0. /\ readNotificationQueue \in Seq(Packets) /\ Taken \in Int /\ received \in Nat
      /\ Len(delivered) \in Nat /\ Len(readNotificationQueue) \in Nat /\ readQueue \in Nat
      /\ received' = received + 1 /\ received' \in Packets
  BY OrderTypes, TmlAssumption DEF IInv, Packets, TmlAssumption
<1>1. /\ UNCHANGED <<msgQueue, isWriteCompletionPending, delivered, core, deviceFailed, bounds, lib>>
      /\ ~Posting
  BY DEF Posting
<1>2. Disturbed' <=> Disturbed
  BY <1>1, DisturbedKept
<1>3. CASE Disturbed
  BY <1>1, <1>2, <1>3 DEF OrderInv, bounds
<1>4. CASE ~Disturbed /\ ~ReadReady
  <2>1. /\ readNotificationQueue' = Append(readNotificationQueue, received + 1)
        /\ UNCHANGED <<readQueue, dispatcher>>
    BY <1>4
  <2>2. Len(readNotificationQueue') = Len(readNotificationQueue) + 1
    BY <1>0, <2>1
  <2>3. Taken' = Taken /\ received + 1 = Taken + Len(readNotificationQueue) + 1
    BY <1>0, <2>2 DEF Taken
  <2>4. Counted(readNotificationQueue', Taken')
    BY <1>0, <1>4, <2>1, <2>3, CalmFacts, CountedFacts
  <2>5. OneRead'
    BY <1>1, <1>4, <2>1, <2>3, CalmFacts DEF OneRead, Posting, ReadingCb, NoneIn, OneIn
  <2>6. InitInv'
    BY <1>1, <1>4, CalmFacts DEF InitInv, InitOnce
  <2>7. NoIdlePacket'
    BY <1>1, <1>4, <2>1 DEF NoIdlePacket, ReadReady
  <2>8. Counted(delivered', 0)
    BY <1>1, <1>4, CalmFacts
  <2> QED  BY <1>1, <1>4, <2>4, <2>5, <2>6, <2>7, <2>8 DEF OrderInv, bounds
<1>5. CASE ~Disturbed /\ ReadReady
  <2>1. /\ readQueue' = readQueue - 1
        /\ dispatcher' = [pc |-> "posting", pkt |-> received + 1, ctx |-> restarts]
        /\ UNCHANGED readNotificationQueue
        /\ readQueue > 0 /\ ~isWriteCompletionPending
    BY <1>5 DEF ReadReady
  <2>2. readNotificationQueue = <<>>
    BY <1>5, <2>1, CalmFacts DEF NoIdlePacket, Disturbed
  <2>3. /\ NoneIn(msgQueue) /\ Taken = Len(delivered) /\ readQueue = 1 /\ core.up /\ ~ReadingCb
    BY <1>0, <1>5, <2>1, CalmFacts DEF OneRead
  <2>4. Taken = received /\ Taken' = received + 1
    BY <1>0, <2>1, <2>2 DEF Taken
  <2>5. Counted(readNotificationQueue', Taken')
    BY <2>1, <2>2 DEF Counted
  <2>6. Posting' /\ dispatcher'.pkt = received + 1 /\ readQueue' = 0 /\ ~ReadingCb'
    BY <1>1, <2>1, <2>3 DEF Posting, ReadingCb
  <2>7. OneRead'
    BY <1>0, <1>1, <2>3, <2>4, <2>6 DEF OneRead, NoneIn
  <2>8. InitInv' /\ NoIdlePacket'
    BY <1>1, <1>5, <2>6, CalmFacts DEF InitInv, InitOnce, NoIdlePacket
  <2>9. Counted(delivered', 0)
    BY <1>1, <1>5, CalmFacts
  <2> QED  BY <1>1, <1>5, <2>5, <2>7, <2>8, <2>9 DEF OrderInv, bounds
<1> QED  BY <1>3, <1>4, <1>5

(* The packet underway is passed to the core.                               *)
LEMMA OrderDeferredRead ==
  ASSUME IInv, IInv', OrderInv, NfcCxTml_DeferredReadCompletion
  PROVE  OrderInv'
<1> USE DEF NfcCxTml_DeferredReadCompletion, NextMessage
<1>0. /\ msgQueue \in Seq(Messages) /\ delivered \in Seq(Packets) /\ Taken \in Int
      /\ lib \in LibType /\ core \in CoreType /\ dispatcher \in DispatcherType
  BY OrderTypes DEF IInv, TypeOK
<1>1. /\ UNCHANGED <<readQueue, readNotificationQueue, isWriteCompletionPending, received,
                     deviceFailed, bounds>>
      /\ core'.up = core.up /\ (core'.fired => core.fired)
      /\ msgQueue # <<>> /\ msgQueue' = Tail(msgQueue) /\ Head(msgQueue).kind = "read"
      /\ delivered' = Append(delivered, Head(msgQueue).pkt)
  BY <1>0 DEF queues, CoreType, ProcessPacket
<1>2. Disturbed' <=> Disturbed
  BY <1>1, DisturbedKept
<1>3. core'.fired => timeouts' > 0
  BY <1>1 DEF OrderInv, bounds
<1>4. CASE Disturbed
  BY <1>2, <1>3, <1>4 DEF OrderInv
<1>5. CASE ~Disturbed
  <2>1. ~NoneIn(msgQueue) /\ \A p : OneIn(msgQueue, p) => NoneIn(msgQueue') /\ Head(msgQueue).pkt = p
    BY <1>0, <1>1, TailIsRead
  <2>2. /\ Taken = Len(delivered) + 1 /\ readQueue = 0 /\ core.up /\ ~Posting
        /\ OneIn(msgQueue, Len(delivered) + 1)
    BY <1>5, <2>1, CalmFacts DEF OneRead
  <2>3. NoneIn(msgQueue') /\ Head(msgQueue).pkt = Len(delivered) + 1
    BY <2>1, <2>2
  <2>4. Head(msgQueue).pkt \in Packets
    BY <1>0, <1>1, TailFacts, MessageFacts
  <2>5. Counted(delivered', 0) /\ Len(delivered') = Len(delivered) + 1
    <3>1. Len(delivered) \in Nat
      BY <1>0
    <3>2. Head(msgQueue).pkt = 0 + Len(delivered) + 1
      BY <2>3, <3>1
    <3>3. Counted(delivered, 0)
      BY <1>5, CalmFacts
    <3> QED  BY <1>0, <1>1, <2>4, <3>2, <3>3, CountedFacts
  <2>6. Taken' = Taken
    BY <1>1 DEF Taken
  <2>7. ~Posting'
    BY <1>0, <2>2 DEF Signal, Posting, DispatcherIdle
  <2>8. OneRead'
    BY <1>0, <1>1, <2>2, <2>3, <2>5, <2>6, <2>7 DEF OneRead
  <2>9. InitInv'
    BY <1>0, <1>1, <1>5, CalmFacts, InitTail DEF InitInv, NoInit
  <2>10. NoIdlePacket' /\ Counted(readNotificationQueue', Taken')
    BY <1>1, <1>5, <2>6, CalmFacts, NoIdleKept
  <2> QED  BY <1>3, <2>5, <2>8, <2>9, <2>10 DEF OrderInv
<1> QED  BY <1>4, <1>5

(* After a write a waiting packet may take the open read at once.           *)
LEMMA OrderPostWrite ==
  ASSUME IInv, IInv', OrderInv, NfcCxTml_PostWriteCompletion
  PROVE  OrderInv'
<1> USE DEF NfcCxTml_PostWriteCompletion
<1>0. /\ msgQueue \in Seq(Messages) /\ delivered \in Seq(Packets) /\ Taken \in Int /\ received \in Nat
      /\ readNotificationQueue \in Seq(Packets) /\ readQueue \in Nat /\ deviceFailed \in BOOLEAN
      /\ Len(readNotificationQueue) \in Nat
      /\ lib \in LibType /\ core \in CoreType
  BY OrderTypes DEF IInv, TypeOK
<1>1. /\ UNCHANGED <<received, bounds, dispatcher, msgQueue>>
      /\ core'.up = core.up /\ (core'.fired => core.fired) /\ deviceFailed' \in {deviceFailed, TRUE}
      /\ ~ReadingCb
  BY <1>0 DEF CoreType, ProcessPacket, ReadingCb
<1>2. Disturbed => Disturbed'
  BY <1>1 DEF Disturbed, bounds
<1>3. core'.fired => timeouts' > 0
  BY <1>1 DEF OrderInv, bounds
<1>4. CASE Disturbed \/ Disturbed'
  BY <1>2, <1>3, <1>4 DEF OrderInv
<1>5. CASE ~Disturbed /\ ~InlineRead
  <2>1. /\ UNCHANGED <<readQueue, readNotificationQueue, delivered, core, deviceFailed>> /\ ~ReadingCb'
    BY <1>0, <1>5 DEF ProcessWrite, ReadingCb, LibType
  <2>2. NoIdlePacket'
    BY <1>0, <1>5, <2>1 DEF NoIdlePacket, InlineRead
  <2>3. InitInv'
    BY <1>1, <1>5, CalmFacts DEF InitInv, InitOnce
  <2>4. (Posting' <=> Posting) /\ timeouts' = timeouts
    BY <1>1 DEF Posting, bounds
  <2> QED  BY <1>1, <1>2, <2>1, <2>2, <2>3, <2>4, OrderFrame
<1>6. CASE ~Disturbed /\ InlineRead /\ ~Disturbed'
  <2>0. ~deviceFailed'
    BY <1>6 DEF Disturbed
  <2>1. /\ readQueue' = readQueue - 1
        /\ readNotificationQueue' = Tail(readNotificationQueue)
        /\ delivered' = Append(delivered, Head(readNotificationQueue))
        /\ readQueue > 0 /\ readNotificationQueue # <<>>
        /\ ReadingCb'
    BY <1>0, <1>6, <2>0 DEF InlineRead, ReadingCb, LibType
  <2>2. NoneIn(msgQueue) /\ ~Posting /\ Taken = Len(delivered) /\ readQueue = 1 /\ core.up
    BY <1>0, <1>6, <2>1, CalmFacts DEF OneRead
  <2>3. /\ Head(readNotificationQueue) = Taken + 1
        /\ Counted(readNotificationQueue', Taken + 1)
        /\ Len(readNotificationQueue') = Len(readNotificationQueue) - 1
        /\ Head(readNotificationQueue) \in Packets
    BY <1>0, <1>6, <2>1, CalmFacts, CountedFacts, TailFacts
  <2>4. Taken' = Taken + 1
    BY <1>0, <1>1, <2>3 DEF Taken
  <2>5. Counted(delivered', 0) /\ Len(delivered') = Len(delivered) + 1
    <3>1. Len(delivered) \in Nat /\ Counted(delivered, 0)
      BY <1>0, <1>6, CalmFacts
    <3>2. Head(readNotificationQueue) = 0 + Len(delivered) + 1
      BY <2>2, <2>3, <3>1
    <3> DEFINE p == Head(readNotificationQueue)
    <3>3. p \in Packets /\ delivered' = Append(delivered, p) /\ p = 0 + Len(delivered) + 1
      BY <2>1, <2>3, <3>2
    <3> HIDE DEF p
    <3>4. Counted(Append(delivered, p), 0)
      BY <1>0, <3>1, <3>3, CountedFacts
    <3>5. Len(Append(delivered, p)) = Len(delivered) + 1
      BY <1>0, <3>3
    <3> QED  BY <3>3, <3>4, <3>5
  <2>6. readQueue' = 0 /\ ~Posting' /\ NoneIn(msgQueue') /\ core'.up
    BY <1>1, <2>1, <2>2 DEF Posting
  <2>7. Taken' = Len(delivered')
    BY <2>2, <2>4, <2>5
  <2>8. OneRead'
    <3>1. Len(delivered') \in Nat
      BY <1>0, <2>5
    <3> QED  BY <2>6, <2>7, <3>1 DEF OneRead
  <2>9. InitInv' /\ NoIdlePacket'
    BY <1>1, <1>6, <2>6, CalmFacts DEF InitInv, InitOnce, NoIdlePacket
  <2>10. Counted(readNotificationQueue', Taken')
    BY <2>3, <2>4
  <2> QED  BY <1>3, <2>5, <2>8, <2>9, <2>10 DEF OrderInv
<1> QED  BY <1>4, <1>5, <1>6

LEMMA OrderGivesSequence ==
  ASSUME IInv, OrderInv
  PROVE  InOrder
<1> SUFFICES ASSUME ~Disturbed PROVE InSequence
  BY DEF InOrder
<1>0. Len(delivered) \in Nat /\ Taken \in Int
  BY OrderTypes DEF IInv
<1>1. \A i \in DOMAIN delivered : delivered[i] = i
  <2>1. \A i \in DOMAIN delivered : i \in Int
    BY OrderTypes DEF IInv
  <2> QED  BY <2>1, CalmFacts DEF Counted
<1>2. \A i \in DOMAIN readNotificationQueue : readNotificationQueue[i] = Taken + i
  BY CalmFacts DEF Counted
<1>3. \A i, j \in Reads : i = j
  BY CalmFacts DEF OneRead, NoneIn, OneIn, Reads
<1>4. Posting => Reads = {}
  BY CalmFacts DEF OneRead, NoneIn, Reads
<1>5. Underway = (Len(delivered) + 1) .. Taken
  <2>1. CASE NoneIn(msgQueue) /\ ~Posting /\ Taken = Len(delivered) + 1 - 1
    <3>1. Underway = {}
      BY <2>1 DEF Underway, Reads, NoneIn
    <3>2. (Len(delivered) + 1) .. Taken = {}
      BY <1>0, <2>1
    <3> QED  BY <3>1, <3>2
  <2>2. CASE Taken = Len(delivered) + 1
    <3>1. (Len(delivered) + 1) .. Taken = {Taken}
      BY <1>0, <2>2
    <3>2. \/ OneIn(msgQueue, Taken) /\ ~Posting
          \/ NoneIn(msgQueue) /\ Posting /\ dispatcher.pkt = Taken
      BY <1>0, <2>2, CalmFacts DEF OneRead
    <3>3. Underway = {Taken}
      BY <3>2 DEF Underway, Reads, NoneIn, OneIn
    <3> QED  BY <3>1, <3>3
  <2> QED  BY <2>1, <2>2, CalmFacts DEF OneRead
<1>6. \A i \in Reads : i \in Int
  BY OrderTypes DEF IInv, Reads
<1>7. \A i, j \in Reads : i < j => msgQueue[i].pkt < msgQueue[j].pkt
  <2> SUFFICES ASSUME NEW i \in Reads, NEW j \in Reads, i < j PROVE FALSE
    OBVIOUS
  <2> QED  BY <1>3, <1>6
<1> QED  BY <1>1, <1>2, <1>4, <1>5, <1>7 DEF InSequence

-----------------------------------------------------------------------------
(* The theorems *)

LEMMA InitIInv == Init => IInv
<1> SUFFICES ASSUME Init PROVE IInv
  OBVIOUS
<1> USE TmlAssumption DEF TmlAssumption, Init
<1>1. TypeOK
  <2>1. lib \in LibType /\ core \in CoreType
    BY DEF LibType, CoreType, CoreDown
  <2>2. dispatcher \in DispatcherType
    BY DEF DispatcherType, DispatcherIdle
  <2>3. /\ refCount \in [Writes -> 0 .. 2] /\ session \in [Writes -> 0 .. MaxRestarts]
        /\ before \in [Packets -> SUBSET Writes]
    OBVIOUS
  <2>4. wstate \in [Writes -> WriteStates]
    BY DEF WriteStates
  <2>5. /\ readNotificationQueue \in Seq(Packets) /\ writeQueue \in Seq(Writes)
        /\ msgQueue \in Seq(Messages) /\ delivered \in Seq(Packets)
    OBVIOUS
  <2>6. received \in 0 .. MaxPackets /\ timeouts \in 0 .. MaxTimeouts /\ restarts \in 0 .. MaxRestarts
    OBVIOUS
  <2> QED  BY <2>1, <2>2, <2>3, <2>4, <2>5, <2>6 DEF TypeOK
<1>2. ThreadInv /\ ReferenceInv /\ QueueInv
  BY DEF ThreadInv, ReferenceInv, QueueInv, DispatcherIdle
<1>3. CompletedOnce
  <2> SUFFICES ASSUME NEW w \in Writes
               PROVE  WriteOnce(msgQueue, w) /\ ~HasWrite(msgQueue, w) /\ lib.cur # w /\ wstate[w] # "posted"
    BY DEF CompletedOnce
  <2>1. DOMAIN msgQueue = {}
    OBVIOUS
  <2>2. lib.cur # w /\ wstate[w] = "none"
    OBVIOUS
  <2> QED  BY <2>1, <2>2 DEF HasWrite, WriteOnce
<1>4. WriteExclusion
  BY DEF WriteExclusion, AtTransport
<1>5. PacketInv /\ ResponseAfterWriteCallback
  BY DEF PacketInv, ReadsCalledBack, Arrived, ResponseAfterWriteCallback, DispatcherIdle
<1> QED  BY <1>1, <1>2, <1>3, <1>4, <1>5 DEF IInv

LEMMA NextIInv == IInv /\ [Next]_vars => IInv'
<1> SUFFICES ASSUME IInv, [Next]_vars PROVE IInv'
  OBVIOUS
<1>1. CASE NfcCxTml_WriteReturn
  BY <1>1, WriteReturnStep
<1>2. CASE NfcCxTml_DeferredWriteCompletion
  BY <1>2, DeferredWriteStep
<1>3. CASE WriteCallbackReturn
  BY <1>3, WriteCallbackStep
<1>4. CASE NfcCxTml_PostWriteCompletion
  BY <1>4, PostWriteStep
<1>5. CASE PostWriteProcessWrite
  BY <1>5, PostWriteProcessStep
<1>6. CASE NfcCxTml_DeferredReadCompletion
  BY <1>6, DeferredReadStep
<1>7. CASE ReadCallbackReturn
  BY <1>7, ReadCallbackStep
<1>8. CASE ResponseTimeout
  BY <1>8, ResponseTimeoutStep
<1>9. CASE CoreInit
  BY <1>9, CoreInitStep
<1>10. ASSUME NEW w \in Writes, phTmlNfc_Write(w) PROVE IInv'
  BY <1>10, WriteStep
<1>11. ASSUME NEW w \in Writes, NfcCxTml_WriteCompletion(w) PROVE IInv'
  BY <1>11, WriteCompletionStep
<1>12. CASE NfcCxTmlDispatchReadNotification
  BY <1>12, DispatchStep
<1>13. CASE DispatchPost
  BY <1>13, DispatchPostStep
<1>14. CASE TimerFires \/ RequestInit
  BY <1>14, TimerStep
<1>15. CASE CoreRelease
  BY <1>15, CoreReleaseStep
<1>16. CASE \/ DispatchWaitTimeout \/ WriteWaitTimeout
            \/ NfcCxTmlInterfaceStart \/ NfcCxTmlInterfaceStop
            \/ UNCHANGED vars
  BY <1>16, QuietStep
<1> QED
  BY <1>1, <1>2, <1>3, <1>4, <1>5, <1>6, <1>7, <1>8, <1>9, <1>10, <1>11, <1>12, <1>13, <1>14,
     <1>15, <1>16 DEF Next, LibNfcThread

LEMMA Inductive == Spec => []IInv
  BY InitIInv, NextIInv, PTL DEF Spec

(* Every variable of the TML keeps its type.                                *)
THEOREM TypeCorrect == Spec => []TypeOK
<1>1. IInv => TypeOK
  BY DEF IInv
<1> QED  BY <1>1, Inductive, PTL

(* However the threads interleave, and for any number of writes, packets,   *)
(* timeouts and restarts, the transport holds one write at a time and       *)
(* IsWriteCompletionPending says whether it does.                           *)
THEOREM WriteExclusionHolds == Spec => []WriteExclusion
<1>1. IInv => WriteExclusion
  BY DEF IInv
<1> QED  BY <1>1, Inductive, PTL

(* The lock-free decrements of ReferenceCount post each deferred write      *)
(* completion once, and only after both references are gone.                *)
THEOREM CompletedOnceHolds == Spec => []CompletedOnce
<1>1. IInv => CompletedOnce
  BY DEF IInv
<1> QED  BY <1>1, Inductive, PTL

(* No packet overtakes the callback of a write that was at the transport    *)
(* when the controller sent it, by any of the ways to the core.             *)
THEOREM ResponseAfterWriteCallbackHolds == Spec => []ResponseAfterWriteCallback
<1>1. IInv => ResponseAfterWriteCallback
  BY DEF IInv
<1> QED  BY <1>1, Inductive, PTL

(* While no response timeout, release or failure disturbs it, no packet is  *)
(* lost, duplicated or overtaken between the controller and the core,       *)
(* whichever of the three ways it takes, for any number of packets.         *)
THEOREM InOrderHolds == Spec => []InOrder
<1>1. Init => OrderInv
  <2> SUFFICES ASSUME Init PROVE OrderInv
    OBVIOUS
  <2>1. delivered = <<>> /\ readNotificationQueue = <<>> /\ msgQueue = <<>> /\ received = 0
        /\ readQueue = 0 /\ ~core.fired /\ ~Posting /\ ~ReadingCb
    BY DEF Init, CoreDown, DispatcherIdle, Posting, ReadingCb
  <2>2. Taken = 0 /\ Len(delivered) = 0
    <3>1. Len(readNotificationQueue) = 0 /\ Len(delivered) = 0
      BY <2>1
    <3>2. received = 0
      BY <2>1
    <3> QED  BY <3>1, <3>2 DEF Taken
  <2>3. OneRead
    BY <2>1, <2>2 DEF OneRead, NoneIn
  <2> QED  BY <2>1, <2>3 DEF OrderInv, Counted, InitInv, InitOnce, NoIdlePacket
<1>2. IInv /\ IInv' /\ OrderInv /\ [Next]_vars => OrderInv'
  <2> SUFFICES ASSUME IInv, IInv', OrderInv, [Next]_vars PROVE OrderInv'
    OBVIOUS
  <2>1. CASE \/ NfcCxTml_WriteReturn \/ WriteCallbackReturn \/ PostWriteProcessWrite
             \/ \E w \in Writes : phTmlNfc_Write(w) \/ NfcCxTml_WriteCompletion(w)
             \/ DispatchWaitTimeout \/ WriteWaitTimeout
             \/ NfcCxTmlInterfaceStart \/ NfcCxTmlInterfaceStop
             \/ UNCHANGED vars
    BY <2>1, OrderWriteSteps
  <2>2. CASE NfcCxTml_DeferredWriteCompletion \/ (ResponseTimeout /\ ~core.fired)
    BY <2>2, OrderTailSteps
  <2>3. CASE TimerFires \/ CoreRelease \/ (ResponseTimeout /\ core.fired)
    BY <2>3, OrderDisturbed
  <2>4. CASE \/ NfcCxTml_PostWriteCompletion \/ NfcCxTml_DeferredReadCompletion
             \/ ReadCallbackReturn \/ CoreInit \/ RequestInit
             \/ NfcCxTmlDispatchReadNotification \/ DispatchPost
    BY <2>4, OrderPostWrite, OrderDeferredRead, OrderReadCallback, OrderCoreInit, OrderRequestInit,
       OrderDispatch, OrderDispatchPost
  <2> QED  BY <2>1, <2>2, <2>3, <2>4 DEF Next, LibNfcThread
<1>3. IInv /\ OrderInv => InOrder
  BY OrderGivesSequence
<1> QED  BY <1>1, <1>2, <1>3, Inductive, PTL DEF Spec
=============================================================================
