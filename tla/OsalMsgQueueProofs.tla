------------------------- MODULE OsalMsgQueueProofs -------------------------
(***************************************************************************)
(* The ring of the message queue implements the queue of OsalQueue, for    *)
(* every size of the ring and every set of messages.                       *)
(***************************************************************************)
EXTENDS OsalMsgQueue, TLAPS

Size == PH_OSAL_MSG_QUEUE_MAX_SIZE

(* The tail is where the next message goes, behind the used entries. *)
TailInv == bMsgQueueTail = Place(bMsgQueueUsed)

(* The used entries hold messages; the exit message is posted by the stop only. *)
EntriesInv ==
  /\ \A k \in 0 .. bMsgQueueUsed - 1 :
       /\ MsgQueue[Place(k)] # NoMessage
       /\ pnp = "up" => MsgQueue[Place(k)] # PH_OSALNFC_EXIT_THREAD
  /\ pnp = "up" => message # PH_OSALNFC_EXIT_THREAD

ThreadInv ==
  /\ thread = "running" <=> message # NoMessage
  /\ thread = "woken" => bMsgQueueUsed > 0
  /\ pnp = "up" => thread # "none"
  /\ pnp = "down" => thread = "none" /\ bMsgQueueUsed = 0 /\ bMsgQueueHead = 0 /\ bMsgQueueTail = 0

IInv == TypeOK /\ TailInv /\ EntriesInv /\ ThreadInv /\ EventMeansMessages
        /\ (pnp = "down" => ~hMsgQueueEvent)

USE QueueAssumption

-----------------------------------------------------------------------------
(* Facts about sequences given as functions. *)

LEMMA SeqLen ==
  ASSUME NEW n \in Nat, NEW S, NEW f \in [1 .. n -> S]
  PROVE  f \in Seq(S) /\ Len(f) = n
OBVIOUS

LEMMA SeqAppend ==
  ASSUME NEW n \in Nat, NEW S, NEW e \in S, NEW f \in [1 .. n -> S],
         NEW g \in [1 .. n + 1 -> S],
         \A k \in 1 .. n : g[k] = f[k], g[n + 1] = e
  PROVE  g = Append(f, e)
BY SeqLen

LEMMA SeqTail ==
  ASSUME NEW n \in Nat \ {0}, NEW S, NEW f \in [1 .. n -> S],
         NEW g \in [1 .. n - 1 -> S],
         \A k \in 1 .. n - 1 : g[k] = f[k + 1]
  PROVE  f # <<>> /\ Head(f) = f[1] /\ g = Tail(f)
<1>1. f \in Seq(S) /\ Len(f) = n
  BY SeqLen
<1>2. n - 1 \in Nat
  OBVIOUS
<1>3. g \in Seq(S) /\ Len(g) = n - 1
  BY <1>2, SeqLen
<1>4. Tail(f) \in Seq(S) /\ Len(Tail(f)) = n - 1
  BY <1>1
<1>5. \A k \in 1 .. n - 1 : Tail(f)[k] = f[k + 1]
  BY <1>1
<1> QED
  BY <1>1, <1>3, <1>4, <1>5

-----------------------------------------------------------------------------
(* The indices. *)

LEMMA PlaceIsSlot ==
  ASSUME TypeOK, NEW k \in 0 .. Size
  PROVE  Place(k) \in Slots
BY DEF TypeOK, Place, Slots, Last, Size

(* Different offsets are different places. *)
LEMMA PlacesDiffer ==
  ASSUME TypeOK, NEW j \in 0 .. Size - 1, NEW k \in 0 .. Size - 1, j # k
  PROVE  Place(j) # Place(k)
BY DEF TypeOK, Place, Slots, Last, Size

LEMMA NextPlace ==
  ASSUME TypeOK, NEW k \in 0 .. Size - 1
  PROVE  After(Place(k)) = Place(k + 1)
BY DEF TypeOK, Place, After, Slots, Last, Size

LEMMA ContentsType ==
  ASSUME TypeOK
  PROVE  Contents \in [1 .. bMsgQueueUsed -> Posted \cup {NoMessage}]
<1>1. \A k \in 1 .. bMsgQueueUsed : k - 1 \in 0 .. Size
  BY DEF TypeOK, Size
<1>2. \A k \in 1 .. bMsgQueueUsed : Place(k - 1) \in Slots
  BY <1>1, PlaceIsSlot
<1> QED
  BY <1>2 DEF TypeOK, Contents

-----------------------------------------------------------------------------
(* phOsalNfc_PostMsg stores behind the used entries and moves none of them. *)
LEMMA PostStores ==
  ASSUME TypeOK, TailInv, NEW m \in Posted, bMsgQueueUsed < Size,
         MsgQueue' = [MsgQueue EXCEPT ![bMsgQueueTail] = m],
         bMsgQueueTail' = After(bMsgQueueTail),
         bMsgQueueUsed' = bMsgQueueUsed + 1, bMsgQueueHead' = bMsgQueueHead
  PROVE  /\ Contents' = Append(Contents, m)
         /\ MsgQueue' \in [Slots -> Posted \cup {NoMessage}]
         /\ TailInv'
         /\ bMsgQueueTail' \in Slots
         /\ \A k \in 0 .. bMsgQueueUsed : Place(k)' = Place(k)
         /\ \A k \in 0 .. bMsgQueueUsed - 1 : MsgQueue'[Place(k)] = MsgQueue[Place(k)]
         /\ MsgQueue'[Place(bMsgQueueUsed)] = m
<1>0. bMsgQueueUsed \in 0 .. Size - 1 /\ Size \in Nat
  BY DEF TypeOK, Size
<1>1. \A k \in 0 .. Size : Place(k)' = Place(k)
  BY DEF Place, Last
<1>2. TailInv'
  <2>1. After(bMsgQueueTail) = Place(bMsgQueueUsed + 1)
    BY <1>0, NextPlace DEF TailInv
  <2> QED
    BY <2>1 DEF TailInv, Place, Last
<1>3. MsgQueue' \in [Slots -> Posted \cup {NoMessage}] /\ bMsgQueueTail' \in Slots
  <2>1. bMsgQueueTail' \in Slots
    BY DEF TypeOK, After, Slots, Last
  <2> QED
    BY <2>1 DEF TypeOK
<1>4. \A k \in 0 .. bMsgQueueUsed - 1 : MsgQueue'[Place(k)] = MsgQueue[Place(k)]
  <2> SUFFICES ASSUME NEW k \in 0 .. bMsgQueueUsed - 1
               PROVE  MsgQueue'[Place(k)] = MsgQueue[Place(k)]
    OBVIOUS
  <2>1. k \in 0 .. Size - 1 /\ k # bMsgQueueUsed /\ k \in 0 .. Size
    BY <1>0
  <2>2. Place(k) # bMsgQueueTail
    BY <1>0, <2>1, PlacesDiffer DEF TailInv
  <2>3. Place(k) \in Slots
    BY <2>1, PlaceIsSlot
  <2> QED
    BY <2>2, <2>3 DEF TypeOK
<1>5. MsgQueue'[Place(bMsgQueueUsed)] = m
  BY DEF TailInv, TypeOK
<1>6. \A k \in 0 .. bMsgQueueUsed : k \in 0 .. Size
  BY <1>0
<1>7. Contents' = Append(Contents, m)
  <2>1. Contents \in [1 .. bMsgQueueUsed -> Posted \cup {NoMessage}]
    BY ContentsType
  <2>2. Contents' = [k \in 1 .. bMsgQueueUsed + 1 |-> MsgQueue'[Place(k - 1)]]
    <3>1. \A k \in 1 .. bMsgQueueUsed + 1 : k - 1 \in 0 .. Size
      BY <1>0
    <3>2. \A k \in 1 .. bMsgQueueUsed + 1 : Place(k - 1)' = Place(k - 1)
      BY <1>1, <3>1
    <3> QED
      BY <3>2 DEF Contents
  <2>3. \A k \in 1 .. bMsgQueueUsed : Contents'[k] = Contents[k]
    <3>1. \A k \in 1 .. bMsgQueueUsed : k \in 1 .. bMsgQueueUsed + 1 /\ k - 1 \in 0 .. bMsgQueueUsed - 1
      BY <1>0
    <3> QED
      BY <2>2, <3>1, <1>4 DEF Contents
  <2>4. Contents'[bMsgQueueUsed + 1] = m
    <3>1. \A k \in 1 .. bMsgQueueUsed + 1 : Contents'[k] = MsgQueue'[Place(k - 1)]
      BY <2>2
    <3>2. \A k \in 1 .. bMsgQueueUsed + 1 : k - 1 = bMsgQueueUsed => Contents'[k] = m
      BY <3>1, <1>5
    <3>3. bMsgQueueUsed + 1 \in 1 .. bMsgQueueUsed + 1 /\ (bMsgQueueUsed + 1) - 1 = bMsgQueueUsed
      BY <1>0
    <3> HIDE DEF Contents
    <3> QED
      BY <3>2, <3>3
  <2>5. Contents' \in [1 .. bMsgQueueUsed + 1 -> Posted \cup {NoMessage}]
    <3>1. \A k \in 1 .. bMsgQueueUsed + 1 : k - 1 \in 0 .. Size
      BY <1>0
    <3>2. \A k \in 1 .. bMsgQueueUsed + 1 : Place(k - 1) \in Slots
      BY <3>1, PlaceIsSlot
    <3> QED
      BY <2>2, <3>2, <1>3
  <2> HIDE DEF Contents
  <2> QED
    BY <1>0, <2>1, <2>3, <2>4, <2>5, SeqAppend
<1>8. \A k \in 0 .. bMsgQueueUsed : Place(k)' = Place(k)
  BY <1>1, <1>6
<1> QED
  BY <1>2, <1>3, <1>4, <1>5, <1>7, <1>8

(* phOsalNc_GetMsg takes the oldest entry and moves none of the others. *)
LEMMA GetTakes ==
  ASSUME TypeOK, TailInv, bMsgQueueUsed > 0, MsgQueue' = MsgQueue,
         bMsgQueueTail' = bMsgQueueTail, bMsgQueueHead' = After(bMsgQueueHead),
         bMsgQueueUsed' = bMsgQueueUsed - 1
  PROVE  /\ Contents # <<>>
         /\ Head(Contents) = MsgQueue[bMsgQueueHead]
         /\ Contents' = Tail(Contents)
         /\ bMsgQueueHead' \in Slots
         /\ bMsgQueueHead = Place(0)
         /\ \A k \in 0 .. bMsgQueueUsed - 1 : Place(k)' = Place(k + 1)
         /\ TailInv'
<1>0. bMsgQueueUsed \in 1 .. Size /\ Size \in Nat /\ bMsgQueueUsed - 1 \in Nat /\ bMsgQueueUsed \in Nat \ {0}
  BY DEF TypeOK, Size
<1>1. bMsgQueueHead' \in Slots /\ bMsgQueueHead = Place(0)
  BY DEF TypeOK, After, Slots, Last, Place
<1>2. \A k \in 0 .. Size - 1 : Place(k)' = Place(k + 1)
  BY DEF TypeOK, After, Slots, Last, Place, Size
<1>3. \A k \in 0 .. bMsgQueueUsed - 1 : Place(k)' = Place(k + 1)
  <2>1. \A k \in 0 .. bMsgQueueUsed - 1 : k \in 0 .. Size - 1
    BY <1>0
  <2> QED
    BY <1>2, <2>1
<1>4. TailInv'
  BY DEF TailInv, TypeOK, After, Slots, Last, Place
<1>5. Contents \in [1 .. bMsgQueueUsed -> Posted \cup {NoMessage}]
  BY ContentsType
<1>6. Contents' = [k \in 1 .. bMsgQueueUsed - 1 |-> MsgQueue[Place(k)]]
  <2>1. \A k \in 1 .. bMsgQueueUsed - 1 : k - 1 \in 0 .. bMsgQueueUsed - 1 /\ (k - 1) + 1 = k
    BY <1>0
  <2>2. \A k \in 1 .. bMsgQueueUsed - 1 : Place(k - 1)' = Place(k)
    BY <1>3, <2>1
  <2> QED
    BY <2>2 DEF Contents
<1>7. \A k \in 1 .. bMsgQueueUsed - 1 : Contents'[k] = Contents[k + 1]
  <2>1. \A k \in 1 .. bMsgQueueUsed - 1 : k + 1 \in 1 .. bMsgQueueUsed /\ (k + 1) - 1 = k
    BY <1>0
  <2> QED
    BY <1>6, <2>1 DEF Contents
<1>8. Contents' \in [1 .. bMsgQueueUsed - 1 -> Posted \cup {NoMessage}]
  <2>1. \A k \in 1 .. bMsgQueueUsed - 1 : k \in 0 .. Size
    BY <1>0
  <2>2. \A k \in 1 .. bMsgQueueUsed - 1 : Place(k) \in Slots
    BY <2>1, PlaceIsSlot
  <2> QED
    BY <1>6, <2>2 DEF TypeOK
<1>9. Contents[1] = MsgQueue[bMsgQueueHead]
  <2>1. 1 \in 1 .. bMsgQueueUsed /\ 1 - 1 = 0
    BY <1>0
  <2> QED
    BY <2>1, <1>1 DEF Contents
<1>10. Contents # <<>> /\ Head(Contents) = Contents[1] /\ Contents' = Tail(Contents)
  <2> HIDE DEF Contents
  <2> QED
    BY <1>0, <1>5, <1>7, <1>8, SeqTail
<1> QED
  BY <1>1, <1>3, <1>4, <1>9, <1>10

-----------------------------------------------------------------------------
(* The invariant, action by action. *)

LEMMA InitInv == Init => IInv
<1> SUFFICES ASSUME Init PROVE IInv
  OBVIOUS
<1>1. 0 \in Slots /\ 0 \in 0 .. Size
  BY DEF Slots, Last, Size
<1>2. MsgQueue \in [Slots -> Posted \cup {NoMessage}]
  BY DEF Init, Empty
<1>3. TypeOK
  BY <1>1, <1>2 DEF Init, TypeOK, ThreadType, Size
<1>4. TailInv
  BY DEF Init, TailInv, Place, Last
<1>5. EntriesInv
  BY DEF Init, EntriesInv
<1> QED
  BY <1>3, <1>4, <1>5 DEF IInv, Init, ThreadInv, EventMeansMessages

(* What every accepted post keeps; the exit message only after the stop began. *)
LEMMA AcceptInv ==
  ASSUME IInv, pnp # "down", NEW m \in Posted,
         bMsgQueueUsed < Size,
         MsgQueue' = [MsgQueue EXCEPT ![bMsgQueueTail] = m],
         bMsgQueueTail' = After(bMsgQueueTail),
         bMsgQueueUsed' = bMsgQueueUsed + 1,
         hMsgQueueEvent' = TRUE,
         UNCHANGED <<bMsgQueueHead, raised, thread, message>>,
         pnp' \in {"up", "closing"},
         pnp' = "up" => pnp = "up" /\ m # PH_OSALNFC_EXIT_THREAD
  PROVE  IInv' /\ Contents' = Append(Contents, m)
<1>0. TypeOK /\ TailInv
  BY DEF IInv
<1>1. /\ Contents' = Append(Contents, m)
      /\ MsgQueue' \in [Slots -> Posted \cup {NoMessage}]
      /\ TailInv'
      /\ bMsgQueueTail' \in Slots
      /\ \A k \in 0 .. bMsgQueueUsed : Place(k)' = Place(k)
      /\ \A k \in 0 .. bMsgQueueUsed - 1 : MsgQueue'[Place(k)] = MsgQueue[Place(k)]
      /\ MsgQueue'[Place(bMsgQueueUsed)] = m
  BY <1>0, PostStores
<1>2. TypeOK'
  BY <1>0, <1>1 DEF TypeOK, Size
<1>3. EntriesInv'
  <2>1. m # NoMessage
    BY DEF Posted
  <2>2. \A k \in 0 .. bMsgQueueUsed :
          /\ MsgQueue'[Place(k)] # NoMessage
          /\ pnp' = "up" => MsgQueue'[Place(k)] # PH_OSALNFC_EXIT_THREAD
    <3> SUFFICES ASSUME NEW k \in 0 .. bMsgQueueUsed
                 PROVE  /\ MsgQueue'[Place(k)] # NoMessage
                        /\ pnp' = "up" => MsgQueue'[Place(k)] # PH_OSALNFC_EXIT_THREAD
      OBVIOUS
    <3>1. CASE k = bMsgQueueUsed
      BY <3>1, <2>1, <1>1
    <3>2. CASE k # bMsgQueueUsed
      <4>1. k \in 0 .. bMsgQueueUsed - 1
        BY <3>2, <1>0 DEF TypeOK
      <4> QED
        BY <4>1, <1>1 DEF IInv, EntriesInv
    <3> QED
      BY <3>1, <3>2
  <2>3. \A k \in 0 .. bMsgQueueUsed' - 1 : k \in 0 .. bMsgQueueUsed
    BY <1>0 DEF TypeOK
  <2> QED
    BY <2>2, <2>3, <1>1 DEF EntriesInv, IInv
<1>4. ThreadInv' /\ EventMeansMessages' /\ (pnp' = "down" => ~hMsgQueueEvent')
  BY <1>0 DEF IInv, ThreadInv, EventMeansMessages, TypeOK
<1> QED
  BY <1>1, <1>2, <1>3, <1>4 DEF IInv

(* Steps that leave the ring alone. *)
LEMMA RingUnchanged ==
  ASSUME TypeOK, UNCHANGED ring
  PROVE  Contents' = Contents /\ (TailInv => TailInv')
         /\ \A k \in 0 .. Size : Place(k)' = Place(k)
BY DEF ring, Contents, TailInv, Place, Last

LEMMA RaiseInv ==
  ASSUME IInv, UNCHANGED <<ring, hMsgQueueEvent, thread, message>>, raised' = TRUE,
         pnp # "down", pnp' \in {"up", "closing"}, pnp' = "up" => pnp = "up"
  PROVE  IInv' /\ Contents' = Contents
<1>0. TypeOK /\ Size \in Nat
  BY DEF IInv, Size
<1>1. Contents' = Contents /\ (TailInv => TailInv') /\ \A k \in 0 .. Size : Place(k)' = Place(k)
  BY <1>0, RingUnchanged
<1>2. \A k \in 0 .. bMsgQueueUsed - 1 : k \in 0 .. Size
  BY <1>0 DEF TypeOK, Size
<1>3. EntriesInv'
  BY <1>1, <1>2 DEF IInv, EntriesInv, ring
<1> QED
  BY <1>1, <1>3 DEF IInv, TypeOK, ThreadInv, EventMeansMessages, ring

LEMMA StillEntries ==
  ASSUME IInv, UNCHANGED <<ring, pnp>>, message' \in {message, NoMessage}
  PROVE  EntriesInv' /\ TailInv' /\ Contents' = Contents
<1>0. TypeOK /\ Size \in Nat
  BY DEF IInv, Size
<1>1. Contents' = Contents /\ (TailInv => TailInv') /\ \A k \in 0 .. Size : Place(k)' = Place(k)
  BY <1>0, RingUnchanged
<1>2. \A k \in 0 .. bMsgQueueUsed - 1 : k \in 0 .. Size
  BY <1>0 DEF TypeOK, Size
<1> QED
  BY <1>1, <1>2 DEF IInv, EntriesInv, ring, Posted

LEMMA WakeStep ==
  ASSUME IInv, Wake
  PROVE  IInv' /\ UNCHANGED Fifo!vars
<1>1. EntriesInv' /\ TailInv' /\ Contents' = Contents
  BY StillEntries DEF Wake
<1>2. TypeOK'
  BY DEF Wake, IInv, TypeOK, ThreadType, ring
<1>3. ThreadInv' /\ EventMeansMessages' /\ (pnp' = "down" => ~hMsgQueueEvent')
  BY DEF Wake, IInv, ThreadInv, EventMeansMessages, ring
<1>4. QueueState' = QueueState
  BY DEF Wake, QueueState, IInv, ThreadInv, TypeOK, ring
<1>5. message' = message
  BY DEF Wake
<1> QED
  BY <1>1, <1>2, <1>3, <1>4, <1>5 DEF IInv, Fifo!vars

LEMMA ReturnStep ==
  ASSUME IInv, HandlerReturn
  PROVE  IInv' /\ Fifo!Done
<1>1. EntriesInv' /\ TailInv' /\ Contents' = Contents
  BY StillEntries DEF HandlerReturn
<1>2. TypeOK'
  BY DEF HandlerReturn, IInv, TypeOK, ThreadType, ring
<1>3. ThreadInv' /\ EventMeansMessages' /\ (pnp' = "down" => ~hMsgQueueEvent')
  BY DEF HandlerReturn, IInv, ThreadInv, EventMeansMessages, EntriesInv, ring
<1>4. message # NoMessage /\ pnp \in {"up", "closing"} /\ (pnp = "up" => message # PH_OSALNFC_EXIT_THREAD)
  BY DEF HandlerReturn, IInv, ThreadInv, EntriesInv, TypeOK
<1>5. QueueState \in {"open", "exiting"}
  BY <1>4 DEF HandlerReturn, QueueState
<1>6. QueueState' = IF message = PH_OSALNFC_EXIT_THREAD THEN "exited" ELSE QueueState
  BY <1>4 DEF HandlerReturn, QueueState
<1> QED
  BY <1>1, <1>2, <1>3, <1>4, <1>5, <1>6 DEF IInv, Fifo!Done, HandlerReturn

LEMMA GetStep ==
  ASSUME IInv, GetMsg
  PROVE  IInv' /\ Fifo!Take
<1>0. TypeOK /\ TailInv /\ message = NoMessage /\ pnp \in {"up", "closing"} /\ bMsgQueueUsed \in Nat
  BY DEF GetMsg, IInv, ThreadInv, TypeOK
<1>1. CASE bMsgQueueUsed > 0
  <2>1. /\ Contents # <<>>
        /\ Head(Contents) = MsgQueue[bMsgQueueHead]
        /\ Contents' = Tail(Contents)
        /\ bMsgQueueHead' \in Slots
        /\ bMsgQueueHead = Place(0)
        /\ \A k \in 0 .. bMsgQueueUsed - 1 : Place(k)' = Place(k + 1)
        /\ TailInv'
    BY <1>0, <1>1, GetTakes DEF GetMsg
  <2>2. message' = Head(Contents) /\ message' = MsgQueue[Place(0)]
    BY <1>1, <2>1 DEF GetMsg
  <2>3. message' # NoMessage /\ (pnp = "up" => message' # PH_OSALNFC_EXIT_THREAD)
    <3>1. 0 \in 0 .. bMsgQueueUsed - 1
      BY <1>0, <1>1
    <3> QED
      BY <2>2, <3>1 DEF IInv, EntriesInv
  <2>4. EntriesInv'
    <3>1. \A k \in 0 .. bMsgQueueUsed' - 1 : k \in 0 .. bMsgQueueUsed - 1 /\ k + 1 \in 0 .. bMsgQueueUsed - 1
      BY <1>0, <1>1 DEF GetMsg
    <3> QED
      BY <2>1, <2>3, <3>1 DEF IInv, EntriesInv, GetMsg
  <2>5. TypeOK'
    <3>1. message' \in Posted
      BY <1>0, <2>3, <1>1 DEF GetMsg, TypeOK
    <3> QED
      BY <1>0, <1>1, <2>1, <3>1 DEF GetMsg, TypeOK, ThreadType, EventAfterTake
  <2>6. ThreadInv' /\ EventMeansMessages' /\ (pnp' = "down" => ~hMsgQueueEvent')
    BY <1>0, <1>1, <2>3 DEF GetMsg, IInv, TypeOK, ThreadInv, EventMeansMessages, EventAfterTake
  <2>7. QueueState \in {"open", "exiting"} /\ QueueState' = QueueState
    BY <1>0, <1>1 DEF GetMsg, QueueState
  <2> QED
    BY <1>0, <2>1, <2>2, <2>4, <2>5, <2>6, <2>7 DEF IInv, Fifo!Take
<1>2. CASE ~(bMsgQueueUsed > 0)
  BY <1>0, <1>2 DEF GetMsg, IInv, ThreadInv
<1> QED
  BY <1>1, <1>2

LEMMA PostStep ==
  ASSUME IInv, NEW m \in Messages, Post(m)
  PROVE  IInv' /\ Fifo!Post(m)
<1>0. TypeOK /\ pnp \in {"up", "closing"} /\ m \in Posted /\ m # PH_OSALNFC_EXIT_THREAD
  BY DEF IInv, TypeOK, Post, Posted
<1>1. Len(Contents) = bMsgQueueUsed
  BY <1>0, ContentsType, SeqLen DEF TypeOK
<1>2. QueueState \in {"open", "exiting", "exited"}
  BY <1>0 DEF Post, QueueState
<1>3. CASE bMsgQueueUsed < Size
  <2>1. IInv' /\ Contents' = Append(Contents, m)
    <3>1. /\ MsgQueue' = [MsgQueue EXCEPT ![bMsgQueueTail] = m]
          /\ bMsgQueueTail' = After(bMsgQueueTail)
          /\ bMsgQueueUsed' = bMsgQueueUsed + 1
          /\ hMsgQueueEvent' = TRUE
          /\ UNCHANGED <<bMsgQueueHead, raised, thread, message>>
      BY <1>0, <1>3 DEF Post, PostMsg, TypeOK, Size
    <3>2. pnp' \in {"up", "closing"} /\ (pnp' = "up" => pnp = "up" /\ m # PH_OSALNFC_EXIT_THREAD)
          /\ pnp # "down"
      BY <1>0 DEF Post
    <3> QED
      BY <1>0, <1>3, <3>1, <3>2, AcceptInv
  <2>2. QueueState' = QueueState /\ message' = message
    BY <1>0, <1>3 DEF Post, PostMsg, QueueState, Size
  <2> QED
    BY <2>1, <2>2, <1>1, <1>2, <1>3 DEF Fifo!Post, Fifo!Accept, Size
<1>4. CASE ~(bMsgQueueUsed < Size)
  <2>1. UNCHANGED <<ring, hMsgQueueEvent, thread, message, pnp>> /\ raised' = TRUE /\ bMsgQueueUsed = Size
    BY <1>4 DEF Post, PostMsg, Size
  <2>2. IInv' /\ Contents' = Contents
    BY <1>0, <2>1, RaiseInv
  <2>3. QueueState' = "crashed" /\ message' = message
    BY <2>1 DEF QueueState
  <2> QED
    BY <2>1, <2>2, <2>3, <1>1, <1>2 DEF Fifo!Post, Fifo!Crash, Size
<1> QED
  BY <1>3, <1>4

LEMMA DeInitStep ==
  ASSUME IInv, MsgQueue_DeInit
  PROVE  IInv' /\ Fifo!Shut
<1>0. TypeOK /\ pnp = "up" /\ pnp' = "closing" /\ PH_OSALNFC_EXIT_THREAD \in Posted
      /\ thread # "none"
  BY DEF IInv, ThreadInv, MsgQueue_DeInit, Posted
<1>1. Len(Contents) = bMsgQueueUsed
  BY <1>0, ContentsType, SeqLen DEF TypeOK
<1>2. QueueState = "open"
  BY <1>0 DEF MsgQueue_DeInit, QueueState
<1>3. CASE bMsgQueueUsed < Size
  <2>1. IInv' /\ Contents' = Append(Contents, PH_OSALNFC_EXIT_THREAD)
    <3>1. /\ MsgQueue' = [MsgQueue EXCEPT ![bMsgQueueTail] = PH_OSALNFC_EXIT_THREAD]
          /\ bMsgQueueTail' = After(bMsgQueueTail)
          /\ bMsgQueueUsed' = bMsgQueueUsed + 1
          /\ hMsgQueueEvent' = TRUE
          /\ UNCHANGED <<bMsgQueueHead, raised, thread, message>>
      BY <1>0, <1>3 DEF MsgQueue_DeInit, PostMsg, TypeOK, Size
    <3>2. pnp' \in {"up", "closing"} /\ (pnp' = "up" => pnp = "up" /\ PH_OSALNFC_EXIT_THREAD # PH_OSALNFC_EXIT_THREAD)
          /\ pnp # "down"
      BY <1>0 DEF MsgQueue_DeInit
    <3> QED
      BY <1>0, <1>3, <3>1, <3>2, AcceptInv
  <2>2. QueueState' = "exiting" /\ message' = message
    BY <1>0, <1>3 DEF MsgQueue_DeInit, PostMsg, QueueState, Size
  <2> QED
    BY <2>1, <2>2, <1>1, <1>2, <1>3 DEF Fifo!Shut, Fifo!Accept, Size
<1>4. CASE ~(bMsgQueueUsed < Size)
  <2>1. UNCHANGED <<ring, hMsgQueueEvent, thread, message>> /\ raised' = TRUE /\ bMsgQueueUsed = Size
    BY <1>4 DEF MsgQueue_DeInit, PostMsg, Size
  <2>2. IInv' /\ Contents' = Contents
    BY <1>0, <2>1, RaiseInv
  <2>3. QueueState' = "crashed" /\ message' = message
    BY <2>1 DEF QueueState
  <2> QED
    BY <2>1, <2>2, <2>3, <1>1, <1>2 DEF Fifo!Shut, Fifo!Crash, Size
<1> QED
  BY <1>3, <1>4

LEMMA InitStep ==
  ASSUME IInv, MsgQueue_Init
  PROVE  IInv' /\ Fifo!Open
<1>0. TypeOK /\ bMsgQueueUsed = 0 /\ thread = "none" /\ message = NoMessage /\ ~hMsgQueueEvent
  BY DEF IInv, ThreadInv, MsgQueue_Init, TypeOK, EventMeansMessages
<1>1. Contents' = Contents /\ (TailInv => TailInv')
  BY <1>0, RingUnchanged DEF MsgQueue_Init
<1>2. TypeOK'
  BY <1>0 DEF MsgQueue_Init, TypeOK, ThreadType, ring
<1>3. EntriesInv' /\ ThreadInv' /\ EventMeansMessages' /\ (pnp' = "down" => ~hMsgQueueEvent')
  BY <1>0 DEF MsgQueue_Init, ring, EntriesInv, ThreadInv, EventMeansMessages
<1>4. QueueState = "closed" /\ QueueState' = "open"
  BY DEF MsgQueue_Init, QueueState
<1> QED
  BY <1>1, <1>2, <1>3, <1>4 DEF IInv, Fifo!Open, MsgQueue_Init

LEMMA ClosedStep ==
  ASSUME IInv, MsgQueue_Closed
  PROVE  IInv' /\ Fifo!Close
<1>0. TypeOK /\ thread = "none" /\ message = NoMessage
  BY DEF IInv, ThreadInv, MsgQueue_Closed, TypeOK
<1>1. bMsgQueueUsed' = 0 /\ bMsgQueueHead' = 0 /\ bMsgQueueTail' = 0 /\ MsgQueue' = Empty
  BY DEF MsgQueue_Closed, Reset
<1>2. TypeOK'
  <2>1. 0 \in Slots /\ 0 \in 0 .. Size
    BY DEF Slots, Last, Size
  <2>2. Empty \in [Slots -> Posted \cup {NoMessage}]
    BY DEF Empty
  <2> QED
    BY <1>0, <1>1, <2>1, <2>2 DEF MsgQueue_Closed, TypeOK, Size
<1>3. TailInv'
  BY <1>1 DEF TailInv, Place, Last
<1>4. EntriesInv' /\ ThreadInv' /\ EventMeansMessages' /\ (pnp' = "down" => ~hMsgQueueEvent')
  BY <1>0, <1>1 DEF MsgQueue_Closed, EntriesInv, ThreadInv, EventMeansMessages
<1>5. QueueState = "exited" /\ QueueState' = "closed"
  BY <1>0 DEF MsgQueue_Closed, QueueState
<1>6. Contents' = <<>>
  <2>1. Contents' = [k \in 1 .. 0 |-> MsgQueue'[Place(k - 1)']]
    BY <1>1 DEF Contents
  <2> QED
    BY <2>1
<1> QED
  BY <1>2, <1>3, <1>4, <1>5, <1>6 DEF IInv, Fifo!Close, MsgQueue_Closed

LEMMA StutterStep ==
  ASSUME IInv, UNCHANGED vars
  PROVE  IInv' /\ UNCHANGED Fifo!vars
<1>1. EntriesInv' /\ TailInv' /\ Contents' = Contents
  BY StillEntries DEF vars
<1>2. TypeOK'
  BY DEF vars, IInv, TypeOK, ring
<1>3. ThreadInv' /\ EventMeansMessages' /\ (pnp' = "down" => ~hMsgQueueEvent')
  BY DEF vars, IInv, ThreadInv, EventMeansMessages, ring
<1>4. QueueState' = QueueState /\ message' = message
  BY DEF vars, QueueState
<1> QED
  BY <1>1, <1>2, <1>3, <1>4 DEF IInv, Fifo!vars

LEMMA Step ==
  ASSUME IInv, [Next]_vars
  PROVE  IInv' /\ [Fifo!Next]_Fifo!vars
<1>1. ASSUME NEW m \in Messages, Post(m) PROVE IInv' /\ Fifo!Next
  BY <1>1, PostStep DEF Fifo!Next
<1>2. CASE MsgQueue_Init
  BY <1>2, InitStep DEF Fifo!Next
<1>3. CASE MsgQueue_DeInit
  BY <1>3, DeInitStep DEF Fifo!Next
<1>4. CASE MsgQueue_Closed
  BY <1>4, ClosedStep DEF Fifo!Next
<1>5. CASE Wake
  BY <1>5, WakeStep
<1>6. CASE GetMsg
  BY <1>6, GetStep DEF Fifo!Next
<1>7. CASE HandlerReturn
  BY <1>7, ReturnStep DEF Fifo!Next
<1>8. CASE UNCHANGED vars
  BY <1>8, StutterStep
<1> QED
  BY <1>1, <1>2, <1>3, <1>4, <1>5, <1>6, <1>7, <1>8 DEF Next, ThreadStep

-----------------------------------------------------------------------------
(* The ring, its indices and its counter keep their types. *)
THEOREM TypeCorrect == Spec => []TypeOK
<1>1. IInv => TypeOK
  BY DEF IInv
<1> QED
  BY <1>1, InitInv, Step, PTL DEF Spec

(***************************************************************************)
(* The event that wakes the LibNfc thread is set exactly while a message   *)
(* waits: no wake-up is lost.                                              *)
(***************************************************************************)
THEOREM NoLostWakeup == Spec => []EventMeansMessages
<1>1. IInv => EventMeansMessages
  BY DEF IInv
<1> QED
  BY <1>1, InitInv, Step, PTL DEF Spec

(***************************************************************************)
(* The ring behaves as a sequence: every step of the message queue is a    *)
(* step of the abstract queue or leaves it as it is.                       *)
(***************************************************************************)
THEOREM RingImplementsQueue == Spec => Fifo!SafeSpec
<1>1. Init => Fifo!Init
  <2> SUFFICES ASSUME Init PROVE Fifo!Init
    OBVIOUS
  <2>1. Contents = <<>>
    BY DEF Init, Contents
  <2>2. QueueState = "closed" /\ message = NoMessage
    BY DEF Init, QueueState
  <2> QED
    BY <2>1, <2>2 DEF Fifo!Init
<1> QED
  BY <1>1, InitInv, Step, PTL DEF Spec, Fifo!SafeSpec

=============================================================================
