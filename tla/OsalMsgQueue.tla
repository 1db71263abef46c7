---------------------------- MODULE OsalMsgQueue ----------------------------
(***************************************************************************)
(* The message queue of the LibNfc thread (phOsalNfc_MsgQueue.c): a ring   *)
(* of fixed size behind MsgQueueLock, a manual-reset event that wakes the  *)
(* thread, and the thread itself.  Messages are posted from any thread,    *)
(* the LibNfc thread included; phOsalNfc_Init and phOsalNfc_DeInit run on  *)
(* the thread that starts and stops the driver.                            *)
(*                                                                         *)
(* An action is a section under MsgQueueLock, or the wait for the event    *)
(* outside it.  A thread that cannot be created and an event that cannot   *)
(* be created are left out.                                                *)
(***************************************************************************)
EXTENDS Integers, Sequences

CONSTANTS Messages,                  \* messages posted by the users of the queue
          PH_OSALNFC_EXIT_THREAD,    \* the message that ends the thread
          NoMessage,                 \* an entry of zeroed memory
          PH_OSAL_MSG_QUEUE_MAX_SIZE \* 16 in the code

ASSUME QueueAssumption ==
  /\ PH_OSALNFC_EXIT_THREAD \notin Messages
  /\ NoMessage \notin Messages \cup {PH_OSALNFC_EXIT_THREAD}
  /\ PH_OSAL_MSG_QUEUE_MAX_SIZE \in 1 .. 255

VARIABLES
  MsgQueue,       \* the ring
  bMsgQueueHead, bMsgQueueTail, bMsgQueueUsed,
  hMsgQueueEvent, \* the event is set
  thread,         \* the LibNfc thread: see ThreadType
  message,        \* what phOsalNc_GetMsg returned
  pnp,            \* the driver: "down", "up" or "closing" (waits for the thread)
  raised          \* phOsalNfc_RaiseException: nothing runs after it

ring == <<MsgQueue, bMsgQueueHead, bMsgQueueTail, bMsgQueueUsed>>
vars == <<ring, hMsgQueueEvent, thread, message, pnp, raised>>

Last == PH_OSAL_MSG_QUEUE_MAX_SIZE - 1
Slots == 0 .. Last
Posted == Messages \cup {PH_OSALNFC_EXIT_THREAD}

(***************************************************************************)
(* none: not created or ended;  waiting: in WaitForSingleObject;  woken:   *)
(* before EnterCriticalSection;  running: in the handler of a message      *)
(***************************************************************************)
ThreadType == {"none", "waiting", "woken", "running"}

TypeOK ==
  /\ MsgQueue \in [Slots -> Posted \cup {NoMessage}]
  /\ bMsgQueueHead \in Slots
  /\ bMsgQueueTail \in Slots
  /\ bMsgQueueUsed \in 0 .. PH_OSAL_MSG_QUEUE_MAX_SIZE
  /\ hMsgQueueEvent \in BOOLEAN
  /\ thread \in ThreadType
  /\ message \in Posted \cup {NoMessage}
  /\ pnp \in {"down", "up", "closing"}
  /\ raised \in BOOLEAN

Empty == [i \in Slots |-> NoMessage]

Init ==
  /\ MsgQueue = Empty
  /\ bMsgQueueHead = 0 /\ bMsgQueueTail = 0 /\ bMsgQueueUsed = 0
  /\ hMsgQueueEvent = FALSE
  /\ thread = "none"
  /\ message = NoMessage
  /\ pnp = "down"
  /\ raised = FALSE

-----------------------------------------------------------------------------
(* The index after i in the ring. *)
After(i) == IF i + 1 < PH_OSAL_MSG_QUEUE_MAX_SIZE THEN i + 1 ELSE 0

(***************************************************************************)
(* phOsalNfc_PostMsg: store, count and set the event; a full queue raises  *)
(* a noncontinuable exception.                                             *)
(***************************************************************************)
PostMsg(m) ==
  \/ /\ bMsgQueueUsed < PH_OSAL_MSG_QUEUE_MAX_SIZE
     /\ MsgQueue' = [MsgQueue EXCEPT ![bMsgQueueTail] = m]
     /\ bMsgQueueTail' = After(bMsgQueueTail)
     /\ bMsgQueueUsed' = bMsgQueueUsed + 1
     /\ hMsgQueueEvent' = TRUE
     /\ UNCHANGED <<bMsgQueueHead, raised>>
  \/ /\ bMsgQueueUsed = PH_OSAL_MSG_QUEUE_MAX_SIZE
     /\ raised' = TRUE
     /\ UNCHANGED <<ring, hMsgQueueEvent>>

Post(m) ==
  /\ ~raised
  /\ pnp # "down"
  /\ PostMsg(m)
  /\ UNCHANGED <<thread, message, pnp>>

(* phOsalNfc_MsgQueue_Init: the context is zeroed, the thread created and resumed. *)
MsgQueue_Init ==
  /\ ~raised
  /\ pnp = "down"
  /\ pnp' = "up"
  /\ thread' = "waiting"
  /\ UNCHANGED <<ring, hMsgQueueEvent, message, raised>>

(* phOsalNc_GetMsg: the event wakes the thread, which then takes the lock. *)
Wake ==
  /\ ~raised
  /\ thread = "waiting"
  /\ hMsgQueueEvent
  /\ thread' = "woken"
  /\ UNCHANGED <<ring, hMsgQueueEvent, message, pnp, raised>>

(* The event after an entry was taken: reset with the last one. *)
EventAfterTake == bMsgQueueUsed # 1

GetMsg ==
  /\ ~raised
  /\ thread = "woken"
  /\ IF bMsgQueueUsed > 0
       THEN /\ message' = MsgQueue[bMsgQueueHead]
            /\ bMsgQueueHead' = After(bMsgQueueHead)
            /\ bMsgQueueUsed' = bMsgQueueUsed - 1
            /\ hMsgQueueEvent' = EventAfterTake
            /\ thread' = "running"
       ELSE /\ thread' = "waiting"
            /\ UNCHANGED <<message, bMsgQueueHead, bMsgQueueUsed, hMsgQueueEvent>>
  /\ UNCHANGED <<MsgQueue, bMsgQueueTail, pnp, raised>>

(* The handler of the message returns; the exit message ends the loop. *)
HandlerReturn ==
  /\ ~raised
  /\ thread = "running"
  /\ thread' = IF message = PH_OSALNFC_EXIT_THREAD THEN "none" ELSE "waiting"
  /\ message' = NoMessage
  /\ UNCHANGED <<ring, hMsgQueueEvent, pnp, raised>>

(* phOsalNfc_MsgQueue_DeInit: post the exit message ... *)
MsgQueue_DeInit ==
  /\ ~raised
  /\ pnp = "up"
  /\ PostMsg(PH_OSALNFC_EXIT_THREAD)
  /\ pnp' = "closing"
  /\ UNCHANGED <<thread, message>>

(* ... wait for the end of the thread, reset the queue and the context. *)
ResetMutant == bMsgQueueUsed' = 0 /\ UNCHANGED <<bMsgQueueHead, bMsgQueueTail>>
Reset == bMsgQueueHead' = 0 /\ bMsgQueueTail' = 0 /\ bMsgQueueUsed' = 0

MsgQueue_Closed ==
  /\ ~raised
  /\ pnp = "closing"
  /\ thread = "none"
  /\ pnp' = "down"
  /\ Reset
  /\ MsgQueue' = Empty
  /\ hMsgQueueEvent' = FALSE
  /\ UNCHANGED <<thread, message, raised>>

ThreadStep == Wake \/ GetMsg \/ HandlerReturn

Next ==
  \/ ThreadStep
  \/ MsgQueue_Init \/ MsgQueue_DeInit \/ MsgQueue_Closed
  \/ \E m \in Messages : Post(m)

Spec == Init /\ [][Next]_vars

(* The thread is scheduled, handlers return, and the stop of the driver waits. *)
FairSpec == Spec /\ WF_vars(ThreadStep) /\ WF_vars(MsgQueue_Closed)

-----------------------------------------------------------------------------
(***************************************************************************)
(* The event is set exactly while the ring holds a message: neither a      *)
(* lost wake-up nor a busy loop.                                           *)
(***************************************************************************)
EventMeansMessages == pnp # "down" => (hMsgQueueEvent <=> bMsgQueueUsed > 0)

-----------------------------------------------------------------------------
(* The ring read as a sequence. *)
Place(k) == IF bMsgQueueHead + k <= Last THEN bMsgQueueHead + k
                                         ELSE bMsgQueueHead + k - PH_OSAL_MSG_QUEUE_MAX_SIZE

Contents == [k \in 1 .. bMsgQueueUsed |-> MsgQueue[Place(k - 1)]]

QueueState ==
  CASE raised -> "crashed"
    [] ~raised /\ pnp = "down" -> "closed"
    [] ~raised /\ pnp = "up" -> "open"
    [] ~raised /\ pnp = "closing" /\ thread # "none" -> "exiting"
    [] ~raised /\ pnp = "closing" /\ thread = "none" -> "exited"

Fifo == INSTANCE OsalQueue WITH
          Messages <- Messages, ExitThread <- PH_OSALNFC_EXIT_THREAD,
          NoMessage <- NoMessage, Capacity <- PH_OSAL_MSG_QUEUE_MAX_SIZE,
          queue <- Contents, current <- message, state <- QueueState

(***************************************************************************)
(* The ring with its event is the queue of OsalQueue: messages are run     *)
(* once, in the order posted, and every one posted before the exit message *)
(* is run.                                                                 *)
(***************************************************************************)
ImplementsFifo == Fifo!Spec

=============================================================================
