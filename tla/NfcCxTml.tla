------------------------------ MODULE NfcCxTml ------------------------------
(***************************************************************************)
(* The transport mapping layer of the class extension (Cx/NfcCxTml.cpp):   *)
(* the three queues behind one lock, the single write the transport may    *)
(* hold, and the deferred completions that run on the LibNfc thread.       *)
(*                                                                         *)
(* Four parties interleave, at the granularity of QueueLock:               *)
(*   - the LibNfc thread, which drains msgQueue and runs every callback;   *)
(*   - the client driver's thread that reports a received packet;          *)
(*   - the client driver's thread that completes a write request, possibly *)
(*     before the call that sent the request has returned;                 *)
(*   - the PnP thread that starts and stops the interface.                 *)
(* The upper layer is the NCI core: it keeps one write outstanding and     *)
(* issues a new read at the end of every read callback.                    *)
(*                                                                         *)
(* A read entry of ReadQueue carries nothing but a 260-byte buffer, which  *)
(* no packet exceeds (NCI_PACKET_MAX_SIZE is asserted), so ReadQueue is    *)
(* its length and the branches for a short buffer are left out.            *)
(***************************************************************************)
EXTENDS Integers, Sequences

CONSTANTS Writes,        \* the write requests the core may create, each used once
          MaxPackets,    \* bound on the packets the controller sends
          MaxTimeouts,   \* bound on the response timeouts of the core
          MaxRestarts,   \* bound on the releases of the core
          NoWrite        \* "no write request"

ASSUME TmlAssumption == /\ NoWrite \notin Writes
                        /\ MaxPackets \in Nat
                        /\ MaxTimeouts \in Nat
                        /\ MaxRestarts \in Nat

VARIABLES
  interfaceState,           \* InterfaceState
  readQueue,                \* number of entries of ReadQueue
  readNotificationQueue,    \* packets received that no read could take yet
  writeQueue,               \* writes waiting behind the one at the transport
  isWriteCompletionPending, \* IsWriteCompletionPending
  refCount,                 \* ReferenceCount of each write context
  wstate,                   \* where each write request is
  session,                  \* the core context (numbered by restarts) that issued it
  msgQueue,                 \* messages of the LibNfc thread
  lib,                      \* the LibNfc thread: see LibType
  dispatcher,               \* the thread inside NfcCxTmlDispatchReadNotification
  received,                 \* packets received so far: they are 1 .. received
  delivered,                \* packets passed to the core's read callback, in order
  before,                   \* before[p]: writes at the transport when p was received
  core,                     \* the NCI core: see CoreType
  deviceFailed,             \* NfcCxDeviceSetFailed was called
  timeouts, restarts        \* counters for the bounds

queues == <<readQueue, readNotificationQueue, writeQueue, isWriteCompletionPending>>
writes == <<refCount, wstate, session>>
packets == <<received, delivered, before>>
bounds == <<timeouts, restarts>>
vars == <<interfaceState, queues, writes, msgQueue, lib, dispatcher, packets,
          core, deviceFailed, bounds>>

Packets == 1 .. MaxPackets

(***************************************************************************)
(* "none": not created;  "queued": in writeQueue;  "sent": handed to the   *)
(* transport;  "done": completed by the transport;  "posted": its deferred *)
(* completion is queued or runs;  "calledBack": the core's callback ran;   *)
(* "aborted": dropped by phTmlNfc_WriteAbort.                              *)
(***************************************************************************)
WriteStates == {"none", "queued", "sent", "done", "posted", "calledBack", "aborted"}

(***************************************************************************)
(* The deferred callbacks posted to the LibNfc thread.  ctx numbers the    *)
(* core context the read was opened for; waited: the reporting thread      *)
(* waits for the completion.                                               *)
(***************************************************************************)
ReadMsg(p, ctx, waited) == [kind |-> "read", pkt |-> p, ctx |-> ctx, waited |-> waited]
WriteMsg(w) == [kind |-> "write", req |-> w]
TimerMsg == [kind |-> "timer"]
InitMsg == [kind |-> "init"]
Messages == [kind : {"read"}, pkt : Packets, ctx : 0 .. MaxRestarts, waited : BOOLEAN]
              \cup [kind : {"write"}, req : Writes] \cup {TimerMsg, InitMsg}

(***************************************************************************)
(* pc: where the LibNfc thread is; cur: the write whose deferred           *)
(* completion it runs; sending: the write whose NfcCxTml_Write has not     *)
(* returned; signal: the reader waits for the read completion being run.   *)
(***************************************************************************)
LibType == [pc : {"idle", "readCb", "inlineReadCb", "writeCb", "postWrite", "processWrite"},
            cur : Writes \cup {NoWrite},
            sending : Writes \cup {NoWrite},
            signal : BOOLEAN]

DispatcherType == [pc : {"idle", "posting", "waiting"}, pkt : 0 .. MaxPackets,
                   ctx : 0 .. MaxRestarts]
DispatcherIdle == [pc |-> "idle", pkt |-> 0, ctx |-> 0]

(***************************************************************************)
(* up: the core context exists; sending: its send state machine is not     *)
(* idle; timer: its response timer is armed; fired: it fired and was not   *)
(* stopped since.                                                          *)
(***************************************************************************)
CoreType == [up : BOOLEAN, sending : BOOLEAN, timer : BOOLEAN, fired : BOOLEAN]
CoreDown == [up |-> FALSE, sending |-> FALSE, timer |-> FALSE, fired |-> FALSE]

Init ==
  /\ interfaceState = "stopped"
  /\ readQueue = 0
  /\ readNotificationQueue = <<>>
  /\ writeQueue = <<>>
  /\ isWriteCompletionPending = FALSE
  /\ refCount = [w \in Writes |-> 0]
  /\ wstate = [w \in Writes |-> "none"]
  /\ session = [w \in Writes |-> 0]
  /\ msgQueue = <<>>
  /\ lib = [pc |-> "idle", cur |-> NoWrite, sending |-> NoWrite, signal |-> FALSE]
  /\ dispatcher = DispatcherIdle
  /\ received = 0
  /\ delivered = <<>>
  /\ before = [p \in Packets |-> {}]
  /\ core = CoreDown
  /\ deviceFailed = FALSE
  /\ timeouts = 0
  /\ restarts = 0

-----------------------------------------------------------------------------
(* Writes *)

(* WdfRequestSend accepts the request, or fails it at once: the failure     *)
(* path drops the reference the completion routine would have dropped.      *)
HandToTransport(w) ==
  \E accepted \in BOOLEAN :
    /\ wstate' = [wstate EXCEPT ![w] = IF accepted THEN "sent" ELSE "done"]
    /\ refCount' = [refCount EXCEPT ![w] = IF accepted THEN 2 ELSE 1]

(* A new write must wait behind a queued one or the one at the transport.   *)
WriteBusyMutant == writeQueue # <<>>
WriteBusy == writeQueue # <<>> \/ isWriteCompletionPending

(* phTmlNfc_Write, and NfcCxTml_Write up to the return of WdfRequestSend.   *)
phTmlNfc_Write(w) ==
  /\ lib.sending = NoWrite
  /\ lib.pc \in {"idle", "readCb", "inlineReadCb", "writeCb"}
  /\ core.up /\ ~core.sending
  /\ interfaceState = "running"
  /\ wstate[w] = "none"
  /\ core' = [core EXCEPT !.sending = TRUE]
  /\ session' = [session EXCEPT ![w] = restarts]
  /\ \/ /\ WriteBusy
        /\ writeQueue' = Append(writeQueue, w)
        /\ wstate' = [wstate EXCEPT ![w] = "queued"]
        /\ refCount' = [refCount EXCEPT ![w] = 1]
        /\ UNCHANGED <<isWriteCompletionPending, lib>>
     \/ /\ ~WriteBusy
        /\ isWriteCompletionPending' = TRUE
        /\ HandToTransport(w)
        /\ lib' = [lib EXCEPT !.sending = w]
        /\ UNCHANGED writeQueue
  /\ UNCHANGED <<interfaceState, readQueue, readNotificationQueue, msgQueue, dispatcher,
                 packets, deviceFailed, bounds>>

(* InterlockedDecrement of ReferenceCount: whoever reaches 0 posts the       *)
(* deferred completion, the other leaves the write in the state given.      *)
DropReferenceMutant(w, state) ==
  /\ refCount' = [refCount EXCEPT ![w] = @ - 1]
  /\ wstate' = [wstate EXCEPT ![w] = "posted"]
  /\ msgQueue' = Append(msgQueue, WriteMsg(w))
DropReference(w, state) ==
  /\ refCount' = [refCount EXCEPT ![w] = @ - 1]
  /\ IF refCount[w] = 1
       THEN /\ wstate' = [wstate EXCEPT ![w] = "posted"]
            /\ msgQueue' = Append(msgQueue, WriteMsg(w))
       ELSE /\ wstate' = [wstate EXCEPT ![w] = state]
            /\ UNCHANGED msgQueue

(* The end of NfcCxTml_Write, after WdfRequestSend returned.                *)
NfcCxTml_WriteReturn ==
  /\ lib.sending # NoWrite
  /\ DropReference(lib.sending, wstate[lib.sending])
  /\ lib' = [lib EXCEPT !.sending = NoWrite]
  /\ UNCHANGED <<interfaceState, queues, session, dispatcher, packets, core, deviceFailed, bounds>>

(* The completion routine of the write request, on the client's thread.     *)
NfcCxTml_WriteCompletion(w) ==
  /\ wstate[w] = "sent"
  /\ DropReference(w, "done")
  /\ UNCHANGED <<interfaceState, queues, session, lib, dispatcher, packets, core, deviceFailed,
                 bounds>>

(* The thread of a write completion gives up waiting for the callback.      *)
WriteWaitTimeout ==
  /\ ~deviceFailed
  /\ \E w \in Writes : wstate[w] = "posted"
  /\ deviceFailed' = TRUE
  /\ UNCHANGED <<interfaceState, queues, writes, msgQueue, lib, dispatcher, packets,
                 core, bounds>>

(* The callbacks compare their context with the address of the core's, and  *)
(* the allocator may give a core the address of a released one: the context *)
(* of an earlier core may match, or not.                                    *)
SameContext == core.up
OtherContext(ctx) == ~core.up \/ ctx # restarts

(* The LibNfc thread is about to run the next message of its queue.         *)
NextMessage(kind) ==
  /\ lib.pc = "idle" /\ lib.sending = NoWrite
  /\ msgQueue # <<>> /\ Head(msgQueue).kind = kind

(* NfcCxTml_DeferredWriteCompletion up to PfnWriteCompletion: the core's    *)
(* send state machine returns to idle and may start its response timer.     *)
NfcCxTml_DeferredWriteCompletion ==
  /\ NextMessage("write")
  /\ msgQueue' = Tail(msgQueue)
  /\ lib' = [lib EXCEPT !.pc = "writeCb", !.cur = Head(msgQueue).req]
  /\ \/ /\ SameContext
        /\ \E start \in BOOLEAN : core' = [core EXCEPT !.sending = FALSE, !.timer = @ \/ start]
     \/ /\ OtherContext(session[Head(msgQueue).req])
        /\ UNCHANGED core
  /\ UNCHANGED <<interfaceState, queues, writes, dispatcher, packets, deviceFailed, bounds>>

(* PfnWriteCompletion returns; the request is deleted.                      *)
WriteCallbackReturn ==
  /\ lib.pc = "writeCb" /\ lib.sending = NoWrite
  /\ wstate' = [wstate EXCEPT ![lib.cur] = "calledBack"]
  /\ lib' = [lib EXCEPT !.pc = "postWrite", !.cur = NoWrite]
  /\ UNCHANGED <<interfaceState, queues, refCount, session, msgQueue, dispatcher, packets,
                 core, deviceFailed, bounds>>

(* A queued write may follow.                                               *)
SendsQueuedMutant(pending) == writeQueue # <<>> /\ ~pending /\ readQueue > 0
SendsQueued(pending) == writeQueue # <<>> /\ ~pending

(* ProcessWrite of NfcCxTml_PostWriteCompletion, under QueueLock: pending   *)
(* is the value of IsWriteCompletionPending it sees.                        *)
ProcessWrite(pending) ==
  \/ /\ SendsQueued(pending)
     /\ writeQueue' = Tail(writeQueue)
     /\ isWriteCompletionPending' = TRUE
     /\ HandToTransport(Head(writeQueue))
     /\ UNCHANGED session
     /\ lib' = [lib EXCEPT !.pc = "idle", !.sending = Head(writeQueue)]
  \/ /\ ~SendsQueued(pending)
     /\ isWriteCompletionPending' = pending
     /\ lib' = [lib EXCEPT !.pc = "idle"]
     /\ UNCHANGED <<writeQueue, writes>>

(* The core processes a packet: the response its timer waits for stops it.  *)
ProcessPacket ==
  \E answered \in BOOLEAN :
    core' = [core EXCEPT !.timer = @ /\ ~answered, !.fired = @ /\ ~answered]

(* A packet that arrived during the write can take a pending read.          *)
InlineReadMutant == FALSE
InlineRead == readQueue > 0 /\ readNotificationQueue # <<>>

(* NfcCxTml_PostWriteCompletion: a queued packet first, then a queued write.*)
NfcCxTml_PostWriteCompletion ==
  /\ lib.pc = "postWrite"
  /\ \/ /\ ~InlineRead
        /\ ProcessWrite(FALSE)
        /\ UNCHANGED <<readQueue, readNotificationQueue, delivered, core, deviceFailed>>
     \/ /\ InlineRead
        /\ isWriteCompletionPending' = FALSE
        /\ readQueue' = readQueue - 1
        /\ readNotificationQueue' = Tail(readNotificationQueue)
        /\ \/ /\ readQueue' > 0 /\ readNotificationQueue' # <<>>
              /\ deviceFailed' = TRUE
              /\ lib' = [lib EXCEPT !.pc = "idle"]
              /\ UNCHANGED <<delivered, core>>
           \/ /\ readQueue' = 0 \/ readNotificationQueue' = <<>>
              /\ delivered' = Append(delivered, Head(readNotificationQueue))
              /\ lib' = [lib EXCEPT !.pc = "inlineReadCb"]
              /\ ProcessPacket
              /\ UNCHANGED deviceFailed
        /\ UNCHANGED <<writeQueue, writes>>
  /\ UNCHANGED <<interfaceState, msgQueue, dispatcher, received, before, bounds>>

(* The second half of NfcCxTml_PostWriteCompletion, after an inline read.   *)
PostWriteProcessWrite ==
  /\ lib.pc = "processWrite"
  /\ ProcessWrite(isWriteCompletionPending)
  /\ UNCHANGED <<interfaceState, readQueue, readNotificationQueue, msgQueue, dispatcher,
                 packets, core, deviceFailed, bounds>>

-----------------------------------------------------------------------------
(* Reads *)

(* A queued packet may take a new read unless a write is pending.           *)
PacketReady == readNotificationQueue # <<>> /\ ~isWriteCompletionPending

(* NfcCxTml_Read: with an interface that runs, take a queued packet unless  *)
(* a write is pending, or queue the read.                                   *)
NfcCxTml_Read(messages) ==
  \/ /\ interfaceState = "stopped"
     /\ msgQueue' = messages
     /\ UNCHANGED <<readQueue, readNotificationQueue>>
  \/ /\ interfaceState = "running"
     /\ PacketReady
     /\ msgQueue' = Append(messages, ReadMsg(Head(readNotificationQueue), restarts, FALSE))
     /\ readNotificationQueue' = Tail(readNotificationQueue)
     /\ UNCHANGED readQueue
  \/ /\ interfaceState = "running"
     /\ ~PacketReady
     /\ readQueue' = readQueue + 1
     /\ msgQueue' = messages
     /\ UNCHANGED readNotificationQueue

(* A packet may take the pending read unless a write is pending.            *)
ReadReadyMutant == readQueue > 0
ReadReady == readQueue > 0 /\ ~isWriteCompletionPending

(* NfcCxTmlDispatchReadNotification under QueueLock: the packet is queued,  *)
(* or takes the read at the head of ReadQueue.                              *)
NfcCxTmlDispatchReadNotification ==
  LET p == received + 1 IN
  /\ dispatcher.pc = "idle"
  /\ received < MaxPackets
  /\ received' = p
  /\ before' = [before EXCEPT ![p] = {w \in Writes : wstate[w] \in {"sent", "done", "posted"}}]
  /\ \/ /\ ~ReadReady
        /\ readNotificationQueue' = Append(readNotificationQueue, p)
        /\ UNCHANGED <<readQueue, dispatcher>>
     \/ /\ ReadReady
        /\ readQueue' = readQueue - 1
        /\ dispatcher' = [pc |-> "posting", pkt |-> p, ctx |-> restarts]
        /\ UNCHANGED readNotificationQueue
  /\ UNCHANGED <<interfaceState, writeQueue, isWriteCompletionPending, writes, msgQueue, lib,
                 delivered, core, deviceFailed, bounds>>

(* The same routine after the lock: it posts the completion and waits for   *)
(* it when the completion event could be created.                           *)
DispatchPost ==
  /\ dispatcher.pc = "posting"
  /\ \E waited \in BOOLEAN :
       /\ msgQueue' = Append(msgQueue, ReadMsg(dispatcher.pkt, dispatcher.ctx, waited))
       /\ dispatcher' = IF waited THEN [dispatcher EXCEPT !.pc = "waiting"]
                                  ELSE DispatcherIdle
  /\ UNCHANGED <<interfaceState, queues, writes, lib, packets, core, deviceFailed, bounds>>

(* The wait for the completion event ends without the event.                *)
DispatchWaitTimeout ==
  /\ dispatcher.pc = "waiting"
  /\ ~deviceFailed
  /\ deviceFailed' = TRUE
  /\ dispatcher' = DispatcherIdle
  /\ UNCHANGED <<interfaceState, queues, writes, msgQueue, lib, packets, core, bounds>>

(* The reporting thread is released if it waits for the completion.         *)
Signal(waited) ==
  dispatcher' = IF waited /\ dispatcher.pc = "waiting" THEN DispatcherIdle ELSE dispatcher

(* NfcCxTml_DeferredReadCompletion from the message queue: the core         *)
(* processes the packet, or drops one that was read for another context.    *)
NfcCxTml_DeferredReadCompletion ==
  LET msg == Head(msgQueue) IN
  /\ NextMessage("read")
  /\ msgQueue' = Tail(msgQueue)
  /\ delivered' = Append(delivered, msg.pkt)
  /\ \/ /\ SameContext
        /\ lib' = [lib EXCEPT !.pc = "readCb", !.signal = msg.waited]
        /\ ProcessPacket
        /\ UNCHANGED dispatcher
     \/ /\ OtherContext(msg.ctx)
        /\ Signal(msg.waited)
        /\ UNCHANGED <<lib, core>>
  /\ UNCHANGED <<interfaceState, queues, writes, received, before, deviceFailed, bounds>>

(* phNciNfc_CoreRecv opens a read, unless the core was released meanwhile.  *)
phNciNfc_CoreRecvMutant == UNCHANGED <<readQueue, readNotificationQueue, msgQueue>>
phNciNfc_CoreRecv ==
  \/ core.up /\ NfcCxTml_Read(msgQueue)
  \/ ~core.up /\ UNCHANGED <<readQueue, readNotificationQueue, msgQueue>>

(* The end of a read callback: phNciNfc_CoreRecvCb opens the next read.     *)
ReadCallbackReturn ==
  /\ lib.pc \in {"readCb", "inlineReadCb"} /\ lib.sending = NoWrite
  /\ phNciNfc_CoreRecv
  /\ lib' = [lib EXCEPT !.pc = IF lib.pc = "readCb" THEN "idle" ELSE "processWrite",
                        !.signal = FALSE]
  /\ Signal(lib.signal)
  /\ UNCHANGED <<interfaceState, writeQueue, isWriteCompletionPending, writes, packets, core,
                 deviceFailed, bounds>>

-----------------------------------------------------------------------------
(* The core's other handlers on the LibNfc thread, and the PnP thread *)

(* The response timer fires on a thread of the pool.                        *)
TimerFires ==
  /\ core.timer
  /\ timeouts < MaxTimeouts
  /\ timeouts' = timeouts + 1
  /\ core' = [core EXCEPT !.timer = FALSE, !.fired = TRUE]
  /\ msgQueue' = Append(msgQueue, TimerMsg)
  /\ UNCHANGED <<interfaceState, queues, writes, lib, dispatcher, packets, deviceFailed, restarts>>

(* phTmlNfc_ReadAbort empties ReadQueue, and leaves the packets received.    *)
phTmlNfc_ReadAbort == readQueue' = 0 /\ UNCHANGED readNotificationQueue

(* phNciNfc_RspTimeOutCb, unless the timer was stopped after it fired:      *)
(* phTmlNfc_ReadAbort, the timeout handler (which may write), then a new    *)
(* read: the tail is that of a read callback.                               *)
ResponseTimeout ==
  /\ NextMessage("timer")
  /\ msgQueue' = Tail(msgQueue)
  /\ \/ /\ core.fired
        /\ core' = [core EXCEPT !.timer = FALSE, !.fired = FALSE]
        /\ phTmlNfc_ReadAbort
        /\ lib' = [lib EXCEPT !.pc = "readCb"]
     \/ /\ ~core.fired
        /\ UNCHANGED <<core, readQueue, readNotificationQueue, lib>>
  /\ UNCHANGED <<interfaceState, writeQueue, isWriteCompletionPending,
                 writes, dispatcher, packets, deviceFailed, bounds>>

(* phTmlNfc_WriteAbort drops the writes that wait, not the one sent.         *)
phTmlNfc_WriteAbort ==
  /\ writeQueue' = <<>>
  /\ wstate' = [w \in Writes |-> IF wstate[w] = "queued" THEN "aborted" ELSE wstate[w]]

(* phNciNfc_CoreRelease, from a message of its own or from inside a         *)
(* callback: phTmlNfc_ReadAbort and phTmlNfc_WriteAbort.                    *)
CoreRelease ==
  /\ lib.pc \in {"idle", "readCb", "inlineReadCb", "writeCb"} /\ lib.sending = NoWrite
  /\ core.up
  /\ restarts < MaxRestarts
  /\ restarts' = restarts + 1
  /\ core' = CoreDown
  /\ phTmlNfc_ReadAbort
  /\ phTmlNfc_WriteAbort
  /\ UNCHANGED <<interfaceState, isWriteCompletionPending, refCount,
                 session, msgQueue, lib, dispatcher, packets, deviceFailed, timeouts>>

(* The device is started: an initialisation is posted to the LibNfc thread. *)
RequestInit ==
  /\ ~core.up /\ interfaceState = "running"
  /\ \A i \in DOMAIN msgQueue : msgQueue[i] # InitMsg
  /\ msgQueue' = Append(msgQueue, InitMsg)
  /\ UNCHANGED <<interfaceState, queues, writes, lib, dispatcher, packets, core, deviceFailed,
                 bounds>>

(* phNciNfc_CoreInitialise opens the first read; it fails, and the context  *)
(* is freed, when that read is refused.                                     *)
CoreInit ==
  /\ NextMessage("init")
  /\ NfcCxTml_Read(Tail(msgQueue))
  /\ core' = [core EXCEPT !.up = (interfaceState = "running")]
  /\ UNCHANGED <<interfaceState, writeQueue, isWriteCompletionPending, writes, lib, dispatcher,
                 packets, deviceFailed, bounds>>

NfcCxTmlInterfaceStart ==
  /\ interfaceState = "stopped"
  /\ interfaceState' = "running"
  /\ UNCHANGED <<queues, writes, msgQueue, lib, dispatcher, packets, core, deviceFailed, bounds>>

(* NfcCxFdoDeInitialize stops the interface after the core was released, or *)
(* after the wait for the release timed out and the device was failed.      *)
NfcCxTmlInterfaceStop ==
  /\ interfaceState = "running"
  /\ restarts > 0
  /\ ~core.up \/ deviceFailed
  /\ interfaceState' = "stopped"
  /\ UNCHANGED <<queues, writes, msgQueue, lib, dispatcher, packets, core, deviceFailed, bounds>>

LibNfcThread ==
  \/ NfcCxTml_WriteReturn
  \/ NfcCxTml_DeferredWriteCompletion
  \/ WriteCallbackReturn
  \/ NfcCxTml_PostWriteCompletion
  \/ PostWriteProcessWrite
  \/ NfcCxTml_DeferredReadCompletion
  \/ ReadCallbackReturn
  \/ ResponseTimeout
  \/ CoreInit

Next ==
  \/ LibNfcThread
  \/ \E w \in Writes : phTmlNfc_Write(w) \/ NfcCxTml_WriteCompletion(w)
  \/ NfcCxTmlDispatchReadNotification
  \/ DispatchPost
  \/ DispatchWaitTimeout
  \/ WriteWaitTimeout
  \/ TimerFires
  \/ RequestInit
  \/ CoreRelease
  \/ NfcCxTmlInterfaceStart
  \/ NfcCxTmlInterfaceStop

Spec == Init /\ [][Next]_vars

(* The LibNfc thread drains its queue and every callback returns; the       *)
(* client driver completes each request it accepted and its reporting       *)
(* thread runs.  New writes, packets, timeouts and releases are free.       *)
Fairness ==
  /\ WF_vars(LibNfcThread)
  /\ \A w \in Writes : WF_vars(NfcCxTml_WriteCompletion(w))
  /\ WF_vars(DispatchPost)

FairSpec == Spec /\ Fairness

-----------------------------------------------------------------------------
(* Properties *)

AtTransport == {w \in Writes : wstate[w] \in {"sent", "done", "posted"}}

(* The deferred completion of w is in the queue s; it is so only once.      *)
HasWrite(s, w) == \E i \in DOMAIN s : s[i] = WriteMsg(w)
WriteOnce(s, w) == \A i, j \in DOMAIN s : s[i] = WriteMsg(w) /\ s[j] = WriteMsg(w) => i = j

TypeOK ==
  /\ interfaceState \in {"stopped", "running"}
  /\ readQueue \in Nat
  /\ readNotificationQueue \in Seq(Packets)
  /\ writeQueue \in Seq(Writes)
  /\ isWriteCompletionPending \in BOOLEAN
  /\ refCount \in [Writes -> 0 .. 2]
  /\ wstate \in [Writes -> WriteStates]
  /\ session \in [Writes -> 0 .. MaxRestarts]
  /\ msgQueue \in Seq(Messages)
  /\ lib \in LibType
  /\ dispatcher \in DispatcherType
  /\ received \in 0 .. MaxPackets
  /\ delivered \in Seq(Packets)
  /\ before \in [Packets -> SUBSET Writes]
  /\ core \in CoreType
  /\ deviceFailed \in BOOLEAN
  /\ timeouts \in 0 .. MaxTimeouts
  /\ restarts \in 0 .. MaxRestarts

(* The transport holds one write at a time, and IsWriteCompletionPending is *)
(* set exactly while it does or until its post-processing clears the flag.  *)
WriteExclusion ==
  /\ \A v, w \in AtTransport : v = w
  /\ isWriteCompletionPending <=> (AtTransport # {} \/ lib.pc = "postWrite")
  /\ lib.pc = "postWrite" => AtTransport = {}

(* The two decrements of ReferenceCount agree on who completes the write:   *)
(* its deferred completion is posted once, after both have happened.        *)
CompletedOnce ==
  \A w \in Writes :
    /\ WriteOnce(msgQueue, w)
    /\ wstate[w] = "posted" <=> HasWrite(msgQueue, w) \/ lib.cur = w
    /\ ~(HasWrite(msgQueue, w) /\ lib.cur = w)
    /\ wstate[w] = "posted" => refCount[w] = 0 /\ lib.sending # w

(* The order NfcCxTml_PostWriteCompletion documents: a packet the           *)
(* controller sent after a write reached it is passed to the core only      *)
(* after the callback of that write has run.                                *)
ResponseAfterWriteCallback ==
  \A i \in DOMAIN delivered : \A w \in before[delivered[i]] : wstate[w] = "calledBack"

(* The read completions in the queue of the LibNfc thread, and the packets  *)
(* between the queue of packets and the core.                               *)
Reads == {i \in DOMAIN msgQueue : msgQueue[i].kind = "read"}
Posting == dispatcher.pc = "posting"
Underway == {msgQueue[i].pkt : i \in Reads} \cup (IF Posting THEN {dispatcher.pkt} ELSE {})

(* From the packets passed to the core over those underway to those that    *)
(* wait, one follows the other as the controller sent them.                 *)
Taken == received - Len(readNotificationQueue)
InSequence ==
  /\ \A i \in DOMAIN delivered : delivered[i] = i
  /\ Underway = (Len(delivered) + 1) .. Taken
  /\ \A i, j \in Reads : i < j => msgQueue[i].pkt < msgQueue[j].pkt
  /\ Posting => \A i \in Reads : msgQueue[i].pkt < dispatcher.pkt
  /\ \A i \in DOMAIN readNotificationQueue : readNotificationQueue[i] = Taken + i

(* A read was re-issued behind the back of a completion in flight, or the   *)
(* device was given up.                                                     *)
Disturbed == deviceFailed \/ timeouts > 0 \/ restarts > 0

(* No packet is lost, duplicated or overtaken on its way to the core,       *)
(* whichever of the three ways it takes, as long as nothing disturbs it.    *)
InOrder == Disturbed \/ InSequence

(* A packet waits although a read is pending only because a write is.       *)
NoIdlePacket ==
  readQueue > 0 /\ readNotificationQueue # <<>> => isWriteCompletionPending \/ deviceFailed

(***************************************************************************)
(* The parts of the inductive invariant behind the theorems of             *)
(* NfcCxTmlProofs: where the LibNfc thread is, what each reference count   *)
(* stands for, what WriteQueue holds, and what a packet passed had to wait *)
(* for.                                                                    *)
(***************************************************************************)
ThreadInv ==
  /\ lib.pc = "writeCb" <=> lib.cur # NoWrite
  /\ lib.pc \in {"postWrite", "processWrite"} => lib.sending = NoWrite
  /\ dispatcher.pc # "idle" => dispatcher.pkt \in 1 .. received

ReferenceInv ==
  /\ lib.sending # NoWrite => wstate[lib.sending] \in {"sent", "done"}
  /\ \A w \in Writes :
       /\ wstate[w] = "sent" => refCount[w] = IF lib.sending = w THEN 2 ELSE 1
       /\ wstate[w] = "done" => refCount[w] = 1 /\ lib.sending = w

QueueInv ==
  /\ \A i \in DOMAIN writeQueue : wstate[writeQueue[i]] = "queued"
  /\ \A i, j \in DOMAIN writeQueue : writeQueue[i] = writeQueue[j] => i = j

Arrived(s) == \A i \in DOMAIN s : s[i] \in 1 .. received
CalledBackBefore(p) == p \in 1 .. received /\ \A w \in before[p] : wstate[w] = "calledBack"
ReadsCalledBack(s) == \A i \in DOMAIN s : s[i].kind = "read" => CalledBackBefore(s[i].pkt)

PacketInv ==
  /\ \A p \in Packets : \A w \in before[p] : wstate[w] \in {"sent", "done", "posted", "calledBack"}
  /\ \A p \in Packets : p > received => before[p] = {}
  /\ dispatcher.pc = "posting" => CalledBackBefore(dispatcher.pkt)
  /\ ReadsCalledBack(msgQueue)
  /\ Arrived(delivered) /\ Arrived(readNotificationQueue)

(***************************************************************************)
(* Behind InOrder: the core has one read, which is open, on its way to the *)
(* core, or being called back, and none before it is initialised; and a    *)
(* packet waits although a read is open only while a write is pending.     *)
(***************************************************************************)
NoneIn(s) == \A i \in DOMAIN s : s[i].kind # "read"
OneIn(s, p) ==
  \E i \in DOMAIN s : s[i].kind = "read" /\ s[i].pkt = p /\ \A j \in DOMAIN s : s[j].kind = "read" => j = i
ReadingCb == lib.pc \in {"readCb", "inlineReadCb"}

OneRead ==
  LET next == Len(delivered) + 1 IN
  \/ /\ NoneIn(msgQueue) /\ ~Posting
     /\ Taken = next - 1
     /\ readQueue \in {0, 1}
     /\ readQueue = 1 => core.up /\ ~ReadingCb
     /\ ReadingCb => core.up
  \/ /\ Taken = next
     /\ readQueue = 0 /\ core.up /\ ~ReadingCb
     /\ \/ OneIn(msgQueue, next) /\ ~Posting
        \/ NoneIn(msgQueue) /\ Posting /\ dispatcher.pkt = next

InitOnce(s) == \A i, j \in DOMAIN s : s[i] = InitMsg /\ s[j] = InitMsg => i = j
InitInv ==
  /\ InitOnce(msgQueue)
  /\ core.up => \A i \in DOMAIN msgQueue : msgQueue[i] # InitMsg

Counted(s, n) == \A i \in DOMAIN s : s[i] = n + i

OrderInv ==
  /\ core.fired => timeouts > 0
  /\ \/ Disturbed
     \/ /\ Counted(delivered, 0) /\ Counted(readNotificationQueue, Taken)
        /\ OneRead /\ InitInv /\ NoIdlePacket

IInv ==
  /\ TypeOK
  /\ ThreadInv
  /\ ReferenceInv
  /\ QueueInv
  /\ CompletedOnce
  /\ WriteExclusion
  /\ PacketInv
  /\ ResponseAfterWriteCallback

(* Every write the core issued is called back, unless the release of the    *)
(* core dropped it or the device was failed.                                *)
EveryWriteCompletes ==
  \A w \in Writes :
    wstate[w] # "none" ~> wstate[w] \in {"calledBack", "aborted"} \/ deviceFailed

(* Every packet reaches the core while the core is up and keeps reading.    *)
EveryPacketDelivered ==
  \A p \in Packets :
    received >= p ~> \/ \E i \in DOMAIN delivered : delivered[i] = p
                     \/ ~core.up \/ interfaceState = "stopped" \/ deviceFailed

=============================================================================
