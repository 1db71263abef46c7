# NFC class extension: verification project

This directory holds TLA+ models of the NFC class extension driver (`src/Cx`,
`src/libs`), the TLC runs that check them on small instances, and theorems about
them whose proofs TLAPS checks for every value of the constants.

The driver sits between a client driver, which owns the transport to an NFC
controller, and Windows components that use NFC through device interfaces.
Inside it is a C library, NfcCoreLib, that speaks NCI with the controller.
`src/docs/State Machine.md` describes the intended structure: one thread, the
LibNfc thread, runs four state machines one inside the other (NCI core send, NCI
core receive, LibNfc, class extension), and everybody else posts messages to it.

- [1. Inventory](#1-inventory)
- [2. Modules and how they correspond to the code](#2-modules-and-how-they-correspond-to-the-code)
- [3. Runs](#3-runs)
- [4. Proofs](#4-proofs)
- [5. Met on the way](#5-met-on-the-way)
- [6. What is left out](#6-what-is-left-out)
- [7. Plan](#7-plan)

## 1. Inventory

From the transport upwards. `PROJECT.json` lists every component with its files
and status; this section says what each one keeps and what makes it correct.

| Component | State | Operations | What is hard | What makes it correct |
|---|---|---|---|---|
| **TML** `Cx/NfcCxTml.cpp` | three queues and a pending flag behind one lock, reference counts of writes | write, read, packet from the client, write completion, deferred callbacks, start, shutdown, aborts | four threads; the client may complete a write before its send call returns, and may deliver the response before the completion | one write at a time; each write completes once; packets are neither lost nor reordered; the response never overtakes the write's own callback |
| **OSAL** `lib/Osal` | the message queue of the LibNfc thread, timers (`bFired`, threadpool timer) | post, get, start, stop, delete, expiry | the expiry of a timer is a message that may wait behind the message that stops the timer | a stopped timer does not call back; a started one calls back once |
| **NCI core, send** `NciCore/phNciNfc_CoreSend.c`, `CoreIf.c`, `LoglConnMgmt.c`, `CoreRecvMgr.c` | sender state, one `TxInfo`, credits per connection, one response slot, three data slots, one `TimerInfo` | TxRx, TxOnly, write completion, credit notification, credit timeout, response timeout, reset | response before completion; credits of several connections; one timer for all transactions; failing writes half way | credits never overdrawn; the sender is never stuck; each accepted exchange is called back once |
| **NCI core, receive** `CoreRecv.c`, `Core.c`, `CoreMemMgr.c` | receiver state, chain of received fragments, posted reads | read completion, chaining, check of headers, dispatch, response timeout | fragments interleaved with notifications; invalid packets inside a chain; timeout in the middle | what is delivered is one whole message; a read is always posted |
| **NCI layer** `lib/Nci` | sequence in progress, discovered devices, listen and exchange contexts, NFCEEs, logical connections | discovery, select, deactivate, exchange, listen; init, release, mode set, connection create and close | notifications that cross commands; a loss in the middle of a sequence | each sequence ends once and tells the layer above |
| **LibNfc** `lib/LibNfc` | state machine with a deferred event and a Busy flag, sequence, device list; secure elements, HCI session | every entry point used by the class extension, notifications | events that arrive in a transit state; losses and activations that cross requests | each entry point answered PENDING is called back once; the machine is never left busy |
| **LLCP** `lib/Fri` | link state, pending frame, sockets, windows, sequence numbers | connect, send, receive, disconnect, symmetry | callbacks that send; full windows; a lost link | frames and messages in order; every send is called back; no socket waits for nothing |
| **NDEF mappings, formatting** `lib/Fri` | place in the tag, container, lengths, one command in progress | check, read, write, erase, format, read-only | a tag taken away at any command; positions and lengths kept from one operation to the next | no message left half written; what is reported is true |
| **Cx state machine and sequences** `Cx/NfcCxState.cpp`, `NfcCxSequence.cpp` | current state, queued events, running sequence | user and internal events, sequence steps | events that come while one runs, failing handlers, handlers that answer late | a running event always has one thing that carries it on |
| **Cx RF interface** `Cx/NfcCxRF.cpp` | request, status and event of a caller, presence thread, device list, power state | execute a request with a timeout, start, stop, callbacks | caller and LibNfc thread race with the watchdog | callers get their own answer; an active state has a device; discovery follows power |
| **Cx power** `Cx/power.cpp`, `device.cpp` | power references per file and type, radio state, idle state | acquire, release, radio on and off, D0 entry and exit | references from several files, a timer that reads and tells in two steps | the device is in D0, and discovers, exactly for what is in use |
| **Cx file objects, NFP, SC, ESE, SE** | publications, subscriptions, boxes, present and absent waits, settings of the elements | ioctls, cancellation, callbacks, close | cancellation against completion; a client that leaves while another comes; two locks | each request answered, nothing of a leaving client stays, no circular wait |

How they talk to each other:

* client driver -> TML: function calls on the client's threads
  (`NfcCxHardwareEvent`, write completion routine);
* TML -> NCI core: messages posted to the LibNfc thread, run by
  `phOsalNfc_MsgQueue.c`'s thread;
* NCI core -> TML: `phTmlNfc_Write`, `phTmlNfc_Read`, `phTmlNfc_WriteAbort`;
* NCI core -> NCI layer -> LibNfc -> RF interface: callbacks on the LibNfc thread;
* RF interface -> LibNfc: a message and an event to wait on, with a watchdog;
* file objects -> interfaces -> power, RF interface: function calls on the
  threads of their requests, under the locks of each interface.

The hazards of this code, each at its line, with the properties that cover it,
are the `hazards` of `PROJECT.json`.

## 2. Modules and how they correspond to the code

`PROJECT.json` `map` gives the source lines of every definition. Two styles are
used. Where several threads share state with locks, an action is a section under a
lock, and the variables are those of the code. Where one thread runs everything
(LibNfc, LLCP, the mappings, the RF state machine) the state is a record, an
operator named after a C function takes the record and returns what the function
makes of it, and an action is one message with all the calls below it.

### NfcCxTml: the transport mapping layer

`Cx/NfcCxTml.cpp` at the granularity of its lock: one action per section under
`QueueLock`, and one per message run by the LibNfc thread.

| Variable | Code |
|---|---|
| `interfaceState` | `InterfaceState`: stopped or running |
| `readQueue`, `readNotificationQueue`, `writeQueue` | the three `LIST_ENTRY` queues; of a read only that it is there |
| `isWriteCompletionPending` | `IsWriteCompletionPending` |
| `refCount`, `wstate`, `session` | of each write request: `ReferenceCount`, where it is, and which core issued it |
| `msgQueue`, `lib` | the messages posted to the LibNfc thread, and where that thread is in its own code |
| `dispatcher` | the client's thread inside `NfcCxTmlDispatchReadNotification` |
| `core` | the NCI core above: whether it exists, has a write under way, and its response timer |
| `deviceFailed` | `NfcCxDeviceSetFailed` was called |
| `received`, `delivered`, `before` | history: packets handed in, packets handed up, the writes at the transport when each came |

Four parties run: the LibNfc thread (requests, deferred completions), the
client's thread that reports a packet, the client's thread that completes a
write, possibly before the call that sent it returns, and the PnP thread that
starts and stops the interface.

### NciCoreSend: the sending side of the NCI core

`phNciNfc_CoreSend.c` (the send state machine), the credits of
`phNciNfc_LoglConnMgmt.c`, the registrations of `phNciNfc_CoreRecvMgr.c` and the
response timer. Everything runs on the LibNfc thread, so an action is a whole
message; what interleaves is the order of the messages.

| Variable | Code |
|---|---|
| `sendState`, `failedEntry` | `SendStateContext.CurrState`; the entry function of Send failed, which leaves CurrState at Send |
| `tx` | `TxInfo`: the transaction, the packets left, `IntNtfFlag`, whether it has a timeout |
| `credits`, `awaited` | `bNumCredits` of each connection; `bCreditsAwaited` with its timer |
| `rspReg`, `dataRegs` | `aRspRegList[0]` and `aDataRegList` |
| `timer` | `TimerInfo`: status, header, and `bFired` with the message it stands for |
| `tml`, `arrived` | writes given to the TML; whether the first one reached the controller |
| `owed`, `atNfcc` | the controller: commands not answered, data packets it holds |
| `issued`, `pending`, `calls`, `writeFailed` | the upper layer: what it sent, what it still waits for, callbacks made |

`Arrive` puts a packet at the controller before its completion comes back, so an
answer may overtake the completion. The transitions of the code's table
(`TxToSend` to `WaitCreditToIdle`) are actions, each with the entry function of the
state it enters. The upper layer sends one command at a time (an NCI sequence goes
on when the response callback ran) and no data after a reset (`MayIssue`).

### NciCoreRecv: the receiving side of the NCI core

`phNciNfc_CoreRecv.c` (the receive state machine), `phNciNfc_CoreMemMgr.c` (the
chain of buffers), the read callback of `phNciNfc_Core.c` and the delivery in
`phNciNfc_CoreRecvMgr.c`. The LibNfc thread runs it; what interleaves with it are the
controller's packets, the transport layer, which fills the buffer of a read before
the core hears of it, and the expiry of the response timer.

| Variable | Code |
|---|---|
| `begun`, `sent`, `noise`, `packets` | the controller: messages begun, segments of each sent, packets that are no segments, packets no read took yet |
| `reads`, `mem` | the reads open at the TML, and the content of the buffers |
| `posted` | messages of the LibNfc thread: read completions and expiries |
| `CurrState` | `RecvStateContext.CurrState` (the state Dummy is passed through within a call) |
| `tReceiveInfo` | the chain from `ListHead`, `tMem.wLen` of each node without the header, `wPayloadSize`, `HeaderInfo` |
| `timer` | `TimerInfo`: the header waited for, and the expiry that counts |
| `requests` | the exchanges started so far |
| `delivered`, `broken`, `overtaken` | history: messages handed up, messages whose segments did not come one after the other, whether an expiry was handled with a completion posted behind it |

A byte is a triple of message, segment and place, so that a mixed, shortened or
repeated payload shows. A freed buffer may be handed out again.

### OsalQueue, OsalMsgQueue, OsalTimer

`OsalQueue` is the promise: a queue of at most `Capacity` messages, any thread
posts at the end, one thread takes from the front, a restart may drop what is
left. `OsalMsgQueue` is `phOsalNfc_MsgQueue.c`: the array `msgs` with its two
indices and its count, the manual-reset `event`, the LibNfc thread and the exit
message of the stop. `ImplementsFifo` substitutes the content of the ring, read
from the first index, for the abstract queue.

`OsalTimer` is `phOsalNfc_Timer.c` with the threads of the pool, the LibNfc thread and
the thread that stops the driver. Each action is a section under `TimerLock`, or one
of the accesses outside it. `TimerList` holds the `phOsalNfc_Timer` entries
(`due` is the state of the threadpool timer), `entering` the callbacks of the pool
not yet under the lock, `queue` the timer messages, `thread` what the LibNfc thread
runs, `cleanup` is `phOsalNfc_Timer_DeInit`; `starts`, `expired`, `ended` and `calls` are
history. The constants `StartsRunning`, `StartsInCallback` and `LeavesTimers` describe
the users of the timers.

### NfcCxRF: the RF interface with its state machine

`Cx/NfcCxRF.cpp`, `NfcCxState.cpp`, `NfcCxSequence.cpp`, the link callbacks of
`NfcCxLLCP.cpp`. The record `cx` is what the threads share; an action is one message of
the LibNfc thread (`LibNfcMessageHandler`), one answer of LibNfc or of the client
driver (`StepAnswered`, `InitializeRedo`), one notification (`RemoteDevNtfCB`,
`LinkActivated`, `LinkDeactivated`, the secure element events), one step of the
caller (`Begin`, `Completed`, `TimedOut`) or of the presence thread.

| Variable or field | Code |
|---|---|
| `cx.state`, `TransitionState`, `PendingStateEvents` | the state machine: current state, what runs, the queued events |
| `cx.CurrentSequence`, `awaited`, `watchdog` | `CurrentSequence` of `NfcCxSequence.cpp`; the step that is still to be answered |
| `cx.messages` | resume and next messages in the queue of the LibNfc thread |
| `cx.Status`, `hNotifyComplete` | `LibNfcContext.Status` and the event that wakes a caller, each with the request it belongs to |
| `cx.list`, `bIsTagPresent`, `works`, `hStartPresenceCheck` | the remote device list and what the presence thread looks at |
| `caller`, `executions` | the caller that holds `DeviceLock`: its operation, stage and result so far; the events executed |
| `RFPowerState`, `powered` | whether power policy asks for discovery; whether the interface is started |
| `presence` | where `NfcCxRFInterfaceTagPresenceThread` is |
| `expired`, `asleep`, `cx.crashed` | history: a wait has run out; a check met a tag put to sleep; a NULL list was read |

The state handlers are plans: the steps of the sequence they start, its completion,
or the status they return. Steps are answered at once, later, or fail. An operation of a
caller is one event, or several in turn (`GetEventType`), of which a failed first one ends it.
The routing table is three, under one `DeviceLock`: stop of the discovery, table,
configuration; whatever the first does the others follow, and only the table's status is
returned (`GivesUp`, `Result`).

### NfcCxPower, NfcCxFileObject, NfcCxSE, NfcCxSC, NfcCxNFP, NfcCxClients

What clients of the class extension share is one record `d`; each module extends the
one before with its part of it and with the sections of its functions. A section is
what a thread does between two points where others may come in: with one lock held,
or in one call of the RF interface. `NfcCxClients` composes them: a thread per file,
one more for a request beside those of a file (the queues are parallel),
the RF thread, the send worker and the cancel thread each have a list of calls still
to do (`todo`), a call is a list of sections, and a section that fails ends its call.

| Module | Code |
|---|---|
| `NfcCxPower` | `power.cpp`: references of files and device, `DeviceStopIdle`, timer and worker, radio switch with its registry copy, start and stop (`device.cpp`) |
| `NfcCxFileObject` | `fileObject.cpp`: life of a file, its box of messages or its one pending request, enabling, the detection of unresponsive clients |
| `NfcCxSE` | `NfcCxSE.cpp`: manager, settings of the elements with their references, subscribers, packets of card emulation |
| `NfcCxSC` | `NfcCxSC.cpp`, `NfcCxESE.cpp`, `NfcCxSCPresentAbsentDispatcher.cpp`: the one client of each reader, its card, the requests that wait for arrival or removal (a dispatcher's first check, reference, cancel callback, and the exchange that keeps the request or refuses it and takes the others back) |
| `NfcCxNFP` | `NfcCxNFP.cpp`: publications and subscriptions, their lists and locks, the send worker |

Assumed: the driver runs in NCI mode with radio management; one request at a time per
file, but for a presence request, beside which a second one of the same file may be
on its way to the same dispatcher or the other (`Numbers`, `Beside`); the idle timeout is
longer than the second of the timer, and the end of a hold starts it again; an RF
call waits for the RF thread to be idle and fails when the device is not in D0.

### NciDiscovery, LibNfcState, LibNfcEngine, LibNfc

The NCI layer from the start of discovery to the exchange of data, with the
controller below it; the four tables of LibNfc's state machine; its sequences, state
handler and transitions; and the system with its clients, devices in the field, lost
commands and timeouts. The state is one record `p`; calls of the layer above are
queued in `p.up` and taken in the same step. `p.broken` names what ends a history: an
access through NULL, a command sent on top of another, or a defect of section 5.
Clients behave as the class extension does (`MayCall`): one request at a time, but
configuration and disconnection may interrupt an exchange, and shutdown may come at
any time.

### LlcpLink, LlcpTransport

`LlcpLink` is `phFriNfc_Llcp.c` over `phFriNfc_LlcpMacNfcip.c`: two devices that both run
it. `end[e]` is one device's link and MAC (`state`, `psSendHeader`, `pfSendCB`, the
pending flags of the MAC, the timer), `air` the frame on its way to each.
`LlcpTransport` is `phFriNfc_LlcpTransport.c` and `_Connection.c`: `t` has the sockets with
the fields of the code and the link below, `peer` the conforming other sides.

### NdefTag, NdefType1 to NdefType5, NdefFormat, NdefMap

`NdefTag` has the component context; each type module the functions of one mapping
(`TopazMap.c`, `MifareULMap.c`, `FelicaMap.c`, `DesfireMap.c`, `ISO15693Map.c`) and the
tag that answers its commands; `NdefFormat` the formatting and read-only components.
`NdefMap` is the client of `phLibNfc_ndef_raw.c`, a tag and its commands, each of which
may be refused or not answered. Memory is a sequence of bytes: here the property is
about the layout.

## 3. Runs

Deadlock checking is off where the system may rest: the bounded instances end
when every write, packet, operation and transaction was used. Only `clients` checks
it, since there a circular wait shows as a deadlock.

| Run | Instance | What it shows |
|---|---|---|
| **osal_queue** | a ring of three, two kinds of messages, stops and restarts | `ImplementsFifo`: the ring is the queue of `OsalQueue`. A ring of three is filled, emptied and wrapped in every position of its indices |
| **osal_timer** | two timers, three starts, users that stop before they start again, a cleanup that finds timers left behind | `CalledOnce`, `StoppedStaysSilent`, `ExpiryIsDelivered`. Three starts allow an old message of the first, a stop and a new start while the other timer runs |
| **tml** | two writes, three packets, one timeout, one restart | `WriteExclusion`, `CompletedOnce`, `ResponseAfterWriteCallback`, `InOrder`, `EveryWriteCompletes`, `EveryPacketDelivered`. Two writes let one queue behind another, also across a restart; three packets let two wait while a third is on its way |
| **send** | a command, a segmented exchange and one on a second connection, one credit each, two data slots, refused and failing writes, one reset | `NoOverrun`, `CalledBackOnce`. One credit makes every second packet wait; two segments make a wait fall inside a transaction |
| **send_liveness** | two commands and two TxOnly messages, as in card emulation | `EverySendEnds`, `EveryExchangeEnds`. The controller need not answer: the timeout must do |
| **recv** | two messages out of a response, a notification of two segments, data of three, and data of four that is too long to be counted, interleaved, with one dropped or invalid packet between any two, one timeout at any moment | `NeverDeaf`, `DeliveredWhole`, `NothingLost`. `SizeLimit`, 2^16 in the code, is 15, so that the last message (19 bytes with headers) wraps and the others (13 at most) do not. Buffers are interchangeable (symmetry) |
| **cx** | twelve operations, five kinds of device, one failure of any step, a client driver with two late handlers, callers that give up, four inputs: an operation, a check or a device comes only while fewer than four events and devices were used, and an operation that has begun ends (the routing table takes three events) | `ActiveHasDevice`, `EventIsDriven`, `OwnAnswer`, `DiscoveryFollowsPower`, `TagIsWatched`, `Answered`. Four inputs are a start, a discovery, a device and one operation on it, or a loss and its successor |
| **llcp_link** | two devices, three frames each, two failures | `InOrder`, `Settled`. Three frames let one be in each place: told, on the air, waiting |
| **llcp_transport** | two sockets, windows of two, sequence numbers modulo four, five messages out and three in | `InOrder`, `NoneStranded`. Five messages wrap the numbers with a window open |
| **ndef** | 32 tags of five types with old messages, foreign TLVs or blank, messages of 1 to 260 bytes, four operations, one fault | `NotTorn`, `Faithful`, `Served`. The lengths are those around a block, a window and the three-byte length |
| **libnfc** | seven fields of one or two devices, four calls, three events, one fault | `BusyIsDriven`, `Answered`, `ListensToReader` |
| **clients** | fourteen casts of one or two clients with cards, tags and peers, two presence requests of one file at once, one idle period, one failing call | `ReferencesMatch`, `FollowsRadio`, `PresenceAnswered`, `CardResetBetweenClients`, `NoCircularWait`, `ArrivalServed`, `OffWithoutOwner`. A cast brings together the clients that share a lock, a slot or a reference |

**Fairness.** `tml`: the LibNfc thread runs its messages, a message posted by the
dispatcher is posted, and the client completes each write it accepted (its contract in
`inc/NfcCx.h`); nothing is assumed of packets, timeouts or restarts. `osal_timer`: time
passes, the pool and the LibNfc thread are scheduled, the message queue is first-in
first-out, so the next timer message is taken in the end whatever others arrive (strong
fairness of `TimerDeferredCall`), and a handler makes finitely many calls of timers
(strong fairness of `Returns`). `send_liveness`: the transport completes writes, the
timers go off, the LibNfc thread runs the message of the response timer. `cx`: the LibNfc
thread runs its messages, LibNfc and the client driver answer their steps, a caller that
is signalled wakes, the presence thread runs. `llcp_link`: the radio works, queued
callbacks run and timers end.

**Exempt histories.** Some properties name a flag that a defect of section 5 sets
(`h.placed` and `Lookalike` in NdefMap, `half`, `crossed`, `missed`, `lost`, `stray`, `skipped`,
`stopped` in the clients, `p.broken` in LibNfc, `expired` in NfcCxRF). The flag is set at the step where
the code goes wrong; everything else stays under the property.

## 4. Proofs

The theorems hold for any number of writes, transactions, connections, packets,
timeouts, resets, messages, ring entries, timers, starts, operations, devices, failures,
frames, files, readers and elements, from the named assumptions of the modules (`TmlAssumption`,
`SendAssumption`, `QueueAssumption`, `TimerAssumption`, `RecvAssumption`,
`RfAssumption`, `LinkAssumption`, `ElementsAssumption`: the secure elements are finitely
many, `ClientsAssumption`: a cast has files, devices and requests of their types, and
`ThreadsAssumption`: no file is called like one of the other threads) only. Each module of proofs extends the module it
is about; there is one lemma per action, and temporal steps are PTL.

**NfcCxTml.** `TypeCorrect`, `WriteExclusionHolds`, `CompletedOnceHolds`,
`ResponseAfterWriteCallbackHolds`, `InOrderHolds`. None of the safety properties is
inductive: that only one write is at the client says nothing of why a second one is not
taken from the queue. `IInv` adds `ThreadInv` (where the LibNfc thread is in its own
code), `ReferenceInv` (which parties hold a reference to which write, and that the
pending flag is exactly "some write is between the send and its deferred completion"),
`QueueInv` (a write is in at most one queue, once) and `PacketInv` (a read notification
is only posted when no write is pending). `OrderInv` is for `InOrder`: until a timeout, a
release or a failure disturbs it, one read is open, and a packet is delivered, in a
message, in the notification queue or with the dispatcher, in the order of arrival.

**NciCoreSend.** `TypeCorrect`, `SenderNeverStranded`, `ResponseTimerNeverLost`;
`CreditsNeverOverdrawn`, for notifications with one entry (`MaxEntries = 1`), since with
two it does not hold (section 5); and `CalledBackOnceHolds`, where the transport refuses
no write or the core is reset at most once: with both, a callback can come twice
(section 5). `IInv` is `TypeOK` and `SenderHasTrans`. The credit theorem is about
`AllWithin`: for each connection the credits, the data packets on their way and those at
the controller together stay within the initial credits. `OnceInv` says of each
transaction that its registrations and the sender are never both about to call it, and
that none is once it was called; `SndInv` carries it with what is registered, what the
sender knows of its transaction, and how many completions of old writes are still to
come.

**NciCoreRecv.** `AlwaysListens` and `ReadsStayInChain`. For the first, `NeverDeaf`
is inductive once the queues are known to be sequences: every path of the read
callback and of the timeout ends in `CoreRecv`, a read that is taken leaves its
completion, and an expiry that does not count takes no completion away. For the
second, `JInv` adds the type of the chain: a completion handled was the only one,
so the read opened afterwards is too, and `CoreRecv` opens it into `LastNode`
whatever became of the packet.

**OsalMsgQueue.** `TypeCorrect`, `NoLostWakeup` and `RingImplementsQueue`. The last one
is the refinement: the messages in the ring, as a sequence, are an `OsalQueue`.
The step that carries it says what the sequence is after a post and after a take,
position by position, with the indices wrapping at any size.

**OsalTimer.** `TypeCorrect`, `SilentAfterStop`, `CalledOnTime`, `CalledOnceHolds`. `LiveInv`
says that the callback stored in an entry belongs to a start that did not end and is
stored nowhere else; so a call is never for an ended start, whatever messages wait. The
other two are for users that stop a timer before they start it again: `ExpiredInv` says
that whatever may still lead to a call (a callback of the pool, `bFired`, a call already
decided) belongs to a start whose time is up, and `OnceInv` that a start that was called
has none of these left.

**NfcCxRF.** `TypeCorrect`, `EventIsDrivenHolds`, `OwnAnswerHolds`, `ActiveHasDeviceHolds`.
The invariant `RfInv` has three parts. `Fine(cx)` is a predicate on the record alone:
its type, `Sound` (a sequence under way has exactly one of a resume message and a step it
waits for; an event that waits has a message; a sequence whose completion empties the
device list does not run in an active state), `HasDevice` and `Final` (a status once
reported stays). `Typed` gives the
other variables. `Owned` says where the caller's answer is: its event is running, or
queued once, and not yet completed; or it is completed, and nothing of it is left; so
nobody else can write the status it wakes to. Operators on the record have lemmas that
they keep `Fine` and move ownership only when they complete the event; every state
handler's plan is shown to be one of the shapes those lemmas take; actions then follow
by naming the chain of operators they apply.

`DiscoveryFollowsPowerHolds` is the second part of `NfcCxRFProofs`, on top of
`RfInv`. Its invariant `PowerInv` (checked by TLC before it was proved) speaks of histories
in which no step has failed and no wait has run out, as the property does: no
sequence is told of a failure, and the state machine is where the caller's operation puts
it, before its event is taken, during its sequence and after its end, for each of the events of
the operation (`Before`, `During`, `After`), or, without a caller, `Home`: idle without power, else polling exactly when
`RFPowerState` holds. That a success stays a success has to be proved backwards:
whatever counts a failure counts it for ever, so the step that ends with none began with none
(`SequenceResumeGoes`, `FailuresStay`). The tables enter through `Steers` (where the events
of start, stop and mode lead) and `StaysTargets` (that no other event leads
away from what the power policy asks for).

**LlcpLink.** `InOrderHolds`, `OneSenderHolds`, `TypeCorrect`. Neither `InOrder` nor
`OneSender` is inductive: that a frame arrives once and in order rests on who may send,
and that on what the two MACs were asked for. `IInv` (checked by TLC before it was proved)
says that between two messages a device is down, has the turn or waits, and what its MAC
holds in each case (`Shapes`); that one device has the turn or one frame is on its way
(`Turns`); and that the peer has all the frames a device handed to its MAC but the one on
its way (`Follows`). The last conjunct of `Follows`, that what is on its way to the
initiator was sent after its own frame arrived, is why the initiator may call a frame
sent when the next one comes in. Each operator is shown to take a device from one shape to
another, each message to have an `Outcome`, and `StepKeeps` to carry the relations over.

**Clients.** `NoCircularWaitHolds`, `FollowsRadioHolds`, `ArrivalServedHolds` and their invariant
`KeptHolds`, for any files, readers, elements and casts, in `NfcCxClientsProofs`. `Kept` has four parts. `Sound`
is about the record `d`, and its heart is `Follows`: with nothing failed and nothing half
done, the discovery that runs (or, when the worker has been to the references, the one it
carries) is the one that references and radio ask for, the device may not idle
while they ask for one, and no discovery runs without power; where neither holds, the timer is
set. The types of `todo` say which sections a thread may still have to run; only the send
worker has those that take or give back the worker's `StateLock`. `Working` reads the worker's next
section: it tells which client `SendWorkerCurrentClient` names and which lock is held, so that a
lock the RF thread could wait for is that of a client it passes by. `Serving` is for the publications:
what is due, not tried and of an open file is in the send list or in the hands of the worker,
whose work item is queued or whose next section looks into the list again (`Served`); the exception is
the time between the loss of a peer, which empties the list, and its departure, after which nothing is due.
That only a disabled publication, one already tried or one of a file on its way out leaves the list rests on the life of
its file: what removes a client from the list is work of a file that is being created or closed
(`FileWork`), and what is due is of a file that is or was open and is enabled (`Lists`). Each section
has a lemma of its own, from the calls of the power manager outwards: what it leaves is
`Good` (the state is `Sound`, the lock, the worker's client and the files are as they were, and what was served
still is) and the sections it adds are of the kinds of its thread (`Fine`); a section that moves its
file to another life `Goes` on with the work of that life. A section that may fail is a set of outcomes, and has to show this of each.
Every action of `NfcCxClients` is then a section run, a call begun (on the file's thread or the one
beside it) or a change of power. The
proof found a quantifier in `D0Exit` that reached over the guard of power going off; the
action now says what the code does, and the run's states are the same.

**Model-checked only.** Liveness (`EveryWriteCompletes`, `EveryPacketDelivered`,
`EverySendEnds`, `EveryExchangeEnds`, `ExpiryIsDelivered`, `Answered` of NfcCxRF, `Settled`) is
out of the prover's reach. `LibNfcEngine` and what extends it use RECURSIVE operators for the
nesting of its machines, which rules out theorems. The properties of the NDEF mappings are
about bytes that a search of the tag finds, in five layouts of memory: the induction this
takes is possible, as in NciCoreRecv, and not done. `TagIsWatched` of NfcCxRF,
`ReferencesMatch`, `PresenceAnswered`, `CardResetBetweenClients` and
`OffWithoutOwner` of the clients and the properties of LlcpTransport are within reach and
not yet proved (section 7).

## 5. Met on the way

No run of the project expects a violation; these are the places where modelling met code
that does not do what its comments, its own assertions or its other half suppose. Each
property says which of them it leaves out.

**TML and OSAL**

* `NfcCxTml.h:43-46` says that no reads are passed to the core while
  `IsWriteCompletionPending` is set. A read completion posted just before a write is
  issued runs while that write is pending (`NfcCxTml_DeferredReadCompletion` looks at no
  flag). `ResponseAfterWriteCallback` is what still holds: such a packet is not the answer.
* A response timeout racing a read completion leaves two reads open, and two packets
  during the next write reach the queue state the code calls unexpected and fails the
  device for (`NfcCxTml.cpp:345`, `phNciNfc_CoreRecv.c:633`). The reporting thread gives up
  waiting at `NfcCxTml.cpp:973` and leaves its message behind.
* `phOsalNfc_Timer_Start` of a running timer keeps `bFired` (`phOsalNfc_Timer.c:142`), so that
  the old expiry calls the new start; a timer started again in its own callback loses its
  expiry; the cleanup holds `TimerLock` while it waits for the pool's callbacks (`:66`).

**NCI core**

* Every entry of a CORE_CONN_CREDITS_NTF is read from the place of the first
  (`phNciNfc_LoglConnMgmt.c:466`), and credits of one connection end the wait of another
  (`:510`, against the comment of `phNciNfc_LoglConnMgmt.h:52`). 0xFF credits, no flow control,
  are counted down like 255 (`:635`).
* One `TimerInfo`: with a data exchange and a command under way together the first loses
  its timeout (`phNciNfc_CoreSend.c:566`). `EveryExchangeEnds` is checked for an upper layer
  whose data is all sent with TxOnly.
* A segmented exchange that waits for a credit registers its callback again
  (`phNciNfc_CoreSend.c:729`; `phNciNfc_CoreRecvMgr.c:382` says there is one entry); at
  `phNciNfc_CoreRecvMgr.c:723` three data registrations are taken at once.
* With two resets and refused writes a command can be called back twice: the entry of
  Send that fails is not undone, and completions of writes before the resets drive it.
* A timeout aborts the reads, but the completion of one may already wait: its buffer is
  freed with the chain or read into twice (`phNciNfc_CoreRecv.c:633`, comment at `:630`). After
  an empty segment the rest of a message is not copied (`phNciNfc_CoreMemMgr.c:272`). An init
  that fails frees the core's context (`phNciNfc.c:260`).

**LibNfc**

* A refused connection leaves `Connected_handle` set (`phLibNfc.c:1235`); the deactivation for
  sleep reads it unchecked (`phLibNfc_Discovery.c:397`). A failed deactivation leaves the machine busy
  (`phLibNfc_Deactivate.c:21-35`).
* The loss of a link clears Busy with an exchange or a deactivation outstanding
  (`phLibNfc.c:497`), and with a packet buffered it clears the notification of a running
  command (`phNciNfc_ListenMgmt.c:431`). The exchange's client is not told at the
  disconnection of a peer.
* A request to stop racing an activation on its way up, or a loss, leaves the machine in
  Discovery with an idle controller (`phLibNfc.c:711`, `:722`); sequences are started there and at
  `:604` without Busy.
* The reader's sequence is freed while `pSeqHandler` points to it (`phNciNfc_RFReader.c:211`).
* A deferred request loses its callback (`phLibNfc_State.c:323-340`), reaches an exit function with a
  mode for a pointer (`:264`), or keeps a pointer to a parameter on the stack
  (`phLibNfc_Discovery.c:190`). `:968` starts the dummy timer and returns INVALID_PARAMETER.
* The check of a write's response is dead (`phLibNfc.c:3841`); one pending callback of several is
  answered at a reset (`:4351`); `phLibNfc_Target.c:124` and `:199` overwrite and erase slots; the presence
  check reads `psRemoteDevInfo` unchecked (`:2197`) and Mifare Ultralight's authentication writes
  through a list that may be empty (`:5080`).

**RF interface**

* The recovery after a failed update of the discovery state runs with the new state, and
  the old one is put back after it (`NfcCxRF.cpp:1000-1003`).
* The device list is read when a loss has emptied it (`:5398`, `cx.crashed` in the model).
* A presence check that waited for the lock while the tag was deactivated ends its
  thread, and `TargetActivate` does not start it again; `DeinitializeCB` clears
  `bIsTagPresent` without telling of the loss.
* A completion after a caller's timeout signals the next request (`expired` in the
  model). The case LIBNFC_STATE_CHAIN_EVENT lacks a break.

**Clients of the class extension**

* A manager that leaves while another sets modes: references may underflow and the device
  fails (`NfcCxSE.cpp:2612`, `power.cpp:643`), or elements are left against the new
  manager's wish (`crossed`). A reference that fails after its use was noted
  leaves the note (`NfcCxSE.cpp:2636`, `fileObject.cpp:1081`; `half`).
* `NfcCxESE.cpp:742-758` and `NfcCxSC.cpp:812` free the slot of the client before the element is
  unpowered or the card reset; `ResetCard` clears the new client's session (`:3412`).
* A card that replaces another between `DispatchTransmit`'s check and the transmission
  (`NfcCxSC.cpp:1659`, `:2317`) gets the command with no session established, so its client leaves it
  without the reset that `:805` asks for (`stray`; the cast with two cards meets it).
* A request for a card that comes second, even past the first check, is refused and gives back
  what it took (`Exchange`), as its header says. But a card that comes between the check and
  the exchange of a presence request, and a
  cancel callback between marking and exchange, leave the request waiting
  (`NfcCxSCPresentAbsentDispatcher.cpp:129-141`; `missed`, `lost`). IsAbsent of the embedded
  element ends only by cancellation.
* A second flight mode overwrites `BeforeFlightMode` (`power.cpp:994`); a radio whose stop-idle
  failed stays noted as on.
* `SendWorkerCurrentClient` stays set after the `continue` of `NfcCxNFP.cpp:1686-1690` (`skipped`); a
  publication left in the send list at a loss is sent to the next device, whatever its
  kind.

**LLCP**

* `CHECK_SEND_RW` (`phFriNfc_Llcp.h:81`) is right for remote windows up to 8 only.
* One `socketIndex` for all connections: callbacks after a frame of another socket go to
  the wrong one (`phFriNfc_LlcpTransport_Connection.c:85`; comment at `phFriNfc_LlcpTransport.c:643`).
  `Crossing` keeps the runs to one connection at a time.
* The completion of a send performs pending operations though a callback made the link busy
  again (`phFriNfc_LlcpTransport.c:589-696`): the I frame is lost. Connect and disconnect overwrite
  a header the link still holds (`:1831`, `:1962`). One slot for DM and one for FRMR.
* Pending flags outlive a close; a DM after it creates the socket anew (`:908`). DISC is looked
  up by the local SAP only (`:776`). The remote's RNR does not stop sending
  (`phFriNfc_LlcpTransport_Connection.c:1387-1399`), and RR is not sent when the application
  acknowledged in its callback (`:2217`).

**NDEF mappings** (the histories without `h.placed`, and the named exceptions of `Served`)

* Type 1: lengths that split over two blocks, TLVs behind the window, a skipped TLV that ends in
  an unaligned block; after a torn write NMN 0 makes the next check report no NDEF;
  `TopazMap.c:435-454` lacks a break, so that read-only ends as a failure.
* Type 2: a list without a TLV is searched past the memory; bytes that look like the TLV are
  read from there; `LockBitsWritten` is never reset (`MifULFormat.c:627`).
* Type 3: the erase after a torn write keeps WriteFlag, which no check looks at.
* Type 4: one command of a write may be one byte too long; a format that was cut off cannot be
  repeated; a wrong answer to its last write counts as success (`DesfireFormat.c:1401-1429`).
* Type 5: proprietary TLVs are skipped twice; of a message of 255 bytes or more only the third
  byte of the length is written; the error flag of an answer is not looked at.
* LibNfc: after an erase `NdefActualSize` is stale (`phLibNfc_ndef_raw.c:500`); a tag whose check
  failed once is formatted although it holds a message (`NfcCxRF.cpp:2760`).

## 6. What is left out

* **Memory.** Allocation failures and the freeing of entries a message still
  refers to are below the models.
* **TML.** Packets larger than the buffer of a read; the destruction of the
  interface.
* **NCI core.** The creation and close of connections, a timer that cannot be
  created, the notification registrations, a TxRx without a timeout (no caller
  passes one), recovery mode. On the receiving side the release of the core and
  a buffer that cannot be allocated.
* **OSAL.** A thread, an event or a threadpool timer that cannot be created; the
  wrappers of memory and mutexes.
* **LibNfc and NCI.** The parameters of activation and configuration; sequences of several
  commands inside one step (initialisation, Felica, ISO-DEP, Mifare Classic); card emulation;
  secure elements and HCI.
* **LLCP.** PAX, aggregation, service discovery, connectionless sockets, frame rejects,
  linear buffers.
* **NDEF.** Mifare Standard, type 1 with dynamic memory, sectors above the first.
* **Clients.** Attributes, routing tables, matching of types, the SerialIoQueue (it serves one
  request at a time), commands of storage cards. Of the requests one file may have at the same
  time, only presence requests are modelled as two.
* **Data.** NCI headers, TLV encodings, checksums and tracing carry no control and are
  abstracted in every module but the mappings.
* **Components not modelled**: see `PROJECT.json` for each one's reason.

## 7. Plan

Proofs next: `TagIsWatched` of
NfcCxRF (that a sequence which reads a tag leaves work for the presence thread must be tied
to what the thread and the callers have done since); `ReferencesMatch` of the clients (each section keeps
references and uses in step) and `OffWithoutOwner`, for which `Kept` and the section lemmas are
the frame; `CardResetBetweenClients`, which needs besides what each client of a card has still to do;
`InOrder` of LlcpTransport.

Models next: the HCI session with secure elements (`phHciNfc_*.c`, `phLibNfc_Hci.c`, `phLibNfc_Se.c`,
`phNciNfc_NfceeMgmt.c`), Mifare Standard as a sixth kind of tag, SNEP, and the init sequence.
