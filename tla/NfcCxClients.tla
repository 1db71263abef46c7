---------------------------- MODULE NfcCxClients ----------------------------
(***************************************************************************)
(* The clients of the class extension together: files are opened, used and *)
(* closed, cards and other devices come and go, the device idles, and all  *)
(* of it meets in the power manager and the interfaces (Cx/device.cpp,     *)
(* fileObject.cpp and the IoDispatch functions of the interfaces).         *)
(*                                                                         *)
(* Each file has a thread for its requests, and "beside" is another one of *)
(* the parallel queues for them.  "rf" is the thread of LibNfc and the RF  *)
(* state machine, "worker" the send worker, "cancel" the framework's       *)
(* thread for cancel callbacks.  What a thread has still to do             *)
(* is a sequence of calls, each a sequence of sections: a section that     *)
(* fails ends its call, and the calls behind it are made all the same.     *)
(***************************************************************************)
EXTENDS NfcCxNFP

CONSTANT Scenarios
(* Who is there, and what may happen: the files and the requests of each,  *)
(* closing included, each at most once; the devices that come to the       *)
(* field, each once; secure element events and unresponsive clients; the   *)
(* times the device goes idle; and the calls to the framework and the      *)
(* controller that fail.                                                   *)

Kinds == {"SetCardEmulationMode", "SetPowerMode", "GetNext", "ESEDispatchSetPower",
          "ESEDispatchTransmit", "DispatchPresence", "Beside", "DispatchSetPower", "DispatchTransmit",
          "DispatchSwitchProtocol", "NfpEnable", "NfpDisable", "SetPayload", "SetRadioState", "Close"}

Scenario == [files : SUBSET Files, devices : SUBSET (Cards \cup {"peer"}),
             requests : [Files -> SUBSET Kinds], events : Nat, idles : Nat, faults : Nat]

ASSUME ClientsAssumption == Scenarios \subseteq Scenario

(* The other threads are no files. *)
ASSUME ThreadsAssumption == Files \cap {"rf", "worker", "cancel", "beside", None} = {}

VARIABLES d,      \* what the threads share
          todo,   \* what each thread has still to do
          left    \* what may still happen in this scenario

vars == <<d, todo, left>>

Threads == Files \cup {"rf", "worker", "cancel", "beside"}
Registry == [radio : StartsWithRadio, before : {FALSE}]

Idle(t) == todo[t] = <<>>
AtRest == \A t \in Threads : Idle(t)

(***************************************************************************)
(* NfcCxEvtDeviceAdd creates the interfaces, and the device comes to D0.   *)
(***************************************************************************)
DeviceCreate(registry, scenario) ==
  LET files == [FileCreate EXCEPT !.file = [f \in Files |-> IF f \in scenario.files THEN "new" ELSE "closed"]]
  IN  Joined(Joined(PowerCreate(registry), NFPCreate),
             Joined(Joined(files, SECreate),
                    Joined(SCCreate, [faults |-> scenario.faults, half |-> FALSE])))

Init ==
  /\ \E registry \in Registry, scenario \in Scenarios :
       d = FdoInitialize(DeviceCreate(registry, scenario)) /\ left = scenario
  /\ todo = [t \in Threads |-> <<>>]

(***************************************************************************)
(* Sections that need what another thread has: a client's lock that the    *)
(* send worker holds, the RF thread for an RF call, the device in D0.      *)
(***************************************************************************)
TakesStateLock == {"GetNext", "NfpEnable", "NfpDisable", "SetPayload", "CloseClient"}

CallsRF == RFCalls \cup {"ValidateCardEmulationState", "SetCardEmulationMode", "SetPowerMode",
                         "GetSecureElementList", "SetCardWiredMode", "ESEReset", "TargetReactivate",
                         "TransmitRawData", "ESEDispatchTransmit", "TargetDeactivate",
                         "TargetActivate"}

CanRun(step) ==
  /\ step.s \in TakesStateLock => d.StateLock # step.f
  /\ step.s = "Verify" => WaitsFor(d, {step.f}) = {}
  /\ step.s = "VerifyAll" => WaitsFor(d, ToSet(d.PubsList)) = {}
  /\ step.s \in CallsRF => Idle("rf")
  /\ step.s = "AwaitD0" => d.powered = "on"

(***************************************************************************)
(* The sections.  An RF call of a device that is not in D0 fails; those of *)
(* the send worker find no device in the field.                            *)
(***************************************************************************)
\* half (history): something failed after what goes with it was done
Half(outcomes, done) == {[r EXCEPT !.d.half = @ \/ (~r.ok /\ done)] : r \in outcomes}

\* NfcCxEvtFileCreate has come to its end; only then are there requests.
Opened(e, f) == [e EXCEPT !.file[f] = "open"]

Proximate == Publications \cup Subscriptions

\* What a closed file leaves behind it, and one whose creation failed: a publication of that
\* kind is not in the send list, from which the second call would take it.
RemovalCalls(f) ==
  CASE Role[f] \in Publications ->
         <<<<Step("RemoveClientFromList", f, None)>>, <<Step("RemoveSendClient", f, None)>>>>
    [] Role[f] \in Subscriptions -> <<<<Step("RemoveClientFromList", f, None)>>>>
    [] Role[f] = "manager" -> <<<<Step("RemoveManager", f, None)>>>>
    [] Role[f] = "event" -> <<<<Step("RemoveSubscriber", f, None)>>>>
    [] Role[f] = "sc" -> <<<<Step("SCRemoveClient", f, None)>>>>
    [] Role[f] = "ese" -> <<<<Step("ESERemoveClient", f, None)>>>>
    [] OTHER -> <<>>

Finish(e, f) ==
  Calling(ResumeIdle(e, f), RemovalCalls(f) \o <<<<Step("Discard", f, None)>>>>)

FileSteps == {"FileAdd", "FileRemove", "FdoAdd", "FdoRemove", "StopIdle", "AwaitD0",
              "ResumeIdle", "Opened", "Finish", "Discard", "GetNext", "NfpEnable", "NfpDisable",
              "SetRadioState"}

FileSection(e, s, f, x) ==
  CASE s = "FileAdd" -> Half(FileAddReference(e, f, x), e.file[f] = "open" /\ Role[f] \in Proximate)
    [] s = "FileRemove" -> FileRemoveReference(e, f, x)
    [] s = "FdoAdd" -> Half(AcquireFdoContextReferenceLocked(e, x), TRUE)
    [] s = "FdoRemove" -> ReleaseFdoContextReferenceLocked(e, x)
    [] s = "StopIdle" -> StopIdle(e, f)
    [] s = "AwaitD0" -> Done(e)
    [] s = "ResumeIdle" -> Done(ResumeIdle(e, f))
    [] s = "Opened" -> Done(Opened(e, f))
    [] s = "Finish" -> Finish(e, f)
    [] s = "Discard" -> Done([e EXCEPT !.file[f] = "closed"])
    [] s = "GetNext" -> IF ~e.Enabled[f] \/ (IsPublication(f) /\ ~IsTagReadOnlyClient(f) /\ e.payload[f] = "none")
                        THEN Fails(e)
                        ELSE UNION {GetNext(e, f, fits) : fits \in IF MayNotFit(f) THEN BOOLEAN ELSE {TRUE}}
    [] s = "NfpEnable" -> NfpEnable(e, f)
    [] s = "NfpDisable" -> NfpDisable([e EXCEPT !.due = @ \ {f}], f)
    [] s = "SetRadioState" -> Half(SetRadioState(e, x), x \in {"on", "landed"} /\ ~e.NfpRadioState)

Section(step) ==
  IF step.s \in CallsRF \ RFCalls /\ d.powered = "off" THEN Fails(d) ELSE
  CASE step.s \in FileSteps -> FileSection(d, step.s, step.f, step.x)
    [] step.s \in SESteps -> SESection(d, step.s, step.f, step.x, step.v)
    [] step.s \in DispatcherSteps -> DispatcherSection(d, step.s, step.f, Dispatcher(step.x, step.v), step.n)
    [] step.s \in SCSteps -> SCSection(d, step.s, step.f)
    [] step.s \in ESESteps -> ESESection(d, step.s, step.f, step.x, step.v)
    [] OTHER -> NFPSection(d, step.s, step.f, step.x)

Calls(call) == IF call = <<>> THEN <<>> ELSE <<call>>

\* The rest of thread t's work after a section of its first call: when a file is open, there
\* is nothing to clean up.
Rest(t, r) ==
  IF Head(Head(todo[t])).s = "Opened" THEN <<>>
  ELSE r.calls \o Calls(IF r.ok THEN r.steps \o Tail(Head(todo[t])) ELSE <<>>) \o Tail(todo[t])

Run(t) ==
  /\ ~Idle(t) /\ CanRun(Head(Head(todo[t])))
  /\ \E r \in Section(Head(Head(todo[t]))) : d' = r.d /\ todo' = [todo EXCEPT ![t] = Rest(t, r)]
  /\ UNCHANGED left

(***************************************************************************)
(* Files: NfcCxEvtFileCreate, the requests, NfcCxEvtFileClose.  A file is  *)
(* closed when none of its requests is left.                               *)
(***************************************************************************)
OpenCall(f) ==
  (CASE Role[f] \in Proximate -> <<Step("AddClientToList", f, None)>>
     [] Role[f] = "manager" -> <<Step("AddManager", f, None)>>
     [] Role[f] = "event" -> <<Step("AddSubscriber", f, None)>>
     [] Role[f] = "sc" -> <<Step("SCAddClient", f, None)>>
     [] Role[f] = "ese" -> <<Step("ESEAddClient", f, None), Step("FileAdd", f, "ESe")>>
     [] OTHER -> <<>>)
  \o <<Step("Opened", f, None)>>

\* NfcCxPowerIsAllowedNfp: without the radio, such a file is neither opened nor served.
IsAllowedNfp(f) == Role[f] \in Proximate \cup {"sc"} => d.NfpRadioState

\* The interface by which a file is opened is shown while the radio is on.
InterfaceOf(f) == CASE Role[f] \in Proximate -> {"nfp"}
                    [] Role[f] = "sc" -> {"sc"}
                    [] OTHER -> {}

Begin(f, calls) == todo' = [todo EXCEPT ![f] = calls]

Open(f) ==
  /\ d.file[f] = "new" /\ InterfaceOf(f) \subseteq d.shown /\ IsAllowedNfp(f)
  /\ d' = [d EXCEPT !.file[f] = "creating"]
  /\ Begin(f, <<OpenCall(f), <<Step("Finish", f, None)>>>>)
  /\ UNCHANGED left

\* IoDispatch of the interfaces, for the requests that need the device in D0
PowerManaged(f, call) == <<<<Step("StopIdle", f, None)>> \o call, <<Step("ResumeIdle", f, None)>>>>
Plain(call) == <<call>>

\* A client waits for a card, or for there being none, with a number that is free.
PresenceCalls(f, n) ==
  {Plain(<<DispatcherStep("DispatchPresence", f, x, n)>>) :
     x \in {y \in Dispatchers : y.reader = Role[f] /\ d.request[y][n] = NoRequest}}

\* The calls of a request of some kind
RequestCalls(f, kind) ==
  CASE kind = "SetCardEmulationMode" ->
         {PowerManaged(f, ModeCall(f, se, mode)) : se \in SecureElements, mode \in Modes}
    [] kind = "SetPowerMode" ->
         {PowerManaged(f, PowerCall(f, se, power)) : se \in SecureElements, power \in {"On", "AllowOff"}}
    [] kind = "DispatchPresence" -> PresenceCalls(f, 1)
    [] kind = "SetRadioState" -> {Plain(<<Step(kind, f, how)>>) : how \in {"on", "off", "flight", "landed"}}
    [] kind \in {"ESEDispatchTransmit", "DispatchTransmit", "DispatchSwitchProtocol"} ->
         {PowerManaged(f, <<Step(kind, f, None)>>)}
    [] OTHER -> {Plain(<<Step(kind, f, None)>>)}

Takes(f, kind) == left' = [left EXCEPT !.requests[f] = @ \ {kind}]

Request(f) ==
  /\ d.file[f] = "open" /\ Idle(f) /\ IsAllowedNfp(f)
  /\ \E kind \in left.requests[f] \ {"Beside", "Close"} :
       Takes(f, kind) /\ \E calls \in RequestCalls(f, kind) : Begin(f, calls)
  /\ UNCHANGED d

\* The queues are parallel: while a request of the file is served, or waits, the framework
\* presents the next one on another thread.
Beside(f) ==
  /\ d.file[f] = "open" /\ Idle("beside") /\ IsAllowedNfp(f)
  /\ "Beside" \in left.requests[f] /\ Takes(f, "Beside")
  /\ \E calls \in PresenceCalls(f, 2) : todo' = [todo EXCEPT !["beside"] = calls]
  /\ UNCHANGED d

CloseFile(f) ==
  /\ "Close" \in left.requests[f] /\ Takes(f, "Close")
  /\ d.file[f] = "open" /\ Idle(f) /\ Idle("beside") /\ ~d.box[f].pending /\ ~Waiting(d, f)
  /\ d' = [d EXCEPT !.file[f] = "closing"]
  /\ Begin(f, RemovalCalls(f) \o <<<<Step("CloseClient", f, None)>>>>)

\* The framework cancels a request that is marked cancelable, or in a queue of its own.
Cancel(x, n) ==
  /\ d.request[x][n].state = "marked" /\ Idle("cancel")
  /\ d' = [d EXCEPT !.request[x][n].state = "canceling"]
  /\ todo' = [todo EXCEPT !["cancel"] = Plain(<<DispatcherStep("RequestCanceled", None, x, n)>>)]
  /\ UNCHANGED left

CancelQueued(f) ==
  /\ d.box[f].pending
  /\ d' = Cancelled(d, f)
  /\ UNCHANGED <<todo, left>>

DetectionTimer(f) ==
  /\ \/ /\ d.box[f].timer = "set" /\ left.events > 0
        /\ d' = DetectionExpires(d, f) /\ left' = [left EXCEPT !.events = @ - 1]
     \/ /\ d.box[f].timer = "expired" /\ d.StateLock # f
        /\ d' = UnresponsiveClientDetectionTimer(d, f)
        /\ UNCHANGED left
  /\ UNCHANGED todo

(***************************************************************************)
(* Devices in the field, and secure elements.                              *)
(***************************************************************************)
Arrival(c) ==
  IF c = "peer" THEN <<<<Step("PeerArrival", None, None)>>, <<Step("VerifyAll", None, None)>>>>
  ELSE <<<<Step("TagArrival", None, None)>>, <<Step("SCEstablished", None, None)>>,
         <<Step("VerifyAll", None, None)>>, <<Step("Message", None, None)>>>>

Loss(c) ==
  IF c = "peer" THEN <<<<Step("PeerLost", None, None)>>>>
  ELSE <<<<Step("Departure", None, None)>>, <<Step("SCLost", None, None)>>>>

DeviceArrives ==
  /\ d.powered = "on" /\ "Proximity" \in d.RFPowerState /\ d.card = None
  /\ Idle("rf")
  /\ \E c \in left.devices : /\ d' = [d EXCEPT !.card = c, !.used = FALSE, !.asleep = FALSE]
                            /\ todo' = [todo EXCEPT !["rf"] = Arrival(c)]
                            /\ left' = [left EXCEPT !.devices = @ \ {c}]

DeviceLeaves ==
  /\ d.card # None /\ Idle("rf")
  /\ d' = [d EXCEPT !.card = None]
  /\ todo' = [todo EXCEPT !["rf"] = Loss(d.card)]
  /\ UNCHANGED left

SecureElementEvent ==
  /\ d.powered = "on" /\ Idle("rf") /\ left.events > 0
  /\ \/ \E clients \in SUBSET d.subscribers, fits \in BOOLEAN : d' = HandleEvent(d, clients, fits)
     \/ \E fits \in BOOLEAN : d' = HandleHCEPacket(d, fits)
     \/ d' = PurgeHCERecvQueue(d)
  /\ left' = [left EXCEPT !.events = @ - 1]
  /\ UNCHANGED todo

SendWorkerStarts ==
  /\ d.workItem /\ Idle("worker")
  /\ todo' = [todo EXCEPT !["worker"] = Plain(<<Step("SendWorker", None, None)>>)]
  /\ UNCHANGED <<d, left>>

(***************************************************************************)
(* Power.  The device goes idle later than the second that the timer       *)
(* takes, and not while a client of the embedded element goes from its     *)
(* hold to its reference: the hold's end starts the idle time anew.        *)
(***************************************************************************)
Opening(f) == d.file[f] = "creating" /\ d.CurrentClient["ese"] = f

TimerExpires ==
  /\ d.timer /\ d.worker = <<>>
  /\ d' = WorkerReads(d)
  /\ UNCHANGED <<todo, left>>

\* The RF interface takes up what it is told; without "Proximity" it gives up the device.
WorkerTellsRF ==
  /\ d.worker # <<>> /\ Idle("rf")
  /\ \E e \in WorkerTells(d) :
       IF e.card # None /\ e.powered # "off" /\ "Proximity" \notin e.RFPowerState
       THEN d' = [e EXCEPT !.card = None] /\ todo' = [todo EXCEPT !["rf"] = Loss(e.card)]
       ELSE d' = [e EXCEPT !.half = @ \/ e.failed] /\ UNCHANGED todo
  /\ UNCHANGED left

D0Entry ==
  /\ d.powered = "off" /\ ~MayIdle(d)
  /\ d' = FdoInitialize(d)
  /\ UNCHANGED <<todo, left>>

D0Exit ==
  /\ \/ /\ d.powered = "on" /\ MayIdle(d) /\ ~d.timer /\ d.worker = <<>> /\ d' = PowerStop(d)
        /\ \A f \in Files : ~Opening(f)
        /\ left.idles > 0 /\ left' = [left EXCEPT !.idles = @ - 1]
     \/ d.powered = "stopping" /\ d.worker = <<>> /\ Idle("rf") /\ d.card = None
        /\ d' = FdoDeInitialize(d) /\ UNCHANGED left
  /\ UNCHANGED todo

(* Nobody has anything to do.  (Where a thread waits for ever, nothing is enabled.) *)
Ended == AtRest /\ UNCHANGED vars

Next ==
  \/ /\ ~d.failed
     /\ \/ \E t \in Threads : Run(t)
        \/ \E f \in Files : Open(f) \/ Request(f) \/ Beside(f) \/ CloseFile(f) \/ CancelQueued(f)
                             \/ DetectionTimer(f)
        \/ \E x \in Dispatchers, n \in Numbers : Cancel(x, n)
        \/ DeviceArrives \/ DeviceLeaves \/ SecureElementEvent \/ SendWorkerStarts
        \/ TimerExpires \/ WorkerTellsRF \/ D0Entry \/ D0Exit
  \/ d.failed /\ UNCHANGED vars
  \/ Ended

Spec == Init /\ [][Next]_vars

(***************************************************************************)
(* Properties.                                                             *)
(***************************************************************************)
Count(S) == Cardinality(S)

\* What file f has to hold of the reference "Proximity"
ProximityUses(f) ==
  (IF Role[f] \in Proximate /\ d.file[f] = "open" /\ d.Enabled[f] THEN 1 ELSE 0)
  + Count({r \in Dispatchers \X Numbers : KeepsRadioOn(r[1]) /\ d.request[r[1]][r[2]].f = f})
  + (IF d.ClientPowerReferenceHeld /\ d.CurrentClient["sc"] = f THEN 1 ELSE 0)

ElementUses(type) ==
  Count({se \in SecureElements : \/ type \in PowerReferenceTypes(d.settings[se].EmulationMode)
                                 \/ type = "ESe" /\ d.settings[se].ForcePowerOn})

(* The device's power references are those of the files and of the        *)
(* settings of the secure elements, and a file's are those of what it is   *)
(* used for, whenever no call is on its way (power.cpp, and each place     *)
(* that adds or removes one).  A reference that could not be taken after   *)
(* its use was noted, and managers that overtake each other, are the two   *)
(* exceptions; only they can bring the count below zero.                   *)
ReferencesMatch ==
  ~d.half /\ ~d.crossed =>
    /\ ~d.failed
    /\ AtRest =>
         /\ \A type \in ReferenceTypes :
              d.PowerReferences[type] =
                Count({f \in Files : d.FileReferences[f][type] > 0}) + ElementUses(type)
         /\ ~d.lost => \A f \in Files : d.FileReferences[f]["Proximity"] = ProximityUses(f)

Effective(rf) == IF ShouldEnableDiscovery(rf) THEN rf \ {"ESe"} ELSE {}

(* Once timer and worker are through, the RF interface runs the discovery  *)
(* that the references and the radio switch ask for, and the device is in  *)
(* D0 for it (power.cpp: the timer, its worker and D0 entry).              *)
FollowsRadio ==
  AtRest /\ ~d.timer /\ d.worker = <<>> /\ ~d.half /\ ~d.failed =>
    /\ d.powered = "on" => Effective(d.RFPowerState) = Effective(GetRfState(d))
    /\ Effective(GetRfState(d)) # {} => d.DeviceStopIdle

(* A request that waits for a card, or for there being none, is the one    *)
(* its dispatcher knows, which the next event of the card completes:       *)
(* whoever comes second, even past the first check, is refused.  And it    *)
(* does not wait for what is the case (NfcCxSCPresentAbsentDispatcher.cpp  *)
(* with the readers), but where the card came or went between the check    *)
(* and the exchange, or the cancel callback came before the exchange.      *)
PresenceAnswered ==
  AtRest =>
    \A x \in Dispatchers, n \in Numbers :
      LET f == d.request[x][n].f
      IN  f # None => /\ d.CurrentRequest[x] = [f |-> f, n |-> n]
                      /\ ~d.missed /\ ~d.lost => ~Holds(d, x)

(* A card is reset before another client comes to it: what the one before  *)
(* has done with it, a session or an authentication, is not there for the  *)
(* next (NfcCxSCInterfaceRemoveClient, ResetCard); but for a card that got *)
(* the command for the one before it.                                      *)
CardResetBetweenClients ==
  /\ d.CurrentClient["sc"] = None /\ AtRest /\ d.faults = left.faults /\ ~d.crossed /\ ~d.stray
  /\ d.card \notin NdefFormatted \cup {None}
  => ~d.used

(* The RF thread never waits for the lock of a publication while the send  *)
(* worker holds it and waits for the RF thread (NfcCxNFP.cpp:1510).        *)
NoCircularWait ==
  ~Idle("worker") /\ ~Idle("rf") /\ Head(Head(todo["worker"])).s \in RFCalls
    => CanRun(Head(Head(todo["rf"])))

(* What was to be sent to the device in the field when it came was tried   *)
(* once the worker has nothing more to do, however many publications there *)
(* were and whatever became of the ones before; but for one that was still *)
(* in the worker's hands, and the rest after a peer refused one.           *)
ArrivalServed ==
  /\ d.DeviceConnected /\ ~d.skipped /\ ~d.stopped
  /\ Idle("worker") /\ Idle("rf") /\ ~d.workItem
  => \A f \in d.due \ d.tried : d.file[f] = "closing"

(* Without a manager no secure element emulates a card or is kept powered, *)
(* and without a client the embedded one is not wired: whoever leaves, and *)
(* however far its creation came, turns off what was turned on for it.     *)
OffWithoutOwner ==
  AtRest /\ d.faults = left.faults /\ ~d.crossed =>
    /\ d.SEManager = None =>
         \A se \in SecureElements : d.settings[se].EmulationMode = "Off" /\ ~d.settings[se].ForcePowerOn
    /\ d.CurrentClient["ese"] = None => ~d.settings["ese"].WiredMode
=============================================================================
