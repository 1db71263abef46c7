------------------------- MODULE NfcCxClientsProofs -------------------------
(***************************************************************************)
(* Proofs about the clients of the class extension: no lock is waited for  *)
(* in a circle, the RF interface runs the discovery that the power         *)
(* references ask for, and what is to be sent to a device is tried.        *)
(*                                                                         *)
(* The inductive invariant is Kept.  Of the state, Sound says what the     *)
(* discovery is or will be once timer and worker are through (Follows):    *)
(* what changes the references sets the timer, and what takes the timer    *)
(* off reads the references into the worker, which carries them to the     *)
(* interface.  Lists says of which files something is to be sent.  Of the  *)
(* threads Kept says which sections each has still to run (QuietSteps,     *)
(* RFSteps), for only the send worker's sections touch its lock, and some  *)
(* a file runs only at a time of its life (FileWork): what it takes out of *)
(* the send list is not to be sent any more.  Where the worker is, its     *)
(* next section says which client it has announced, which lock it holds    *)
(* (Working), and which publication it has in hand: the others that are    *)
(* due are in the list, and there is work for it (Served).                 *)
(*                                                                         *)
(* Every section is followed on its own, from the calls of the power       *)
(* manager outwards: what it leaves is Good, the state sound, the lock as  *)
(* it was, and what was served still is, and what it has still to do is of *)
(* the kinds of its thread (Fine).  A section of a file that takes up      *)
(* another life Goes on with the work of that one.                         *)
(***************************************************************************)
EXTENDS NfcCxClients, FiniteSetTheorems, WellFoundedInduction, TLAPS

(* What the invariant is about; every section leaves the rest to itself *)
Fields == {"PowerReferences", "NfpRadioState", "RFPowerState", "timer", "worker", "powered",
           "failed", "half", "DeviceStopIdle", "StateLock", "SendWorkerCurrentClient",
           "PubsList", "CurrentRequest",
           "file", "Enabled", "payload", "SendList", "workItem", "DeviceConnected", "due", "tried",
           "skipped", "stopped"}
SendFields == {"file", "Enabled", "payload", "SendList", "workItem", "DeviceConnected", "due", "tried",
               "skipped", "stopped"}

Follows(d1) ==
  ~d1.half /\ ~d1.failed =>
    /\ d1.powered = "on" /\ ~d1.timer /\ d1.worker = <<>> =>
         Effective(d1.RFPowerState) = Effective(GetRfState(d1))
    /\ ~d1.timer /\ d1.worker # <<>> => Effective(Head(d1.worker)) = Effective(GetRfState(d1))
    /\ ShouldStopIdle(GetRfState(d1)) => d1.DeviceStopIdle
    /\ d1.powered = "off" => d1.RFPowerState = {}

Clients == Files \cup {None}

(* The request that a dispatcher has, if any *)
Known == {0} \cup Numbers
Currents == [f : Clients, n : Known]

(* What is to be sent is that of a file that is or was open and is enabled *)
Lives == {"new", "creating", "open", "closing", "closed"}
Used == {"open", "closing"}
Publishers == {f \in Files : IsPublication(f)}

Lists(e) ==
  /\ e.file \in [Files -> Lives] /\ e.Enabled \in [Files -> BOOLEAN]
  /\ e.payload \in [Files -> {"none", "set", "freed"}]
  /\ e.SendList \in Seq(Clients)
  /\ e.due \subseteq {f \in Files : e.Enabled[f] /\ e.file[f] \in Used}
  /\ e.due # {} => e.DeviceConnected
  /\ \A f \in Publishers : e.payload[f] = "set" => e.file[f] \in Used

Sound(e) ==
  /\ Fields \subseteq DOMAIN e
  /\ e.NfpRadioState \in BOOLEAN
  /\ e.PubsList \in Seq(Publishers)
  /\ \A x \in Dispatchers : e.CurrentRequest[x] \in Currents
  /\ Follows(e)
  /\ Lists(e)

(* The send worker's call: the sections with which it has a publication in hand, and those *)
(* after which it looks into the list                                                      *)
Sends == {"Choose", "WriteTag", "WriteP2P"}
Hands(call, f) == \E p : call = <<p>> /\ p.s \in Sends /\ p.f = f
Busy(call) == \E p : /\ call = <<p>>
                     /\ \/ p.s \in Sends \cup {"SendWorker", "Pop"}
                        \/ p.s = "ClearCurrent" /\ p.x = "Pop"

(* What is still to be sent is in the list or in hand, and the worker is on its way *)
Due(e) == {f \in e.due \ e.tried : e.file[f] = "open"}
Served(e, call) ==
  ~e.skipped /\ ~e.stopped =>
    \A f \in Due(e) : /\ f \in ToSet(e.SendList) \/ Hands(call, f)
                      /\ e.workItem \/ Busy(call)
Serves(e1, e2) == \A call : Served(e1, call) => Served(e2, call)

Steady(e1, e2) ==
  /\ Sound(e2)
  /\ e2.StateLock = e1.StateLock
  /\ e2.SendWorkerCurrentClient = e1.SendWorkerCurrentClient

Good(e1, e2) == Steady(e1, e2) /\ Serves(e1, e2) /\ e2.file = e1.file

LEMMA SendsSame ==
  ASSUME NEW e, Lists(e), NEW g, \A k \in SendFields : g[k] = e[k]
  PROVE  Lists(g) /\ Serves(e, g) /\ g.file = e.file
<1>1. /\ g.file = e.file /\ g.Enabled = e.Enabled /\ g.payload = e.payload /\ g.SendList = e.SendList
      /\ g.workItem = e.workItem /\ g.DeviceConnected = e.DeviceConnected /\ g.due = e.due
      /\ g.tried = e.tried /\ g.skipped = e.skipped /\ g.stopped = e.stopped
  BY DEF SendFields
<1>2. Lists(g) BY <1>1 DEF Lists
<1>3. Due(g) = Due(e) BY <1>1 DEF Due
<1>4. Serves(e, g) BY <1>1, <1>3 DEF Serves, Served
<1> QED BY <1>1, <1>2, <1>4

LEMMA Untouched ==
  ASSUME NEW e, Sound(e), NEW g, DOMAIN g = DOMAIN e, \A k \in Fields : g[k] = e[k]
  PROVE  Good(e, g)
<1>1. /\ g.PowerReferences = e.PowerReferences /\ g.NfpRadioState = e.NfpRadioState
      /\ g.RFPowerState = e.RFPowerState /\ g.timer = e.timer /\ g.worker = e.worker
      /\ g.powered = e.powered /\ g.failed = e.failed /\ g.half = e.half
      /\ g.DeviceStopIdle = e.DeviceStopIdle /\ g.StateLock = e.StateLock
      /\ g.SendWorkerCurrentClient = e.SendWorkerCurrentClient /\ g.PubsList = e.PubsList
      /\ g.CurrentRequest = e.CurrentRequest
  BY DEF Fields
<1>2. GetRfState(g) = GetRfState(e) BY <1>1 DEF GetRfState
<1>3. Follows(g) BY <1>1, <1>2 DEF Follows, Sound
<1>5. Lists(g) /\ Serves(e, g) /\ g.file = e.file
  <2>1. \A k \in SendFields : g[k] = e[k] BY DEF SendFields, Fields
  <2> QED BY <2>1, SendsSame DEF Sound
<1>4. Sound(g) BY <1>1, <1>3, <1>5 DEF Sound
<1> QED BY <1>1, <1>4, <1>5 DEF Good, Steady

(* Changes of what the invariant is about, but for the power manager's part *)
LEMMA SoundBut ==
  ASSUME NEW e, Sound(e), NEW g, DOMAIN g = DOMAIN e,
         \A k \in Fields \ (SendFields \cup {"StateLock", "SendWorkerCurrentClient", "PubsList",
                                          "CurrentRequest"}) : g[k] = e[k],
         g.PubsList \in Seq(Publishers), \A x \in Dispatchers : g.CurrentRequest[x] \in Currents,
         Lists(g)
  PROVE  Sound(g)
<1>1. /\ g.PowerReferences = e.PowerReferences /\ g.NfpRadioState = e.NfpRadioState
      /\ g.RFPowerState = e.RFPowerState /\ g.timer = e.timer /\ g.worker = e.worker
      /\ g.powered = e.powered /\ g.failed = e.failed /\ g.half = e.half
      /\ g.DeviceStopIdle = e.DeviceStopIdle
  BY DEF Fields, SendFields
<1>2. GetRfState(g) = GetRfState(e) BY <1>1 DEF GetRfState
<1>3. Follows(g) BY <1>1, <1>2 DEF Follows, Sound
<1> QED BY <1>1, <1>3 DEF Sound

LEMMA UntouchedBut ==
  ASSUME NEW e, Sound(e), NEW g, DOMAIN g = DOMAIN e,
         \A k \in Fields \ {"PubsList", "CurrentRequest"} : g[k] = e[k],
         g.PubsList \in Seq(Publishers), \A x \in Dispatchers : g.CurrentRequest[x] \in Currents
  PROVE  Good(e, g)
<1>1. \A k \in SendFields : g[k] = e[k] BY DEF Fields, SendFields
<1>2. Lists(g) /\ Serves(e, g) /\ g.file = e.file BY <1>1, SendsSame DEF Sound
<1>3. Sound(g) BY <1>2, SoundBut
<1>4. g.StateLock = e.StateLock /\ g.SendWorkerCurrentClient = e.SendWorkerCurrentClient
  BY DEF Fields
<1> QED BY <1>2, <1>3, <1>4 DEF Good, Steady

LEMMA SteadyBut ==
  ASSUME NEW e, Sound(e), NEW g, DOMAIN g = DOMAIN e,
         \A k \in Fields \ SendFields : g[k] = e[k], Lists(g)
  PROVE  Steady(e, g)
<1>1. /\ g.StateLock = e.StateLock /\ g.SendWorkerCurrentClient = e.SendWorkerCurrentClient
      /\ g.PubsList = e.PubsList /\ g.CurrentRequest = e.CurrentRequest
  BY DEF Fields, SendFields
<1>2. Sound(g) BY <1>1, SoundBut DEF Sound
<1> QED BY <1>1, <1>2 DEF Steady

LEMMA ServesBut ==
  ASSUME NEW e, NEW g,
         ~g.skipped /\ ~g.stopped =>
           /\ ~e.skipped /\ ~e.stopped /\ Due(g) \subseteq Due(e)
           /\ Due(g) \cap ToSet(e.SendList) \subseteq ToSet(g.SendList)
           /\ e.workItem => g.workItem
  PROVE  Serves(e, g)
  BY DEF Serves, Served

Waits == {"present", "absent"}
Hows == {"on", "off", "flight", "landed"}
Args == {None, "AllowOff"} \cup ReferenceTypes \cup SecureElements \cup Readers \cup Waits \cup Hows
        \cup Modes

(* The sections of the RF thread, and of the threads of the files *)
RFNames == {"TagArrival", "PeerArrival", "SCEstablished", "SCLost", "VerifyAll", "Message",
            "PeerLost", "Departure", "CompleteRequest", "FileRemove", "Complete"}

(* Those that a file has to do with at some time of its life only *)
Marked == {"Opened", "Discard", "Finish", "RemoveSendClient", "CloseClient", "SetPayload"}

QuietNames == (FileSteps \cup SESteps \cup DispatcherSteps \cup SCSteps \cup ESESteps
               \cup {"AddClientToList", "RemoveClientFromList", "Verify"}) \ Marked

StepsOf(names) ==
  {p \in [s : names, f : Clients, x : Args, v : Args, n : Known] :
     /\ p.s \in DispatcherSteps => p.x \in Readers /\ p.v \in Waits
     /\ p.s = "SetRadioState" => p.x \in Hows
     /\ p.s = "AddClientToList" => p.f \in Files}

LEMMA PlainStep ==
  ASSUME NEW names, NEW s \in names, s \notin DispatcherSteps \cup {"SetRadioState", "AddClientToList"},
         NEW f \in Clients, NEW x \in Args, NEW v \in Args
  PROVE  StepTo(s, f, x, v) \in StepsOf(names)
<1>1. StepTo(s, f, x, v) \in [s : names, f : Clients, x : Args, v : Args, n : Known]
  BY DEF StepTo, StepFor, Known
<1>2. StepTo(s, f, x, v).s = s BY DEF StepTo, StepFor
<1> QED BY <1>1, <1>2 DEF StepsOf

LEMMA PlainStep3 ==
  ASSUME NEW names, NEW s \in names, s \notin DispatcherSteps \cup {"SetRadioState", "AddClientToList"},
         NEW f \in Clients, NEW x \in Args
  PROVE  Step(s, f, x) \in StepsOf(names)
<1>1. None \in Args BY DEF Args
<1> QED BY <1>1, PlainStep DEF Step

LEMMA PresenceStep ==
  ASSUME NEW names, NEW s \in names, s \in DispatcherSteps, NEW f \in Clients, NEW x \in Dispatchers,
         NEW n \in Known
  PROVE  DispatcherStep(s, f, x, n) \in StepsOf(names)
<1> DEFINE p == StepFor(s, f, x.reader, x.waits, n)
<1>1. x.reader \in Readers /\ x.waits \in Waits BY DEF Dispatchers, Waits
<1>2. x.reader \in Args /\ x.waits \in Args BY <1>1 DEF Args
<1>3. p \in [s : names, f : Clients, x : Args, v : Args, n : Known] BY <1>2 DEF StepFor
<1>4. p.s = s /\ p.x = x.reader /\ p.v = x.waits BY DEF StepFor
<1>5. s # "SetRadioState" /\ s # "AddClientToList" BY DEF DispatcherSteps
<1> QED BY <1>1, <1>3, <1>4, <1>5 DEF StepsOf, DispatcherStep

(* What a section leaves: its steps and calls are of set S *)
CallsOf(S) == Seq(Seq(S) \ {<<>>})

Fine(e, R, S) ==
  \A r \in R : /\ r = Outcome(r.d, r.ok, r.steps, r.calls)
               /\ Good(e, r.d)
               /\ r.steps \in Seq(S)
               /\ r.calls \in CallsOf(S)

LEMMA OutcomeIs ==
  ASSUME NEW g, NEW ok, NEW steps, NEW calls
  PROVE  LET r == Outcome(g, ok, steps, calls)
         IN  r.d = g /\ r.ok = ok /\ r.steps = steps /\ r.calls = calls
  BY DEF Outcome

LEMMA OneOutcome ==
  ASSUME NEW e, NEW S, NEW g, Good(e, g), NEW ok, NEW steps \in Seq(S), NEW calls \in CallsOf(S)
  PROVE  Fine(e, {Outcome(g, ok, steps, calls)}, S)
  BY OutcomeIs DEF Fine

LEMMA FineDone ==
  ASSUME NEW e, NEW S, NEW g, Good(e, g)
  PROVE  Fine(e, Done(g), S) /\ Fine(e, Fails(g), S)
<1>1. <<>> \in Seq(S) /\ <<>> \in CallsOf(S) BY DEF CallsOf
<1> QED BY <1>1, OneOutcome DEF Done, Fails

LEMMA FineThen ==
  ASSUME NEW e, NEW S, NEW g, Good(e, g), NEW steps \in Seq(S)
  PROVE  Fine(e, Then(g, steps), S)
<1>1. <<>> \in CallsOf(S) BY DEF CallsOf
<1> QED BY <1>1, OneOutcome DEF Then

LEMMA FineCalling ==
  ASSUME NEW e, NEW S, NEW g, Good(e, g), NEW calls \in CallsOf(S)
  PROVE  Fine(e, Calling(g, calls), S)
<1>1. <<>> \in Seq(S) OBVIOUS
<1> QED BY <1>1, OneOutcome DEF Calling

LEMMA FineCup ==
  ASSUME NEW e, NEW S, NEW Q, NEW R, Fine(e, Q, S), Fine(e, R, S)
  PROVE  Fine(e, Q \cup R, S)
  BY DEF Fine

LEMMA FineEmpty == ASSUME NEW e, NEW S PROVE Fine(e, {}, S)
  BY DEF Fine

LEMMA GoodSelf == ASSUME NEW e, Sound(e) PROVE Good(e, e)
  BY DEF Good, Steady, Serves

LEMMA GoodThen == ASSUME NEW e, NEW g, NEW h, Good(e, g), Good(g, h) PROVE Good(e, h)
  BY DEF Good, Steady, Serves

LEMMA GoodSound == ASSUME NEW e, NEW g, Good(e, g) PROVE Sound(g)
  BY DEF Good, Steady

LEMMA FineFrom ==
  ASSUME NEW e, NEW g, NEW R, NEW S, Good(e, g), Fine(g, R, S)
  PROVE  Fine(e, R, S)
  BY GoodThen DEF Fine

LEMMA FineOrFails ==
  ASSUME NEW e, Sound(e), NEW R, NEW S, Fine(e, R, S)
  PROVE  Fine(e, OrFails(e, R), S)
<1> DEFINE g == [e EXCEPT !.faults = @ - 1]
<1>1. DOMAIN g = DOMAIN e /\ \A k \in Fields : g[k] = e[k] BY DEF Fields, Sound
<1>2. Good(e, g) BY <1>1, Untouched
<1> HIDE DEF g
<1>3. Fine(e, Fails(g), S) BY <1>2, FineDone
<1>4. OrFails(e, R) = R \cup IF e.faults > 0 THEN Fails(g) ELSE {} BY DEF OrFails, g
<1> QED BY <1>3, <1>4, FineCup, FineEmpty

(* Outcomes that are those of another set, but for what the section did besides *)
LEMMA FineMap ==
  ASSUME NEW e, NEW S, NEW R, Fine(e, R, S), NEW Q,
         \A q \in Q : \E r \in R : /\ q = Outcome(q.d, r.ok, q.steps, r.calls)
                                   /\ Good(r.d, q.d) /\ q.steps \in Seq(S)
  PROVE  Fine(e, Q, S)
<1> SUFFICES ASSUME NEW q \in Q
             PROVE  /\ q = Outcome(q.d, q.ok, q.steps, q.calls) /\ Good(e, q.d)
                    /\ q.steps \in Seq(S) /\ q.calls \in CallsOf(S)
  BY DEF Fine
<1>1. PICK r \in R : q = Outcome(q.d, r.ok, q.steps, r.calls) /\ Good(r.d, q.d) /\ q.steps \in Seq(S)
  OBVIOUS
<1>2. Good(e, r.d) /\ r.calls \in CallsOf(S) BY DEF Fine
<1>3. q.ok = r.ok /\ q.calls = r.calls BY <1>1, OutcomeIs
<1> QED BY <1>1, <1>2, <1>3, GoodThen

LEMMA CallOf ==
  ASSUME NEW S, NEW call \in Seq(S), call # <<>>
  PROVE  <<call>> \in CallsOf(S)
  BY DEF CallsOf

LEMMA SetToSeqIs ==
  ASSUME NEW A, IsFiniteSet(A)
  PROVE  SetToSeq(A) \in Seq(A)
<1> DEFINE n == Cardinality(A)
<1>1. n \in Nat /\ ExistsBijection(1 .. n, A) BY FS_CardinalityType
<1>2. PICK b : b \in Bijection(1 .. n, A) BY <1>1 DEF ExistsBijection
<1>3. b \in [1 .. n -> A] /\ IsInjective(b) BY <1>2 DEF Bijection, Injection
<1>4. SetToSeq(A) \in [1 .. n -> A] BY <1>3 DEF SetToSeq
<1> QED BY <1>1, <1>4

(***************************************************************************)
(* The power manager.                                                      *)
(***************************************************************************)
LEMMA EffectiveIs ==
  ASSUME NEW old, NEW new, ~HasDiscoveryConfigChanged(old, new)
  PROVE  Effective(old) = Effective(new)
<1>1. old \ {"ESe"} = new \ {"ESe"} BY DEF HasDiscoveryConfigChanged
<1>2. ShouldEnableDiscovery(old) <=> ShouldEnableDiscovery(new)
  <2>1. \A t \in {"Proximity", "NoListen", "CardEmulation", "StealthListen"} : t \in old <=> t \in new
    BY <1>1
  <2> QED BY <2>1 DEF ShouldEnableDiscovery
<1> QED BY <1>1, <1>2 DEF Effective

(* What changes only what the policy decides from *)
Variant(e, n) ==
  /\ DOMAIN n = DOMAIN e
  /\ \A k \in Fields \ {"PowerReferences", "NfpRadioState", "half", "failed"} : n[k] = e[k]
  /\ n.NfpRadioState \in BOOLEAN
  /\ ~n.half => ~e.half
  /\ ~n.failed => ~e.failed

(* It has been noted that the discovery is to be changed, when it is *)
Noted(e, g) == ~g.timer => ~e.timer /\ ~HasDiscoveryConfigChanged(GetRfState(e), GetRfState(g))

Aside == {"RFPowerState", "worker", "powered", "StateLock", "SendWorkerCurrentClient",
          "PubsList", "CurrentRequest"} \cup SendFields

Moved(e, g) ==
  /\ DOMAIN g = DOMAIN e
  /\ \A k \in Aside : g[k] = e[k]
  /\ g.NfpRadioState \in BOOLEAN
  /\ ~g.half => ~e.half
  /\ ~g.failed => ~e.failed

LEMMA SendsMoved ==
  ASSUME NEW e, Sound(e), NEW g, Moved(e, g)
  PROVE  Lists(g) /\ Serves(e, g) /\ g.file = e.file
<1>1. \A k \in SendFields : g[k] = e[k] BY DEF Moved, Aside
<1> QED BY <1>1, SendsSame DEF Sound

LEMMA MovedGood ==
  ASSUME NEW e, Sound(e), NEW g, Moved(e, g), Noted(e, g),
         ShouldStopIdle(GetRfState(g)) => g.DeviceStopIdle
  PROVE  Good(e, g)
<1>1. /\ g.RFPowerState = e.RFPowerState /\ g.worker = e.worker /\ g.powered = e.powered
      /\ g.StateLock = e.StateLock /\ g.SendWorkerCurrentClient = e.SendWorkerCurrentClient
      /\ g.PubsList = e.PubsList /\ g.CurrentRequest = e.CurrentRequest
  BY DEF Moved, Aside
<1>2. (~g.half => ~e.half) /\ (~g.failed => ~e.failed) /\ DOMAIN g = DOMAIN e BY DEF Moved
<1>3. ~g.timer => ~e.timer /\ Effective(GetRfState(g)) = Effective(GetRfState(e))
  BY EffectiveIs DEF Noted
<1>4. Follows(e) BY DEF Sound
<1>5. Follows(g)
  <2> DEFINE q == GetRfState(g)
             p == GetRfState(e)
  <2> SUFFICES ASSUME ~g.half, ~g.failed
               PROVE  /\ g.powered = "on" /\ ~g.timer /\ g.worker = <<>> =>
                           Effective(g.RFPowerState) = Effective(q)
                      /\ ~g.timer /\ g.worker # <<>> => Effective(Head(g.worker)) = Effective(q)
                      /\ ShouldStopIdle(q) => g.DeviceStopIdle
                      /\ g.powered = "off" => g.RFPowerState = {}
    BY DEF Follows
  <2>1. /\ e.powered = "on" /\ ~e.timer /\ e.worker = <<>> =>
             Effective(e.RFPowerState) = Effective(p)
        /\ ~e.timer /\ e.worker # <<>> => Effective(Head(e.worker)) = Effective(p)
        /\ e.powered = "off" => e.RFPowerState = {}
    BY <1>2, <1>4 DEF Follows
  <2> HIDE DEF p, q
  <2>2. ~g.timer => ~e.timer /\ Effective(q) = Effective(p) BY <1>3 DEF p, q
  <2>3. ShouldStopIdle(q) => g.DeviceStopIdle BY DEF q
  <2> QED BY <1>1, <2>1, <2>2, <2>3
<1>7. Lists(g) /\ Serves(e, g) /\ g.file = e.file BY SendsMoved
<1>6. Sound(g) BY <1>1, <1>2, <1>5, <1>7 DEF Sound, Moved
<1> QED BY <1>1, <1>6, <1>7 DEF Good, Steady

LEMMA FailedGood ==
  ASSUME NEW e, Sound(e), NEW g, Moved(e, g), g.failed \/ g.half
  PROVE  Good(e, g)
<1>1. /\ g.StateLock = e.StateLock /\ g.SendWorkerCurrentClient = e.SendWorkerCurrentClient
      /\ g.PubsList = e.PubsList /\ g.CurrentRequest = e.CurrentRequest /\ DOMAIN g = DOMAIN e
  BY DEF Moved, Aside
<1>2. Follows(g) BY DEF Follows
<1>4. Lists(g) /\ Serves(e, g) /\ g.file = e.file BY SendsMoved
<1>3. Sound(g) BY <1>1, <1>2, <1>4 DEF Sound, Moved
<1> QED BY <1>1, <1>3, <1>4 DEF Good, Steady

Polled(e, n) == UpdateRFPollingState(n, GetRfState(e), GetRfState(n))

LEMMA PolledIs ==
  ASSUME NEW e, Sound(e), NEW n, Variant(e, n)
  PROVE  LET u == Polled(e, n)
         IN  /\ Moved(e, u) /\ Noted(e, u) /\ u.DeviceStopIdle = e.DeviceStopIdle
             /\ GetRfState(u) = GetRfState(n)
             /\ u.failed = n.failed /\ u.half = n.half
<1> DEFINE t == [n EXCEPT !.timer = TRUE]
<1>1. Fields \subseteq DOMAIN n /\ DOMAIN n = DOMAIN e BY DEF Sound, Variant
<1>2. /\ DOMAIN t = DOMAIN n /\ t.timer = TRUE
      /\ \A k \in Fields \ {"timer"} : t[k] = n[k]
  BY <1>1 DEF Fields
<1>3. t.PowerReferences = n.PowerReferences /\ t.NfpRadioState = n.NfpRadioState
      /\ t.failed = n.failed /\ t.half = n.half /\ t.DeviceStopIdle = n.DeviceStopIdle
  BY <1>2 DEF Fields
<1> HIDE DEF t
<1>4. GetRfState(t) = GetRfState(n) BY <1>3 DEF GetRfState
<1>5. Moved(e, n) /\ n.timer = e.timer /\ n.DeviceStopIdle = e.DeviceStopIdle
  BY DEF Variant, Moved, Fields, Aside, SendFields
<1>6. Moved(e, t)
  <2>1. \A k \in Aside : t[k] = n[k] BY <1>2 DEF Fields, Aside, SendFields
  <2> QED BY <1>1, <1>2, <1>3, <1>5, <2>1 DEF Moved
<1>7. CASE HasDiscoveryConfigChanged(GetRfState(e), GetRfState(n))
  <2>1. Polled(e, n) = t BY <1>7 DEF Polled, UpdateRFPollingState, t
  <2>2. Noted(e, t) BY <1>2 DEF Noted
  <2> QED BY <1>3, <1>4, <1>5, <1>6, <2>1, <2>2
<1>8. CASE ~HasDiscoveryConfigChanged(GetRfState(e), GetRfState(n))
  <2>1. Polled(e, n) = n BY <1>8 DEF Polled, UpdateRFPollingState
  <2>2. Noted(e, n) BY <1>5, <1>8 DEF Noted
  <2> QED BY <1>5, <2>1, <2>2
<1> QED BY <1>7, <1>8

(* A field of no account to what has moved *)
LEMMA StopIdleIs ==
  ASSUME NEW e, Sound(e), NEW u, Moved(e, u), Noted(e, u), NEW b
  PROVE  LET g == [u EXCEPT !.DeviceStopIdle = b]
         IN  /\ Moved(e, g) /\ Noted(e, g) /\ g.DeviceStopIdle = b
             /\ GetRfState(g) = GetRfState(u) /\ g.failed = u.failed /\ g.half = u.half
<1> DEFINE g == [u EXCEPT !.DeviceStopIdle = b]
<1>1. Fields \subseteq DOMAIN u BY DEF Sound, Moved
<1>2. /\ DOMAIN g = DOMAIN u /\ g.DeviceStopIdle = b
      /\ \A k \in Fields \ {"DeviceStopIdle"} : g[k] = u[k]
  BY <1>1 DEF Fields
<1> HIDE DEF g
<1>3. /\ g.PowerReferences = u.PowerReferences /\ g.NfpRadioState = u.NfpRadioState
      /\ g.failed = u.failed /\ g.half = u.half /\ g.timer = u.timer
  BY <1>2 DEF Fields
<1>4. GetRfState(g) = GetRfState(u) BY <1>3 DEF GetRfState
<1>5. Noted(e, g) BY <1>3, <1>4 DEF Noted
<1>6. Moved(e, g)
  <2>1. \A k \in Aside : g[k] = u[k] BY <1>2 DEF Fields, Aside, SendFields
  <2> QED BY <1>2, <1>3, <2>1 DEF Moved
<1> QED BY <1>2, <1>3, <1>4, <1>5, <1>6 DEF g

(* What is given up: nothing runs that did not run before *)
LEMMA ReleasedGood ==
  ASSUME NEW e, Sound(e), NEW n, Variant(e, n), GetRfState(n) \subseteq GetRfState(e)
  PROVE  Good(e, Released(e, n))
<1> DEFINE u == Polled(e, n)
           g == [u EXCEPT !.DeviceStopIdle = FALSE]
<1>1. /\ Moved(e, u) /\ Noted(e, u) /\ u.DeviceStopIdle = e.DeviceStopIdle
      /\ GetRfState(u) = GetRfState(n) /\ u.failed = n.failed /\ u.half = n.half
  BY PolledIs
<1>2. Released(e, n) = IF ShouldStopIdle(GetRfState(n)) THEN u ELSE g
  <2>1. Released(e, n) = DeviceResumeIdle(u, GetRfState(n)) BY DEF Released, Polled
  <2> QED BY <2>1 DEF DeviceResumeIdle
<1>3. Moved(e, g) /\ Noted(e, g) /\ GetRfState(g) = GetRfState(u) BY <1>1, StopIdleIs
<1>4. (~n.half => ~e.half) /\ (~n.failed => ~e.failed) BY DEF Variant
<1> HIDE DEF u, g
<1>5. CASE ~ShouldStopIdle(GetRfState(n)) BY <1>1, <1>2, <1>3, <1>5, MovedGood
<1>6. CASE ShouldStopIdle(GetRfState(n))
  <2>1. CASE u.failed \/ u.half BY <1>1, <1>2, <1>6, <2>1, FailedGood
  <2>2. CASE ~u.failed /\ ~u.half
    <3>1. ShouldStopIdle(GetRfState(e)) BY <1>6 DEF ShouldStopIdle
    <3>2. e.DeviceStopIdle BY <1>1, <1>4, <2>2, <3>1 DEF Sound, Follows
    <3> QED BY <1>1, <1>2, <1>6, <3>2, MovedGood
  <2> QED BY <2>1, <2>2
<1> QED BY <1>5, <1>6

(* What follows a request to stop idling: the new state, or a failure that left everything *)
LEMMA StopIdleGood ==
  ASSUME NEW e, Sound(e), NEW n, Variant(e, n), NEW S
  PROVE  /\ \A r \in DeviceStopIdle(e, GetRfState(n), Polled(e, n), e) :
              r = Outcome(r.d, r.ok, <<>>, <<>>) /\ Good(e, r.d)
         /\ Fine(e, DeviceStopIdle(e, GetRfState(n), Polled(e, n), e), S)
         /\ \A h : \A r \in DeviceStopIdle(e, GetRfState(n), Polled(e, n), h) :
              /\ r = Outcome(r.d, r.ok, <<>>, <<>>)
              /\ \/ r.ok /\ Good(e, r.d)
                 \/ ~r.ok /\ r.d = [h EXCEPT !.faults = @ - 1]
<1> DEFINE u == Polled(e, n)
           g == [u EXCEPT !.DeviceStopIdle = TRUE]
           f == [e EXCEPT !.faults = @ - 1]
           D(h) == DeviceStopIdle(e, GetRfState(n), u, h)
<1>1. /\ Moved(e, u) /\ Noted(e, u) /\ GetRfState(u) = GetRfState(n)
      /\ Moved(e, g) /\ Noted(e, g) /\ g.DeviceStopIdle = TRUE
  BY PolledIs, StopIdleIs
<1>2. \A h : \A r \in D(h) :
              \/ r = Outcome(u, TRUE, <<>>, <<>>) /\ ~ShouldStopIdle(GetRfState(n))
              \/ r = Outcome(g, TRUE, <<>>, <<>>)
              \/ r = Outcome([h EXCEPT !.faults = @ - 1], FALSE, <<>>, <<>>)
  BY DEF DeviceStopIdle, Done, Fails
<1> HIDE DEF u, g, D
<1>3. Good(e, g) BY <1>1, MovedGood
<1>4. ~ShouldStopIdle(GetRfState(n)) => Good(e, u) BY <1>1, MovedGood
<1>5. DOMAIN f = DOMAIN e /\ \A k \in Fields : f[k] = e[k] BY DEF Fields, Sound
<1>6. Good(e, f) BY <1>5, Untouched
<1>7. \A h : \A r \in D(h) : /\ r = Outcome(r.d, r.ok, <<>>, <<>>)
                             /\ \/ r.ok /\ Good(e, r.d)
                                \/ ~r.ok /\ r.d = [h EXCEPT !.faults = @ - 1]
  <2> SUFFICES ASSUME NEW h, NEW r \in D(h)
               PROVE  /\ r = Outcome(r.d, r.ok, <<>>, <<>>)
                      /\ \/ r.ok /\ Good(e, r.d)
                         \/ ~r.ok /\ r.d = [h EXCEPT !.faults = @ - 1]
    OBVIOUS
  <2>1. CASE r = Outcome(u, TRUE, <<>>, <<>>) /\ ~ShouldStopIdle(GetRfState(n))
    <3>1. r.d = u /\ r.ok /\ r = Outcome(r.d, r.ok, <<>>, <<>>) BY <2>1 DEF Outcome
    <3>2. Good(e, r.d) BY <1>4, <2>1, <3>1
    <3> QED BY <3>1, <3>2
  <2>2. CASE r = Outcome(g, TRUE, <<>>, <<>>)
    <3>1. r.d = g /\ r.ok /\ r = Outcome(r.d, r.ok, <<>>, <<>>) BY <2>2 DEF Outcome
    <3>2. Good(e, r.d) BY <1>3, <3>1
    <3> QED BY <3>1, <3>2
  <2>3. CASE r = Outcome([h EXCEPT !.faults = @ - 1], FALSE, <<>>, <<>>)
    <3>1. /\ r.d = [h EXCEPT !.faults = @ - 1] /\ ~r.ok
          /\ r = Outcome(r.d, r.ok, <<>>, <<>>)
      BY <2>3 DEF Outcome
    <3> QED BY <3>1
  <2> QED BY <1>2, <2>1, <2>2, <2>3
<1>8. \A r \in D(e) : r = Outcome(r.d, r.ok, <<>>, <<>>) /\ Good(e, r.d) BY <1>6, <1>7 DEF f
<1>9. Fine(e, D(e), S)
  <2>1. <<>> \in Seq(S) /\ <<>> \in CallsOf(S) BY DEF CallsOf
  <2>2. \A r \in D(e) : r = Outcome(r.d, r.ok, r.steps, r.calls) /\ r.steps = <<>> /\ r.calls = <<>>
    <3> TAKE r \in D(e)
    <3>1. r = Outcome(r.d, r.ok, <<>>, <<>>) BY <1>8
    <3>2. r.steps = <<>> /\ r.calls = <<>> BY <3>1 DEF Outcome
    <3> QED BY <3>1, <3>2
  <2> QED BY <1>8, <2>1, <2>2 DEF Fine
<1> QED BY <1>7, <1>8, <1>9 DEF D, u

LEMMA AcquireFine ==
  ASSUME NEW e, Sound(e), NEW type, NEW S
  PROVE  Fine(e, AcquireFdoContextReferenceLocked(e, type), S)
<1> DEFINE n == [e EXCEPT !.PowerReferences[type] = @ + 1]
<1>1. Variant(e, n) BY DEF Variant, Sound, Fields
<1>2. AcquireFdoContextReferenceLocked(e, type) = DeviceStopIdle(e, GetRfState(n), Polled(e, n), e)
  BY DEF AcquireFdoContextReferenceLocked, Polled
<1> QED BY <1>1, <1>2, StopIdleGood

LEMMA UnderflowGood ==
  ASSUME NEW e, Sound(e)
  PROVE  Good(e, Underflow(e))
<1> DEFINE g == [e EXCEPT !.failed = TRUE]
<1>1. Moved(e, g) /\ g.failed BY DEF Moved, Sound, Fields, Aside, SendFields
<1> QED BY <1>1, FailedGood DEF Underflow

LEMMA ReleaseFine ==
  ASSUME NEW e, Sound(e), NEW type, NEW S
  PROVE  Fine(e, ReleaseFdoContextReferenceLocked(e, type), S)
<1> DEFINE n == [e EXCEPT !.PowerReferences[type] = @ - 1]
<1>1. CASE e.PowerReferences[type] <= 0
  BY <1>1, UnderflowGood, FineDone DEF ReleaseFdoContextReferenceLocked
<1>2. CASE ~(e.PowerReferences[type] <= 0)
  <2>1. Variant(e, n) BY DEF Variant, Sound, Fields
  <2>2. /\ n.NfpRadioState = e.NfpRadioState
        /\ \A t \in ReferenceTypes : n.PowerReferences[t] # 0 => e.PowerReferences[t] # 0
    <3>1. n.PowerReferences = [e.PowerReferences EXCEPT ![type] = @ - 1]
      BY DEF Sound, Fields
    <3>2. e.PowerReferences[type] # 0 BY <1>2
    <3> QED BY <3>1, <3>2 DEF Sound, Fields
  <2>3. GetRfState(n) \subseteq GetRfState(e) BY <2>2 DEF GetRfState
  <2>4. ReleaseFdoContextReferenceLocked(e, type) = Done(Released(e, n))
    BY <1>2 DEF ReleaseFdoContextReferenceLocked
  <2> QED BY <2>1, <2>3, <2>4, ReleasedGood, FineDone
<1> QED BY <1>1, <1>2

LEMMA FileAddFine ==
  ASSUME NEW e, Sound(e), NEW f, NEW type, NEW S
  PROVE  Fine(e, FileAddReference(e, f, type), S)
<1> DEFINE g == [e EXCEPT !.FileReferences[f][type] = @ + 1]
           R == AcquireFdoContextReferenceLocked(e, type)
           Q == {[r EXCEPT !.d.FileReferences[f][type] = IF r.ok THEN 1 ELSE 0] : r \in R}
<1>1. CASE e.FileReferences[f][type] > 0
  <2>1. DOMAIN g = DOMAIN e /\ \A k \in Fields : g[k] = e[k] BY DEF Fields, Sound
  <2>2. Good(e, g) BY <2>1, Untouched
  <2>3. FileAddReference(e, f, type) = Done(g) BY <1>1 DEF FileAddReference
  <2> HIDE DEF g
  <2> QED BY <2>2, <2>3, FineDone
<1>2. CASE ~(e.FileReferences[f][type] > 0)
  <2>1. Fine(e, R, S) BY AcquireFine
  <2>2. FileAddReference(e, f, type) = Q BY <1>2 DEF FileAddReference
  <2>3. ASSUME NEW q \in Q
        PROVE  \E r \in R : /\ q = Outcome(q.d, r.ok, q.steps, r.calls)
                            /\ Good(r.d, q.d) /\ q.steps \in Seq(S)
    <3>1. PICK r \in R : q = [r EXCEPT !.d.FileReferences[f][type] = IF r.ok THEN 1 ELSE 0]
      OBVIOUS
    <3> DEFINE o == r.ok
               h == [r.d EXCEPT !.FileReferences[f][type] = IF o THEN 1 ELSE 0]
    <3> HIDE DEF R
    <3>2. r = Outcome(r.d, r.ok, r.steps, r.calls) /\ Good(e, r.d) /\ r.steps \in Seq(S)
      BY <2>1 DEF Fine
    <3>3. q = Outcome(h, r.ok, r.steps, r.calls) BY <3>1, <3>2 DEF Outcome
    <3> HIDE DEF o
    <3>4. Sound(r.d) BY <3>2 DEF Good, Steady
    <3>5. DOMAIN h = DOMAIN r.d /\ \A k \in Fields : h[k] = (r.d)[k] BY <3>4 DEF Fields, Sound
    <3>6. Good(r.d, h) BY <3>4, <3>5, Untouched
    <3> HIDE DEF h
    <3> QED BY <3>2, <3>3, <3>6, OutcomeIs
  <2> HIDE DEF Q, R
  <2> QED BY <2>1, <2>2, <2>3, FineMap
<1> QED BY <1>1, <1>2

LEMMA FileRemoveFine ==
  ASSUME NEW e, Sound(e), NEW f, NEW type, NEW S
  PROVE  /\ Fine(e, FileRemoveReference(e, f, type), S)
         /\ FileRemoveReference(e, f, type) # {}
<1> DEFINE g == [e EXCEPT !.FileReferences[f][type] = 0]
           h == [e EXCEPT !.FileReferences[f][type] = @ - 1]
           c == e.FileReferences[f][type]
<1>1. DOMAIN g = DOMAIN e /\ \A k \in Fields : g[k] = e[k] BY DEF Fields, Sound
<1>2. DOMAIN h = DOMAIN e /\ \A k \in Fields : h[k] = e[k] BY DEF Fields, Sound
<1>3. FileRemoveReference(e, f, type) =
        CASE c = 0 -> Fails(Underflow(e))
          [] c = 1 -> ReleaseFdoContextReferenceLocked(g, type)
          [] OTHER -> Done(h)
  BY DEF FileRemoveReference
<1> HIDE DEF g, h, c
<1>4. Good(e, g) /\ Good(e, h) BY <1>1, <1>2, Untouched
<1>5. Sound(g) BY <1>4 DEF Good, Steady
<1>6. CASE c = 0
  <2>1. Fine(e, Fails(Underflow(e)), S) BY UnderflowGood, FineDone
  <2>2. Fails(Underflow(e)) # {} BY DEF Fails
  <2> QED BY <1>3, <1>6, <2>1, <2>2
<1>7. CASE c = 1
  <2>1. Fine(e, ReleaseFdoContextReferenceLocked(g, type), S) BY <1>4, <1>5, ReleaseFine, FineFrom
  <2>2. ReleaseFdoContextReferenceLocked(g, type) # {}
    BY DEF ReleaseFdoContextReferenceLocked, Done, Fails
  <2> QED BY <1>3, <1>7, <2>1, <2>2
<1>8. CASE c # 0 /\ c # 1
  <2>1. Fine(e, Done(h), S) BY <1>4, FineDone
  <2>2. Done(h) # {} BY DEF Done
  <2> QED BY <1>3, <1>8, <2>1, <2>2
<1> QED BY <1>6, <1>7, <1>8

LEMMA CleanupGood ==
  ASSUME NEW e, Sound(e), NEW f
  PROVE  Good(e, CleanupFilePolicyReferences(e, f))
<1> DEFINE held == {type \in ReferenceTypes : e.FileReferences[f][type] > 0}
           given == {type \in held : e.PowerReferences[type] > 0}
           p == [type \in ReferenceTypes |-> IF type \in given THEN e.PowerReferences[type] - 1
                                             ELSE e.PowerReferences[type]]
           b == e.failed \/ held # given
           n == [e EXCEPT !.PowerReferences = p, !.FileReferences[f] = NoReferences, !.failed = b]
<1>1. CleanupFilePolicyReferences(e, f) = IF given = {} THEN n ELSE Released(e, n)
  BY DEF CleanupFilePolicyReferences
<1>2. \A t \in ReferenceTypes : p[t] # 0 => e.PowerReferences[t] # 0
  <2>1. \A t \in given : e.PowerReferences[t] # 0 OBVIOUS
  <2> HIDE DEF given
  <2> QED BY <2>1
<1>3. ~b => ~e.failed OBVIOUS
<1>4. given = {} => \A t \in ReferenceTypes : p[t] = e.PowerReferences[t] OBVIOUS
<1> HIDE DEF given, held, p
<1> HIDE DEF b
<1>5. DOMAIN n = DOMAIN e /\ n.PowerReferences = p /\ n.failed = b
      /\ \A k \in Fields \ {"PowerReferences", "failed"} : n[k] = e[k]
  BY DEF Sound, Fields
<1> HIDE DEF n
<1>6. Variant(e, n)
  <2>1. n.NfpRadioState = e.NfpRadioState /\ e.NfpRadioState \in BOOLEAN BY <1>5 DEF Fields, Sound
  <2> QED BY <1>3, <1>5, <2>1 DEF Variant, Fields
<1>7. n.NfpRadioState = e.NfpRadioState /\ n.timer = e.timer /\ n.DeviceStopIdle = e.DeviceStopIdle
  BY <1>5 DEF Fields
<1>8. GetRfState(n) \subseteq GetRfState(e) BY <1>2, <1>5, <1>7 DEF GetRfState
<1>9. CASE given = {}
  <2>1. GetRfState(n) = GetRfState(e) BY <1>4, <1>5, <1>7, <1>9 DEF GetRfState
  <2>2. Moved(e, n) BY <1>6, <1>5, <1>3 DEF Moved, Variant, Fields, Aside, SendFields
  <2>3. Noted(e, n) BY <1>7, <2>1 DEF Noted, HasDiscoveryConfigChanged
  <2>4. CASE n.failed \/ n.half BY <1>1, <1>9, <2>2, <2>4, FailedGood
  <2>5. CASE ~n.failed /\ ~n.half
    <3>1. ~e.failed /\ ~e.half BY <2>2, <2>5 DEF Moved
    <3>2. ShouldStopIdle(GetRfState(n)) => n.DeviceStopIdle BY <3>1, <2>1, <1>7 DEF Sound, Follows
    <3> QED BY <1>1, <1>9, <2>2, <2>3, <3>2, MovedGood
  <2> QED BY <2>4, <2>5
<1>10. CASE given # {} BY <1>1, <1>6, <1>8, <1>10, ReleasedGood
<1> QED BY <1>9, <1>10

LEMMA HalfGood ==
  ASSUME NEW e, Sound(e), NEW b
  PROVE  Good(e, [e EXCEPT !.half = @ \/ b])
<1> DEFINE v == e.half \/ b
           g == [e EXCEPT !.half = v]
<1> SUFFICES Good(e, g) OBVIOUS
<1>1. ~v => ~e.half OBVIOUS
<1> HIDE DEF v
<1>2. Moved(e, g) BY <1>1 DEF Moved, Sound, Fields, Aside, SendFields
<1>3. /\ g.half = v /\ g.failed = e.failed /\ g.DeviceStopIdle = e.DeviceStopIdle /\ g.timer = e.timer
      /\ g.PowerReferences = e.PowerReferences /\ g.NfpRadioState = e.NfpRadioState
  BY DEF Sound, Fields
<1> HIDE DEF g
<1>4. GetRfState(g) = GetRfState(e) BY <1>3 DEF GetRfState
<1>5. Noted(e, g) BY <1>3, <1>4 DEF Noted, HasDiscoveryConfigChanged
<1>6. CASE g.half \/ g.failed BY <1>2, <1>6, FailedGood
<1>7. CASE ~g.half /\ ~g.failed
  <2>1. ShouldStopIdle(GetRfState(g)) => g.DeviceStopIdle
    BY <1>1, <1>3, <1>4, <1>7 DEF Sound, Follows
  <2> QED BY <1>2, <1>5, <2>1, MovedGood
<1> QED BY <1>6, <1>7

LEMMA FineHalf ==
  ASSUME NEW e, NEW R, NEW S, NEW done,
         \A r \in R : /\ r = Outcome(r.d, r.ok, r.steps, r.calls)
                      /\ r.steps \in Seq(S) /\ r.calls \in CallsOf(S)
                      /\ \/ Good(e, r.d)
                         \/ ~r.ok /\ done /\ Good(e, [r.d EXCEPT !.half = TRUE])
  PROVE  Fine(e, Half(R, done), S)
<1> SUFFICES ASSUME NEW q \in Half(R, done)
             PROVE  /\ q = Outcome(q.d, q.ok, q.steps, q.calls) /\ Good(e, q.d)
                    /\ q.steps \in Seq(S) /\ q.calls \in CallsOf(S)
  BY DEF Fine
<1>1. PICK r \in R : q = [r EXCEPT !.d.half = @ \/ (~r.ok /\ done)] BY DEF Half
<1> DEFINE b == ~r.ok /\ done
           h == [r.d EXCEPT !.half = @ \/ b]
<1>2. /\ r = Outcome(r.d, r.ok, r.steps, r.calls)
      /\ r.steps \in Seq(S) /\ r.calls \in CallsOf(S)
      /\ \/ Good(e, r.d)
         \/ b /\ Good(e, [r.d EXCEPT !.half = TRUE])
  OBVIOUS
<1>3. q = Outcome(h, r.ok, r.steps, r.calls) BY <1>1, <1>2 DEF Outcome
<1>4. Good(e, h)
  <2> HIDE DEF b
  <2>1. CASE Good(e, r.d)
    <3>1. Sound(r.d) BY <2>1 DEF Good, Steady
    <3>2. Good(r.d, h) BY <3>1, HalfGood
    <3> QED BY <2>1, <3>2, GoodThen
  <2>2. CASE b /\ Good(e, [r.d EXCEPT !.half = TRUE])
    <3>1. h = [r.d EXCEPT !.half = TRUE] BY <2>2
    <3> QED BY <2>2, <3>1
  <2> QED BY <1>2, <2>1, <2>2
<1> HIDE DEF h
<1>5. q.d = h /\ q.ok = r.ok /\ q.steps = r.steps /\ q.calls = r.calls BY <1>3 DEF Outcome
<1>6. q = Outcome(q.d, q.ok, q.steps, q.calls) BY <1>3 DEF Outcome
<1> QED BY <1>2, <1>4, <1>5, <1>6

LEMMA HalfOfFine ==
  ASSUME NEW e, NEW R, NEW S, Fine(e, R, S), NEW done
  PROVE  Fine(e, Half(R, done), S)
  BY FineHalf DEF Fine

(* The radio switch: where it fails after the radio is said to be on, only half is done *)
Switched(e, R) ==
  \A r \in R : /\ r = Outcome(r.d, r.ok, <<>>, <<>>)
               /\ Good(e, r.d) \/ (~r.ok /\ Good(e, [r.d EXCEPT !.half = TRUE]))

LEMMA RadioOnFails ==
  ASSUME NEW e, Sound(e), NEW n, Variant(e, n)
  PROVE  Good(e, [[n EXCEPT !.faults = @ - 1] EXCEPT !.half = TRUE])
<1> DEFINE g == [[n EXCEPT !.faults = @ - 1] EXCEPT !.half = TRUE]
<1>1. Moved(e, g) /\ g.half BY DEF Moved, Variant, Sound, Fields, Aside, SendFields
<1> QED BY <1>1, FailedGood

LEMMA RadioOnGood ==
  ASSUME NEW e, Sound(e), NEW n, Variant(e, n)
  PROVE  Switched(e, RadioOn(e, n))
<1> DEFINE D == DeviceStopIdle(e, GetRfState(n), Polled(e, n), n)
           On(r) == [r.d EXCEPT !.shown = Interfaces]
           Stuck(r, s) == [r.d EXCEPT !.faults = @ - 1, !.shown = s]
<1> SUFFICES ASSUME NEW q \in RadioOn(e, n)
             PROVE  /\ q = Outcome(q.d, q.ok, <<>>, <<>>)
                    /\ Good(e, q.d) \/ (~q.ok /\ Good(e, [q.d EXCEPT !.half = TRUE]))
  BY DEF Switched
<1>1. PICK r \in D :
        \/ ~r.ok /\ q = r
        \/ r.ok /\ q = Outcome(On(r), TRUE, <<>>, <<>>)
        \/ r.ok /\ \E s : q = Outcome(Stuck(r, s), FALSE, <<>>, <<>>)
  <2> DEFINE W(r) ==
        Done(On(r)) \cup IF r.d.faults = 0 THEN {}
                         ELSE UNION {Fails(Stuck(r, s)) : s \in {{}, {"sc"}}}
  <2>1. RadioOn(e, n) = UNION {IF ~r.ok THEN {r} ELSE W(r) : r \in D} BY DEF RadioOn, Polled
  <2>2. ASSUME NEW r, q \in W(r)
        PROVE  \/ q = Outcome(On(r), TRUE, <<>>, <<>>)
               \/ \E s : q = Outcome(Stuck(r, s), FALSE, <<>>, <<>>)
    BY <2>2 DEF Done, Fails
  <2> HIDE DEF W, D
  <2>3. PICK r \in D : q \in IF ~r.ok THEN {r} ELSE W(r) BY <2>1
  <2> HIDE DEF On, Stuck
  <2>4. CASE r.ok
    <3>1. q \in W(r) BY <2>3, <2>4
    <3> QED BY <2>2, <2>4, <3>1
  <2>5. CASE ~r.ok
    <3>1. q = r BY <2>3, <2>5
    <3> QED BY <2>5, <3>1
  <2> QED BY <2>4, <2>5
<1>2. /\ r = Outcome(r.d, r.ok, <<>>, <<>>)
      /\ \/ r.ok /\ Good(e, r.d)
         \/ ~r.ok /\ r.d = [n EXCEPT !.faults = @ - 1]
  BY StopIdleGood
<1> HIDE DEF D
<1>3. CASE ~r.ok /\ q = r BY <1>2, <1>3, RadioOnFails
<1>4. ASSUME r.ok
      PROVE  Good(e, On(r)) /\ \A s : Good(e, Stuck(r, s))
  <2>1. Good(e, r.d) /\ Sound(r.d) BY <1>2, <1>4 DEF Good, Steady
  <2>2. DOMAIN On(r) = DOMAIN r.d /\ \A k \in Fields : On(r)[k] = (r.d)[k] BY <2>1 DEF Sound, Fields
  <2>3. Good(r.d, On(r)) BY <2>1, <2>2, Untouched
  <2>4. ASSUME NEW s PROVE Good(r.d, Stuck(r, s))
    <3> DEFINE g == Stuck(r, s)
    <3>1. DOMAIN g = DOMAIN r.d /\ \A k \in Fields : g[k] = (r.d)[k] BY <2>1 DEF Sound, Fields
    <3> QED BY <2>1, <3>1, Untouched
  <2> HIDE DEF On, Stuck
  <2> QED BY <2>1, <2>3, <2>4, GoodThen
<1> HIDE DEF On, Stuck
<1>5. CASE r.ok /\ q = Outcome(On(r), TRUE, <<>>, <<>>)
  <2>1. q.d = On(r) /\ q = Outcome(q.d, q.ok, <<>>, <<>>) BY <1>5 DEF Outcome
  <2> QED BY <1>4, <1>5, <2>1
<1>6. CASE r.ok /\ \E s : q = Outcome(Stuck(r, s), FALSE, <<>>, <<>>)
  <2>1. PICK s : q = Outcome(Stuck(r, s), FALSE, <<>>, <<>>) BY <1>6
  <2>2. q.d = Stuck(r, s) /\ q = Outcome(q.d, q.ok, <<>>, <<>>) BY <2>1 DEF Outcome
  <2> QED BY <1>4, <1>6, <2>2
<1> QED BY <1>1, <1>3, <1>5, <1>6

LEMMA DesiredIs ==
  ASSUME NEW e, NEW how \in Hows
  PROVE  /\ DesiredRadioState(e, how) \in BOOLEAN
         /\ DesiredRadioState(e, how) = TRUE => how \in {"on", "landed"}
  BY DEF DesiredRadioState, Hows

LEMMA RadioSetGood ==
  ASSUME NEW e, Sound(e), NEW desired \in BOOLEAN
  PROVE  /\ Switched(e, RadioSet(e, desired))
         /\ ~desired \/ e.NfpRadioState => \A r \in RadioSet(e, desired) : Good(e, r.d)
<1> DEFINE on == [e EXCEPT !.NfpRadioState = TRUE]
           off == [e EXCEPT !.NfpRadioState = FALSE]
           n == [off EXCEPT !.shown = {}]
<1>1. Variant(e, on) /\ Variant(e, n) BY DEF Variant, Sound, Fields
<1>2. GetRfState(n) \subseteq GetRfState(e)
  <2>1. n.PowerReferences = e.PowerReferences /\ n.NfpRadioState = FALSE BY DEF Sound, Fields
  <2> QED BY <2>1 DEF GetRfState
<1>3. Good(e, Released(e, n)) BY <1>1, <1>2, ReleasedGood
<1>4. RadioOff(e, off) = {Outcome(Released(e, n), TRUE, <<>>, <<>>)} BY DEF RadioOff, Done
<1>5. Fails(e) = {Outcome(e, FALSE, <<>>, <<>>)} BY DEF Fails
<1>6. Good(e, e) BY GoodSelf
<1>7. e.NfpRadioState \in BOOLEAN BY DEF Sound
<1>8. CASE e.NfpRadioState = desired
  <2>1. RadioSet(e, desired) = {Outcome(e, FALSE, <<>>, <<>>)}
    BY <1>5, <1>8 DEF RadioSet
  <2>2. \A r \in RadioSet(e, desired) : r.d = e /\ r = Outcome(r.d, r.ok, <<>>, <<>>)
    BY <2>1 DEF Outcome
  <2> QED BY <1>6, <2>2 DEF Switched
<1>9. CASE e.NfpRadioState # desired /\ desired = TRUE
  <2>1. RadioSet(e, desired) = RadioOn(e, on) BY <1>9 DEF RadioSet
  <2>2. e.NfpRadioState = FALSE BY <1>7, <1>9
  <2> QED BY <1>1, <1>9, <2>1, <2>2, RadioOnGood
<1>10. CASE e.NfpRadioState # desired /\ desired = FALSE
  <2>1. RadioSet(e, desired) = RadioOff(e, off) BY <1>10 DEF RadioSet
  <2> HIDE DEF n, off
  <2>2. \A r \in RadioSet(e, desired) : r.d = Released(e, n) /\ r = Outcome(r.d, r.ok, <<>>, <<>>)
    BY <1>4, <2>1 DEF Outcome
  <2> QED BY <1>3, <2>2 DEF Switched
<1> QED BY <1>8, <1>9, <1>10

LEMMA SetRadioFine ==
  ASSUME NEW e, Sound(e), NEW how \in Hows, NEW S
  PROVE  Fine(e, Half(SetRadioState(e, how), how \in {"on", "landed"} /\ ~e.NfpRadioState), S)
<1> DEFINE b == IF how = "flight" THEN e.NfpRadioState ELSE e.BeforeFlightMode
           e1 == [e EXCEPT !.BeforeFlightMode = b]
           desired == DesiredRadioState(e, how)
           R == RadioSet(e1, desired)
           W(g) == WriteRadioStateToRegistry(g)
           done == how \in {"on", "landed"} /\ ~e.NfpRadioState
<1>1. DOMAIN e1 = DOMAIN e /\ \A k \in Fields : e1[k] = e[k] BY DEF Sound, Fields
<1>2. Good(e, e1) /\ Sound(e1) BY <1>1, Untouched DEF Good, Steady
<1>3. e1.NfpRadioState = e.NfpRadioState BY <1>1 DEF Fields
<1>4. SetRadioState(e, how) = {[r EXCEPT !.d = W(r.d)] : r \in R}
  BY DEF SetRadioState, Written
<1> HIDE DEF e1, b
<1>5. desired \in BOOLEAN /\ (desired = TRUE => how \in {"on", "landed"}) BY DesiredIs
<1> HIDE DEF desired
<1>6. Switched(e1, R) BY <1>2, <1>5, RadioSetGood
<1>7. \A r \in R : Good(e1, r.d) \/ done
  <2>1. CASE ~desired \/ e1.NfpRadioState BY <1>2, <1>5, <2>1, RadioSetGood
  <2>2. CASE desired /\ ~e1.NfpRadioState BY <1>3, <1>5, <2>2
  <2> QED BY <2>1, <2>2
<1> HIDE DEF R, done
<1> SUFFICES ASSUME NEW q \in SetRadioState(e, how)
             PROVE  /\ q = Outcome(q.d, q.ok, q.steps, q.calls)
                    /\ q.steps \in Seq(S) /\ q.calls \in CallsOf(S)
                    /\ \/ Good(e, q.d)
                       \/ ~q.ok /\ done /\ Good(e, [q.d EXCEPT !.half = TRUE])
  BY FineHalf DEF done
<1>8. PICK r \in R : q = [r EXCEPT !.d = W(r.d)] BY <1>4
<1>9. /\ r = Outcome(r.d, r.ok, <<>>, <<>>)
      /\ Good(e1, r.d) \/ (~r.ok /\ done /\ Good(e1, [r.d EXCEPT !.half = TRUE]))
  <2>1. Good(e1, r.d) \/ (~r.ok /\ Good(e1, [r.d EXCEPT !.half = TRUE]))
    BY <1>6 DEF Switched
  <2>2. Good(e1, r.d) \/ done BY <1>7
  <2>3. r = Outcome(r.d, r.ok, <<>>, <<>>) BY <1>6 DEF Switched
  <2> QED BY <2>1, <2>2, <2>3
<1> HIDE DEF W
<1>10. q = Outcome(W(r.d), r.ok, <<>>, <<>>) BY <1>8, <1>9 DEF Outcome
<1>11. q.d = W(r.d) /\ q = Outcome(q.d, q.ok, q.steps, q.calls) /\ q.steps = <<>> /\ q.calls = <<>>
  BY <1>10 DEF Outcome
<1>12. <<>> \in Seq(S) /\ <<>> \in CallsOf(S) BY DEF CallsOf
<1>13. CASE Good(e1, r.d)
  <2> DEFINE x == r.d
             g == W(x)
  <2>1. Sound(x) BY <1>13 DEF Good, Steady
  <2>2. DOMAIN g = DOMAIN x /\ \A k \in Fields : g[k] = x[k]
    <3> HIDE DEF x
    <3> QED BY <2>1 DEF W, WriteRadioStateToRegistry, Sound, Fields
  <2>3. Good(x, g) BY <2>1, <2>2, Untouched
  <2> QED BY <1>2, <1>11, <1>12, <1>13, <2>3, GoodThen
<1>14. CASE ~r.ok /\ done /\ Good(e1, [r.d EXCEPT !.half = TRUE])
  <2> DEFINE x == r.d
             y == [x EXCEPT !.half = TRUE]
             g == [W(x) EXCEPT !.half = TRUE]
  <2>1. Sound(y) BY <1>14 DEF Good, Steady
  <2>2. DOMAIN g = DOMAIN y /\ \A k \in Fields : g[k] = y[k]
    <3> HIDE DEF x
    <3> QED BY <2>1 DEF W, WriteRadioStateToRegistry, Sound, Fields
  <2>3. Good(y, g) BY <2>1, <2>2, Untouched
  <2>4. Good(e, g)
    <3>1. Good(e1, y) BY <1>14
    <3> HIDE DEF y, g
    <3> QED BY <1>2, <2>3, <3>1, GoodThen
  <2>5. ~q.ok BY <1>10, <1>14 DEF Outcome
  <2> QED BY <1>11, <1>12, <1>14, <2>4, <2>5
<1> QED BY <1>9, <1>13, <1>14

(***************************************************************************)
(* Files.                                                                  *)
(***************************************************************************)
LEMMA NoneIn == None \in Args /\ None \in Clients
  BY DEF Args, Clients

LEMMA TypeIn == \A type \in ReferenceTypes : type \in Args
  BY DEF Args

LEMMA StopIdleFine ==
  ASSUME NEW e, Sound(e), NEW f \in Clients, NEW names, "AwaitD0" \in names
  PROVE  Fine(e, StopIdle(e, f), StepsOf(names))
<1> DEFINE g == [e EXCEPT !.holds = @ \cup {f}]
<1>1. DOMAIN g = DOMAIN e /\ \A k \in Fields : g[k] = e[k] BY DEF Sound, Fields
<1>2. Good(e, g) BY <1>1, Untouched
<1>3. Step("AwaitD0", f, None) \in StepsOf(names) BY PlainStep3, NoneIn DEF DispatcherSteps
<1>4. StopIdle(e, f) = OrFails(e, Then(g, <<Step("AwaitD0", f, None)>>)) BY DEF StopIdle
<1> HIDE DEF g
<1>5. <<Step("AwaitD0", f, None)>> \in Seq(StepsOf(names)) BY <1>3
<1> QED BY <1>2, <1>4, <1>5, FineThen, FineOrFails

LEMMA ResumeIdleGood ==
  ASSUME NEW e, Sound(e), NEW f
  PROVE  Good(e, ResumeIdle(e, f))
<1> DEFINE g == [e EXCEPT !.holds = @ \ {f}]
<1>1. DOMAIN g = DOMAIN e /\ \A k \in Fields : g[k] = e[k] BY DEF Sound, Fields
<1> QED BY <1>1, Untouched DEF ResumeIdle

LEMMA DeliverGood ==
  ASSUME NEW e, Sound(e), NEW f, NEW fits
  PROVE  Good(e, Deliver(e, f, fits))
<1> DEFINE g == [e EXCEPT !.box[f] = Delivered(f, @, fits)]
<1>1. DOMAIN g = DOMAIN e /\ \A k \in Fields : g[k] = e[k] BY DEF Sound, Fields
<1> QED BY <1>1, Untouched DEF Deliver

LEMMA DeliverAllGood ==
  ASSUME NEW e, Sound(e), NEW files, NEW fits
  PROVE  Good(e, DeliverAll(e, files, fits))
<1> DEFINE b == [f \in Files |-> IF f \in files THEN Delivered(f, e.box[f], fits) ELSE e.box[f]]
           g == [e EXCEPT !.box = b]
<1>1. DeliverAll(e, files, fits) = g BY DEF DeliverAll
<1> HIDE DEF b
<1>2. DOMAIN g = DOMAIN e /\ \A k \in Fields : g[k] = e[k] BY DEF Sound, Fields
<1> QED BY <1>1, <1>2, Untouched

LEMMA GetNextFine ==
  ASSUME NEW e, Sound(e), NEW f, NEW fits, NEW S
  PROVE  Fine(e, GetNext(e, f, fits), S)
<1> DEFINE With(b) == [e EXCEPT !.box[f] = b]
<1>1. ASSUME NEW b PROVE Good(e, With(b))
  <2> DEFINE g == With(b)
  <2>1. DOMAIN g = DOMAIN e /\ \A k \in Fields : g[k] = e[k] BY DEF Sound, Fields
  <2> QED BY <2>1, Untouched
<1>2. \E b : GetNext(e, f, fits) \in {Done(With(b)), Fails(With(b))}
  <2> DEFINE x == Responsive(e.box[f])
             b1 == [x EXCEPT !.queue = IF fits THEN @ - 1 ELSE @]
             b3 == [x EXCEPT !.pending = TRUE]
  <2>1. GetNext(e, f, fits) = IF x.queue > 0 THEN Done(With(b1))
                              ELSE IF x.pending THEN Fails(With(x)) ELSE Done(With(b3))
    BY DEF GetNext
  <2> HIDE DEF x, b1, b3, With
  <2> QED BY <2>1
<1> HIDE DEF With
<1> QED BY <1>1, <1>2, FineDone

(* What a file has to be in use for *)
Engaged(e, f) == f \in e.due \/ (f \in Publishers /\ e.payload[f] = "set")

(* A file takes up another life *)
LEMMA LivesOn ==
  ASSUME NEW e, Sound(e), NEW f, NEW life \in Lives, NEW g, DOMAIN g = DOMAIN e,
         \A k \in Fields \ {"file"} : g[k] = e[k], g.file = [e.file EXCEPT ![f] = life],
         life # "open" \/ e.file[f] \notin Used,
         life \in Used \/ ~Engaged(e, f)
  PROVE  Steady(e, g) /\ Serves(e, g)
<1>1. /\ g.Enabled = e.Enabled /\ g.payload = e.payload /\ g.SendList = e.SendList
      /\ g.workItem = e.workItem /\ g.DeviceConnected = e.DeviceConnected /\ g.due = e.due
      /\ g.tried = e.tried /\ g.skipped = e.skipped /\ g.stopped = e.stopped
  BY DEF Fields
<1>2. Lists(e) BY DEF Sound
<1>3. g.file \in [Files -> Lives] BY <1>2 DEF Lists
<1>4. Lists(g)
  <2>1. g.due \subseteq {h \in Files : g.Enabled[h] /\ g.file[h] \in Used}
    <3> SUFFICES ASSUME NEW h \in e.due
                 PROVE  h \in Files /\ e.Enabled[h] /\ g.file[h] \in Used
      BY <1>1
    <3>1. h \in Files /\ e.Enabled[h] /\ e.file[h] \in Used BY <1>2 DEF Lists
    <3>2. h # f \/ life \in Used BY DEF Engaged
    <3> QED BY <1>2, <3>1, <3>2 DEF Lists
  <2>2. \A h \in Publishers : g.payload[h] = "set" => g.file[h] \in Used
    <3> SUFFICES ASSUME NEW h \in Publishers, e.payload[h] = "set"
                 PROVE  g.file[h] \in Used
      BY <1>1
    <3>1. h \in Files /\ e.file[h] \in Used BY <1>2 DEF Lists, Publishers
    <3> QED BY <1>2, <3>1 DEF Lists, Engaged
  <2> QED BY <1>1, <1>2, <1>3, <2>1, <2>2 DEF Lists
<1>5. \A k \in Fields \ SendFields : g[k] = e[k] BY DEF Fields, SendFields
<1>6. Steady(e, g) BY <1>4, <1>5, SteadyBut
<1>7. Due(g) \subseteq Due(e)
  <2> SUFFICES ASSUME NEW h \in e.due, g.file[h] = "open"
               PROVE  e.file[h] = "open"
    BY <1>1 DEF Due
  <2>1. h \in Files /\ e.file[h] \in Used BY <1>2 DEF Lists
  <2>2. CASE h # f BY <1>2, <2>1, <2>2 DEF Lists
  <2>3. CASE h = f
    <3>1. life = "open" BY <1>2, <2>1, <2>3 DEF Lists
    <3> QED BY <2>1, <2>3, <3>1
  <2> QED BY <2>2, <2>3
<1>8. Serves(e, g) BY <1>1, <1>7, ServesBut
<1> QED BY <1>6, <1>8

LEMMA EnabledGood ==
  ASSUME NEW e, Sound(e), NEW g, DOMAIN g = DOMAIN e,
         \A k \in Fields \ {"Enabled", "due"} : g[k] = e[k],
         g.Enabled \in [Files -> BOOLEAN], g.due \subseteq e.due,
         \A h \in Files : h \in g.due => g.Enabled[h]
  PROVE  Good(e, g)
<1>1. /\ g.file = e.file /\ g.payload = e.payload /\ g.SendList = e.SendList
      /\ g.workItem = e.workItem /\ g.DeviceConnected = e.DeviceConnected
      /\ g.tried = e.tried /\ g.skipped = e.skipped /\ g.stopped = e.stopped
  BY DEF Fields
<1>2. Lists(e) BY DEF Sound
<1>3. Lists(g)
  <2>1. g.due \subseteq {h \in Files : g.Enabled[h] /\ g.file[h] \in Used} BY <1>1, <1>2 DEF Lists
  <2>2. g.due # {} => g.DeviceConnected BY <1>1, <1>2 DEF Lists
  <2> QED BY <1>1, <1>2, <2>1, <2>2 DEF Lists
<1>4. \A k \in Fields \ SendFields : g[k] = e[k] BY DEF Fields, SendFields
<1>5. Steady(e, g) BY <1>3, <1>4, SteadyBut
<1>6. Due(g) \subseteq Due(e) BY <1>1 DEF Due
<1>7. Serves(e, g) BY <1>1, <1>6, ServesBut
<1> QED BY <1>1, <1>5, <1>7 DEF Good

LEMMA CloseGood ==
  ASSUME NEW e, Sound(e), NEW f, ~Engaged(e, f)
  PROVE  LET g == Close(e, f)
         IN  Steady(e, g) /\ Serves(e, g) /\ g.file = [e.file EXCEPT ![f] = "closed"]
<1> DEFINE g == [e EXCEPT !.box[f] = EmptyBox, !.file[f] = "closed"]
           h == CleanupFilePolicyReferences(g, f)
<1>1. /\ DOMAIN g = DOMAIN e /\ \A k \in Fields \ {"file"} : g[k] = e[k]
      /\ g.file = [e.file EXCEPT ![f] = "closed"]
  BY DEF Sound, Fields
<1>2. Close(e, f) = h BY DEF Close
<1> HIDE DEF g
<1>3. Steady(e, g) /\ Serves(e, g)
  <2>1. "closed" \in Lives /\ "closed" # "open" BY DEF Lives
  <2>2. /\ "closed" # "open" \/ e.file[f] \notin Used
        /\ "closed" \in Used \/ ~Engaged(e, f)
    BY <2>1
  <2> QED BY <1>1, <2>1, <2>2, LivesOn
<1>4. Good(g, h) BY <1>3, CleanupGood DEF Steady
<1> HIDE DEF h
<1> QED BY <1>1, <1>2, <1>3, <1>4 DEF Good, Steady, Serves

LEMMA NfpEnableFine ==
  ASSUME NEW e, Sound(e), NEW f \in Clients, NEW names, "FileAdd" \in names
  PROVE  Fine(e, NfpEnable(e, f), StepsOf(names))
<1> DEFINE g == [e EXCEPT !.Enabled[f] = TRUE]
           steps == <<Step("FileAdd", f, "Proximity")>>
<1>1. /\ DOMAIN g = DOMAIN e /\ \A k \in Fields \ {"Enabled"} : g[k] = e[k]
      /\ g.Enabled = [e.Enabled EXCEPT ![f] = TRUE]
  BY DEF Sound, Fields
<1>2. Good(e, g)
  <2> HIDE DEF g
  <2>0. e.due \subseteq g.due BY <1>1 DEF Fields
  <2>1. g.Enabled \in [Files -> BOOLEAN] /\ \A h \in Files : e.Enabled[h] => g.Enabled[h]
    BY <1>1 DEF Sound, Lists
  <2>2. \A h \in Files : h \in e.due => g.Enabled[h] BY <2>1 DEF Sound, Lists
  <2> QED BY <1>1, <2>1, <2>2, EnabledGood DEF Fields
<1>3. Step("FileAdd", f, "Proximity") \in StepsOf(names)
  BY PlainStep3, TypeIn DEF DispatcherSteps, ReferenceTypes
<1>4. steps \in Seq(StepsOf(names)) BY <1>3
<1>5. NfpEnable(e, f) = IF e.Enabled[f] THEN Fails(e) ELSE Then(g, steps) BY DEF NfpEnable
<1> HIDE DEF g, steps
<1> QED BY <1>2, <1>4, <1>5, FineThen, FineDone, GoodSelf

LEMMA NfpDisableFine ==
  ASSUME NEW e, Sound(e), NEW f \in Clients, NEW names, "FileRemove" \in names
  PROVE  Fine(e, NfpDisable([e EXCEPT !.due = @ \ {f}], f), StepsOf(names))
<1> DEFINE u == e.due \ {f}
           h == [e EXCEPT !.due = u]
           g == [[h EXCEPT !.Enabled[f] = FALSE] EXCEPT !.box[f].pending = FALSE]
           steps == <<Step("FileRemove", f, "Proximity")>>
<1>1. /\ DOMAIN h = DOMAIN e /\ \A k \in Fields \ {"due"} : h[k] = e[k]
      /\ h.due = u
  BY DEF Sound, Fields
<1>2. /\ DOMAIN g = DOMAIN e /\ \A k \in Fields \ {"Enabled", "due"} : g[k] = e[k]
      /\ g.Enabled = [e.Enabled EXCEPT ![f] = FALSE] /\ g.due = u
  BY DEF Sound, Fields
<1>3. Step("FileRemove", f, "Proximity") \in StepsOf(names)
  BY PlainStep3, TypeIn DEF DispatcherSteps, ReferenceTypes
<1>4. steps \in Seq(StepsOf(names)) BY <1>3
<1>5. NfpDisable(h, f) = IF ~h.Enabled[f] THEN Fails(h) ELSE Then(g, steps) BY DEF NfpDisable, Cancelled
<1> HIDE DEF g, h, steps
<1>6. e.Enabled \in [Files -> BOOLEAN] /\ \A q \in Files : q \in e.due => e.Enabled[q]
  BY DEF Sound, Lists
<1>7. Good(e, h)
  <2>1. h.Enabled = e.Enabled BY <1>1 DEF Fields
  <2> QED BY <1>1, <1>6, <2>1, EnabledGood
<1>8. Good(e, g)
  <2>1. g.Enabled \in [Files -> BOOLEAN] /\ \A q \in Files : q \in g.due => g.Enabled[q]
    BY <1>2, <1>6
  <2> QED BY <1>2, <2>1, EnabledGood
<1>9. Fine(e, NfpDisable(h, f), StepsOf(names)) BY <1>4, <1>5, <1>7, <1>8, FineThen, FineDone
<1> QED BY <1>9 DEF h

(***************************************************************************)
(* What a thread has to do, beside what all have, depends on the life of   *)
(* its file: one that is open only gets a payload, one that closes is      *)
(* taken from the send list.                                               *)
(***************************************************************************)
QuietSteps == StepsOf(QuietNames)

MarkedAt(life) == CASE life = "open" -> {"SetPayload"}
                    [] life = "closing" -> {"RemoveSendClient", "CloseClient"}
                    [] OTHER -> Marked \ {"SetPayload"}

FileWork(t, life) == QuietSteps \cup {p \in StepsOf(MarkedAt(life)) : p.f = t}

LEMMA MarkedAre == \A life : MarkedAt(life) \subseteq Marked
  BY DEF MarkedAt, Marked

LEMMA WorkMonotone ==
  ASSUME NEW S, NEW T, S \subseteq T
  PROVE  Seq(S) \subseteq Seq(T) /\ CallsOf(S) \subseteq CallsOf(T)
<1>1. Seq(S) \subseteq Seq(T) OBVIOUS
<1> DEFINE A == Seq(S) \ {<<>>}
           B == Seq(T) \ {<<>>}
<1>2. A \subseteq B BY <1>1
<1> HIDE DEF A, B
<1>3. Seq(A) \subseteq Seq(B) BY <1>2
<1> QED BY <1>1, <1>3 DEF CallsOf, A, B

LEMMA WorkGrows ==
  ASSUME NEW t, NEW l1, NEW l2, MarkedAt(l1) \subseteq MarkedAt(l2)
  PROVE  FileWork(t, l1) \subseteq FileWork(t, l2)
  BY DEF FileWork, StepsOf

LEMMA MarkedStep ==
  ASSUME NEW f \in Files, NEW life, NEW s \in MarkedAt(life)
  PROVE  Step(s, f, None) \in FileWork(f, life)
<1>1. f \in Clients BY DEF Clients
<1>2. s \notin DispatcherSteps \cup {"SetRadioState", "AddClientToList"}
  BY MarkedAre DEF Marked, DispatcherSteps
<1>3. Step(s, f, None) \in StepsOf(MarkedAt(life)) BY <1>1, <1>2, PlainStep3, NoneIn
<1>4. Step(s, f, None).f = f BY DEF Step, StepTo, StepFor
<1> QED BY <1>3, <1>4 DEF FileWork

LEMMA QuietStep ==
  ASSUME NEW s \in QuietNames \ (DispatcherSteps \cup {"SetRadioState", "AddClientToList"}),
         NEW f \in Clients, NEW x \in Args
  PROVE  Step(s, f, x) \in QuietSteps
  BY PlainStep3 DEF QuietSteps

LEMMA RemovalCallsAre ==
  ASSUME NEW f \in Files, NEW life, life # "open"
  PROVE  RemovalCalls(f) \in CallsOf(FileWork(f, life))
<1> DEFINE c(s) == <<Step(s, f, None)>>
           W == FileWork(f, life)
           names == {"RemoveClientFromList", "RemoveManager", "RemoveSubscriber",
                     "SCRemoveClient", "ESERemoveClient"}
           T == Seq(W) \ {<<>>}
<1>0. f \in Clients BY DEF Clients
<1>1. ASSUME NEW s \in names
      PROVE  c(s) \in T
  <2>1. s \in QuietNames \ (DispatcherSteps \cup {"SetRadioState", "AddClientToList"})
    BY DEF QuietNames, Marked, FileSteps, DispatcherSteps, SESteps, SCSteps, ESESteps
  <2>2. Step(s, f, None) \in W BY <1>0, <2>1, QuietStep, NoneIn DEF FileWork
  <2> HIDE DEF names, W
  <2> QED BY <2>2
<1>2. c("RemoveSendClient") \in T
  <2>1. "RemoveSendClient" \in MarkedAt(life) BY DEF MarkedAt, Marked
  <2>2. Step("RemoveSendClient", f, None) \in W BY <2>1, MarkedStep
  <2> HIDE DEF W
  <2> QED BY <2>2
<1>3. RemovalCalls(f) \in {<<c("RemoveClientFromList"), c("RemoveSendClient")>>,
                           <<c("RemoveClientFromList")>>, <<c("RemoveManager")>>,
                           <<c("RemoveSubscriber")>>, <<c("SCRemoveClient")>>,
                           <<c("ESERemoveClient")>>, <<>>}
  <2>1. CASE Role[f] \in Publications BY <2>1 DEF RemovalCalls, Publications, Subscriptions
  <2>2. CASE Role[f] \in Subscriptions BY <2>2 DEF RemovalCalls, Publications, Subscriptions
  <2>3. CASE Role[f] \notin Publications \cup Subscriptions
    <3> HIDE DEF c
    <3> QED BY <2>3 DEF RemovalCalls, c
  <2> QED BY <2>1, <2>2, <2>3
<1> HIDE DEF c, T
<1>4. \A a, b \in T : <<a>> \in Seq(T) /\ <<a, b>> \in Seq(T) OBVIOUS
<1>5. RemovalCalls(f) \in Seq(T)
  <2>1. \A s \in names : <<c(s)>> \in Seq(T) BY <1>1, <1>4
  <2>2. <<c("RemoveClientFromList"), c("RemoveSendClient")>> \in Seq(T) BY <1>1, <1>2, <1>4
  <2>3. <<>> \in Seq(T) OBVIOUS
  <2> DEFINE two == <<c("RemoveClientFromList"), c("RemoveSendClient")>>
             one(s) == <<c(s)>>
  <2> HIDE DEF one, two
  <2>4. \/ RemovalCalls(f) = two \/ RemovalCalls(f) = <<>>
        \/ \E s \in names : RemovalCalls(f) = one(s)
    BY <1>3 DEF one, two
  <2>5. two \in Seq(T) /\ \A s \in names : one(s) \in Seq(T) BY <2>1, <2>2 DEF one, two
  <2> QED BY <2>3, <2>4, <2>5
<1> QED BY <1>5 DEF CallsOf, T

LEMMA FileSectionFine ==
  ASSUME NEW e, Sound(e), NEW s \in FileSteps \ Marked, NEW f \in Clients, NEW x \in Args,
         s = "SetRadioState" => x \in Hows
  PROVE  Fine(e, FileSection(e, s, f, x), QuietSteps)
<1> DEFINE R == FileSection(e, s, f, x)
           S == QuietSteps
<1> SUFFICES Fine(e, R, S) OBVIOUS
<1>a. {"AwaitD0", "FileAdd", "FileRemove"} \subseteq QuietNames BY DEF QuietNames, Marked, FileSteps
<1>b. Good(e, e) BY GoodSelf
<1>1. ASSUME s = "FileAdd" PROVE Fine(e, R, S)
  <2>1. \E done : R = Half(FileAddReference(e, f, x), done) BY <1>1 DEF FileSection
  <2> QED BY <2>1, FileAddFine, HalfOfFine
<1>2. ASSUME s = "FileRemove" PROVE Fine(e, R, S)
  <2>1. R = FileRemoveReference(e, f, x) BY <1>2 DEF FileSection
  <2> QED BY <2>1, FileRemoveFine
<1>3. ASSUME s = "FdoAdd" PROVE Fine(e, R, S)
  <2>1. R = Half(AcquireFdoContextReferenceLocked(e, x), TRUE) BY <1>3 DEF FileSection
  <2> QED BY <2>1, AcquireFine, HalfOfFine
<1>4. ASSUME s = "FdoRemove" PROVE Fine(e, R, S)
  <2>1. R = ReleaseFdoContextReferenceLocked(e, x) BY <1>4 DEF FileSection
  <2> QED BY <2>1, ReleaseFine
<1>5. ASSUME s = "StopIdle" PROVE Fine(e, R, S)
  <2>1. R = StopIdle(e, f) BY <1>5 DEF FileSection
  <2> QED BY <1>a, <2>1, StopIdleFine DEF QuietSteps
<1>6. ASSUME s = "AwaitD0" PROVE Fine(e, R, S)
  <2>1. R = Done(e) BY <1>6 DEF FileSection
  <2> QED BY <1>b, <2>1, FineDone
<1>7. ASSUME s = "ResumeIdle" PROVE Fine(e, R, S)
  <2>1. R = Done(ResumeIdle(e, f)) BY <1>7 DEF FileSection
  <2> QED BY <2>1, FineDone, ResumeIdleGood
<1>11. ASSUME s = "GetNext" PROVE Fine(e, R, S)
  <2>1. \/ R = Fails(e)
        \/ \E F : R = UNION {GetNext(e, f, fits) : fits \in F}
    BY <1>11 DEF FileSection
  <2>2. \A F : Fine(e, UNION {GetNext(e, f, fits) : fits \in F}, S)
    <3>1. \A fits : Fine(e, GetNext(e, f, fits), S) BY GetNextFine
    <3> QED BY <3>1 DEF Fine
  <2> QED BY <1>b, <2>1, <2>2, FineDone
<1>12. ASSUME s = "NfpEnable" PROVE Fine(e, R, S)
  <2>1. R = NfpEnable(e, f) BY <1>12 DEF FileSection
  <2> QED BY <1>a, <2>1, NfpEnableFine DEF QuietSteps
<1>13. ASSUME s = "NfpDisable" PROVE Fine(e, R, S)
  <2>1. R = NfpDisable([e EXCEPT !.due = @ \ {f}], f) BY <1>13 DEF FileSection
  <2> QED BY <1>a, <2>1, NfpDisableFine DEF QuietSteps
<1>14. ASSUME s = "SetRadioState" PROVE Fine(e, R, S)
  <2>1. R = Half(SetRadioState(e, x), x \in {"on", "landed"} /\ ~e.NfpRadioState)
    BY <1>14 DEF FileSection
  <2> QED BY <1>14, <2>1, SetRadioFine
<1> QED BY <1>1, <1>2, <1>3, <1>4, <1>5, <1>6, <1>7, <1>11, <1>12, <1>13, <1>14
        DEF FileSteps, Marked

(***************************************************************************)
(* The secure elements.                                                    *)
(***************************************************************************)
LEMMA ElementStep ==
  ASSUME NEW s \in {"ValidateCardEmulationState", "SetCardEmulationMode", "SetPowerMode",
                    "GetPowerSettings", "GetSecureElementList", "FdoAdd", "FdoRemove",
                    "SetCardWiredMode"},
         NEW f \in Clients, NEW x \in Args, NEW v \in Args
  PROVE  StepTo(s, f, x, v) \in QuietSteps
<1>1. s \in QuietNames /\ s \notin DispatcherSteps \cup {"SetRadioState", "AddClientToList"}
  BY DEF QuietNames, Marked, SESteps, ESESteps, FileSteps, DispatcherSteps
<1> QED BY <1>1, PlainStep DEF QuietSteps

LEMMA ElementStep3 ==
  ASSUME NEW s \in {"ValidateCardEmulationState", "GetPowerSettings", "GetSecureElementList",
                    "FdoAdd", "FdoRemove"},
         NEW f \in Clients, NEW x \in Args
  PROVE  Step(s, f, x) \in QuietSteps
  BY ElementStep, NoneIn DEF Step

LEMMA TypeSteps ==
  ASSUME NEW s \in {"FdoAdd", "FdoRemove"}, NEW f \in Clients,
         NEW T, T \subseteq {"CardEmulation", "StealthListen"}
  PROVE  SetToSeq({Step(s, f, type) : type \in T}) \in Seq(QuietSteps)
<1> DEFINE A == {Step(s, f, type) : type \in T}
           a == Step(s, f, "CardEmulation")
           b == Step(s, f, "StealthListen")
<1>1. a \in QuietSteps /\ b \in QuietSteps BY ElementStep3, TypeIn DEF ReferenceTypes
<1>2. A \subseteq {a, b} OBVIOUS
<1> HIDE DEF A, a, b
<1>3. IsFiniteSet({a}) /\ {a, b} = {a} \cup {b} BY FS_Singleton
<1>4. IsFiniteSet({a, b}) BY <1>3, FS_AddElement
<1>5. IsFiniteSet(A) BY <1>2, <1>4, FS_Subset
<1>6. SetToSeq(A) \in Seq(A) /\ A \subseteq QuietSteps BY <1>1, <1>2, <1>5, SetToSeqIs
<1>7. SetToSeq(A) \in Seq(QuietSteps) BY <1>6
<1> QED BY <1>7 DEF A

LEMMA ModeStepsAre ==
  ASSUME NEW f \in Clients, NEW old, NEW new
  PROVE  ModeSteps(f, old, new) \in Seq(QuietSteps)
<1>1. PowerReferenceTypes(old) \ PowerReferenceTypes(new) \subseteq {"CardEmulation", "StealthListen"}
      /\ PowerReferenceTypes(new) \ PowerReferenceTypes(old) \subseteq {"CardEmulation", "StealthListen"}
  BY DEF PowerReferenceTypes
<1> DEFINE l == SetToSeq({Step("FdoRemove", f, type) : type \in PowerReferenceTypes(old) \ PowerReferenceTypes(new)})
           r == SetToSeq({Step("FdoAdd", f, type) : type \in PowerReferenceTypes(new) \ PowerReferenceTypes(old)})
<1>2. l \in Seq(QuietSteps) BY <1>1, TypeSteps
<1>3. r \in Seq(QuietSteps) BY <1>1, TypeSteps
<1>4. ModeSteps(f, old, new) = l \o r BY DEF ModeSteps
<1> HIDE DEF l, r
<1> QED BY <1>2, <1>3, <1>4

LEMMA PowerStepsAre ==
  ASSUME NEW f \in Clients, NEW old, NEW new
  PROVE  PowerSteps(f, old, new) \in Seq(QuietSteps)
<1>1. PowerSteps(f, old, new) \in {<<>>, <<Step("FdoAdd", f, "ESe")>>, <<Step("FdoRemove", f, "ESe")>>}
  BY DEF PowerSteps
<1>2. Step("FdoAdd", f, "ESe") \in QuietSteps /\ Step("FdoRemove", f, "ESe") \in QuietSteps
  BY ElementStep3, TypeIn DEF ReferenceTypes
<1> DEFINE a == Step("FdoAdd", f, "ESe")
           b == Step("FdoRemove", f, "ESe")
<1>3. PowerSteps(f, old, new) \in {<<>>, <<a>>, <<b>>} /\ a \in QuietSteps /\ b \in QuietSteps
  BY <1>1, <1>2
<1> HIDE DEF a, b
<1>4. <<>> \in Seq(QuietSteps) /\ <<a>> \in Seq(QuietSteps) /\ <<b>> \in Seq(QuietSteps) BY <1>3
<1> QED BY <1>3, <1>4

LEMMA UpdateFine ==
  ASSUME NEW e, Sound(e), NEW se, NEW settings, NEW S, NEW steps \in Seq(S)
  PROVE  Fine(e, UpdateSEActivationMode(e, se, settings, steps), S)
<1> DEFINE g == [e EXCEPT !.settings[se] = settings]
<1>1. DOMAIN g = DOMAIN e /\ \A k \in Fields : g[k] = e[k] BY DEF Sound, Fields
<1>2. Good(e, g) BY <1>1, Untouched
<1>3. UpdateSEActivationMode(e, se, settings, steps) = OrFails(e, Then(g, steps))
  BY DEF UpdateSEActivationMode
<1> HIDE DEF g
<1> QED BY <1>2, <1>3, FineThen, FineOrFails

LEMMA CrossingGood ==
  ASSUME NEW e, Sound(e), NEW f
  PROVE  Good(e, Crossing(e, f))
<1> DEFINE g == [e EXCEPT !.crossed = TRUE]
<1>1. DOMAIN g = DOMAIN e /\ \A k \in Fields : g[k] = e[k] BY DEF Sound, Fields
<1>2. Good(e, g) /\ Good(e, e) BY <1>1, Untouched, GoodSelf
<1>3. Crossing(e, f) \in {g, e} BY DEF Crossing
<1> QED BY <1>2, <1>3

LEMMA RemoveManagerFine ==
  ASSUME NEW e, Sound(e), NEW f \in Clients
  PROVE  Fine(e, RemoveManager(e, f), QuietSteps)
<1> DEFINE g == [e EXCEPT !.SEManager = None]
           A == {Step("GetPowerSettings", f, se) : se \in SecureElements}
           p == Step("GetSecureElementList", f, None)
<1>1. DOMAIN g = DOMAIN e /\ \A k \in Fields : g[k] = e[k] BY DEF Sound, Fields
<1>2. Good(e, g) /\ Good(e, e) BY <1>1, Untouched, GoodSelf
<1>3. \A se \in SecureElements : se \in Args BY DEF Args
<1>4. A \subseteq QuietSteps
  <2>1. \A se \in SecureElements : Step("GetPowerSettings", f, se) \in QuietSteps
    BY <1>3, ElementStep3
  <2> QED BY <2>1
<1>5. IsFiniteSet(A)
  <2>1. PICK n \in Nat : ExistsSurjection(1 .. n, SecureElements)
    BY ElementsAssumption, FS_NatSurjection
  <2>2. PICK m : m \in Surjection(1 .. n, SecureElements) BY <2>1 DEF ExistsSurjection
  <2> DEFINE q == [i \in 1 .. n |-> Step("GetPowerSettings", f, m[i])]
  <2>3. /\ \A i \in 1 .. n : m[i] \in SecureElements
        /\ \A se \in SecureElements : \E i \in 1 .. n : m[i] = se
    BY <2>2 DEF Surjection
  <2>4. q \in Surjection(1 .. n, A) BY <2>3 DEF Surjection
  <2>5. ExistsSurjection(1 .. n, A) BY <2>4 DEF ExistsSurjection
  <2> HIDE DEF A
  <2> QED BY <2>5, FS_NatSurjection
<1>6. p \in QuietSteps BY ElementStep3, NoneIn
<1>7. RemoveManager(e, f) = IF e.SEManager # f THEN Fails(e) ELSE Then(g, <<p>> \o SetToSeq(A))
  BY DEF RemoveManager
<1> HIDE DEF A, p, g
<1>8. SetToSeq(A) \in Seq(A) BY <1>5, SetToSeqIs
<1>9. SetToSeq(A) \in Seq(QuietSteps) BY <1>4, <1>8
<1>10. <<p>> \o SetToSeq(A) \in Seq(QuietSteps) BY <1>6, <1>9
<1> QED BY <1>2, <1>7, <1>10, FineThen, FineDone

LEMMA ModeCallIs ==
  ASSUME NEW f \in Clients, NEW se \in Args, NEW mode \in Args
  PROVE  /\ ModeCall(f, se, mode) \in Seq(QuietSteps) \ {<<>>}
         /\ PowerCall(f, se, mode) \in Seq(QuietSteps) \ {<<>>}
<1>1. /\ Step("ValidateCardEmulationState", f, se) \in QuietSteps
      /\ StepTo("SetCardEmulationMode", f, se, mode) \in QuietSteps
      /\ StepTo("SetPowerMode", f, se, mode) \in QuietSteps
  BY ElementStep, ElementStep3
<1> QED BY <1>1 DEF ModeCall, PowerCall

LEMMA TurnOffFine ==
  ASSUME NEW e, Sound(e), NEW f \in Clients, NEW se \in Args
  PROVE  Fine(e, TurnOff(e, f, se), QuietSteps)
<1> DEFINE a == ModeCall(f, se, "Off")
           b == PowerCall(f, se, "AllowOff")
           l == IF e.settings[se].EmulationMode = "Off" THEN <<>> ELSE <<a>>
           r == IF e.settings[se].ForcePowerOn THEN <<b>> ELSE <<>>
           T == Seq(QuietSteps) \ {<<>>}
<1>1. "Off" \in Args /\ "AllowOff" \in Args BY DEF Args, Modes
<1>2. a \in T /\ b \in T BY <1>1, ModeCallIs
<1>3. TurnOff(e, f, se) = Calling(e, l \o r) BY DEF TurnOff
<1> HIDE DEF a, b, T
<1>4. l \in Seq(T) /\ r \in Seq(T) BY <1>2
<1> HIDE DEF l, r
<1>5. l \o r \in Seq(T) BY <1>4
<1>6. l \o r \in CallsOf(QuietSteps) BY <1>5 DEF CallsOf, T
<1> QED BY <1>3, <1>6, FineCalling, GoodSelf

LEMMA SESectionFine ==
  ASSUME NEW e, Sound(e), NEW s \in SESteps, NEW f \in Clients, NEW x \in Args, NEW v \in Args
  PROVE  Fine(e, SESection(e, s, f, x, v), QuietSteps)
<1> DEFINE R == SESection(e, s, f, x, v)
           S == QuietSteps
           c == Crossing(e, f)
<1> SUFFICES Fine(e, R, S) OBVIOUS
<1>c. Good(e, c) /\ Sound(c) BY CrossingGood DEF Good, Steady
<1>1. ASSUME s \in {"ValidateCardEmulationState", "GetSecureElementList"} PROVE Fine(e, R, S)
  <2>1. R = OrFails(e, Done(e)) BY <1>1 DEF SESection
  <2> QED BY <2>1, FineOrFails, FineDone, GoodSelf
<1>2. ASSUME s = "SetCardEmulationMode" PROVE Fine(e, R, S)
  <2> DEFINE new == [c.settings[x] EXCEPT !.EmulationMode = v]
             steps == ModeSteps(f, c.settings[x].EmulationMode, v)
  <2>1. R = SetCardEmulationMode(c, f, x, v) BY <1>2 DEF SESection
  <2>2. R = UpdateSEActivationMode(c, x, new, steps) BY <2>1 DEF SetCardEmulationMode
  <2>3. steps \in Seq(S) BY ModeStepsAre
  <2> HIDE DEF new, steps
  <2> QED BY <1>c, <2>2, <2>3, UpdateFine, FineFrom
<1>3. ASSUME s = "SetPowerMode" PROVE Fine(e, R, S)
  <2> DEFINE force == v = "On"
             new == [c.settings[x] EXCEPT !.ForcePowerOn = force]
             steps == PowerSteps(f, c.settings[x].ForcePowerOn, force)
  <2>1. R = SetPowerMode(c, f, x, force) BY <1>3 DEF SESection
  <2>2. R = UpdateSEActivationMode(c, x, new, steps) BY <2>1 DEF SetPowerMode
  <2>3. steps \in Seq(S) BY PowerStepsAre
  <2> HIDE DEF new, steps
  <2> QED BY <1>c, <2>2, <2>3, UpdateFine, FineFrom
<1>4. ASSUME s = "AddManager" PROVE Fine(e, R, S)
  <2> DEFINE g == [e EXCEPT !.SEManager = f]
  <2>1. DOMAIN g = DOMAIN e /\ \A k \in Fields : g[k] = e[k] BY DEF Sound, Fields
  <2>2. Good(e, g) BY <2>1, Untouched
  <2>3. R = IF e.SEManager # None THEN Fails(e) ELSE Done(g) BY <1>4 DEF SESection, AddManager
  <2> HIDE DEF g
  <2> QED BY <2>2, <2>3, FineDone, GoodSelf
<1>5. ASSUME s = "RemoveManager" PROVE Fine(e, R, S)
  <2>1. R = RemoveManager(e, f) BY <1>5 DEF SESection
  <2> QED BY <2>1, RemoveManagerFine
<1>6. ASSUME s = "GetPowerSettings" PROVE Fine(e, R, S)
  <2>1. R = TurnOff(e, f, x) BY <1>6 DEF SESection
  <2> QED BY <2>1, TurnOffFine
<1>7. ASSUME s \in {"AddSubscriber", "RemoveSubscriber"} PROVE Fine(e, R, S)
  <2> DEFINE g == [e EXCEPT !.subscribers = @ \cup {f}]
             h == [e EXCEPT !.subscribers = @ \ {f}]
  <2>1. DOMAIN g = DOMAIN e /\ \A k \in Fields : g[k] = e[k] BY DEF Sound, Fields
  <2>2. DOMAIN h = DOMAIN e /\ \A k \in Fields : h[k] = e[k] BY DEF Sound, Fields
  <2>3. R \in {Done(g), Done(h)} BY <1>7 DEF SESection, AddSubscriber, RemoveSubscriber
  <2> HIDE DEF g, h
  <2>4. Good(e, g) /\ Good(e, h) BY <2>1, <2>2, Untouched
  <2> QED BY <2>3, <2>4, FineDone
<1> QED BY <1>1, <1>2, <1>3, <1>4, <1>5, <1>6, <1>7 DEF SESteps

(***************************************************************************)
(* The readers and their dispatchers.                                      *)
(***************************************************************************)
LEMMA ProximityStep ==
  ASSUME NEW s \in {"FileAdd", "FileRemove"}, NEW names, s \in names, NEW f \in Clients
  PROVE  Step(s, f, "Proximity") \in StepsOf(names)
  BY PlainStep3, TypeIn DEF ReferenceTypes, DispatcherSteps

LEMMA GiveUpPowerIs ==
  ASSUME NEW f \in Clients, NEW x \in Dispatchers, NEW names, "FileRemove" \in names
  PROVE  GiveUpPower(f, x) \in CallsOf(StepsOf(names))
<1> DEFINE call == <<Step("FileRemove", f, "Proximity")>>
<1>1. Step("FileRemove", f, "Proximity") \in StepsOf(names) BY ProximityStep
<1>2. call \in Seq(StepsOf(names)) /\ call # <<>> BY <1>1
<1>3. GiveUpPower(f, x) = <<call>> \/ GiveUpPower(f, x) = <<>> BY DEF GiveUpPower
<1> HIDE DEF call
<1>4. <<call>> \in CallsOf(StepsOf(names)) BY <1>2, CallOf
<1>5. <<>> \in CallsOf(StepsOf(names)) BY DEF CallsOf
<1> QED BY <1>3, <1>4, <1>5

LEMMA SetRequestFine ==
  ASSUME NEW e, Sound(e), NEW f \in Clients, NEW x \in Dispatchers, NEW n \in Known
  PROVE  Fine(e, SetRequest(e, f, x, n), QuietSteps)
<1> DEFINE a == Step("FileAdd", f, "Proximity")
           m == DispatcherStep("MarkCancelable", f, x, n)
           w == DispatcherStep("Exchange", f, x, n)
           l == IF KeepsRadioOn(x) THEN <<a>> ELSE <<>>
<1>1. {"FileAdd", "MarkCancelable", "Exchange"} \subseteq QuietNames
      /\ {"MarkCancelable", "Exchange"} \subseteq DispatcherSteps
  BY DEF QuietNames, Marked, FileSteps, DispatcherSteps
<1>2. a \in QuietSteps BY <1>1, ProximityStep DEF QuietSteps
<1>3. m \in QuietSteps /\ w \in QuietSteps BY <1>1, PresenceStep DEF QuietSteps
<1>4. SetRequest(e, f, x, n) =
        IF e.CurrentRequest[x] # NoCurrent THEN Fails(e) ELSE Then(e, l \o <<m, w>>)
  BY DEF SetRequest
<1> HIDE DEF a, m, w
<1>5. l \in Seq(QuietSteps) /\ <<m, w>> \in Seq(QuietSteps) BY <1>2, <1>3
<1> HIDE DEF l
<1>6. l \o <<m, w>> \in Seq(QuietSteps) BY <1>5
<1> QED BY <1>4, <1>6, FineThen, FineDone, GoodSelf

LEMMA MarkFine ==
  ASSUME NEW e, Sound(e), NEW f \in Clients, NEW x \in Dispatchers, NEW n \in Known
  PROVE  Fine(e, MarkCancelable(e, f, x, n), QuietSteps)
<1> DEFINE g == [e EXCEPT !.request[x][n] = [f |-> f, state |-> "marked"]]
           h == [e EXCEPT !.faults = @ - 1]
           o == {Outcome(h, FALSE, <<>>, GiveUpPower(f, x))}
<1>1. DOMAIN g = DOMAIN e /\ \A k \in Fields : g[k] = e[k] BY DEF Sound, Fields
<1>2. DOMAIN h = DOMAIN e /\ \A k \in Fields : h[k] = e[k] BY DEF Sound, Fields
<1>3. MarkCancelable(e, f, x, n) = Done(g) \cup IF e.faults = 0 THEN {} ELSE o BY DEF MarkCancelable
<1> HIDE DEF g, h
<1>4. Good(e, g) /\ Good(e, h) BY <1>1, <1>2, Untouched
<1>5. "FileRemove" \in QuietNames BY DEF QuietNames, Marked, FileSteps
<1>6. <<>> \in Seq(QuietSteps) /\ GiveUpPower(f, x) \in CallsOf(QuietSteps)
  BY <1>5, GiveUpPowerIs DEF QuietSteps
<1>7. Fine(e, o, QuietSteps) BY <1>4, <1>6, OneOutcome
<1>8. Fine(e, Done(g), QuietSteps) BY <1>4, FineDone
<1> HIDE DEF o
<1> QED BY <1>3, <1>7, <1>8, FineCup, FineEmpty

LEMMA CurrentGood ==
  ASSUME NEW e, Sound(e), NEW x \in Dispatchers, NEW c \in Currents, NEW g, DOMAIN g = DOMAIN e,
         \A k \in Fields \ {"CurrentRequest"} : g[k] = e[k],
         g.CurrentRequest = [e.CurrentRequest EXCEPT ![x] = c]
  PROVE  Good(e, g)
<1>1. \A y \in Dispatchers : g.CurrentRequest[y] \in Currents BY DEF Sound
<1>2. g.PubsList \in Seq(Publishers) BY DEF Fields, Sound
<1> QED BY <1>1, <1>2, UntouchedBut

LEMMA ExchangeFine ==
  ASSUME NEW e, Sound(e), NEW f \in Clients, NEW x \in Dispatchers, NEW n \in Known
  PROVE  Fine(e, Exchange(e, f, x, n), QuietSteps)
<1> DEFINE m == e.missed \/ Holds(e, x)
           l == e.lost \/ e.request[x][n].state = "canceled"
           c == [f |-> f, n |-> n]
           g == [e EXCEPT !.CurrentRequest[x] = c, !.missed = m, !.lost = l]
           u == Unmarked(e.request[x][n])
           h == [e EXCEPT !.request[x][n] = u]
           o == {Outcome(h, FALSE, <<>>, GiveUpPower(f, x))}
<1>1. Exchange(e, f, x, n) = IF e.CurrentRequest[x] = NoCurrent THEN Done(g) ELSE o
  BY DEF Exchange, BecomesCurrent
<1> HIDE DEF m, l, u
<1>2. c \in Currents BY DEF Currents
<1> HIDE DEF c
<1>3. /\ DOMAIN g = DOMAIN e /\ \A k \in Fields \ {"CurrentRequest"} : g[k] = e[k]
      /\ g.CurrentRequest = [e.CurrentRequest EXCEPT ![x] = c]
  BY DEF Sound, Fields
<1>4. DOMAIN h = DOMAIN e /\ \A k \in Fields : h[k] = e[k] BY DEF Sound, Fields
<1> HIDE DEF g, h
<1>5. Good(e, g) BY <1>2, <1>3, CurrentGood
<1>6. Good(e, h) BY <1>4, Untouched
<1>7. "FileRemove" \in QuietNames BY DEF QuietNames, Marked, FileSteps
<1>8. <<>> \in Seq(QuietSteps) /\ GiveUpPower(f, x) \in CallsOf(QuietSteps)
  BY <1>7, GiveUpPowerIs DEF QuietSteps
<1>9. Fine(e, o, QuietSteps) BY <1>6, <1>8, OneOutcome
<1>10. Fine(e, Done(g), QuietSteps) BY <1>5, FineDone
<1> HIDE DEF o
<1> QED BY <1>1, <1>9, <1>10

LEMMA CompleteRequestFine ==
  ASSUME NEW e, Sound(e), NEW x \in Dispatchers, NEW names, {"FileRemove", "Complete"} \subseteq names
  PROVE  Fine(e, CompleteRequest(e, x), StepsOf(names))
<1> DEFINE g == [e EXCEPT !.CurrentRequest[x] = NoCurrent]
           c == e.CurrentRequest[x]
           call == <<DispatcherStep("Complete", c.f, x, c.n)>>
           calls == GiveUpPower(c.f, x) \o <<call>>
<1>1. CompleteRequest(e, x) = IF c = NoCurrent THEN Done(e) ELSE Calling(g, calls)
  BY DEF CompleteRequest
<1>2. c.f \in Clients /\ c.n \in Known
  <2>1. c \in Currents BY DEF Sound
  <2> QED BY <2>1 DEF Currents
<1>3. /\ DOMAIN g = DOMAIN e /\ \A k \in Fields \ {"CurrentRequest"} : g[k] = e[k]
      /\ g.CurrentRequest = [e.CurrentRequest EXCEPT ![x] = NoCurrent]
  BY DEF Sound, Fields
<1> HIDE DEF g, c
<1>4. NoCurrent \in Currents BY NoneIn DEF NoCurrent, Currents, Known
<1>6. Good(e, g) BY <1>3, <1>4, CurrentGood
<1>7. DispatcherStep("Complete", c.f, x, c.n) \in StepsOf(names) BY <1>2, PresenceStep DEF DispatcherSteps
<1>8. call \in Seq(StepsOf(names)) /\ call # <<>> BY <1>7
<1> HIDE DEF call
<1>9. <<call>> \in CallsOf(StepsOf(names)) BY <1>8, CallOf
<1>10. GiveUpPower(c.f, x) \in CallsOf(StepsOf(names)) BY <1>2, GiveUpPowerIs
<1>11. calls \in CallsOf(StepsOf(names)) BY <1>9, <1>10 DEF CallsOf
<1> HIDE DEF calls
<1> QED BY <1>1, <1>6, <1>11, FineCalling, FineDone, GoodSelf

LEMMA CompleteFine ==
  ASSUME NEW e, Sound(e), NEW x, NEW n, NEW S
  PROVE  Fine(e, Complete(e, x, n), S)
<1> DEFINE u == Unmarked(e.request[x][n])
           g == [e EXCEPT !.request[x][n] = u]
<1>1. DOMAIN g = DOMAIN e /\ \A k \in Fields : g[k] = e[k] BY DEF Sound, Fields
<1>2. Good(e, g) BY <1>1, Untouched
<1>3. Complete(e, x, n) = Done(g) BY DEF Complete
<1> HIDE DEF g, u
<1> QED BY <1>2, <1>3, FineDone

LEMMA DispatcherSectionFine ==
  ASSUME NEW e, Sound(e), NEW s \in DispatcherSteps, NEW f \in Clients, NEW x \in Dispatchers, NEW n \in Known
  PROVE  Fine(e, DispatcherSection(e, s, f, x, n), QuietSteps)
<1> DEFINE R == DispatcherSection(e, s, f, x, n)
           S == QuietSteps
<1> SUFFICES Fine(e, R, S) OBVIOUS
<1>a. {"FileRemove", "Complete", "SetRequest"} \subseteq QuietNames
  BY DEF QuietNames, Marked, FileSteps, DispatcherSteps
<1>1. ASSUME s = "SetRequest" PROVE Fine(e, R, S)
  <2>1. R = SetRequest(e, f, x, n) BY <1>1 DEF DispatcherSection
  <2> QED BY <2>1, SetRequestFine
<1>2. ASSUME s = "MarkCancelable" PROVE Fine(e, R, S)
  <2>1. R = MarkCancelable(e, f, x, n) BY <1>2 DEF DispatcherSection
  <2> QED BY <2>1, MarkFine
<1>3. ASSUME s = "Exchange" PROVE Fine(e, R, S)
  <2>1. R = Exchange(e, f, x, n) BY <1>3 DEF DispatcherSection
  <2> QED BY <2>1, ExchangeFine
<1>4. ASSUME s = "CompleteRequest" PROVE Fine(e, R, S)
  <2>1. R = CompleteRequest(e, x) BY <1>4 DEF DispatcherSection
  <2> QED BY <1>a, <2>1, CompleteRequestFine DEF QuietSteps
<1>5. ASSUME s = "RequestCanceled" PROVE Fine(e, R, S)
  <2> DEFINE q == [e.request[x][n] EXCEPT !.state = "canceled"]
             u == IF e.request[x][n].f = None THEN NoRequest ELSE q
             g == [e EXCEPT !.request[x][n] = u]
             h == [e EXCEPT !.request[x][n].state = "canceled"]
  <2>1. R = RequestCanceled(e, x, n) BY <1>5 DEF DispatcherSection
  <2>2. R = IF e.CurrentRequest[x].n = n THEN CompleteRequest(h, x) ELSE Done(g)
    BY <2>1 DEF RequestCanceled
  <2> HIDE DEF q, u
  <2>3. DOMAIN g = DOMAIN e /\ \A k \in Fields : g[k] = e[k] BY DEF Sound, Fields
  <2>4. DOMAIN h = DOMAIN e /\ \A k \in Fields : h[k] = e[k] BY DEF Sound, Fields
  <2> HIDE DEF g, h
  <2>5. Good(e, g) /\ Good(e, h) BY <2>3, <2>4, Untouched
  <2>6. Fine(h, CompleteRequest(h, x), S)
    BY <1>a, <2>5, GoodSound, CompleteRequestFine DEF QuietSteps
  <2>7. Fine(e, CompleteRequest(h, x), S) BY <2>5, <2>6, FineFrom
  <2> QED BY <2>2, <2>5, <2>7, FineDone
<1>6. ASSUME s = "Complete" PROVE Fine(e, R, S)
  <2>1. R = Complete(e, x, n) BY <1>6 DEF DispatcherSection
  <2> QED BY <2>1, CompleteFine
<1>7. ASSUME s = "DispatchPresence" PROVE Fine(e, R, S)
  <2> DEFINE p == DispatcherStep("SetRequest", f, x, n)
  <2>1. R = IF Holds(e, x) THEN Done(e) ELSE Then(e, <<p>>)
    BY <1>7 DEF DispatcherSection, DispatchPresence
  <2>2. p \in S BY <1>a, PresenceStep DEF QuietSteps, DispatcherSteps
  <2> HIDE DEF p
  <2>3. <<p>> \in Seq(S) BY <2>2
  <2> QED BY <2>1, <2>3, FineDone, FineThen, GoodSelf
<1> QED BY <1>1, <1>2, <1>3, <1>4, <1>5, <1>6, <1>7 DEF DispatcherSteps

LEMMA CompleteStepIs ==
  ASSUME NEW r \in Readers, NEW waits \in Waits, NEW names, "CompleteRequest" \in names
  PROVE  CompleteStep(r, waits) \in StepsOf(names)
<1>1. Dispatcher(r, waits) \in Dispatchers BY DEF Dispatcher, Dispatchers, Waits
<1> QED BY <1>1, PresenceStep, NoneIn DEF CompleteStep, DispatcherSteps, Known

LEMMA ReferenceReleasedGood ==
  ASSUME NEW e, Sound(e)
  PROVE  Good(e, ReferenceReleased(e))
<1> DEFINE g == [e EXCEPT !.ClientPowerReferenceHeld = FALSE]
           R == FileRemoveReference(g, e.CurrentClient["sc"], "Proximity")
<1>1. DOMAIN g = DOMAIN e /\ \A k \in Fields : g[k] = e[k] BY DEF Sound, Fields
<1>2. ReferenceReleased(e) = IF ~e.ClientPowerReferenceHeld THEN e ELSE (CHOOSE r \in R : TRUE).d
  BY DEF ReferenceReleased
<1> HIDE DEF g
<1>3. Good(e, g) /\ Sound(g) BY <1>1, Untouched DEF Good, Steady
<1>4. Fine(g, R, {}) /\ R # {} BY <1>3, FileRemoveFine
<1> HIDE DEF R
<1>5. (CHOOSE r \in R : TRUE) \in R BY <1>4
<1>6. Good(g, (CHOOSE r \in R : TRUE).d) BY <1>4, <1>5 DEF Fine
<1> QED BY <1>2, <1>3, <1>6, GoodThen, GoodSelf

LEMMA ReferenceHeldFine ==
  ASSUME NEW e, Sound(e), NEW S
  PROVE  Fine(e, ReferenceHeld(e), S)
<1> DEFINE R == FileAddReference(e, e.CurrentClient["sc"], "Proximity")
           Q == {[r EXCEPT !.d.ClientPowerReferenceHeld = r.ok] : r \in R}
<1>1. ReferenceHeld(e) = Done(e) \/ ReferenceHeld(e) = Q BY DEF ReferenceHeld
<1>2. Fine(e, R, S) BY FileAddFine
<1> HIDE DEF R
<1>3. ASSUME NEW q \in Q
      PROVE  \E r \in R : /\ q = Outcome(q.d, r.ok, q.steps, r.calls)
                          /\ Good(r.d, q.d) /\ q.steps \in Seq(S)
  <2>1. PICK r \in R : q = [r EXCEPT !.d.ClientPowerReferenceHeld = r.ok] OBVIOUS
  <2> DEFINE o == r.ok
             h == [r.d EXCEPT !.ClientPowerReferenceHeld = o]
  <2>2. r = Outcome(r.d, r.ok, r.steps, r.calls) /\ Good(e, r.d) /\ r.steps \in Seq(S)
    BY <1>2 DEF Fine
  <2>3. q = Outcome(h, r.ok, r.steps, r.calls) BY <2>1, <2>2 DEF Outcome
  <2>4. Sound(r.d) BY <2>2 DEF Good, Steady
  <2> HIDE DEF o
  <2>5. DOMAIN h = DOMAIN r.d /\ \A k \in Fields : h[k] = (r.d)[k] BY <2>4 DEF Fields, Sound
  <2>6. Good(r.d, h) BY <2>4, <2>5, Untouched
  <2> HIDE DEF h
  <2> QED BY <2>2, <2>3, <2>6, OutcomeIs
<1> HIDE DEF Q
<1>4. Fine(e, Q, S) BY <1>2, <1>3, FineMap
<1> QED BY <1>1, <1>4, FineDone, GoodSelf

LEMMA EstablishedFine ==
  ASSUME NEW e, Sound(e), NEW names, "CompleteRequest" \in names
  PROVE  Fine(e, HandleSmartCardConnectionEstablished(e), StepsOf(names))
<1> DEFINE S == StepsOf(names)
           n == [e EXCEPT !.SmartCardConnected["sc"] = TRUE]
           f == [n EXCEPT !.missed = TRUE]
           b == n.StorageCard \/ e.card \in StorageCards
           g == [n EXCEPT !.StorageCard = b]
           p == CompleteStep("sc", "present")
           R == ReferenceHeld(g)
           Q == {[r EXCEPT !.steps = <<p>>, !.d.missed = @ \/ ~r.ok] : r \in R}
<1>1. HandleSmartCardConnectionEstablished(e) = IF e.card = "odd" THEN Fails(f) ELSE Q
  BY DEF HandleSmartCardConnectionEstablished
<1>2. DOMAIN f = DOMAIN e /\ \A k \in Fields : f[k] = e[k] BY DEF Sound, Fields
<1> HIDE DEF b
<1>3. DOMAIN g = DOMAIN e /\ \A k \in Fields : g[k] = e[k] BY DEF Sound, Fields
<1> HIDE DEF f, g, n
<1>4. Good(e, f) /\ Good(e, g) /\ Sound(g) BY <1>2, <1>3, Untouched DEF Good, Steady
<1>5. Fine(g, R, S) BY <1>4, ReferenceHeldFine
<1>6. p \in S BY CompleteStepIs DEF Readers, Waits
<1> HIDE DEF R, p, S
<1>7. <<p>> \in Seq(S) BY <1>6
<1>8. ASSUME NEW q \in Q
      PROVE  \E r \in R : /\ q = Outcome(q.d, r.ok, q.steps, r.calls)
                          /\ Good(r.d, q.d) /\ q.steps \in Seq(S)
  <2>1. PICK r \in R : q = [r EXCEPT !.steps = <<p>>, !.d.missed = @ \/ ~r.ok] OBVIOUS
  <2> DEFINE o == r.d.missed \/ ~r.ok
             h == [r.d EXCEPT !.missed = o]
  <2>2. r = Outcome(r.d, r.ok, r.steps, r.calls) /\ Good(g, r.d) BY <1>5 DEF Fine
  <2>3. q = Outcome(h, r.ok, <<p>>, r.calls) BY <2>1, <2>2 DEF Outcome
  <2>4. Sound(r.d) BY <2>2 DEF Good, Steady
  <2> HIDE DEF o
  <2>5. DOMAIN h = DOMAIN r.d /\ \A k \in Fields : h[k] = (r.d)[k] BY <2>4 DEF Fields, Sound
  <2>6. Good(r.d, h) BY <2>4, <2>5, Untouched
  <2> HIDE DEF h
  <2>7. q.d = h /\ q.steps = <<p>> BY <2>3 DEF Outcome
  <2>8. q = Outcome(q.d, r.ok, q.steps, r.calls) BY <2>3, <2>7
  <2> QED BY <1>7, <2>6, <2>7, <2>8
<1> HIDE DEF Q
<1>9. Fine(e, Q, S) BY <1>4, <1>5, <1>8, FineMap, FineFrom
<1>10. Fine(e, Fails(f), S) BY <1>4, FineDone
<1> QED BY <1>1, <1>9, <1>10 DEF S

LEMMA LostFine ==
  ASSUME NEW e, Sound(e), NEW names, "CompleteRequest" \in names
  PROVE  Fine(e, HandleSmartCardConnectionLost(e), StepsOf(names))
<1> DEFINE g == [e EXCEPT !.SmartCardConnected["sc"] = FALSE, !.SessionEstablished = FALSE,
                          !.StorageCard = FALSE, !.gone = TRUE]
           p == CompleteStep("sc", "absent")
<1>1. DOMAIN g = DOMAIN e /\ \A k \in Fields : g[k] = e[k] BY DEF Sound, Fields
<1>2. HandleSmartCardConnectionLost(e) =
        IF ~e.SmartCardConnected["sc"] THEN Fails(e) ELSE Then(ReferenceReleased(g), <<p>>)
  BY DEF HandleSmartCardConnectionLost
<1> HIDE DEF g
<1>3. Good(e, g) /\ Sound(g) BY <1>1, Untouched DEF Good, Steady
<1>4. Good(e, ReferenceReleased(g)) BY <1>3, ReferenceReleasedGood, GoodThen
<1>5. p \in StepsOf(names) BY CompleteStepIs DEF Readers, Waits
<1> HIDE DEF p
<1>6. <<p>> \in Seq(StepsOf(names)) BY <1>5
<1> QED BY <1>2, <1>4, <1>6, FineThen, FineDone, GoodSelf

LEMMA CardStep ==
  ASSUME NEW s \in SCSteps \cup ESESteps, NEW f \in Clients
  PROVE  Step(s, f, None) \in QuietSteps
<1>1. s \in QuietNames /\ s \notin DispatcherSteps \cup {"SetRadioState", "AddClientToList"}
  BY DEF QuietNames, Marked, SCSteps, ESESteps, DispatcherSteps
<1> QED BY <1>1, QuietStep, NoneIn

LEMMA ResetCallIs ==
  ASSUME NEW f \in Clients
  PROVE  ResetCall(f) \in Seq(QuietSteps) /\ ResetCall(f) # <<>>
<1>1. Step("TargetReactivate", f, None) \in QuietSteps /\ Step("SessionOver", f, None) \in QuietSteps
  BY CardStep DEF SCSteps
<1> QED BY <1>1 DEF ResetCall

LEMMA AddClientFine ==
  ASSUME NEW e, Sound(e), NEW f, NEW r, NEW S, NEW steps \in Seq(S)
  PROVE  Fine(e, AddClient(e, f, r, steps), S)
<1> DEFINE g == [e EXCEPT !.CurrentClient[r] = f]
<1>1. DOMAIN g = DOMAIN e /\ \A k \in Fields : g[k] = e[k] BY DEF Sound, Fields
<1>2. AddClient(e, f, r, steps) = IF e.CurrentClient[r] # None THEN Fails(e) ELSE Then(g, steps)
  BY DEF AddClient
<1> HIDE DEF g
<1>3. Good(e, g) BY <1>1, Untouched
<1> QED BY <1>2, <1>3, FineThen, FineDone, GoodSelf

LEMMA RemoveClientFine ==
  ASSUME NEW e, Sound(e), NEW f \in Clients
  PROVE  Fine(e, RemoveClient(e, f), QuietSteps)
<1> DEFINE w == ReferenceReleased(e)
           g == [w EXCEPT !.CurrentClient["sc"] = None]
           calls == IF e.SessionEstablished /\ e.card \notin NdefFormatted THEN <<ResetCall(f)>> ELSE <<>>
<1>1. RemoveClient(e, f) = IF e.CurrentClient["sc"] # f THEN Fails(e) ELSE Calling(g, calls)
  BY DEF RemoveClient
<1>2. Good(e, w) /\ Sound(w) BY ReferenceReleasedGood DEF Good, Steady
<1> HIDE DEF w
<1>3. DOMAIN g = DOMAIN w /\ \A k \in Fields : g[k] = w[k] BY <1>2 DEF Sound, Fields
<1> HIDE DEF g
<1>4. Good(e, g) BY <1>2, <1>3, Untouched, GoodThen
<1>5. <<ResetCall(f)>> \in CallsOf(QuietSteps) /\ <<>> \in CallsOf(QuietSteps)
  BY ResetCallIs, CallOf DEF CallsOf
<1>6. calls \in CallsOf(QuietSteps) BY <1>5
<1> HIDE DEF calls
<1> QED BY <1>1, <1>4, <1>6, FineCalling, FineDone, GoodSelf

(* A change of fields that the invariant is not about *)
LEMMA Apart ==
  ASSUME NEW e, Sound(e), NEW g, DOMAIN g = DOMAIN e, \A k \in Fields : g[k] = e[k], NEW S
  PROVE  Fine(e, Done(g), S) /\ \A steps \in Seq(S) : Fine(e, Then(g, steps), S)
<1>1. Good(e, g) BY Untouched
<1> QED BY <1>1, FineDone, FineThen

LEMMA SCSectionFine ==
  ASSUME NEW e, Sound(e), NEW s \in SCSteps, NEW f \in Clients
  PROVE  Fine(e, SCSection(e, s, f), QuietSteps)
<1> DEFINE R == SCSection(e, s, f)
           S == QuietSteps
<1> SUFFICES Fine(e, R, S) OBVIOUS
<1>a. "CompleteRequest" \in QuietNames BY DEF QuietNames, Marked, DispatcherSteps
<1>b. Good(e, e) BY GoodSelf
<1>c. <<>> \in Seq(S) OBVIOUS
<1>d. \A c \in SCSteps : <<Step(c, f, None)>> \in Seq(S) /\ <<Step(c, None, None)>> \in Seq(S)
  <2> TAKE c \in SCSteps
  <2>1. Step(c, f, None) \in QuietSteps /\ Step(c, None, None) \in QuietSteps BY CardStep, NoneIn
  <2> QED BY <2>1
<1>1. ASSUME s = "SCAddClient" PROVE Fine(e, R, S)
  <2>1. R = AddClient(e, f, "sc", <<>>) BY <1>1 DEF SCSection
  <2> QED BY <1>c, <2>1, AddClientFine
<1>2. ASSUME s = "SCRemoveClient" PROVE Fine(e, R, S)
  <2>1. R = RemoveClient(e, f) BY <1>2 DEF SCSection
  <2> QED BY <2>1, RemoveClientFine
<1>3. ASSUME s = "SCEstablished" PROVE Fine(e, R, S)
  <2>1. R = HandleSmartCardConnectionEstablished(e) BY <1>3 DEF SCSection
  <2> QED BY <1>a, <2>1, EstablishedFine DEF QuietSteps
<1>4. ASSUME s = "SCLost" PROVE Fine(e, R, S)
  <2>1. R = HandleSmartCardConnectionLost(e) BY <1>4 DEF SCSection
  <2> QED BY <1>a, <2>1, LostFine DEF QuietSteps
<1>5. ASSUME s = "DispatchSetPower" PROVE Fine(e, R, S)
  <2>1. R \in {Fails(e), Then(e, ResetCall(f))} BY <1>5 DEF SCSection, DispatchSetPower
  <2> QED BY <1>b, <2>1, ResetCallIs, FineThen, FineDone
<1>6. ASSUME s = "TargetReactivate" PROVE Fine(e, R, S)
  <2> DEFINE g == [e EXCEPT !.used = FALSE, !.asleep = FALSE]
             h == [e EXCEPT !.faults = @ - 1]
  <2>1. DOMAIN g = DOMAIN e /\ \A k \in Fields : g[k] = e[k] BY DEF Sound, Fields
  <2>2. DOMAIN h = DOMAIN e /\ \A k \in Fields : h[k] = e[k] BY DEF Sound, Fields
  <2>3. R = Done(g) \cup IF e.faults = 0 THEN {} ELSE Done(h) BY <1>6 DEF SCSection, TargetReactivate
  <2> HIDE DEF g, h
  <2>4. Fine(e, Done(g), S) /\ Fine(e, Done(h), S) BY <2>1, <2>2, Apart
  <2> QED BY <2>3, <2>4, FineCup, FineEmpty
<1>7. ASSUME s = "SessionOver" PROVE Fine(e, R, S)
  <2> DEFINE b == e.crossed \/ e.CurrentClient["sc"] \notin {f, None}
             g == [e EXCEPT !.SessionEstablished = FALSE, !.crossed = b]
  <2>1. R = Done(g) BY <1>7 DEF SCSection, SessionOver
  <2> HIDE DEF b
  <2>2. DOMAIN g = DOMAIN e /\ \A k \in Fields : g[k] = e[k] BY DEF Sound, Fields
  <2> HIDE DEF g
  <2> QED BY <2>1, <2>2, Apart
<1>8. ASSUME s \in {"DispatchTransmit", "DispatchSwitchProtocol"} PROVE Fine(e, R, S)
  <2> DEFINE g == [e EXCEPT !.SessionEstablished = TRUE]
             h == [e EXCEPT !.SessionEstablished = TRUE, !.gone = FALSE]
             a == <<Step("TransmitRequest", f, None)>>
             b == <<Step("TargetDeactivate", None, None)>>
  <2>1. R \in {Fails(e), Then(h, a), Then(g, b)}
    BY <1>8 DEF SCSection, DispatchTransmit, DispatchSwitchProtocol
  <2>2. \A n \in {g, h} : DOMAIN n = DOMAIN e /\ \A k \in Fields : n[k] = e[k] BY DEF Sound, Fields
  <2>3. a \in Seq(S) /\ b \in Seq(S) BY <1>d DEF SCSteps
  <2> HIDE DEF g, h, a, b
  <2>4. Good(e, g) /\ Good(e, h) BY <2>2, Untouched
  <2> QED BY <1>b, <2>1, <2>3, <2>4, FineThen, FineDone
<1>9. ASSUME s = "TargetDeactivate" PROVE Fine(e, R, S)
  <2> DEFINE g == [e EXCEPT !.asleep = TRUE, !.used = FALSE]
             a == <<Step("TargetActivate", None, None)>>
  <2>1. R \in {Fails(e), OrFails(e, Then(g, a))} BY <1>9 DEF SCSection, TargetDeactivate
  <2>2. DOMAIN g = DOMAIN e /\ \A k \in Fields : g[k] = e[k] BY DEF Sound, Fields
  <2>3. a \in Seq(S) BY <1>d DEF SCSteps
  <2> HIDE DEF g, a
  <2>4. Good(e, g) BY <2>2, Untouched
  <2> QED BY <1>b, <2>1, <2>3, <2>4, FineThen, FineDone, FineOrFails
<1>10. ASSUME s = "TargetActivate" PROVE Fine(e, R, S)
  <2> DEFINE g == [e EXCEPT !.asleep = FALSE]
  <2>1. R = OrFails(e, Done(g)) BY <1>10 DEF SCSection, TargetActivate
  <2>2. DOMAIN g = DOMAIN e /\ \A k \in Fields : g[k] = e[k] BY DEF Sound, Fields
  <2> HIDE DEF g
  <2> QED BY <2>1, <2>2, Apart, FineOrFails
<1>11. ASSUME s = "TransmitRequest" PROVE Fine(e, R, S)
  <2> DEFINE a == <<Step("TransmitRawData", f, None)>>
  <2>1. R \in {Fails(e), OrFails(e, Then(e, a))} BY <1>11 DEF SCSection, TransmitRequest
  <2>2. a \in Seq(S) BY <1>d DEF SCSteps
  <2> HIDE DEF a
  <2> QED BY <1>b, <2>1, <2>2, FineThen, FineDone, FineOrFails
<1>12. ASSUME s = "TransmitRawData" PROVE Fine(e, R, S)
  <2> DEFINE b == e.stray \/ e.gone
             g == [e EXCEPT !.used = TRUE, !.stray = b]
  <2>1. R \in {Fails(e), Done(g)} BY <1>12 DEF SCSection, TransmitRawData
  <2> HIDE DEF b
  <2>2. DOMAIN g = DOMAIN e /\ \A k \in Fields : g[k] = e[k] BY DEF Sound, Fields
  <2> HIDE DEF g
  <2> QED BY <1>b, <2>1, <2>2, Apart, FineDone
<1> QED BY <1>1, <1>2, <1>3, <1>4, <1>5, <1>6, <1>7, <1>8, <1>9, <1>10, <1>11, <1>12 DEF SCSteps

LEMMA ESEAddClientFine ==
  ASSUME NEW e, Sound(e), NEW f \in Clients
  PROVE  Fine(e, ESEAddClient(e, f), QuietSteps)
<1> DEFINE S == QuietSteps
           b == e.crossed \/ \E g \in WithRole({"ese"}) : e.file[g] = "closing"
           g == [e EXCEPT !.crossed = b]
           p1 == Step("StopIdle", f, None)
           p2 == StepTo("SetCardWiredMode", f, "ese", "On")
           p3 == Step("ESEReset", f, None)
           p4 == Step("ESEEstablished", f, None)
           p5 == CompleteStep("ese", "present")
           p6 == Step("ResumeIdle", f, None)
           l == IF g.HasFirstResetRun THEN <<>> ELSE <<p3>>
           l0 == IF e.HasFirstResetRun THEN <<>> ELSE <<p3>>
           steps == <<p1, p2>> \o l0 \o <<p4, p5, p6>>
<1>1. ESEAddClient(e, f) = AddClient(g, f, "ese", steps) BY DEF ESEAddClient
<1> HIDE DEF b
<1>2. DOMAIN g = DOMAIN e /\ \A k \in Fields : g[k] = e[k] BY DEF Sound, Fields
<1> HIDE DEF g
<1>3. Good(e, g) /\ Sound(g) BY <1>2, Untouched DEF Good, Steady
<1>4. p1 \in S /\ p6 \in S BY QuietStep, NoneIn DEF QuietNames, Marked, FileSteps, DispatcherSteps
<1>5. p2 \in S
  <2>1. "ese" \in Args /\ "On" \in Args BY DEF Args, Readers, Modes
  <2> QED BY <2>1, ElementStep
<1>6. p3 \in S /\ p4 \in S BY CardStep DEF ESESteps
<1>7. p5 \in S
  <2>1. "CompleteRequest" \in QuietNames BY DEF QuietNames, Marked, DispatcherSteps
  <2> QED BY <2>1, CompleteStepIs DEF Readers, Waits, QuietSteps
<1> HIDE DEF p1, p2, p3, p4, p5, p6, S
<1>8. <<p1, p2>> \in Seq(S) /\ l0 \in Seq(S) /\ <<p4, p5, p6>> \in Seq(S) BY <1>4, <1>5, <1>6, <1>7
<1> HIDE DEF l0
<1>9. steps \in Seq(S) BY <1>8
<1> HIDE DEF steps
<1>10. Fine(g, AddClient(g, f, "ese", steps), S) BY <1>3, <1>9, AddClientFine
<1> QED BY <1>1, <1>3, <1>10, FineFrom DEF S

LEMMA ESERemoveClientFine ==
  ASSUME NEW e, Sound(e), NEW f \in Clients
  PROVE  Fine(e, ESERemoveClient(e, f), QuietSteps)
<1> DEFINE S == QuietSteps
           g == [e EXCEPT !.CurrentClient["ese"] = None]
           a == <<StepTo("SetCardWiredMode", f, "ese", "Off")>>
           b == <<Step("ESELost", f, None)>>
           T == Seq(S) \ {<<>>}
<1>1. ESERemoveClient(e, f) = IF e.CurrentClient["ese"] # f THEN Fails(e) ELSE Calling(g, <<a, b>>)
  BY DEF ESERemoveClient
<1>2. DOMAIN g = DOMAIN e /\ \A k \in Fields : g[k] = e[k] BY DEF Sound, Fields
<1>3. "ese" \in Args /\ "Off" \in Args BY DEF Args, Readers, Modes
<1>4. StepTo("SetCardWiredMode", f, "ese", "Off") \in S BY <1>3, ElementStep
<1>5. Step("ESELost", f, None) \in S BY CardStep DEF ESESteps
<1>6. a \in T /\ b \in T BY <1>4, <1>5
<1> HIDE DEF a, b, T, g
<1>7. <<a, b>> \in Seq(T) BY <1>6
<1>8. Good(e, g) BY <1>2, Untouched
<1> QED BY <1>1, <1>7, <1>8, FineCalling, FineDone, GoodSelf DEF CallsOf, T

LEMMA ESESectionFine ==
  ASSUME NEW e, Sound(e), NEW s \in ESESteps, NEW f \in Clients, NEW x \in Args, NEW v \in Args
  PROVE  Fine(e, ESESection(e, s, f, x, v), QuietSteps)
<1> DEFINE R == ESESection(e, s, f, x, v)
           S == QuietSteps
<1> SUFFICES Fine(e, R, S) OBVIOUS
<1>b. Good(e, e) BY GoodSelf
<1>1. ASSUME s = "ESEAddClient" PROVE Fine(e, R, S)
  <2>1. R = ESEAddClient(e, f) BY <1>1 DEF ESESection
  <2> QED BY <2>1, ESEAddClientFine
<1>2. ASSUME s = "ESERemoveClient" PROVE Fine(e, R, S)
  <2>1. R = ESERemoveClient(e, f) BY <1>2 DEF ESESection
  <2> QED BY <2>1, ESERemoveClientFine
<1>3. ASSUME s = "ESEEstablished" PROVE Fine(e, R, S)
  <2> DEFINE g == [e EXCEPT !.SmartCardConnected["ese"] = TRUE]
  <2>1. R = Done(g) BY <1>3 DEF ESESection, ESEEstablished
  <2>2. DOMAIN g = DOMAIN e /\ \A k \in Fields : g[k] = e[k] BY DEF Sound, Fields
  <2> HIDE DEF g
  <2> QED BY <2>1, <2>2, Apart
<1>4. ASSUME s = "ESELost" PROVE Fine(e, R, S)
  <2> DEFINE g == [e EXCEPT !.SmartCardConnected["ese"] = FALSE]
             p == CompleteStep("ese", "absent")
  <2>1. R \in {Fails(e), Then(g, <<p>>)} BY <1>4 DEF ESESection, ESELost
  <2>2. DOMAIN g = DOMAIN e /\ \A k \in Fields : g[k] = e[k] BY DEF Sound, Fields
  <2>3. p \in S
    <3>1. "CompleteRequest" \in QuietNames BY DEF QuietNames, Marked, DispatcherSteps
    <3> QED BY <3>1, CompleteStepIs DEF Readers, Waits, QuietSteps
  <2> HIDE DEF g, p
  <2>4. Good(e, g) /\ <<p>> \in Seq(S) BY <2>2, <2>3, Untouched
  <2> QED BY <1>b, <2>1, <2>4, FineThen, FineDone
<1>5. ASSUME s = "ESEReset" PROVE Fine(e, R, S)
  <2> DEFINE g == [e EXCEPT !.HasFirstResetRun = TRUE]
  <2>1. R = OrFails(e, Done(g)) BY <1>5 DEF ESESection, ESEReset
  <2>2. DOMAIN g = DOMAIN e /\ \A k \in Fields : g[k] = e[k] BY DEF Sound, Fields
  <2> HIDE DEF g
  <2> QED BY <2>1, <2>2, Apart, FineOrFails
<1>6. ASSUME s = "SetCardWiredMode" PROVE Fine(e, R, S)
  <2> DEFINE w == v = "On"
             new == [e.settings[x] EXCEPT !.WiredMode = w]
  <2>1. R = UpdateSEActivationMode(e, x, new, <<>>) BY <1>6 DEF ESESection, SetCardWiredMode
  <2>2. <<>> \in Seq(S) OBVIOUS
  <2> HIDE DEF new
  <2> QED BY <2>1, <2>2, UpdateFine
<1>7. ASSUME s = "ESEDispatchSetPower" PROVE Fine(e, R, S)
  <2> DEFINE p == Step("ESEReset", f, None)
  <2>1. R \in {Fails(e), Then(e, <<p>>)} BY <1>7 DEF ESESection, ESEDispatchSetPower
  <2>2. p \in S BY CardStep DEF ESESteps
  <2> HIDE DEF p
  <2>3. <<p>> \in Seq(S) BY <2>2
  <2> QED BY <1>b, <2>1, <2>3, FineThen, FineDone
<1>8. ASSUME s = "ESEDispatchTransmit" PROVE Fine(e, R, S)
  <2>1. R \in {Fails(e), OrFails(e, Done(e))} BY <1>8 DEF ESESection, ESEDispatchTransmit
  <2> QED BY <1>b, <2>1, FineDone, FineOrFails
<1> QED BY <1>1, <1>2, <1>3, <1>4, <1>5, <1>6, <1>7, <1>8 DEF ESESteps

(***************************************************************************)
(* The proximity interface: its lists, and devices that come and go.       *)
(***************************************************************************)
LEMMA WithoutIs ==
  ASSUME NEW A, NEW list \in Seq(A), NEW f
  PROVE  /\ Without(list, f) \in Seq(A)
         /\ \A g \in ToSet(list) : g # f => g \in ToSet(Without(list, f))
<1> DEFINE i == CHOOSE i \in DOMAIN list : list[i] = f
           w == SubSeq(list, 1, i - 1) \o SubSeq(list, i + 1, Len(list))
<1>1. CASE f \in ToSet(list)
  <2>1. \E j \in DOMAIN list : list[j] = f BY <1>1 DEF ToSet
  <2>2. i \in DOMAIN list /\ list[i] = f BY <2>1
  <2>3. Without(list, f) = w BY <1>1 DEF Without, RemoveAt
  <2> HIDE DEF i
  <2>4. i \in 1 .. Len(list) BY <2>2
  <2>5. SubSeq(list, 1, i - 1) \in Seq(A) /\ SubSeq(list, i + 1, Len(list)) \in Seq(A)
    BY <2>4
  <2>6. w \in Seq(A) BY <2>5
  <2>7. ASSUME NEW g \in ToSet(list), g # f PROVE g \in ToSet(w)
    <3>1. PICK j \in 1 .. Len(list) : list[j] = g BY DEF ToSet
    <3>2. j # i BY <2>2, <2>7, <3>1
    <3> DEFINE a == SubSeq(list, 1, i - 1)
               b == SubSeq(list, i + 1, Len(list))
               k == IF j < i THEN j ELSE j - 1
    <3>a. a \in Seq(A) /\ Len(a) = i - 1 /\ \A m \in 1 .. i - 1 : a[m] = list[m] BY <2>4
    <3>b. b \in Seq(A) /\ Len(b) = Len(list) - i /\ \A m \in 1 .. Len(list) - i : b[m] = list[m + i]
      BY <2>4
    <3>c. w = a \o b OBVIOUS
    <3> HIDE DEF a, b, w
    <3>3. k \in 1 .. Len(w) /\ w[k] = list[j]
      <4>1. CASE j < i BY <2>4, <3>a, <3>b, <3>c, <4>1
      <4>2. CASE j > i
        <5>1. j - 1 - (i - 1) = j - i /\ j - i \in 1 .. Len(b) BY <2>4, <3>b, <4>2
        <5>a. Len(a \o b) = Len(a) + Len(b) BY <3>a, <3>b
        <5>b. i \in Nat /\ Len(list) \in Nat BY <2>4
        <5>2. Len(w) = Len(list) - 1 BY <3>a, <3>b, <3>c, <5>a, <5>b
        <5>3. k = j - 1 /\ k \in 1 .. Len(w) BY <2>4, <4>2, <5>2
        <5>4. w[k] = b[j - i] BY <2>4, <3>a, <3>b, <3>c, <5>1, <5>3
        <5> QED BY <2>4, <3>b, <5>1, <5>3, <5>4
      <4> QED BY <2>4, <3>2, <4>1, <4>2
    <3> HIDE DEF k
    <3>4. k \in DOMAIN w BY <2>6, <3>3
    <3> QED BY <3>1, <3>3, <3>4 DEF ToSet
  <2> QED BY <2>3, <2>6, <2>7
<1>2. CASE f \notin ToSet(list) BY <1>2 DEF Without
<1> QED BY <1>1, <1>2

LEMMA AddToListFine ==
  ASSUME NEW e, Sound(e), NEW f \in Files
  PROVE  Fine(e, AddClientToList(e, f), QuietSteps)
<1> DEFINE g == [e EXCEPT !.PubsList = <<f>> \o @]
           h == [e EXCEPT !.SubsList = @ \cup {f}]
           p == Step("FileAdd", f, "Proximity")
<1>1. AddClientToList(e, f) = IF IsPublication(f) THEN Then(g, <<p>>) ELSE Then(h, <<p>>)
  BY DEF AddClientToList
<1>2. /\ DOMAIN g = DOMAIN e /\ \A k \in Fields \ {"PubsList"} : g[k] = e[k]
      /\ g.PubsList = <<f>> \o e.PubsList
  BY DEF Sound, Fields
<1>3. DOMAIN h = DOMAIN e /\ \A k \in Fields : h[k] = e[k] BY DEF Sound, Fields
<1>4. p \in QuietSteps
  <2>1. "FileAdd" \in QuietNames BY DEF QuietNames, Marked, FileSteps
  <2> QED BY <2>1, ProximityStep DEF QuietSteps, Clients
<1> HIDE DEF g, h, p
<1>5. \A x \in Dispatchers : g.CurrentRequest[x] \in Currents BY <1>2 DEF Fields, Sound
<1>6. ASSUME IsPublication(f) PROVE Good(e, g)
  <2>1. f \in Publishers BY <1>6 DEF Publishers
  <2>2. e.PubsList \in Seq(Publishers) BY DEF Sound
  <2>3. g.PubsList \in Seq(Publishers) BY <1>2, <2>1, <2>2
  <2> QED BY <1>2, <1>5, <2>3, UntouchedBut
<1>7. Good(e, h) BY <1>3, Untouched
<1>8. <<p>> \in Seq(QuietSteps) BY <1>4
<1> QED BY <1>1, <1>6, <1>7, <1>8, FineThen

LEMMA RemoveFromListFine ==
  ASSUME NEW e, Sound(e), NEW f, NEW S
  PROVE  Fine(e, RemoveClientFromList(e, f), S)
<1> DEFINE w == Without(e.PubsList, f)
           g == [e EXCEPT !.PubsList = w, !.SubsList = @ \ {f}]
<1>1. RemoveClientFromList(e, f) = Done(g) BY DEF RemoveClientFromList
<1>2. w \in Seq(Publishers) BY WithoutIs DEF Sound
<1> HIDE DEF w
<1>3. DOMAIN g = DOMAIN e /\ (\A k \in Fields \ {"PubsList"} : g[k] = e[k]) /\ g.PubsList = w
  BY DEF Sound, Fields
<1> HIDE DEF g
<1>4. \A x \in Dispatchers : g.CurrentRequest[x] \in Currents BY <1>3 DEF Fields, Sound
<1>5. Good(e, g) BY <1>2, <1>3, <1>4, UntouchedBut
<1> QED BY <1>1, <1>5, FineDone

(* What goes into the send list stays due, and the worker is to come *)
LEMMA ListedGood ==
  ASSUME NEW e, Sound(e), NEW g, DOMAIN g = DOMAIN e,
         \A k \in Fields \ {"SendList", "workItem"} : g[k] = e[k],
         g.SendList \in Seq(Clients), Due(e) \cap ToSet(e.SendList) \subseteq ToSet(g.SendList),
         e.workItem => g.workItem
  PROVE  Good(e, g)
<1>1. /\ g.file = e.file /\ g.Enabled = e.Enabled /\ g.payload = e.payload
      /\ g.DeviceConnected = e.DeviceConnected /\ g.due = e.due
      /\ g.tried = e.tried /\ g.skipped = e.skipped /\ g.stopped = e.stopped
  BY DEF Fields
<1>2. Lists(g) BY <1>1 DEF Lists, Sound
<1>3. \A k \in Fields \ SendFields : g[k] = e[k] BY DEF Fields, SendFields
<1>4. Steady(e, g) BY <1>2, <1>3, SteadyBut
<1>5. Due(g) = Due(e) BY <1>1 DEF Due
<1>6. Serves(e, g) BY <1>1, <1>5, ServesBut
<1> QED BY <1>1, <1>4, <1>6 DEF Good

LEMMA VerifyGood ==
  ASSUME NEW e, Sound(e), NEW f \in Clients
  PROVE  Good(e, VerifyStateAndSendPublicationLocked(e, f))
<1> DEFINE l == <<f>> \o e.SendList
           a == [e EXCEPT !.SendList = l]
           g == [e EXCEPT !.workItem = TRUE]
           h == [a EXCEPT !.workItem = TRUE]
<1>1. VerifyStateAndSendPublicationLocked(e, f) \in {e, g, h}
  <2>1. AddSendClientLocked(e, f) \in {e, a} BY DEF AddSendClientLocked
  <2>2. \/ VerifyStateAndSendPublicationLocked(e, f) = e
        \/ VerifyStateAndSendPublicationLocked(e, f) = [AddSendClientLocked(e, f) EXCEPT !.workItem = TRUE]
    BY DEF VerifyStateAndSendPublicationLocked
  <2> HIDE DEF a
  <2> QED BY <2>1, <2>2
<1>0. e.SendList \in Seq(Clients) BY DEF Sound, Lists
<1>4. l \in Seq(Clients) /\ ToSet(e.SendList) \subseteq ToSet(l)
  <2>1. l \in Seq(Clients) BY <1>0
  <2>2. \A i \in DOMAIN e.SendList : i + 1 \in DOMAIN l /\ l[i + 1] = e.SendList[i] BY <1>0
  <2> HIDE DEF l
  <2> QED BY <2>1, <2>2 DEF ToSet
<1> HIDE DEF l
<1>2. /\ DOMAIN g = DOMAIN e /\ \A k \in Fields \ {"workItem"} : g[k] = e[k]
      /\ g.workItem = TRUE
  BY DEF Sound, Fields
<1>3. /\ DOMAIN h = DOMAIN e /\ \A k \in Fields \ {"SendList", "workItem"} : h[k] = e[k]
      /\ h.workItem = TRUE /\ h.SendList = l
  BY DEF Sound, Fields
<1> HIDE DEF g, h
<1>5. g.SendList = e.SendList BY <1>2 DEF Fields
<1>6. Good(e, g) BY <1>0, <1>2, <1>5, ListedGood
<1>7. Good(e, h) BY <1>3, <1>4, ListedGood
<1> QED BY <1>1, <1>6, <1>7, GoodSelf

(***************************************************************************)
(* Inserted: the function of its definition exists, and with every entry   *)
(* of the list it keeps what is there and puts in what is chosen.          *)
(***************************************************************************)
LEMMA Inductive ==
  ASSUME NEW T, 0 \in T, \A n \in Nat : n \in T => n + 1 \in T
  PROVE  Nat \subseteq T
<1> DEFINE R == OpToRel(<, Nat)
           Out == Nat \ T
<1>1. IsWellFoundedOn(R, Nat) BY NatLessThanWellFounded
<1>2. \A x, y \in Nat : x < y => <<x, y>> \in R BY DEF OpToRel
<1> SUFFICES ASSUME Out # {} PROVE FALSE
  OBVIOUS
<1>3. PICK x \in Out : \A y \in Out : <<y, x>> \notin R
  <2>1. Out \subseteq Nat OBVIOUS
  <2> HIDE DEF R, Out
  <2> QED BY <1>1, <2>1, WFMin, Zenon
<1> HIDE DEF R
<1>4. x # 0 /\ x \in Nat OBVIOUS
<1>5. x - 1 \in Nat /\ x - 1 < x BY <1>4
<1>6. x - 1 \in T BY <1>2, <1>3, <1>4, <1>5
<1> QED BY <1>4, <1>5, <1>6

Walked(list, chosen, rest, n, w) ==
  [k \in 0 .. n |-> IF k = 0 THEN rest
                    ELSE IF list[k] \in chosen THEN <<list[k]>> \o w[k - 1] ELSE w[k - 1]]
Walk(list, chosen, rest) == CHOOSE w : w = Walked(list, chosen, rest, Len(list), w)

LEMMA WalkExists ==
  ASSUME NEW list, NEW chosen, NEW rest
  PROVE  \A n \in Nat : \E w : w = Walked(list, chosen, rest, n, w)
<1> DEFINE W(n, w) == Walked(list, chosen, rest, n, w)
           T == {n \in Nat : \E w : w = W(n, w)}
<1>1. 0 \in T
  <2>1. [k \in 0 .. 0 |-> rest] = W(0, [k \in 0 .. 0 |-> rest]) BY DEF Walked
  <2> QED BY <2>1
<1>2. ASSUME NEW n \in Nat, n \in T PROVE n + 1 \in T
  <2>1. PICK w : w = W(n, w) BY <1>2
  <2> DEFINE last == IF list[n + 1] \in chosen THEN <<list[n + 1]>> \o w[n] ELSE w[n]
             v == [k \in 0 .. n + 1 |-> IF k = n + 1 THEN last ELSE w[k]]
  <2>2. \A k \in 0 .. n : v[k] = w[k] OBVIOUS
  <2>3. \A k \in 0 .. n : w[k] = IF k = 0 THEN rest
                                 ELSE IF list[k] \in chosen THEN <<list[k]>> \o w[k - 1] ELSE w[k - 1]
    BY <2>1 DEF Walked
  <2>4. \A k \in 0 .. n + 1 : v[k] = IF k = 0 THEN rest
                                 ELSE IF list[k] \in chosen THEN <<list[k]>> \o v[k - 1] ELSE v[k - 1]
    <3> SUFFICES ASSUME NEW k \in 0 .. n + 1
                 PROVE  v[k] = IF k = 0 THEN rest
                               ELSE IF list[k] \in chosen THEN <<list[k]>> \o v[k - 1] ELSE v[k - 1]
      OBVIOUS
    <3>1. v[n + 1] = last OBVIOUS
    <3>2. k = 0 \/ k - 1 \in 0 .. n OBVIOUS
    <3> HIDE DEF v
    <3> QED BY <2>2, <2>3, <3>1, <3>2
  <2>5. v = W(n + 1, v)
    <3>1. v = [k \in 0 .. n + 1 |-> v[k]] OBVIOUS
    <3> HIDE DEF v
    <3> QED BY <2>4, <3>1 DEF Walked
  <2> HIDE DEF v
  <2> QED BY <2>5
<1> HIDE DEF T
<1>3. Nat \subseteq T BY <1>1, <1>2, Inductive
<1> QED BY <1>3 DEF T

LEMMA InsertedIs ==
  ASSUME NEW A, NEW list \in Seq(A), NEW chosen, NEW rest \in Seq(A)
  PROVE  /\ Inserted(list, chosen, rest) \in Seq(A)
         /\ ToSet(rest) \cup (ToSet(list) \cap chosen) \subseteq ToSet(Inserted(list, chosen, rest))
<1> DEFINE w == Walk(list, chosen, rest)
           Until(n) == {list[i] : i \in 1 .. n} \cap chosen
           T == {n \in Nat : n <= Len(list) =>
                   w[n] \in Seq(A) /\ ToSet(rest) \cup Until(n) \subseteq ToSet(w[n])}
<1>1. Inserted(list, chosen, rest) = w[Len(list)] BY DEF Inserted, Walk, Walked
<1>2. w = Walked(list, chosen, rest, Len(list), w)
  <2>1. Len(list) \in Nat OBVIOUS
  <2>2. \E v : v = Walked(list, chosen, rest, Len(list), v) BY <2>1, WalkExists
  <2> QED BY <2>2 DEF Walk
<1> HIDE DEF w
<1>3. \A k \in 0 .. Len(list) : w[k] = IF k = 0 THEN rest
         ELSE IF list[k] \in chosen THEN <<list[k]>> \o w[k - 1] ELSE w[k - 1]
  BY <1>2 DEF Walked
<1>4. 0 \in T
  <2>0. 0 \in 0 .. Len(list) OBVIOUS
  <2>1. w[0] = rest BY <1>3, <2>0
  <2> QED BY <2>1
<1>5. ASSUME NEW n \in Nat, n \in T PROVE n + 1 \in T
  <2> DEFINE v == w[n]
             c == list[n + 1]
  <2> SUFFICES ASSUME n + 1 <= Len(list)
               PROVE  w[n + 1] \in Seq(A) /\ ToSet(rest) \cup Until(n + 1) \subseteq ToSet(w[n + 1])
    OBVIOUS
  <2>1. v \in Seq(A) /\ ToSet(rest) \cup Until(n) \subseteq ToSet(v) BY <1>5
  <2>2. c \in A OBVIOUS
  <2>3. w[n + 1] = IF c \in chosen THEN <<c>> \o v ELSE v BY <1>3
  <2>4. Until(n + 1) = Until(n) \cup ({c} \cap chosen)
    <3>1. 1 .. n + 1 = 1 .. n \cup {n + 1} OBVIOUS
    <3> QED BY <3>1
  <2> HIDE DEF v, c, Until
  <2>5. <<c>> \o v \in Seq(A) /\ ToSet(v) \cup {c} \subseteq ToSet(<<c>> \o v)
    <3> DEFINE l == <<c>> \o v
    <3>1. l \in Seq(A) BY <2>1, <2>2
    <3>2. \A i \in DOMAIN v : i + 1 \in DOMAIN l /\ l[i + 1] = v[i] BY <2>1
    <3>3. 1 \in DOMAIN l /\ l[1] = c BY <2>1
    <3> HIDE DEF l
    <3>4. ToSet(v) \subseteq ToSet(l) BY <3>2 DEF ToSet
    <3>5. c \in ToSet(l) BY <3>3 DEF ToSet
    <3> QED BY <3>1, <3>4, <3>5 DEF l
  <2> QED BY <2>1, <2>3, <2>4, <2>5
<1>6. Len(list) \in T
  <2> HIDE DEF T
  <2> QED BY <1>4, <1>5, Inductive
<1>7. ToSet(list) \cap chosen = Until(Len(list)) BY DEF ToSet
<1> QED BY <1>1, <1>6, <1>7

(* What is to be sent is chosen anew: all of it is in the list *)
LEMMA VerifyAllFine ==
  ASSUME NEW e, Sound(e), NEW S
  PROVE  /\ Fine(e, VerifyAndSendPublication(e), S)
         /\ \A r \in VerifyAndSendPublication(e) : \A call : Served(r.d, call)
<1> DEFINE clients == {f \in ToSet(e.PubsList) : MustSend(e, f) /\ ~IsTagReadOnlyClient(f)}
           new == {f \in clients \ ToSet(e.SendList) : ~Skips(e, f)}
           l == Inserted(e.PubsList, new, e.SendList)
           w == e.workItem \/ \E f \in ToSet(e.PubsList) : MustSend(e, f) /\ ~Skips(e, f)
           k0 == \E f \in clients : Skips(e, f)
           g == [e EXCEPT !.SendList = l, !.workItem = w, !.due = clients, !.tried = {},
                          !.skipped = k0, !.stopped = FALSE]
<1>1. VerifyAndSendPublication(e) = Done(g) BY DEF VerifyAndSendPublication
<1>2. Lists(e) /\ e.PubsList \in Seq(Publishers) /\ e.SendList \in Seq(Clients)
  BY DEF Sound, Lists
<1>3. Publishers \subseteq Clients /\ ToSet(e.PubsList) \subseteq Publishers
  BY <1>2 DEF Publishers, Clients, ToSet
<1>4. e.PubsList \in Seq(Clients) BY <1>2, <1>3
<1>5. clients \subseteq {f \in Publishers : /\ e.DeviceConnected /\ e.Enabled[f] /\ e.payload[f] = "set"
                                            /\ f \in ToSet(e.PubsList)}
  BY <1>3 DEF MustSend
<1>6. /\ l \in Seq(Clients)
      /\ ToSet(e.SendList) \cup (ToSet(e.PubsList) \cap new) \subseteq ToSet(l)
  <2> HIDE DEF new
  <2> QED BY <1>2, <1>4, InsertedIs
<1>7. ~k0 => clients \subseteq ToSet(l)
  <2> SUFFICES ASSUME ~k0, NEW f \in clients PROVE f \in ToSet(l)
    OBVIOUS
  <2>1. CASE f \in ToSet(e.SendList) BY <1>6, <2>1
  <2>2. CASE f \notin ToSet(e.SendList)
    <3>1. f \in new BY <2>2
    <3>2. f \in ToSet(e.PubsList) OBVIOUS
    <3> HIDE DEF new, clients, k0, l
    <3> QED BY <1>6, <3>1, <3>2
  <2> QED BY <2>1, <2>2
<1>8. ~k0 /\ clients # {} => w OBVIOUS
<1> HIDE DEF l, w, k0, clients, new
<1>9. /\ DOMAIN g = DOMAIN e
      /\ \A k \in Fields \ {"SendList", "workItem", "due", "tried", "skipped", "stopped"} : g[k] = e[k]
      /\ g.SendList = l /\ g.workItem = w /\ g.due = clients /\ g.tried = {} /\ g.skipped = k0
      /\ g.stopped = FALSE
  BY DEF Sound, Fields
<1> HIDE DEF g
<1>10. /\ g.file = e.file /\ g.Enabled = e.Enabled /\ g.payload = e.payload
       /\ g.DeviceConnected = e.DeviceConnected
  BY <1>9 DEF Fields
<1>11. clients \subseteq {f \in Files : e.Enabled[f] /\ e.file[f] \in Used}
  <2>1. \A f \in Publishers : f \in Files /\ (e.payload[f] = "set" => e.file[f] \in Used)
    BY <1>2 DEF Lists, Publishers
  <2> QED BY <1>5, <2>1
<1>12. Lists(g) BY <1>2, <1>5, <1>6, <1>9, <1>10, <1>11 DEF Lists
<1>13. \A k \in Fields \ SendFields : g[k] = e[k] BY <1>9 DEF Fields, SendFields
<1>14. Steady(e, g) BY <1>9, <1>12, <1>13, SteadyBut
<1>15. Due(g) \subseteq clients BY <1>9 DEF Due
<1>16. \A call : Served(g, call) BY <1>7, <1>8, <1>9, <1>15 DEF Served
<1>17. Good(e, g) BY <1>10, <1>14, <1>16 DEF Good, Serves
<1>18. \A r \in Done(g) : r.d = g BY DEF Done, Outcome
<1> QED BY <1>1, <1>16, <1>17, <1>18, FineDone

LEMMA DistributeGood ==
  ASSUME NEW e, NEW g, Good(e, g), NEW role, NEW fits
  PROVE  Good(e, Distribute(g, role, fits))
<1>1. Sound(g) BY DEF Good, Steady
<1>2. Good(g, Distribute(g, role, fits)) BY <1>1, DeliverAllGood DEF Distribute
<1> QED BY <1>1, <1>2, GoodThen

(* What the RF thread does; its further sections are its own *)
LEMMA ArrivedGood ==
  ASSUME NEW e, Sound(e), NEW g, DOMAIN g = DOMAIN e,
         \A k \in Fields \ {"DeviceConnected"} : g[k] = e[k], g.DeviceConnected = TRUE
  PROVE  Good(e, g)
<1>1. /\ g.file = e.file /\ g.Enabled = e.Enabled /\ g.payload = e.payload /\ g.SendList = e.SendList
      /\ g.workItem = e.workItem /\ g.due = e.due
      /\ g.tried = e.tried /\ g.skipped = e.skipped /\ g.stopped = e.stopped
  BY DEF Fields
<1>2. Lists(g) BY <1>1 DEF Lists, Sound
<1>3. \A k \in Fields \ SendFields : g[k] = e[k] BY DEF Fields, SendFields
<1>4. Steady(e, g) BY <1>2, <1>3, SteadyBut
<1>5. Due(g) = Due(e) BY <1>1 DEF Due
<1>6. Serves(e, g) BY <1>1, <1>5, ServesBut
<1> QED BY <1>1, <1>4, <1>6 DEF Good

(* With the device gone nothing is to be sent *)
LEMMA GoneGood ==
  ASSUME NEW e, Sound(e), NEW g, DOMAIN g = DOMAIN e,
         \A k \in Fields \ {"DeviceConnected", "due"} : g[k] = e[k], g.due = {}
  PROVE  Good(e, g) /\ \A call : Served(g, call)
<1>1. /\ g.file = e.file /\ g.Enabled = e.Enabled /\ g.payload = e.payload /\ g.SendList = e.SendList
      /\ g.workItem = e.workItem
      /\ g.tried = e.tried /\ g.skipped = e.skipped /\ g.stopped = e.stopped
  BY DEF Fields
<1>2. Lists(g) BY <1>1 DEF Lists, Sound
<1>3. \A k \in Fields \ SendFields : g[k] = e[k] BY DEF Fields, SendFields
<1>4. Steady(e, g) BY <1>2, <1>3, SteadyBut
<1>5. \A call : Served(g, call) BY DEF Due, Served
<1> QED BY <1>1, <1>4, <1>5 DEF Good, Serves

LEMMA DeviceSectionFine ==
  ASSUME NEW e, Sound(e),
         NEW s \in {"Message", "TagArrival", "PeerArrival", "Departure", "VerifyAll"},
         NEW S, NEW f, NEW x
  PROVE  /\ Fine(e, NFPSection(e, s, f, x), S)
         /\ s = "Departure" => \A r \in NFPSection(e, s, f, x) : \A call : Served(r.d, call)
<1> DEFINE R == NFPSection(e, s, f, x)
<1>1. ASSUME s = "VerifyAll" PROVE Fine(e, R, S)
  <2>1. R = VerifyAndSendPublication(e) BY <1>1 DEF NFPSection
  <2> QED BY <2>1, VerifyAllFine
<1>2. ASSUME s = "Message" PROVE Fine(e, R, S)
  <2>1. R = UNION {Done(HandleReceivedNdefMessage(e, fits)) : fits \in BOOLEAN}
    BY <1>2 DEF NFPSection
  <2>2. \A fits : Fine(e, Done(HandleReceivedNdefMessage(e, fits)), S)
    BY DistributeGood, GoodSelf, FineDone DEF HandleReceivedNdefMessage
  <2> QED BY <2>1, <2>2 DEF Fine
<1>3. ASSUME s \in {"TagArrival", "PeerArrival"} PROVE Fine(e, R, S)
  <2> DEFINE tag == s = "TagArrival"
             g == [e EXCEPT !.DeviceConnected = TRUE, !.TagConnected = tag]
  <2>1. R = Done(Distribute(g, "arrival", TRUE)) BY <1>3 DEF NFPSection, ConnectionEstablished
  <2> HIDE DEF tag
  <2>2. /\ DOMAIN g = DOMAIN e /\ \A k \in Fields \ {"DeviceConnected"} : g[k] = e[k]
        /\ g.DeviceConnected = TRUE
    BY DEF Sound, Fields
  <2> HIDE DEF g
  <2>3. Good(e, g) BY <2>2, ArrivedGood
  <2>4. Good(e, Distribute(g, "arrival", TRUE)) BY <2>3, DistributeGood
  <2> QED BY <2>1, <2>4, FineDone
<1>4. ASSUME s = "Departure"
      PROVE  Fine(e, R, S) /\ \A r \in R : \A call : Served(r.d, call)
  <2> DEFINE g == [e EXCEPT !.DeviceConnected = FALSE, !.TagConnected = FALSE,
                            !.WriteAttempted = FALSE, !.ReadOnlyAttempted = FALSE, !.due = {}]
             h == Distribute(g, "removal", TRUE)
  <2>1. R = Done(h) BY <1>4 DEF NFPSection, Departure
  <2>2. /\ DOMAIN g = DOMAIN e /\ \A k \in Fields \ {"DeviceConnected", "due"} : g[k] = e[k]
        /\ g.due = {}
    BY DEF Sound, Fields
  <2> HIDE DEF g
  <2>3. Good(e, g) /\ \A call : Served(g, call) BY <2>2, GoneGood
  <2>4. Good(e, h) BY <2>3, DistributeGood
  <2>5. Good(g, h)
    <3>1. Good(g, g) BY <2>3, GoodSelf DEF Good, Steady
    <3> QED BY <3>1, DistributeGood
  <2> HIDE DEF h
  <2>6. \A call : Served(h, call) BY <2>3, <2>5 DEF Good, Serves
  <2>7. \A r \in Done(h) : r.d = h BY DEF Done, Outcome
  <2> HIDE DEF R
  <2> QED BY <2>1, <2>4, <2>6, <2>7, FineDone
<1> QED BY <1>1, <1>2, <1>3, <1>4

ListSteps == {"AddClientToList", "RemoveClientFromList", "Verify"}

LEMMA ListSectionFine ==
  ASSUME NEW e, Sound(e), NEW s \in ListSteps, NEW f \in Clients, s = "AddClientToList" => f \in Files,
         NEW x
  PROVE  Fine(e, NFPSection(e, s, f, x), QuietSteps)
<1> DEFINE R == NFPSection(e, s, f, x)
           S == QuietSteps
<1> SUFFICES Fine(e, R, S) OBVIOUS
<1>1. ASSUME s = "AddClientToList" PROVE Fine(e, R, S)
  <2>1. R = AddClientToList(e, f) BY <1>1 DEF NFPSection
  <2> QED BY <1>1, <2>1, AddToListFine
<1>2. ASSUME s = "RemoveClientFromList" PROVE Fine(e, R, S)
  <2>1. R = RemoveClientFromList(e, f) BY <1>2 DEF NFPSection
  <2> QED BY <2>1, RemoveFromListFine
<1>3. ASSUME s = "Verify" PROVE Fine(e, R, S)
  <2>1. R = Done(VerifyStateAndSendPublicationLocked(e, f)) BY <1>3 DEF NFPSection
  <2> QED BY <2>1, VerifyGood, FineDone
<1> QED BY <1>1, <1>2, <1>3 DEF ListSteps

(* A payload comes to an open file, and goes with what was to be sent *)
LEMMA PaidGood ==
  ASSUME NEW e, Sound(e), NEW g, DOMAIN g = DOMAIN e,
         \A k \in Fields \ {"payload", "due"} : g[k] = e[k],
         g.payload \in [Files -> {"none", "set", "freed"}], g.due \subseteq e.due,
         \A h \in Publishers : g.payload[h] = "set" => e.payload[h] = "set" \/ e.file[h] \in Used
  PROVE  Good(e, g)
<1>1. /\ g.file = e.file /\ g.Enabled = e.Enabled /\ g.SendList = e.SendList
      /\ g.workItem = e.workItem /\ g.DeviceConnected = e.DeviceConnected
      /\ g.tried = e.tried /\ g.skipped = e.skipped /\ g.stopped = e.stopped
  BY DEF Fields
<1>2. Lists(e) BY DEF Sound
<1>3. Lists(g)
  <2>1. g.due \subseteq {h \in Files : g.Enabled[h] /\ g.file[h] \in Used} BY <1>1, <1>2 DEF Lists
  <2>2. g.due # {} => g.DeviceConnected BY <1>1, <1>2 DEF Lists
  <2>3. \A h \in Publishers : g.payload[h] = "set" => g.file[h] \in Used BY <1>1, <1>2 DEF Lists
  <2> QED BY <1>1, <1>2, <2>1, <2>2, <2>3 DEF Lists
<1>4. \A k \in Fields \ SendFields : g[k] = e[k] BY DEF Fields, SendFields
<1>5. Steady(e, g) BY <1>3, <1>4, SteadyBut
<1>6. Due(g) \subseteq Due(e) BY <1>1 DEF Due
<1>7. Serves(e, g) BY <1>1, <1>6, ServesBut
<1> QED BY <1>1, <1>5, <1>7 DEF Good

(***************************************************************************)
(* Sections: of the clients' threads, of the RF thread, of the worker.     *)
(***************************************************************************)
(* What a section of file f's thread leaves, of the kinds that go with the life it leaves f in *)
Going(e, f, p, r, life) ==
  /\ Steady(e, r.d) /\ Serves(e, r.d)
  /\ r.d.file = [e.file EXCEPT ![f] = life]
  /\ r.steps \in Seq(FileWork(f, life)) /\ r.calls \in CallsOf(FileWork(f, life))
  /\ p.s = "Opened" \/ MarkedAt(e.file[f]) \subseteq MarkedAt(life)

Goes(e, f, p, R) == \A r \in R : \E life \in Lives : Going(e, f, p, r, life)

LEMMA GoesDone ==
  ASSUME NEW e, NEW f, NEW p, NEW g, NEW life \in Lives, Steady(e, g), Serves(e, g),
         g.file = [e.file EXCEPT ![f] = life],
         p.s = "Opened" \/ MarkedAt(e.file[f]) \subseteq MarkedAt(life)
  PROVE  Goes(e, f, p, Done(g))
<1> DEFINE r == Outcome(g, TRUE, <<>>, <<>>)
<1>1. Done(g) = {r} BY DEF Done
<1>2. r.d = g /\ r.steps = <<>> /\ r.calls = <<>> BY DEF Outcome
<1>3. <<>> \in Seq(FileWork(f, life)) /\ <<>> \in CallsOf(FileWork(f, life)) BY DEF CallsOf
<1> HIDE DEF r
<1>4. Going(e, f, p, r, life) BY <1>2, <1>3 DEF Going
<1> QED BY <1>1, <1>4 DEF Goes

LEMMA GoesFine ==
  ASSUME NEW e, Sound(e), NEW f \in Files, NEW p, NEW R, Fine(e, R, FileWork(f, e.file[f]))
  PROVE  Goes(e, f, p, R)
<1> SUFFICES ASSUME NEW r \in R PROVE \E life \in Lives : Going(e, f, p, r, life)
  BY DEF Goes
<1> DEFINE life == e.file[f]
<1>1. e.file \in [Files -> Lives] BY DEF Sound, Lists
<1>2. life \in Lives /\ e.file = [e.file EXCEPT ![f] = life] BY <1>1
<1>3. Good(e, r.d) /\ r.steps \in Seq(FileWork(f, life)) /\ r.calls \in CallsOf(FileWork(f, life))
  BY DEF Fine
<1>4. Going(e, f, p, r, life) BY <1>2, <1>3 DEF Going, Good
<1> QED BY <1>2, <1>4

LEMMA FineMore ==
  ASSUME NEW e, NEW R, NEW S, NEW T, S \subseteq T, Fine(e, R, S)
  PROVE  Fine(e, R, T)
<1>1. Seq(S) \subseteq Seq(T) /\ CallsOf(S) \subseteq CallsOf(T) BY WorkMonotone
<1> QED BY <1>1 DEF Fine

LEMMA CloseClientGoes ==
  ASSUME NEW e, Sound(e), NEW f \in Files, e.file[f] # "open", NEW p
  PROVE  Goes(e, f, p, CloseClient(e, f))
<1> DEFINE v == IF IsPublication(f) THEN "freed" ELSE e.payload[f]
           u == e.due \ {f}
           g == [e EXCEPT !.payload[f] = v, !.due = u]
           h == Close(g, f)
<1>1. CloseClient(e, f) = Done(h) BY DEF CloseClient
<1>2. /\ DOMAIN g = DOMAIN e /\ \A k \in Fields \ {"payload", "due"} : g[k] = e[k]
      /\ g.payload = [e.payload EXCEPT ![f] = v] /\ g.due = u
  BY DEF Sound, Fields
<1>3. e.payload \in [Files -> {"none", "set", "freed"}] BY DEF Sound, Lists
<1>4. v \in {"none", "set", "freed"} /\ (f \in Publishers => v = "freed") BY <1>3 DEF Publishers
<1>5. f \notin u /\ u \subseteq e.due OBVIOUS
<1> HIDE DEF v, u, g
<1>6. g.payload \in [Files -> {"none", "set", "freed"}] /\ g.payload[f] = v BY <1>2, <1>3, <1>4
<1>7. \A q \in Publishers : g.payload[q] = "set" => e.payload[q] = "set"
  <2> TAKE q \in Publishers
  <2>1. q \in Files BY DEF Publishers
  <2>2. q # f => g.payload[q] = e.payload[q] BY <1>2, <1>3, <2>1
  <2> QED BY <1>4, <1>6, <2>2
<1>8. Good(e, g) BY <1>2, <1>5, <1>6, <1>7, PaidGood
<1>9. Sound(g) /\ g.file = e.file BY <1>8 DEF Good, Steady
<1>10. ~Engaged(g, f) BY <1>2, <1>4, <1>5, <1>6 DEF Engaged
<1>11. Steady(g, h) /\ Serves(g, h) /\ h.file = [g.file EXCEPT ![f] = "closed"]
  BY <1>9, <1>10, CloseGood
<1> HIDE DEF h
<1>12. Steady(e, h) /\ Serves(e, h) BY <1>8, <1>11 DEF Good, Steady, Serves
<1>13. "closed" \in Lives BY DEF Lives
<1>14. MarkedAt(e.file[f]) \subseteq MarkedAt("closed") BY DEF MarkedAt, Marked
<1> QED BY <1>1, <1>9, <1>11, <1>12, <1>13, <1>14, GoesDone

LEMMA SetPayloadFine ==
  ASSUME NEW e, Sound(e), NEW f \in Files, e.file[f] = "open"
  PROVE  Fine(e, SetPayload(e, f), QuietSteps)
<1> DEFINE g == [e EXCEPT !.payload[f] = "set"]
           q == Step("Verify", f, None)
           R == SetPayload(e, f)
<1>1. R = Fails(e) \/ R = Then(g, <<q>>) BY DEF SetPayload
<1>2. /\ DOMAIN g = DOMAIN e /\ \A k \in Fields \ {"payload"} : g[k] = e[k]
      /\ g.payload = [e.payload EXCEPT ![f] = "set"]
  BY DEF Sound, Fields
<1>3. q \in QuietSteps BY QuietStep, NoneIn DEF QuietNames, Marked, DispatcherSteps, Clients
<1> HIDE DEF g, q
<1>4. e.payload \in [Files -> {"none", "set", "freed"}] BY DEF Sound, Lists
<1>5. g.payload \in [Files -> {"none", "set", "freed"}] BY <1>2, <1>4
<1>6. \A h \in Publishers : g.payload[h] = "set" => e.payload[h] = "set" \/ e.file[h] \in Used
  <2> TAKE h \in Publishers
  <2>1. h \in Files BY DEF Publishers
  <2>2. h # f => g.payload[h] = e.payload[h] BY <1>2, <1>4, <2>1
  <2> QED BY <2>2 DEF Used
<1>7. g.due = e.due BY <1>2 DEF Fields
<1>8. Good(e, g) BY <1>2, <1>5, <1>6, <1>7, PaidGood
<1>9. <<q>> \in Seq(QuietSteps) BY <1>3
<1> HIDE DEF R
<1> QED BY <1>1, <1>8, <1>9, FineThen, FineDone, GoodSelf DEF R

LEMMA RemoveSendGood ==
  ASSUME NEW e, Sound(e), NEW f, e.file[f] # "open", NEW S
  PROVE  Fine(e, RemoveSendClient(e, f), S)
<1> DEFINE l == Without(e.SendList, f)
           g == [e EXCEPT !.SendList = l]
<1>1. RemoveSendClient(e, f) = Done(g) BY DEF RemoveSendClient
<1>2. e.SendList \in Seq(Clients) BY DEF Sound, Lists
<1>3. l \in Seq(Clients) /\ \A h \in ToSet(e.SendList) : h # f => h \in ToSet(l) BY <1>2, WithoutIs
<1> HIDE DEF l
<1>4. /\ DOMAIN g = DOMAIN e /\ \A k \in Fields \ {"SendList"} : g[k] = e[k] /\ g.SendList = l
  BY DEF Sound, Fields
<1>5. /\ DOMAIN g = DOMAIN e /\ \A k \in Fields \ {"SendList", "workItem"} : g[k] = e[k]
      /\ g.SendList = l /\ g.workItem = e.workItem
  BY <1>4 DEF Fields
<1> HIDE DEF g
<1>6. \A h \in Due(e) : h # f BY DEF Due
<1>7. Due(e) \cap ToSet(e.SendList) \subseteq ToSet(l) BY <1>3, <1>6
<1>8. Good(e, g) BY <1>3, <1>5, <1>7, ListedGood
<1> QED BY <1>1, <1>8, FineDone

LEMMA FinishFine ==
  ASSUME NEW e, Sound(e), NEW f \in Files, NEW life, "Discard" \in MarkedAt(life)
  PROVE  Fine(e, Finish(e, f), FileWork(f, life))
<1> DEFINE W == FileWork(f, life)
           T == Seq(W) \ {<<>>}
           q == <<Step("Discard", f, None)>>
           a == RemovalCalls(f)
           calls == a \o <<q>>
<1>1. Finish(e, f) = Calling(ResumeIdle(e, f), calls) BY DEF Finish
<1>2. life # "open" BY DEF MarkedAt
<1>3. a \in Seq(T) BY <1>2, RemovalCallsAre DEF CallsOf
<1>4. Step("Discard", f, None) \in W BY MarkedStep
<1> HIDE DEF W
<1>5. q \in T BY <1>4
<1> HIDE DEF T, q, a
<1>6. calls \in Seq(T) BY <1>3, <1>5
<1>7. calls \in CallsOf(W) BY <1>6 DEF CallsOf, T
<1> HIDE DEF calls
<1> QED BY <1>1, <1>7, ResumeIdleGood, FineCalling DEF W

(* The sections that only files of some life have to do *)
LEMMA MarkedFine ==
  ASSUME Sound(d), NEW f \in Files, NEW p, p.s \in MarkedAt(d.file[f]), p.f = f
  PROVE  Goes(d, f, p, Section(p))
<1> DEFINE R == Section(p)
           W == FileWork(f, d.file[f])
<1>0. p.s \in Marked BY MarkedAre
<1>a. d.file \in [Files -> Lives] BY DEF Sound, Lists
<1>b. QuietSteps \subseteq W BY DEF FileWork
<1>c. "open" \in Lives /\ "closed" \in Lives BY DEF Lives
<1>d. R = IF p.s \in FileSteps THEN FileSection(d, p.s, f, p.x) ELSE NFPSection(d, p.s, f, p.x)
  <2>1. p.s \notin CallsRF BY <1>0 DEF Marked, CallsRF, RFCalls
  <2>2. p.s \notin SESteps \cup DispatcherSteps \cup SCSteps \cup ESESteps
    BY <1>0 DEF Marked, SESteps, DispatcherSteps, SCSteps, ESESteps
  <2> QED BY <2>1, <2>2 DEF Section
<1> SUFFICES Goes(d, f, p, R) OBVIOUS
<1> HIDE DEF R
<1>e. ASSUME p.s \in {"Opened", "Discard", "Finish"}
      PROVE  /\ d.file[f] \notin Used /\ MarkedAt(d.file[f]) = Marked \ {"SetPayload"}
             /\ ~Engaged(d, f)
  <2>1. d.file[f] \notin Used /\ MarkedAt(d.file[f]) = Marked \ {"SetPayload"}
    BY <1>e DEF MarkedAt, Used
  <2> QED BY <2>1 DEF Sound, Lists, Engaged
<1>1. ASSUME p.s = "Opened" PROVE Goes(d, f, p, R)
  <2> DEFINE g == [d EXCEPT !.file[f] = "open"]
  <2>1. R = Done(g) BY <1>1, <1>d DEF FileSteps, FileSection, Opened
  <2>2. /\ DOMAIN g = DOMAIN d /\ \A k \in Fields \ {"file"} : g[k] = d[k]
        /\ g.file = [d.file EXCEPT ![f] = "open"]
    BY DEF Sound, Fields
  <2> HIDE DEF g
  <2>3. d.file[f] \notin Used /\ "open" \in Used BY <1>1, <1>e DEF Used
  <2>4. Steady(d, g) /\ Serves(d, g) BY <1>c, <2>2, <2>3, LivesOn
  <2> QED BY <1>1, <1>c, <2>1, <2>2, <2>4, GoesDone
<1>2. ASSUME p.s = "Discard" PROVE Goes(d, f, p, R)
  <2> DEFINE g == [d EXCEPT !.file[f] = "closed"]
  <2>1. R = Done(g) BY <1>2, <1>d DEF FileSteps, FileSection
  <2>2. /\ DOMAIN g = DOMAIN d /\ \A k \in Fields \ {"file"} : g[k] = d[k]
        /\ g.file = [d.file EXCEPT ![f] = "closed"]
    BY DEF Sound, Fields
  <2> HIDE DEF g
  <2>3. "closed" # "open" \/ d.file[f] \notin Used OBVIOUS
  <2>4. "closed" \in Used \/ ~Engaged(d, f) BY <1>2, <1>e
  <2>6. Steady(d, g) /\ Serves(d, g) BY <1>c, <2>2, <2>3, <2>4, LivesOn
  <2>7. MarkedAt(d.file[f]) \subseteq MarkedAt("closed") BY <1>2, <1>e DEF MarkedAt
  <2> QED BY <1>c, <2>1, <2>2, <2>6, <2>7, GoesDone
<1>3. ASSUME p.s = "Finish" PROVE Goes(d, f, p, R)
  <2>1. R = Finish(d, f) BY <1>3, <1>d DEF FileSteps, FileSection
  <2>2. "Discard" \in MarkedAt(d.file[f]) BY <1>3, <1>e DEF Marked
  <2> QED BY <2>1, <2>2, FinishFine, GoesFine
<1>4. ASSUME p.s = "RemoveSendClient" PROVE Goes(d, f, p, R)
  <2>1. R = RemoveSendClient(d, f) BY <1>4, <1>d DEF FileSteps, NFPSection
  <2>2. d.file[f] # "open" BY <1>4 DEF MarkedAt
  <2> QED BY <2>1, <2>2, RemoveSendGood, GoesFine
<1>5. ASSUME p.s = "CloseClient" PROVE Goes(d, f, p, R)
  <2>1. R = CloseClient(d, f) BY <1>5, <1>d DEF FileSteps, NFPSection
  <2>2. d.file[f] # "open" BY <1>5 DEF MarkedAt
  <2> QED BY <2>1, <2>2, CloseClientGoes
<1>6. ASSUME p.s = "SetPayload" PROVE Goes(d, f, p, R)
  <2>1. R = SetPayload(d, f) BY <1>6, <1>d DEF FileSteps, NFPSection
  <2>2. d.file[f] = "open" BY <1>6 DEF MarkedAt, Marked
  <2>3. Fine(d, R, W) BY <1>b, <2>1, <2>2, SetPayloadFine, FineMore
  <2> QED BY <2>3, GoesFine
<1> QED BY <1>0, <1>1, <1>2, <1>3, <1>4, <1>5, <1>6 DEF Marked

LEMMA QuietSectionFine ==
  ASSUME Sound(d), NEW p \in QuietSteps
  PROVE  Fine(d, Section(p), QuietSteps)
<1> DEFINE R == Section(p)
           S == QuietSteps
<1> SUFFICES Fine(d, R, S) OBVIOUS
<1>1. /\ p.s \in QuietNames /\ p.f \in Clients /\ p.x \in Args /\ p.v \in Args /\ p.n \in Known
      /\ p.s \in DispatcherSteps => p.x \in Readers /\ p.v \in Waits
      /\ p.s = "SetRadioState" => p.x \in Hows
      /\ p.s = "AddClientToList" => p.f \in Files
  BY DEF QuietSteps, StepsOf
<1>2. CASE p.s \in CallsRF \ RFCalls /\ d.powered = "off"
  <2>1. R = Fails(d) BY <1>2 DEF Section
  <2> QED BY <2>1, FineDone, GoodSelf
<1>3. CASE ~(p.s \in CallsRF \ RFCalls /\ d.powered = "off")
  <2>0. R = CASE p.s \in FileSteps -> FileSection(d, p.s, p.f, p.x)
              [] p.s \in SESteps -> SESection(d, p.s, p.f, p.x, p.v)
              [] p.s \in DispatcherSteps -> DispatcherSection(d, p.s, p.f, Dispatcher(p.x, p.v), p.n)
              [] p.s \in SCSteps -> SCSection(d, p.s, p.f)
              [] p.s \in ESESteps -> ESESection(d, p.s, p.f, p.x, p.v)
              [] OTHER -> NFPSection(d, p.s, p.f, p.x)
    BY <1>3 DEF Section
  <2>d. /\ FileSteps \cap (SESteps \cup DispatcherSteps \cup SCSteps \cup ESESteps) = {}
        /\ SESteps \cap (DispatcherSteps \cup SCSteps \cup ESESteps) = {}
        /\ DispatcherSteps \cap (SCSteps \cup ESESteps) = {} /\ SCSteps \cap ESESteps = {}
    BY DEF FileSteps, SESteps, DispatcherSteps, SCSteps, ESESteps
  <2> HIDE DEF R, S
  <2>1. CASE p.s \in FileSteps
    <3>1. R = FileSection(d, p.s, p.f, p.x) BY <2>0, <2>1, <2>d
    <3>2. p.s \in FileSteps \ Marked BY <1>1, <2>1 DEF QuietNames
    <3> QED BY <1>1, <3>1, <3>2, FileSectionFine DEF S
  <2>2. CASE p.s \in SESteps
    <3>1. R = SESection(d, p.s, p.f, p.x, p.v) BY <2>0, <2>2, <2>d
    <3> QED BY <1>1, <2>2, <3>1, SESectionFine DEF S
  <2>3. CASE p.s \in DispatcherSteps
    <3>1. R = DispatcherSection(d, p.s, p.f, Dispatcher(p.x, p.v), p.n) BY <2>0, <2>3, <2>d
    <3>2. Dispatcher(p.x, p.v) \in Dispatchers BY <1>1, <2>3 DEF Dispatcher, Dispatchers, Waits
    <3> QED BY <1>1, <2>3, <3>1, <3>2, DispatcherSectionFine DEF S
  <2>4. CASE p.s \in SCSteps
    <3>1. R = SCSection(d, p.s, p.f) BY <2>0, <2>4, <2>d
    <3> QED BY <1>1, <2>4, <3>1, SCSectionFine DEF S
  <2>5. CASE p.s \in ESESteps
    <3>1. R = ESESection(d, p.s, p.f, p.x, p.v) BY <2>0, <2>5, <2>d
    <3> QED BY <1>1, <2>5, <3>1, ESESectionFine DEF S
  <2>6. CASE p.s \notin FileSteps \cup SESteps \cup DispatcherSteps \cup SCSteps \cup ESESteps
    <3>1. R = NFPSection(d, p.s, p.f, p.x) BY <2>0, <2>6
    <3>2. p.s \in ListSteps BY <1>1, <2>6 DEF QuietNames, ListSteps
    <3> QED BY <1>1, <3>1, <3>2, ListSectionFine DEF S
  <2> QED BY <2>1, <2>2, <2>3, <2>4, <2>5, <2>6
<1> QED BY <1>2, <1>3

(* Each section of a file's thread *)
LEMMA FileStepGoes ==
  ASSUME Sound(d), NEW f \in Files, NEW p \in FileWork(f, d.file[f])
  PROVE  Goes(d, f, p, Section(p))
<1>1. CASE p \in QuietSteps
  <2>1. QuietSteps \subseteq FileWork(f, d.file[f]) BY DEF FileWork
  <2>2. Fine(d, Section(p), QuietSteps) BY <1>1, QuietSectionFine
  <2>3. Fine(d, Section(p), FileWork(f, d.file[f])) BY <2>1, <2>2, FineMore
  <2> QED BY <2>3, GoesFine
<1>2. CASE p \notin QuietSteps
  <2>1. p \in StepsOf(MarkedAt(d.file[f])) /\ p.f = f BY <1>2 DEF FileWork
  <2>2. p.s \in MarkedAt(d.file[f]) BY <2>1 DEF StepsOf
  <2> QED BY <2>1, <2>2, MarkedFine
<1> QED BY <1>1, <1>2

RFSteps == StepsOf(RFNames)

LEMMA RFSectionFine ==
  ASSUME Sound(d), NEW p \in RFSteps
  PROVE  /\ p.s # "PeerLost" => Fine(d, Section(p), RFSteps)
         /\ p.s = "PeerLost" => \A r \in Section(p) :
              /\ Steady(d, r.d) /\ r.d.file = d.file
              /\ r.ok /\ r.calls = <<>> /\ r.steps = <<Step("Departure", None, None)>>
         /\ p.s = "Departure" => \A r \in Section(p) : \A call : Served(r.d, call)
<1> DEFINE R == Section(p)
           S == RFSteps
<1>1. /\ p.s \in RFNames /\ p.f \in Clients
      /\ p.s \in DispatcherSteps => p.x \in Readers /\ p.v \in Waits
  BY DEF RFSteps, StepsOf
<1>2. R = CASE p.s \in FileSteps -> FileSection(d, p.s, p.f, p.x)
            [] p.s \in SESteps -> SESection(d, p.s, p.f, p.x, p.v)
            [] p.s \in DispatcherSteps -> DispatcherSection(d, p.s, p.f, Dispatcher(p.x, p.v), p.n)
            [] p.s \in SCSteps -> SCSection(d, p.s, p.f)
            [] p.s \in ESESteps -> ESESection(d, p.s, p.f, p.x, p.v)
            [] OTHER -> NFPSection(d, p.s, p.f, p.x)
  <2>1. p.s \notin CallsRF BY <1>1 DEF RFNames, CallsRF, RFCalls
  <2> QED BY <2>1 DEF Section
<1>3. ASSUME p.s = "FileRemove" PROVE Fine(d, R, S)
  <2>1. R = FileSection(d, p.s, p.f, p.x)
    BY <1>2, <1>3 DEF FileSteps, SESteps, DispatcherSteps, SCSteps, ESESteps
  <2>2. R = FileRemoveReference(d, p.f, p.x) BY <1>3, <2>1 DEF FileSection
  <2> QED BY <2>2, FileRemoveFine
<1>4. ASSUME p.s \in {"CompleteRequest", "Complete"} PROVE Fine(d, R, S)
  <2> DEFINE x == Dispatcher(p.x, p.v)
  <2>1. R = DispatcherSection(d, p.s, p.f, x, p.n)
    BY <1>2, <1>4 DEF FileSteps, SESteps, DispatcherSteps, SCSteps, ESESteps
  <2>2. x \in Dispatchers BY <1>1, <1>4 DEF Dispatcher, Dispatchers, DispatcherSteps, Waits
  <2>3. R \in {CompleteRequest(d, x), Complete(d, x, p.n)} BY <1>4, <2>1 DEF DispatcherSection
  <2>4. {"FileRemove", "Complete"} \subseteq RFNames BY DEF RFNames
  <2> HIDE DEF x
  <2> QED BY <2>2, <2>3, <2>4, CompleteRequestFine, CompleteFine DEF RFSteps
<1>5. ASSUME p.s \in {"SCEstablished", "SCLost"} PROVE Fine(d, R, S)
  <2>1. R = SCSection(d, p.s, p.f)
    BY <1>2, <1>5 DEF FileSteps, SESteps, DispatcherSteps, SCSteps, ESESteps
  <2>2. R \in {HandleSmartCardConnectionEstablished(d), HandleSmartCardConnectionLost(d)}
    BY <1>5, <2>1 DEF SCSection
  <2>3. "CompleteRequest" \in RFNames BY DEF RFNames
  <2> QED BY <2>2, <2>3, EstablishedFine, LostFine DEF RFSteps
<1>6. ASSUME p.s \in {"Message", "TagArrival", "PeerArrival", "Departure", "VerifyAll"}
      PROVE  /\ Fine(d, R, S)
             /\ p.s = "Departure" => \A r \in R : \A call : Served(r.d, call)
  <2>1. R = NFPSection(d, p.s, p.f, p.x)
    BY <1>2, <1>6 DEF FileSteps, SESteps, DispatcherSteps, SCSteps, ESESteps
  <2> QED BY <1>6, <2>1, DeviceSectionFine
<1>7. ASSUME p.s = "PeerLost"
      PROVE  \A r \in R : /\ Steady(d, r.d) /\ r.d.file = d.file
                          /\ r.ok /\ r.calls = <<>> /\ r.steps = <<Step("Departure", None, None)>>
  <2> DEFINE g == [d EXCEPT !.SendList = <<>>]
             q == Step("Departure", None, None)
  <2>1. R = Then(g, <<q>>)
    BY <1>2, <1>7
    DEF FileSteps, SESteps, DispatcherSteps, SCSteps, ESESteps, NFPSection, HandleP2pConnectionLost
  <2>2. /\ DOMAIN g = DOMAIN d /\ \A k \in Fields \ {"SendList"} : g[k] = d[k]
        /\ g.SendList = <<>>
    BY DEF Sound, Fields
  <2> HIDE DEF g, q
  <2>3. /\ g.file = d.file /\ g.Enabled = d.Enabled /\ g.payload = d.payload
        /\ g.DeviceConnected = d.DeviceConnected /\ g.due = d.due
    BY <2>2 DEF Fields
  <2>4. Lists(g) BY <2>2, <2>3 DEF Lists, Sound
  <2>5. \A k \in Fields \ SendFields : g[k] = d[k] BY <2>2 DEF Fields, SendFields
  <2>6. Steady(d, g) BY <2>2, <2>4, <2>5, SteadyBut
  <2>7. \A r \in Then(g, <<q>>) : r.d = g /\ r.ok /\ r.calls = <<>> /\ r.steps = <<q>>
    BY DEF Then, Outcome
  <2> HIDE DEF R
  <2> QED BY <2>1, <2>3, <2>6, <2>7 DEF q
<1> HIDE DEF S
<1>8. p.s # "PeerLost" => Fine(d, R, S) BY <1>1, <1>3, <1>4, <1>5, <1>6 DEF RFNames
<1>9. p.s = "Departure" => \A r \in R : \A call : Served(r.d, call) BY <1>6
<1> QED BY <1>7, <1>8, <1>9 DEF S

(* The lock that the worker holds is that of its current client, or none *)
WorkerNames == Sends \cup {"SendWorker", "Pop", "ClearCurrent", "CheckReadOnly", "ConvertToReadOnly",
                           "CompleteReadOnlyRequests"}

At(e, p) ==
  /\ p.s \in WorkerNames
  /\ p.s = "ClearCurrent" => p.x \in {"Pop", "CheckReadOnly"}
  /\ IF p.s \in Sends THEN e.StateLock = e.SendWorkerCurrentClient ELSE e.StateLock = None

WorkerAt(e, call) ==
  \/ call = <<>> /\ e.StateLock = None
  \/ \E p : call = <<p>> /\ At(e, p)

(* What was served as long as section p was to come still is after it *)
WorkerFine(e, p, R) ==
  \A r \in R : /\ r.ok /\ r.calls = <<>> /\ Sound(r.d) /\ r.d.file = e.file
               /\ WorkerAt(r.d, r.steps)
               /\ Served(e, <<p>>) => Served(r.d, r.steps)

LEMMA WorkerDone ==
  ASSUME NEW e, NEW p, NEW g, Sound(g), g.file = e.file, g.StateLock = None,
         Served(e, <<p>>) => Served(g, <<>>)
  PROVE  WorkerFine(e, p, Done(g))
<1>1. \A r \in Done(g) : r.ok /\ r.calls = <<>> /\ r.d = g /\ r.steps = <<>> BY DEF Done, Outcome
<1>2. WorkerAt(g, <<>>) BY DEF WorkerAt
<1> QED BY <1>1, <1>2 DEF WorkerFine

LEMMA WorkerThen ==
  ASSUME NEW e, NEW p, NEW g, Sound(g), g.file = e.file, NEW q, At(g, q),
         Served(e, <<p>>) => Served(g, <<q>>)
  PROVE  WorkerFine(e, p, Then(g, <<q>>))
<1>1. WorkerAt(g, <<q>>) BY DEF WorkerAt
<1>2. \A r \in Then(g, <<q>>) : r.ok /\ r.calls = <<>> /\ r.d = g /\ r.steps = <<q>>
  BY DEF Then, Outcome
<1> QED BY <1>1, <1>2 DEF WorkerFine

LEMMA AtStep ==
  ASSUME NEW e, NEW s \in WorkerNames, NEW f, NEW x, NEW v,
         s = "ClearCurrent" => x \in {"Pop", "CheckReadOnly"},
         IF s \in Sends THEN e.StateLock = e.SendWorkerCurrentClient ELSE e.StateLock = None
  PROVE  At(e, StepTo(s, f, x, v))
  BY DEF At, StepTo, StepFor

LEMMA AtStep3 ==
  ASSUME NEW e, NEW s \in WorkerNames \ {"ClearCurrent"}, NEW f, NEW x,
         IF s \in Sends THEN e.StateLock = e.SendWorkerCurrentClient ELSE e.StateLock = None
  PROVE  At(e, Step(s, f, x))
  BY AtStep DEF Step

LEMMA HandsIs ==
  ASSUME NEW p
  PROVE  /\ \A f : Hands(<<p>>, f) <=> p.s \in Sends /\ p.f = f
         /\ Busy(<<p>>) <=> \/ p.s \in Sends \cup {"SendWorker", "Pop"}
                            \/ p.s = "ClearCurrent" /\ p.x = "Pop"
         /\ ~Busy(<<>>) /\ \A f : ~Hands(<<>>, f)
<1>1. \A q : <<q>> = <<p>> => q = p
  <2> TAKE q
  <2>1. <<q>>[1] = q /\ <<p>>[1] = p OBVIOUS
  <2> QED BY <2>1
<1>2. \A q : <<>> # <<q>> OBVIOUS
<1> QED BY <1>1, <1>2 DEF Hands, Busy

(* The worker's next section takes over what this one has in hand *)
LEMMA HandedOn ==
  ASSUME NEW g, NEW p, NEW q, Served(g, <<p>>),
         p.s \in Sends => q.s \in Sends /\ q.f = p.f,
         Busy(<<p>>) => Busy(<<q>>)
  PROVE  Served(g, <<q>>)
  BY HandsIs DEF Served

LEMMA NothingInHand ==
  ASSUME NEW g, NEW p, Served(g, <<p>>), p.s \notin Sends, ~Busy(<<p>>)
  PROVE  \A call : Served(g, call)
  BY HandsIs DEF Served

(* What the worker changes *)
LEMMA WorkedSound ==
  ASSUME NEW e, Sound(e), NEW g, DOMAIN g = DOMAIN e,
         \A k \in Fields \ {"StateLock", "SendWorkerCurrentClient", "SendList", "workItem", "tried",
                            "stopped"} : g[k] = e[k],
         g.SendList \in Seq(Clients)
  PROVE  Sound(g) /\ g.file = e.file /\ g.due = e.due /\ g.skipped = e.skipped
<1>1. /\ g.file = e.file /\ g.Enabled = e.Enabled /\ g.payload = e.payload
      /\ g.DeviceConnected = e.DeviceConnected /\ g.due = e.due /\ g.skipped = e.skipped
      /\ g.PubsList = e.PubsList /\ g.CurrentRequest = e.CurrentRequest
  BY DEF Fields
<1>2. Lists(g) BY <1>1 DEF Lists, Sound
<1>3. \A k \in Fields \ (SendFields \cup {"StateLock", "SendWorkerCurrentClient", "PubsList",
                                          "CurrentRequest"}) : g[k] = e[k]
  BY DEF Fields, SendFields
<1>4. Sound(g) BY <1>1, <1>2, <1>3, SoundBut DEF Sound
<1> QED BY <1>1, <1>4

(* Publication f has been tried *)
Tried(e, f, g) ==
  /\ DOMAIN g = DOMAIN e /\ \A k \in Fields \ {"StateLock", "tried", "stopped"} : g[k] = e[k]
  /\ g.StateLock = None /\ g.tried = e.tried \cup {f}

Cleared(f, x) == <<StepTo("ClearCurrent", f, x, None)>>
Stops(e, x, g) == IF x = "Pop" THEN g.stopped = e.stopped ELSE g.stopped = TRUE

LEMMA TriedFine ==
  ASSUME NEW e, Sound(e), NEW p, p.s \in {"WriteTag", "WriteP2P"}, NEW g, Tried(e, p.f, g),
         NEW x, x \in {"Pop", "CheckReadOnly"}, Stops(e, x, g)
  PROVE  WorkerFine(e, p, Then(g, Cleared(p.f, x)))
<1> DEFINE q == StepTo("ClearCurrent", p.f, x, None)
<1>1. g.SendList = e.SendList /\ e.SendList \in Seq(Clients) BY DEF Tried, Fields, Sound, Lists
<1>2. Sound(g) /\ g.file = e.file /\ g.due = e.due /\ g.skipped = e.skipped
  BY <1>1, WorkedSound DEF Tried
<1>3. At(g, q) BY AtStep DEF WorkerNames, Sends, Tried
<1>4. q.s = "ClearCurrent" /\ q.x = x BY DEF StepTo, StepFor
<1> HIDE DEF q
<1>5. ASSUME Served(e, <<p>>) PROVE Served(g, <<q>>)
  <2>1. CASE x = "Pop"
    <3>1. Busy(<<q>>) BY <1>4, <2>1, HandsIs
    <3>2. g.stopped = e.stopped BY <2>1 DEF Stops
    <3>3. Due(g) = Due(e) \ {p.f} BY <1>2 DEF Due, Tried
    <3>4. \A f \in Due(g) : f \in Due(e) /\ ~Hands(<<p>>, f) BY <3>3, HandsIs
    <3> QED BY <1>1, <1>2, <1>5, <3>1, <3>2, <3>4 DEF Served
  <2>2. CASE x # "Pop" BY <2>2 DEF Served, Stops
  <2> QED BY <2>1, <2>2
<1>6. WorkerFine(e, p, Then(g, <<q>>)) BY <1>2, <1>3, <1>5, WorkerThen
<1> QED BY <1>6 DEF q, Cleared

LEMMA SentIs ==
  ASSUME NEW e, Sound(e), NEW f
  PROVE  /\ Tried(e, f, Sent(e, f)) /\ Sent(e, f).stopped = e.stopped
         /\ Tried(e, f, NotSent(e, f)) /\ NotSent(e, f).stopped = e.stopped
<1> DEFINE t == e.tried \cup {f}
           b == Delivered(f, e.box[f], TRUE)
           c == [e EXCEPT !.box[f] = b]
           g == [c EXCEPT !.StateLock = None, !.tried = t]
           h == [e EXCEPT !.StateLock = None, !.tried = t]
<1>1. Sent(e, f) = g
  <2>1. c.tried = e.tried BY DEF Sound, Fields
  <2> QED BY <2>1 DEF Sent, Deliver
<1>2. NotSent(e, f) = h BY DEF NotSent
<1> HIDE DEF b, t
<1>3. /\ DOMAIN g = DOMAIN e /\ g.StateLock = None /\ g.tried = t
      /\ \A k \in Fields \ {"StateLock", "tried"} : g[k] = e[k]
  BY DEF Sound, Fields
<1>4. /\ DOMAIN h = DOMAIN e /\ h.StateLock = None /\ h.tried = t
      /\ \A k \in Fields \ {"StateLock", "tried"} : h[k] = e[k]
  BY DEF Sound, Fields
<1> HIDE DEF g, h
<1>5. Tried(e, f, g) /\ Tried(e, f, h) BY <1>3, <1>4 DEF Tried, t
<1>6. g.stopped = e.stopped /\ h.stopped = e.stopped BY <1>3, <1>4 DEF Fields
<1> QED BY <1>1, <1>2, <1>5, <1>6

(* The head of the list comes into the worker's hands, unless it may not be sent *)
LEMMA PopFine ==
  ASSUME NEW e, Sound(e), e.StateLock = None, NEW p, p.s = "Pop"
  PROVE  WorkerFine(e, p, Pop(e))
<1> DEFINE f == Head(e.SendList)
           l == Tail(e.SendList)
           n == [e EXCEPT !.SendList = l, !.SendWorkerCurrentClient = f]
           g == [n EXCEPT !.StateLock = f]
           c == Step("CheckReadOnly", None, None)
           o == Step("Choose", f, None)
           q == Step("Pop", None, None)
<1>1. Pop(e) = IF e.SendList = <<>> THEN Then(e, <<c>>)
               ELSE IF e.Enabled[f] THEN Then(g, <<o>>) ELSE Then(n, <<q>>)
  BY DEF Pop
<1>2. e.SendList \in Seq(Clients) /\ e.due \subseteq {h \in Files : e.Enabled[h]}
  BY DEF Sound, Lists
<1>3. ~Hands(<<p>>, None) /\ \A h : ~Hands(<<p>>, h) BY HandsIs DEF Sends
<1>4. CASE e.SendList = <<>>
  <2>1. At(e, c) BY AtStep3 DEF WorkerNames, Sends
  <2>2. ToSet(e.SendList) = {} BY <1>4 DEF ToSet
  <2>3. Served(e, <<p>>) => Served(e, <<c>>) BY <1>3, <2>2 DEF Served
  <2> HIDE DEF c
  <2> QED BY <1>1, <1>4, <2>1, <2>3, WorkerThen
<1>5. CASE e.SendList # <<>>
  <2>1. l \in Seq(Clients) /\ \A h \in ToSet(e.SendList) : h # f => h \in ToSet(l)
    <3>1. l \in Seq(Clients) BY <1>2, <1>5
    <3>2. \A i \in DOMAIN e.SendList : i # 1 => i - 1 \in DOMAIN l /\ l[i - 1] = e.SendList[i]
      BY <1>2, <1>5
    <3>3. f = e.SendList[1] BY <1>2, <1>5
    <3> HIDE DEF l, f
    <3> QED BY <3>1, <3>2, <3>3 DEF ToSet
  <2> HIDE DEF f, l
  <2>2. /\ DOMAIN n = DOMAIN e /\ n.StateLock = e.StateLock /\ n.SendList = l
        /\ \A k \in Fields \ {"SendList", "SendWorkerCurrentClient"} : n[k] = e[k]
    BY DEF Sound, Fields
  <2>3. /\ DOMAIN g = DOMAIN e /\ g.StateLock = g.SendWorkerCurrentClient /\ g.SendList = l
        /\ \A k \in Fields \ {"SendList", "StateLock", "SendWorkerCurrentClient"} : g[k] = e[k]
    BY DEF Sound, Fields
  <2> HIDE DEF n, g
  <2>4. Sound(n) /\ n.file = e.file /\ n.due = e.due /\ n.skipped = e.skipped
    BY <2>1, <2>2, WorkedSound
  <2>5. Sound(g) /\ g.file = e.file /\ g.due = e.due /\ g.skipped = e.skipped
    BY <2>1, <2>3, WorkedSound
  <2>6. /\ n.tried = e.tried /\ n.stopped = e.stopped
        /\ g.tried = e.tried /\ g.stopped = e.stopped
    BY <2>2, <2>3 DEF Fields
  <2>7. Due(n) = Due(e) /\ Due(g) = Due(e) BY <2>4, <2>5, <2>6 DEF Due
  <2>8. At(n, q) /\ At(g, o) BY <2>2, <2>3, AtStep3 DEF WorkerNames, Sends
  <2>9. q.s = "Pop" /\ o.s = "Choose" /\ o.f = f BY DEF Step, StepTo, StepFor
  <2> HIDE DEF q, o
  <2>10. Busy(<<q>>) /\ Busy(<<o>>) /\ Hands(<<o>>, f) BY <2>9, HandsIs DEF Sends
  <2>11. CASE e.Enabled[f]
    <3>1. Served(e, <<p>>) => Served(g, <<o>>)
      BY <1>3, <2>1, <2>3, <2>5, <2>6, <2>7, <2>10 DEF Served
    <3>2. WorkerFine(e, p, Then(g, <<o>>)) BY <2>5, <2>8, <3>1, WorkerThen
    <3> QED BY <1>1, <1>5, <2>11, <3>2
  <2>12. CASE ~e.Enabled[f]
    <3>1. \A h \in Due(e) : h # f BY <1>2, <2>12 DEF Due
    <3>2. Served(e, <<p>>) => Served(n, <<q>>)
      BY <1>3, <2>1, <2>2, <2>4, <2>6, <2>7, <2>10, <3>1 DEF Served
    <3>3. WorkerFine(e, p, Then(n, <<q>>)) BY <2>4, <2>8, <3>2, WorkerThen
    <3> QED BY <1>1, <1>5, <2>12, <3>3
  <2> QED BY <2>11, <2>12
<1> QED BY <1>4, <1>5

LEMMA SendFine ==
  ASSUME NEW e, Sound(e), NEW p, p.s \in {"WriteTag", "WriteP2P"}
  PROVE  WorkerFine(e, p, WriteTag(e, p.f)) /\ WorkerFine(e, p, WriteP2P(e, p.f))
<1> DEFINE f == p.f
           b == e.WriteAttempted \/ e.card = "tag"
           w == [e EXCEPT !.WriteAttempted = b]
           n == NotSent(e, f)
           g == [n EXCEPT !.stopped = TRUE]
<1>1. WriteTag(e, f) = Then(NotSent(w, f), Cleared(f, "Pop"))
        \cup IF e.card = "tag" /\ ~e.WriteAttempted THEN Then(Sent(w, f), Cleared(f, "Pop")) ELSE {}
  BY DEF WriteTag, Cleared
<1>2. WriteP2P(e, f) = Then(g, Cleared(f, "CheckReadOnly"))
        \cup IF e.card = "peer" THEN Then(Sent(e, f), Cleared(f, "Pop")) ELSE {}
  BY DEF WriteP2P, Cleared
<1> HIDE DEF b
<1>3. DOMAIN w = DOMAIN e /\ \A k \in Fields : w[k] = e[k] BY DEF Sound, Fields
<1> HIDE DEF w
<1>4. Good(e, w) /\ Sound(w) BY <1>3, Untouched DEF Good, Steady
<1>5. \A h : Tried(w, f, h) => Tried(e, f, h)
  <2>1. w.tried = e.tried BY <1>3 DEF Fields
  <2> QED BY <1>3, <2>1 DEF Tried
<1>6. w.stopped = e.stopped BY <1>3 DEF Fields
<1>7. Tried(e, f, n) BY SentIs
<1> HIDE DEF n
<1>8. /\ DOMAIN g = DOMAIN n /\ g.stopped = TRUE /\ g.StateLock = n.StateLock /\ g.tried = n.tried
      /\ \A k \in Fields \ {"stopped"} : g[k] = n[k]
  BY <1>7 DEF Tried, Sound, Fields
<1> HIDE DEF g
<1>9. Tried(e, f, g) BY <1>7, <1>8 DEF Tried
<1>10. \A h : Tried(e, f, h) /\ h.stopped = e.stopped => WorkerFine(e, p, Then(h, Cleared(f, "Pop")))
  <2> SUFFICES ASSUME NEW h, Tried(e, f, h), h.stopped = e.stopped
               PROVE  WorkerFine(e, p, Then(h, Cleared(f, "Pop")))
    OBVIOUS
  <2>1. Stops(e, "Pop", h) BY DEF Stops
  <2> QED BY <2>1, TriedFine
<1>11. WorkerFine(e, p, Then(g, Cleared(f, "CheckReadOnly")))
  <2>1. Stops(e, "CheckReadOnly", g) BY <1>8 DEF Stops
  <2> QED BY <1>9, <2>1, TriedFine
<1>12. /\ WorkerFine(e, p, Then(NotSent(w, f), Cleared(f, "Pop")))
       /\ WorkerFine(e, p, Then(Sent(w, f), Cleared(f, "Pop")))
       /\ WorkerFine(e, p, Then(Sent(e, f), Cleared(f, "Pop")))
  <2> QED BY <1>4, <1>5, <1>6, <1>10, SentIs
<1>13. \A P, Q : WorkerFine(e, p, P) /\ WorkerFine(e, p, Q) =>
                   WorkerFine(e, p, P \cup Q) /\ WorkerFine(e, p, P \cup {})
  BY DEF WorkerFine
<1> QED BY <1>1, <1>2, <1>11, <1>12, <1>13

LEMMA WorkerSectionFine ==
  ASSUME Sound(d), NEW p, At(d, p)
  PROVE  WorkerFine(d, p, Section(p))
<1> DEFINE R == Section(p)
           f == p.f
<1> SUFFICES WorkerFine(d, p, R) OBVIOUS
<1>1. p.s \in WorkerNames /\ (p.s \notin Sends => d.StateLock = None) BY DEF At
<1>2. R = NFPSection(d, p.s, f, p.x)
  <2>1. p.s \notin CallsRF \ RFCalls
    BY <1>1 DEF WorkerNames, Sends, CallsRF, RFCalls
  <2>2. p.s \notin FileSteps \cup SESteps \cup DispatcherSteps \cup SCSteps \cup ESESteps
    BY <1>1 DEF WorkerNames, Sends, FileSteps, SESteps, DispatcherSteps, SCSteps, ESESteps
  <2> QED BY <2>1, <2>2 DEF Section
<1> HIDE DEF R
<1>a. d.SendList \in Seq(Clients) BY DEF Sound, Lists
<1>b. p.s \in {"CheckReadOnly", "ConvertToReadOnly", "CompleteReadOnlyRequests"} =>
        /\ p.s \notin Sends /\ ~Busy(<<p>>) /\ d.StateLock = None
  BY <1>1, HandsIs DEF Sends
<1>c. ASSUME NEW g, Good(d, g), p.s \notin Sends, ~Busy(<<p>>)
      PROVE  Served(d, <<p>>) => \A call : Served(g, call)
  <2>1. Served(d, <<p>>) => Served(g, <<p>>) BY <1>c DEF Good, Serves
  <2> QED BY <1>c, <2>1, NothingInHand
<1>3. ASSUME p.s = "SendWorker" PROVE WorkerFine(d, p, R)
  <2> DEFINE w == [d EXCEPT !.workItem = FALSE]
             q == Step("Pop", None, None)
  <2>1. R = IF d.DeviceConnected THEN Then(w, <<q>>) ELSE Done(w)
    BY <1>2, <1>3 DEF NFPSection, SendWorker
  <2>2. DOMAIN w = DOMAIN d /\ \A k \in Fields \ {"workItem"} : w[k] = d[k] BY DEF Sound, Fields
  <2> HIDE DEF w
  <2>3. /\ w.SendList = d.SendList /\ w.StateLock = None
        /\ w.tried = d.tried /\ w.stopped = d.stopped
    BY <1>1, <1>3, <2>2 DEF Fields, Sends
  <2>4. Sound(w) /\ w.file = d.file /\ w.due = d.due /\ w.skipped = d.skipped
    BY <1>a, <2>2, <2>3, WorkedSound
  <2>5. At(w, q) BY <2>3, AtStep3 DEF WorkerNames, Sends
  <2>6. q.s = "Pop" BY DEF Step, StepTo, StepFor
  <2> HIDE DEF q
  <2>7. Busy(<<q>>) /\ \A h : ~Hands(<<p>>, h) BY <1>3, <2>6, HandsIs DEF Sends
  <2>8. Due(w) = Due(d) BY <2>3, <2>4 DEF Due
  <2>9. Served(d, <<p>>) => Served(w, <<q>>) BY <2>3, <2>4, <2>7, <2>8 DEF Served
  <2>10. CASE d.DeviceConnected BY <2>1, <2>4, <2>5, <2>9, <2>10, WorkerThen
  <2>11. CASE ~d.DeviceConnected
    <3>1. d.due = {} BY <2>11 DEF Sound, Lists
    <3>2. Served(w, <<>>) BY <2>8, <3>1 DEF Served, Due
    <3> QED BY <2>1, <2>3, <2>4, <2>11, <3>2, WorkerDone
  <2> QED BY <2>10, <2>11
<1>4. ASSUME p.s = "Pop" PROVE WorkerFine(d, p, R)
  <2>1. R = Pop(d) BY <1>2, <1>4 DEF NFPSection
  <2> QED BY <1>1, <1>4, <2>1, PopFine DEF Sends
<1>5. ASSUME p.s = "Choose" PROVE WorkerFine(d, p, R)
  <2>1. \E s \in {"WriteTag", "WriteP2P"} : R = Then(d, <<Step(s, f, None)>>)
    BY <1>2, <1>5 DEF NFPSection, Choose
  <2>2. d.StateLock = d.SendWorkerCurrentClient BY <1>5 DEF At, Sends
  <2>3. ASSUME NEW s \in {"WriteTag", "WriteP2P"}
        PROVE  WorkerFine(d, p, Then(d, <<Step(s, f, None)>>))
    <3> DEFINE q == Step(s, f, None)
    <3>1. At(d, q) BY <2>2, AtStep3 DEF WorkerNames, Sends
    <3>2. q.s = s /\ q.f = p.f BY DEF Step, StepTo, StepFor
    <3> HIDE DEF q
    <3>3. q.s \in Sends /\ Busy(<<q>>) BY <3>2, HandsIs DEF Sends
    <3>4. Served(d, <<p>>) => Served(d, <<q>>) BY <3>2, <3>3, HandedOn
    <3>5. WorkerFine(d, p, Then(d, <<q>>)) BY <3>1, <3>4, WorkerThen
    <3> QED BY <3>5 DEF q
  <2> QED BY <2>1, <2>3
<1>6. ASSUME p.s \in {"WriteTag", "WriteP2P"} PROVE WorkerFine(d, p, R)
  <2>1. R \in {WriteTag(d, f), WriteP2P(d, f)} BY <1>2, <1>6 DEF NFPSection
  <2> QED BY <1>6, <2>1, SendFine
<1>7. ASSUME p.s = "ClearCurrent" PROVE WorkerFine(d, p, R)
  <2> DEFINE g == [d EXCEPT !.SendWorkerCurrentClient = None]
             q == Step(p.x, None, None)
  <2>1. R = Then(g, <<q>>) BY <1>2, <1>7 DEF NFPSection, ClearCurrent
  <2>2. /\ DOMAIN g = DOMAIN d /\ \A k \in Fields \ {"SendWorkerCurrentClient"} : g[k] = d[k]
    BY DEF Sound, Fields
  <2> HIDE DEF g
  <2>3. g.StateLock = None /\ g.SendList = d.SendList BY <1>1, <1>7, <2>2 DEF Fields, Sends
  <2>4. Sound(g) BY <1>a, <2>2, <2>3, WorkedSound
  <2>5. p.x \in {"Pop", "CheckReadOnly"} BY <1>7 DEF At
  <2>6. At(g, q) BY <2>3, <2>5, AtStep3 DEF WorkerNames, Sends
  <2>7. q.s = p.x BY DEF Step, StepTo, StepFor
  <2> HIDE DEF q
  <2>8. p.s \notin Sends /\ (Busy(<<p>>) => Busy(<<q>>)) BY <1>7, <2>7, HandsIs DEF Sends
  <2>9. \A k \in SendFields : g[k] = d[k] BY <2>2 DEF Fields, SendFields
  <2>10. Serves(d, g) /\ g.file = d.file BY <2>9, SendsSame DEF Sound
  <2>11. Served(d, <<p>>) => Served(g, <<p>>) BY <2>10 DEF Serves
  <2>12. Served(d, <<p>>) => Served(g, <<q>>) BY <2>8, <2>11, HandedOn
  <2> QED BY <2>1, <2>4, <2>6, <2>10, <2>12, WorkerThen
<1>8. ASSUME p.s = "CheckReadOnly" PROVE WorkerFine(d, p, R)
  <2> DEFINE q == Step("ConvertToReadOnly", None, None)
  <2>1. R = Done(d) \/ R = Then(d, <<q>>)
    BY <1>2, <1>8 DEF NFPSection, CheckReadOnly
  <2>2. At(d, q) BY <1>8, <1>b, AtStep3 DEF WorkerNames, Sends
  <2> HIDE DEF q
  <2>3. Served(d, <<p>>) => \A call : Served(d, call) BY <1>8, <1>b, <1>c, GoodSelf
  <2>4. WorkerFine(d, p, Done(d)) BY <1>8, <1>b, <2>3, WorkerDone
  <2>5. WorkerFine(d, p, Then(d, <<q>>)) BY <2>2, <2>3, WorkerThen
  <2> QED BY <2>1, <2>4, <2>5
<1>9. ASSUME p.s = "ConvertToReadOnly" PROVE WorkerFine(d, p, R)
  <2> DEFINE g == [d EXCEPT !.ReadOnlyAttempted = TRUE]
             q == Step("CompleteReadOnlyRequests", None, None)
  <2>1. R = Done(d) \/ R = Done(g) \cup Then(g, <<q>>)
    BY <1>2, <1>9 DEF NFPSection, ConvertToReadOnly
  <2>2. DOMAIN g = DOMAIN d /\ \A k \in Fields : g[k] = d[k] BY DEF Sound, Fields
  <2> HIDE DEF g
  <2>3. Good(d, g) /\ Good(d, d) BY <2>2, Untouched, GoodSelf
  <2>4. /\ Sound(g) /\ g.StateLock = None /\ g.file = d.file /\ d.StateLock = None
    BY <1>9, <1>b, <2>3 DEF Good, Steady
  <2>5. At(g, q) BY <2>4, AtStep3 DEF WorkerNames, Sends
  <2> HIDE DEF q
  <2>6. Served(d, <<p>>) => \A call : Served(d, call) /\ Served(g, call) BY <1>9, <1>b, <1>c, <2>3
  <2>7. WorkerFine(d, p, Done(d)) /\ WorkerFine(d, p, Done(g)) /\ WorkerFine(d, p, Then(g, <<q>>))
    BY <2>4, <2>5, <2>6, WorkerDone, WorkerThen
  <2>8. WorkerFine(d, p, Done(g) \cup Then(g, <<q>>)) BY <2>7 DEF WorkerFine
  <2> QED BY <2>1, <2>7, <2>8
<1>10. ASSUME p.s = "CompleteReadOnlyRequests" PROVE WorkerFine(d, p, R)
  <2> DEFINE F == {h \in ToSet(d.PubsList) : IsTagReadOnlyClient(h)}
             g == DeliverAll(d, F, TRUE)
  <2>1. R = Done(g) BY <1>2, <1>10 DEF NFPSection, CompleteReadOnlyRequests
  <2>2. Good(d, g) BY DeliverAllGood
  <2> HIDE DEF g
  <2>3. Sound(g) /\ g.StateLock = None /\ g.file = d.file BY <1>10, <1>b, <2>2 DEF Good, Steady
  <2>4. Served(d, <<p>>) => Served(g, <<>>) BY <1>10, <1>b, <1>c, <2>2
  <2> QED BY <2>1, <2>3, <2>4, WorkerDone
<1> QED BY <1>1, <1>3, <1>4, <1>5, <1>6, <1>7, <1>8, <1>9, <1>10 DEF WorkerNames, Sends

(***************************************************************************)
(* The invariant: what each thread has still to do is of its own kind, the *)
(* send worker holds the lock that its next section says, and what is to   *)
(* be sent is on its way, unless the device that it is for is leaving.     *)
(***************************************************************************)
WorkOf(t, e) == IF t \in Files THEN FileWork(t, e.file[t])
                ELSE IF t = "rf" THEN RFSteps ELSE QuietSteps

Working ==
  \/ todo["worker"] = <<>> /\ d.StateLock = None
  \/ \E p : todo["worker"] = <<<<p>>>> /\ At(d, p)

FirstOf(work) == IF work = <<>> THEN <<>> ELSE Head(work)
Leaving(work) == work # <<>> /\ Head(Head(work)).s = "Departure"
Serving == Leaving(todo["rf"]) \/ Served(d, FirstOf(todo["worker"]))

Kept ==
  /\ Sound(d)
  /\ left \in Scenario
  /\ DOMAIN todo = Threads
  /\ \A t \in Threads \ {"worker"} : todo[t] \in CallsOf(WorkOf(t, d))
  /\ Working
  /\ Serving

LEMMA ThreadsAre ==
  /\ Threads \ {"worker"} = Files \cup {"rf", "cancel", "beside"}
  /\ {"rf", "worker", "cancel", "beside"} \cap Files = {}
  /\ "rf" \in Threads /\ "worker" \in Threads /\ "cancel" \in Threads /\ "beside" \in Threads
  BY ThreadsAssumption DEF Threads

LEMMA WorkIs ==
  ASSUME NEW e
  PROVE  /\ \A f \in Files : WorkOf(f, e) = FileWork(f, e.file[f])
         /\ WorkOf("rf", e) = RFSteps
         /\ WorkOf("cancel", e) = QuietSteps /\ WorkOf("beside", e) = QuietSteps
  BY ThreadsAre DEF WorkOf

LEMMA WorkSame ==
  ASSUME NEW e, NEW g, NEW t, t \in Files => g.file[t] = e.file[t]
  PROVE  WorkOf(t, g) = WorkOf(t, e)
  BY DEF WorkOf

LEMMA WorkingKept ==
  ASSUME Working, todo'["worker"] = todo["worker"], d'.StateLock = d.StateLock,
         d'.SendWorkerCurrentClient = d.SendWorkerCurrentClient
  PROVE  Working'
<1>1. CASE todo["worker"] = <<>> /\ d.StateLock = None BY <1>1 DEF Working
<1>2. CASE \E p : todo["worker"] = <<<<p>>>> /\ At(d, p)
  <2>1. PICK p : todo["worker"] = <<<<p>>>> /\ At(d, p) BY <1>2
  <2>2. At(d', p) BY <2>1 DEF At
  <2>3. At(d, p)' BY <2>2
  <2> QED BY <2>1, <2>2 DEF Working
<1> QED BY <1>1, <1>2 DEF Working

LEMMA ServingKept ==
  ASSUME Serving, Serves(d, d'), todo'["worker"] = todo["worker"],
         Leaving(todo["rf"]) => Leaving(todo'["rf"])
  PROVE  Serving'
<1>1. CASE Leaving(todo["rf"]) BY <1>1 DEF Serving, Leaving
<1>2. CASE Served(d, FirstOf(todo["worker"]))
  <2>1. Served(d', FirstOf(todo'["worker"])) BY <1>2 DEF Serves
  <2> QED BY <2>1 DEF Serving, Served, FirstOf, Due, Hands, Busy
<1> QED BY <1>1, <1>2 DEF Serving

LEMMA KeptAll ==
  ASSUME Kept, Good(d, d'), UNCHANGED todo, left' \in Scenario
  PROVE  Kept'
<1>1. Working' BY WorkingKept DEF Kept, Good, Steady
<1>2. Serving' BY ServingKept DEF Kept, Good
<1>3. \A t \in Threads \ {"worker"} : WorkOf(t, d') = WorkOf(t, d) BY WorkSame DEF Good
<1>4. \A t \in Threads \ {"worker"} : todo'[t] \in CallsOf(WorkOf(t, d')) BY <1>3 DEF Kept
<1> QED BY <1>1, <1>2, <1>4 DEF Kept, Good, Steady

(* The work of one thread changes, and the life of its own file at most *)
LEMMA KeptBut ==
  ASSUME Kept, Steady(d, d'), left' \in Scenario, NEW t \in Threads \ {"worker"}, NEW calls,
         todo' = [todo EXCEPT ![t] = calls], calls \in CallsOf(WorkOf(t, d')),
         \A u \in Files \ {t} : d'.file[u] = d.file[u],
         \/ Leaving(todo'["rf"])
         \/ Served(d, FirstOf(todo["worker"])) /\ Serves(d, d')
         \/ \A call : Served(d', call)
  PROVE  Kept'
<1>1. DOMAIN todo = Threads BY DEF Kept
<1>2. /\ DOMAIN todo' = Threads /\ todo'[t] = calls
      /\ \A u \in Threads \ {t} : todo'[u] = todo[u]
  BY <1>1
<1>3. todo'["worker"] = todo["worker"] BY <1>2, ThreadsAre
<1>4. Working' BY <1>3, WorkingKept DEF Kept, Steady
<1>5. \A u \in Threads \ {"worker"} : todo'[u] \in CallsOf(WorkOf(u, d'))
  <2> TAKE u \in Threads \ {"worker"}
  <2>1. CASE u = t BY <1>2, <2>1
  <2>2. CASE u # t
    <3>1. WorkOf(u, d') = WorkOf(u, d) BY <2>2, WorkSame
    <3> QED BY <1>2, <2>2, <3>1 DEF Kept
  <2> QED BY <2>1, <2>2
<1>6. Serving'
  <2>1. Leaving(todo'["rf"]) \/ Served(d', FirstOf(todo'["worker"])) BY <1>3 DEF Serves
  <2> QED BY <2>1 DEF Serving, Served, FirstOf, Due, Hands, Busy, Leaving
<1> QED BY <1>2, <1>4, <1>5, <1>6 DEF Kept, Steady

(* Another than the RF thread goes on *)
LEMMA KeptFor ==
  ASSUME Kept, Steady(d, d'), Serves(d, d'), left' \in Scenario,
         NEW t \in Files \cup {"cancel", "beside"}, NEW calls,
         todo' = [todo EXCEPT ![t] = calls], calls \in CallsOf(WorkOf(t, d')),
         \A u \in Files \ {t} : d'.file[u] = d.file[u]
  PROVE  Kept'
<1>1. t \in Threads \ {"worker"} /\ t # "rf" BY ThreadsAre
<1>2. todo'["rf"] = todo["rf"] BY <1>1, ThreadsAre DEF Kept
<1>3. CASE Leaving(todo["rf"])
  <2>1. Leaving(todo'["rf"]) BY <1>2, <1>3
  <2> QED BY <1>1, <2>1, KeptBut
<1>4. CASE Served(d, FirstOf(todo["worker"])) BY <1>1, <1>4, KeptBut
<1> QED BY <1>3, <1>4 DEF Kept, Serving

(* The RF thread begins something *)
LEMMA KeptField ==
  ASSUME Kept, Good(d, d'), left' \in Scenario, Idle("rf"), NEW calls \in CallsOf(RFSteps),
         todo' = [todo EXCEPT !["rf"] = calls]
  PROVE  Kept'
<1>1. "rf" \in Threads \ {"worker"} BY ThreadsAre
<1>2. Served(d, FirstOf(todo["worker"])) BY DEF Kept, Serving, Leaving, Idle
<1>3. calls \in CallsOf(WorkOf("rf", d')) BY WorkIs
<1> QED BY <1>1, <1>2, <1>3, KeptBut DEF Good

LEMMA RestIs ==
  ASSUME NEW S, NEW t, todo[t] \in CallsOf(S), ~Idle(t),
         NEW r, r.steps \in Seq(S), r.calls \in CallsOf(S)
  PROVE  Rest(t, r) \in CallsOf(S)
<1> DEFINE T == Seq(S) \ {<<>>}
           work == todo[t]
           call == Head(work)
           more == r.steps \o Tail(call)
           rest == IF r.ok THEN more ELSE <<>>
           c == Calls(rest)
<1>1. work \in Seq(T) /\ work # <<>> BY DEF CallsOf, Idle
<1>2. call \in T /\ Tail(work) \in Seq(T) BY <1>1
<1>3. Rest(t, r) = IF Head(call).s = "Opened" THEN <<>> ELSE r.calls \o c \o Tail(work)
  BY DEF Rest
<1>4. Tail(call) \in Seq(S) BY <1>2
<1>5. rest \in Seq(S)
  <2>1. more \in Seq(S) BY <1>4
  <2> HIDE DEF more
  <2> QED BY <2>1
<1> HIDE DEF rest
<1>6. c \in Seq(T)
  <2>1. CASE rest = <<>> BY <2>1 DEF Calls
  <2>2. CASE rest # <<>>
    <3>1. rest \in T /\ c = <<rest>> BY <1>5, <2>2 DEF Calls
    <3> HIDE DEF T, c
    <3> QED BY <3>1
  <2> QED BY <2>1, <2>2
<1>7. r.calls \in Seq(T) BY DEF CallsOf
<1> HIDE DEF c, call, work, T
<1>8. r.calls \o c \o Tail(work) \in Seq(T) BY <1>2, <1>6, <1>7
<1>9. Rest(t, r) \in Seq(T) BY <1>3, <1>8
<1> QED BY <1>9 DEF CallsOf, T

LEMMA FirstIs ==
  ASSUME NEW S, NEW t, todo[t] \in CallsOf(S), ~Idle(t)
  PROVE  Head(Head(todo[t])) \in S
<1> DEFINE T == Seq(S) \ {<<>>}
<1>1. todo[t] \in Seq(T) /\ todo[t] # <<>> BY DEF CallsOf, Idle
<1>2. Head(todo[t]) \in T BY <1>1
<1> QED BY <1>2

LEMMA RunFile ==
  ASSUME Kept, NEW f \in Files, Run(f)
  PROVE  Kept'
<1> DEFINE p == Head(Head(todo[f]))
           W == FileWork(f, d.file[f])
<1>1. f \in Threads \ {"worker"} BY ThreadsAre
<1>2. todo[f] \in CallsOf(W) /\ ~Idle(f) BY <1>1, WorkIs DEF Kept, Run
<1>3. p \in W BY <1>2, FirstIs
<1>4. PICK r \in Section(p) : d' = r.d /\ todo' = [todo EXCEPT ![f] = Rest(f, r)]
  BY DEF Run
<1>5. PICK life \in Lives : Going(d, f, p, r, life)
  <2>1. Goes(d, f, p, Section(p)) BY <1>3, FileStepGoes DEF Kept
  <2> QED BY <2>1 DEF Goes
<1>6. /\ Steady(d, d') /\ Serves(d, d') /\ d'.file = [d.file EXCEPT ![f] = life]
      /\ r.steps \in Seq(FileWork(f, life)) /\ r.calls \in CallsOf(FileWork(f, life))
      /\ p.s = "Opened" \/ MarkedAt(d.file[f]) \subseteq MarkedAt(life)
  BY <1>4, <1>5 DEF Going
<1>7. d.file \in [Files -> Lives] BY DEF Kept, Sound, Lists
<1>8. d'.file[f] = life /\ \A u \in Files \ {f} : d'.file[u] = d.file[u] BY <1>6, <1>7
<1>9. Rest(f, r) \in CallsOf(FileWork(f, life))
  <2>1. CASE p.s = "Opened"
    <3>1. Rest(f, r) = <<>> BY <2>1 DEF Rest
    <3> QED BY <3>1 DEF CallsOf
  <2>2. CASE p.s # "Opened"
    <3>1. W \subseteq FileWork(f, life) BY <1>6, <2>2, WorkGrows
    <3>2. todo[f] \in CallsOf(FileWork(f, life)) BY <1>2, <3>1, WorkMonotone
    <3> QED BY <1>2, <1>6, <3>2, RestIs
  <2> QED BY <2>1, <2>2
<1>10. Rest(f, r) \in CallsOf(WorkOf(f, d')) BY <1>8, <1>9, WorkIs
<1>11. left' \in Scenario BY DEF Kept, Run
<1> HIDE DEF p, W
<1> QED BY <1>4, <1>6, <1>8, <1>10, <1>11, KeptFor

LEMMA RunQuiet ==
  ASSUME Kept, NEW t \in {"cancel", "beside"}, Run(t)
  PROVE  Kept'
<1> DEFINE p == Head(Head(todo[t]))
<1>1. todo[t] \in CallsOf(QuietSteps) /\ ~Idle(t) BY ThreadsAre, WorkIs DEF Kept, Run
<1>2. Fine(d, Section(p), QuietSteps) BY <1>1, FirstIs, QuietSectionFine DEF Kept
<1>3. PICK r \in Section(p) : d' = r.d /\ todo' = [todo EXCEPT ![t] = Rest(t, r)]
  BY DEF Run
<1>4. Good(d, d') /\ r.steps \in Seq(QuietSteps) /\ r.calls \in CallsOf(QuietSteps)
  BY <1>2, <1>3 DEF Fine
<1>5. Rest(t, r) \in CallsOf(QuietSteps) BY <1>1, <1>4, RestIs
<1>6. Rest(t, r) \in CallsOf(WorkOf(t, d')) BY <1>5, WorkIs
<1>7. left' \in Scenario BY DEF Kept, Run
<1> HIDE DEF p
<1> QED BY <1>3, <1>4, <1>6, <1>7, KeptFor DEF Good

LEMMA RFStep ==
  ASSUME NEW s \in {"TagArrival", "PeerArrival", "SCEstablished", "SCLost", "VerifyAll", "Message",
                    "PeerLost", "Departure"}
  PROVE  <<Step(s, None, None)>> \in Seq(RFSteps) \ {<<>>}
<1>1. s \in RFNames /\ s \notin DispatcherSteps \cup {"SetRadioState", "AddClientToList"}
  BY DEF RFNames, DispatcherSteps
<1>2. Step(s, None, None) \in RFSteps BY <1>1, PlainStep3, NoneIn DEF RFSteps
<1> QED BY <1>2

(* What is to be sent is dropped when a peer is lost, and the departure comes next *)
LEMMA RunRF ==
  ASSUME Kept, Run("rf")
  PROVE  Kept'
<1> DEFINE work == todo["rf"]
           p == Head(Head(work))
           q == Step("Departure", None, None)
<1>1. work \in CallsOf(RFSteps) /\ ~Idle("rf") BY ThreadsAre, WorkIs DEF Kept, Run
<1>2. p \in RFSteps BY <1>1, FirstIs
<1>3. PICK r \in Section(p) : d' = r.d /\ todo' = [todo EXCEPT !["rf"] = Rest("rf", r)]
  BY DEF Run
<1>4. Leaving(work) <=> p.s = "Departure" BY <1>1 DEF Leaving, Idle
<1>5. "rf" \in Threads \ {"worker"} /\ left' \in Scenario BY ThreadsAre DEF Kept, Run
<1>6. todo'["rf"] = Rest("rf", r) BY <1>3, <1>5 DEF Kept
<1> DEFINE rest == Rest("rf", r)
<1>7. rest = IF p.s = "Opened" THEN <<>>
             ELSE r.calls \o Calls(IF r.ok THEN r.steps \o Tail(Head(work)) ELSE <<>>) \o Tail(work)
  BY DEF Rest
<1>8. CASE p.s # "PeerLost"
  <2>1. Fine(d, Section(p), RFSteps) BY <1>2, <1>8, RFSectionFine DEF Kept
  <2>2. Good(d, d') /\ r.steps \in Seq(RFSteps) /\ r.calls \in CallsOf(RFSteps)
    BY <1>3, <2>1 DEF Fine
  <2>3. rest \in CallsOf(RFSteps) BY <1>1, <2>2, RestIs
  <2>4. rest \in CallsOf(WorkOf("rf", d')) BY <2>3, WorkIs
  <2>5. Steady(d, d') /\ Serves(d, d') /\ \A u \in Files \ {"rf"} : d'.file[u] = d.file[u]
    BY <2>2 DEF Good
  <2>6. CASE p.s = "Departure"
    <3>1. \A call : Served(d', call) BY <1>2, <1>3, <2>6, RFSectionFine DEF Kept
    <3> HIDE DEF rest, p, work
    <3> QED BY <1>3, <1>5, <2>4, <2>5, <3>1, KeptBut DEF rest
  <2>7. CASE p.s # "Departure"
    <3>1. Served(d, FirstOf(todo["worker"])) BY <1>4, <2>7 DEF Kept, Serving
    <3> HIDE DEF rest, p, work
    <3> QED BY <1>3, <1>5, <2>4, <2>5, <3>1, KeptBut DEF rest
  <2> QED BY <2>6, <2>7
<1>9. CASE p.s = "PeerLost"
  <2>1. /\ Steady(d, d') /\ d'.file = d.file
        /\ r.ok /\ r.calls = <<>> /\ r.steps = <<q>>
    BY <1>2, <1>3, <1>9, RFSectionFine DEF Kept
  <2>2. q.s = "Departure" BY DEF Step, StepTo, StepFor
  <2>3. <<q>> \in Seq(RFSteps) BY RFStep
  <2> HIDE DEF q
  <2>4. <<>> \in CallsOf(RFSteps) BY DEF CallsOf
  <2>5. rest \in CallsOf(RFSteps) BY <1>1, <2>1, <2>3, <2>4, RestIs
  <2>6. rest \in CallsOf(WorkOf("rf", d')) BY <2>5, WorkIs
  <2> DEFINE call == <<q>> \o Tail(Head(work))
  <2>7. work \in Seq(Seq(RFSteps) \ {<<>>}) /\ work # <<>> BY <1>1 DEF CallsOf, Idle
  <2>8. Tail(Head(work)) \in Seq(RFSteps) /\ Tail(work) \in Seq(Seq(RFSteps)) BY <2>7
  <2>9. call \in Seq(RFSteps) /\ call # <<>> /\ Head(call) = q BY <2>3, <2>8
  <2>10. Calls(call) = <<call>> BY <2>9 DEF Calls
  <2>11. rest = <<>> \o Calls(call) \o Tail(work) BY <1>7, <1>9, <2>1
  <2> HIDE DEF call, work
  <2>12. rest # <<>> /\ Head(rest) = call BY <2>8, <2>9, <2>10, <2>11
  <2>13. Leaving(rest) BY <2>2, <2>9, <2>12 DEF Leaving
  <2>14. Leaving(todo'["rf"]) BY <1>6, <2>13
  <2> HIDE DEF rest, p
  <2> QED BY <1>3, <1>5, <2>1, <2>6, <2>14, KeptBut DEF rest
<1> QED BY <1>8, <1>9

(* The worker goes on with one section, or has nothing more to do *)
LEMMA KeptWorker ==
  ASSUME Kept, Sound(d'), d'.file = d.file, UNCHANGED left,
         NEW calls, todo' = [todo EXCEPT !["worker"] = calls],
         \/ calls = <<>> /\ d'.StateLock = None
         \/ \E p : calls = <<<<p>>>> /\ At(d', p),
         Served(d, FirstOf(todo["worker"])) => Served(d', FirstOf(calls))
  PROVE  Kept'
<1>1. DOMAIN todo = Threads BY DEF Kept
<1>2. /\ DOMAIN todo' = Threads /\ todo'["worker"] = calls
      /\ \A u \in Threads \ {"worker"} : todo'[u] = todo[u]
  BY <1>1, ThreadsAre
<1>3. Working' BY <1>2 DEF Working
<1>4. \A u \in Threads \ {"worker"} : todo'[u] \in CallsOf(WorkOf(u, d'))
  <2> TAKE u \in Threads \ {"worker"}
  <2>1. WorkOf(u, d') = WorkOf(u, d) BY WorkSame
  <2> QED BY <1>2, <2>1 DEF Kept
<1>5. Serving'
  <2>1. todo'["rf"] = todo["rf"] BY <1>2, ThreadsAre
  <2>2. Leaving(todo'["rf"]) \/ Served(d', FirstOf(todo'["worker"]))
    BY <1>2, <2>1 DEF Kept, Serving
  <2> QED BY <2>2 DEF Serving, Served, FirstOf, Due, Hands, Busy, Leaving
<1> QED BY <1>2, <1>3, <1>4, <1>5 DEF Kept

LEMMA RunWorker ==
  ASSUME Kept, Run("worker")
  PROVE  Kept'
<1>1. PICK p : todo["worker"] = <<<<p>>>> /\ At(d, p) BY DEF Kept, Working, Run, Idle
<1>2. /\ Head(Head(todo["worker"])) = p /\ Tail(todo["worker"]) = <<>> /\ Tail(Head(todo["worker"])) = <<>>
      /\ FirstOf(todo["worker"]) = <<p>>
  BY <1>1 DEF FirstOf
<1>3. WorkerFine(d, p, Section(p)) BY <1>1, WorkerSectionFine DEF Kept
<1>4. PICK r \in Section(p) : d' = r.d /\ todo' = [todo EXCEPT !["worker"] = Rest("worker", r)]
  BY <1>2 DEF Run
<1>5. /\ r.ok /\ r.calls = <<>> /\ Sound(d') /\ WorkerAt(d', r.steps) /\ d'.file = d.file
      /\ Served(d, <<p>>) => Served(d', r.steps)
  BY <1>3, <1>4 DEF WorkerFine
<1>6. p.s # "Opened" BY <1>1 DEF At, WorkerNames, Sends
<1>7. Rest("worker", r) = <<>> \o Calls(r.steps \o <<>>) \o <<>> BY <1>2, <1>5, <1>6 DEF Rest
<1> DEFINE w == Rest("worker", r)
<1>8. /\ \/ w = <<>> /\ d'.StateLock = None
         \/ \E q : w = <<<<q>>>> /\ At(d', q)
      /\ FirstOf(w) = r.steps
  <2>1. CASE r.steps = <<>> /\ d'.StateLock = None
    <3>1. w = <<>> BY <1>7, <2>1 DEF Calls
    <3>2. FirstOf(w) = <<>> BY <3>1 DEF FirstOf
    <3> QED BY <2>1, <3>1, <3>2
  <2>2. CASE \E q : r.steps = <<q>> /\ At(d', q)
    <3>1. PICK q : r.steps = <<q>> /\ At(d', q) BY <2>2
    <3>2. r.steps \o <<>> = <<q>> BY <3>1
    <3>3. Calls(<<q>>) = <<<<q>>>> BY DEF Calls
    <3>4. w = <<<<q>>>> BY <1>7, <3>2, <3>3
    <3> HIDE DEF w
    <3>5. FirstOf(w) = <<q>> BY <3>4 DEF FirstOf
    <3> QED BY <3>1, <3>4, <3>5
  <2> QED BY <1>5, <2>1, <2>2 DEF WorkerAt
<1> HIDE DEF w
<1>9. todo' = [todo EXCEPT !["worker"] = w] BY <1>4 DEF w
<1>10. Served(d, FirstOf(todo["worker"])) => Served(d', FirstOf(w)) BY <1>2, <1>5, <1>8
<1> QED BY <1>5, <1>8, <1>9, <1>10, KeptWorker DEF Run

LEMMA RunKept ==
  ASSUME Kept, NEW t \in Threads, Run(t)
  PROVE  Kept'
  BY RunFile, RunQuiet, RunRF, RunWorker DEF Threads

(***************************************************************************)
(* Files: their calls.                                                     *)
(***************************************************************************)
LEMMA OneCall ==
  ASSUME NEW S, NEW call \in Seq(S), call # <<>>
  PROVE  Plain(call) \in CallsOf(S)
  BY CallOf DEF Plain

LEMMA OpenCallIs ==
  ASSUME NEW f \in Files
  PROVE  OpenCall(f) \in Seq(FileWork(f, "creating")) \ {<<>>}
<1> DEFINE S == FileWork(f, "creating")
           names == {"AddManager", "AddSubscriber", "SCAddClient", "ESEAddClient"}
           a == Step("AddClientToList", f, None)
           q(s) == Step(s, f, None)
           b == Step("FileAdd", f, "ESe")
           o == Step("Opened", f, None)
           first == CASE Role[f] \in Proximate -> <<a>>
                      [] Role[f] = "manager" -> <<q("AddManager")>>
                      [] Role[f] = "event" -> <<q("AddSubscriber")>>
                      [] Role[f] = "sc" -> <<q("SCAddClient")>>
                      [] Role[f] = "ese" -> <<q("ESEAddClient"), b>>
                      [] OTHER -> <<>>
<1>1. f \in Clients BY DEF Clients
<1>2. a \in S
  <2>1. "AddClientToList" \in QuietNames BY DEF QuietNames, Marked
  <2>2. a \in [s : QuietNames, f : Clients, x : Args, v : Args, n : Known]
    BY <1>1, <2>1, NoneIn DEF Step, StepTo, StepFor, Known
  <2>3. a.s = "AddClientToList" /\ a.f = f BY DEF Step, StepTo, StepFor
  <2> HIDE DEF a
  <2> QED BY <2>2, <2>3 DEF FileWork, QuietSteps, StepsOf, DispatcherSteps
<1>3. \A s \in names : q(s) \in S
  <2> TAKE s \in names
  <2>1. s \in QuietNames \ (DispatcherSteps \cup {"SetRadioState", "AddClientToList"})
    BY DEF QuietNames, Marked, SESteps, SCSteps, ESESteps, DispatcherSteps
  <2> HIDE DEF names
  <2> QED BY <1>1, <2>1, QuietStep, NoneIn DEF FileWork
<1>4. b \in S /\ o \in S
  <2>1. b \in QuietSteps
    BY <1>1, QuietStep, NoneIn, TypeIn DEF QuietNames, Marked, FileSteps, DispatcherSteps, ReferenceTypes
  <2>2. "Opened" \in MarkedAt("creating") BY DEF MarkedAt, Marked
  <2>3. o \in S BY <2>2, MarkedStep
  <2> HIDE DEF b, o
  <2> QED BY <2>1, <2>3 DEF FileWork
<1>5. OpenCall(f) = first \o <<o>> BY DEF OpenCall
<1> HIDE DEF a, q, b, o, S
<1>6. first \in Seq(S)
  <2>1. \A s \in names : <<q(s)>> \in Seq(S) BY <1>3
  <2>2. <<a>> \in Seq(S) /\ <<>> \in Seq(S) BY <1>2
  <2>3. <<q("ESEAddClient"), b>> \in Seq(S)
    <3>1. q("ESEAddClient") \in S BY <1>3
    <3> QED BY <1>4, <3>1
  <2>4. /\ Role[f] \in Proximate => Role[f] \notin {"manager", "event", "sc", "ese"}
    BY DEF Proximate, Publications, Subscriptions
  <2>5. CASE Role[f] \in Proximate BY <2>2, <2>4, <2>5
  <2>6. CASE Role[f] \notin Proximate
    <3>1. first \in {<<q("AddManager")>>, <<q("AddSubscriber")>>, <<q("SCAddClient")>>,
                     <<q("ESEAddClient"), b>>, <<>>}
      BY <2>6
    <3>2. /\ <<q("AddManager")>> \in Seq(S) /\ <<q("AddSubscriber")>> \in Seq(S)
          /\ <<q("SCAddClient")>> \in Seq(S)
      BY <2>1
    <3> HIDE DEF first
    <3> QED BY <2>2, <2>3, <3>1, <3>2
  <2> QED BY <2>5, <2>6
<1> HIDE DEF first
<1>7. first \o <<o>> \in Seq(S) \ {<<>>} BY <1>4, <1>6
<1> QED BY <1>5, <1>7 DEF S

LEMMA SimpleStep ==
  ASSUME NEW s \in {"StopIdle", "ResumeIdle", "GetNext", "NfpEnable", "NfpDisable",
                    "ESEDispatchSetPower", "ESEDispatchTransmit", "DispatchSetPower",
                    "DispatchTransmit", "DispatchSwitchProtocol"},
         NEW f \in Files
  PROVE  Step(s, f, None) \in QuietSteps
<1>1. s \in QuietNames \ (DispatcherSteps \cup {"SetRadioState", "AddClientToList"})
  BY DEF QuietNames, Marked, FileSteps, SCSteps, ESESteps, DispatcherSteps
<1> QED BY <1>1, QuietStep, NoneIn DEF Clients

LEMMA PowerManagedIs ==
  ASSUME NEW f \in Files, NEW call \in Seq(QuietSteps)
  PROVE  PowerManaged(f, call) \in CallsOf(QuietSteps)
<1> DEFINE S == QuietSteps
           T == Seq(S) \ {<<>>}
           p == Step("StopIdle", f, None)
           q == Step("ResumeIdle", f, None)
           a == <<p>> \o call
           b == <<q>>
<1>1. p \in S /\ q \in S BY SimpleStep
<1>2. PowerManaged(f, call) = <<a, b>> BY DEF PowerManaged
<1> HIDE DEF p, q, S
<1>3. call \in Seq(S) BY DEF S
<1>4. a \in T /\ b \in T BY <1>1, <1>3
<1> HIDE DEF a, b, T
<1>5. <<a, b>> \in Seq(T) BY <1>4
<1> QED BY <1>2, <1>5 DEF CallsOf, T, S

LEMMA PresenceCallsAre ==
  ASSUME NEW f \in Files, NEW n \in Numbers, NEW calls \in PresenceCalls(f, n)
  PROVE  calls \in CallsOf(QuietSteps)
<1>1. PICK x \in Dispatchers : calls = Plain(<<DispatcherStep("DispatchPresence", f, x, n)>>)
  BY DEF PresenceCalls
<1> DEFINE p == DispatcherStep("DispatchPresence", f, x, n)
<1>2. p \in QuietSteps
  <2>1. "DispatchPresence" \in QuietNames /\ "DispatchPresence" \in DispatcherSteps
    BY DEF QuietNames, Marked, DispatcherSteps
  <2>2. f \in Clients /\ n \in Known BY DEF Clients, Known
  <2> QED BY <2>1, <2>2, PresenceStep DEF QuietSteps
<1> HIDE DEF p
<1>3. <<p>> \in Seq(QuietSteps) /\ <<p>> # <<>> BY <1>2
<1> QED BY <1>1, <1>3, OneCall DEF p

LEMMA RequestCallsAre ==
  ASSUME NEW f \in Files, NEW kind \in Kinds \ {"Beside", "Close"}, NEW calls \in RequestCalls(f, kind)
  PROVE  calls \in CallsOf(FileWork(f, "open"))
<1> DEFINE S == QuietSteps
           W == FileWork(f, "open")
<1>0. f \in Clients BY DEF Clients
<1>w. CallsOf(S) \subseteq CallsOf(W) BY WorkMonotone DEF FileWork
<1> SUFFICES kind # "SetPayload" => calls \in CallsOf(S)
  <2>1. ASSUME kind = "SetPayload" PROVE calls \in CallsOf(W)
    <3> DEFINE p == Step(kind, f, None)
    <3>1. calls = Plain(<<p>>) BY <2>1 DEF RequestCalls
    <3>2. "SetPayload" \in MarkedAt("open") BY DEF MarkedAt
    <3>3. p \in W BY <2>1, <3>2, MarkedStep
    <3> HIDE DEF p, W
    <3>4. <<p>> \in Seq(W) /\ <<p>> # <<>> BY <3>3
    <3> QED BY <3>1, <3>4, OneCall
  <2> QED BY <1>w, <2>1
<1>1. CASE kind \in {"SetCardEmulationMode", "SetPowerMode"}
  <2>1. \E se \in SecureElements, mode \in Modes \cup {"AllowOff"} :
          calls \in {PowerManaged(f, ModeCall(f, se, mode)), PowerManaged(f, PowerCall(f, se, mode))}
    BY <1>1 DEF RequestCalls, Modes
  <2>2. PICK se \in SecureElements, mode \in Modes \cup {"AllowOff"} :
          calls \in {PowerManaged(f, ModeCall(f, se, mode)), PowerManaged(f, PowerCall(f, se, mode))}
    BY <2>1
  <2>3. se \in Args /\ mode \in Args BY DEF Args
  <2>4. ModeCall(f, se, mode) \in Seq(S) /\ PowerCall(f, se, mode) \in Seq(S)
    BY <1>0, <2>3, ModeCallIs
  <2> QED BY <2>2, <2>4, PowerManagedIs
<1>2. CASE kind = "DispatchPresence"
  <2>1. calls \in PresenceCalls(f, 1) /\ 1 \in Numbers BY <1>2 DEF RequestCalls, Numbers
  <2> QED BY <2>1, PresenceCallsAre
<1>3. CASE kind = "SetRadioState"
  <2>1. PICK how \in Hows : calls = Plain(<<Step(kind, f, how)>>) BY <1>3 DEF RequestCalls, Hows
  <2> DEFINE p == Step(kind, f, how)
  <2>2. p \in S
    <3>1. "SetRadioState" \in QuietNames /\ "SetRadioState" \notin DispatcherSteps
      BY DEF QuietNames, Marked, FileSteps, DispatcherSteps
    <3>2. how \in Args BY DEF Args
    <3>3. p \in [s : QuietNames, f : Clients, x : Args, v : Args, n : Known]
      BY <1>0, <1>3, <3>1, <3>2, NoneIn DEF Step, StepTo, StepFor, Known
    <3>4. p.s = "SetRadioState" /\ p.x = how BY <1>3 DEF Step, StepTo, StepFor
    <3> HIDE DEF p
    <3> QED BY <3>1, <3>3, <3>4 DEF QuietSteps, StepsOf
  <2> HIDE DEF p
  <2>3. <<p>> \in Seq(S) /\ <<p>> # <<>> BY <2>2
  <2> QED BY <2>1, <2>3, OneCall DEF p
<1>4. CASE kind \in {"ESEDispatchTransmit", "DispatchTransmit", "DispatchSwitchProtocol"}
  <2> DEFINE p == Step(kind, f, None)
  <2>1. calls = PowerManaged(f, <<p>>) BY <1>4 DEF RequestCalls
  <2>2. p \in S BY <1>4, SimpleStep
  <2> HIDE DEF p
  <2>3. <<p>> \in Seq(S) BY <2>2
  <2> QED BY <2>1, <2>3, PowerManagedIs
<1>5. CASE kind \in {"GetNext", "ESEDispatchSetPower", "DispatchSetPower", "NfpEnable",
                     "NfpDisable"}
  <2> DEFINE p == Step(kind, f, None)
  <2>1. calls = Plain(<<p>>) BY <1>5 DEF RequestCalls
  <2>2. p \in S BY <1>5, SimpleStep
  <2> HIDE DEF p
  <2>3. <<p>> \in Seq(S) /\ <<p>> # <<>> BY <2>2
  <2> QED BY <2>1, <2>3, OneCall
<1> QED BY <1>1, <1>2, <1>3, <1>4, <1>5 DEF Kinds

(* A file that is not in use takes up another life, or one in use is closed *)
LEMMA LifeKept ==
  ASSUME Kept, NEW f \in Files, NEW life \in Lives \ {"open"}, left' \in Scenario,
         d' = [d EXCEPT !.file[f] = life], d.file[f] \notin Used \/ life = "closing",
         NEW calls \in CallsOf(FileWork(f, life)), todo' = [todo EXCEPT ![f] = calls]
  PROVE  Kept'
<1> DEFINE g == [d EXCEPT !.file[f] = life]
<1>0. Sound(d) /\ d.file \in [Files -> Lives] BY DEF Kept, Sound, Lists
<1>1. /\ DOMAIN g = DOMAIN d /\ \A k \in Fields \ {"file"} : g[k] = d[k]
      /\ g.file = [d.file EXCEPT ![f] = life]
  BY <1>0 DEF Sound, Fields
<1>2. d' = g OBVIOUS
<1> HIDE DEF g
<1>3. life \in Used \/ ~Engaged(d, f) BY <1>0 DEF Sound, Lists, Engaged, Used
<1>4. Steady(d, g) /\ Serves(d, g) BY <1>0, <1>1, <1>3, LivesOn
<1>5. g.file[f] = life /\ \A u \in Files \ {f} : g.file[u] = d.file[u] BY <1>0, <1>1
<1>6. calls \in CallsOf(WorkOf(f, g)) BY <1>5, WorkIs
<1> QED BY <1>2, <1>4, <1>5, <1>6, KeptFor

LEMMA OpenKept ==
  ASSUME Kept, NEW f \in Files, Open(f)
  PROVE  Kept'
<1> DEFINE W == FileWork(f, "creating")
           a == OpenCall(f)
           b == <<Step("Finish", f, None)>>
           T == Seq(W) \ {<<>>}
<1>1. /\ d.file[f] = "new" /\ d' = [d EXCEPT !.file[f] = "creating"]
      /\ todo' = [todo EXCEPT ![f] = <<a, b>>]
  BY DEF Open, Begin
<1>2. "Finish" \in MarkedAt("creating") BY DEF MarkedAt, Marked
<1>3. Step("Finish", f, None) \in W BY <1>2, MarkedStep
<1>4. a \in T BY OpenCallIs
<1> HIDE DEF W
<1>5. b \in T BY <1>3
<1> HIDE DEF a, b, T
<1>6. <<a, b>> \in Seq(T) BY <1>4, <1>5
<1>7. <<a, b>> \in CallsOf(W) BY <1>6 DEF CallsOf, T
<1>8. left' \in Scenario BY DEF Kept, Open
<1>9. d.file[f] \notin Used /\ "creating" \in Lives \ {"open"} BY <1>1 DEF Used, Lives
<1> DEFINE calls == <<a, b>>
<1>10. calls \in CallsOf(W) /\ todo' = [todo EXCEPT ![f] = calls] BY <1>1, <1>7
<1> HIDE DEF calls
<1> QED BY <1>1, <1>8, <1>9, <1>10, LifeKept DEF W

LEMMA TakesKept ==
  ASSUME left \in Scenario, NEW f \in Files, NEW kind, Takes(f, kind)
  PROVE  left' \in Scenario /\ left.requests[f] \subseteq Kinds
<1>1. left.requests \in [Files -> SUBSET Kinds] BY DEF Scenario
<1>2. [left.requests EXCEPT ![f] = @ \ {kind}] \in [Files -> SUBSET Kinds] BY <1>1
<1> QED BY <1>1, <1>2 DEF Takes, Scenario

LEMMA RequestKept ==
  ASSUME Kept, NEW f \in Files, Request(f)
  PROVE  Kept'
<1>1. PICK kind \in left.requests[f] \ {"Beside", "Close"} :
        Takes(f, kind) /\ \E calls \in RequestCalls(f, kind) : Begin(f, calls)
  BY DEF Request
<1>2. PICK calls \in RequestCalls(f, kind) : todo' = [todo EXCEPT ![f] = calls]
  BY <1>1 DEF Begin
<1>3. left' \in Scenario /\ kind \in Kinds \ {"Beside", "Close"} BY <1>1, TakesKept DEF Kept
<1>4. calls \in CallsOf(FileWork(f, "open")) BY <1>3, RequestCallsAre
<1>5. d' = d /\ d.file[f] = "open" BY DEF Request
<1>6. Good(d, d') BY <1>5, GoodSelf DEF Kept
<1>7. calls \in CallsOf(WorkOf(f, d')) BY <1>4, <1>5, WorkIs
<1> QED BY <1>2, <1>3, <1>6, <1>7, KeptFor DEF Good

LEMMA BesideKept ==
  ASSUME Kept, NEW f \in Files, Beside(f)
  PROVE  Kept'
<1>1. d' = d /\ Takes(f, "Beside") BY DEF Beside
<1>2. PICK calls \in PresenceCalls(f, 2) : todo' = [todo EXCEPT !["beside"] = calls] BY DEF Beside
<1>3. calls \in CallsOf(QuietSteps) BY PresenceCallsAre DEF Numbers
<1>4. left' \in Scenario BY <1>1, TakesKept DEF Kept
<1>5. Good(d, d') BY <1>1, GoodSelf DEF Kept
<1>6. calls \in CallsOf(WorkOf("beside", d')) BY <1>3, WorkIs
<1> QED BY <1>2, <1>4, <1>5, <1>6, KeptFor DEF Good

LEMMA CloseFileKept ==
  ASSUME Kept, NEW f \in Files, CloseFile(f)
  PROVE  Kept'
<1> DEFINE W == FileWork(f, "closing")
           b == <<Step("CloseClient", f, None)>>
           T == Seq(W) \ {<<>>}
           calls == RemovalCalls(f) \o <<b>>
<1>1. /\ d' = [d EXCEPT !.file[f] = "closing"] /\ todo' = [todo EXCEPT ![f] = calls]
      /\ Takes(f, "Close")
  BY DEF CloseFile, Begin
<1>2. "CloseClient" \in MarkedAt("closing") BY DEF MarkedAt
<1>3. Step("CloseClient", f, None) \in W BY <1>2, MarkedStep
<1>4. RemovalCalls(f) \in Seq(T) BY RemovalCallsAre DEF CallsOf
<1> HIDE DEF W
<1>5. b \in T BY <1>3
<1> HIDE DEF b, T
<1>6. calls \in Seq(T) BY <1>4, <1>5
<1> HIDE DEF calls
<1>7. calls \in CallsOf(W) BY <1>6 DEF CallsOf, T
<1>8. left' \in Scenario BY <1>1, TakesKept DEF Kept
<1>9. "closing" \in Lives \ {"open"} BY DEF Lives
<1> QED BY <1>1, <1>7, <1>8, <1>9, LifeKept DEF W

LEMMA CancelKept ==
  ASSUME Kept, NEW x \in Dispatchers, NEW n \in Numbers, Cancel(x, n)
  PROVE  Kept'
<1> DEFINE g == [d EXCEPT !.request[x][n].state = "canceling"]
           p == DispatcherStep("RequestCanceled", None, x, n)
<1>0. Sound(d) BY DEF Kept
<1>1. d' = g /\ todo' = [todo EXCEPT !["cancel"] = Plain(<<p>>)] BY DEF Cancel
<1>2. DOMAIN g = DOMAIN d /\ \A k \in Fields : g[k] = d[k] BY <1>0 DEF Sound, Fields
<1> HIDE DEF g
<1>3. Good(d, d') BY <1>0, <1>1, <1>2, Untouched
<1>4. p \in QuietSteps
  <2>1. "RequestCanceled" \in QuietNames /\ "RequestCanceled" \in DispatcherSteps
    BY DEF QuietNames, Marked, DispatcherSteps
  <2> QED BY <2>1, PresenceStep, NoneIn DEF QuietSteps, Known
<1> HIDE DEF p
<1>5. <<p>> \in Seq(QuietSteps) /\ <<p>> # <<>> BY <1>4
<1>6. Plain(<<p>>) \in CallsOf(QuietSteps) BY <1>5, OneCall
<1>7. Plain(<<p>>) \in CallsOf(WorkOf("cancel", d')) BY <1>6, WorkIs
<1>8. left' \in Scenario BY DEF Kept, Cancel
<1> QED BY <1>1, <1>3, <1>7, <1>8, KeptFor DEF Good

LEMMA CancelQueuedKept ==
  ASSUME Kept, NEW f \in Files, CancelQueued(f)
  PROVE  Kept'
<1> DEFINE g == [d EXCEPT !.box[f].pending = FALSE]
<1>0. Sound(d) BY DEF Kept
<1>1. d' = g BY DEF CancelQueued, Cancelled
<1>2. DOMAIN g = DOMAIN d /\ \A k \in Fields : g[k] = d[k] BY <1>0 DEF Sound, Fields
<1> HIDE DEF g
<1>3. Good(d, d') BY <1>0, <1>1, <1>2, Untouched
<1>4. UNCHANGED todo /\ left' \in Scenario BY DEF CancelQueued, Kept
<1> QED BY <1>3, <1>4, KeptAll

LEMMA EventsKept ==
  ASSUME left \in Scenario, left.events > 0, left' = [left EXCEPT !.events = @ - 1]
  PROVE  left' \in Scenario
  BY DEF Scenario

LEMMA DetectionKept ==
  ASSUME Kept, NEW f \in Files, DetectionTimer(f)
  PROVE  Kept'
<1> DEFINE g == [d EXCEPT !.box[f].timer = "expired"]
           b == [d.box[f] EXCEPT !.queue = 0, !.unresponsive = TRUE, !.timer = "off"]
           h == [d EXCEPT !.box[f] = b]
<1>0. Sound(d) /\ left \in Scenario BY DEF Kept
<1>1. d' \in {g, h} BY DEF DetectionTimer, DetectionExpires, UnresponsiveClientDetectionTimer
<1>2. DOMAIN g = DOMAIN d /\ \A k \in Fields : g[k] = d[k] BY <1>0 DEF Sound, Fields
<1> HIDE DEF b
<1>3. DOMAIN h = DOMAIN d /\ \A k \in Fields : h[k] = d[k] BY <1>0 DEF Sound, Fields
<1> HIDE DEF g, h
<1>4. Good(d, d') BY <1>0, <1>1, <1>2, <1>3, Untouched
<1>5. UNCHANGED todo /\ left' \in Scenario BY <1>0, EventsKept DEF DetectionTimer
<1> QED BY <1>4, <1>5, KeptAll

(***************************************************************************)
(* Devices, secure elements, the worker's start.                           *)
(***************************************************************************)
LEMMA FieldCalls ==
  ASSUME NEW c
  PROVE  Arrival(c) \in CallsOf(RFSteps) /\ Loss(c) \in CallsOf(RFSteps)
<1> DEFINE T == Seq(RFSteps) \ {<<>>}
           q(s) == <<Step(s, None, None)>>
<1>1. /\ q("TagArrival") \in T /\ q("PeerArrival") \in T /\ q("SCEstablished") \in T
      /\ q("SCLost") \in T /\ q("VerifyAll") \in T /\ q("Message") \in T
      /\ q("PeerLost") \in T /\ q("Departure") \in T
  BY RFStep
<1>2. /\ Arrival(c) \in {<<q("PeerArrival"), q("VerifyAll")>>,
                         <<q("TagArrival"), q("SCEstablished"), q("VerifyAll"), q("Message")>>}
      /\ Loss(c) \in {<<q("PeerLost")>>, <<q("Departure"), q("SCLost")>>}
  BY DEF Arrival, Loss
<1> HIDE DEF q, T
<1>3. /\ <<q("PeerArrival"), q("VerifyAll")>> \in Seq(T)
      /\ <<q("TagArrival"), q("SCEstablished"), q("VerifyAll"), q("Message")>> \in Seq(T)
      /\ <<q("PeerLost")>> \in Seq(T) /\ <<q("Departure"), q("SCLost")>> \in Seq(T)
  BY <1>1
<1>4. Arrival(c) \in Seq(T) /\ Loss(c) \in Seq(T) BY <1>2, <1>3
<1> QED BY <1>4 DEF CallsOf, T

LEMMA ArrivesKept ==
  ASSUME Kept, DeviceArrives
  PROVE  Kept'
<1>0. Sound(d) /\ left \in Scenario /\ Idle("rf") BY DEF Kept, DeviceArrives
<1>1. PICK c \in left.devices : /\ d' = [d EXCEPT !.card = c, !.used = FALSE, !.asleep = FALSE]
                                /\ todo' = [todo EXCEPT !["rf"] = Arrival(c)]
                                /\ left' = [left EXCEPT !.devices = @ \ {c}]
  BY DEF DeviceArrives
<1> DEFINE g == [d EXCEPT !.card = c, !.used = FALSE, !.asleep = FALSE]
<1>2. DOMAIN g = DOMAIN d /\ \A k \in Fields : g[k] = d[k] BY <1>0 DEF Sound, Fields
<1>3. d' = g BY <1>1
<1> HIDE DEF g
<1>4. Good(d, d') BY <1>0, <1>2, <1>3, Untouched
<1>5. left' \in Scenario BY <1>0, <1>1 DEF Scenario
<1> QED BY <1>0, <1>1, <1>4, <1>5, FieldCalls, KeptField

LEMMA LeavesKept ==
  ASSUME Kept, DeviceLeaves
  PROVE  Kept'
<1> DEFINE g == [d EXCEPT !.card = None]
<1>0. Sound(d) /\ Idle("rf") BY DEF Kept, DeviceLeaves
<1>1. d' = g /\ todo' = [todo EXCEPT !["rf"] = Loss(d.card)] BY DEF DeviceLeaves
<1>2. DOMAIN g = DOMAIN d /\ \A k \in Fields : g[k] = d[k] BY <1>0 DEF Sound, Fields
<1> HIDE DEF g
<1>3. Good(d, d') BY <1>0, <1>1, <1>2, Untouched
<1>4. left' \in Scenario BY DEF DeviceLeaves, Kept
<1> QED BY <1>0, <1>1, <1>3, <1>4, FieldCalls, KeptField

LEMMA ElementEventKept ==
  ASSUME Kept, SecureElementEvent
  PROVE  Kept'
<1> DEFINE g == [d EXCEPT !.box[d.SEManager].queue = 0]
<1>0. Sound(d) /\ left \in Scenario BY DEF Kept
<1>1. \/ \E clients, fits : d' = DeliverAll(d, clients, fits)
      \/ \E f, fits : d' = Deliver(d, f, fits)
      \/ d' = g \/ d' = d
  BY DEF SecureElementEvent, HandleEvent, HandleHCEPacket, PurgeHCERecvQueue
<1>2. DOMAIN g = DOMAIN d /\ \A k \in Fields : g[k] = d[k] BY <1>0 DEF Sound, Fields
<1> HIDE DEF g
<1>3. Good(d, d') BY <1>0, <1>1, <1>2, Untouched, GoodSelf, DeliverGood, DeliverAllGood
<1>4. UNCHANGED todo /\ left' \in Scenario BY <1>0, EventsKept DEF SecureElementEvent
<1> QED BY <1>3, <1>4, KeptAll

LEMMA WorkerStartsKept ==
  ASSUME Kept, SendWorkerStarts
  PROVE  Kept'
<1> DEFINE p == Step("SendWorker", None, None)
<1>1. todo["worker"] = <<>> /\ d.workItem BY DEF SendWorkerStarts, Idle
<1>2. d.StateLock = None BY <1>1 DEF Kept, Working
<1>3. At(d, p) BY <1>2, AtStep3 DEF WorkerNames, Sends
<1>4. UNCHANGED <<d, left>> /\ todo' = [todo EXCEPT !["worker"] = <<<<p>>>>]
  BY DEF SendWorkerStarts, Plain
<1>5. p.s = "SendWorker" BY DEF Step, StepTo, StepFor
<1> HIDE DEF p
<1>6. At(d', p) BY <1>3, <1>4
<1>7. Sound(d') BY <1>4 DEF Kept
<1>8. Served(d, <<>>) => Served(d, <<p>>)
  <2>1. Busy(<<p>>) /\ \A f : ~Hands(<<>>, f) BY <1>5, HandsIs
  <2> QED BY <2>1 DEF Served
<1> DEFINE calls == <<<<p>>>>
<1>9. FirstOf(calls) = <<p>> /\ FirstOf(todo["worker"]) = <<>> BY <1>1 DEF FirstOf
<1>10. Served(d, FirstOf(todo["worker"])) => Served(d', FirstOf(calls)) BY <1>4, <1>8, <1>9
<1>11. calls = <<<<p>>>> OBVIOUS
<1> HIDE DEF calls
<1> QED BY <1>4, <1>6, <1>7, <1>10, <1>11, KeptWorker

(***************************************************************************)
(* Power.                                                                  *)
(***************************************************************************)
(* What moves the discovery and leaves the clients alone *)
Apace(e, g) ==
  /\ DOMAIN g = DOMAIN e
  /\ \A k \in {"PowerReferences", "NfpRadioState", "DeviceStopIdle", "StateLock",
               "SendWorkerCurrentClient", "PubsList", "CurrentRequest"} \cup SendFields : g[k] = e[k]

LEMMA ApaceGood ==
  ASSUME NEW e, Sound(e), NEW g, Apace(e, g),
         ~g.half /\ ~g.failed =>
           /\ ~e.half /\ ~e.failed
           /\ g.powered = "on" /\ ~g.timer /\ g.worker = <<>> =>
                Effective(g.RFPowerState) = Effective(GetRfState(e))
           /\ ~g.timer /\ g.worker # <<>> => Effective(Head(g.worker)) = Effective(GetRfState(e))
           /\ g.powered = "off" => g.RFPowerState = {}
  PROVE  Good(e, g)
<1>1. /\ g.PowerReferences = e.PowerReferences /\ g.NfpRadioState = e.NfpRadioState
      /\ g.DeviceStopIdle = e.DeviceStopIdle /\ g.StateLock = e.StateLock
      /\ g.SendWorkerCurrentClient = e.SendWorkerCurrentClient
      /\ g.PubsList = e.PubsList /\ g.CurrentRequest = e.CurrentRequest /\ DOMAIN g = DOMAIN e
  BY DEF Apace
<1>2. GetRfState(g) = GetRfState(e) BY <1>1 DEF GetRfState
<1>3. ~e.half /\ ~e.failed => (ShouldStopIdle(GetRfState(e)) => e.DeviceStopIdle)
  BY DEF Sound, Follows
<1>4. Follows(g) BY <1>1, <1>2, <1>3 DEF Follows
<1>5. \A k \in SendFields : g[k] = e[k] BY DEF Apace
<1>6. Lists(g) /\ Serves(e, g) /\ g.file = e.file BY <1>5, SendsSame DEF Sound
<1>7. Sound(g) BY <1>1, <1>4, <1>6 DEF Sound
<1> QED BY <1>1, <1>6, <1>7 DEF Good, Steady

LEMMA CardGone ==
  ASSUME NEW e, Sound(e)
  PROVE  Good(e, [e EXCEPT !.card = None])
<1> DEFINE g == [e EXCEPT !.card = None]
<1>1. DOMAIN g = DOMAIN e /\ \A k \in Fields : g[k] = e[k] BY DEF Sound, Fields
<1> QED BY <1>1, Untouched

LEMMA TimerKept ==
  ASSUME Kept, TimerExpires
  PROVE  Kept'
<1> DEFINE rf == GetRfState(d)
           g == [d EXCEPT !.timer = FALSE, !.worker = <<rf>>]
<1>0. Sound(d) BY DEF Kept
<1>1. d' = g BY DEF TimerExpires, WorkerReads
<1> HIDE DEF rf
<1>2. /\ Apace(d, g) /\ g.timer = FALSE /\ g.worker = <<rf>> /\ g.half = d.half
      /\ g.failed = d.failed /\ g.powered = d.powered /\ g.RFPowerState = d.RFPowerState
  BY <1>0 DEF Apace, Sound, Fields, SendFields
<1> HIDE DEF g
<1>3. Head(g.worker) = rf /\ g.worker # <<>> BY <1>2
<1>4. ~d.half /\ ~d.failed => (d.powered = "off" => d.RFPowerState = {})
  BY <1>0 DEF Sound, Follows
<1>5. Good(d, d') BY <1>0, <1>1, <1>2, <1>3, <1>4, ApaceGood DEF rf
<1>6. UNCHANGED todo /\ left' \in Scenario BY DEF TimerExpires, Kept
<1> QED BY <1>5, <1>6, KeptAll

LEMMA TellsGood ==
  ASSUME NEW e, Sound(e), e.worker # <<>>, NEW g \in WorkerTells(e)
  PROVE  Good(e, g) /\ (g.failed \/ g.half \/ ~e.failed)
<1> DEFINE rf == Head(e.worker)
           w == [e EXCEPT !.worker = <<>>]
           a == [w EXCEPT !.RFPowerState = rf]
           b == [w EXCEPT !.failed = TRUE, !.faults = @ - 1]
<1>1. \/ g = w /\ (e.powered = "off" \/ rf = e.RFPowerState)
      \/ g = a /\ e.powered # "off"
      \/ g = b
  BY DEF WorkerTells
<1>2. ~e.half /\ ~e.failed =>
        /\ ~e.timer => Effective(rf) = Effective(GetRfState(e))
        /\ e.powered = "off" => e.RFPowerState = {}
  BY DEF Sound, Follows
<1> HIDE DEF rf
<1>3. /\ Apace(e, w) /\ w.timer = e.timer /\ w.worker = <<>> /\ w.half = e.half
      /\ w.failed = e.failed /\ w.powered = e.powered /\ w.RFPowerState = e.RFPowerState
  BY DEF Apace, Sound, Fields, SendFields
<1>4. /\ Apace(e, a) /\ a.timer = e.timer /\ a.worker = <<>> /\ a.half = e.half
      /\ a.failed = e.failed /\ a.powered = e.powered /\ a.RFPowerState = rf
  BY DEF Apace, Sound, Fields, SendFields
<1>5. Apace(e, b) /\ b.failed
  BY DEF Apace, Sound, Fields, SendFields
<1> HIDE DEF w, a, b
<1>6. CASE g = w /\ (e.powered = "off" \/ rf = e.RFPowerState)
  <2>1. Good(e, w) BY <1>2, <1>3, <1>6, ApaceGood
  <2> QED BY <1>3, <1>6, <2>1
<1>7. CASE g = a /\ e.powered # "off"
  <2>1. Good(e, a) BY <1>2, <1>4, <1>7, ApaceGood
  <2> QED BY <1>4, <1>7, <2>1
<1>8. CASE g = b
  <2>1. Good(e, b) BY <1>5, ApaceGood
  <2> QED BY <1>5, <1>8, <2>1
<1> QED BY <1>1, <1>6, <1>7, <1>8

LEMMA TellsKept ==
  ASSUME Kept, WorkerTellsRF
  PROVE  Kept'
<1>0. Sound(d) /\ left' \in Scenario BY DEF Kept, WorkerTellsRF
<1>1. PICK e \in WorkerTells(d) :
        \/ d' = [e EXCEPT !.card = None] /\ todo' = [todo EXCEPT !["rf"] = Loss(e.card)]
        \/ d' = [e EXCEPT !.half = @ \/ e.failed] /\ UNCHANGED todo
  BY DEF WorkerTellsRF
<1>2. Good(d, e) /\ Sound(e) BY <1>0, TellsGood DEF WorkerTellsRF, Good, Steady
<1>3. CASE d' = [e EXCEPT !.card = None] /\ todo' = [todo EXCEPT !["rf"] = Loss(e.card)]
  <2>1. Good(d, d') BY <1>2, <1>3, CardGone, GoodThen
  <2>2. Idle("rf") BY DEF WorkerTellsRF
  <2> QED BY <1>0, <1>3, <2>1, <2>2, FieldCalls, KeptField
<1>4. CASE d' = [e EXCEPT !.half = @ \/ e.failed] /\ UNCHANGED todo
  <2>1. Good(e, [e EXCEPT !.half = @ \/ e.failed]) BY <1>2, HalfGood
  <2>2. Good(d, d') BY <1>2, <1>4, <2>1, GoodThen
  <2> QED BY <1>0, <1>4, <2>2, KeptAll
<1> QED BY <1>1, <1>3, <1>4

LEMMA NothingEffective == Effective({}) = {} /\ ~ShouldStopIdle({}) /\ ~ShouldEnableDiscovery({})
  BY DEF Effective, ShouldStopIdle, ShouldEnableDiscovery

LEMMA InitializeIs ==
  ASSUME NEW e, Fields \subseteq DOMAIN e
  PROVE  LET g == FdoInitialize(e)
         IN  /\ DOMAIN g = DOMAIN e /\ g.powered = "on"
             /\ g.timer = (e.timer \/ ShouldEnableDiscovery(GetRfState(e)))
             /\ \A k \in Fields \ {"powered", "timer"} : g[k] = e[k]
<1> DEFINE s == IF e.NfpRadioState THEN Interfaces ELSE e.shown
           h == [e EXCEPT !.powered = "on", !.shown = s]
           v == h.timer \/ ShouldEnableDiscovery(GetRfState(h))
           g == [h EXCEPT !.timer = v]
<1>1. FdoInitialize(e) = g BY DEF FdoInitialize, PowerStart
<1> HIDE DEF s
<1>2. /\ DOMAIN h = DOMAIN e /\ h.powered = "on"
      /\ \A k \in Fields \ {"powered"} : h[k] = e[k]
  BY DEF Fields
<1> HIDE DEF h
<1>3. h.PowerReferences = e.PowerReferences /\ h.NfpRadioState = e.NfpRadioState /\ h.timer = e.timer
  BY <1>2 DEF Fields
<1>4. GetRfState(h) = GetRfState(e) BY <1>3 DEF GetRfState
<1>5. v = (e.timer \/ ShouldEnableDiscovery(GetRfState(e))) BY <1>3, <1>4
<1> HIDE DEF v
<1>6. /\ DOMAIN g = DOMAIN h /\ g.timer = v
      /\ \A k \in Fields \ {"timer"} : g[k] = h[k]
  BY <1>2 DEF Fields
<1> HIDE DEF g
<1>7. g.powered = "on" BY <1>2, <1>6 DEF Fields
<1>8. \A k \in Fields \ {"powered", "timer"} : g[k] = e[k] BY <1>2, <1>6
<1> QED BY <1>1, <1>2, <1>5, <1>6, <1>7, <1>8

LEMMA EntryKept ==
  ASSUME Kept, D0Entry
  PROVE  Kept'
<1> DEFINE g == FdoInitialize(d)
<1>0. Sound(d) BY DEF Kept
<1>1. d' = g BY DEF D0Entry
<1>2. /\ DOMAIN g = DOMAIN d /\ g.powered = "on"
      /\ g.timer = (d.timer \/ ShouldEnableDiscovery(GetRfState(d)))
      /\ \A k \in Fields \ {"powered", "timer"} : g[k] = d[k]
  BY <1>0, InitializeIs DEF Sound
<1> HIDE DEF g
<1>3. /\ Apace(d, g) /\ g.worker = d.worker /\ g.half = d.half
      /\ g.failed = d.failed /\ g.RFPowerState = d.RFPowerState
  BY <1>2 DEF Apace, Fields, SendFields
<1>4. ~d.half /\ ~d.failed =>
        /\ ~d.timer /\ d.worker # <<>> => Effective(Head(d.worker)) = Effective(GetRfState(d))
        /\ d.RFPowerState = {}
  BY <1>0 DEF Sound, Follows, D0Entry
<1>5. ~g.timer => ~d.timer /\ ~ShouldEnableDiscovery(GetRfState(d)) BY <1>2
<1>6. ~g.timer => Effective(GetRfState(d)) = {} BY <1>5 DEF Effective
<1>7. Good(d, g) BY <1>0, <1>2, <1>3, <1>4, <1>5, <1>6, NothingEffective, ApaceGood
<1>8. UNCHANGED todo /\ left' \in Scenario BY DEF D0Entry, Kept
<1> QED BY <1>1, <1>7, <1>8, KeptAll

LEMMA ExitKept ==
  ASSUME Kept, D0Exit
  PROVE  Kept'
<1> DEFINE g == [d EXCEPT !.powered = "stopping", !.timer = FALSE]
           h == [d EXCEPT !.powered = "off", !.RFPowerState = {}]
<1>0. Sound(d) /\ left \in Scenario BY DEF Kept
<1>1. (d' = g \/ d' = h) /\ d.worker = <<>> BY DEF D0Exit, PowerStop, FdoDeInitialize
<1>2. Apace(d, g) /\ g.powered = "stopping" /\ g.worker = d.worker /\ g.half = d.half /\ g.failed = d.failed
  BY <1>0 DEF Apace, Sound, Fields, SendFields
<1>3. /\ Apace(d, h) /\ h.powered = "off" /\ h.worker = d.worker /\ h.half = d.half
      /\ h.failed = d.failed /\ h.RFPowerState = {}
  BY <1>0 DEF Apace, Sound, Fields, SendFields
<1> HIDE DEF g, h
<1>4. Good(d, g) BY <1>0, <1>1, <1>2, ApaceGood
<1>5. Good(d, h) BY <1>0, <1>1, <1>3, ApaceGood
<1>6. left' \in Scenario
  <2>1. CASE UNCHANGED left BY <1>0, <2>1
  <2>2. CASE left.idles > 0 /\ left' = [left EXCEPT !.idles = @ - 1] BY <1>0, <2>2 DEF Scenario
  <2>3. left' = left \/ (left.idles > 0 /\ left' = [left EXCEPT !.idles = @ - 1])
    BY DEF D0Exit
  <2> QED BY <2>1, <2>2, <2>3
<1>7. UNCHANGED todo BY DEF D0Exit
<1> QED BY <1>1, <1>4, <1>5, <1>6, <1>7, KeptAll

LEMMA StutterKept ==
  ASSUME Kept, UNCHANGED vars
  PROVE  Kept'
<1>1. Good(d, d') BY GoodSelf DEF Kept, vars
<1> QED BY <1>1, KeptAll DEF Kept, vars

(***************************************************************************)
(* The device as it is created.                                            *)
(***************************************************************************)
LEMMA JoinedIs ==
  ASSUME NEW p, NEW q
  PROVE  /\ DOMAIN Joined(p, q) = DOMAIN p \cup DOMAIN q
         /\ \A k \in DOMAIN p : Joined(p, q)[k] = p[k]
         /\ \A k \in DOMAIN q \ DOMAIN p : Joined(p, q)[k] = q[k]
  BY DEF Joined

LEMMA CreatedSound ==
  ASSUME NEW registry \in Registry, NEW scenario
  PROVE  LET g == FdoInitialize(DeviceCreate(registry, scenario))
         IN  Sound(g) /\ g.StateLock = None /\ Served(g, <<>>)
<1> DEFINE files == [f \in Files |-> IF f \in scenario.files THEN "new" ELSE "closed"]
           P == PowerCreate(registry)
           N == NFPCreate
           F == [FileCreate EXCEPT !.file = files]
           NN == {"StateLock", "SendWorkerCurrentClient", "PubsList"} \cup (SendFields \ {"file", "Enabled"})
           FN == {"file", "Enabled"}
           E == SECreate
           C == SCCreate
           L == [faults |-> scenario.faults, half |-> FALSE]
           PN == Joined(P, N)
           FE == Joined(F, E)
           CL == Joined(C, L)
           O == Joined(FE, CL)
           e == Joined(PN, O)
           g == FdoInitialize(e)
<1>1. DeviceCreate(registry, scenario) = e BY DEF DeviceCreate
<1>2. /\ {"PowerReferences", "NfpRadioState", "RFPowerState", "timer", "worker", "powered", "failed",
          "DeviceStopIdle"} \subseteq DOMAIN P
      /\ ({"half", "CurrentRequest"} \cup NN \cup FN) \cap DOMAIN P = {}
      /\ P.PowerReferences = NoReferences /\ P.NfpRadioState \in BOOLEAN /\ P.RFPowerState = {}
      /\ P.timer = FALSE /\ P.worker = <<>> /\ P.failed = FALSE /\ P.DeviceStopIdle = FALSE
  BY PowerAssumption DEF PowerCreate, Registry, SendFields
<1>3. /\ NN \subseteq DOMAIN N
      /\ ({"half", "CurrentRequest"} \cup FN) \cap DOMAIN N = {}
      /\ N.StateLock = None /\ N.PubsList = <<>> /\ N.SendList = <<>>
      /\ N.payload = [f \in Files |-> "none"] /\ N.due = {}
  BY DEF NFPCreate, SendFields
<1>4. /\ {"half", "CurrentRequest"} \cap DOMAIN F = {} /\ {"half", "CurrentRequest"} \cap DOMAIN E = {}
      /\ FN \subseteq DOMAIN F /\ F.file = files /\ F.Enabled = [f \in Files |-> TRUE]
  BY DEF FileCreate, SECreate
<1>5. /\ "CurrentRequest" \in DOMAIN C /\ "half" \notin DOMAIN C
      /\ C.CurrentRequest = [x \in Dispatchers |-> NoCurrent]
  BY DEF SCCreate
<1>6. "half" \in DOMAIN L /\ L.half = FALSE OBVIOUS
<1>a. Fields = {"PowerReferences", "NfpRadioState", "RFPowerState", "timer", "worker", "powered",
                "failed", "DeviceStopIdle", "half", "CurrentRequest"} \cup NN \cup FN
  BY DEF Fields, SendFields
<1>b. {"StateLock", "PubsList", "SendList", "payload", "due"} \subseteq NN BY DEF SendFields
<1> HIDE DEF P, N, F, E, C, L, NN
<1>7. /\ DOMAIN PN = DOMAIN P \cup DOMAIN N
      /\ \A k \in DOMAIN P : PN[k] = P[k]
      /\ \A k \in DOMAIN N \ DOMAIN P : PN[k] = N[k]
  BY JoinedIs
<1>8. DOMAIN FE = DOMAIN F \cup DOMAIN E /\ \A k \in DOMAIN F : FE[k] = F[k] BY JoinedIs
<1>9. /\ DOMAIN CL = DOMAIN C \cup DOMAIN L
      /\ \A k \in DOMAIN C : CL[k] = C[k]
      /\ \A k \in DOMAIN L \ DOMAIN C : CL[k] = L[k]
  BY JoinedIs
<1>10. /\ DOMAIN O = DOMAIN FE \cup DOMAIN CL
       /\ \A k \in DOMAIN FE : O[k] = FE[k]
       /\ \A k \in DOMAIN CL \ DOMAIN FE : O[k] = CL[k]
  BY JoinedIs
<1>11. /\ DOMAIN e = DOMAIN PN \cup DOMAIN O
       /\ \A k \in DOMAIN PN : e[k] = PN[k]
       /\ \A k \in DOMAIN O \ DOMAIN PN : e[k] = O[k]
  BY JoinedIs
<1> HIDE DEF PN, FE, CL, O, e
<1>12. /\ e.PowerReferences = NoReferences /\ e.NfpRadioState \in BOOLEAN /\ e.RFPowerState = {}
       /\ e.timer = FALSE /\ e.worker = <<>> /\ e.failed = FALSE /\ e.DeviceStopIdle = FALSE
  BY <1>2, <1>7, <1>11
<1>13. /\ e.StateLock = None /\ e.PubsList = <<>> /\ e.SendList = <<>>
       /\ e.payload = [f \in Files |-> "none"] /\ e.due = {}
  BY <1>2, <1>3, <1>b, <1>7, <1>11
<1>c. e.file = files /\ e.Enabled = [f \in Files |-> TRUE]
  <2>1. FN \cap DOMAIN PN = {} BY <1>2, <1>3, <1>7
  <2>2. O.file = F.file /\ O.Enabled = F.Enabled /\ FN \subseteq DOMAIN O
    BY <1>4, <1>8, <1>10
  <2> QED BY <1>4, <1>11, <2>1, <2>2
<1>14. e.half = FALSE /\ e.CurrentRequest = [x \in Dispatchers |-> NoCurrent]
  <2>1. {"half", "CurrentRequest"} \cap DOMAIN FE = {} /\ {"half", "CurrentRequest"} \cap DOMAIN PN = {}
    BY <1>2, <1>3, <1>4, <1>7, <1>8
  <2>2. CL.half = FALSE /\ CL.CurrentRequest = [x \in Dispatchers |-> NoCurrent]
        /\ {"half", "CurrentRequest"} \subseteq DOMAIN CL
    BY <1>5, <1>6, <1>9
  <2>3. O.half = CL.half /\ O.CurrentRequest = CL.CurrentRequest
        /\ {"half", "CurrentRequest"} \subseteq DOMAIN O
    BY <1>10, <2>1, <2>2
  <2> QED BY <1>11, <2>1, <2>2, <2>3
<1>15. Fields \subseteq DOMAIN e
  BY <1>2, <1>3, <1>4, <1>5, <1>6, <1>7, <1>8, <1>9, <1>10, <1>11, <1>a
<1>16. GetRfState(e) = {} BY <1>12 DEF GetRfState, NoReferences
<1>17. /\ DOMAIN g = DOMAIN e /\ g.powered = "on"
       /\ g.timer = (e.timer \/ ShouldEnableDiscovery(GetRfState(e)))
       /\ \A k \in Fields \ {"powered", "timer"} : g[k] = e[k]
  BY <1>15, InitializeIs
<1> HIDE DEF g
<1>18. /\ g.PowerReferences = NoReferences /\ g.NfpRadioState \in BOOLEAN /\ g.RFPowerState = {}
       /\ g.worker = <<>> /\ g.failed = FALSE /\ g.DeviceStopIdle = FALSE /\ g.half = FALSE
       /\ g.StateLock = None /\ g.PubsList = <<>> /\ g.CurrentRequest = [x \in Dispatchers |-> NoCurrent]
       /\ g.SendList = <<>> /\ g.payload = [f \in Files |-> "none"] /\ g.due = {}
       /\ g.file = files /\ g.Enabled = [f \in Files |-> TRUE]
  BY <1>12, <1>13, <1>14, <1>17, <1>c DEF Fields
<1>19. GetRfState(g) = {} BY <1>18 DEF GetRfState, NoReferences
<1>20. Follows(g) BY <1>17, <1>18, <1>19, NothingEffective DEF Follows
<1>21. Sound(g)
  <2>1. \A x \in Dispatchers : g.CurrentRequest[x] \in Currents BY <1>18, NoneIn DEF NoCurrent, Currents, Known
  <2>2. g.PubsList \in Seq(Publishers) BY <1>18
  <2>3. Lists(g)
    <3>1. g.file \in [Files -> Lives] BY <1>18 DEF Lives
    <3>2. g.SendList \in Seq(Clients) BY <1>18
    <3>3. \A f \in Publishers : g.payload[f] # "set" BY <1>18 DEF Publishers
    <3> QED BY <1>18, <3>1, <3>2, <3>3 DEF Lists
  <2> QED BY <1>15, <1>17, <1>18, <1>20, <2>1, <2>2, <2>3 DEF Sound
<1>22. Due(g) = {} BY <1>18 DEF Due
<1>23. Served(g, <<>>) BY <1>22 DEF Served
<1> QED BY <1>1, <1>18, <1>21, <1>23 DEF g

LEMMA InitKept ==
  ASSUME Init
  PROVE  Kept
<1>1. PICK registry \in Registry, scenario \in Scenarios :
        d = FdoInitialize(DeviceCreate(registry, scenario)) /\ left = scenario
  BY DEF Init
<1>2. Sound(d) /\ d.StateLock = None /\ Served(d, <<>>) BY <1>1, CreatedSound
<1>3. left \in Scenario BY <1>1, ClientsAssumption
<1>4. DOMAIN todo = Threads /\ \A t \in Threads : todo[t] = <<>> BY DEF Init
<1>5. \A t : <<>> \in CallsOf(WorkOf(t, d)) BY DEF CallsOf
<1>6. Working BY <1>2, <1>4, ThreadsAre DEF Working
<1>7. Serving BY <1>2, <1>4, ThreadsAre DEF Serving, FirstOf
<1> QED BY <1>2, <1>3, <1>4, <1>5, <1>6, <1>7 DEF Kept

LEMMA NextKept ==
  ASSUME Kept, [Next]_vars
  PROVE  Kept'
<1>1. CASE \E t \in Threads : Run(t) BY <1>1, RunKept
<1>2. CASE \E f \in Files : Open(f) \/ Request(f) \/ Beside(f) \/ CloseFile(f)
                            \/ CancelQueued(f) \/ DetectionTimer(f)
  BY <1>2, OpenKept, RequestKept, BesideKept, CloseFileKept, CancelQueuedKept, DetectionKept
<1>3. CASE \E x \in Dispatchers, n \in Numbers : Cancel(x, n) BY <1>3, CancelKept
<1>4. CASE DeviceArrives \/ DeviceLeaves \/ SecureElementEvent \/ SendWorkerStarts
  BY <1>4, ArrivesKept, LeavesKept, ElementEventKept, WorkerStartsKept
<1>5. CASE TimerExpires \/ WorkerTellsRF \/ D0Entry \/ D0Exit
  BY <1>5, TimerKept, TellsKept, EntryKept, ExitKept
<1>6. CASE UNCHANGED vars BY <1>6, StutterKept
<1> QED BY <1>1, <1>2, <1>3, <1>4, <1>5, <1>6 DEF Next, Ended

(* What the threads have still to do is of their own kinds, the worker's    *)
(* lock is that of its current client, what is to be sent to the device in  *)
(* the field is in the send list or in the worker's hands, and the          *)
(* discovery that timer and worker have on their way is the one that the    *)
(* references ask for.                                                      *)
THEOREM KeptHolds == Spec => []Kept
<1>1. Init => Kept BY InitKept
<1>2. Kept /\ [Next]_vars => Kept' BY NextKept
<1> QED BY <1>1, <1>2, PTL DEF Spec

LEMMA WaitsForNobody ==
  ASSUME Kept, ~Idle("worker"), ~Idle("rf"), Head(Head(todo["worker"])).s \in RFCalls
  PROVE  CanRun(Head(Head(todo["rf"])))
<1> DEFINE q == Head(Head(todo["rf"]))
<1>1. PICK p : todo["worker"] = <<<<p>>>> /\ At(d, p) BY DEF Kept, Working, Idle
<1>2. p.s \in RFCalls BY <1>1
<1>3. d.StateLock = d.SendWorkerCurrentClient \/ d.StateLock = None BY <1>1 DEF At
<1>4. q \in RFSteps
  <2>1. todo["rf"] \in CallsOf(RFSteps) BY ThreadsAre, WorkIs DEF Kept
  <2> QED BY <2>1, FirstIs
<1>5. q.s \in RFNames BY <1>4 DEF RFSteps, StepsOf
<1>6. WaitsFor(d, ToSet(d.PubsList)) = {}
  <2>1. ToSet(d.PubsList) \subseteq Files
    <3>1. d.PubsList \in Seq(Publishers) BY DEF Kept, Sound
    <3>2. ToSet(d.PubsList) \subseteq Publishers BY <3>1 DEF ToSet
    <3> QED BY <3>2 DEF Publishers
  <2> QED BY <1>3, <2>1, ThreadsAssumption DEF WaitsFor, Skips
<1> HIDE DEF q
<1>7. q.s \notin TakesStateLock \cup CallsRF \cup {"Verify", "AwaitD0"}
  BY <1>5 DEF RFNames, TakesStateLock, CallsRF, RFCalls
<1>8. CanRun(q) BY <1>6, <1>7 DEF CanRun
<1> QED BY <1>8 DEF q

(* The RF thread never waits for the lock of a publication while the send   *)
(* worker holds it and waits for the RF thread: the worker has said in      *)
(* SendWorkerCurrentClient which lock it takes before it takes it, says no  *)
(* more after it gave it back, and the RF thread passes that one by         *)
(* (NfcCxNFP.cpp, the send worker and VerifyAndSendPublication).            *)
THEOREM NoCircularWaitHolds == Spec => []NoCircularWait
<1>1. Kept => NoCircularWait BY WaitsForNobody DEF NoCircularWait
<1> QED BY <1>1, KeptHolds, PTL

LEMMA Followed ==
  ASSUME Kept
  PROVE  FollowsRadio
<1> DEFINE rf == GetRfState(d)
<1> SUFFICES ASSUME ~d.timer, d.worker = <<>>, ~d.half, ~d.failed
             PROVE  /\ d.powered = "on" => Effective(d.RFPowerState) = Effective(rf)
                    /\ Effective(rf) # {} => d.DeviceStopIdle
  BY DEF FollowsRadio
<1>1. /\ d.powered = "on" => Effective(d.RFPowerState) = Effective(rf)
      /\ ShouldStopIdle(rf) => d.DeviceStopIdle
  BY DEF Kept, Sound, Follows
<1> HIDE DEF rf
<1>2. Effective(rf) # {} => ShouldEnableDiscovery(rf) BY DEF Effective
<1>3. ShouldEnableDiscovery(rf) => ShouldStopIdle(rf) BY DEF ShouldEnableDiscovery, ShouldStopIdle
<1> QED BY <1>1, <1>2, <1>3

(* Once timer and worker are through, the RF interface runs the discovery   *)
(* that the references and the radio switch ask for, and the device may not *)
(* idle while it asks for one, whatever files, requests, failures and       *)
(* device power changes came before (power.cpp).                            *)
THEOREM FollowsRadioHolds == Spec => []FollowsRadio
<1>1. Kept => FollowsRadio BY Followed
<1> QED BY <1>1, KeptHolds, PTL

LEMMA AllTried ==
  ASSUME Kept
  PROVE  ArrivalServed
<1> SUFFICES ASSUME ~d.skipped, ~d.stopped, Idle("worker"), Idle("rf"), ~d.workItem,
                    NEW f \in d.due \ d.tried
             PROVE  d.file[f] = "closing"
  BY DEF ArrivalServed
<1>1. Served(d, <<>>) BY DEF Kept, Serving, Leaving, Idle, FirstOf
<1>2. ~Busy(<<>>) BY HandsIs
<1>3. Due(d) = {} BY <1>1, <1>2 DEF Served
<1>4. d.file[f] \in Used BY DEF Kept, Sound, Lists
<1>5. d.file[f] # "open" BY <1>3 DEF Due
<1> QED BY <1>4, <1>5 DEF Used

(* What was to be sent to the device in the field when it came was tried    *)
(* once the worker has nothing more to do, however many publications there  *)
(* are, whatever became of the ones before, and whoever was opened, closed, *)
(* enabled, disabled or given its payload meanwhile; but for one that was   *)
(* still in the worker's hands, and the rest after a peer refused one       *)
(* (NfcCxNFP.cpp, VerifyAndSendPublication and the send worker).            *)
THEOREM ArrivalServedHolds == Spec => []ArrivalServed
<1>1. Kept => ArrivalServed BY AllTried
<1> QED BY <1>1, KeptHolds, PTL
=============================================================================
