----------------------------- MODULE NfcCxPower -----------------------------
(***************************************************************************)
(* The power manager of the class extension (Cx/power.cpp): references     *)
(* that files and secure elements hold, the idle state of the device, the  *)
(* timer that brings the discovery in line with the references, and the    *)
(* radio switch with its registry copy.                                    *)
(*                                                                         *)
(* What the clients of the class extension share is the record d; this and *)
(* the modules that extend it name the sections of their functions.  A     *)
(* section is what a thread does between two points where others may come  *)
(* in: with one lock held, or in one RF call.  It is taken as one step,    *)
(* and gives the set of its outcomes [d, ok, steps, calls]: steps are what *)
(* the function goes on with when ok, calls are made whether or not one    *)
(* before them fails.                                                      *)
(***************************************************************************)
EXTENDS Integers, Sequences, FiniteSets, SequencesExt

CONSTANTS Files,        \* file objects
          StartsWithRadio \* the radio states that the registry may hold

ASSUME PowerAssumption == StartsWithRadio \subseteq BOOLEAN

None == "none"
ReferenceTypes == {"Proximity", "CardEmulation", "StealthListen", "ESe", "NoListen"}
NoReferences == [type \in ReferenceTypes |-> 0]

Outcome(d, ok, steps, calls) == [d |-> d, ok |-> ok, steps |-> steps, calls |-> calls]
Done(d) == {Outcome(d, TRUE, <<>>, <<>>)}
Fails(d) == {Outcome(d, FALSE, <<>>, <<>>)}
Then(d, steps) == {Outcome(d, TRUE, steps, <<>>)}
Calling(d, calls) == {Outcome(d, TRUE, <<>>, calls)}

\* What an object has of each of its parts
Joined(p, q) == [k \in DOMAIN p \cup DOMAIN q |-> IF k \in DOMAIN p THEN p[k] ELSE q[k]]

(* A call to the framework or to the controller may fail; d.faults bounds it. *)
OrFails(d, outcomes) ==
  outcomes \cup IF d.faults > 0 THEN Fails([d EXCEPT !.faults = @ - 1]) ELSE {}

\* Section s of a function that file f's call runs, for x (with v); n is the number of the
\* request that it works on, where that matters
StepFor(s, f, x, v, n) == [s |-> s, f |-> f, x |-> x, v |-> v, n |-> n]
StepTo(s, f, x, v) == StepFor(s, f, x, v, 0)
Step(s, f, x) == StepTo(s, f, x, None)

(***************************************************************************)
(* NfcCxPowerCreate reads the radio's state from the registry.             *)
(***************************************************************************)
PowerCreate(registry) ==
  [PowerReferences |-> NoReferences,
   FileReferences |-> [f \in Files |-> NoReferences],
   NfpRadioState |-> registry.radio, BeforeFlightMode |-> registry.before,
   registry |-> registry,
   DeviceStopIdle |-> FALSE, holds |-> {}, powered |-> "off",
   timer |-> FALSE, worker |-> <<>>, RFPowerState |-> {}, shown |-> {}, failed |-> FALSE]

GetRfState(d) ==
  {type \in ReferenceTypes : /\ d.PowerReferences[type] # 0
                             /\ type \in {"Proximity", "NoListen"} => d.NfpRadioState}

ShouldStopIdle(rf) == rf \ {"NoListen"} # {}

ShouldEnableDiscovery(rf) ==
  \/ "Proximity" \in rf
  \/ "NoListen" \notin rf /\ rf \cap {"CardEmulation", "StealthListen"} # {}

HasDiscoveryConfigChanged(old, new) == old \ {"ESe"} # new \ {"ESe"}

\* NfcCxPowerUpdateRFPollingState: how soon the timer expires makes no difference here.
UpdateRFPollingState(d, old, new) ==
  IF HasDiscoveryConfigChanged(old, new) THEN [d EXCEPT !.timer = TRUE] ELSE d

\* NfcCxPowerDeviceStopIdle for a new RF state: what follows when it worked, when it failed
DeviceStopIdle(d, new, done, failed) ==
  IF ~ShouldStopIdle(new) THEN Done(done)
  ELSE Done([done EXCEPT !.DeviceStopIdle = TRUE])
       \cup IF d.DeviceStopIdle \/ d.faults = 0 THEN {}
            ELSE Fails([failed EXCEPT !.faults = @ - 1])

DeviceResumeIdle(d, new) == IF ShouldStopIdle(new) THEN d ELSE [d EXCEPT !.DeviceStopIdle = FALSE]

AcquireFdoContextReferenceLocked(d, type) ==
  LET n == [d EXCEPT !.PowerReferences[type] = @ + 1]
  IN  DeviceStopIdle(d, GetRfState(n), UpdateRFPollingState(n, GetRfState(d), GetRfState(n)), d)

\* A reference too few: NfcCxDeviceSetFailed
Underflow(d) == [d EXCEPT !.failed = TRUE]

Released(d, n) ==
  DeviceResumeIdle(UpdateRFPollingState(n, GetRfState(d), GetRfState(n)), GetRfState(n))

ReleaseFdoContextReferenceLocked(d, type) ==
  IF d.PowerReferences[type] <= 0 THEN Fails(Underflow(d))
  ELSE Done(Released(d, [d EXCEPT !.PowerReferences[type] = @ - 1]))

FileAddReference(d, f, type) ==
  IF d.FileReferences[f][type] > 0 THEN Done([d EXCEPT !.FileReferences[f][type] = @ + 1])
  ELSE {[r EXCEPT !.d.FileReferences[f][type] = IF r.ok THEN 1 ELSE 0] :
          r \in AcquireFdoContextReferenceLocked(d, type)}

\* The last of a file's references gives up the device's.
FileRemoveReference(d, f, type) ==
  CASE d.FileReferences[f][type] = 0 -> Fails(Underflow(d))
    [] d.FileReferences[f][type] = 1 ->
         ReleaseFdoContextReferenceLocked([d EXCEPT !.FileReferences[f][type] = 0], type)
    [] OTHER -> Done([d EXCEPT !.FileReferences[f][type] = @ - 1])

\* One of each type that the file holds, under one lock: in which order makes no difference.
CleanupFilePolicyReferences(d, f) ==
  LET held == {type \in ReferenceTypes : d.FileReferences[f][type] > 0}
      given == {type \in held : d.PowerReferences[type] > 0}
      n == [d EXCEPT !.PowerReferences = [type \in ReferenceTypes |->
                                            IF type \in given THEN @[type] - 1 ELSE @[type]],
                     !.FileReferences[f] = NoReferences, !.failed = @ \/ held # given]
  IN  IF given = {} THEN n ELSE Released(d, n)

(***************************************************************************)
(* The radio switch: "on" and "off" by the user, "flight" and "landed" by  *)
(* the system.  The whole function holds WaitLock; its registry write      *)
(* comes last on every path.                                               *)
(***************************************************************************)
Interfaces == {"sc", "nfp"}

WriteRadioStateToRegistry(d) ==
  [d EXCEPT !.registry = [radio |-> d.NfpRadioState, before |-> d.BeforeFlightMode]]

Written(outcomes) == {[r EXCEPT !.d = WriteRadioStateToRegistry(r.d)] : r \in outcomes}

DesiredRadioState(d, how) == CASE how = "on" -> TRUE
                               [] how \in {"off", "flight"} -> FALSE
                               [] how = "landed" -> d.NfpRadioState \/ d.BeforeFlightMode

\* SCInterfaceStart comes first: the NFP interface is shown after it only.
RadioOn(d, n) ==
  LET on == UpdateRFPollingState(n, GetRfState(d), GetRfState(n))
  IN  UNION {IF ~r.ok THEN {r}
             ELSE Done([r.d EXCEPT !.shown = Interfaces])
                  \cup IF r.d.faults = 0 THEN {}
                       ELSE UNION {Fails([r.d EXCEPT !.faults = @ - 1, !.shown = s]) : s \in {{}, {"sc"}}} :
             r \in DeviceStopIdle(d, GetRfState(n), on, n)}

RadioOff(d, n) == Done(Released(d, [n EXCEPT !.shown = {}]))

RadioSet(d, desired) ==
  IF d.NfpRadioState = desired THEN Fails(d)
  ELSE IF desired THEN RadioOn(d, [d EXCEPT !.NfpRadioState = TRUE])
       ELSE RadioOff(d, [d EXCEPT !.NfpRadioState = FALSE])

SetRadioState(d, how) ==
  Written(RadioSet([d EXCEPT !.BeforeFlightMode = IF how = "flight" THEN d.NfpRadioState ELSE @],
                   DesiredRadioState(d, how)))

(***************************************************************************)
(* The timer's worker reads the RF state under the lock and tells it to    *)
(* the RF interface without it.  One worker is on its way at a time.       *)
(***************************************************************************)
WorkerReads(d) == [d EXCEPT !.timer = FALSE, !.worker = <<GetRfState(d)>>]

\* NfcCxRFInterfaceUpdateDiscoveryState: a device that is not in D0 refuses, which is no failure.
WorkerTells(d) ==
  LET rf == Head(d.worker)
      w == [d EXCEPT !.worker = <<>>]
  IN  IF d.powered = "off" \/ rf = d.RFPowerState THEN {w}
      ELSE {[w EXCEPT !.RFPowerState = rf]}
           \cup IF d.faults = 0 THEN {} ELSE {[w EXCEPT !.failed = TRUE, !.faults = @ - 1]}

(***************************************************************************)
(* D0 exit: NfcCxPowerStop, which waits for the worker, then the RF        *)
(* interface.  D0 entry starts the interfaces and then the power manager.  *)
(***************************************************************************)
MayIdle(d) == ~d.DeviceStopIdle /\ d.holds = {}

PowerStop(d) == [d EXCEPT !.powered = "stopping", !.timer = FALSE]

FdoDeInitialize(d) == [d EXCEPT !.powered = "off", !.RFPowerState = {}]

PowerStart(d) == [d EXCEPT !.timer = @ \/ ShouldEnableDiscovery(GetRfState(d))]

FdoInitializeMutant(d) == [d EXCEPT !.powered = "on",
                                    !.shown = IF d.NfpRadioState THEN Interfaces ELSE @]

FdoInitialize(d) ==
  PowerStart([d EXCEPT !.powered = "on",
                       !.shown = IF d.NfpRadioState THEN Interfaces ELSE @])

\* WdfDeviceStopIdle(TRUE) around an operation: the device is brought to D0 and kept there.
StopIdle(d, f) == OrFails(d, Then([d EXCEPT !.holds = @ \cup {f}], <<Step("AwaitD0", f, None)>>))
ResumeIdle(d, f) == [d EXCEPT !.holds = @ \ {f}]
=============================================================================
