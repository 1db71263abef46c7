------------------------------ MODULE NfcCxSE ------------------------------
(***************************************************************************)
(* The secure element interface (Cx/NfcCxSE.cpp): the one manager of the   *)
(* secure elements, the settings of each element with the power references *)
(* that follow from them, the events of the elements and the packets of    *)
(* card emulation.                                                         *)
(*                                                                         *)
(* The settings of an element change under SEPowerSettingsLock, together   *)
(* with its activation; the references follow when the lock is given back. *)
(***************************************************************************)
EXTENDS NfcCxFileObject

CONSTANTS SecureElements   \* ids of the elements, of which "ese" is the embedded one

ASSUME ElementsAssumption == IsFiniteSet(SecureElements)

Modes == {"Off", "On", "Stealth"}   \* EmulationOnPowerDependent and -Independent are alike
NoSettings == [EmulationMode |-> "Off", ForcePowerOn |-> FALSE, WiredMode |-> FALSE]

SECreate == [SEManager |-> None, settings |-> [se \in SecureElements |-> NoSettings],
             subscribers |-> {}, crossed |-> FALSE]

PowerReferenceTypes(mode) == CASE mode = "On" -> {"CardEmulation"}
                               [] mode = "Stealth" -> {"StealthListen"}
                               [] OTHER -> {}

(***************************************************************************)
(* NfcCxSEInterfaceUpdateSEActivationMode: the element is told what its    *)
(* settings ask for, and they are kept only when it obeyed.                *)
(***************************************************************************)
UpdateSEActivationMode(d, se, settings, steps) ==
  OrFails(d, Then([d EXCEPT !.settings[se] = settings], steps))

\* The references that a new emulation mode gives up and takes
ModeSteps(f, old, new) ==
  SetToSeq({Step("FdoRemove", f, type) : type \in PowerReferenceTypes(old) \ PowerReferenceTypes(new)})
  \o SetToSeq({Step("FdoAdd", f, type) : type \in PowerReferenceTypes(new) \ PowerReferenceTypes(old)})

SetCardEmulationMode(d, f, se, mode) ==
  UpdateSEActivationMode(d, se, [d.settings[se] EXCEPT !.EmulationMode = mode],
                         ModeSteps(f, d.settings[se].EmulationMode, mode))

PowerSteps(f, old, new) ==
  IF old = new THEN <<>> ELSE <<Step(IF new THEN "FdoAdd" ELSE "FdoRemove", f, "ESe")>>

SetPowerMode(d, f, se, force) ==
  UpdateSEActivationMode(d, se, [d.settings[se] EXCEPT !.ForcePowerOn = force],
                         PowerSteps(f, d.settings[se].ForcePowerOn, force))

SetCardWiredMode(d, se, wired) ==
  UpdateSEActivationMode(d, se, [d.settings[se] EXCEPT !.WiredMode = wired], <<>>)

(***************************************************************************)
(* A request to set a mode first looks at the routing table, and writes it *)
(* again when the power states of the element's entries differ.            *)
(***************************************************************************)
ModeCall(f, se, mode) ==
  <<Step("ValidateCardEmulationState", f, se), StepTo("SetCardEmulationMode", f, se, mode)>>
PowerCall(f, se, power) == <<StepTo("SetPowerMode", f, se, power)>>

(***************************************************************************)
(* The manager.  Its removal turns off what is on, element by element,     *)
(* from settings it has read before; the results are ignored, and nothing  *)
(* keeps a new manager from coming in between.                             *)
(***************************************************************************)
AddManager(d, f) == IF d.SEManager # None THEN Fails(d) ELSE Done([d EXCEPT !.SEManager = f])

RemoveManager(d, f) ==
  IF d.SEManager # f THEN Fails(d)
  ELSE Then([d EXCEPT !.SEManager = None],
            <<Step("GetSecureElementList", f, None)>>
            \o SetToSeq({Step("GetPowerSettings", f, se) : se \in SecureElements}))

TurnOff(d, f, se) ==
  Calling(d, (IF d.settings[se].EmulationMode = "Off" THEN <<>> ELSE <<ModeCall(f, se, "Off")>>)
             \o (IF d.settings[se].ForcePowerOn THEN <<PowerCall(f, se, "AllowOff")>> ELSE <<>>))

\* crossed (history): a manager has set something while another one was removed
Crossing(d, f) ==
  IF \E g \in WithRole({"manager"}) \ {f} : d.file[g] = "closing"
  THEN [d EXCEPT !.crossed = TRUE] ELSE d

(***************************************************************************)
(* Events and packets.                                                     *)
(***************************************************************************)
AddSubscriber(d, f) == Done([d EXCEPT !.subscribers = @ \cup {f}])
RemoveSubscriber(d, f) == Done([d EXCEPT !.subscribers = @ \ {f}])

\* NfcCxSEInterfaceHandleEvent for the clients whose subscription it matches
HandleEvent(d, clients, fits) == DeliverAll(d, clients \cap d.subscribers, fits)

HandleHCEPacket(d, fits) == IF d.SEManager = None THEN d ELSE Deliver(d, d.SEManager, fits)

PurgeHCERecvQueue(d) == IF d.SEManager = None THEN d
                        ELSE [d EXCEPT !.box[d.SEManager].queue = 0]

SESteps == {"ValidateCardEmulationState", "SetCardEmulationMode", "SetPowerMode", "AddManager",
            "RemoveManager", "GetSecureElementList", "GetPowerSettings", "AddSubscriber",
            "RemoveSubscriber"}

\* One section of the interface: x is the element, v the mode
SESection(d, s, f, x, v) ==
  CASE s \in {"ValidateCardEmulationState", "GetSecureElementList"} -> OrFails(d, Done(d))
    [] s = "SetCardEmulationMode" -> SetCardEmulationMode(Crossing(d, f), f, x, v)
    [] s = "SetPowerMode" -> SetPowerMode(Crossing(d, f), f, x, v = "On")
    [] s = "AddManager" -> AddManager(d, f)
    [] s = "RemoveManager" -> RemoveManager(d, f)
    [] s = "GetPowerSettings" -> TurnOff(d, f, x)
    [] s = "AddSubscriber" -> AddSubscriber(d, f)
    [] s = "RemoveSubscriber" -> RemoveSubscriber(d, f)
=============================================================================
