------------------------------ MODULE NfcCxSC ------------------------------
(***************************************************************************)
(* The smart card reader for cards in the field (Cx/NfcCxSC.cpp), the      *)
(* reader for the embedded secure element (NfcCxESE.cpp) and the           *)
(* dispatchers that keep a request for the arrival or the removal of a     *)
(* card (NfcCxSCPresentAbsentDispatcher.cpp).                              *)
(*                                                                         *)
(* Each reader has one client.  Its SmartCardLock protects the client and  *)
(* the connection; it is given back before a dispatcher or the controller  *)
(* is called.                                                              *)
(***************************************************************************)
EXTENDS NfcCxSE

Readers == {"sc", "ese"}
Dispatchers == [reader : Readers, waits : {"present", "absent"}]
NoRequest == [f |-> None, state |-> "none"]  \* none, marked, canceling, canceled
NoCurrent == [f |-> None, n |-> 0]

\* The queues are parallel: requests on their way to a dispatcher have numbers.
Numbers == 1 .. 2

Cards == {"iso", "tag", "odd"}   \* ISO-DEP card, NDEF storage card, type without a reader
StorageCards == {"tag"}
NdefFormatted == {"tag"}

SCCreate == [CurrentClient |-> [r \in Readers |-> None],
             SmartCardConnected |-> [r \in Readers |-> FALSE],
             SessionEstablished |-> FALSE, ClientPowerReferenceHeld |-> FALSE,
             StorageCard |-> FALSE, HasFirstResetRun |-> FALSE,
             CurrentRequest |-> [x \in Dispatchers |-> NoCurrent],
             request |-> [x \in Dispatchers |-> [n \in Numbers |-> NoRequest]],
             card |-> None,       \* what is in the field
             asleep |-> FALSE,    \* it was deactivated for another protocol
             used |-> FALSE,      \* the card keeps what a client has done with it
             missed |-> FALSE, lost |-> FALSE, gone |-> FALSE, stray |-> FALSE]

\* Only the requests of the contactless reader keep the radio on.
KeepsRadioOn(x) == x.reader = "sc"
Dispatcher(r, waits) == [reader |-> r, waits |-> waits]
DispatcherStep(s, f, x, n) == StepFor(s, f, x.reader, x.waits, n)
GiveUpPower(f, x) == IF KeepsRadioOn(x) THEN <<<<Step("FileRemove", f, "Proximity")>>>> ELSE <<>>

Waiting(d, f) == \E x \in Dispatchers, n \in Numbers : d.request[x][n].f = f

(***************************************************************************)
(* NfcCxSCPresentAbsentDispatcherSetRequest in its sections: the power     *)
(* reference, the cancel callback, and then the exchange that makes the    *)
(* request the current one, or finds that another one has become it.       *)
(***************************************************************************)
SetRequest(d, f, x, n) ==
  IF d.CurrentRequest[x] # NoCurrent THEN Fails(d)
  ELSE Then(d, (IF KeepsRadioOn(x) THEN <<Step("FileAdd", f, "Proximity")>> ELSE <<>>)
               \o <<DispatcherStep("MarkCancelable", f, x, n), DispatcherStep("Exchange", f, x, n)>>)

\* A request that has been canceled already cannot be marked.
MarkCancelable(d, f, x, n) ==
  Done([d EXCEPT !.request[x][n] = [f |-> f, state |-> "marked"]])
  \cup IF d.faults = 0 THEN {}
       ELSE {Outcome([d EXCEPT !.faults = @ - 1], FALSE, <<>>, GiveUpPower(f, x))}

Holds(d, x) == d.SmartCardConnected[x.reader] = (x.waits = "present")

\* What remains of a request that is completed: its cancel callback, if that is on its way
Unmarked(request) ==
  IF request.state = "canceling" THEN [request EXCEPT !.f = None] ELSE NoRequest

\* missed (history): what the request waits for came after the check, before the exchange,
\* or nobody was told of it;
\* lost: its cancel callback has found no request to cancel.
BecomesCurrent(d, f, x, n) ==
  Done([d EXCEPT !.CurrentRequest[x] = [f |-> f, n |-> n], !.missed = @ \/ Holds(d, x),
                 !.lost = @ \/ d.request[x][n].state = "canceled"])

ExchangeMutant(d, f, x, n) == BecomesCurrent(d, f, x, n)   \* whatever the dispatcher has by now

Exchange(d, f, x, n) ==
  IF d.CurrentRequest[x] = NoCurrent THEN BecomesCurrent(d, f, x, n)
  ELSE {Outcome([d EXCEPT !.request[x][n] = Unmarked(@)], FALSE, <<>>, GiveUpPower(f, x))}

CompleteMutant(d, x) ==   \* the reference is kept
  LET c == d.CurrentRequest[x]
  IN  IF c = NoCurrent THEN Done(d)
      ELSE Calling([d EXCEPT !.CurrentRequest[x] = NoCurrent],
                   <<<<DispatcherStep("Complete", c.f, x, c.n)>>>>)

CompleteRequest(d, x) ==
  LET c == d.CurrentRequest[x]
  IN  IF c = NoCurrent THEN Done(d)
      ELSE Calling([d EXCEPT !.CurrentRequest[x] = NoCurrent],
                   GiveUpPower(c.f, x) \o <<<<DispatcherStep("Complete", c.f, x, c.n)>>>>)

\* A callback whose request is not the current one leaves it to the other side.
RequestCanceled(d, x, n) ==
  IF d.CurrentRequest[x].n = n THEN CompleteRequest([d EXCEPT !.request[x][n].state = "canceled"], x)
  ELSE Done([d EXCEPT !.request[x][n] = IF @.f = None THEN NoRequest
                                        ELSE [@ EXCEPT !.state = "canceled"]])

Complete(d, x, n) == Done([d EXCEPT !.request[x][n] = Unmarked(@)])

CompleteStep(r, waits) == DispatcherStep("CompleteRequest", None, Dispatcher(r, waits), 0)

(***************************************************************************)
(* DispatchIsPresent and DispatchIsAbsent of both readers.                 *)
(***************************************************************************)
DispatchPresence(d, f, x, n) ==
  IF Holds(d, x) THEN Done(d) ELSE Then(d, <<DispatcherStep("SetRequest", f, x, n)>>)

(***************************************************************************)
(* The contactless reader: the client, and the card as the RF interface    *)
(* reports it.                                                             *)
(***************************************************************************)
AddClient(d, f, r, steps) ==
  IF d.CurrentClient[r] # None THEN Fails(d) ELSE Then([d EXCEPT !.CurrentClient[r] = f], steps)

\* NfcCxSCEnsureCardConnectedPowerReferenceIsReleased
ReferenceReleased(d) ==
  IF ~d.ClientPowerReferenceHeld THEN d
  ELSE (CHOOSE r \in FileRemoveReference([d EXCEPT !.ClientPowerReferenceHeld = FALSE],
                                         d.CurrentClient["sc"], "Proximity") : TRUE).d

\* NfcCxSCEnsureCardConnectedPowerReferenceIsHeld
ReferenceHeld(d) ==
  IF d.CurrentClient["sc"] = None \/ d.ClientPowerReferenceHeld THEN Done(d)
  ELSE {[r EXCEPT !.d.ClientPowerReferenceHeld = r.ok] :
          r \in FileAddReference(d, d.CurrentClient["sc"], "Proximity")}

ResetCall(f) == <<Step("TargetReactivate", f, None), Step("SessionOver", f, None)>>

RemoveClient(d, f) ==
  IF d.CurrentClient["sc"] # f THEN Fails(d)
  ELSE Calling([ReferenceReleased(d) EXCEPT !.CurrentClient["sc"] = None],
               IF d.SessionEstablished /\ d.card \notin NdefFormatted THEN <<ResetCall(f)>> ELSE <<>>)

HandleSmartCardConnectionEstablished(d) ==
  LET n == [d EXCEPT !.SmartCardConnected["sc"] = TRUE]
  IN  IF d.card = "odd" THEN Fails([n EXCEPT !.missed = TRUE])
      ELSE {[r EXCEPT !.steps = <<CompleteStep("sc", "present")>>, !.d.missed = @ \/ ~r.ok] :
              r \in ReferenceHeld([n EXCEPT !.StorageCard = @ \/ d.card \in StorageCards])}

HandleSmartCardConnectionLost(d) ==
  IF ~d.SmartCardConnected["sc"] THEN Fails(d)
  ELSE Then(ReferenceReleased([d EXCEPT !.SmartCardConnected["sc"] = FALSE,
                                        !.SessionEstablished = FALSE, !.StorageCard = FALSE,
                                        !.gone = TRUE]),
            <<CompleteStep("sc", "absent")>>)

(***************************************************************************)
(* Requests to the card.  The controller gives a card that is gone no      *)
(* answer; a card remembers what was done with it until it is reactivated. *)
(***************************************************************************)
DispatchSetPower(d, f) == IF ~d.SmartCardConnected["sc"] THEN Fails(d) ELSE Then(d, ResetCall(f))

TargetReactivate(d) ==
  Done([d EXCEPT !.used = FALSE, !.asleep = FALSE])
  \cup IF d.faults = 0 THEN {} ELSE Done([d EXCEPT !.faults = @ - 1])

\* NfcCxSCInterfaceResetCard forgets the session without a lock.
SessionOver(d, f) ==
  Done([d EXCEPT !.SessionEstablished = FALSE,
                 !.crossed = @ \/ d.CurrentClient["sc"] \notin {f, None}])

DispatchTransmitMutant(d, f) ==   \* no session is noted
  IF ~d.SmartCardConnected["sc"] THEN Fails(d)
  ELSE Then([d EXCEPT !.gone = FALSE], <<Step("TransmitRequest", f, None)>>)

DispatchTransmit(d, f) ==
  IF ~d.SmartCardConnected["sc"] THEN Fails(d)
  ELSE Then([d EXCEPT !.SessionEstablished = TRUE, !.gone = FALSE], <<Step("TransmitRequest", f, None)>>)

\* The command that switches the protocol: the card is activated again whether or not
\* the new protocol could be loaded.
DispatchSwitchProtocol(d) ==
  IF ~d.SmartCardConnected["sc"] THEN Fails(d)
  ELSE Then([d EXCEPT !.SessionEstablished = TRUE], <<Step("TargetDeactivate", None, None)>>)

TargetDeactivate(d) ==
  IF d.card = None THEN Fails(d)
  ELSE OrFails(d, Then([d EXCEPT !.asleep = TRUE, !.used = FALSE], <<Step("TargetActivate", None, None)>>))

TargetActivate(d) == OrFails(d, Done([d EXCEPT !.asleep = FALSE]))

TransmitRequest(d, f) ==
  IF ~d.SmartCardConnected["sc"] THEN Fails(d)
  ELSE OrFails(d, Then(d, <<Step("TransmitRawData", f, None)>>))

\* stray (history): the card that the command was for has left since DispatchTransmit's
\* check (gone), and another one gets it.
TransmitRawData(d) ==
  IF d.card = None \/ d.asleep THEN Fails(d)
  ELSE Done([d EXCEPT !.used = TRUE, !.stray = @ \/ d.gone])

(***************************************************************************)
(* The embedded secure element: it is powered while it has a client.       *)
(***************************************************************************)
ESEAddClient(d, f) ==
  AddClient([d EXCEPT !.crossed = @ \/ \E g \in WithRole({"ese"}) : d.file[g] = "closing"], f, "ese",
            <<Step("StopIdle", f, None), StepTo("SetCardWiredMode", f, "ese", "On")>>
            \o (IF d.HasFirstResetRun THEN <<>> ELSE <<Step("ESEReset", f, None)>>)
            \o <<Step("ESEEstablished", f, None), CompleteStep("ese", "present"), Step("ResumeIdle", f, None)>>)

ESERemoveMutant(d, f) ==
  IF d.CurrentClient["ese"] # f THEN Fails(d)
  ELSE Calling([d EXCEPT !.CurrentClient["ese"] = None], <<<<Step("ESELost", f, None)>>>>)

ESERemoveClient(d, f) ==
  IF d.CurrentClient["ese"] # f THEN Fails(d)
  ELSE Calling([d EXCEPT !.CurrentClient["ese"] = None],
               <<<<StepTo("SetCardWiredMode", f, "ese", "Off")>>, <<Step("ESELost", f, None)>>>>)

ESEEstablished(d) == Done([d EXCEPT !.SmartCardConnected["ese"] = TRUE])

ESELost(d) == IF ~d.SmartCardConnected["ese"] THEN Fails(d)
              ELSE Then([d EXCEPT !.SmartCardConnected["ese"] = FALSE], <<CompleteStep("ese", "absent")>>)

\* NfcCxESEInterfaceSetPower: the ATR that the reset gives is kept.
ESEReset(d) == OrFails(d, Done([d EXCEPT !.HasFirstResetRun = TRUE]))

ESEDispatchSetPower(d, f) ==
  IF ~d.SmartCardConnected["ese"] THEN Fails(d) ELSE Then(d, <<Step("ESEReset", f, None)>>)

ESEDispatchTransmit(d) == IF ~d.SmartCardConnected["ese"] THEN Fails(d) ELSE OrFails(d, Done(d))

DispatcherSteps == {"SetRequest", "MarkCancelable", "Exchange", "CompleteRequest", "RequestCanceled",
                    "Complete", "DispatchPresence"}

DispatcherSection(d, s, f, x, n) ==
  CASE s = "SetRequest" -> SetRequest(d, f, x, n)
    [] s = "MarkCancelable" -> MarkCancelable(d, f, x, n)
    [] s = "Exchange" -> Exchange(d, f, x, n)
    [] s = "CompleteRequest" -> CompleteRequest(d, x)
    [] s = "RequestCanceled" -> RequestCanceled(d, x, n)
    [] s = "Complete" -> Complete(d, x, n)
    [] s = "DispatchPresence" -> DispatchPresence(d, f, x, n)

SCSteps == {"SCAddClient", "SCRemoveClient", "SCEstablished", "SCLost", "DispatchSetPower",
            "TargetReactivate", "SessionOver", "DispatchTransmit", "TransmitRequest",
            "TransmitRawData", "DispatchSwitchProtocol", "TargetDeactivate", "TargetActivate"}

SCSection(d, s, f) ==
  CASE s = "SCAddClient" -> AddClient(d, f, "sc", <<>>)
    [] s = "SCRemoveClient" -> RemoveClient(d, f)
    [] s = "SCEstablished" -> HandleSmartCardConnectionEstablished(d)
    [] s = "SCLost" -> HandleSmartCardConnectionLost(d)
    [] s = "DispatchSetPower" -> DispatchSetPower(d, f)
    [] s = "TargetReactivate" -> TargetReactivate(d)
    [] s = "SessionOver" -> SessionOver(d, f)
    [] s = "DispatchTransmit" -> DispatchTransmit(d, f)
    [] s = "TransmitRequest" -> TransmitRequest(d, f)
    [] s = "TransmitRawData" -> TransmitRawData(d)
    [] s = "DispatchSwitchProtocol" -> DispatchSwitchProtocol(d)
    [] s = "TargetDeactivate" -> TargetDeactivate(d)
    [] s = "TargetActivate" -> TargetActivate(d)

ESESteps == {"ESEAddClient", "ESERemoveClient", "ESEEstablished", "ESELost", "ESEReset",
             "SetCardWiredMode", "ESEDispatchSetPower", "ESEDispatchTransmit"}

ESESection(d, s, f, x, v) ==
  CASE s = "ESEAddClient" -> ESEAddClient(d, f)
    [] s = "ESERemoveClient" -> ESERemoveClient(d, f)
    [] s = "ESEEstablished" -> ESEEstablished(d)
    [] s = "ESELost" -> ESELost(d)
    [] s = "ESEReset" -> ESEReset(d)
    [] s = "SetCardWiredMode" -> SetCardWiredMode(d, x, v = "On")
    [] s = "ESEDispatchSetPower" -> ESEDispatchSetPower(d, f)
    [] s = "ESEDispatchTransmit" -> ESEDispatchTransmit(d)
=============================================================================
