------------------------------ MODULE NfcCxNFP ------------------------------
(***************************************************************************)
(* The proximity interface (Cx/NfcCxNFP.cpp): subscriptions to messages,   *)
(* arrivals and removals, publications, and the worker that sends the      *)
(* publications to the device in the field.                                *)
(*                                                                         *)
(* PubsLock protects PubsList and SendList; it is taken before the         *)
(* StateLock of a file.  The worker holds the StateLock of the publication *)
(* it sends during the RF call, which the RF thread carries out; the RF    *)
(* thread takes both locks when a device arrives.  SendWorkerCurrentClient *)
(* is there so that it need not wait for that one.                         *)
(***************************************************************************)
EXTENDS NfcCxSC

NFPCreate == [SubsList |-> {}, PubsList |-> <<>>, SendList |-> <<>>,
              DeviceConnected |-> FALSE, TagConnected |-> FALSE,
              SendWorkerCurrentClient |-> None, StateLock |-> None, workItem |-> FALSE,
              payload |-> [f \in Files |-> "none"],   \* none, set, freed
              WriteAttempted |-> FALSE, ReadOnlyAttempted |-> FALSE,
              due |-> {}, tried |-> {}, skipped |-> FALSE, stopped |-> FALSE]

IsPublication(f) == Role[f] \in Publications
IsTagReadOnlyClient(f) == Role[f] = "readonly"
IsTagWriteClient(f) == Role[f] \in {"writetag", "readonly"}

\* RemoveEntryList: an entry is in its list at most once.
Without(list, f) ==
  IF f \in ToSet(list) THEN RemoveAt(list, CHOOSE i \in DOMAIN list : list[i] = f) ELSE list

(***************************************************************************)
(* The lists of the clients.                                               *)
(***************************************************************************)
AddClientToList(d, f) ==
  Then(IF IsPublication(f) THEN [d EXCEPT !.PubsList = <<f>> \o @]
                           ELSE [d EXCEPT !.SubsList = @ \cup {f}],
       <<Step("FileAdd", f, "Proximity")>>)

RemoveClientFromList(d, f) ==
  Done([d EXCEPT !.PubsList = Without(@, f), !.SubsList = @ \ {f}])

RemoveSendClient(d, f) == Done([d EXCEPT !.SendList = Without(@, f)])

\* The last section of a publication's close frees its buffer.
CloseClient(d, f) ==
  Done(Close([d EXCEPT !.payload[f] = IF IsPublication(f) THEN "freed" ELSE @,
                       !.due = @ \ {f}], f))

(***************************************************************************)
(* What is sent when: the decision and the place in the send list.         *)
(***************************************************************************)
MustSend(d, f) ==
  /\ d.DeviceConnected /\ d.Enabled[f]
  /\ d.TagConnected = IsTagWriteClient(f)
  /\ IsTagReadOnlyClient(f) \/ d.payload[f] = "set"

AddSendClientLocked(d, f) ==
  IF IsTagReadOnlyClient(f) \/ f \in ToSet(d.SendList) THEN d
  ELSE [d EXCEPT !.SendList = <<f>> \o @]

SkipsMutant(d, f) == FALSE

Skips(d, f) == d.SendWorkerCurrentClient = f

VerifyStateAndSendPublicationLocked(d, f) ==
  IF Skips(d, f) \/ ~MustSend(d, f) THEN d
  ELSE [AddSendClientLocked(d, f) EXCEPT !.workItem = TRUE]

\* Whose StateLock VerifyAndSendPublication has to wait for
WaitsFor(d, publications) == {f \in publications : ~Skips(d, f) /\ d.StateLock = f}

\* The chosen ones of a list, each put at the head of the send list when the walk comes to it
Inserted(list, chosen, sendList) ==
  LET f[n \in 0 .. Len(list)] ==
        IF n = 0 THEN sendList
        ELSE IF list[n] \in chosen THEN <<list[n]>> \o f[n - 1] ELSE f[n - 1]
  IN  f[Len(list)]

\* due (history): what is to be sent to the device that has just come;
\* skipped: one of them was, or is still said to be, in the worker's hands.
VerifyAndSendPublication(d) ==
  LET clients == {f \in ToSet(d.PubsList) : MustSend(d, f) /\ ~IsTagReadOnlyClient(f)}
      new == {f \in clients \ ToSet(d.SendList) : ~Skips(d, f)}
  IN  Done([d EXCEPT !.SendList = Inserted(d.PubsList, new, @),
                     !.workItem = @ \/ \E f \in ToSet(d.PubsList) : MustSend(d, f) /\ ~Skips(d, f),
                     !.due = clients, !.tried = {},
                     !.skipped = \E f \in clients : Skips(d, f), !.stopped = FALSE])

SetPayload(d, f) ==
  IF d.payload[f] # "none" THEN Fails(d)
  ELSE Then([d EXCEPT !.payload[f] = "set"], <<Step("Verify", f, None)>>)

(***************************************************************************)
(* Devices come and go (RF thread).                                        *)
(***************************************************************************)
Distribute(d, role, fits) ==
  DeliverAll(d, {f \in d.SubsList \cap WithRole({role}) : d.Enabled[f]}, fits)

HandleReceivedNdefMessage(d, fits) == Distribute(d, "message", fits)

ConnectionEstablished(d, tag) ==
  Done(Distribute([d EXCEPT !.DeviceConnected = TRUE, !.TagConnected = tag], "arrival", TRUE))

HandleP2pConnectionLost(d) == Then([d EXCEPT !.SendList = <<>>], <<Step("Departure", None, None)>>)

Departure(d) ==
  Done(Distribute([d EXCEPT !.DeviceConnected = FALSE, !.TagConnected = FALSE,
                            !.WriteAttempted = FALSE, !.ReadOnlyAttempted = FALSE,
                            !.due = {}], "removal", TRUE))

(***************************************************************************)
(* The send worker.  A client that was disabled stays the current one.     *)
(***************************************************************************)
SendWorker(d) ==
  LET w == [d EXCEPT !.workItem = FALSE]
  IN  IF d.DeviceConnected THEN Then(w, <<Step("Pop", None, None)>>) ELSE Done(w)

Pop(d) ==
  IF d.SendList = <<>> THEN Then(d, <<Step("CheckReadOnly", None, None)>>)
  ELSE LET f == Head(d.SendList)
           p == [d EXCEPT !.SendList = Tail(@), !.SendWorkerCurrentClient = f]
       IN  IF d.Enabled[f] THEN Then([p EXCEPT !.StateLock = f], <<Step("Choose", f, None)>>)
           ELSE Then(p, <<Step("Pop", None, None)>>)

Choose(d, f) == Then(d, <<Step(IF d.TagConnected THEN "WriteTag" ELSE "WriteP2P", f, None)>>)

Sent(d, f) == [Deliver(d, f, TRUE) EXCEPT !.StateLock = None, !.tried = @ \cup {f}]
NotSent(d, f) == [d EXCEPT !.StateLock = None, !.tried = @ \cup {f}]

WriteTagMutant(d, f) ==   \* the worker ends when a tag cannot be written
  LET w == [d EXCEPT !.WriteAttempted = @ \/ d.card = "tag"]
  IN  Then(NotSent(w, f), <<StepTo("ClearCurrent", f, "CheckReadOnly", None)>>)
      \cup IF d.card = "tag" /\ ~d.WriteAttempted
           THEN Then(Sent(w, f), <<StepTo("ClearCurrent", f, "Pop", None)>>) ELSE {}

\* A tag is written once while it is there; no answer matters for what follows.
WriteTag(d, f) ==
  LET next == <<StepTo("ClearCurrent", f, "Pop", None)>>
      w == [d EXCEPT !.WriteAttempted = @ \/ d.card = "tag"]
  IN  Then(NotSent(w, f), next)
      \cup IF d.card = "tag" /\ ~d.WriteAttempted THEN Then(Sent(w, f), next) ELSE {}

WriteP2P(d, f) ==
  Then([NotSent(d, f) EXCEPT !.stopped = TRUE], <<StepTo("ClearCurrent", f, "CheckReadOnly", None)>>)
  \cup IF d.card = "peer" THEN Then(Sent(d, f), <<StepTo("ClearCurrent", f, "Pop", None)>>) ELSE {}

ClearCurrent(d, next) ==
  Then([d EXCEPT !.SendWorkerCurrentClient = None], <<Step(next, None, None)>>)

CheckReadOnly(d) ==
  IF d.TagConnected /\ \E f \in ToSet(d.PubsList) : IsTagReadOnlyClient(f)
  THEN Then(d, <<Step("ConvertToReadOnly", None, None)>>) ELSE Done(d)

ConvertToReadOnly(d) ==
  IF d.card # "tag" \/ d.ReadOnlyAttempted THEN Done(d)
  ELSE LET r == [d EXCEPT !.ReadOnlyAttempted = TRUE]
       IN  Done(r) \cup Then(r, <<Step("CompleteReadOnlyRequests", None, None)>>)

CompleteReadOnlyRequests(d) ==
  Done(DeliverAll(d, {f \in ToSet(d.PubsList) : IsTagReadOnlyClient(f)}, TRUE))

(* Calls that the RF thread carries out for the worker *)
RFCalls == {"WriteTag", "WriteP2P", "ConvertToReadOnly"}

NFPSection(d, s, f, x) ==
  CASE s = "AddClientToList" -> AddClientToList(d, f)
    [] s = "RemoveClientFromList" -> RemoveClientFromList(d, f)
    [] s = "RemoveSendClient" -> RemoveSendClient(d, f)
    [] s = "CloseClient" -> CloseClient(d, f)
    [] s = "SetPayload" -> SetPayload(d, f)
    [] s = "Verify" -> Done(VerifyStateAndSendPublicationLocked(d, f))
    [] s = "VerifyAll" -> VerifyAndSendPublication(d)
    [] s = "Message" -> UNION {Done(HandleReceivedNdefMessage(d, fits)) : fits \in BOOLEAN}
    [] s = "TagArrival" -> ConnectionEstablished(d, TRUE)
    [] s = "PeerArrival" -> ConnectionEstablished(d, FALSE)
    [] s = "PeerLost" -> HandleP2pConnectionLost(d)
    [] s = "Departure" -> Departure(d)
    [] s = "SendWorker" -> SendWorker(d)
    [] s = "Pop" -> Pop(d)
    [] s = "Choose" -> Choose(d, f)
    [] s = "WriteTag" -> WriteTag(d, f)
    [] s = "WriteP2P" -> WriteP2P(d, f)
    [] s = "ClearCurrent" -> ClearCurrent(d, x)
    [] s = "CheckReadOnly" -> CheckReadOnly(d)
    [] s = "ConvertToReadOnly" -> ConvertToReadOnly(d)
    [] s = "CompleteReadOnlyRequests" -> CompleteReadOnlyRequests(d)
=============================================================================
