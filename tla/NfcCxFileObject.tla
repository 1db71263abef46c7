-------------------------- MODULE NfcCxFileObject --------------------------
(***************************************************************************)
(* What every file object of the class extension has (Cx/fileObject.cpp):  *)
(* its life, and the box in which messages and events wait for the         *)
(* client's next request, or one request waits for the next message.       *)
(* Subscribers, clients of secure element events, managers of secure       *)
(* elements (packets of card emulation) and publications (sent messages,   *)
(* of which only the number matters) all have one.                         *)
(***************************************************************************)
EXTENDS NfcCxPower

CONSTANTS
  Role,         \* what each file is opened for
  MaxQueue      \* NFP_MAX_PUB_SUB_QUEUE_LENGTH, NFCCX_MAX_HCE_PACKET_QUEUE_LENGTH

Roles == {"manager", "event", "ese", "sc", "p2p", "writetag", "readonly",
          "message", "arrival", "removal", "radio"}
Publications == {"p2p", "writetag", "readonly"}
Subscriptions == {"message", "arrival", "removal"}

ASSUME FileAssumption == Role \in [Files -> Roles] /\ MaxQueue \in Nat \ {0}

WithRole(roles) == {f \in Files : Role[f] \in roles}

(* A manager's box has no timer: nobody calls it unresponsive. *)
HasDetection(f) == Role[f] # "manager"

EmptyBox == [queue |-> 0, pending |-> FALSE, unresponsive |-> FALSE, timer |-> "off"]

FileCreate == [file |-> [f \in Files |-> "new"],   \* new, creating, open, closing, closed
               box |-> [f \in Files |-> EmptyBox],
               Enabled |-> [f \in Files |-> TRUE]]

(***************************************************************************)
(* A message for a box: it completes the pending request, or it is queued, *)
(* also when it did not fit into that request's buffer.                    *)
(***************************************************************************)
Queued(f, box) ==
  IF box.queue >= MaxQueue \/ box.unresponsive THEN box
  ELSE [box EXCEPT !.queue = @ + 1, !.timer = IF HasDetection(f) THEN "set" ELSE @]

Delivered(f, box, fits) ==
  IF ~box.pending THEN Queued(f, box)
  ELSE IF fits THEN [box EXCEPT !.pending = FALSE]
       ELSE Queued(f, [box EXCEPT !.pending = FALSE])

Deliver(d, f, fits) == [d EXCEPT !.box[f] = Delivered(f, @, fits)]

DeliverAll(d, files, fits) ==
  [d EXCEPT !.box = [f \in Files |-> IF f \in files THEN Delivered(f, @[f], fits) ELSE @[f]]]

\* Messages and events have sizes, so that they may not fit; a sent message is only counted.
MayNotFit(f) == Role[f] \in Subscriptions \cup {"event", "manager"}

(* The client's next request.  A timer that has expired is not held up by WdfTimerStop. *)
Responsive(box) == [box EXCEPT !.unresponsive = FALSE,
                               !.timer = IF @ = "expired" THEN @ ELSE "off"]

GetNext(d, f, fits) ==
  LET box == Responsive(d.box[f])
  IN  IF box.queue > 0 THEN Done([d EXCEPT !.box[f] = [box EXCEPT !.queue = IF fits THEN @ - 1 ELSE @]])
      ELSE IF box.pending THEN Fails([d EXCEPT !.box[f] = box])
           ELSE Done([d EXCEPT !.box[f] = [box EXCEPT !.pending = TRUE]])

\* A canceled request, and the requests that a disabled file's queue is purged of
Cancelled(d, f) == [d EXCEPT !.box[f].pending = FALSE]

DetectionExpires(d, f) == [d EXCEPT !.box[f].timer = "expired"]

\* NfcCxFileObjectUnresponsiveClientDetectionTimer, when it has the lock
UnresponsiveClientDetectionTimer(d, f) ==
  [d EXCEPT !.box[f] = [@ EXCEPT !.queue = 0, !.unresponsive = TRUE, !.timer = "off"]]

\* NfcCxEvtFileClose from its lock on; the timer is stopped and waited for.
Close(d, f) == CleanupFilePolicyReferences(
                 [d EXCEPT !.box[f] = EmptyBox, !.file[f] = "closed"], f)

(***************************************************************************)
(* Enable and disable: the flag changes under the file's lock, its         *)
(* reference to the radio after that.                                      *)
(***************************************************************************)
NfpEnable(d, f) ==
  IF d.Enabled[f] THEN Fails(d)
  ELSE Then([d EXCEPT !.Enabled[f] = TRUE], <<Step("FileAdd", f, "Proximity")>>)

NfpDisable(d, f) ==
  IF ~d.Enabled[f] THEN Fails(d)
  ELSE Then(Cancelled([d EXCEPT !.Enabled[f] = FALSE], f), <<Step("FileRemove", f, "Proximity")>>)
=============================================================================
