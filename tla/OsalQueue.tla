----------------------------- MODULE OsalQueue -----------------------------
(***************************************************************************)
(* What the message queue of the LibNfc thread promises: the messages      *)
(* posted from any thread are run one at a time in the order they were     *)
(* posted, a full queue is a fatal error, and the queue closes after the   *)
(* exit message was run.                                                   *)
(***************************************************************************)
EXTENDS Naturals, Sequences

CONSTANTS Messages,   \* the messages of the users of the queue
          ExitThread, \* PH_OSALNFC_EXIT_THREAD
          NoMessage,  \* no message in hand
          Capacity    \* PH_OSAL_MSG_QUEUE_MAX_SIZE

VARIABLES queue,   \* posted and not taken, oldest first
          current, \* the message the LibNfc thread runs
          state    \* "closed", "open", "exiting", "exited" or "crashed"

vars == <<queue, current, state>>

Init ==
  /\ queue = <<>>
  /\ current = NoMessage
  /\ state = "closed"

Open ==
  /\ state = "closed"
  /\ state' = "open"
  /\ UNCHANGED <<queue, current>>

Accept(m) ==
  /\ Len(queue) < Capacity
  /\ queue' = Append(queue, m)
  /\ UNCHANGED current

Crash ==
  /\ Len(queue) = Capacity
  /\ state' = "crashed"
  /\ UNCHANGED <<queue, current>>

Post(m) ==
  /\ state \in {"open", "exiting", "exited"}
  /\ \/ Accept(m) /\ UNCHANGED state
     \/ Crash

Shut ==
  /\ state = "open"
  /\ \/ Accept(ExitThread) /\ state' = "exiting"
     \/ Crash

Take ==
  /\ state \in {"open", "exiting"}
  /\ current = NoMessage
  /\ queue # <<>>
  /\ current' = Head(queue)
  /\ queue' = Tail(queue)
  /\ UNCHANGED state

Done ==
  /\ state \in {"open", "exiting"}
  /\ current # NoMessage
  /\ current' = NoMessage
  /\ state' = IF current = ExitThread THEN "exited" ELSE state
  /\ UNCHANGED queue

(* What was posted behind the exit message is dropped. *)
Close ==
  /\ state = "exited"
  /\ state' = "closed"
  /\ queue' = <<>>
  /\ UNCHANGED current

Next ==
  \/ Open \/ Shut \/ Take \/ Done \/ Close
  \/ \E m \in Messages : Post(m)

SafeSpec == Init /\ [][Next]_vars

Spec == SafeSpec /\ WF_vars(Take) /\ WF_vars(Done) /\ WF_vars(Close)

=============================================================================
