----------------------------- MODULE OsalTimer -----------------------------
(***************************************************************************)
(* The timers of the LibNfc thread (phOsalNfc_Timer.c).  A timer is a      *)
(* threadpool timer; when it goes off, a thread of the pool sets bFired    *)
(* and posts a message, and the LibNfc thread calls the callback when it   *)
(* comes to the message and bFired is still set.                           *)
(*                                                                         *)
(* Timers are created, started, stopped and deleted on the LibNfc thread,  *)
(* in the handler of a message or in the callback of a timer.  Each start  *)
(* has a number; it stands for the callback and the context passed.  The   *)
(* message queue is the sequence OsalQueue promises, without its bound,    *)
(* and carries the timer messages only: any other message is a handler     *)
(* that may run whenever the thread is free.                               *)
(*                                                                         *)
(* An action is a section under TimerLock, or a call outside it.           *)
(***************************************************************************)
EXTENDS Integers, Sequences, FiniteSets

CONSTANTS PH_MAX_OSAL_NUM_TIMERS, \* 15 in the code
          MaxStarts,              \* bound on the starts of all timers
          StartsRunning,          \* users restart a timer they did not stop
          StartsInCallback,       \* users start a timer in its own callback
          LeavesTimers            \* users leave timers behind when the driver stops

ASSUME TimerAssumption ==
  /\ PH_MAX_OSAL_NUM_TIMERS \in Nat \ {0}
  /\ MaxStarts \in Nat
  /\ {StartsRunning, StartsInCallback, LeavesTimers} \subseteq BOOLEAN

VARIABLES
  TimerList, \* the timers: see TimerType
  entering,  \* callbacks of the pool that have not reached TimerLock, for each timer
  queue,     \* timer messages of the LibNfc thread
  thread,    \* the LibNfc thread: see ThreadType
  cleanup,   \* phOsalNfc_Timer_DeInit: see CleanupType
  starts,    \* starts so far
  expired,   \* starts whose time is up
  ended,     \* starts stopped, deleted or replaced by another start
  calls      \* times the callback of each start was called

vars == <<TimerList, entering, queue, thread, cleanup, starts, expired, ended, calls>>

Timers == 0 .. PH_MAX_OSAL_NUM_TIMERS - 1
Starts == 1 .. MaxStarts
None == -1      \* no timer
Handler == -2   \* the handler of another message
NoStart == 0    \* a NULL callback, a threadpool timer that is not set

(***************************************************************************)
(* pTimer: there is a threadpool timer;  due: the start it is set for;     *)
(* pCallback: the start whose callback and context are stored.             *)
(***************************************************************************)
TimerType == [pTimer : BOOLEAN, due : 0 .. MaxStarts, pCallback : 0 .. MaxStarts, bFired : BOOLEAN]

(***************************************************************************)
(* runs: the timer whose callback runs, Handler or None;  call: "none";    *)
(* "checked" when bFired was read and the callback not yet;  "stop" or     *)
(* "delete" while it waits for the callbacks of the pool for timer "of".   *)
(***************************************************************************)
ThreadType == [runs : Timers \cup {None, Handler},
               call : {"none", "checked", "stop", "delete"},
               of : Timers \cup {None}]

(* doing: "no", "deletes" (holds TimerLock) or "done";  of: the timer it waits for *)
CleanupType == [doing : {"no", "deletes", "done"}, of : Timers \cup {None}]

TypeOK ==
  /\ TimerList \in [Timers -> TimerType]
  /\ entering \in [Timers -> Nat]
  /\ queue \in Seq(Timers)
  /\ thread \in ThreadType
  /\ cleanup \in CleanupType
  /\ starts \in 0 .. MaxStarts
  /\ expired \subseteq Starts
  /\ ended \subseteq Starts
  /\ calls \in [Starts -> Nat]

Cleared == [pTimer |-> FALSE, due |-> NoStart, pCallback |-> NoStart, bFired |-> FALSE]

Init ==
  /\ TimerList = [i \in Timers |-> Cleared]
  /\ entering = [i \in Timers |-> 0]
  /\ queue = <<>>
  /\ thread = [runs |-> None, call |-> "none", of |-> None]
  /\ cleanup = [doing |-> "no", of |-> None]
  /\ starts = 0
  /\ expired = {} /\ ended = {}
  /\ calls = [g \in Starts |-> 0]

-----------------------------------------------------------------------------
TimerLockFree == cleanup.doing # "deletes"

(* The LibNfc thread runs a handler or a callback and waits for nothing. *)
Running == thread.runs # None /\ thread.call = "none" /\ cleanup.doing = "no"

(* The time of a timer is up: the pool starts phOsalNfc_TimerCallback. *)
Expire(i) ==
  /\ TimerList[i].due # NoStart
  /\ expired' = expired \cup {TimerList[i].due}
  /\ TimerList' = [TimerList EXCEPT ![i].due = NoStart]
  /\ entering' = [entering EXCEPT ![i] = @ + 1]
  /\ UNCHANGED <<queue, thread, cleanup, starts, ended, calls>>

(* phOsalNfc_TimerCallback under TimerLock *)
FiresMutant(t) == t.pCallback = NoStart
Fires(t) == t.pCallback # NoStart

(* The message carries the index of the timer, not its id. *)
Message(i) == i

TimerCallback(i) ==
  /\ entering[i] > 0
  /\ TimerLockFree
  /\ entering' = [entering EXCEPT ![i] = @ - 1]
  /\ IF Fires(TimerList[i])
       THEN /\ TimerList' = [TimerList EXCEPT ![i].bFired = TRUE]
            /\ queue' = Append(queue, Message(i))
       ELSE UNCHANGED <<TimerList, queue>>
  /\ UNCHANGED <<thread, cleanup, starts, expired, ended, calls>>

(***************************************************************************)
(* phOsalNfc_TimerDeferredCall, without TimerLock: bFired is read, then    *)
(* the callback is read and called.                                        *)
(***************************************************************************)
Deferred(t) == t.bFired

TimerDeferredCall ==
  /\ thread.runs = None
  /\ queue # <<>>
  /\ queue' = Tail(queue)
  /\ thread' = IF Deferred(TimerList[Head(queue)])
                 THEN [thread EXCEPT !.runs = Head(queue), !.call = "checked"]
                 ELSE thread
  /\ UNCHANGED <<TimerList, entering, cleanup, starts, expired, ended, calls>>

(* Calling NULL is the end of the process: no action follows. *)
CallCallback ==
  /\ thread.call = "checked"
  /\ TimerList[thread.runs].pCallback # NoStart
  /\ thread' = [thread EXCEPT !.call = "none"]
  /\ calls' = [calls EXCEPT ![TimerList[thread.runs].pCallback] = @ + 1]
  /\ UNCHANGED <<TimerList, entering, queue, cleanup, starts, expired, ended>>

(* The callback returned: bFired is cleared, whatever the callback did. *)
AfterCallbackMutant(t) == t
AfterCallback(t) == [t EXCEPT !.bFired = FALSE]

CallbackReturn ==
  /\ thread.runs \in Timers /\ thread.call = "none"
  /\ thread' = [thread EXCEPT !.runs = None]
  /\ TimerList' = [TimerList EXCEPT ![thread.runs] = AfterCallback(@)]
  /\ UNCHANGED <<entering, queue, cleanup, starts, expired, ended, calls>>

(* Another message: its handler begins and ends. *)
HandlerBegin ==
  /\ thread.runs = None
  /\ cleanup.doing = "no"
  /\ thread' = [thread EXCEPT !.runs = Handler]
  /\ UNCHANGED <<TimerList, entering, queue, cleanup, starts, expired, ended, calls>>

HandlerReturn ==
  /\ thread.runs = Handler /\ thread.call = "none"
  /\ thread' = [thread EXCEPT !.runs = None]
  /\ UNCHANGED <<TimerList, entering, queue, cleanup, starts, expired, ended, calls>>

-----------------------------------------------------------------------------
(* What a handler or a callback may call *)

FreeTimers == {i \in Timers : ~TimerList[i].pTimer}

(* phOsalNfc_Timer_Create: the first free entry; without one the caller gets no timer. *)
Timer_Create ==
  /\ Running
  /\ \E i \in FreeTimers :
       /\ \A j \in FreeTimers : i <= j
       /\ TimerList' = [TimerList EXCEPT ![i].pTimer = TRUE]
  /\ UNCHANGED <<entering, queue, thread, cleanup, starts, expired, ended, calls>>

(* Nothing of an earlier start is left. *)
Quiet(i) == TimerList[i].due = NoStart /\ entering[i] = 0 /\ ~TimerList[i].bFired

MayStart(i) ==
  \/ StartsRunning
  \/ Quiet(i) /\ thread.runs # i
  \/ StartsInCallback /\ Quiet(i)

(* phOsalNfc_Timer_Start; bFired stays as it is. *)
Timer_Start(i) ==
  /\ Running
  /\ TimerList[i].pTimer
  /\ starts < MaxStarts
  /\ MayStart(i)
  /\ starts' = starts + 1
  /\ TimerList' = [TimerList EXCEPT ![i].due = starts + 1, ![i].pCallback = starts + 1]
  /\ ended' = ended \cup ({TimerList[i].pCallback} \ {NoStart})
  /\ UNCHANGED <<entering, queue, thread, cleanup, expired, calls>>

(* phOsalNfc_Timer_Stop: unset the threadpool timer, wait for its callbacks ... *)
Timer_Stop(i) ==
  /\ Running
  /\ TimerList[i].pTimer
  /\ TimerList' = [TimerList EXCEPT ![i].due = NoStart]
  /\ thread' = [thread EXCEPT !.call = "stop", !.of = i]
  /\ UNCHANGED <<entering, queue, cleanup, starts, expired, ended, calls>>

(* ... and clear what they left. *)
StoppedMutant(t) == t
Stopped(t) == [t EXCEPT !.bFired = FALSE, !.pCallback = NoStart]

(* phOsalNfc_Timer_Delete: the same, and the threadpool timer is closed. *)
Timer_Delete(i) ==
  /\ Running
  /\ TimerList[i].pTimer
  /\ TimerList' = [TimerList EXCEPT ![i].due = NoStart]
  /\ thread' = [thread EXCEPT !.call = "delete", !.of = i]
  /\ UNCHANGED <<entering, queue, cleanup, starts, expired, ended, calls>>

(* WaitForThreadpoolTimerCallbacks returns when no callback of the timer is left. *)
CallbacksDone(i) == entering[i] = 0

CallEnds ==
  /\ thread.call \in {"stop", "delete"}
  /\ CallbacksDone(thread.of)
  /\ TimerLockFree
  /\ ended' = ended \cup ({TimerList[thread.of].pCallback} \ {NoStart})
  /\ TimerList' = [TimerList EXCEPT ![thread.of] =
                     IF thread.call = "stop" THEN Stopped(@) ELSE Cleared]
  /\ thread' = [thread EXCEPT !.call = "none", !.of = None]
  /\ UNCHANGED <<entering, queue, cleanup, starts, expired, calls>>

-----------------------------------------------------------------------------
(***************************************************************************)
(* phOsalNfc_Timer_DeInit, on the thread that stops the driver, when the   *)
(* LibNfc thread has nothing else to do: with TimerLock held throughout,   *)
(* every timer left is deleted; phOsalNfc_Timer_Delete releases the lock   *)
(* once, which leaves it held.                                             *)
(***************************************************************************)
Left == {i \in Timers : TimerList[i].pTimer}

Timer_DeInit ==
  /\ cleanup.doing = "no"
  /\ thread.runs = None
  /\ LeavesTimers \/ Left = {}
  /\ cleanup' = [cleanup EXCEPT !.doing = "deletes"]
  /\ UNCHANGED <<TimerList, entering, queue, thread, starts, expired, ended, calls>>

CleanupDelete(i) ==
  /\ cleanup = [doing |-> "deletes", of |-> None]
  /\ i \in Left
  /\ \A j \in Left : i <= j
  /\ TimerList' = [TimerList EXCEPT ![i].due = NoStart]
  /\ cleanup' = [cleanup EXCEPT !.of = i]
  /\ UNCHANGED <<entering, queue, thread, starts, expired, ended, calls>>

CleanupClose ==
  /\ cleanup.doing = "deletes" /\ cleanup.of # None
  /\ CallbacksDone(cleanup.of)
  /\ ended' = ended \cup ({TimerList[cleanup.of].pCallback} \ {NoStart})
  /\ TimerList' = [TimerList EXCEPT ![cleanup.of] = Cleared]
  /\ cleanup' = [cleanup EXCEPT !.of = None]
  /\ UNCHANGED <<entering, queue, thread, starts, expired, calls>>

CleanupEnd ==
  /\ cleanup = [doing |-> "deletes", of |-> None]
  /\ Left = {}
  /\ cleanup' = [cleanup EXCEPT !.doing = "done"]
  /\ UNCHANGED <<TimerList, entering, queue, thread, starts, expired, ended, calls>>

Pool == \E i \in Timers : TimerCallback(i)
Returns == CallbackReturn \/ HandlerReturn
Cleanup == CleanupClose \/ CleanupEnd \/ \E i \in Timers : CleanupDelete(i)

Next ==
  \/ \E i \in Timers : Expire(i) \/ Timer_Start(i) \/ Timer_Stop(i) \/ Timer_Delete(i)
  \/ Pool \/ TimerDeferredCall \/ CallCallback \/ HandlerBegin \/ Returns \/ CallEnds
  \/ Timer_Create \/ Timer_DeInit \/ Cleanup

Spec == Init /\ [][Next]_vars

(* Time passes, the pool and the LibNfc thread are scheduled, and every handler returns. *)
FairSpec ==
  /\ Spec
  /\ \A i \in Timers : WF_vars(Expire(i)) /\ WF_vars(TimerCallback(i))
  /\ SF_vars(TimerDeferredCall) /\ WF_vars(CallCallback)
  /\ SF_vars(Returns) /\ WF_vars(CallEnds) /\ WF_vars(Cleanup)

-----------------------------------------------------------------------------
(***************************************************************************)
(* A start is called back after its time is up, at most once               *)
(* (phOsalNfc_Timer.h: the callback is called once the time out expires,   *)
(* and an old timeout is not valid any more after a restart).              *)
(***************************************************************************)
CalledAfterExpiry == \A g \in Starts : calls[g] > 0 => g \in expired

CalledOnce == \A g \in Starts : calls[g] <= 1

(***************************************************************************)
(* A start that was stopped, deleted or replaced is not called any more    *)
(* (phOsalNfc_Timer.h on phOsalNfc_Timer_Stop), although its message may   *)
(* wait in the queue.                                                      *)
(***************************************************************************)
StoppedStaysSilent == [][\A g \in ended : calls'[g] = calls[g]]_vars

(***************************************************************************)
(* A start whose time is up is called back (phOsalNfc_Timer.h: once its    *)
(* time out expires), unless it was stopped, deleted or replaced, or the   *)
(* driver stops.                                                           *)
(***************************************************************************)
ExpiryIsDelivered ==
  \A g \in Starts :
    g \in expired ~> (calls[g] > 0 \/ g \in ended \/ cleanup.doing # "no")

=============================================================================
