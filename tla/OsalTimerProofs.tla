-------------------------- MODULE OsalTimerProofs --------------------------
(***************************************************************************)
(* What holds of the timers for any number of timers and starts.           *)
(***************************************************************************)
EXTENDS OsalTimer, TLAPS

USE TimerAssumption

(* Where the calls of the LibNfc thread and of the cleanup are. *)
CallInv ==
  /\ thread.call = "checked" => thread.runs \in Timers
  /\ thread.call \in {"stop", "delete"} => thread.of \in Timers

(* A stored callback is of a start that did not end, and of no other timer. *)
LiveInv ==
  /\ ended \subseteq 1 .. starts
  /\ \A i \in Timers : TimerList[i].pCallback # NoStart =>
       TimerList[i].pCallback \in (1 .. starts) \ ended
  /\ \A i, j \in Timers : i # j /\ TimerList[i].pCallback # NoStart =>
       TimerList[i].pCallback # TimerList[j].pCallback

-----------------------------------------------------------------------------
(* Names and records *)

LEMMA Names == /\ None \notin Timers /\ Handler \notin Timers /\ None # Handler
               /\ NoStart \in 0 .. MaxStarts
BY DEF None, Handler, Timers, NoStart

LEMMA TimerRecords ==
  ASSUME NEW t \in TimerType, NEW g \in 0 .. MaxStarts
  PROVE  /\ [t EXCEPT !.due = NoStart] \in TimerType
         /\ [t EXCEPT !.bFired = TRUE] \in TimerType
         /\ [t EXCEPT !.bFired = FALSE] \in TimerType
         /\ [t EXCEPT !.pTimer = TRUE] \in TimerType
         /\ [t EXCEPT !.due = g, !.pCallback = g] \in TimerType
         /\ Stopped(t) \in TimerType
         /\ Cleared \in TimerType
BY Names DEF TimerType, Stopped, Cleared

LEMMA UpdatedTimer ==
  ASSUME TypeOK, NEW i \in Timers, NEW t \in TimerType,
         TimerList' = [TimerList EXCEPT ![i] = t]
  PROVE  TimerList' \in [Timers -> TimerType]
BY DEF TypeOK

LEMMA InitType == Init => TypeOK /\ CallInv
<1> SUFFICES ASSUME Init PROVE TypeOK /\ CallInv
  OBVIOUS
<1>1. Cleared \in TimerType
  BY Names DEF Cleared, TimerType
<1>2. queue \in Seq(Timers)
  BY DEF Init
<1> QED
  BY <1>1, <1>2 DEF Init, TypeOK, CallInv, ThreadType, CleanupType, None

-----------------------------------------------------------------------------
LEMMA TypeStep ==
  ASSUME TypeOK, CallInv, [Next]_vars
  PROVE  TypeOK' /\ CallInv'
<1>1. ASSUME NEW i \in Timers, Expire(i) PROVE TypeOK' /\ CallInv'
  <2>1. TimerList' \in [Timers -> TimerType]
    <3>1. TimerList[i] \in TimerType
      BY DEF TypeOK
    <3>2. TimerList' = [TimerList EXCEPT ![i] = [TimerList[i] EXCEPT !.due = NoStart]]
      BY <1>1 DEF Expire
    <3> QED
      BY <3>1, <3>2, Names, TimerRecords, UpdatedTimer
  <2>2. TimerList[i].due \in Starts
    BY <1>1 DEF Expire, TypeOK, TimerType, NoStart, Starts
  <2> QED
    BY <1>1, <2>1, <2>2 DEF Expire, TypeOK, CallInv
<1>2. ASSUME NEW i \in Timers, TimerCallback(i) PROVE TypeOK' /\ CallInv'
  <2>1. TimerList' \in [Timers -> TimerType]
    <3>1. TimerList[i] \in TimerType
      BY DEF TypeOK
    <3>2. TimerList' = [TimerList EXCEPT ![i] = [TimerList[i] EXCEPT !.bFired = TRUE]] \/ TimerList' = TimerList
      BY <1>2 DEF TimerCallback
    <3> QED
      BY <3>1, <3>2, Names, TimerRecords, UpdatedTimer DEF TypeOK
  <2>2. queue' \in Seq(Timers)
    <3>1. queue \in Seq(Timers) /\ (queue' = Append(queue, i) \/ queue' = queue)
      BY <1>2 DEF TimerCallback, TypeOK, Message
    <3> QED
      BY <3>1
  <2>3. entering' \in [Timers -> Nat]
    BY <1>2 DEF TimerCallback, TypeOK
  <2> QED
    BY <1>2, <2>1, <2>2, <2>3 DEF TimerCallback, TypeOK, CallInv
<1>3. CASE TimerDeferredCall
  <2>1. Head(queue) \in Timers /\ queue' \in Seq(Timers)
    BY <1>3 DEF TimerDeferredCall, TypeOK
  <2>2. thread' \in ThreadType /\ CallInv'
    BY <1>3, <2>1 DEF TimerDeferredCall, TypeOK, CallInv, ThreadType
  <2> QED
    BY <1>3, <2>1, <2>2 DEF TimerDeferredCall, TypeOK, CallInv
<1>4. CASE CallCallback
  <2>1. thread.runs \in Timers
    BY <1>4 DEF CallCallback, CallInv
  <2>2. TimerList[thread.runs].pCallback \in Starts
    BY <1>4, <2>1 DEF CallCallback, TypeOK, TimerType, Starts, NoStart
  <2>3. calls' \in [Starts -> Nat]
    BY <1>4, <2>2 DEF CallCallback, TypeOK
  <2>4. thread' \in ThreadType /\ CallInv'
    BY <1>4 DEF CallCallback, TypeOK, CallInv, ThreadType
  <2> QED
    BY <1>4, <2>1, <2>2, <2>3, <2>4 DEF CallCallback, TypeOK, CallInv
<1>5. CASE CallbackReturn
  <2>1. TimerList' \in [Timers -> TimerType]
    <3>1. TimerList[thread.runs] \in TimerType /\ thread.runs \in Timers
      BY <1>5 DEF TypeOK, CallbackReturn
    <3>2. TimerList' = [TimerList EXCEPT ![thread.runs] = [TimerList[thread.runs] EXCEPT !.bFired = FALSE]]
      BY <1>5 DEF CallbackReturn, AfterCallback
    <3> QED
      BY <3>1, <3>2, Names, TimerRecords, UpdatedTimer
  <2>2. thread' \in ThreadType /\ CallInv'
    BY <1>5 DEF CallbackReturn, TypeOK, CallInv, ThreadType
  <2> QED
    BY <1>5, <2>1, <2>2 DEF CallbackReturn, TypeOK, CallInv
<1>6. CASE HandlerBegin
  <2>1. thread' \in ThreadType /\ CallInv'
    <3>1. thread' = [thread EXCEPT !.runs = Handler] /\ thread \in ThreadType /\ thread.runs = None
      BY <1>6 DEF HandlerBegin, TypeOK
    <3>2. thread.call # "checked"
      BY <3>1, Names DEF CallInv
    <3> QED
      BY <3>1, <3>2 DEF CallInv, ThreadType
  <2> QED
    BY <1>6, <2>1 DEF HandlerBegin, TypeOK, CallInv
<1>7. CASE HandlerReturn
  <2>1. thread' \in ThreadType /\ CallInv'
    BY <1>7 DEF HandlerReturn, TypeOK, CallInv, ThreadType
  <2> QED
    BY <1>7, <2>1 DEF HandlerReturn, TypeOK, CallInv
<1>8. CASE Timer_Create
  <2>1. PICK k \in Timers : TimerList' = [TimerList EXCEPT ![k].pTimer = TRUE]
    BY <1>8 DEF Timer_Create, FreeTimers
  <2>2. TimerList' \in [Timers -> TimerType]
    <3>1. TimerList[k] \in TimerType
      BY DEF TypeOK
    <3>2. TimerList' = [TimerList EXCEPT ![k] = [TimerList[k] EXCEPT !.pTimer = TRUE]]
      BY <2>1
    <3> QED
      BY <3>1, <3>2, Names, TimerRecords, UpdatedTimer
  <2> QED
    BY <1>8, <2>1, <2>2 DEF Timer_Create, TypeOK, CallInv
<1>9. ASSUME NEW i \in Timers, Timer_Start(i) PROVE TypeOK' /\ CallInv'
  <2>0. starts \in Nat /\ starts < MaxStarts /\ starts' = starts + 1 /\ starts + 1 \in 0 .. MaxStarts
    BY <1>9 DEF Timer_Start, TypeOK
  <2>1. TimerList' \in [Timers -> TimerType]
    <3>1. TimerList[i] \in TimerType
      BY DEF TypeOK
    <3>2. TimerList' = [TimerList EXCEPT ![i] = [TimerList[i] EXCEPT !.due = starts + 1, !.pCallback = starts + 1]]
      BY <1>9 DEF Timer_Start
    <3> QED
      BY <2>0, <3>1, <3>2, TimerRecords, UpdatedTimer
  <2>2. ended' \subseteq Starts
    BY <1>9 DEF Timer_Start, TypeOK, TimerType, Starts, NoStart
  <2> QED
    BY <1>9, <2>0, <2>1, <2>2 DEF Timer_Start, TypeOK, CallInv
<1>10. ASSUME NEW i \in Timers, Timer_Stop(i) PROVE TypeOK' /\ CallInv'
  <2>1. TimerList' \in [Timers -> TimerType]
    <3>1. TimerList[i] \in TimerType
      BY DEF TypeOK
    <3>2. TimerList' = [TimerList EXCEPT ![i] = [TimerList[i] EXCEPT !.due = NoStart]]
      BY <1>10 DEF Timer_Stop
    <3> QED
      BY <3>1, <3>2, Names, TimerRecords, UpdatedTimer
  <2>2. thread' \in ThreadType /\ CallInv'
    BY <1>10 DEF Timer_Stop, TypeOK, CallInv, ThreadType
  <2> QED
    BY <1>10, <2>1, <2>2 DEF Timer_Stop, TypeOK, CallInv
<1>11. ASSUME NEW i \in Timers, Timer_Delete(i) PROVE TypeOK' /\ CallInv'
  <2>1. TimerList' \in [Timers -> TimerType]
    <3>1. TimerList[i] \in TimerType
      BY DEF TypeOK
    <3>2. TimerList' = [TimerList EXCEPT ![i] = [TimerList[i] EXCEPT !.due = NoStart]]
      BY <1>11 DEF Timer_Delete
    <3> QED
      BY <3>1, <3>2, Names, TimerRecords, UpdatedTimer
  <2>2. thread' \in ThreadType /\ CallInv'
    BY <1>11 DEF Timer_Delete, TypeOK, CallInv, ThreadType
  <2> QED
    BY <1>11, <2>1, <2>2 DEF Timer_Delete, TypeOK, CallInv
<1>12. CASE CallEnds
  <2>0. thread.of \in Timers
    BY <1>12 DEF CallEnds, CallInv
  <2>1. TimerList' \in [Timers -> TimerType]
    <3>1. TimerList[thread.of] \in TimerType
      BY <2>0 DEF TypeOK
    <3>2. \/ TimerList' = [TimerList EXCEPT ![thread.of] = Stopped(TimerList[thread.of])]
          \/ TimerList' = [TimerList EXCEPT ![thread.of] = Cleared]
      BY <1>12 DEF CallEnds
    <3> QED
      BY <2>0, <3>1, <3>2, Names, TimerRecords, UpdatedTimer
  <2>2. ended' \subseteq Starts
    BY <1>12, <2>0 DEF CallEnds, TypeOK, TimerType, Starts, NoStart
  <2>3. thread' \in ThreadType /\ CallInv'
    BY <1>12 DEF CallEnds, TypeOK, CallInv, ThreadType
  <2> QED
    BY <1>12, <2>0, <2>1, <2>2, <2>3 DEF CallEnds, TypeOK, CallInv
<1>13. CASE Timer_DeInit
  <2>1. cleanup' \in CleanupType
    BY <1>13 DEF Timer_DeInit, TypeOK, CleanupType
  <2> QED
    BY <1>13, <2>1 DEF Timer_DeInit, TypeOK, CallInv
<1>14. ASSUME NEW i \in Timers, CleanupDelete(i) PROVE TypeOK' /\ CallInv'
  <2>1. TimerList' \in [Timers -> TimerType]
    <3>1. TimerList[i] \in TimerType
      BY DEF TypeOK
    <3>2. TimerList' = [TimerList EXCEPT ![i] = [TimerList[i] EXCEPT !.due = NoStart]]
      BY <1>14 DEF CleanupDelete
    <3> QED
      BY <3>1, <3>2, Names, TimerRecords, UpdatedTimer
  <2>2. cleanup' \in CleanupType
    BY <1>14 DEF CleanupDelete, TypeOK, CleanupType
  <2> QED
    BY <1>14, <2>1, <2>2 DEF CleanupDelete, TypeOK, CallInv
<1>15. CASE CleanupClose
  <2>0. cleanup.of \in Timers
    BY <1>15 DEF CleanupClose, TypeOK, CleanupType
  <2>1. TimerList' \in [Timers -> TimerType]
    <3>1. TimerList[cleanup.of] \in TimerType
      BY <2>0 DEF TypeOK
    <3>2. TimerList' = [TimerList EXCEPT ![cleanup.of] = Cleared]
      BY <1>15 DEF CleanupClose
    <3> QED
      BY <2>0, <3>1, <3>2, Names, TimerRecords, UpdatedTimer
  <2>2. ended' \subseteq Starts
    BY <1>15, <2>0 DEF CleanupClose, TypeOK, TimerType, Starts, NoStart
  <2>3. cleanup' \in CleanupType
    BY <1>15 DEF CleanupClose, TypeOK, CleanupType
  <2> QED
    BY <1>15, <2>0, <2>1, <2>2, <2>3 DEF CleanupClose, TypeOK, CallInv
<1>16. CASE CleanupEnd
  <2>1. cleanup' \in CleanupType
    BY <1>16 DEF CleanupEnd, TypeOK, CleanupType
  <2> QED
    BY <1>16, <2>1 DEF CleanupEnd, TypeOK, CallInv
<1>17. CASE UNCHANGED vars
  BY <1>17 DEF vars, TypeOK, CallInv
<1> QED
  BY <1>1, <1>2, <1>3, <1>4, <1>5, <1>6, <1>7, <1>8, <1>9, <1>10, <1>11, <1>12, <1>13, <1>14, <1>15, <1>16, <1>17 DEF Next, Pool, Returns, Cleanup

-----------------------------------------------------------------------------
(* What each action does to the fields of the timers *)

LEMMA ExpireFields ==
  ASSUME TypeOK, CallInv, NEW i \in Timers, Expire(i)
  PROVE  \A j \in Timers :
           /\ TimerList'[j].pTimer = TimerList[j].pTimer
           /\ TimerList'[j].bFired = TimerList[j].bFired
           /\ TimerList'[j].pCallback = TimerList[j].pCallback
           /\ TimerList'[j].due = IF j = i THEN NoStart ELSE TimerList[j].due
BY DEF Expire, TypeOK, CallInv, TimerType, ThreadType, CleanupType

LEMMA CallbackFields ==
  ASSUME TypeOK, CallInv, NEW i \in Timers, TimerCallback(i)
  PROVE  \A j \in Timers :
           /\ TimerList'[j].pTimer = TimerList[j].pTimer
           /\ TimerList'[j].due = TimerList[j].due
           /\ TimerList'[j].pCallback = TimerList[j].pCallback
           /\ TimerList'[j].bFired = IF j = i THEN (IF TimerList[i].pCallback # NoStart THEN TRUE ELSE TimerList[i].bFired) ELSE TimerList[j].bFired
<1>1. CASE Fires(TimerList[i])
  <2>1. TimerList' = [TimerList EXCEPT ![i].bFired = TRUE]
    BY <1>1 DEF TimerCallback
  <2> QED
    BY <1>1, <2>1 DEF Fires, TypeOK, TimerType
<1>2. CASE ~Fires(TimerList[i])
  <2>1. TimerList' = TimerList
    BY <1>2 DEF TimerCallback
  <2> QED
    BY <1>2, <2>1 DEF Fires
<1> QED
  BY <1>1, <1>2

LEMMA ReturnFields ==
  ASSUME TypeOK, CallInv, CallbackReturn
  PROVE  \A j \in Timers :
           /\ TimerList'[j].pTimer = TimerList[j].pTimer
           /\ TimerList'[j].due = TimerList[j].due
           /\ TimerList'[j].pCallback = TimerList[j].pCallback
           /\ TimerList'[j].bFired = IF j = thread.runs THEN FALSE ELSE TimerList[j].bFired
BY DEF CallbackReturn, AfterCallback, TypeOK, CallInv, TimerType, ThreadType, CleanupType

LEMMA StartFields ==
  ASSUME TypeOK, CallInv, NEW i \in Timers, Timer_Start(i)
  PROVE  \A j \in Timers :
           /\ TimerList'[j].pTimer = TimerList[j].pTimer
           /\ TimerList'[j].bFired = TimerList[j].bFired
           /\ TimerList'[j].due = IF j = i THEN starts + 1 ELSE TimerList[j].due
           /\ TimerList'[j].pCallback = IF j = i THEN starts + 1 ELSE TimerList[j].pCallback
BY DEF Timer_Start, TypeOK, CallInv, TimerType, ThreadType, CleanupType

LEMMA StopFields ==
  ASSUME TypeOK, CallInv, NEW i \in Timers, Timer_Stop(i)
  PROVE  \A j \in Timers :
           /\ TimerList'[j].pTimer = TimerList[j].pTimer
           /\ TimerList'[j].bFired = TimerList[j].bFired
           /\ TimerList'[j].pCallback = TimerList[j].pCallback
           /\ TimerList'[j].due = IF j = i THEN NoStart ELSE TimerList[j].due
BY DEF Timer_Stop, TypeOK, CallInv, TimerType, ThreadType, CleanupType

LEMMA DeleteFields ==
  ASSUME TypeOK, CallInv, NEW i \in Timers, Timer_Delete(i)
  PROVE  \A j \in Timers :
           /\ TimerList'[j].pTimer = TimerList[j].pTimer
           /\ TimerList'[j].bFired = TimerList[j].bFired
           /\ TimerList'[j].pCallback = TimerList[j].pCallback
           /\ TimerList'[j].due = IF j = i THEN NoStart ELSE TimerList[j].due
BY DEF Timer_Delete, TypeOK, CallInv, TimerType, ThreadType, CleanupType

LEMMA CleanupDeleteFields ==
  ASSUME TypeOK, CallInv, NEW i \in Timers, CleanupDelete(i)
  PROVE  \A j \in Timers :
           /\ TimerList'[j].pTimer = TimerList[j].pTimer
           /\ TimerList'[j].bFired = TimerList[j].bFired
           /\ TimerList'[j].pCallback = TimerList[j].pCallback
           /\ TimerList'[j].due = IF j = i THEN NoStart ELSE TimerList[j].due
BY DEF CleanupDelete, TypeOK, CallInv, TimerType, ThreadType, CleanupType

LEMMA CreateFields ==
  ASSUME TypeOK, Timer_Create
  PROVE  \A j \in Timers :
           /\ TimerList'[j].bFired = TimerList[j].bFired
           /\ TimerList'[j].due = TimerList[j].due
           /\ TimerList'[j].pCallback = TimerList[j].pCallback
<1>1. PICK k \in Timers : TimerList' = [TimerList EXCEPT ![k].pTimer = TRUE]
  BY DEF Timer_Create, FreeTimers
<1> QED
  BY <1>1 DEF TypeOK, TimerType

LEMMA CallEndsFields ==
  ASSUME TypeOK, CallInv, CallEnds
  PROVE  /\ thread.of \in Timers /\ entering[thread.of] = 0
         /\ \A j \in Timers :
              /\ j # thread.of => TimerList'[j] = TimerList[j]
              /\ j = thread.of => /\ TimerList'[j].bFired = FALSE
                                 /\ TimerList'[j].pCallback = NoStart
                                 /\ TimerList'[j].due \in {NoStart, TimerList[j].due}
BY DEF CallEnds, Stopped, Cleared, CallbacksDone, CallInv, TypeOK, TimerType

LEMMA CloseFields ==
  ASSUME TypeOK, CleanupClose
  PROVE  /\ cleanup.of \in Timers /\ entering[cleanup.of] = 0
         /\ \A j \in Timers :
              /\ j # cleanup.of => TimerList'[j] = TimerList[j]
              /\ j = cleanup.of => /\ TimerList'[j].bFired = FALSE
                                  /\ TimerList'[j].pCallback = NoStart
                                  /\ TimerList'[j].due = NoStart
BY DEF CleanupClose, Cleared, CallbacksDone, TypeOK, TimerType, CleanupType

-----------------------------------------------------------------------------
(* The starts of the stored callbacks *)

LEMMA LiveFrame ==
  ASSUME LiveInv, starts' = starts, ended' = ended,
         \A j \in Timers : TimerList'[j].pCallback = TimerList[j].pCallback
  PROVE  LiveInv'
BY DEF LiveInv

LEMMA LiveEnd ==
  ASSUME TypeOK, LiveInv, NEW i \in Timers, starts' = starts,
         ended' = ended \cup ({TimerList[i].pCallback} \ {NoStart}),
         TimerList'[i].pCallback = NoStart,
         \A j \in Timers : j # i => TimerList'[j] = TimerList[j]
  PROVE  LiveInv'
BY DEF LiveInv

LEMMA LiveStep ==
  ASSUME TypeOK, CallInv, LiveInv, [Next]_vars
  PROVE  LiveInv'
<1>1. ASSUME NEW i \in Timers, Expire(i) PROVE LiveInv'
  BY <1>1, ExpireFields, LiveFrame DEF Expire
<1>2. ASSUME NEW i \in Timers, TimerCallback(i) PROVE LiveInv'
  BY <1>2, CallbackFields, LiveFrame DEF TimerCallback
<1>3. CASE TimerDeferredCall
  BY <1>3, LiveFrame DEF TimerDeferredCall
<1>4. CASE CallCallback
  BY <1>4, LiveFrame DEF CallCallback
<1>5. CASE CallbackReturn
  BY <1>5, ReturnFields, LiveFrame DEF CallbackReturn
<1>6. CASE HandlerBegin
  BY <1>6, LiveFrame DEF HandlerBegin
<1>7. CASE HandlerReturn
  BY <1>7, LiveFrame DEF HandlerReturn
<1>8. CASE Timer_Create
  BY <1>8, CreateFields, LiveFrame DEF Timer_Create
<1>9. ASSUME NEW i \in Timers, Timer_Start(i) PROVE LiveInv'
  <2>1. starts \in Nat /\ starts' = starts + 1
        /\ ended' = ended \cup ({TimerList[i].pCallback} \ {NoStart})
    BY <1>9 DEF Timer_Start, TypeOK
  <2>2. \A j \in Timers : TimerList'[j].pCallback = IF j = i THEN starts + 1 ELSE TimerList[j].pCallback
    BY <1>9, StartFields
  <2>3. starts + 1 \notin ended /\ \A j \in Timers : TimerList[j].pCallback # starts + 1
    BY <2>1 DEF LiveInv, NoStart
  <2>4. ended' \subseteq 1 .. starts'
    <3>1. 1 .. starts \subseteq 1 .. starts'
      BY <2>1
    <3>2. ended' \subseteq 1 .. starts
      BY <2>1 DEF LiveInv
    <3> QED
      BY <3>1, <3>2
  <2>5. ASSUME NEW j \in Timers, TimerList'[j].pCallback # NoStart
        PROVE  TimerList'[j].pCallback \in (1 .. starts') \ ended'
    <3>1. CASE j = i
      BY <2>1, <2>2, <2>3, <3>1 DEF NoStart
    <3>2. CASE j # i
      BY <2>1, <2>2, <2>5, <3>2 DEF LiveInv
    <3> QED
      BY <3>1, <3>2
  <2>6. ASSUME NEW j \in Timers, NEW k \in Timers, j # k, TimerList'[j].pCallback # NoStart
        PROVE  TimerList'[j].pCallback # TimerList'[k].pCallback
    BY <2>2, <2>3, <2>6 DEF LiveInv
  <2> QED
    BY <2>4, <2>5, <2>6 DEF LiveInv
<1>10. ASSUME NEW i \in Timers, Timer_Stop(i) PROVE LiveInv'
  BY <1>10, StopFields, LiveFrame DEF Timer_Stop
<1>11. ASSUME NEW i \in Timers, Timer_Delete(i) PROVE LiveInv'
  BY <1>11, DeleteFields, LiveFrame DEF Timer_Delete
<1>12. CASE CallEnds
  BY <1>12, CallEndsFields, LiveEnd DEF CallEnds
<1>13. CASE Timer_DeInit
  BY <1>13, LiveFrame DEF Timer_DeInit
<1>14. ASSUME NEW i \in Timers, CleanupDelete(i) PROVE LiveInv'
  BY <1>14, CleanupDeleteFields, LiveFrame DEF CleanupDelete
<1>15. CASE CleanupClose
  BY <1>15, CloseFields, LiveEnd DEF CleanupClose
<1>16. CASE CleanupEnd
  BY <1>16, LiveFrame DEF CleanupEnd
<1>17. CASE UNCHANGED vars
  BY <1>17, LiveFrame DEF vars
<1> QED
  BY <1>1, <1>2, <1>3, <1>4, <1>5, <1>6, <1>7, <1>8, <1>9, <1>10, <1>11, <1>12, <1>13, <1>14, <1>15, <1>16, <1>17 DEF Next, Pool, Returns, Cleanup

-----------------------------------------------------------------------------
(* Users that stop a timer before they start it again *)

(* What may still call is for a start whose time is up. *)
StoppingInv ==
  thread.call \in {"stop", "delete"} => TimerList[thread.of].due = NoStart

ExpiredInv ==
  /\ StoppingInv
  /\ \A i \in Timers : TimerList[i].due # NoStart => TimerList[i].due = TimerList[i].pCallback
  /\ \A i \in Timers :
       /\ TimerList[i].pCallback # NoStart
       /\ entering[i] > 0 \/ TimerList[i].bFired \/ (thread.call = "checked" /\ thread.runs = i)
       => TimerList[i].pCallback \in expired
  /\ CalledAfterExpiry

LEMMA ExpiredStep ==
  ASSUME TypeOK, CallInv, ~StartsRunning, ExpiredInv, [Next]_vars
  PROVE  ExpiredInv'
<1>1. ASSUME NEW i \in Timers, Expire(i) PROVE ExpiredInv'
  BY <1>1, ExpireFields DEF Expire, TypeOK, CallInv, ThreadType, NoStart, ExpiredInv, StoppingInv, CalledAfterExpiry
<1>2. ASSUME NEW i \in Timers, TimerCallback(i) PROVE ExpiredInv'
  BY <1>2, CallbackFields DEF TimerCallback, TypeOK, CallInv, ThreadType, NoStart, ExpiredInv, StoppingInv, CalledAfterExpiry
<1>3. CASE TimerDeferredCall
  BY <1>3, Names DEF TimerDeferredCall, Deferred, TypeOK, CallInv, ThreadType, NoStart, ExpiredInv, StoppingInv, CalledAfterExpiry
<1>4. CASE CallCallback
  BY <1>4, Names DEF CallCallback, TypeOK, CallInv, ThreadType, NoStart, ExpiredInv, StoppingInv, CalledAfterExpiry
<1>5. CASE CallbackReturn
  BY <1>5, ReturnFields DEF CallbackReturn, TypeOK, CallInv, ThreadType, NoStart, ExpiredInv, StoppingInv, CalledAfterExpiry
<1>6. CASE HandlerBegin
  BY <1>6, Names DEF HandlerBegin, TypeOK, CallInv, ThreadType, NoStart, ExpiredInv, StoppingInv, CalledAfterExpiry
<1>7. CASE HandlerReturn
  BY <1>7, Names DEF HandlerReturn, TypeOK, CallInv, ThreadType, NoStart, ExpiredInv, StoppingInv, CalledAfterExpiry
<1>8. CASE Timer_Create
  BY <1>8, CreateFields DEF Timer_Create, TypeOK, CallInv, ThreadType, NoStart, ExpiredInv, StoppingInv, CalledAfterExpiry
<1>9. ASSUME NEW i \in Timers, Timer_Start(i) PROVE ExpiredInv'
  <2>1. /\ entering[i] = 0 /\ ~TimerList[i].bFired /\ thread.call = "none"
        /\ UNCHANGED <<entering, thread, expired, calls>>
    BY <1>9 DEF Timer_Start, Running, MayStart, Quiet
  <2>6. StoppingInv'
    BY <2>1 DEF StoppingInv
  <2>2. \A j \in Timers : /\ TimerList'[j].bFired = TimerList[j].bFired
                          /\ TimerList'[j].due = IF j = i THEN starts + 1 ELSE TimerList[j].due
                          /\ TimerList'[j].pCallback = IF j = i THEN starts + 1 ELSE TimerList[j].pCallback
    BY <1>9, StartFields
  <2>3. \A j \in Timers : TimerList'[j].due # NoStart => TimerList'[j].due = TimerList'[j].pCallback
    BY <2>2 DEF ExpiredInv
  <2>4. ASSUME NEW j \in Timers, TimerList'[j].pCallback # NoStart,
               entering'[j] > 0 \/ TimerList'[j].bFired \/ (thread'.call = "checked" /\ thread'.runs = j)
        PROVE  TimerList'[j].pCallback \in expired'
    BY <2>1, <2>2, <2>4 DEF ExpiredInv
  <2>5. CalledAfterExpiry'
    BY <2>1 DEF ExpiredInv, CalledAfterExpiry
  <2> QED
    BY <2>3, <2>4, <2>5, <2>6 DEF ExpiredInv
<1>10. ASSUME NEW i \in Timers, Timer_Stop(i) PROVE ExpiredInv'
  <2>1. thread'.call # "checked" /\ UNCHANGED <<entering, expired, calls>>
    BY <1>10 DEF Timer_Stop, TypeOK, ThreadType
  <2>2. \A j \in Timers : /\ TimerList'[j].bFired = TimerList[j].bFired
                          /\ TimerList'[j].due = IF j = i THEN NoStart ELSE TimerList[j].due
                          /\ TimerList'[j].pCallback = TimerList[j].pCallback
    BY <1>10, StopFields
  <2>3. \A j \in Timers : TimerList'[j].due # NoStart => TimerList'[j].due = TimerList'[j].pCallback
    BY <2>2 DEF ExpiredInv
  <2>4. ASSUME NEW j \in Timers, TimerList'[j].pCallback # NoStart, entering'[j] > 0 \/ TimerList'[j].bFired
        PROVE  TimerList'[j].pCallback \in expired'
    BY <2>1, <2>2, <2>4 DEF ExpiredInv
  <2>5. CalledAfterExpiry'
    BY <2>1 DEF ExpiredInv, CalledAfterExpiry
  <2>6. StoppingInv'
    <3>1. thread'.of = i
      BY <1>10 DEF Timer_Stop, TypeOK, ThreadType
    <3> QED
      BY <2>2, <3>1 DEF StoppingInv
  <2> QED
    BY <2>1, <2>3, <2>4, <2>5, <2>6 DEF ExpiredInv
<1>11. ASSUME NEW i \in Timers, Timer_Delete(i) PROVE ExpiredInv'
  <2>1. thread'.call # "checked" /\ UNCHANGED <<entering, expired, calls>>
    BY <1>11 DEF Timer_Delete, TypeOK, ThreadType
  <2>2. \A j \in Timers : /\ TimerList'[j].bFired = TimerList[j].bFired
                          /\ TimerList'[j].due = IF j = i THEN NoStart ELSE TimerList[j].due
                          /\ TimerList'[j].pCallback = TimerList[j].pCallback
    BY <1>11, DeleteFields
  <2>3. \A j \in Timers : TimerList'[j].due # NoStart => TimerList'[j].due = TimerList'[j].pCallback
    BY <2>2 DEF ExpiredInv
  <2>4. ASSUME NEW j \in Timers, TimerList'[j].pCallback # NoStart, entering'[j] > 0 \/ TimerList'[j].bFired
        PROVE  TimerList'[j].pCallback \in expired'
    BY <2>1, <2>2, <2>4 DEF ExpiredInv
  <2>5. CalledAfterExpiry'
    BY <2>1 DEF ExpiredInv, CalledAfterExpiry
  <2>6. StoppingInv'
    <3>1. thread'.of = i
      BY <1>11 DEF Timer_Delete, TypeOK, ThreadType
    <3> QED
      BY <2>2, <3>1 DEF StoppingInv
  <2> QED
    BY <2>1, <2>3, <2>4, <2>5, <2>6 DEF ExpiredInv
<1>12. CASE CallEnds
  <2>1. /\ thread.of \in Timers /\ thread'.call # "checked" /\ UNCHANGED <<entering, expired, calls>>
        /\ TimerList[thread.of].due = NoStart
    BY <1>12, CallEndsFields DEF CallEnds, TypeOK, ThreadType, ExpiredInv, StoppingInv
  <2>2. \A j \in Timers : /\ j # thread.of => TimerList'[j] = TimerList[j]
                          /\ j = thread.of => TimerList'[j].pCallback = NoStart /\ TimerList'[j].due = NoStart
    BY <1>12, <2>1, CallEndsFields
  <2>3. \A j \in Timers : TimerList'[j].due # NoStart => TimerList'[j].due = TimerList'[j].pCallback
    BY <2>2 DEF ExpiredInv
  <2>4. ASSUME NEW j \in Timers, TimerList'[j].pCallback # NoStart, entering'[j] > 0 \/ TimerList'[j].bFired
        PROVE  TimerList'[j].pCallback \in expired'
    BY <2>1, <2>2, <2>4 DEF ExpiredInv
  <2>5. CalledAfterExpiry'
    BY <2>1 DEF ExpiredInv, CalledAfterExpiry
  <2>6. StoppingInv'
    BY <1>12 DEF CallEnds, StoppingInv, TypeOK, ThreadType
  <2> QED
    BY <2>1, <2>3, <2>4, <2>5, <2>6 DEF ExpiredInv
<1>13. CASE Timer_DeInit
  BY <1>13, Names DEF Timer_DeInit, TypeOK, CallInv, ThreadType, NoStart, ExpiredInv, StoppingInv, CalledAfterExpiry
<1>14. ASSUME NEW i \in Timers, CleanupDelete(i) PROVE ExpiredInv'
  BY <1>14, CleanupDeleteFields DEF CleanupDelete, TypeOK, CallInv, ThreadType, NoStart, ExpiredInv, StoppingInv, CalledAfterExpiry
<1>15. CASE CleanupClose
  BY <1>15, CloseFields DEF CleanupClose, TypeOK, CallInv, ThreadType, NoStart, ExpiredInv, StoppingInv, CalledAfterExpiry
<1>16. CASE CleanupEnd
  BY <1>16, Names DEF CleanupEnd, TypeOK, CallInv, ThreadType, NoStart, ExpiredInv, StoppingInv, CalledAfterExpiry
<1>17. CASE UNCHANGED vars
  BY <1>17, Names DEF vars, TypeOK, CallInv, ThreadType, NoStart, ExpiredInv, StoppingInv, CalledAfterExpiry
<1> QED
  BY <1>1, <1>2, <1>3, <1>4, <1>5, <1>6, <1>7, <1>8, <1>9, <1>10, <1>11, <1>12, <1>13, <1>14, <1>15, <1>16, <1>17 DEF Next, Pool, Returns, Cleanup

-----------------------------------------------------------------------------
(* Each start is called back once *)

(* The start stored in a timer may still be called. *)
Uncalled(i) ==
  \/ TimerList[i].due # NoStart
  \/ entering[i] > 0
  \/ TimerList[i].bFired /\ ~(thread.runs = i /\ thread.call # "checked")

(* A timer is set, or one callback of the pool is on its way, or it fired. *)
OnePlace(i) ==
  /\ entering[i] \in {0, 1}
  /\ TimerList[i].due # NoStart =>
       entering[i] = 0 /\ ~TimerList[i].bFired /\ TimerList[i].due = TimerList[i].pCallback
  /\ entering[i] = 1 => ~TimerList[i].bFired

(* What may still be called was not called. *)
NotYet(i) ==
  Uncalled(i) /\ TimerList[i].pCallback # NoStart => calls[TimerList[i].pCallback] = 0

(* The callback that bFired allowed: nothing but the cleanup takes it away. *)
CheckedInv ==
  thread.call = "checked" =>
    TimerList[thread.runs].bFired \/ TimerList[thread.runs].pCallback = NoStart

OnceInv ==
  /\ CalledOnce
  /\ \A g \in Starts : g > starts => calls[g] = 0
  /\ \A i \in Timers : OnePlace(i) /\ NotYet(i)
  /\ CheckedInv

(* A step that calls nothing, and after which nothing may be called that might not before *)
LEMMA OnceFrame ==
  ASSUME OnceInv, calls' = calls, starts' = starts, CheckedInv',
         \A j \in Timers : OnePlace(j)',
         \A j \in Timers : Uncalled(j)' => Uncalled(j),
         \A j \in Timers : TimerList'[j].pCallback \in {NoStart, TimerList[j].pCallback}
  PROVE  OnceInv'
BY DEF OnceInv, CalledOnce, NotYet

LEMMA OnceStep ==
  ASSUME TypeOK, CallInv, LiveInv, ~StartsRunning, ExpiredInv, OnceInv, [Next]_vars
  PROVE  OnceInv'
<1>0. \A j \in Timers : OnePlace(j) /\ entering[j] \in Nat /\ TimerList[j].bFired \in BOOLEAN
  BY DEF OnceInv, TypeOK, TimerType
<1>1. ASSUME NEW i \in Timers, Expire(i) PROVE OnceInv'
  <2>1. \A j \in Timers : entering'[j] = IF j = i THEN entering[i] + 1 ELSE entering[j]
    BY <1>1 DEF Expire, TypeOK
  <2>2. /\ UNCHANGED <<thread, starts, calls>> /\ TimerList[i].due # NoStart
    BY <1>1 DEF Expire
  <2>3. \A j \in Timers : OnePlace(j)'
    BY <1>0, <1>1, <2>1, <2>2, ExpireFields DEF OnePlace
  <2>4. \A j \in Timers : Uncalled(j)' => Uncalled(j)
    BY <1>1, <2>1, <2>2, ExpireFields DEF Uncalled
  <2>5. CheckedInv'
    BY <1>1, <2>2, ExpireFields DEF OnceInv, CheckedInv, CallInv
  <2> QED
    BY <1>1, <2>2, <2>3, <2>4, <2>5, ExpireFields, OnceFrame
<1>2. ASSUME NEW i \in Timers, TimerCallback(i) PROVE OnceInv'
  <2>1. \A j \in Timers : entering'[j] = IF j = i THEN entering[i] - 1 ELSE entering[j]
    BY <1>2 DEF TimerCallback, TypeOK
  <2>2. /\ UNCHANGED <<thread, starts, calls>> /\ entering[i] > 0
    BY <1>2 DEF TimerCallback
  <2>3. ASSUME NEW j \in Timers PROVE OnePlace(j)'
    <3>1. OnePlace(j) /\ OnePlace(i) /\ entering[i] = 1 /\ TimerList[i].due = NoStart
      <4>1. OnePlace(j) /\ OnePlace(i) /\ entering[i] \in {0, 1}
        BY <1>0 DEF OnePlace
      <4>2. entering[i] = 1
        BY <2>2, <4>1
      <4>3. TimerList[i].due = NoStart
        BY <4>1, <4>2 DEF OnePlace
      <4> QED
        BY <4>1, <4>2, <4>3
    <3>2. CASE j = i
      <4>1. entering'[i] = 0
        BY <2>1, <3>1
      <4>2. TimerList'[i].due = NoStart
        BY <1>2, <3>1, CallbackFields
      <4> QED
        BY <3>2, <4>1, <4>2 DEF OnePlace
    <3>3. CASE j # i
      BY <1>2, <2>1, <3>1, <3>3, CallbackFields DEF OnePlace
    <3> QED
      BY <3>2, <3>3
  <2>4. \A j \in Timers : Uncalled(j)' => Uncalled(j)
    BY <1>0, <1>2, <2>1, <2>2, CallbackFields DEF Uncalled
  <2>5. CheckedInv'
    BY <1>2, <2>2, CallbackFields DEF OnceInv, CheckedInv, CallInv
  <2> QED
    BY <1>2, <2>2, <2>3, <2>4, <2>5, CallbackFields, OnceFrame
<1>3. CASE TimerDeferredCall
  <2>1. /\ UNCHANGED <<TimerList, entering, starts, calls>> /\ thread.runs = None
        /\ Head(queue) \in Timers
    BY <1>3 DEF TimerDeferredCall, TypeOK
  <2>2. \/ thread' = thread
        \/ thread'.call = "checked" /\ thread'.runs = Head(queue) /\ TimerList[Head(queue)].bFired
    BY <1>3 DEF TimerDeferredCall, Deferred, TypeOK, ThreadType
  <2>3. \A j \in Timers : OnePlace(j)'
    BY <1>0, <2>1 DEF OnePlace
  <2>4. \A j \in Timers : Uncalled(j)' => Uncalled(j)
    BY <2>1, Names DEF Uncalled
  <2>5. CheckedInv'
    BY <2>1, <2>2 DEF OnceInv, CheckedInv
  <2> QED
    BY <2>1, <2>3, <2>4, <2>5, OnceFrame
<1>4. CASE CallCallback
  <2> DEFINE i == thread.runs
             g == TimerList[thread.runs].pCallback
  <2>1. /\ i \in Timers /\ g # NoStart /\ g \in Starts /\ g <= starts /\ TimerList[i].bFired
    <3>1. i \in Timers /\ g # NoStart
      BY <1>4 DEF CallCallback, CallInv
    <3>2. g \in Starts /\ g \in 1 .. starts /\ starts \in Nat
      BY <3>1 DEF LiveInv, TypeOK, TimerType, Starts, NoStart
    <3> QED
      BY <1>4, <3>1, <3>2 DEF CallCallback, OnceInv, CheckedInv
  <2>2. /\ UNCHANGED <<TimerList, entering, starts>> /\ thread'.call = "none" /\ thread'.runs = i
        /\ \A h \in Starts : calls'[h] = IF h = g THEN calls[g] + 1 ELSE calls[h]
    BY <1>4 DEF CallCallback, TypeOK, ThreadType
  <2>3. calls[g] = 0
    BY <1>4, <2>1 DEF CallCallback, OnceInv, NotYet, Uncalled
  <2>4. CalledOnce' /\ \A h \in Starts : h > starts' => calls'[h] = 0
    <3>1. calls'[g] = 1 /\ ~(g > starts)
      BY <2>1, <2>2, <2>3 DEF TypeOK, Starts
    <3> QED
      BY <2>2, <3>1 DEF OnceInv, CalledOnce
  <2>5. \A j \in Timers : OnePlace(j)'
    BY <1>0, <2>2 DEF OnePlace
  <2>6. ASSUME NEW j \in Timers PROVE NotYet(j)'
    <3>1. CASE j = i
      <4>1. ~Uncalled(j)'
        BY <1>0, <2>1, <2>2, <3>1 DEF Uncalled, OnePlace
      <4> QED
        BY <4>1 DEF NotYet
    <3>2. CASE j # i
      <4>1. TimerList[j].pCallback # NoStart => TimerList[j].pCallback \in Starts /\ TimerList[j].pCallback # g
        BY <2>1, <3>2 DEF LiveInv, TypeOK, TimerType, Starts, NoStart
      <4>2. NotYet(j) /\ (Uncalled(j)' => Uncalled(j))
        BY <2>2, <3>2 DEF OnceInv, Uncalled
      <4> QED
        BY <2>2, <4>1, <4>2 DEF NotYet
    <3> QED
      BY <3>1, <3>2
  <2>7. CheckedInv'
    BY <2>2 DEF CheckedInv
  <2> QED
    BY <2>4, <2>5, <2>6, <2>7 DEF OnceInv
<1>5. CASE CallbackReturn
  <2>1. /\ UNCHANGED <<entering, starts, calls>> /\ thread.runs \in Timers
        /\ thread.call = "none" /\ thread'.call = "none" /\ thread'.runs = None
    BY <1>5 DEF CallbackReturn, TypeOK, ThreadType
  <2>2. \A j \in Timers : OnePlace(j)'
    BY <1>0, <1>5, <2>1, ReturnFields DEF OnePlace
  <2>3. \A j \in Timers : Uncalled(j)' => Uncalled(j)
    BY <1>5, <2>1, ReturnFields DEF Uncalled
  <2>4. CheckedInv'
    BY <2>1 DEF CheckedInv
  <2> QED
    BY <1>5, <2>1, <2>2, <2>3, <2>4, ReturnFields, OnceFrame
<1>6. CASE HandlerBegin
  <2>1. /\ UNCHANGED <<TimerList, entering, starts, calls>> /\ thread.runs = None
        /\ thread'.runs = Handler /\ thread'.call = thread.call /\ thread.call # "checked"
    BY <1>6, Names DEF HandlerBegin, TypeOK, CallInv, ThreadType
  <2>2. \A j \in Timers : OnePlace(j)'
    BY <1>0, <2>1 DEF OnePlace
  <2>3. \A j \in Timers : Uncalled(j)' => Uncalled(j)
    BY <2>1, Names DEF Uncalled
  <2>4. CheckedInv'
    BY <2>1 DEF CheckedInv
  <2> QED
    BY <2>1, <2>2, <2>3, <2>4, OnceFrame
<1>7. CASE HandlerReturn
  <2>1. /\ UNCHANGED <<TimerList, entering, starts, calls>> /\ thread.runs = Handler
        /\ thread'.call = "none"
    BY <1>7 DEF HandlerReturn, TypeOK, ThreadType
  <2>2. \A j \in Timers : OnePlace(j)'
    BY <1>0, <2>1 DEF OnePlace
  <2>3. \A j \in Timers : Uncalled(j)' => Uncalled(j)
    BY <2>1, Names DEF Uncalled
  <2>4. CheckedInv'
    BY <2>1 DEF CheckedInv
  <2> QED
    BY <2>1, <2>2, <2>3, <2>4, OnceFrame
<1>8. CASE Timer_Create
  <2>1. UNCHANGED <<entering, thread, starts, calls>> /\ thread.call = "none"
    BY <1>8 DEF Timer_Create, Running
  <2>2. \A j \in Timers : OnePlace(j)'
    BY <1>0, <1>8, <2>1, CreateFields DEF OnePlace
  <2>3. \A j \in Timers : Uncalled(j)' => Uncalled(j)
    BY <1>8, <2>1, CreateFields DEF Uncalled
  <2>4. CheckedInv'
    BY <2>1 DEF CheckedInv
  <2> QED
    BY <1>8, <2>1, <2>2, <2>3, <2>4, CreateFields, OnceFrame
<1>9. ASSUME NEW i \in Timers, Timer_Start(i) PROVE OnceInv'
  <2>1. /\ UNCHANGED <<entering, thread, calls>> /\ starts' = starts + 1 /\ starts \in Nat
        /\ starts + 1 \in Starts /\ thread.call = "none"
        /\ entering[i] = 0 /\ ~TimerList[i].bFired
    BY <1>9 DEF Timer_Start, Running, MayStart, Quiet, TypeOK, Starts
  <2>2. CalledOnce' /\ \A g \in Starts : g > starts' => calls'[g] = 0
    BY <2>1 DEF OnceInv, CalledOnce, Starts
  <2>3. \A j \in Timers : OnePlace(j)'
    BY <1>0, <1>9, <2>1, StartFields DEF OnePlace
  <2>4. ASSUME NEW j \in Timers PROVE NotYet(j)'
    <3>1. CASE j = i
      <4>1. calls[starts + 1] = 0
        BY <2>1 DEF OnceInv
      <4> QED
        BY <1>9, <2>1, <3>1, <4>1, StartFields DEF NotYet
    <3>2. CASE j # i
      BY <1>9, <2>1, <3>2, StartFields DEF NotYet, Uncalled, OnceInv
    <3> QED
      BY <3>1, <3>2
  <2>5. CheckedInv'
    BY <2>1 DEF CheckedInv
  <2> QED
    BY <2>2, <2>3, <2>4, <2>5 DEF OnceInv
<1>10. ASSUME NEW i \in Timers, Timer_Stop(i) PROVE OnceInv'
  <2>1. /\ UNCHANGED <<entering, starts, calls>> /\ thread.call = "none"
        /\ thread'.call = "stop" /\ thread'.runs = thread.runs
    BY <1>10 DEF Timer_Stop, Running, TypeOK, ThreadType
  <2>2. \A j \in Timers : OnePlace(j)'
    BY <1>0, <1>10, <2>1, StopFields DEF OnePlace
  <2>3. \A j \in Timers : Uncalled(j)' => Uncalled(j)
    BY <1>10, <2>1, StopFields DEF Uncalled
  <2>4. CheckedInv'
    BY <2>1 DEF CheckedInv
  <2> QED
    BY <1>10, <2>1, <2>2, <2>3, <2>4, StopFields, OnceFrame
<1>11. ASSUME NEW i \in Timers, Timer_Delete(i) PROVE OnceInv'
  <2>1. /\ UNCHANGED <<entering, starts, calls>> /\ thread.call = "none"
        /\ thread'.call = "delete" /\ thread'.runs = thread.runs
    BY <1>11 DEF Timer_Delete, Running, TypeOK, ThreadType
  <2>2. \A j \in Timers : OnePlace(j)'
    BY <1>0, <1>11, <2>1, DeleteFields DEF OnePlace
  <2>3. \A j \in Timers : Uncalled(j)' => Uncalled(j)
    BY <1>11, <2>1, DeleteFields DEF Uncalled
  <2>4. CheckedInv'
    BY <2>1 DEF CheckedInv
  <2> QED
    BY <1>11, <2>1, <2>2, <2>3, <2>4, DeleteFields, OnceFrame
<1>12. CASE CallEnds
  <2>1. /\ UNCHANGED <<entering, starts, calls>> /\ thread.call \in {"stop", "delete"}
        /\ thread'.call = "none" /\ thread'.runs = thread.runs
        /\ TimerList[thread.of].due = NoStart
    BY <1>12 DEF CallEnds, TypeOK, ThreadType, ExpiredInv, StoppingInv
  <2>2. \A j \in Timers : OnePlace(j)'
    BY <1>0, <1>12, <2>1, CallEndsFields DEF OnePlace
  <2>3. \A j \in Timers : Uncalled(j)' => Uncalled(j)
    BY <1>12, <2>1, CallEndsFields DEF Uncalled
  <2>4. CheckedInv'
    BY <2>1 DEF CheckedInv
  <2> QED
    BY <1>12, <2>1, <2>2, <2>3, <2>4, CallEndsFields, OnceFrame
<1>13. CASE Timer_DeInit
  BY <1>13, <1>0, OnceFrame DEF Timer_DeInit, OnceInv, OnePlace, Uncalled, CheckedInv
<1>14. ASSUME NEW i \in Timers, CleanupDelete(i) PROVE OnceInv'
  <2>1. UNCHANGED <<entering, thread, starts, calls>>
    BY <1>14 DEF CleanupDelete
  <2>2. \A j \in Timers : OnePlace(j)'
    BY <1>0, <1>14, <2>1, CleanupDeleteFields DEF OnePlace
  <2>3. \A j \in Timers : Uncalled(j)' => Uncalled(j)
    BY <1>14, <2>1, CleanupDeleteFields DEF Uncalled
  <2>4. CheckedInv'
    BY <1>14, <2>1, CleanupDeleteFields DEF OnceInv, CheckedInv, CallInv
  <2> QED
    BY <1>14, <2>1, <2>2, <2>3, <2>4, CleanupDeleteFields, OnceFrame
<1>15. CASE CleanupClose
  <2>1. UNCHANGED <<entering, thread, starts, calls>>
    BY <1>15 DEF CleanupClose
  <2>2. \A j \in Timers : OnePlace(j)'
    BY <1>0, <1>15, <2>1, CloseFields DEF OnePlace
  <2>3. \A j \in Timers : Uncalled(j)' => Uncalled(j)
    BY <1>15, <2>1, CloseFields DEF Uncalled
  <2>4. CheckedInv'
    BY <1>15, <2>1, CloseFields DEF OnceInv, CheckedInv, CallInv
  <2> QED
    BY <1>15, <2>1, <2>2, <2>3, <2>4, CloseFields, OnceFrame
<1>16. CASE CleanupEnd
  BY <1>16, <1>0, OnceFrame DEF CleanupEnd, OnceInv, OnePlace, Uncalled, CheckedInv
<1>17. CASE UNCHANGED vars
  BY <1>17, <1>0, OnceFrame DEF vars, OnceInv, OnePlace, Uncalled, CheckedInv
<1> QED
  BY <1>1, <1>2, <1>3, <1>4, <1>5, <1>6, <1>7, <1>8, <1>9, <1>10, <1>11, <1>12, <1>13, <1>14, <1>15, <1>16, <1>17 DEF Next, Pool, Returns, Cleanup

-----------------------------------------------------------------------------
(* Theorems *)

LEMMA InitLive == Init => LiveInv /\ ExpiredInv
<1> SUFFICES ASSUME Init PROVE LiveInv /\ ExpiredInv
  OBVIOUS
<1>1. \A i \in Timers : TimerList[i].pCallback = NoStart /\ TimerList[i].due = NoStart
  BY DEF Init, Cleared
<1>2. ended = {} /\ thread.call = "none" /\ \A g \in Starts : ~(calls[g] > 0)
  BY DEF Init
<1> QED
  BY <1>1, <1>2 DEF LiveInv, ExpiredInv, StoppingInv, CalledAfterExpiry

(* What has been proved of the states of every execution *)
LEMMA Reachable == Spec => [](TypeOK /\ CallInv /\ LiveInv)
<1>1. Init => TypeOK /\ CallInv /\ LiveInv
  BY InitType, InitLive
<1>2. TypeOK /\ CallInv /\ LiveInv /\ [Next]_vars => (TypeOK /\ CallInv /\ LiveInv)'
  BY TypeStep, LiveStep
<1> QED
  BY <1>1, <1>2, PTL DEF Spec

(***************************************************************************)
(* The entries of the timer list, the messages in the queue and the calls  *)
(* of the LibNfc thread have their types.                                  *)
(***************************************************************************)
THEOREM TypeCorrect == Spec => []TypeOK
BY Reachable, PTL

(***************************************************************************)
(* A start that was stopped, deleted or replaced by another start is not   *)
(* called any more, whatever the users of the timers do:                   *)
(* phOsalNfc_Timer_Stop clears the callback once the threads of the pool   *)
(* are done, and no step stores a callback again that ended.               *)
(***************************************************************************)
LEMMA SilentStep ==
  ASSUME TypeOK, CallInv, LiveInv, [Next]_vars
  PROVE  \A g \in ended : calls'[g] = calls[g]
<1>1. CASE CallCallback
  <2>1. thread.runs \in Timers
    BY <1>1 DEF CallCallback, CallInv
  <2>2. TimerList[thread.runs].pCallback \notin ended
    BY <1>1, <2>1 DEF CallCallback, LiveInv
  <2> QED
    BY <1>1, <2>2 DEF CallCallback, TypeOK
<1>2. CASE calls' = calls
  BY <1>2
<1> QED
  BY <1>1, <1>2 DEF Next, vars, Pool, Returns, Cleanup, Expire, TimerCallback, TimerDeferredCall,
     CallbackReturn, HandlerBegin, HandlerReturn, Timer_Create, Timer_Start, Timer_Stop,
     Timer_Delete, CallEnds, Timer_DeInit, CleanupDelete, CleanupClose, CleanupEnd

THEOREM SilentAfterStop == Spec => StoppedStaysSilent
<1>1. TypeOK /\ CallInv /\ LiveInv /\ [Next]_vars => [\A g \in ended : calls'[g] = calls[g]]_vars
  BY SilentStep
<1> QED
  BY <1>1, Reachable, PTL DEF Spec, StoppedStaysSilent

(***************************************************************************)
(* When the users stop a timer before they start it again, no start is     *)
(* called back before its time is up.                                      *)
(***************************************************************************)
THEOREM CalledOnTime ==
  ASSUME ~StartsRunning
  PROVE  Spec => []CalledAfterExpiry
<1>1. Init => ExpiredInv
  BY InitLive
<1>2. TypeOK /\ CallInv /\ ExpiredInv /\ [Next]_vars => ExpiredInv'
  BY ExpiredStep
<1>3. ExpiredInv => CalledAfterExpiry
  BY DEF ExpiredInv
<1> QED
  BY <1>1, <1>2, <1>3, Reachable, PTL DEF Spec

(***************************************************************************)
(* Nor is a start called back twice: its time is up once, and one message  *)
(* follows that finds bFired set, which the return from the callback       *)
(* clears; a message left in the queue by a start that was stopped finds   *)
(* it cleared, or serves the start that replaced it in its stead.          *)
(***************************************************************************)
THEOREM CalledOnceHolds ==
  ASSUME ~StartsRunning
  PROVE  Spec => []CalledOnce
<1>1. Init => ExpiredInv /\ OnceInv
  <2> SUFFICES ASSUME Init PROVE OnceInv
    BY InitLive
  <2>1. \A i \in Timers : /\ TimerList[i].due = NoStart /\ TimerList[i].pCallback = NoStart
                          /\ entering[i] = 0
    BY DEF Init, Cleared
  <2>2. thread.call = "none" /\ \A g \in Starts : calls[g] = 0
    BY DEF Init
  <2> QED
    BY <2>1, <2>2 DEF OnceInv, CalledOnce, OnePlace, NotYet, CheckedInv
<1>2. TypeOK /\ CallInv /\ LiveInv /\ ExpiredInv /\ OnceInv /\ [Next]_vars => (ExpiredInv /\ OnceInv)'
  BY ExpiredStep, OnceStep
<1>3. OnceInv => CalledOnce
  BY DEF OnceInv
<1> QED
  BY <1>1, <1>2, <1>3, Reachable, PTL DEF Spec

=============================================================================
