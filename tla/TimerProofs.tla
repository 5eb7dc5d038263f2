------------------------------ MODULE TimerProofs ------------------------------
(***************************************************************************)
(* The timer does not oversleep, fires in order and is an alarm clock, for *)
(* any events, timeouts and bound on time.                                 *)
(***************************************************************************)
EXTENDS Timer, TLAPS

(* What the sleep relies on: an event in the queue has been connected, so  *)
(* that no connect changes its deadline any more; the event in hand is not *)
(* in the queue and nor has its deadline been computed anew; and the time  *)
(* that mainLoop goes by is not ahead of the clock.                        *)
TimerInv ==
    /\ TypeOK
    /\ SleepNotTooLong
    /\ \A e \in queue : user[e] \notin {"new", "connecting"}
    /\ current /= NoEvent => user[current] \in {"fired", "detached"}
    /\ sample <= now

LEMMA TimerInvInit == Init => TimerInv
<1> SUFFICES ASSUME Init PROVE TimerInv
  OBVIOUS
<1>1. deadline \in [Events -> 0 .. MaxTime] /\ rel \in [Events -> Nat]
  BY TimerAssumption DEF Init
<1>2. user \in [Events -> UserState] BY DEF Init, UserState
<1>3. 0 \in 0 .. MaxTime BY TimerAssumption
<1>4. TypeOK BY <1>1, <1>2, <1>3 DEF Init, TypeOK, LoopState, DtorState
<1> QED BY <1>4 DEF Init, TimerInv, SleepNotTooLong

LEMMA TimerInvStep == TimerInv /\ [Next]_vars => TimerInv'
<1> SUFFICES ASSUME TimerInv, [Next]_vars PROVE TimerInv'
  OBVIOUS
<1> USE TimerAssumption DEF TimerInv, TypeOK, SleepNotTooLong, UserState, LoopState, DtorState,
        eventVars, loopVars, envVars
<1>1. CASE Tick BY <1>1 DEF Tick
<1>2. ASSUME NEW e \in Events, NEW t \in Timeouts, ConnectDeadline(e, t) PROVE TimerInv'
  BY <1>2 DEF ConnectDeadline
<1>3. ASSUME NEW e \in Events, ConnectPush(e) PROVE TimerInv'
  <2>1. CASE \A f \in queue : deadline[e] < deadline[f]
    BY <1>3, <2>1 DEF ConnectPush, NotifyOne
  \* Then an event is due no later than e, and the loop is awake by its deadline.
  <2>2. CASE ~\A f \in queue : deadline[e] < deadline[f]
    <3>1. PICK f \in queue : deadline[f] <= deadline[e] BY <2>2
    <3> QED BY <1>3, <2>2, <3>1 DEF ConnectPush
  <2> QED BY <2>1, <2>2
<1>4. ASSUME NEW e \in Events, Disconnect(e) PROVE TimerInv'
  BY <1>4 DEF Disconnect
<1>5. CASE LoopCheck BY <1>5 DEF LoopCheck
<1>6. CASE LoopLock BY <1>6 DEF LoopLock, Tops
<1>7. CASE TimedOut BY <1>7 DEF TimedOut
<1>8. CASE LoopWoken BY <1>8 DEF LoopWoken
<1>9. CASE LoopTest \/ LoopFire BY <1>9 DEF LoopTest, LoopFire, Tops
<1>10. CASE LoopUnlock BY <1>10 DEF LoopUnlock
<1>11. CASE SpuriousWakeup BY <1>11 DEF SpuriousWakeup
<1>12. CASE CallbackAgain BY <1>12 DEF CallbackAgain
<1>13. CASE CallbackOver BY <1>13 DEF CallbackOver
<1>14. CASE DtorTerminate BY <1>14 DEF DtorTerminate
<1>15. CASE DtorNotify BY <1>15 DEF DtorNotify, NotifyOne
<1>16. CASE DtorJoin BY <1>16 DEF DtorJoin
<1>17. CASE UNCHANGED vars BY <1>17 DEF vars
<1> QED
  BY <1>1, <1>2, <1>3, <1>4, <1>5, <1>6, <1>7, <1>8, <1>9, <1>10, <1>11, <1>12, <1>13,
     <1>14, <1>15, <1>16, <1>17 DEF Next, LoopStep, Callback

\* Every variable of the timer keeps its type.
THEOREM TimerTypes == Spec => []TypeOK
<1>1. TimerInv => TypeOK BY DEF TimerInv
<1> QED BY <1>1, TimerInvInit, TimerInvStep, PTL DEF Spec

\* mainLoop never sleeps beyond the earliest deadline, whatever connect adds.
THEOREM TimerSleeps == Spec => []SleepNotTooLong
<1>1. TimerInv => SleepNotTooLong BY DEF TimerInv
<1> QED BY <1>1, TimerInvInit, TimerInvStep, PTL DEF Spec

-----------------------------------------------------------------------------
(* The timer is an alarm clock                                             *)

(* What tells an alarm that is set from one that is over: an event is in   *)
(* the queue while it is connected, and in hand while it is called, for a  *)
(* deadline that had passed when mainLoop looked at the clock.             *)
ClockInv ==
    /\ TimerInv
    /\ \A e \in Events :
          /\ user[e] = "connected" => e \in queue
          /\ user[e] = "fired" => e = current
          /\ e \in queue => user[e] \in {"connected", "detached"}
    /\ current \notin queue
    /\ current \in Events => deadline[current] <= sample
    /\ loop = "pop" => \E e \in Tops : deadline[e] <= sample

LEMMA ClockInvInit == Init => ClockInv
<1> SUFFICES ASSUME Init PROVE ClockInv
  OBVIOUS
<1> QED BY TimerInvInit DEF Init, ClockInv

LEMMA ClockInvStep == ClockInv /\ [Next]_vars => ClockInv'
<1> SUFFICES ASSUME ClockInv, [Next]_vars PROVE ClockInv'
  OBVIOUS
<1>1. TimerInv' /\ user \in [Events -> UserState] /\ queue \subseteq Events
      /\ current \in Events \cup {NoEvent}
  BY TimerInvStep DEF ClockInv, TimerInv, TypeOK
<1> USE TimerAssumption DEF ClockInv, Tops, eventVars, loopVars, envVars
<1>2. ASSUME NEW e \in Events, NEW t \in Timeouts, ConnectDeadline(e, t) PROVE ClockInv'
  <2>1. /\ user[e] = "new" /\ e \notin queue /\ e /= current
        /\ user' = [user EXCEPT ![e] = "connecting"]
        /\ \A f \in Events : f /= e => deadline'[f] = deadline[f]
        /\ UNCHANGED <<queue, current, sample, loop>>
    BY <1>2 DEF ConnectDeadline, TimerInv, TypeOK
  <2> QED BY <1>1, <2>1
<1>3. ASSUME NEW e \in Events, ConnectPush(e) PROVE ClockInv'
  <2>1. /\ user[e] = "connecting" /\ e \notin queue /\ e /= current
        /\ user' = [user EXCEPT ![e] = "connected"]
        /\ queue' = queue \cup {e}
        /\ loop' /= "pop"
        /\ UNCHANGED <<deadline, current, sample>>
    BY <1>3 DEF ConnectPush, MutexFree, NotifyOne, TimerInv, TypeOK
  <2> QED BY <1>1, <2>1
<1>4. ASSUME NEW e \in Events, Disconnect(e) PROVE ClockInv'
  BY <1>1, <1>4 DEF Disconnect
<1>5. CASE LoopFire
  BY <1>1, <1>5 DEF LoopFire, Tops, TimerInv, TypeOK
<1>6. CASE CallbackAgain
  BY <1>1, <1>6 DEF CallbackAgain, TimerInv, TypeOK
<1>7. CASE CallbackOver
  BY <1>1, <1>7 DEF CallbackOver, TimerInv, TypeOK
<1>8. CASE loop' /= "pop" /\ UNCHANGED <<queue, user, current, deadline, sample>>
  BY <1>1, <1>8
<1>11. CASE UNCHANGED <<queue, user, current, deadline, sample, loop>>
  BY <1>1, <1>11
<1>12. CASE LoopTest
  BY <1>1, <1>12 DEF LoopTest, TimerInv, TypeOK
<1>9. CASE LoopLock \/ LoopWoken
  <2>1. current = NoEvent /\ loop' /= "pop" /\ UNCHANGED <<queue, user, current>>
    BY <1>9 DEF LoopLock, LoopWoken, TimerInv, TypeOK
  <2> QED BY <1>1, <2>1
<1>10. CASE Tick \/ LoopCheck \/ TimedOut \/ LoopUnlock \/ SpuriousWakeup
            \/ DtorTerminate \/ DtorNotify \/ DtorJoin \/ UNCHANGED vars
  BY <1>8, <1>10, <1>11 DEF vars, NotifyOne, Tick, LoopCheck, TimedOut, LoopUnlock, SpuriousWakeup,
      DtorTerminate, DtorNotify, DtorJoin
<1> QED
  BY <1>2, <1>3, <1>4, <1>5, <1>6, <1>7, <1>9, <1>10, <1>12 DEF Next, LoopStep, Callback

\* Only LoopFire goes into a callback.
LEMMA StepFiresInOrder ==
    ClockInv /\ [Next]_vars =>
        (loop = "pop" /\ loop' = "calling" =>
          /\ deadline[current'] <= now
          /\ \A e \in queue : deadline[current'] <= deadline[e])
<1> SUFFICES ASSUME ClockInv, [Next]_vars, loop = "pop", loop' = "calling"
             PROVE  /\ deadline[current'] <= now
                    /\ \A e \in queue : deadline[current'] <= deadline[e]
  OBVIOUS
<1>1. LoopFire
  BY DEF Next, vars, LoopStep, Callback, Tick, ConnectDeadline, ConnectPush, NotifyOne,
         Disconnect, LoopCheck, LoopLock, TimedOut, LoopWoken, LoopTest, LoopUnlock, SpuriousWakeup,
         CallbackAgain, CallbackOver, DtorTerminate, DtorNotify, DtorJoin, eventVars,
         loopVars, envVars
<1>2. PICK f \in Tops : deadline[f] <= sample
  BY <1>1 DEF LoopFire, ClockInv
<1> QED BY <1>1, <1>2, TimerAssumption DEF LoopFire, Tops, ClockInv, TimerInv, TypeOK

\* Callbacks are called when they are due and in the order of their deadlines.
THEOREM TimerFires == Spec => FiresInOrder
<1> QED BY ClockInvInit, ClockInvStep, StepFiresInOrder, PTL DEF Spec, FiresInOrder

-----------------------------------------------------------------------------
(* Every step of the timer is one of the clock's, or none                  *)

LEMMA ClockInit == Init => Clock!Init
<1> SUFFICES ASSUME Init PROVE Clock!Init
  OBVIOUS
<1>1. AlarmState = [e \in Events |-> "off"]
  BY TimerAssumption DEF Init, AlarmState
<1>2. AlarmDue = [e \in Events |-> 0]
  BY TimerAssumption DEF Init, AlarmDue
<1>3. AlarmMuted = {}
  BY TimerAssumption DEF Init, AlarmMuted
<1> QED BY <1>1, <1>2, <1>3 DEF Init, Clock!Init

\* An event enters the queue.
LEMMA PushSets ==
    ASSUME ClockInv, NEW e \in Events, ConnectPush(e)
    PROVE  Clock!SetAlarm(e)
<1> USE DEF ClockInv, TimerInv, TypeOK
<1>1. /\ e \notin queue /\ e /= current /\ user[e] = "connecting"
      /\ queue' = queue \cup {e} /\ user' = [user EXCEPT ![e] = "connected"]
      /\ loop /= "pop" /\ loop' /= "pop"
      /\ UNCHANGED <<deadline, current, now, iTerminated>>
  BY TimerAssumption DEF ConnectPush, MutexFree, NotifyOne, envVars
<1>2. AlarmState[e] = "off" /\ AlarmState' = [AlarmState EXCEPT ![e] = "set"]
  BY <1>1 DEF AlarmState
<1>3. deadline[e] \in 0 .. MaxTime /\ AlarmDue' = [AlarmDue EXCEPT ![e] = deadline[e]]
  BY <1>1 DEF AlarmDue
<1>4. AlarmMuted' = AlarmMuted
  BY <1>1 DEF AlarmMuted
<1> QED BY <1>1, <1>2, <1>3, <1>4 DEF Clock!SetAlarm

LEMMA DisconnectMutes ==
    ASSUME ClockInv, NEW e \in Events, Disconnect(e)
    PROVE  Clock!Mute(e)
<1> USE DEF ClockInv, TimerInv, TypeOK
<1>1. /\ e \in queue \/ e = current
      /\ user' = [user EXCEPT ![e] = "detached"]
      /\ UNCHANGED <<queue, deadline, current, loop, now, iTerminated>>
  BY DEF Disconnect, eventVars, loopVars, envVars
<1>2. AlarmState[e] \in {"set", "ringing"} /\ AlarmState' = AlarmState /\ AlarmDue' = AlarmDue
  BY <1>1 DEF AlarmState, AlarmDue
<1>3. AlarmMuted' = AlarmMuted \cup {e}
  BY <1>1 DEF AlarmMuted
<1> QED BY <1>1, <1>2, <1>3 DEF Clock!Mute

\* mainLoop decides on the event on top, while nothing rings.
LEMMA TestDecides ==
    ASSUME ClockInv, LoopTest
    PROVE  Clock!Decide
<1> USE DEF ClockInv, TimerInv, TypeOK
<1>1. /\ current = NoEvent /\ NoEvent \notin Events /\ ~iTerminated /\ loop' = "pop"
      /\ UNCHANGED <<queue, deadline, user, current, now, iTerminated>>
  BY TimerAssumption DEF LoopTest, eventVars, envVars
<1>2. UNCHANGED <<AlarmState, AlarmDue, AlarmMuted>>
  BY <1>1 DEF AlarmState, AlarmDue, AlarmMuted
<1>3. PICK e \in Tops : deadline[e] <= sample
  BY DEF LoopTest
<1>4. Clock!Turn(e) /\ e \in Events
  BY <1>1, <1>3, TimerAssumption DEF Tops, AlarmState, AlarmDue, Clock!Turn
<1>5. \A f \in Events : AlarmState[f] /= "ringing"
  BY <1>1 DEF AlarmState
<1> QED BY <1>1, <1>2, <1>4, <1>5 DEF Clock!Decide

\* The event on top rings, or is dropped.
LEMMA FireRings ==
    ASSUME ClockInv, LoopFire
    PROVE  \E e \in Events : Clock!Ring(e) \/ Clock!Drop(e)
<1> USE DEF ClockInv, TimerInv, TypeOK
<1>1. PICK e \in Tops :
         /\ queue' = queue \ {e}
         /\ IF user[e] = "detached"
              THEN UNCHANGED <<current, user>>
              ELSE current' = e /\ user' = [user EXCEPT ![e] = "fired"]
  BY DEF LoopFire
<1>2. /\ e \in Events /\ e \in queue /\ current = NoEvent /\ NoEvent \notin Events
      /\ loop = "pop" /\ loop' /= "pop"
      /\ \A f \in queue : deadline[e] <= deadline[f]
      /\ UNCHANGED <<deadline, now, iTerminated>>
  BY TimerAssumption DEF Tops, LoopFire, envVars
<1>3. deadline[e] <= now
  <2>1. PICK f \in Tops : deadline[f] <= sample
    BY <1>2
  <2> QED BY <1>2, <2>1, TimerAssumption DEF Tops
<1>4. Clock!Turn(e)
  BY <1>2, <1>3 DEF AlarmState, AlarmDue, Clock!Turn
<1>5. CASE user[e] = "detached"
  <2>1. e \in AlarmMuted /\ AlarmMuted' = AlarmMuted \ {e}
    BY <1>1, <1>2, <1>5 DEF AlarmMuted
  <2>2. AlarmState' = [AlarmState EXCEPT ![e] = "over"]
    BY <1>1, <1>2, <1>5 DEF AlarmState
  <2>3. AlarmDue' = [AlarmDue EXCEPT ![e] = 0]
    BY <1>1, <1>2, <1>5 DEF AlarmDue
  <2> QED BY <1>2, <1>4, <2>1, <2>2, <2>3 DEF Clock!Drop
<1>6. CASE user[e] /= "detached"
  <2>1. e \notin AlarmMuted /\ AlarmMuted' = AlarmMuted
    BY <1>1, <1>2, <1>6 DEF AlarmMuted
  <2>2. AlarmState' = [AlarmState EXCEPT ![e] = "ringing"]
    BY <1>1, <1>2, <1>6 DEF AlarmState
  <2>3. AlarmDue' = AlarmDue
    BY <1>1, <1>2, <1>6 DEF AlarmDue
  <2>4. \A b \in Events : AlarmState[b] /= "ringing"
    BY <1>2 DEF AlarmState
  <2> QED BY <1>2, <1>4, <2>1, <2>2, <2>3, <2>4 DEF Clock!Ring
<1> QED BY <1>5, <1>6

\* A callback that returns true is due no earlier than it was.
LEMMA AgainSets ==
    ASSUME ClockInv, CallbackAgain
    PROVE  Clock!Again(current)
<1> USE DEF ClockInv, TimerInv, TypeOK
<1> DEFINE e == current
           t == sample + rel[e]
<1>1. /\ e \in Events /\ e \notin queue /\ NoEvent \notin Events
      /\ deadline' = [deadline EXCEPT ![e] = t]
      /\ queue' = queue \cup {e}
      /\ user' = [user EXCEPT ![e] = IF @ = "detached" THEN @ ELSE "connected"]
      /\ current' = NoEvent /\ loop /= "pop" /\ loop' /= "pop"
      /\ UNCHANGED <<now, iTerminated>>
  BY TimerAssumption DEF CallbackAgain, envVars
<1>2. t \in 0 .. MaxTime /\ t >= deadline[e]
  BY <1>1, TimerAssumption DEF CallbackAgain
<1> HIDE DEF t
<1>3. AlarmState[e] = "ringing" /\ AlarmState' = [AlarmState EXCEPT ![e] = "set"]
  BY <1>1 DEF AlarmState
<1>4. AlarmDue[e] = deadline[e] /\ AlarmDue' = [AlarmDue EXCEPT ![e] = t]
  BY <1>1 DEF AlarmDue
<1>5. AlarmMuted' = AlarmMuted
  BY <1>1 DEF AlarmMuted
<1> QED BY <1>1, <1>2, <1>3, <1>4, <1>5 DEF Clock!Again

LEMMA OverIsOver ==
    ASSUME ClockInv, CallbackOver
    PROVE  Clock!Over(current)
<1> USE DEF ClockInv, TimerInv, TypeOK
<1> DEFINE e == current
<1>1. /\ e \in Events /\ e \notin queue /\ NoEvent \notin Events
      /\ user' = [user EXCEPT ![e] = "over"]
      /\ current' = NoEvent /\ loop /= "pop" /\ loop' /= "pop"
      /\ UNCHANGED <<queue, deadline, now, iTerminated>>
  BY TimerAssumption DEF CallbackOver, envVars
<1>2. AlarmState[e] = "ringing" /\ AlarmState' = [AlarmState EXCEPT ![e] = "over"]
  BY <1>1 DEF AlarmState
<1>3. AlarmDue' = [AlarmDue EXCEPT ![e] = 0]
  BY <1>1 DEF AlarmDue
<1>4. AlarmMuted' = AlarmMuted \ {e}
  BY <1>1 DEF AlarmMuted
<1> QED BY <1>1, <1>2, <1>3, <1>4 DEF Clock!Over

\* The deadline of an event is computed before the clock knows of it.
LEMMA DeadlineStutters ==
    ASSUME ClockInv, NEW e \in Events, NEW t \in Timeouts, ConnectDeadline(e, t)
    PROVE  UNCHANGED Clock!vars
<1> USE DEF ClockInv, TimerInv, TypeOK
<1>1. /\ e \notin queue /\ e /= current /\ user[e] = "new"
      /\ user' = [user EXCEPT ![e] = "connecting"]
      /\ \A f \in Events : f /= e => deadline'[f] = deadline[f]
      /\ UNCHANGED <<queue, current, loop, now, iTerminated>>
  BY TimerAssumption DEF ConnectDeadline, loopVars, envVars
<1>2. AlarmState' = AlarmState /\ AlarmMuted' = AlarmMuted
  BY <1>1 DEF AlarmState, AlarmMuted
<1>3. AlarmDue' = AlarmDue
  BY <1>1 DEF AlarmDue
<1> QED BY <1>1, <1>2, <1>3 DEF Clock!vars

LEMMA SameAlarms ==
    ASSUME UNCHANGED <<queue, current, user, deadline>>
    PROVE  UNCHANGED <<AlarmState, AlarmDue, AlarmMuted>>
  BY DEF AlarmState, AlarmDue, AlarmMuted

LEMMA ClockStep == ClockInv /\ [Next]_vars => [Clock!Next]_(Clock!vars)
<1> SUFFICES ASSUME ClockInv, [Next]_vars PROVE [Clock!Next]_(Clock!vars)
  OBVIOUS
<1>1. CASE Tick
  BY <1>1, SameAlarms DEF Tick, eventVars, loopVars, Clock!Pass, Clock!Next
<1>2. CASE DtorTerminate
  BY <1>2, SameAlarms DEF DtorTerminate, eventVars, loopVars, Clock!Close, Clock!Next
<1>3. ASSUME NEW e \in Events, NEW t \in Timeouts, ConnectDeadline(e, t)
      PROVE  UNCHANGED Clock!vars
  BY <1>3, DeadlineStutters
<1>4. ASSUME NEW e \in Events, ConnectPush(e) \/ Disconnect(e) PROVE Clock!Next
  BY <1>4, PushSets, DisconnectMutes DEF Clock!Next
<1>5. CASE LoopTest \/ LoopFire
  BY <1>5, TestDecides, FireRings DEF Clock!Next
<1>6. CASE Callback
  BY <1>6, AgainSets, OverIsOver DEF Clock!Next, Callback, ClockInv, TimerInv, TypeOK,
     CallbackAgain, CallbackOver
<1>7. CASE /\ (loop = "pop") = (loop' = "pop")
           /\ UNCHANGED <<queue, current, user, deadline, now, iTerminated>>
  BY <1>7, SameAlarms DEF Clock!vars
<1>8. CASE LoopCheck \/ LoopLock \/ TimedOut \/ LoopWoken \/ LoopUnlock
           \/ SpuriousWakeup \/ DtorNotify \/ DtorJoin \/ UNCHANGED vars
  BY <1>7, <1>8 DEF vars, LoopCheck, LoopLock, TimedOut, LoopWoken, LoopUnlock,
      SpuriousWakeup, DtorNotify, NotifyOne, DtorJoin, eventVars, loopVars, envVars
<1> QED
  BY <1>1, <1>2, <1>3, <1>4, <1>5, <1>6, <1>8 DEF Next, LoopStep

\* The timer is an alarm clock: it calls what is due, in order and one at a time,
\* nothing that has been disconnected, and once the destructor has begun no more
\* than the one event that it had decided on.
THEOREM TimerImplementsAlarmClock == Spec => ImplementsAlarmClock
<1> QED
  BY ClockInit, ClockInvInit, ClockInvStep, ClockStep, PTL
  DEF Spec, ImplementsAlarmClock, Clock!Safety
=============================================================================
