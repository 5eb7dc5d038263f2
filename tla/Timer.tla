-------------------------------- MODULE Timer --------------------------------
(***************************************************************************)
(* src/utl/Timer.{h,cpp}: one thread, mainLoop, that sleeps until the      *)
(* earliest deadline of iTimedEventQueue and runs the callbacks that are   *)
(* due.  connect adds an event and wakes the thread when the new deadline  *)
(* is the earliest; a callback that returns true is scheduled again.       *)
(*                                                                         *)
(* mainLoop holds iMutex except while it waits, so also while a callback   *)
(* runs; it looks at iTerminated at the top of the loop without the mutex, *)
(* and before each callback with it.  The destructor takes no mutex at     *)
(* all: it may set the flag between that look and the call.                *)
(***************************************************************************)
EXTENDS Naturals, FiniteSets

CONSTANTS Events,    \* the events that are ever connected, each once
          Timeouts,  \* the relative timeouts in use, in ticks
          MaxTime,   \* bound: no deadline lies beyond
          NoEvent

ASSUME TimerAssumption ==
    /\ Timeouts \subseteq Nat
    /\ MaxTime \in Nat
    /\ NoEvent \notin Events

VARIABLES
    now,          \* boost::get_system_time
    iTerminated,
    queue,        \* iTimedEventQueue, as the set of its events
    deadline,     \* iDeadline
    rel,          \* iRelTimeout
    user,         \* each event as its user sees it
    loop,         \* where mainLoop stands
    wakeAt,       \* the deadline given to timed_wait
    sample,       \* the local variable now of mainLoop
    current,      \* eventEntry
    dtor          \* where the destructor stands

vars == <<now, iTerminated, queue, deadline, rel, user, loop, wakeAt, sample,
          current, dtor>>

eventVars == <<queue, deadline, rel, user>>
loopVars  == <<loop, wakeAt, sample, current>>
envVars   == <<now, iTerminated, dtor>>

\* "connecting": the deadline is computed, iMutex not yet taken; "connected":
\* the callback is attached; "detached": it has been disconnected; "fired": the
\* callback has run at least once and may run again; "over": it returned false.
UserState == {"new", "connecting", "connected", "fired", "detached", "over"}

\* "lock": iTerminated was seen false, iMutex not yet taken; "waiting" and
\* "timed": asleep; "woken": about to re-take iMutex; "fire": at the test of the
\* inner loop; "pop": the test has succeeded; "calling": in a callback.
LoopState == {"check", "lock", "waiting", "timed", "woken", "fire", "pop", "calling",
              "exited"}

DtorState == {"none", "notify", "join", "done"}

Init ==
    /\ now = 0
    /\ iTerminated = FALSE
    /\ queue = {}
    /\ deadline = [e \in Events |-> 0]
    /\ rel = [e \in Events |-> 0]
    /\ user = [e \in Events |-> "new"]
    /\ loop = "check"
    /\ wakeAt = 0
    /\ sample = 0
    /\ current = NoEvent
    /\ dtor = "none"

Tick ==
    /\ now < MaxTime
    /\ now' = now + 1
    /\ UNCHANGED <<iTerminated, dtor, eventVars, loopVars>>

-----------------------------------------------------------------------------
(* The queue                                                               *)

\* What top() may be: among equal deadlines the heap decides.
Tops == {e \in queue : \A f \in queue : deadline[e] <= deadline[f]}

\* Mutant of NotifyOne: no notification.
NotifyNobody == UNCHANGED loop

\* The threads in mainLoop's wait are at most one.
NotifyOne == loop' = IF loop \in {"waiting", "timed"} THEN "woken" ELSE loop

\* mainLoop holds iMutex from its lock, or its return from the wait, on.
MutexFree == loop \notin {"fire", "pop", "calling"}

-----------------------------------------------------------------------------
(* connect, and the connection it returns                                  *)

ConnectDeadline(e, aTimeout) ==
    /\ dtor = "none"
    /\ user[e] = "new"
    /\ now + aTimeout <= MaxTime
    /\ deadline' = [deadline EXCEPT ![e] = now + aTimeout]
    /\ rel' = [rel EXCEPT ![e] = aTimeout]
    /\ user' = [user EXCEPT ![e] = "connecting"]
    /\ UNCHANGED <<queue, loopVars, envVars>>

\* Mutant of ConnectPush: only the first event wakes the thread.
ConnectPushWakeIfEmpty(e) ==
    /\ user[e] = "connecting"
    /\ MutexFree
    /\ IF queue = {} THEN NotifyOne ELSE UNCHANGED loop
    /\ queue' = queue \cup {e}
    /\ user' = [user EXCEPT ![e] = "connected"]
    /\ UNCHANGED <<deadline, rel, wakeAt, sample, current, envVars>>

\* The locked section of connect.
ConnectPush(e) ==
    /\ user[e] = "connecting"
    /\ MutexFree
    /\ IF \A f \in queue : deadline[e] < deadline[f]
         THEN NotifyOne
         ELSE UNCHANGED loop
    /\ queue' = queue \cup {e}
    /\ user' = [user EXCEPT ![e] = "connected"]
    /\ UNCHANGED <<deadline, rel, wakeAt, sample, current, envVars>>

\* The user drops the connection, at any time but during a call by mainLoop
\* (Boost.Signals is not synchronised; the callback itself may do it).
Disconnect(e) ==
    /\ user[e] \in {"connected", "fired"}
    /\ user' = [user EXCEPT ![e] = "detached"]
    /\ UNCHANGED <<queue, deadline, rel, loopVars, envVars>>

-----------------------------------------------------------------------------
(* mainLoop                                                                *)

\* Mutant of LoopCheck: iTerminated only ends the inner loop.
LoopCheckForEver ==
    /\ loop = "check"
    /\ loop' = "lock"
    /\ UNCHANGED <<wakeAt, sample, current, eventVars, envVars>>

LoopCheck ==
    /\ loop = "check"
    /\ loop' = IF iTerminated THEN "exited" ELSE "lock"
    /\ UNCHANGED <<wakeAt, sample, current, eventVars, envVars>>

\* The lock and the decision to wait.
LoopLock ==
    /\ loop = "lock"
    /\ \/ /\ queue = {}
          /\ loop' = "waiting"
          /\ UNCHANGED <<wakeAt, sample>>
       \/ \E e \in Tops :
             /\ now < deadline[e]
             /\ loop' = "timed"
             /\ wakeAt' = deadline[e]
             /\ UNCHANGED sample
       \/ \E e \in Tops :
             /\ now >= deadline[e]
             /\ loop' = "fire"
             /\ sample' = now
             /\ UNCHANGED wakeAt
    /\ UNCHANGED <<current, eventVars, envVars>>

TimedOut ==
    /\ loop = "timed"
    /\ now >= wakeAt
    /\ loop' = "woken"
    /\ UNCHANGED <<wakeAt, sample, current, eventVars, envVars>>

SpuriousWakeup ==
    /\ loop \in {"waiting", "timed"}
    /\ loop' = "woken"
    /\ UNCHANGED <<wakeAt, sample, current, eventVars, envVars>>

LoopWoken ==
    /\ loop = "woken"
    /\ loop' = "fire"
    /\ sample' = now
    /\ UNCHANGED <<wakeAt, current, eventVars, envVars>>

\* Mutant of LoopTest: iTerminated is only looked at in the outer loop.
LoopTestDue ==
    /\ loop = "fire"
    /\ \E e \in Tops : deadline[e] <= sample
    /\ loop' = "pop"
    /\ UNCHANGED <<wakeAt, sample, current, eventVars, envVars>>

\* The test of the inner loop succeeds: the timer is not to end and the event on
\* top is due.
LoopTest ==
    /\ loop = "fire"
    /\ ~iTerminated
    /\ \E e \in Tops : deadline[e] <= sample
    /\ loop' = "pop"
    /\ UNCHANGED <<wakeAt, sample, current, eventVars, envVars>>

\* The event on top is taken off and its callback called unless it has been
\* disconnected, whatever the destructor has done since the test.
LoopFire ==
    /\ loop = "pop"
    /\ \E e \in Tops :
          /\ queue' = queue \ {e}
          /\ IF user[e] = "detached"
               THEN loop' = "fire" /\ UNCHANGED <<current, user>>
               ELSE /\ loop' = "calling"
                    /\ current' = e
                    /\ user' = [user EXCEPT ![e] = "fired"]
    /\ UNCHANGED <<deadline, rel, wakeAt, sample, envVars>>

\* Nothing (more) is due, or the timer is to end: the mutex is released.
LoopUnlock ==
    /\ loop = "fire"
    /\ iTerminated \/ \A e \in Tops : deadline[e] > sample
    /\ loop' = "check"
    /\ UNCHANGED <<wakeAt, sample, current, eventVars, envVars>>

\* The callback returns true: once more, iRelTimeout from the time that mainLoop
\* looked at the clock; with a timeout of zero it is due again at once.
CallbackAgain ==
    /\ loop = "calling"
    /\ sample + rel[current] <= MaxTime
    /\ deadline' = [deadline EXCEPT ![current] = sample + rel[current]]
    /\ queue' = queue \cup {current}
    /\ user' = [user EXCEPT ![current] =
                   IF @ = "detached" THEN @ ELSE "connected"]
    /\ loop' = "fire"
    /\ current' = NoEvent
    /\ UNCHANGED <<rel, wakeAt, sample, envVars>>

CallbackOver ==
    /\ loop = "calling"
    /\ user' = [user EXCEPT ![current] = "over"]
    /\ loop' = "fire"
    /\ current' = NoEvent
    /\ UNCHANGED <<queue, deadline, rel, wakeAt, sample, envVars>>

-----------------------------------------------------------------------------
(* The destructor                                                          *)

\* Nobody is inside connect when the timer is destroyed.
DtorTerminate ==
    /\ dtor = "none"
    /\ \A e \in Events : user[e] /= "connecting"
    /\ iTerminated' = TRUE
    /\ dtor' = "notify"
    /\ UNCHANGED <<now, eventVars, loopVars>>

DtorNotify ==
    /\ dtor = "notify"
    /\ NotifyOne
    /\ dtor' = "join"
    /\ UNCHANGED <<now, iTerminated, wakeAt, sample, current, eventVars>>

DtorJoin ==
    /\ dtor = "join"
    /\ loop = "exited"
    /\ dtor' = "done"
    /\ UNCHANGED <<now, iTerminated, eventVars, loopVars>>

-----------------------------------------------------------------------------
LoopStep ==
    \/ LoopCheck
    \/ LoopLock
    \/ TimedOut
    \/ LoopWoken
    \/ LoopTest
    \/ LoopFire
    \/ LoopUnlock

Callback == CallbackAgain \/ CallbackOver

Next ==
    \/ Tick
    \/ \E e \in Events :
          \/ \E t \in Timeouts : ConnectDeadline(e, t)
          \/ ConnectPush(e)
          \/ Disconnect(e)
    \/ LoopStep
    \/ SpuriousWakeup
    \/ Callback
    \/ DtorTerminate
    \/ DtorNotify
    \/ DtorJoin

Spec == Init /\ [][Next]_vars

\* Time passes, the threads run, callbacks return.  connect needs iMutex, which
\* mainLoop gives away and takes again: strong fairness, that is a mutex that
\* does not pass over a waiting thread for ever.  And those who connect with a
\* timeout of zero do not return true for ever: mainLoop would then never come to
\* another event, nor release the mutex.
Fairness ==
    /\ WF_vars(Tick)
    /\ WF_vars(LoopStep)
    /\ WF_vars(Callback)
    /\ SF_vars(CallbackOver /\ rel[current] = 0)
    /\ \A e \in Events : SF_vars(ConnectPush(e))
    /\ WF_vars(DtorNotify)
    /\ WF_vars(DtorJoin)

FairSpec == Spec /\ Fairness

-----------------------------------------------------------------------------
\* Every variable keeps its type; mainLoop has an event in hand exactly while it
\* calls it.  (Stated for the proof.)
TypeOK ==
    /\ now \in 0 .. MaxTime
    /\ iTerminated \in BOOLEAN
    /\ queue \subseteq Events
    /\ deadline \in [Events -> 0 .. MaxTime]
    /\ rel \in [Events -> Nat]
    /\ user \in [Events -> UserState]
    /\ loop \in LoopState
    /\ wakeAt \in 0 .. MaxTime
    /\ sample \in 0 .. MaxTime
    /\ current \in IF loop = "calling" THEN Events ELSE {NoEvent}
    /\ dtor \in DtorState

\* "adjust the wait deadline" (Timer.cpp:85) works: whatever connect and the
\* callbacks add while mainLoop sleeps, it never sleeps beyond the earliest
\* deadline of the queue.
SleepNotTooLong ==
    /\ loop = "waiting" => queue = {}
    /\ loop = "timed" => \A e \in queue : wakeAt <= deadline[e]

\* A callback is called at or after its deadline, and before every queued event
\* with a later one.  (The alarm clock below does no other; stated for the proof.)
FiresInOrder ==
    [][loop = "pop" /\ loop' = "calling" =>
          /\ deadline[current'] <= now
          /\ \A e \in queue : deadline[current'] <= deadline[e]]_vars

\* The alarm clock that the timer is: an event is set while it is in the queue,
\* and rings while it is in hand.
AlarmState ==
    [e \in Events |->
        IF e \in queue THEN "set"
        ELSE IF e = current THEN "ringing"
        ELSE IF user[e] \in {"detached", "over"} THEN "over" ELSE "off"]

AlarmDue == [e \in Events |-> IF e \in queue \/ e = current THEN deadline[e] ELSE 0]

AlarmMuted == {e \in Events : (e \in queue \/ e = current) /\ user[e] = "detached"}

Clock == INSTANCE AlarmClock WITH
    Alarms <- Events,
    Times  <- 0 .. MaxTime,
    time   <- now,
    state  <- AlarmState,
    due    <- AlarmDue,
    muted  <- AlarmMuted,
    decided <- loop = "pop",
    closed <- iTerminated

\* The timer implements that promise, though events are disconnected while they wait
\* or while they are called, callbacks repeat, and the destructor raises
\* iTerminated without iMutex: an event that has been disconnected is not called,
\* and once the flag is up no call begins but the one that mainLoop had decided on.
ImplementsAlarmClock == Clock!Safety

\* An event that stays connected is called, unless the timer is destroyed.
EventFires ==
    \A e \in Events :
        (user[e] = "connecting") ~> (user[e] \in {"fired", "detached"} \/ iTerminated)

\* The destructor returns if an event is scheduled while it waits: then the
\* sleep that its unlocked notification may have missed ends at a deadline.
DtorReturns == (dtor = "join" /\ queue /= {}) ~> (dtor = "done")
=============================================================================
