------------------------------- MODULE AlarmClock -------------------------------
(***************************************************************************)
(* What utl::Timer promises to those who connect to it, without a queue,   *)
(* a lock or a sleeping thread: alarms ring when they are due and not      *)
(* before, one at a time and in the order in which they are due; one that  *)
(* is muted does not begin to ring; one that rings again is then not due   *)
(* earlier than before.  A clock that is closed decides on no more alarm:  *)
(* it may have decided on one, which still rings.                          *)
(***************************************************************************)
EXTENDS Naturals

CONSTANTS Alarms,   \* each is set once
          Times     \* when they may be due

VARIABLES time,
          state,    \* of each alarm: "off", "set", "ringing" or "over"
          due,      \* when an alarm that is set or rings was or is due
          muted,    \* the alarms among them that shall not ring any more
          decided,  \* the alarm whose turn it is is about to ring
          closed

vars == <<time, state, due, muted, decided, closed>>

Init ==
    /\ time = 0
    /\ state = [a \in Alarms |-> "off"]
    /\ due = [a \in Alarms |-> 0]
    /\ muted = {}
    /\ decided = FALSE
    /\ closed = FALSE

Pass ==
    /\ time' = time + 1
    /\ UNCHANGED <<state, due, muted, decided, closed>>

SetAlarm(a) ==
    /\ state[a] = "off"
    /\ state' = [state EXCEPT ![a] = "set"]
    /\ \E t \in Times : due' = [due EXCEPT ![a] = t]
    /\ UNCHANGED <<time, muted, decided, closed>>

Mute(a) ==
    /\ state[a] \in {"set", "ringing"}
    /\ muted' = muted \cup {a}
    /\ UNCHANGED <<time, state, due, decided, closed>>

\* Its time has come, and that of none before it.
Turn(a) ==
    /\ state[a] = "set"
    /\ due[a] <= time
    /\ \A b \in Alarms : state[b] = "set" => due[a] <= due[b]

Decide ==
    /\ ~closed
    /\ \E a \in Alarms : Turn(a)
    /\ \A b \in Alarms : state[b] /= "ringing"
    /\ decided' = TRUE
    /\ UNCHANGED <<time, state, due, muted, closed>>

Ring(a) ==
    /\ decided
    /\ Turn(a)
    /\ a \notin muted
    /\ decided' = FALSE
    /\ state' = [state EXCEPT ![a] = "ringing"]
    /\ UNCHANGED <<time, due, muted, closed>>

\* A muted alarm passes in silence.
Drop(a) ==
    /\ decided
    /\ Turn(a)
    /\ a \in muted
    /\ decided' = FALSE
    /\ state' = [state EXCEPT ![a] = "over"]
    /\ due' = [due EXCEPT ![a] = 0]
    /\ muted' = muted \ {a}
    /\ UNCHANGED <<time, closed>>

Again(a) ==
    /\ state[a] = "ringing"
    /\ state' = [state EXCEPT ![a] = "set"]
    /\ \E t \in Times : t >= due[a] /\ due' = [due EXCEPT ![a] = t]
    /\ UNCHANGED <<time, muted, decided, closed>>

Over(a) ==
    /\ state[a] = "ringing"
    /\ state' = [state EXCEPT ![a] = "over"]
    /\ due' = [due EXCEPT ![a] = 0]
    /\ muted' = muted \ {a}
    /\ UNCHANGED <<time, decided, closed>>

Close ==
    /\ closed' = TRUE
    /\ UNCHANGED <<time, state, due, muted, decided>>

Next ==
    \/ Pass
    \/ Decide
    \/ \E a \in Alarms : SetAlarm(a) \/ Mute(a) \/ Ring(a) \/ Drop(a) \/ Again(a) \/ Over(a)
    \/ Close

Safety == Init /\ [][Next]_vars
=============================================================================
