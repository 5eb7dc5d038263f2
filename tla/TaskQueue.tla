------------------------------- MODULE TaskQueue -------------------------------
(***************************************************************************)
(* What sys::ThreadPool promises to those who post tasks, without threads, *)
(* locks or condition variables: accepted tasks are started in the order   *)
(* of acceptance, each once, at most Width of them at a time; nothing is   *)
(* started after the service is closed.                                    *)
(***************************************************************************)
EXTENDS Naturals, Sequences, FiniteSets

CONSTANTS Tasks,   \* the tasks that are ever submitted
          Width    \* how many tasks may be in progress together

VARIABLES queue,      \* the accepted tasks that have not been started
          active,     \* the tasks in progress
          finished,   \* the tasks that are over
          closed

vars == <<queue, active, finished, closed>>

Queued == {queue[i] : i \in 1 .. Len(queue)}

Init ==
    /\ queue = << >>
    /\ active = {}
    /\ finished = {}
    /\ closed = FALSE

\* A closed service may still accept a task: it will never start it.
Accept(t) ==
    /\ t \notin Queued \cup active \cup finished
    /\ queue' = Append(queue, t)
    /\ UNCHANGED <<active, finished, closed>>

Start ==
    /\ ~closed
    /\ queue /= << >>
    /\ Cardinality(active) < Width
    /\ active' = active \cup {Head(queue)}
    /\ queue' = Tail(queue)
    /\ UNCHANGED <<finished, closed>>

Finish(t) ==
    /\ t \in active
    /\ active' = active \ {t}
    /\ finished' = finished \cup {t}
    /\ UNCHANGED <<queue, closed>>

Close ==
    /\ ~closed
    /\ closed' = TRUE
    /\ UNCHANGED <<queue, active, finished>>

Next ==
    \/ \E t \in Tasks : Accept(t) \/ Finish(t)
    \/ Start
    \/ Close

Safety == Init /\ [][Next]_vars

\* Tasks come to an end and the service goes on with the next one.
Spec ==
    /\ Safety
    /\ WF_vars(Start)
    /\ \A t \in Tasks : WF_vars(Finish(t))

=============================================================================
