------------------------------ MODULE ProcessTable ------------------------------
(***************************************************************************)
(* What sys::Shell promises to those who launch processes, without         *)
(* threads, a mutex, a list of zombies or a signal handler: a process is   *)
(* entered in the table once, is taken from it only when it is terminated  *)
(* or has been reaped, and is killed only through the table; its death is  *)
(* reported at most once, after it was reaped and only if it stood in the  *)
(* table then.                                                             *)
(*                                                                         *)
(* It does not promise that a process that has been reaped is ever taken   *)
(* from the table.                                                         *)
(***************************************************************************)
CONSTANT Processes   \* each is started once

VARIABLES life,      \* of each process: "new", "alive", "killed", "dead" or "reaped"
          entry,     \* of each process: "none", "starting", "listed" or "gone"
          due,       \* the processes whose death is to be reported
          reported

vars == <<life, entry, due, reported>>

Init ==
    /\ life = [p \in Processes |-> "new"]
    /\ entry = [p \in Processes |-> "none"]
    /\ due = {}
    /\ reported = {}

Start(p) ==
    /\ life[p] = "new"
    /\ entry[p] = "none"
    /\ life' = [life EXCEPT ![p] = "alive"]
    /\ entry' = [entry EXCEPT ![p] = "starting"]
    /\ UNCHANGED <<due, reported>>

\* Whether it still lives or not.
List(p) ==
    /\ entry[p] = "starting"
    /\ entry' = [entry EXCEPT ![p] = "listed"]
    /\ UNCHANGED <<life, due, reported>>

Remove(p) ==
    /\ entry[p] = "listed"
    /\ life[p] = "reaped"
    /\ entry' = [entry EXCEPT ![p] = "gone"]
    /\ UNCHANGED <<life, due, reported>>

Killed(ps) == [p \in Processes |-> IF p \in ps /\ life[p] = "alive" THEN "killed"
                                                                   ELSE life[p]]

Terminate(p) ==
    /\ entry[p] = "listed"
    /\ life' = Killed({p})
    /\ entry' = [entry EXCEPT ![p] = "gone"]
    /\ UNCHANGED <<due, reported>>

TerminateAll ==
    /\ life' = Killed({p \in Processes : entry[p] = "listed"})
    /\ UNCHANGED <<entry, due, reported>>

Die(p) ==
    /\ life[p] \in {"alive", "killed"}
    /\ life' = [life EXCEPT ![p] = "dead"]
    /\ UNCHANGED <<entry, due, reported>>

\* A process that has not become a program of its own takes others along when it
\* ends, but none that is still being started.
DieWith(p, ps) ==
    /\ life[p] = "alive"
    /\ \A q \in ps : entry[q] \in {"listed", "gone"}
    /\ life' = [Killed(ps) EXCEPT ![p] = "dead"]
    /\ UNCHANGED <<entry, due, reported>>

Reap(p) ==
    /\ life[p] = "dead"
    /\ life' = [life EXCEPT ![p] = "reaped"]
    /\ UNCHANGED <<entry, due, reported>>

Notice(p) ==
    /\ life[p] = "reaped"
    /\ entry[p] = "listed"
    /\ p \notin due \cup reported
    /\ due' = due \cup {p}
    /\ UNCHANGED <<life, entry, reported>>

Report(p) ==
    /\ p \in due
    /\ due' = due \ {p}
    /\ reported' = reported \cup {p}
    /\ UNCHANGED <<life, entry>>

Next ==
    \/ \E p \in Processes :
          \/ Start(p) \/ List(p) \/ Remove(p) \/ Terminate(p)
          \/ Die(p) \/ Reap(p) \/ Notice(p) \/ Report(p)
          \/ \E ps \in SUBSET Processes : DieWith(p, ps)
    \/ TerminateAll

Safety == Init /\ [][Next]_vars
=============================================================================
