------------------------------- MODULE MCTimer -------------------------------
(***************************************************************************)
(* A timer with two events over a few ticks: enough for an event that is   *)
(* connected while mainLoop sleeps for another, for equal deadlines and    *)
(* for a repetition in between.                                            *)
(***************************************************************************)
EXTENDS Timer

CONSTANTS e1, e2

MCEvents == {e1, e2}
MCTimeouts == 0 .. 2
MCMaxTime == 3
=============================================================================
