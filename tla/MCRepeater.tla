------------------------------ MODULE MCRepeater ------------------------------
(***************************************************************************)
(* A repeater with two inbound ports, one outbound port and two threads    *)
(* that change routes.  Two descriptors are enough for two local routes,   *)
(* for two of the same port when calls overlap or a bind fails, or for one *)
(* and a route of the user's own; two runs show what the first leaves for  *)
(* the second.  RepeaterFedOnce has one controller: what it shows needs no *)
(* overlap.                                                                *)
(***************************************************************************)
EXTENDS Repeater

CONSTANTS u1, u2

MCInPorts == {1, 2}
MCOutPorts == {11}
MCForeign == 99
MCUnbound == 0
MCControllers == {u1, u2}
MCOneController == {u1}
MCMaxFd == 2
MCMaxRuns == 2
=============================================================================
