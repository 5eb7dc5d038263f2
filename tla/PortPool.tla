------------------------------- MODULE PortPool -------------------------------
(***************************************************************************)
(* net::PortPool on utl::ResourcePool<short>: a set of ports to give out   *)
(* and a set of ports given out.  acquire tries to bind a port before it   *)
(* hands it out, and sets those aside that cannot be bound until it has    *)
(* found one that can.                                                     *)
(*                                                                         *)
(* The pool is used by one thread, which releases only ports that it has,  *)
(* and adds only ports that the pool does not know.  Who else uses a port  *)
(* of the machine, so that it cannot be bound, may change at any time.     *)
(***************************************************************************)
EXTENDS Integers

CONSTANTS MaxShort,      \* 32767 in the code
          Ranges         \* bound: the pairs of aRangeStart and aRangeEnd

Shorts == -MaxShort - 1 .. MaxShort

ASSUME PortsAssumption ==
    /\ MaxShort \in Nat
    /\ Ranges \subseteq Shorts \X Shorts

VARIABLES
    iAvailablePool,
    iOccupiedPool,
    call,            \* the call under way: "new", "acquire" or none
    next, last,      \* the constructor's i and aRangeEnd
    pendingPortList, \* ports that this acquire could not bind
    held,            \* history: the ports that acquire has handed out
    leaked,          \* history: ports that an acquire has set aside and forgotten
    cleared          \* history: ports that clear has removed

poolVars == <<iAvailablePool, iOccupiedPool, call, next, last, pendingPortList,
              held, leaked, cleared>>

PoolStart(range) ==
    /\ iAvailablePool = {}
    /\ iOccupiedPool = {}
    /\ call = "new"
    /\ next = range[1]
    /\ last = range[2]
    /\ pendingPortList = {}
    /\ held = {}
    /\ leaked = {}
    /\ cleared = {}

PoolInit == \E range \in Ranges : PoolStart(range)

-----------------------------------------------------------------------------
(* The constructor: one turn of its loop, and its end.  The counter is a   *)
(* short too: a range up to MaxShort has no end.                           *)

Construct ==
    /\ call = "new"
    /\ next <= last
    /\ iAvailablePool' = iAvailablePool \cup {next}
    /\ next' = IF next = MaxShort THEN -MaxShort - 1 ELSE next + 1
    /\ UNCHANGED <<iOccupiedPool, call, last, pendingPortList, held, leaked, cleared>>

Constructed ==
    /\ call = "new"
    /\ next > last
    /\ call' = "none"
    /\ UNCHANGED <<iAvailablePool, iOccupiedPool, next, last, pendingPortList,
                   held, leaked, cleared>>

-----------------------------------------------------------------------------
(* acquire, one port after the other                                       *)

Acquire ==
    /\ call = "none"
    /\ call' = "acquire"
    /\ UNCHANGED <<iAvailablePool, iOccupiedPool, next, last, pendingPortList,
                   held, leaked, cleared>>

\* ResourcePool::acquire: the least port goes from one set to the other.
Pop(port) ==
    /\ port \in iAvailablePool
    /\ \A other \in iAvailablePool : port <= other

AcquirePending(port) ==
    /\ call = "acquire"
    /\ Pop(port)
    /\ iAvailablePool' = iAvailablePool \ {port}
    /\ iOccupiedPool' = iOccupiedPool \cup {port}
    /\ pendingPortList' = pendingPortList \cup {port}
    /\ UNCHANGED <<call, next, last, held, leaked, cleared>>

\* Mutant of AcquireBound: the ports set aside go back although they are still given out.
AcquireBoundNoErase(port) ==
    /\ call = "acquire"
    /\ Pop(port)
    /\ iAvailablePool' = (iAvailablePool \ {port}) \cup pendingPortList
    /\ iOccupiedPool' = iOccupiedPool \cup {port}
    /\ held' = held \cup {port}
    /\ pendingPortList' = {}
    /\ call' = "none"
    /\ UNCHANGED <<next, last, leaked, cleared>>

\* The port can be bound: those set aside before it are released.
AcquireBound(port) ==
    /\ call = "acquire"
    /\ Pop(port)
    /\ iAvailablePool' = (iAvailablePool \ {port}) \cup pendingPortList
    /\ iOccupiedPool' = (iOccupiedPool \cup {port}) \ pendingPortList
    /\ held' = held \cup {port}
    /\ pendingPortList' = {}
    /\ call' = "none"
    /\ UNCHANGED <<next, last, leaked, cleared>>

\* There is no port left: acquire returns false, with those it has set aside.
AcquireFails ==
    /\ call = "acquire"
    /\ iAvailablePool = {}
    /\ leaked' = leaked \cup pendingPortList
    /\ pendingPortList' = {}
    /\ call' = "none"
    /\ UNCHANGED <<iAvailablePool, iOccupiedPool, next, last, held, cleared>>

-----------------------------------------------------------------------------
Release(port) ==
    /\ call = "none"
    /\ port \in held
    /\ iAvailablePool' = iAvailablePool \cup {port}
    /\ iOccupiedPool' = iOccupiedPool \ {port}
    /\ held' = held \ {port}
    /\ UNCHANGED <<call, next, last, pendingPortList, leaked, cleared>>

\* Everything is forgotten; a port that is held can be released all the same.
Clear ==
    /\ call = "none"
    /\ iAvailablePool' = {}
    /\ iOccupiedPool' = {}
    /\ cleared' = cleared \cup iAvailablePool \cup leaked
    /\ leaked' = {}
    /\ UNCHANGED <<call, next, last, pendingPortList, held>>

Add(port) ==
    /\ call = "none"
    /\ port \notin iAvailablePool \cup iOccupiedPool \cup held
    /\ iAvailablePool' = iAvailablePool \cup {port}
    /\ cleared' = cleared \ {port}
    /\ UNCHANGED <<iOccupiedPool, call, next, last, pendingPortList, held, leaked>>

PoolNext ==
    \/ Construct
    \/ Constructed
    \/ Acquire
    \/ AcquireFails
    \/ Clear
    \/ \E port \in Shorts :
          \/ AcquirePending(port)
          \/ AcquireBound(port)
          \/ Release(port)
          \/ Add(port)

PoolSpec == PoolInit /\ [][PoolNext]_poolVars

-----------------------------------------------------------------------------
\* A port is in one place: to be given out, given out to one caller, set aside by
\* the acquire under way, leaked by an earlier one, or removed; and the pool knows
\* as given out exactly those it has not forgotten, so that no acquire hands out a
\* port that somebody has.
PortsAccounted ==
    /\ iAvailablePool \cap (held \cup pendingPortList \cup leaked \cup cleared) = {}
    /\ held \cap (pendingPortList \cup leaked \cup cleared) = {}
    /\ pendingPortList \cap (leaked \cup cleared) = {}
    /\ leaked \cap cleared = {}
    /\ pendingPortList \cup leaked \subseteq iOccupiedPool
    /\ iOccupiedPool \subseteq held \cup pendingPortList \cup leaked
    /\ call /= "acquire" => pendingPortList = {}
=============================================================================
