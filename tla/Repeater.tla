------------------------------- MODULE Repeater -------------------------------
(***************************************************************************)
(* src/net/Repeater.{h,cpp}: one thread, doRepeat, selects on the inbound  *)
(* sockets of a route table and sends what it receives to the outbound     *)
(* sockets of the route.  Other threads add and remove routes; the owner   *)
(* runs and stops the thread.                                              *)
(*                                                                         *)
(* A route's outbound sockets differ for the code only in their            *)
(* destination port, so a route keeps how many it has for each port.  What *)
(* a datagram holds, and the traffic counters that no decision reads, are  *)
(* left out.  File descriptors are modelled: the select mask is a set of   *)
(* numbers that outlives the sockets.  A socket whose bind failed is used  *)
(* like any other, but no later look-up by port finds it.                  *)
(***************************************************************************)
EXTENDS Integers, Sequences, FiniteSets, SequencesExt, FiniteSetsExt

CONSTANTS InPorts,      \* ports that local routes lead from
          OutPorts,     \* ports that they lead to
          Foreign,      \* stands for the port of a socket that is not UDP
          Unbound,      \* iBoundPort of a socket whose bind failed
          Controllers,  \* the threads that change routes
          MaxFd,        \* bound: descriptors are 1 .. MaxFd
          MaxRuns       \* bound: how often run is called

ASSUME RepeaterAssumption ==
    /\ Foreign \notin InPorts \cup OutPorts
    /\ Unbound \notin InPorts \cup {Foreign}
    /\ MaxFd \in Nat \ {0}
    /\ MaxRuns \in Nat

VARIABLES
    iRouteInfo,     \* the route table
    iFdConnection,  \* the descriptors in the select mask
    iMaxSocketFd,
    iForceStop,
    thread,         \* where doRepeat stands
    mask,           \* fdAvaiable: the copy given to select, then what it returned
    inbound,        \* the sockets that exist: descriptor -> bound port
    pending,        \* descriptors of sockets with a datagram to receive
    call,           \* what each controller still has to pass to addRoute
    owner,          \* where the owner stands in run and stop
    runs,           \* history: calls of run
    overlapped      \* history: inbound ports for which one call of addLocalRoute
                    \* began inside another

vars == <<iRouteInfo, iFdConnection, iMaxSocketFd, iForceStop, thread, mask,
          inbound, pending, call, owner, runs, overlapped>>

tableVars  == <<iRouteInfo, iFdConnection, iMaxSocketFd>>
threadVars == <<thread, mask>>
ownerVars  == <<iForceStop, owner, runs>>

Fds == 1 .. MaxFd

NoCall == [busy |-> FALSE]

\* "selecting": iMutex is released, the mask copied, the thread is in select;
\* "deliver": select has returned descriptors, iMutex not yet taken again.
ThreadState == {"none", "check", "lock", "waiting", "woken", "selecting",
                "deliver", "exited"}

OwnerState == {"idle", "flag", "join"}

Init ==
    /\ iRouteInfo = << >>
    /\ iFdConnection = {}
    /\ iMaxSocketFd = 0
    /\ iForceStop = FALSE
    /\ thread = "none"
    /\ mask = {}
    /\ inbound = [fd \in {} |-> Foreign]
    /\ pending = {}
    /\ call = [c \in Controllers |-> NoCall]
    /\ owner = "idle"
    /\ runs = 0
    /\ overlapped = {}

Open == DOMAIN inbound

\* notify_one: only doRepeat ever waits.
NotifyOne == thread' = IF thread = "waiting" THEN "woken" ELSE thread

-----------------------------------------------------------------------------
(* The route table                                                         *)

\* The first route whose inbound socket is UDP and bound to the port; 0 if none.
RouteFrom(port) ==
    SelectInSeq(iRouteInfo, LAMBDA r : r.port = port /\ port /= Foreign)

\* One outbound socket with this destination is erased, if there is one.
WithoutOne(r, to) == [r EXCEPT !.out[to] = IF @ > 0 THEN @ - 1 ELSE 0]

\* "Remove any out port bound to another in port" (Repeater.cpp:189)
EraseEverywhere(to) ==
    [i \in 1 .. Len(iRouteInfo) |-> WithoutOne(iRouteInfo[i], to)]

NewSocket(fd, port) == inbound' = [f \in Open \cup {fd} |->
                                      IF f = fd THEN port ELSE inbound[f]]

\* Another call for the port is between its two locked sections.
NoteOverlap(from) ==
    overlapped' = IF \E d \in Controllers : call[d].busy /\ call[d].port = from
                    THEN overlapped \cup {from}
                    ELSE overlapped

\* addLocalRoute, first locked section: the pair exists.
AddLocalRouteKnown(c, from, to) ==
    /\ ~call[c].busy
    /\ RouteFrom(from) /= 0
    /\ iRouteInfo[RouteFrom(from)].out[to] > 0
    /\ UNCHANGED vars

\* The port has an inbound socket, the pair is new.  addRoute is called after
\* iMutex is released.
AddLocalRouteMore(c, from, to) ==
    /\ ~call[c].busy
    /\ RouteFrom(from) /= 0
    /\ iRouteInfo[RouteFrom(from)].out[to] = 0
    /\ call' = [call EXCEPT ![c] =
                   [busy |-> TRUE, fd |-> iRouteInfo[RouteFrom(from)].fd,
                    port |-> from, to |-> to]]
    /\ NoteOverlap(from)
    /\ UNCHANGED <<tableVars, threadVars, ownerVars, inbound, pending>>

\* The port has no inbound socket: one is created and bound, if the kernel lets
\* it; the result of bind is not looked at.  Existing routes to the destination
\* are removed.
AddLocalRouteNew(c, from, to) ==
    /\ ~call[c].busy
    /\ RouteFrom(from) = 0
    /\ \E fd \in Fds \ Open :
          \E port \in {from, Unbound} :
             /\ NewSocket(fd, port)
             /\ call' = [call EXCEPT ![c] =
                            [busy |-> TRUE, fd |-> fd, port |-> port, to |-> to]]
    /\ iRouteInfo' = EraseEverywhere(to)
    /\ NoteOverlap(from)
    /\ UNCHANGED <<iFdConnection, iMaxSocketFd, threadVars, ownerVars, pending>>

\* The user's own sockets, given to addRoute: a stream that is repeated to
\* another stream.
AddForeignRoute(c) ==
    /\ ~call[c].busy
    /\ \E fd \in Fds \ Open :
          /\ NewSocket(fd, Foreign)
          /\ call' = [call EXCEPT ![c] =
                         [busy |-> TRUE, fd |-> fd, port |-> Foreign, to |-> Foreign]]
    /\ UNCHANGED <<tableVars, threadVars, ownerVars, pending, overlapped>>

\* Mutant of AddRoute: a new inbound socket is always a new route.
AddRouteNoSearch(c) ==
    /\ call[c].busy
    /\ NotifyOne
    /\ iFdConnection' = iFdConnection \cup {call[c].fd}
    /\ iMaxSocketFd' = Max({iMaxSocketFd, call[c].fd})
    /\ iRouteInfo' = Append(iRouteInfo,
             [fd |-> call[c].fd, port |-> call[c].port,
              out |-> [p \in OutPorts \cup {Foreign} |->
                          IF p = call[c].to THEN 1 ELSE 0]])
    /\ call' = [call EXCEPT ![c] = NoCall]
    /\ UNCHANGED <<mask, ownerVars, inbound, pending, overlapped>>

\* Mutant of AddRoute: the mask is only updated for an inbound socket that is
\* in the table already.
AddRouteNoMask(c) ==
    /\ call[c].busy
    /\ NotifyOne
    /\ iMaxSocketFd' = Max({iMaxSocketFd, call[c].fd})
    /\ LET known == SelectInSeq(iRouteInfo, LAMBDA r : r.fd = call[c].fd)
       IN  IF known = 0
             THEN /\ iRouteInfo' = Append(iRouteInfo,
                        [fd |-> call[c].fd, port |-> call[c].port,
                         out |-> [p \in OutPorts \cup {Foreign} |->
                                     IF p = call[c].to THEN 1 ELSE 0]])
                  /\ UNCHANGED iFdConnection
             ELSE /\ iRouteInfo' = [iRouteInfo EXCEPT ![known].out[call[c].to] = @ + 1]
                  /\ iFdConnection' = iFdConnection \cup {call[c].fd}
    /\ call' = [call EXCEPT ![c] = NoCall]
    /\ UNCHANGED <<mask, ownerVars, inbound, pending, overlapped>>

\* Mutant of AddRoute: doRepeat is not notified.
AddRouteNoNotify(c) ==
    /\ call[c].busy
    /\ iFdConnection' = iFdConnection \cup {call[c].fd}
    /\ iMaxSocketFd' = Max({iMaxSocketFd, call[c].fd})
    /\ LET known == SelectInSeq(iRouteInfo, LAMBDA r : r.fd = call[c].fd)
       IN  iRouteInfo' =
             IF known = 0
               THEN Append(iRouteInfo,
                        [fd |-> call[c].fd, port |-> call[c].port,
                         out |-> [p \in OutPorts \cup {Foreign} |->
                                     IF p = call[c].to THEN 1 ELSE 0]])
               ELSE [iRouteInfo EXCEPT ![known].out[call[c].to] = @ + 1]
    /\ call' = [call EXCEPT ![c] = NoCall]
    /\ UNCHANGED <<thread, mask, ownerVars, inbound, pending, overlapped>>

\* addRoute: its locked section, and the end of the controller's call.
AddRoute(c) ==
    /\ call[c].busy
    /\ NotifyOne
    /\ iFdConnection' = iFdConnection \cup {call[c].fd}
    /\ iMaxSocketFd' = Max({iMaxSocketFd, call[c].fd})
    /\ LET known == SelectInSeq(iRouteInfo, LAMBDA r : r.fd = call[c].fd)
       IN  iRouteInfo' =
             IF known = 0
               THEN Append(iRouteInfo,
                        [fd |-> call[c].fd, port |-> call[c].port,
                         out |-> [p \in OutPorts \cup {Foreign} |->
                                     IF p = call[c].to THEN 1 ELSE 0]])
               ELSE [iRouteInfo EXCEPT ![known].out[call[c].to] = @ + 1]
    /\ call' = [call EXCEPT ![c] = NoCall]
    /\ UNCHANGED <<mask, ownerVars, inbound, pending, overlapped>>

\* Only the outbound socket goes; the inbound socket and its route stay.
RemoveLocalRoute(c, from, to) ==
    /\ ~call[c].busy
    /\ RouteFrom(from) /= 0
    /\ iRouteInfo[RouteFrom(from)].out[to] > 0
    /\ iRouteInfo' = [iRouteInfo EXCEPT ![RouteFrom(from)] = WithoutOne(@, to)]
    /\ UNCHANGED <<iFdConnection, iMaxSocketFd, threadVars, ownerVars, inbound,
                   pending, call, overlapped>>

-----------------------------------------------------------------------------
(* doRepeat                                                                *)

\* Nothing arrives at a socket that is not bound.
Arrive(fd) ==
    /\ fd \in Open
    /\ inbound[fd] /= Unbound
    /\ pending' = pending \cup {fd}
    /\ UNCHANGED <<tableVars, threadVars, ownerVars, inbound, call, overlapped>>

\* Mutant of RepeatCheck: iForceStop is not looked at.
RepeatCheckForEver ==
    /\ thread = "check"
    /\ thread' = "lock"
    /\ UNCHANGED <<tableVars, mask, ownerVars, inbound, pending, call, overlapped>>

RepeatCheck ==
    /\ thread = "check"
    /\ thread' = IF iForceStop THEN "exited" ELSE "lock"
    /\ UNCHANGED <<tableVars, mask, ownerVars, inbound, pending, call, overlapped>>

RepeatWait ==
    /\ thread = "lock"
    /\ iMaxSocketFd = 0
    /\ thread' = "waiting"
    /\ UNCHANGED <<tableVars, mask, ownerVars, inbound, pending, call, overlapped>>

SpuriousWakeup ==
    /\ thread = "waiting"
    /\ thread' = "woken"
    /\ UNCHANGED <<tableVars, mask, ownerVars, inbound, pending, call, overlapped>>

\* The mask is copied after iMutex is released; so routes may have been added.
RepeatSelect ==
    /\ thread = "woken" \/ (thread = "lock" /\ iMaxSocketFd /= 0)
    /\ thread' = "selecting"
    /\ mask' = iFdConnection
    /\ UNCHANGED <<tableVars, ownerVars, inbound, pending, call, overlapped>>

\* A descriptor of the mask has been closed: select fails, the loop goes on.
SelectFails ==
    /\ thread = "selecting"
    /\ ~(mask \subseteq Open)
    /\ thread' = "check"
    /\ mask' = {}
    /\ UNCHANGED <<tableVars, ownerVars, inbound, pending, call, overlapped>>

SelectTimeout ==
    /\ thread = "selecting"
    /\ mask \subseteq Open
    /\ mask \cap pending = {}
    /\ thread' = "check"
    /\ mask' = {}
    /\ UNCHANGED <<tableVars, ownerVars, inbound, pending, call, overlapped>>

SelectReturns ==
    /\ thread = "selecting"
    /\ mask \subseteq Open
    /\ mask \cap pending /= {}
    /\ thread' = "deliver"
    /\ mask' = mask \cap pending
    /\ UNCHANGED <<tableVars, ownerVars, inbound, pending, call, overlapped>>

\* The second locked section: each ready inbound socket of the table is read
\* once and what it gives is sent to the route's outbound sockets.
Deliver ==
    /\ thread = "deliver"
    /\ pending' = pending \ (mask \cap {r.fd : r \in ToSet(iRouteInfo)})
    /\ thread' = "check"
    /\ mask' = {}
    /\ UNCHANGED <<tableVars, ownerVars, inbound, call, overlapped>>

-----------------------------------------------------------------------------
(* run and stop                                                            *)

Run ==
    /\ owner = "idle"
    /\ thread = "none"
    /\ runs < MaxRuns
    /\ thread' = "check"
    /\ runs' = runs + 1
    /\ UNCHANGED <<tableVars, mask, iForceStop, owner, inbound, pending, call, overlapped>>

\* stop notifies first ...
StopNotify ==
    /\ owner = "idle"
    /\ thread /= "none"
    /\ NotifyOne
    /\ owner' = "flag"
    /\ UNCHANGED <<tableVars, mask, iForceStop, runs, inbound, pending, call, overlapped>>

\* ... and sets the flag afterwards, both without the mutex.
StopFlag ==
    /\ owner = "flag"
    /\ iForceStop' = TRUE
    /\ owner' = "join"
    /\ UNCHANGED <<tableVars, threadVars, runs, inbound, pending, call, overlapped>>

\* The thread is joined and the table cleared, which closes its sockets; the
\* mask and iMaxSocketFd stay as they are.
StopJoin ==
    /\ owner = "join"
    /\ thread = "exited"
    /\ thread' = "none"
    /\ iForceStop' = FALSE
    /\ iRouteInfo' = << >>
    /\ inbound' = [f \in {call[c].fd : c \in {d \in Controllers : call[d].busy}}
                     |-> inbound[f]]
    /\ pending' = pending \cap DOMAIN inbound'
    /\ owner' = "idle"
    /\ UNCHANGED <<iFdConnection, iMaxSocketFd, mask, runs, call, overlapped>>

-----------------------------------------------------------------------------
RepeatStep ==
    \/ RepeatCheck
    \/ RepeatWait
    \/ RepeatSelect
    \/ SelectFails
    \/ SelectTimeout
    \/ SelectReturns
    \/ Deliver

StopStep == StopFlag \/ StopJoin

Next ==
    \/ \E c \in Controllers :
          \/ \E from \in InPorts, to \in OutPorts :
                \/ AddLocalRouteKnown(c, from, to)
                \/ AddLocalRouteMore(c, from, to)
                \/ AddLocalRouteNew(c, from, to)
                \/ RemoveLocalRoute(c, from, to)
          \/ AddForeignRoute(c)
          \/ AddRoute(c)
    \/ \E fd \in Fds : Arrive(fd)
    \/ RepeatStep
    \/ SpuriousWakeup
    \/ Run
    \/ StopNotify
    \/ StopStep

Spec == Init /\ [][Next]_vars

\* The thread and the owner inside stop go on; so does a call of addRoute.
Fairness ==
    /\ WF_vars(RepeatStep)
    /\ WF_vars(StopStep)
    /\ \A c \in Controllers : WF_vars(AddRoute(c))

FairSpec == Spec /\ Fairness

-----------------------------------------------------------------------------
RouteFds == {iRouteInfo[i].fd : i \in 1 .. Len(iRouteInfo)}

\* Every variable keeps its type; stop leaves no flag behind for the next run.
TypeOK ==
    /\ \A i \in 1 .. Len(iRouteInfo) :
          /\ iRouteInfo[i].fd \in Fds
          /\ iRouteInfo[i].port \in InPorts \cup {Foreign, Unbound}
          /\ iRouteInfo[i].out \in [OutPorts \cup {Foreign} -> Nat]
    /\ iFdConnection \subseteq Fds
    /\ iMaxSocketFd \in 0 .. MaxFd
    /\ iForceStop \in BOOLEAN
    /\ iForceStop => owner = "join"
    /\ thread \in ThreadState
    /\ mask \subseteq Fds
    /\ Open \subseteq Fds
    /\ pending \subseteq Open
    /\ owner \in OwnerState
    /\ runs \in 0 .. MaxRuns
    /\ overlapped \subseteq InPorts

\* Besides the types: no two routes share a socket; and an inbound port has one
\* route, and a destination one socket in a route, so that a route repeats no datagram
\* twice to the same port.  So it is although addLocalRoute lets go of iMutex half way
\* while others change the table, with two exceptions: after two calls for the same
\* port have overlapped, and for sockets that could not be bound, of which there may
\* be any number.
TableWellFormed ==
    /\ TypeOK
    /\ \A i, j \in 1 .. Len(iRouteInfo) :
          /\ iRouteInfo[i].fd = iRouteInfo[j].fd => i = j
          /\ iRouteInfo[i].port = iRouteInfo[j].port
             /\ iRouteInfo[i].port \in InPorts \ overlapped => i = j
    /\ \A i \in 1 .. Len(iRouteInfo), p \in OutPorts :
          iRouteInfo[i].port \notin overlapped => iRouteInfo[i].out[p] <= 1

\* Until the first stop the mask is exactly the inbound sockets of the table, so
\* that select neither fails nor overlooks a route.
MaskMatchesTable ==
    runs <= 1 /\ (thread /= "none" \/ runs = 0) =>
        /\ iFdConnection = RouteFds
        /\ RouteFds \subseteq Open
        /\ iMaxSocketFd = (IF RouteFds = {} THEN 0 ELSE Max(RouteFds))

\* "Remove any out port bound to another in port" (Repeater.cpp:189): no port is
\* fed by two inbound ports; a socket that is not bound feeds nothing.
DestFedOnce ==
    \A i, j \in 1 .. Len(iRouteInfo), p \in OutPorts :
        /\ iRouteInfo[i].port /= Unbound /\ iRouteInfo[i].out[p] > 0
        /\ iRouteInfo[j].port /= Unbound /\ iRouteInfo[j].out[p] > 0
        => i = j

\* A datagram that waits at an inbound socket of the table of a running repeater
\* is received, unless the repeater is stopped; in the first run.
DatagramRepeated ==
    \A fd \in Fds :
        (thread /= "none" /\ fd \in pending \cap RouteFds)
            ~> (fd \notin pending \/ owner /= "idle" \/ runs > 1)

\* stop returns once there is, or has been, any route: then doRepeat does not
\* wait for a notification, which stop sends too early to be relied upon.
StopReturns == (owner = "join" /\ iMaxSocketFd /= 0) ~> (owner = "idle")
=============================================================================
