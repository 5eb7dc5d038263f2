----------------------------- MODULE RepeaterProofs -----------------------------
(***************************************************************************)
(* The route table of the repeater and its select mask, for any ports, any *)
(* number of descriptors, of controllers and of calls of run.              *)
(***************************************************************************)
EXTENDS Repeater, SequenceTheorems, WellFoundedInduction, TLAPS

-----------------------------------------------------------------------------
(* The invariant                                                           *)

Ports == InPorts \cup {Foreign, Unbound}

Dests == OutPorts \cup {Foreign}

RouteType == [fd : Fds, port : Ports, out : [Dests -> Nat]]

\* A route of the user's own leads from a foreign socket to a foreign socket.
CallType ==
    {NoCall} \cup {k \in [busy : {TRUE}, fd : Fds, port : Ports, to : Dests] :
                      k.port = Foreign => k.to = Foreign}

TypeInv ==
    /\ TypeOK
    /\ iRouteInfo \in Seq(RouteType)
    /\ call \in [Controllers -> CallType]

\* The inbound sockets of the table, and of the calls of addRoute, are open and
\* bound to the route's port; no two routes share one.
SocketInv ==
    /\ \A i \in 1 .. Len(iRouteInfo) :
          /\ iRouteInfo[i].fd \in Open
          /\ inbound[iRouteInfo[i].fd] = iRouteInfo[i].port
    /\ \A c \in Controllers : call[c].busy =>
          call[c].fd \in Open /\ inbound[call[c].fd] = call[c].port
    /\ \A i, j \in 1 .. Len(iRouteInfo) : iRouteInfo[i].fd = iRouteInfo[j].fd => i = j

\* The mask and the highest descriptor are those of the table, until the first stop.
MaskMatches ==
    /\ iFdConnection = RouteFds
    /\ RouteFds = {} => iMaxSocketFd = 0
    /\ RouteFds /= {} => iMaxSocketFd \in RouteFds
    /\ \A fd \in RouteFds : fd <= iMaxSocketFd

MaskClaim == runs <= 1 /\ (thread /= "none" \/ runs = 0)

MaskInv == (thread /= "none" => runs >= 1) /\ (MaskClaim => MaskMatches)

\* The ports that no two calls of addLocalRoute have been busy with at once.
Clear == InPorts \ overlapped

\* Between the two locked sections of addLocalRoute for such a port nobody else
\* enters a route from it, or the destination; and a socket that is not bound is
\* nobody else's.
CallInv ==
    \A c \in Controllers : call[c].busy =>
        /\ call[c].port \in Clear =>
              /\ \A d \in Controllers : call[d].busy /\ call[d].port = call[c].port => d = c
              /\ \A i \in 1 .. Len(iRouteInfo) : iRouteInfo[i].port = call[c].port =>
                    /\ iRouteInfo[i].fd = call[c].fd
                    /\ iRouteInfo[i].out[call[c].to] = 0
        /\ call[c].port = Unbound =>
              /\ \A d \in Controllers : call[d].busy /\ call[d].fd = call[c].fd => d = c
              /\ \A i \in 1 .. Len(iRouteInfo) : iRouteInfo[i].fd /= call[c].fd

\* A clear inbound port has one route and a destination one socket in it.
OnceInv ==
    /\ \A i, j \in 1 .. Len(iRouteInfo) :
          iRouteInfo[i].port = iRouteInfo[j].port /\ iRouteInfo[i].port \in Clear => i = j
    /\ \A i \in 1 .. Len(iRouteInfo), p \in OutPorts :
          iRouteInfo[i].port \notin overlapped => iRouteInfo[i].out[p] <= 1

BaseInv == TypeInv /\ SocketInv /\ MaskInv

OneInv == CallInv /\ OnceInv

LEMMA InvInit == Init => BaseInv /\ OneInv
<1> SUFFICES ASSUME Init PROVE BaseInv /\ OneInv
  OBVIOUS
<1> USE RepeaterAssumption DEF Init
<1>1. TypeInv
  <2>1. TypeOK
    <3>1. /\ Len(iRouteInfo) = 0 /\ Open = {} /\ iMaxSocketFd \in 0 .. MaxFd
          /\ thread \in ThreadState /\ owner \in OwnerState /\ runs \in 0 .. MaxRuns
      BY DEF Open, ThreadState, OwnerState
    <3>2. 1 .. Len(iRouteInfo) = {}
      BY <3>1
    <3>3. /\ iFdConnection \subseteq Fds /\ iForceStop \in BOOLEAN /\ ~iForceStop
          /\ mask \subseteq Fds /\ Open \subseteq Fds /\ pending \subseteq Open
      BY <3>1
    <3> QED BY <3>1, <3>2, <3>3 DEF TypeOK
  <2> QED BY <2>1 DEF TypeInv, CallType, NoCall
<1>2. SocketInv
  BY DEF SocketInv, NoCall
<1>3. MaskInv
  BY DEF MaskInv, MaskMatches, RouteFds
<1>4. OneInv
  BY DEF OneInv, CallInv, OnceInv, NoCall
<1> QED BY <1>1, <1>2, <1>3, <1>4 DEF BaseInv

-----------------------------------------------------------------------------
(* Searching and changing the table                                        *)

\* A set of numbers has a least one.
LEMMA LeastNumber ==
    ASSUME NEW S \in SUBSET Nat, S /= {}
    PROVE  Min(S) \in S
<1> DEFINE R == OpToRel(<, Nat)
<1>1. IsWellFoundedOn(R, Nat) BY NatLessThanWellFounded
<1>2. PICK x \in S : \A y \in S : ~(<<y, x>> \in R)
  <2> HIDE DEF R
  <2> QED BY <1>1, WFMin
<1>3. \A y \in S : ~(y < x)
  BY <1>2 DEF OpToRel
<1>4. \A y \in S : x =< y
  BY <1>3
<1> QED BY <1>4 DEF Min

\* RouteFrom finds a route from the port if there is one.
LEMMA RouteFromFinds ==
    ASSUME iRouteInfo \in Seq(RouteType), NEW port
    PROVE  /\ RouteFrom(port) \in 0 .. Len(iRouteInfo)
           /\ RouteFrom(port) /= 0 => iRouteInfo[RouteFrom(port)].port = port /\ port /= Foreign
           /\ RouteFrom(port) = 0 /\ port /= Foreign =>
                 \A i \in 1 .. Len(iRouteInfo) : iRouteInfo[i].port /= port
<1> DEFINE I == {i \in 1 .. Len(iRouteInfo) : iRouteInfo[i].port = port /\ port /= Foreign}
<1>1. RouteFrom(port) = IF I /= {} THEN Min(I) ELSE 0
  BY DEF RouteFrom, SelectInSeq
<1>2. I \in SUBSET Nat
  OBVIOUS
<1>3. Len(iRouteInfo) \in Nat
  BY LenProperties
<1>4. CASE I = {}
  BY <1>1, <1>3, <1>4
<1>5. CASE I /= {}
  <2>1. RouteFrom(port) \in I
    <3> HIDE DEF I
    <3> QED BY <1>1, <1>2, <1>5, LeastNumber
  <2> QED BY <1>3, <2>1
<1> QED BY <1>4, <1>5

\* addRoute's search for the inbound socket.
LEMMA KnownFinds ==
    ASSUME iRouteInfo \in Seq(RouteType), NEW c \in Controllers
    PROVE  LET known == SelectInSeq(iRouteInfo, LAMBDA r : r.fd = call[c].fd)
           IN  /\ known \in 0 .. Len(iRouteInfo)
               /\ known /= 0 => iRouteInfo[known].fd = call[c].fd
               /\ known = 0 => \A i \in 1 .. Len(iRouteInfo) : iRouteInfo[i].fd /= call[c].fd
<1> DEFINE I == {i \in 1 .. Len(iRouteInfo) : iRouteInfo[i].fd = call[c].fd}
           known == SelectInSeq(iRouteInfo, LAMBDA r : r.fd = call[c].fd)
<1>1. known = IF I /= {} THEN Min(I) ELSE 0
  BY DEF SelectInSeq
<1>2. I \in SUBSET Nat
  OBVIOUS
<1>3. Len(iRouteInfo) \in Nat
  BY LenProperties
<1> HIDE DEF known
<1>4. /\ known \in 0 .. Len(iRouteInfo)
      /\ known /= 0 => iRouteInfo[known].fd = call[c].fd
      /\ known = 0 => \A i \in 1 .. Len(iRouteInfo) : iRouteInfo[i].fd /= call[c].fd
  <2>1. CASE I = {}
    BY <1>1, <1>3, <2>1
  <2>2. CASE I /= {}
    <3>1. known \in I
      <4> HIDE DEF I
      <4> QED BY <1>1, <1>2, <2>2, LeastNumber
    <3> QED BY <1>3, <3>1
  <2> QED BY <2>1, <2>2
<1> QED BY <1>4 DEF known

LEMMA WithoutOneThins ==
    ASSUME NEW r \in RouteType, NEW to \in OutPorts
    PROVE  /\ WithoutOne(r, to) \in RouteType
           /\ WithoutOne(r, to).fd = r.fd /\ WithoutOne(r, to).port = r.port
           /\ \A p \in Dests : WithoutOne(r, to).out[p] <= r.out[p]
<1> DEFINE n == IF r.out[to] > 0 THEN r.out[to] - 1 ELSE 0
<1>1. r.out \in [Dests -> Nat] /\ to \in Dests
  BY DEF RouteType, Dests
<1>2. r.out[to] \in Nat
  BY <1>1
<1>3. n \in Nat /\ n <= r.out[to]
  BY <1>2
<1>4. WithoutOne(r, to) = [r EXCEPT !.out = [r.out EXCEPT ![to] = n]]
  BY <1>1 DEF WithoutOne, RouteType
<1> HIDE DEF n
<1>5. [r.out EXCEPT ![to] = n] \in [Dests -> Nat]
  BY <1>1, <1>3
<1>6. \A p \in Dests : [r.out EXCEPT ![to] = n][p] <= r.out[p]
  <2> TAKE p \in Dests
  <2>1. CASE p = to BY <1>1, <1>3, <2>1
  <2>2. CASE p /= to
    <3>1. [r.out EXCEPT ![to] = n][p] = r.out[p] /\ r.out[p] \in Nat
      BY <1>1, <2>2
    <3> QED BY <3>1
  <2> QED BY <2>1, <2>2
<1> QED BY <1>4, <1>5, <1>6 DEF RouteType

\* The routes lose outbound sockets at most.
Thinned ==
    /\ iRouteInfo' \in Seq(RouteType)
    /\ Len(iRouteInfo') = Len(iRouteInfo)
    /\ \A i \in 1 .. Len(iRouteInfo) :
          /\ iRouteInfo'[i].fd = iRouteInfo[i].fd /\ iRouteInfo'[i].port = iRouteInfo[i].port
          /\ \A p \in Dests : iRouteInfo'[i].out[p] <= iRouteInfo[i].out[p]

LEMMA EraseThins ==
    ASSUME iRouteInfo \in Seq(RouteType), NEW to \in OutPorts, iRouteInfo' = EraseEverywhere(to)
    PROVE  Thinned
<1>1. iRouteInfo' = [i \in 1 .. Len(iRouteInfo) |-> WithoutOne(iRouteInfo[i], to)]
  BY DEF EraseEverywhere
<1>2. Len(iRouteInfo) \in Nat
  BY LenProperties
<1>3. \A i \in 1 .. Len(iRouteInfo) : iRouteInfo[i] \in RouteType
  BY ElementOfSeq
<1>4. \A i \in 1 .. Len(iRouteInfo) :
         /\ iRouteInfo'[i] \in RouteType
         /\ iRouteInfo'[i].fd = iRouteInfo[i].fd /\ iRouteInfo'[i].port = iRouteInfo[i].port
         /\ \A p \in Dests : iRouteInfo'[i].out[p] <= iRouteInfo[i].out[p]
  BY <1>1, <1>3, WithoutOneThins
<1>5. iRouteInfo' \in [1 .. Len(iRouteInfo) -> RouteType]
  BY <1>1, <1>4
<1> QED BY <1>2, <1>4, <1>5 DEF Thinned

LEMMA RemoveThins ==
    ASSUME iRouteInfo \in Seq(RouteType), NEW to \in OutPorts, NEW k \in 1 .. Len(iRouteInfo),
           iRouteInfo' = [iRouteInfo EXCEPT ![k] = WithoutOne(iRouteInfo[k], to)]
    PROVE  Thinned
<1>1. iRouteInfo[k] \in RouteType
  BY ElementOfSeq
<1> DEFINE r == WithoutOne(iRouteInfo[k], to)
<1>2. /\ r \in RouteType /\ r.fd = iRouteInfo[k].fd /\ r.port = iRouteInfo[k].port
      /\ \A p \in Dests : r.out[p] <= iRouteInfo[k].out[p]
  BY <1>1, WithoutOneThins
<1> HIDE DEF r
<1>3. /\ iRouteInfo' \in Seq(RouteType) /\ Len(iRouteInfo') = Len(iRouteInfo)
      /\ \A j \in 1 .. Len(iRouteInfo) : iRouteInfo'[j] = IF j = k THEN r ELSE iRouteInfo[j]
  BY <1>2, ExceptSeq DEF r
<1>4. \A j \in 1 .. Len(iRouteInfo), p \in Dests : iRouteInfo[j].out[p] \in Nat
  <2> TAKE j \in 1 .. Len(iRouteInfo), p \in Dests
  <2>1. iRouteInfo[j] \in RouteType
    BY ElementOfSeq
  <2> QED BY <2>1 DEF RouteType
<1>5. ASSUME NEW i \in 1 .. Len(iRouteInfo)
      PROVE  /\ iRouteInfo'[i].fd = iRouteInfo[i].fd /\ iRouteInfo'[i].port = iRouteInfo[i].port
             /\ \A p \in Dests : iRouteInfo'[i].out[p] <= iRouteInfo[i].out[p]
  <2>1. CASE i = k BY <1>2, <1>3, <2>1
  <2>2. CASE i /= k BY <1>3, <1>4, <2>2
  <2> QED BY <2>1, <2>2
<1> QED BY <1>3, <1>5 DEF Thinned

\* The new route of addRoute, or one outbound socket more in a known one.
LEMMA AddRouteTable ==
    ASSUME TypeInv, NEW c \in Controllers, AddRoute(c)
    PROVE  /\ iRouteInfo' \in Seq(RouteType)
           /\ \/ /\ \A i \in 1 .. Len(iRouteInfo) : iRouteInfo[i].fd /= call[c].fd
                 /\ Len(iRouteInfo') = Len(iRouteInfo) + 1
                 /\ \A i \in 1 .. Len(iRouteInfo) : iRouteInfo'[i] = iRouteInfo[i]
                 /\ iRouteInfo'[Len(iRouteInfo) + 1] =
                       [fd |-> call[c].fd, port |-> call[c].port,
                        out |-> [p \in Dests |-> IF p = call[c].to THEN 1 ELSE 0]]
              \/ \E k \in 1 .. Len(iRouteInfo) :
                    /\ iRouteInfo[k].fd = call[c].fd
                    /\ Len(iRouteInfo') = Len(iRouteInfo)
                    /\ \A i \in 1 .. Len(iRouteInfo) : i /= k => iRouteInfo'[i] = iRouteInfo[i]
                    /\ iRouteInfo'[k].fd = iRouteInfo[k].fd
                    /\ iRouteInfo'[k].port = iRouteInfo[k].port
                    /\ \A p \in Dests : iRouteInfo'[k].out[p] =
                          IF p = call[c].to THEN iRouteInfo[k].out[p] + 1 ELSE iRouteInfo[k].out[p]
<1> DEFINE known == SelectInSeq(iRouteInfo, LAMBDA r : r.fd = call[c].fd)
           new == [fd |-> call[c].fd, port |-> call[c].port,
                   out |-> [p \in Dests |-> IF p = call[c].to THEN 1 ELSE 0]]
<1>1. iRouteInfo \in Seq(RouteType) /\ call[c].busy /\ call[c] \in CallType
  BY DEF TypeInv, AddRoute
<1>2. call[c].fd \in Fds /\ call[c].port \in Ports /\ call[c].to \in Dests
  <2>1. call[c] /= NoCall
    BY <1>1 DEF NoCall
  <2> QED BY <1>1, <2>1 DEF CallType
<1>3. /\ known \in 0 .. Len(iRouteInfo)
      /\ known /= 0 => iRouteInfo[known].fd = call[c].fd
      /\ known = 0 => \A i \in 1 .. Len(iRouteInfo) : iRouteInfo[i].fd /= call[c].fd
  BY <1>1, KnownFinds
<1>4. iRouteInfo' = IF known = 0 THEN Append(iRouteInfo, new)
                    ELSE [iRouteInfo EXCEPT ![known].out[call[c].to] = @ + 1]
  BY DEF AddRoute, Dests
<1>5. new \in RouteType
  BY <1>2 DEF RouteType
<1>6. Len(iRouteInfo) \in Nat
  BY <1>1, LenProperties
<1> HIDE DEF known
<1>7. CASE known = 0
  <2>1. iRouteInfo' = Append(iRouteInfo, new)
    BY <1>4, <1>7
  <2>2. /\ iRouteInfo' \in Seq(RouteType) /\ Len(iRouteInfo') = Len(iRouteInfo) + 1
        /\ \A i \in 1 .. Len(iRouteInfo) : iRouteInfo'[i] = iRouteInfo[i]
        /\ iRouteInfo'[Len(iRouteInfo) + 1] = new
    <3> HIDE DEF new
    <3> QED BY <1>1, <1>5, <2>1, AppendProperties
  <2> QED BY <1>3, <1>7, <2>2
<1>8. CASE known /= 0
  <2> DEFINE old == iRouteInfo[known]
             out == [old.out EXCEPT ![call[c].to] = old.out[call[c].to] + 1]
             r == [old EXCEPT !.out = out]
  <2>1. known \in 1 .. Len(iRouteInfo)
    BY <1>3, <1>6, <1>8
  <2>2. old \in RouteType
    BY <1>1, <2>1, ElementOfSeq
  <2>3. iRouteInfo' = [iRouteInfo EXCEPT ![known] = r]
    BY <1>4, <1>8, <2>1
  <2> HIDE DEF old
  <2>4. old.out \in [Dests -> Nat]
    BY <2>2 DEF RouteType
  <2>5. out \in [Dests -> Nat]
    <3>1. old.out[call[c].to] + 1 \in Nat
      BY <1>2, <2>4
    <3> QED BY <2>4, <3>1
  <2>6. \A p \in Dests : out[p] = IF p = call[c].to THEN old.out[p] + 1 ELSE old.out[p]
    BY <1>2, <2>4
  <2> HIDE DEF out
  <2>7. r \in RouteType /\ r.fd = old.fd /\ r.port = old.port /\ r.out = out
    BY <2>2, <2>5 DEF RouteType
  <2> HIDE DEF r
  <2>8. /\ iRouteInfo' \in Seq(RouteType) /\ Len(iRouteInfo') = Len(iRouteInfo)
        /\ \A j \in 1 .. Len(iRouteInfo) : iRouteInfo'[j] = IF j = known THEN r ELSE iRouteInfo[j]
    BY <1>1, <2>1, <2>3, <2>7, ExceptSeq
  <2> QED BY <1>3, <1>8, <2>1, <2>6, <2>7, <2>8 DEF old
<1> QED BY <1>7, <1>8

-----------------------------------------------------------------------------
(* Steps that leave the routes alone, but for outbound sockets             *)

LEMMA RouteTypes ==
    ASSUME NEW table \in Seq(RouteType), NEW i \in 1 .. Len(table)
    PROVE  /\ table[i].fd \in Fds /\ table[i].port \in InPorts \cup {Foreign, Unbound}
           /\ table[i].out \in [OutPorts \cup {Foreign} -> Nat]
<1>1. table[i] \in RouteType
  BY ElementOfSeq
<1> QED BY <1>1 DEF RouteType, Ports, Dests

LEMMA SameIsThinned == BaseInv /\ UNCHANGED iRouteInfo => Thinned
<1> SUFFICES ASSUME BaseInv, UNCHANGED iRouteInfo PROVE Thinned
  OBVIOUS
<1>1. iRouteInfo \in Seq(RouteType)
  BY DEF BaseInv, TypeInv
<1>2. \A i \in 1 .. Len(iRouteInfo) : iRouteInfo[i].out \in [Dests -> Nat]
  BY <1>1, RouteTypes DEF Dests
<1>3. \A i \in 1 .. Len(iRouteInfo), p \in Dests : iRouteInfo[i].out[p] <= iRouteInfo[i].out[p]
  BY <1>2
<1> QED BY <1>1, <1>3 DEF Thinned

LEMMA BaseKeeps ==
    ASSUME BaseInv, Thinned, UNCHANGED <<iFdConnection, iMaxSocketFd>>, TypeOK',
           call' \in [Controllers -> CallType],
           MaskClaim' => MaskClaim, thread' /= "none" => runs' >= 1,
           \A fd \in Open : fd \in Open' /\ inbound'[fd] = inbound[fd],
           \A c \in Controllers : call'[c].busy =>
              call'[c].fd \in Open' /\ inbound'[call'[c].fd] = call'[c].port
    PROVE  BaseInv'
<1>1. TypeInv'
  BY DEF TypeInv, Thinned
<1>2. SocketInv'
  BY DEF BaseInv, SocketInv, Thinned
<1>3. RouteFds' = RouteFds
  BY DEF RouteFds, Thinned
<1>4. MaskInv'
  BY <1>3 DEF BaseInv, MaskInv, MaskMatches
<1> QED BY <1>1, <1>2, <1>4 DEF BaseInv

\* The routes from the port, if any, are of this socket and do not have the
\* destination; a socket that is not bound has no route.
FreshFor(k) ==
    /\ k.port \in Clear => \A i \in 1 .. Len(iRouteInfo) : iRouteInfo[i].port = k.port =>
          iRouteInfo[i].fd = k.fd /\ iRouteInfo[i].out[k.to] = 0
    /\ k.port = Unbound => \A i \in 1 .. Len(iRouteInfo) : iRouteInfo[i].fd /= k.fd

\* Nobody else is busy with the port, or with the socket that is not bound.
AloneWith(c) ==
    \A d \in Controllers : call'[d].busy /\ d /= c =>
        /\ call'[c].port \in Clear' => call'[d].port /= call'[c].port
        /\ call'[c].port = Unbound \/ call'[d].port = Unbound => call'[d].fd /= call'[c].fd

LEMMA OneKeeps ==
    ASSUME BaseInv, OneInv, Thinned, TypeInv', overlapped \subseteq overlapped',
           \A c \in Controllers : call'[c] = call[c] \/ (FreshFor(call'[c]) /\ AloneWith(c))
    PROVE  OneInv'
<1>1. ASSUME NEW i \in 1 .. Len(iRouteInfo), NEW p \in Dests
      PROVE  /\ iRouteInfo'[i].out[p] \in Nat /\ iRouteInfo[i].out[p] \in Nat
             /\ iRouteInfo'[i].out[p] <= iRouteInfo[i].out[p]
  BY RouteTypes DEF Thinned, BaseInv, TypeInv, Dests
<1>2. Clear' \subseteq Clear
  BY DEF Clear
<1>3. OnceInv'
  <2>1. ASSUME NEW i \in 1 .. Len(iRouteInfo), NEW p \in OutPorts,
               iRouteInfo[i].port \notin overlapped'
        PROVE  iRouteInfo'[i].out[p] <= 1
    <3>1. p \in Dests
      BY DEF Dests
    <3>2. iRouteInfo[i].out[p] <= 1
      BY <2>1 DEF OneInv, OnceInv
    <3> QED BY <1>1, <3>1, <3>2
  <2>2. \A i, j \in 1 .. Len(iRouteInfo) :
           iRouteInfo[i].port = iRouteInfo[j].port /\ iRouteInfo[i].port \in Clear' => i = j
    BY <1>2 DEF OneInv, OnceInv
  <2> QED BY <2>1, <2>2 DEF OnceInv, Thinned
<1>4. \A c \in Controllers : call[c].busy => FreshFor(call[c])
  BY DEF OneInv, CallInv, FreshFor
<1>5. \A c \in Controllers : call'[c].busy => FreshFor(call'[c])
  BY <1>4
<1>6. ASSUME NEW c \in Controllers, call'[c].busy
      PROVE  /\ call'[c].port \in Clear' => \A i \in 1 .. Len(iRouteInfo') :
                   iRouteInfo'[i].port = call'[c].port =>
                      iRouteInfo'[i].fd = call'[c].fd /\ iRouteInfo'[i].out[call'[c].to] = 0
             /\ call'[c].port = Unbound =>
                   \A i \in 1 .. Len(iRouteInfo') : iRouteInfo'[i].fd /= call'[c].fd
  <2>1. call'[c].to \in Dests
    <3>1. call'[c] \in CallType /\ call'[c] /= NoCall
      BY <1>6 DEF TypeInv, NoCall
    <3> QED BY <3>1 DEF CallType
  <2>2. ASSUME call'[c].port \in Clear', NEW i \in 1 .. Len(iRouteInfo),
               iRouteInfo[i].port = call'[c].port
        PROVE  iRouteInfo[i].fd = call'[c].fd /\ iRouteInfo'[i].out[call'[c].to] = 0
    <3>1. iRouteInfo[i].fd = call'[c].fd /\ iRouteInfo[i].out[call'[c].to] = 0
      BY <1>2, <1>5, <1>6, <2>2 DEF FreshFor
    <3> QED BY <1>1, <2>1, <3>1
  <2> QED BY <1>5, <1>6, <2>2 DEF FreshFor, Thinned
<1>7. ASSUME NEW c \in Controllers, NEW d \in Controllers, call'[c].busy, call'[d].busy, d /= c
      PROVE  /\ call'[c].port \in Clear' => call'[d].port /= call'[c].port
             /\ call'[c].port = Unbound => call'[d].fd /= call'[c].fd
  <2>1. CASE AloneWith(c)
    BY <1>7, <2>1 DEF AloneWith
  <2>2. CASE AloneWith(d)
    BY <1>7, <2>2 DEF AloneWith
  <2>3. CASE call'[c] = call[c] /\ call'[d] = call[d]
    BY <1>2, <1>7, <2>3 DEF OneInv, CallInv
  <2> QED BY <2>1, <2>2, <2>3
<1>8. CallInv'
  BY <1>6, <1>7 DEF CallInv
<1> QED BY <1>3, <1>8 DEF OneInv

QuietStep ==
    \/ \E fd \in Fds : Arrive(fd)
    \/ RepeatStep
    \/ SpuriousWakeup
    \/ Run
    \/ StopNotify
    \/ StopFlag
    \/ UNCHANGED vars

LEMMA QuietKeeps ==
    ASSUME BaseInv, QuietStep
    PROVE  BaseInv' /\ (OneInv => OneInv')
<1> USE RepeaterAssumption
<1>1. UNCHANGED <<iRouteInfo, iFdConnection, iMaxSocketFd, inbound, call, overlapped>>
  BY DEF QuietStep, Arrive, RepeatStep, RepeatCheck, RepeatWait, RepeatSelect, SelectFails,
         SelectTimeout, SelectReturns, Deliver, SpuriousWakeup, Run, StopNotify, StopFlag, vars,
         tableVars
<1>2. thread \in ThreadState /\ runs \in 0 .. MaxRuns /\ mask \subseteq Fds /\ pending \subseteq Open
      /\ iFdConnection \subseteq Fds /\ owner \in OwnerState /\ (iForceStop => owner = "join")
      /\ iForceStop \in BOOLEAN
  BY DEF BaseInv, TypeInv, TypeOK
<1>3. /\ thread' \in ThreadState
      /\ \/ runs' = runs /\ (thread' = "none" <=> thread = "none")
         \/ runs' = runs + 1 /\ runs < MaxRuns /\ thread = "none"
  BY <1>2 DEF QuietStep, Arrive, RepeatStep, RepeatCheck, RepeatWait, RepeatSelect, SelectFails,
              SelectTimeout, SelectReturns, Deliver, SpuriousWakeup, Run, StopNotify, StopFlag,
              vars, NotifyOne, ThreadState, threadVars, ownerVars
<1>4. mask' \subseteq Fds /\ pending' \subseteq Open
  <2>1. mask' \in {mask, iFdConnection, {}, mask \cap pending}
    BY DEF QuietStep, Arrive, RepeatStep, RepeatCheck, RepeatWait, RepeatSelect, SelectFails,
           SelectTimeout, SelectReturns, Deliver, SpuriousWakeup, Run, StopNotify, StopFlag,
           vars, threadVars
  <2>2. \A fd \in pending' : fd \in pending \cup Open
    BY DEF QuietStep, Arrive, RepeatStep, RepeatCheck, RepeatWait, RepeatSelect, SelectFails,
           SelectTimeout, SelectReturns, Deliver, SpuriousWakeup, Run, StopNotify, StopFlag, vars
  <2> QED BY <1>2, <2>1, <2>2
<1>5. owner' \in OwnerState /\ iForceStop' \in BOOLEAN /\ (iForceStop' => owner' = "join")
  <2>1. \/ UNCHANGED <<owner, iForceStop>>
        \/ owner = "idle" /\ owner' = "flag" /\ UNCHANGED iForceStop
        \/ owner' = "join" /\ iForceStop' = TRUE
    BY DEF QuietStep, Arrive, RepeatStep, RepeatCheck, RepeatWait, RepeatSelect, SelectFails,
           SelectTimeout, SelectReturns, Deliver, SpuriousWakeup, Run, StopNotify, StopFlag,
           vars, ownerVars
  <2>2. CASE UNCHANGED <<owner, iForceStop>>
    BY <1>2, <2>2
  <2>3. CASE owner = "idle" /\ owner' = "flag" /\ UNCHANGED iForceStop
    <3>1. iForceStop = FALSE
      BY <1>2, <2>3
    <3> QED BY <2>3, <3>1 DEF OwnerState
  <2>4. CASE owner' = "join" /\ iForceStop' = TRUE
    BY <2>4 DEF OwnerState
  <2> QED BY <2>1, <2>2, <2>3, <2>4
<1>6. runs' \in 0 .. MaxRuns
  BY <1>2, <1>3
<1>7. TypeOK'
  BY <1>1, <1>3, <1>4, <1>5, <1>6 DEF BaseInv, TypeInv, TypeOK, Open
<1>8. Thinned
  BY <1>1, SameIsThinned
<1>9. (MaskClaim' => MaskClaim) /\ (thread' /= "none" => runs' >= 1)
  BY <1>2, <1>3 DEF MaskClaim, BaseInv, MaskInv
<1>10. BaseInv'
  <2>1. call' \in [Controllers -> CallType]
    BY <1>1 DEF BaseInv, TypeInv
  <2>2. \A fd \in Open : fd \in Open' /\ inbound'[fd] = inbound[fd]
    BY <1>1 DEF Open
  <2>3. \A c \in Controllers : call'[c].busy =>
           call'[c].fd \in Open' /\ inbound'[call'[c].fd] = call'[c].port
    BY <1>1, <2>2 DEF BaseInv, SocketInv
  <2> QED BY <1>1, <1>7, <1>8, <1>9, <2>1, <2>2, <2>3, BaseKeeps
<1>11. ASSUME OneInv PROVE OneInv'
  BY <1>1, <1>8, <1>10, <1>11, OneKeeps DEF BaseInv
<1> QED BY <1>10, <1>11

-----------------------------------------------------------------------------
(* The controllers                                                         *)

LEMMA RemoveKeeps ==
    ASSUME BaseInv, NEW c \in Controllers, NEW from \in InPorts, NEW to \in OutPorts,
           RemoveLocalRoute(c, from, to)
    PROVE  BaseInv' /\ (OneInv => OneInv')
<1> DEFINE k == RouteFrom(from)
<1>1. /\ k /= 0 /\ iRouteInfo' = [iRouteInfo EXCEPT ![k] = WithoutOne(iRouteInfo[k], to)]
      /\ UNCHANGED <<iFdConnection, iMaxSocketFd, thread, mask, iForceStop, owner, runs, inbound,
                     pending, call, overlapped>>
  BY DEF RemoveLocalRoute, threadVars, ownerVars
<1>2. iRouteInfo \in Seq(RouteType)
  BY DEF BaseInv, TypeInv
<1>3. k \in 1 .. Len(iRouteInfo)
  BY <1>1, <1>2, RouteFromFinds, LenProperties
<1>4. Thinned
  BY <1>1, <1>2, <1>3, RemoveThins
<1>5. TypeOK'
  <2>1. \A i \in 1 .. Len(iRouteInfo') :
           /\ iRouteInfo'[i].fd \in Fds /\ iRouteInfo'[i].port \in InPorts \cup {Foreign, Unbound}
           /\ iRouteInfo'[i].out \in [OutPorts \cup {Foreign} -> Nat]
    BY <1>4, RouteTypes DEF Thinned
  <2> QED BY <1>1, <2>1 DEF BaseInv, TypeInv, TypeOK, Open
<1>6. BaseInv'
  <2>1. /\ \A fd \in Open : fd \in Open' /\ inbound'[fd] = inbound[fd]
        /\ \A d \in Controllers : call'[d].busy =>
              call'[d].fd \in Open' /\ inbound'[call'[d].fd] = call'[d].port
    BY <1>1 DEF Open, BaseInv, SocketInv
  <2>2. (MaskClaim' => MaskClaim) /\ (thread' /= "none" => runs' >= 1)
    BY <1>1 DEF MaskClaim, BaseInv, MaskInv
  <2>3. call' \in [Controllers -> CallType]
    BY <1>1 DEF BaseInv, TypeInv
  <2> QED BY <1>1, <1>4, <1>5, <2>1, <2>2, <2>3, BaseKeeps
<1>7. ASSUME OneInv PROVE OneInv'
  BY <1>1, <1>4, <1>6, <1>7, OneKeeps DEF BaseInv
<1> QED BY <1>6, <1>7

\* A call of addRoute begins, with a socket that is open or has just been opened.
LEMMA CallBegins ==
    ASSUME BaseInv, Thinned, NEW c \in Controllers, NEW fd \in Fds, NEW port \in Ports, NEW to \in Dests,
           port = Foreign => to = Foreign, ~call[c].busy,
           overlapped \subseteq overlapped', overlapped' \subseteq InPorts,
           port \in Clear' => \A d \in Controllers : call[d].busy => call[d].port /= port,
           call' = [call EXCEPT ![c] = [busy |-> TRUE, fd |-> fd, port |-> port, to |-> to]],
           \/ UNCHANGED inbound /\ fd \in Open /\ inbound[fd] = port /\ port /= Unbound
           \/ NewSocket(fd, port) /\ fd \notin Open,
           UNCHANGED <<iFdConnection, iMaxSocketFd, threadVars, ownerVars, pending>>
    PROVE  /\ BaseInv'
           /\ OneInv /\ FreshFor([busy |-> TRUE, fd |-> fd, port |-> port, to |-> to]) => OneInv'
<1> DEFINE k == [busy |-> TRUE, fd |-> fd, port |-> port, to |-> to]
<1>1. UNCHANGED <<thread, mask, iForceStop, owner, runs>>
  BY DEF threadVars, ownerVars
<1>2. call \in [Controllers -> CallType] /\ k \in CallType
  BY DEF BaseInv, TypeInv, CallType
<1>3. call'[c] = k /\ \A d \in Controllers \ {c} : call'[d] = call[d]
  BY <1>2
<1>4. k.busy /\ k.fd = fd /\ k.port = port /\ k.to = to
  OBVIOUS
<1> HIDE DEF k
<1>5. call' \in [Controllers -> CallType]
  BY <1>2 DEF k
<1>6. /\ fd \in Open' /\ inbound'[fd] = port
      /\ \A f \in Open : f \in Open' /\ inbound'[f] = inbound[f]
      /\ Open' \subseteq Open \cup {fd}
  BY DEF NewSocket, Open
<1>7. TypeOK'
  <2>1. \A i \in 1 .. Len(iRouteInfo') :
           /\ iRouteInfo'[i].fd \in Fds /\ iRouteInfo'[i].port \in InPorts \cup {Foreign, Unbound}
           /\ iRouteInfo'[i].out \in [OutPorts \cup {Foreign} -> Nat]
    BY RouteTypes DEF Thinned
  <2>2. Open' \subseteq Fds /\ pending' \subseteq Open'
    BY <1>6 DEF BaseInv, TypeInv, TypeOK
  <2> QED BY <1>1, <2>1, <2>2 DEF BaseInv, TypeInv, TypeOK
<1>8. BaseInv'
  <2>1. \A d \in Controllers : call'[d].busy =>
              call'[d].fd \in Open' /\ inbound'[call'[d].fd] = call'[d].port
    BY <1>3, <1>4, <1>6 DEF BaseInv, SocketInv
  <2>2. (MaskClaim' => MaskClaim) /\ (thread' /= "none" => runs' >= 1)
    BY <1>1 DEF MaskClaim, BaseInv, MaskInv
  <2> QED BY <1>5, <1>6, <1>7, <2>1, <2>2, BaseKeeps
<1>9. ASSUME OneInv, FreshFor(k) PROVE OneInv'
  <2>1. AloneWith(c)
    <3>1. ASSUME NEW d \in Controllers, call'[d].busy, d /= c
          PROVE  call'[d] = call[d] /\ call[d].fd \in Open /\ inbound[call[d].fd] = call[d].port
      BY <1>3, <3>1 DEF BaseInv, SocketInv
    <3>2. ASSUME NEW d \in Controllers, call'[d].busy, d /= c, port = Unbound \/ call[d].port = Unbound
          PROVE  call[d].fd /= fd
      <4>1. CASE fd \notin Open
        BY <3>1, <3>2, <4>1
      <4>2. CASE inbound[fd] = port /\ port /= Unbound
        BY <3>1, <3>2, <4>2
      <4> QED BY <4>1, <4>2
    <3> QED BY <1>3, <1>4, <3>1, <3>2 DEF AloneWith
  <2>2. \A d \in Controllers : call'[d] = call[d] \/ (FreshFor(call'[d]) /\ AloneWith(d))
    BY <1>3, <1>9, <2>1
  <2> QED BY <1>8, <1>9, <2>2, OneKeeps DEF BaseInv
<1> QED BY <1>8, <1>9 DEF k

\* Two calls that are busy with one port at once are noted.
LEMMA OverlapNoted ==
    ASSUME TypeInv, NEW from \in InPorts, NoteOverlap(from)
    PROVE  /\ overlapped \subseteq overlapped' /\ overlapped' \subseteq InPorts
           /\ from \in Clear' => \A d \in Controllers : call[d].busy => call[d].port /= from
<1>1. overlapped \subseteq InPorts
  BY DEF TypeInv, TypeOK
<1> QED BY <1>1 DEF NoteOverlap, Clear

LEMMA AddNewKeeps ==
    ASSUME BaseInv, NEW c \in Controllers, NEW from \in InPorts, NEW to \in OutPorts,
           AddLocalRouteNew(c, from, to)
    PROVE  BaseInv' /\ (OneInv => OneInv')
<1>1. iRouteInfo \in Seq(RouteType) /\ TypeInv
  BY DEF BaseInv, TypeInv
<1>2. PICK fd \in Fds \ Open, port \in {from, Unbound} :
         /\ NewSocket(fd, port)
         /\ call' = [call EXCEPT ![c] = [busy |-> TRUE, fd |-> fd, port |-> port, to |-> to]]
  BY DEF AddLocalRouteNew
<1>3. Thinned
  BY <1>1, EraseThins DEF AddLocalRouteNew
<1>4. /\ from /= Foreign /\ from \in Ports /\ to \in Dests
      /\ port \in Ports /\ port /= Foreign /\ Unbound \notin InPorts
  BY RepeaterAssumption DEF Ports, Dests
<1>5. \A i \in 1 .. Len(iRouteInfo) : iRouteInfo[i].port /= from
  BY <1>1, <1>4, RouteFromFinds DEF AddLocalRouteNew
<1>6. UNCHANGED <<iFdConnection, iMaxSocketFd, threadVars, ownerVars, pending>> /\ ~call[c].busy
  BY DEF AddLocalRouteNew
<1>7. FreshFor([busy |-> TRUE, fd |-> fd, port |-> port, to |-> to])
  BY <1>4, <1>5 DEF FreshFor, BaseInv, SocketInv, Clear
<1>8. /\ overlapped \subseteq overlapped' /\ overlapped' \subseteq InPorts
      /\ port \in Clear' => \A d \in Controllers : call[d].busy => call[d].port /= port
  <2>1. /\ overlapped \subseteq overlapped' /\ overlapped' \subseteq InPorts
        /\ from \in Clear' => \A d \in Controllers : call[d].busy => call[d].port /= from
    BY <1>1, OverlapNoted DEF AddLocalRouteNew
  <2>2. Unbound \notin Clear'
    BY <1>4 DEF Clear
  <2> QED BY <2>1, <2>2
<1> QED BY <1>2, <1>3, <1>4, <1>6, <1>7, <1>8, CallBegins

LEMMA AddForeignKeeps ==
    ASSUME BaseInv, NEW c \in Controllers, AddForeignRoute(c)
    PROVE  BaseInv' /\ (OneInv => OneInv')
<1>1. PICK fd \in Fds \ Open :
         /\ NewSocket(fd, Foreign)
         /\ call' = [call EXCEPT ![c] = [busy |-> TRUE, fd |-> fd, port |-> Foreign, to |-> Foreign]]
  BY DEF AddForeignRoute
<1>2. Thinned
  BY SameIsThinned DEF AddForeignRoute, tableVars
<1>3. /\ UNCHANGED <<iFdConnection, iMaxSocketFd, threadVars, ownerVars, pending, overlapped>>
      /\ ~call[c].busy
  BY DEF AddForeignRoute, tableVars
<1>4. /\ Foreign \in Ports /\ Foreign \in Dests /\ Foreign \notin InPorts /\ Foreign /= Unbound
      /\ overlapped \subseteq InPorts
  BY RepeaterAssumption DEF Ports, Dests, BaseInv, TypeInv, TypeOK
<1>5. Foreign \notin Clear /\ Foreign \notin Clear'
  BY <1>4 DEF Clear
<1>6. FreshFor([busy |-> TRUE, fd |-> fd, port |-> Foreign, to |-> Foreign])
  BY <1>4, <1>5 DEF FreshFor
<1> QED BY <1>1, <1>2, <1>3, <1>4, <1>5, <1>6, CallBegins

LEMMA AddMoreKeeps ==
    ASSUME BaseInv, NEW c \in Controllers, NEW from \in InPorts, NEW to \in OutPorts,
           AddLocalRouteMore(c, from, to)
    PROVE  BaseInv' /\ (OneInv => OneInv')
<1> DEFINE k == RouteFrom(from)
           fd == iRouteInfo[k].fd
<1>1. /\ k /= 0 /\ iRouteInfo[k].out[to] = 0 /\ ~call[c].busy /\ NoteOverlap(from)
      /\ call' = [call EXCEPT ![c] = [busy |-> TRUE, fd |-> fd, port |-> from, to |-> to]]
      /\ UNCHANGED <<iRouteInfo, iFdConnection, iMaxSocketFd, threadVars, ownerVars, inbound, pending>>
  BY DEF AddLocalRouteMore, tableVars
<1>2. iRouteInfo \in Seq(RouteType) /\ TypeInv
  BY DEF BaseInv, TypeInv
<1>3. k \in 1 .. Len(iRouteInfo) /\ iRouteInfo[k].port = from /\ from /= Foreign /\ from /= Unbound
  BY <1>1, <1>2, RouteFromFinds, LenProperties, RepeaterAssumption
<1> HIDE DEF k
<1>4. fd \in Fds /\ fd \in Open /\ inbound[fd] = from
  BY <1>2, <1>3, RouteTypes DEF BaseInv, SocketInv
<1>5. from \in Ports /\ to \in Dests
  BY DEF Ports, Dests
<1>6. Thinned
  BY <1>1, SameIsThinned
\* Only the known route leads from the port, unless calls for it have overlapped.
<1>7. OneInv => FreshFor([busy |-> TRUE, fd |-> fd, port |-> from, to |-> to])
  BY <1>1, <1>3 DEF OneInv, OnceInv, FreshFor
<1>8. /\ UNCHANGED <<iFdConnection, iMaxSocketFd, threadVars, ownerVars, pending>>
      /\ UNCHANGED inbound
      /\ call' = [call EXCEPT ![c] = [busy |-> TRUE, fd |-> fd, port |-> from, to |-> to]]
  BY <1>1
<1>9. /\ overlapped \subseteq overlapped' /\ overlapped' \subseteq InPorts
      /\ from \in Clear' => \A d \in Controllers : call[d].busy => call[d].port /= from
  BY <1>1, <1>2, OverlapNoted
<1> HIDE DEF fd
<1> QED BY <1>1, <1>3, <1>4, <1>5, <1>6, <1>7, <1>8, <1>9, CallBegins

\* The greater of two numbers.
LEMMA MaxOfTwo ==
    ASSUME NEW a \in Nat, NEW b \in Nat
    PROVE  Max({a, b}) = IF a >= b THEN a ELSE b
<1> DEFINE m == IF a >= b THEN a ELSE b
<1>1. m \in {a, b} /\ \A y \in {a, b} : m >= y
  OBVIOUS
<1>2. \A x \in {a, b} : (\A y \in {a, b} : x >= y) => x = m
  OBVIOUS
<1> HIDE DEF m
<1>3. Max({a, b}) = m
  BY <1>1, <1>2 DEF Max
<1> QED BY <1>3 DEF m

LEMMA AddRouteBase ==
    ASSUME BaseInv, NEW c \in Controllers, AddRoute(c)
    PROVE  BaseInv'
<1> DEFINE fd == call[c].fd
<1>1. /\ call[c].busy /\ NotifyOne /\ iFdConnection' = iFdConnection \cup {fd}
      /\ iMaxSocketFd' = Max({iMaxSocketFd, fd}) /\ call' = [call EXCEPT ![c] = NoCall]
      /\ UNCHANGED <<mask, iForceStop, owner, runs, inbound, pending, overlapped>>
  BY DEF AddRoute, ownerVars
<1>2. /\ iRouteInfo \in Seq(RouteType) /\ call \in [Controllers -> CallType] /\ Len(iRouteInfo) \in Nat
      /\ TypeInv
  BY LenProperties DEF BaseInv, TypeInv
<1>3. call[c] /= NoCall /\ call[c] \in CallType
  BY <1>1, <1>2 DEF NoCall
<1>4. fd \in Fds /\ call[c].port \in Ports
  BY <1>3 DEF CallType
<1>5. fd \in Open /\ inbound[fd] = call[c].port
  BY <1>1 DEF BaseInv, SocketInv
<1>6. call' \in [Controllers -> CallType] /\ \A d \in Controllers : call'[d].busy => call'[d] = call[d]
  BY <1>2, <1>1 DEF CallType, NoCall
<1>7. Open' = Open /\ thread \in ThreadState
  BY <1>1, <1>2 DEF Open, TypeInv, TypeOK
<1>8. thread' \in ThreadState /\ (thread' = "none" <=> thread = "none")
  BY <1>1, <1>7 DEF NotifyOne, ThreadState
<1>9. /\ iMaxSocketFd \in 0 .. MaxFd /\ fd \in 1 .. MaxFd /\ MaxFd \in Nat
  BY <1>2, <1>4, RepeaterAssumption DEF TypeInv, TypeOK, Fds
<1>10. iMaxSocketFd' = IF iMaxSocketFd >= fd THEN iMaxSocketFd ELSE fd
  <2> HIDE DEF fd
  <2> QED BY <1>1, <1>9, MaxOfTwo
<1> HIDE DEF fd
<1>11. /\ iRouteInfo' \in Seq(RouteType)
       /\ Len(iRouteInfo') \in {Len(iRouteInfo), Len(iRouteInfo) + 1}
       /\ \A i \in 1 .. Len(iRouteInfo) :
             iRouteInfo'[i].fd = iRouteInfo[i].fd /\ iRouteInfo'[i].port = iRouteInfo[i].port
       /\ \/ /\ Len(iRouteInfo') = Len(iRouteInfo) + 1
             /\ \A i \in 1 .. Len(iRouteInfo) : iRouteInfo[i].fd /= fd
             /\ iRouteInfo'[Len(iRouteInfo) + 1].fd = fd
             /\ iRouteInfo'[Len(iRouteInfo) + 1].port = call[c].port
          \/ /\ Len(iRouteInfo') = Len(iRouteInfo)
             /\ \E i \in 1 .. Len(iRouteInfo) : iRouteInfo[i].fd = fd
  <2>1. CASE /\ \A i \in 1 .. Len(iRouteInfo) : iRouteInfo[i].fd /= call[c].fd
             /\ Len(iRouteInfo') = Len(iRouteInfo) + 1
             /\ \A i \in 1 .. Len(iRouteInfo) : iRouteInfo'[i] = iRouteInfo[i]
             /\ iRouteInfo'[Len(iRouteInfo) + 1] =
                   [fd |-> call[c].fd, port |-> call[c].port,
                    out |-> [p \in Dests |-> IF p = call[c].to THEN 1 ELSE 0]]
    <3>1. /\ iRouteInfo'[Len(iRouteInfo) + 1].fd = fd
          /\ iRouteInfo'[Len(iRouteInfo) + 1].port = call[c].port
      BY <2>1 DEF fd
    <3> QED BY <1>2, <2>1, <3>1, AddRouteTable DEF fd
  <2>2. ASSUME NEW k \in 1 .. Len(iRouteInfo),
               iRouteInfo[k].fd = call[c].fd,
               Len(iRouteInfo') = Len(iRouteInfo),
               \A i \in 1 .. Len(iRouteInfo) : i /= k => iRouteInfo'[i] = iRouteInfo[i],
               iRouteInfo'[k].fd = iRouteInfo[k].fd,
               iRouteInfo'[k].port = iRouteInfo[k].port
        PROVE  /\ Len(iRouteInfo') = Len(iRouteInfo)
               /\ \A i \in 1 .. Len(iRouteInfo) :
                     iRouteInfo'[i].fd = iRouteInfo[i].fd /\ iRouteInfo'[i].port = iRouteInfo[i].port
               /\ \E i \in 1 .. Len(iRouteInfo) : iRouteInfo[i].fd = fd
    BY <2>2 DEF fd
  <2>3. iRouteInfo' \in Seq(RouteType)
    BY <1>2, AddRouteTable
  <2> QED BY <1>2, <2>1, <2>2, <2>3, AddRouteTable
<1>12. TypeInv'
  <2>1. \A i \in 1 .. Len(iRouteInfo') :
           /\ iRouteInfo'[i].fd \in Fds /\ iRouteInfo'[i].port \in InPorts \cup {Foreign, Unbound}
           /\ iRouteInfo'[i].out \in [OutPorts \cup {Foreign} -> Nat]
    BY <1>11, RouteTypes
  <2>2. iFdConnection' \subseteq Fds /\ iMaxSocketFd' \in 0 .. MaxFd
    BY <1>1, <1>2, <1>4, <1>9, <1>10 DEF TypeInv, TypeOK
  <2>3. TypeOK'
    BY <1>1, <1>2, <1>7, <1>8, <2>1, <2>2 DEF TypeInv, TypeOK
  <2> QED BY <1>6, <1>11, <2>3 DEF TypeInv
<1>13. SocketInv'
  <2>1. \A d \in Controllers : call'[d].busy =>
           call'[d].fd \in Open' /\ inbound'[call'[d].fd] = call'[d].port
    BY <1>1, <1>6, <1>7 DEF BaseInv, SocketInv
  <2>2. \A i \in 1 .. Len(iRouteInfo') :
          /\ iRouteInfo'[i].fd \in Open'
          /\ inbound'[iRouteInfo'[i].fd] = iRouteInfo'[i].port
    BY <1>1, <1>2, <1>5, <1>7, <1>11 DEF BaseInv, SocketInv
  <2>3. \A i, j \in 1 .. Len(iRouteInfo') : iRouteInfo'[i].fd = iRouteInfo'[j].fd => i = j
    BY <1>2, <1>11 DEF BaseInv, SocketInv
  <2> QED BY <2>1, <2>2, <2>3 DEF SocketInv
<1>14. MaskInv'
  <2>1. RouteFds' = RouteFds \cup {fd}
    BY <1>2, <1>11 DEF RouteFds
  <2>2. RouteFds \subseteq Nat
    <3>1. \A i \in 1 .. Len(iRouteInfo) : iRouteInfo[i].fd \in Nat
      BY <1>2, RouteTypes DEF Fds
    <3> QED BY <3>1 DEF RouteFds
  <2>3. ASSUME MaskMatches PROVE MaskMatches'
    <3>1. CASE RouteFds = {}
      BY <1>1, <1>9, <1>10, <2>1, <2>3, <3>1 DEF MaskMatches
    <3>2. CASE RouteFds /= {}
      <4>1. /\ iMaxSocketFd \in RouteFds /\ \A f \in RouteFds : f <= iMaxSocketFd
            /\ iFdConnection = RouteFds
        BY <2>3, <3>2 DEF MaskMatches
      <4>2. iMaxSocketFd' \in RouteFds \cup {fd}
        BY <1>10, <4>1
      <4>3. \A f \in RouteFds \cup {fd} : f <= iMaxSocketFd'
        BY <1>9, <1>10, <2>2, <4>1
      <4> QED BY <1>1, <2>1, <4>1, <4>2, <4>3 DEF MaskMatches
    <3> QED BY <3>1, <3>2
  <2> QED BY <1>1, <1>8, <2>3 DEF BaseInv, MaskInv, MaskClaim
<1> QED BY <1>12, <1>13, <1>14 DEF BaseInv

\* For a clear port nobody else is in the middle of a call.
LEMMA AddRouteOne ==
    ASSUME BaseInv, OneInv, NEW c \in Controllers, AddRoute(c)
    PROVE  OneInv'
<1> DEFINE to == call[c].to
<1>1. call[c].busy /\ call' = [call EXCEPT ![c] = NoCall] /\ UNCHANGED overlapped
  BY DEF AddRoute
<1>2. /\ iRouteInfo \in Seq(RouteType) /\ call \in [Controllers -> CallType] /\ Len(iRouteInfo) \in Nat
      /\ TypeInv
  BY LenProperties DEF BaseInv, TypeInv
<1>3. Clear' = Clear /\ \A d \in Controllers : call'[d].busy => d /= c /\ call'[d] = call[d]
  BY <1>1, <1>2 DEF NoCall, Clear
<1>4. call[c] \in CallType /\ call[c] /= NoCall
  BY <1>1, <1>2 DEF NoCall
<1>5. /\ to \in Dests /\ (call[c].port = Foreign => to = Foreign) /\ call[c].port \in Ports
      /\ Foreign \notin OutPorts /\ OutPorts \subseteq Dests
  BY <1>4, RepeaterAssumption DEF CallType, Dests
<1>6. /\ \A i, j \in 1 .. Len(iRouteInfo) :
            iRouteInfo[i].port = iRouteInfo[j].port /\ iRouteInfo[i].port \in Clear => i = j
      /\ \A i \in 1 .. Len(iRouteInfo), p \in OutPorts :
            iRouteInfo[i].port \notin overlapped => iRouteInfo[i].out[p] <= 1
  BY DEF OneInv, OnceInv
<1>7. /\ call[c].port \in Clear => \A i \in 1 .. Len(iRouteInfo) :
            iRouteInfo[i].port = call[c].port =>
               iRouteInfo[i].fd = call[c].fd /\ iRouteInfo[i].out[to] = 0
      /\ call[c].port = Unbound => \A i \in 1 .. Len(iRouteInfo) : iRouteInfo[i].fd /= call[c].fd
  BY <1>1 DEF OneInv, CallInv
\* The other calls are for other ports and sockets, or for ports with no claim.
<1>8. ASSUME NEW d \in Controllers, call'[d].busy
      PROVE  /\ call[d].busy /\ call'[d] = call[d] /\ d /= c
             /\ call[d].port \in Clear => call[c].port /= call[d].port
             /\ call[d].port = Unbound => call[c].fd /= call[d].fd
             /\ call[d].port \in Clear => \A i \in 1 .. Len(iRouteInfo) :
                   iRouteInfo[i].port = call[d].port =>
                      iRouteInfo[i].fd = call[d].fd /\ iRouteInfo[i].out[call[d].to] = 0
             /\ call[d].port = Unbound => \A i \in 1 .. Len(iRouteInfo) : iRouteInfo[i].fd /= call[d].fd
             /\ \A e \in Controllers : call'[e].busy =>
                   /\ call[d].port \in Clear /\ call'[e].port = call[d].port => e = d
                   /\ call[d].port = Unbound /\ call'[e].fd = call[d].fd => e = d
  <2>1. call[d].busy /\ call'[d] = call[d] /\ d /= c
    BY <1>3, <1>8
  <2> QED BY <1>1, <1>3, <2>1 DEF OneInv, CallInv
<1> HIDE DEF to
<1>9. CASE /\ \A i \in 1 .. Len(iRouteInfo) : iRouteInfo[i].fd /= call[c].fd
           /\ Len(iRouteInfo') = Len(iRouteInfo) + 1
           /\ \A i \in 1 .. Len(iRouteInfo) : iRouteInfo'[i] = iRouteInfo[i]
           /\ iRouteInfo'[Len(iRouteInfo) + 1] =
                 [fd |-> call[c].fd, port |-> call[c].port,
                  out |-> [p \in Dests |-> IF p = to THEN 1 ELSE 0]]
  <2> DEFINE new == Len(iRouteInfo) + 1
  <2>1. call[c].port \in Clear => \A i \in 1 .. Len(iRouteInfo) : iRouteInfo[i].port /= call[c].port
    BY <1>7, <1>9
  <2>2. iRouteInfo'[new].port = call[c].port /\ iRouteInfo'[new].fd = call[c].fd
    BY <1>9
  <2>3. \A p \in OutPorts : iRouteInfo'[new].out[p] <= 1
    BY <1>5, <1>9
  <2>4. \A i \in 1 .. Len(iRouteInfo') : i \in 1 .. Len(iRouteInfo) \/ i = new
    BY <1>2, <1>9
  <2>5. \A i, j \in 1 .. Len(iRouteInfo') :
           iRouteInfo'[i].port = iRouteInfo'[j].port /\ iRouteInfo'[i].port \in Clear => i = j
    BY <1>6, <1>9, <2>1, <2>2, <2>4
  <2>6. \A i \in 1 .. Len(iRouteInfo'), p \in OutPorts :
           iRouteInfo'[i].port \notin overlapped => iRouteInfo'[i].out[p] <= 1
    BY <1>6, <1>9, <2>3, <2>4
  <2>7. CallInv'
    <3>1. ASSUME NEW d \in Controllers, call'[d].busy, NEW i \in 1 .. Len(iRouteInfo')
          PROVE  /\ call[d].port \in Clear /\ iRouteInfo'[i].port = call[d].port =>
                       iRouteInfo'[i].fd = call[d].fd /\ iRouteInfo'[i].out[call[d].to] = 0
                 /\ call[d].port = Unbound => iRouteInfo'[i].fd /= call[d].fd
      <4>1. CASE i \in 1 .. Len(iRouteInfo)
        BY <1>8, <1>9, <3>1, <4>1
      <4>2. CASE i = new
        BY <1>8, <2>2, <3>1, <4>2
      <4> QED BY <2>4, <4>1, <4>2
    <3> QED BY <1>3, <1>8, <3>1 DEF CallInv
  <2> QED BY <1>1, <1>3, <2>5, <2>6, <2>7 DEF OneInv, OnceInv
<1>10. ASSUME NEW k \in 1 .. Len(iRouteInfo),
             iRouteInfo[k].fd = call[c].fd,
             Len(iRouteInfo') = Len(iRouteInfo),
             \A i \in 1 .. Len(iRouteInfo) : i /= k => iRouteInfo'[i] = iRouteInfo[i],
             iRouteInfo'[k].fd = iRouteInfo[k].fd,
             iRouteInfo'[k].port = iRouteInfo[k].port,
             \A p \in Dests : iRouteInfo'[k].out[p] =
                IF p = to THEN iRouteInfo[k].out[p] + 1 ELSE iRouteInfo[k].out[p]
      PROVE  OneInv'
  <2>1. iRouteInfo[k].port = call[c].port /\ call[c].port /= Unbound
    BY <1>1, <1>7, <1>10 DEF BaseInv, SocketInv
  <2>2. ASSUME NEW p \in OutPorts, call[c].port \notin overlapped PROVE iRouteInfo'[k].out[p] <= 1
    <3>1. CASE p = to
      <4>1. call[c].port \in Clear
        BY <1>5, <2>1, <2>2, <3>1 DEF Ports, Clear
      <4>2. iRouteInfo[k].out[p] = 0
        BY <1>7, <2>1, <3>1, <4>1
      <4> QED BY <1>5, <1>10, <3>1, <4>2
    <3>2. CASE p /= to
      BY <1>5, <1>6, <1>10, <2>1, <2>2, <3>2
    <3> QED BY <3>1, <3>2
  <2>3. \A i \in 1 .. Len(iRouteInfo) :
           iRouteInfo'[i].port = iRouteInfo[i].port /\ iRouteInfo'[i].fd = iRouteInfo[i].fd
    BY <1>10
  <2>4. \A i \in 1 .. Len(iRouteInfo'), p \in OutPorts :
           iRouteInfo'[i].port \notin overlapped => iRouteInfo'[i].out[p] <= 1
    BY <1>6, <1>10, <2>1, <2>2
  <2>5. \A i, j \in 1 .. Len(iRouteInfo') :
           iRouteInfo'[i].port = iRouteInfo'[j].port /\ iRouteInfo'[i].port \in Clear => i = j
    BY <1>6, <1>10, <2>3
  <2>6. CallInv'
    <3>1. ASSUME NEW d \in Controllers, call'[d].busy, NEW i \in 1 .. Len(iRouteInfo')
          PROVE  /\ call[d].port \in Clear /\ iRouteInfo'[i].port = call[d].port =>
                       iRouteInfo'[i].fd = call[d].fd /\ iRouteInfo'[i].out[call[d].to] = 0
                 /\ call[d].port = Unbound => iRouteInfo'[i].fd /= call[d].fd
      <4>1. CASE i /= k
        BY <1>8, <1>10, <3>1, <4>1
      <4>2. CASE i = k
        BY <1>8, <1>10, <2>1, <3>1, <4>2
      <4> QED BY <4>1, <4>2
    <3> QED BY <1>3, <1>8, <3>1 DEF CallInv
  <2> QED BY <1>1, <1>3, <2>4, <2>5, <2>6 DEF OneInv, OnceInv
<1> QED BY <1>2, <1>9, <1>10, AddRouteTable DEF to

\* The table is gone, and with it what the mask should be.
LEMMA JoinKeeps ==
    ASSUME BaseInv, StopJoin
    PROVE  BaseInv' /\ (OneInv => OneInv')
<1> DEFINE busy == {call[c].fd : c \in {d \in Controllers : call[d].busy}}
<1>1. /\ thread = "exited" /\ thread' = "none" /\ iForceStop' = FALSE /\ iRouteInfo' = << >>
      /\ inbound' = [f \in busy |-> inbound[f]] /\ pending' = pending \cap DOMAIN inbound'
      /\ owner' = "idle" /\ UNCHANGED <<iFdConnection, iMaxSocketFd, mask, runs, call, overlapped>>
  BY DEF StopJoin
<1>2. busy \subseteq Open
  BY DEF BaseInv, SocketInv
<1> HIDE DEF busy
<1>3. Open' = busy /\ \A f \in busy : inbound'[f] = inbound[f]
  BY <1>1 DEF Open
<1>4. 1 .. Len(iRouteInfo') = {} /\ iRouteInfo' \in Seq(RouteType)
  BY <1>1
<1>5. runs >= 1 /\ runs \in Nat
  BY <1>1, RepeaterAssumption DEF BaseInv, MaskInv, TypeInv, TypeOK
<1>6. TypeInv'
  <2>1. /\ thread' \in ThreadState /\ owner' \in OwnerState /\ iForceStop' \in BOOLEAN
        /\ (iForceStop' => owner' = "join") /\ pending' \subseteq Open'
    BY <1>1 DEF ThreadState, OwnerState, Open
  <2>2. Open' \subseteq Fds
    BY <1>2, <1>3 DEF BaseInv, TypeInv, TypeOK
  <2>3. TypeOK'
    BY <1>1, <1>4, <2>1, <2>2 DEF BaseInv, TypeInv, TypeOK
  <2> QED BY <1>1, <1>4, <2>3 DEF BaseInv, TypeInv
<1>7. SocketInv'
  <2>1. \A c \in Controllers : call'[c].busy =>
           call'[c].fd \in Open' /\ inbound'[call'[c].fd] = call'[c].port
    BY <1>1, <1>3 DEF BaseInv, SocketInv, busy
  <2> QED BY <1>4, <2>1 DEF SocketInv
<1>8. MaskInv'
  BY <1>1, <1>5 DEF MaskInv, MaskClaim
<1>9. ASSUME OneInv PROVE OneInv'
  BY <1>1, <1>4, <1>9 DEF OneInv, CallInv, OnceInv, Clear
<1> QED BY <1>6, <1>7, <1>8, <1>9 DEF BaseInv

-----------------------------------------------------------------------------
(* The theorems                                                            *)

LEMMA NextKeeps ==
    ASSUME BaseInv, [Next]_vars
    PROVE  /\ BaseInv'
           /\ OneInv => OneInv'
<1>1. CASE QuietStep
  BY <1>1, QuietKeeps
<1>2. CASE StopJoin
  BY <1>2, JoinKeeps
<1>3. ASSUME NEW c \in Controllers, AddRoute(c)
      PROVE  BaseInv' /\ (OneInv => OneInv')
  BY <1>3, AddRouteBase, AddRouteOne
<1>4. ASSUME NEW c \in Controllers, AddForeignRoute(c) PROVE BaseInv' /\ (OneInv => OneInv')
  BY <1>4, AddForeignKeeps
<1>5. ASSUME NEW c \in Controllers, NEW from \in InPorts, NEW to \in OutPorts,
             \/ AddLocalRouteKnown(c, from, to)
             \/ AddLocalRouteMore(c, from, to)
             \/ AddLocalRouteNew(c, from, to)
             \/ RemoveLocalRoute(c, from, to)
      PROVE  BaseInv' /\ (OneInv => OneInv')
  <2>1. CASE AddLocalRouteKnown(c, from, to)
    BY <2>1, QuietKeeps DEF AddLocalRouteKnown, QuietStep
  <2> QED BY <1>5, <2>1, AddMoreKeeps, AddNewKeeps, RemoveKeeps
<1> QED BY <1>1, <1>2, <1>3, <1>4, <1>5 DEF Next, StopStep, QuietStep

LEMMA SpecBase == Spec => []BaseInv
<1>1. BaseInv /\ [Next]_vars => BaseInv'
  BY NextKeeps
<1> QED BY <1>1, InvInit, PTL DEF Spec

\* The mask given to select is exactly the inbound sockets of the table, and its
\* width their highest descriptor, from the first route to the first stop, whatever
\* any number of threads do to the routes meanwhile.
THEOREM MaskIsTable == Spec => []MaskMatchesTable
<1>1. ASSUME BaseInv PROVE MaskMatchesTable
  <2> SUFFICES ASSUME MaskClaim PROVE /\ iFdConnection = RouteFds
                                      /\ RouteFds \subseteq Open
                                      /\ iMaxSocketFd = (IF RouteFds = {} THEN 0 ELSE Max(RouteFds))
    BY DEF MaskMatchesTable, MaskClaim
  <2>1. MaskMatches /\ RouteFds \subseteq Open
    BY <1>1 DEF BaseInv, MaskInv, SocketInv, RouteFds
  <2>2. RouteFds \subseteq Int
    <3>1. \A i \in 1 .. Len(iRouteInfo) : iRouteInfo[i].fd \in Int
      BY <1>1, RouteTypes DEF Fds, BaseInv, TypeInv
    <3> QED BY <3>1 DEF RouteFds
  <2>3. ASSUME RouteFds /= {} PROVE iMaxSocketFd = Max(RouteFds)
    <3>1. iMaxSocketFd \in RouteFds /\ \A f \in RouteFds : iMaxSocketFd >= f
      BY <2>1, <2>2, <2>3 DEF MaskMatches
    <3>2. \A x \in RouteFds : (\A y \in RouteFds : x >= y) => x = iMaxSocketFd
      BY <2>2, <3>1
    <3> QED BY <3>1, <3>2 DEF Max
  <2> QED BY <2>1, <2>3 DEF MaskMatches
<1> QED BY <1>1, SpecBase, PTL

\* An inbound port never has two routes, nor a destination two sockets in one,
\* although addLocalRoute lets go of iMutex between the search and the entry and a
\* bind may fail, unless two calls for the port have overlapped; and two routes never
\* share a socket.
THEOREM TableIsWellFormed == Spec => []TableWellFormed
<1>1. BaseInv /\ OneInv /\ [Next]_vars => BaseInv' /\ OneInv'
  BY NextKeeps
<1>2. BaseInv /\ OneInv => TableWellFormed
  BY DEF BaseInv, OneInv, OnceInv, TypeInv, SocketInv, TableWellFormed, Clear
<1> QED BY <1>1, <1>2, InvInit, PTL DEF Spec
=============================================================================
