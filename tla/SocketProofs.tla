---------------------------- MODULE SocketProofs ----------------------------
(***************************************************************************)
(* Theorems about the two kinds of sockets.                                *)
(*                                                                         *)
(* The FT sockets, for any hierarchy of modules and any order of bindings: *)
(* commands go where the calls go, forward pointers hit the peer or its    *)
(* intercept, and both ends know the same clock.                           *)
(*                                                                         *)
(* The conversions of simple_target_socket, for any number of transactions *)
(* and any choice of the two sides: both see the exclusion rules of the    *)
(* base protocol kept, and the socket does what a transport service does.  *)
(* Two threads are all that nb_transport_fw ever spawns.  These theorems   *)
(* are about targets that leave a thread the delta cycle in which it was   *)
(* woken up, and sides that do not call back about the transaction they    *)
(* are given.                                                              *)
(***************************************************************************)
EXTENDS SimpleTargetSocket, FtSockets, FiniteSetTheorems, TLAPS

\* A walk begins where it begins (Reached).
LEMMA ReachedFirst ==
    ASSUME NEW R, NEW s
    PROVE  s \in Reached(R, s)
BY DEF Reached

\* Where a walk comes it goes on (Reached).
LEMMA ReachedNext ==
    ASSUME NEW R, NEW s, NEW x \in Reached(R, s), NEW e \in R, e[1] = x
    PROVE  e[2] \in Reached(R, s)
BY DEF Reached

\* A walk does not leave a set that its steps do not leave (Reached): the
\* induction over a walk.
LEMMA ReachedWithin ==
    ASSUME NEW R, NEW s, NEW C, s \in C, \A e \in R : e[1] \in C => e[2] \in C
    PROVE  Reached(R, s) \subseteq C
<1> DEFINE all == {s} \cup {e[2] : e \in R}
           D == C \cap all
<1>1. D \in SUBSET all /\ s \in D
  OBVIOUS
<1>2. \A e \in R : e[1] \in D => e[2] \in D
  OBVIOUS
<1>3. Reached(R, s) \subseteq D
  BY <1>1, <1>2 DEF Reached
<1> QED
  BY <1>3

\* A walk from a place on a walk is a part of it (Reached).
LEMMA ReachedOn ==
    ASSUME NEW R, NEW s, NEW x \in Reached(R, s)
    PROVE  Reached(R, x) \subseteq Reached(R, s)
<1>1. \A e \in R : e[1] \in Reached(R, s) => e[2] \in Reached(R, s)
  BY ReachedNext
<1> QED
  BY <1>1, ReachedWithin

\* A walk comes to each place, but the first, from another one (Reached).
LEMMA ReachedFrom ==
    ASSUME NEW R, NEW s, NEW x \in Reached(R, s), x # s
    PROVE  \E e \in R : e[1] \in Reached(R, s) /\ e[2] = x
<1>1. SUFFICES ASSUME \A e \in R : e[1] \in Reached(R, s) => e[2] # x
               PROVE  FALSE
  OBVIOUS
<1> DEFINE C == Reached(R, s) \ {x}
<1>2. s \in C
  BY ReachedFirst
<1>3. \A e \in R : e[1] \in C => e[2] \in C
  BY <1>1, ReachedNext
<1>4. Reached(R, s) \subseteq C
  <2> HIDE DEF C
  <2> QED  BY <1>2, <1>3, ReachedWithin
<1> QED
  BY <1>4

\* A walk with one way to go on has one end (FarEnd).
LEMMA OneFarEnd ==
    ASSUME NEW R, NEW s, NEW x \in Reached(R, s),
           \A e, f \in R : e[1] = f[1] => e[2] = f[2],
           \A e \in R : e[1] # x
    PROVE  FarEnd(R, s) = x
<1> DEFINE P == {z \in Reached(R, s) : x \in Reached(R, z)}
<1>1. s \in P
  BY ReachedFirst
<1>2. ASSUME NEW e \in R, e[1] \in P
      PROVE  e[2] \in P
  <2>1. e[2] \in Reached(R, s)
    BY <1>2, ReachedNext
  <2>2. x \in Reached(R, e[1]) /\ x # e[1]
    BY <1>2
  <2> DEFINE C == {e[1]} \cup Reached(R, e[2])
  <2>3. e[1] \in C
    OBVIOUS
  <2>4. ASSUME NEW f \in R, f[1] \in C
        PROVE  f[2] \in C
    <3>1. CASE f[1] = e[1]
      <4>1. f[2] = e[2]
        BY <3>1
      <4> QED  BY <4>1, ReachedFirst
    <3>2. CASE f[1] \in Reached(R, e[2])
      BY <3>2, ReachedNext
    <3> QED  BY <2>4, <3>1, <3>2
  <2>5. Reached(R, e[1]) \subseteq C
    <3> HIDE DEF C
    <3> QED  BY <2>3, <2>4, ReachedWithin
  <2> QED
    BY <2>1, <2>2, <2>5
<1>3. Reached(R, s) \subseteq P
  <2> HIDE DEF P
  <2> QED  BY <1>1, <1>2, ReachedWithin
<1>4. ASSUME NEW y \in Reached(R, s), \A e \in R : e[1] # y
      PROVE  y = x
  <2>1. x \in Reached(R, y)
    BY <1>3
  <2>2. Reached(R, y) \subseteq {y}
    <3>1. \A e \in R : e[1] \in {y} => e[2] \in {y}
      BY <1>4
    <3> QED  BY <3>1, ReachedWithin
  <2> QED
    BY <2>1, <2>2
<1> QED
  BY <1>4 DEF FarEnd
-----------------------------------------------------------------------------
HasPort(x, p)      == ToPort(p) \in ToSet(ports[x])
HasInterface(x, f) == ToInterface(f) \in ToSet(ports[x])

FtTypeOK ==
    /\ elaborated \in BOOLEAN /\ handled \subseteq Sockets /\ asked \subseteq Sockets
    /\ exports \in [Sockets -> Sockets \cup {NoSocket}]
    /\ ports \in [Sockets -> Seq([kind : {"interface", "port"}, of : Sockets])]
    /\ isImplementer \in [Sockets -> BOOLEAN] /\ isScPortBound \in [Sockets -> BOOLEAN]
    /\ isInterceptActive \in [Targets -> BOOLEAN]
    /\ parent \in [Sockets -> Sockets \cup {NoSocket}]
    /\ child \in [Sockets -> Sockets \cup {NoSocket}]
    /\ peer \in [Sockets -> Sockets \cup {NoSocket}]
    /\ forward \in [Sockets -> Sockets \cup {NoSocket, Intercept}]
    /\ targetClk \in [Sockets -> ClockPeriods]

\* A socket whose export is bound to nothing yet is bound to nothing at all.
Untouched(x) ==
    /\ ~isImplementer[x] /\ child[x] = NoSocket
    /\ parent[x] = NoSocket /\ peer[x] = NoSocket
    /\ \A y \in Sockets : ~HasPort(x, y) /\ ~HasInterface(x, y)

\* Exports are handed up from the socket that implements them, to one socket
\* each; the handle of the child says from whom.
ExportsAt(x) ==
    /\ exports[x] = NoSocket => Untouched(x)
    /\ isImplementer[x] => exports[x] = x /\ child[x] = NoSocket
    /\ exports[x] # NoSocket /\ ~isImplementer[x] => child[x] # NoSocket
    /\ child[x] # NoSocket =>
         /\ exports[child[x]] = exports[x] /\ exports[x] # NoSocket
         /\ child[x] \in Targets <=> x \in Targets
         /\ << x, child[x] >> \in Encloses

\* A port is bound to the ports of those whose child the socket is; the handle
\* of the parent is one of them.
ParentsAt(x) ==
    /\ \A p \in Sockets : HasPort(x, p) <=> child[p] = x
    /\ parent[x] # NoSocket => child[parent[x]] = x
    /\ x \in Targets /\ child[x] # NoSocket => parent[child[x]] # NoSocket
    /\ x \in Initiators /\ (parent[x] # NoSocket \/ peer[x] # NoSocket) => isScPortBound[x]

\* Peers are bound to each other's interfaces.  An initiator's peer may have got
\* another peer since, one that brings another interface.
PeersAt(x) ==
    peer[x] # NoSocket =>
        /\ exports[x] # NoSocket /\ exports[peer[x]] # NoSocket
        /\ HasInterface(x, exports[peer[x]]) /\ HasInterface(peer[x], exports[x])
        /\ peer[x] \in Targets <=> x \in Initiators
        /\ x \in Initiators =>
             /\ peer[peer[x]] # NoSocket
             /\ exports[peer[peer[x]]] = exports[x] => peer[peer[x]] = x

\* Nobody is above or below himself.
NoCycle(handle) == \A X \in SUBSET Sockets : X # {} => \E x \in X : handle[x] \notin X

Wiring ==
    /\ \A x \in Sockets : ExportsAt(x) /\ ParentsAt(x) /\ PeersAt(x)
    /\ NoCycle(parent) /\ NoCycle(child)

\* What SystemC has checked.
SystemCAgreed ==
    elaborated =>
        \A s \in Sockets : /\ exports[s] # NoSocket
                           /\ Interfaces(s) # {} \/ s \in Optional
                           /\ ~ReachesOneTwice(s)

\* Two sockets around one target's socket must both be bound, which is what the
\* default of their port policy says.  An idle one can be the target's parent
\* handle, and then no command comes back to the initiator.
NoIdleTwins ==
    \A d, e \in Encloses :
        d[1] \in Targets /\ d # e /\ d[2] = e[2] => d[1] \notin Optional

-----------------------------------------------------------------------------
\* The only socket of a kind of binding is the one it was made for.
LEMMA BindingsDiffer ==
    \A x, y : /\ ToInterface(x) = ToInterface(y) <=> x = y
              /\ ToPort(x) = ToPort(y) <=> x = y
              /\ ToInterface(x) # ToPort(y)
BY DEF ToInterface, ToPort

\* A list that gets one more has what it had, and that (Connected and others).
LEMMA AppendsOne ==
    ASSUME NEW B
    PROVE  \A s \in Seq(B), b \in B :
             Append(s, b) \in Seq(B) /\ ToSet(Append(s, b)) = ToSet(s) \cup {b}
<1>1. SUFFICES ASSUME NEW s \in Seq(B), NEW b \in B
               PROVE  Append(s, b) \in Seq(B) /\ ToSet(Append(s, b)) = ToSet(s) \cup {b}
  OBVIOUS
<1>2. /\ DOMAIN s = 1 .. Len(s) /\ Len(s) \in Nat
      /\ DOMAIN Append(s, b) = 1 .. Len(s) + 1 /\ Append(s, b)[Len(s) + 1] = b
      /\ \A k \in 1 .. Len(s) : Append(s, b)[k] = s[k]
  OBVIOUS
<1>3. \A k \in 1 .. Len(s) + 1 : k \in 1 .. Len(s) \/ k = Len(s) + 1
  BY <1>2
<1>4. Len(s) + 1 \in 1 .. Len(s) + 1 /\ 1 .. Len(s) \subseteq 1 .. Len(s) + 1
  BY <1>2
<1>5. ToSet(Append(s, b)) \subseteq ToSet(s) \cup {b}
  BY <1>2, <1>3 DEF ToSet
<1>6. ToSet(s) \cup {b} \subseteq ToSet(Append(s, b))
  BY <1>2, <1>4 DEF ToSet
<1> QED
  BY <1>5, <1>6

\* What a port is bound to, those above it are not bound to in vain
\* (Interfaces): they hand it down.
LEMMA HandedDown ==
    ASSUME FtTypeOK, NEW x \in Sockets, NEW p \in Sockets, HasPort(x, p)
    PROVE  BoundPorts(p) \subseteq BoundPorts(x) /\ Interfaces(p) \subseteq Interfaces(x)
<1>1. << x, p >> \in PortBindings
  BY DEF PortBindings, HasPort
<1>2. x \in Reached(PortBindings, x)
  BY ReachedFirst
<1>3. p \in Reached(PortBindings, x)
  BY <1>1, <1>2, ReachedNext
<1>4. BoundPorts(p) \subseteq BoundPorts(x)
  BY <1>3, ReachedOn DEF BoundPorts
<1> QED
  BY <1>4 DEF Interfaces

\* A port has the interfaces it is bound to (Interfaces).
LEMMA OwnInterface ==
    ASSUME FtTypeOK, NEW x \in Sockets, NEW f \in Sockets, HasInterface(x, f)
    PROVE  f \in Interfaces(x)
BY ReachedFirst DEF Interfaces, BoundPorts, HasInterface

\* Walks do not fork (TowardsTarget, TowardsInitiator).
LEMMA OneWay ==
    ASSUME FtTypeOK
    PROVE  /\ \A e, f \in TowardsTarget : e[1] = f[1] => e[2] = f[2]
           /\ \A e, f \in TowardsInitiator : e[1] = f[1] => e[2] = f[2]
BY FtSocketsAssumption DEF TowardsTarget, TowardsInitiator, Down, Sockets
-----------------------------------------------------------------------------
\* A port is bound to sockets, and but for itself it comes to each from its
\* child (PortBindings).
LEMMA BoundFromTheChild ==
    ASSUME FtTypeOK, Wiring, NEW x \in Sockets, NEW d \in BoundPorts(x)
    PROVE  d \in Sockets /\ (d # x => child[d] \in BoundPorts(x))
<1>1. BoundPorts(x) \subseteq Sockets
  <2>1. \A e \in PortBindings : e[1] \in Sockets => e[2] \in Sockets
    BY DEF PortBindings
  <2> QED
    BY <2>1, ReachedWithin DEF BoundPorts
<1>2. ASSUME d # x
      PROVE  child[d] \in BoundPorts(x)
  <2>1. PICK e \in PortBindings : e[1] \in BoundPorts(x) /\ e[2] = d
    BY <1>2, ReachedFrom DEF BoundPorts
  <2>2. e[1] \in Sockets /\ HasPort(e[1], d)
    BY <2>1 DEF PortBindings, HasPort
  <2>3. ParentsAt(e[1])
    BY <2>2 DEF Wiring
  <2>4. child[d] = e[1]
    BY <1>1, <2>2, <2>3 DEF ParentsAt
  <2> QED
    BY <2>1, <2>4
<1> QED
  BY <1>1, <1>2

\* No port is bound, through others, to one that is bound to it (NoCycle).
LEMMA NotBelow ==
    ASSUME FtTypeOK, Wiring, NEW x \in Sockets
    PROVE  child[x] \notin BoundPorts(x)
<1>1. SUFFICES ASSUME child[x] \in BoundPorts(x)
               PROVE  FALSE
  OBVIOUS
<1>2. \A d \in BoundPorts(x) : d \in Sockets /\ child[d] \in BoundPorts(x)
  BY <1>1, BoundFromTheChild
<1>3. BoundPorts(x) \in SUBSET Sockets /\ BoundPorts(x) # {}
  BY <1>2, ReachedFirst DEF BoundPorts
<1> QED
  BY <1>2, <1>3 DEF Wiring, NoCycle

\* Two ports that a port is bound to are not bound to a common one.
LEMMA NoDiamond ==
    ASSUME FtTypeOK, Wiring, NEW x \in Sockets, NEW z \in Sockets, x # z,
           child[x] = child[z]
    PROVE  BoundPorts(x) \cap BoundPorts(z) = {}
<1> DEFINE D == BoundPorts(x) \cap BoundPorts(z)
<1>1. SUFFICES ASSUME D # {}
               PROVE  FALSE
  OBVIOUS
<1>2. ASSUME NEW d \in D
      PROVE  d \in Sockets /\ child[d] \in D
  <2>1. d # x
    <3>1. SUFFICES ASSUME d = x
                   PROVE  FALSE
      OBVIOUS
    <3>2. child[x] \in BoundPorts(z)
      BY <3>1, BoundFromTheChild
    <3> QED
      BY <3>2, NotBelow
  <2>2. d # z
    <3>1. SUFFICES ASSUME d = z
                   PROVE  FALSE
      OBVIOUS
    <3>2. child[z] \in BoundPorts(x)
      BY <3>1, BoundFromTheChild
    <3> QED
      BY <3>2, NotBelow
  <2> QED
    BY <2>1, <2>2, BoundFromTheChild
<1>3. D \in SUBSET Sockets
  BY <1>2
<1> QED
  BY <1>1, <1>2, <1>3 DEF Wiring, NoCycle

\* Towards the initiator a target's socket with a sole interface leads to the
\* socket around it that has the interface (TowardsInitiator).
LEMMA UpFromAChild ==
    ASSUME FtTypeOK, Wiring, SystemCAgreed, elaborated, NoIdleTwins,
           NEW x \in Targets, NEW y \in Targets, child[x] = y,
           NEW f \in Interfaces(x), \A g \in Interfaces(y) : g = f
    PROVE  << y, x >> \in TowardsInitiator
<1>1. x \in Sockets /\ y \in Sockets /\ f \in Sockets /\ y # NoSocket
  BY FtSocketsAssumption DEF Sockets, Interfaces
<1>2. ExportsAt(x) /\ ParentsAt(x) /\ ParentsAt(y) /\ PeersAt(y)
  BY <1>1 DEF Wiring
<1>3. HasPort(y, x)
  BY <1>1, <1>2 DEF ParentsAt
<1>4. PICK p \in BoundPorts(x) : HasInterface(p, f)
  BY DEF Interfaces, HasInterface
<1>5. BoundPorts(x) \subseteq BoundPorts(y)
  BY <1>1, <1>3, HandedDown
<1>6. ~ReachesOneTwice(y)
  BY <1>1 DEF SystemCAgreed
<1>7. peer[y] = NoSocket
  <2>1. SUFFICES ASSUME peer[y] # NoSocket
                 PROVE  FALSE
    OBVIOUS
  <2>2. peer[y] \in Sockets /\ exports[peer[y]] \in Sockets
    BY <1>1, <1>2, <2>1 DEF FtTypeOK, PeersAt
  <2>3. HasInterface(y, exports[peer[y]])
    BY <1>2, <2>1 DEF PeersAt
  <2>4. exports[peer[y]] = f
    BY <1>1, <2>2, <2>3, OwnInterface
  <2>5. y \in BoundPorts(y)
    BY ReachedFirst DEF BoundPorts
  <2>6. p # y
    BY <1>1, NotBelow
  <2> QED
    BY <1>1, <1>4, <1>5, <1>6, <2>3, <2>4, <2>5, <2>6 DEF ReachesOneTwice, HasInterface
<1>8. parent[y] # NoSocket
  BY <1>1, <1>2 DEF ParentsAt
<1>9. parent[y] = x
  <2>1. SUFFICES ASSUME parent[y] # x
                 PROVE  FALSE
    OBVIOUS
  <2>2. PICK z \in Sockets : z = parent[y]
    BY <1>1, <1>8 DEF FtTypeOK
  <2>3. child[z] = y /\ z # x
    BY <1>2, <1>8, <2>1, <2>2 DEF ParentsAt
  <2>4. ExportsAt(z)
    BY DEF Wiring
  <2>5. << x, y >> \in Encloses /\ << z, y >> \in Encloses /\ z \in Targets
    BY <1>1, <1>2, <2>3, <2>4 DEF ExportsAt
  <2>6. z \notin Optional
    <3>1. << z, y >> # << x, y >>
      BY <2>3
    <3> QED  BY <2>5, <3>1 DEF NoIdleTwins
  <2>7. PICK g \in Interfaces(z) : TRUE
    BY <2>6 DEF SystemCAgreed
  <2>8. HasPort(y, z)
    BY <1>2, <2>3 DEF ParentsAt
  <2>9. BoundPorts(z) \subseteq BoundPorts(y) /\ Interfaces(z) \subseteq Interfaces(y)
    BY <1>1, <2>8, HandedDown
  <2>10. g = f
    BY <2>7, <2>9
  <2>11. PICK q \in BoundPorts(z) : HasInterface(q, f)
    BY <2>7, <2>10 DEF Interfaces, HasInterface
  <2>12. p = q
    BY <1>1, <1>4, <1>5, <1>6, <2>9, <2>11 DEF ReachesOneTwice, HasInterface
  <2> QED
    BY <1>1, <1>4, <2>3, <2>11, <2>12, NoDiamond
<1> QED
  BY <1>7, <1>9 DEF TowardsInitiator
-----------------------------------------------------------------------------
\* The ways of commands and of calls of an initiator that no binding shares, to
\* the target t.
SoleTarget(i, t) ==
    /\ t \in Targets /\ isImplementer[t] /\ isScPortBound[i]
    /\ Interfaces(i) = {t} /\ Interfaces(t) = {i}
    /\ FarEnd(TowardsTarget, i) = t /\ FarEnd(TowardsInitiator, t) = i
    /\ i \in Reached(TowardsInitiator, t)

\* Where CHECK_MULTI_BINDING finds nothing a command for the target arrives
\* where the calls do, and one for the initiator at the initiator.
LEMMA ExclusiveHasATarget ==
    ASSUME FtTypeOK, Wiring, SystemCAgreed, NoIdleTwins, NEW i \in Exclusive
    PROVE  \E t \in Targets : SoleTarget(i, t)
<1> DEFINE Q == Reached(TowardsTarget, i)
<1>1. /\ i \in Initiators /\ i \in Sockets /\ elaborated /\ isImplementer[i]
      /\ NoSocket \notin Q /\ \A x \in Q : \A f, g \in Interfaces(x) : f = g
  BY DEF Exclusive, IsMultiBound, Sockets
<1>2. exports[i] = i /\ child[i] = NoSocket
  BY <1>1 DEF Wiring, ExportsAt
<1>3. i \in Q /\ \A e \in TowardsTarget : e[1] \in Q => e[2] \in Q
  BY ReachedFirst, ReachedNext
<1>4. Q \subseteq Sockets
  <2>1. \A e \in TowardsTarget : e[2] \in Sockets \cup {NoSocket}
    BY DEF TowardsTarget, Down, FtTypeOK, Sockets
  <2>2. Q \subseteq Sockets \cup {NoSocket}
    BY <1>1, <2>1, ReachedWithin
  <2> QED
    BY <1>1, <2>2
<1>5. \A x \in Sockets : ExportsAt(x) /\ ParentsAt(x) /\ PeersAt(x)
  BY DEF Wiring
<1>6. Initiators \subseteq Sockets /\ Targets \subseteq Sockets /\ NoSocket \notin Sockets
      /\ Initiators \cap Targets = {} /\ Q \subseteq Initiators \cup Targets
  BY <1>4, FtSocketsAssumption DEF Sockets
<1> HIDE DEF Q
\* The three ways of a step.
<1>7. ASSUME NEW x \in Q \cap Initiators, parent[x] # NoSocket
      PROVE  /\ parent[x] \in Q \cap Initiators /\ child[parent[x]] = x
             /\ exports[parent[x]] = exports[x] /\ HasPort(x, parent[x])
  <2>1. << x, parent[x] >> \in TowardsTarget
    BY <1>7 DEF TowardsTarget
  <2>2. PICK p \in Sockets : p = parent[x] /\ p \in Q
    BY <1>3, <1>4, <2>1
  <2>3. child[p] = x
    BY <1>5, <1>6, <1>7, <2>2 DEF ParentsAt
  <2>4. exports[p] = exports[x] /\ p \notin Targets
    <3>1. x # NoSocket /\ x \notin Targets
      BY <1>6
    <3>2. ExportsAt(p)
      BY <1>5
    <3> QED  BY <2>3, <3>1, <3>2 DEF ExportsAt
  <2> QED
    BY <1>5, <1>6, <2>2, <2>3, <2>4 DEF ParentsAt
<1>8. ASSUME NEW x \in Q \cap Initiators, parent[x] = NoSocket
      PROVE  /\ peer[x] # NoSocket /\ peer[x] \in Q \cap Targets
             /\ exports[peer[x]] \in Sockets
             /\ HasInterface(x, exports[peer[x]]) /\ HasInterface(peer[x], exports[x])
             /\ peer[peer[x]] # NoSocket
             /\ exports[peer[peer[x]]] = exports[x] => peer[peer[x]] = x
  <2>1. << x, peer[x] >> \in TowardsTarget
    BY <1>8 DEF TowardsTarget
  <2>2. peer[x] \in Q /\ peer[x] # NoSocket /\ peer[x] \in Sockets
    BY <1>1, <1>3, <1>4, <2>1
  <2>3. exports[peer[x]] \in Sockets
    BY <1>5, <1>6, <2>2 DEF PeersAt, FtTypeOK
  <2> QED
    BY <1>5, <1>6, <2>2, <2>3 DEF PeersAt
<1>9. ASSUME NEW x \in Q \cap Targets, child[x] # NoSocket
      PROVE  /\ child[x] \in Q \cap Targets /\ exports[child[x]] = exports[x]
             /\ HasPort(child[x], x)
  <2>1. << x, child[x] >> \in TowardsTarget
    BY <1>9 DEF TowardsTarget, Down
  <2>2. PICK c \in Sockets : c = child[x] /\ c \in Q
    BY <1>3, <1>4, <2>1
  <2> QED
    BY <1>5, <1>6, <1>9, <2>2 DEF ExportsAt, ParentsAt
<1>10. \A e \in TowardsTarget : e[1] \in Q =>
         \/ e[1] \in Initiators /\ parent[e[1]] # NoSocket /\ e[2] = parent[e[1]]
         \/ e[1] \in Initiators /\ parent[e[1]] = NoSocket /\ e[2] = peer[e[1]]
         \/ e[1] \in Targets /\ child[e[1]] # NoSocket /\ e[2] = child[e[1]]
  BY DEF TowardsTarget, Down
\* Initiators on the way hand the initiator's export up.
<1>11. \A x \in Q \cap Initiators : exports[x] = i /\ x \in BoundPorts(i)
  <2> DEFINE C == {x \in Q : x \in Initiators => exports[x] = i /\ x \in BoundPorts(i)}
  <2>1. i \in C
    BY <1>2, <1>3, ReachedFirst DEF BoundPorts
  <2>2. ASSUME NEW e \in TowardsTarget, e[1] \in C
        PROVE  e[2] \in C
    <3>1. CASE e[1] \in Initiators /\ parent[e[1]] # NoSocket /\ e[2] = parent[e[1]]
      <4>1. PICK x \in Q \cap Initiators : x = e[1] /\ exports[x] = i /\ x \in BoundPorts(i)
        BY <2>2, <3>1
      <4>2. << x, parent[x] >> \in PortBindings
        BY <1>4, <1>7, <3>1, <4>1 DEF PortBindings, HasPort
      <4>3. parent[x] \in BoundPorts(i)
        BY <4>1, <4>2, ReachedNext DEF BoundPorts
      <4> QED
        BY <1>7, <3>1, <4>1, <4>3
    <3>2. CASE e[1] \in Initiators /\ parent[e[1]] = NoSocket /\ e[2] = peer[e[1]]
      BY <1>6, <1>8, <2>2, <3>2
    <3>3. CASE e[1] \in Targets /\ child[e[1]] # NoSocket /\ e[2] = child[e[1]]
      BY <1>6, <1>9, <2>2, <3>3
    <3> QED
      BY <1>10, <2>2, <3>1, <3>2, <3>3
  <2>3. Q \subseteq C
    <3> HIDE DEF C
    <3> QED  BY <2>1, <2>2, ReachedWithin DEF Q
  <2> QED
    BY <2>3
\* Targets on the way have the initiator's interface, and hand up the export
\* that the initiator is bound to.
<1>12. \A x \in Q \cap Targets : exports[x] \in Interfaces(i) /\ i \in Interfaces(x)
  <2> DEFINE C == {x \in Q : x \in Targets => exports[x] \in Interfaces(i) /\ i \in Interfaces(x)}
  <2>1. i \in C
    BY <1>1, <1>3, <1>6
  <2>2. ASSUME NEW e \in TowardsTarget, e[1] \in C
        PROVE  e[2] \in C
    <3>1. CASE e[1] \in Initiators /\ parent[e[1]] # NoSocket /\ e[2] = parent[e[1]]
      BY <1>6, <1>7, <2>2, <3>1
    <3>2. CASE e[1] \in Initiators /\ parent[e[1]] = NoSocket /\ e[2] = peer[e[1]]
      <4>1. PICK x \in Q \cap Initiators : x = e[1]
        BY <2>2, <3>2
      <4>2. PICK y \in Q \cap Targets : y = peer[x]
        BY <1>8, <3>2, <4>1
      <4>3. exports[y] \in Sockets /\ HasInterface(x, exports[y]) /\ HasInterface(y, i)
        BY <1>8, <1>11, <3>2, <4>1, <4>2
      <4>4. i \in Interfaces(y)
        BY <1>1, <1>4, <4>3, OwnInterface
      <4>5. exports[y] \in Interfaces(i)
        BY <1>11, <4>3 DEF Interfaces, HasInterface
      <4> QED
        BY <3>2, <4>1, <4>2, <4>4, <4>5
    <3>3. CASE e[1] \in Targets /\ child[e[1]] # NoSocket /\ e[2] = child[e[1]]
      <4>1. PICK x \in Q \cap Targets :
              x = e[1] /\ exports[x] \in Interfaces(i) /\ i \in Interfaces(x)
        BY <2>2, <3>3
      <4>2. PICK y \in Q \cap Targets : y = child[x] /\ exports[y] = exports[x] /\ HasPort(y, x)
        BY <1>9, <3>3, <4>1
      <4>3. Interfaces(x) \subseteq Interfaces(y)
        BY <1>4, <4>2, HandedDown
      <4> QED
        BY <3>3, <4>1, <4>2, <4>3
    <3> QED
      BY <1>10, <2>2, <3>1, <3>2, <3>3
  <2>3. Q \subseteq C
    <3> HIDE DEF C
    <3> QED  BY <2>1, <2>2, ReachedWithin DEF Q
  <2> QED
    BY <2>3
\* The way ends.
<1>13. \E t \in Q \cap Targets : child[t] = NoSocket
  <2>1. \E x \in Q : x \in Targets
    <3>1. SUFFICES ASSUME Q \cap Targets = {}
                   PROVE  FALSE
      OBVIOUS
    <3>2. PICK x \in Q : parent[x] \notin Q
      BY <1>3, <1>4 DEF Wiring, NoCycle
    <3> QED
      BY <1>6, <1>7, <1>8, <3>1, <3>2
  <2>2. PICK x \in Q \cap Targets : child[x] \notin Q \cap Targets
    <3> DEFINE X == Q \cap Targets
    <3>1. X \in SUBSET Sockets /\ X # {}
      BY <1>4, <2>1
    <3> QED
      BY <3>1 DEF Wiring, NoCycle
  <2> QED
    BY <1>9, <2>2
<1>14. PICK t \in Q \cap Targets : child[t] = NoSocket
  BY <1>13
<1>15. isImplementer[t] /\ exports[t] = t
  BY <1>1, <1>4, <1>5, <1>14 DEF ExportsAt, SystemCAgreed
<1>16. Interfaces(i) = {t} /\ Interfaces(t) = {i}
  BY <1>1, <1>3, <1>12, <1>15
<1>17. FarEnd(TowardsTarget, i) = t
  <2>1. \A e \in TowardsTarget : e[1] # t
    BY <1>6, <1>14 DEF TowardsTarget, Down
  <2> QED
    BY <2>1, OneWay, OneFarEnd DEF Q
\* And from each place of it a way leads back.
<1>18. \A x \in Q : i \in Reached(TowardsInitiator, x)
  <2> DEFINE C == {x \in Q : i \in Reached(TowardsInitiator, x)}
  <2>1. i \in C
    BY <1>3, ReachedFirst
  <2>2. ASSUME NEW e \in TowardsTarget, e[1] \in C
        PROVE  e[2] \in C
    <3>1. << e[2], e[1] >> \in TowardsInitiator
      <4>1. CASE e[1] \in Initiators /\ parent[e[1]] # NoSocket /\ e[2] = parent[e[1]]
        <5>1. PICK x \in Q \cap Initiators : x = e[1]
          BY <2>2, <4>1
        <5>2. PICK y \in Q \cap Initiators : y = parent[x] /\ child[y] = x
          BY <1>7, <4>1, <5>1
        <5> QED
          BY <1>6, <4>1, <5>1, <5>2 DEF TowardsInitiator, Down
      <4>2. CASE e[1] \in Initiators /\ parent[e[1]] = NoSocket /\ e[2] = peer[e[1]]
        <5>1. PICK x \in Q \cap Initiators : x = e[1]
          BY <2>2, <4>2
        <5>2. PICK y \in Q \cap Targets : y = peer[x]
          BY <1>8, <4>2, <5>1
        <5>3. HasInterface(y, i) /\ peer[y] # NoSocket /\ (exports[peer[y]] = i => peer[y] = x)
          BY <1>8, <1>11, <4>2, <5>1, <5>2
        <5>4. PICK z \in Sockets : z = peer[y]
          BY <1>6, <5>3 DEF FtTypeOK
        <5>5. exports[z] \in Sockets /\ HasInterface(y, exports[z])
          BY <1>5, <1>6, <5>3, <5>4 DEF PeersAt, FtTypeOK
        <5>6. exports[z] \in Interfaces(y) /\ i \in Interfaces(y)
          BY <1>1, <1>4, <5>3, <5>5, OwnInterface
        <5>7. peer[y] = x
          BY <1>1, <5>3, <5>4, <5>6
        <5> QED
          BY <1>6, <4>2, <5>1, <5>2, <5>3, <5>7 DEF TowardsInitiator
      <4>3. CASE e[1] \in Targets /\ child[e[1]] # NoSocket /\ e[2] = child[e[1]]
        <5>1. PICK x \in Q \cap Targets : x = e[1] /\ i \in Interfaces(x)
          BY <1>12, <2>2, <4>3
        <5>2. PICK y \in Q \cap Targets : y = child[x] /\ i \in Interfaces(y)
          BY <1>9, <1>12, <4>3, <5>1
        <5>3. \A g \in Interfaces(y) : g = i
          BY <1>1, <5>2
        <5> QED
          BY <1>1, <4>3, <5>1, <5>2, <5>3, UpFromAChild
      <4> QED
        BY <1>10, <2>2, <4>1, <4>2, <4>3
    <3>2. e[1] \in Reached(TowardsInitiator, e[2])
      BY <3>1, ReachedFirst, ReachedNext
    <3>3. i \in Reached(TowardsInitiator, e[2])
      BY <2>2, <3>2, ReachedOn
    <3> QED
      BY <1>3, <2>2, <3>3
  <2>3. Q \subseteq C
    <3> HIDE DEF C
    <3> QED  BY <2>1, <2>2, ReachedWithin DEF Q
  <2> QED
    BY <2>3
<1>19. FarEnd(TowardsInitiator, t) = i
  <2>1. \A e \in TowardsInitiator : e[1] # i
    BY <1>1, <1>2, <1>6 DEF TowardsInitiator, Down
  <2>2. i \in Reached(TowardsInitiator, t)
    BY <1>14, <1>18
  <2> QED
    BY <2>1, <2>2, OneWay, OneFarEnd
<1>20. isScPortBound[i]
  <2>1. parent[i] # NoSocket \/ peer[i] # NoSocket
    BY <1>1, <1>3, <1>8
  <2> QED
    BY <1>1, <1>5, <2>1 DEF ParentsAt
<1> QED
  BY <1>14, <1>15, <1>16, <1>17, <1>18, <1>19, <1>20 DEF SoleTarget
-----------------------------------------------------------------------------
\* Connected: each of the two ports gets the other's interface.
LEMMA ConnectedPorts ==
    ASSUME FtTypeOK, NEW i \in Sockets, NEW t \in Sockets, i # t, Connected(i, t)
    PROVE  /\ ports' \in [Sockets -> Seq([kind : {"interface", "port"}, of : Sockets])]
           /\ \A x, y \in Sockets : HasPort(x, y)' <=> HasPort(x, y)
           /\ \A x, y \in Sockets :
                HasInterface(x, y)' <=> \/ HasInterface(x, y)
                                        \/ x = i /\ y = exports[t]
                                        \/ x = t /\ y = exports[i]
<1> DEFINE B == [kind : {"interface", "port"}, of : Sockets]
<1>1. exports[i] \in Sockets /\ exports[t] \in Sockets
  BY DEF FtTypeOK, Connected
<1>2. \A f \in Sockets : ToInterface(f) \in B
  BY DEF ToInterface
<1>3. \A s \in Seq(B), b \in B : Append(s, b) \in Seq(B) /\ ToSet(Append(s, b)) = ToSet(s) \cup {b}
  BY AppendsOne
<1>4. ports \in [Sockets -> Seq(B)]
  BY DEF FtTypeOK
<1> HIDE DEF B
<1>5. /\ ports' = [ports EXCEPT ![i] = Append(@, ToInterface(exports[t])),
                                ![t] = Append(@, ToInterface(exports[i]))]
  BY DEF Connected
<1>6. /\ ports'[i] = Append(ports[i], ToInterface(exports[t]))
      /\ ports'[t] = Append(ports[t], ToInterface(exports[i]))
      /\ \A x \in Sockets : x # i /\ x # t => ports'[x] = ports[x]
  BY <1>4, <1>5
<1>7. ports' \in [Sockets -> Seq(B)]
  BY <1>1, <1>2, <1>3, <1>4, <1>5
<1>8. /\ ToSet(ports'[i]) = ToSet(ports[i]) \cup {ToInterface(exports[t])}
      /\ ToSet(ports'[t]) = ToSet(ports[t]) \cup {ToInterface(exports[i])}
  BY <1>1, <1>2, <1>3, <1>4, <1>6
<1>9. \A x, y \in Sockets : HasPort(x, y)' <=> HasPort(x, y)
  <2>1. SUFFICES ASSUME NEW x \in Sockets, NEW y \in Sockets
                 PROVE  ToPort(y) \in ToSet(ports'[x]) <=> ToPort(y) \in ToSet(ports[x])
    BY DEF HasPort
  <2>2. \A f : ToPort(y) # ToInterface(f)
    BY BindingsDiffer
  <2>3. CASE x = i
    BY <1>8, <2>2, <2>3
  <2>4. CASE x = t
    BY <1>8, <2>2, <2>4
  <2> QED
    BY <1>6, <2>3, <2>4
<1>10. \A x, y \in Sockets :
                HasInterface(x, y)' <=> \/ HasInterface(x, y)
                                        \/ x = i /\ y = exports[t]
                                        \/ x = t /\ y = exports[i]
  <2>1. SUFFICES ASSUME NEW x \in Sockets, NEW y \in Sockets
                 PROVE  ToInterface(y) \in ToSet(ports'[x]) <=>
                            \/ ToInterface(y) \in ToSet(ports[x])
                            \/ x = i /\ y = exports[t]
                            \/ x = t /\ y = exports[i]
    BY DEF HasInterface
  <2>2. \A f : ToInterface(y) = ToInterface(f) <=> y = f
    BY BindingsDiffer
  <2>3. CASE x = i
    BY <1>8, <2>2, <2>3
  <2>4. CASE x = t
    BY <1>8, <2>2, <2>4
  <2> QED
    BY <1>6, <2>3, <2>4
<1> QED
  BY <1>7, <1>9, <1>10 DEF B

\* BindToParent, BindToChild: the port of one socket is bound to the other's.
LEMMA BoundToPort ==
    ASSUME FtTypeOK, NEW x \in Sockets, NEW p \in Sockets,
           ports' = [ports EXCEPT ![x] = Append(@, ToPort(p))]
    PROVE  /\ ports' \in [Sockets -> Seq([kind : {"interface", "port"}, of : Sockets])]
           /\ \A y, q \in Sockets : HasPort(y, q)' <=> HasPort(y, q) \/ (y = x /\ q = p)
           /\ \A y, f \in Sockets : HasInterface(y, f)' <=> HasInterface(y, f)
<1> DEFINE B == [kind : {"interface", "port"}, of : Sockets]
<1>1. ToPort(p) \in B
  BY DEF ToPort
<1>2. \A s \in Seq(B), b \in B : Append(s, b) \in Seq(B) /\ ToSet(Append(s, b)) = ToSet(s) \cup {b}
  BY AppendsOne
<1>3. ports \in [Sockets -> Seq(B)]
  BY DEF FtTypeOK
<1> HIDE DEF B
<1>4. /\ ports'[x] = Append(ports[x], ToPort(p))
      /\ \A y \in Sockets : y # x => ports'[y] = ports[y]
  BY <1>3
<1>5. ports' \in [Sockets -> Seq(B)]
  BY <1>1, <1>2, <1>3
<1>6. ToSet(ports'[x]) = ToSet(ports[x]) \cup {ToPort(p)}
  BY <1>1, <1>2, <1>3, <1>4
<1>7. \A y, q \in Sockets : HasPort(y, q)' <=> HasPort(y, q) \/ (y = x /\ q = p)
  BY <1>4, <1>6, BindingsDiffer DEF HasPort
<1>8. \A y, f \in Sockets : HasInterface(y, f)' <=> HasInterface(y, f)
  BY <1>4, <1>6, BindingsDiffer DEF HasInterface
<1> QED
  BY <1>5, <1>7, <1>8 DEF B

\* A socket that an export comes from, or that is a peer, has an export itself.
LEMMA TheOthersHaveExports ==
    ASSUME FtTypeOK, Wiring, NEW x \in Sockets
    PROVE  /\ child[x] # NoSocket => child[x] \in Sockets /\ exports[child[x]] # NoSocket
           /\ parent[x] # NoSocket =>
                parent[x] \in Sockets /\ exports[parent[x]] # NoSocket /\ exports[x] # NoSocket
           /\ peer[x] # NoSocket =>
                peer[x] \in Sockets /\ exports[peer[x]] # NoSocket /\ exports[x] # NoSocket
<1>1. \A y \in Sockets : ExportsAt(y) /\ ParentsAt(y) /\ PeersAt(y)
  BY DEF Wiring
<1>2. /\ child[x] \in Sockets \cup {NoSocket} /\ parent[x] \in Sockets \cup {NoSocket}
      /\ peer[x] \in Sockets \cup {NoSocket} /\ x # NoSocket
  BY FtSocketsAssumption DEF FtTypeOK
<1>3. child[x] # NoSocket => exports[child[x]] # NoSocket
  BY <1>1 DEF ExportsAt
<1>4. parent[x] # NoSocket => exports[parent[x]] # NoSocket /\ exports[x] # NoSocket
  BY <1>1, <1>2 DEF ExportsAt, ParentsAt, Untouched
<1>5. peer[x] # NoSocket => exports[peer[x]] # NoSocket /\ exports[x] # NoSocket
  BY <1>1 DEF PeersAt
<1> QED
  BY <1>2, <1>3, <1>4, <1>5
-----------------------------------------------------------------------------
\* bind_to_interface: an untouched socket begins to hand out an export.
LEMMA BindToInterfaceKeeps ==
    ASSUME FtTypeOK, Wiring, NEW s \in Sockets, BindToInterface(s)
    PROVE  FtTypeOK' /\ Wiring'
<1> USE DEF BindToInterface
<1>1. FtTypeOK'
  BY DEF FtTypeOK
<1>2. \A x \in Sockets : ExportsAt(x) /\ ParentsAt(x) /\ PeersAt(x)
  BY DEF Wiring
<1>3. Untouched(s) /\ s # NoSocket
  BY <1>2, FtSocketsAssumption DEF ExportsAt
<1>4. /\ exports'[s] = s /\ isImplementer'[s]
      /\ \A x \in Sockets : x # s => exports'[x] = exports[x] /\ isImplementer'[x] = isImplementer[x]
      /\ ports' = ports /\ parent' = parent /\ child' = child /\ peer' = peer
      /\ isScPortBound' = isScPortBound
  BY DEF FtTypeOK
<1>5. \A x, y \in Sockets : /\ HasPort(x, y)' <=> HasPort(x, y)
                            /\ HasInterface(x, y)' <=> HasInterface(x, y)
  BY <1>4 DEF HasPort, HasInterface
<1>6. ASSUME NEW x \in Sockets
      PROVE  ExportsAt(x)'
  <2>1. child[x] # NoSocket => child[x] \in Sockets /\ child[x] # s /\ x # s
    BY <1>3, TheOthersHaveExports DEF Untouched
  <2>2. ExportsAt(x)
    BY <1>2
  <2>3. CASE x = s
    BY <1>3, <1>4, <2>3 DEF ExportsAt, Untouched
  <2>4. CASE x # s
    <3>1. Untouched(x) => Untouched(x)'
      BY <1>4, <1>5, <2>4 DEF Untouched
    <3> QED
      BY <1>4, <2>1, <2>2, <2>4, <3>1 DEF ExportsAt
  <2> QED
    BY <2>3, <2>4
<1>7. ASSUME NEW x \in Sockets
      PROVE  ParentsAt(x)'
  BY <1>2, <1>4, <1>5 DEF ParentsAt
<1>8. ASSUME NEW x \in Sockets, peer'[x] # NoSocket
      PROVE  PeersAt(x)'
  <2>1. PICK y \in Sockets : y = peer[x] /\ y # s /\ x # s /\ exports[y] # NoSocket
    BY <1>3, <1>4, <1>8, TheOthersHaveExports DEF Untouched
  <2>2. exports[x] \in Sockets /\ exports[y] \in Sockets
    BY <1>4, <1>8, <2>1, TheOthersHaveExports DEF FtTypeOK
  <2>3. peer[y] # NoSocket => peer[y] \in Sockets /\ peer[y] # s
    BY <1>3, TheOthersHaveExports
  <2>4. PeersAt(x)
    BY <1>2
  <2>5. /\ exports'[x] = exports[x] /\ exports'[y] = exports[y] /\ peer'[x] = y
        /\ peer'[y] = peer[y] /\ (peer[y] # NoSocket => exports'[peer[y]] = exports[peer[y]])
    BY <1>4, <2>1, <2>3
  <2>6. /\ HasInterface(x, exports[y])' <=> HasInterface(x, exports[y])
        /\ HasInterface(y, exports[x])' <=> HasInterface(y, exports[x])
    BY <1>4, <2>5 DEF HasInterface
  <2> QED
    BY <2>1, <2>2, <2>4, <2>5, <2>6, <1>4, <1>8 DEF PeersAt, HasInterface
<1>9. \A x \in Sockets : PeersAt(x)'
  BY <1>8 DEF PeersAt
<1>10. NoCycle(parent)' /\ NoCycle(child)'
  BY <1>4 DEF Wiring, NoCycle
<1> QED
  BY <1>1, <1>6, <1>7, <1>9, <1>10 DEF Wiring

\* bind_to_peer, of either side: both ports know each other's interface.  The
\* two sockets become peers, or the target alone takes the initiator as its own.
LEMMA BindToPeerKeeps ==
    ASSUME FtTypeOK, Wiring, NEW i \in Initiators, NEW t \in Targets,
           InitiatorBindToPeer(i, t) \/ TargetBindToPeer(t, i)
    PROVE  FtTypeOK' /\ Wiring'
<1>1. i \in Sockets /\ t \in Sockets /\ i # t /\ i # NoSocket /\ t # NoSocket
      /\ Connected(i, t) /\ i \notin Targets /\ t \notin Initiators
  BY FtSocketsAssumption DEF Sockets, InitiatorBindToPeer, TargetBindToPeer
<1>2. /\ exports[i] \in Sockets /\ exports[t] \in Sockets
      /\ ~HasInterface(i, exports[t]) /\ ~HasInterface(t, exports[i])
  BY <1>1 DEF Connected, FtTypeOK, HasInterface
<1>3. /\ ports' \in [Sockets -> Seq([kind : {"interface", "port"}, of : Sockets])]
      /\ \A x, y \in Sockets : HasPort(x, y)' <=> HasPort(x, y)
      /\ \A x, y \in Sockets :
           HasInterface(x, y)' <=> \/ HasInterface(x, y)
                                   \/ x = i /\ y = exports[t]
                                   \/ x = t /\ y = exports[i]
  BY <1>1, ConnectedPorts
<1>4. /\ exports' = exports /\ isImplementer' = isImplementer /\ parent' = parent /\ child' = child
      /\ elaborated' = elaborated /\ handled' = handled /\ asked' = asked
      /\ isInterceptActive' = isInterceptActive /\ targetClk' = targetClk
  BY DEF InitiatorBindToPeer, TargetBindToPeer, Connected
<1>5. /\ peer' \in [Sockets -> Sockets \cup {NoSocket}]
      /\ isScPortBound' \in [Sockets -> BOOLEAN]
      /\ \A x \in Sockets : isScPortBound[x] => isScPortBound'[x]
      /\ peer'[i] = t => peer[i] = t \/ isScPortBound'[i]
      /\ \/ peer' = peer
         \/ peer' = [peer EXCEPT ![i] = t, ![t] = i] /\ isScPortBound'[i]
         \/ peer' = [peer EXCEPT ![t] = i]
  <2>1. CASE InitiatorBindToPeer(i, t)
    <3>1. isScPortBound' \in [Sockets -> BOOLEAN]
      BY <1>1, <2>1 DEF InitiatorBindToPeer, FtTypeOK
    <3>2. isScPortBound'[i]
      BY <1>1, <2>1 DEF InitiatorBindToPeer, FtTypeOK
    <3>3. \A x \in Sockets : isScPortBound[x] => isScPortBound'[x]
      BY <1>1, <2>1 DEF InitiatorBindToPeer, FtTypeOK
    <3>4. peer' = peer \/ peer' = [peer EXCEPT ![i] = t, ![t] = i]
      BY <2>1 DEF InitiatorBindToPeer
    <3>5. peer' \in [Sockets -> Sockets \cup {NoSocket}]
      BY <1>1, <3>4 DEF FtTypeOK
    <3> QED
      BY <3>1, <3>2, <3>3, <3>4, <3>5
  <2>2. CASE TargetBindToPeer(t, i)
    BY <1>1, <2>2 DEF TargetBindToPeer, FtTypeOK
  <2> QED
    BY <2>1, <2>2
<1>6. forward' \in [Sockets -> Sockets \cup {NoSocket, Intercept}]
  <2> DEFINE B == [kind : {"interface", "port"}, of : Sockets]
  <2>1. \A s \in Seq(B) : FirstKnown(s) \in Sockets \cup {NoSocket}
    <3>1. SUFFICES ASSUME NEW s \in Seq(B), s # << >>
                   PROVE  FirstKnown(s) \in Sockets \cup {NoSocket}
      BY DEF FirstKnown
    <3>2. Head(s) \in B
      <4> HIDE DEF B
      <4>1. Len(s) \in Nat /\ Len(s) # 0 /\ Head(s) = s[1]
        BY <3>1
      <4> QED  BY <4>1
    <3> QED
      BY <3>2 DEF FirstKnown
  <2>2. ports'[i] \in Seq(B) /\ ports'[t] \in Seq(B)
    BY <1>1, <1>3
  <2>3. FirstKnown(ports'[i]) \in Sockets \cup {NoSocket}
    BY <2>1, <2>2
  <2>4. FirstKnown(ports'[t]) \in Sockets \cup {NoSocket}
    BY <2>1, <2>2
  <2>5. \/ forward' = forward
        \/ forward' = [forward EXCEPT ![i] = FirstKnown(ports'[i]), ![t] = FirstKnown(ports'[t])]
        \/ forward' = [forward EXCEPT ![t] = FirstKnown(ports'[t])]
    BY DEF InitiatorBindToPeer, TargetBindToPeer
  <2> QED
    BY <2>3, <2>4, <2>5 DEF FtTypeOK
<1>7. FtTypeOK'
  BY <1>3, <1>4, <1>5, <1>6 DEF FtTypeOK
<1>8. \A x \in Sockets : ExportsAt(x) /\ ParentsAt(x) /\ PeersAt(x)
  BY DEF Wiring
<1>9. ASSUME NEW x \in Sockets
      PROVE  ExportsAt(x)'
  <2>1. exports[x] = NoSocket => Untouched(x)'
    <3>1. SUFFICES ASSUME exports[x] = NoSocket
                   PROVE  Untouched(x)'
      OBVIOUS
    <3>2. x # i /\ x # t
      BY <1>2, <3>1, FtSocketsAssumption
    <3>3. Untouched(x)
      BY <1>8, <3>1 DEF ExportsAt
    <3>4. peer'[x] = NoSocket
      BY <1>1, <1>5, <3>2, <3>3 DEF Untouched, FtTypeOK
    <3> QED
      BY <1>3, <1>4, <3>2, <3>3, <3>4 DEF Untouched
  <2> QED
    BY <1>4, <1>8, <2>1 DEF ExportsAt
<1>10. ASSUME NEW x \in Sockets
       PROVE  ParentsAt(x)'
  <2>1. x \in Initiators /\ peer'[x] # NoSocket => peer[x] # NoSocket \/ isScPortBound'[x]
    BY <1>1, <1>5 DEF FtTypeOK
  <2> QED
    BY <1>3, <1>4, <1>5, <1>8, <2>1 DEF ParentsAt
<1>11. ASSUME NEW x \in Sockets, peer'[x] # NoSocket
       PROVE  PeersAt(x)'
  <2>1. HasInterface(i, exports[t])' /\ HasInterface(t, exports[i])'
    BY <1>1, <1>2, <1>3, <1>4 DEF HasInterface
  <2>2. ASSUME peer'[x] = peer[x]
        PROVE  PeersAt(x)'
    <3>1. PICK y \in Sockets : y = peer[x] /\ exports[x] \in Sockets /\ exports[y] \in Sockets
      BY <1>11, <2>2, TheOthersHaveExports DEF FtTypeOK
    <3>2. y # NoSocket
      BY <1>11, <2>2, <3>1
    <3>3. PeersAt(x)
      BY <1>8
    <3>4. HasInterface(x, exports[y]) /\ HasInterface(y, exports[x])
      BY <3>1, <3>2, <3>3 DEF PeersAt
    <3>5. HasInterface(x, exports[y])' /\ HasInterface(y, exports[x])'
      BY <1>3, <1>4, <3>1, <3>4 DEF HasInterface
    <3>6. ASSUME x \in Initiators
          PROVE  /\ peer'[y] # NoSocket
                 /\ exports[peer'[y]] = exports[x] => peer'[y] = x
      <4>1. /\ peer[y] # NoSocket /\ y \in Targets
            /\ exports[peer[y]] = exports[x] => peer[y] = x
        BY <3>1, <3>2, <3>3, <3>6 DEF PeersAt
      <4>2. peer'[y] = peer[y] \/ (y = t /\ peer'[y] = i)
        BY <1>1, <1>5, <4>1 DEF FtTypeOK
      <4>3. y = t => exports[i] # exports[x]
        BY <1>2, <3>4
      <4> QED
        BY <1>1, <4>1, <4>2, <4>3
    <3> QED
      BY <1>4, <2>2, <3>1, <3>2, <3>3, <3>5, <3>6 DEF PeersAt
  <2>3. CASE x = i /\ peer'[i] = t /\ peer'[t] = i
    BY <1>1, <1>2, <1>4, <2>1, <2>3, FtSocketsAssumption DEF PeersAt
  <2>4. CASE x = t /\ peer'[t] = i
    BY <1>1, <1>2, <1>4, <2>1, <2>4, FtSocketsAssumption DEF PeersAt
  <2> QED
    BY <1>1, <1>5, <2>2, <2>3, <2>4 DEF FtTypeOK
<1>12. \A x \in Sockets : PeersAt(x)'
  BY <1>11 DEF PeersAt
<1>13. NoCycle(parent)' /\ NoCycle(child)'
  BY <1>4 DEF Wiring, NoCycle
<1> QED
  BY <1>7, <1>9, <1>10, <1>12, <1>13 DEF Wiring

\* bind_to_parent of an initiator and bind_to_child of a target: the untouched
\* socket u of the module around hands on the export of l, and has l below it.
LEMMA HandedUp ==
    ASSUME FtTypeOK, Wiring, NEW l \in Sockets, NEW u \in Sockets,
           l \in Targets <=> u \in Targets, << u, l >> \in Encloses,
           exports[l] # NoSocket, exports[u] = NoSocket,
           ports' = [ports EXCEPT ![l] = Append(@, ToPort(u))],
           exports' = [exports EXCEPT ![u] = exports[l]],
           child' = [child EXCEPT ![u] = l],
           \/ parent' = [parent EXCEPT ![l] = u]
           \/ parent' = parent /\ l \notin Targets,
           isScPortBound' = [isScPortBound EXCEPT ![l] = TRUE],
           isImplementer' = isImplementer, peer' = peer,
           elaborated' = elaborated, handled' = handled, asked' = asked,
           isInterceptActive' = isInterceptActive, forward' = forward, targetClk' = targetClk
    PROVE  FtTypeOK' /\ Wiring'
<1>1. /\ ports' \in [Sockets -> Seq([kind : {"interface", "port"}, of : Sockets])]
      /\ \A y, q \in Sockets : HasPort(y, q)' <=> HasPort(y, q) \/ (y = l /\ q = u)
      /\ \A y, f \in Sockets : HasInterface(y, f)' <=> HasInterface(y, f)
  BY BoundToPort
<1>2. FtTypeOK'
  <2>1. exports' \in [Sockets -> Sockets \cup {NoSocket}]
    BY DEF FtTypeOK
  <2>2. child' \in [Sockets -> Sockets \cup {NoSocket}]
    BY DEF FtTypeOK
  <2>3. parent' \in [Sockets -> Sockets \cup {NoSocket}]
    BY DEF FtTypeOK
  <2>4. isScPortBound' \in [Sockets -> BOOLEAN]
    BY DEF FtTypeOK
  <2> QED
    BY <1>1, <2>1, <2>2, <2>3, <2>4 DEF FtTypeOK
<1>3. \A x \in Sockets : ExportsAt(x) /\ ParentsAt(x) /\ PeersAt(x)
  BY DEF Wiring
<1>4. Untouched(u) /\ u # l /\ u # NoSocket /\ l # NoSocket
  BY <1>3, FtSocketsAssumption DEF ExportsAt
<1>5. /\ exports'[u] = exports[l] /\ child'[u] = l
      /\ \A x \in Sockets : x # u => exports'[x] = exports[x] /\ child'[x] = child[x]
      /\ \A x \in Sockets : parent'[x] = parent[x] \/ (x = l /\ parent'[x] = u)
      /\ l \in Targets => parent'[l] = u
      /\ isScPortBound'[l] /\ \A x \in Sockets : x # l => isScPortBound'[x] = isScPortBound[x]
  BY DEF FtTypeOK
\* Nobody had u for a parent, a child or a peer.
<1>6. \A x \in Sockets : child[x] # u /\ parent[x] # u /\ peer[x] # u
  BY <1>4, TheOthersHaveExports
<1>7. ASSUME NEW x \in Sockets
      PROVE  ExportsAt(x)'
  <2>1. exports'[l] = exports[l]
    BY <1>4, <1>5
  <2>2. CASE x = u
    <3>1. ~isImplementer'[x] /\ child'[x] = l /\ exports'[x] = exports[l]
      BY <1>4, <1>5, <2>2 DEF Untouched
    <3> QED
      BY <1>4, <2>1, <2>2, <3>1 DEF ExportsAt
  <2>3. CASE x # u
    <3>1. exports[x] = NoSocket => Untouched(x)'
      <4>1. SUFFICES ASSUME exports[x] = NoSocket
                     PROVE  Untouched(x)'
        OBVIOUS
      <4>2. Untouched(x) /\ x # l
        BY <1>3, <4>1 DEF ExportsAt
      <4>3. parent'[x] = NoSocket /\ child'[x] = NoSocket
        BY <1>5, <2>3, <4>2 DEF Untouched
      <4> QED
        BY <1>1, <4>2, <4>3 DEF Untouched
    <3>2. child[x] # NoSocket => exports'[child[x]] = exports[child[x]]
      BY <1>5, <1>6, TheOthersHaveExports
    <3>3. ExportsAt(x) /\ exports'[x] = exports[x] /\ child'[x] = child[x]
      BY <1>3, <1>5, <2>3
    <3> QED
      BY <3>1, <3>2, <3>3 DEF ExportsAt
  <2> QED
    BY <2>2, <2>3
<1>8. ASSUME NEW x \in Sockets
      PROVE  ParentsAt(x)'
  <2>1. ASSUME NEW p \in Sockets
        PROVE  HasPort(x, p)' <=> child'[p] = x
    <3>1. HasPort(x, p) <=> child[p] = x
      BY <1>3 DEF ParentsAt
    <3>2. CASE p = u
      BY <1>1, <1>4, <1>5, <3>1, <3>2, FtSocketsAssumption DEF Untouched
    <3>3. CASE p # u
      BY <1>1, <1>5, <3>1, <3>3
    <3> QED
      BY <3>2, <3>3
  <2>2. parent'[x] # NoSocket => child'[parent'[x]] = x
    <3>1. CASE x = l /\ parent'[x] = u
      BY <1>5, <3>1
    <3>2. CASE parent'[x] = parent[x]
      <4>1. parent[x] # NoSocket => parent[x] \in Sockets /\ parent[x] # u /\ child[parent[x]] = x
        BY <1>3, <1>6, TheOthersHaveExports DEF ParentsAt
      <4> QED
        BY <1>5, <3>2, <4>1
    <3> QED
      BY <1>5, <3>1, <3>2
  <2>3. x \in Targets /\ child'[x] # NoSocket => parent'[child'[x]] # NoSocket
    <3>1. SUFFICES ASSUME x \in Targets, child'[x] # NoSocket
                   PROVE  parent'[child'[x]] # NoSocket
      OBVIOUS
    <3>2. CASE x = u
      BY <1>4, <1>5, <3>1, <3>2
    <3>3. CASE x # u
      <4>1. child'[x] = child[x] /\ child[x] \in Sockets /\ parent[child[x]] # NoSocket
        BY <1>3, <1>5, <3>1, <3>3, TheOthersHaveExports DEF ParentsAt
      <4> QED
        BY <1>4, <1>5, <4>1
    <3> QED
      BY <3>2, <3>3
  <2>4. x \in Initiators /\ (parent'[x] # NoSocket \/ peer'[x] # NoSocket) => isScPortBound'[x]
    <3>1. CASE x = l
      BY <1>5, <3>1
    <3>2. CASE x # l
      <4>1. parent'[x] = parent[x] /\ isScPortBound'[x] = isScPortBound[x]
        BY <1>5, <3>2
      <4> QED
        BY <1>3, <4>1 DEF ParentsAt
    <3> QED
      BY <3>1, <3>2
  <2> QED
    BY <2>1, <2>2, <2>3, <2>4 DEF ParentsAt
<1>9. ASSUME NEW x \in Sockets, peer[x] # NoSocket
      PROVE  PeersAt(x)'
  <2>1. PICK y \in Sockets :
           y = peer[x] /\ y # u /\ x # u /\ exports[x] \in Sockets /\ exports[y] \in Sockets
    BY <1>4, <1>6, <1>9, TheOthersHaveExports DEF FtTypeOK, Untouched
  <2>2. exports'[x] = exports[x] /\ exports'[y] = exports[y]
    BY <1>5, <2>1
  <2>3. peer[y] # NoSocket => exports'[peer[y]] = exports[peer[y]]
    BY <1>5, <1>6, TheOthersHaveExports
  <2>4. PeersAt(x)
    BY <1>3
  <2>5. HasInterface(x, exports[y]) /\ HasInterface(y, exports[x])
    BY <1>9, <2>1, <2>4 DEF PeersAt
  <2>6. HasInterface(x, exports[y])' /\ HasInterface(y, exports[x])'
    BY <1>1, <2>1, <2>2, <2>5 DEF HasInterface
  <2> QED
    BY <1>9, <2>1, <2>2, <2>3, <2>4, <2>6 DEF PeersAt
<1>10. \A x \in Sockets : PeersAt(x)'
  BY <1>9 DEF PeersAt
<1>11. NoCycle(parent)'
  <2>1. SUFFICES ASSUME NEW X \in SUBSET Sockets, X # {}
                 PROVE  \E x \in X : parent'[x] \notin X
    BY DEF NoCycle
  <2>2. NoSocket \notin X
    BY FtSocketsAssumption
  <2>3. CASE u \in X
    <3>1. parent'[u] = NoSocket
      BY <1>4, <1>5 DEF Untouched
    <3> QED
      BY <2>2, <2>3, <3>1
  <2>4. CASE u \notin X
    <3>1. PICK x \in X : parent[x] \notin X
      BY <2>1 DEF Wiring, NoCycle
    <3> QED
      BY <1>5, <2>4, <3>1
  <2> QED
    BY <2>3, <2>4
<1>12. NoCycle(child)'
  <2>1. SUFFICES ASSUME NEW X \in SUBSET Sockets, X # {}
                 PROVE  \E x \in X : child'[x] \notin X
    BY DEF NoCycle
  <2> DEFINE Y == X \ {u}
  <2>2. CASE Y = {}
    <3>1. X = {u}
      BY <2>1, <2>2
    <3> QED
      BY <1>4, <1>5, <3>1
  <2>3. CASE Y # {}
    <3>1. PICK x \in Y : child[x] \notin Y
      <4>1. Y \in SUBSET Sockets
        OBVIOUS
      <4> QED
        BY <2>3, <4>1 DEF Wiring, NoCycle
    <3>2. child[x] \notin X
      BY <1>6, <3>1
    <3> QED
      BY <1>5, <3>1, <3>2
  <2> QED
    BY <2>2, <2>3
<1> QED
  BY <1>2, <1>7, <1>8, <1>10, <1>11, <1>12 DEF Wiring
-----------------------------------------------------------------------------
\* What is asked for and set is asked for and set after the binding.
Beginning ==
    ~elaborated => /\ handled = {} /\ asked = {}
                   /\ \A t \in Targets : ~isInterceptActive[t]
                   /\ \A s \in Sockets : targetClk[s] = 0

\* Bindings are made as Wiring says, and checked by SystemC.
BindingInv == FtTypeOK /\ Wiring /\ SystemCAgreed /\ Beginning

\* The steps after the binding leave the handles, and what follows from them.
LEMMA BindingsStay ==
    ASSUME UNCHANGED binding
    PROVE  /\ Wiring => Wiring'
           /\ \A s \in Sockets : Interfaces(s)' = Interfaces(s)
           /\ \A s \in Sockets : ReachesOneTwice(s)' <=> ReachesOneTwice(s)
           /\ TowardsTarget' = TowardsTarget /\ TowardsInitiator' = TowardsInitiator
<1>1. /\ exports' = exports /\ ports' = ports /\ isImplementer' = isImplementer
      /\ isScPortBound' = isScPortBound /\ parent' = parent /\ child' = child /\ peer' = peer
  BY DEF binding
<1>2. \A x, y \in Sockets : /\ HasPort(x, y)' <=> HasPort(x, y)
                            /\ HasInterface(x, y)' <=> HasInterface(x, y)
  BY <1>1 DEF HasPort, HasInterface
<1>3. ASSUME Wiring
      PROVE  Wiring'
  <2>1. \A x \in Sockets : ExportsAt(x)'
    BY <1>1, <1>2, <1>3 DEF Wiring, ExportsAt, Untouched
  <2>2. \A x \in Sockets : ParentsAt(x)'
    BY <1>1, <1>2, <1>3 DEF Wiring, ParentsAt
  <2>3. \A x \in Sockets : PeersAt(x)'
    BY <1>1, <1>3 DEF Wiring, PeersAt, HasInterface
  <2>4. NoCycle(parent)' /\ NoCycle(child)'
    BY <1>1, <1>3 DEF Wiring, NoCycle
  <2> QED
    BY <2>1, <2>2, <2>3, <2>4 DEF Wiring
<1>4. PortBindings' = PortBindings
  BY <1>1 DEF PortBindings
<1>5. \A s \in Sockets : Interfaces(s)' = Interfaces(s)
  BY <1>1, <1>4 DEF Interfaces, BoundPorts
<1>6. \A s \in Sockets : ReachesOneTwice(s)' <=> ReachesOneTwice(s)
  BY <1>1, <1>4 DEF ReachesOneTwice, BoundPorts
<1>7. TowardsTarget' = TowardsTarget /\ TowardsInitiator' = TowardsInitiator
  BY <1>1 DEF TowardsTarget, TowardsInitiator, Down
<1> QED
  BY <1>3, <1>5, <1>6, <1>7

\* Nothing is bound at first.
LEMMA BindingBegins ==
    FtInit => BindingInv
<1>1. SUFFICES ASSUME FtInit
               PROVE  BindingInv
  OBVIOUS
<1>2. FtTypeOK
  <2>1. \A B : ports \in [Sockets -> Seq(B)]
    BY <1>1 DEF FtInit
  <2>2. isInterceptActive \in [Targets -> BOOLEAN] /\ targetClk \in [Sockets -> ClockPeriods]
    BY <1>1, FtSocketsAssumption DEF FtInit
  <2>3. /\ elaborated \in BOOLEAN /\ handled \subseteq Sockets /\ asked \subseteq Sockets
        /\ exports \in [Sockets -> Sockets \cup {NoSocket}]
        /\ isImplementer \in [Sockets -> BOOLEAN] /\ isScPortBound \in [Sockets -> BOOLEAN]
        /\ parent \in [Sockets -> Sockets \cup {NoSocket}]
        /\ child \in [Sockets -> Sockets \cup {NoSocket}]
        /\ peer \in [Sockets -> Sockets \cup {NoSocket}]
        /\ forward \in [Sockets -> Sockets \cup {NoSocket, Intercept}]
    BY <1>1 DEF FtInit
  <2> QED
    BY <2>1, <2>2, <2>3 DEF FtTypeOK
<1>3. \A x \in Sockets : ports[x] = << >>
  BY <1>1 DEF FtInit
<1>4. \A x, y \in Sockets : ~HasPort(x, y) /\ ~HasInterface(x, y)
  BY <1>3 DEF HasPort, HasInterface, ToSet
<1>5. /\ \A x \in Sockets : /\ exports[x] = NoSocket /\ ~isImplementer[x] /\ parent[x] = NoSocket
                            /\ child[x] = NoSocket /\ peer[x] = NoSocket
      /\ NoSocket \notin Sockets
  BY <1>1, FtSocketsAssumption DEF FtInit
<1>6. \A x \in Sockets : ExportsAt(x) /\ ParentsAt(x) /\ PeersAt(x)
  BY <1>4, <1>5 DEF ExportsAt, ParentsAt, PeersAt, Untouched
<1>7. NoCycle(parent) /\ NoCycle(child)
  BY <1>5 DEF NoCycle
<1>8. SystemCAgreed /\ Beginning
  BY <1>1 DEF SystemCAgreed, Beginning, FtInit, Sockets
<1> QED
  BY <1>2, <1>6, <1>7, <1>8 DEF BindingInv, Wiring

\* The steps before the end of the binding.
LEMMA BindingKeeps ==
    ASSUME BindingInv,
           \/ \E s \in Sockets : BindToInterface(s)
           \/ \E i \in Initiators, t \in Targets :
                 InitiatorBindToPeer(i, t) \/ TargetBindToPeer(t, i)
           \/ \E e \in Encloses : \/ e[1] \in Initiators /\ BindToParent(e[2], e[1])
                                  \/ e[1] \in Targets /\ BindToChild(e[1], e[2])
    PROVE  BindingInv' /\ ~elaborated /\ ~elaborated'
<1> USE DEF BindingInv
<1>1. FtTypeOK' /\ Wiring'
  <2>1. ASSUME NEW s \in Sockets, BindToInterface(s)
        PROVE  FtTypeOK' /\ Wiring'
    BY <2>1, BindToInterfaceKeeps
  <2>2. ASSUME NEW i \in Initiators, NEW t \in Targets,
               InitiatorBindToPeer(i, t) \/ TargetBindToPeer(t, i)
        PROVE  FtTypeOK' /\ Wiring'
    BY <2>2, BindToPeerKeeps
  <2>3. ASSUME NEW e \in Encloses, e[1] \in Initiators, BindToParent(e[2], e[1])
        PROVE  FtTypeOK' /\ Wiring'
    <3>1. PICK p \in Initiators, i \in Initiators : e = << p, i >>
      BY <2>3, FtSocketsAssumption
    <3>2. p \in Sockets /\ i \in Sockets /\ p \notin Targets /\ i \notin Targets
          /\ << p, i >> \in Encloses /\ BindToParent(i, p)
      BY <2>3, <3>1, FtSocketsAssumption DEF Sockets
    <3>3. parent' = [parent EXCEPT ![i] = p] \/ parent' = parent
      BY <3>2 DEF BindToParent, FtTypeOK
    <3> QED
      BY <3>2, <3>3, HandedUp DEF BindToParent
  <2>4. ASSUME NEW e \in Encloses, e[1] \in Targets, BindToChild(e[1], e[2])
        PROVE  FtTypeOK' /\ Wiring'
    <3>1. PICK t \in Targets, c \in Targets : e = << t, c >>
      BY <2>4, FtSocketsAssumption
    <3>2. t \in Sockets /\ c \in Sockets /\ << t, c >> \in Encloses /\ BindToChild(t, c)
      BY <2>4, <3>1 DEF Sockets
    <3> QED
      BY <3>1, <3>2, HandedUp DEF BindToChild
  <2> QED
    BY <2>1, <2>2, <2>3, <2>4
<1>2. /\ ~elaborated /\ elaborated' = elaborated /\ handled' = handled /\ asked' = asked
      /\ isInterceptActive' = isInterceptActive /\ targetClk' = targetClk
  BY DEF BindToInterface, InitiatorBindToPeer, TargetBindToPeer, Connected, BindToParent, BindToChild
<1> QED
  BY <1>1, <1>2 DEF SystemCAgreed, Beginning

\* The steps from then on.
LEMMA ElaborationKeeps ==
    ASSUME BindingInv,
           \/ \E s \in Sockets : EndOfElaboration(s)
           \/ CompleteBinding
           \/ \E t \in Targets, period \in ClockPeriods : SetClock(t, period)
           \/ Intercepted
           \/ UNCHANGED ftVars
    PROVE  BindingInv'
<1> USE DEF BindingInv
<1>1. UNCHANGED binding
  BY DEF EndOfElaboration, CompleteBinding, SetClock, Intercepted, ReplaceInterfaceTargetPort,
         ReplaceInterfaceInitPort, ftVars
<1>2. Wiring'
  BY <1>1, BindingsStay
<1>3. FtTypeOK'
  <2>1. CASE \E s \in Sockets : EndOfElaboration(s)
    <3>1. PICK s \in Sockets : EndOfElaboration(s)
      BY <2>1
    <3>2. forward' \in [Sockets -> Sockets \cup {NoSocket, Intercept}]
      <4>1. CASE \E f \in Sockets : SetsForward(s, f)
        <5>1. PICK f \in Sockets : f = CHOOSE g \in Sockets : SetsForward(s, g)
          BY <4>1
        <5>2. forward' = [forward EXCEPT ![s] = f]
          BY <3>1, <4>1, <5>1 DEF EndOfElaboration
        <5> QED
          BY <5>2 DEF FtTypeOK
      <4>2. CASE ~\E f \in Sockets : SetsForward(s, f)
        <5>1. forward' = [forward EXCEPT ![s] = forward[s]]
          BY <3>1, <4>2 DEF EndOfElaboration
        <5> QED
          BY <5>1 DEF FtTypeOK
      <4> QED
        BY <4>1, <4>2
    <3>3. /\ handled' \subseteq Sockets /\ elaborated' = elaborated /\ asked' = asked
          /\ isInterceptActive' = isInterceptActive /\ targetClk' = targetClk
      BY <3>1 DEF EndOfElaboration, FtTypeOK
    <3> QED
      BY <1>1, <3>2, <3>3 DEF FtTypeOK, binding
  <2>2. CASE CompleteBinding
    BY <2>2 DEF FtTypeOK, CompleteBinding, binding
  <2>3. CASE \E t \in Targets, period \in ClockPeriods : SetClock(t, period)
    BY <2>3 DEF FtTypeOK, SetClock, binding
  <2>4. CASE Intercepted
    <3>1. asked' \subseteq Sockets
      <4>1. PICK i \in Exclusive :
               ReplaceInterfaceTargetPort(i) \/ \E t \in Interfaces(i) : ReplaceInterfaceInitPort(t)
        BY <2>4 DEF Intercepted
      <4>2. i \in Sockets
        BY DEF Exclusive, Sockets
      <4>3. \A t \in Interfaces(i) : t \in Sockets
        BY DEF Interfaces
      <4>4. \E s \in Sockets : asked' = asked \cup {s}
        BY <4>1, <4>2, <4>3 DEF ReplaceInterfaceTargetPort, ReplaceInterfaceInitPort, MayAsk
      <4> QED
        BY <4>4 DEF FtTypeOK
    <3>2. \/ isInterceptActive' = isInterceptActive
          \/ \E t : isInterceptActive' = [isInterceptActive EXCEPT ![t] = TRUE]
      BY <2>4 DEF Intercepted, ReplaceInterfaceTargetPort, ReplaceInterfaceInitPort
    <3>3. \/ \E t : forward' = [forward EXCEPT ![t] = forward[t]]
          \/ \E t : forward' = [forward EXCEPT ![t] = Intercept]
      BY <2>4 DEF Intercepted, ReplaceInterfaceTargetPort, ReplaceInterfaceInitPort
    <3>4. forward' \in [Sockets -> Sockets \cup {NoSocket, Intercept}]
      BY <3>3 DEF FtTypeOK
    <3>5. isInterceptActive' \in [Targets -> BOOLEAN]
      BY <3>2 DEF FtTypeOK
    <3>6. elaborated' = elaborated /\ handled' = handled /\ targetClk' = targetClk
      BY <2>4 DEF Intercepted, ReplaceInterfaceTargetPort, ReplaceInterfaceInitPort
    <3> QED
      BY <1>1, <3>1, <3>4, <3>5, <3>6 DEF FtTypeOK, binding
  <2>5. CASE UNCHANGED ftVars
    BY <2>5 DEF FtTypeOK, ftVars, binding
  <2> QED
    BY <2>1, <2>2, <2>3, <2>4, <2>5
<1>4. SystemCAgreed'
  <2>1. \/ elaborated' = elaborated
        \/ \A s \in Sockets : /\ exports[s] # NoSocket
                              /\ Interfaces(s) # {} \/ s \in Optional
                              /\ ~ReachesOneTwice(s)
    BY DEF EndOfElaboration, CompleteBinding, SetClock, Intercepted, ReplaceInterfaceTargetPort,
           ReplaceInterfaceInitPort, ftVars
  <2>2. exports' = exports
    BY <1>1 DEF binding
  <2> QED
    BY <1>1, <2>1, <2>2, BindingsStay DEF SystemCAgreed
<1>5. Beginning'
  <2>1. ASSUME ~elaborated'
        PROVE  UNCHANGED ftVars
    <3>1. ~ \E t \in Targets, period \in ClockPeriods : SetClock(t, period)
      <4>1. ASSUME NEW t \in Targets, NEW period \in ClockPeriods, SetClock(t, period)
            PROVE  FALSE
        BY <2>1, <4>1 DEF SetClock, Beginning, Sockets
      <4> QED  BY <4>1
    <3>2. ~Intercepted
      BY <2>1 DEF Intercepted, Exclusive, ReplaceInterfaceTargetPort, ReplaceInterfaceInitPort
    <3> QED
      BY <2>1, <3>1, <3>2 DEF EndOfElaboration, CompleteBinding
  <2> QED
    BY <2>1 DEF Beginning, ftVars
<1> QED
  BY <1>2, <1>3, <1>4, <1>5

\* Bindings are made as Wiring says, in whatever order, and stay so after SystemC
\* has checked them.
THEOREM BindingInvariance == FtSpec => []BindingInv
<1>1. FtInit => BindingInv
  BY BindingBegins
<1>2. BindingInv /\ [FtNext]_ftVars => BindingInv'
  BY BindingKeeps, ElaborationKeeps DEF FtNext
<1> QED
  BY <1>1, <1>2, PTL DEF FtSpec
-----------------------------------------------------------------------------
\* Commands end where the TLM calls end, whatever the hierarchy and the order of
\* the bindings (execute_command of both sockets).
THEOREM CommandsArrive ==
    ASSUME NoIdleTwins
    PROVE  FtSpec => []CommandsFollowTheCalls
<1>1. BindingInv => CommandsFollowTheCalls
  <2>1. ASSUME BindingInv, NEW i \in Exclusive
        PROVE  LET t == FarEnd(TowardsTarget, i)
               IN  /\ Interfaces(i) = {t} /\ Interfaces(t) = {i}
                   /\ FarEnd(TowardsInitiator, t) = i
    BY <2>1, ExclusiveHasATarget DEF BindingInv, SoleTarget
  <2> QED
    BY <2>1 DEF CommandsFollowTheCalls
<1> QED
  BY <1>1, BindingInvariance, PTL

\* The sole target is one, and its initiator too (SoleTarget).
LEMMA OneSoleTarget ==
    ASSUME NEW i, NEW t, NEW j, NEW u, SoleTarget(i, t), SoleTarget(j, u)
    PROVE  i = j <=> t = u
BY DEF SoleTarget

\* The steps after the binding leave the ways, and who is alone on them; before
\* it nobody counts.
LEMMA SoleTargetsStay ==
    ASSUME UNCHANGED binding, BindingInv
    PROVE  /\ \A i \in Initiators, t \in Targets : SoleTarget(i, t)' <=> SoleTarget(i, t)
           /\ elaborated' = elaborated => Exclusive' = Exclusive
<1>1. /\ isImplementer' = isImplementer /\ isScPortBound' = isScPortBound
      /\ TowardsTarget' = TowardsTarget /\ TowardsInitiator' = TowardsInitiator
      /\ \A s \in Sockets : Interfaces(s)' = Interfaces(s)
  BY BindingsStay DEF binding
<1>2. \A i \in Initiators, t \in Targets : SoleTarget(i, t)' <=> SoleTarget(i, t)
  BY <1>1 DEF SoleTarget, Sockets
<1>3. ASSUME elaborated' = elaborated
      PROVE  Exclusive' = Exclusive
  <2>1. ASSUME NEW i \in Initiators
        PROVE  IsMultiBound(i)' <=> IsMultiBound(i)
    <3> DEFINE Q == Reached(TowardsTarget, i)
    <3>1. Q \subseteq Sockets \cup {NoSocket}
      <4>1. \A e \in TowardsTarget : e[2] \in Sockets \cup {NoSocket}
        BY DEF TowardsTarget, Down, BindingInv, FtTypeOK, Sockets
      <4> QED
        BY <4>1, ReachedWithin DEF Sockets
    <3>2. \A x \in Q : x # NoSocket => Interfaces(x)' = Interfaces(x)
      BY <1>1, <3>1
    <3> QED
      BY <1>1, <3>2 DEF IsMultiBound
  <2> QED
    BY <1>1, <1>3, <2>1 DEF Exclusive
<1> QED
  BY <1>2, <1>3

-----------------------------------------------------------------------------
\* The two ends of a way that nobody shares: whom they call, and who asked.
ForwardAt(i, t) ==
    /\ isInterceptActive[t] => i \in asked
    /\ i \in asked => t \in handled
    /\ t \in asked => i \in handled
    /\ i \in handled => forward[i] = IF t \in asked THEN Intercept ELSE t
    /\ t \in handled => forward[t] = IF i \in asked THEN Intercept ELSE i

ForwardInv ==
    \A i \in Exclusive, t \in Targets : SoleTarget(i, t) => ForwardAt(i, t)

\* handle_end_of_elaboration sets each forward pointer before anybody may have
\* replaced it.
LEMMA EndOfElaborationForwards ==
    ASSUME BindingInv, ForwardInv, NEW s \in Sockets, EndOfElaboration(s)
    PROVE  ForwardInv'
<1>1. /\ UNCHANGED binding /\ elaborated' = elaborated /\ s \notin handled
      /\ handled' = handled \cup {s} /\ asked' = asked /\ isInterceptActive' = isInterceptActive
  BY DEF EndOfElaboration
<1>2. SUFFICES ASSUME NEW i \in Exclusive, NEW t \in Targets, SoleTarget(i, t)
               PROVE  ForwardAt(i, t)'
  BY <1>1, SoleTargetsStay DEF ForwardInv, Exclusive
<1>3. ForwardAt(i, t) /\ i \in Initiators /\ isImplementer[i]
  BY <1>2 DEF ForwardInv, Exclusive
<1>4. i # t /\ i \in Sockets /\ t \in Sockets /\ t \notin Initiators
  BY <1>3, FtSocketsAssumption DEF Sockets
<1>5. /\ SetsForward(i, t) /\ \A f \in Sockets : SetsForward(i, f) => f = t
      /\ SetsForward(t, i) /\ \A f \in Sockets : SetsForward(t, f) => f = i
  BY <1>2, <1>3, <1>4 DEF SetsForward, SoleTarget
<1>6. \A x \in Sockets : x # s => forward'[x] = forward[x]
  BY DEF EndOfElaboration, BindingInv, FtTypeOK
<1>7. ASSUME NEW f \in Sockets, SetsForward(s, f), \A g \in Sockets : SetsForward(s, g) => g = f
      PROVE  forward'[s] = f
  <2>1. f = CHOOSE g \in Sockets : SetsForward(s, g)
    BY <1>7
  <2>2. forward' = [forward EXCEPT ![s] = f]
    BY <1>7, <2>1 DEF EndOfElaboration
  <2> QED
    BY <2>2 DEF BindingInv, FtTypeOK
<1>8. CASE s = i
  <2>1. forward'[i] = t
    BY <1>4, <1>5, <1>7, <1>8
  <2> QED
    BY <1>1, <1>3, <1>4, <1>6, <1>8, <2>1 DEF ForwardAt
<1>9. CASE s = t
  <2>1. forward'[t] = i
    BY <1>4, <1>5, <1>7, <1>9
  <2> QED
    BY <1>1, <1>3, <1>4, <1>6, <1>9, <2>1 DEF ForwardAt
<1>10. CASE s # i /\ s # t
  BY <1>1, <1>3, <1>4, <1>6, <1>10 DEF ForwardAt
<1> QED
  BY <1>8, <1>9, <1>10

\* An intercept is asked for on one way, and put at its other end.
LEMMA InterceptForwards ==
    ASSUME BindingInv, ForwardInv, NoIdleTwins, ~EarlyIntercepts, Intercepted
    PROVE  ForwardInv'
<1>1. PICK j \in Exclusive :
        ReplaceInterfaceTargetPort(j) \/ \E t \in Interfaces(j) : ReplaceInterfaceInitPort(t)
  BY DEF Intercepted
<1>2. PICK u \in Targets : SoleTarget(j, u)
  BY ExclusiveHasATarget DEF BindingInv
<1>3. /\ UNCHANGED binding /\ elaborated' = elaborated /\ handled' = handled
  BY <1>1 DEF ReplaceInterfaceTargetPort, ReplaceInterfaceInitPort
<1>4. SUFFICES ASSUME NEW i \in Exclusive, NEW t \in Targets, SoleTarget(i, t)
               PROVE  ForwardAt(i, t)'
  BY <1>3, SoleTargetsStay DEF ForwardInv, Exclusive
<1>5. ForwardAt(i, t) /\ ForwardAt(j, u)
  BY <1>2, <1>4 DEF ForwardInv
<1>6. /\ {i, j, t, u} \subseteq Sockets /\ i # t /\ i # u /\ j # t /\ j # u
      /\ i = j <=> t = u
  BY <1>2, <1>4, OneSoleTarget, FtSocketsAssumption DEF Exclusive, Sockets
<1>7. CASE ReplaceInterfaceTargetPort(j)
  <2>1. FarEnd(TowardsTarget, j) = u
    BY <1>2 DEF SoleTarget
  <2>2. /\ j \notin asked /\ u \in handled /\ asked' = asked \cup {j}
        /\ forward' = [forward EXCEPT ![u] = IF isInterceptActive[u] THEN @ ELSE Intercept]
        /\ isInterceptActive' = [isInterceptActive EXCEPT ![u] = TRUE]
    BY <1>7, <2>1 DEF ReplaceInterfaceTargetPort, MayAsk
  <2>3. ~isInterceptActive[u]
    BY <1>5, <2>2 DEF ForwardAt
  <2>4. forward'[u] = Intercept /\ \A x \in Sockets : x # u => forward'[x] = forward[x]
    BY <1>6, <2>2, <2>3 DEF BindingInv, FtTypeOK
  <2>5. t # u => isInterceptActive'[t] = isInterceptActive[t]
    BY <2>2 DEF BindingInv, FtTypeOK
  <2>6. CASE i = j
    BY <1>3, <1>5, <1>6, <2>2, <2>4, <2>6 DEF ForwardAt
  <2>7. CASE i # j
    BY <1>3, <1>5, <1>6, <2>2, <2>4, <2>5, <2>7 DEF ForwardAt
  <2> QED
    BY <2>6, <2>7
<1>8. CASE \E x \in Interfaces(j) : ReplaceInterfaceInitPort(x)
  <2>1. ReplaceInterfaceInitPort(u) /\ FarEnd(TowardsInitiator, u) = j
    BY <1>2, <1>8 DEF SoleTarget
  <2>2. /\ u \notin asked /\ j \in handled /\ asked' = asked \cup {u}
        /\ forward' = [forward EXCEPT ![j] = Intercept]
        /\ isInterceptActive' = isInterceptActive
    BY <2>1 DEF ReplaceInterfaceInitPort, MayAsk
  <2>3. forward'[j] = Intercept /\ \A x \in Sockets : x # j => forward'[x] = forward[x]
    BY <1>6, <2>2 DEF BindingInv, FtTypeOK
  <2>4. CASE i = j
    BY <1>3, <1>5, <1>6, <2>2, <2>3, <2>4 DEF ForwardAt
  <2>5. CASE i # j
    BY <1>3, <1>5, <1>6, <2>2, <2>3, <2>5 DEF ForwardAt
  <2> QED
    BY <2>4, <2>5
<1> QED
  BY <1>1, <1>7, <1>8

\* The inductive step for the forward pointers.
LEMMA ForwardKeeps ==
    ASSUME BindingInv, ForwardInv, NoIdleTwins, ~EarlyIntercepts, [FtNext]_ftVars
    PROVE  ForwardInv'
<1>1. CASE ~elaborated'
  BY <1>1 DEF ForwardInv, Exclusive
<1>2. CASE elaborated' /\ CompleteBinding
  <2>1. handled' = {} /\ asked' = {} /\ \A t \in Targets : ~isInterceptActive'[t]
    BY <1>2 DEF CompleteBinding, BindingInv, Beginning
  <2> QED
    BY <2>1 DEF ForwardInv, ForwardAt
<1>3. CASE \E s \in Sockets : EndOfElaboration(s)
  BY <1>3, EndOfElaborationForwards
<1>4. CASE Intercepted
  BY <1>4, InterceptForwards
<1>5. CASE \/ \E t \in Targets, period \in ClockPeriods : SetClock(t, period)
           \/ UNCHANGED ftVars
  <2>1. /\ UNCHANGED binding /\ elaborated' = elaborated /\ handled' = handled
        /\ asked' = asked /\ isInterceptActive' = isInterceptActive /\ forward' = forward
    BY <1>5 DEF SetClock, ftVars
  <2>2. \A i, t : ForwardAt(i, t)' <=> ForwardAt(i, t)
    BY <2>1 DEF ForwardAt
  <2>3. Exclusive' = Exclusive /\ \A i \in Initiators, t \in Targets : SoleTarget(i, t)' <=> SoleTarget(i, t)
    BY <2>1, SoleTargetsStay
  <2>4. \A i \in Exclusive : i \in Initiators
    BY DEF Exclusive
  <2> QED
    BY <2>2, <2>3, <2>4 DEF ForwardInv
<1> QED
  BY <1>1, <1>2, <1>3, <1>4, <1>5, BindingKeeps DEF FtNext

\* After its end of elaboration a socket calls its peer, or the intercept the peer
\* has asked for, when intercepts are not asked for earlier
\* (handle_end_of_elaboration and the replacements).
THEOREM ForwardPointersStayRight ==
    ASSUME NoIdleTwins, ~EarlyIntercepts
    PROVE  FtSpec => []ForwardPointersAreRight
<1>1. FtInit => BindingInv /\ ForwardInv
  <2>1. FtInit => ForwardInv
    BY DEF FtInit, ForwardInv, Exclusive
  <2> QED
    BY <2>1, BindingBegins
<1>2. BindingInv /\ ForwardInv /\ [FtNext]_ftVars => BindingInv' /\ ForwardInv'
  BY BindingKeeps, ElaborationKeeps, ForwardKeeps DEF FtNext
<1>3. BindingInv /\ ForwardInv => ForwardPointersAreRight
  <2>1. SUFFICES ASSUME BindingInv, ForwardInv, NEW i \in Exclusive,
                        NEW s \in {i} \cup Interfaces(i), s \in handled, NEW f \in Interfaces(s)
                 PROVE  forward[s] = IF f \in asked THEN Intercept ELSE f
    BY DEF ForwardPointersAreRight
  <2>2. PICK t \in Targets : SoleTarget(i, t)
    BY <2>1, ExclusiveHasATarget DEF BindingInv
  <2>3. ForwardAt(i, t) /\ Interfaces(i) = {t} /\ Interfaces(t) = {i}
    BY <2>1, <2>2 DEF ForwardInv, SoleTarget
  <2> QED
    BY <2>1, <2>3 DEF ForwardAt
<1> QED
  BY <1>1, <1>2, <1>3, PTL DEF FtSpec
-----------------------------------------------------------------------------
ClockInStep ==
    \A i \in Exclusive, t \in Targets : SoleTarget(i, t) => targetClk[i] = targetClk[t]

\* Who implements a target's export is below all that a walk from it comes to:
\* it is met first.
LEMMA ImplementersFirst ==
    ASSUME BindingInv, NEW t \in Targets, NEW u \in Targets, isImplementer[u],
           u \in Reached(TowardsInitiator, t)
    PROVE  u = t
<1> DEFINE C == {x \in Sockets \cup {NoSocket} : x = t \/ x \notin Targets \/ ~isImplementer[x]}
<1>1. t \in C
  BY DEF Sockets
<1>2. ASSUME NEW e \in TowardsInitiator, e[1] \in C
      PROVE  e[2] \in C
  <2>1. CASE e[1] \in Initiators
    <3>1. e[2] = child[e[1]] /\ e[2] # NoSocket /\ e[1] \in Sockets
      BY <2>1, FtSocketsAssumption DEF TowardsInitiator, Down, Sockets
    <3>2. ExportsAt(e[1]) /\ e[1] \notin Targets /\ child[e[1]] \in Sockets \cup {NoSocket}
      BY <2>1, <3>1, FtSocketsAssumption DEF BindingInv, Wiring, FtTypeOK
    <3>3. e[2] \in Sockets /\ e[2] \notin Targets
      BY <3>1, <3>2 DEF ExportsAt
    <3> QED
      BY <3>3
  <2>2. CASE e[1] \in Targets /\ peer[e[1]] # NoSocket
    <3>1. e[2] = peer[e[1]] /\ e[1] \in Sockets
      BY <2>2, FtSocketsAssumption DEF TowardsInitiator, Down, Sockets
    <3>2. e[2] \in Sockets /\ e[2] \notin Targets
      BY <2>2, <3>1, FtSocketsAssumption DEF BindingInv, Wiring, PeersAt, FtTypeOK, Sockets
    <3> QED
      BY <3>2
  <2>3. CASE e[1] \in Targets /\ peer[e[1]] = NoSocket
    <3>1. e[2] = parent[e[1]] /\ e[1] \in Sockets
      BY <2>3, FtSocketsAssumption DEF TowardsInitiator, Down, Sockets
    <3>2. e[2] \in Sockets \cup {NoSocket}
      BY <3>1 DEF BindingInv, FtTypeOK
    <3>3. CASE e[2] = NoSocket
      BY <3>3, FtSocketsAssumption DEF Sockets
    <3>4. CASE e[2] # NoSocket
      <4>1. child[e[2]] = e[1] /\ e[1] # NoSocket
        BY <3>1, <3>4, FtSocketsAssumption DEF BindingInv, Wiring, ParentsAt
      <4>2. ~isImplementer[e[2]]
        BY <3>2, <3>4, <4>1 DEF BindingInv, Wiring, ExportsAt
      <4> QED
        BY <3>2, <4>2
    <3> QED
      BY <3>3, <3>4
  <2> QED
    BY <2>1, <2>2, <2>3 DEF TowardsInitiator, Down
<1>3. Reached(TowardsInitiator, t) \subseteq C
  <2> HIDE DEF C
  <2> QED  BY <1>1, <1>2, ReachedWithin
<1> QED
  BY <1>3

\* Initiators that a walk from an implementer comes to are bound to it.
LEMMA WalksAreBound ==
    ASSUME BindingInv, NEW t \in Targets, isImplementer[t], NEW i \in Initiators,
           i \in Reached(TowardsInitiator, t)
    PROVE  t \in Interfaces(i)
<1> DEFINE C == {x \in Sockets \cup {NoSocket} :
                    /\ x \in Targets => exports[x] = t
                    /\ x \in Initiators => t \in Interfaces(x)}
<1>1. t \in C
  <2>1. t \in Sockets /\ t \notin Initiators /\ exports[t] = t
    BY FtSocketsAssumption DEF BindingInv, Wiring, ExportsAt, Sockets
  <2> QED
    BY <2>1
<1>2. ASSUME NEW e \in TowardsInitiator, e[1] \in C
      PROVE  e[2] \in C
  <2>1. CASE e[1] \in Initiators
    <3>1. PICK x \in Sockets : x = e[1] /\ t \in Interfaces(x) /\ x \notin Targets
      BY <1>2, <2>1, FtSocketsAssumption DEF Sockets
    <3>2. e[2] = child[x] /\ e[2] # NoSocket
      BY <2>1, <3>1, FtSocketsAssumption DEF TowardsInitiator, Down
    <3>3. PICK c \in Sockets : c = child[x] /\ c \notin Targets /\ HasPort(c, x)
      <4>1. PICK c \in Sockets : c = child[x] /\ c # NoSocket
        BY <3>2 DEF BindingInv, FtTypeOK
      <4>2. ExportsAt(x) /\ ParentsAt(c)
        BY DEF BindingInv, Wiring
      <4> QED
        BY <3>1, <4>1, <4>2 DEF ExportsAt, ParentsAt
    <3>4. t \in Interfaces(c)
      BY <3>1, <3>3, HandedDown DEF BindingInv
    <3> QED
      BY <3>2, <3>3, <3>4
  <2>2. CASE e[1] \in Targets /\ peer[e[1]] # NoSocket
    <3>1. PICK x \in Sockets : x = e[1] /\ exports[x] = t /\ x \notin Initiators /\ x \in Targets
      BY <1>2, <2>2, FtSocketsAssumption DEF Sockets
    <3>2. e[2] = peer[x]
      BY <2>2, <3>1 DEF TowardsInitiator, Down
    <3>3. PICK y \in Sockets : y = peer[x] /\ y \notin Targets /\ HasInterface(y, t)
      BY <2>2, <3>1 DEF BindingInv, Wiring, PeersAt, FtTypeOK
    <3>4. t \in Interfaces(y)
      BY <3>3, OwnInterface DEF BindingInv, Sockets
    <3> QED
      BY <3>2, <3>3, <3>4
  <2>3. CASE e[1] \in Targets /\ peer[e[1]] = NoSocket
    <3>1. PICK x \in Sockets : x = e[1] /\ exports[x] = t /\ x \notin Initiators /\ x \in Targets
      BY <1>2, <2>3, FtSocketsAssumption DEF Sockets
    <3>2. e[2] = parent[x]
      BY <2>3, <3>1 DEF TowardsInitiator, Down
    <3>3. CASE parent[x] = NoSocket
      BY <3>2, <3>3, FtSocketsAssumption DEF Sockets
    <3>4. CASE parent[x] # NoSocket
      <4>1. PICK p \in Sockets : p = parent[x] /\ child[p] = x /\ x # NoSocket
        BY <3>1, <3>4, FtSocketsAssumption DEF BindingInv, Wiring, ParentsAt, FtTypeOK
      <4>2. exports[p] = t /\ p \in Targets
        BY <3>1, <4>1 DEF BindingInv, Wiring, ExportsAt
      <4> QED
        BY <3>2, <4>1, <4>2, FtSocketsAssumption DEF Sockets
    <3> QED
      BY <3>3, <3>4
  <2> QED
    BY <2>1, <2>2, <2>3 DEF TowardsInitiator, Down
<1>3. Reached(TowardsInitiator, t) \subseteq C
  <2> HIDE DEF C
  <2> QED  BY <1>1, <1>2, ReachedWithin
<1> QED
  BY <1>3

\* set_clock gives the period to both ends of a way or to neither.
LEMMA SetClockKeeps ==
    ASSUME BindingInv, ClockInStep, NEW s \in Targets, NEW period \in ClockPeriods,
           SetClock(s, period)
    PROVE  ClockInStep'
<1>1. /\ UNCHANGED binding /\ elaborated' = elaborated /\ isImplementer[s]
      /\ targetClk' = [x \in Sockets |->
            IF x \in Reached(TowardsInitiator, s)
               /\ (x \in Targets \/ x = FarEnd(TowardsInitiator, s))
            THEN period ELSE targetClk[x]]
  BY DEF SetClock
<1>2. SUFFICES ASSUME NEW i \in Exclusive, NEW t \in Targets, SoleTarget(i, t)
               PROVE  targetClk'[i] = targetClk'[t]
  BY <1>1, SoleTargetsStay DEF ClockInStep, Exclusive
<1>3. i \in Initiators /\ i \in Sockets /\ t \in Sockets /\ i \notin Targets /\ isImplementer[t]
  BY <1>2, FtSocketsAssumption DEF Exclusive, Sockets, SoleTarget
<1>4. targetClk[i] = targetClk[t]
  BY <1>2 DEF ClockInStep
<1>5. CASE s = t
  <2>1. t \in Reached(TowardsInitiator, s) /\ FarEnd(TowardsInitiator, s) = i
    BY <1>2, <1>5, ReachedFirst DEF SoleTarget
  <2>2. i \in Reached(TowardsInitiator, s)
    BY <1>2, <1>5 DEF SoleTarget
  <2> QED
    BY <1>1, <1>3, <2>1, <2>2
<1>6. CASE s # t
  <2>1. t \notin Reached(TowardsInitiator, s)
    BY <1>1, <1>3, <1>6, ImplementersFirst
  <2>2. i \notin Reached(TowardsInitiator, s)
    <3>1. SUFFICES ASSUME i \in Reached(TowardsInitiator, s)
                   PROVE  FALSE
      OBVIOUS
    <3>2. s \in Interfaces(i)
      BY <1>1, <1>3, <3>1, WalksAreBound
    <3> QED
      BY <1>2, <1>6, <3>2 DEF SoleTarget
  <2> QED
    BY <1>1, <1>3, <1>4, <2>1, <2>2
<1> QED
  BY <1>5, <1>6

\* The inductive step for the clock periods.
LEMMA ClockKeeps ==
    ASSUME BindingInv, ClockInStep, [FtNext]_ftVars
    PROVE  ClockInStep'
<1>1. CASE ~elaborated'
  BY <1>1 DEF ClockInStep, Exclusive
<1>2. CASE elaborated' /\ CompleteBinding
  <2>1. \A s \in Sockets : targetClk'[s] = 0
    BY <1>2 DEF CompleteBinding, BindingInv, Beginning
  <2> QED
    BY <2>1 DEF ClockInStep, Exclusive, Sockets
<1>3. CASE \E t \in Targets, period \in ClockPeriods : SetClock(t, period)
  BY <1>3, SetClockKeeps
<1>4. CASE \/ \E s \in Sockets : EndOfElaboration(s)
           \/ Intercepted
           \/ UNCHANGED ftVars
  <2>1. UNCHANGED binding /\ elaborated' = elaborated /\ targetClk' = targetClk
    BY <1>4 DEF EndOfElaboration, Intercepted, ReplaceInterfaceTargetPort, ReplaceInterfaceInitPort,
                ftVars
  <2>2. Exclusive' = Exclusive /\ \A i \in Initiators, t \in Targets : SoleTarget(i, t)' <=> SoleTarget(i, t)
    BY <2>1, SoleTargetsStay
  <2>3. \A i \in Exclusive : i \in Initiators
    BY DEF Exclusive
  <2> QED
    BY <2>1, <2>2, <2>3 DEF ClockInStep
<1> QED
  BY <1>1, <1>2, <1>3, <1>4, BindingKeeps DEF FtNext

\* The period that was pushed to an initiator is the one it would pull (set_clock
\* and get_target_clock).
THEOREM ClocksStayAgreed ==
    ASSUME NoIdleTwins
    PROVE  FtSpec => []ClocksAgree
<1>1. FtInit => BindingInv /\ ClockInStep
  <2>1. FtInit => ClockInStep
    BY DEF FtInit, ClockInStep, Exclusive
  <2> QED
    BY <2>1, BindingBegins
<1>2. BindingInv /\ ClockInStep /\ [FtNext]_ftVars => BindingInv' /\ ClockInStep'
  BY BindingKeeps, ElaborationKeeps, ClockKeeps DEF FtNext
<1>3. BindingInv /\ ClockInStep => ClocksAgree
  <2>1. SUFFICES ASSUME BindingInv, ClockInStep, NEW i \in Exclusive
                 PROVE  targetClk[i] = targetClk[FarEnd(TowardsTarget, i)]
    BY DEF ClocksAgree
  <2>2. PICK t \in Targets : SoleTarget(i, t)
    BY <2>1, ExclusiveHasATarget DEF BindingInv
  <2> QED
    BY <2>1, <2>2 DEF ClockInStep, SoleTarget
<1> QED
  BY <1>1, <1>2, <1>3, PTL DEF FtSpec

-----------------------------------------------------------------------------
\* simple_target_socket.
Stages == {"idle", "called", "sent", "accepted", "working", "responding", "answered"}

Handles ==
    [at : {"start", "suspended", "serving", "pause", "end_response", "responding"},
     trans : Trans, m_trans : Trans, m_suspend : BOOLEAN]

Types ==
    /\ registered \in {"b_transport", "nb_transport"}
    /\ delta \subseteq Events /\ later \subseteq Events \ delta
    /\ caller \in [Trans -> {"away", "end", "done"}] /\ stage \in [Trans -> Stages]
    /\ due \in Seq(Trans) /\ m_pending_trans \subseteq Trans /\ held \subseteq Unmanaged
    /\ b2nb \in [at : {"peq", "calling", "end_request", "pause", "respond", "loop"},
                 trans : Trans \cup {None}]
    /\ m_current_transaction \in Trans \cup {None}
    /\ handles \in Seq(Handles) /\ m_response_in_progress \in BOOLEAN

\* A target called through nb_transport_fw.  The thread is the only process
\* that calls, and nothing else can have made it runnable by then.
OneThread ==
    /\ handles = << >> /\ m_response_in_progress = FALSE
    /\ running \in {Nobody, B2nb}
    /\ running = B2nb <=> b2nb.at \in {"calling", "loop"}
    /\ running = B2nb => B2nb \notin runnable

\* The request that was not ended yet is the one the thread waits for: from the
\* call until the event is notified that makes the thread runnable.  It is
\* notified for nobody else, and once.
RequestOut ==
    /\ b2nb.at \in {"calling", "end_request", "respond"} => b2nb.trans \in Trans
    /\ m_current_transaction = IF b2nb.at = "end_request" THEN b2nb.trans ELSE None
    /\ EndRequest \notin later
    /\ EndRequest \in delta => b2nb.at = "end_request" /\ B2nb \notin runnable
    /\ \A t \in Trans :
        /\ stage[t] = "sent" <=>
             /\ b2nb.trans = t
             /\ \/ b2nb.at = "calling"
                \/ b2nb.at = "end_request" /\ EndRequest \notin delta /\ B2nb \notin runnable
        /\ stage[t] = "responding" <=> b2nb.trans = t /\ b2nb.at = "respond"

\* What m_peq has, or is still to have, was called and not sent.
Queued ==
    /\ \A i \in 1 .. Len(due) : stage[due[i]] = "called" /\ Arrival(due[i]) \notin later
    /\ \A i, j \in 1 .. Len(due) : due[i] = due[j] => i = j
    /\ \A t \in Trans : Arrival(t) \in later => stage[t] = "called"
    /\ \A t \in Trans : Arrival(t) \notin delta

\* A caller inside b_transport goes on when its transaction was answered: its
\* event is notified once, and nothing else makes it runnable before.
CallerWaits(t) ==
    /\ caller[t] = "away" <=> stage[t] = "idle"
    /\ caller[t] = "done" => stage[t] = "answered"
    /\ Caller(t) \in runnable => stage[t] = "answered"
    /\ End(t) \in delta \cup later =>
          stage[t] = "answered" /\ caller[t] = "end" /\ Caller(t) \notin runnable

Blocking == OneThread /\ RequestOut /\ Queued /\ \A t \in Trans : CallerWaits(t)

\* A target called through b_transport.
ThreadUnused ==
    /\ due = << >> /\ b2nb.at = "peq" /\ m_pending_trans = {} /\ held = {}
    /\ B2nb \notin runnable /\ PeqEvent \notin delta \cup later
    /\ \A t \in Trans : /\ caller[t] = "away" /\ stage[t] # "sent"
                        /\ Caller(t) \notin runnable /\ Arrival(t) \notin later

\* A thread that has a transaction to give to the target, or is about to: in
\* m_trans as long as it has not come back from its suspension.
Its(h)  == IF handles[h].at = "suspended" THEN handles[h].m_trans ELSE handles[h].trans
Busy(h) ==
    \/ handles[h].at \in {"start", "serving", "pause", "end_response"}
    \/ handles[h].at = "suspended" /\ Nb2b(h) \in runnable

HandleOK(h) ==
    /\ running = Nb2b(h) <=> handles[h].at = "responding"
    /\ handles[h].m_suspend = TRUE <=> handles[h].at = "suspended"
    /\ handles[h].at = "responding" =>
          stage[handles[h].trans] = "responding" /\ m_response_in_progress = FALSE
    /\ Busy(h) /\ handles[h].at \in {"start", "suspended"} => stage[Its(h)] = "called"
    /\ Busy(h) /\ handles[h].at \notin {"start", "suspended"} => stage[Its(h)] = "working"

\* At most one thread is on its way to the initiator, at most one is with it.
Threads ==
    /\ Len(handles) <= 2
    /\ running = Nobody \/ \E h \in DOMAIN handles : running = Nb2b(h)
    /\ \A h \in DOMAIN handles : HandleOK(h)
    /\ \A h, k \in DOMAIN handles : Busy(h) /\ Busy(k) => h = k

\* A response is in progress, or it is with the initiator.
ResponseOut ==
    /\ \A t \in Trans : stage[t] = "responding" =>
          \/ m_response_in_progress = TRUE
          \/ \E h \in DOMAIN handles : handles[h].at = "responding"
    /\ \A t, u \in Trans : stage[t] = "responding" /\ stage[u] = "responding" => t = u

Nonblocking == ThreadUnused /\ Threads /\ ResponseOut

\* The inductive invariant.
IInv ==
    /\ Types
    /\ registered = "nb_transport" => Blocking
    /\ registered = "b_transport" => Nonblocking

-----------------------------------------------------------------------------
(* Processes, events and notifications.                                    *)

LEMMA Processes ==
  /\ B2nb # Nobody
  /\ \A t \in Trans : Caller(t) # B2nb /\ Caller(t) # Nobody
  /\ \A t, u \in Trans : Caller(t) = Caller(u) => t = u
  /\ \A h \in Nat : Nb2b(h) # B2nb /\ Nb2b(h) # Nobody
  /\ \A h, k \in Nat : Nb2b(h) = Nb2b(k) => h = k
  /\ \A t \in Trans, h \in Nat : Caller(t) # Nb2b(h)
BY DEF B2nb, Nobody, Caller, Nb2b

LEMMA EventNames ==
  /\ PeqEvent # EndRequest
  /\ \A p : Timer(p) \notin {PeqEvent, EndRequest, EndResponse}
  /\ EndResponse \notin {PeqEvent, EndRequest}
  /\ \A t \in Trans : /\ End(t) \notin {PeqEvent, EndRequest, EndResponse}
                      /\ Arrival(t) \notin {PeqEvent, EndRequest, EndResponse}
                      /\ \A p : End(t) # Timer(p) /\ Arrival(t) # Timer(p)
  /\ \A t, u \in Trans : /\ End(t) # Arrival(u)
                         /\ End(t) = End(u) => t = u
                         /\ Arrival(t) = Arrival(u) => t = u
  /\ \A h \in Nat : /\ Start(h) \notin {PeqEvent, EndRequest, EndResponse}
                    /\ \A t \in Trans : Start(h) # End(t) /\ Start(h) # Arrival(t)
BY DEF PeqEvent, EndRequest, EndResponse, Timer, End, Arrival, Start

LEMMA EventsAreNamed ==
  ASSUME SimpleTargetSocketAssumption
  PROVE  /\ {PeqEvent, EndRequest, EndResponse, Timer(B2nb)} \subseteq Events
         /\ \A t \in Trans : End(t) \in Events /\ Arrival(t) \in Events
         /\ \A h \in 1 .. MaxHandles : Start(h) \in Events /\ Timer(Nb2b(h)) \in Events
<1>1. {PeqEvent, EndRequest, EndResponse, Timer(B2nb)} \subseteq Events
  BY DEF Events
<1>2. ASSUME NEW t \in Trans PROVE End(t) \in Events /\ Arrival(t) \in Events
  <2>1. {End(t), Arrival(t)} \in {{End(u), Arrival(u)} : u \in Trans}
    OBVIOUS
  <2> QED BY <2>1 DEF Events
<1>3. ASSUME NEW h \in 1 .. MaxHandles
      PROVE  Start(h) \in Events /\ Timer(Nb2b(h)) \in Events
  <2>1. {Start(h), Timer(Nb2b(h))} \in {{Start(k), Timer(Nb2b(k))} : k \in 1 .. MaxHandles}
    OBVIOUS
  <2> QED BY <2>1 DEF Events
<1> QED BY <1>1, <1>2, <1>3

(* A notification makes one event pending, and leaves the others alone.    *)
LEMMA NotifiesOne ==
  ASSUME delta \subseteq Events, later \subseteq Events \ delta,
         NEW e \in Events, NEW when \in Times, NotifyOne(e, when)
  PROVE  /\ delta' \subseteq Events /\ later' \subseteq Events \ delta'
         /\ \A x : x # e => /\ x \in delta' <=> x \in delta
                            /\ x \in later' => x \in later
BY DEF NotifyOne, Notify, Soon, Later

(* The end of a transaction is notified, and with it what else is.         *)
LEMMA EndNotifies ==
  ASSUME SimpleTargetSocketAssumption, Types,
         NEW t \in Trans, NEW also, also \subseteq {EndRequest},
         NEW when \in Times, Ended(t, also, when)
  PROVE  /\ delta' \subseteq Events /\ later' \subseteq Events \ delta'
         /\ \A e : e \in delta' => e \in delta \/ e \in also \/ e = End(t)
         /\ \A e : e \in delta \/ e \in also => e \in delta'
         /\ \A e : e \in later' => e \in later \/ e = End(t)
         /\ stage' = [stage EXCEPT ![t] = "answered"]
         /\ m_pending_trans' \subseteq Trans
<1>1. End(t) \in Events /\ EndRequest \in Events
  BY EventsAreNamed
<1> QED BY <1>1 DEF Types, Ended, Notify, Soon, Later, Moves

(* Which processes the events make runnable.                               *)
LEMMA WhoWakes ==
  ASSUME NEW fired
  PROVE  /\ \A t \in Trans : Caller(t) \in Waiting(fired) =>
               caller[t] = "end" /\ End(t) \in fired
         /\ B2nb \in Waiting(fired) <=>
               \/ b2nb.at = "peq" /\ PeqEvent \in fired
               \/ b2nb.at = "end_request" /\ EndRequest \in fired
               \/ b2nb.at \in {"pause", "respond"} /\ Timer(B2nb) \in fired
         /\ \A h \in Nat : Nb2b(h) \in Waiting(fired) =>
               h \in DOMAIN handles /\ handles[h].at \in {"start", "pause", "end_response"}
<1>1. ASSUME NEW t \in Trans, Caller(t) \in Waiting(fired)
      PROVE  caller[t] = "end" /\ End(t) \in fired
  BY <1>1 DEF Waiting, Caller, Nb2b, B2nb
<1>2. B2nb \in Waiting(fired) <=>
         \/ b2nb.at = "peq" /\ PeqEvent \in fired
         \/ b2nb.at = "end_request" /\ EndRequest \in fired
         \/ b2nb.at \in {"pause", "respond"} /\ Timer(B2nb) \in fired
  BY DEF Waiting, Caller, Nb2b, B2nb
<1>3. ASSUME NEW h \in Nat, Nb2b(h) \in Waiting(fired)
      PROVE  h \in DOMAIN handles /\ handles[h].at \in {"start", "pause", "end_response"}
  BY <1>3 DEF Waiting, Caller, Nb2b, B2nb
<1> QED BY <1>1, <1>2, <1>3

-----------------------------------------------------------------------------
(* Each step of the blocking conversion keeps the invariant.               *)

LEMMA BTransportKeeps ==
  ASSUME SimpleTargetSocketAssumption, IInv,
         NEW t \in Trans, NEW when \in Times, BTransport(t, when)
  PROVE  IInv'
<1>1. /\ Types /\ Blocking
      /\ registered = "nb_transport" /\ registered' = registered
      /\ stage[t] = "idle" /\ caller[t] = "away"
      /\ stage' = [stage EXCEPT ![t] = "called"] /\ caller' = [caller EXCEPT ![t] = "end"]
      /\ m_pending_trans' = m_pending_trans \cup {t}
      /\ running' = running /\ runnable' = runnable /\ b2nb' = b2nb
      /\ m_current_transaction' = m_current_transaction /\ held' = held
      /\ handles' = handles /\ m_response_in_progress' = m_response_in_progress
  BY DEF IInv, BTransport, Moves, nonblocking
<1>2. PeqEvent \in Events /\ Arrival(t) \in Events
  BY EventsAreNamed
<1>3. /\ delta' \subseteq Events /\ later' \subseteq Events \ delta'
      /\ \A e : e \in delta' => e \in delta \/ e = PeqEvent
      /\ \A e : e \in delta => e \in delta'
      /\ \A e : e \in later' => e \in later \/ e = PeqEvent \/ e = Arrival(t)
      /\ \/ due' = Append(due, t) /\ (Arrival(t) \in later' => Arrival(t) \in later)
         \/ due' = due
  <2>1. delta \subseteq Events /\ later \subseteq Events \ delta
    BY <1>1 DEF Types
  <2>2. CASE when = "delta"
    <3>1. Notify({PeqEvent}, {}) /\ due' = Append(due, t)
      BY <2>2 DEF BTransport
    <3>2. {PeqEvent} \subseteq Events /\ {} \subseteq Events
      BY <1>2
    <3>3. /\ delta' \subseteq Events /\ later' \subseteq Events \ delta'
          /\ \A e : e \in delta' <=> e \in delta \/ e \in {PeqEvent}
          /\ \A e : e \in later' => e \in later \/ e \in {}
      BY <2>1, <3>1, <3>2 DEF Notify
    <3> QED BY <3>1, <3>3
  <2>3. CASE when # "delta"
    <3>1. Notify({}, {PeqEvent, Arrival(t)}) /\ due' = due
      BY <2>3 DEF BTransport
    <3>2. {PeqEvent, Arrival(t)} \subseteq Events /\ {} \subseteq Events
      BY <1>2
    <3>3. /\ delta' \subseteq Events /\ later' \subseteq Events \ delta'
          /\ \A e : e \in delta' <=> e \in delta \/ e \in {}
          /\ \A e : e \in later' => e \in later \/ e \in {PeqEvent, Arrival(t)}
      BY <2>1, <3>1, <3>2 DEF Notify
    <3> QED BY <3>1, <3>3
  <2> QED BY <2>2, <2>3
<1>4. Types'
  <2>1. due' \in Seq(Trans)
    BY <1>1, <1>3 DEF Types
  <2>2. stage' \in [Trans -> Stages] /\ caller' \in [Trans -> {"away", "end", "done"}]
    BY <1>1 DEF Types, Stages
  <2>3. m_pending_trans' \subseteq Trans
    BY <1>1 DEF Types
  <2> QED BY <1>1, <1>3, <2>1, <2>2, <2>3 DEF Types
<1>5. OneThread'
  BY <1>1 DEF Blocking, OneThread
<1>6. RequestOut'
  BY <1>1, <1>3, EventNames DEF Blocking, RequestOut, Types
<1>7. Queued'
  <2>1. Queued /\ Arrival(t) \notin later /\ \A i \in 1 .. Len(due) : due[i] # t
    BY <1>1 DEF Blocking, Queued
  <2>2. due \in Seq(Trans) /\ stage \in [Trans -> Stages]
    BY <1>1 DEF Types
  <2>3. \A u \in Trans : (u # t => stage'[u] = stage[u]) /\ stage'[t] = "called"
    BY <1>1, <2>2
  <2>4. \A u \in Trans : /\ Arrival(u) \notin delta'
                         /\ Arrival(u) \in later' => stage'[u] = "called"
    BY <1>3, <2>1, <2>3, EventNames DEF Queued
  <2>5. CASE due' = Append(due, t) /\ (Arrival(t) \in later' => Arrival(t) \in later)
    <3>1. /\ Len(due') = Len(due) + 1 /\ due'[Len(due) + 1] = t /\ Len(due) \in Nat
          /\ \A i \in 1 .. Len(due) : due'[i] = due[i] /\ due[i] \in Trans
      BY <2>2, <2>5
    <3>2. \A i \in 1 .. Len(due') :
             stage'[due'[i]] = "called" /\ Arrival(due'[i]) \notin later'
      <4>1. \A i \in 1 .. Len(due) : Arrival(due[i]) \notin later'
        BY <1>3, <2>1, <3>1, EventNames DEF Queued
      <4>2. \A i \in 1 .. Len(due) : stage'[due[i]] = "called"
        BY <2>1, <2>3, <3>1 DEF Queued
      <4>3. Arrival(t) \notin later'
        BY <2>1, <2>5
      <4> QED BY <2>3, <3>1, <4>1, <4>2, <4>3
    <3>3. \A i, j \in 1 .. Len(due') : due'[i] = due'[j] => i = j
      BY <2>1, <3>1 DEF Queued
    <3> QED BY <2>4, <3>2, <3>3 DEF Queued
  <2>6. CASE due' = due
    <3>1. \A i \in 1 .. Len(due) : due[i] \in Trans
      BY <2>2
    <3>2. \A i \in 1 .. Len(due) :
             stage'[due[i]] = "called" /\ Arrival(due[i]) \notin later'
      BY <1>3, <2>1, <2>3, <3>1, EventNames DEF Queued
    <3> QED BY <2>1, <2>4, <2>6, <3>2 DEF Queued
  <2> QED BY <1>3, <2>5, <2>6
<1>8. ASSUME NEW u \in Trans PROVE CallerWaits(u)'
  BY <1>1, <1>3, EventNames DEF Blocking, CallerWaits, Types
<1> QED BY <1>1, <1>4, <1>5, <1>6, <1>7, <1>8 DEF IInv, Blocking

LEMMA BTransportReturnsKeeps ==
  ASSUME SimpleTargetSocketAssumption, IInv, NEW t \in Trans, BTransportReturns(t)
  PROVE  IInv'
<1>1. /\ Types
      /\ registered' = registered /\ runnable' = runnable \ {Caller(t)}
      /\ running' = Nobody /\ (running = Caller(t) \/ Caller(t) \in runnable)
      /\ delta' = delta /\ later' = later /\ due' = due /\ b2nb' = b2nb /\ held' = held
      /\ m_pending_trans' = m_pending_trans
      /\ m_current_transaction' = m_current_transaction
      /\ handles' = handles /\ m_response_in_progress' = m_response_in_progress
      /\ \/ caller' = [caller EXCEPT ![t] = "done"] /\ stage' = stage
         \/ /\ caller' = [caller EXCEPT ![t] = "away"]
            /\ stage' = [stage EXCEPT ![t] = "idle"]
  BY DEF IInv, BTransportReturns, Runs, Waits, Moves, nonblocking
<1>2. registered = "nb_transport" /\ Blocking
  <2>1. ASSUME registered = "b_transport" PROVE FALSE
    <3>1. Nonblocking
      BY <2>1 DEF IInv
    <3>2. running # Caller(t)
      BY <3>1, Processes DEF Nonblocking, Threads
    <3> QED BY <1>1, <3>1, <3>2 DEF Nonblocking, ThreadUnused
  <2> QED BY <1>1, <2>1 DEF IInv, Types
<1>3. running = Nobody /\ Caller(t) \in runnable
  BY <1>1, <1>2, Processes DEF Blocking, OneThread, Runs, BTransportReturns
<1>4. stage[t] = "answered" /\ End(t) \notin delta \cup later
  BY <1>2, <1>3 DEF Blocking, CallerWaits
<1>5. \A u \in Trans : /\ u # t => stage'[u] = stage[u] /\ caller'[u] = caller[u]
                       /\ \/ caller'[t] = "done" /\ stage'[t] = "answered"
                          \/ caller'[t] = "away" /\ stage'[t] = "idle"
  BY <1>1, <1>4 DEF Types
<1>6. /\ B2nb \in runnable' <=> B2nb \in runnable
      /\ \A u \in Trans : u # t => (Caller(u) \in runnable' <=> Caller(u) \in runnable)
      /\ Caller(t) \notin runnable'
  BY <1>1, Processes
<1>7. Types'
  BY <1>1 DEF Types, Stages
<1>8. OneThread'
  BY <1>1, <1>2, <1>3, <1>6, Processes DEF Blocking, OneThread
<1>9. RequestOut'
  BY <1>1, <1>2, <1>4, <1>5, <1>6 DEF Blocking, RequestOut
<1>10. Queued'
  <2>1. \A u \in Trans : stage[u] = "called" => stage'[u] = "called"
    BY <1>4, <1>5
  <2>2. \A i \in 1 .. Len(due) : due[i] \in Trans
    BY <1>1 DEF Types
  <2> QED BY <1>1, <1>2, <2>1, <2>2 DEF Blocking, Queued
<1>11. ASSUME NEW u \in Trans PROVE CallerWaits(u)'
  BY <1>1, <1>2, <1>4, <1>5, <1>6 DEF Blocking, CallerWaits
<1> QED BY <1>1, <1>2, <1>7, <1>8, <1>9, <1>10, <1>11 DEF IInv, Blocking

LEMMA B2nbTakesKeeps ==
  ASSUME SimpleTargetSocketAssumption, IInv, B2nbTakes
  PROVE  IInv'
<1>1. /\ Types
      /\ running = B2nb \/ (running = Nobody /\ B2nb \in runnable)
      /\ b2nb.at \in {"peq", "end_request", "pause", "loop"}
      /\ registered' = registered /\ caller' = caller /\ held' = held
      /\ m_pending_trans' = m_pending_trans
      /\ handles' = handles /\ m_response_in_progress' = m_response_in_progress
      /\ m_current_transaction' = IF b2nb.at = "end_request" THEN None
                                  ELSE m_current_transaction
  BY DEF IInv, B2nbTakes, Runs, nonblocking
<1>2. registered = "nb_transport" /\ Blocking
  <2>1. ASSUME registered = "b_transport" PROVE FALSE
    <3>1. Nonblocking
      BY <2>1 DEF IInv
    <3>2. running # B2nb
      BY <3>1, Processes DEF Nonblocking, Threads, Types
    <3> QED BY <1>1, <3>1, <3>2 DEF Nonblocking, ThreadUnused
  <2> QED BY <1>1, <2>1 DEF IInv, Types
<1>3. m_current_transaction' = None
  BY <1>1, <1>2 DEF Blocking, RequestOut
<1>4. \A t \in Trans : stage[t] # "sent" /\ stage[t] # "responding"
  BY <1>1, <1>2, Processes DEF Blocking, RequestOut, OneThread
<1>5. EndRequest \notin delta /\ EndRequest \notin later
  BY <1>1, <1>2, Processes DEF Blocking, RequestOut, OneThread
<1>6. CASE due = << >>
  <2>1. /\ b2nb' = [b2nb EXCEPT !.at = "peq"]
        /\ running' = Nobody /\ runnable' = runnable \ {B2nb}
        /\ due' = due /\ stage' = stage
        /\ Notify({}, {e \in {PeqEvent} : \E t \in Trans : Arrival(t) \in later})
    BY <1>6 DEF B2nbTakes, Waits
  <2>2. PeqEvent \in Events
    BY EventsAreNamed
  <2>3. /\ delta' = delta /\ later' \subseteq Events \ delta'
        /\ \A e : e \in later' => e \in later \/ e = PeqEvent
    BY <1>1, <2>1, <2>2 DEF Notify, Types
  <2>4. b2nb'.at = "peq" /\ b2nb' \in [at : {"peq", "calling", "end_request", "pause",
                                             "respond", "loop"},
                                       trans : Trans \cup {None}]
    BY <1>1, <2>1 DEF Types
  <2>5. Types'
    BY <1>1, <1>3, <2>1, <2>3, <2>4 DEF Types
  <2>6. OneThread'
    BY <1>1, <1>2, <2>1, <2>4, Processes DEF Blocking, OneThread
  <2>7. RequestOut'
    BY <1>2, <1>3, <1>4, <1>5, <2>1, <2>3, <2>4, EventNames DEF Blocking, RequestOut
  <2>8. Queued'
    BY <1>1, <1>2, <1>6, <2>1, <2>3, EventNames DEF Blocking, Queued
  <2>9. ASSUME NEW u \in Trans PROVE CallerWaits(u)'
    BY <1>1, <1>2, <2>1, <2>3, EventNames, Processes DEF Blocking, CallerWaits
  <2> QED BY <1>1, <1>2, <2>5, <2>6, <2>7, <2>8, <2>9 DEF IInv, Blocking
<1>7. CASE due # << >>
  <2> DEFINE t == Head(due)
  <2>1. /\ b2nb' = [at |-> "calling", trans |-> t]
        /\ running' = B2nb /\ runnable' = runnable \ {B2nb}
        /\ due' = Tail(due) /\ stage' = [stage EXCEPT ![t] = "sent"]
        /\ delta' = delta /\ later' = later
    BY <1>7 DEF B2nbTakes, GoesOn, Moves
  <2>2. /\ due \in Seq(Trans) /\ Len(due) \in Nat \ {0} /\ t = due[1] /\ t \in Trans
        /\ due' \in Seq(Trans) /\ Len(due') = Len(due) - 1
        /\ \A i \in 1 .. Len(due) - 1 : due'[i] = due[i + 1] /\ due[i + 1] \in Trans
    BY <1>1, <1>7, <2>1 DEF Types
  <2> HIDE DEF t
  <2>3. /\ stage[t] = "called" /\ Arrival(t) \notin later
        /\ \A i \in 1 .. Len(due) - 1 : due[i + 1] # t
    BY <1>2, <2>2 DEF Blocking, Queued
  <2>4. \A u \in Trans : stage'[t] = "sent" /\ (u # t => stage'[u] = stage[u])
    BY <1>1, <2>1, <2>2 DEF Types
  <2>5. Types'
    BY <1>1, <1>3, <2>1, <2>2 DEF Types, Stages
  <2>6. OneThread'
    BY <1>1, <1>2, <2>1, Processes DEF Blocking, OneThread
  <2>7. RequestOut'
    BY <1>2, <1>3, <1>4, <1>5, <2>1, <2>2, <2>4 DEF Blocking, RequestOut
  <2>8. Queued'
    <3>1. \A i \in 1 .. Len(due') :
             stage'[due'[i]] = "called" /\ Arrival(due'[i]) \notin later'
      <4>1. \A i \in 1 .. Len(due) - 1 :
               stage[due[i + 1]] = "called" /\ Arrival(due[i + 1]) \notin later
        BY <1>2, <2>2 DEF Blocking, Queued
      <4>2. SUFFICES ASSUME NEW i \in 1 .. Len(due')
                     PROVE  stage'[due'[i]] = "called" /\ Arrival(due'[i]) \notin later'
        OBVIOUS
      <4>3. i \in 1 .. Len(due) - 1 /\ due'[i] = due[i + 1] /\ due[i + 1] \in Trans
        BY <2>2
      <4> QED BY <2>1, <2>3, <2>4, <4>1, <4>3
    <3>2. \A i, j \in 1 .. Len(due') : due'[i] = due'[j] => i = j
      <4> SUFFICES ASSUME NEW i \in 1 .. Len(due'), NEW j \in 1 .. Len(due'),
                          due'[i] = due'[j]
                   PROVE  i = j
        OBVIOUS
      <4>1. i + 1 \in 1 .. Len(due) /\ j + 1 \in 1 .. Len(due) /\ due[i + 1] = due[j + 1]
        BY <2>2
      <4>2. i + 1 = j + 1
        BY <1>2, <4>1 DEF Blocking, Queued
      <4> QED BY <2>2, <4>2
    <3>3. \A u \in Trans : Arrival(u) \in later' => stage'[u] = "called"
      BY <1>2, <2>1, <2>3, <2>4 DEF Blocking, Queued
    <3>4. \A u \in Trans : Arrival(u) \notin delta'
      BY <1>2, <2>1 DEF Blocking, Queued
    <3> QED BY <3>1, <3>2, <3>3, <3>4 DEF Queued
  <2>9. ASSUME NEW u \in Trans PROVE CallerWaits(u)'
    BY <1>1, <1>2, <2>1, <2>2, <2>3, <2>4, Processes DEF Blocking, CallerWaits
  <2> QED BY <1>1, <1>2, <2>5, <2>6, <2>7, <2>8, <2>9 DEF IInv, Blocking
<1> QED BY <1>6, <1>7

(* In the call of the thread to the target, its transaction is the one     *)
(* whose request was not ended.                                            *)
LEMMA Calling ==
  ASSUME IInv, running = B2nb \/ b2nb.at = "calling"
  PROVE  /\ registered = "nb_transport" /\ Blocking
         /\ b2nb.at = "calling" => /\ b2nb.trans \in Trans
                                   /\ \A t \in Trans : stage[t] = "sent" <=> t = b2nb.trans
                                   /\ EndRequest \notin delta /\ B2nb \notin runnable
                                   /\ m_current_transaction = None /\ running = B2nb
<1>1. registered = "nb_transport" /\ Blocking
  <2>1. ASSUME registered = "b_transport" PROVE FALSE
    <3>1. Nonblocking
      BY <2>1 DEF IInv
    <3>2. running # B2nb /\ b2nb.at # "calling"
      BY <3>1, Processes DEF Nonblocking, Threads, ThreadUnused, IInv, Types
    <3> QED BY <3>2
  <2> QED BY <2>1 DEF IInv, Types
<1>2. ASSUME b2nb.at = "calling"
      PROVE  /\ b2nb.trans \in Trans
             /\ \A t \in Trans : stage[t] = "sent" <=> t = b2nb.trans
             /\ EndRequest \notin delta /\ B2nb \notin runnable
             /\ m_current_transaction = None /\ running = B2nb
  BY <1>1, <1>2 DEF Blocking, RequestOut, OneThread
<1> QED BY <1>1, <1>2

LEMMA TargetReturnsKeeps ==
  ASSUME SimpleTargetSocketAssumption, IInv, NEW when \in Times, TargetReturns(when)
  PROVE  IInv'
<1> DEFINE t == b2nb.trans
<1>1. /\ Types /\ running = B2nb /\ b2nb.at = "calling"
      /\ registered' = registered /\ caller' = caller /\ held' = held /\ due' = due
      /\ handles' = handles /\ m_response_in_progress' = m_response_in_progress
      /\ \/ Accepted(t)
         \/ stage[t] = "sent" /\ Completed(t, when)
         \/ stage[t] = "sent" /\ RequestEnded(t, when)
         \/ stage[t] = "sent" /\ Responded(t, when)
  BY DEF IInv, TargetReturns, nonblocking
<1>2. /\ registered = "nb_transport" /\ Blocking /\ t \in Trans
      /\ \A u \in Trans : stage[u] = "sent" <=> u = t
      /\ EndRequest \notin delta /\ B2nb \notin runnable /\ m_current_transaction = None
  BY <1>1, Calling
<1>3. EndRequest \notin later /\ EndRequest # End(t) /\ EndRequest # Timer(B2nb)
  BY <1>2, EventNames DEF Blocking, RequestOut
<1>4. \A u \in Trans : Arrival(u) # End(t) /\ Arrival(u) # Timer(B2nb)
  BY <1>2, EventNames
<1> DEFINE at == b2nb'.at
<1> HIDE DEF t
\* What the outcomes have in common: the thread, the events and the stage.
<1>5. /\ at \in {"end_request", "loop", "pause", "respond"} /\ b2nb'.trans = t
      /\ b2nb' \in [at : {"peq", "calling", "end_request", "pause", "respond", "loop"},
                    trans : Trans \cup {None}]
      /\ running' = (IF at = "loop" THEN B2nb ELSE Nobody)
      /\ runnable' = runnable \ {B2nb}
      /\ m_current_transaction' = (IF at = "end_request" THEN t ELSE None)
      /\ m_pending_trans' \subseteq Trans
      /\ stage' = [stage EXCEPT ![t] = CASE at = "end_request" -> "sent"
                                         [] at = "loop" -> "answered"
                                         [] at = "pause" -> "accepted"
                                         [] at = "respond" -> "responding"]
      /\ delta' \subseteq Events /\ later' \subseteq Events \ delta'
      /\ \A e : e \in delta' \/ e \in later' =>
            e \in delta \/ e \in later \/ e = Timer(B2nb) \/ (e = End(t) /\ at = "loop")
      /\ \A e : e \in later' => e \in later \/ e = Timer(B2nb) \/ e = End(t)
      /\ \A e : e \in delta' => e \in delta \/ e = Timer(B2nb) \/ e = End(t)
  <2>1. /\ delta \subseteq Events /\ later \subseteq Events \ delta
        /\ b2nb \in [at : {"peq", "calling", "end_request", "pause", "respond", "loop"},
                     trans : Trans \cup {None}]
        /\ stage \in [Trans -> Stages] /\ m_pending_trans \subseteq Trans
        /\ b2nb.trans = t
    BY <1>1 DEF Types, t
  <2>2. stage[t] = "sent" /\ Timer(B2nb) \in Events
    BY <1>2, EventsAreNamed
  <2>3. CASE Accepted(t)
    <3>1. /\ b2nb' = [b2nb EXCEPT !.at = "end_request"] /\ stage' = stage
          /\ running' = Nobody /\ runnable' = runnable \ {B2nb}
          /\ m_current_transaction' = t
          /\ delta' = delta /\ later' = later /\ m_pending_trans' = m_pending_trans
      BY <2>3 DEF Accepted, Waits
    <3>2. stage' = [stage EXCEPT ![t] = "sent"]
      BY <2>1, <2>2, <3>1
    <3>3. at = "end_request" /\ b2nb'.trans = t
          /\ b2nb' \in [at : {"peq", "calling", "end_request", "pause", "respond", "loop"},
                        trans : Trans \cup {None}]
      BY <2>1, <3>1
    <3> QED BY <2>1, <3>1, <3>2, <3>3
  <2>4. CASE Completed(t, when)
    <3>1. /\ b2nb' = [b2nb EXCEPT !.at = "loop"] /\ Ended(t, {}, when)
          /\ running' = B2nb /\ runnable' = runnable \ {B2nb}
          /\ m_current_transaction' = m_current_transaction
      BY <2>4 DEF Completed, GoesOn
    <3>2. at = "loop" /\ b2nb'.trans = t
          /\ b2nb' \in [at : {"peq", "calling", "end_request", "pause", "respond", "loop"},
                        trans : Trans \cup {None}]
      BY <2>1, <3>1
    <3>3. End(t) \in Events
      BY <1>2, EventsAreNamed
    <3>4. /\ delta' \subseteq Events /\ later' \subseteq Events \ delta'
          /\ \A e : e \in delta' => e \in delta \/ e = End(t)
          /\ \A e : e \in later' => e \in later \/ e = End(t)
          /\ stage' = [stage EXCEPT ![t] = "answered"]
          /\ m_pending_trans' \subseteq Trans
      BY <2>1, <3>1, <3>3 DEF Ended, Notify, Soon, Later, Moves
    <3> QED BY <1>2, <3>1, <3>2, <3>4
  <2>5. CASE RequestEnded(t, when)
    <3>1. /\ b2nb' = [b2nb EXCEPT !.at = "pause"] /\ NotifyOne(Timer(B2nb), when)
          /\ stage' = [stage EXCEPT ![t] = "accepted"]
          /\ running' = Nobody /\ runnable' = runnable \ {B2nb}
          /\ m_current_transaction' = m_current_transaction
          /\ m_pending_trans' = m_pending_trans
      BY <2>5 DEF RequestEnded, Waits, Moves
    <3>2. at = "pause" /\ b2nb'.trans = t
          /\ b2nb' \in [at : {"peq", "calling", "end_request", "pause", "respond", "loop"},
                        trans : Trans \cup {None}]
      BY <2>1, <3>1
    <3>3. /\ delta' \subseteq Events /\ later' \subseteq Events \ delta'
          /\ \A e : e # Timer(B2nb) => /\ e \in delta' <=> e \in delta
                                       /\ e \in later' => e \in later
      BY <2>1, <2>2, <3>1, NotifiesOne
    <3> QED BY <1>2, <2>1, <3>1, <3>2, <3>3
  <2>6. CASE Responded(t, when)
    <3>1. /\ b2nb' = [b2nb EXCEPT !.at = "respond"] /\ NotifyOne(Timer(B2nb), when)
          /\ stage' = [stage EXCEPT ![t] = "responding"]
          /\ running' = Nobody /\ runnable' = runnable \ {B2nb}
          /\ m_current_transaction' = m_current_transaction
          /\ m_pending_trans' = m_pending_trans
      BY <2>6 DEF Responded, Waits, Moves
    <3>2. at = "respond" /\ b2nb'.trans = t
          /\ b2nb' \in [at : {"peq", "calling", "end_request", "pause", "respond", "loop"},
                        trans : Trans \cup {None}]
      BY <2>1, <3>1
    <3>3. /\ delta' \subseteq Events /\ later' \subseteq Events \ delta'
          /\ \A e : e # Timer(B2nb) => /\ e \in delta' <=> e \in delta
                                       /\ e \in later' => e \in later
      BY <2>1, <2>2, <3>1, NotifiesOne
    <3> QED BY <1>2, <2>1, <3>1, <3>2, <3>3
  <2> QED BY <1>1, <2>3, <2>4, <2>5, <2>6
<1>6. /\ stage'[t] \in {"sent", "answered", "accepted", "responding"}
      /\ stage'[t] = "sent" <=> at = "end_request"
      /\ stage'[t] = "responding" <=> at = "respond"
      /\ stage'[t] = "answered" <=> at = "loop"
      /\ \A u \in Trans : u # t => stage'[u] = stage[u]
      /\ stage' \in [Trans -> Stages]
  <2> HIDE DEF at
  <2> QED BY <1>1, <1>2, <1>5 DEF Types, Stages
<1> HIDE DEF at
<1>7. Types'
  <2>1. m_current_transaction' \in Trans \cup {None}
    BY <1>2, <1>5
  <2> QED BY <1>1, <1>5, <1>6, <2>1 DEF Types
<1>8. EndRequest \notin delta' /\ EndRequest \notin later'
      /\ \A u \in Trans : /\ Arrival(u) \in later' => Arrival(u) \in later
                          /\ Arrival(u) \in delta' => Arrival(u) \in delta
  BY <1>2, <1>3, <1>4, <1>5
<1>9. OneThread'
  BY <1>1, <1>2, <1>5, Processes DEF Blocking, OneThread, at
<1>10. RequestOut'
  <2>1. B2nb \notin runnable'
    BY <1>5
  <2>2. \A u \in Trans : stage[u] = "responding" => FALSE
    BY <1>1, <1>2 DEF Blocking, RequestOut
  <2> QED BY <1>2, <1>5, <1>6, <1>8, <2>1, <2>2 DEF RequestOut, at
<1>11. Queued'
  <2>1. \A i \in 1 .. Len(due) : due[i] \in Trans /\ due[i] # t
    BY <1>1, <1>2 DEF Types, Blocking, Queued
  <2>2. \A u \in Trans : Arrival(u) \in later => u # t
    BY <1>2 DEF Blocking, Queued
  <2> QED BY <1>1, <1>2, <1>6, <1>8, <2>1, <2>2 DEF Blocking, Queued
<1>12. ASSUME NEW u \in Trans PROVE CallerWaits(u)'
  <2>1. Caller(u) \in runnable' <=> Caller(u) \in runnable
    BY <1>5, Processes
  <2>2. CallerWaits(u) /\ caller'[u] = caller[u]
    BY <1>1, <1>2 DEF Blocking
  <2>3. End(u) \in delta' \cup later' =>
           End(u) \in delta \cup later \/ (u = t /\ at = "loop")
    BY <1>2, <1>5, EventNames
  <2>4. caller[u] \in {"away", "end", "done"}
    BY <1>1 DEF Types
  <2> QED BY <1>2, <1>6, <2>1, <2>2, <2>3, <2>4 DEF CallerWaits
<1> QED BY <1>1, <1>2, <1>7, <1>9, <1>10, <1>11, <1>12 DEF IInv, Blocking

LEMMA B2nbEndsResponseKeeps ==
  ASSUME SimpleTargetSocketAssumption, IInv, NEW when \in Times, B2nbEndsResponse(when)
  PROVE  IInv'
<1> DEFINE t == b2nb.trans
<1>1. /\ Types /\ b2nb.at = "respond" /\ Ended(t, {}, when)
      /\ running = B2nb \/ (running = Nobody /\ B2nb \in runnable)
      /\ running' = B2nb /\ runnable' = runnable \ {B2nb}
      /\ b2nb' = [b2nb EXCEPT !.at = "loop"]
      /\ registered' = registered /\ caller' = caller /\ held' = held /\ due' = due
      /\ m_current_transaction' = m_current_transaction
      /\ handles' = handles /\ m_response_in_progress' = m_response_in_progress
  BY DEF IInv, B2nbEndsResponse, Runs, GoesOn, nonblocking
<1>2. registered = "nb_transport" /\ Blocking
  <2>1. registered # "b_transport"
    BY <1>1 DEF IInv, Nonblocking, ThreadUnused
  <2> QED BY <1>1, <2>1 DEF IInv, Types
<1>3. /\ t \in Trans /\ stage[t] = "responding" /\ m_current_transaction = None
      /\ running = Nobody /\ EndRequest \notin delta /\ EndRequest \notin later
      /\ \A u \in Trans : stage[u] # "sent" /\ (stage[u] = "responding" => u = t)
  BY <1>1, <1>2 DEF Blocking, OneThread, RequestOut
<1>4. End(t) \in Events
  BY <1>3, EventsAreNamed
<1>5. /\ delta' \subseteq Events /\ later' \subseteq Events \ delta'
      /\ \A e : e \in delta' => e \in delta \/ e = End(t)
      /\ \A e : e \in later' => e \in later \/ e = End(t)
      /\ stage' = [stage EXCEPT ![t] = "answered"]
      /\ m_pending_trans' \subseteq Trans
  BY <1>1, <1>4 DEF Types, Ended, Notify, Soon, Later, Moves
<1>6. /\ stage' \in [Trans -> Stages] /\ stage'[t] = "answered"
      /\ \A u \in Trans : u # t => stage'[u] = stage[u]
  BY <1>1, <1>3, <1>5 DEF Types, Stages
<1>7. b2nb'.at = "loop" /\ b2nb'.trans = t
      /\ b2nb' \in [at : {"peq", "calling", "end_request", "pause", "respond", "loop"},
                    trans : Trans \cup {None}]
  BY <1>1 DEF Types
<1> HIDE DEF t
<1>8. /\ EndRequest \notin delta' /\ EndRequest \notin later'
      /\ \A u \in Trans : /\ Arrival(u) \in later' => Arrival(u) \in later
                          /\ Arrival(u) \in delta' => Arrival(u) \in delta
  BY <1>3, <1>5, EventNames
<1>9. Types'
  BY <1>1, <1>5, <1>6, <1>7 DEF Types
<1>10. OneThread'
  BY <1>1, <1>2, <1>7 DEF Blocking, OneThread
<1>11. RequestOut'
  BY <1>1, <1>3, <1>6, <1>7, <1>8 DEF RequestOut
<1>12. Queued'
  <2>1. \A i \in 1 .. Len(due) : due[i] \in Trans /\ due[i] # t
    BY <1>1, <1>2, <1>3 DEF Types, Blocking, Queued
  <2>2. \A u \in Trans : Arrival(u) \in later => u # t
    BY <1>2, <1>3 DEF Blocking, Queued
  <2> QED BY <1>1, <1>2, <1>6, <1>8, <2>1, <2>2 DEF Blocking, Queued
<1>13. ASSUME NEW u \in Trans PROVE CallerWaits(u)'
  <2>1. Caller(u) \in runnable' <=> Caller(u) \in runnable
    BY <1>1, Processes
  <2>2. CallerWaits(u) /\ caller'[u] = caller[u] /\ caller[u] \in {"away", "end", "done"}
    BY <1>1, <1>2 DEF Blocking, Types
  <2>3. End(u) \in delta' \cup later' => End(u) \in delta \cup later \/ u = t
    BY <1>3, <1>5, EventNames
  <2> QED BY <1>3, <1>6, <2>1, <2>2, <2>3 DEF CallerWaits
<1> QED BY <1>1, <1>2, <1>9, <1>10, <1>11, <1>12, <1>13 DEF IInv, Blocking

(* The target calls when nothing runs, or from inside the call of the      *)
(* thread about another transaction.                                       *)
LEMMA WhoMayCall ==
  ASSUME IInv, ~Nested, NEW t \in Trans, MayCall(t), registered = "nb_transport"
  PROVE  running = Nobody \/ (b2nb.at = "calling" /\ b2nb.trans # t)
<1>1. CASE running = Nobody
  BY <1>1
<1>2. CASE running # Nobody
  <2>1. PICK u \in Trans : InCall(running, u) /\ (u = t => Nested)
    BY <1>2 DEF MayCall
  <2>2. handles = << >>
    BY DEF IInv, Blocking, OneThread
  <2>3. b2nb.at = "calling" /\ b2nb.trans = u
    BY <2>1, <2>2 DEF InCall
  <2> QED BY <2>1, <2>3
<1> QED BY <1>1, <1>2

LEMMA TargetEndsRequestKeeps ==
  ASSUME SimpleTargetSocketAssumption, ~Nested, IInv, NEW t \in Trans, TargetEndsRequest(t)
  PROVE  IInv'
<1>1. /\ Types /\ t \in m_pending_trans /\ stage[t] = "sent" /\ MayCall(t)
      /\ Notify({EndRequest}, {}) /\ stage' = [stage EXCEPT ![t] = "accepted"]
      /\ registered' = registered /\ running' = running /\ runnable' = runnable
      /\ caller' = caller /\ due' = due /\ b2nb' = b2nb /\ held' = held
      /\ m_pending_trans' = m_pending_trans
      /\ m_current_transaction' = m_current_transaction
      /\ handles' = handles /\ m_response_in_progress' = m_response_in_progress
  BY DEF IInv, TargetEndsRequest, Moves, blocking, nonblocking
<1>2. registered = "nb_transport" /\ Blocking
  BY <1>1 DEF IInv, Nonblocking, ThreadUnused, Types
<1>3. /\ b2nb.at = "end_request" /\ b2nb.trans = t
      /\ EndRequest \notin delta /\ B2nb \notin runnable /\ EndRequest \notin later
      /\ \A u \in Trans : stage[u] = "sent" => u = t
  <2>1. b2nb.trans = t /\ b2nb.at \in {"calling", "end_request"}
    BY <1>1, <1>2 DEF Blocking, RequestOut
  <2>2. b2nb.at # "calling"
    <3>1. running = Nobody \/ ~(b2nb.at = "calling")
      BY <1>1, <1>2, <2>1, WhoMayCall
    <3> QED BY <1>2, <3>1, Processes DEF Blocking, OneThread
  <2> QED BY <1>1, <1>2, <2>1, <2>2 DEF Blocking, RequestOut
<1>4. EndRequest \in Events
  BY EventsAreNamed
<1>5. /\ delta' \subseteq Events /\ later' \subseteq Events \ delta'
      /\ \A e : e \in delta' <=> e \in delta \/ e = EndRequest
      /\ \A e : e \in later' => e \in later
  BY <1>1, <1>4 DEF Types, Notify
<1>6. /\ stage' \in [Trans -> Stages] /\ stage'[t] = "accepted"
      /\ \A u \in Trans : u # t => stage'[u] = stage[u]
  BY <1>1, <1>5 DEF Types, Stages
<1>7. Types'
  BY <1>1, <1>5, <1>6 DEF Types
<1>8. OneThread'
  BY <1>1, <1>2 DEF Blocking, OneThread
<1>9. RequestOut'
  BY <1>1, <1>2, <1>3, <1>5, <1>6 DEF Blocking, RequestOut
<1>10. Queued'
  <2>1. \A i \in 1 .. Len(due) : due[i] \in Trans /\ due[i] # t
    BY <1>1, <1>2 DEF Types, Blocking, Queued
  <2>2. \A u \in Trans : /\ Arrival(u) \in later => u # t
                         /\ Arrival(u) \notin delta'
    BY <1>1, <1>2, <1>5, EventNames DEF Blocking, Queued
  <2> QED BY <1>1, <1>2, <1>5, <1>6, <2>1, <2>2 DEF Blocking, Queued
<1>11. ASSUME NEW u \in Trans PROVE CallerWaits(u)'
  <2>1. CallerWaits(u)
    BY <1>2 DEF Blocking
  <2>2. End(u) \in delta' \cup later' => End(u) \in delta \cup later
    BY <1>5, EventNames
  <2> QED BY <1>1, <1>6, <2>1, <2>2 DEF CallerWaits
<1> QED BY <1>1, <1>2, <1>7, <1>8, <1>9, <1>10, <1>11 DEF IInv, Blocking

LEMMA TargetRespondsKeeps ==
  ASSUME SimpleTargetSocketAssumption, ~Nested, ~Eager, IInv,
         NEW t \in Trans, NEW when \in Times, TargetResponds(t, when)
  PROVE  IInv'
<1> DEFINE also == {e \in {EndRequest} : EndsTheRequest(t)}
<1>1. /\ Types /\ t \in m_pending_trans /\ stage[t] \in {"sent", "accepted"} /\ MayCall(t)
      /\ B2nb \notin runnable \/ m_current_transaction # t
      /\ Ended(t, also, when)
      /\ registered' = registered /\ running' = running /\ runnable' = runnable
      /\ caller' = caller /\ due' = due /\ b2nb' = b2nb /\ held' = held
      /\ m_current_transaction' = m_current_transaction
      /\ handles' = handles /\ m_response_in_progress' = m_response_in_progress
  BY DEF IInv, TargetResponds, nonblocking
<1>2. registered = "nb_transport" /\ Blocking
  BY <1>1 DEF IInv, Nonblocking, ThreadUnused, Types
<1>3. /\ stage[t] = "sent" =>
            b2nb.at = "end_request" /\ b2nb.trans = t /\ EndRequest \notin delta
      /\ stage[t] = "sent" => m_current_transaction = t
      /\ m_current_transaction = t =>
            b2nb.at = "end_request" /\ b2nb.trans = t /\ B2nb \notin runnable
      /\ \A u \in Trans : u # t => (stage[u] = "sent" => m_current_transaction # t)
  <2>1. ASSUME stage[t] = "sent"
        PROVE  b2nb.at = "end_request" /\ b2nb.trans = t /\ EndRequest \notin delta
    <3>1. b2nb.trans = t /\ b2nb.at \in {"calling", "end_request"}
      BY <1>2, <2>1 DEF Blocking, RequestOut
    <3>2. b2nb.at # "calling"
      <4>1. running = Nobody \/ ~(b2nb.at = "calling")
        BY <1>1, <1>2, <3>1, WhoMayCall
      <4> QED BY <1>2, <4>1, Processes DEF Blocking, OneThread
    <3> QED BY <1>2, <2>1, <3>1, <3>2 DEF Blocking, RequestOut
  <2>2. m_current_transaction = t =>
           b2nb.at = "end_request" /\ b2nb.trans = t /\ B2nb \notin runnable
    BY <1>1, <1>2, SimpleTargetSocketAssumption DEF Blocking, RequestOut
  <2> QED BY <1>2, <2>1, <2>2 DEF Blocking, RequestOut
<1>4. also \subseteq {EndRequest} /\ (EndRequest \in also <=> m_current_transaction = t)
  BY DEF EndsTheRequest
<1>5. End(t) \in Events /\ EndRequest \in Events
  BY EventsAreNamed
<1> HIDE DEF also
<1>6. /\ delta' \subseteq Events /\ later' \subseteq Events \ delta'
      /\ \A e : e \in delta' => e \in delta \/ e \in also \/ e = End(t)
      /\ \A e : e \in delta \/ e \in also => e \in delta'
      /\ \A e : e \in later' => e \in later \/ e = End(t)
      /\ stage' = [stage EXCEPT ![t] = "answered"]
      /\ m_pending_trans' \subseteq Trans
  BY <1>1, <1>4, EndNotifies
<1>7. /\ stage' \in [Trans -> Stages] /\ stage'[t] = "answered"
      /\ \A u \in Trans : u # t => stage'[u] = stage[u]
  BY <1>1, <1>6 DEF Types, Stages
<1>8. /\ EndRequest \in delta' <=> EndRequest \in delta \/ m_current_transaction = t
      /\ EndRequest \notin later'
      /\ \A u \in Trans : /\ Arrival(u) \in later' => Arrival(u) \in later
                          /\ Arrival(u) \in delta' => Arrival(u) \in delta
  <2>1. EndRequest \notin later
    BY <1>2 DEF Blocking, RequestOut
  <2>2. \A u \in Trans : Arrival(u) # End(t) /\ Arrival(u) # EndRequest /\ EndRequest # End(t)
    BY EventNames
  <2> QED BY <1>4, <1>6, <2>1, <2>2
<1>9. Types'
  BY <1>1, <1>6, <1>7 DEF Types
<1>10. OneThread'
  BY <1>1, <1>2 DEF Blocking, OneThread
<1>11. RequestOut'
  BY <1>1, <1>2, <1>3, <1>7, <1>8 DEF Blocking, RequestOut
<1>12. Queued'
  <2>1. \A i \in 1 .. Len(due) : due[i] \in Trans /\ due[i] # t
    BY <1>1, <1>2 DEF Types, Blocking, Queued
  <2>2. \A u \in Trans : Arrival(u) \in later => u # t
    BY <1>1, <1>2 DEF Blocking, Queued
  <2> QED BY <1>1, <1>2, <1>7, <1>8, <2>1, <2>2 DEF Blocking, Queued
<1>13. ASSUME NEW u \in Trans PROVE CallerWaits(u)'
  <2>1. CallerWaits(u) /\ CallerWaits(t) /\ caller[t] \in {"away", "end", "done"}
    BY <1>1, <1>2 DEF Blocking, Types
  <2>2. End(u) \in delta' \cup later' => End(u) \in delta \cup later \/ u = t
    BY <1>4, <1>6, EventNames
  <2> QED BY <1>1, <1>7, <2>1, <2>2 DEF CallerWaits
<1> QED BY <1>1, <1>2, <1>9, <1>10, <1>11, <1>12, <1>13 DEF IInv, Blocking

LEMMA TargetAcquiresKeeps ==
  ASSUME IInv, NEW t \in Trans, TargetAcquires(t)
  PROVE  IInv'
<1>1. /\ Types /\ t \in Unmanaged /\ running = B2nb /\ held' = held \cup {t}
      /\ registered' = registered /\ running' = running /\ runnable' = runnable
      /\ delta' = delta /\ later' = later
      /\ caller' = caller /\ due' = due /\ b2nb' = b2nb
      /\ m_pending_trans' = m_pending_trans
      /\ m_current_transaction' = m_current_transaction
      /\ handles' = handles /\ m_response_in_progress' = m_response_in_progress
      /\ stage' = stage
  BY DEF IInv, TargetAcquires, kernel, nonblocking
<1>2. registered = "nb_transport" /\ Blocking
  BY <1>1, Calling
<1>3. Types'
  BY <1>1 DEF Types
<1>4. OneThread' /\ RequestOut' /\ Queued'
  BY <1>1, <1>2 DEF Blocking, OneThread, RequestOut, Queued
<1>5. ASSUME NEW u \in Trans PROVE CallerWaits(u)'
  BY <1>1, <1>2 DEF Blocking, CallerWaits
<1> QED BY <1>1, <1>2, <1>3, <1>4, <1>5 DEF IInv, Blocking

LEMMA TargetReleasesKeeps ==
  ASSUME IInv, NEW t \in Trans, TargetReleases(t)
  PROVE  IInv'
<1>1. /\ Types /\ t \in held /\ running = Nobody /\ held' = held \ {t}
      /\ runnable' = runnable \cup {p \in {Caller(t)} : caller[t] = "done"}
      /\ registered' = registered /\ running' = running
      /\ delta' = delta /\ later' = later
      /\ caller' = caller /\ due' = due /\ b2nb' = b2nb
      /\ m_pending_trans' = m_pending_trans
      /\ m_current_transaction' = m_current_transaction
      /\ handles' = handles /\ m_response_in_progress' = m_response_in_progress
      /\ stage' = stage
  BY DEF IInv, TargetReleases, nonblocking
<1>2. registered = "nb_transport" /\ Blocking
  BY <1>1 DEF IInv, Nonblocking, ThreadUnused, Types
<1>3. /\ B2nb \in runnable' <=> B2nb \in runnable
      /\ \A u \in Trans : Caller(u) \in runnable' =>
            Caller(u) \in runnable \/ (u = t /\ caller[t] = "done")
  BY <1>1, Processes
<1>4. Types'
  BY <1>1 DEF Types
<1>5. OneThread' /\ RequestOut' /\ Queued'
  BY <1>1, <1>2, <1>3 DEF Blocking, OneThread, RequestOut, Queued
<1>6. ASSUME NEW u \in Trans PROVE CallerWaits(u)'
  BY <1>1, <1>2, <1>3 DEF Blocking, CallerWaits
<1> QED BY <1>1, <1>2, <1>4, <1>5, <1>6 DEF IInv, Blocking

-----------------------------------------------------------------------------
(* The scheduler.  What it makes runnable is woken up by events, all other *)
(* processes having waited.                                                *)

\* The part the two steps have in common: the events in fired fire, the others
\* stay what they are.
Fires(fired) ==
    /\ Quiet /\ runnable' = Waiting(fired)
    /\ fired \subseteq delta \cup later
    /\ delta' = {} /\ later' \subseteq later \ fired
    /\ delta \subseteq fired
    /\ UNCHANGED << registered, running, caller, b2nb, m_pending_trans,
                    m_current_transaction, held, nonblocking, stage >>

LEMMA BlockingWakes ==
  ASSUME IInv, NEW fired, Fires(fired), registered = "nb_transport"
  PROVE  OneThread' /\ RequestOut' /\ \A t \in Trans : CallerWaits(t)'
<1>1. /\ Types /\ Blocking /\ running = Nobody /\ running' = running /\ runnable = {}
      /\ runnable' = Waiting(fired) /\ fired \subseteq delta \cup later
      /\ delta' = {} /\ later' \subseteq later \ fired /\ delta \subseteq fired
      /\ caller' = caller /\ b2nb' = b2nb /\ stage' = stage
      /\ m_current_transaction' = m_current_transaction
      /\ handles' = handles /\ m_response_in_progress' = m_response_in_progress
  BY DEF IInv, Fires, Quiet, nonblocking
<1>2. OneThread'
  BY <1>1, Processes DEF Blocking, OneThread
<1>3. RequestOut'
  <2>1. RequestOut /\ b2nb.at # "calling"
    BY <1>1, Processes DEF Blocking, OneThread
  <2>2. b2nb.at = "end_request" => (B2nb \in runnable' <=> EndRequest \in fired)
    BY <1>1, WhoWakes
  <2>3. EndRequest \in fired <=> EndRequest \in delta
    BY <1>1, <2>1 DEF RequestOut
  <2> QED BY <1>1, <2>1, <2>2, <2>3 DEF RequestOut
<1>4. ASSUME NEW t \in Trans PROVE CallerWaits(t)'
  <2>1. CallerWaits(t)
    BY <1>1 DEF Blocking
  <2>2. Caller(t) \in runnable' => caller[t] = "end" /\ End(t) \in fired
    BY <1>1, WhoWakes
  <2>3. End(t) \in delta' \cup later' => End(t) \in later /\ End(t) \notin fired
    BY <1>1
  <2> QED BY <1>1, <2>1, <2>2, <2>3 DEF CallerWaits
<1> QED BY <1>2, <1>3, <1>4

LEMMA NonblockingWakes ==
  ASSUME IInv, NEW fired, Fires(fired), registered = "b_transport", due' = due
  PROVE  Nonblocking'
<1>1. /\ Types /\ Nonblocking /\ running = Nobody /\ running' = running /\ runnable = {}
      /\ runnable' = Waiting(fired) /\ fired \subseteq delta \cup later
      /\ delta' = {} /\ later' \subseteq later
      /\ caller' = caller /\ b2nb' = b2nb /\ stage' = stage /\ held' = held
      /\ m_pending_trans' = m_pending_trans
      /\ handles' = handles /\ m_response_in_progress' = m_response_in_progress
  BY DEF IInv, Fires, Quiet, nonblocking
<1>2. DOMAIN handles \subseteq Nat
  BY <1>1 DEF Types
<1>3. ThreadUnused'
  <2>1. B2nb \notin runnable'
    BY <1>1, WhoWakes DEF Nonblocking, ThreadUnused
  <2>2. \A t \in Trans : Caller(t) \notin runnable'
    BY <1>1, WhoWakes DEF Nonblocking, ThreadUnused
  <2> QED BY <1>1, <2>1, <2>2 DEF Nonblocking, ThreadUnused
<1>4. Threads'
  <2>1. \A h \in DOMAIN handles : Busy(h)' => Busy(h)
    BY <1>1, <1>2, WhoWakes DEF Busy
  <2>2. \A h \in DOMAIN handles : Its(h)' = Its(h)
    BY <1>1 DEF Its
  <2>3. ASSUME NEW h \in DOMAIN handles PROVE HandleOK(h)'
    BY <1>1, <2>1, <2>2 DEF Nonblocking, Threads, HandleOK
  <2> QED BY <1>1, <2>1, <2>3 DEF Nonblocking, Threads
<1>5. ResponseOut'
  BY <1>1 DEF Nonblocking, ResponseOut
<1> QED BY <1>3, <1>4, <1>5 DEF Nonblocking

LEMMA DeltaCycleKeeps ==
  ASSUME IInv, DeltaCycle
  PROVE  IInv'
<1>1. /\ Types /\ Fires(delta) /\ due' = due /\ later' = later /\ delta' = {}
      /\ registered' = registered /\ stage' = stage /\ caller' = caller /\ b2nb' = b2nb
      /\ m_pending_trans' = m_pending_trans /\ held' = held
      /\ m_current_transaction' = m_current_transaction
      /\ handles' = handles /\ m_response_in_progress' = m_response_in_progress
  BY DEF IInv, DeltaCycle, Fires, blocking, nonblocking, Types
<1>2. Types'
  BY <1>1 DEF Types
<1>3. CASE registered = "nb_transport"
  <2>1. Queued'
    BY <1>1, <1>3 DEF IInv, Blocking, Queued
  <2> QED BY <1>1, <1>2, <1>3, <2>1, BlockingWakes DEF IInv, Blocking
<1>4. CASE registered = "b_transport"
  BY <1>1, <1>2, <1>4, NonblockingWakes DEF IInv
<1> QED BY <1>1, <1>3, <1>4 DEF Types

LEMMA AdvanceTimeKeeps ==
  ASSUME IInv, NEW fired \in SUBSET later, AdvanceTime(fired)
  PROVE  IInv'
<1> DEFINE arrived == {t \in Trans : Arrival(t) \in fired}
<1>1. /\ Types /\ Fires(fired) /\ later' = later \ fired /\ delta' = {}
      /\ registered' = registered /\ stage' = stage /\ caller' = caller /\ b2nb' = b2nb
      /\ m_pending_trans' = m_pending_trans /\ held' = held
      /\ m_current_transaction' = m_current_transaction
      /\ handles' = handles /\ m_response_in_progress' = m_response_in_progress
      /\ \E s \in SetToSeqs(arrived) : due' = due \o s
  BY DEF IInv, AdvanceTime, Fires, nonblocking
<1>2. PICK s \in SetToSeqs(arrived) : due' = due \o s
  BY <1>1
<1> DEFINE n == Cardinality(arrived)
<1>3. arrived \subseteq Trans /\ IsFiniteSet(arrived) /\ n \in Nat
  BY SimpleTargetSocketAssumption, FS_Subset, FS_CardinalityType
<1>4. /\ s \in [1 .. n -> arrived]
      /\ \A i, j \in 1 .. n : i # j => s[i] # s[j]
  BY <1>2 DEF SetToSeqs
<1> HIDE DEF n, arrived
<1>5. s \in Seq(Trans) /\ Len(s) = n /\ \A i \in 1 .. n : s[i] \in arrived
  BY <1>3, <1>4
<1>6. due \in Seq(Trans) /\ Len(due) \in Nat
  BY <1>1 DEF Types
<1>7. /\ due' \in Seq(Trans) /\ Len(due') = Len(due) + n
      /\ \A i \in 1 .. Len(due) : due'[i] = due[i]
      /\ \A i \in 1 .. n : due'[Len(due) + i] = s[i]
  <2>1. due' \in Seq(Trans) /\ Len(due') = Len(due) + n
    <3>1. s \in Seq(Trans) /\ Len(s) = n
      BY <1>5
    <3>2. due \o s \in Seq(Trans) /\ Len(due \o s) = Len(due) + Len(s)
      BY <1>6, <3>1
    <3> QED BY <1>2, <3>1, <3>2
  <2>2. \A i \in 1 .. Len(due) : due'[i] = due[i]
    BY <1>2, <1>5, <1>6
  <2>3. ASSUME NEW i \in 1 .. n PROVE due'[Len(due) + i] = s[i]
    <3>1. /\ Len(due) + i \in 1 .. Len(due) + Len(s) /\ ~(Len(due) + i <= Len(due))
          /\ (Len(due) + i) - Len(due) = i
      BY <1>3, <1>5, <1>6
    <3>2. (due \o s)[Len(due) + i] = s[(Len(due) + i) - Len(due)]
      <4> DEFINE k == Len(due) + i
      <4>1. k \in 1 .. Len(due) + Len(s) /\ ~(k <= Len(due))
        BY <3>1
      <4> HIDE DEF k
      <4>2. (due \o s)[k] = s[k - Len(due)]
        BY <1>5, <1>6, <4>1
      <4> QED BY <4>2 DEF k
    <3> QED BY <1>2, <3>1, <3>2
  <2> QED BY <2>1, <2>2, <2>3
<1>8. Types'
  BY <1>1, <1>7 DEF Types
<1>9. CASE registered = "nb_transport"
  <2>1. Queued
    BY <1>9 DEF IInv, Blocking
  <2>2. \A t \in arrived :
           t \in Trans /\ Arrival(t) \in later /\ Arrival(t) \notin later' /\ stage[t] = "called"
    BY <1>1, <2>1 DEF Queued, arrived
  \* The places of the new sequence are old ones and those of what arrived.
  <2>3. \A i \in 1 .. Len(due') :
           \/ i \in 1 .. Len(due) /\ due'[i] = due[i]
           \/ i - Len(due) \in 1 .. n /\ due'[i] = s[i - Len(due)]
              /\ i = Len(due) + (i - Len(due)) /\ due'[i] \in arrived
    <3> SUFFICES ASSUME NEW i \in 1 .. Len(due'), i \notin 1 .. Len(due)
                 PROVE  i - Len(due) \in 1 .. n /\ due'[i] = s[i - Len(due)]
                        /\ i = Len(due) + (i - Len(due)) /\ due'[i] \in arrived
      BY <1>7
    <3>1. i - Len(due) \in 1 .. n /\ i = Len(due) + (i - Len(due))
      BY <1>3, <1>6, <1>7
    <3>2. due'[Len(due) + (i - Len(due))] = s[i - Len(due)]
      BY <1>7, <3>1
    <3> QED BY <1>5, <3>1, <3>2
  <2>4. \A i \in 1 .. Len(due) : due[i] \in Trans /\ due[i] \notin arrived
                                 /\ Arrival(due[i]) \notin later /\ stage[due[i]] = "called"
    BY <1>6, <2>1, <2>2 DEF Queued
  <2>5. \A i \in 1 .. Len(due') : stage'[due'[i]] = "called" /\ Arrival(due'[i]) \notin later'
    BY <1>1, <2>2, <2>3, <2>4
  <2>6. ASSUME NEW i \in 1 .. Len(due'), NEW j \in 1 .. Len(due'), due'[i] = due'[j]
        PROVE  i = j
    <3>1. CASE i \in 1 .. Len(due) /\ due'[i] = due[i]
      <4>1. j \in 1 .. Len(due) /\ due'[j] = due[j]
        BY <2>3, <2>4, <2>6, <3>1
      <4> QED BY <2>1, <2>6, <3>1, <4>1 DEF Queued
    <3>2. CASE /\ i - Len(due) \in 1 .. n /\ due'[i] = s[i - Len(due)]
               /\ i = Len(due) + (i - Len(due)) /\ due'[i] \in arrived
      <4>1. /\ j - Len(due) \in 1 .. n /\ due'[j] = s[j - Len(due)]
            /\ j = Len(due) + (j - Len(due))
        BY <2>3, <2>4, <2>6, <3>2
      <4>2. i - Len(due) = j - Len(due)
        BY <1>4, <2>6, <3>2, <4>1
      <4> QED BY <3>2, <4>1, <4>2
    <3> QED BY <2>3, <3>1, <3>2
  <2>7. Queued'
    BY <1>1, <2>1, <2>5, <2>6 DEF Queued
  <2> QED BY <1>1, <1>8, <1>9, <2>7, BlockingWakes DEF IInv, Blocking
<1>10. CASE registered = "b_transport"
  <2>1. due = << >> /\ \A t \in Trans : Arrival(t) \notin later
    BY <1>10 DEF IInv, Nonblocking, ThreadUnused
  <2>2. arrived = {}
    BY <2>1 DEF arrived
  <2>3. n = 0
    BY <2>2, FS_EmptySet DEF n
  <2>4. due' = due
    BY <1>5, <1>6, <1>7, <2>1, <2>3
  <2> QED BY <1>1, <1>8, <1>10, <2>4, NonblockingWakes DEF IInv
<1> QED BY <1>1, <1>9, <1>10 DEF Types

-----------------------------------------------------------------------------
(* Each step of the nonblocking conversion keeps the invariant.            *)

\* What its steps leave alone.
NoThread ==
    /\ registered = "b_transport" /\ registered' = registered
    /\ caller' = caller /\ due' = due /\ b2nb' = b2nb /\ held' = held
    /\ m_pending_trans' = m_pending_trans
    /\ m_current_transaction' = m_current_transaction

LEMMA HandlesAreNatural ==
  ASSUME Types
  PROVE  /\ DOMAIN handles \subseteq Nat /\ DOMAIN handles = 1 .. Len(handles)
         /\ Len(handles) \in Nat
         /\ \A h \in DOMAIN handles : handles[h] \in Handles
BY DEF Types

(* What is notified for a handle, or for its end of a response, concerns   *)
(* neither the thread of the other conversion nor any caller.              *)
LEMMA ThreadStaysUnused ==
  ASSUME SimpleTargetSocketAssumption, IInv, NoThread, NEW when \in Times,
         NEW e \in Events, e # PeqEvent, \A t \in Trans : e # Arrival(t),
         (delta' = delta /\ later' = later) \/ NotifyOne(e, when),
         runnable' = runnable
            \/ \E h \in Nat : runnable' = runnable \cup {Nb2b(h)}
                              \/ runnable' = runnable \ {Nb2b(h)},
         \A t \in Trans : stage'[t] # "sent" \/ stage'[t] = stage[t]
  PROVE  ThreadUnused' /\ delta' \subseteq Events /\ later' \subseteq Events \ delta'
<1>1. Types /\ ThreadUnused
  BY DEF IInv, NoThread, Nonblocking
<1>2. /\ delta' \subseteq Events /\ later' \subseteq Events \ delta'
      /\ \A x : x # e => /\ x \in delta' => x \in delta
                         /\ x \in later' => x \in later
  <2>1. delta \subseteq Events /\ later \subseteq Events \ delta
    BY <1>1 DEF Types
  <2>2. CASE delta' = delta /\ later' = later
    BY <2>1, <2>2
  <2>3. CASE NotifyOne(e, when)
    BY <2>1, <2>3, NotifiesOne
  <2> QED BY <2>2, <2>3
<1>3. /\ B2nb \notin runnable'
      /\ \A t \in Trans : Caller(t) \notin runnable'
  BY <1>1, Processes DEF ThreadUnused
<1>4. /\ PeqEvent \notin delta' \cup later'
      /\ \A t \in Trans : Arrival(t) \notin later'
  BY <1>1, <1>2 DEF ThreadUnused
<1> QED BY <1>1, <1>2, <1>3, <1>4 DEF ThreadUnused, NoThread

(* One handle changes.                                                     *)
LEMMA HandleChanges ==
  ASSUME Types, NEW h \in DOMAIN handles, NEW r \in Handles,
         handles' = [handles EXCEPT ![h] = r]
  PROVE  /\ handles' \in Seq(Handles) /\ Len(handles') = Len(handles)
         /\ DOMAIN handles' = DOMAIN handles
         /\ handles'[h] = r
         /\ \A k \in DOMAIN handles : k # h => handles'[k] = handles[k]
BY DEF Types

(* Nothing runs but the thread that is with the initiator, so whoever runs *)
(* next was waiting and nobody is with the initiator.                      *)
LEMMA RunsNext ==
  ASSUME IInv, registered = "b_transport", NEW h \in DOMAIN handles,
         Runs(Nb2b(h)), handles[h].at # "responding"
  PROVE  /\ running = Nobody /\ Nb2b(h) \in runnable
         /\ \A k \in DOMAIN handles : handles[k].at # "responding"
<1>1. Threads /\ DOMAIN handles \subseteq Nat
  BY HandlesAreNatural DEF IInv, Nonblocking
<1>2. running # Nb2b(h)
  BY <1>1 DEF Threads, HandleOK
<1>3. running = Nobody /\ Nb2b(h) \in runnable
  BY <1>2 DEF Runs
<1> QED BY <1>1, <1>3, Processes DEF Threads, HandleOK

LEMMA Nb2bTakesKeeps ==
  ASSUME SimpleTargetSocketAssumption, IInv, NEW h \in DOMAIN handles, Nb2bTakes(h)
  PROVE  IInv'
<1> DEFINE r == [handles[h] EXCEPT !.at = "start", !.m_suspend = FALSE,
                                   !.trans = handles[h].m_trans]
<1>1. /\ Types /\ Runs(Nb2b(h)) /\ handles[h].at = "suspended"
      /\ running' = Nobody /\ runnable' = runnable \ {Nb2b(h)}
      /\ handles' = [handles EXCEPT ![h].at = "start", ![h].m_suspend = FALSE,
                                    ![h].trans = handles[h].m_trans]
      /\ registered' = registered /\ delta' = delta /\ later' = later
      /\ caller' = caller /\ due' = due /\ b2nb' = b2nb /\ held' = held
      /\ m_pending_trans' = m_pending_trans
      /\ m_current_transaction' = m_current_transaction
      /\ m_response_in_progress' = m_response_in_progress /\ stage' = stage
  BY DEF IInv, Nb2bTakes, Waits, blocking
<1>2. registered = "b_transport" /\ NoThread /\ Nonblocking
  BY <1>1 DEF IInv, Blocking, OneThread, Types, NoThread
<1>3. DOMAIN handles \subseteq Nat /\ handles[h] \in Handles
  BY <1>1, HandlesAreNatural
<1>4. /\ r \in Handles /\ r.at = "start" /\ r.m_suspend = FALSE
      /\ r.trans = handles[h].m_trans
  BY <1>3 DEF Handles
<1>5. handles' = [handles EXCEPT ![h] = r]
  BY <1>1, <1>3 DEF Handles, Types
<1> HIDE DEF r
<1>6. /\ handles' \in Seq(Handles) /\ Len(handles') = Len(handles)
      /\ DOMAIN handles' = DOMAIN handles
      /\ handles'[h] = r
      /\ \A k \in DOMAIN handles : k # h => handles'[k] = handles[k]
  BY <1>1, <1>4, <1>5, HandleChanges
<1>7. /\ running = Nobody /\ Nb2b(h) \in runnable
      /\ \A k \in DOMAIN handles : handles[k].at # "responding"
  BY <1>1, <1>2, RunsNext
<1>8. ThreadUnused' /\ delta' \subseteq Events /\ later' \subseteq Events \ delta'
  BY <1>1, <1>2, <1>3, Processes DEF Nonblocking, ThreadUnused, Types
<1>9. Types'
  BY <1>1, <1>6, <1>8 DEF Types
<1>10. Threads'
  <2>1. Threads /\ HandleOK(h) /\ Busy(h)
    BY <1>1, <1>2, <1>7 DEF Nonblocking, Threads, Busy
  <2>2. \A k \in DOMAIN handles : k # h =>
           /\ Busy(k)' => Busy(k) /\ k = h
           /\ Its(k)' = Its(k)
    BY <1>1, <1>6, <2>1 DEF Busy, Its, Threads
  <2>3. stage'[Its(h)'] = "called"
    BY <1>1, <1>4, <1>6, <2>1 DEF HandleOK, Its
  <2>4. HandleOK(h)'
    BY <1>1, <1>3, <1>4, <1>6, <2>3, Processes DEF HandleOK
  <2>5. ASSUME NEW k \in DOMAIN handles, k # h PROVE HandleOK(k)'
    BY <1>1, <1>3, <1>6, <1>7, <2>1, <2>2, <2>5, Processes DEF HandleOK, Threads
  <2>6. \A k, m \in DOMAIN handles : Busy(k)' /\ Busy(m)' => k = m
    BY <2>2
  <2> QED BY <1>1, <1>6, <2>1, <2>4, <2>5, <2>6 DEF Threads
<1>11. ResponseOut'
  BY <1>1, <1>2, <1>6, <1>7 DEF Nonblocking, ResponseOut
<1> QED BY <1>1, <1>2, <1>8, <1>9, <1>10, <1>11 DEF IInv, Nonblocking

(* There are as many names as the threads that can exist.                  *)
LEMMA AtLeastTwo ==
  ASSUME SimpleTargetSocketAssumption, IInv, registered = "b_transport",
         Trans # {} \/ handles # << >>
  PROVE  MaxHandles \in Nat /\ MaxHandles >= 2
<1>1. Trans # {}
  BY DEF IInv, Types, Handles
<1>2. Cardinality(Trans) \in Nat /\ Cardinality(Trans) # 0
  BY <1>1, FS_CardinalityType, FS_EmptySet
<1> QED BY <1>2 DEF MaxHandles

LEMMA Nb2bServesKeeps ==
  ASSUME SimpleTargetSocketAssumption, IInv, NEW h \in DOMAIN handles, Nb2bServes(h)
  PROVE  IInv' /\ stage[handles[h].trans] = "called" /\ handles[h].trans \in Trans
<1> DEFINE r == [handles[h] EXCEPT !.at = "serving"]
           t == handles[h].trans
<1>1. /\ Types /\ Runs(Nb2b(h)) /\ handles[h].at = "start"
      /\ running' = Nobody /\ runnable' = runnable \ {Nb2b(h)}
      /\ handles' = [handles EXCEPT ![h] = r]
      /\ registered' = registered /\ delta' = delta /\ later' = later
      /\ caller' = caller /\ due' = due /\ b2nb' = b2nb /\ held' = held
      /\ m_pending_trans' = m_pending_trans
      /\ m_current_transaction' = m_current_transaction
      /\ m_response_in_progress' = m_response_in_progress
      /\ stage' = [stage EXCEPT ![t] = "working"]
  BY DEF IInv, Nb2bServes, Waits, blocking, Moves
<1>2. registered = "b_transport" /\ NoThread /\ Nonblocking
  BY <1>1 DEF IInv, Blocking, OneThread, Types, NoThread
<1>3. DOMAIN handles \subseteq Nat /\ handles[h] \in Handles /\ t \in Trans
  BY <1>1, HandlesAreNatural DEF Handles
<1>4. r \in Handles /\ r.at = "serving" /\ r.m_suspend = handles[h].m_suspend /\ r.trans = t
  BY <1>3 DEF Handles
<1> HIDE DEF r, t
<1>5. /\ handles' \in Seq(Handles) /\ Len(handles') = Len(handles)
      /\ DOMAIN handles' = DOMAIN handles
      /\ handles'[h] = r
      /\ \A k \in DOMAIN handles : k # h => handles'[k] = handles[k]
  BY <1>1, <1>4, HandleChanges
<1>6. /\ running = Nobody /\ Nb2b(h) \in runnable
      /\ \A k \in DOMAIN handles : handles[k].at # "responding"
  BY <1>1, <1>2, RunsNext
<1>7. Threads /\ HandleOK(h) /\ Busy(h)
  BY <1>1, <1>2 DEF Nonblocking, Threads, Busy
<1>8. stage[t] = "called"
  BY <1>1, <1>7 DEF HandleOK, Its, t
<1>9. /\ stage' \in [Trans -> Stages] /\ stage'[t] = "working"
      /\ \A u \in Trans : u # t => stage'[u] = stage[u]
  BY <1>1, <1>3 DEF Types, Stages
<1>10. ThreadUnused' /\ delta' \subseteq Events /\ later' \subseteq Events \ delta'
  BY <1>1, <1>2, <1>3, <1>9, Processes DEF Nonblocking, ThreadUnused, Types
<1>11. Types'
  BY <1>1, <1>5, <1>9, <1>10 DEF Types
<1>12. Threads'
  <2>1. \A k \in DOMAIN handles : k # h => ~Busy(k)'
    BY <1>1, <1>5, <1>7 DEF Busy, Threads
  <2>2. stage'[Its(h)'] = "working"
    BY <1>4, <1>5, <1>9 DEF Its
  <2>3. HandleOK(h)'
    BY <1>1, <1>3, <1>4, <1>5, <1>7, <2>2, Processes DEF HandleOK
  <2>4. ASSUME NEW k \in DOMAIN handles, k # h PROVE HandleOK(k)'
    BY <1>1, <1>3, <1>5, <1>6, <1>7, <2>1, <2>4, Processes DEF HandleOK, Threads
  <2>5. \A k, m \in DOMAIN handles : Busy(k)' /\ Busy(m)' => k = m
    BY <2>1
  <2> QED BY <1>1, <1>5, <1>7, <2>3, <2>4, <2>5 DEF Threads
<1>13. ResponseOut'
  <2>1. \A u \in Trans : stage'[u] = "responding" => stage[u] = "responding"
    BY <1>9
  <2> QED BY <1>1, <1>2, <1>5, <1>6, <2>1 DEF Nonblocking, ResponseOut
<1> QED BY <1>1, <1>2, <1>3, <1>8, <1>10, <1>11, <1>12, <1>13 DEF IInv, Nonblocking, t

LEMMA TargetHasServedKeeps ==
  ASSUME SimpleTargetSocketAssumption, IInv, NEW h \in DOMAIN handles,
         NEW when \in Times, TargetHasServed(h, when)
  PROVE  IInv'
<1> DEFINE r == [handles[h] EXCEPT !.at = "pause"]
<1>1. /\ Types /\ handles[h].at = "serving" /\ running = Nobody
      /\ NotifyOne(Timer(Nb2b(h)), when)
      /\ running' = running /\ runnable' = runnable
      /\ handles' = [handles EXCEPT ![h] = r]
      /\ registered' = registered
      /\ caller' = caller /\ due' = due /\ b2nb' = b2nb /\ held' = held
      /\ m_pending_trans' = m_pending_trans
      /\ m_current_transaction' = m_current_transaction
      /\ m_response_in_progress' = m_response_in_progress /\ stage' = stage
  BY DEF IInv, TargetHasServed, blocking
<1>2. registered = "b_transport" /\ NoThread /\ Nonblocking
  BY <1>1 DEF IInv, Blocking, OneThread, Types, NoThread
<1>3. /\ DOMAIN handles \subseteq Nat /\ handles[h] \in Handles
      /\ DOMAIN handles = 1 .. Len(handles) /\ Len(handles) \in Nat
  BY <1>1, HandlesAreNatural
<1>4. /\ r \in Handles /\ r.at = "pause" /\ r.m_suspend = handles[h].m_suspend
      /\ r.trans = handles[h].trans
  BY <1>3 DEF Handles
<1> HIDE DEF r
<1>5. /\ handles' \in Seq(Handles) /\ Len(handles') = Len(handles)
      /\ DOMAIN handles' = DOMAIN handles
      /\ handles'[h] = r
      /\ \A k \in DOMAIN handles : k # h => handles'[k] = handles[k]
  BY <1>1, <1>4, HandleChanges
<1>6. Threads /\ HandleOK(h) /\ Busy(h)
  BY <1>1, <1>2 DEF Nonblocking, Threads, Busy
<1>7. Timer(Nb2b(h)) \in Events
  <2>1. h \in 1 .. MaxHandles
    <3>1. handles # << >>
      BY <1>3
    <3>2. MaxHandles \in Nat /\ MaxHandles >= 2
      BY <1>2, <3>1, AtLeastTwo
    <3> QED BY <1>3, <1>6, <3>2 DEF Threads
  <2> QED BY <2>1, EventsAreNamed
<1>8. ThreadUnused' /\ delta' \subseteq Events /\ later' \subseteq Events \ delta'
  <2>1. \A t \in Trans : Timer(Nb2b(h)) # Arrival(t)
    BY EventNames
  <2>2. Timer(Nb2b(h)) # PeqEvent
    BY EventNames
  <2> QED BY <1>1, <1>2, <1>7, <2>1, <2>2, ThreadStaysUnused
<1>9. Types'
  BY <1>1, <1>5, <1>8 DEF Types
<1>10. Threads'
  <2>1. \A k \in DOMAIN handles : k # h => ~Busy(k)'
    BY <1>1, <1>5, <1>6 DEF Busy, Threads
  <2>2. stage'[Its(h)'] = "working"
    BY <1>1, <1>4, <1>5, <1>6 DEF Its, HandleOK
  <2>3. HandleOK(h)'
    BY <1>1, <1>3, <1>4, <1>5, <1>6, <2>2, Processes DEF HandleOK
  <2>4. ASSUME NEW k \in DOMAIN handles, k # h PROVE HandleOK(k)'
    BY <1>1, <1>3, <1>5, <1>6, <2>1, <2>4, Processes DEF HandleOK, Threads
  <2>5. \A k, m \in DOMAIN handles : Busy(k)' /\ Busy(m)' => k = m
    BY <2>1
  <2> QED BY <1>1, <1>5, <1>6, <2>3, <2>4, <2>5 DEF Threads
<1>11. ResponseOut'
  <2>1. \A k \in DOMAIN handles : handles[k].at = "responding" => handles'[k] = handles[k]
    BY <1>1, <1>5
  <2> QED BY <1>1, <1>2, <1>5, <2>1 DEF Nonblocking, ResponseOut
<1> QED BY <1>1, <1>2, <1>8, <1>9, <1>10, <1>11 DEF IInv, Nonblocking

LEMMA Nb2bRespondsKeeps ==
  ASSUME SimpleTargetSocketAssumption, IInv, NEW h \in DOMAIN handles, Nb2bResponds(h)
  PROVE  /\ IInv'
         /\ \/ stage' = stage
            \/ /\ handles[h].trans \in Trans /\ stage[handles[h].trans] = "working"
               /\ stage' = [stage EXCEPT ![handles[h].trans] = "responding"]
<1> DEFINE t == handles[h].trans
           waits == [handles[h] EXCEPT !.at = "end_response"]
           responds == [handles[h] EXCEPT !.at = "responding"]
<1>1. /\ Types /\ Runs(Nb2b(h)) /\ handles[h].at \in {"pause", "end_response"}
      /\ runnable' = runnable \ {Nb2b(h)}
      /\ registered' = registered /\ delta' = delta /\ later' = later
      /\ caller' = caller /\ due' = due /\ b2nb' = b2nb /\ held' = held
      /\ m_pending_trans' = m_pending_trans
      /\ m_current_transaction' = m_current_transaction
      /\ m_response_in_progress' = m_response_in_progress
      /\ \/ /\ handles' = [handles EXCEPT ![h] = waits]
            /\ running' = Nobody /\ stage' = stage
         \/ /\ m_response_in_progress = FALSE
            /\ handles' = [handles EXCEPT ![h] = responds]
            /\ running' = Nb2b(h) /\ stage' = [stage EXCEPT ![t] = "responding"]
  BY DEF IInv, Nb2bResponds, Waits, GoesOn, blocking, Moves, Types
<1>2. registered = "b_transport" /\ NoThread /\ Nonblocking
  BY <1>1 DEF IInv, Blocking, OneThread, Types, NoThread
<1>3. DOMAIN handles \subseteq Nat /\ handles[h] \in Handles /\ t \in Trans
  BY <1>1, HandlesAreNatural DEF Handles
<1>4. /\ waits \in Handles /\ waits.at = "end_response"
      /\ waits.m_suspend = handles[h].m_suspend /\ waits.trans = t
      /\ responds \in Handles /\ responds.at = "responding"
      /\ responds.m_suspend = handles[h].m_suspend /\ responds.trans = t
  BY <1>3 DEF Handles
<1> HIDE DEF waits, responds, t
<1>5. /\ running = Nobody /\ Nb2b(h) \in runnable
      /\ \A k \in DOMAIN handles : handles[k].at # "responding"
  BY <1>1, <1>2, RunsNext
<1>6. Threads /\ HandleOK(h) /\ Busy(h)
  BY <1>1, <1>2 DEF Nonblocking, Threads, Busy
<1>7. stage[t] = "working"
  BY <1>1, <1>6 DEF HandleOK, Its, t
<1>8. CASE handles' = [handles EXCEPT ![h] = waits] /\ running' = Nobody /\ stage' = stage
  <2>1. /\ handles' \in Seq(Handles) /\ Len(handles') = Len(handles)
        /\ DOMAIN handles' = DOMAIN handles
        /\ handles'[h] = waits
        /\ \A k \in DOMAIN handles : k # h => handles'[k] = handles[k]
    BY <1>1, <1>4, <1>8, HandleChanges
  <2>2. ThreadUnused' /\ delta' \subseteq Events /\ later' \subseteq Events \ delta'
    BY <1>1, <1>2, <1>3, <1>8, Processes DEF Nonblocking, ThreadUnused, Types
  <2>3. Types'
    BY <1>1, <1>8, <2>1, <2>2 DEF Types
  <2>4. Threads'
    <3>1. \A k \in DOMAIN handles : k # h => ~Busy(k)'
      BY <1>1, <1>6, <2>1 DEF Busy, Threads
    <3>2. stage'[Its(h)'] = "working"
      BY <1>4, <1>7, <1>8, <2>1 DEF Its
    <3>3. HandleOK(h)'
      BY <1>1, <1>3, <1>4, <1>6, <1>8, <2>1, <3>2, Processes DEF HandleOK
    <3>4. ASSUME NEW k \in DOMAIN handles, k # h PROVE HandleOK(k)'
      BY <1>1, <1>3, <1>5, <1>6, <1>8, <2>1, <3>1, <3>4, Processes DEF HandleOK, Threads
    <3>5. \A k, m \in DOMAIN handles : Busy(k)' /\ Busy(m)' => k = m
      BY <3>1
    <3> QED BY <1>6, <1>8, <2>1, <3>3, <3>4, <3>5 DEF Threads
  <2>5. ResponseOut'
    BY <1>1, <1>2, <1>5, <1>8, <2>1 DEF Nonblocking, ResponseOut
  <2> QED BY <1>1, <1>2, <1>8, <2>2, <2>3, <2>4, <2>5 DEF IInv, Nonblocking
<1>9. CASE /\ m_response_in_progress = FALSE
           /\ handles' = [handles EXCEPT ![h] = responds]
           /\ running' = Nb2b(h) /\ stage' = [stage EXCEPT ![t] = "responding"]
  <2>1. /\ handles' \in Seq(Handles) /\ Len(handles') = Len(handles)
        /\ DOMAIN handles' = DOMAIN handles
        /\ handles'[h] = responds
        /\ \A k \in DOMAIN handles : k # h => handles'[k] = handles[k]
    BY <1>1, <1>4, <1>9, HandleChanges
  <2>2. /\ stage' \in [Trans -> Stages] /\ stage'[t] = "responding"
        /\ \A u \in Trans : u # t => stage'[u] = stage[u]
    BY <1>1, <1>3, <1>9 DEF Types, Stages
  <2>3. \A u \in Trans : stage[u] # "responding"
    BY <1>2, <1>5, <1>9 DEF Nonblocking, ResponseOut
  <2>4. ThreadUnused' /\ delta' \subseteq Events /\ later' \subseteq Events \ delta'
    BY <1>1, <1>2, <1>3, <2>2, Processes DEF Nonblocking, ThreadUnused, Types
  <2>5. Types'
    BY <1>1, <2>1, <2>2, <2>4 DEF Types
  <2>6. Threads'
    <3>1. \A k \in DOMAIN handles : k # h => ~Busy(k)'
      BY <1>1, <1>6, <2>1 DEF Busy, Threads
    <3>2. handles'[h].at = "responding" /\ handles'[h].trans = t /\ ~Busy(h)'
      BY <1>4, <2>1 DEF Busy
    <3>3. HandleOK(h)'
      BY <1>1, <1>3, <1>4, <1>6, <1>9, <2>1, <2>2, <3>2, Processes DEF HandleOK
    <3>4. ASSUME NEW k \in DOMAIN handles, k # h PROVE HandleOK(k)'
      <4>1. HandleOK(k) /\ k \in Nat /\ h \in Nat /\ handles'[k] = handles[k]
            /\ handles[k].at # "responding" /\ running' # Nb2b(k) /\ ~Busy(k)'
        BY <1>3, <1>5, <1>6, <1>9, <2>1, <3>1, <3>4, Processes DEF Threads
      <4> QED BY <4>1 DEF HandleOK
    <3>5. \A k, m \in DOMAIN handles : Busy(k)' /\ Busy(m)' => k = m
      BY <3>1, <3>2
    <3> QED BY <1>6, <1>9, <2>1, <3>3, <3>4, <3>5 DEF Threads
  <2>7. ResponseOut'
    BY <1>4, <2>1, <2>2, <2>3 DEF ResponseOut
  <2> QED BY <1>1, <1>2, <1>3, <1>7, <1>9, <2>4, <2>5, <2>6, <2>7 DEF IInv, Nonblocking, t
<1> QED BY <1>1, <1>8, <1>9

LEMMA InitiatorReturnsKeeps ==
  ASSUME SimpleTargetSocketAssumption, IInv, NEW h \in DOMAIN handles, InitiatorReturns(h)
  PROVE  IInv' /\ handles[h].trans \in Trans
<1> DEFINE t == handles[h].trans
           r == [handles[h] EXCEPT !.at = "suspended", !.m_suspend = TRUE]
<1>1. /\ Types /\ running = Nb2b(h) /\ handles[h].at = "responding"
      /\ running' = Nobody /\ runnable' = runnable \ {Nb2b(h)}
      /\ handles' = [handles EXCEPT ![h].at = "suspended", ![h].m_suspend = TRUE]
      /\ registered' = registered /\ delta' = delta /\ later' = later
      /\ caller' = caller /\ due' = due /\ b2nb' = b2nb /\ held' = held
      /\ m_pending_trans' = m_pending_trans
      /\ m_current_transaction' = m_current_transaction
      /\ \/ m_response_in_progress' = TRUE /\ stage' = stage
         \/ /\ stage' = [stage EXCEPT ![t] = "idle"]
            /\ m_response_in_progress' = m_response_in_progress
  BY DEF IInv, InitiatorReturns, Waits, blocking, Moves
<1>2. registered = "b_transport" /\ NoThread /\ Nonblocking
  BY <1>1 DEF IInv, Blocking, OneThread, Types, NoThread
<1>3. DOMAIN handles \subseteq Nat /\ handles[h] \in Handles /\ t \in Trans
  BY <1>1, HandlesAreNatural DEF Handles
<1>4. r \in Handles /\ r.at = "suspended" /\ r.m_suspend = TRUE
  BY <1>3 DEF Handles
<1>5. handles' = [handles EXCEPT ![h] = r]
  BY <1>1, <1>3 DEF Handles, Types
<1> HIDE DEF r, t
<1>6. /\ handles' \in Seq(Handles) /\ Len(handles') = Len(handles)
      /\ DOMAIN handles' = DOMAIN handles
      /\ handles'[h] = r
      /\ \A k \in DOMAIN handles : k # h => handles'[k] = handles[k]
  BY <1>1, <1>4, <1>5, HandleChanges
<1>7. Threads /\ HandleOK(h) /\ stage[t] = "responding"
  BY <1>1, <1>2 DEF Nonblocking, Threads, HandleOK, t
<1>8. \A k \in DOMAIN handles : k # h => handles[k].at # "responding" /\ running # Nb2b(k)
  BY <1>1, <1>3, <1>7, Processes DEF Threads, HandleOK
<1>9. /\ stage' \in [Trans -> Stages] /\ m_response_in_progress' \in BOOLEAN
      /\ \A u \in Trans : u # t => stage'[u] = stage[u] /\ stage[u] # "responding"
      /\ \/ m_response_in_progress' = TRUE /\ stage'[t] = "responding"
         \/ stage'[t] = "idle"
  BY <1>1, <1>2, <1>3, <1>7 DEF Types, Stages, Nonblocking, ResponseOut
<1>10. ThreadUnused' /\ delta' \subseteq Events /\ later' \subseteq Events \ delta'
  BY <1>1, <1>2, <1>3, <1>9, Processes DEF Nonblocking, ThreadUnused, Types
<1>11. Types'
  BY <1>1, <1>6, <1>9, <1>10 DEF Types
<1>12. Threads'
  <2>1. ~Busy(h)' /\ \A k \in DOMAIN handles : k # h => (Busy(k)' => Busy(k))
    BY <1>1, <1>4, <1>6 DEF Busy
  <2>2. HandleOK(h)'
    BY <1>1, <1>3, <1>4, <1>6, <2>1, Processes DEF HandleOK
  <2>3. ASSUME NEW k \in DOMAIN handles, k # h PROVE HandleOK(k)'
    <3>1. /\ HandleOK(k) /\ handles'[k] = handles[k] /\ handles[k].at # "responding"
          /\ running' # Nb2b(k) /\ Its(k)' = Its(k) /\ (Busy(k)' => Busy(k))
      BY <1>1, <1>3, <1>6, <1>7, <1>8, <2>1, <2>3, Processes DEF Threads, Its
    <3>2. handles[k] \in Handles /\ Its(k) \in Trans
      BY <1>1, <2>3, HandlesAreNatural DEF Its, Handles
    <3>3. Busy(k) => stage'[Its(k)] = stage[Its(k)]
      <4>1. Busy(k) => Its(k) # t
        BY <1>7, <3>1 DEF HandleOK
      <4> QED BY <1>9, <3>2, <4>1
    <3> QED BY <3>1, <3>3 DEF HandleOK
  <2>4. \A k, m \in DOMAIN handles : Busy(k)' /\ Busy(m)' => k = m
    BY <1>7, <2>1 DEF Threads
  <2> QED BY <1>1, <1>6, <1>7, <2>2, <2>3, <2>4 DEF Threads
<1>13. ResponseOut'
  BY <1>6, <1>9 DEF ResponseOut
<1> QED BY <1>1, <1>2, <1>3, <1>10, <1>11, <1>12, <1>13 DEF IInv, Nonblocking, t

(* The initiator calls when nothing runs, or from inside a call about      *)
(* another transaction.                                                    *)
LEMMA WhoMayCallBack ==
  ASSUME IInv, ~Nested, NEW t \in Trans, MayCall(t), registered = "b_transport"
  PROVE  \/ running = Nobody
         \/ \E h \in DOMAIN handles : /\ running = Nb2b(h) /\ handles[h].at = "responding"
                                      /\ handles[h].trans # t
<1>1. CASE running = Nobody
  BY <1>1
<1>2. CASE running # Nobody
  <2>1. PICK u \in Trans : InCall(running, u) /\ (u = t => Nested)
    BY <1>2 DEF MayCall
  <2>2. running # B2nb
    BY HandlesAreNatural, Processes DEF IInv, Nonblocking, Threads
  <2>3. \E h \in DOMAIN handles : /\ running = Nb2b(h) /\ handles[h].at = "responding"
                                  /\ handles[h].trans = u
    BY <2>1, <2>2 DEF InCall
  <2> QED BY <2>1, <2>3
<1> QED BY <1>1, <1>2

LEMMA EndOfResponseKeeps ==
  ASSUME SimpleTargetSocketAssumption, ~Nested, IInv,
         NEW t \in Trans, NEW when \in Times, EndOfResponse(t, when)
  PROVE  IInv'
<1>1. /\ Types /\ registered = "b_transport" /\ stage[t] = "responding" /\ MayCall(t)
      /\ m_response_in_progress' = FALSE
      /\ NotifyOne(EndResponse, when)
      /\ stage' = [stage EXCEPT ![t] = "idle"]
      /\ registered' = registered /\ running' = running /\ runnable' = runnable
      /\ caller' = caller /\ due' = due /\ b2nb' = b2nb /\ held' = held
      /\ m_pending_trans' = m_pending_trans
      /\ m_current_transaction' = m_current_transaction
      /\ handles' = handles
  BY DEF IInv, EndOfResponse, blocking, Moves
<1>2. NoThread /\ Nonblocking
  BY <1>1 DEF IInv, NoThread
<1>3. DOMAIN handles \subseteq Nat /\ \A h \in DOMAIN handles : handles[h] \in Handles
  BY <1>1, HandlesAreNatural
\* The response is no longer with the initiator: its thread would be running,
\* in a call about this transaction.
<1>4. \A h \in DOMAIN handles : handles[h].at # "responding"
  <2>1. ASSUME NEW h \in DOMAIN handles, handles[h].at = "responding" PROVE FALSE
    <3>1. running = Nb2b(h) /\ stage[handles[h].trans] = "responding"
      BY <1>2, <2>1 DEF Nonblocking, Threads, HandleOK
    <3>2. handles[h].trans = t
      BY <1>1, <1>2, <1>3, <3>1 DEF Nonblocking, ResponseOut, Handles
    <3>3. h \in Nat /\ running # Nobody
      BY <1>3, <3>1, Processes
    <3>4. PICK k \in DOMAIN handles : running = Nb2b(k) /\ handles[k].trans # t
      BY <1>1, <3>3, WhoMayCallBack
    <3>5. k = h
      BY <1>3, <3>1, <3>4, Processes
    <3> QED BY <3>2, <3>4, <3>5
  <2> QED BY <2>1
<1>5. /\ stage' \in [Trans -> Stages] /\ stage'[t] = "idle"
      /\ \A u \in Trans : u # t => stage'[u] = stage[u] /\ stage[u] # "responding"
  BY <1>1, <1>2 DEF Types, Stages, Nonblocking, ResponseOut
<1>6. ThreadUnused' /\ delta' \subseteq Events /\ later' \subseteq Events \ delta'
  <2>1. /\ EndResponse \in Events /\ EndResponse # PeqEvent
        /\ \A u \in Trans : EndResponse # Arrival(u)
    BY EventNames, EventsAreNamed
  <2>2. \A u \in Trans : stage'[u] # "sent" \/ stage'[u] = stage[u]
    BY <1>5
  <2> QED BY <1>1, <1>2, <2>1, <2>2, ThreadStaysUnused
<1>7. Types'
  BY <1>1, <1>5, <1>6 DEF Types
<1>8. Threads'
  <2>1. \A h \in DOMAIN handles : (Busy(h)' <=> Busy(h)) /\ Its(h)' = Its(h)
    BY <1>1 DEF Busy, Its
  <2>2. ASSUME NEW h \in DOMAIN handles PROVE HandleOK(h)'
    <3>1. HandleOK(h) /\ Its(h) \in Trans /\ handles[h].at # "responding"
      BY <1>2, <1>3, <1>4 DEF Nonblocking, Threads, Its, Handles
    <3>2. Busy(h) => stage'[Its(h)] = stage[Its(h)]
      BY <1>1, <1>5, <3>1 DEF HandleOK
    <3> QED BY <1>1, <2>1, <3>1, <3>2 DEF HandleOK
  <2> QED BY <1>1, <1>2, <2>1, <2>2 DEF Nonblocking, Threads
<1>9. ResponseOut'
  BY <1>5 DEF ResponseOut
<1> QED BY <1>1, <1>2, <1>6, <1>7, <1>8, <1>9 DEF IInv, Nonblocking

LEMMA BeginRequestKeeps ==
  ASSUME SimpleTargetSocketAssumption, IInv,
         NEW t \in Trans, NEW when \in Times, BeginRequest(t, when)
  PROVE  IInv'
<1>1. /\ Types /\ registered = "b_transport" /\ stage[t] = "idle"
      /\ \A u \in Trans : stage[u] # "called" /\ stage[u] # "working"
      /\ stage' = [stage EXCEPT ![t] = "called"]
      /\ registered' = registered /\ running' = running
      /\ caller' = caller /\ due' = due /\ b2nb' = b2nb /\ held' = held
      /\ m_pending_trans' = m_pending_trans
      /\ m_current_transaction' = m_current_transaction
      /\ m_response_in_progress' = m_response_in_progress
  BY DEF IInv, BeginRequest, blocking, Moves
<1>2. NoThread /\ Nonblocking /\ Threads
  BY <1>1 DEF IInv, NoThread, Nonblocking
<1>3. /\ DOMAIN handles \subseteq Nat /\ \A h \in DOMAIN handles : handles[h] \in Handles
      /\ DOMAIN handles = 1 .. Len(handles) /\ Len(handles) \in Nat /\ Len(handles) <= 2
      /\ handles \in Seq(Handles)
  BY <1>1, <1>2, HandlesAreNatural DEF Threads, Types
<1>4. \A h \in DOMAIN handles : ~Busy(h)
  <2>1. \A h \in DOMAIN handles : Its(h) \in Trans
    BY <1>3 DEF Its, Handles
  <2> QED BY <1>1, <1>2, <2>1 DEF Threads, HandleOK
<1>5. /\ stage' \in [Trans -> Stages] /\ stage'[t] = "called"
      /\ \A u \in Trans : u # t => stage'[u] = stage[u]
  BY <1>1 DEF Types, Stages
<1>6. MaxHandles \in Nat /\ MaxHandles >= 2
  BY <1>1, AtLeastTwo
<1>7. \A u \in Trans : stage'[u] # "sent" \/ stage'[u] = stage[u]
  BY <1>5
\* Who is with the initiator stays there.
<1>8. \A h \in DOMAIN handles : handles[h].at = "responding" =>
         stage'[handles[h].trans] = "responding" /\ handles[h].trans # t
  <2>1. \A h \in DOMAIN handles : handles[h].trans \in Trans
    BY <1>3 DEF Handles
  <2> QED BY <1>1, <1>2, <1>5, <2>1 DEF Threads, HandleOK
<1>9. CASE Suspended = {}
  <2> DEFINE r == [at |-> "start", trans |-> t, m_trans |-> t, m_suspend |-> FALSE]
  <2>2. r \in Handles /\ r.at = "start" /\ r.trans = t /\ r.m_suspend = FALSE
    BY DEF Handles
  \* Nobody is suspended or busy: the only thread there can be is the one that
  \* runs, in its call to the initiator.
  <2>3. Len(handles) <= 1
    <3>1. SUFFICES ASSUME 1 \in DOMAIN handles, 2 \in DOMAIN handles PROVE FALSE
      BY <1>3
    <3>2. \A h \in {1, 2} : handles[h].at = "responding"
      <4>1. \A h \in {1, 2} : handles[h].at # "suspended"
        BY <1>2, <1>9, <3>1 DEF Suspended, Threads, HandleOK
      <4> QED BY <1>3, <1>4, <3>1, <4>1 DEF Busy, Handles
    <3>3. running = Nb2b(1) /\ running = Nb2b(2)
      BY <1>2, <3>1, <3>2 DEF Threads, HandleOK
    <3> QED BY <3>3, Processes
  <2> PICK n \in Nat : n = Len(handles) + 1
    BY <1>3
  <2>4. n \in Nat /\ n \in 1 .. 2 /\ n \notin DOMAIN handles
    BY <1>3, <2>3
  <2>1. /\ handles' = Append(handles, r) /\ NotifyOne(Start(n), when)
        /\ runnable' = runnable
    BY <1>9 DEF BeginRequest
  <2> HIDE DEF r
  <2>5. /\ handles' \in Seq(Handles) /\ Len(handles') = n /\ handles'[n] = r
        /\ \A k \in DOMAIN handles : handles'[k] = handles[k]
        /\ DOMAIN handles' = DOMAIN handles \cup {n}
    BY <1>3, <2>1, <2>2
  <2>6. Start(n) \in Events
    BY <1>6, <2>4, EventsAreNamed
  <2>7. ThreadUnused' /\ delta' \subseteq Events /\ later' \subseteq Events \ delta'
    <3>1. Start(n) # PeqEvent /\ \A u \in Trans : Start(n) # Arrival(u)
      BY <2>4, EventNames
    <3> QED BY <1>2, <1>7, <2>1, <2>6, <3>1, ThreadStaysUnused
  <2>8. Types'
    BY <1>1, <1>5, <2>5, <2>7 DEF Types
  <2>9. Threads'
    <3>1. \A k \in DOMAIN handles : ~Busy(k)'
      BY <1>4, <2>1, <2>5 DEF Busy
    <3>2. running # Nb2b(n)
      BY <1>2, <1>3, <2>4, Processes DEF Threads
    <3>3. HandleOK(n)'
      BY <1>1, <1>5, <2>2, <2>5, <3>2 DEF HandleOK, Its
    <3>4. ASSUME NEW k \in DOMAIN handles PROVE HandleOK(k)'
      BY <1>1, <1>2, <1>8, <2>5, <3>1 DEF HandleOK, Threads
    <3>5. \A k, m \in DOMAIN handles' : Busy(k)' /\ Busy(m)' => k = m
      BY <2>5, <3>1
    <3>6. Len(handles') <= 2
      BY <2>4, <2>5
    <3>7. running' = Nobody \/ \E k \in DOMAIN handles' : running' = Nb2b(k)
      BY <1>1, <1>2, <2>5 DEF Threads
    <3> QED BY <2>5, <3>3, <3>4, <3>5, <3>6, <3>7 DEF Threads
  <2>10. ResponseOut'
    <3>1. \A h \in DOMAIN handles : h \in DOMAIN handles' /\ handles'[h] = handles[h]
      BY <2>5
    <3>2. \A u \in Trans : stage'[u] = "responding" => stage[u] = "responding"
      BY <1>5
    <3> QED BY <1>1, <1>2, <3>1, <3>2 DEF Nonblocking, ResponseOut
  <2> QED BY <1>1, <2>7, <2>8, <2>9, <2>10 DEF IInv, Nonblocking
<1>10. CASE Suspended # {}
  <2>1. PICK h \in DOMAIN handles : h = Min(Suspended) /\ handles[h].at = "suspended"
    <3>1. Suspended \subseteq {1, 2}
      BY <1>3 DEF Suspended
    <3>2. \E x \in Suspended : \A y \in Suspended : x =< y
      <4>1. CASE 1 \in Suspended
        BY <3>1, <4>1
      <4>2. CASE 1 \notin Suspended
        <5>1. Suspended = {2}
          BY <1>10, <3>1, <4>2
        <5> QED BY <5>1
      <4> QED BY <4>1, <4>2
    <3>3. Min(Suspended) \in Suspended
      BY <3>2 DEF Min
    <3> QED BY <1>2, <3>3 DEF Suspended, Threads, HandleOK
  <2> DEFINE r == [handles[h] EXCEPT !.m_trans = t]
  <2>2. /\ handles' = [handles EXCEPT ![h] = r] /\ NotifyOne(Start(h), when)
        /\ runnable' = runnable \cup {Nb2b(h)}
    BY <1>10, <2>1 DEF BeginRequest
  <2>3. /\ h \in Nat /\ h \in 1 .. 2 /\ handles[h] \in Handles
        /\ r \in Handles /\ r.at = "suspended" /\ r.m_trans = t
        /\ r.m_suspend = handles[h].m_suspend
    BY <1>3, <2>1 DEF Handles
  <2> HIDE DEF r
  <2>4. /\ handles' \in Seq(Handles) /\ Len(handles') = Len(handles)
        /\ DOMAIN handles' = DOMAIN handles
        /\ handles'[h] = r
        /\ \A k \in DOMAIN handles : k # h => handles'[k] = handles[k]
    BY <1>1, <2>1, <2>2, <2>3, HandleChanges
  <2>5. Start(h) \in Events
    BY <1>6, <2>3, EventsAreNamed
  <2>6. ThreadUnused' /\ delta' \subseteq Events /\ later' \subseteq Events \ delta'
    <3>1. Start(h) # PeqEvent /\ \A u \in Trans : Start(h) # Arrival(u)
      BY <2>3, EventNames
    <3> QED BY <1>2, <1>7, <2>2, <2>3, <2>5, <3>1, ThreadStaysUnused
  <2>7. Types'
    BY <1>1, <1>5, <2>4, <2>6 DEF Types
  <2>8. Threads'
    <3>1. \A k \in DOMAIN handles : k # h => ~Busy(k)'
      BY <1>3, <1>4, <2>2, <2>3, <2>4, Processes DEF Busy
    <3>2. stage'[Its(h)'] = "called"
      BY <1>5, <2>3, <2>4 DEF Its
    <3>3. HandleOK(h)'
      BY <1>1, <1>2, <2>1, <2>3, <2>4, <3>2 DEF HandleOK, Threads
    <3>4. ASSUME NEW k \in DOMAIN handles, k # h PROVE HandleOK(k)'
      <4>1. handles'[k] = handles[k] /\ HandleOK(k) /\ ~Busy(k)'
        BY <1>2, <2>4, <3>1, <3>4 DEF Threads
      <4> QED BY <1>1, <1>8, <4>1 DEF HandleOK
    <3>5. \A k, m \in DOMAIN handles : Busy(k)' /\ Busy(m)' => k = m
      BY <3>1
    <3> QED BY <1>1, <1>2, <2>4, <3>3, <3>4, <3>5 DEF Threads
  <2>9. ResponseOut'
    <3>1. \A k \in DOMAIN handles : handles[k].at = "responding" =>
             k \in DOMAIN handles' /\ handles'[k].at = "responding"
      BY <2>1, <2>4
    <3>2. \A u \in Trans : stage'[u] = "responding" => stage[u] = "responding"
      BY <1>5
    <3> QED BY <1>1, <1>2, <3>1, <3>2 DEF Nonblocking, ResponseOut
  <2> QED BY <1>1, <2>6, <2>7, <2>8, <2>9 DEF IInv, Nonblocking
<1> QED BY <1>9, <1>10

-----------------------------------------------------------------------------
(* The invariant.                                                          *)

LEMMA InitHolds == Init => IInv
<1> SUFFICES ASSUME Init PROVE IInv
  OBVIOUS
<1>1. Types
  <2>1. /\ delta \subseteq Events /\ later \subseteq Events \ delta
        /\ m_pending_trans \subseteq Trans /\ held \subseteq Unmanaged
    BY DEF Init
  <2>2. stage \in [Trans -> Stages] /\ caller \in [Trans -> {"away", "end", "done"}]
    BY DEF Init, Stages
  <2>3. due \in Seq(Trans) /\ handles \in Seq(Handles)
    BY DEF Init
  <2>4. /\ b2nb \in [at : {"peq", "calling", "end_request", "pause", "respond", "loop"},
                     trans : Trans \cup {None}]
        /\ m_current_transaction \in Trans \cup {None}
    BY DEF Init
  <2> QED BY <2>1, <2>2, <2>3, <2>4 DEF Init, Types
<1>2. Blocking
  BY Processes DEF Init, Blocking, OneThread, RequestOut, Queued, CallerWaits
<1>3. Nonblocking
  BY DEF Init, Nonblocking, ThreadUnused, Threads, ResponseOut
<1> QED BY <1>1, <1>2, <1>3 DEF IInv

LEMMA NextKeeps ==
  ASSUME ~Eager, ~Nested, IInv, [Next]_vars
  PROVE  IInv'
<1> USE SimpleTargetSocketAssumption
<1>1. CASE Initiator
  BY <1>1, BTransportKeeps, BeginRequestKeeps, EndOfResponseKeeps DEF Initiator
<1>2. CASE Target
  <2>1. ASSUME NEW t \in Trans,
               TargetEndsRequest(t) \/ TargetAcquires(t) \/ TargetReleases(t)
        PROVE  IInv'
    BY <2>1, TargetEndsRequestKeeps, TargetAcquiresKeeps, TargetReleasesKeeps
  <2>2. ASSUME NEW t \in Trans, NEW when \in Times, TargetResponds(t, when)
        PROVE  IInv'
    BY <2>2, TargetRespondsKeeps
  <2>3. ASSUME NEW h \in DOMAIN handles, NEW when \in Times, TargetHasServed(h, when)
        PROVE  IInv'
    BY <2>3, TargetHasServedKeeps
  <2> QED BY <1>2, <2>1, <2>2, <2>3 DEF Target
<1>3. CASE Process
  <2>1. ASSUME NEW t \in Trans, BTransportReturns(t) PROVE IInv'
    BY <2>1, BTransportReturnsKeeps
  <2>2. CASE B2nbTakes
    BY <2>2, B2nbTakesKeeps
  <2>3. ASSUME NEW when \in Times, TargetReturns(when) \/ B2nbEndsResponse(when)
        PROVE  IInv'
    BY <2>3, TargetReturnsKeeps, B2nbEndsResponseKeeps
  <2>4. ASSUME NEW h \in DOMAIN handles,
               Nb2bTakes(h) \/ Nb2bServes(h) \/ Nb2bResponds(h) \/ InitiatorReturns(h)
        PROVE  IInv'
    BY <2>4, Nb2bTakesKeeps, Nb2bServesKeeps, Nb2bRespondsKeeps, InitiatorReturnsKeeps
  <2> QED BY <1>3, <2>1, <2>2, <2>3, <2>4 DEF Process
<1>4. CASE Kernel
  BY <1>4, DeltaCycleKeeps, AdvanceTimeKeeps DEF Kernel
<1>5. CASE UNCHANGED vars
  <2>1. /\ registered' = registered /\ running' = running /\ runnable' = runnable
        /\ delta' = delta /\ later' = later
        /\ caller' = caller /\ due' = due /\ b2nb' = b2nb /\ held' = held
        /\ m_pending_trans' = m_pending_trans
        /\ m_current_transaction' = m_current_transaction
        /\ handles' = handles /\ m_response_in_progress' = m_response_in_progress
        /\ stage' = stage
    BY <1>5 DEF vars, kernel, blocking, nonblocking
  <2>2. Types'
    BY <2>1 DEF IInv, Types
  <2>3. registered = "nb_transport" => Blocking'
    BY <2>1 DEF IInv, Blocking, OneThread, RequestOut, Queued, CallerWaits
  <2>4. registered = "b_transport" => Nonblocking'
    <3>1. \A h \in DOMAIN handles : (Busy(h)' <=> Busy(h)) /\ (HandleOK(h)' <=> HandleOK(h))
      BY <2>1 DEF Busy, HandleOK, Its
    <3> QED BY <2>1, <3>1 DEF IInv, Nonblocking, ThreadUnused, Threads, ResponseOut
  <2> QED BY <2>1, <2>2, <2>3, <2>4 DEF IInv
<1> QED BY <1>1, <1>2, <1>3, <1>4, <1>5 DEF Next

(* The inductive invariant, for targets that leave a woken thread its      *)
(* delta cycle and sides that do not call back about the transaction they  *)
(* are given.                                                              *)
THEOREM SocketInvariance ==
  ASSUME ~Eager, ~Nested
  PROVE  Spec => []IInv
<1>1. Init => IInv
  BY InitHolds
<1>2. IInv /\ [Next]_vars => IInv'
  BY NextKeeps
<1> QED BY <1>1, <1>2, PTL DEF Spec

(* The variables stay within their types: nb_transport_fw spawns no more   *)
(* than two threads, however many transactions there are.                  *)
THEOREM TypesAlwaysHold ==
  ASSUME ~Eager, ~Nested
  PROVE  Spec => [](TypeOK /\ Len(handles) <= 2)
<1>1. IInv => TypeOK /\ Len(handles) <= 2
  <2> SUFFICES ASSUME IInv PROVE TypeOK /\ Len(handles) <= 2
    OBVIOUS
  <2>1. Types /\ Len(handles) \in Nat
    BY HandlesAreNatural DEF IInv
  <2>2. MaxHandles \in Nat
    BY SimpleTargetSocketAssumption, FS_CardinalityType DEF MaxHandles
  <2>3. Len(handles) <= 2 /\ Len(handles) \in 0 .. MaxHandles
    <3>1. CASE registered = "nb_transport"
      BY <2>2, <3>1 DEF IInv, Blocking, OneThread
    <3>2. CASE registered = "b_transport"
      <4>1. Len(handles) <= 2
        BY <3>2 DEF IInv, Nonblocking, Threads
      <4>2. CASE handles = << >>
        BY <2>2, <4>2
      <4>3. CASE handles # << >>
        <5>1. MaxHandles >= 2
          BY <3>2, <4>3, SimpleTargetSocketAssumption, AtLeastTwo
        <5> QED BY <2>1, <2>2, <4>1, <5>1
      <4> QED BY <4>1, <4>2, <4>3
    <3> QED BY <2>1, <3>1, <3>2 DEF Types
  <2>4. \A t \in Trans : caller[t] \in {"away", "end", "done"}
    BY <2>1 DEF Types
  <2>5. /\ b2nb.at \in {"peq", "calling", "end_request", "pause", "respond", "loop"}
        /\ b2nb.trans \in Trans \cup {None}
    BY <2>1 DEF Types
  <2> QED BY <2>1, <2>3, <2>4, <2>5 DEF Types, TypeOK
<1> QED BY <1>1, SocketInvariance, PTL

(* The exclusion rules: the target is given no request while it has one it *)
(* did not end, the initiator no response (nb_transport_fw, b2nb_thread,   *)
(* nb2b_thread).                                                           *)
THEOREM OneAtATimeAlways ==
  ASSUME ~Eager, ~Nested
  PROVE  Spec => []OneAtATime
<1>1. IInv => OneAtATime
  <2> SUFFICES ASSUME IInv, NEW t \in Trans, NEW u \in Trans,
                      stage[t] = stage[u], stage[t] \in {"sent", "responding"}
               PROVE  t = u
    BY DEF OneAtATime
  <2>1. CASE registered = "nb_transport"
    BY <2>1 DEF IInv, Blocking, RequestOut
  <2>2. CASE registered = "b_transport"
    BY <2>2 DEF IInv, Nonblocking, ThreadUnused, ResponseOut
  <2> QED BY <2>1, <2>2 DEF IInv, Types
<1> QED BY <1>1, SocketInvariance, PTL

-----------------------------------------------------------------------------
(* The socket is a transport service (TransportService).                   *)

LEMMA StageMoves ==
  ASSUME stage \in [Trans -> Stages], NEW t \in Trans, NEW to,
         stage' = [stage EXCEPT ![t] = to]
  PROVE  /\ stage[t] = "idle" /\ to = "called" => Service!Step(t, "idle", "called")
         /\ stage[t] = "called" /\ to \in {"sent", "accepted", "working"} =>
               Service!Step(t, "called", "working")
         /\ stage[t] \in {"sent", "accepted", "working"} /\ to \in {"responding", "answered"} =>
               Service!Step(t, "working", "answered")
         /\ stage[t] \in {"responding", "answered"} /\ to = "idle" =>
               Service!Step(t, "answered", "idle")
         /\ stage[t] \in {"sent", "accepted", "working"}
            /\ to \in {"sent", "accepted", "working"} /\ held' = held => UNCHANGED Service!vars
         /\ stage[t] \in {"responding", "answered"}
            /\ to \in {"responding", "answered"} /\ held' = held => UNCHANGED Service!vars
<1>1. /\ \A u \in Trans : stage'[u] = IF u = t THEN to ELSE stage[u]
      /\ stage'[t] = to /\ \A u \in Trans : u # t => stage'[u] = stage[u]
  OBVIOUS
<1>2. stage[t] = "idle" /\ to = "called" => Service!Step(t, "idle", "called")
  BY <1>1 DEF Service!Step
<1>3. stage[t] = "called" /\ to \in {"sent", "accepted", "working"} =>
         Service!Step(t, "called", "working")
  BY <1>1 DEF Service!Step
<1>4. stage[t] \in {"sent", "accepted", "working"} /\ to \in {"responding", "answered"} =>
         Service!Step(t, "working", "answered")
  BY <1>1 DEF Service!Step
<1>5. stage[t] \in {"responding", "answered"} /\ to = "idle" =>
         Service!Step(t, "answered", "idle")
  BY <1>1 DEF Service!Step
<1>6. /\ stage[t] \in {"sent", "accepted", "working"}
         /\ to \in {"sent", "accepted", "working"} /\ held' = held => UNCHANGED Service!vars
      /\ stage[t] \in {"responding", "answered"}
         /\ to \in {"responding", "answered"} /\ held' = held => UNCHANGED Service!vars
  BY <1>1 DEF Service!vars
<1> QED BY <1>2, <1>3, <1>4, <1>5, <1>6

LEMMA StageStays ==
  ASSUME stage' = stage, held' = held
  PROVE  UNCHANGED Service!vars
BY DEF Service!vars

(* The steps of the blocking conversion.                                   *)
LEMMA BlockingStepsServe ==
  ASSUME ~Nested, IInv, NEW t \in Trans, NEW when \in Times,
         \/ BTransport(t, when) \/ BTransportReturns(t) \/ TargetEndsRequest(t)
         \/ TargetResponds(t, when) \/ TargetAcquires(t) \/ TargetReleases(t)
  PROVE  [Service!Next]_(Service!vars)
<1>1. stage \in [Trans -> Stages] /\ held \subseteq Unmanaged
  BY DEF IInv, Types
<1>2. CASE BTransport(t, when)
  <2>1. stage[t] = "idle" /\ stage' = [stage EXCEPT ![t] = "called"] /\ held' = held
    BY <1>2 DEF BTransport, Moves
  <2>2. Service!Call(t)
    BY <1>1, <2>1, StageMoves DEF Service!Call
  <2> QED BY <2>2 DEF Service!Next
<1>3. CASE BTransportReturns(t)
  <2>1. held' = held
    BY <1>3 DEF BTransportReturns
  <2>2. CASE StillReferenced(t)
    BY <1>3, <2>1, <2>2, StageStays DEF BTransportReturns
  <2>3. CASE ~StillReferenced(t)
    <3>1. stage' = [stage EXCEPT ![t] = "idle"] /\ Runs(Caller(t))
      BY <1>3, <2>3 DEF BTransportReturns, Moves
    <3>2. t \notin held
      BY <1>1, <2>3 DEF StillReferenced
    <3>3. stage[t] = "answered"
      <4>1. CASE registered = "nb_transport"
        <5>1. Caller(t) \in runnable
          BY <3>1, <4>1, Processes DEF Runs, IInv, Blocking, OneThread
        <5> QED BY <4>1, <5>1 DEF IInv, Blocking, CallerWaits
      <4>2. CASE registered = "b_transport"
        <5>1. running # Caller(t)
          BY <4>2, HandlesAreNatural, Processes DEF IInv, Nonblocking, Threads
        <5> QED BY <3>1, <4>2, <5>1 DEF Runs, IInv, Nonblocking, ThreadUnused
      <4> QED BY <4>1, <4>2 DEF IInv, Types
    <3>4. Service!Step(t, "answered", "idle")
      BY <1>1, <3>1, <3>3, StageMoves
    <3>5. Service!Return(t)
      BY <2>1, <3>2, <3>4 DEF Service!Return
    <3> QED BY <3>5 DEF Service!Next
  <2> QED BY <2>2, <2>3
<1>4. CASE TargetEndsRequest(t)
  <2>1. /\ stage[t] = "sent" /\ stage' = [stage EXCEPT ![t] = "accepted"] /\ held' = held
    BY <1>4 DEF TargetEndsRequest, Moves, blocking
  <2> QED BY <1>1, <2>1, StageMoves
<1>5. CASE TargetResponds(t, when)
  <2>1. /\ stage[t] \in {"sent", "accepted"}
        /\ stage' = [stage EXCEPT ![t] = "answered"] /\ held' = held
    BY <1>5 DEF TargetResponds, Ended, Moves
  <2>2. Service!Answer(t)
    BY <1>1, <2>1, StageMoves DEF Service!Answer
  <2> QED BY <2>2 DEF Service!Next
<1>6. CASE TargetAcquires(t)
  <2>1. stage[t] = "sent" /\ stage' = stage /\ held' = held \cup {t}
    BY <1>6 DEF TargetAcquires
  <2>2. Service!Hold(t)
    BY <2>1 DEF Service!Hold
  <2> QED BY <2>2 DEF Service!Next
<1>7. CASE TargetReleases(t)
  <2>1. stage' = stage /\ held' = held \ {t}
    BY <1>7 DEF TargetReleases
  <2>2. Service!LetGo(t)
    BY <2>1 DEF Service!LetGo
  <2> QED BY <2>2 DEF Service!Next
<1> QED BY <1>2, <1>3, <1>4, <1>5, <1>6, <1>7

(* The steps of b2nb_thread.                                               *)
LEMMA ThreadStepsServe ==
  ASSUME IInv, NEW when \in Times,
         B2nbTakes \/ TargetReturns(when) \/ B2nbEndsResponse(when)
  PROVE  [Service!Next]_(Service!vars)
<1> DEFINE t == b2nb.trans
<1>1. stage \in [Trans -> Stages] /\ due \in Seq(Trans)
  BY DEF IInv, Types
<1>2. CASE B2nbTakes
  <2>1. held' = held
    BY <1>2 DEF B2nbTakes
  <2>2. CASE due = << >>
    BY <1>2, <2>1, <2>2, StageStays DEF B2nbTakes
  <2>3. CASE due # << >>
    <3>1. PICK u \in Trans : u = Head(due) /\ u = due[1] /\ 1 \in 1 .. Len(due)
      BY <1>1, <2>3
    <3>2. stage' = [stage EXCEPT ![u] = "sent"]
      BY <1>2, <2>3, <3>1 DEF B2nbTakes, Moves
    <3>3. stage[u] = "called"
      BY <2>3, <3>1 DEF IInv, Types, Blocking, Nonblocking, Queued, ThreadUnused
    <3>4. Service!Step(u, "called", "working")
      BY <1>1, <3>2, <3>3, StageMoves
    <3>5. Service!Serve(u)
      BY <2>1, <3>4 DEF Service!Serve
    <3> QED BY <3>5 DEF Service!Next
  <2> QED BY <2>2, <2>3
<1>3. CASE TargetReturns(when)
  <2>1. running = B2nb /\ b2nb.at = "calling" /\ held' = held
    BY <1>3 DEF TargetReturns
  <2>2. PICK u \in Trans : u = t /\ stage[u] = "sent"
    BY <2>1, Calling
  <2>3. \/ stage' = stage
        \/ stage' = [stage EXCEPT ![u] = "answered"]
        \/ stage' = [stage EXCEPT ![u] = "accepted"]
        \/ stage' = [stage EXCEPT ![u] = "responding"]
    BY <1>3, <2>2 DEF TargetReturns, Accepted, Completed, RequestEnded, Responded, Ended, Moves
  <2>4. CASE stage' = stage
    BY <2>1, <2>4, StageStays
  <2>5. CASE stage' = [stage EXCEPT ![u] = "accepted"]
    BY <1>1, <2>1, <2>2, <2>5, StageMoves
  <2>6. CASE \/ stage' = [stage EXCEPT ![u] = "answered"]
             \/ stage' = [stage EXCEPT ![u] = "responding"]
    <3>1. Service!Step(u, "working", "answered")
      BY <1>1, <2>2, <2>6, StageMoves
    <3>2. Service!Answer(u)
      BY <2>1, <3>1 DEF Service!Answer
    <3> QED BY <3>2 DEF Service!Next
  <2> QED BY <2>3, <2>4, <2>5, <2>6
<1>4. CASE B2nbEndsResponse(when)
  <2>1. b2nb.at = "respond" /\ stage' = [stage EXCEPT ![t] = "answered"] /\ held' = held
    BY <1>4 DEF B2nbEndsResponse, Ended, Moves
  <2>2. PICK u \in Trans : u = t /\ stage[u] = "responding"
    BY <2>1 DEF IInv, Types, Blocking, RequestOut, Nonblocking, ThreadUnused
  <2> QED BY <1>1, <2>1, <2>2, StageMoves
<1> QED BY <1>2, <1>3, <1>4

(* The steps of the nonblocking conversion.                                *)
LEMMA NonblockingStepsServe ==
  ASSUME IInv, NEW when \in Times,
         \/ \E t \in Trans : BeginRequest(t, when) \/ EndOfResponse(t, when)
         \/ \E h \in DOMAIN handles :
               \/ Nb2bTakes(h) \/ Nb2bServes(h) \/ Nb2bResponds(h) \/ InitiatorReturns(h)
               \/ TargetHasServed(h, when)
  PROVE  [Service!Next]_(Service!vars)
<1> USE SimpleTargetSocketAssumption
<1>1. registered = "b_transport" => held = {}
  BY DEF IInv, Types, Nonblocking, ThreadUnused
<1>2. stage \in [Trans -> Stages]
  BY DEF IInv, Types
<1>3. ASSUME NEW t \in Trans, BeginRequest(t, when)
      PROVE  [Service!Next]_(Service!vars)
  <2>1. stage[t] = "idle" /\ stage' = [stage EXCEPT ![t] = "called"] /\ held' = held
    BY <1>3 DEF BeginRequest, Moves, blocking
  <2>2. Service!Call(t)
    BY <1>2, <2>1, StageMoves DEF Service!Call
  <2> QED BY <2>2 DEF Service!Next
<1>4. ASSUME NEW t \in Trans, EndOfResponse(t, when)
      PROVE  [Service!Next]_(Service!vars)
  <2>1. /\ stage[t] = "responding" /\ stage' = [stage EXCEPT ![t] = "idle"]
        /\ held' = held /\ registered = "b_transport"
    BY <1>4 DEF EndOfResponse, Moves, blocking
  <2>2. t \notin held
    BY <1>1, <1>2, <2>1
  <2>3. Service!Step(t, "answered", "idle")
    BY <1>2, <2>1, StageMoves
  <2>4. Service!Return(t)
    BY <2>1, <2>2, <2>3 DEF Service!Return
  <2> QED BY <2>4 DEF Service!Next
<1>5. ASSUME NEW h \in DOMAIN handles, Nb2bTakes(h) \/ TargetHasServed(h, when)
      PROVE  [Service!Next]_(Service!vars)
  BY <1>5, StageStays DEF Nb2bTakes, TargetHasServed, blocking
<1>6. ASSUME NEW h \in DOMAIN handles, Nb2bServes(h)
      PROVE  [Service!Next]_(Service!vars)
  <2>1. PICK t \in Trans : t = handles[h].trans /\ stage[t] = "called"
    BY <1>6, Nb2bServesKeeps
  <2>2. stage' = [stage EXCEPT ![t] = "working"] /\ held' = held
    BY <1>6, <2>1 DEF Nb2bServes, Moves, blocking
  <2>3. Service!Serve(t)
    BY <1>2, <2>1, <2>2, StageMoves DEF Service!Serve
  <2> QED BY <2>3 DEF Service!Next
<1>7. ASSUME NEW h \in DOMAIN handles, Nb2bResponds(h)
      PROVE  [Service!Next]_(Service!vars)
  <2>1. held' = held
    BY <1>7 DEF Nb2bResponds, blocking
  <2>2. CASE stage' = stage
    BY <2>1, <2>2, StageStays
  <2>3. CASE stage' # stage
    <3>1. PICK t \in Trans : stage[t] = "working"
                             /\ stage' = [stage EXCEPT ![t] = "responding"]
      BY <1>7, <2>3, Nb2bRespondsKeeps
    <3>2. Service!Answer(t)
      BY <1>2, <2>1, <3>1, StageMoves DEF Service!Answer
    <3> QED BY <3>2 DEF Service!Next
  <2> QED BY <2>2, <2>3
<1>8. ASSUME NEW h \in DOMAIN handles, InitiatorReturns(h)
      PROVE  [Service!Next]_(Service!vars)
  <2>1. held' = held
    BY <1>8 DEF InitiatorReturns, blocking
  <2>2. CASE stage' = stage
    BY <2>1, <2>2, StageStays
  <2>3. CASE stage' # stage
    <3>1. PICK t \in Trans : t = handles[h].trans
      BY <1>8, InitiatorReturnsKeeps
    <3>2. stage[t] = "responding" /\ stage' = [stage EXCEPT ![t] = "idle"]
      BY <1>8, <2>3, <3>1 DEF InitiatorReturns, Moves
    <3>3. registered = "b_transport"
      BY <1>8 DEF IInv, Types, Blocking, OneThread
    <3>4. t \notin held
      BY <1>1, <1>2, <3>3
    <3>5. Service!Step(t, "answered", "idle")
      BY <1>2, <3>2, StageMoves
    <3>6. Service!Return(t)
      BY <2>1, <3>4, <3>5 DEF Service!Return
    <3> QED BY <3>6 DEF Service!Next
  <2> QED BY <2>2, <2>3
<1> QED BY <1>3, <1>4, <1>5, <1>6, <1>7, <1>8

(* Each transaction is given to the target once, its answer is passed on   *)
(* once, and a caller's own payload goes back when the target released it: *)
(* every step of the socket is one of the service, or none (the safety     *)
(* part of ServesEachOnce).                                                *)
THEOREM SocketImplementsService ==
  ASSUME ~Eager, ~Nested
  PROVE  Spec => Service!Init /\ [][Service!Next]_(Service!vars)
<1>1. Init => Service!Init
  BY DEF Init, Service!Init
<1>2. IInv /\ [Next]_vars => [Service!Next]_(Service!vars)
  <2> SUFFICES ASSUME IInv, [Next]_vars PROVE [Service!Next]_(Service!vars)
    OBVIOUS
  <2>1. CASE Initiator
    BY <2>1, BlockingStepsServe, NonblockingStepsServe DEF Initiator
  <2>2. CASE Target
    <3>1. "delta" \in Times
      BY DEF Times
    <3> QED BY <2>2, <3>1, BlockingStepsServe, NonblockingStepsServe DEF Target
  <2>3. CASE Process
    <3>1. "delta" \in Times
      BY DEF Times
    <3> QED BY <2>3, <3>1, BlockingStepsServe, ThreadStepsServe, NonblockingStepsServe DEF Process
  <2>4. CASE Kernel \/ UNCHANGED vars
    BY <2>4, StageStays DEF Kernel, DeltaCycle, AdvanceTime, vars, blocking
  <2> QED BY <2>1, <2>2, <2>3, <2>4 DEF Next
<1> QED BY <1>1, <1>2, SocketInvariance, PTL DEF Spec
=============================================================================
