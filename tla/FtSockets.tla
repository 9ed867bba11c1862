------------------------------ MODULE FtSockets ------------------------------
(***************************************************************************)
(* ft_initiator_socket and ft_target_socket with their implementations:    *)
(* sockets are bound to each other up and down the module hierarchy, in    *)
(* any order the exports allow, and keep handles of their neighbours.      *)
(* Commands (clocks, protocols, intercepts) travel along the handles, the  *)
(* TLM calls along the SystemC ports; each socket calls through a forward  *)
(* pointer of its own.                                                     *)
(***************************************************************************)
EXTENDS Naturals, Sequences, SequencesExt, FiniteSets

CONSTANTS
    Initiators, Targets,   \* the sockets
    Optional,              \* the sockets that may stay unbound
    Encloses,              \* pairs of sockets: the first one's module contains
                           \* the second one's
    Construction,          \* the sockets in the order of their construction,
                           \* initiators first
    ClockPeriods,
    EarlyIntercepts,       \* may an intercept come before end_of_elaboration?
    NoSocket, Intercept

Sockets == Initiators \cup Targets

ASSUME FtSocketsAssumption ==
    /\ Initiators \cap Targets = {} /\ IsFiniteSet(Sockets)
    /\ Encloses \subseteq (Initiators \X Initiators) \cup (Targets \X Targets)
    /\ Construction \in Seq(Sockets) /\ ToSet(Construction) = Sockets
    /\ EarlyIntercepts \in BOOLEAN
    /\ Optional \subseteq Sockets /\ {NoSocket, Intercept} \cap Sockets = {} /\ 0 \in ClockPeriods

VARIABLES
    elaborated,     \* SystemC has completed the bindings of the ports
    handled,        \* the sockets whose end_of_elaboration has run
    exports,        \* the socket that implements what an export gives access to
    ports,          \* what each port is bound to: interfaces, other ports
    isImplementer, isScPortBound, isInterceptActive,
    parent, child, peer,    \* m_parentHandle, m_childHandle, m_peerHandle
    forward,        \* mFwIf or mBwIf: whom the socket calls
    targetClk,      \* m_targetClkPeriod
    asked           \* for checking: the sockets that asked for an intercept

binding == << exports, ports, isImplementer, isScPortBound, parent, child, peer >>
ftVars == << elaborated, handled, binding, isInterceptActive, forward, targetClk, asked >>

-----------------------------------------------------------------------------
(* The sockets reached from s along the pairs of a relation.               *)
Reached(relation, s) ==
    LET all    == {s} \cup {e[2] : e \in relation}
        closed == {C \in SUBSET all :
                      s \in C /\ \A e \in relation : e[1] \in C => e[2] \in C}
    IN  {x \in all : \A C \in closed : x \in C}

(* SystemC: a port's interfaces are those it is bound to, and those of the *)
(* ports it is bound to.  Their order plays no role, since a socket only   *)
(* ever asks for a sole interface.  Before the bindings are completed only *)
(* what was bound ahead of any port is known.                              *)
ToInterface(s) == [kind |-> "interface", of |-> s]
ToPort(s)      == [kind |-> "port", of |-> s]

PortBindings == {e \in Sockets \X Sockets : ToPort(e[2]) \in ToSet(ports[e[1]])}
BoundPorts(s) == Reached(PortBindings, s)

Interfaces(s) ==
    LET bound == BoundPorts(s)
    IN  {f \in Sockets : \E p \in bound : ToInterface(f) \in ToSet(ports[p])}

ReachesOneTwice(s) ==
    \E p, q \in BoundPorts(s) : p # q /\ \E f \in Sockets :
        ToInterface(f) \in ToSet(ports[p]) \cap ToSet(ports[q])

FirstKnown(bound) ==
    IF bound # << >> /\ Head(bound).kind = "interface" THEN Head(bound).of ELSE NoSocket

-----------------------------------------------------------------------------
(* execute_command: a command for the target goes to the parent or else to *)
(* the peer, and down the children on the other side; one for the          *)
(* initiator goes to the peer or else to the parent, and down.             *)
Down(sockets) == {<< s, child[s] >> : s \in {s \in sockets : child[s] # NoSocket}}

TowardsTarget ==
    {<< i, IF parent[i] # NoSocket THEN parent[i] ELSE peer[i] >> : i \in Initiators}
        \cup Down(Targets)

TowardsInitiator ==
    {<< t, IF peer[t] # NoSocket THEN peer[t] ELSE parent[t] >> : t \in Targets}
        \cup Down(Initiators)

FarEnd(relation, s) == CHOOSE x \in Reached(relation, s) : \A e \in relation : e[1] # x

(* CHECK_MULTI_BINDING                                                     *)
\* Mutant of IsMultiBound.
IsMultiBound_NotDown(s) ==
    LET path == Reached(TowardsTarget, s)
    IN  \/ NoSocket \in path
        \/ \E x \in path : child[x] # NoSocket /\ \E f, g \in Interfaces(x) : f # g

IsMultiBound(s) ==
    LET path == Reached(TowardsTarget, s)
    IN  NoSocket \in path \/ \E x \in path : \E f, g \in Interfaces(x) : f # g

-----------------------------------------------------------------------------
(* bind_to_interface: the module's own interface implements the export.    *)
BindToInterface(s) ==
    /\ ~elaborated /\ exports[s] = NoSocket
    /\ exports' = [exports EXCEPT ![s] = s]
    /\ isImplementer' = [isImplementer EXCEPT ![s] = TRUE]
    /\ UNCHANGED << ports, isScPortBound, parent, child, peer, elaborated, handled,
                    isInterceptActive, forward, targetClk, asked >>

(* Both ports are bound to the other's interface.  An export must have its *)
(* interface then, and no port is bound to an interface twice.             *)
Connected(i, t) ==
    /\ ~elaborated /\ exports[i] # NoSocket /\ exports[t] # NoSocket
    /\ ToInterface(exports[t]) \notin ToSet(ports[i])
    /\ ToInterface(exports[i]) \notin ToSet(ports[t])
    /\ ports' = [ports EXCEPT ![i] = Append(@, ToInterface(exports[t])),
                              ![t] = Append(@, ToInterface(exports[i]))]

(* bind_to_peer of the initiator; SET_PEER_HANDLE of the target in it.     *)
InitiatorBindToPeer(i, t) ==
    /\ Connected(i, t)
    /\ IF isScPortBound[i] THEN UNCHANGED << peer, forward >>
       ELSE /\ peer' = [peer EXCEPT ![i] = t, ![t] = i]
            /\ forward' = [forward EXCEPT ![i] = FirstKnown(ports'[i]),
                                          ![t] = FirstKnown(ports'[t])]
    /\ isScPortBound' = [isScPortBound EXCEPT ![i] = TRUE,
                                              ![t] = @ \/ ~isScPortBound[i]]
    /\ UNCHANGED << exports, isImplementer, parent, child, elaborated, handled,
                    isInterceptActive, targetClk, asked >>

(* bind_to_peer of the target tells the initiator nothing.                 *)
TargetBindToPeer(t, i) ==
    /\ Connected(i, t)
    /\ peer' = [peer EXCEPT ![t] = i]
    /\ isScPortBound' = [isScPortBound EXCEPT ![t] = TRUE]
    /\ forward' = [forward EXCEPT ![t] = FirstKnown(ports'[t])]
    /\ UNCHANGED << exports, isImplementer, parent, child, elaborated, handled,
                    isInterceptActive, targetClk, asked >>

(* bind_to_parent of an initiator; SET_CHILD_HANDLE of the parent in it.   *)
BindToParent(i, p) ==
    /\ ~elaborated /\ exports[i] # NoSocket /\ exports[p] = NoSocket
    /\ ports' = [ports EXCEPT ![i] = Append(@, ToPort(p))]
    /\ exports' = [exports EXCEPT ![p] = exports[i]]
    /\ parent' = [parent EXCEPT ![i] = IF isScPortBound[i] THEN @ ELSE p]
    /\ isScPortBound' = [isScPortBound EXCEPT ![i] = TRUE]
    /\ child' = [child EXCEPT ![p] = i]
    /\ UNCHANGED << isImplementer, peer, elaborated, handled, isInterceptActive, forward,
                    targetClk, asked >>

(* bind_to_child of a target; SET_PARENT_HANDLE of the child in it.        *)
BindToChild(t, c) ==
    /\ ~elaborated /\ ~isImplementer[t] /\ exports[c] # NoSocket /\ exports[t] = NoSocket
    /\ exports' = [exports EXCEPT ![t] = exports[c]]
    /\ ports' = [ports EXCEPT ![c] = Append(@, ToPort(t))]
    /\ child' = [child EXCEPT ![t] = c]
    /\ parent' = [parent EXCEPT ![c] = t]
    /\ isScPortBound' = [isScPortBound EXCEPT ![c] = TRUE]
    /\ UNCHANGED << isImplementer, peer, elaborated, handled, isInterceptActive, forward,
                    targetClk, asked >>

(* SystemC refuses exports that are bound to nothing, ports too unless     *)
(* their policy allows it, and ports that reach an interface twice.        *)
CompleteBinding ==
    /\ ~elaborated
    /\ \A s \in Sockets : /\ exports[s] # NoSocket
                          /\ Interfaces(s) # {} \/ s \in Optional
                          /\ ~ReachesOneTwice(s)
    /\ elaborated' = TRUE
    /\ UNCHANGED << handled, binding, isInterceptActive, forward, targetClk, asked >>

(* handle_end_of_elaboration.  SystemC calls the ports, which initiator    *)
(* sockets are, in the order of construction, then the exports, which      *)
(* target sockets are, then the modules.                                   *)
\* Mutant of SetsForward.
SetsForward_TargetsOnly(s, f) ==
    Interfaces(s) = {f} /\ s \in Targets

SetsForward(s, f) ==
    /\ Interfaces(s) = {f}
    /\ s \in Initiators => isImplementer[s] /\ isScPortBound[s]

EndOfElaboration(s) ==
    /\ elaborated /\ s \notin handled
    /\ \A k \in DOMAIN Construction :
          Construction[k] = s => \A j \in 1..(k - 1) : Construction[j] \in handled
    /\ handled' = handled \cup {s}
    /\ forward' = [forward EXCEPT ![s] =
          IF \E f \in Sockets : SetsForward(s, f)
          THEN CHOOSE f \in Sockets : SetsForward(s, f) ELSE @]
    /\ UNCHANGED << elaborated, binding, isInterceptActive, targetClk, asked >>

-----------------------------------------------------------------------------
(* set_clock of a target, "must be called from end_of_elaboration" of a    *)
(* module: every target on the way to the initiator takes the period, and  *)
(* so does the initiator at the end of it.                                 *)
\* Mutant of SetClock.
SetClock_OuterInitiator(t, period) ==
    /\ handled = Sockets /\ isImplementer[t]
    /\ targetClk' = [s \in Sockets |->
            IF s \in Reached(TowardsInitiator, t) /\ (s \in Targets \/ peer[s] # NoSocket)
            THEN period ELSE targetClk[s]]
    /\ UNCHANGED << elaborated, handled, binding, isInterceptActive, forward, asked >>

SetClock(t, period) ==
    /\ handled = Sockets /\ isImplementer[t]
    /\ targetClk' = [s \in Sockets |->
            IF s \in Reached(TowardsInitiator, t)
               /\ (s \in Targets \/ s = FarEnd(TowardsInitiator, t))
            THEN period ELSE targetClk[s]]
    /\ UNCHANGED << elaborated, handled, binding, isInterceptActive, forward, asked >>

(* The initiators that CHECK_MULTI_BINDING clears for interception.        *)
Exclusive == {i \in Initiators : elaborated /\ isImplementer[i] /\ ~IsMultiBound(i)}

(* REPLACE_IF_TRGT_PORT and REPLACE_IF_INIT_PORT: whom the other end calls *)
(* is replaced by an intercept, a target's once only.                      *)
MayAsk(s, end) ==
    /\ s \notin asked /\ end # NoSocket
    /\ EarlyIntercepts \/ end \in handled
    /\ asked' = asked \cup {s}

ReplaceInterfaceTargetPort(i) ==
    LET t == FarEnd(TowardsTarget, i)
    IN  /\ MayAsk(i, t)
        /\ forward' = [forward EXCEPT ![t] = IF isInterceptActive[t] THEN @ ELSE Intercept]
        /\ isInterceptActive' = [isInterceptActive EXCEPT ![t] = TRUE]
        /\ UNCHANGED << elaborated, handled, binding, targetClk >>

ReplaceInterfaceInitPort(t) ==
    LET i == FarEnd(TowardsInitiator, t)
    IN  /\ MayAsk(t, i)
        /\ forward' = [forward EXCEPT ![i] = Intercept]
        /\ UNCHANGED << elaborated, handled, binding, isInterceptActive, targetClk >>

(* Intercepts are asked for where no binding is multiple.                  *)
Intercepted ==
    \E i \in Exclusive :
        \/ ReplaceInterfaceTargetPort(i)
        \/ \E t \in Interfaces(i) : ReplaceInterfaceInitPort(t)

-----------------------------------------------------------------------------
FtInit ==
    /\ elaborated = FALSE /\ handled = {} /\ asked = {}
    /\ exports = [s \in Sockets |-> NoSocket] /\ ports = [s \in Sockets |-> << >>]
    /\ isImplementer = [s \in Sockets |-> FALSE]
    /\ isScPortBound = [s \in Sockets |-> FALSE]
    /\ isInterceptActive = [s \in Targets |-> FALSE]
    /\ parent = [s \in Sockets |-> NoSocket] /\ child = [s \in Sockets |-> NoSocket]
    /\ peer = [s \in Sockets |-> NoSocket]
    /\ forward = [s \in Sockets |-> NoSocket]
    /\ targetClk = [s \in Sockets |-> 0]

FtNext ==
    \/ \E s \in Sockets : BindToInterface(s) \/ EndOfElaboration(s)
    \/ \E i \in Initiators, t \in Targets : InitiatorBindToPeer(i, t) \/ TargetBindToPeer(t, i)
    \/ \E e \in Encloses :
          \/ e[1] \in Initiators /\ BindToParent(e[2], e[1])
          \/ e[1] \in Targets /\ BindToChild(e[1], e[2])
    \/ CompleteBinding
    \/ \E t \in Targets, period \in ClockPeriods : SetClock(t, period)
    \/ Intercepted

FtSpec == FtInit /\ [][FtNext]_ftVars

-----------------------------------------------------------------------------
(***************************************************************************)
(* Where CHECK_MULTI_BINDING finds no multiple binding, commands end where *)
(* the TLM calls end: the handles lead an initiator to the target that     *)
(* implements its only interface, and that target back to it, in whatever  *)
(* order the hierarchy was bound (get_target_clock, get_init_clock,        *)
(* get_target_protocol and the others).                                    *)
(***************************************************************************)
CommandsFollowTheCalls ==
    \A i \in Exclusive :
        LET t == FarEnd(TowardsTarget, i)
        IN  /\ Interfaces(i) = {t} /\ Interfaces(t) = {i}
            /\ FarEnd(TowardsInitiator, t) = i

(***************************************************************************)
(* After its end of elaboration a socket on such a path calls through a    *)
(* pointer to its peer's interface, or to the intercept that the peer has  *)
(* asked for (handle_end_of_elaboration, replace_interface_target_port,    *)
(* replace_interface_init_port): none is lost, none hits a third socket.   *)
(***************************************************************************)
ForwardPointersAreRight ==
    \A i \in Exclusive :
        \A s \in {i} \cup Interfaces(i) :
            s \in handled =>
                \A f \in Interfaces(s) : forward[s] = IF f \in asked THEN Intercept ELSE f

(***************************************************************************)
(* The period a target pushes to the initiator by SET_TARGET_CLK is the    *)
(* one the initiator would get by GET_TRGT_CLK (set_clock,                 *)
(* set_target_clock_period, get_target_clock).                             *)
(***************************************************************************)
ClocksAgree ==
    \A i \in Exclusive : targetClk[i] = targetClk[FarEnd(TowardsTarget, i)]

(***************************************************************************)
(* "This function is called irrespective of the socket on which the peer   *)
(* binding function is called. target_socket.bind(initiator_socket) will   *)
(* also land up here" (bind_to_peer of the initiator): an initiator with a *)
(* single interface can call it after the end of elaboration.              *)
(***************************************************************************)
EitherSideMayBind ==
    \A i \in Initiators :
        i \in handled /\ isImplementer[i] /\ (\E t \in Targets : Interfaces(i) = {t})
            => forward[i] # NoSocket
=============================================================================
