-------------------------- MODULE SimpleTargetSocket --------------------------
(***************************************************************************)
(* scml2::simple_target_socket where it converts calls: a module that only *)
(* registered b_transport is called by nb_transport_fw through threads of  *)
(* the socket (nb2b_thread), and one that only registered nb_transport_fw  *)
(* is called by b_transport through one thread (b2nb_thread).  Calls that  *)
(* need no conversion are passed on and keep nothing.                      *)
(*                                                                         *)
(* SystemC's scheduler is part of the model: processes run one at a time   *)
(* until they wait, events notified for zero time fire in the next delta   *)
(* cycle, the others when time advances and nothing else is left to do.    *)
(***************************************************************************)
EXTENDS Naturals, Sequences, SequencesExt, FiniteSetsExt

CONSTANTS
    Trans,       \* the transactions of the initiator
    Unmanaged,   \* those without a memory manager: the caller's own payload
    Eager,       \* may the target respond in the delta cycle after END_REQ?
    Nested,      \* may a side call back about the transaction it is given?
    None

ASSUME SimpleTargetSocketAssumption ==
    /\ IsFiniteSet(Trans) /\ Unmanaged \subseteq Trans /\ None \notin Trans
    /\ Eager \in BOOLEAN /\ Nested \in BOOLEAN

VARIABLES
    registered,     \* the callback of the target
    \* SystemC
    running,        \* the process that is executing
    runnable,       \* those to be executed in this evaluation phase
    delta, later,   \* the events that fire in the next delta cycle, or later
    \* b_transport to nb_transport_fw
    caller,         \* what the thread inside b_transport waits for
    due,            \* the transactions m_peq has for the thread now
    b2nb,           \* where b2nb_thread is, and its trans
    m_pending_trans, m_current_transaction,
    held,           \* the transactions the target keeps a reference to
    \* nb_transport_fw to b_transport
    handles,        \* m_process_handle with the threads of the handles
    m_response_in_progress,
    \* for the two sides
    stage           \* how far each transaction is

kernel == << running, runnable, delta, later >>
blocking == << caller, due, b2nb, m_pending_trans, m_current_transaction, held >>
nonblocking == << handles, m_response_in_progress >>
vars == << registered, kernel, blocking, nonblocking, stage >>

-----------------------------------------------------------------------------
(* Processes and the events they wait for.                                 *)
Caller(t) == << "caller", t >>
B2nb      == << "b2nb", 0 >>
Nb2b(h)   == << "nb2b", h >>
Nobody    == << "nobody", 0 >>

PeqEvent    == << "peq", 0 >>
EndRequest  == << "end_request", 0 >>    \* m_end_request
EndResponse == << "end_response", 0 >>   \* m_end_response
End(t)      == << "end", t >>            \* end_event of b_transport
Arrival(t)  == << "arrival", t >>        \* t becomes due in m_peq
Start(h)    == << "start", h >>          \* m_e
Timer(p)    == << "timer", p >>          \* wait(t)

MaxHandles == Cardinality(Trans) + 1
Events ==
    {PeqEvent, EndRequest, EndResponse, Timer(B2nb)}
    \cup (UNION {{End(t), Arrival(t)} : t \in Trans})
    \cup (UNION {{Start(h), Timer(Nb2b(h))} : h \in 1..MaxHandles})

Waiting(fired) ==
    {Caller(t) : t \in {t \in Trans : caller[t] = "end" /\ End(t) \in fired}}
    \cup {p \in {B2nb} : \/ b2nb.at = "peq" /\ PeqEvent \in fired
                         \/ b2nb.at = "end_request" /\ EndRequest \in fired
                         \/ b2nb.at \in {"pause", "respond"} /\ Timer(p) \in fired}
    \cup {Nb2b(h) : h \in {h \in DOMAIN handles :
                         \/ handles[h].at = "start" /\ Start(h) \in fired
                         \/ handles[h].at = "pause" /\ Timer(Nb2b(h)) \in fired
                         \/ handles[h].at = "end_response" /\ EndResponse \in fired}}

Runs(p) == running = p \/ (running = Nobody /\ p \in runnable)
GoesOn(p) == running' = p /\ runnable' = runnable \ {p}
Waits(p)  == running' = Nobody /\ runnable' = runnable \ {p}

(* notify: of two notifications of an event the earlier one counts.        *)
Times == {"delta", "later"}
Soon(e, when)   == {x \in {e} : when = "delta"}
Later(e, when)  == {x \in {e} : when = "later"}
Notify(now, then) ==
    /\ delta' = delta \cup now
    /\ later' = (later \cup then) \ delta'
NotifyOne(e, when) == Notify(Soon(e, when), Later(e, when))

Quiet == running = Nobody /\ runnable = {}

DeltaCycle ==
    /\ Quiet /\ delta # {}
    /\ runnable' = Waiting(delta) /\ delta' = {}
    /\ UNCHANGED << registered, running, later, blocking, nonblocking, stage >>

(* m_peq notifies its event for the first of its transactions.             *)
AdvanceTime(fired) ==
    /\ Quiet /\ delta = {} /\ fired # {} /\ fired \subseteq later
    /\ LET arrived == {t \in Trans : Arrival(t) \in fired}
       IN  /\ PeqEvent \in later => (PeqEvent \in fired <=> arrived # {})
           /\ \E s \in SetToSeqs(arrived) : due' = due \o s
    /\ runnable' = Waiting(fired) /\ later' = later \ fired
    /\ UNCHANGED << registered, running, delta, caller, b2nb, m_pending_trans,
                    m_current_transaction, held, nonblocking, stage >>

-----------------------------------------------------------------------------
(* A call from either side: by a process of its own, or from inside the    *)
(* call the socket is making to it.                                        *)
InCall(p, t) ==
    \/ p = B2nb /\ b2nb.at = "calling" /\ b2nb.trans = t
    \/ \E h \in DOMAIN handles : p = Nb2b(h) /\ handles[h].at = "responding"
                                 /\ handles[h].trans = t
MayCall(t) ==
    \/ running = Nobody
    \/ \E u \in Trans : InCall(running, u) /\ (u = t => Nested)

Moves(t, to) == stage' = [stage EXCEPT ![t] = to]

-----------------------------------------------------------------------------
(* b_transport: hand the transaction to the thread and wait for its end.   *)
BTransport(t, when) ==
    /\ registered = "nb_transport" /\ running = Nobody
    /\ caller[t] = "away" /\ stage[t] = "idle"
    /\ IF when = "delta"
       THEN due' = Append(due, t) /\ Notify({PeqEvent}, {})
       ELSE due' = due /\ Notify({}, {PeqEvent, Arrival(t)})
    /\ m_pending_trans' = m_pending_trans \cup {t}
    /\ caller' = [caller EXCEPT ![t] = "end"]
    /\ Moves(t, "called")
    /\ UNCHANGED << registered, running, runnable, b2nb, m_current_transaction, held,
                    nonblocking >>

(* The caller's payload may still be referred to: wait for free().         *)
StillReferenced(t) == t \in Unmanaged \cap held

BTransportReturns(t) ==
    /\ Runs(Caller(t)) /\ Waits(Caller(t))
    /\ IF StillReferenced(t)
       THEN caller' = [caller EXCEPT ![t] = "done"] /\ UNCHANGED stage
       ELSE caller' = [caller EXCEPT ![t] = "away"] /\ Moves(t, "idle")
    /\ UNCHANGED << registered, delta, later, due, b2nb, m_pending_trans,
                    m_current_transaction, held, nonblocking >>

(* b2nb_thread takes the next transaction that is due and begins its       *)
(* request, or waits for m_peq, which notifies for what is still to come.  *)
B2nbTakes ==
    /\ Runs(B2nb) /\ b2nb.at \in {"peq", "end_request", "pause", "loop"}
    /\ m_current_transaction' = IF b2nb.at = "end_request" THEN None
                                ELSE m_current_transaction
    /\ IF due = << >>
       THEN /\ b2nb' = [b2nb EXCEPT !.at = "peq"] /\ Waits(B2nb)
            /\ Notify({}, {e \in {PeqEvent} : \E t \in Trans : Arrival(t) \in later})
            /\ UNCHANGED << due, stage >>
       ELSE /\ b2nb' = [at |-> "calling", trans |-> Head(due)] /\ GoesOn(B2nb)
            /\ due' = Tail(due) /\ Moves(Head(due), "sent")
            /\ UNCHANGED << delta, later >>
    /\ UNCHANGED << registered, caller, m_pending_trans, held, nonblocking >>

(* The end of a transaction: its thread is notified.                       *)
Ended(t, also, when) ==
    /\ m_pending_trans' = m_pending_trans \ {t}
    /\ Notify(also \cup Soon(End(t), when), Later(End(t), when))
    /\ Moves(t, "answered")

(* nb_transport_fw of the target returns.                                  *)
Completed(t, when) ==
    /\ Ended(t, {}, when) /\ GoesOn(B2nb)
    /\ b2nb' = [b2nb EXCEPT !.at = "loop"] /\ UNCHANGED m_current_transaction

Accepted(t) ==
    /\ Waits(B2nb) /\ b2nb' = [b2nb EXCEPT !.at = "end_request"]
    /\ m_current_transaction' = t
    /\ UNCHANGED << m_pending_trans, delta, later, stage >>

RequestEnded(t, when) ==
    /\ Waits(B2nb) /\ b2nb' = [b2nb EXCEPT !.at = "pause"]
    /\ NotifyOne(Timer(B2nb), when) /\ Moves(t, "accepted")
    /\ UNCHANGED << m_pending_trans, m_current_transaction >>

Responded(t, when) ==
    /\ Waits(B2nb) /\ b2nb' = [b2nb EXCEPT !.at = "respond"]
    /\ NotifyOne(Timer(B2nb), when) /\ Moves(t, "responding")
    /\ UNCHANGED << m_pending_trans, m_current_transaction >>

TargetReturns(when) ==
    /\ running = B2nb /\ b2nb.at = "calling"
    /\ LET t == b2nb.trans
       IN  \/ Accepted(t)
           \/ /\ stage[t] = "sent"
              /\ Completed(t, when) \/ RequestEnded(t, when) \/ Responded(t, when)
    /\ UNCHANGED << registered, caller, due, held, nonblocking >>

(* The thread ends the response it was given, and the transaction.         *)
B2nbEndsResponse(when) ==
    /\ Runs(B2nb) /\ b2nb.at = "respond" /\ GoesOn(B2nb)
    /\ b2nb' = [b2nb EXCEPT !.at = "loop"]
    /\ Ended(b2nb.trans, {}, when)
    /\ UNCHANGED << registered, caller, due, m_current_transaction, held, nonblocking >>

(* nb_transport_bw of the target, END_REQ.                                 *)
TargetEndsRequest(t) ==
    /\ t \in m_pending_trans /\ stage[t] = "sent"
    /\ MayCall(t) /\ (running = Nobody \/ b2nb.trans # t \/ Nested)
    /\ Notify({EndRequest}, {}) /\ Moves(t, "accepted")
    /\ UNCHANGED << registered, running, runnable, blocking, nonblocking >>

\* Mutant of EndsTheRequest.
EndsTheRequest_Always(t) == TRUE

EndsTheRequest(t) == m_current_transaction = t

(* nb_transport_bw of the target, BEGIN_RESP: it stands for END_REQ too.   *)
TargetResponds(t, when) ==
    /\ t \in m_pending_trans /\ stage[t] \in {"sent", "accepted"} /\ MayCall(t)
    /\ Eager \/ B2nb \notin runnable \/ m_current_transaction # t
    /\ Ended(t, {e \in {EndRequest} : EndsTheRequest(t)}, when)
    /\ UNCHANGED << registered, running, runnable, caller, due, b2nb,
                    m_current_transaction, held, nonblocking >>

(* The target acquires the payload in its callback, and releases it later; *)
(* free() wakes the caller up.                                             *)
TargetAcquires(t) ==
    /\ t \in Unmanaged \ held /\ running = B2nb /\ InCall(B2nb, t) /\ stage[t] = "sent"
    /\ held' = held \cup {t}
    /\ UNCHANGED << registered, kernel, caller, due, b2nb, m_pending_trans,
                    m_current_transaction, nonblocking, stage >>

TargetReleases(t) ==
    /\ t \in held /\ running = Nobody
    /\ held' = held \ {t}
    /\ runnable' = runnable \cup {p \in {Caller(t)} : caller[t] = "done"}
    /\ UNCHANGED << registered, running, delta, later, caller, due, b2nb,
                    m_pending_trans, m_current_transaction, nonblocking, stage >>

-----------------------------------------------------------------------------
(* nb_transport_fw, BEGIN_REQ: a thread that is suspended takes the        *)
(* transaction, or a new one is spawned.  The initiator begins a request   *)
(* only when the last one was ended, by its response.                      *)
\* Mutant of Suspended.
Suspended_Any == {h \in DOMAIN handles : handles[h].at # "serving"}

Suspended == {h \in DOMAIN handles : handles[h].m_suspend}

BeginRequest(t, when) ==
    /\ registered = "b_transport" /\ stage[t] = "idle"
    /\ \A u \in Trans : stage[u] \notin {"called", "working"}
    /\ MayCall(t)
    /\ IF Suspended = {}
       THEN /\ handles' = Append(handles, [at |-> "start", trans |-> t, m_trans |-> t,
                                           m_suspend |-> FALSE])
            /\ NotifyOne(Start(Len(handles) + 1), when)
            /\ UNCHANGED runnable
       ELSE LET h == Min(Suspended)
            IN  /\ handles' = [handles EXCEPT ![h].m_trans = t]
                /\ NotifyOne(Start(h), when)
                /\ runnable' = runnable \cup {Nb2b(h)}
    /\ Moves(t, "called")
    /\ UNCHANGED << registered, running, blocking, m_response_in_progress >>

Nb2bTakes(h) ==
    /\ Runs(Nb2b(h)) /\ handles[h].at = "suspended" /\ Waits(Nb2b(h))
    /\ handles' = [handles EXCEPT ![h].at = "start", ![h].m_suspend = FALSE,
                                      ![h].trans = handles[h].m_trans]
    /\ UNCHANGED << registered, delta, later, blocking, m_response_in_progress, stage >>

(* b_transport of the target, which may wait.                              *)
Nb2bServes(h) ==
    /\ Runs(Nb2b(h)) /\ handles[h].at = "start" /\ Waits(Nb2b(h))
    /\ handles' = [handles EXCEPT ![h].at = "serving"]
    /\ Moves(handles[h].trans, "working")
    /\ UNCHANGED << registered, delta, later, blocking, m_response_in_progress >>

TargetHasServed(h, when) ==
    /\ handles[h].at = "serving" /\ running = Nobody
    /\ handles' = [handles EXCEPT ![h].at = "pause"]
    /\ NotifyOne(Timer(Nb2b(h)), when)
    /\ UNCHANGED << registered, running, runnable, blocking, m_response_in_progress, stage >>

Nb2bResponds(h) ==
    /\ Runs(Nb2b(h)) /\ handles[h].at \in {"pause", "end_response"}
    /\ IF m_response_in_progress
       THEN /\ handles' = [handles EXCEPT ![h].at = "end_response"] /\ Waits(Nb2b(h))
            /\ UNCHANGED stage
       ELSE /\ handles' = [handles EXCEPT ![h].at = "responding"] /\ GoesOn(Nb2b(h))
            /\ Moves(handles[h].trans, "responding")
    /\ UNCHANGED << registered, delta, later, blocking, m_response_in_progress >>

(* nb_transport_bw of the initiator returns: TLM_ACCEPTED when END_RESP    *)
(* will follow, TLM_UPDATED or TLM_COMPLETED when it will not.             *)
InitiatorReturns(h) ==
    /\ running = Nb2b(h) /\ handles[h].at = "responding" /\ Waits(Nb2b(h))
    /\ \/ m_response_in_progress' = TRUE /\ UNCHANGED stage
       \/ /\ stage[handles[h].trans] = "responding" /\ Moves(handles[h].trans, "idle")
          /\ UNCHANGED m_response_in_progress
    /\ handles' = [handles EXCEPT ![h].at = "suspended", ![h].m_suspend = TRUE]
    /\ UNCHANGED << registered, delta, later, blocking >>

(* nb_transport_fw, END_RESP.                                              *)
EndOfResponse(t, when) ==
    /\ registered = "b_transport" /\ stage[t] = "responding" /\ MayCall(t)
    /\ m_response_in_progress' = FALSE
    /\ NotifyOne(EndResponse, when)
    /\ Moves(t, "idle")
    /\ UNCHANGED << registered, running, runnable, blocking, handles >>

-----------------------------------------------------------------------------
Init ==
    /\ registered \in {"b_transport", "nb_transport"}
    /\ running = Nobody /\ runnable = {} /\ delta = {} /\ later = {}
    /\ caller = [t \in Trans |-> "away"] /\ due = << >>
    /\ b2nb = [at |-> "peq", trans |-> None]
    /\ m_pending_trans = {} /\ m_current_transaction = None /\ held = {}
    /\ handles = << >> /\ m_response_in_progress = FALSE
    /\ stage = [t \in Trans |-> "idle"]

Initiator ==
    \E t \in Trans, when \in Times :
        BTransport(t, when) \/ BeginRequest(t, when) \/ EndOfResponse(t, when)

Target ==
    \/ \E t \in Trans : TargetEndsRequest(t) \/ TargetAcquires(t) \/ TargetReleases(t)
    \/ \E t \in Trans, when \in Times : TargetResponds(t, when)
    \/ \E h \in DOMAIN handles, when \in Times : TargetHasServed(h, when)

(* What the process that runs does, or the next one that is runnable.      *)
Process ==
    \/ \E t \in Trans : BTransportReturns(t)
    \/ B2nbTakes
    \/ \E when \in Times : TargetReturns(when) \/ B2nbEndsResponse(when)
    \/ \E h \in DOMAIN handles :
            Nb2bTakes(h) \/ Nb2bServes(h) \/ Nb2bResponds(h) \/ InitiatorReturns(h)

Kernel == DeltaCycle \/ \E fired \in SUBSET later : AdvanceTime(fired)

Next == Initiator \/ Target \/ Process \/ Kernel

Spec == Init /\ [][Next]_vars

(* SystemC runs what is runnable and fires what was notified before time   *)
(* passes, nobody goes on for ever within one instant, and time passes;    *)
(* the two sides end what is up to them.                                   *)
Fairness ==
    /\ []<>(Quiet /\ delta = {})
    /\ \A e \in Events : []<>(e \notin later)
    /\ \A t \in Trans :
        /\ []<>(stage[t] \notin {"sent", "accepted"})
        /\ []<>~(registered = "b_transport" /\ stage[t] = "responding")
        /\ []<>(t \notin held)
    /\ \A h \in 1..MaxHandles :
        []<>~(h \in DOMAIN handles /\ handles[h].at = "serving")

FairSpec == Spec /\ Fairness

-----------------------------------------------------------------------------
TypeOK ==
    /\ registered \in {"b_transport", "nb_transport"}
    /\ delta \subseteq Events /\ later \subseteq Events \ delta
    /\ \A t \in Trans : caller[t] \in {"away", "end", "done"}
    /\ due \in Seq(Trans) /\ m_pending_trans \subseteq Trans /\ held \subseteq Unmanaged
    /\ b2nb.at \in {"peq", "calling", "end_request", "pause", "respond", "loop"}
    /\ b2nb.trans \in Trans \cup {None} /\ m_current_transaction \in Trans \cup {None}
    /\ Len(handles) \in 0..MaxHandles /\ m_response_in_progress \in BOOLEAN

(* The exclusion rules of the base protocol, as the two sides see them:    *)
(* the target is not given a request before it ended the last one, nor the *)
(* initiator a response, however the threads of the socket are scheduled   *)
(* and whatever the calls and events of other transactions are.            *)
OneAtATime ==
    \A t, u \in Trans :
        stage[t] = stage[u] /\ stage[t] \in {"sent", "responding"} => t = u

(* Each transaction is given to the target once, its answer is passed on   *)
(* once, in the end, and a caller of b_transport that brought its own      *)
(* payload gets it back only when the target has released it: no thread    *)
(* misses its event, none is given two transactions.                       *)
Service ==
    INSTANCE TransportService WITH
        state <- [t \in Trans |->
                    CASE stage[t] \in {"sent", "accepted", "working"} -> "working"
                      [] stage[t] \in {"responding", "answered"} -> "answered"
                      [] OTHER -> stage[t]]
ServesEachOnce == Service!Spec
=============================================================================
