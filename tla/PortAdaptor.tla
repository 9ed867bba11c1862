---------------------------- MODULE PortAdaptor ----------------------------
(***************************************************************************)
(* What the port adaptors of the TLM2 generic protocol share               *)
(* (port_adaptor_impl, payload_info, ft_channel).  An adaptor stands       *)
(* between a socket that speaks the four phases of nb_transport and a      *)
(* model that registers callbacks for the events in the life of a          *)
(* transaction: TargetPortAdaptor has a target model behind it,            *)
(* InitiatorPortAdaptor an initiator model.                                *)
(*                                                                         *)
(* All states of a transaction go through process_state_machine, a loop    *)
(* over the channels that is never nested: a state that is produced while  *)
(* the loop runs is only queued.  Processes do not preempt each other, so  *)
(* while a caller is in the adaptor (caller) only the steps of the loop    *)
(* happen.  Times are left out; where the code asks whether an annotated   *)
(* time is zero, either answer is possible.                                *)
(***************************************************************************)
EXTENDS Integers, Sequences, FiniteSets

CONSTANTS
    FtTrans,        \* transactions that use the phases of nb_transport
    LtTrans,        \* transactions of a thread that waits for their end
    None,           \* no transaction, no payload_info
    TotalCapacity,  \* m_total_capacity: outstanding transactions
    Setups          \* which adaptor, what its model registers, its attributes

Trans    == FtTrans \cup LtTrans
Infos    == 1..Cardinality(Trans)  \* payload_infos, one in use by a transaction
Commands == {"read", "write"}
Sides    == {"target", "initiator"}

ReadEvents  == {"RD_ADDR_START", "RD_ADDR_END", "RD_DATA_START", "RD_DATA_END",
                "RD_DATA_LAST_START", "RD_DATA_LAST_END"}
WriteEvents == {"WR_ADDR_START", "WR_ADDR_END", "WR_DATA_START", "WR_DATA_END",
                "WR_DATA_LAST_START", "WR_DATA_LAST_END",
                "WR_RSP_START", "WR_RSP_END"}
Events      == ReadEvents \cup WriteEvents
NoEvent     == "CBK_EVENT_NONE"
AfterEnd    == "AFTER_TRANS_END"

ASSUME AdaptorAssumption ==
    /\ TotalCapacity \in Nat \ {0}
    /\ FtTrans \cap LtTrans = {}
    /\ None \notin Trans \cup Infos
    /\ IsFiniteSet(Trans)
    /\ \A s \in Setups : /\ s.side \in Sides
                         /\ s.callbacks \subseteq Events \cup {AfterEnd}
                         /\ s.sendsFrom \subseteq s.callbacks
                         /\ s.autoBehavior \in BOOLEAN
                         /\ s.neverSyncing \in BOOLEAN
                         /\ s.completes \in BOOLEAN
                         /\ s.beats \in Nat \ {0}
                         /\ s.commands \subseteq Commands

VARIABLES
    setup,      \* the registered callbacks, the attributes, what is behind the
                \* adaptor, and the commands of the transactions
    info,       \* [Infos -> payload_info]
    infoMap,    \* m_p_info_map: the payload_info of a transaction
    pool,       \* m_info_pool: the free payload_infos, the last one is claimed
    queue,      \* [Channels -> the payloads that wait for the channel]
    captured,   \* [Channels -> BOOLEAN]: the front of the queue holds it
    slots,      \* entries of m_outstanding_q
    work,       \* worker threads that were woken for a b_transport
    peq,        \* m_in_cb_peq: callbacks that wait for their annotated time
    kick,       \* m_process_state_machine_event: the method will run
    doneEvent,  \* m_txn_complete_event is notified
    caller,     \* who is inside the adaptor, and for which payload
    machine,    \* the loop of process_state_machine
    returning,  \* m_returning_bw_state
    peer,       \* what the other end of the socket knows of its transactions
    thread,     \* the threads that wait for the end of a transaction
    owed        \* transactions the model promised to update

tableVars == << info, infoMap, pool, queue, captured, slots, work >>
vars == << setup, tableVars, peq, kick, doneEvent, caller, machine, returning,
           peer, thread, owed >>

-----------------------------------------------------------------------------
(* The protocol.                                                           *)

IsInitiator == setup.side = "initiator"
IsTarget    == setup.side = "target"

Channels     == {"request", "data", "response"}
ChannelOrder == << "request", "data", "response" >>

(* Only the initiator's adaptor has a channel of its own for read data.    *)
ChannelOf(e) ==
    CASE e \in {"RD_DATA_START", "RD_DATA_END", "RD_DATA_LAST_START", "RD_DATA_LAST_END"} ->
            IF IsInitiator THEN "data" ELSE "response"
      [] e \in {"WR_RSP_START", "WR_RSP_END"} -> "response"
      [] OTHER -> "request"

RequestEnds   == {"RD_ADDR_END", "WR_DATA_LAST_END"}
ResponseStart == {"RD_DATA_LAST_START", "WR_RSP_START"}
ResponseEnds  == {"RD_DATA_LAST_END", "WR_RSP_END"}

FirstEvent(c) == IF c = "write" THEN "WR_ADDR_START" ELSE "RD_ADDR_START"
EndOfRequest(c) == IF c = "write" THEN "WR_DATA_LAST_END" ELSE "RD_ADDR_END"
StartOfResponse(c) == IF c = "write" THEN "WR_RSP_START" ELSE "RD_DATA_LAST_START"
LastEvent(c)  == IF c = "write" THEN "WR_RSP_END" ELSE "RD_DATA_LAST_END"

(* The events that may follow an event.                                    *)
Followers(e) ==
    CASE e = NoEvent              -> {"RD_ADDR_START", "WR_ADDR_START"}
      [] e = "RD_ADDR_START"      ->
            {"RD_ADDR_END"} \cup (IF IsInitiator THEN {"RD_DATA_START", "RD_DATA_LAST_START"} ELSE {})
      [] e \in {"RD_ADDR_END", "RD_DATA_END"}
                                  -> {"RD_DATA_START", "RD_DATA_LAST_START"}
      [] e = "RD_DATA_START"      -> {"RD_DATA_END"}
      [] e = "RD_DATA_LAST_START" -> {"RD_DATA_LAST_END"}
      [] e = "WR_ADDR_START"      ->
            {"WR_ADDR_END", "WR_DATA_LAST_END"} \cup (IF IsInitiator THEN {"WR_RSP_START"} ELSE {})
      [] e \in {"WR_ADDR_END", "WR_DATA_END"}
                                  -> {"WR_DATA_START", "WR_DATA_LAST_START"}
      [] e = "WR_DATA_START"      -> {"WR_DATA_END"}
      [] e = "WR_DATA_LAST_START" -> {"WR_DATA_LAST_END"}
      [] e = "WR_DATA_LAST_END"   -> {"WR_RSP_START"}
      [] e = "WR_RSP_START"       -> {"WR_RSP_END"}
      [] OTHER                    -> {}

ValidTransition(p, e) ==
    /\ e \in Followers(p.current)
    /\ p.current \in RequestEnds => ~p.waitingForBTransport

(* The states that leave the adaptor for the socket.                       *)
SentToSocket(p, e) ==
    IF IsTarget THEN e \in RequestEnds \cup ResponseStart
    ELSE \/ e \in {"RD_ADDR_START", "WR_ADDR_START"}
         \/ ~p.lt /\ e \in ResponseEnds

HasCallback(e) == e \in setup.callbacks

-----------------------------------------------------------------------------
(* Queueing a state.  The operators below map the tables to new tables;    *)
(* the field kicked says whether process_state_machine is called.          *)

Tables == [info |-> info, infoMap |-> infoMap, pool |-> pool, queue |-> queue,
           captured |-> captured, slots |-> slots, work |-> work, kicked |-> FALSE]

Store(T) ==
    /\ info' = T.info /\ infoMap' = T.infoMap /\ pool' = T.pool
    /\ queue' = T.queue /\ captured' = T.captured
    /\ slots' = T.slots /\ work' = T.work

Holds(q, i) == q # << >> /\ Head(q) = i

InSequence(x, s) == \E n \in DOMAIN s : s[n] = x

(* Mutant: a request is not told that the channel is free.                 *)
Request_FreeUnnoticed(T, i, c) ==
    IF T.captured[c] /\ Holds(T.queue[c], i) THEN [T EXCEPT !.kicked = TRUE]
    ELSE IF InSequence(i, T.queue[c]) THEN T
    ELSE [T EXCEPT !.queue[c] = Append(@, i)]

(* ft_channel::request: m_channel_queued is membership in the queue.       *)
Request(T, i, c) ==
    IF T.captured[c] /\ Holds(T.queue[c], i) THEN [T EXCEPT !.kicked = TRUE]
    ELSE IF InSequence(i, T.queue[c]) THEN T
    ELSE LET q == Append(T.queue[c], i)
         IN  [T EXCEPT !.queue[c] = q, !.kicked = @ \/ (~T.captured[c] /\ Holds(q, i))]

(* ft_channel::release                                                     *)
ChannelReleased(T, c) ==
    [T EXCEPT !.captured[c] = FALSE, !.queue[c] = Tail(@)]

PushBack(T, i, e) == [T EXCEPT !.info[i].pending = Append(@, e)]

PushBackOnce(T, i, e) ==
    IF InSequence(e, T.info[i].pending) THEN T ELSE PushBack(T, i, e)

PushFront(T, i, e) ==
    [T EXCEPT !.info[i].pending = << e >> \o @, !.kicked = TRUE]

(* The end of push_state: the state waits for its channel.                 *)
Queued(T, i, e) == Request(PushBack(T, i, e), i, ChannelOf(e))

-----------------------------------------------------------------------------
(* Payload infos and outstanding entries.                                  *)

FreshInfo(t, c, lt) ==
    [trans |-> t, command |-> c, current |-> NoEvent, pending |-> << >>, beat |-> 0,
     outstandingHit |-> FALSE, lt |-> lt, waitingForBTransport |-> FALSE,
     complete |-> FALSE]

(* A free object keeps what it held, but nobody looks at more of it than   *)
(* m_complete.                                                             *)
FreeInfo == [FreshInfo(None, "read", FALSE) EXCEPT !.complete = TRUE]

(* alloc_payload_info and payload_info::acquire                            *)
Claimed(T) == T.pool[Len(T.pool)]

Claim(T, t, c, lt) ==
    [T EXCEPT !.pool = SubSeq(@, 1, Len(@) - 1),
              !.infoMap[t] = Claimed(T),
              !.info[Claimed(T)] = FreshInfo(t, c, lt)]

(* release_payload_info                                                    *)
Released(T, i) ==
    [T EXCEPT !.infoMap[T.info[i].trans] = None,
              !.pool = Append(@, i),
              !.info[i] = FreeInfo]

(* adjust_request_time: an entry is taken, or the payload remembers that   *)
(* there was none.                                                         *)
SlotTaken(T, i) ==
    [T EXCEPT !.info[i].outstandingHit = (T.slots = 0),
              !.slots = IF @ = 0 THEN 0 ELSE @ - 1]

(* push_to_outstanding_q                                                   *)
SlotGivenBack(T) ==
    [T EXCEPT !.slots = IF @ < TotalCapacity THEN @ + 1 ELSE @]

-----------------------------------------------------------------------------
(* The callers.                                                            *)

(* rest is the state that push_state still has to queue after the loop it  *)
(* started for another one.                                                *)
NoCaller  == [kind |-> "none", info |-> None, rest |-> NoEvent]
MachineOff == [on |-> FALSE, channel |-> "request", payload |-> None,
               processed |-> FALSE]

(* The loop looks at the channels from the n-th on that have a payload.    *)
FromChannel(n, q, processed) ==
    LET busy == {k \in n..3 : q[ChannelOrder[k]] # << >>}
        first == ChannelOrder[CHOOSE k \in busy : \A l \in busy : k <= l]
    IN  IF busy = {} THEN MachineOff
        ELSE [on |-> TRUE, channel |-> first, payload |-> Head(q[first]),
              processed |-> processed]

Round(q) == FromChannel(1, q, FALSE)

Idle == caller.kind = "none"
InsideApi == caller.kind = "api"
InsideNb(kind) == kind \in {"nb_transport_fw", "nb_transport_bw"}
NbPayload == IF InsideNb(caller.kind) THEN caller.info ELSE None

(* The tables and the start of the loop, if it is kicked.  A caller that   *)
(* has work to do after the loop stays.                                    *)
EnterThen(kind, i, T, rest) ==
    /\ Store(T)
    /\ machine' = IF T.kicked THEN Round(T.queue) ELSE MachineOff
    /\ caller' = IF machine'.on \/ InsideNb(kind) \/ rest # NoEvent
                 THEN [kind |-> kind, info |-> i, rest |-> rest] ELSE NoCaller

Enter(kind, i, T) == EnterThen(kind, i, T, NoEvent)

(* The transactions a callback in the queue still refers to.               *)
InPeq(t) == peq[t] # << >>

NotInUse(t) == infoMap[t] = None /\ ~InPeq(t)

(* The threads that wait look at m_complete of the payload_info they       *)
(* claimed, whatever it is used for by now.                                *)
Looked(step) ==
    [t \in LtTrans |->
        IF thread[t].step # step THEN thread[t]
        ELSE [thread[t] EXCEPT !.step = IF info[thread[t].info].complete
                                        THEN "finishing" ELSE "waiting"]]

TxnCompleteEvent ==
    /\ Idle /\ doneEvent
    /\ doneEvent' = FALSE
    /\ thread' = Looked("waiting")
    /\ UNCHANGED << setup, tableVars, peq, kick, caller, machine, returning,
                    peer, owed >>

(* The method that is sensitive to m_process_state_machine_event.          *)
MethodRuns ==
    /\ Idle /\ kick
    /\ kick' = FALSE
    /\ Enter("method", None, [Tables EXCEPT !.kicked = TRUE])
    /\ UNCHANGED << setup, peq, doneEvent, returning, peer, thread, owed >>

(* The callbacks of a transaction in the queue are invoked in their order. *)
Postponed(t, e) == [peq EXCEPT ![t] = Append(@, e)]

(* in_cb_peq: a callback that was put off to its annotated time.  The      *)
(* model leaves the state to the adaptor, answers TLM_ACCEPTED, or updates *)
(* the transaction and answers TLM_ACCEPTED.                               *)
PostponedCallback(t, Push(_, _, _), Advance(_, _), UserEvents(_)) ==
    /\ Idle /\ InPeq(t)
    /\ peq' = [peq EXCEPT ![t] = Tail(@)]
    /\ LET i == infoMap[t]
       IN  \/ /\ i = None
              /\ Enter("none", None, Tables)
              /\ owed' = owed
           \/ /\ i # None
              /\ Enter("in_cb_peq", i, Advance(Tables, i))
              /\ owed' = owed
           \/ /\ i # None
              /\ UserEvents(info[i]) # {}
              /\ Enter("none", None, Tables)
              /\ owed' = owed \cup {t}
           \/ /\ i # None
              /\ \E e \in UserEvents(info[i]) : Enter("api", i, Push(Tables, i, e))
              /\ owed' = owed
    /\ UNCHANGED << setup, kick, doneEvent, returning, peer, thread >>

-----------------------------------------------------------------------------
(* process_state_machine.                                                  *)

(* What the loop needs in order to process the next state of a payload: an *)
(* outstanding entry, the channel, and a transition of the protocol.       *)
NextState(i) == Head(info[i].pending)

Processable(i) ==
    /\ info[i].pending # << >>
    /\ info[i].outstandingHit => slots > 0
    /\ Holds(queue[ChannelOf(NextState(i))], i)
    /\ ValidTransition(info[i], NextState(i))

(* Mutant: nb_transport returns the state of another payload.              *)
NeedsSwitch_AnyPayload(i) ==
    \/ InsideApi /\ HasCallback(NextState(i))
    \/ NbPayload = i /\ returning

(* A callback must not run inside a call of the model, and nb_transport    *)
(* can return one state, of its own payload.                               *)
NeedsSwitch(i) ==
    \/ InsideApi /\ HasCallback(NextState(i))
    \/ NbPayload = i /\ returning
    \/ NbPayload \notin {None, i} /\ SentToSocket(info[i], NextState(i))

(* The loop leaves a payload for the next channel that has one, and ends   *)
(* after a round in which no state was processed.  A complete payload is   *)
(* released, unless it is the one of nb_transport.                         *)
LeavePayload ==
    /\ machine.payload # None
    /\ LET i == machine.payload
           T == IF info[i].pending # << >> /\ info[i].outstandingHit
                THEN SlotTaken(Tables, i) ELSE Tables
       IN  /\ ~(Processable(i) /\ ~NeedsSwitch(i))
           /\ kick' = (kick \/ Processable(i))
           /\ Store(IF info[i].complete /\ i # NbPayload THEN Released(T, i) ELSE T)
    /\ LET n == CHOOSE k \in 1..3 : ChannelOrder[k] = machine.channel
           onward == FromChannel(n + 1, queue, machine.processed)
           m == IF ~onward.on /\ machine.processed THEN Round(queue) ELSE onward
       IN  /\ machine' = m
           /\ caller' = IF m.on \/ InsideNb(caller.kind) \/ caller.rest # NoEvent
                        THEN caller ELSE NoCaller
           /\ thread' = IF m.on THEN thread ELSE Looked("calling")
    /\ UNCHANGED << setup, peq, doneEvent, returning, peer, owed >>

(* The state is taken from the payload and its channel is captured.        *)
Taken(i, beat) ==
    LET e == NextState(i)
        T == IF info[i].outstandingHit THEN SlotTaken(Tables, i) ELSE Tables
    IN  [T EXCEPT !.info[i].current = e,
                  !.info[i].pending = Tail(@),
                  !.info[i].beat = beat,
                  !.captured[ChannelOf(e)] = TRUE]

Process(i) ==
    /\ machine.payload = i /\ i # None
    /\ Processable(i) /\ ~NeedsSwitch(i)
    /\ machine' = [machine EXCEPT !.processed = TRUE]

(* on_txn_complete, without its callback.                                  *)
Completed(T, i) == SlotGivenBack([T EXCEPT !.info[i].complete = TRUE])

-----------------------------------------------------------------------------
InitAdaptor ==
    /\ setup \in Setups
    /\ info = [i \in Infos |-> FreeInfo]
    /\ infoMap = [t \in Trans |-> None]
    /\ pool = [n \in Infos |-> n]
    /\ queue = [c \in Channels |-> << >>]
    /\ captured = [c \in Channels |-> FALSE]
    /\ slots = TotalCapacity
    /\ peq = [t \in Trans |-> << >>]
    /\ work = {} /\ kick = FALSE /\ doneEvent = FALSE
    /\ caller = NoCaller /\ machine = MachineOff /\ returning = FALSE
    /\ peer = [t \in FtTrans |-> "idle"]
    /\ thread = [t \in LtTrans |-> [step |-> "out", info |-> None]]
    /\ owed = {}
=============================================================================
