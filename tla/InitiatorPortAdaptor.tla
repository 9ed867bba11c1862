------------------------ MODULE InitiatorPortAdaptor ------------------------
(***************************************************************************)
(* The initiator port adaptor of the TLM2 generic protocol                 *)
(* (tlm2_gp_initiator_port_adaptor, initiator_port_adaptor_impl): between  *)
(* an initiator model that sends transactions and registers callbacks, and *)
(* a target that answers with the four phases of nb_transport, or in       *)
(* b_transport when the transaction is in loosely timed mode.  It shares   *)
(* the state machine and its tables with the target's adaptor              *)
(* (PortAdaptor); peer is what the target knows of its transactions.       *)
(***************************************************************************)
EXTENDS PortAdaptor

-----------------------------------------------------------------------------
(* Queueing a state.                                                       *)

(* WR_DATA_LAST_END in push_state: a skipped WR_ADDR_END comes first.      *)
WriteEndQueued(T, i) ==
    Queued(IF T.info[i].current = "WR_ADDR_START" THEN PushBackOnce(T, i, "WR_ADDR_END") ELSE T,
           i, "WR_DATA_LAST_END")

HasRequestChannel(T, i) == T.captured["request"] /\ Holds(T.queue["request"], i)

(* A response without the end of its request: the request channel is still *)
(* captured, and the end is not pending.                                   *)
EndIsSkipped(T, i, e) ==
    /\ HasRequestChannel(T, i)
    /\ ~InSequence(EndOfRequest(T.info[i].command), T.info[i].pending)

BeatsSimulated == HasCallback("RD_DATA_START") \/ HasCallback("RD_DATA_END")

(* push_state inside the loop.                                             *)
InitiatorPush(T, i, e) ==
    LET p == T.info[i]
        data == IF p.beat + 1 < setup.beats /\ BeatsSimulated
                THEN "RD_DATA_START" ELSE "RD_DATA_LAST_START"
    IN  CASE e = "RD_DATA_LAST_START" ->
                Queued(IF EndIsSkipped(T, i, e) THEN PushBack(T, i, "RD_ADDR_END") ELSE T, i, data)
          [] e \in {"RD_DATA_START", "RD_DATA_END", "WR_DATA_START", "WR_DATA_END",
                    "WR_DATA_LAST_START"} -> PushFront(T, i, e)
          [] e = "WR_DATA_LAST_END" -> WriteEndQueued(T, i)
          [] e = "WR_RSP_START" ->
                Queued(IF EndIsSkipped(T, i, e) THEN WriteEndQueued(T, i) ELSE T, i, e)
          [] OTHER -> Queued(T, i, e)

(* push_state from outside: the skipped end of a write request runs the    *)
(* loop to its end before the response is queued (PushGoesOn).             *)
EnterPush(kind, i, T, e) ==
    IF e = "WR_RSP_START" /\ EndIsSkipped(T, i, e)
    THEN EnterThen(kind, i, WriteEndQueued(T, i), e)
    ELSE Enter(kind, i, InitiatorPush(T, i, e))

PushGoesOn ==
    /\ ~machine.on /\ caller.rest # NoEvent
    /\ EnterThen(caller.kind, caller.info, Queued(Tables, caller.info, caller.rest), NoEvent)
    /\ UNCHANGED << setup, peq, kick, doneEvent, returning, peer, thread, owed >>

(* advance_state                                                           *)
InitiatorNext(p) ==
    LET e == p.current
        more == p.beat + 1 < setup.beats
        simulateWrite == /\ setup.beats > 1
                         /\ HasCallback("WR_DATA_START") \/ HasCallback("WR_DATA_END")
    IN  CASE e = "RD_DATA_START" -> "RD_DATA_END"
          [] e = "RD_DATA_END" -> IF more THEN "RD_DATA_START" ELSE "RD_DATA_LAST_START"
          [] e = "RD_DATA_LAST_START" -> "RD_DATA_LAST_END"
          [] e = "WR_ADDR_END" -> IF simulateWrite THEN "WR_DATA_START" ELSE "WR_DATA_LAST_START"
          [] e = "WR_DATA_START" -> "WR_DATA_END"
          [] e = "WR_DATA_END" -> IF more THEN "WR_DATA_START" ELSE "WR_DATA_LAST_START"
          [] e = "WR_RSP_START" -> "WR_RSP_END"
          [] OTHER -> NoEvent

InitiatorAdvance(T, i) ==
    LET e == InitiatorNext(T.info[i])
    IN  IF e = NoEvent THEN T ELSE InitiatorPush(T, i, e)

-----------------------------------------------------------------------------
(* The initiator model.                                                    *)

(* start_transaction up to its push_state.                                 *)
Started(T, t, c, lt) == SlotTaken(Claim(T, t, c, lt), Claimed(T))

(* A transaction that the model may send again.                            *)
Sendable(T, t) == T.infoMap[t] = None /\ ~InPeq(t) /\ peer[t] = "idle"

(* send_transaction.  Without callbacks the transaction is loosely timed.  *)
SendTransaction(t, c) ==
    /\ IsInitiator /\ Idle
    /\ c \in setup.commands /\ Sendable(Tables, t)
    /\ LET i == Claimed(Tables)
       IN  Enter("api", i, InitiatorPush(Started(Tables, t, c, setup.callbacks = {}),
                                         i, FirstEvent(c)))
    /\ UNCHANGED << setup, peq, kick, doneEvent, returning, peer, thread, owed >>

(* A callback may send another transaction, which is only queued: it is    *)
(* invoked inside the loop.                                                *)
MaySend(T, e) ==
    {T} \cup {InitiatorPush(Started(T, t, c, FALSE), Claimed(T), FirstEvent(c)) :
                  t \in {u \in FtTrans : e \in setup.sendsFrom /\ Sendable(T, u)},
                  c \in setup.commands}

(* read and write, with timing callbacks always invoked.                   *)
ReadOrWrite(t, c) ==
    /\ IsInitiator /\ Idle
    /\ c \in setup.commands
    /\ thread[t].step = "out" /\ NotInUse(t)
    /\ LET i == Claimed(Tables)
           T == InitiatorPush(Started(Tables, t, c, TRUE), i, FirstEvent(c))
       IN  /\ thread' = [thread EXCEPT ![t] = [step |-> IF T.kicked THEN "calling" ELSE "waiting",
                                               info |-> i]]
           /\ Enter("read_write", i, T)
    /\ UNCHANGED << setup, peq, kick, doneEvent, returning, peer, owed >>

ReadOrWriteReturns(t) ==
    /\ IsInitiator /\ Idle
    /\ thread[t].step = "finishing"
    /\ thread' = [thread EXCEPT ![t] = [step |-> "out", info |-> None]]
    /\ UNCHANGED << setup, tableVars, peq, kick, doneEvent, caller, machine,
                    returning, peer, owed >>

(* The events the model may ask for after it answered TLM_ACCEPTED.        *)
InitiatorEvents(p) ==
    CASE p.current = "RD_DATA_START" -> {"RD_DATA_END"}
      [] p.current = "RD_DATA_LAST_START" -> {"RD_DATA_LAST_END"}
      [] p.current \in {"WR_ADDR_END", "WR_DATA_END"} -> {"WR_DATA_LAST_START"}
      [] p.current = "WR_RSP_START" -> {"WR_RSP_END"}
      [] OTHER -> {}

InitiatorUpdates(t, e) ==
    /\ IsInitiator /\ Idle
    /\ t \in owed /\ infoMap[t] # None
    /\ e \in InitiatorEvents(info[infoMap[t]])
    /\ owed' = owed \ {t}
    /\ Enter("api", infoMap[t], InitiatorPush(Tables, infoMap[t], e))
    /\ UNCHANGED << setup, peq, kick, doneEvent, returning, peer, thread >>

-----------------------------------------------------------------------------
(* The target.                                                             *)

(* What the target knows after it was told a state of the transaction.     *)
ToldTarget(t, e) ==
    CASE /\ e \in {"RD_ADDR_START", "WR_ADDR_START"} /\ peer[t] = "idle"
         /\ \A u \in FtTrans : peer[u] # "requested" -> "requested"
      [] e \in ResponseEnds /\ peer[t] = "responded" -> "idle"
      [] OTHER -> "confused"

(* The target keeps the rules of the base protocol: one response at a time *)
(* that has not been ended.                                                *)
MayRespond == \A u \in FtTrans : peer[u] # "responded"

(* nb_transport_bw with the end of the request or the start of the         *)
(* response.                                                               *)
NbTransportBw(t, e) ==
    /\ IsInitiator /\ Idle
    /\ infoMap[t] # None
    /\ LET i == infoMap[t]
       IN  /\ \/ /\ e = EndOfRequest(info[i].command) /\ peer[t] = "requested"
                 /\ peer' = [peer EXCEPT ![t] = "accepted"]
              \/ /\ e = StartOfResponse(info[i].command)
                 /\ peer[t] \in {"requested", "accepted"} /\ MayRespond
                 /\ peer' = [peer EXCEPT ![t] = "responded"]
           /\ EnterPush("nb_transport_bw", i, Tables, e)
    /\ UNCHANGED << setup, peq, kick, doneEvent, returning, thread, owed >>

(* The end of nb_transport_bw: the return path.                            *)
NbTransportBwReturns ==
    /\ caller.kind = "nb_transport_bw" /\ ~machine.on /\ caller.rest = NoEvent
    /\ LET i == caller.info
           t == info[i].trans
       IN  /\ peer' = IF returning THEN [peer EXCEPT ![t] = ToldTarget(t, info[i].current)]
                      ELSE peer
           /\ Store(IF info[i].complete THEN Released(Tables, i) ELSE Tables)
    /\ returning' = FALSE
    /\ caller' = NoCaller
    /\ UNCHANGED << setup, peq, kick, doneEvent, machine, thread, owed >>

(* nb2b_thread: b_transport of the target has returned.                    *)
BTransportDone(w) ==
    /\ IsInitiator /\ Idle
    /\ w \in work
    /\ EnterPush("worker", w.info, [Tables EXCEPT !.work = @ \ {w}], w.event)
    /\ UNCHANGED << setup, peq, kick, doneEvent, returning, peer, thread, owed >>

-----------------------------------------------------------------------------
(* process_payload.                                                        *)

InitiatorTaken(i) ==
    LET e == NextState(i)
    IN  Taken(i, IF e \in {"RD_DATA_END", "WR_DATA_START", "WR_DATA_LAST_START"}
                 THEN info[i].beat + 1
                 ELSE IF e = "WR_DATA_LAST_END" THEN setup.beats - 1 ELSE info[i].beat)

(* BEGIN_REQ goes to the target: do_fwd_call.  In loosely timed mode it is *)
(* a direct access, or a b_transport in a worker thread.  Otherwise        *)
(* nb_transport_fw may answer with the next phase or with TLM_COMPLETED.   *)
RequestForTarget(i) ==
    /\ IsInitiator /\ Process(i)
    /\ NextState(i) \in {"RD_ADDR_START", "WR_ADDR_START"}
    /\ \E T \in MaySend(InitiatorTaken(i), NextState(i)) :
          LET t == info[i].trans
              response == StartOfResponse(info[i].command)
              request == EndOfRequest(info[i].command)
              Answered(told) == [peer EXCEPT
                                   ![t] = IF ToldTarget(t, NextState(i)) = "requested"
                                          THEN told ELSE "confused"]
          IN  \/ /\ info[i].lt
                 /\ \/ Store(InitiatorPush(T, i, response))
                    \/ Store([T EXCEPT !.work = @ \cup {[info |-> i, event |-> response]}])
                 /\ UNCHANGED peer
              \/ /\ ~info[i].lt
                 /\ Store(T)
                 /\ peer' = Answered("requested")
              \/ /\ ~info[i].lt
                 /\ Store(InitiatorPush(T, i, request))
                 /\ peer' = Answered("accepted")
              \/ /\ ~info[i].lt /\ MayRespond
                 /\ Store(InitiatorPush(T, i, response))
                 /\ peer' = Answered("responded")
              \/ /\ ~info[i].lt /\ setup.completes
                 /\ Store(InitiatorPush(T, i, response))
                 /\ peer' = Answered("idle")
    /\ UNCHANGED << setup, peq, kick, doneEvent, caller, returning, thread, owed >>

(* The other states on their way to the target stay in the adaptor.        *)
DataForTarget(i) ==
    /\ IsInitiator /\ Process(i)
    /\ NextState(i) \in {"RD_DATA_END", "WR_DATA_START", "WR_DATA_LAST_START"}
    /\ \E T \in MaySend(InitiatorTaken(i), NextState(i)) : Store(InitiatorAdvance(T, i))
    /\ UNCHANGED << setup, peq, kick, doneEvent, caller, returning, peer, thread, owed >>

(* A state on its way to the initiator: do_bwd_call.  Its callback may be  *)
(* put off to the annotated time; otherwise the model answers TLM_UPDATED, *)
(* answers TLM_ACCEPTED, or updates the transaction in the callback.  The  *)
(* times of a transaction never go back, so that nothing overtakes a       *)
(* callback that was put off.                                              *)
StateFromSocket(i) ==
    /\ IsInitiator /\ Process(i)
    /\ NextState(i) \in RequestEnds \cup ResponseStart
                          \cup {"RD_DATA_START", "WR_ADDR_END", "WR_DATA_END"}
    /\ LET e == NextState(i)
           t == info[i].trans
           S == IF e \in RequestEnds THEN ChannelReleased(InitiatorTaken(i), "request")
                ELSE InitiatorTaken(i)
       IN  \/ /\ HasCallback(e)
              /\ peq' = Postponed(t, e)
              /\ Store(S)
              /\ UNCHANGED owed
           \/ \E T \in MaySend(S, e) :
                 /\ HasCallback(e) => ~InPeq(t)
                 /\ \/ /\ Store(InitiatorAdvance(T, i))
                       /\ UNCHANGED owed
                    \/ /\ HasCallback(e) /\ InitiatorEvents(T.info[i]) # {}
                       /\ owed' = owed \cup {t}
                       /\ Store(T)
                    \/ /\ HasCallback(e)
                       /\ \E u \in InitiatorEvents(T.info[i]) : Store(InitiatorPush(T, i, u))
                       /\ UNCHANGED owed
                 /\ UNCHANGED peq
    /\ UNCHANGED << setup, kick, doneEvent, caller, returning, peer, thread >>

(* END_RESP goes to the target, with nb_transport_fw or on the return path *)
(* of nb_transport_bw; on_txn_complete gives an outstanding entry back,    *)
(* wakes the threads that wait and invokes the callback of the end.        *)
EndAtInitiator(i) ==
    /\ IsInitiator /\ Process(i)
    /\ NextState(i) \in ResponseEnds
    /\ LET e == NextState(i)
           t == info[i].trans
           sent == SentToSocket(info[i], e)
       IN  /\ \E T \in MaySend(ChannelReleased(InitiatorTaken(i), ChannelOf(e)), e) :
                 \/ /\ HasCallback(AfterEnd) => ~InPeq(t)
                    /\ \E U \in MaySend(Completed(T, i), AfterEnd) : Store(U)
                    /\ UNCHANGED peq
                 \/ /\ HasCallback(AfterEnd)
                    /\ Store(Completed(T, i))
                    /\ peq' = Postponed(t, AfterEnd)
           /\ returning' = (returning \/ (sent /\ NbPayload # None))
           /\ peer' = IF sent /\ NbPayload = None THEN [peer EXCEPT ![t] = ToldTarget(t, e)]
                      ELSE peer
           /\ doneEvent' = (doneEvent \/ t \in LtTrans)
    /\ UNCHANGED << setup, kick, caller, thread, owed >>

(* A callback of the model that was put off to its time.                   *)
PostponedAtInitiator(t) ==
    IsInitiator /\ PostponedCallback(t, InitiatorPush, InitiatorAdvance, InitiatorEvents)

InitiatorNextStep ==
    \/ PushGoesOn \/ NbTransportBwReturns
    \/ \E i \in Infos : \/ RequestForTarget(i) \/ DataForTarget(i)
                        \/ StateFromSocket(i) \/ EndAtInitiator(i)
    \/ \E t \in FtTrans, c \in Commands : SendTransaction(t, c)
    \/ \E t \in LtTrans, c \in Commands : ReadOrWrite(t, c)
    \/ \E t \in LtTrans : ReadOrWriteReturns(t)
    \/ \E t \in FtTrans, e \in RequestEnds \cup ResponseStart : NbTransportBw(t, e)
    \/ \E t \in Trans, e \in Events : InitiatorUpdates(t, e)
    \/ \E t \in Trans : PostponedAtInitiator(t)
    \/ \E w \in work : BTransportDone(w)
=============================================================================
