------------------------- MODULE TargetPortAdaptor -------------------------
(***************************************************************************)
(* The target port adaptor of the TLM2 generic protocol                    *)
(* (tlm2_gp_target_port_adaptor, target_port_adaptor_impl): between an     *)
(* initiator that speaks the four phases of nb_transport or calls          *)
(* b_transport, and a target model that registers callbacks.  It shares    *)
(* the state machine and its tables with the initiator's adaptor           *)
(* (PortAdaptor); peer is what the initiator knows of its transactions.    *)
(***************************************************************************)
EXTENDS PortAdaptor

-----------------------------------------------------------------------------
(* Queueing a state.                                                       *)

ForwardEvents  == {"RD_ADDR_START", "RD_DATA_END", "WR_ADDR_START",
                   "WR_DATA_START", "WR_DATA_LAST_START"}
BackwardEvents == RequestEnds \cup ResponseStart
                    \cup {"RD_DATA_START", "WR_ADDR_END", "WR_DATA_END"}

(* push_state                                                              *)
TargetPush(T, i, e) ==
    LET p == T.info[i]
        skippedReadEnd ==
            IF p.current = "RD_ADDR_START" THEN PushBackOnce(T, i, "RD_ADDR_END") ELSE T
        skippedAddrEnd ==
            IF p.current = "WR_ADDR_START" THEN PushBackOnce(T, i, "WR_ADDR_END") ELSE T
        skippedWriteEnd ==
            IF p.current \in {NoEvent, "WR_ADDR_START", "WR_ADDR_END",
                              "WR_DATA_START", "WR_DATA_END", "WR_DATA_LAST_START"}
            THEN PushBackOnce(skippedAddrEnd, i, "WR_DATA_LAST_END")
            ELSE skippedAddrEnd
    IN  CASE e \in {"RD_DATA_START", "RD_DATA_LAST_START"} -> Queued(skippedReadEnd, i, e)
          [] e \in {"RD_DATA_END", "WR_DATA_START", "WR_DATA_END",
                    "WR_DATA_LAST_START"} -> PushFront(T, i, e)
          [] e = "WR_DATA_LAST_END" ->
                IF InSequence(e, p.pending) THEN T ELSE PushFront(T, i, e)
          [] e = "WR_RSP_START" -> Queued(skippedWriteEnd, i, e)
          [] OTHER -> Queued(T, i, e)

(* invoke_behavior_callback: unless the memory and its aliases never sync, *)
(* its b_transport is called from a worker thread, and the payload waits.  *)
CallBehavior(T, i, e) ==
    [T EXCEPT !.info[i].waitingForBTransport = TRUE,
              !.work = @ \cup {[info |-> i, event |-> e]}]

(* advance_state: the event that follows without the help of the model.    *)
TargetNext(p) ==
    LET e == p.current
        more == p.beat + 1 < setup.beats
        simulateRead == /\ setup.beats > 1
                        /\ HasCallback("RD_DATA_START") \/ HasCallback("RD_DATA_END")
        simulateWrite == /\ setup.beats > 1
                         /\ HasCallback("WR_DATA_START") \/ HasCallback("WR_DATA_END")
        readData == IF simulateRead THEN "RD_DATA_START" ELSE "RD_DATA_LAST_START"
    IN  CASE e = "RD_ADDR_START" ->
                IF ~setup.autoBehavior /\ HasCallback("RD_ADDR_START")
                THEN "RD_ADDR_END" ELSE readData
          [] e = "RD_DATA_START" -> "RD_DATA_END"
          [] e = "RD_DATA_END" ->
                IF more THEN "RD_DATA_START" ELSE "RD_DATA_LAST_START"
          [] e = "RD_DATA_LAST_START" -> "RD_DATA_LAST_END"
          [] e = "WR_ADDR_START" -> "WR_ADDR_END"
          [] e = "WR_ADDR_END" ->
                IF simulateWrite THEN "WR_DATA_START" ELSE "WR_DATA_LAST_START"
          [] e = "WR_DATA_START" -> "WR_DATA_END"
          [] e = "WR_DATA_END" ->
                IF more THEN "WR_DATA_START" ELSE "WR_DATA_LAST_START"
          [] e = "WR_DATA_LAST_START" ->
                IF ~setup.autoBehavior
                   /\ (HasCallback("WR_ADDR_START") \/ HasCallback("WR_DATA_LAST_START"))
                THEN "WR_DATA_LAST_END" ELSE "WR_RSP_START"
          [] e = "WR_DATA_LAST_END" -> "WR_RSP_START"
          [] e = "WR_RSP_START" -> "WR_RSP_END"
          [] OTHER -> NoEvent

(* Without callbacks of the model the behaviour runs before the response.  *)
BehaviorComesFirst(e) ==
    /\ ~setup.autoBehavior /\ ~setup.neverSyncing
    /\ \/ e = "RD_ADDR_START" /\ ~HasCallback("RD_ADDR_START")
       \/ /\ e = "WR_DATA_LAST_START"
          /\ ~HasCallback("WR_ADDR_START") /\ ~HasCallback("WR_DATA_LAST_START")

TargetAdvance(T, i) ==
    LET p == T.info[i]
        e == TargetNext(p)
    IN  IF BehaviorComesFirst(p.current) THEN CallBehavior(T, i, e)
        ELSE IF e = NoEvent \/ InSequence(e, p.pending) THEN T
        ELSE TargetPush(T, i, e)

-----------------------------------------------------------------------------
(* The initiator.                                                          *)

(* It keeps the rules of the base protocol: one request at a time that has *)
(* not been accepted, and no reuse of a transaction that is still          *)
(* referenced.                                                             *)
BeginRequest(t, c) ==
    /\ IsTarget /\ Idle
    /\ c \in setup.commands
    /\ peer[t] = "idle" /\ NotInUse(t)
    /\ \A u \in FtTrans : peer[u] # "requested"
    /\ LET i == Claimed(Tables)
       IN  Enter("nb_transport_fw", i,
                 TargetPush(SlotTaken(Claim(Tables, t, c, FALSE), i), i, FirstEvent(c)))
    /\ peer' = [peer EXCEPT ![t] = "requested"]
    /\ UNCHANGED << setup, peq, kick, doneEvent, returning, thread, owed >>

EndResponse(t) ==
    /\ IsTarget /\ Idle
    /\ peer[t] = "responded"
    /\ peer' = [peer EXCEPT ![t] = "idle"]
    /\ Enter("nb_transport_fw", infoMap[t],
             TargetPush(Tables, infoMap[t], LastEvent(info[infoMap[t]].command)))
    /\ UNCHANGED << setup, peq, kick, doneEvent, returning, thread, owed >>

(* What the initiator knows after it was told a state of the transaction.  *)
ToldInitiator(t, e) ==
    CASE e \in RequestEnds /\ peer[t] = "requested" -> "accepted"
      [] /\ e \in ResponseStart /\ peer[t] \in {"requested", "accepted"}
         /\ \A u \in FtTrans : peer[u] # "responded" -> "responded"
      [] OTHER -> "confused"

(* The end of nb_transport_fw: the return path.                            *)
NbTransportFwReturns ==
    /\ caller.kind = "nb_transport_fw" /\ ~machine.on
    /\ LET i == caller.info
           t == info[i].trans
       IN  /\ peer' = IF returning THEN [peer EXCEPT ![t] = ToldInitiator(t, info[i].current)]
                      ELSE peer
           /\ Store(IF info[i].complete THEN Released(Tables, i) ELSE Tables)
    /\ returning' = FALSE
    /\ caller' = NoCaller
    /\ UNCHANGED << setup, peq, kick, doneEvent, machine, thread, owed >>

(* b_transport when timing callbacks are always invoked.  It takes no      *)
(* outstanding entry.                                                      *)
BTransport(t, c) ==
    /\ IsTarget /\ Idle
    /\ c \in setup.commands
    /\ thread[t].step = "out"
    /\ LET i == Claimed(Tables)
           T == TargetPush(Claim(Tables, t, c, TRUE), i, FirstEvent(c))
       IN  /\ thread' = [thread EXCEPT ![t] = [step |-> IF T.kicked THEN "calling" ELSE "waiting",
                                               info |-> i]]
           /\ Enter("b_transport", i, T)
    /\ UNCHANGED << setup, peq, kick, doneEvent, returning, peer, owed >>

(* wait_for_zero_ref_count, and the return of b_transport.                 *)
BTransportReturns(t) ==
    /\ IsTarget /\ Idle
    /\ thread[t].step = "finishing" /\ NotInUse(t)
    /\ thread' = [thread EXCEPT ![t] = [step |-> "out", info |-> None]]
    /\ UNCHANGED << setup, tableVars, peq, kick, doneEvent, caller, machine,
                    returning, peer, owed >>

-----------------------------------------------------------------------------
(* The target model.                                                       *)

(* The events a model may ask for when it is its turn.                     *)
TargetEvents(p) ==
    CASE p.current = "RD_ADDR_START" ->
            IF setup.autoBehavior THEN {"RD_DATA_LAST_START"}
            ELSE {"RD_ADDR_END", "RD_DATA_LAST_START"}
      [] p.current \in {"RD_ADDR_END", "RD_DATA_END"} -> {"RD_DATA_LAST_START"}
      [] p.current = "WR_ADDR_START" -> {"WR_ADDR_END", "WR_DATA_LAST_END", "WR_RSP_START"}
      [] p.current = "WR_DATA_START" -> {"WR_DATA_END"}
      [] p.current = "WR_DATA_LAST_START" -> {"WR_DATA_LAST_END"}
      [] p.current = "WR_DATA_LAST_END" -> {"WR_RSP_START"}
      [] OTHER -> {}

(* It is the turn of the model when a callback of it answered TLM_ACCEPTED *)
(* and when a request has ended and nothing else is queued.                *)
TargetsTurn(t) ==
    /\ infoMap[t] # None
    /\ \/ t \in owed
       \/ info[infoMap[t]].current \in RequestEnds /\ info[infoMap[t]].pending = << >>

TargetUpdates(t, e) ==
    /\ IsTarget /\ Idle
    /\ TargetsTurn(t) /\ e \in TargetEvents(info[infoMap[t]])
    /\ owed' = owed \ {t}
    /\ Enter("api", infoMap[t], TargetPush(Tables, infoMap[t], e))
    /\ UNCHANGED << setup, peq, kick, doneEvent, returning, peer, thread >>

(* nb2b_thread: the behaviour has been executed, the payload goes on.      *)
BehaviorRuns(w) ==
    /\ IsTarget /\ Idle
    /\ w \in work
    /\ LET T == [Tables EXCEPT !.info[w.info].waitingForBTransport = FALSE,
                               !.work = @ \ {w}]
       IN  Enter("worker", w.info,
                 IF setup.autoBehavior THEN [T EXCEPT !.kicked = TRUE]
                 ELSE TargetPush(T, w.info, w.event))
    /\ UNCHANGED << setup, peq, kick, doneEvent, returning, peer, thread, owed >>

-----------------------------------------------------------------------------
(* process_payload.                                                        *)

TargetTaken(i) ==
    LET e == NextState(i)
    IN  Taken(i, IF e \in {"RD_DATA_START", "WR_DATA_END"} THEN info[i].beat + 1
                 ELSE IF e \in {"RD_DATA_LAST_START", "WR_DATA_LAST_START", "WR_DATA_LAST_END"}
                 THEN setup.beats - 1 ELSE info[i].beat)

(* A state on its way to the target: do_fwd_call.  The callback may be put *)
(* off to the annotated time; otherwise the model answers TLM_UPDATED,     *)
(* answers TLM_ACCEPTED, or updates the transaction in the callback.       *)
StateForTarget(i) ==
    /\ IsTarget /\ Process(i)
    /\ NextState(i) \in ForwardEvents
    /\ LET T == TargetTaken(i)
           t == info[i].trans
           e == NextState(i)
       IN  \/ /\ Store(TargetAdvance(T, i))
              /\ UNCHANGED << peq, owed >>
           \/ /\ HasCallback(e)
              /\ peq' = Postponed(t, e)
              /\ Store(T)
              /\ UNCHANGED owed
           \/ /\ HasCallback(e) /\ TargetEvents(T.info[i]) # {}
              /\ owed' = owed \cup {t}
              /\ Store(T)
              /\ UNCHANGED peq
           \/ /\ HasCallback(e)
              /\ \E u \in TargetEvents(T.info[i]) : Store(TargetPush(T, i, u))
              /\ UNCHANGED << peq, owed >>
    /\ UNCHANGED << setup, kick, doneEvent, caller, returning, peer, thread >>

(* A state on its way to the initiator: do_bwd_call.  It is returned by    *)
(* nb_transport_fw, or sent with nb_transport_bw, which the initiator may  *)
(* answer with the end of the response.                                    *)
StateFromTarget(i) ==
    /\ IsTarget /\ Process(i)
    /\ NextState(i) \in BackwardEvents
    /\ LET e == NextState(i)
           t == info[i].trans
           T == IF e \in RequestEnds THEN ChannelReleased(TargetTaken(i), "request")
                ELSE TargetTaken(i)
           sent == ~info[i].lt /\ SentToSocket(info[i], e)
           Behave(S) == IF setup.autoBehavior /\ e \in RequestEnds /\ ~setup.neverSyncing
                        THEN CallBehavior(S, i, NoEvent) ELSE S
       IN  \/ /\ ~sent
              /\ Store(Behave(TargetAdvance(T, i)))
              /\ UNCHANGED << returning, peer >>
           \/ /\ sent /\ NbPayload # None
              /\ returning' = TRUE
              /\ Store(Behave(T))
              /\ UNCHANGED peer
           \/ /\ sent /\ NbPayload = None
              /\ peer' = [peer EXCEPT ![t] = ToldInitiator(t, e)]
              /\ Store(Behave(T))
              /\ UNCHANGED returning
           \/ /\ sent /\ NbPayload = None /\ e \in ResponseStart
              /\ peer' = [peer EXCEPT
                            ![t] = IF ToldInitiator(t, e) = "responded" THEN "idle" ELSE "confused"]
              /\ Store(Behave(TargetPush(T, i, LastEvent(info[i].command))))
              /\ UNCHANGED returning
    /\ UNCHANGED << setup, peq, kick, doneEvent, caller, thread, owed >>

(* The last state: the response channel is free and on_txn_complete gives  *)
(* an outstanding entry back.  Of the callbacks of the end, those that     *)
(* have a time annotated are put off.                                      *)
EndAtTarget(i) ==
    /\ IsTarget /\ Process(i)
    /\ NextState(i) \in ResponseEnds
    /\ Store(Completed(ChannelReleased(TargetTaken(i), "response"), i))
    /\ \E late \in {<< >>, << AfterEnd >>, << NextState(i), AfterEnd >>} :
          peq' = [peq EXCEPT ![info[i].trans] = @ \o SelectSeq(late, HasCallback)]
    /\ doneEvent' = (doneEvent \/ info[i].lt)
    /\ UNCHANGED << setup, kick, caller, returning, peer, thread, owed >>

(* A callback of the model that was put off to its time.                   *)
PostponedAtTarget(t) ==
    IsTarget /\ PostponedCallback(t, TargetPush, TargetAdvance, TargetEvents)

TargetNextStep ==
    \/ NbTransportFwReturns
    \/ \E i \in Infos : StateForTarget(i) \/ StateFromTarget(i) \/ EndAtTarget(i)
    \/ \E t \in FtTrans, c \in Commands : BeginRequest(t, c)
    \/ \E t \in FtTrans : EndResponse(t)
    \/ \E t \in LtTrans, c \in Commands : BTransport(t, c)
    \/ \E t \in LtTrans : BTransportReturns(t)
    \/ \E t \in Trans, e \in Events : TargetUpdates(t, e)
    \/ \E t \in Trans : PostponedAtTarget(t)
    \/ \E w \in work : BehaviorRuns(w)
=============================================================================
