---------------------------- MODULE PortAdaptors ----------------------------
(***************************************************************************)
(* The port adaptors at either end of a socket: the setup says which one   *)
(* it is, and what both promise is stated once, of the socket between them *)
(* and of the tables they share (PortAdaptor).                             *)
(***************************************************************************)
EXTENDS TargetPortAdaptor, InitiatorPortAdaptor

Init == InitAdaptor

Next ==
    \/ LeavePayload \/ MethodRuns \/ TxnCompleteEvent
    \/ TargetNextStep \/ InitiatorNextStep

Spec == Init /\ [][Next]_vars

-----------------------------------------------------------------------------
(* The shape of the state: no more outstanding entries than the capacity,  *)
(* and only payload_infos in the tables and in the hands of the callers.   *)
TypeOK ==
    /\ setup \in Setups
    /\ info \in [Infos -> [trans : Trans \cup {None}, command : Commands,
                          current : Events \cup {NoEvent},
                          pending : Seq(Events), beat : 0..setup.beats,
                          outstandingHit : BOOLEAN, lt : BOOLEAN,
                          waitingForBTransport : BOOLEAN, complete : BOOLEAN]]
    /\ infoMap \in [Trans -> Infos \cup {None}]
    /\ pool \in Seq(Infos) /\ queue \in [Channels -> Seq(Infos)]
    /\ captured \in [Channels -> BOOLEAN]
    /\ slots \in 0..TotalCapacity
    /\ peq \in [Trans -> Seq(Events \cup {AfterEnd})]
    /\ work \subseteq [info : Infos, event : Events \cup {NoEvent}]
    /\ kick \in BOOLEAN /\ doneEvent \in BOOLEAN /\ returning \in BOOLEAN
    /\ caller \in [kind : {"none", "nb_transport_fw", "nb_transport_bw", "b_transport",
                           "read_write", "api", "in_cb_peq", "worker", "method"},
                   info : Infos \cup {None}, rest : Events \cup {NoEvent}]
    /\ machine \in [on : BOOLEAN, channel : Channels,
                    payload : Infos \cup {None}, processed : BOOLEAN]
    /\ peer \in [FtTrans -> {"idle", "requested", "accepted", "responded", "confused"}]
    /\ thread \in [LtTrans -> [step : {"out", "calling", "waiting", "finishing"},
                               info : Infos \cup {None}]]
    /\ owed \subseteq Trans

(***************************************************************************)
(* The other end of the socket sees the base protocol.  The initiator is    *)
(* told END_REQ once after BEGIN_REQ, BEGIN_RESP once after it, and never a *)
(* second BEGIN_RESP before it ended the first; the target is never told    *)
(* BEGIN_REQ while a request is not accepted, and END_RESP once after its   *)
(* BEGIN_RESP; whether a state is returned by nb_transport or sent with it, *)
(* by the loop, a worker thread or a call of the model                      *)
(* (nb_transport_fw, nb_transport_bw, do_fwd_call, do_bwd_call).  A         *)
(* transaction that is in progress for the other end has a payload_info.    *)
(***************************************************************************)
BaseProtocolKept ==
    \A t \in FtTrans : /\ peer[t] # "confused"
                       /\ peer[t] # "idle" => infoMap[t] # None

(* Payloads at the front of a channel with a state that could be processed. *)
LeftBehind ==
    {i \in Infos : Processable(i) /\ \E c \in Channels : Holds(queue[c], i)}

(* It is not for the model, nor for the other end, to go on.               *)
NobodysTurn ==
    IF IsInitiator
    THEN /\ \A t \in FtTrans : peer[t] \notin {"requested", "accepted"}
         /\ owed = {}
    ELSE /\ \A t \in Trans : TargetsTurn(t) => TargetEvents(info[infoMap[t]]) = {}
         /\ \A t \in FtTrans : peer[t] # "responded"

(* Nobody is going to call the adaptor but for a new transaction.           *)
Quiet ==
    /\ Idle /\ ~kick /\ work = {} /\ \A t \in Trans : ~InPeq(t)
    /\ NobodysTurn

(***************************************************************************)
(* No lost wake-up.  When the loop has ended and will not be run again, a   *)
(* state that could be processed belongs to a payload whose response waits  *)
(* behind another one, whose end runs the loop; and when nothing is left to *)
(* happen, every transaction is complete and released, all channels are     *)
(* free and all outstanding entries are back (push_state, ft_channel,       *)
(* process_state_machine).                                                  *)
(***************************************************************************)
NothingIsForgotten ==
    /\ Idle /\ ~kick => \A i \in LeftBehind :
          /\ ChannelOf(NextState(i)) = "request"
          /\ \E c \in {"data", "response"} :
                captured[c] /\ InSequence(i, queue[c]) /\ ~Holds(queue[c], i)
    /\ Quiet => /\ \A t \in Trans : infoMap[t] = None
                /\ \A c \in Channels : queue[c] = << >> /\ ~captured[c]
                /\ slots = TotalCapacity

-----------------------------------------------------------------------------
(* Statements the adaptors do not keep in every configuration.             *)

(***************************************************************************)
(* "State machine will be kicked if the event can be processed immediately" *)
(* (tlm2_gp_target_port_adaptor.cc:364-365).                                *)
(***************************************************************************)
KickedWhenReady == Idle /\ ~kick => LeftBehind = {}

(***************************************************************************)
(* "adjust input annotated time if necessary to respect capacity"           *)
(* (tlm2_gp_target_port_adaptor.cc:220): of the transactions sent with      *)
(* nb_transport no more than the capacity are in progress.                  *)
(***************************************************************************)
WithinCapacity ==
    Cardinality({i \in Infos : /\ ~info[i].lt /\ ~info[i].complete
                               /\ info[i].current # NoEvent}) <= TotalCapacity

(***************************************************************************)
(* "port adaptor must not invoke any callbacks on the user model until      *)
(* after we return from this method" (port_adaptor_impl.cc:774-775).        *)
(***************************************************************************)
NoCallbackInApi ==
    [][ InsideApi => \A i \in Infos :
          ~info[i].complete /\ info'[i].complete /\ HasCallback(AfterEnd)
            => InSequence(AfterEnd, peq'[info[i].trans]) ]_vars

(***************************************************************************)
(* A thread in b_transport, read or write returns when everything else has  *)
(* come to an end (target_port_adaptor_impl::b_transport,                   *)
(* initiator_port_adaptor_impl::read).                                      *)
(***************************************************************************)
ThreadsReturn ==
    Quiet /\ ~doneEvent => \A t \in LtTrans : thread[t].step \in {"out", "finishing"}

(***************************************************************************)
(* A transaction whose callback answered TLM_ACCEPTED is in progress until  *)
(* the model updates it, and one whose callback was put off is in progress  *)
(* until it is invoked (invoke_timing_callback, in_cb_peq).                 *)
(***************************************************************************)
TheModelDecides ==
    \A t \in Trans :
        \/ infoMap[t] # None
        \/ /\ t \notin owed
           /\ InPeq(t) => Head(peq[t]) \in ResponseEnds \cup {AfterEnd}
=============================================================================
