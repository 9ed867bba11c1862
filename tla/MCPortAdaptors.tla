--------------------------- MODULE MCPortAdaptors ---------------------------
(***************************************************************************)
(* The port adaptors for TLC: which adaptor it is, the callbacks of the    *)
(* model behind it and its attributes.                                     *)
(***************************************************************************)
EXTENDS PortAdaptors

CONSTANTS t1, t2, l1

Target(cbs, auto, never, beats, commands) ==
    [side |-> "target", callbacks |-> cbs, sendsFrom |-> {}, autoBehavior |-> auto,
     neverSyncing |-> never, completes |-> FALSE, beats |-> beats, commands |-> commands]

Initiator(cbs, beats, commands) ==
    [side |-> "initiator", callbacks |-> cbs, sendsFrom |-> cbs \ {AfterEnd},
     autoBehavior |-> FALSE, neverSyncing |-> FALSE, completes |-> FALSE,
     beats |-> beats, commands |-> commands]

(* Targets: a memory without timing callbacks; a model that accepts reads; *)
(* one that accepts write data in front of a memory that never syncs; and  *)
(* automatic behaviour with simulated data beats.                          *)
TargetSetups ==
    {Target({}, FALSE, FALSE, 1, Commands),
     Target({"RD_ADDR_START"}, FALSE, FALSE, 1, {"read"}),
     Target({"WR_DATA_LAST_START"}, FALSE, TRUE, 1, {"write"}),
     Target({"RD_DATA_START", AfterEnd}, TRUE, FALSE, 2, {"read"}),
     Target({"WR_DATA_END", AfterEnd}, TRUE, FALSE, 2, {"write"})}

(* Initiators: without callbacks, so that all transactions are loosely     *)
(* timed; one that looks at responses of both kinds; one that supplies the *)
(* write data; one that reads in two beats.                                *)
InitiatorSetups ==
    {Initiator({}, 1, Commands),
     Initiator({"RD_DATA_LAST_START", "WR_RSP_START"}, 1, Commands),
     Initiator({"WR_ADDR_END", AfterEnd}, 1, {"write"}),
     Initiator({"RD_DATA_START", AfterEnd}, 2, {"read"})}

MCSetups == TargetSetups \cup InitiatorSetups

-----------------------------------------------------------------------------
(* Setups in which a statement fails (README, section 6).                  *)

(* The callback of the end sends the next transaction.                     *)
SendsAtTheEnd ==
    {[Initiator({AfterEnd, "WR_ADDR_END"}, 1, {"write"}) EXCEPT !.sendsFrom = {AfterEnd}]}

(* The target may answer a request with TLM_COMPLETED.                     *)
TargetCompletes ==
    {[Initiator({"RD_DATA_LAST_START"}, 1, {"read"}) EXCEPT !.completes = TRUE]}

(* The initiator looks at the end of the request and at the response.      *)
EndAndResponse == {Initiator({"RD_ADDR_END", "RD_DATA_LAST_START"}, 1, {"read"})}

(* The model that updates a transaction also observes its end.             *)
EndObserved ==
    {Target({AfterEnd, "RD_ADDR_START"}, FALSE, FALSE, 1, {"read"}),
     Initiator({AfterEnd, "RD_DATA_LAST_START"}, 1, {"read"})}
=============================================================================
