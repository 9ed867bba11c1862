------------------------ MODULE MCSimpleTargetSocket ------------------------
(***************************************************************************)
(* Three transactions, one of them with the caller's own payload.          *)
(***************************************************************************)
EXTENDS SimpleTargetSocket

CONSTANTS a, b, c

MCTrans     == {a, b, c}
MCUnmanaged == {a}
=============================================================================
