------------------------------ MODULE MCDmiPath ------------------------------
(***************************************************************************)
(* A router of three addresses in front of a memory of two words.           *)
(***************************************************************************)
EXTENDS DmiPath, TLC

CONSTANTS h1, h2

Mapping(base, size, offset) == [base |-> base, size |-> size, offset |-> offset]

(* The whole memory low, its second word alone at the end, and a range     *)
(* that reaches beyond the memory.                                         *)
MCMappings == {Mapping(0, 2, 0), Mapping(2, 1, 1), Mapping(1, 2, 1)}

(* One initiator reads, the other one writes.                              *)
OneKindEach == (h1 :> {"read"}) @@ (h2 :> {"write"})
=============================================================================
