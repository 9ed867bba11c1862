---------------------------- MODULE MemoryIndices ----------------------------
(***************************************************************************)
(* What the models of a memory have in common: the kinds of access and the *)
(* indices of its words.                                                   *)
(***************************************************************************)
EXTENDS Integers

CONSTANT Top    \* the largest index there is, (unsigned long long)(-1)

ASSUME TopAssumption == Top \in Nat

Kinds == {"read", "write"}
=============================================================================
