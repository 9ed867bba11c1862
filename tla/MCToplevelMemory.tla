--------------------------- MODULE MCToplevelMemory ---------------------------
(***************************************************************************)
(* Alias trees of a memory of four or six words for TLC.                   *)
(***************************************************************************)
EXTENDS ToplevelMemory, TLC

CONSTANTS mem, a, b, c

(* An alias of two words, with a register in its second one, and another    *)
(* register: an access may begin before all of them, or before the register *)
(* in the alias.                                                            *)
MCObjects  == {mem, a, b, c}
MCParent   == (a :> mem) @@ (b :> a) @@ (c :> mem)
MCOffset   == (mem :> 0) @@ (a :> 1) @@ (b :> 2) @@ (c :> 3)
MCWidth    == [o \in MCObjects |-> 1]
MCWords    == (mem :> 4) @@ (a :> 2) @@ (b :> 1) @@ (c :> 1)
MCSwitched == {mem, a}
MCObserved == {b}
Separately == {{"read"}, {"write"}, {"read", "write"}}

(* Aliases whose words are two words of the memory wide: HeldWordsNeedNoOne *)
(* is violated with Separately, EveryCallbackRuns with Together.            *)
WideOffset == (mem :> 0) @@ (a :> 0) @@ (b :> 2) @@ (c :> 4)
WideWidth  == (mem :> 1) @@ (a :> 2) @@ (b :> 2) @@ (c :> 2)
WideWords  == (mem :> 6) @@ (a :> 2) @@ (b :> 1) @@ (c :> 1)
Together   == {{"read", "write"}}
=============================================================================
