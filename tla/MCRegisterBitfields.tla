------------------------ MODULE MCRegisterBitfields ------------------------
(***************************************************************************)
(* Four bits: bit 0 belongs to no bitfield, bit 2 to one inside another.   *)
(***************************************************************************)
EXTENDS RegisterBitfields

MCBits   == 0 .. 3
MCFields == {"outer", "inner", "side"}
MCBitsOf == [f \in MCFields |-> CASE f = "outer" -> {1, 2}
                                  [] f = "inner" -> {2}
                                  [] f = "side"  -> {3}]
MCParent == [f \in MCFields |-> IF f = "inner" THEN "outer" ELSE "register"]
MCWalk   == << "inner", "outer", "side" >>
MCMasks  == {{0, 1, 2, 3}, {1}, {2}, {0, 1, 3}, {0}}
=============================================================================
