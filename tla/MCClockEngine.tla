--------------------------- MODULE MCClockEngine ---------------------------
(* Instances of ClockEngine for TLC.                                       *)
EXTENDS ClockEngine, TLC

CONSTANTS source, divider, mirror

\* A source alone.
OneClock  == {source}
OneParent == source :> NoClock

\* A source and a divider of it.
TwoClocks  == {source, divider}
TwoParents == source :> NoClock @@ divider :> source

\* A divider that is the parent of another one: MirrorsItsParent is violated.
ThreeClocks  == {source, divider, mirror}
ThreeParents == source :> NoClock @@ divider :> source @@ mirror :> divider

\* The periods of multiplier 22 that arithmetic in double loses.
LostPeriods == {<<15, 22>>}

NoStartMultiplier  == [c \in Clock |-> 0]
OneStartMultiplier == [c \in Clock |-> 1]
=============================================================================
