--------------------------- MODULE MCClockedTimer ---------------------------
(* Instances of ClockedTimer for TLC.                                      *)
EXTENDS ClockedTimer

\* No limit, no shot, one and several.
ShotCounts == {-1, 0, 1, 2}
=============================================================================
