---------------------------- MODULE MCClockedPeq ----------------------------
(* Instances of ClockedPeq for TLC.                                        *)
EXTENDS ClockedPeq
=============================================================================
