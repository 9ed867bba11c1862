------------------------ MODULE MCTickCallbackEngine ------------------------
(***************************************************************************)
(* Instances of TickCallbackEngine for model checking.                     *)
(***************************************************************************)
EXTENDS TickCallbackEngine, TLC

\* Periods 2 and 3: neither divides the other, so that a change of the period
\* really moves the phase of the ticks.
TwoPeriods == {2, 3}
=============================================================================
