----------------------------- MODULE MCFtSockets -----------------------------
(***************************************************************************)
(* Two initiators, one of them behind a socket of its parent module, and a *)
(* target that is behind a socket of its parent module.  The second        *)
(* initiator may stay unconnected.                                         *)
(***************************************************************************)
EXTENDS FtSockets

CONSTANTS i1, i2, outerI, t1, outerT, twinT

MCInitiators   == {i1, i2, outerI}
MCTargets      == {t1, outerT}
MCOptional     == {i2}
MCEncloses     == {<<outerI, i1>>, <<outerT, t1>>}
MCConstruction == << outerI, i1, i2, t1, outerT >>
MCClockPeriods == {0, 1}

\* Two sockets around the target's, of which one may stay idle.
TwinTargets      == {t1, outerT, twinT}
TwinOptional     == {i2, outerT, twinT}
TwinEncloses     == {<<outerI, i1>>, <<outerT, t1>>, <<twinT, t1>>}
TwinConstruction == << outerI, i1, i2, t1, outerT, twinT >>
=============================================================================
