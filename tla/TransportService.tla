--------------------------- MODULE TransportService ---------------------------
(***************************************************************************)
(* What a target socket promises to the two sides of it, whichever kind of *)
(* call each of them uses: every transaction is given to the target once,  *)
(* its answer comes back once, and a payload of the caller's own is given  *)
(* back when nobody refers to it any more.                                 *)
(***************************************************************************)
CONSTANT Trans

VARIABLES
    state,     \* where each transaction is
    held       \* the transactions the target keeps a reference to

vars == << state, held >>

Step(t, from, to) == state[t] = from /\ state' = [state EXCEPT ![t] = to]

Init == state = [t \in Trans |-> "idle"] /\ held = {}

Call(t)   == Step(t, "idle", "called") /\ UNCHANGED held
Serve(t)  == Step(t, "called", "working") /\ UNCHANGED held
Answer(t) == Step(t, "working", "answered") /\ UNCHANGED held
Return(t) == t \notin held /\ Step(t, "answered", "idle") /\ UNCHANGED held

Hold(t)  == state[t] = "working" /\ held' = held \cup {t} /\ UNCHANGED state
LetGo(t) == held' = held \ {t} /\ UNCHANGED state

Next == \E t \in Trans :
    Call(t) \/ Serve(t) \/ Answer(t) \/ Return(t) \/ Hold(t) \/ LetGo(t)

(* Whatever was called is served, answered and given back.                 *)
Fairness == \A t \in Trans :
    WF_vars(Serve(t)) /\ WF_vars(Answer(t)) /\ WF_vars(Return(t))

Spec == Init /\ [][Next]_vars /\ Fairness
=============================================================================
