---------------------------- MODULE TickService ----------------------------
(***************************************************************************)
(* What a clock promises to its clocked modules (clocked_module.h and      *)
(* scml_clock_if.h), without saying how: the clock counts its ticks, a     *)
(* module has at most one pending request, for a tick that is still to     *)
(* come, and it is called back in exactly that tick.  In particular no     *)
(* tick passes while a request for it is still pending.  The calls that    *)
(* are made are part of the state: none can pass for a cancellation.       *)
(***************************************************************************)
EXTENDS Integers

CONSTANT Module          \* the clocked modules of one clock

VARIABLES count,         \* number of clock ticks so far
          pending,       \* [Module -> tick each module waits for, or None]
          calls          \* [Module -> calls made of the module since the clock last
                         \* had nobody to call]

svars == <<count, pending, calls>>

None == -1

ServiceInit ==
    /\ count = 0
    /\ pending = [m \in Module |-> None]
    /\ calls = [m \in Module |-> 0]

\* m asks for a tick that is still to come.  A later tick than the one already
\* waited for is ignored (no step), an earlier one replaces it.
Request(m) ==
    LET t == pending'[m]
    IN  /\ t > count
        /\ pending[m] # None => t < pending[m]
        /\ pending' = [pending EXCEPT ![m] = t]
        /\ UNCHANGED <<count, calls>>

Cancel(m) ==
    /\ pending' = [pending EXCEPT ![m] = None]
    /\ UNCHANGED <<count, calls>>

\* The callback handle_clock_tick() of module m, in the tick it waits for and
\* in no other.
Serve(m) ==
    /\ pending[m] = count
    /\ pending' = [pending EXCEPT ![m] = None]
    /\ calls' = [calls EXCEPT ![m] = @ + 1]
    /\ UNCHANGED count

\* The next tick, only once every request for the current one was served.
Tick ==
    /\ \A m \in Module : pending[m] # count
    /\ count' = count + 1
    /\ UNCHANGED <<pending, calls>>

\* The last call has returned, and nobody is left to be called in this tick.
Return ==
    /\ \A m \in Module : pending[m] # count
    /\ calls' = [m \in Module |-> 0]
    /\ UNCHANGED <<count, pending>>

ServiceNext ==
    \/ Tick
    \/ Return
    \/ \E m \in Module : Request(m) \/ Cancel(m) \/ Serve(m)

ServiceSpec == ServiceInit /\ [][ServiceNext]_svars
=============================================================================
