---------------------------- MODULE TimerService ----------------------------
(***************************************************************************)
(* What a clocked timer promises (clocked_timer.h): started with a period  *)
(* of p ticks and n shots it calls back in the p-th, 2p-th, ... n*p-th     *)
(* tick, ticks during which it is stopped not counted, whatever the order  *)
(* in which the callback and the calls of one instant happen.              *)
(***************************************************************************)
EXTENDS Integers

VARIABLES mode,     \* "Idle", "Running" or "Stopped"
          period,   \* ticks between two alarms
          left,     \* ticks to go until the next alarm, 0 if idle
          shots,    \* alarms to go; negative: no limit
          owed      \* the alarm of this tick is still to be given

tvars == <<mode, period, left, shots, owed>>

TimerInit ==
    /\ mode = "Idle"
    /\ left = 0
    /\ owed = FALSE

Start(p, n) ==
    /\ mode' = IF p = 0 \/ n = 0 THEN "Idle" ELSE "Running"
    /\ left' = IF p = 0 \/ n = 0 THEN 0 ELSE p
    /\ period' = p
    /\ shots' = n
    /\ UNCHANGED owed

Stop ==
    /\ mode = "Running"
    /\ mode' = "Stopped"
    /\ UNCHANGED <<period, left, shots, owed>>

Resume ==
    /\ mode = "Stopped"
    /\ mode' = "Running"
    /\ UNCHANGED <<period, left, shots, owed>>

\* A tick before the end of the period.
Count ==
    /\ mode = "Running" /\ left > 1 /\ ~owed
    /\ left' = left - 1
    /\ UNCHANGED <<mode, period, shots, owed>>

\* The last tick of a period.
Expire ==
    /\ mode = "Running" /\ left = 1 /\ ~owed
    /\ owed' = TRUE
    /\ shots' = IF shots > 0 THEN shots - 1 ELSE shots
    /\ mode' = IF shots = 1 THEN "Idle" ELSE "Running"
    /\ left' = IF shots = 1 THEN 0 ELSE period
    /\ UNCHANGED period

Alarm ==
    /\ owed
    /\ owed' = FALSE
    /\ UNCHANGED <<mode, period, left, shots>>

TimerNext ==
    \/ Start(period', shots')
    \/ Stop \/ Resume \/ Count \/ Expire \/ Alarm

TimerSpec == TimerInit /\ [][TimerNext]_tvars
=============================================================================
