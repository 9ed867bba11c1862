---------------------------- MODULE ClockedTimer ----------------------------
(***************************************************************************)
(* scml2::clocked_timer (src/scml2/clocked_timer.cc): an alarm after a     *)
(* number of clock ticks, once, a number of times or for ever.  The timer  *)
(* is a clocked module: it has at most one request pending in the tick     *)
(* service of its clock (TickService), which calls handle_clock_tick in    *)
(* that tick.  In the instant of a tick the callback and the calls of the  *)
(* processes come in any order; update_cache, which every call starts      *)
(* with, makes the outcome independent of it.                              *)
(*                                                                         *)
(* Time is a sequence of instants, some of which are clock ticks.          *)
(***************************************************************************)
EXTENDS Integers

CONSTANTS
    Periods,            \* ticks_per_period arguments of start
    Shots,              \* shot_count arguments of start; -1: no limit
    MaxTicks,           \* bound: clock ticks
    ElaborationCalls    \* the timer is also called before the simulation

ASSUME TimerAssumption ==
    /\ Periods \subseteq Nat
    /\ Shots \subseteq Nat \cup {-1}
    /\ -1 \in Shots
    /\ 1 \in Periods
    /\ MaxTicks \in Nat
    /\ ElaborationCalls \in BOOLEAN

VARIABLES
    simRunning,         \* kernel: the simulation has started
    tickCount,          \* get_clock()->get_tick_count()
    mScheduledTick,     \* clocked_module: the tick requested, or None
    inCallback,         \* the alarm callback is running
    mState, mTicksPerPeriod, mRemainingShotCount, mRemainingTicksWhenResuming,
    mCallbackPending,
    cacheIsNow,         \* mCacheTimeStamp = sc_time_stamp()
    mCachedState, mCachedRemainingShotCount,
    stateBefore, shotsBefore  \* history: the state when this instant began

cache == <<cacheIsNow, mCachedState, mCachedRemainingShotCount>>
history == <<stateBefore, shotsBefore>>
timerVars == <<simRunning, tickCount, mScheduledTick, inCallback, mState,
               mTicksPerPeriod, mRemainingShotCount, mRemainingTicksWhenResuming,
               mCallbackPending, cache, history>>

None == -1
States == {"Idle", "Running", "Stopped"}

-----------------------------------------------------------------------------
(* update_cache, the first thing every call does                           *)

\* The requested tick is now: the tick method is to call handle_clock_tick.
Due == mScheduledTick = tickCount

\* Mutant: only handle_clock_tick takes the expiry into account.
Expires_OnlyInCallback == FALSE

\* The first call of the instant finds that the timer expires now.
Expires == ~cacheIsNow /\ Due

\* mCallbackPending, mRemainingShotCount and mState after update_cache.
PendingNow == IF cacheIsNow THEN mCallbackPending ELSE Expires

ShotsNow == IF Expires /\ mRemainingShotCount > 0
            THEN mRemainingShotCount - 1 ELSE mRemainingShotCount

StateNow == IF Expires /\ mRemainingShotCount = 1 THEN "Idle" ELSE mState

\* The cached values: what get_state and get_remaining_shot_count return.
StateSeen == IF cacheIsNow THEN mCachedState ELSE mState
ShotsSeen == IF cacheIsNow THEN mCachedRemainingShotCount ELSE mRemainingShotCount

FillCache ==
    /\ cacheIsNow' = TRUE
    /\ mCachedState' = StateSeen
    /\ mCachedRemainingShotCount' = ShotsSeen

NotAvailable == -1

\* Mutant: a value is delivered for the tick of the alarm too.
CounterAfter_AtTheAlarm(ticks) ==
    IF PendingNow THEN NotAvailable
    ELSE CASE StateNow = "Idle" -> 0
         []   StateNow = "Running" ->
                 IF tickCount + ticks > mScheduledTick THEN NotAvailable
                 ELSE mTicksPerPeriod - (mScheduledTick - (tickCount + ticks))
         []   StateNow = "Stopped" ->
                 mTicksPerPeriod - (mRemainingTicksWhenResuming + 1)

\* get_counter_value(delay), for a delay that spans a number of ticks: the
\* ticks of the current period that will have passed by then, NotAvailable
\* where it returns false.
CounterAfter(ticks) ==
    IF PendingNow THEN NotAvailable
    ELSE CASE StateNow = "Idle" -> 0
         []   StateNow = "Running" ->
                 IF tickCount + ticks >= mScheduledTick THEN NotAvailable
                 ELSE mTicksPerPeriod - (mScheduledTick - (tickCount + ticks))
         []   StateNow = "Stopped" ->
                 mTicksPerPeriod - (mRemainingTicksWhenResuming + 1)

-----------------------------------------------------------------------------
(* The calls.  While inCallback they are made by the callback itself.      *)

CanCall == simRunning \/ ElaborationCalls

Kernel == <<simRunning, tickCount, inCallback, history>>

\* clocked_module::request_clock_trigger, of a timer without a request.
TickAfter(skip) == tickCount + skip + 1

\* Mutant: the pending callback is cancelled with the request.
StartCancels_Always == TRUE

\* A request for this very tick is served, not cancelled.
StartCancels == ~PendingNow

\* start(ticks_per_period, shot_count)
Start(ticks, shots) ==
    LET idle == ticks = 0 \/ shots = 0
    IN  /\ CanCall
        /\ FillCache
        /\ mRemainingShotCount' = shots
        /\ mTicksPerPeriod' = ticks
        /\ mState' = IF idle THEN "Idle" ELSE "Running"
        /\ mCallbackPending' = PendingNow
        /\ mScheduledTick' = IF ~StartCancels THEN mScheduledTick
                             ELSE IF idle THEN None ELSE TickAfter(ticks - 1)
        /\ UNCHANGED <<Kernel, mRemainingTicksWhenResuming>>

\* What stop saves for resume_stopped.
TicksToGo == IF PendingNow THEN mTicksPerPeriod - 1
             ELSE mScheduledTick - tickCount - 1

\* stop()
Stop ==
    /\ CanCall
    /\ FillCache
    /\ mCallbackPending' = PendingNow
    /\ mRemainingShotCount' = ShotsNow
    /\ IF StateNow = "Running"
       THEN /\ mState' = "Stopped"
            /\ mRemainingTicksWhenResuming' = TicksToGo
            /\ mScheduledTick' = IF PendingNow THEN mScheduledTick ELSE None
       ELSE /\ mState' = StateNow
            /\ UNCHANGED <<mRemainingTicksWhenResuming, mScheduledTick>>
    /\ UNCHANGED <<Kernel, mTicksPerPeriod>>

\* resume_stopped(): it does not start with update_cache.
ResumeStopped ==
    /\ CanCall
    /\ mState = "Stopped"
    /\ mState' = "Running"
    /\ mScheduledTick' = IF mCallbackPending THEN mScheduledTick
                         ELSE TickAfter(mRemainingTicksWhenResuming)
    /\ UNCHANGED <<Kernel, cache, mTicksPerPeriod, mRemainingShotCount,
                   mRemainingTicksWhenResuming, mCallbackPending>>

\* get_counter_value, get_state, is_active and get_remaining_shot_count: the
\* first one of an instant fills the cache.
Query ==
    /\ CanCall
    /\ ~cacheIsNow
    /\ FillCache
    /\ mCallbackPending' = PendingNow
    /\ mRemainingShotCount' = ShotsNow
    /\ mState' = StateNow
    /\ UNCHANGED <<Kernel, mScheduledTick, mTicksPerPeriod,
                   mRemainingTicksWhenResuming>>

-----------------------------------------------------------------------------
(* The tick                                                                *)

\* handle_clock_tick up to the callback; the request is gone by then.
HandleClockTick ==
    /\ simRunning
    /\ Due /\ ~inCallback
    /\ FillCache
    /\ mCallbackPending' = PendingNow
    /\ mRemainingShotCount' = ShotsNow
    /\ mState' = StateNow
    /\ mScheduledTick' = None
    /\ inCallback' = TRUE
    /\ UNCHANGED <<simRunning, tickCount, history, mTicksPerPeriod,
                   mRemainingTicksWhenResuming>>

\* Mutant: a timer that was stopped in the tick goes on.
Continues_UnlessIdle == mState # "Idle"

Continues == mState = "Running"

\* handle_clock_tick after the callback.
FinishCallback ==
    /\ inCallback
    /\ inCallback' = FALSE
    /\ mCallbackPending' = FALSE
    /\ mScheduledTick' = IF Continues THEN TickAfter(mTicksPerPeriod - 1)
                         ELSE mScheduledTick
    /\ UNCHANGED <<simRunning, tickCount, history, mState, mTicksPerPeriod,
                   mRemainingShotCount, mRemainingTicksWhenResuming, cache>>

\* The simulation starts at time 0, the time the timer was constructed and
\* called at; the first tick may be at time 0 too.
StartSimulation ==
    /\ ~simRunning
    /\ simRunning' = TRUE
    /\ tickCount' \in {0, 1}
    /\ UNCHANGED <<mScheduledTick, inCallback, mState, mTicksPerPeriod,
                   mRemainingShotCount, mRemainingTicksWhenResuming,
                   mCallbackPending, cache, history>>

\* The next instant, a tick of the clock or not.  The tick service lets no
\* tick pass in which a request is pending.
TimePasses ==
    /\ simRunning /\ ~inCallback /\ ~Due
    /\ tickCount' \in {tickCount, tickCount + 1}
    /\ tickCount' <= MaxTicks
    /\ cacheIsNow' = FALSE
    /\ stateBefore' = mState
    /\ shotsBefore' = mRemainingShotCount
    /\ UNCHANGED <<simRunning, mScheduledTick, inCallback, mState, mTicksPerPeriod,
                   mRemainingShotCount, mRemainingTicksWhenResuming,
                   mCallbackPending, mCachedState, mCachedRemainingShotCount>>

-----------------------------------------------------------------------------
\* The constructor leaves the other members uninitialized.
TimerInit ==
    /\ simRunning = FALSE
    /\ tickCount = 0
    /\ mScheduledTick = None
    /\ inCallback = FALSE
    /\ mState = "Idle"
    /\ mTicksPerPeriod \in Periods
    /\ mRemainingShotCount \in Shots
    /\ mRemainingTicksWhenResuming = 0
    /\ mCallbackPending = FALSE
    /\ cacheIsNow = FALSE
    /\ mCachedState = "Idle"
    /\ mCachedRemainingShotCount = mRemainingShotCount
    /\ stateBefore = "Idle"
    /\ shotsBefore = mRemainingShotCount

TimerNext ==
    \/ \E ticks \in Periods, shots \in Shots : Start(ticks, shots)
    \/ Stop
    \/ ResumeStopped
    \/ Query
    \/ HandleClockTick
    \/ FinishCallback
    \/ StartSimulation
    \/ TimePasses

TimerSpec == TimerInit /\ [][TimerNext]_timerVars

-----------------------------------------------------------------------------
(* Properties                                                              *)

\* Every variable has a value of its type.
TimerTypeOK ==
    /\ simRunning \in BOOLEAN /\ inCallback \in BOOLEAN
    /\ mCallbackPending \in BOOLEAN /\ cacheIsNow \in BOOLEAN
    /\ tickCount \in Nat /\ mScheduledTick \in Nat \cup {None}
    /\ mState \in States /\ mCachedState \in States /\ stateBefore \in States
    /\ mTicksPerPeriod \in Nat /\ mRemainingTicksWhenResuming \in Nat
    /\ mRemainingShotCount \in Nat \cup {-1}
    /\ mCachedRemainingShotCount \in Nat \cup {-1}
    /\ shotsBefore \in Nat \cup {-1}

\* The assertions of update_cache and handle_clock_tick: a timer that expires
\* is running, and the alarm that is given has been accounted for, whichever
\* call of the instant did so.
AlarmAccountedFor ==
    /\ Expires => mState = "Running"
    /\ inCallback => mCallbackPending

\* A running timer always has its next tick requested, one that is idle or
\* stopped has none, apart from the alarm of this very instant.
RequestMatchesState ==
    (~inCallback /\ ~Due) =>
        IF mState = "Running" THEN mScheduledTick > tickCount
        ELSE mScheduledTick = None

\* "In order to avoid dependency on scheduling order, the state at the
\* beginning of the current SystemC time is returned."
StateOfTheBeginning ==
    StateSeen = stateBefore /\ ShotsSeen = shotsBefore

\* The ticks to go until the next alarm but the one of this instant.
TicksLeft ==
    CASE StateNow = "Idle" -> 0
    []   StateNow = "Stopped" -> mRemainingTicksWhenResuming + 1
    []   StateNow = "Running" -> IF Due \/ inCallback THEN mTicksPerPeriod
                                 ELSE mScheduledTick - tickCount

\* The timer implements the service: alarms in exactly the ticks promised.
Service == INSTANCE TimerService WITH
    mode <- StateNow, period <- mTicksPerPeriod, shots <- ShotsNow,
    owed <- Due, left <- TicksLeft

Promise == Service!TimerSpec

\* get_counter_value(delay) foretells the counter: while it is available for a
\* later tick, and the timer is neither started nor stopped meanwhile, it is
\* what is read when that tick has come.
CounterExact ==
    [][\A ticks \in 0 .. 2 :
         LET before == CounterAfter(ticks + 1)
         IN  (TimePasses /\ tickCount' = tickCount + 1 /\ before # NotAvailable)
                => CounterAfter(ticks)' = before]_timerVars
=============================================================================
