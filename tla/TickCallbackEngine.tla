------------------------- MODULE TickCallbackEngine -------------------------
(***************************************************************************)
(* The tick callback engine of an scml_clock                               *)
(* (src/scml_clock/tick_callback_engine.{h,cc}) with the clocked_modules   *)
(* that use it, the SystemC kernel that runs it and the clock that changes *)
(* its parameters.                                                         *)
(*                                                                         *)
(* Modules ask to be called in a future tick of the clock.  The engine     *)
(* keeps one time node per requested tick, sorted by tick, and notifies a  *)
(* SystemC event (the tick trigger) for the first node only; the method    *)
(* sensitive to that event calls the modules of the node and arms the      *)
(* trigger of the next one.  The tick count is not incremented by anyone:  *)
(* it is computed, on demand, from the time of a remembered tick.          *)
(*                                                                         *)
(* Simulation time is a natural number up to MaxSimTime, the largest value *)
(* sc_time can hold; the engine ignores requests for ticks beyond it.  The *)
(* simulation is stopped at EndOfSim, long before that.                    *)
(***************************************************************************)
EXTENDS Integers, FiniteSets, FiniteSetsExt

CONSTANTS
    Module,         \* the clocked modules bound to the clock
    Period,         \* the periods the clock may be given
    MaxSimTime,     \* the largest representable sc_time (~0ull)
    EndOfSim,       \* bound: simulated time at which the simulation stops
    MaxOffset,      \* bound: how far ahead a parameter change puts its first tick
    MaxSkip,        \* bound: largest clock_ticks_to_skip of a request
    MaxDelay,       \* bound: largest delay of a request
    LateCancel,     \* may a process cancel, at the time of a tick, the last
                    \* request of that tick before its callbacks have run?
    LateCreation    \* may the engine be created after the clock's
                    \* parameters were changed in the running simulation?

ASSUME ConstantsAssumption ==
    /\ Period \subseteq Nat \ {0}
    /\ MaxSimTime \in Nat
    /\ EndOfSim \in 0 .. MaxSimTime
    /\ MaxOffset \in Nat
    /\ MaxSkip \in Nat
    /\ MaxDelay \in Nat
    /\ LateCancel \in BOOLEAN
    /\ LateCreation \in BOOLEAN

VARIABLES
    now,                  \* kernel: sc_time_stamp()
    simRunning,           \* kernel: elaboration is over
    methodRunnable,       \* kernel: clock_tick_method was made runnable
    mPeriod, mOffset, mRunning,  \* parameters: time between ticks, first tick, on/off
    exists,               \* the clock has created its tick callback engine
    reconfigured,         \* the parameters changed in the simulation before that
    mLastTickCount,       \* count of the remembered tick ...
    mLastTickTime,        \* ... and its time, Invalid if mLastTickTimeValid is false
    mNodes,               \* the time nodes behind mRequestsRoot, by scheduled tick
    mProcessingTickCount, \* tick whose callbacks are running, or NotProcessing
    mCalls,               \* modules handle_tick1_trigger still has to call
    mScheduledTick,       \* the tick each module waits for, or NotScheduled
    ticks,                \* history: ticks since the start of simulation
    called                \* history: calls of each module made by the running
                          \* clock_tick_method

kernel     == <<now, simRunning, methodRunnable>>
parameters == <<mPeriod, mOffset, mRunning>>
cache      == <<mLastTickCount, mLastTickTime>>
requests   == <<mNodes, mScheduledTick>>
processing == <<mProcessingTickCount, mCalls>>
existence  == <<exists, reconfigured>>
vars == <<kernel, parameters, existence, cache, requests, processing, ticks, called>>

NotScheduled  == -1   \* ~0ull
NotProcessing == -1   \* ~0ull
Invalid       == -1   \* a last tick time that does not count
Never         == -1   \* time of an event that is not notified

Time == 0 .. MaxSimTime

-----------------------------------------------------------------------------
(* The tick count                                                          *)

\* Is x the time of a clock tick under the current parameters?
IsTickTime(x) == mRunning /\ x >= mOffset /\ (x - mOffset) % mPeriod = 0

\* The clock has ticked since its parameters took effect.
Ticking == mRunning /\ now >= mOffset /\ simRunning

\* The tick from which the others are computed: the remembered one or else
\* the first one of the current parameters.
BaseTick ==
    IF mLastTickTime # Invalid
    THEN [count |-> mLastTickCount, time |-> mLastTickTime]
    ELSE [count |-> mLastTickCount + 1, time |-> mOffset]

\* The latest tick that is not after time x.
TickBefore(x) ==
    LET n == (x - BaseTick.time) \div mPeriod
    IN  [count |-> BaseTick.count + n, time |-> BaseTick.time + n * mPeriod]

\* get_prev_tick_data(count, time)
PrevTick ==
    IF mLastTickTime # Invalid \/ Ticking THEN TickBefore(now)
    ELSE [count |-> mLastTickCount,
          time  |-> IF mRunning THEN mOffset - mPeriod ELSE now]

\* get_prev_tick_data(delay, count, time)
PrevTickAfter(d) ==
    IF mLastTickTime # Invalid \/ (mRunning /\ now + d >= mOffset)
    THEN TickBefore(now + d)
    ELSE IF mRunning
         THEN [count |-> mLastTickCount, time |-> mOffset - mPeriod]
         ELSE [count |-> mLastTickCount + d \div mPeriod,
               time  |-> now + (d \div mPeriod) * mPeriod]

\* get_tick_count()
GetTickCount == PrevTick.count

\* get_tick_count(delay)
GetTickCountAfter(d) == PrevTickAfter(d).count

\* get_tick_time(clock_ticks_to_skip)
GetTickTime(k) ==
    IF mLastTickTime # Invalid \/ Ticking
    THEN TickBefore(now).time + (k + 1) * mPeriod
    ELSE IF mRunning THEN mOffset + k * mPeriod
                     ELSE now + (k + 1) * mPeriod

\* get_next_tick_data(delay, count, time)
GetNextTickData(d) ==
    [count |-> PrevTickAfter(d).count + 1,
     time  |-> PrevTickAfter(d).time + mPeriod]

\* check_at_tick()
CheckAtTick ==
    IF mLastTickTime # Invalid THEN TickBefore(now).time = now
                               ELSE Ticking /\ (now - mOffset) % mPeriod = 0

\* What these functions leave in the cache.  Without a valid tick time only
\* those that know that the clock is ticking fill it.
RefreshCache ==
    IF mLastTickTime # Invalid \/ Ticking
    THEN /\ mLastTickCount' = PrevTick.count
         /\ mLastTickTime' = PrevTick.time
    ELSE UNCHANGED cache

\* get_prev_tick_data(delay, ...) fills an invalid cache but keeps a valid one.
FillCache == IF mLastTickTime = Invalid THEN RefreshCache ELSE UNCHANGED cache

-----------------------------------------------------------------------------
(* The list of time nodes                                                  *)

Root(nodes) == Min(DOMAIN nodes)

Armable == mRunning /\ mProcessingTickCount = NotProcessing

\* Mutant: the limit on the number of ticks is compared with a time.
EventTime_LimitIsTime(period, delta, t) ==
    IF delta * period < MaxSimTime \div period /\ t <= MaxSimTime THEN t ELSE Never

\* When the event of a new TickTrigger is notified for a tick delta ticks
\* ahead, at time t: never, if the multiplication or the addition overflows.
EventTime(period, delta, t) ==
    IF delta < MaxSimTime \div period /\ t <= MaxSimTime THEN t ELSE Never

\* The node of the requests of modules ms, with a trigger or without one.
Unarmed(ms)      == [mRequests |-> ms, mTickTrigger |-> FALSE, mEvent |-> Never]
Armed(ms, event) == [mRequests |-> ms, mTickTrigger |-> TRUE, mEvent |-> event]

\* Mutant: only the trigger of the root is cancelled.
WithoutTriggers_RootOnly(nodes) ==
    [u \in DOMAIN nodes |->
        IF u = Root(nodes) THEN Unarmed(nodes[u].mRequests) ELSE nodes[u]]

\* cancel_all_tick_triggers
WithoutTriggers(nodes) ==
    [u \in DOMAIN nodes |-> Unarmed(nodes[u].mRequests)]

\* Mutant: the root is armed for the next tick, whichever it is the node of.
ArmRoot_NextTick(nodes, last, period) ==
    LET root  == Root(nodes)
        event == EventTime(period, 1, last.time + period)
    IN  [nodes EXCEPT ![root] = Armed(nodes[root].mRequests, event)]

\* nodes with a trigger at the root, computed from a tick that has passed.
ArmRoot(nodes, last, period) ==
    LET root  == Root(nodes)
        delta == root - last.count
        event == EventTime(period, delta, last.time + delta * period)
    IN  [nodes EXCEPT ![root] = Armed(nodes[root].mRequests, event)]

NeedsTrigger(nodes) ==
    DOMAIN nodes # {} /\ ~nodes[Root(nodes)].mTickTrigger

\* The nodes left when module m leaves the one it is in.
Unlinked(m) ==
    LET t    == mScheduledTick[m]
        left == mNodes[t].mRequests \ {m}
    IN  IF left # {} THEN [mNodes EXCEPT ![t].mRequests = left]
        ELSE [u \in DOMAIN mNodes \ {t} |-> mNodes[u]]

\* Mutant: the new root is not armed.
CancelArms_Never(m) == FALSE

\* Cancelling m removes the root, and the new one must be armed.
CancelArms(m) ==
    /\ Armable
    /\ mScheduledTick[m] = Root(mNodes)
    /\ mScheduledTick[m] \notin DOMAIN Unlinked(m)
    /\ NeedsTrigger(Unlinked(m))

\* cancel_clock_trigger_impl
NodesWithout(m) ==
    IF CancelArms(m) THEN ArmRoot(Unlinked(m), PrevTick, mPeriod) ELSE Unlinked(m)

\* nodes after m was put into the node of tick t, created if necessary; a new
\* first node gets a trigger, notified for time event.
NodesWith(nodes, m, t, event) ==
    LET isFirst == \A u \in DOMAIN nodes : t < u
        new     == IF Armable /\ isFirst THEN Armed({m}, event) ELSE Unarmed({m})
    IN  IF t \in DOMAIN nodes
        THEN [nodes EXCEPT ![t].mRequests = @ \cup {m}]
        ELSE [u \in DOMAIN nodes \cup {t} |-> IF u = t THEN new ELSE nodes[u]]

-----------------------------------------------------------------------------
(* Requests of the modules                                                 *)

\* Mutant: an earlier request is added without cancelling the pending one.
RequestTriggerImpl_NoCancel(m, t, event) ==
    LET pending == mScheduledTick[m] # NotScheduled
    IN  IF pending /\ t >= mScheduledTick[m] THEN UNCHANGED requests
        ELSE /\ mNodes' = NodesWith(mNodes, m, t, event)
             /\ mScheduledTick' = [mScheduledTick EXCEPT ![m] = t]

\* request_trigger_impl: m asks for tick t.  Ignored if m already waits for t
\* or an earlier tick; otherwise m moves.
RequestTriggerImpl(m, t, event) ==
    LET pending == mScheduledTick[m] # NotScheduled
    IN  IF pending /\ t >= mScheduledTick[m] THEN UNCHANGED requests
        ELSE /\ mNodes' = NodesWith(IF pending THEN NodesWithout(m) ELSE mNodes,
                                    m, t, event)
             /\ mScheduledTick' = [mScheduledTick EXCEPT ![m] = t]

\* request_clock_trigger(clock_ticks_to_skip)
RequestTrigger(m, skip) ==
    /\ exists
    /\ LET t == PrevTick.count + skip + 1
       IN  RequestTriggerImpl(m, t,
               EventTime(mPeriod, skip + 1, PrevTick.time + (skip + 1) * mPeriod))
    /\ RefreshCache
    /\ UNCHANGED <<kernel, parameters, existence, processing, ticks, called>>

\* request_clock_trigger(delay).  A delay past the end of time is ignored by
\* the code; delays into the very last period of representable time are not
\* modelled (the code computes the trigger time without an overflow check).
RequestTriggerAfter(m, delay) ==
    /\ exists
    /\ LET next == GetNextTickData(delay)
       IN  /\ next.time <= MaxSimTime
           /\ RequestTriggerImpl(m, next.count, next.time)
    /\ FillCache
    /\ UNCHANGED <<kernel, parameters, existence, processing, ticks, called>>

\* The last request of the tick whose clock_tick_method is about to run.
IsLate(m) ==
    methodRunnable /\ mScheduledTick[m] \notin DOMAIN Unlinked(m)
                   /\ mScheduledTick[m] = Root(mNodes)

\* cancel_clock_trigger(), also called by the destructor of a module.  The
\* program aborts when m is to be called in the tick being processed.
CancelTrigger(m) ==
    /\ exists
    /\ mScheduledTick[m] # NotScheduled
    /\ mScheduledTick[m] # mProcessingTickCount
    /\ IsLate(m) => LateCancel
    /\ mNodes' = NodesWithout(m)
    /\ mScheduledTick' = [mScheduledTick EXCEPT ![m] = NotScheduled]
    /\ IF CancelArms(m) THEN RefreshCache ELSE UNCHANGED cache
    /\ UNCHANGED <<kernel, parameters, existence, processing, ticks, called>>

\* get_tick_count()
ReadTickCount ==
    /\ exists
    /\ RefreshCache
    /\ UNCHANGED <<kernel, parameters, existence, requests, processing, ticks, called>>

\* check_at_tick() and get_next_tick_data(delay) leave a cache of their own.
ReadAtTick ==
    /\ exists
    /\ mLastTickTime # Invalid
    /\ RefreshCache
    /\ UNCHANGED <<kernel, parameters, existence, requests, processing, ticks, called>>

ReadNextTickData ==
    /\ exists
    /\ FillCache
    /\ UNCHANGED <<kernel, parameters, existence, requests, processing, ticks, called>>

-----------------------------------------------------------------------------
(* The clock tick method                                                   *)

\* The method has called nobody yet, or is not running.
NotCalled == [m \in Module |-> 0]

\* handle_clock_tick() of m is called: from here on m may request again.
Call(m) ==
    /\ mScheduledTick' = [mScheduledTick EXCEPT ![m] = NotScheduled]
    /\ called' = [called EXCEPT ![m] = @ + 1]

\* handle_tick1_trigger up to its first callback: the root is unlinked and
\* its tick becomes the remembered one.  Requests for one tick are called in
\* any order (the code calls the latest request first).
HandleTick1Trigger(m) ==
    /\ methodRunnable
    /\ DOMAIN mNodes # {}          \* assert(mRequestsRoot != 0)
    /\ LET root == Root(mNodes)
       IN  /\ m \in mNodes[root].mRequests
           /\ mCalls' = mNodes[root].mRequests \ {m}
           /\ mLastTickCount' = root
           /\ mProcessingTickCount' = root
           /\ mNodes' = [u \in DOMAIN mNodes \ {root} |-> mNodes[u]]
    /\ mLastTickTime' = now
    /\ methodRunnable' = FALSE
    /\ Call(m)
    /\ UNCHANGED <<now, simRunning, parameters, existence, ticks>>

\* The loop goes on: the previous callback has returned, m is called.
CallNext(m) ==
    /\ m \in mCalls
    /\ mCalls' = mCalls \ {m}
    /\ Call(m)
    /\ UNCHANGED <<kernel, parameters, existence, cache, mNodes,
                   mProcessingTickCount, ticks>>

\* Mutant: the new root is not armed.
FinishTick_ArmsNothing ==
    /\ mProcessingTickCount # NotProcessing
    /\ mCalls = {}
    /\ mProcessingTickCount' = NotProcessing
    /\ called' = NotCalled
    /\ UNCHANGED <<kernel, parameters, existence, cache, requests, mCalls, ticks>>

\* After the last callback the new root is armed, unless it still has the
\* trigger it got when it was the root before.
FinishTick ==
    /\ mProcessingTickCount # NotProcessing
    /\ mCalls = {}
    /\ mNodes' = IF NeedsTrigger(mNodes)
                 THEN ArmRoot(mNodes, [count |-> mProcessingTickCount,
                                       time  |-> now], mPeriod)
                 ELSE mNodes
    /\ mProcessingTickCount' = NotProcessing
    /\ called' = NotCalled
    /\ UNCHANGED <<kernel, parameters, existence, cache, mScheduledTick, mCalls,
                   ticks>>

-----------------------------------------------------------------------------
(* The clock and the kernel                                                *)

\* The constructor, called when the clock is first asked for its engine.
CreateEngine ==
    /\ ~exists
    /\ reconfigured => LateCreation
    /\ exists' = TRUE
    /\ reconfigured' = FALSE
    /\ UNCHANGED <<kernel, parameters, cache, requests, processing, ticks, called>>

\* Mutant: the ticks since the last cached one are lost.
Disable_LosesTicks ==
    IF mRunning
    THEN /\ mLastTickTime' = Invalid
         /\ mNodes' = WithoutTriggers(mNodes)
         /\ UNCHANGED mLastTickCount
    ELSE UNCHANGED <<cache, mNodes>>

\* update_parameters when the clock is switched off: the count is frozen and
\* no trigger is left.
Disable ==
    IF mRunning
    THEN /\ mLastTickCount' = GetTickCount
         /\ mLastTickTime' = Invalid
         /\ mNodes' = WithoutTriggers(mNodes)
    ELSE UNCHANGED <<cache, mNodes>>

\* update_parameters when the clock is switched on or its period or phase
\* changes: the count goes on from the offset and the root is armed for it.
Restart(period, offset) ==
    IF mRunning /\ period = mPeriod /\ offset = mOffset
    THEN RefreshCache /\ UNCHANGED mNodes
    ELSE LET count == IF mRunning THEN GetTickCount ELSE mLastTickCount
             nodes == WithoutTriggers(mNodes)
         IN  /\ mLastTickCount' = count
             /\ mLastTickTime' = Invalid
             /\ mNodes' = IF DOMAIN nodes = {} THEN nodes
                          ELSE ArmRoot(nodes, [count |-> count + 1,
                                               time  |-> offset], period)

\* engine::update calls notify_parameters_updated: in the update phase, after
\* the methods of the evaluation phase have run (or before the simulation).
\* The first tick of new parameters is always still to come
\* (get_next_parameters).
UpdateParameters(period, offset, running) ==
    /\ ~methodRunnable
    /\ mProcessingTickCount = NotProcessing
    /\ simRunning => IF running THEN offset > now ELSE offset = now
    /\ mPeriod' = period
    /\ mOffset' = offset
    /\ mRunning' = running
    /\ reconfigured' = (~exists /\ (reconfigured \/ simRunning))
    /\ IF ~exists THEN UNCHANGED <<cache, mNodes>>
       ELSE IF running THEN Restart(period, offset)
                       ELSE Disable
    /\ UNCHANGED <<kernel, exists, processing, mScheduledTick, ticks, called>>

\* The tick triggers notified for time x: the kernel makes their method
\* runnable when x is reached.
TriggeredAt(x) == \E u \in DOMAIN mNodes : mNodes[u].mEvent = x

\* Elaboration ends and the first evaluation phase starts.
StartSimulation ==
    /\ ~simRunning
    /\ simRunning' = TRUE
    /\ methodRunnable' = TriggeredAt(now)
    /\ ticks' = ticks + (IF IsTickTime(now) THEN 1 ELSE 0)
    /\ UNCHANGED <<now, parameters, existence, cache, requests, processing, called>>

\* Nothing is left to do at this time.
AdvanceTime ==
    /\ simRunning
    /\ ~methodRunnable
    /\ mProcessingTickCount = NotProcessing
    /\ now < EndOfSim
    /\ now' = now + 1
    /\ methodRunnable' = TriggeredAt(now')
    /\ ticks' = ticks + (IF IsTickTime(now') THEN 1 ELSE 0)
    /\ UNCHANGED <<simRunning, parameters, existence, cache, requests, processing,
                   called>>

-----------------------------------------------------------------------------
Init ==
    /\ now = 0
    /\ simRunning = FALSE
    /\ methodRunnable = FALSE
    /\ mPeriod \in Period
    /\ mOffset \in 0 .. MaxOffset
    /\ mRunning \in BOOLEAN
    /\ exists = FALSE
    /\ reconfigured = FALSE
    /\ mLastTickCount = 0
    /\ mLastTickTime = Invalid
    /\ mNodes = [u \in {} |-> {}]
    /\ mProcessingTickCount = NotProcessing
    /\ mCalls = {}
    /\ mScheduledTick = [m \in Module |-> NotScheduled]
    /\ ticks = 0
    /\ called = NotCalled

ModuleStep(m) ==
    \/ \E skip \in 0 .. MaxSkip : RequestTrigger(m, skip)
    \/ \E delay \in 0 .. MaxDelay : RequestTriggerAfter(m, delay)
    \/ CancelTrigger(m)

MethodStep ==
    \/ \E m \in Module : HandleTick1Trigger(m) \/ CallNext(m)
    \/ FinishTick

Next ==
    \/ \E m \in Module : ModuleStep(m)
    \/ ReadTickCount
    \/ ReadAtTick
    \/ ReadNextTickData
    \/ MethodStep
    \/ CreateEngine
    \/ \E period \in Period, offset \in now .. now + MaxOffset, running \in BOOLEAN :
          UpdateParameters(period, offset, running)
    \/ StartSimulation
    \/ AdvanceTime

Spec == Init /\ [][Next]_vars

\* The kernel runs every runnable method to its end, a method that was called
\* returns, and simulated time goes on while events are pending.
FairSpec ==
    /\ Spec
    /\ WF_vars(MethodStep)
    /\ WF_vars(StartSimulation)
    /\ WF_vars(AdvanceTime)

-----------------------------------------------------------------------------
(* Properties                                                              *)

TimeNode == [mRequests : (SUBSET Module) \ {{}},
             mTickTrigger : BOOLEAN, mEvent : Int]

\* Every variable has a value of its type; in particular no time node is
\* empty (cancel_clock_trigger_impl removes it with its last request).
TypeOK ==
    /\ now \in Time
    /\ simRunning \in BOOLEAN /\ methodRunnable \in BOOLEAN
    /\ mPeriod \in Period /\ mOffset \in Nat /\ mRunning \in BOOLEAN
    /\ exists \in BOOLEAN /\ reconfigured \in BOOLEAN
    /\ mLastTickCount \in Nat /\ mLastTickTime \in Nat \cup {Invalid}
    /\ DOMAIN mNodes \subseteq Nat
    /\ \A t \in DOMAIN mNodes : mNodes[t] \in TimeNode
    /\ mNodes = [t \in DOMAIN mNodes |-> mNodes[t]]
    /\ mProcessingTickCount \in Nat \cup {NotProcessing}
    /\ mCalls \in SUBSET Module
    /\ mScheduledTick \in [Module -> Nat \cup {NotScheduled}]
    /\ ticks \in Nat
    /\ called \in [Module -> Nat]

\* The tick a module believes to wait for and the list of requests agree: it
\* is in the node of that tick, or among the calls still to be made for it,
\* and nowhere else (mScheduledTick is the index by which cancellations find
\* their node, tick_callback_engine.cc:542-620).
RequestsAgree ==
    \A m \in Module :
        /\ \A t \in DOMAIN mNodes : m \in mNodes[t].mRequests <=> mScheduledTick[m] = t
        /\ m \in mCalls <=> /\ mScheduledTick[m] # NotScheduled
                            /\ mScheduledTick[m] = mProcessingTickCount
        /\ mScheduledTick[m] # NotScheduled =>
               m \in mCalls \/ mScheduledTick[m] \in DOMAIN mNodes

\* The number of tick times from time a to time b.
TicksIn(a, b) == Cardinality({x \in a .. b : IsTickTime(x)})

\* No lost wake-up: whenever user code may run, the first node of a running
\* clock has a trigger.  Requests, cancellations, callbacks and parameter
\* changes all change which node is the first, and while callbacks run none
\* of them arms it.
RootArmed == (Armable /\ DOMAIN mNodes # {}) => mNodes[Root(mNodes)].mTickTrigger

\* A trigger goes off in its own tick: exactly as many ticks happen until its
\* time as are missing to the tick of its node, however often the period, the
\* offset or the root changed since it was notified.  A trigger that is not
\* notified, so that its request is lost, belongs to a tick at the very end of
\* representable time.
TriggersOnTime ==
    \A t \in DOMAIN mNodes :
        LET x == mNodes[t].mEvent
        IN  IF x = Never
            THEN mNodes[t].mTickTrigger =>
                    ticks + TicksIn(now + 1, MaxSimTime - 2 * mPeriod) < t
            ELSE /\ x \in now .. MaxSimTime
                 /\ mNodes[t].mTickTrigger
                 /\ IsTickTime(x)
                 /\ IF simRunning THEN t = ticks + TicksIn(now + 1, x)
                                  ELSE t = TicksIn(0, x)

\* handle_tick1_trigger: assert(mRequestsRoot != 0).
MethodFindsANode == methodRunnable => DOMAIN mNodes # {}

\* What the engine says of ticks is what counting them one by one gives: the
\* number of ticks a platform that requested every single one would have seen
\* (scml_clock_if.h:51-79), across period changes and while the clock is off,
\* and while it is on the count after a delay, the time of a later tick, the
\* data of the next tick and whether this is the time of one.
TicksExact ==
    (exists /\ simRunning) =>
        /\ GetTickCount = ticks
        /\ mRunning =>
             /\ CheckAtTick <=> IsTickTime(now)
             /\ \A d \in 0 .. MaxDelay :
                   /\ GetTickCountAfter(d) = ticks + TicksIn(now + 1, now + d)
                   /\ LET next == GetNextTickData(d)
                      IN  /\ IsTickTime(next.time) /\ next.time > now + d
                          /\ next.count = ticks + TicksIn(now + 1, next.time)
             /\ \A k \in 0 .. MaxSkip :
                   /\ IsTickTime(GetTickTime(k))
                   /\ TicksIn(now + 1, GetTickTime(k)) = k + 1

\* get_tick_count(SC_ZERO_TIME) "is equal to get_tick_count()"
\* (scml_clock_if.h:63-66), at any time it may be called.
DelayZeroIsNow == exists => GetTickCountAfter(0) = GetTickCount

\* The detailed engine keeps the promises of the abstract service: every call
\* of a module (a step that counts up called) is made in exactly the tick that
\* the module last asked for and uses its request up, so that none is made
\* twice; a request is changed by its module only, for an earlier tick that is
\* still to come or taken back; and no tick passes with a request for it pending.
Service == INSTANCE TickService WITH count <- ticks, pending <- mScheduledTick,
                                     calls <- called
ServiceSpec == Service!ServiceSpec

\* A due request does not stay due: the callback of every module that waits
\* for the current tick is eventually made, whatever the other callbacks do.
DueIsServed ==
    \A m \in Module :
        (simRunning /\ ticks > 0 /\ mScheduledTick[m] = ticks)
            ~> mScheduledTick[m] \notin 0 .. ticks
=============================================================================
