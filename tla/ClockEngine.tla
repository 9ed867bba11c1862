---------------------------- MODULE ClockEngine ----------------------------
(***************************************************************************)
(* The clock signal of scml_clocks (src/scml_clock/engine.cc) and its      *)
(* configurators: a clock is either a source (master_configurator.cc) or   *)
(* derived from a parent clock by a period multiplier                      *)
(* (divider_configurator.cc; a clock gate is a divider by 1 that is        *)
(* enabled and disabled, gate.cc).                                         *)
(*                                                                         *)
(* Parameters are changed in the evaluation phase of the SystemC kernel by *)
(* any process; they become active in an update phase, where each clock    *)
(* asks its configurator for the next parameters.  An edge that starts a   *)
(* period is never dropped: a change that comes together with one waits    *)
(* for the next delta cycle.  The model starts with the simulation         *)
(* (start_of_simulation has been called); edges are always generated       *)
(* (turn_engine_on = true).                                                *)
(***************************************************************************)
EXTENDS Integers, FiniteSets

CONSTANTS
    Clock,          \* the clocks
    Parent,         \* the parent of each divider, NoClock for a source
    NoClock,
    Inverted,       \* the clocks that start with a negative edge
    StartMultiplier,\* start_multiplier of the dividers
    Period,         \* the periods a source may be given (at least 2)
    Multiplier,     \* the period multipliers a divider may be given
    RoundedDown,    \* <<q, m>>: in double, q / m * m is just below q
    MaxOffset,      \* bound: start time of a source
    EndOfSim,       \* bound: simulated time
    MaxChanges      \* bound: parameter changes in the simulation

Sources  == {c \in Clock : Parent[c] = NoClock}
Dividers == Clock \ Sources

ASSUME ClockAssumption ==
    /\ NoClock \notin Clock
    /\ Parent \in [Clock -> Clock \cup {NoClock}]
    /\ IsFiniteSet(Clock)   \* and no clock is derived from itself
    /\ \E rank \in [Clock -> 0 .. Cardinality(Clock)] :
          \A c \in Clock : Parent[c] # NoClock => rank[Parent[c]] < rank[c]
    /\ Inverted \subseteq Clock
    /\ StartMultiplier \in [Clock -> Nat]
    /\ Period \subseteq Nat \ {0, 1}
    /\ Multiplier \subseteq Nat \ {0}
    /\ MaxOffset \in Nat /\ EndOfSim \in Nat /\ MaxChanges \in Nat

\* Arithmetic in double loses a period only of several: <<15, 22>> is the
\* smallest such pair, <<1, 49>> is another one.
ASSUME RoundingAssumption ==
    \A pair \in RoundedDown :
        pair \in Nat \X Nat /\ 0 < pair[1] /\ pair[1] < pair[2]

\* No number of periods of a multiplier is rounded down.
Exact(m) == \A pair \in RoundedDown : pair[2] # m

VARIABLES
    now,            \* kernel: sc_time_stamp()
    updating,       \* kernel: in the update phase
    runnable,       \* kernel: clocks whose edge method is runnable
    updates,        \* kernel: clocks that requested an update
    edgeTime,       \* mNextEdgeEvent: time it is notified for, or Never
    edgeNextDelta,  \* mNextEdgeEvent: clocks that notified it for the next delta
    m_cur_val, m_new_val,
    mPeriod, mOffset, mRunning,     \* active parameters of the engines
    mEngineActive, mParametersChanged, mClockCountOffset,
    cEnabled,       \* configurator: mEnabled
    cPeriod,        \* master_configurator: mPeriod
    cOffset,        \* master_configurator: mOffset
    cMultiplier,    \* divider_configurator: mPeriodMultiplier
    mEngineEnabled, mCurrentPeriodMultiplier, mRemainingMasterPeriods,
    changes,        \* history: parameter changes so far
    ticked,         \* history: clocks that started a period at this time
    ticks,          \* history: periods each clock has started
    since,          \* history: periods the parent started since the divider did
    steady,         \* history: dividers without a change of their own since
    touched         \* history: dividers changed themselves at this time

kernel == <<now, updating>>
engineState == <<m_cur_val, m_new_val, mPeriod, mOffset, mRunning, mEngineActive,
                 mClockCountOffset>>
settings == <<cEnabled, cPeriod, cOffset, cMultiplier>>
alignment == <<mEngineEnabled, mCurrentPeriodMultiplier, mRemainingMasterPeriods>>
dividerHistory == <<since, steady, touched>>
vars == <<kernel, runnable, updates, edgeTime, edgeNextDelta, engineState,
          mParametersChanged, settings, alignment, changes, ticked, ticks,
          dividerHistory>>

Never   == -1
Unknown == -1   \* mRemainingMasterPeriods is yet to be computed

-----------------------------------------------------------------------------
(* The tree of clocks                                                      *)

\* A clock and the clocks it is derived from.
Ancestors[c \in Clock] ==
    {c} \cup IF Parent[c] = NoClock THEN {} ELSE Ancestors[Parent[c]]

Descendants(c) == {d \in Clock : c \in Ancestors[d]}

\* divider_configurator::is_running, master_configurator::is_running
ConfiguredRunning(c) == \A a \in Ancestors[c] : cEnabled[a]

\* configurator::get_period
ConfiguredPeriod[c \in Clock] ==
    IF Parent[c] = NoClock THEN cPeriod[c]
    ELSE cMultiplier[c] * ConfiguredPeriod[Parent[c]]

\* Time between the edge that starts a period and the one in its middle.
FirstHalf(c) == mPeriod[c] \div 2

-----------------------------------------------------------------------------
(* What the engine and the configurators compute                           *)

\* get_next_edge_offset(get_posedge_first()): time to the next period.
NextPeriodOffset(c) ==
    IF now < mOffset[c] THEN mOffset[c] - now
    ELSE mPeriod[c] - ((now - mOffset[c]) % mPeriod[c])

\* get_clock_count
GetClockCount(c) ==
    IF ~mRunning[c] \/ now < mOffset[c] THEN mClockCountOffset[c]
    ELSE mClockCountOffset[c] + (now - mOffset[c]) \div mPeriod[c] + 1

\* get_next_period_start_time
NextPeriodStart[c \in Clock] ==
    IF Parent[c] = NoClock
    THEN IF now < cOffset[c] THEN cOffset[c]
         ELSE now - ((now - cOffset[c]) % cPeriod[c]) + cPeriod[c]
    ELSE IF ~mParametersChanged[c] THEN now + NextPeriodOffset(c)
    ELSE NextPeriodStart[Parent[c]] +
           (IF mRemainingMasterPeriods[c] > 0
            THEN mRemainingMasterPeriods[c] * ConfiguredPeriod[Parent[c]] ELSE 0)

\* Mutant: the periods are rounded to the next number.
ConsumedMasterTicks_RoundedUp(consumed, m, period) ==
    IF (consumed * m) % period = 0 THEN (consumed * m) \div period
    ELSE (consumed * m) \div period + 1

\* get_next_parameters: (int)(consumed / (double)period * m), the parent periods
\* that have passed.  The product of doubles is truncated: a whole number of
\* periods is one too few when it is represented by a double just below it.
ConsumedMasterTicks(consumed, m, period) ==
    LET q == (consumed * m) \div period
    IN  IF (consumed * m) % period = 0 /\ <<q, m>> \in RoundedDown THEN q - 1 ELSE q

\* get_next_parameters: parent periods to skip before the first new one.  When
\* the next period is more than a period away the subtraction of the code
\* wraps and its cast to int overflows: the result is not positive.
RemainingPeriods(c) ==
    IF mRunning[c] /\ mRemainingMasterPeriods[c] = Unknown
    THEN IF NextPeriodOffset(c) > mPeriod[c] THEN 0
         ELSE mCurrentPeriodMultiplier[c] - 1
                - ConsumedMasterTicks(mPeriod[c] - NextPeriodOffset(c),
                                      mCurrentPeriodMultiplier[c], mPeriod[c])
    ELSE mRemainingMasterPeriods[c]

\* get_next_parameters: the start of the first period.
NextOffset(c) ==
    IF ~ConfiguredRunning(c) THEN (IF c \in Sources THEN cOffset[c] ELSE now)
    ELSE IF c \in Sources THEN cOffset[c]
    ELSE NextPeriodStart[Parent[c]] +
           (IF RemainingPeriods(c) > 0
            THEN RemainingPeriods(c) * ConfiguredPeriod[Parent[c]] ELSE 0)

-----------------------------------------------------------------------------
(* Changing parameters                                                     *)

\* Mutant: the children are not told.
ParametersChanged_NotChildren(c) ==
    /\ mParametersChanged' = [mParametersChanged EXCEPT ![c] = TRUE]
    /\ updates' = updates \cup {c}

\* handle_parameters_changed, notify_childen and trigger_parameter_change.
ParametersChanged(c) ==
    /\ mParametersChanged' =
          [d \in Clock |-> mParametersChanged[d] \/ d \in Descendants(c)]
    /\ updates' = updates \cup {d \in Descendants(c) : ~mParametersChanged[d]}

\* A process calls a setter of clock c, in the evaluation phase.
Setter(c) ==
    /\ ~updating
    /\ changes < MaxChanges
    /\ changes' = changes + 1
    /\ ParametersChanged(c)
    /\ UNCHANGED <<kernel, runnable, edgeTime, edgeNextDelta, engineState,
                   mEngineEnabled, mCurrentPeriodMultiplier, ticked, ticks, since>>

\* Mutant: an enabled clock starts a period at once.
RestartTime_AtOnce(enabled, period) == now

\* The next period of a source that is changed starts one period from now.
RestartTime(enabled, period) == now + IF enabled THEN period ELSE 0

\* master_configurator::handle_parameters_changed
SourceChanged(c, enabled, period) ==
    /\ Setter(c)
    /\ cEnabled' = [cEnabled EXCEPT ![c] = enabled]
    /\ cPeriod' = [cPeriod EXCEPT ![c] = period]
    /\ cOffset' = [cOffset EXCEPT ![c] = RestartTime(enabled, period)]
    /\ UNCHANGED <<cMultiplier, mRemainingMasterPeriods, steady, touched>>

\* A divider changes: it skips the rest of a full period, or starts at once
\* if it was disabled.
DividerChanged(c, enabled, multiplier) ==
    /\ Setter(c)
    /\ cEnabled' = [cEnabled EXCEPT ![c] = enabled]
    /\ cMultiplier' = [cMultiplier EXCEPT ![c] = multiplier]
    /\ mRemainingMasterPeriods' = [mRemainingMasterPeriods EXCEPT
          ![c] = IF mEngineEnabled[c] THEN multiplier - 1 ELSE 0]
    /\ steady' = steady \ {c}
    /\ touched' = touched \cup {c}
    /\ UNCHANGED <<cPeriod, cOffset>>

SetPeriod(c, period) == c \in Sources /\ SourceChanged(c, cEnabled[c], period)

SetPeriodMultiplier(c, m) == c \in Dividers /\ DividerChanged(c, cEnabled[c], m)

\* The duty cycle itself is abstracted; setting it restarts the clock.
SetDutyCycle(c) ==
    \/ c \in Sources /\ SourceChanged(c, cEnabled[c], cPeriod[c])
    \/ c \in Dividers /\ DividerChanged(c, cEnabled[c], cMultiplier[c])

SetEnabled(c, enabled) ==
    \/ c \in Sources /\ SourceChanged(c, enabled, cPeriod[c])
    \/ c \in Dividers /\ DividerChanged(c, enabled, cMultiplier[c])

-----------------------------------------------------------------------------
(* Edges                                                                   *)

\* handle_edge
HandleEdge(c) ==
    /\ ~updating
    /\ c \in runnable
    /\ runnable' = runnable \ {c}
    /\ updates' = updates \cup {c}
    /\ IF mEngineActive[c]
       THEN /\ m_new_val' = [m_new_val EXCEPT ![c] = ~m_cur_val[c]]
            /\ UNCHANGED mEngineActive
       ELSE IF mRunning[c] /\ now = mOffset[c]
       THEN /\ m_new_val' = [m_new_val EXCEPT ![c] = c \notin Inverted]
            /\ mEngineActive' = [mEngineActive EXCEPT ![c] = TRUE]
       ELSE UNCHANGED <<m_new_val, mEngineActive>>
    /\ UNCHANGED <<kernel, edgeTime, edgeNextDelta, m_cur_val, mPeriod, mOffset,
                   mRunning, mClockCountOffset, mParametersChanged, settings,
                   alignment, changes, ticked, ticks, dividerHistory>>

AtEdge(c) == m_new_val[c] # m_cur_val[c]

\* The edge that starts a period: to the level the clock does not idle at.
AtFirstEdge(c) == AtEdge(c) /\ m_new_val[c] = (c \notin Inverted)

\* Mutant: a change drops the edge that starts a period.
ParametersDue_DropsFirstEdge(c) == mParametersChanged[c]

\* The new parameters become active, unless a period starts.
ParametersDue(c) == mParametersChanged[c] /\ ~AtFirstEdge(c)

CountAtUpdate(c) == GetClockCount(c)

\* Mutant: the edge that was notified is not cancelled.
EdgeAfterUpdate_Kept(c) ==
    IF ConfiguredRunning(c) THEN NextOffset(c) ELSE edgeTime[c]

EdgeAfterUpdate(c) == IF ConfiguredRunning(c) THEN NextOffset(c) ELSE Never

\* engine::update, new parameters: the signal is forced to low.
UpdateParameters(c) ==
    /\ updating
    /\ c \in updates
    /\ ParametersDue(c)
    /\ updates' = updates \ {c}
    /\ mParametersChanged' = [mParametersChanged EXCEPT ![c] = FALSE]
    /\ mClockCountOffset' = [mClockCountOffset EXCEPT ![c] = CountAtUpdate(c)]
    /\ mRunning' = [mRunning EXCEPT ![c] = ConfiguredRunning(c)]
    /\ mPeriod' = [mPeriod EXCEPT ![c] = ConfiguredPeriod[c]]
    /\ mOffset' = [mOffset EXCEPT ![c] = NextOffset(c)]
    /\ mRemainingMasterPeriods' = [mRemainingMasterPeriods EXCEPT
          ![c] = IF ConfiguredRunning(c) \/ c \in Sources THEN Unknown
                 ELSE RemainingPeriods(c)]
    /\ mEngineEnabled' = [mEngineEnabled EXCEPT ![c] = cEnabled[c]]
    /\ mCurrentPeriodMultiplier' =
          [mCurrentPeriodMultiplier EXCEPT ![c] = cMultiplier[c]]
    /\ mEngineActive' = [mEngineActive EXCEPT ![c] = FALSE]
    /\ m_new_val' = [m_new_val EXCEPT ![c] = IF m_cur_val[c] THEN FALSE ELSE @]
    /\ m_cur_val' = [m_cur_val EXCEPT ![c] = FALSE]
    /\ edgeTime' = [edgeTime EXCEPT ![c] = EdgeAfterUpdate(c)]
    /\ UNCHANGED <<kernel, runnable, edgeNextDelta, settings, changes, ticked, ticks,
                   dividerHistory>>

\* Mutant: the halves of the period are swapped.
TimeToNextEdge_Swapped(c) ==
    IF AtFirstEdge(c) THEN mPeriod[c] - FirstHalf(c) ELSE FirstHalf(c)

TimeToNextEdge(c) ==
    IF AtFirstEdge(c) THEN FirstHalf(c) ELSE mPeriod[c] - FirstHalf(c)

\* engine::update, an edge (assert(at_edge), assert(mRunning)).  With a change
\* waiting the edge method runs again in the next delta cycle.
UpdateEdge(c) ==
    /\ updating
    /\ c \in updates
    /\ ~ParametersDue(c)
    /\ AtEdge(c) /\ mRunning[c]
    /\ updates' = updates \ {c}
    /\ m_cur_val' = [m_cur_val EXCEPT ![c] = m_new_val[c]]
    /\ IF mParametersChanged[c]
       THEN /\ edgeNextDelta' = edgeNextDelta \cup {c}
            /\ UNCHANGED edgeTime
       ELSE /\ edgeTime' = [edgeTime EXCEPT ![c] = now + TimeToNextEdge(c)]
            /\ UNCHANGED edgeNextDelta
    /\ IF AtFirstEdge(c)
       THEN /\ ticks' = [ticks EXCEPT ![c] = @ + 1]
            /\ ticked' = ticked \cup {c}
       ELSE UNCHANGED <<ticks, ticked>>
    /\ UNCHANGED <<kernel, runnable, m_new_val, mPeriod, mOffset, mRunning,
                   mEngineActive, mClockCountOffset, mParametersChanged, settings,
                   alignment, changes, dividerHistory>>

-----------------------------------------------------------------------------
(* The kernel                                                              *)

StartUpdatePhase ==
    /\ ~updating
    /\ runnable = {}
    /\ updates # {}
    /\ updating' = TRUE
    /\ UNCHANGED <<now, runnable, updates, edgeTime, edgeNextDelta, engineState,
                   mParametersChanged, settings, alignment, changes, ticked, ticks,
                   dividerHistory>>

NextDelta ==
    /\ updating
    /\ updates = {}
    /\ updating' = FALSE
    /\ runnable' = edgeNextDelta
    /\ edgeNextDelta' = {}
    /\ UNCHANGED <<now, updates, edgeTime, engineState, mParametersChanged, settings,
                   alignment, changes, ticked, ticks, dividerHistory>>

Quiet == ~updating /\ runnable = {} /\ updates = {}

\* The periods the parent of divider d has started since the divider did,
\* once everything has happened at this time.
ParentTicks(d) == since[d] + IF Parent[d] \in ticked THEN 1 ELSE 0

AdvanceTime ==
    /\ Quiet
    /\ now < EndOfSim
    /\ now' = now + 1
    /\ runnable' = {c \in Clock : edgeTime[c] = now'}
    /\ edgeTime' = [c \in Clock |-> IF edgeTime[c] = now' THEN Never ELSE edgeTime[c]]
    /\ ticked' = {}
    /\ since' = [d \in Dividers |-> IF d \in ticked THEN 0 ELSE ParentTicks(d)]
    /\ steady' = steady \cup ((ticked \cap Dividers) \ touched)
    /\ touched' = {}
    /\ UNCHANGED <<updating, updates, edgeNextDelta, engineState, mParametersChanged,
                   settings, alignment, changes, ticks>>

-----------------------------------------------------------------------------
\* configurator::get_offset, used only before the simulation.
ConfiguredOffset[c \in Clock] ==
    IF Parent[c] = NoClock THEN cOffset[c]
    ELSE ConfiguredOffset[Parent[c]]
           + StartMultiplier[c] * ConfiguredPeriod[Parent[c]]

\* The clocks were constructed and configured during elaboration
\* (engine::init) and the simulation has started (handle_start_of_simulation).
Init ==
    /\ now = 0
    /\ updating = FALSE
    /\ updates = {}
    /\ edgeNextDelta = {}
    /\ cEnabled \in [Clock -> BOOLEAN]
    /\ cPeriod \in [Sources -> Period]
    /\ cOffset \in [Sources -> 0 .. MaxOffset]
    /\ cMultiplier \in {f \in [Clock -> Multiplier \cup {1}] :
                           \A c \in Clock : IF c \in Sources THEN f[c] = 1
                                           ELSE f[c] \in Multiplier}
    /\ mRunning = [c \in Clock |-> ConfiguredRunning(c)]
    /\ mPeriod = ConfiguredPeriod
    /\ mOffset = ConfiguredOffset
    /\ runnable = {c \in Clock : mRunning[c] /\ mOffset[c] = 0}
    /\ edgeTime = [c \in Clock |-> IF mRunning[c] /\ mOffset[c] > 0
                                   THEN mOffset[c] ELSE Never]
    /\ m_cur_val = [c \in Clock |-> mRunning[c] /\ c \in Inverted]
    /\ m_new_val = [c \in Clock |-> FALSE]
    /\ mEngineActive = [c \in Clock |-> FALSE]
    /\ mParametersChanged = [c \in Clock |-> FALSE]
    /\ mClockCountOffset = [c \in Clock |-> 0]
    /\ mEngineEnabled = cEnabled
    /\ mCurrentPeriodMultiplier = cMultiplier
    /\ mRemainingMasterPeriods = [c \in Clock |-> Unknown]
    /\ changes = 0
    /\ ticked = {}
    /\ ticks = [c \in Clock |-> 0]
    /\ since = [d \in Dividers |-> 0]
    /\ steady = {}
    /\ touched = {}

ClockStep(c) ==
    \/ \E period \in Period : SetPeriod(c, period)
    \/ \E m \in Multiplier : SetPeriodMultiplier(c, m)
    \/ SetDutyCycle(c)
    \/ \E enabled \in BOOLEAN : SetEnabled(c, enabled)
    \/ HandleEdge(c)
    \/ UpdateParameters(c)
    \/ UpdateEdge(c)

Next ==
    \/ \E c \in Clock : ClockStep(c)
    \/ StartUpdatePhase
    \/ NextDelta
    \/ AdvanceTime

Spec == Init /\ [][Next]_vars

-----------------------------------------------------------------------------
(* Properties                                                              *)

\* Every variable has a value of its type.
TypeOK ==
    /\ now \in 0 .. EndOfSim /\ updating \in BOOLEAN
    /\ runnable \subseteq Clock /\ updates \subseteq Clock
    /\ edgeNextDelta \subseteq Clock /\ edgeTime \in [Clock -> Nat \cup {Never}]
    /\ {m_cur_val, m_new_val, mRunning, mEngineActive, mParametersChanged,
        cEnabled, mEngineEnabled} \subseteq [Clock -> BOOLEAN]
    /\ {mPeriod, mOffset, mClockCountOffset, cMultiplier,
        mCurrentPeriodMultiplier, ticks} \subseteq [Clock -> Nat]
    /\ mRemainingMasterPeriods \in [Clock -> Nat \cup {Unknown}]
    /\ cPeriod \in [Sources -> Period] /\ cOffset \in [Sources -> Nat]
    /\ changes \in 0 .. MaxChanges /\ ticked \subseteq Clock
    /\ since \in [Dividers -> Nat] /\ steady \cup touched \subseteq Dividers

\* Each update that is not a parameter change has an edge to drive, of a
\* clock that runs: assert(at_edge) and assert(mRunning) in engine::update.
UpdateHasAnEdge ==
    \A c \in updates : (updating /\ ~ParametersDue(c)) => AtEdge(c) /\ mRunning[c]

\* Between the instants at which something happens the signal is what the
\* active parameters say: the level of the first half or of the second half
\* of the current period, and the idle level of the clock ("0 for a normal
\* clock, and 1 for an inverted clock") before the first period and while it
\* does not run.  get_clock_count() is the number of periods the signal has
\* started, through all changes of parameters.
SignalShape ==
    Quiet => \A c \in Clock :
        LET high == mRunning[c] /\ now >= mOffset[c]
                       /\ (now - mOffset[c]) % mPeriod[c] < FirstHalf(c)
        IN  m_cur_val[c] = (high # (c \in Inverted)) /\ GetClockCount(c) = ticks[c]

\* A divider starts a period only together with its parent and, as long as it
\* is not changed itself, never before the multiplier-th one, however often the
\* period of the parent changes or the parent is stopped.  It is on exactly
\* every multiplier-th one if the arithmetic of get_next_parameters, in double,
\* is exact for its multiplier; with another one it may be later.
DividersAligned ==
    Quiet => \A d \in Dividers :
        /\ d \in ticked => Parent[d] \in ticked
        /\ d \in steady /\ d \in ticked => ParentTicks(d) >= cMultiplier[d]
        /\ d \in steady /\ Exact(cMultiplier[d]) =>
               /\ ParentTicks(d) <= cMultiplier[d]
               /\ d \in ticked <=> ParentTicks(d) = cMultiplier[d]

\* The same with the arithmetic that get_next_parameters means to do.  It is
\* false of the code for a multiplier that is not Exact.
DividersExactlyAligned ==
    Quiet => \A d \in steady :
        ParentTicks(d) <= cMultiplier[d] /\ (d \in ticked <=> ParentTicks(d) = cMultiplier[d])

\* A clock that is switched off idles: "When an scml_clock is disabled, the
\* output is 0 for a normal clock, and 1 for an inverted clock".
IdleLevel ==
    Quiet => \A c \in Clock : ~mRunning[c] => m_cur_val[c] = (c \in Inverted)

\* A clock derived with multiplier 1 (and start multiplier 0) is a local
\* mirror of its parent: it starts every period the parent starts, once it
\* has started one itself.
MirrorsItsParent ==
    Quiet => \A d \in steady :
        cMultiplier[d] = 1 => (d \in ticked <=> Parent[d] \in ticked)

\* New parameters of a running clock start in the future, and a clock stops
\* at once: what the tick callback engine relies on in update_parameters.
NewParametersStartAhead ==
    [][\A c \in Clock :
         (mParametersChanged[c] /\ ~mParametersChanged'[c]) =>
             IF mRunning'[c] THEN mOffset'[c] > now ELSE mOffset'[c] = now]_vars
=============================================================================
