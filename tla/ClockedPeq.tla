----------------------------- MODULE ClockedPeq -----------------------------
(***************************************************************************)
(* scml2::clocked_peq (src/scml2/clocked_peq.h) and the list behind it,    *)
(* clocked_peq_container_impl: payloads are pushed with the clock tick of  *)
(* their arrival, sorted by it, and become visible to the user in the tick *)
(* after.  The queue asks the tick service of its clock (TickService) for  *)
(* the tick in which its first payload becomes visible, or from which on   *)
(* it is unblocked, and calls back in that tick.                           *)
(*                                                                         *)
(* Which payload an iterator or remove(payload) removes is any visible     *)
(* one; payloads are told apart by the order in which they were pushed.    *)
(***************************************************************************)
EXTENDS Integers, SequencesExt

CONSTANTS
    Delay,          \* ticks from now of an arrival or of unblocking
    PastTicks,      \* how far in the past unblockAt is called
    MaxTicks,       \* bound: clock ticks
    MaxPushes       \* bound: payloads pushed

ASSUME PeqAssumption ==
    /\ Delay \subseteq Nat
    /\ PastTicks \subseteq Nat
    /\ MaxTicks \in Nat /\ MaxPushes \in Nat

VARIABLES
    tickCount,          \* get_clock()->get_tick_count()
    mScheduledTick,     \* clocked_module: the tick requested, or None
    inCallback,         \* handle_clock_tick has called the callback
    mEntries,           \* the list from mFirstEntry on
    mUnblockClockTick,  \* a tick, or Blocked (~0ull)
    aborted,            \* NotAborted, or the call that has aborted the program
    pushes,             \* history: payloads pushed
    cancelledDue        \* history: a request was cancelled in its own tick

vars == <<tickCount, mScheduledTick, inCallback, mEntries, mUnblockClockTick,
          aborted, pushes, cancelledDue>>

None    == -1
Blocked == -2

NotAborted == "not aborted"
InRequest  == "request_clock_trigger"
InCancel   == "cancel_clock_trigger"

-----------------------------------------------------------------------------
(* The list                                                                *)

\* The visible entries arrived in the past.
Visible(e) == e.tick < tickCount

HasMoreEvents == mEntries # <<>>

IsEmpty == HasMoreEvents => ~Visible(mEntries[1])

\* notifyAt: behind the last entry that does not arrive later.
Position(tick) ==
    1 + Cardinality({i \in DOMAIN mEntries :
                        \A j \in 1 .. i : mEntries[j].tick <= tick})

-----------------------------------------------------------------------------
(* The request of the next tick                                            *)

\* schedule_next_clock_trigger: the argument of request_clock_trigger.
TicksToSkip(entries, unblock) ==
    (IF entries[1].tick < unblock THEN unblock ELSE entries[1].tick) - tickCount

\* schedule_next_clock_trigger, with `request' pending: a request for a later
\* tick than the one pending is ignored, a negative argument aborts.
Schedule(entries, unblock, request) ==
    IF unblock = Blocked
    THEN mScheduledTick' = request /\ UNCHANGED aborted
    ELSE LET skip == TicksToSkip(entries, unblock)
             tick == tickCount + skip + 1
         IN  /\ aborted' = IF skip < 0 THEN InRequest ELSE aborted
             /\ mScheduledTick' = IF skip < 0 \/ (request # None /\ request <= tick)
                                  THEN request ELSE tick

NoSchedule(request) == mScheduledTick' = request /\ UNCHANGED aborted

Due == mScheduledTick = tickCount

\* cancel_clock_trigger when it does no harm.
Cancels == cancelledDue' = (cancelledDue \/ Due)

\* cancel_clock_trigger when the request is for this tick.  The program aborts
\* if callbacks of this tick are being made (tick_callback_engine.cc:532-537).
\* Before them the method of the tick can no longer be stopped: it fails at its
\* assertion (:347) or takes the node of a later tick for its own, and counts
\* as an abort, unless another module waits for this tick as well.
CancelAborts ==
    /\ Due
    /\ aborted' = InCancel
    /\ cancelledDue' = TRUE
    /\ UNCHANGED mScheduledTick

-----------------------------------------------------------------------------
(* The calls.  While inCallback they are made by the callback.             *)

\* notify and notifyAt
NotifyAt(tick) ==
    LET pos     == Position(tick)
        entries == InsertAt(mEntries, pos, [tick |-> tick, seq |-> pushes])
    IN  /\ aborted = NotAborted
        /\ pushes < MaxPushes
        /\ pushes' = pushes + 1
        /\ mEntries' = entries
        /\ IF pos = 1 THEN Schedule(entries, mUnblockClockTick, mScheduledTick)
           ELSE NoSchedule(mScheduledTick)
        /\ UNCHANGED <<tickCount, inCallback, mUnblockClockTick,
                       cancelledDue>>

\* get_next: no visible payload is left for the tick that was requested.
Reschedules(entries) ==
    /\ mScheduledTick # None
    /\ entries # <<>> => ~Visible(entries[1])

\* Mutant: the trigger is cancelled, but none is requested for what is left.
RescheduleNext_OnlyCancels(entries) ==
    Cancels /\ NoSchedule(None)

RescheduleNext(entries) ==
    \/ CancelAborts
    \/ /\ Cancels
       /\ IF entries # <<>> THEN Schedule(entries, mUnblockClockTick, None)
          ELSE NoSchedule(None)

\* get_next, whether there is a payload to return or not.
GetNext ==
    LET entries == IF IsEmpty THEN mEntries ELSE Tail(mEntries)
    IN  /\ aborted = NotAborted
        /\ mEntries' = entries
        /\ IF Reschedules(entries) THEN RescheduleNext(entries)
           ELSE NoSchedule(mScheduledTick) /\ UNCHANGED cancelledDue
        /\ UNCHANGED <<tickCount, inCallback, mUnblockClockTick, pushes>>

\* remove: the request stays as it is.
RemoveVisible(i) ==
    /\ aborted = NotAborted
    /\ i \in DOMAIN mEntries /\ Visible(mEntries[i])
    /\ mEntries' = RemoveAt(mEntries, i)
    /\ UNCHANGED <<tickCount, mScheduledTick, inCallback, mUnblockClockTick, aborted,
                   pushes, cancelledDue>>

\* block
Block ==
    /\ aborted = NotAborted
    /\ mUnblockClockTick' = Blocked
    /\ CancelAborts \/ (Cancels /\ NoSchedule(None))
    /\ UNCHANGED <<tickCount, inCallback, mEntries, pushes>>

\* unblock and unblockAt
UnblockAt(tick) ==
    /\ aborted = NotAborted
    /\ mUnblockClockTick' = tick
    /\ IF HasMoreEvents THEN Schedule(mEntries, tick, mScheduledTick)
       ELSE NoSchedule(mScheduledTick)
    /\ UNCHANGED <<tickCount, inCallback, mEntries, pushes, cancelledDue>>

-----------------------------------------------------------------------------
(* The tick                                                                *)

\* handle_clock_tick up to the callback; the request is gone by then.
HandleClockTick ==
    /\ aborted = NotAborted /\ ~inCallback
    /\ Due
    /\ inCallback' = TRUE
    /\ mScheduledTick' = None
    /\ UNCHANGED <<tickCount, mEntries, mUnblockClockTick, aborted, pushes,
                   cancelledDue>>

\* Mutant: what the callback left is not called back for again.
UnblockTick_Stale == mUnblockClockTick

\* The queue has been unblocked up to this tick.
UnblockTick == IF mUnblockClockTick # Blocked /\ mUnblockClockTick < tickCount
               THEN tickCount ELSE mUnblockClockTick

\* handle_clock_tick after the callback: what it has not taken is called back
\* for again in the next tick.
FinishCallback ==
    /\ aborted = NotAborted /\ inCallback
    /\ inCallback' = FALSE
    /\ mUnblockClockTick' = UnblockTick
    /\ IF HasMoreEvents THEN Schedule(mEntries, UnblockTick, mScheduledTick)
       ELSE NoSchedule(mScheduledTick)
    /\ UNCHANGED <<tickCount, mEntries, pushes, cancelledDue>>

\* The next tick, once the request for this one is served.
Tick ==
    /\ aborted = NotAborted /\ ~inCallback /\ ~Due
    /\ tickCount < MaxTicks
    /\ tickCount' = tickCount + 1
    /\ UNCHANGED <<mScheduledTick, inCallback, mEntries, mUnblockClockTick, aborted,
                   pushes, cancelledDue>>

-----------------------------------------------------------------------------
Init ==
    /\ tickCount = 0
    /\ mScheduledTick = None
    /\ inCallback = FALSE
    /\ mEntries = <<>>
    /\ mUnblockClockTick = 0
    /\ aborted = NotAborted
    /\ pushes = 0
    /\ cancelledDue = FALSE

\* The ticks a caller may name.
ArrivalTicks == {tickCount + d : d \in Delay}
UnblockTicks == ArrivalTicks \cup
                {tickCount - d : d \in {p \in PastTicks : p <= tickCount}}

Next ==
    \/ \E tick \in ArrivalTicks : NotifyAt(tick)
    \/ \E tick \in UnblockTicks : UnblockAt(tick)
    \/ GetNext
    \/ \E i \in DOMAIN mEntries : RemoveVisible(i)
    \/ Block
    \/ HandleClockTick
    \/ FinishCallback
    \/ Tick

Spec == Init /\ [][Next]_vars

-----------------------------------------------------------------------------
(* Properties                                                              *)

\* Every variable has a value of its type; requests are for no past tick and
\* no later than an argument of a call allows.
TypeOK ==
    /\ tickCount \in 0 .. MaxTicks
    /\ mScheduledTick = None
       \/ mScheduledTick \in tickCount .. tickCount + 1 + Max(Delay)
    /\ mEntries \in Seq([tick : Nat, seq : Nat])
    /\ mUnblockClockTick \in Nat \cup {Blocked}
    /\ {inCallback, cancelledDue} \subseteq BOOLEAN
    /\ aborted \in {NotAborted, InRequest, InCancel}
    /\ pushes \in 0 .. MaxPushes

\* The list is sorted by arrival, payloads of one tick in the order in which
\* they were pushed, whatever was pushed out of order and taken meanwhile.
Sorted ==
    \A i, j \in DOMAIN mEntries : i < j =>
        \/ mEntries[i].tick < mEntries[j].tick
        \/ mEntries[i].tick = mEntries[j].tick /\ mEntries[i].seq < mEntries[j].seq

\* No wake-up is lost: as long as there are payloads and the queue is not
\* blocked a callback is requested that is still to come, for no later than the
\* tick in which the first payload is visible and the queue unblocked.
NoLostWakeup ==
    (HasMoreEvents /\ mUnblockClockTick # Blocked /\ ~inCallback
     /\ aborted = NotAborted) =>
        /\ mScheduledTick >= tickCount
        /\ \/ mScheduledTick <= mEntries[1].tick + 1
           \/ mScheduledTick <= mUnblockClockTick + 1
           \/ mScheduledTick <= tickCount + 1

\* Calls that name no past tick never make the queue request one: the number of
\* ticks to skip that it computes from the arrival of its first payload and the
\* tick of unblocking, which may both have passed, is not negative, so that
\* request_trigger does not abort (tick_callback_engine.cc:398-402).  The abort
\* of cancel_clock_trigger is another matter (DueIsNeverCancelled).
RequestsNeverAbort == aborted # InRequest

\* The queue never cancels the request of the tick in progress, the method of
\* which can no longer be stopped.  False of get_next and block, and then the
\* program may abort.
DueIsNeverCancelled == ~cancelledDue
=============================================================================
