-------------------------- MODULE ClockedPeqProofs --------------------------
(***************************************************************************)
(* Theorems about ClockedPeq, for any delays, ticks and number of payloads:*)
(* no wake-up is lost, a queue that is told of no tick in the past asks    *)
(* for none, and the payloads stay in order.                               *)
(***************************************************************************)
EXTENDS ClockedPeq, SequenceTheorems, FiniteSetTheorems, WellFoundedInduction, TLAPS

Entries == [tick : Nat, seq : Nat]
Aborts  == {NotAborted, InRequest, InCancel}

\* What the variables hold; a request is for no tick in the past.
PeqType ==
    /\ tickCount \in Nat /\ pushes \in Nat
    /\ mScheduledTick \in Int
    /\ mScheduledTick # None => mScheduledTick >= tickCount
    /\ mEntries \in Seq(Entries)
    /\ mUnblockClockTick \in Nat \cup {Blocked}
    /\ inCallback \in BOOLEAN /\ aborted \in Aborts /\ cancelledDue \in BOOLEAN

\* The inductive invariant.
IInv == PeqType /\ NoLostWakeup

USE PeqAssumption DEF None, Blocked

-----------------------------------------------------------------------------
\* A new payload goes to a position of the list, or behind it; it becomes the
\* first one only if the first one arrives later (notifyAt).
LEMMA PositionInList ==
    ASSUME PeqType, NEW tick \in Nat
    PROVE  /\ Position(tick) \in 1 .. Len(mEntries) + 1
           /\ Position(tick) = 1 \/ mEntries # <<>>
           /\ (mEntries # <<>> /\ mEntries[1].tick <= tick) => Position(tick) # 1
<1> DEFINE S == {i \in DOMAIN mEntries : \A j \in 1 .. i : mEntries[j].tick <= tick}
<1>1. DOMAIN mEntries = 1 .. Len(mEntries) /\ Len(mEntries) \in Nat
  BY DEF PeqType
<1>2. IsFiniteSet(1 .. Len(mEntries)) /\ Cardinality(1 .. Len(mEntries)) = Len(mEntries)
  BY <1>1, FS_Interval
<1>3. IsFiniteSet(S) /\ Cardinality(S) \in Nat /\ Cardinality(S) <= Len(mEntries)
  BY <1>1, <1>2, FS_Subset, FS_CardinalityType
<1>4. Cardinality(S) = 0 <=> S = {}
  BY <1>3, FS_EmptySet
<1>5. Position(tick) = 1 + Cardinality(S)
  BY DEF Position
<1>6. ASSUME mEntries # <<>>, mEntries[1].tick <= tick PROVE S # {}
  <2>1. 1 \in DOMAIN mEntries
    BY <1>1, <1>6 DEF PeqType
  <2>2. \A j \in 1 .. 1 : mEntries[j].tick <= tick
    BY <1>6
  <2>. QED
    BY <2>1, <2>2
<1>7. mEntries = <<>> => Len(mEntries) = 0
  OBVIOUS
<1>. HIDE DEF S
<1>. QED
  BY <1>1, <1>3, <1>4, <1>5, <1>6, <1>7

\* InsertAt puts the payload at its place and moves those behind it.
LEMMA Inserted ==
    ASSUME NEW S, NEW s \in Seq(S), NEW pos \in 1 .. Len(s) + 1, NEW e \in S
    PROVE  /\ InsertAt(s, pos, e) \in Seq(S)
           /\ Len(InsertAt(s, pos, e)) = Len(s) + 1
           /\ \A i \in 1 .. Len(s) + 1 :
                InsertAt(s, pos, e)[i] = IF i < pos THEN s[i]
                                         ELSE IF i = pos THEN e ELSE s[i - 1]
<1>. DEFINE l == SubSeq(s, 1, pos - 1)
            r == SubSeq(s, pos, Len(s))
<1>1. Len(s) \in Nat /\ \A i \in 1 .. Len(s) : s[i] \in S
  BY LenProperties, ElementOfSeq
<1>2. /\ l \in Seq(S) /\ Len(l) = pos - 1
      /\ \A i \in 1 .. pos - 1 : l[i] = s[i]
  <2>1. \A i \in 1 .. pos - 1 : s[i] \in S
    BY <1>1
  <2>. QED
    BY <1>1, <2>1, SubSeqProperties
<1>3. /\ r \in Seq(S) /\ Len(r) = Len(s) - pos + 1
      /\ \A i \in 1 .. Len(s) - pos + 1 : r[i] = s[pos + i - 1]
  <2>1. \A i \in pos .. Len(s) : s[i] \in S
    BY <1>1
  <2>. QED
    BY <1>1, <2>1, SubSeqProperties
<1>4. <<e>> \in Seq(S) /\ Len(<<e>>) = 1 /\ <<e>>[1] = e
  OBVIOUS
<1>5. InsertAt(s, pos, e) = l \o <<e>> \o r
  BY DEF InsertAt
<1>. HIDE DEF l, r
<1>6. /\ l \o <<e>> \in Seq(S) /\ Len(l \o <<e>>) = pos
      /\ \A i \in 1 .. pos : (l \o <<e>>)[i] = IF i <= pos - 1 THEN l[i] ELSE <<e>>[i - (pos - 1)]
  BY <1>1, <1>2, <1>4, ConcatProperties
<1>7. /\ l \o <<e>> \o r \in Seq(S)
      /\ Len(l \o <<e>> \o r) = Len(s) + 1
      /\ \A i \in 1 .. Len(s) + 1 :
            (l \o <<e>> \o r)[i] = IF i <= pos THEN (l \o <<e>>)[i] ELSE r[i - pos]
  <2>. DEFINE p == l \o <<e>>
  <2>1. p \in Seq(S) /\ Len(p) = pos
    BY <1>6
  <2>. HIDE DEF p
  <2>2. /\ p \o r \in Seq(S) /\ Len(p \o r) = Len(p) + Len(r)
        /\ \A i \in 1 .. Len(p) + Len(r) :
              (p \o r)[i] = IF i <= Len(p) THEN p[i] ELSE r[i - Len(p)]
    BY <1>3, <2>1, ConcatProperties
  <2>3. Len(p) + Len(r) = Len(s) + 1
    BY <1>1, <1>3, <2>1
  <2>. QED
    BY <2>1, <2>2, <2>3 DEF p
<1>8. ASSUME NEW i \in 1 .. Len(s) + 1
      PROVE  InsertAt(s, pos, e)[i] = IF i < pos THEN s[i]
                                      ELSE IF i = pos THEN e ELSE s[i - 1]
  <2>1. CASE i < pos
    <3>1. i \in 1 .. pos - 1 /\ i \in 1 .. pos
      BY <1>1, <2>1
    <3>. QED
      BY <1>2, <1>5, <1>6, <1>7, <2>1, <3>1
  <2>2. CASE i = pos
    <3>1. pos \in 1 .. pos /\ ~(pos <= pos - 1) /\ pos - (pos - 1) = 1
      OBVIOUS
    <3>. QED
      BY <1>4, <1>5, <1>6, <1>7, <2>2, <3>1
  <2>3. CASE i > pos
    <3>1. i - pos \in 1 .. Len(s) - pos + 1 /\ pos + (i - pos) - 1 = i - 1
      BY <1>1, <2>3
    <3>2. r[i - pos] = s[i - 1]
      BY <1>3, <3>1
    <3>. QED
      BY <1>5, <1>7, <2>3, <3>2
  <2>. QED
    BY <1>1, <2>1, <2>2, <2>3
<1>. QED
  BY <1>5, <1>7, <1>8

\* What is left of the list when a payload is taken out of it.
LEMMA Removed ==
    ASSUME NEW S, NEW s \in Seq(S), NEW i \in 1 .. Len(s)
    PROVE  /\ RemoveAt(s, i) \in Seq(S)
           /\ Len(RemoveAt(s, i)) = Len(s) - 1
           /\ \A j \in 1 .. Len(s) - 1 :
                RemoveAt(s, i)[j] = IF j < i THEN s[j] ELSE s[j + 1]
<1>. DEFINE l == SubSeq(s, 1, i - 1)
            r == SubSeq(s, i + 1, Len(s))
<1>1. Len(s) \in Nat /\ \A j \in 1 .. Len(s) : s[j] \in S
  BY LenProperties, ElementOfSeq
<1>2. /\ l \in Seq(S) /\ Len(l) = i - 1
      /\ \A j \in 1 .. i - 1 : l[j] = s[j]
  <2>1. \A j \in 1 .. i - 1 : s[j] \in S
    BY <1>1
  <2>. QED
    BY <1>1, <2>1, SubSeqProperties
<1>3. /\ r \in Seq(S) /\ Len(r) = Len(s) - i
      /\ \A j \in 1 .. Len(s) - i : r[j] = s[i + j]
  <2>1. \A j \in i + 1 .. Len(s) : s[j] \in S
    BY <1>1
  <2>2. /\ r \in Seq(S) /\ Len(r) = Len(s) - i
        /\ \A j \in 1 .. Len(s) - (i + 1) + 1 : r[j] = s[(i + 1) + j - 1]
    BY <1>1, <2>1, SubSeqProperties
  <2>. QED
    BY <1>1, <2>2
<1>4. RemoveAt(s, i) = l \o r
  BY DEF RemoveAt
<1>. HIDE DEF l, r
<1>5. /\ l \o r \in Seq(S) /\ Len(l \o r) = Len(s) - 1
      /\ \A j \in 1 .. Len(s) - 1 : (l \o r)[j] = IF j <= i - 1 THEN l[j] ELSE r[j - (i - 1)]
  <2>1. /\ l \o r \in Seq(S) /\ Len(l \o r) = Len(l) + Len(r)
        /\ \A j \in 1 .. Len(l) + Len(r) : (l \o r)[j] = IF j <= Len(l) THEN l[j] ELSE r[j - Len(l)]
    BY <1>2, <1>3, ConcatProperties
  <2>2. Len(l) + Len(r) = Len(s) - 1
    BY <1>1, <1>2, <1>3
  <2>. QED
    BY <1>2, <2>1, <2>2
<1>6. ASSUME NEW j \in 1 .. Len(s) - 1
      PROVE  RemoveAt(s, i)[j] = IF j < i THEN s[j] ELSE s[j + 1]
  <2>1. CASE j < i
    <3>1. j \in 1 .. i - 1 /\ j <= i - 1
      BY <1>1, <2>1
    <3>. QED
      BY <1>2, <1>4, <1>5, <2>1, <3>1
  <2>2. CASE ~(j < i)
    <3>1. j - (i - 1) \in 1 .. Len(s) - i /\ i + (j - (i - 1)) = j + 1 /\ ~(j <= i - 1)
      BY <1>1, <2>2
    <3>2. r[j - (i - 1)] = s[j + 1]
      BY <1>3, <3>1
    <3>. QED
      BY <1>4, <1>5, <2>2, <3>1, <3>2
  <2>. QED
    BY <2>1, <2>2
<1>. QED
  BY <1>4, <1>5, <1>6

\* A list that is not empty has a first arrival.
LEMMA FirstTick ==
    ASSUME NEW s \in Seq(Entries), s # <<>>
    PROVE  s[1].tick \in Nat
<1>1. Len(s) \in Nat \ {0}
  BY EmptySeq
<1>2. s[1] \in Entries
  BY <1>1, ElementOfSeq
<1>. QED
  BY <1>2 DEF Entries

-----------------------------------------------------------------------------
\* The argument of the request is not negative if the first payload arrives
\* now or later, or the queue is unblocked now or later; the request is then
\* for the tick after both (schedule_next_clock_trigger).
LEMMA ScheduleAsks ==
    ASSUME PeqType, NEW entries \in Seq(Entries), entries # <<>>,
           NEW unblock \in Nat \cup {Blocked}, NEW request \in Int,
           request # None => request >= tickCount,
           Schedule(entries, unblock, request)
    PROVE  /\ mScheduledTick' \in Int /\ aborted' \in Aborts
           /\ mScheduledTick' # None => mScheduledTick' >= tickCount
           /\ aborted' = NotAborted /\ unblock # Blocked =>
                /\ mScheduledTick' >= tickCount
                /\ \/ mScheduledTick' <= entries[1].tick + 1
                   \/ mScheduledTick' <= unblock + 1
           /\ (entries[1].tick >= tickCount \/ unblock >= tickCount \/ unblock = Blocked)
                => aborted' = aborted
<1>1. entries[1].tick \in Nat
  BY FirstTick
<1>2. CASE unblock = Blocked
  BY <1>2 DEF Schedule, PeqType
<1>3. CASE unblock # Blocked
  <2>. DEFINE first == entries[1].tick
              skip == TicksToSkip(entries, unblock)
  <2>1. unblock \in Nat /\ tickCount \in Nat
    BY <1>3 DEF PeqType
  <2>2. skip = (IF first < unblock THEN unblock ELSE first) - tickCount
    BY DEF TicksToSkip
  <2>3. /\ aborted' = IF skip < 0 THEN InRequest ELSE aborted
        /\ mScheduledTick' = IF skip < 0 \/ (request # None /\ request <= tickCount + skip + 1)
                             THEN request ELSE tickCount + skip + 1
    BY <1>3 DEF Schedule
  <2>4. aborted \in Aborts
    BY DEF PeqType
  <2>. HIDE DEF first, skip
  <2>5. first \in Nat
    BY <1>1 DEF first
  <2>6. skip \in Int /\ tickCount + skip + 1 >= 1
        /\ (tickCount + skip = first \/ tickCount + skip = unblock)
        /\ (skip < 0 => first < tickCount /\ unblock < tickCount)
    BY <2>1, <2>2, <2>5
  <2>7. aborted' \in Aborts /\ (~(skip < 0) => aborted' = aborted) 
        /\ (skip < 0 => aborted' # NotAborted)
    BY <2>3, <2>4 DEF Aborts, NotAborted, InRequest
  <2>8. /\ mScheduledTick' \in Int
        /\ mScheduledTick' # None => mScheduledTick' >= tickCount
        /\ skip >= 0 => /\ mScheduledTick' >= tickCount
                        /\ mScheduledTick' <= tickCount + skip + 1
    BY <2>1, <2>3, <2>6
  <2>9. skip >= 0 => mScheduledTick' <= first + 1 \/ mScheduledTick' <= unblock + 1
    BY <2>1, <2>5, <2>6, <2>8
  <2>10. /\ skip >= 0 <=> ~(skip < 0)
         /\ (first >= tickCount \/ unblock >= tickCount) => skip >= 0
    BY <2>1, <2>5, <2>6
  <2>. QED
    BY <1>3, <2>7, <2>8, <2>9, <2>10 DEF first
<1>. QED
  BY <1>2, <1>3

\* The queue starts as the invariant says.
LEMMA InitIInv == Init => IInv
<1>. SUFFICES ASSUME Init PROVE IInv
  OBVIOUS
<1>1. mEntries \in Seq(Entries)
  BY EmptySeq DEF Init
<1>2. PeqType
  <2>1. inCallback \in BOOLEAN /\ aborted \in Aborts /\ cancelledDue \in BOOLEAN
    BY Zenon DEF Init, Aborts
  <2>2. tickCount \in Nat /\ pushes \in Nat /\ mScheduledTick = -1
        /\ mUnblockClockTick \in Nat \cup {Blocked}
    BY DEF Init
  <2>. QED
    BY <1>1, <2>1, <2>2 DEF PeqType
<1>3. NoLostWakeup
  BY DEF Init, NoLostWakeup, HasMoreEvents
<1>. QED
  BY <1>2, <1>3 DEF IInv

-----------------------------------------------------------------------------
\* notify: if the payload becomes the first one a request is made for it.
LEMMA NotifyKeeps ==
    ASSUME IInv, NEW tick \in Nat, tick >= tickCount, NotifyAt(tick)
    PROVE  IInv' /\ aborted' = aborted
<1>. DEFINE pos == Position(tick)
            new == [tick |-> tick, seq |-> pushes]
            entries == InsertAt(mEntries, pos, new)
<1>1. PeqType /\ NoLostWakeup
  BY DEF IInv
<1>2. /\ pos \in 1 .. Len(mEntries) + 1
      /\ pos = 1 \/ mEntries # <<>>
  BY <1>1, PositionInList
<1>3. new \in Entries
  BY <1>1 DEF PeqType, Entries
<1>4. /\ mEntries' = entries
      /\ UNCHANGED <<tickCount, inCallback, mUnblockClockTick, cancelledDue>>
      /\ pushes' = pushes + 1
      /\ IF pos = 1 THEN Schedule(entries, mUnblockClockTick, mScheduledTick)
         ELSE NoSchedule(mScheduledTick)
  BY DEF NotifyAt
<1>. HIDE DEF pos, new
<1>5. /\ entries \in Seq(Entries) /\ Len(entries) = Len(mEntries) + 1
      /\ entries[1] = IF pos = 1 THEN new ELSE mEntries[1]
  <2>1. /\ entries \in Seq(Entries) /\ Len(entries) = Len(mEntries) + 1
        /\ \A i \in 1 .. Len(mEntries) + 1 :
              entries[i] = IF i < pos THEN mEntries[i]
                           ELSE IF i = pos THEN new ELSE mEntries[i - 1]
    BY <1>1, <1>2, <1>3, Inserted DEF PeqType
  <2>2. Len(mEntries) \in Nat
    BY <1>1, LenProperties DEF PeqType
  <2>. HIDE DEF entries
  <2>3. entries[1] = IF 1 < pos THEN mEntries[1]
                     ELSE IF 1 = pos THEN new ELSE mEntries[1 - 1]
    BY <2>1, <2>2
  <2>4. 1 < pos <=> pos # 1
    BY <1>2, <2>2
  <2>. QED
    BY <2>1, <2>3, <2>4
<1>6. entries # <<>>
  BY <1>1, <1>5, LenProperties, EmptySeq DEF PeqType
<1>. HIDE DEF entries
<1>7. CASE pos = 1
  <2>1. Schedule(entries, mUnblockClockTick, mScheduledTick)
    BY <1>4, <1>7
  <2>2. entries[1].tick = tick
    BY <1>5, <1>7 DEF new
  <2>3. /\ mScheduledTick' \in Int /\ aborted' \in Aborts
        /\ mScheduledTick' # None => mScheduledTick' >= tickCount
        /\ aborted' = NotAborted /\ mUnblockClockTick # Blocked =>
             /\ mScheduledTick' >= tickCount
             /\ \/ mScheduledTick' <= entries[1].tick + 1
                \/ mScheduledTick' <= mUnblockClockTick + 1
        /\ aborted' = aborted
    BY <1>1, <1>5, <1>6, <2>1, <2>2, ScheduleAsks DEF PeqType
  <2>4. PeqType'
    BY <1>1, <1>4, <1>5, <2>3 DEF PeqType
  <2>5. NoLostWakeup'
    BY <1>4, <2>3 DEF NoLostWakeup
  <2>. QED
    BY <2>3, <2>4, <2>5 DEF IInv
<1>8. CASE pos # 1
  <2>1. mScheduledTick' = mScheduledTick /\ aborted' = aborted
    BY <1>4, <1>8 DEF NoSchedule
  <2>2. PeqType'
    BY <1>1, <1>4, <1>5, <2>1 DEF PeqType
  <2>3. mEntries # <<>> /\ mEntries'[1] = mEntries[1]
    BY <1>2, <1>4, <1>5, <1>8
  <2>4. NoLostWakeup'
    BY <1>1, <1>4, <2>1, <2>3 DEF NoLostWakeup, HasMoreEvents
  <2>. QED
    BY <2>1, <2>2, <2>4 DEF IInv
<1>. QED
  BY <1>7, <1>8

\* get_next: what is left has a request of its own, unless it is visible
\* already and the request that stays is for this tick at the latest.
LEMMA GetNextKeeps ==
    ASSUME IInv, GetNext
    PROVE  IInv' /\ aborted' \in {aborted, InCancel}
<1>. DEFINE entries == IF IsEmpty THEN mEntries ELSE Tail(mEntries)
<1>1. PeqType /\ NoLostWakeup
  BY DEF IInv
<1>2. /\ aborted = NotAborted /\ mEntries' = entries
      /\ UNCHANGED <<tickCount, inCallback, mUnblockClockTick, pushes>>
      /\ IF Reschedules(entries) THEN RescheduleNext(entries)
         ELSE NoSchedule(mScheduledTick) /\ UNCHANGED cancelledDue
  BY DEF GetNext
<1>3. /\ entries \in Seq(Entries)
      /\ entries # <<>> => mEntries # <<>>
  <2>1. mEntries # <<>> => Tail(mEntries) \in Seq(Entries)
    BY <1>1, HeadTailProperties DEF PeqType
  <2>2. ~IsEmpty => mEntries # <<>>
    BY DEF IsEmpty, HasMoreEvents
  <2>. QED
    BY <1>1, <2>1, <2>2 DEF PeqType
<1>4. \/ entries = mEntries
      \/ mEntries # <<>> /\ mEntries[1].tick < tickCount
  BY DEF IsEmpty, HasMoreEvents, Visible
<1>5. mEntries # <<>> => mEntries[1].tick \in Nat
  BY <1>1, FirstTick DEF PeqType
<1>6. entries # <<>> => entries[1].tick \in Nat
  BY <1>3, FirstTick
<1>. HIDE DEF entries
<1>10. CASE Reschedules(entries) /\ CancelAborts
  <2>1. PeqType'
    BY <1>1, <1>2, <1>3, <1>10 DEF CancelAborts, PeqType, Aborts
  <2>2. NoLostWakeup'
    BY <1>10 DEF CancelAborts, NoLostWakeup, NotAborted, InCancel
  <2>. QED
    BY <1>10, <2>1, <2>2 DEF IInv, CancelAborts
<1>7. CASE Reschedules(entries) /\ ~CancelAborts /\ entries # <<>>
  <2>1. Schedule(entries, mUnblockClockTick, None)
    BY <1>2, <1>7 DEF RescheduleNext
  <2>2. entries[1].tick >= tickCount
    BY <1>1, <1>6, <1>7 DEF Reschedules, Visible, PeqType
  <2>3. /\ mScheduledTick' \in Int /\ aborted' \in Aborts
        /\ mScheduledTick' # None => mScheduledTick' >= tickCount
        /\ aborted' = NotAborted /\ mUnblockClockTick # Blocked =>
             /\ mScheduledTick' >= tickCount
             /\ \/ mScheduledTick' <= entries[1].tick + 1
                \/ mScheduledTick' <= mUnblockClockTick + 1
        /\ aborted' = aborted
    BY <1>1, <1>3, <1>7, <2>1, <2>2, ScheduleAsks DEF PeqType
  <2>4. cancelledDue' \in BOOLEAN
    BY <1>2, <1>7 DEF RescheduleNext, Cancels
  <2>5. PeqType'
    BY <1>1, <1>2, <1>3, <2>3, <2>4 DEF PeqType
  <2>6. NoLostWakeup'
    BY <1>2, <2>3 DEF NoLostWakeup
  <2>. QED
    BY <2>3, <2>5, <2>6 DEF IInv
<1>8. CASE Reschedules(entries) /\ ~CancelAborts /\ entries = <<>>
  <2>1. mScheduledTick' = None /\ aborted' = aborted
    BY <1>2, <1>8 DEF RescheduleNext, NoSchedule
  <2>2. cancelledDue' \in BOOLEAN
    BY <1>2, <1>8 DEF RescheduleNext, Cancels
  <2>3. PeqType'
    BY <1>1, <1>2, <1>3, <2>1, <2>2 DEF PeqType
  <2>4. NoLostWakeup'
    BY <1>2, <1>8 DEF NoLostWakeup, HasMoreEvents
  <2>. QED
    BY <2>1, <2>3, <2>4 DEF IInv
<1>9. CASE ~Reschedules(entries)
  <2>1. mScheduledTick' = mScheduledTick /\ aborted' = aborted /\ cancelledDue' = cancelledDue
    BY <1>2, <1>9 DEF NoSchedule
  <2>2. PeqType'
    BY <1>1, <1>2, <1>3, <2>1 DEF PeqType
  <2>3. ASSUME entries # <<>>, mScheduledTick # None PROVE entries[1].tick < tickCount
    BY <1>9, <2>3 DEF Reschedules, Visible
  <2>4. NoLostWakeup'
    <3>1. SUFFICES ASSUME entries # <<>>, mUnblockClockTick # Blocked, ~inCallback
                   PROVE  /\ mScheduledTick >= tickCount
                          /\ \/ mScheduledTick <= entries[1].tick + 1
                             \/ mScheduledTick <= mUnblockClockTick + 1
                             \/ mScheduledTick <= tickCount + 1
      BY <1>2, <2>1 DEF NoLostWakeup, HasMoreEvents
    <3>2. /\ mScheduledTick >= tickCount
          /\ \/ mScheduledTick <= mEntries[1].tick + 1
             \/ mScheduledTick <= mUnblockClockTick + 1
             \/ mScheduledTick <= tickCount + 1
      BY <1>1, <1>2, <1>3, <3>1 DEF NoLostWakeup, HasMoreEvents
    <3>. QED
      BY <1>1, <1>3, <1>4, <1>5, <3>1, <3>2 DEF PeqType
  <2>. QED
    BY <2>1, <2>2, <2>4 DEF IInv
<1>. QED
  BY <1>7, <1>8, <1>9, <1>10

\* remove: a payload that is visible was asked for in this tick or before, so
\* that the request that stays is in time for what is left.
LEMMA RemoveKeeps ==
    ASSUME IInv, NEW i \in DOMAIN mEntries, RemoveVisible(i)
    PROVE  IInv' /\ aborted' = aborted
<1>1. PeqType /\ NoLostWakeup
  BY DEF IInv
<1>2. /\ mEntries[i].tick < tickCount /\ mEntries' = RemoveAt(mEntries, i)
      /\ UNCHANGED <<tickCount, mScheduledTick, inCallback, mUnblockClockTick, aborted,
                     pushes, cancelledDue>>
  BY DEF RemoveVisible, Visible
<1>3. i \in 1 .. Len(mEntries) /\ mEntries # <<>>
  BY <1>1, EmptySeq, LenProperties DEF PeqType
<1>4. /\ mEntries' \in Seq(Entries)
      /\ i # 1 => mEntries'[1] = mEntries[1]
  <2>1. /\ mEntries' \in Seq(Entries) /\ Len(mEntries') = Len(mEntries) - 1
        /\ \A j \in 1 .. Len(mEntries) - 1 :
              mEntries'[j] = IF j < i THEN mEntries[j] ELSE mEntries[j + 1]
    BY <1>1, <1>2, <1>3, Removed DEF PeqType
  <2>2. i # 1 => 1 \in 1 .. Len(mEntries) - 1 /\ 1 < i
    BY <1>3
  <2>. QED
    BY <2>1, <2>2
<1>5. PeqType'
  BY <1>1, <1>2, <1>4 DEF PeqType
<1>6. mEntries[1].tick \in Nat /\ (mEntries' # <<>> => mEntries'[1].tick \in Nat)
  BY <1>1, <1>3, <1>4, FirstTick DEF PeqType
<1>7. NoLostWakeup'
  <2>1. SUFFICES ASSUME mUnblockClockTick # Blocked, ~inCallback, aborted = NotAborted, mEntries' # <<>>
                 PROVE  /\ mScheduledTick >= tickCount
                        /\ \/ mScheduledTick <= mEntries'[1].tick + 1
                           \/ mScheduledTick <= mUnblockClockTick + 1
                           \/ mScheduledTick <= tickCount + 1
    BY <1>2 DEF NoLostWakeup, HasMoreEvents
  <2>2. /\ mScheduledTick >= tickCount
        /\ \/ mScheduledTick <= mEntries[1].tick + 1
           \/ mScheduledTick <= mUnblockClockTick + 1
           \/ mScheduledTick <= tickCount + 1
    BY <1>1, <1>3, <2>1 DEF NoLostWakeup, HasMoreEvents
  <2>3. CASE i = 1
    BY <1>1, <1>2, <1>6, <2>2, <2>3 DEF PeqType
  <2>4. CASE i # 1
    BY <1>4, <2>2, <2>4
  <2>. QED
    BY <2>3, <2>4
<1>. QED
  BY <1>2, <1>5, <1>7 DEF IInv

\* block: a queue that is blocked owes nothing.
LEMMA BlockKeeps ==
    ASSUME IInv, Block
    PROVE  IInv' /\ aborted' \in {aborted, InCancel}
<1>1. /\ mUnblockClockTick' = Blocked
      /\ UNCHANGED <<tickCount, inCallback, mEntries, pushes>>
  BY DEF Block
<1>2. PeqType
  BY DEF IInv
<1>3. /\ mScheduledTick' \in {None, mScheduledTick}
      /\ aborted' \in {aborted, InCancel} /\ cancelledDue' \in BOOLEAN
  BY <1>2 DEF Block, Cancels, CancelAborts, NoSchedule, PeqType
<1>4. PeqType'
  BY <1>1, <1>2, <1>3 DEF PeqType, Aborts
<1>5. NoLostWakeup'
  BY <1>1 DEF NoLostWakeup
<1>. QED
  BY <1>3, <1>4, <1>5 DEF IInv

\* unblock and unblockAt: a request is made for what waits; only a tick in the
\* past can make its argument negative.
LEMMA UnblockKeeps ==
    ASSUME IInv, NEW tick \in Nat, UnblockAt(tick)
    PROVE  IInv' /\ (tick >= tickCount => aborted' = aborted)
<1>1. PeqType
  BY DEF IInv
<1>2. /\ mUnblockClockTick' = tick
      /\ UNCHANGED <<tickCount, inCallback, mEntries, pushes, cancelledDue>>
      /\ IF HasMoreEvents THEN Schedule(mEntries, tick, mScheduledTick)
         ELSE NoSchedule(mScheduledTick)
  BY DEF UnblockAt
<1>3. CASE mEntries # <<>>
  <2>1. Schedule(mEntries, tick, mScheduledTick)
    BY <1>2, <1>3 DEF HasMoreEvents
  <2>2. /\ mScheduledTick' \in Int /\ aborted' \in Aborts
        /\ mScheduledTick' # None => mScheduledTick' >= tickCount
        /\ aborted' = NotAborted /\ tick # Blocked =>
             /\ mScheduledTick' >= tickCount
             /\ \/ mScheduledTick' <= mEntries[1].tick + 1
                \/ mScheduledTick' <= tick + 1
        /\ tick >= tickCount => aborted' = aborted
    BY <1>1, <1>3, <2>1, ScheduleAsks DEF PeqType
  <2>3. PeqType'
    BY <1>1, <1>2, <2>2 DEF PeqType
  <2>4. NoLostWakeup'
    BY <1>2, <2>2 DEF NoLostWakeup
  <2>. QED
    BY <2>2, <2>3, <2>4 DEF IInv
<1>4. CASE mEntries = <<>>
  <2>1. mScheduledTick' = mScheduledTick /\ aborted' = aborted
    BY <1>2, <1>4 DEF HasMoreEvents, NoSchedule
  <2>2. PeqType'
    BY <1>1, <1>2, <2>1 DEF PeqType
  <2>3. NoLostWakeup'
    BY <1>2, <1>4 DEF NoLostWakeup, HasMoreEvents
  <2>. QED
    BY <2>1, <2>2, <2>3 DEF IInv
<1>. QED
  BY <1>3, <1>4

\* The call-back leaves the queue unblocked up to this tick at least, and asks
\* for the next one if payloads are left.
LEMMA FinishKeeps ==
    ASSUME IInv, FinishCallback
    PROVE  IInv' /\ aborted' = aborted
<1>1. PeqType
  BY DEF IInv
<1>2. /\ mUnblockClockTick' = UnblockTick /\ inCallback' = FALSE
      /\ UNCHANGED <<tickCount, mEntries, pushes, cancelledDue>>
      /\ IF HasMoreEvents THEN Schedule(mEntries, UnblockTick, mScheduledTick)
         ELSE NoSchedule(mScheduledTick)
  BY DEF FinishCallback
<1>3. /\ UnblockTick \in Nat \cup {Blocked}
      /\ UnblockTick >= tickCount \/ UnblockTick = Blocked
  BY <1>1 DEF UnblockTick, PeqType
<1>4. inCallback' \in BOOLEAN
  BY <1>2, Zenon
<1>. HIDE DEF UnblockTick
<1>5. CASE mEntries # <<>>
  <2>1. Schedule(mEntries, UnblockTick, mScheduledTick)
    BY <1>2, <1>5 DEF HasMoreEvents
  <2>2. /\ mScheduledTick' \in Int /\ aborted' \in Aborts
        /\ mScheduledTick' # None => mScheduledTick' >= tickCount
        /\ aborted' = NotAborted /\ UnblockTick # Blocked =>
             /\ mScheduledTick' >= tickCount
             /\ \/ mScheduledTick' <= mEntries[1].tick + 1
                \/ mScheduledTick' <= UnblockTick + 1
        /\ aborted' = aborted
    BY <1>1, <1>3, <1>5, <2>1, ScheduleAsks DEF PeqType
  <2>3. PeqType'
    BY <1>1, <1>2, <1>3, <1>4, <2>2 DEF PeqType
  <2>4. NoLostWakeup'
    BY <1>2, <2>2 DEF NoLostWakeup
  <2>. QED
    BY <2>2, <2>3, <2>4 DEF IInv
<1>6. CASE mEntries = <<>>
  <2>1. mScheduledTick' = mScheduledTick /\ aborted' = aborted
    BY <1>2, <1>6 DEF HasMoreEvents, NoSchedule
  <2>2. PeqType'
    BY <1>1, <1>2, <1>3, <1>4, <2>1 DEF PeqType
  <2>3. NoLostWakeup'
    BY <1>2, <1>6 DEF NoLostWakeup, HasMoreEvents
  <2>. QED
    BY <2>1, <2>2, <2>3 DEF IInv
<1>. QED
  BY <1>5, <1>6

\* The request is consumed when the call-back starts; the next tick comes only
\* after a request for this one is served.
LEMMA TickKeeps ==
    ASSUME IInv, HandleClockTick \/ Tick
    PROVE  IInv' /\ aborted' = aborted
<1>1. PeqType /\ NoLostWakeup
  BY DEF IInv
<1>2. CASE HandleClockTick
  <2>1. /\ mScheduledTick' = None
        /\ UNCHANGED <<tickCount, mEntries, mUnblockClockTick, aborted, pushes, cancelledDue>>
    BY <1>2 DEF HandleClockTick
  <2>2. inCallback' /\ inCallback' \in BOOLEAN
    BY <1>2, Zenon DEF HandleClockTick
  <2>3. PeqType'
    BY <1>1, <2>1, <2>2 DEF PeqType
  <2>4. NoLostWakeup'
    BY <2>2, Zenon DEF NoLostWakeup
  <2>. QED
    BY <2>1, <2>3, <2>4 DEF IInv
<1>3. CASE Tick
  <2>1. /\ mScheduledTick # tickCount /\ tickCount' = tickCount + 1
        /\ UNCHANGED <<mScheduledTick, inCallback, mEntries, mUnblockClockTick, aborted,
                       pushes, cancelledDue>>
    BY <1>3 DEF Tick, Due
  <2>2. PeqType'
    BY <1>1, <2>1 DEF PeqType
  <2>3. NoLostWakeup'
    BY <1>1, <2>1 DEF NoLostWakeup, HasMoreEvents, PeqType
  <2>. QED
    BY <2>1, <2>2, <2>3 DEF IInv
<1>. QED
  BY <1>2, <1>3

\* Every step keeps the invariant; a request aborts only if a past tick is named.
LEMMA NextKeeps ==
    ASSUME IInv, [Next]_vars
    PROVE  IInv' /\ (PastTicks = {} => aborted' \in {aborted, InCancel})
<1>1. tickCount \in Nat
  BY DEF IInv, PeqType
<1>2. \A tick \in ArrivalTicks : tick \in Nat /\ tick >= tickCount
  <2>1. SUFFICES ASSUME NEW d \in Delay
                 PROVE  tickCount + d \in Nat /\ tickCount + d >= tickCount
    BY DEF ArrivalTicks
  <2>2. d \in Nat
    BY PeqAssumption
  <2>. QED
    BY <1>1, <2>2
<1>3. \A tick \in UnblockTicks : tick \in Nat /\ (PastTicks = {} => tick >= tickCount)
  BY <1>1, <1>2, PeqAssumption DEF UnblockTicks
<1>4. CASE \E tick \in ArrivalTicks : NotifyAt(tick)
  BY <1>2, <1>4, NotifyKeeps
<1>5. CASE \E tick \in UnblockTicks : UnblockAt(tick)
  BY <1>3, <1>5, UnblockKeeps
<1>6. CASE GetNext
  BY <1>6, GetNextKeeps
<1>7. CASE \E i \in DOMAIN mEntries : RemoveVisible(i)
  BY <1>7, RemoveKeeps
<1>8. CASE Block
  BY <1>8, BlockKeeps
<1>9. CASE HandleClockTick \/ Tick
  BY <1>9, TickKeeps
<1>10. CASE FinishCallback
  BY <1>10, FinishKeeps
<1>11. CASE UNCHANGED vars
  <2>1. UNCHANGED <<tickCount, mScheduledTick, inCallback, mEntries, mUnblockClockTick,
                    aborted, pushes, cancelledDue>>
    BY <1>11 DEF vars
  <2>2. PeqType' /\ NoLostWakeup'
    BY <2>1 DEF IInv, PeqType, NoLostWakeup, HasMoreEvents
  <2>. QED
    BY <2>1, <2>2 DEF IInv
<1>. QED
  BY <1>4, <1>5, <1>6, <1>7, <1>8, <1>9, <1>10, <1>11 DEF Next

-----------------------------------------------------------------------------
(* The order of the list                                                   *)

\* Payloads are in the order of arrival, and of pushing if they arrive in one
\* tick; those to come are numbered after all of them.
InOrder(s) ==
    \A i, j \in 1 .. Len(s) : i < j =>
        \/ s[i].tick < s[j].tick
        \/ s[i].tick = s[j].tick /\ s[i].seq < s[j].seq

Numbered(s, n) == \A i \in 1 .. Len(s) : s[i].seq < n

\* The inductive invariant for the order.
OrderInv == InOrder(mEntries) /\ Numbered(mEntries, pushes)

\* Of a set of indices that holds with an index all before it, the number tells
\* the indices.
LEMMA InitialSegment ==
    ASSUME NEW n \in Nat, NEW S \in SUBSET (1 .. n),
           \A i \in S : \A j \in 1 .. i : j \in S
    PROVE  S = 1 .. Cardinality(S)
<1>. DEFINE Out  == {i \in 1 .. n + 1 : i \notin S}
            Less == OpToRel(<, Nat)
<1>1. n + 1 \in Out
  OBVIOUS
<1>2. IsWellFoundedOn(Less, Nat)
  BY NatLessThanWellFounded
<1>3. ASSUME NEW x \in Nat, NEW y \in Nat, x < y
      PROVE  <<x, y>> \in Less
  BY <1>3 DEF OpToRel
<1>4. Out \subseteq Nat /\ Out # {}
  BY <1>1
<1>. HIDE DEF Less
<1>5. PICK m \in Out : \A y \in Out : <<y, m>> \notin Less
  <2>. HIDE DEF Out
  <2>. QED
    BY <1>2, <1>4, WFMin
<1>6. m \in 1 .. n + 1 /\ m \notin S
  OBVIOUS
<1>7. ASSUME NEW i \in 1 .. m - 1 PROVE i \in S
  <2>1. i \in Nat /\ m \in Nat /\ i < m /\ i \in 1 .. n + 1
    BY <1>6
  <2>2. <<i, m>> \in Less
    BY <1>3, <2>1
  <2>. QED
    BY <1>5, <2>1, <2>2
<1>8. ASSUME NEW i \in S PROVE i \in 1 .. m - 1
  <2>1. i \in 1 .. n /\ (m <= i => m \in 1 .. i)
    BY <1>6
  <2>. QED
    BY <1>6, <2>1
<1>9. S = 1 .. m - 1
  BY <1>7, <1>8
<1>10. Cardinality(1 .. m - 1) = m - 1
  BY <1>6, FS_Interval
<1>. QED
  BY <1>9, <1>10

\* The payloads of a list have a tick and a number.
LEMMA PayloadTypes ==
    ASSUME NEW s \in Seq(Entries)
    PROVE  \A i \in 1 .. Len(s) : s[i].tick \in Nat /\ s[i].seq \in Nat
<1>1. SUFFICES ASSUME NEW i \in 1 .. Len(s)
               PROVE  s[i].tick \in Nat /\ s[i].seq \in Nat
  OBVIOUS
<1>2. s[i] \in Entries
  BY ElementOfSeq
<1>. QED
  BY <1>2 DEF Entries

\* notifyAt finds the place: what is before it arrives no later, what is behind
\* it later.
LEMMA PositionIsThePlace ==
    ASSUME PeqType, InOrder(mEntries), NEW tick \in Nat
    PROVE  /\ Position(tick) \in 1 .. Len(mEntries) + 1
           /\ \A i \in 1 .. Position(tick) - 1 : mEntries[i].tick <= tick
           /\ \A i \in Position(tick) .. Len(mEntries) : mEntries[i].tick > tick
<1>. DEFINE S == {i \in DOMAIN mEntries : \A j \in 1 .. i : mEntries[j].tick <= tick}
            n == Len(mEntries)
<1>1. DOMAIN mEntries = 1 .. n /\ n \in Nat
  BY DEF PeqType
<1>2. \A i \in 1 .. n : mEntries[i].tick \in Nat
  BY PayloadTypes DEF PeqType
<1>3. Position(tick) = 1 + Cardinality(S)
  BY DEF Position
<1>4. S \subseteq 1 .. n /\ \A i \in S : \A j \in 1 .. i : j \in S
  BY <1>1
<1>5. Position(tick) \in 1 .. n + 1
  BY PositionInList
<1>6. S = 1 .. Cardinality(S)
  <2>. HIDE DEF S
  <2>. QED
    BY <1>1, <1>4, InitialSegment
<1>7. S = 1 .. Position(tick) - 1
  <2>. HIDE DEF S
  <2>1. Cardinality(S) = Position(tick) - 1
    <3>1. IsFiniteSet(1 .. n)
      BY <1>1, FS_Interval
    <3>2. IsFiniteSet(S)
      BY <1>4, <3>1, FS_Subset
    <3>3. Cardinality(S) \in Nat
      BY <3>2, FS_CardinalityType
    <3>. QED
      BY <1>3, <3>3
  <2>. QED
    BY <1>6, <2>1
<1>8. ASSUME NEW i \in 1 .. Position(tick) - 1 PROVE mEntries[i].tick <= tick
  <2>1. i \in S
    BY <1>7
  <2>. QED
    BY <1>1, <2>1
<1>9. ASSUME NEW i \in Position(tick) .. n PROVE mEntries[i].tick > tick
  <2>. DEFINE p == Position(tick)
  <2>1. p \in 1 .. n /\ p \notin S /\ p \in Nat
    BY <1>1, <1>5, <1>7
  <2>2. PICK j \in 1 .. p : ~(mEntries[j].tick <= tick)
    BY <1>1, <2>1
  <2>. HIDE DEF p
  <2>3. i \in p .. n
    BY <1>9 DEF p
  <2>4. i \in 1 .. n /\ j \in 1 .. n /\ j <= i
    BY <1>1, <2>1, <2>2, <2>3
  <2>5. mEntries[j].tick <= mEntries[i].tick
    BY <1>2, <2>4 DEF InOrder
  <2>. QED
    BY <1>2, <2>2, <2>4, <2>5
<1>. QED
  BY <1>5, <1>8, <1>9

\* What is taken out leaves the others in order.
LEMMA RemovalKeepsOrder ==
    ASSUME NEW s \in Seq(Entries), NEW n \in Nat, InOrder(s), Numbered(s, n),
           NEW i \in 1 .. Len(s)
    PROVE  InOrder(RemoveAt(s, i)) /\ Numbered(RemoveAt(s, i), n)
<1>. DEFINE r == RemoveAt(s, i)
            From(j) == IF j < i THEN j ELSE j + 1
<1>1. Len(s) \in Nat
  BY LenProperties
<1>2. /\ Len(r) = Len(s) - 1
      /\ \A j \in 1 .. Len(s) - 1 : r[j] = IF j < i THEN s[j] ELSE s[j + 1]
  BY Removed
<1>. HIDE DEF r
<1>3. \A j \in 1 .. Len(r) : From(j) \in 1 .. Len(s) /\ r[j] = s[From(j)]
  BY <1>1, <1>2
<1>4. \A j, k \in 1 .. Len(r) : j < k => From(j) < From(k)
  BY <1>1, <1>2
<1>. HIDE DEF From
<1>5. InOrder(r)
  BY <1>3, <1>4 DEF InOrder
<1>6. Numbered(r, n)
  BY <1>3 DEF Numbered
<1>. QED
  BY <1>5, <1>6 DEF r

\* notify: the new payload goes behind those that arrive no later, which were
\* all pushed before it.
LEMMA NotifyKeepsOrder ==
    ASSUME PeqType, OrderInv, NEW tick \in Nat, NotifyAt(tick)
    PROVE  OrderInv'
<1>. DEFINE pos == Position(tick)
            new == [tick |-> tick, seq |-> pushes]
            n   == Len(mEntries)
<1>1. InOrder(mEntries) /\ Numbered(mEntries, pushes) /\ n \in Nat /\ pushes \in Nat
  BY DEF OrderInv, PeqType
<1>2. /\ pos \in 1 .. n + 1
      /\ \A i \in 1 .. pos - 1 : mEntries[i].tick <= tick
      /\ \A i \in pos .. n : mEntries[i].tick > tick
  BY <1>1, PositionIsThePlace
<1>3. mEntries' = InsertAt(mEntries, pos, new) /\ pushes' = pushes + 1
  BY DEF NotifyAt
<1>4. new \in Entries /\ new.tick = tick /\ new.seq = pushes
  BY <1>1 DEF Entries
<1>5. \A i \in 1 .. n : mEntries[i].tick \in Nat /\ mEntries[i].seq \in Nat
  BY PayloadTypes DEF PeqType
<1>. HIDE DEF pos, new
<1>6. /\ Len(mEntries') = n + 1
      /\ \A i \in 1 .. n + 1 : mEntries'[i] = IF i < pos THEN mEntries[i]
                                              ELSE IF i = pos THEN new ELSE mEntries[i - 1]
  BY <1>2, <1>3, <1>4, Inserted DEF PeqType
<1>. HIDE DEF n
<1>7. ASSUME NEW i \in 1 .. n + 1
      PROVE  \/ i < pos /\ i \in 1 .. n /\ i \in 1 .. pos - 1 /\ mEntries'[i] = mEntries[i]
             \/ i = pos /\ mEntries'[i] = new
             \/ i > pos /\ i - 1 \in 1 .. n /\ i - 1 \in pos .. n /\ mEntries'[i] = mEntries[i - 1]
  BY <1>1, <1>2, <1>6
<1>8. ASSUME NEW i \in 1 .. n + 1, NEW j \in 1 .. n + 1, i < j
      PROVE  \/ mEntries'[i].tick < mEntries'[j].tick
             \/ mEntries'[i].tick = mEntries'[j].tick /\ mEntries'[i].seq < mEntries'[j].seq
  <2>1. ASSUME NEW a \in 1 .. n, NEW b \in 1 .. n, a < b
        PROVE  \/ mEntries[a].tick < mEntries[b].tick
               \/ mEntries[a].tick = mEntries[b].tick /\ mEntries[a].seq < mEntries[b].seq
    BY <1>1, <2>1 DEF InOrder, n
  <2>2. ASSUME NEW a \in 1 .. n PROVE mEntries[a].seq < pushes
    BY <1>1 DEF Numbered, n
  <2>3. CASE j < pos
    <3>1. mEntries'[i] = mEntries[i] /\ mEntries'[j] = mEntries[j] /\ i \in 1 .. n /\ j \in 1 .. n
      BY <1>1, <1>2, <1>7, <1>8, <2>3
    <3>. QED
      BY <1>8, <2>1, <3>1
  <2>4. CASE j = pos
    <3>1. /\ i \in 1 .. n /\ i \in 1 .. pos - 1
          /\ mEntries'[i] = mEntries[i] /\ mEntries'[j] = new
      BY <1>1, <1>2, <1>7, <1>8, <2>4
    <3>2. mEntries[i].tick <= tick /\ mEntries[i].tick \in Nat /\ mEntries[i].seq < pushes
      BY <1>2, <1>5, <2>2, <3>1
    <3>. QED
      BY <1>4, <3>1, <3>2
  <2>5. CASE j > pos
    <3>1. /\ j - 1 \in 1 .. n /\ j - 1 \in pos .. n /\ mEntries'[j] = mEntries[j - 1]
      BY <1>1, <1>2, <1>7, <2>5
    <3>2. CASE i < pos
      <4>1. i \in 1 .. n /\ mEntries'[i] = mEntries[i] /\ i < j - 1
        BY <1>1, <1>2, <1>7, <2>5, <3>2
      <4>. QED
        BY <2>1, <3>1, <4>1
    <3>3. CASE i = pos
      <4>1. mEntries'[i] = new /\ mEntries[j - 1].tick > tick /\ mEntries[j - 1].tick \in Nat
        BY <1>2, <1>5, <1>7, <3>1, <3>3
      <4>. QED
        BY <1>4, <3>1, <4>1
    <3>4. CASE i > pos
      <4>1. i - 1 \in 1 .. n /\ mEntries'[i] = mEntries[i - 1] /\ i - 1 < j - 1
        BY <1>1, <1>2, <1>7, <1>8, <3>4
      <4>. QED
        BY <2>1, <3>1, <4>1
    <3>. QED
      BY <1>2, <3>2, <3>3, <3>4
  <2>. QED
    BY <1>2, <2>3, <2>4, <2>5
<1>9. ASSUME NEW i \in 1 .. n + 1 PROVE mEntries'[i].seq < pushes + 1
  <2>1. \A a \in 1 .. n : mEntries[a].seq < pushes /\ mEntries[a].seq \in Nat
    BY <1>1, <1>5 DEF Numbered, n
  <2>2. \/ \E a \in 1 .. n : mEntries'[i] = mEntries[a]
        \/ mEntries'[i] = new
    BY <1>7
  <2>. QED
    BY <1>1, <1>4, <2>1, <2>2
<1>10. InOrder(mEntries')
  BY <1>6, <1>8 DEF InOrder
<1>11. Numbered(mEntries', pushes')
  BY <1>3, <1>6, <1>9 DEF Numbered
<1>. QED
  BY <1>10, <1>11 DEF OrderInv

\* Every step keeps the order: get_next takes the first payload, remove any one,
\* and nothing else touches the list.
LEMMA NextKeepsOrder ==
    ASSUME PeqType, OrderInv, [Next]_vars
    PROVE  OrderInv'
<1>1. InOrder(mEntries) /\ Numbered(mEntries, pushes) /\ mEntries \in Seq(Entries) /\ pushes \in Nat
  BY DEF OrderInv, PeqType
<1>2. CASE \E tick \in ArrivalTicks : NotifyAt(tick)
  <2>1. \A tick \in ArrivalTicks : tick \in Nat
    BY PeqAssumption DEF ArrivalTicks, PeqType
  <2>. QED
    BY <1>2, <2>1, NotifyKeepsOrder
<1>3. CASE GetNext
  <2>1. mEntries' = (IF IsEmpty THEN mEntries ELSE Tail(mEntries)) /\ pushes' = pushes
    BY <1>3 DEF GetNext
  <2>2. CASE IsEmpty
    BY <2>1, <2>2, <1>1 DEF OrderInv
  <2>3. CASE ~IsEmpty
    <3>1. mEntries # <<>>
      BY <2>3 DEF IsEmpty, HasMoreEvents
    <3>2. /\ Len(Tail(mEntries)) = Len(mEntries) - 1
          /\ \A i \in 1 .. Len(Tail(mEntries)) : Tail(mEntries)[i] = mEntries[i + 1]
      BY <1>1, <3>1, HeadTailProperties
    <3>3. mEntries' = Tail(mEntries)
      BY <2>1, <2>3
    <3>4. /\ Len(mEntries') = Len(mEntries) - 1
          /\ \A i \in 1 .. Len(mEntries) - 1 : mEntries'[i] = mEntries[i + 1]
      BY <3>2, <3>3
    <3>5. Len(mEntries) \in Nat
      BY <1>1, LenProperties
    <3>6. \A i \in 1 .. Len(mEntries') : i + 1 \in 1 .. Len(mEntries) /\ mEntries'[i] = mEntries[i + 1]
      BY <3>4, <3>5
    <3>7. \A i, j \in 1 .. Len(mEntries') : i < j => i + 1 < j + 1
      BY <3>4, <3>5
    <3>8. InOrder(mEntries')
      BY <1>1, <3>6, <3>7 DEF InOrder
    <3>9. Numbered(mEntries', pushes')
      BY <1>1, <2>1, <3>6 DEF Numbered
    <3>. QED
      BY <3>8, <3>9 DEF OrderInv
  <2>. QED
    BY <2>2, <2>3
<1>4. CASE \E i \in DOMAIN mEntries : RemoveVisible(i)
  <2>1. PICK i \in DOMAIN mEntries : RemoveVisible(i)
    BY <1>4
  <2>2. mEntries' = RemoveAt(mEntries, i) /\ pushes' = pushes /\ i \in 1 .. Len(mEntries)
    BY <1>1, <2>1 DEF RemoveVisible
  <2>. QED
    BY <1>1, <2>2, RemovalKeepsOrder DEF OrderInv
<1>5. CASE \/ \E tick \in UnblockTicks : UnblockAt(tick)
           \/ Block \/ HandleClockTick \/ FinishCallback \/ Tick \/ UNCHANGED vars
  <2>1. mEntries' = mEntries /\ pushes' = pushes
    BY <1>5 DEF UnblockAt, Block, HandleClockTick, FinishCallback, Tick, vars
  <2>. QED
    BY <1>1, <2>1 DEF OrderInv
<1>. QED
  BY <1>2, <1>3, <1>4, <1>5 DEF Next

-----------------------------------------------------------------------------
(* Theorems                                                                *)

\* Whatever is pushed, taken, removed, blocked and unblocked, by the call-back
\* or between two of them, and for any ticks: a queue with payloads that is not
\* blocked has asked for a tick that is still to come, and is called back for
\* its first payload no later than it is visible and the queue unblocked.
THEOREM WakeupNeverLost == Spec => []NoLostWakeup
<1>1. Init => IInv
  BY InitIInv
<1>2. IInv /\ [Next]_vars => IInv'
  BY NextKeeps
<1>3. IInv => NoLostWakeup
  BY DEF IInv
<1>. QED
  BY <1>1, <1>2, <1>3, PTL DEF Spec

\* If no tick in the past is named, the number of ticks that the queue asks its
\* clock to skip is never negative, and request_trigger never aborts
\* (tick_callback_engine.cc:397-402).  That cancel_clock_trigger may abort when
\* get_next or block take back the request of the tick in progress is part of
\* the model and not excluded.
THEOREM RequestsNeverNegative == ASSUME PastTicks = {} PROVE Spec => []RequestsNeverAbort
<1>1. Init => IInv /\ RequestsNeverAbort
  BY InitIInv DEF Init, RequestsNeverAbort, NotAborted, InRequest
<1>2. IInv /\ RequestsNeverAbort /\ [Next]_vars => IInv' /\ RequestsNeverAbort'
  BY NextKeeps, PastTicks = {} DEF RequestsNeverAbort, InRequest, InCancel
<1>. QED
  BY <1>1, <1>2, PTL DEF Spec

\* However arrivals are named, and whatever is taken and removed meanwhile: the
\* list is sorted by arrival, and payloads that arrive in one tick stay in the
\* order in which they were pushed (notifyAt), so that get_next returns the
\* earliest one.
THEOREM AlwaysSorted == Spec => []Sorted
<1>1. Init => IInv /\ OrderInv
  <2>. SUFFICES ASSUME Init PROVE OrderInv
    BY InitIInv
  <2>2. mEntries = <<>>
    BY DEF Init
  <2>3. Len(mEntries) = 0
    BY <2>2
  <2>. QED
    BY <2>3 DEF OrderInv, InOrder, Numbered
<1>2. IInv /\ OrderInv /\ [Next]_vars => IInv' /\ OrderInv'
  BY NextKeeps, NextKeepsOrder DEF IInv
<1>3. IInv /\ OrderInv => Sorted
  <2>. SUFFICES ASSUME IInv, OrderInv PROVE Sorted
    OBVIOUS
  <2>2. DOMAIN mEntries = 1 .. Len(mEntries)
    BY DEF IInv, PeqType
  <2>3. InOrder(mEntries)
    BY DEF OrderInv
  <2>. QED
    BY <2>2, <2>3 DEF InOrder, Sorted
<1>. QED
  BY <1>1, <1>2, <1>3, PTL DEF Spec
=============================================================================
