---------------------------- MODULE ClockProofs ----------------------------
(***************************************************************************)
(* Theorems about the clocks of scml_clocks and their users.               *)
(*                                                                         *)
(* ClockEngine: for every tree of clocks that are not inverted, whatever   *)
(* their periods, multipliers and start times are, and however they are    *)
(* changed, each update drives an edge, the signal and get_clock_count()   *)
(* are those of the active parameters, and new parameters start ahead of   *)
(* the time they are taken over at.  Dividers of a source start on every   *)
(* multiplier-th of its periods.                                           *)
(*                                                                         *)
(* ClockedTimer: for timers that are called only while the simulation      *)
(* runs, the assertions hold and the timer implements TimerService.        *)
(***************************************************************************)
EXTENDS ClockEngine, ClockedTimer, FiniteSetTheorems, WellFoundedInduction, TLAPS

-----------------------------------------------------------------------------
(* The invariant of the clocks.  In each period a clock goes through the   *)
(* phases below, one for each place its edges can be in: notified for a    *)
(* time, in the edge method, in the update, or put off to the next delta   *)
(* cycle because a change of parameters waits.                             *)

\* The periods a clock has started with its present parameters, and the times
\* its next one starts, its present one started, and falls in the middle.
Started(c)   == ticks[c] - mClockCountOffset[c]
NextStart(c) == mOffset[c] + Started(c) * mPeriod[c]
ThisStart(c) == NextStart(c) - mPeriod[c]
Fall(c)      == ThisStart(c) + FirstHalf(c)

Idle(c)    == ~m_cur_val[c] /\ ~m_new_val[c]
High(c)    == m_cur_val[c] /\ m_new_val[c]
Pending(c) == c \in runnable \/ c \in edgeNextDelta

\* A clock that does not run.
Stopped(c) ==
    /\ Idle(c) /\ ~Pending(c) /\ ~mEngineActive[c] /\ edgeTime[c] = Never
    /\ Started(c) = 0

\* Low, until the next period starts.
Low(c) ==
    /\ Idle(c) /\ ~Pending(c)
    /\ edgeTime[c] = NextStart(c) /\ now < NextStart(c)
    /\ Started(c) > 0 => Fall(c) <= now

\* The period starts now: handle_edge is to run, and then update.
RiseDue(c) ==
    /\ Idle(c) /\ c \in runnable /\ edgeTime[c] = Never
    /\ now = NextStart(c)

Rising(c) ==
    /\ ~m_cur_val[c] /\ m_new_val[c] /\ ~Pending(c) /\ edgeTime[c] = Never
    /\ now = NextStart(c)
    /\ mEngineActive[c]

\* High, until the middle of the period.
Up(c) ==
    /\ High(c) /\ ~Pending(c) /\ edgeTime[c] = Fall(c) /\ Started(c) > 0
    /\ ThisStart(c) <= now /\ now < Fall(c)

\* The period has just started, and a change waits for the next delta cycle.
Deferred(c) ==
    /\ High(c) /\ c \in edgeNextDelta /\ c \notin updates /\ edgeTime[c] = Never
    /\ Started(c) > 0
    /\ now = ThisStart(c) /\ mParametersChanged[c]

\* The middle of the period, or the next delta cycle: handle_edge is to run,
\* and then update.
AtFall(c) == now = Fall(c) \/ (now = ThisStart(c) /\ mParametersChanged[c])

FallDue(c) ==
    /\ High(c) /\ c \in runnable /\ edgeTime[c] = Never /\ Started(c) > 0
    /\ AtFall(c)

Falling(c) ==
    /\ m_cur_val[c] /\ ~m_new_val[c] /\ ~Pending(c) /\ edgeTime[c] = Never
    /\ Started(c) > 0
    /\ AtFall(c)

Phase(c) ==
    IF mRunning[c]
    THEN /\ \/ Low(c) \/ RiseDue(c) \/ Rising(c)
            \/ Up(c) \/ Deferred(c) \/ FallDue(c) \/ Falling(c)
         /\ mEngineActive[c] <=> (Started(c) > 0 \/ Rising(c))
    ELSE Stopped(c)

\* A clock requests an update for an edge or for a change, and a change is
\* taken over in this delta cycle or the next.
Requested(c) ==
    /\ m_cur_val[c] # m_new_val[c] => c \in updates
    /\ c \in updates => mParametersChanged[c] \/ m_cur_val[c] # m_new_val[c]
    /\ mParametersChanged[c] => c \in updates \/ Pending(c)

\* What the kernel has left to do in the update and the evaluation phase.
KernelPhases ==
    /\ updating => runnable = {}
    /\ ~updating => edgeNextDelta = {}

\* A source that was changed at this time restarts one period from now.
SourceRestarts ==
    \A c \in Sources : mParametersChanged[c] =>
        IF cEnabled[c] THEN cOffset[c] > now ELSE cOffset[c] = now

EngineTypes ==
    /\ now \in Nat /\ updating \in BOOLEAN
    /\ runnable \subseteq Clock /\ updates \subseteq Clock
    /\ edgeNextDelta \subseteq Clock /\ edgeTime \in [Clock -> Nat \cup {Never}]
    /\ m_cur_val \in [Clock -> BOOLEAN] /\ m_new_val \in [Clock -> BOOLEAN]
    /\ mRunning \in [Clock -> BOOLEAN] /\ mEngineActive \in [Clock -> BOOLEAN]
    /\ mParametersChanged \in [Clock -> BOOLEAN] /\ cEnabled \in [Clock -> BOOLEAN]
    /\ mEngineEnabled \in [Clock -> BOOLEAN]
    /\ mPeriod \in [Clock -> Nat \ {0, 1}] /\ mOffset \in [Clock -> Nat]
    /\ mClockCountOffset \in [Clock -> Nat] /\ ticks \in [Clock -> Nat]
    /\ cMultiplier \in [Clock -> Nat \ {0}]
    /\ mCurrentPeriodMultiplier \in [Clock -> Nat \ {0}]
    /\ mRemainingMasterPeriods \in [Clock -> Nat \cup {Unknown}]
    /\ cPeriod \in [Sources -> Period] /\ cOffset \in [Sources -> Nat]
    /\ \A c \in Clock : Started(c) >= 0

\* The inductive invariant.
ClockInv ==
    /\ EngineTypes /\ KernelPhases /\ SourceRestarts
    /\ \A c \in Clock : Phase(c) /\ Requested(c)


-----------------------------------------------------------------------------
(* Arithmetic.                                                             *)

\* A set of natural numbers that is not empty has a least element.
LEMMA MinExists ==
  ASSUME NEW S \in SUBSET Nat, S # {}
  PROVE  \E x \in S : \A y \in S : x <= y
<1> DEFINE Less == OpToRel(<, Nat)
<1>1. IsWellFoundedOn(Less, Nat)
  BY NatLessThanWellFounded
<1>2. ASSUME NEW x \in Nat, NEW y \in Nat, x < y
      PROVE  <<x, y>> \in Less
  BY <1>2 DEF OpToRel
<1> HIDE DEF Less
<1>3. PICK x \in S : \A y \in S : <<y, x>> \notin Less
  BY <1>1, WFMin
<1>4. ASSUME NEW y \in S PROVE x <= y
  <2>1. x \in Nat /\ y \in Nat /\ <<y, x>> \notin Less
    BY <1>3
  <2>2. ~(y < x)
    BY <1>2, <2>1
  <2> QED BY <2>1, <2>2
<1> QED BY <1>3, <1>4

\* Both halves of a period have a length.
LEMMA Halves ==
  ASSUME NEW p \in Nat \ {0, 1}
  PROVE  p \div 2 \in Nat /\ 0 < p \div 2 /\ p \div 2 < p
OBVIOUS

\* The quotient and the remainder of a are known from the multiple of p below it.
LEMMA Division ==
  ASSUME NEW q \in Nat, NEW p \in Nat \ {0}, NEW a \in Nat, q * p <= a, a < q * p + p
  PROVE  a \div p = q /\ a % p = a - q * p
<1> DEFINE d == a \div p
           r == a % p
<1>1. d \in Int /\ r \in 0 .. p - 1 /\ a = p * d + r
  OBVIOUS
<1> HIDE DEF d, r
<1>2. ASSUME d < q PROVE FALSE
  <2>1. PICK e \in Nat : q = d + 1 + e
    <3>1. q - d - 1 \in Nat /\ q = d + 1 + (q - d - 1)
      BY <1>1, <1>2
    <3> QED BY <3>1
  <2>2. q * p = p * d + p + e * p /\ e * p \in Nat /\ p * d \in Int
    BY <1>1, <2>1
  <2> QED BY <1>1, <2>2
<1>3. ASSUME d > q PROVE FALSE
  <2>1. PICK e \in Nat : d = q + 1 + e
    <3>1. d - q - 1 \in Nat /\ d = q + 1 + (d - q - 1)
      BY <1>1, <1>3
    <3> QED BY <3>1
  <2>2. p * d = q * p + p + e * p /\ e * p \in Nat /\ q * p \in Int
    BY <1>1, <2>1
  <2> QED BY <1>1, <2>2
<1>4. d = q
  BY <1>1, <1>2, <1>3
<1>5. q * p = p * d /\ q * p \in Int
  BY <1>4
<1>6. a % p = a - q * p
  BY <1>1, <1>5 DEF r
<1> QED BY <1>4, <1>6 DEF d

\* A product one longer is one factor more.
LEMMA Product ==
  ASSUME NEW n \in Nat, NEW p \in Nat
  PROVE  n * p \in Nat /\ (n + 1) * p = n * p + p /\ 0 * p = 0
OBVIOUS

-----------------------------------------------------------------------------
(* Recursion over the clocks: each clock's value is computed from its      *)
(* parent's.                                                               *)

Computes(f, first, derived) ==
    f = [c \in Clock |-> IF Parent[c] = NoClock THEN first[c]
                         ELSE derived[<<c, f[Parent[c]]>>]]

\* The engines are made of their parents: a value that each clock computes from
\* its parent's exists for every tree of clocks.
LEMMA Recursion ==
  ASSUME NEW V, NEW first \in [Clock -> V], NEW derived \in [Clock \X V -> V]
  PROVE  \E g \in [Clock -> V] : Computes(g, first, derived)
<1>1. PICK rank \in [Clock -> 0 .. Cardinality(Clock)] :
          \A c \in Clock : Parent[c] # NoClock => rank[Parent[c]] < rank[c]
  BY ClockAssumption
<1>2. Cardinality(Clock) \in Nat
  BY ClockAssumption, FS_CardinalityType
<1>3. \A c \in Clock : rank[c] \in Nat /\ rank[c] <= Cardinality(Clock)
  BY <1>2
<1>4. \A c \in Clock : Parent[c] # NoClock => Parent[c] \in Clock
  BY ClockAssumption
<1> DEFINE Value(g, c) == IF Parent[c] = NoClock THEN first[c]
                          ELSE derived[<<c, g[Parent[c]]>>]
           UpTo(n) == {g \in [Clock -> V] :
                         \A c \in Clock : rank[c] < n => g[c] = Value(g, c)}
           Bad == {n \in Nat : UpTo(n) = {}}
<1>5. ASSUME NEW g \in [Clock -> V], NEW c \in Clock PROVE Value(g, c) \in V
  BY <1>4
<1>6. Bad = {}
  <2>1. SUFFICES ASSUME Bad # {} PROVE FALSE
    OBVIOUS
  <2>2. PICK m \in Bad : \A k \in Bad : m <= k
    <3> HIDE DEF UpTo
    <3> QED BY <2>1, MinExists
  <2>3. CASE m = 0
    <3>1. \A c \in Clock : ~(rank[c] < 0)
      BY <1>3
    <3>2. first \in UpTo(0)
      BY <3>1
    <3> QED BY <2>2, <2>3, <3>2
  <2>4. CASE m # 0
    <3>1. m - 1 \in Nat /\ m - 1 \notin Bad
      BY <2>2, <2>4
    <3>2. PICK g \in UpTo(m - 1) : TRUE
      BY <3>1
    <3> DEFINE h == [c \in Clock |-> Value(g, c)]
    <3>3. g \in [Clock -> V] /\ h \in [Clock -> V]
      BY <1>5, <3>2
    <3>4. ASSUME NEW c \in Clock, rank[c] < m PROVE h[c] = Value(h, c)
      <4>1. h[c] = Value(g, c)
        OBVIOUS
      <4>2. ASSUME Parent[c] # NoClock PROVE h[Parent[c]] = g[Parent[c]]
        <5>1. Parent[c] \in Clock /\ rank[Parent[c]] < m - 1
          BY <1>1, <1>3, <1>4, <2>2, <3>4, <4>2
        <5>2. g[Parent[c]] = Value(g, Parent[c])
          BY <3>2, <5>1
        <5> QED BY <5>1, <5>2
      <4> QED BY <4>1, <4>2
    <3>5. h \in UpTo(m)
      BY <3>3, <3>4
    <3> QED BY <2>2, <3>5
  <2> QED BY <2>3, <2>4
<1>7. PICK g \in UpTo(Cardinality(Clock) + 1) : TRUE
  <2>1. Cardinality(Clock) + 1 \in Nat /\ Cardinality(Clock) + 1 \notin Bad
    BY <1>2, <1>6
  <2>2. UpTo(Cardinality(Clock) + 1) # {}
    BY <2>1
  <2> HIDE DEF UpTo
  <2> QED BY <2>2
<1>8. g \in [Clock -> V] /\ \A c \in Clock : g[c] = Value(g, c)
  BY <1>2, <1>3, <1>7
<1>9. g = [c \in Clock |-> Value(g, c)]
  BY <1>8
<1> QED BY <1>8, <1>9 DEF Computes

\* What a source has, and a divider has if its parent has it, every clock has.
LEMMA TreeInduction ==
  ASSUME NEW V, NEW f,
         \A c \in Clock : (Parent[c] = NoClock \/ f[Parent[c]] \in V) => f[c] \in V
  PROVE  \A c \in Clock : f[c] \in V
<1>1. PICK rank \in [Clock -> 0 .. Cardinality(Clock)] :
          \A c \in Clock : Parent[c] # NoClock => rank[Parent[c]] < rank[c]
  BY ClockAssumption
<1>2. \A c \in Clock : rank[c] \in Nat
  BY ClockAssumption, FS_CardinalityType
<1>3. \A c \in Clock : Parent[c] # NoClock => Parent[c] \in Clock
  BY ClockAssumption
<1> DEFINE Off == {n \in Nat : \E c \in Clock : f[c] \notin V /\ rank[c] = n}
<1>4. SUFFICES ASSUME Off # {} PROVE FALSE
  BY <1>2
<1>5. PICK m \in Off : \A k \in Off : m <= k
  BY <1>4, MinExists
<1>6. PICK c \in Clock : f[c] \notin V /\ rank[c] = m
  BY <1>5
<1>7. Parent[c] # NoClock /\ Parent[c] \in Clock /\ f[Parent[c]] \notin V
  BY <1>3, <1>6
<1>8. rank[Parent[c]] \in Off /\ rank[Parent[c]] \in Nat /\ rank[Parent[c]] < m
  BY <1>1, <1>2, <1>6, <1>7
<1> QED BY <1>2, <1>5, <1>6, <1>8

\* A clock is its own ancestor; a source has no other, and the ancestors of a
\* divider are itself and those of its parent.
LEMMA AncestorsFacts ==
  /\ Ancestors \in [Clock -> SUBSET Clock]
  /\ \A c \in Clock : c \in Ancestors[c]
  /\ \A c \in Sources : Ancestors[c] = {c}
  /\ \A c \in Dividers : Parent[c] \in Clock /\ Ancestors[c] = {c} \cup Ancestors[Parent[c]]
<1>1. PICK V : V = SUBSET Clock
  OBVIOUS
<1>2. PICK first \in [Clock -> V] : \A c \in Clock : first[c] = {c}
  <2>1. [c \in Clock |-> {c}] \in [Clock -> V]
    BY <1>1
  <2> QED BY <2>1
<1>3. PICK derived \in [Clock \X V -> V] : \A c \in Clock, x \in V : derived[<<c, x>>] = {c} \cup x
  <2> DEFINE d == [z \in Clock \X V |-> {z[1]} \cup z[2]]
  <2>1. d \in [Clock \X V -> V]
    BY <1>1
  <2>2. \A c \in Clock, x \in V : d[<<c, x>>] = {c} \cup x
    OBVIOUS
  <2> HIDE DEF d
  <2> QED BY <2>1, <2>2
<1>4. PICK g \in [Clock -> V] : Computes(g, first, derived)
  BY Recursion
<1>5. \A c \in Clock : Parent[c] # NoClock => Parent[c] \in Clock
  BY ClockAssumption
<1>6. ASSUME NEW c \in Clock
      PROVE  g[c] = {c} \cup IF Parent[c] = NoClock THEN {} ELSE g[Parent[c]]
  <2>1. g[c] = IF Parent[c] = NoClock THEN first[c] ELSE derived[<<c, g[Parent[c]]>>]
    BY <1>4 DEF Computes
  <2>2. first[c] = {c}
    BY <1>2
  <2>3. Parent[c] # NoClock => derived[<<c, g[Parent[c]]>>] = {c} \cup g[Parent[c]]
    BY <1>3, <1>5
  <2> QED BY <2>1, <2>2, <2>3
<1>7. g = [c \in Clock |-> {c} \cup IF Parent[c] = NoClock THEN {} ELSE g[Parent[c]]]
  BY <1>6
<1>8. Ancestors = [c \in Clock |-> {c} \cup IF Parent[c] = NoClock THEN {} ELSE Ancestors[Parent[c]]]
  BY <1>7 DEF Ancestors
<1>9. \A c \in Clock :
         Ancestors[c] = {c} \cup IF Parent[c] = NoClock THEN {} ELSE Ancestors[Parent[c]]
  BY <1>8
<1>10. PICK f : f = Ancestors
  OBVIOUS
<1>11. ASSUME NEW c \in Clock, Parent[c] = NoClock \/ f[Parent[c]] \in V PROVE f[c] \in V
  <2>1. Parent[c] = NoClock \/ Ancestors[Parent[c]] \subseteq Clock
    BY <1>1, <1>10, <1>11
  <2>2. Ancestors[c] \subseteq Clock
    BY <1>9, <2>1
  <2> QED BY <1>1, <1>10, <2>2
<1>12. \A c \in Clock : f[c] \in V
  BY <1>11, TreeInduction
<1>13. Ancestors \in [Clock -> SUBSET Clock]
  BY <1>1, <1>8, <1>10, <1>12
<1> QED BY <1>5, <1>9, <1>13 DEF Sources, Dividers

\* A multiple of a period is a period.
LEMMA Multiplied ==
  ASSUME NEW m \in Nat \ {0}, NEW p \in Nat \ {0, 1}
  PROVE  m * p \in Nat \ {0, 1}
<1>1. PICK n \in Nat : m = n + 1
  <2>1. m - 1 \in Nat /\ m = (m - 1) + 1
    OBVIOUS
  <2> QED BY <2>1
<1>2. n * p \in Nat /\ m * p = n * p + p
  BY <1>1
<1> QED BY <1>2

\* Every clock has a configured period, of at least 2.
LEMMA ConfiguredPeriodFacts ==
  ASSUME cPeriod \in [Sources -> Period], cMultiplier \in [Clock -> Nat \ {0}]
  PROVE  /\ ConfiguredPeriod \in [Clock -> Nat \ {0, 1}]
         /\ \A c \in Clock : ConfiguredPeriod[c] =
               IF Parent[c] = NoClock THEN cPeriod[c]
               ELSE cMultiplier[c] * ConfiguredPeriod[Parent[c]]
<1>1. PICK V : V = Nat \ {0, 1}
  OBVIOUS
<1>2. PICK first \in [Clock -> V] : \A c \in Clock : Parent[c] = NoClock => first[c] = cPeriod[c]
  <2> DEFINE s == [c \in Clock |-> IF Parent[c] = NoClock THEN cPeriod[c] ELSE 2]
  <2>1. s \in [Clock -> V]
    <3>1. \A c \in Clock : Parent[c] = NoClock => cPeriod[c] \in V
      BY <1>1, ClockAssumption DEF Sources
    <3> QED BY <1>1, <3>1
  <2>2. \A c \in Clock : Parent[c] = NoClock => s[c] = cPeriod[c]
    OBVIOUS
  <2> HIDE DEF s
  <2> QED BY <2>1, <2>2
<1>3. PICK derived \in [Clock \X V -> V] :
        \A c \in Clock, x \in V : derived[<<c, x>>] = cMultiplier[c] * x
  <2> DEFINE d == [z \in Clock \X V |-> cMultiplier[z[1]] * z[2]]
  <2>1. d \in [Clock \X V -> V]
    <3>1. ASSUME NEW z \in Clock \X V PROVE cMultiplier[z[1]] * z[2] \in V
      BY <1>1, Multiplied
    <3> QED BY <3>1
  <2>2. \A c \in Clock, x \in V : d[<<c, x>>] = cMultiplier[c] * x
    OBVIOUS
  <2> HIDE DEF d
  <2> QED BY <2>1, <2>2
<1>4. PICK g \in [Clock -> V] : Computes(g, first, derived)
  BY Recursion
<1>5. \A c \in Clock : Parent[c] # NoClock => Parent[c] \in Clock
  BY ClockAssumption
<1>6. ASSUME NEW c \in Clock
      PROVE  g[c] = IF Parent[c] = NoClock THEN cPeriod[c] ELSE cMultiplier[c] * g[Parent[c]]
  <2>1. g[c] = IF Parent[c] = NoClock THEN first[c] ELSE derived[<<c, g[Parent[c]]>>]
    BY <1>4 DEF Computes
  <2>2. Parent[c] # NoClock => derived[<<c, g[Parent[c]]>>] = cMultiplier[c] * g[Parent[c]]
    BY <1>3, <1>5
  <2> QED BY <1>2, <2>1, <2>2
<1>7. g = [c \in Clock |-> IF Parent[c] = NoClock THEN cPeriod[c] ELSE cMultiplier[c] * g[Parent[c]]]
  BY <1>6
<1>8. ConfiguredPeriod = [c \in Clock |-> IF Parent[c] = NoClock THEN cPeriod[c]
                                          ELSE cMultiplier[c] * ConfiguredPeriod[Parent[c]]]
  BY <1>7 DEF ConfiguredPeriod
<1>9. \A c \in Clock : ConfiguredPeriod[c] =
         IF Parent[c] = NoClock THEN cPeriod[c] ELSE cMultiplier[c] * ConfiguredPeriod[Parent[c]]
  BY <1>8
<1>10. PICK f : f = ConfiguredPeriod
  OBVIOUS
<1>11. ASSUME NEW c \in Clock, Parent[c] = NoClock \/ f[Parent[c]] \in V PROVE f[c] \in V
  <2>1. CASE Parent[c] = NoClock
    BY <1>1, <1>9, <1>10, <2>1, ClockAssumption DEF Sources
  <2>2. CASE Parent[c] # NoClock
    <3>1. f[c] = cMultiplier[c] * f[Parent[c]] /\ f[Parent[c]] \in Nat \ {0, 1}
      BY <1>1, <1>9, <1>10, <1>11, <2>2
    <3> QED BY <1>1, <3>1, Multiplied
  <2> QED BY <2>1, <2>2
<1>12. \A c \in Clock : f[c] \in V
  BY <1>11, TreeInduction
<1>13. ConfiguredPeriod \in [Clock -> Nat \ {0, 1}]
  BY <1>1, <1>8, <1>10, <1>12
<1> QED BY <1>9, <1>13

\* The time to the next period is positive.
LEMMA NextPeriodOffsetFacts ==
  ASSUME EngineTypes, NEW c \in Clock
  PROVE  NextPeriodOffset(c) \in Nat \ {0} /\ (now >= mOffset[c] => NextPeriodOffset(c) <= mPeriod[c])
<1>1. now \in Nat /\ mOffset[c] \in Nat /\ mPeriod[c] \in Nat \ {0, 1}
  BY DEF EngineTypes
<1>2. CASE now < mOffset[c]
  BY <1>1, <1>2 DEF NextPeriodOffset
<1>3. CASE ~(now < mOffset[c])
  <2>1. (now - mOffset[c]) % mPeriod[c] \in 0 .. mPeriod[c] - 1
    BY <1>1, <1>3
  <2> QED BY <1>1, <1>3, <2>1 DEF NextPeriodOffset
<1> QED BY <1>2, <1>3

\* The next period of every clock is ahead.
LEMMA NextPeriodStartFacts ==
  ASSUME EngineTypes
  PROVE  /\ \A c \in Clock : NextPeriodStart[c] \in Nat /\ NextPeriodStart[c] > now
         /\ \A c \in Sources : NextPeriodStart[c] =
               IF now < cOffset[c] THEN cOffset[c]
               ELSE now - ((now - cOffset[c]) % cPeriod[c]) + cPeriod[c]
<1>0. /\ now \in Nat /\ cPeriod \in [Sources -> Period] /\ cOffset \in [Sources -> Nat]
      /\ cMultiplier \in [Clock -> Nat \ {0}]
      /\ mRemainingMasterPeriods \in [Clock -> Nat \cup {Unknown}]
      /\ Period \subseteq Nat \ {0, 1}
  BY ClockAssumption DEF EngineTypes
<1>a. ConfiguredPeriod \in [Clock -> Nat \ {0, 1}]
  BY <1>0, ConfiguredPeriodFacts
<1> DEFINE SourceStart(c) == IF now < cOffset[c] THEN cOffset[c]
                             ELSE now - ((now - cOffset[c]) % cPeriod[c]) + cPeriod[c]
           Skipped(c) == IF mRemainingMasterPeriods[c] > 0
                         THEN mRemainingMasterPeriods[c] * ConfiguredPeriod[Parent[c]] ELSE 0
<1>1. PICK V : V = {x \in Nat : x > now}
  OBVIOUS
<1>b. ASSUME NEW c \in Clock, Parent[c] = NoClock PROVE SourceStart(c) \in V
  <2>1. cOffset[c] \in Nat /\ cPeriod[c] \in Nat \ {0, 1}
    BY <1>0, <1>b DEF Sources
  <2>2. CASE now < cOffset[c]
    BY <1>1, <2>1, <2>2
  <2>3. CASE ~(now < cOffset[c])
    <3>1. (now - cOffset[c]) % cPeriod[c] \in 0 .. cPeriod[c] - 1
          /\ (now - cOffset[c]) % cPeriod[c] <= now - cOffset[c]
      BY <1>0, <2>1, <2>3
    <3> QED BY <1>0, <1>1, <2>1, <2>3, <3>1
  <2> QED BY <2>2, <2>3
<1>c. ASSUME NEW c \in Clock PROVE now + NextPeriodOffset(c) \in V
  BY <1>0, <1>1, NextPeriodOffsetFacts
<1>5. \A c \in Clock : Parent[c] # NoClock => Parent[c] \in Clock
  BY ClockAssumption
<1>d. ASSUME NEW c \in Clock, Parent[c] # NoClock, NEW x \in V PROVE x + Skipped(c) \in V
  <2>1. Skipped(c) \in Nat
    <3>1. ConfiguredPeriod[Parent[c]] \in Nat /\ mRemainingMasterPeriods[c] \in Nat \cup {-1}
      BY <1>0, <1>a, <1>5, <1>d DEF Unknown
    <3> QED BY <3>1
  <2> HIDE DEF Skipped
  <2> QED BY <1>0, <1>1, <2>1
<1> DEFINE Derived(c, x) == IF ~mParametersChanged[c] THEN now + NextPeriodOffset(c)
                            ELSE x + Skipped(c)
<1> HIDE DEF SourceStart, Skipped
<1>e. ASSUME NEW c \in Clock, Parent[c] # NoClock, NEW x \in V PROVE Derived(c, x) \in V
  BY <1>c, <1>d, <1>e
<1> HIDE DEF Derived
<1>2. PICK first \in [Clock -> V] : \A c \in Clock : Parent[c] = NoClock => first[c] = SourceStart(c)
  <2> DEFINE s == [c \in Clock |-> IF Parent[c] = NoClock THEN SourceStart(c) ELSE now + NextPeriodOffset(c)]
  <2>1. s \in [Clock -> V]
    BY <1>b, <1>c
  <2>2. \A c \in Clock : Parent[c] = NoClock => s[c] = SourceStart(c)
    OBVIOUS
  <2> HIDE DEF s
  <2> QED BY <2>1, <2>2
<1>3. PICK derived \in [Clock \X V -> V] :
        \A c \in Clock, x \in V : Parent[c] # NoClock => derived[<<c, x>>] = Derived(c, x)
  <2> DEFINE d == [z \in Clock \X V |-> IF Parent[z[1]] = NoClock THEN z[2] ELSE Derived(z[1], z[2])]
  <2>1. d \in [Clock \X V -> V]
    BY <1>e
  <2>2. \A c \in Clock, x \in V : Parent[c] # NoClock => d[<<c, x>>] = Derived(c, x)
    OBVIOUS
  <2> HIDE DEF d
  <2> QED BY <2>1, <2>2
<1>4. PICK g \in [Clock -> V] : Computes(g, first, derived)
  BY Recursion
<1>6. ASSUME NEW c \in Clock
      PROVE  g[c] = IF Parent[c] = NoClock THEN SourceStart(c) ELSE Derived(c, g[Parent[c]])
  <2>1. g[c] = IF Parent[c] = NoClock THEN first[c] ELSE derived[<<c, g[Parent[c]]>>]
    BY <1>4 DEF Computes
  <2>2. Parent[c] # NoClock => derived[<<c, g[Parent[c]]>>] = Derived(c, g[Parent[c]])
    BY <1>3, <1>5
  <2> QED BY <1>2, <2>1, <2>2
<1>7. g = [c \in Clock |-> IF Parent[c] = NoClock THEN SourceStart(c) ELSE Derived(c, g[Parent[c]])]
  BY <1>6
<1>8. NextPeriodStart = [c \in Clock |-> IF Parent[c] = NoClock THEN SourceStart(c)
                                         ELSE Derived(c, NextPeriodStart[Parent[c]])]
  BY <1>7 DEF NextPeriodStart, SourceStart, Derived, Skipped
<1>9. \A c \in Clock : NextPeriodStart[c] =
         IF Parent[c] = NoClock THEN SourceStart(c) ELSE Derived(c, NextPeriodStart[Parent[c]])
  BY <1>8
<1>10. PICK f : f = NextPeriodStart
  OBVIOUS
<1>11. ASSUME NEW c \in Clock, Parent[c] = NoClock \/ f[Parent[c]] \in V PROVE f[c] \in V
  <2>1. CASE Parent[c] = NoClock
    BY <1>b, <1>9, <1>10, <2>1
  <2>2. CASE Parent[c] # NoClock
    BY <1>e, <1>9, <1>10, <1>11, <2>2
  <2> QED BY <2>1, <2>2
<1>12. \A c \in Clock : f[c] \in V
  BY <1>11, TreeInduction
<1>13. ASSUME NEW c \in Sources PROVE NextPeriodStart[c] = SourceStart(c)
  BY <1>9 DEF Sources
<1> QED BY <1>1, <1>10, <1>12, <1>13 DEF SourceStart

\* The quotient of a number below m * p is below m.
LEMMA QuotientBelow ==
  ASSUME NEW a \in Nat, NEW p \in Nat \ {0}, NEW m \in Nat, a < m * p
  PROVE  a \div p \in Nat /\ a \div p < m
<1> DEFINE d == a \div p
           r == a % p
<1>1. d \in Nat /\ r \in 0 .. p - 1 /\ a = p * d + r
  OBVIOUS
<1> HIDE DEF d, r
<1>2. ASSUME ~(d < m) PROVE FALSE
  <2>1. PICK e \in Nat : d = m + e
    <3>1. d - m \in Nat /\ d = m + (d - m)
      BY <1>1, <1>2
    <3> QED BY <3>1
  <2>2. p * d = m * p + e * p /\ e * p \in Nat /\ m * p \in Nat
    BY <2>1
  <2> QED BY <1>1, <2>2
<1> QED BY <1>1, <1>2 DEF d

\* Arithmetic in double loses at most one parent period, of several, and none
\* of a multiplier for which it is exact.
LEMMA ConsumedFacts ==
  ASSUME NEW a \in Nat, NEW m \in Nat \ {0}, NEW p \in Nat \ {0}, a < p
  PROVE  /\ (a * m) \div p \in Nat /\ (a * m) \div p < m
         /\ ConsumedMasterTicks(a, m, p) \in Nat
         /\ ConsumedMasterTicks(a, m, p) <= (a * m) \div p
         /\ Exact(m) => ConsumedMasterTicks(a, m, p) = (a * m) \div p
<1>1. a * m \in Nat /\ a * m < m * p
  <2>1. PICK e \in Nat : p = a + 1 + e
    <3>1. p - a - 1 \in Nat /\ p = a + 1 + (p - a - 1)
      OBVIOUS
    <3> QED BY <3>1
  <2>2. m * p = a * m + m + e * m /\ e * m \in Nat /\ a * m \in Nat
    BY <2>1
  <2> QED BY <2>2
<1>2. PICK q \in Nat : q = (a * m) \div p /\ q < m
  BY <1>1, QuotientBelow
<1>3. <<q, m>> \in RoundedDown => 0 < q /\ ~Exact(m)
  BY RoundingAssumption DEF Exact
<1>4. ConsumedMasterTicks(a, m, p) =
        IF (a * m) % p = 0 /\ <<q, m>> \in RoundedDown THEN q - 1 ELSE q
  BY <1>2 DEF ConsumedMasterTicks
<1> QED BY <1>2, <1>3, <1>4

\* The parent periods left to skip are a number, or unknown.
LEMMA RemainingPeriodsFacts ==
  ASSUME EngineTypes, NEW c \in Clock
  PROVE  RemainingPeriods(c) \in Nat \cup {Unknown}
<1>1. /\ mRemainingMasterPeriods[c] \in Nat \cup {Unknown}
      /\ mCurrentPeriodMultiplier[c] \in Nat \ {0} /\ mPeriod[c] \in Nat \ {0, 1}
  BY DEF EngineTypes
<1>2. ASSUME ~(NextPeriodOffset(c) > mPeriod[c])
      PROVE  mCurrentPeriodMultiplier[c] - 1
               - ConsumedMasterTicks(mPeriod[c] - NextPeriodOffset(c),
                                     mCurrentPeriodMultiplier[c], mPeriod[c]) \in Nat
  <2>1. PICK k \in Nat, m \in Nat \ {0}, p \in Nat \ {0} :
          /\ k = mPeriod[c] - NextPeriodOffset(c) /\ k < p
          /\ m = mCurrentPeriodMultiplier[c] /\ p = mPeriod[c]
    BY <1>1, <1>2, NextPeriodOffsetFacts
  <2>2. PICK q \in Nat, t \in Nat : t = ConsumedMasterTicks(k, m, p) /\ t <= q /\ q < m
    <3>1. /\ (k * m) \div p \in Nat /\ (k * m) \div p < m
          /\ ConsumedMasterTicks(k, m, p) \in Nat
          /\ ConsumedMasterTicks(k, m, p) <= (k * m) \div p
      BY <2>1, ConsumedFacts
    <3> QED BY <3>1
  <2> QED BY <2>1, <2>2
<1> QED BY <1>1, <1>2 DEF RemainingPeriods

\* A source runs when it is enabled, and a change of a source is asked of its
\* descendants only.
LEMMA TreeFacts ==
  ASSUME NEW c \in Sources
  PROVE  /\ ConfiguredRunning(c) <=> cEnabled[c]
         /\ \A d \in Clock : c \in Descendants(d) => d = c
<1>1. c \in Clock /\ Ancestors[c] = {c}
  BY AncestorsFacts DEF Sources
<1> QED BY <1>1 DEF ConfiguredRunning, Descendants

\* Where the first period with new parameters starts.
LEMMA NextOffsetFacts ==
  ASSUME EngineTypes, SourceRestarts, NEW c \in Clock, mParametersChanged[c]
  PROVE  /\ NextOffset(c) \in Nat
         /\ IF ConfiguredRunning(c) THEN NextOffset(c) > now ELSE NextOffset(c) = now
<1>1. CASE c \in Sources
  <2>1. NextOffset(c) = cOffset[c] /\ cOffset[c] \in Nat
    BY <1>1 DEF NextOffset, EngineTypes
  <2> QED BY <1>1, <2>1, TreeFacts DEF SourceRestarts
<1>2. CASE c \notin Sources
  <2>1. Parent[c] \in Clock /\ now \in Nat
    BY <1>2, AncestorsFacts DEF Dividers, EngineTypes
  <2>2. NextPeriodStart[Parent[c]] \in Nat /\ NextPeriodStart[Parent[c]] > now
    BY <2>1, NextPeriodStartFacts
  <2>3. ConfiguredPeriod[Parent[c]] \in Nat
    BY <2>1, ConfiguredPeriodFacts DEF EngineTypes
  <2>4. (IF RemainingPeriods(c) > 0 THEN RemainingPeriods(c) * ConfiguredPeriod[Parent[c]] ELSE 0) \in Nat
    BY <2>3, RemainingPeriodsFacts DEF Unknown
  <2> QED BY <1>2, <2>1, <2>2, <2>4 DEF NextOffset
<1> QED BY <1>1, <1>2

\* The offset a clock is configured with.
LEMMA ConfiguredOffsetFacts ==
  ASSUME cPeriod \in [Sources -> Period], cOffset \in [Sources -> Nat],
         cMultiplier \in [Clock -> Nat \ {0}]
  PROVE  /\ ConfiguredOffset \in [Clock -> Nat]
         /\ \A c \in Clock : ConfiguredOffset[c] =
               IF Parent[c] = NoClock THEN cOffset[c]
               ELSE ConfiguredOffset[Parent[c]]
                      + StartMultiplier[c] * ConfiguredPeriod[Parent[c]]
<1>0. ConfiguredPeriod \in [Clock -> Nat \ {0, 1}]
  BY ConfiguredPeriodFacts
<1> DEFINE Skipped(c) == StartMultiplier[c] * ConfiguredPeriod[Parent[c]]
<1>1. PICK V : V = Nat
  OBVIOUS
<1>5. \A c \in Clock : Parent[c] # NoClock => Parent[c] \in Clock
  BY ClockAssumption
<1>b. ASSUME NEW c \in Clock, Parent[c] = NoClock PROVE cOffset[c] \in V
  BY <1>1, <1>b DEF Sources
<1>c. ASSUME NEW c \in Clock, Parent[c] # NoClock, NEW x \in V PROVE x + Skipped(c) \in V
  <2>1. Skipped(c) \in Nat
    BY <1>0, <1>5, <1>c, ClockAssumption
  <2> HIDE DEF Skipped
  <2> QED BY <1>1, <2>1
<1> HIDE DEF Skipped
<1>2. PICK first \in [Clock -> V] : \A c \in Clock : Parent[c] = NoClock => first[c] = cOffset[c]
  <2> DEFINE s == [c \in Clock |-> IF Parent[c] = NoClock THEN cOffset[c] ELSE 0]
  <2>1. s \in [Clock -> V]
    BY <1>1, <1>b
  <2>2. \A c \in Clock : Parent[c] = NoClock => s[c] = cOffset[c]
    OBVIOUS
  <2> HIDE DEF s
  <2> QED BY <2>1, <2>2
<1>3. PICK derived \in [Clock \X V -> V] :
        \A c \in Clock, x \in V : Parent[c] # NoClock => derived[<<c, x>>] = x + Skipped(c)
  <2> DEFINE d == [z \in Clock \X V |-> IF Parent[z[1]] = NoClock THEN z[2] ELSE z[2] + Skipped(z[1])]
  <2>1. d \in [Clock \X V -> V]
    BY <1>c
  <2>2. \A c \in Clock, x \in V : Parent[c] # NoClock => d[<<c, x>>] = x + Skipped(c)
    OBVIOUS
  <2> HIDE DEF d
  <2> QED BY <2>1, <2>2
<1>4. PICK g \in [Clock -> V] : Computes(g, first, derived)
  BY Recursion
<1>6. ASSUME NEW c \in Clock
      PROVE  g[c] = IF Parent[c] = NoClock THEN cOffset[c] ELSE g[Parent[c]] + Skipped(c)
  <2>1. g[c] = IF Parent[c] = NoClock THEN first[c] ELSE derived[<<c, g[Parent[c]]>>]
    BY <1>4 DEF Computes
  <2>2. Parent[c] # NoClock => derived[<<c, g[Parent[c]]>>] = g[Parent[c]] + Skipped(c)
    BY <1>3, <1>5
  <2> QED BY <1>2, <2>1, <2>2
<1>7. g = [c \in Clock |-> IF Parent[c] = NoClock THEN cOffset[c] ELSE g[Parent[c]] + Skipped(c)]
  BY <1>6
<1>8. ConfiguredOffset = [c \in Clock |-> IF Parent[c] = NoClock THEN cOffset[c]
                                          ELSE ConfiguredOffset[Parent[c]] + Skipped(c)]
  BY <1>7 DEF ConfiguredOffset, Skipped
<1>9. \A c \in Clock : ConfiguredOffset[c] =
         IF Parent[c] = NoClock THEN cOffset[c] ELSE ConfiguredOffset[Parent[c]] + Skipped(c)
  BY <1>8
<1>10. PICK f : f = ConfiguredOffset
  OBVIOUS
<1>11. ASSUME NEW c \in Clock, Parent[c] = NoClock \/ f[Parent[c]] \in V PROVE f[c] \in V
  <2>1. CASE Parent[c] = NoClock
    BY <1>b, <1>9, <1>10, <2>1
  <2>2. CASE Parent[c] # NoClock
    BY <1>c, <1>9, <1>10, <1>11, <2>2
  <2> QED BY <2>1, <2>2
<1>12. \A c \in Clock : f[c] \in V
  BY <1>11, TreeInduction
<1> QED BY <1>1, <1>8, <1>9, <1>10, <1>12 DEF Skipped

\* What a step leaves alone: a clock it does not touch stays in its phase.
LEMMA SamePhase ==
  ASSUME NEW c \in Clock, Phase(c), now' = now,
         c \in runnable' <=> c \in runnable, c \in edgeNextDelta' <=> c \in edgeNextDelta,
         c \in edgeNextDelta /\ c \in updates' => c \in updates,
         edgeTime'[c] = edgeTime[c], m_cur_val'[c] = m_cur_val[c],
         m_new_val'[c] = m_new_val[c], mPeriod'[c] = mPeriod[c], mOffset'[c] = mOffset[c],
         mRunning'[c] = mRunning[c], mEngineActive'[c] = mEngineActive[c],
         mClockCountOffset'[c] = mClockCountOffset[c], ticks'[c] = ticks[c],
         mParametersChanged[c] => mParametersChanged'[c]
  PROVE  Phase(c)'
<1>1. /\ Started(c)' = Started(c) /\ NextStart(c)' = NextStart(c)
      /\ ThisStart(c)' = ThisStart(c) /\ Fall(c)' = Fall(c)
  BY DEF Started, NextStart, ThisStart, Fall, FirstHalf
<1>2. (Idle(c)' <=> Idle(c)) /\ (High(c)' <=> High(c)) /\ (Pending(c)' <=> Pending(c))
  BY DEF Idle, High, Pending
<1>3. AtFall(c) => AtFall(c)'
  BY <1>1 DEF AtFall
<1>4. CASE mRunning[c]
  <2>1. (Low(c) => Low(c)') /\ (RiseDue(c) => RiseDue(c)')
    BY <1>1, <1>2 DEF Low, RiseDue
  <2>2. Rising(c)' <=> Rising(c)
    BY <1>1, <1>2 DEF Rising
  <2>3. (Up(c) => Up(c)') /\ (Deferred(c) => Deferred(c)')
    BY <1>1, <1>2 DEF Up, Deferred
  <2>4. (FallDue(c) => FallDue(c)') /\ (Falling(c) => Falling(c)')
    BY <1>1, <1>2, <1>3 DEF FallDue, Falling
  <2> QED BY <1>1, <1>4, <2>1, <2>2, <2>3, <2>4 DEF Phase
<1>5. CASE ~mRunning[c]
  BY <1>1, <1>2, <1>5 DEF Phase, Stopped
<1> QED BY <1>4, <1>5

\* A clock that a step does not touch still requests the updates it needs.
LEMMA SameRequest ==
  ASSUME NEW c \in Clock, Requested(c),
         c \in runnable' <=> c \in runnable, c \in edgeNextDelta' <=> c \in edgeNextDelta,
         c \in updates' <=> c \in updates, m_cur_val'[c] = m_cur_val[c],
         m_new_val'[c] = m_new_val[c], mParametersChanged'[c] = mParametersChanged[c]
  PROVE  Requested(c)'
BY DEF Requested, Pending

\* The times of a clock are numbers, and an edge lies between two starts.
LEMMA TimesFacts ==
  ASSUME EngineTypes, NEW c \in Clock
  PROVE  /\ Started(c) \in Nat /\ NextStart(c) \in Nat /\ mPeriod[c] \in Nat
         /\ FirstHalf(c) \in Nat /\ 0 < FirstHalf(c) /\ FirstHalf(c) < mPeriod[c]
         /\ Started(c) = 0 => NextStart(c) = mOffset[c]
         /\ ThisStart(c) \in Int /\ ThisStart(c) = NextStart(c) - mPeriod[c]
         /\ Fall(c) \in Int /\ Fall(c) = ThisStart(c) + FirstHalf(c)
<1>1. /\ mOffset[c] \in Nat /\ mPeriod[c] \in Nat \ {0, 1} /\ ticks[c] \in Nat
      /\ mClockCountOffset[c] \in Nat /\ Started(c) >= 0
  BY DEF EngineTypes
<1>2. Started(c) \in Nat
  BY <1>1 DEF Started
<1>3. Started(c) * mPeriod[c] \in Nat /\ (Started(c) = 0 => Started(c) * mPeriod[c] = 0)
  BY <1>1, <1>2
<1>4. NextStart(c) \in Nat /\ (Started(c) = 0 => NextStart(c) = mOffset[c])
  BY <1>1, <1>3 DEF NextStart
<1>5. FirstHalf(c) \in Nat /\ 0 < FirstHalf(c) /\ FirstHalf(c) < mPeriod[c]
  BY <1>1, Halves DEF FirstHalf
<1> QED BY <1>1, <1>2, <1>4, <1>5 DEF ThisStart, Fall

\* In the period that was started last, the division of get_clock_count and
\* that of get_next_edge_offset find its number and its start.
LEMMA InPeriod ==
  ASSUME EngineTypes, NEW c \in Clock, Started(c) > 0, ThisStart(c) <= now, now < NextStart(c)
  PROVE  /\ now >= mOffset[c]
         /\ (now - mOffset[c]) \div mPeriod[c] = Started(c) - 1
         /\ (now - mOffset[c]) % mPeriod[c] = now - ThisStart(c)
<1>1. PICK q \in Nat, p \in Nat \ {0}, o \in Nat, t \in Nat :
        q = Started(c) - 1 /\ p = mPeriod[c] /\ o = mOffset[c] /\ t = now
  <2>1. Started(c) - 1 \in Nat /\ mPeriod[c] \in Nat \ {0} /\ mOffset[c] \in Nat /\ now \in Nat
    BY TimesFacts DEF EngineTypes
  <2> QED BY <2>1
<1>2. q * p \in Nat /\ Started(c) * mPeriod[c] = q * p + p
  <2>1. Started(c) = q + 1
    BY <1>1, TimesFacts
  <2>2. q * p \in Nat /\ (q + 1) * p = q * p + p
    BY Product
  <2> QED BY <1>1, <2>1, <2>2
<1>3. ThisStart(c) = o + q * p /\ NextStart(c) = o + (q * p + p)
  BY <1>1, <1>2 DEF ThisStart, NextStart
<1>4. q * p <= t - o /\ t - o < q * p + p /\ t - o \in Nat
  BY <1>1, <1>2, <1>3
<1>5. (t - o) \div p = q /\ (t - o) % p = t - o - q * p
  BY <1>4, Division
<1> QED BY <1>1, <1>2, <1>3, <1>4, <1>5

\* get_clock_count() is right, except while the edge that starts a period is due.
LEMMA CountIsRight ==
  ASSUME EngineTypes, NEW c \in Clock, Phase(c), mRunning[c] => ~RiseDue(c) /\ ~Rising(c)
  PROVE  GetClockCount(c) = ticks[c]
<1>0. /\ now \in Nat /\ mOffset[c] \in Nat /\ ticks[c] \in Nat
      /\ mClockCountOffset[c] \in Nat /\ mRunning[c] \in BOOLEAN
  BY DEF EngineTypes
<1>1. CASE ~mRunning[c]
  <2>1. ticks[c] - mClockCountOffset[c] = 0
    BY <1>1 DEF Phase, Stopped, Started
  <2> QED BY <1>0, <1>1, <2>1 DEF GetClockCount
<1>2. CASE mRunning[c] /\ Started(c) = 0
  <2>1. now < mOffset[c]
    BY <1>2, TimesFacts DEF Phase, Low, Up, Deferred, FallDue, Falling
  <2>2. ticks[c] = mClockCountOffset[c]
    BY <1>0, <1>2 DEF Started
  <2> QED BY <2>1, <2>2 DEF GetClockCount
<1>3. CASE mRunning[c] /\ Started(c) > 0
  <2>1. ThisStart(c) <= now /\ now < NextStart(c)
    BY <1>0, <1>3, TimesFacts DEF Phase, Low, Up, Deferred, FallDue, Falling, AtFall
  <2>2. (now - mOffset[c]) \div mPeriod[c] = Started(c) - 1 /\ now >= mOffset[c]
    BY <1>3, <2>1, InPeriod
  <2>3. GetClockCount(c) = mClockCountOffset[c] + (Started(c) - 1) + 1
    BY <1>0, <1>3, <2>2 DEF GetClockCount
  <2> QED BY <1>0, <2>3 DEF Started
<1> QED BY <1>1, <1>2, <1>3, TimesFacts

-----------------------------------------------------------------------------
(* The inductive invariant.                                                *)

\* The clocks start in their phases: low, or with an edge due at time 0.
LEMMA InitInv ==
  ASSUME Inverted = {}, Init
  PROVE  ClockInv
<1>1. /\ cMultiplier \in [Clock -> Nat \ {0}] /\ cEnabled \in [Clock -> BOOLEAN]
      /\ cPeriod \in [Sources -> Period] /\ cOffset \in [Sources -> Nat]
  <2>1. Multiplier \cup {1} \subseteq Nat \ {0} /\ 0 .. MaxOffset \subseteq Nat
    BY ClockAssumption
  <2>2. cMultiplier \in [Clock -> Multiplier \cup {1}]
    BY DEF Init
  <2>3. cMultiplier \in [Clock -> Nat \ {0}]
    BY <2>1, <2>2
  <2> QED BY <2>1, <2>3 DEF Init
<1>2. mPeriod \in [Clock -> Nat \ {0, 1}] /\ mOffset \in [Clock -> Nat]
  BY <1>1, ConfiguredPeriodFacts, ConfiguredOffsetFacts DEF Init
<1>3. mRunning \in [Clock -> BOOLEAN]
  BY DEF Init, ConfiguredRunning
<1>4. \A c \in Clock : m_cur_val[c] = FALSE /\ m_new_val[c] = FALSE
  <2>1. m_cur_val = [c \in Clock |-> mRunning[c] /\ c \in Inverted]
        /\ m_new_val = [c \in Clock |-> FALSE]
    BY DEF Init
  <2> QED BY <2>1
<1>5. m_cur_val \in [Clock -> BOOLEAN] /\ m_new_val \in [Clock -> BOOLEAN]
  BY DEF Init
<1>6. \A c \in Clock : ticks[c] = 0 /\ mClockCountOffset[c] = 0 /\ Started(c) = 0
  BY DEF Init, Started
<1>7. edgeTime \in [Clock -> Nat \cup {Never}]
  BY <1>2 DEF Init
<1>8. EngineTypes
  <2>1. now \in Nat /\ updating \in BOOLEAN /\ runnable \subseteq Clock /\ updates \subseteq Clock
        /\ edgeNextDelta \subseteq Clock
    BY DEF Init
  <2>2. mEngineActive \in [Clock -> BOOLEAN] /\ mParametersChanged \in [Clock -> BOOLEAN]
        /\ mEngineEnabled \in [Clock -> BOOLEAN]
    BY DEF Init
  <2>3. mClockCountOffset \in [Clock -> Nat] /\ ticks \in [Clock -> Nat]
        /\ mCurrentPeriodMultiplier \in [Clock -> Nat \ {0}]
        /\ mRemainingMasterPeriods \in [Clock -> Nat \cup {Unknown}]
    BY <1>1 DEF Init
  <2> QED BY <1>1, <1>2, <1>3, <1>5, <1>6, <1>7, <2>1, <2>2, <2>3 DEF EngineTypes
<1>9. ASSUME NEW c \in Clock PROVE Phase(c)
  <2>1. Idle(c) /\ ~mEngineActive[c] /\ ~Rising(c)
    BY <1>4 DEF Init, Idle, Rising
  <2>2. NextStart(c) = mOffset[c] /\ Started(c) = 0
    BY <1>6, <1>8, TimesFacts
  <2>3. now = 0 /\ mOffset[c] \in Nat /\ edgeNextDelta = {}
    BY <1>2 DEF Init
  <2>4. edgeTime[c] = (IF mRunning[c] /\ mOffset[c] > 0 THEN mOffset[c] ELSE Never)
    BY DEF Init
  <2>5. c \in runnable <=> mRunning[c] /\ mOffset[c] = 0
    BY DEF Init
  <2>6. CASE mRunning[c] /\ mOffset[c] = 0
    BY <2>1, <2>2, <2>3, <2>4, <2>5, <2>6 DEF Phase, RiseDue
  <2>7. CASE mRunning[c] /\ mOffset[c] # 0
    BY <2>1, <2>2, <2>3, <2>4, <2>5, <2>7 DEF Phase, Low, Pending
  <2>8. CASE ~mRunning[c]
    BY <2>1, <2>2, <2>3, <2>4, <2>5, <2>8 DEF Phase, Stopped, Pending
  <2> QED BY <2>6, <2>7, <2>8
<1>10. ASSUME NEW c \in Clock PROVE Requested(c)
  BY <1>4 DEF Init, Requested
<1>11. KernelPhases /\ SourceRestarts
  BY DEF Init, KernelPhases, SourceRestarts, Sources
<1> QED BY <1>8, <1>9, <1>10, <1>11 DEF ClockInv

\* A setter disturbs no edge, and it asks for an update of each clock it changes.
LEMMA SetterKeeps ==
  ASSUME ClockInv, NEW c \in Clock, Setter(c)
  PROVE  /\ mParametersChanged' \in [Clock -> BOOLEAN] /\ updates' \subseteq Clock
         /\ KernelPhases'
         /\ \A d \in Clock : Phase(d)' /\ Requested(d)'
         /\ \A d \in Clock : mParametersChanged[d] => mParametersChanged'[d]
         /\ \A d \in Sources : mParametersChanged'[d] => d = c \/ mParametersChanged[d]
<1>1. /\ \A d \in Clock : mParametersChanged'[d] <=> mParametersChanged[d] \/ d \in Descendants(c)
      /\ mParametersChanged' \in [Clock -> BOOLEAN]
      /\ updates' = updates \cup {d \in Descendants(c) : ~mParametersChanged[d]}
      /\ ~updating /\ edgeNextDelta = {}
  BY DEF Setter, ParametersChanged, ClockInv, EngineTypes, KernelPhases
<1>2. /\ now' = now /\ updating' = updating /\ runnable' = runnable /\ edgeTime' = edgeTime
      /\ edgeNextDelta' = edgeNextDelta /\ m_cur_val' = m_cur_val /\ m_new_val' = m_new_val
      /\ mPeriod' = mPeriod /\ mOffset' = mOffset /\ mRunning' = mRunning
      /\ mEngineActive' = mEngineActive /\ mClockCountOffset' = mClockCountOffset
      /\ ticks' = ticks
  BY DEF Setter, kernel, engineState
<1>3. updates' \subseteq Clock
  BY <1>1 DEF ClockInv, EngineTypes, Descendants
<1>4. KernelPhases'
  BY <1>2 DEF ClockInv, KernelPhases
<1>5. ASSUME NEW d \in Clock PROVE Phase(d)'
  BY <1>1, <1>2, SamePhase DEF ClockInv
<1>6. ASSUME NEW d \in Clock PROVE Requested(d)'
  BY <1>1, <1>2 DEF ClockInv, Requested, Pending
<1>7. ASSUME NEW d \in Sources, mParametersChanged'[d] PROVE d = c \/ mParametersChanged[d]
  <2>1. d \in Clock /\ (d \in Descendants(c) => c = d)
    BY AncestorsFacts DEF Sources, Descendants
  <2> QED BY <1>1, <1>7, <2>1
<1> QED BY <1>1, <1>3, <1>4, <1>5, <1>6, <1>7

\* master_configurator::handle_parameters_changed restarts the source ahead.
LEMMA SourceChangedKeeps ==
  ASSUME ClockInv, NEW c \in Sources, NEW enabled \in BOOLEAN, NEW period \in Period,
         SourceChanged(c, enabled, period)
  PROVE  ClockInv'
<1>1. c \in Clock /\ Setter(c) /\ now \in Nat /\ period \in Nat \ {0, 1}
  BY ClockAssumption DEF SourceChanged, Sources, ClockInv, EngineTypes
<1>2. EngineTypes'
  <2>1. /\ cEnabled' \in [Clock -> BOOLEAN] /\ cPeriod' \in [Sources -> Period]
        /\ cOffset' \in [Sources -> Nat]
    BY <1>1 DEF SourceChanged, RestartTime, ClockInv, EngineTypes
  <2>2. UNCHANGED <<now, updating, runnable, edgeTime, edgeNextDelta, m_cur_val, m_new_val,
                    mPeriod, mOffset, mRunning, mEngineActive, mClockCountOffset, ticks,
                    mEngineEnabled, mCurrentPeriodMultiplier, cMultiplier,
                    mRemainingMasterPeriods>>
    BY <1>1 DEF SourceChanged, Setter, kernel, engineState
  <2>3. \A d \in Clock : Started(d)' = Started(d)
    BY <2>2 DEF Started
  <2> QED BY <1>1, <2>1, <2>2, <2>3, SetterKeeps DEF ClockInv, EngineTypes
<1>3. SourceRestarts'
  <2>1. ASSUME NEW d \in Sources, mParametersChanged'[d]
        PROVE  IF cEnabled'[d] THEN cOffset'[d] > now' ELSE cOffset'[d] = now'
    <3>1. now' = now
      BY <1>1 DEF Setter, kernel
    <3>2. CASE d = c
      <4>1. cEnabled'[c] = enabled /\ cOffset'[c] = RestartTime(enabled, period)
        BY <1>1 DEF SourceChanged, ClockInv, EngineTypes
      <4> QED BY <1>1, <3>1, <3>2, <4>1 DEF RestartTime
    <3>3. CASE d # c
      <4>1. mParametersChanged[d]
        BY <1>1, <2>1, <3>3, SetterKeeps
      <4>2. cEnabled'[d] = cEnabled[d] /\ cOffset'[d] = cOffset[d]
        BY <3>3 DEF SourceChanged, ClockInv, EngineTypes, Sources
      <4> QED BY <3>1, <4>1, <4>2 DEF ClockInv, SourceRestarts
    <3> QED BY <3>2, <3>3
  <2> QED BY <2>1 DEF SourceRestarts
<1> QED BY <1>1, <1>2, <1>3, SetterKeeps DEF ClockInv

\* divider_configurator::handle_parameters_changed disturbs no edge.
LEMMA DividerChangedKeeps ==
  ASSUME ClockInv, NEW c \in Dividers, NEW enabled \in BOOLEAN, NEW multiplier \in Nat \ {0},
         DividerChanged(c, enabled, multiplier)
  PROVE  ClockInv'
<1>1. c \in Clock /\ Setter(c) /\ c \notin Sources
  BY DEF DividerChanged, Dividers
<1>2. EngineTypes'
  <2>1. /\ cEnabled' \in [Clock -> BOOLEAN] /\ cMultiplier' \in [Clock -> Nat \ {0}]
        /\ mRemainingMasterPeriods' \in [Clock -> Nat \cup {Unknown}]
    <3>1. (IF mEngineEnabled[c] THEN multiplier - 1 ELSE 0) \in Nat
      OBVIOUS
    <3> QED BY <1>1, <3>1 DEF DividerChanged, ClockInv, EngineTypes
  <2>2. UNCHANGED <<now, updating, runnable, edgeTime, edgeNextDelta, m_cur_val, m_new_val,
                    mPeriod, mOffset, mRunning, mEngineActive, mClockCountOffset, ticks,
                    mEngineEnabled, mCurrentPeriodMultiplier, cPeriod, cOffset>>
    BY <1>1 DEF DividerChanged, Setter, kernel, engineState
  <2>3. \A d \in Clock : Started(d)' = Started(d)
    BY <2>2 DEF Started
  <2> QED BY <1>1, <2>1, <2>2, <2>3, SetterKeeps DEF ClockInv, EngineTypes
<1>3. SourceRestarts'
  <2>1. ASSUME NEW d \in Sources, mParametersChanged'[d]
        PROVE  IF cEnabled'[d] THEN cOffset'[d] > now' ELSE cOffset'[d] = now'
    <3>1. now' = now /\ d # c
      BY <1>1 DEF Setter, kernel
    <3>2. mParametersChanged[d]
      BY <1>1, <2>1, <3>1, SetterKeeps
    <3>3. cEnabled'[d] = cEnabled[d] /\ cOffset'[d] = cOffset[d]
      BY <3>1 DEF DividerChanged, ClockInv, EngineTypes, Sources
    <3> QED BY <3>1, <3>2, <3>3 DEF ClockInv, SourceRestarts
  <2> QED BY <2>1 DEF SourceRestarts
<1> QED BY <1>1, <1>2, <1>3, SetterKeeps DEF ClockInv

\* Whatever is set, the clock becomes a changed source or a changed divider.
LEMMA SettersKeep ==
  ASSUME ClockInv, NEW c \in Clock,
         \/ \E period \in Period : SetPeriod(c, period)
         \/ \E m \in Multiplier : SetPeriodMultiplier(c, m)
         \/ SetDutyCycle(c)
         \/ \E enabled \in BOOLEAN : SetEnabled(c, enabled)
  PROVE  ClockInv' /\ \A d \in Clock : mParametersChanged[d] => mParametersChanged'[d]
<1>1. /\ cEnabled[c] \in BOOLEAN /\ cMultiplier[c] \in Nat \ {0}
      /\ c \in Sources => cPeriod[c] \in Period
      /\ Multiplier \subseteq Nat \ {0}
  BY ClockAssumption DEF ClockInv, EngineTypes
<1>2. \/ \E enabled \in BOOLEAN, period \in Period :
            c \in Sources /\ SourceChanged(c, enabled, period)
      \/ \E enabled \in BOOLEAN, multiplier \in Nat \ {0} :
            c \in Dividers /\ DividerChanged(c, enabled, multiplier)
  BY <1>1 DEF SetPeriod, SetPeriodMultiplier, SetDutyCycle, SetEnabled
<1>3. Setter(c)
  BY <1>2 DEF SourceChanged, DividerChanged
<1> QED BY <1>2, <1>3, SourceChangedKeeps, DividerChangedKeeps, SetterKeeps

\* engine::handle_edge takes a clock from an edge that is due to its update.
LEMMA HandleEdgeKeeps ==
  ASSUME Inverted = {}, ClockInv, NEW c \in Clock, HandleEdge(c)
  PROVE  ClockInv'
<1>1. /\ ~updating /\ edgeNextDelta = {} /\ c \in runnable /\ runnable \subseteq Clock
      /\ runnable' = runnable \ {c} /\ updates' = updates \cup {c}
      /\ EngineTypes /\ KernelPhases /\ SourceRestarts /\ Phase(c)
  BY DEF HandleEdge, ClockInv, KernelPhases, EngineTypes
<1>2. UNCHANGED <<now, updating, edgeTime, edgeNextDelta, m_cur_val, mPeriod, mOffset, mRunning,
                  mClockCountOffset, mParametersChanged, ticks, cEnabled, cPeriod, cOffset,
                  cMultiplier, mEngineEnabled, mCurrentPeriodMultiplier,
                  mRemainingMasterPeriods>>
  BY DEF HandleEdge, kernel, settings, alignment
<1>3. /\ m_new_val' \in [Clock -> BOOLEAN] /\ mEngineActive' \in [Clock -> BOOLEAN]
      /\ \A d \in Clock : d # c => /\ m_new_val'[d] = m_new_val[d]
                                   /\ mEngineActive'[d] = mEngineActive[d]
  <2>1. m_new_val \in [Clock -> BOOLEAN] /\ mEngineActive \in [Clock -> BOOLEAN]
        /\ m_cur_val[c] \in BOOLEAN
    BY <1>1 DEF EngineTypes
  <2>2. CASE mEngineActive[c]
    <3>1. m_new_val' = [m_new_val EXCEPT ![c] = ~m_cur_val[c]] /\ mEngineActive' = mEngineActive
      BY <2>2 DEF HandleEdge
    <3> QED BY <2>1, <3>1
  <2>3. CASE ~mEngineActive[c] /\ mRunning[c] /\ now = mOffset[c]
    <3>1. /\ m_new_val' = [m_new_val EXCEPT ![c] = c \notin Inverted]
          /\ mEngineActive' = [mEngineActive EXCEPT ![c] = TRUE]
      BY <2>3 DEF HandleEdge
    <3> QED BY <2>1, <3>1
  <2>4. CASE ~mEngineActive[c] /\ ~(mRunning[c] /\ now = mOffset[c])
    BY <2>1, <2>4 DEF HandleEdge
  <2> QED BY <2>2, <2>3, <2>4
<1>4. /\ Started(c)' = Started(c) /\ NextStart(c)' = NextStart(c)
      /\ ThisStart(c)' = ThisStart(c) /\ Fall(c)' = Fall(c)
  BY <1>2 DEF Started, NextStart, ThisStart, Fall, FirstHalf
<1>5. ~Pending(c)'
  BY <1>1, <1>2 DEF Pending
<1>6. mRunning[c] /\ (RiseDue(c) \/ FallDue(c)) /\ (mEngineActive[c] <=> Started(c) > 0)
  BY <1>1 DEF Phase, Stopped, Low, Rising, Up, Deferred, Falling, Pending, RiseDue, FallDue, Idle, High
<1>7. Phase(c)' /\ m_new_val'[c] # m_cur_val'[c]
  <2>1. CASE RiseDue(c)
    <3>1. m_new_val'[c] = TRUE /\ mEngineActive'[c] = TRUE
      <4>1. CASE mEngineActive[c]
        BY <1>1, <2>1, <4>1 DEF HandleEdge, EngineTypes, RiseDue, Idle
      <4>2. CASE ~mEngineActive[c]
        <5>1. now = mOffset[c]
          BY <1>1, <1>6, <2>1, <4>2, TimesFacts DEF RiseDue
        <5> QED BY <1>1, <1>6, <4>2, <5>1 DEF HandleEdge, EngineTypes
      <4> QED BY <4>1, <4>2
    <3>2. Rising(c)'
      BY <1>2, <1>4, <1>5, <2>1, <3>1 DEF RiseDue, Rising, Idle
    <3>3. Phase(c)'
      BY <1>2, <1>6, <3>1, <3>2 DEF Phase
    <3> QED BY <1>2, <2>1, <3>1, <3>3 DEF RiseDue, Idle
  <2>2. CASE FallDue(c)
    <3>1. m_new_val'[c] = FALSE /\ mEngineActive'[c] = TRUE
      BY <1>1, <1>6, <2>2 DEF HandleEdge, EngineTypes, FallDue, High
    <3>2. AtFall(c)'
      BY <1>2, <1>4, <2>2 DEF FallDue, AtFall
    <3>3. Falling(c)'
      BY <1>2, <1>4, <1>5, <2>2, <3>1, <3>2 DEF FallDue, Falling, High
    <3>4. Phase(c)'
      BY <1>2, <1>4, <1>6, <2>2, <3>1, <3>3 DEF Phase, FallDue
    <3> QED BY <1>2, <2>2, <3>1, <3>4 DEF FallDue, High
  <2> QED BY <1>6, <2>1, <2>2
<1>8. Requested(c)'
  BY <1>1, <1>7 DEF Requested
<1>10. ASSUME NEW d \in Clock, d # c PROVE Phase(d)' /\ Requested(d)'
  <2>1. Phase(d)'
    BY <1>1, <1>2, <1>3, <1>10, SamePhase DEF ClockInv
  <2>2. Requested(d)'
    BY <1>1, <1>2, <1>3, <1>10, SameRequest DEF ClockInv
  <2> QED BY <2>1, <2>2
<1>11. EngineTypes'
  <2>1. \A d \in Clock : Started(d)' = Started(d)
    BY <1>2 DEF Started
  <2> QED BY <1>1, <1>2, <1>3, <2>1 DEF EngineTypes
<1>12. KernelPhases' /\ SourceRestarts'
  BY <1>1, <1>2 DEF KernelPhases, SourceRestarts
<1> QED BY <1>7, <1>8, <1>10, <1>11, <1>12 DEF ClockInv

\* engine::update with new parameters: the clock is low until its first period,
\* or stopped.
LEMMA UpdateParametersKeeps ==
  ASSUME Inverted = {}, ClockInv, NEW c \in Clock, UpdateParameters(c)
  PROVE  ClockInv'
<1>1. /\ updating /\ runnable = {} /\ c \in updates /\ updates' = updates \ {c}
      /\ mParametersChanged[c] /\ ~AtFirstEdge(c)
      /\ EngineTypes /\ KernelPhases /\ SourceRestarts /\ Phase(c)
  BY DEF UpdateParameters, ParametersDue, ClockInv, KernelPhases
<1>2. UNCHANGED <<now, updating, runnable, edgeNextDelta, cEnabled, cPeriod, cOffset,
                  cMultiplier, ticks>>
  BY DEF UpdateParameters, kernel, settings
<1>3. /\ m_cur_val[c] \in BOOLEAN /\ m_new_val[c] \in BOOLEAN
      /\ AtFirstEdge(c) <=> (~m_cur_val[c] /\ m_new_val[c])
  BY <1>1 DEF AtFirstEdge, AtEdge, EngineTypes
<1>4. ~Pending(c)
  <2>1. c \notin runnable /\ ~Deferred(c) /\ ~RiseDue(c) /\ ~FallDue(c)
    BY <1>1 DEF Deferred, RiseDue, FallDue
  <2> QED BY <1>1, <2>1 DEF Phase, Stopped, Low, Rising, Up, Falling
<1>5. GetClockCount(c) = ticks[c]
  <2>1. ~RiseDue(c) /\ ~Rising(c)
    BY <1>1, <1>3 DEF RiseDue, Rising
  <2> QED BY <1>1, <2>1, CountIsRight
<1>6. NextOffset(c) \in Nat
      /\ IF ConfiguredRunning(c) THEN NextOffset(c) > now ELSE NextOffset(c) = now
  BY <1>1, NextOffsetFacts
<1>7. ConfiguredRunning(c) \in BOOLEAN /\ ConfiguredPeriod[c] \in Nat \ {0, 1}
      /\ ticks[c] \in Nat /\ now \in Nat
  BY <1>1, ConfiguredPeriodFacts DEF ConfiguredRunning, EngineTypes
<1>8. /\ mParametersChanged' = [mParametersChanged EXCEPT ![c] = FALSE]
      /\ mClockCountOffset' = [mClockCountOffset EXCEPT ![c] = ticks[c]]
      /\ mRunning' = [mRunning EXCEPT ![c] = ConfiguredRunning(c)]
      /\ mPeriod' = [mPeriod EXCEPT ![c] = ConfiguredPeriod[c]]
      /\ mOffset' = [mOffset EXCEPT ![c] = NextOffset(c)]
      /\ mEngineActive' = [mEngineActive EXCEPT ![c] = FALSE]
      /\ m_cur_val' = [m_cur_val EXCEPT ![c] = FALSE]
      /\ edgeTime' = [edgeTime EXCEPT
            ![c] = IF ConfiguredRunning(c) THEN NextOffset(c) ELSE Never]
  BY <1>5 DEF UpdateParameters, CountAtUpdate, EdgeAfterUpdate
<1>9. m_new_val' = [m_new_val EXCEPT ![c] = FALSE]
  BY <1>1, <1>3 DEF UpdateParameters, EngineTypes
<1>10. /\ mClockCountOffset' \in [Clock -> Nat] /\ mClockCountOffset'[c] = ticks[c]
       /\ mRunning' \in [Clock -> BOOLEAN] /\ (mRunning'[c] <=> ConfiguredRunning(c))
       /\ mPeriod' \in [Clock -> Nat \ {0, 1}]
       /\ mOffset' \in [Clock -> Nat] /\ mOffset'[c] = NextOffset(c)
       /\ edgeTime' \in [Clock -> Nat \cup {Never}]
       /\ edgeTime'[c] = IF ConfiguredRunning(c) THEN NextOffset(c) ELSE Never
  BY <1>1, <1>6, <1>7, <1>8 DEF EngineTypes
<1>11. /\ mParametersChanged' \in [Clock -> BOOLEAN] /\ ~mParametersChanged'[c]
       /\ mEngineActive' \in [Clock -> BOOLEAN] /\ ~mEngineActive'[c]
       /\ m_cur_val' \in [Clock -> BOOLEAN] /\ ~m_cur_val'[c]
       /\ m_new_val' \in [Clock -> BOOLEAN] /\ ~m_new_val'[c]
  BY <1>1, <1>8, <1>9 DEF EngineTypes
<1>12. ASSUME NEW d \in Clock, d # c
       PROVE  /\ mParametersChanged'[d] = mParametersChanged[d]
              /\ mClockCountOffset'[d] = mClockCountOffset[d]
              /\ mRunning'[d] = mRunning[d] /\ mPeriod'[d] = mPeriod[d]
              /\ mOffset'[d] = mOffset[d] /\ mEngineActive'[d] = mEngineActive[d]
              /\ m_cur_val'[d] = m_cur_val[d] /\ edgeTime'[d] = edgeTime[d]
              /\ m_new_val'[d] = m_new_val[d]
  BY <1>1, <1>8, <1>9, <1>12 DEF EngineTypes
<1>13. EngineTypes'
  <2>1. /\ mRemainingMasterPeriods' \in [Clock -> Nat \cup {Unknown}]
        /\ mEngineEnabled' \in [Clock -> BOOLEAN]
        /\ mCurrentPeriodMultiplier' \in [Clock -> Nat \ {0}]
    <3>1. /\ (IF ConfiguredRunning(c) \/ c \in Sources THEN Unknown
              ELSE RemainingPeriods(c)) \in Nat \cup {Unknown}
          /\ cEnabled[c] \in BOOLEAN /\ cMultiplier[c] \in Nat \ {0}
      BY <1>1, RemainingPeriodsFacts DEF EngineTypes
    <3> QED BY <1>1, <3>1 DEF UpdateParameters, EngineTypes
  <2>2. Started(c)' = 0
    BY <1>2, <1>7, <1>10 DEF Started
  <2>3. \A d \in Clock : d # c => Started(d)' = Started(d)
    BY <1>2, <1>12 DEF Started
  <2>4. \A d \in Clock : (Started(d) >= 0)'
    BY <1>1, <2>2, <2>3 DEF EngineTypes
  <2> QED BY <1>1, <1>2, <1>10, <1>11, <2>1, <2>4 DEF EngineTypes
<1>14. Phase(c)'
  <2>1. Idle(c)' /\ ~Pending(c)' /\ ~Rising(c)' /\ Started(c)' = 0
    BY <1>2, <1>4, <1>7, <1>10, <1>11 DEF Idle, Pending, Rising, Started
  <2>2. NextStart(c)' = NextOffset(c)
    <3>1. (mPeriod')[c] \in Nat /\ 0 * (mPeriod')[c] = 0
      BY <1>10
    <3> QED BY <1>6, <1>10, <2>1, <3>1 DEF NextStart
  <2>3. CASE ConfiguredRunning(c)
    <3>1. Low(c)'
      BY <1>2, <1>6, <1>10, <2>1, <2>2, <2>3 DEF Low
    <3> QED BY <1>10, <1>11, <2>1, <2>3, <3>1 DEF Phase
  <2>4. CASE ~ConfiguredRunning(c)
    <3>1. Stopped(c)'
      BY <1>10, <1>11, <2>1, <2>4 DEF Stopped
    <3> QED BY <1>10, <2>4, <3>1 DEF Phase
  <2> QED BY <2>3, <2>4
<1>15. Requested(c)'
  BY <1>1, <1>11 DEF Requested
<1>16. ASSUME NEW d \in Clock, d # c PROVE Phase(d)' /\ Requested(d)'
  <2>1. Phase(d)'
    BY <1>1, <1>2, <1>12, <1>16, SamePhase DEF ClockInv
  <2>2. Requested(d)'
    BY <1>1, <1>2, <1>12, <1>16, SameRequest DEF ClockInv
  <2> QED BY <2>1, <2>2
<1>17. KernelPhases' /\ SourceRestarts'
  <2>1. KernelPhases'
    BY <1>1, <1>2 DEF KernelPhases
  <2>2. \A d \in Sources : mParametersChanged'[d] => mParametersChanged[d]
    BY <1>11, <1>12 DEF Sources
  <2> QED BY <1>1, <1>2, <2>1, <2>2 DEF SourceRestarts
<1> QED BY <1>13, <1>14, <1>15, <1>16, <1>17 DEF ClockInv

\* engine::update with an edge: the first half of the period, its second half,
\* or a deferred change.
LEMMA UpdateEdgeKeeps ==
  ASSUME Inverted = {}, ClockInv, NEW c \in Clock, UpdateEdge(c)
  PROVE  ClockInv'
<1>1. /\ updating /\ runnable = {} /\ c \in updates /\ updates' = updates \ {c}
      /\ m_new_val[c] # m_cur_val[c] /\ mRunning[c]
      /\ EngineTypes /\ KernelPhases /\ SourceRestarts /\ Phase(c)
      /\ mParametersChanged[c] => AtFirstEdge(c)
  BY DEF UpdateEdge, ParametersDue, AtEdge, ClockInv, KernelPhases
<1>2. UNCHANGED <<now, updating, runnable, m_new_val, mPeriod, mOffset, mRunning, mEngineActive,
                  mClockCountOffset, mParametersChanged, cEnabled, cPeriod, cOffset, cMultiplier,
                  mEngineEnabled, mCurrentPeriodMultiplier, mRemainingMasterPeriods>>
  BY DEF UpdateEdge, kernel, settings, alignment
<1>3. /\ m_cur_val[c] \in BOOLEAN /\ m_new_val[c] \in BOOLEAN /\ ticks[c] \in Nat
      /\ AtFirstEdge(c) <=> (~m_cur_val[c] /\ m_new_val[c])
      /\ now \in Nat /\ mClockCountOffset[c] \in Nat
  BY <1>1 DEF AtFirstEdge, AtEdge, EngineTypes
<1>4. now + TimeToNextEdge(c) \in Nat
  BY <1>1, <1>3, TimesFacts DEF TimeToNextEdge
<1>5. /\ m_cur_val' \in [Clock -> BOOLEAN] /\ m_cur_val'[c] = m_new_val[c]
      /\ edgeTime' \in [Clock -> Nat \cup {Never}]
      /\ mParametersChanged[c] => edgeTime'[c] = edgeTime[c] /\ edgeNextDelta' = edgeNextDelta \cup {c}
      /\ ~mParametersChanged[c] => /\ edgeTime'[c] = now + TimeToNextEdge(c)
                                   /\ edgeNextDelta' = edgeNextDelta
      /\ edgeNextDelta' \subseteq Clock
  BY <1>1, <1>3, <1>4 DEF UpdateEdge, EngineTypes
<1>6. /\ ticks' \in [Clock -> Nat]
      /\ AtFirstEdge(c) => ticks'[c] = ticks[c] + 1
      /\ ~AtFirstEdge(c) => ticks'[c] = ticks[c]
  BY <1>1 DEF UpdateEdge, EngineTypes
<1>7. ASSUME NEW d \in Clock, d # c
      PROVE  /\ m_cur_val'[d] = m_cur_val[d] /\ edgeTime'[d] = edgeTime[d]
             /\ ticks'[d] = ticks[d] /\ (d \in edgeNextDelta' <=> d \in edgeNextDelta)
  BY <1>1, <1>7 DEF UpdateEdge, EngineTypes
<1>8. Rising(c) \/ Falling(c)
  BY <1>1, <1>3 DEF Phase, Low, RiseDue, Up, Deferred, FallDue, Idle, High
<1>9. /\ FirstHalf(c)' = FirstHalf(c) /\ mPeriod'[c] = mPeriod[c] /\ c \notin runnable'
      /\ c \notin updates'
  BY <1>1, <1>2 DEF FirstHalf
<1>10. (Phase(c) /\ Started(c) >= 0 /\ Requested(c))'
  <2>1. CASE Rising(c)
    <3>1. AtFirstEdge(c) /\ ~Pending(c) /\ now = NextStart(c) /\ edgeTime[c] = Never
      BY <1>3, <2>1 DEF Rising
    <3>2. Started(c)' = Started(c) + 1 /\ Started(c) \in Nat
      BY <1>1, <1>2, <1>3, <1>6, <3>1, TimesFacts DEF Started
    <3>3. (Started(c) + 1) * mPeriod[c] = Started(c) * mPeriod[c] + mPeriod[c]
          /\ Started(c) * mPeriod[c] \in Nat
      <4>1. Started(c) \in Nat /\ mPeriod[c] \in Nat
        BY <1>1, TimesFacts
      <4> QED BY <4>1, Product
    <3>4. NextStart(c)' = NextStart(c) + mPeriod[c] /\ ThisStart(c)' = NextStart(c)
      <4>1. mOffset[c] \in Nat /\ mPeriod[c] \in Nat
        BY <1>1 DEF EngineTypes
      <4> QED BY <1>2, <3>2, <3>3, <4>1 DEF NextStart, ThisStart
    <3>5. Fall(c)' = now + FirstHalf(c)
      BY <1>9, <3>1, <3>4 DEF Fall
    <3>6. High(c)' /\ (mEngineActive[c])'
      BY <1>2, <1>3, <1>5, <2>1 DEF High, Rising
    <3>7. CASE mParametersChanged[c]
      <4>1. Deferred(c)' /\ Pending(c)'
        BY <1>2, <1>5, <1>9, <3>1, <3>2, <3>4, <3>6, <3>7 DEF Deferred, Pending
      <4>2. Phase(c)'
        BY <1>1, <1>2, <3>2, <3>6, <4>1 DEF Phase
      <4> QED BY <1>9, <3>2, <3>6, <4>1, <4>2 DEF Requested, High
    <3>8. CASE ~mParametersChanged[c]
      <4>1. edgeTime'[c] = Fall(c)' /\ ~Pending(c)'
        BY <1>2, <1>5, <3>1, <3>5, <3>8 DEF TimeToNextEdge, Pending
      <4>2. now < Fall(c)'
        BY <1>1, <1>3, <3>5, TimesFacts
      <4>3. Up(c)'
        BY <1>2, <1>3, <3>1, <3>2, <3>4, <3>6, <4>1, <4>2 DEF Up
      <4>4. Phase(c)'
        BY <1>1, <1>2, <3>2, <3>6, <4>3 DEF Phase
      <4> QED BY <1>2, <1>9, <3>2, <3>6, <3>8, <4>4 DEF Requested, High
    <3> QED BY <3>7, <3>8
  <2>2. CASE Falling(c)
    <3>1. /\ ~AtFirstEdge(c) /\ ~mParametersChanged[c] /\ ~Pending(c) /\ Started(c) > 0
          /\ now = Fall(c) /\ mEngineActive[c]
      <4>1. ~AtFirstEdge(c) /\ ~mParametersChanged[c]
        BY <1>1, <1>3, <2>2 DEF Falling
      <4> QED BY <1>1, <2>2, <4>1 DEF Falling, AtFall, Phase
    <3>2. Started(c)' = Started(c) /\ Started(c) \in Nat
      BY <1>1, <1>2, <1>6, <3>1, TimesFacts DEF Started
    <3>3. NextStart(c)' = NextStart(c) /\ Fall(c)' = Fall(c)
      BY <1>2, <1>9, <3>2 DEF NextStart, ThisStart, Fall
    <3>4. edgeTime'[c] = NextStart(c) /\ now < NextStart(c)
      BY <1>1, <1>3, <1>5, <3>1, TimesFacts DEF TimeToNextEdge
    <3>5. Idle(c)' /\ ~Pending(c)' /\ ~Rising(c)'
      BY <1>2, <1>5, <2>2, <3>1 DEF Idle, Pending, Falling, Rising
    <3>6. Low(c)'
      BY <1>2, <1>3, <3>1, <3>3, <3>4, <3>5 DEF Low
    <3>7. Phase(c)'
      BY <1>1, <1>2, <3>1, <3>2, <3>5, <3>6 DEF Phase
    <3>8. m_cur_val'[c] = m_new_val'[c]
      BY <1>2, <1>5
    <3> QED BY <1>2, <1>9, <3>1, <3>2, <3>7, <3>8 DEF Requested
  <2> QED BY <1>8, <2>1, <2>2
<1>11. ASSUME NEW d \in Clock, d # c PROVE (Phase(d) /\ Started(d) >= 0 /\ Requested(d))'
  <2>1. Phase(d)'
    BY <1>1, <1>2, <1>7, <1>11, SamePhase DEF ClockInv
  <2>2. Requested(d)'
    BY <1>1, <1>2, <1>7, <1>11, SameRequest DEF ClockInv
  <2>3. Started(d)' = Started(d)
    BY <1>2, <1>7, <1>11 DEF Started
  <2> QED BY <1>1, <2>1, <2>2, <2>3 DEF EngineTypes
<1>12. EngineTypes'
  BY <1>1, <1>2, <1>5, <1>6, <1>10, <1>11 DEF EngineTypes
<1>13. KernelPhases' /\ SourceRestarts'
  BY <1>1, <1>2 DEF KernelPhases, SourceRestarts
<1> QED BY <1>10, <1>11, <1>12, <1>13 DEF ClockInv

\* The update phase begins with no edge method left to run.
LEMMA StartUpdatePhaseKeeps ==
  ASSUME ClockInv, StartUpdatePhase
  PROVE  ClockInv'
<1>1. runnable = {} /\ edgeNextDelta = {} /\ updating' = TRUE
  BY DEF StartUpdatePhase, ClockInv, KernelPhases
<1>2. UNCHANGED <<now, runnable, updates, edgeTime, edgeNextDelta, m_cur_val, m_new_val, mPeriod,
                  mOffset, mRunning, mEngineActive, mClockCountOffset, mParametersChanged,
                  cEnabled, cPeriod, cOffset, cMultiplier, mEngineEnabled,
                  mCurrentPeriodMultiplier, mRemainingMasterPeriods, ticks>>
  BY DEF StartUpdatePhase, engineState, settings, alignment
<1>3. ASSUME NEW c \in Clock PROVE Phase(c)' /\ Requested(c)'
  BY <1>2, SamePhase, SameRequest DEF ClockInv
<1>4. \A c \in Clock : Started(c)' = Started(c)
  BY <1>2 DEF Started
<1>5. EngineTypes'
  BY <1>1, <1>2, <1>4 DEF ClockInv, EngineTypes
<1>6. KernelPhases' /\ SourceRestarts'
  BY <1>1, <1>2 DEF ClockInv, KernelPhases, SourceRestarts
<1> QED BY <1>3, <1>5, <1>6 DEF ClockInv

\* In the next delta cycle the edge methods of the deferred changes run.
LEMMA NextDeltaKeeps ==
  ASSUME ClockInv, NextDelta
  PROVE  ClockInv'
<1>1. /\ runnable = {} /\ updates = {} /\ updating' = FALSE
      /\ runnable' = edgeNextDelta /\ edgeNextDelta' = {}
  BY DEF NextDelta, ClockInv, KernelPhases
<1>2. UNCHANGED <<now, updates, edgeTime, m_cur_val, m_new_val, mPeriod,
                  mOffset, mRunning, mEngineActive, mClockCountOffset, mParametersChanged,
                  cEnabled, cPeriod, cOffset, cMultiplier, mEngineEnabled,
                  mCurrentPeriodMultiplier, mRemainingMasterPeriods, ticks>>
  BY DEF NextDelta, engineState, settings, alignment
<1>3. ASSUME NEW c \in Clock PROVE Phase(c)' /\ Requested(c)'
  <2>1. /\ Started(c)' = Started(c) /\ NextStart(c)' = NextStart(c)
        /\ ThisStart(c)' = ThisStart(c) /\ Fall(c)' = Fall(c)
    BY <1>2 DEF Started, NextStart, ThisStart, Fall, FirstHalf
  <2>2. Pending(c)' <=> Pending(c)
    BY <1>1 DEF Pending
  <2>3. Requested(c)'
    BY <1>2, <2>2 DEF ClockInv, Requested
  <2>4. CASE mRunning[c] /\ Deferred(c)
    <3>1. High(c)' /\ AtFall(c)'
      BY <1>2, <2>1, <2>4 DEF Deferred, High, AtFall
    <3>2. FallDue(c)' /\ ~Rising(c) /\ ~Rising(c)'
      BY <1>1, <1>2, <2>1, <2>4, <3>1 DEF Deferred, FallDue, High, Rising
    <3> QED BY <1>2, <2>1, <2>3, <2>4, <3>2 DEF ClockInv, Phase
  <2>5. CASE c \notin edgeNextDelta
    BY <1>1, <1>2, <2>3, <2>5, SamePhase DEF ClockInv
  <2>6. c \in edgeNextDelta => mRunning[c] /\ Deferred(c)
    BY <1>1 DEF ClockInv, Phase, Stopped, Low, RiseDue, Rising, Up, FallDue, Falling, Pending
  <2> QED BY <2>4, <2>5, <2>6
<1>4. \A c \in Clock : Started(c)' = Started(c)
  BY <1>2 DEF Started
<1>5. EngineTypes'
  BY <1>1, <1>2, <1>4 DEF ClockInv, EngineTypes
<1>6. KernelPhases' /\ SourceRestarts'
  BY <1>1, <1>2 DEF ClockInv, KernelPhases, SourceRestarts
<1> QED BY <1>3, <1>5, <1>6 DEF ClockInv

\* When time advances each edge that is due is delivered.
LEMMA AdvanceTimeKeeps ==
  ASSUME ClockInv, AdvanceTime
  PROVE  ClockInv'
<1>1. /\ ~updating /\ runnable = {} /\ updates = {} /\ edgeNextDelta = {} /\ now \in Nat
      /\ now' = now + 1
      /\ runnable' = {c \in Clock : edgeTime[c] = now + 1}
      /\ edgeTime' = [c \in Clock |-> IF edgeTime[c] = now + 1 THEN Never ELSE edgeTime[c]]
  BY DEF AdvanceTime, Quiet, ClockInv, KernelPhases, EngineTypes
<1>2. UNCHANGED <<updating, updates, edgeNextDelta, m_cur_val, m_new_val, mPeriod,
                  mOffset, mRunning, mEngineActive, mClockCountOffset, mParametersChanged,
                  cEnabled, cPeriod, cOffset, cMultiplier, mEngineEnabled,
                  mCurrentPeriodMultiplier, mRemainingMasterPeriods, ticks>>
  BY DEF AdvanceTime, engineState, settings, alignment
<1>3. ASSUME NEW c \in Clock
      PROVE  m_cur_val[c] = m_new_val[c] /\ ~mParametersChanged[c] /\ ~Pending(c)
  BY <1>1 DEF ClockInv, Requested, Pending
<1>4. ASSUME NEW c \in Clock
      PROVE  /\ Started(c)' = Started(c) /\ NextStart(c)' = NextStart(c)
             /\ ThisStart(c)' = ThisStart(c) /\ Fall(c)' = Fall(c)
  BY <1>2 DEF Started, NextStart, ThisStart, Fall, FirstHalf
<1>5. ASSUME NEW c \in Clock PROVE Phase(c)'
  <2>1. /\ ~Rising(c) /\ ~Rising(c)'
        /\ ~RiseDue(c) /\ ~Deferred(c) /\ ~FallDue(c) /\ ~Falling(c)
    BY <1>1, <1>2, <1>3 DEF Rising, RiseDue, Deferred, FallDue, Falling
  <2>2. CASE ~mRunning[c]
    <3>1. Stopped(c) /\ ~(Never = now + 1)
      BY <1>1, <2>2 DEF ClockInv, Phase, Never
    <3>2. c \notin runnable' /\ edgeTime'[c] = Never
      BY <1>1, <3>1 DEF Stopped
    <3>3. Stopped(c)'
      BY <1>1, <1>2, <1>4, <3>1, <3>2 DEF Stopped, Idle, Pending
    <3> QED BY <1>2, <2>2, <3>3 DEF Phase
  <2>3. CASE mRunning[c]
    <3>1. (Low(c) \/ Up(c)) /\ (mEngineActive[c] <=> Started(c) > 0)
      BY <2>1, <2>3 DEF ClockInv, Phase
    <3>2. NextStart(c) \in Nat /\ Fall(c) \in Int /\ Started(c) \in Nat
      BY TimesFacts DEF ClockInv
    <3>3. CASE edgeTime[c] = now + 1
      <4>1. c \in runnable' /\ edgeTime'[c] = Never
        BY <1>1, <3>3
      <4>2. CASE Low(c)
        <5>1. RiseDue(c)'
          BY <1>1, <1>2, <1>4, <3>3, <4>1, <4>2 DEF Low, RiseDue, Idle
        <5> QED BY <1>2, <1>4, <2>1, <2>3, <3>1, <5>1 DEF Phase
      <4>3. CASE Up(c)
        <5>1. AtFall(c)'
          BY <1>1, <1>4, <3>3, <4>3 DEF Up, AtFall
        <5>2. FallDue(c)'
          BY <1>2, <1>4, <4>1, <4>3, <5>1 DEF Up, FallDue, High
        <5> QED BY <1>2, <1>4, <2>1, <2>3, <3>1, <5>2 DEF Phase
      <4> QED BY <3>1, <4>2, <4>3
    <3>4. CASE edgeTime[c] # now + 1
      <4>1. ~Pending(c)' /\ edgeTime'[c] = edgeTime[c]
        BY <1>1, <1>2, <3>4 DEF Pending
      <4>2. CASE Low(c)
        <5>1. Low(c)'
          BY <1>1, <1>2, <1>4, <3>2, <3>4, <4>1, <4>2 DEF Low, Idle
        <5> QED BY <1>2, <1>4, <2>1, <2>3, <3>1, <5>1 DEF Phase
      <4>3. CASE Up(c)
        <5>1. ThisStart(c) \in Int
          BY TimesFacts DEF ClockInv
        <5>2. Up(c)'
          BY <1>1, <1>2, <1>4, <3>2, <3>4, <4>1, <4>3, <5>1 DEF Up, High
        <5> QED BY <1>2, <1>4, <2>1, <2>3, <3>1, <5>2 DEF Phase
      <4> QED BY <3>1, <4>2, <4>3
    <3> QED BY <3>3, <3>4
  <2> QED BY <2>2, <2>3
<1>6. ASSUME NEW c \in Clock PROVE Requested(c)'
  BY <1>1, <1>2, <1>3 DEF Requested
<1>7. EngineTypes'
  <2>1. \A c \in Clock : Started(c)' = Started(c)
    BY <1>4
  <2>2. edgeTime' \in [Clock -> Nat \cup {Never}] /\ runnable' \subseteq Clock /\ now' \in Nat
    BY <1>1 DEF ClockInv, EngineTypes
  <2> QED BY <1>1, <1>2, <2>1, <2>2 DEF ClockInv, EngineTypes
<1>8. KernelPhases' /\ SourceRestarts'
  BY <1>1, <1>2, <1>3 DEF KernelPhases, SourceRestarts, Sources
<1> QED BY <1>5, <1>6, <1>7, <1>8 DEF ClockInv

\* Nothing changes, and the invariant stays.
LEMMA StutterKeeps ==
  ASSUME ClockInv, UNCHANGED vars
  PROVE  ClockInv'
<1>1. UNCHANGED <<now, updating, runnable, updates, edgeTime, edgeNextDelta, m_cur_val, m_new_val,
                  mPeriod, mOffset, mRunning, mEngineActive, mClockCountOffset, mParametersChanged,
                  cEnabled, cPeriod, cOffset, cMultiplier, mEngineEnabled,
                  mCurrentPeriodMultiplier, mRemainingMasterPeriods, ticks>>
  BY DEF vars, kernel, engineState, settings, alignment
<1>2. ASSUME NEW c \in Clock PROVE Phase(c)' /\ Requested(c)'
  BY <1>1, SamePhase, SameRequest DEF ClockInv
<1>3. \A c \in Clock : Started(c)' = Started(c)
  BY <1>1 DEF Started
<1>4. EngineTypes'
  BY <1>1, <1>3 DEF ClockInv, EngineTypes
<1>5. KernelPhases' /\ SourceRestarts'
  BY <1>1 DEF ClockInv, KernelPhases, SourceRestarts
<1> QED BY <1>2, <1>4, <1>5 DEF ClockInv

\* Every step keeps the invariant.
LEMMA StepKeeps ==
  ASSUME Inverted = {}, ClockInv, [Next]_vars
  PROVE  ClockInv'
<1>1. ASSUME NEW c \in Clock, ClockStep(c) PROVE ClockInv'
  <2>1. CASE HandleEdge(c)
    BY <2>1, HandleEdgeKeeps
  <2>2. CASE UpdateParameters(c)
    BY <2>2, UpdateParametersKeeps
  <2>3. CASE UpdateEdge(c)
    BY <2>3, UpdateEdgeKeeps
  <2>4. CASE \/ \E period \in Period : SetPeriod(c, period)
             \/ \E m \in Multiplier : SetPeriodMultiplier(c, m)
             \/ SetDutyCycle(c)
             \/ \E enabled \in BOOLEAN : SetEnabled(c, enabled)
    BY <2>4, SettersKeep
  <2> QED BY <1>1, <2>1, <2>2, <2>3, <2>4 DEF ClockStep
<1> QED BY <1>1, StartUpdatePhaseKeeps, NextDeltaKeeps, AdvanceTimeKeeps, StutterKeeps DEF Next

\* At every moment each clock is in one of its phases, with its edge notified for
\* the time the active parameters say (engine::update, engine::handle_edge).
THEOREM ClockInvariance ==
  ASSUME Inverted = {}
  PROVE  Spec => []ClockInv
<1>1. Init => ClockInv
  BY InitInv
<1>2. ClockInv /\ [Next]_vars => ClockInv'
  BY StepKeeps
<1> QED BY <1>1, <1>2, PTL DEF Spec

-----------------------------------------------------------------------------

\* assert(at_edge) and assert(mRunning) in engine::update never fail: an update
\* that takes over no parameters has an edge to drive, of a clock that runs.
THEOREM EdgesAreDriven ==
  ASSUME Inverted = {}
  PROVE  Spec => []UpdateHasAnEdge
<1>1. ASSUME ClockInv, NEW c \in updates, updating, ~ParametersDue(c)
      PROVE  AtEdge(c) /\ mRunning[c]
  <2>1. c \in Clock /\ Phase(c) /\ Requested(c)
    BY <1>1 DEF ClockInv, EngineTypes
  <2>2. AtEdge(c)
    <3>1. CASE mParametersChanged[c]
      BY <1>1, <3>1 DEF ParametersDue, AtFirstEdge
    <3>2. CASE ~mParametersChanged[c]
      BY <1>1, <2>1, <3>2 DEF Requested, AtEdge
    <3> QED BY <3>1, <3>2
  <2>3. m_cur_val[c] \in BOOLEAN /\ m_new_val[c] \in BOOLEAN
    BY <1>1, <2>1 DEF ClockInv, EngineTypes
  <2> QED BY <2>1, <2>2, <2>3 DEF Phase, Stopped, Idle, AtEdge
<1>2. ClockInv => UpdateHasAnEdge
  BY <1>1 DEF UpdateHasAnEdge
<1> QED BY <1>2, ClockInvariance, PTL

\* Whenever nothing is left to do at a time, the signal of every clock is high
\* exactly in the first half of its periods, and engine::get_clock_count() is the
\* number of periods the signal has started, through all changes of parameters.
THEOREM SignalIsRight ==
  ASSUME Inverted = {}
  PROVE  Spec => []SignalShape
<1>1. ASSUME ClockInv, Quiet, NEW c \in Clock
      PROVE  LET high == mRunning[c] /\ now >= mOffset[c]
                           /\ (now - mOffset[c]) % mPeriod[c] < FirstHalf(c)
             IN  m_cur_val[c] = (high # (c \in Inverted)) /\ GetClockCount(c) = ticks[c]
  <2> DEFINE high == mRunning[c] /\ now >= mOffset[c]
                        /\ (now - mOffset[c]) % mPeriod[c] < FirstHalf(c)
  <2>1. EngineTypes /\ Phase(c) /\ runnable = {} /\ updates = {} /\ edgeNextDelta = {}
    BY <1>1 DEF ClockInv, Quiet, KernelPhases
  <2>2. m_cur_val[c] = m_new_val[c] /\ m_cur_val[c] \in BOOLEAN /\ mRunning[c] \in BOOLEAN
    BY <1>1, <2>1 DEF ClockInv, Requested, EngineTypes
  <2>3. ~Rising(c) /\ ~RiseDue(c) /\ ~Deferred(c) /\ ~FallDue(c) /\ ~Falling(c)
    BY <2>1, <2>2 DEF Rising, RiseDue, Deferred, FallDue, Falling
  <2>4. GetClockCount(c) = ticks[c]
    BY <2>1, <2>3, CountIsRight
  <2>5. now \in Nat /\ mOffset[c] \in Nat
    BY <2>1 DEF EngineTypes
  <2>6. m_cur_val[c] <=> high
    <3>1. CASE ~mRunning[c]
      BY <2>1, <3>1 DEF Phase, Stopped, Idle
    <3>2. CASE mRunning[c] /\ Up(c)
      <4>1. Started(c) > 0 /\ ThisStart(c) <= now /\ now < NextStart(c)
        BY <2>1, <2>5, <3>2, TimesFacts DEF Up
      <4>2. now >= mOffset[c] /\ (now - mOffset[c]) % mPeriod[c] = now - ThisStart(c)
        BY <2>1, <4>1, InPeriod
      <4>3. now - ThisStart(c) < FirstHalf(c)
        BY <2>1, <2>5, <3>2, TimesFacts DEF Up
      <4> QED BY <3>2, <4>2, <4>3 DEF Up, High
    <3>3. CASE mRunning[c] /\ Low(c)
      <4>1. CASE Started(c) = 0
        <5>1. now < mOffset[c]
          BY <2>1, <3>3, <4>1, TimesFacts DEF Low
        <5> QED BY <2>5, <3>3, <5>1 DEF Low, Idle
      <4>2. CASE Started(c) > 0
        <5>1. ThisStart(c) <= now /\ now < NextStart(c)
          BY <2>1, <2>5, <3>3, <4>2, TimesFacts DEF Low
        <5>2. now >= mOffset[c] /\ (now - mOffset[c]) % mPeriod[c] = now - ThisStart(c)
          BY <2>1, <4>2, <5>1, InPeriod
        <5>3. ~(now - ThisStart(c) < FirstHalf(c))
          BY <2>1, <2>5, <3>3, <4>2, TimesFacts DEF Low
        <5> QED BY <3>3, <5>2, <5>3 DEF Low, Idle
      <4> QED BY <2>1, <4>1, <4>2, TimesFacts
    <3> QED BY <2>1, <2>3, <3>1, <3>2, <3>3 DEF Phase
  <2>7. c \notin Inverted
    OBVIOUS
  <2>8. high \in BOOLEAN /\ (c \in Inverted) = FALSE
    BY <2>2, <2>7
  <2> HIDE DEF high
  <2>9. m_cur_val[c] = (high # (c \in Inverted))
    BY <2>2, <2>6, <2>8
  <2> QED BY <2>4, <2>9 DEF high
<1>2. ClockInv => SignalShape
  BY <1>1 DEF SignalShape
<1> QED BY <1>2, ClockInvariance, PTL

\* engine::update takes parameters over only with a first period ahead, or stops
\* the clock at once: what the tick callback engine relies on.
THEOREM ParametersStartAhead ==
  ASSUME Inverted = {}
  PROVE  Spec => NewParametersStartAhead
<1>1. ASSUME ClockInv, [Next]_vars, NEW c \in Clock, mParametersChanged[c], ~mParametersChanged'[c]
      PROVE  IF mRunning'[c] THEN mOffset'[c] > now ELSE mOffset'[c] = now
  <2>1. CASE UpdateParameters(c)
    <3>1. mRunning'[c] = ConfiguredRunning(c) /\ mOffset'[c] = NextOffset(c)
      BY <2>1, <1>1 DEF UpdateParameters, ClockInv, EngineTypes
    <3>2. IF ConfiguredRunning(c) THEN NextOffset(c) > now ELSE NextOffset(c) = now
      BY <1>1, NextOffsetFacts DEF ClockInv
    <3> QED BY <3>1, <3>2
  <2>2. ASSUME NEW d \in Clock, ClockStep(d), ~UpdateParameters(c) PROVE FALSE
    <3>1. CASE UpdateParameters(d)
      <4>1. d # c
        BY <2>2, <3>1
      <4>2. mParametersChanged'[c] = mParametersChanged[c]
        BY <1>1, <3>1, <4>1 DEF UpdateParameters, ClockInv, EngineTypes
      <4> QED BY <1>1, <4>2
    <3>2. CASE HandleEdge(d) \/ UpdateEdge(d)
      BY <1>1, <3>2 DEF HandleEdge, UpdateEdge
    <3>3. CASE \/ \E period \in Period : SetPeriod(d, period)
               \/ \E m \in Multiplier : SetPeriodMultiplier(d, m)
               \/ SetDutyCycle(d)
               \/ \E enabled \in BOOLEAN : SetEnabled(d, enabled)
      BY <1>1, <3>3, SettersKeep
    <3> QED BY <2>2, <3>1, <3>2, <3>3 DEF ClockStep
  <2>3. CASE StartUpdatePhase \/ NextDelta \/ AdvanceTime \/ UNCHANGED vars
    BY <1>1, <2>3 DEF StartUpdatePhase, NextDelta, AdvanceTime, vars
  <2> QED BY <1>1, <2>1, <2>2, <2>3 DEF Next
<1>2. ClockInv /\ [Next]_vars =>
        [\A c \in Clock :
           (mParametersChanged[c] /\ ~mParametersChanged'[c]) =>
             IF mRunning'[c] THEN mOffset'[c] > now ELSE mOffset'[c] = now]_vars
  BY <1>1
<1> QED BY <1>2, ClockInvariance, PTL DEF Spec, NewParametersStartAhead

-----------------------------------------------------------------------------
(* The dividers of a source.                                               *)

\* Each divider divides a source: no divider of a divider.
Flat == \A d \in Dividers : Parent[d] \in Sources

\* Time from t to the next of the periods p that begin at o.
Until(t, o, p) == IF t < o THEN o - t ELSE p - ((t - o) % p)

\* A period of clock c starts at this time, or has done so.
Starts(c) == c \in ticked \/ (mRunning[c] /\ NextStart(c) = now)

\* The periods the parent of divider d will have started since d did, when
\* everything has happened at this time.
Passed(d) == since[d] + IF Starts(Parent[d]) THEN 1 ELSE 0
Since(d)  == IF Starts(d) THEN 0 ELSE Passed(d)

\* The dividers whose periods are counted from here on.
Counted(d) == d \in steady \/ (Starts(d) /\ d \notin touched)

\* Without a change that waits the active parameters are the configured ones.
Settled(c) ==
    ~mParametersChanged[c] =>
        IF c \in Sources
        THEN mRunning[c] = cEnabled[c] /\ mPeriod[c] = cPeriod[c] /\ mOffset[c] = cOffset[c]
        ELSE /\ mRunning[c] = (cEnabled[c] /\ cEnabled[Parent[c]])
             /\ mPeriod[c] = cMultiplier[c] * cPeriod[Parent[c]]
             /\ mCurrentPeriodMultiplier[c] = cMultiplier[c]
             /\ mRunning[c] => mRemainingMasterPeriods[c] = Unknown

\* A divider that is counted may skip k more periods of its parent: at least
\* what is left of its own period, and exactly that if nothing is rounded.
Left(d, k) ==
    /\ k \in Nat /\ k < cMultiplier[d] /\ k >= cMultiplier[d] - 1 - Since(d)
    /\ Exact(cMultiplier[d]) => k = cMultiplier[d] - 1 - Since(d)

\* The next period of a divider starts with one of its parent, which one is
\* known if it is counted.
Linked(d) ==
    mRunning[d] /\ ~mParametersChanged[d] =>
        \E k \in Nat :
            /\ Until(now, mOffset[d], mPeriod[d]) =
                  Until(now, cOffset[Parent[d]], cPeriod[Parent[d]]) + k * cPeriod[Parent[d]]
            /\ Counted(d) => Left(d, k)

\* What a change of parameters will find is left of the period of a divider.
Remembered(d) ==
    Counted(d) => /\ Left(d, RemainingPeriods(d))
                  /\ cOffset[Parent[d]] <= now + cPeriod[Parent[d]]
                  /\ cEnabled[d]

\* A divider starts a period on every multiplier-th one of its parent, or later.
InStep(d) ==
    /\ Starts(d) => Starts(Parent[d])
    /\ d \in steady /\ Starts(d) => Passed(d) >= cMultiplier[d]
    /\ d \in steady /\ Exact(cMultiplier[d]) =>
           /\ Passed(d) <= cMultiplier[d]
           /\ Starts(d) <=> Passed(d) = cMultiplier[d]

HistoryTypes ==
    /\ ticked \subseteq Clock /\ since \in [Dividers -> Nat]
    /\ steady \subseteq Dividers /\ touched \subseteq Dividers
    /\ steady \cap touched = {}

\* The inductive invariant, relative to ClockInv.
AlignInv ==
    /\ HistoryTypes
    /\ \A c \in Clock : Settled(c)
    /\ \A d \in Dividers : Linked(d) /\ Remembered(d) /\ InStep(d)


\* The time to the next period falls to 1, and then starts again.
LEMMA UntilFacts ==
  ASSUME NEW t \in Nat, NEW o \in Nat, NEW p \in Nat \ {0}
  PROVE  /\ Until(t, o, p) \in Nat \ {0}
         /\ o <= t + p => Until(t, o, p) <= p
         /\ Until(t, o, p) = 1 => o <= t + 1
         /\ Until(t + 1, o, p) = IF Until(t, o, p) = 1 THEN p ELSE Until(t, o, p) - 1
<1>1. CASE t + 1 < o
  BY <1>1 DEF Until
<1>2. CASE t + 1 = o
  <2>1. 0 * p = 0 /\ (t + 1) - o = 0
    BY <1>2
  <2>2. 0 % p = 0
    BY <2>1, Division
  <2> QED BY <1>2, <2>1, <2>2 DEF Until
<1>3. CASE o <= t
  <2>1. PICK a \in Nat : a = t - o /\ a + 1 = (t + 1) - o
    <3>1. t - o \in Nat /\ (t - o) + 1 = (t + 1) - o
      BY <1>3
    <3> QED BY <3>1
  <2>2. PICK q \in Nat, r \in Nat : a % p = r /\ r < p /\ a = q * p + r
    <3> DEFINE d == a \div p
               m == a % p
    <3>1. d \in Nat /\ m \in 0 .. p - 1 /\ a = p * d + m
      OBVIOUS
    <3>2. m \in Nat /\ m < p /\ p * d = d * p
      BY <3>1
    <3> HIDE DEF d
    <3> QED BY <3>1, <3>2
  <2>3. Until(t, o, p) = p - r /\ Until(t + 1, o, p) = p - ((a + 1) % p)
    BY <1>3, <2>1, <2>2 DEF Until
  <2>4. q * p \in Nat /\ (q + 1) * p = q * p + p
    BY Product
  <2>5. CASE r = p - 1
    <3>1. q + 1 \in Nat /\ a + 1 = (q + 1) * p
      BY <2>2, <2>4, <2>5
    <3>2. (a + 1) % p = (a + 1) - (q + 1) * p
      <4>1. a + 1 \in Nat /\ (q + 1) * p <= a + 1 /\ a + 1 < (q + 1) * p + p
        BY <2>4, <3>1
      <4> QED BY <3>1, <4>1, Division
    <3>3. (a + 1) % p = 0
      BY <3>1, <3>2
    <3> QED BY <1>3, <2>2, <2>3, <2>5, <3>3
  <2>6. CASE r # p - 1
    <3>1. a + 1 \in Nat /\ q * p <= a + 1 /\ a + 1 < q * p + p
      BY <2>2, <2>4, <2>6
    <3>2. (a + 1) % p = (a + 1) - q * p
      BY <3>1, Division
    <3>3. (a + 1) % p = r + 1
      BY <2>2, <2>4, <3>2
    <3> QED BY <1>3, <2>2, <2>3, <2>6, <3>3
  <2> QED BY <2>5, <2>6
<1> QED BY <1>1, <1>2, <1>3

\* With k whole periods of the parent and a part x of one still to go, what
\* get_next_parameters computes from the time that has passed is k.
LEMMA WholePeriodsLeft ==
  ASSUME NEW m \in Nat \ {0}, NEW p \in Nat \ {0}, NEW k \in Nat, k < m,
         NEW x \in Nat \ {0}, x <= p
  PROVE  /\ x + k * p \in Nat /\ x + k * p <= m * p /\ m * p \in Nat \ {0}
         /\ m - 1 - (((m * p - (x + k * p)) * m) \div (m * p)) = k
<1>1. PICK j \in Nat : m = k + 1 + j
  <2>1. m - 1 - k \in Nat /\ m = k + 1 + (m - 1 - k)
    OBVIOUS
  <2> QED BY <2>1
<1>2. PICK y \in Nat : y = p - x /\ y < p
  <2>1. p - x \in Nat /\ p - x < p
    OBVIOUS
  <2> QED BY <2>1
<1>3. k * p \in Nat /\ j * p \in Nat /\ m * p = k * p + p + j * p
  BY <1>1
<1>4. m * p - (x + k * p) = j * p + y
  BY <1>2, <1>3
<1>5. PICK s \in Nat \ {0} : s = m * p
  <2>1. m * p \in Nat \ {0}
    BY <1>3
  <2> QED BY <2>1
<1>6. (j * p + y) * m = j * s + y * m
  BY <1>5
<1>7. y * m \in Nat /\ y * m < s
  <2>1. y * m \in Nat
    OBVIOUS
  <2>2. PICK z \in Nat : p = y + 1 + z
    <3>1. p - 1 - y \in Nat /\ p = y + 1 + (p - 1 - y)
      BY <1>2
    <3> QED BY <3>1
  <2>3. s = y * m + m + z * m /\ z * m \in Nat
    BY <1>5, <2>2
  <2> QED BY <2>1, <2>3
<1>8. j * s \in Nat
  OBVIOUS
<1>9. (j * s + y * m) \div s = j
  BY <1>7, <1>8, Division
<1> QED BY <1>1, <1>2, <1>3, <1>4, <1>5, <1>6, <1>9

\* So does the arithmetic in double, or one more.
LEMMA RoundedPeriodsLeft ==
  ASSUME NEW m \in Nat \ {0}, NEW p \in Nat \ {0}, NEW k \in Nat, k < m,
         NEW x \in Nat \ {0}, x <= p
  PROVE  /\ x + k * p \in Nat /\ x + k * p <= m * p
         /\ m - 1 - ConsumedMasterTicks(m * p - (x + k * p), m, m * p) \in k .. m - 1
         /\ Exact(m) => m - 1 - ConsumedMasterTicks(m * p - (x + k * p), m, m * p) = k
<1>1. PICK u \in Nat, s \in Nat \ {0} :
        /\ u = x + k * p /\ s = m * p /\ u <= s /\ 0 < u
        /\ m - 1 - (((s - u) * m) \div s) = k
  <2>1. k * p \in Nat
    OBVIOUS
  <2>2. 0 < x + k * p
    BY <2>1
  <2> QED BY <2>2, WholePeriodsLeft
<1>2. PICK a \in Nat : a = s - u /\ a < s
  BY <1>1
<1>3. PICK q \in Nat, t \in Nat :
        /\ q = (a * m) \div s /\ t = ConsumedMasterTicks(a, m, s) /\ t <= q /\ q < m
        /\ Exact(m) => t = q
  <2>1. /\ (a * m) \div s \in Nat /\ (a * m) \div s < m
        /\ ConsumedMasterTicks(a, m, s) \in Nat
        /\ ConsumedMasterTicks(a, m, s) <= (a * m) \div s
        /\ Exact(m) => ConsumedMasterTicks(a, m, s) = (a * m) \div s
    BY <1>2, ConsumedFacts
  <2> QED BY <2>1
<1>4. m - 1 - t \in Nat /\ k <= m - 1 - t /\ m - 1 - t < m /\ (Exact(m) => m - 1 - t = k)
  BY <1>1, <1>2, <1>3
<1> QED BY <1>1, <1>2, <1>3, <1>4

\* A divider of a source runs with it, with a multiple of its period.
LEMMA DividerFacts ==
  ASSUME Flat, EngineTypes, NEW d \in Dividers
  PROVE  /\ d \in Clock /\ d \notin Sources /\ Parent[d] \in Sources /\ Parent[d] \in Clock
         /\ d \in Descendants(Parent[d])
         /\ ConfiguredRunning(d) <=> (cEnabled[d] /\ cEnabled[Parent[d]])
         /\ ConfiguredPeriod[d] = cMultiplier[d] * cPeriod[Parent[d]]
         /\ ConfiguredPeriod[Parent[d]] = cPeriod[Parent[d]]
         /\ NextPeriodStart[Parent[d]] = now + Until(now, cOffset[Parent[d]], cPeriod[Parent[d]])
         /\ cPeriod[Parent[d]] \in Nat \ {0, 1} /\ cOffset[Parent[d]] \in Nat
         /\ cMultiplier[d] \in Nat \ {0} /\ now \in Nat
<1>1. d \in Clock /\ d \notin Sources /\ Parent[d] \in Sources /\ Parent[d] \in Clock
  BY DEF Flat, Dividers, Sources
<1>2. Ancestors[d] = {d} \cup Ancestors[Parent[d]] /\ Ancestors[Parent[d]] = {Parent[d]}
  BY <1>1, AncestorsFacts
<1>3. d \in Descendants(Parent[d]) /\ (ConfiguredRunning(d) <=> (cEnabled[d] /\ cEnabled[Parent[d]]))
  BY <1>1, <1>2 DEF Descendants, ConfiguredRunning
<1>4. Parent[d] # NoClock /\ Parent[Parent[d]] = NoClock
  BY <1>1 DEF Sources
<1>5. ConfiguredPeriod[Parent[d]] = cPeriod[Parent[d]]
  BY <1>1, <1>4, ConfiguredPeriodFacts DEF EngineTypes
<1>6. ConfiguredPeriod[d] = cMultiplier[d] * cPeriod[Parent[d]]
  BY <1>1, <1>4, <1>5, ConfiguredPeriodFacts DEF EngineTypes
<1>7. cPeriod[Parent[d]] \in Nat \ {0, 1} /\ cOffset[Parent[d]] \in Nat
      /\ cMultiplier[d] \in Nat \ {0} /\ now \in Nat
  BY <1>1, ClockAssumption DEF EngineTypes
<1>8. NextPeriodStart[Parent[d]] = now + Until(now, cOffset[Parent[d]], cPeriod[Parent[d]])
  <2>1. NextPeriodStart[Parent[d]] =
          IF now < cOffset[Parent[d]] THEN cOffset[Parent[d]]
          ELSE now - ((now - cOffset[Parent[d]]) % cPeriod[Parent[d]]) + cPeriod[Parent[d]]
    BY <1>1, NextPeriodStartFacts
  <2>2. CASE now < cOffset[Parent[d]]
    BY <1>7, <2>1, <2>2 DEF Until
  <2>3. CASE ~(now < cOffset[Parent[d]])
    <3>1. (now - cOffset[Parent[d]]) % cPeriod[Parent[d]] \in Int
      BY <1>7
    <3> QED BY <1>7, <2>1, <2>3, <3>1 DEF Until
  <2> QED BY <2>2, <2>3
<1> QED BY <1>1, <1>3, <1>5, <1>6, <1>7, <1>8

\* A clock whose edge is not due starts its next period later.
LEMMA NextIsLater ==
  ASSUME EngineTypes, NEW c \in Clock, Phase(c), mRunning[c], ~RiseDue(c), ~Rising(c)
  PROVE  now < NextStart(c)
BY TimesFacts DEF EngineTypes, Phase, Low, Up, Deferred, FallDue, Falling, AtFall

\* The next start of a running clock is the one get_next_edge_offset finds.
LEMMA NextIsNext ==
  ASSUME EngineTypes, NEW c \in Clock, Phase(c), mRunning[c], ~RiseDue(c), ~Rising(c)
  PROVE  NextStart(c) = now + Until(now, mOffset[c], mPeriod[c])
<1>1. now < NextStart(c) /\ now \in Nat /\ mOffset[c] \in Nat
  BY NextIsLater DEF EngineTypes
<1>2. CASE Started(c) = 0
  BY <1>1, <1>2, TimesFacts DEF Until
<1>3. CASE Started(c) # 0
  <2>1. Started(c) > 0 /\ ThisStart(c) <= now
    BY <1>1, <1>3, TimesFacts DEF Phase, Low, Up, Deferred, FallDue, Falling, AtFall
  <2>2. now >= mOffset[c] /\ (now - mOffset[c]) % mPeriod[c] = now - ThisStart(c)
    BY <1>1, <2>1, InPeriod
  <2> QED BY <1>1, <2>2, TimesFacts DEF Until
<1> QED BY <1>2, <1>3

\* What the time to the next period is to get_next_parameters.
LEMMA OffsetIsUntil ==
  ASSUME NEW c \in Clock
  PROVE  NextPeriodOffset(c) = Until(now, mOffset[c], mPeriod[c])
BY DEF NextPeriodOffset, Until

-----------------------------------------------------------------------------
(* A step that does not touch a divider leaves it aligned.                 *)

\* Nothing of it, of its parent or of what was counted changes.
LEMMA SameDivider ==
  ASSUME NEW d \in Dividers, Linked(d), Remembered(d), InStep(d),
         now' = now, mOffset'[d] = mOffset[d], mPeriod'[d] = mPeriod[d],
         mRunning'[d] = mRunning[d], mCurrentPeriodMultiplier'[d] = mCurrentPeriodMultiplier[d],
         mRemainingMasterPeriods'[d] = mRemainingMasterPeriods[d],
         cMultiplier'[d] = cMultiplier[d], cEnabled'[d] = cEnabled[d],
         cOffset'[Parent[d]] = cOffset[Parent[d]], cPeriod'[Parent[d]] = cPeriod[Parent[d]],
         since'[d] = since[d], d \in steady' <=> d \in steady, d \in touched' <=> d \in touched,
         Starts(d)' <=> Starts(d), Starts(Parent[d])' <=> Starts(Parent[d]),
         mParametersChanged[d] => mParametersChanged'[d]
  PROVE  (Linked(d) /\ Remembered(d) /\ InStep(d))'
<1>1. Passed(d)' = Passed(d) /\ Since(d)' = Since(d) /\ (Counted(d)' <=> Counted(d))
  BY DEF Passed, Since, Counted
<1>2. Linked(d)'
  BY <1>1 DEF Linked, Left
<1>3. RemainingPeriods(d)' = RemainingPeriods(d)
  BY DEF RemainingPeriods, NextPeriodOffset
<1>4. Remembered(d)'
  BY <1>1, <1>3 DEF Remembered, Left
<1>5. InStep(d)'
  BY <1>1 DEF InStep
<1> QED BY <1>2, <1>4, <1>5

\* A clock whose settings and active parameters stay is settled still.
LEMMA SameSettled ==
  ASSUME NEW c \in Clock, Settled(c),
         mOffset'[c] = mOffset[c], mPeriod'[c] = mPeriod[c], mRunning'[c] = mRunning[c],
         mCurrentPeriodMultiplier'[c] = mCurrentPeriodMultiplier[c],
         mRemainingMasterPeriods'[c] = mRemainingMasterPeriods[c],
         cMultiplier'[c] = cMultiplier[c], cEnabled'[c] = cEnabled[c],
         c \in Sources => cOffset'[c] = cOffset[c] /\ cPeriod'[c] = cPeriod[c],
         c \notin Sources => /\ cEnabled'[Parent[c]] = cEnabled[Parent[c]]
                             /\ cPeriod'[Parent[c]] = cPeriod[Parent[c]],
         mParametersChanged[c] => mParametersChanged'[c]
  PROVE  Settled(c)'
BY DEF Settled

\* Nor does a period start, or stop starting, at this time.
LEMMA SameStart ==
  ASSUME NEW c \in Clock, now' = now, c \in ticked' <=> c \in ticked,
         mRunning'[c] = mRunning[c], mOffset'[c] = mOffset[c], mPeriod'[c] = mPeriod[c],
         mClockCountOffset'[c] = mClockCountOffset[c], ticks'[c] = ticks[c]
  PROVE  Starts(c)' <=> Starts(c)
BY DEF Starts, NextStart, Started

\* master_configurator::handle_parameters_changed tells the dividers, and a
\* change of the source forgets nothing of what they have passed.
LEMMA SourceChangedAligns ==
  ASSUME Flat, ClockInv, AlignInv, NEW c \in Sources, NEW enabled \in BOOLEAN,
         NEW period \in Period, SourceChanged(c, enabled, period)
  PROVE  AlignInv'
<1>1. /\ c \in Clock /\ Setter(c) /\ EngineTypes /\ HistoryTypes /\ now \in Nat
      /\ period \in Nat \ {0, 1}
  BY ClockAssumption DEF SourceChanged, Sources, ClockInv, EngineTypes, AlignInv
<1>2. UNCHANGED <<now, mPeriod, mOffset, mRunning, mClockCountOffset, ticks, ticked, since,
                  steady, touched, mCurrentPeriodMultiplier, mRemainingMasterPeriods,
                  cMultiplier>>
  BY <1>1 DEF SourceChanged, Setter, kernel, engineState
<1>3. /\ \A d \in Clock : mParametersChanged[d] => mParametersChanged'[d]
      /\ \A d \in Descendants(c) : mParametersChanged'[d]
  BY <1>1 DEF Setter, ParametersChanged, Descendants
<1>4. \A d \in Clock : d # c => cEnabled'[d] = cEnabled[d]
  BY <1>1 DEF SourceChanged, EngineTypes
<1>5. /\ \A d \in Sources : d # c => cPeriod'[d] = cPeriod[d] /\ cOffset'[d] = cOffset[d]
      /\ cPeriod'[c] = period /\ cOffset'[c] <= now + period
  BY <1>1 DEF SourceChanged, EngineTypes, RestartTime
<1>6. ASSUME NEW d \in Clock PROVE Starts(d)' <=> Starts(d)
  BY <1>2, SameStart
<1>7. ASSUME NEW d \in Clock PROVE Settled(d)'
  <2>1. CASE mParametersChanged'[d]
    BY <2>1 DEF Settled
  <2>2. CASE ~mParametersChanged'[d]
    <3>1. d # c /\ (d \notin Sources => Parent[d] # c /\ Parent[d] \in Sources /\ Parent[d] \in Clock)
      <4>1. d # c
        BY <1>1, <1>3, <2>2, AncestorsFacts DEF Descendants
      <4>2. ASSUME d \notin Sources
            PROVE  Parent[d] # c /\ Parent[d] \in Sources /\ Parent[d] \in Clock
        <5>1. d \in Dividers
          BY <4>2 DEF Dividers
        <5> QED BY <1>1, <1>3, <2>2, <5>1, DividerFacts
      <4> QED BY <4>1, <4>2
    <3>2. Settled(d)
      BY DEF AlignInv
    <3> QED BY <1>2, <1>3, <1>4, <1>5, <3>1, <3>2, SameSettled
  <2> QED BY <2>1, <2>2
<1>8. ASSUME NEW d \in Dividers PROVE (Linked(d) /\ Remembered(d) /\ InStep(d))'
  <2>1. /\ Linked(d) /\ Remembered(d) /\ InStep(d) /\ d \in Clock /\ d # c
        /\ Parent[d] \in Sources /\ Parent[d] \in Clock /\ d \in Descendants(Parent[d])
    BY <1>1, DividerFacts DEF AlignInv
  <2>2. CASE Parent[d] # c
    BY <1>2, <1>3, <1>4, <1>5, <1>6, <2>1, <2>2, SameDivider
  <2>3. CASE Parent[d] = c
    <3>1. Linked(d)'
      BY <1>3, <2>1, <2>3 DEF Linked
    <3>2. Passed(d)' = Passed(d) /\ Since(d)' = Since(d) /\ (Counted(d)' <=> Counted(d))
      BY <1>2, <1>6, <2>1 DEF Passed, Since, Counted
    <3>3. RemainingPeriods(d)' = RemainingPeriods(d)
      BY <1>2 DEF RemainingPeriods, NextPeriodOffset
    <3>4. Remembered(d)'
      BY <1>2, <1>4, <1>5, <2>1, <2>3, <3>2, <3>3 DEF Remembered, Left
    <3>5. InStep(d)'
      BY <1>2, <1>6, <2>1, <3>2 DEF InStep
    <3> QED BY <3>1, <3>4, <3>5
  <2> QED BY <2>2, <2>3
<1>9. HistoryTypes'
  BY <1>1, <1>2 DEF HistoryTypes
<1> QED BY <1>7, <1>8, <1>9 DEF AlignInv

\* A divider that is changed itself starts anew, and is not counted before it
\* starts a period.
LEMMA DividerChangedAligns ==
  ASSUME Flat, ClockInv, AlignInv, NEW c \in Dividers, NEW enabled \in BOOLEAN,
         NEW multiplier \in Nat \ {0}, DividerChanged(c, enabled, multiplier)
  PROVE  AlignInv'
<1>1. /\ c \in Clock /\ c \notin Sources /\ Setter(c) /\ EngineTypes /\ HistoryTypes
  BY DEF DividerChanged, Dividers, ClockInv, AlignInv
<1>2. UNCHANGED <<now, mPeriod, mOffset, mRunning, mClockCountOffset, ticks, ticked, since,
                  mCurrentPeriodMultiplier, cPeriod, cOffset>>
  BY <1>1 DEF DividerChanged, Setter, kernel, engineState
<1>3. /\ \A d \in Clock : mParametersChanged[d] => mParametersChanged'[d]
      /\ mParametersChanged'[c]
  <2>1. c \in Descendants(c)
    BY <1>1, AncestorsFacts DEF Descendants
  <2> QED BY <1>1, <2>1 DEF Setter, ParametersChanged
<1>4. \A d \in Clock : d # c => /\ cEnabled'[d] = cEnabled[d] /\ cMultiplier'[d] = cMultiplier[d]
                                /\ mRemainingMasterPeriods'[d] = mRemainingMasterPeriods[d]
  BY <1>1 DEF DividerChanged, EngineTypes
<1>5. steady' = steady \ {c} /\ touched' = touched \cup {c}
  BY DEF DividerChanged
<1>6. ASSUME NEW d \in Clock PROVE Starts(d)' <=> Starts(d)
  BY <1>2, SameStart
<1>7. ASSUME NEW d \in Clock PROVE Settled(d)'
  <2>1. CASE d = c
    BY <1>3, <2>1 DEF Settled
  <2>2. CASE d # c
    <3>1. d \notin Sources => Parent[d] # c /\ Parent[d] \in Clock
      BY <1>1, DividerFacts DEF Dividers
    <3>2. Settled(d)
      BY DEF AlignInv
    <3> QED BY <1>2, <1>3, <1>4, <2>2, <3>1, <3>2, SameSettled
  <2> QED BY <2>1, <2>2
<1>8. ASSUME NEW d \in Dividers PROVE (Linked(d) /\ Remembered(d) /\ InStep(d))'
  <2>1. /\ Linked(d) /\ Remembered(d) /\ InStep(d) /\ d \in Clock /\ Parent[d] \in Clock
    BY <1>1, DividerFacts DEF AlignInv
  <2>2. CASE d # c
    <3>1. (d \in steady' <=> d \in steady) /\ (d \in touched' <=> d \in touched)
      BY <1>5, <2>2
    <3> QED BY <1>2, <1>3, <1>4, <1>6, <2>1, <2>2, <3>1, SameDivider
  <2>3. CASE d = c
    <3>1. Linked(d)'
      BY <1>3, <2>3 DEF Linked
    <3>2. ~Counted(d)' /\ d \notin steady'
      BY <1>5, <2>3 DEF Counted
    <3> QED BY <1>6, <2>1, <3>1, <3>2 DEF Remembered, InStep
  <2> QED BY <2>2, <2>3
<1>9. HistoryTypes'
  BY <1>1, <1>2, <1>5 DEF HistoryTypes
<1> QED BY <1>7, <1>8, <1>9 DEF AlignInv

\* engine::update with an edge: the period that was due has started.
LEMMA UpdateEdgeAligns ==
  ASSUME Inverted = {}, Flat, ClockInv, AlignInv, NEW c \in Clock, UpdateEdge(c)
  PROVE  AlignInv'
<1>1. /\ EngineTypes /\ HistoryTypes /\ Phase(c) /\ m_new_val[c] # m_cur_val[c] /\ mRunning[c]
  BY DEF UpdateEdge, AtEdge, ClockInv, AlignInv
<1>2. UNCHANGED <<now, mPeriod, mOffset, mRunning, mClockCountOffset, since, steady, touched,
                  mCurrentPeriodMultiplier, mRemainingMasterPeriods, cMultiplier, cEnabled,
                  cPeriod, cOffset, mParametersChanged>>
  BY DEF UpdateEdge, kernel, settings, alignment, dividerHistory
<1>3. ASSUME NEW d \in Clock PROVE Starts(d)' <=> Starts(d)
  <2>1. CASE d # c
    <3>1. ticks'[d] = ticks[d] /\ (d \in ticked' <=> d \in ticked)
      BY <1>1, <2>1 DEF UpdateEdge, EngineTypes
    <3> QED BY <1>2, <3>1, SameStart
  <2>2. CASE d = c /\ AtFirstEdge(c)
    <3>1. c \in ticked'
      BY <2>2 DEF UpdateEdge
    <3>2. Rising(c)
      <4>1. ~m_cur_val[c] /\ m_new_val[c]
        BY <1>1, <2>2 DEF AtFirstEdge, EngineTypes
      <4> QED BY <1>1, <4>1 DEF Phase, Low, RiseDue, Up, Deferred, FallDue, Falling, Idle, High
    <3>3. Starts(c)
      BY <1>1, <3>2 DEF Rising, Starts
    <3> QED BY <2>2, <3>1, <3>3 DEF Starts
  <2>3. CASE d = c /\ ~AtFirstEdge(c)
    <3>1. ticks' = ticks /\ ticked' = ticked
      BY <2>3 DEF UpdateEdge
    <3> QED BY <1>2, <3>1, SameStart
  <2> QED BY <2>1, <2>2, <2>3
<1>4. ASSUME NEW d \in Clock PROVE Settled(d)'
  BY <1>2, SameSettled DEF AlignInv
<1>5. ASSUME NEW d \in Dividers PROVE (Linked(d) /\ Remembered(d) /\ InStep(d))'
  <2>1. /\ Linked(d) /\ Remembered(d) /\ InStep(d) /\ d \in Clock /\ Parent[d] \in Clock
    BY <1>1, DividerFacts DEF AlignInv
  <2> QED BY <1>2, <1>3, <2>1, SameDivider
<1>6. HistoryTypes'
  BY <1>1, <1>2 DEF UpdateEdge, HistoryTypes
<1> QED BY <1>4, <1>5, <1>6 DEF AlignInv

\* Steps that change neither parameters nor the periods that have started.
LEMMA OthersAlign ==
  ASSUME Flat, ClockInv, AlignInv,
         \/ \E c \in Clock : HandleEdge(c)
         \/ StartUpdatePhase \/ NextDelta \/ UNCHANGED vars
  PROVE  AlignInv'
<1>1. EngineTypes /\ HistoryTypes
  BY DEF ClockInv, AlignInv
<1>2. UNCHANGED <<now, mPeriod, mOffset, mRunning, mClockCountOffset, ticks, ticked, since,
                  steady, touched, mCurrentPeriodMultiplier, mRemainingMasterPeriods,
                  cMultiplier, cEnabled, cPeriod, cOffset, mParametersChanged>>
  BY DEF HandleEdge, StartUpdatePhase, NextDelta, vars, kernel, engineState, settings,
         alignment, dividerHistory
<1>3. ASSUME NEW d \in Clock PROVE Starts(d)' <=> Starts(d)
  BY <1>2, SameStart
<1>4. ASSUME NEW d \in Clock PROVE Settled(d)'
  BY <1>2, SameSettled DEF AlignInv
<1>5. ASSUME NEW d \in Dividers PROVE (Linked(d) /\ Remembered(d) /\ InStep(d))'
  <2>1. /\ Linked(d) /\ Remembered(d) /\ InStep(d) /\ d \in Clock /\ Parent[d] \in Clock
    BY <1>1, DividerFacts DEF AlignInv
  <2> QED BY <1>2, <1>3, <2>1, SameDivider
<1>6. HistoryTypes'
  BY <1>1, <1>2 DEF HistoryTypes
<1> QED BY <1>4, <1>5, <1>6 DEF AlignInv

\* engine::update with new parameters: the next period of a divider starts
\* with the one of its parent that was left.
LEMMA UpdateParametersAligns ==
  ASSUME Inverted = {}, Flat, ClockInv, AlignInv, NEW c \in Clock, UpdateParameters(c)
  PROVE  AlignInv'
<1>1. /\ EngineTypes /\ HistoryTypes /\ Phase(c) /\ mParametersChanged[c] /\ ~AtFirstEdge(c)
      /\ runnable = {} /\ SourceRestarts
  BY DEF UpdateParameters, ParametersDue, ClockInv, KernelPhases, AlignInv
<1>2. UNCHANGED <<now, ticks, ticked, since, steady, touched, cMultiplier, cEnabled, cPeriod,
                  cOffset>>
  BY DEF UpdateParameters, kernel, settings, dividerHistory
<1>3. ASSUME NEW d \in Clock, d # c
      PROVE  /\ mPeriod'[d] = mPeriod[d] /\ mOffset'[d] = mOffset[d]
             /\ mRunning'[d] = mRunning[d] /\ mClockCountOffset'[d] = mClockCountOffset[d]
             /\ mParametersChanged'[d] = mParametersChanged[d]
             /\ mCurrentPeriodMultiplier'[d] = mCurrentPeriodMultiplier[d]
             /\ mRemainingMasterPeriods'[d] = mRemainingMasterPeriods[d]
  BY <1>1, <1>3 DEF UpdateParameters, EngineTypes
<1>4. ~RiseDue(c) /\ ~Rising(c)
  BY <1>1 DEF RiseDue, Rising, AtFirstEdge, AtEdge, EngineTypes
<1>5. GetClockCount(c) = ticks[c]
  BY <1>1, <1>4, CountIsRight
<1>6. /\ mRunning'[c] = ConfiguredRunning(c) /\ mPeriod'[c] = ConfiguredPeriod[c]
      /\ mOffset'[c] = NextOffset(c) /\ mClockCountOffset'[c] = ticks[c]
      /\ mCurrentPeriodMultiplier'[c] = cMultiplier[c]
      /\ mRemainingMasterPeriods'[c] =
            IF ConfiguredRunning(c) \/ c \in Sources THEN Unknown ELSE RemainingPeriods(c)
  BY <1>1, <1>5 DEF UpdateParameters, CountAtUpdate, EngineTypes
<1>7. /\ NextOffset(c) \in Nat /\ ConfiguredPeriod[c] \in Nat \ {0, 1} /\ now \in Nat
      /\ IF ConfiguredRunning(c) THEN NextOffset(c) > now ELSE NextOffset(c) = now
  BY <1>1, NextOffsetFacts, ConfiguredPeriodFacts DEF EngineTypes
<1>8. ASSUME NEW d \in Clock PROVE Starts(d)' <=> Starts(d)
  <2>1. CASE d # c
    BY <1>2, <1>3, <2>1, SameStart
  <2>2. CASE d = c
    <3>1. Starts(c) <=> c \in ticked
      <4>1. mRunning[c] => now < NextStart(c)
        BY <1>1, <1>4, NextIsLater
      <4> QED BY <1>1, <4>1, TimesFacts DEF Starts, EngineTypes
    <3>2. Started(c)' = 0
      <4>1. ticks[c] \in Nat
        BY <1>1 DEF EngineTypes
      <4> QED BY <1>2, <1>6, <4>1 DEF Started
    <3>3. NextStart(c)' = NextOffset(c)
      <4>1. 0 * ConfiguredPeriod[c] = 0
        BY <1>7
      <4> QED BY <1>6, <1>7, <3>2, <4>1 DEF NextStart
    <3>4. ~(mRunning'[c] /\ NextStart(c)' = now)
      BY <1>6, <1>7, <3>3
    <3>5. Starts(c)' <=> c \in ticked
      BY <1>2, <3>4 DEF Starts
    <3> QED BY <2>2, <3>1, <3>5
  <2> QED BY <2>1, <2>2
<1>9. ASSUME NEW d \in Clock PROVE Settled(d)'
  <2>1. Settled(d)
    BY DEF AlignInv
  <2>2. CASE d # c
    BY <1>2, <1>3, <2>1, <2>2, SameSettled
  <2>3. CASE d = c /\ c \in Sources
    <3>1. /\ ConfiguredRunning(c) <=> cEnabled[c]
          /\ ConfiguredPeriod[c] = cPeriod[c] /\ NextOffset(c) = cOffset[c]
      BY <1>1, <2>3, TreeFacts, ConfiguredPeriodFacts DEF EngineTypes, Sources, NextOffset
    <3>2. mRunning'[c] = cEnabled[c]
      BY <1>1, <1>6, <3>1 DEF EngineTypes, ConfiguredRunning
    <3> QED BY <1>2, <1>6, <2>3, <3>1, <3>2 DEF Settled
  <2>4. CASE d = c /\ c \notin Sources
    <3>1. c \in Dividers
      BY <2>4 DEF Dividers
    <3>2. /\ ConfiguredRunning(c) <=> (cEnabled[c] /\ cEnabled[Parent[c]])
          /\ ConfiguredPeriod[c] = cMultiplier[c] * cPeriod[Parent[c]]
      BY <1>1, <3>1, DividerFacts
    <3>3. mRunning'[c] = (cEnabled[c] /\ cEnabled[Parent[c]])
      BY <1>6, <3>2 DEF ConfiguredRunning
    <3> QED BY <1>2, <1>6, <2>4, <3>2, <3>3 DEF Settled
  <2> QED BY <2>2, <2>3, <2>4
<1>10. ASSUME NEW d \in Dividers PROVE (Linked(d) /\ Remembered(d) /\ InStep(d))'
  <2>1. /\ Linked(d) /\ Remembered(d) /\ InStep(d) /\ d \in Clock /\ Parent[d] \in Clock
    BY <1>1, DividerFacts DEF AlignInv
  <2>2. CASE d # c
    BY <1>2, <1>3, <1>8, <2>1, <2>2, SameDivider
  <2>3. CASE d = c
    <3>1. Passed(d)' = Passed(d) /\ Since(d)' = Since(d) /\ (Counted(d)' <=> Counted(d))
      BY <1>2, <1>8, <2>1 DEF Passed, Since, Counted
    <3>2. InStep(d)'
      BY <1>2, <1>8, <2>1, <3>1 DEF InStep
    <3>3. PICK m \in Nat \ {0}, p \in Nat \ {0, 1}, o \in Nat :
              m = cMultiplier[d] /\ p = cPeriod[Parent[d]] /\ o = cOffset[Parent[d]]
      BY <1>1, DividerFacts
    <3>4. /\ ConfiguredRunning(d) <=> (cEnabled[d] /\ cEnabled[Parent[d]])
          /\ ConfiguredPeriod[d] = m * p /\ ConfiguredPeriod[Parent[d]] = p
          /\ NextPeriodStart[Parent[d]] = now + Until(now, o, p) /\ d \notin Sources
      BY <1>1, <3>3, DividerFacts
    <3>5. PICK x \in Nat \ {0} : x = Until(now, o, p) /\ (o <= now + p => x <= p)
      BY <1>7, <3>3, UntilFacts
    <3>6. ASSUME Counted(d)
          PROVE  Left(d, RemainingPeriods(d)) /\ RemainingPeriods(d) \in Nat
      BY <2>1, <3>6 DEF Remembered, Left
    <3>7. PICK k \in Nat : /\ k = IF RemainingPeriods(d) > 0 THEN RemainingPeriods(d) ELSE 0
                           /\ Counted(d) => k = RemainingPeriods(d) /\ Left(d, k)
      <4>1. RemainingPeriods(d) \in Nat \cup {-1}
        BY <1>1, <2>1, RemainingPeriodsFacts DEF Unknown
      <4>2. ASSUME Counted(d), RemainingPeriods(d) > 0 PROVE Left(d, RemainingPeriods(d))
        BY <3>6, <4>2
      <4>3. ASSUME Counted(d), ~(RemainingPeriods(d) > 0)
            PROVE  0 = RemainingPeriods(d) /\ Left(d, 0)
        BY <3>6, <4>3
      <4> QED BY <4>1, <4>2, <4>3
    <3>8. k * p \in Nat /\ 0 * p = 0
      OBVIOUS
    <3>9. ASSUME ConfiguredRunning(d)
          PROVE  mOffset'[d] = now + (x + k * p)
      <4>1. NextOffset(d) = NextPeriodStart[Parent[d]]
                + (IF RemainingPeriods(d) > 0
                   THEN RemainingPeriods(d) * ConfiguredPeriod[Parent[d]] ELSE 0)
        BY <3>4, <3>9 DEF NextOffset
      <4>2. (IF RemainingPeriods(d) > 0
             THEN RemainingPeriods(d) * ConfiguredPeriod[Parent[d]] ELSE 0) = k * p
        BY <3>4, <3>7, <3>8
      <4> QED BY <1>6, <1>7, <2>3, <3>4, <3>5, <3>8, <4>1, <4>2
    <3>10. ASSUME ConfiguredRunning(d)
           PROVE  Until(now, mOffset'[d], mPeriod'[d]) = x + k * p
      BY <1>7, <3>8, <3>9, <3>10 DEF Until
    <3>11. Linked(d)'
      <4>1. ASSUME mRunning'[d]
            PROVE  \E j \in Nat :
                     /\ Until(now', mOffset'[d], mPeriod'[d]) =
                          Until(now', cOffset'[Parent[d]], cPeriod'[Parent[d]])
                            + j * cPeriod'[Parent[d]]
                     /\ Counted(d)' => Left(d, j)'
        <5>1. ConfiguredRunning(d)
          BY <1>6, <2>3, <4>1
        <5>2. Until(now', mOffset'[d], mPeriod'[d]) =
                 Until(now', cOffset'[Parent[d]], cPeriod'[Parent[d]]) + k * cPeriod'[Parent[d]]
          BY <1>2, <3>3, <3>5, <3>10, <5>1
        <5>3. Counted(d)' => Left(d, k)'
          BY <1>2, <3>1, <3>3, <3>7 DEF Left
        <5> QED BY <5>2, <5>3
      <4> QED BY <4>1 DEF Linked
    <3>12. ASSUME Counted(d)
           PROVE  Left(d, RemainingPeriods(d))'
      <4>1. CASE ConfiguredRunning(d)
        <5>1. /\ mRunning'[d] /\ mRemainingMasterPeriods'[d] = Unknown
              /\ mCurrentPeriodMultiplier'[d] = m /\ mPeriod'[d] = m * p
          BY <1>6, <2>3, <3>3, <3>4, <4>1
        <5>2. NextPeriodOffset(d)' = x + k * p
          <6>1. NextPeriodOffset(d)' = Until(now', mOffset'[d], mPeriod'[d])
            BY DEF NextPeriodOffset, Until
          <6> QED BY <1>2, <3>10, <4>1, <6>1
        <5>3. x <= p /\ k < m
          <6>1. o <= now + p
            BY <2>1, <3>3, <3>12 DEF Remembered
          <6>2. k < m
            BY <3>3, <3>7, <3>12 DEF Left
          <6> QED BY <3>5, <6>1, <6>2
        <5>4. PICK j \in Nat :
                /\ x + k * p \in Nat /\ x + k * p <= m * p
                /\ j = m - 1 - ConsumedMasterTicks(m * p - (x + k * p), m, m * p)
                /\ k <= j /\ j < m /\ (Exact(m) => j = k)
          <6>1. x <= p /\ k < m /\ p \in Nat \ {0}
            BY <5>3
          <6>2. /\ x + k * p \in Nat /\ x + k * p <= m * p
                /\ m - 1 - ConsumedMasterTicks(m * p - (x + k * p), m, m * p) \in k .. m - 1
                /\ Exact(m) =>
                      m - 1 - ConsumedMasterTicks(m * p - (x + k * p), m, m * p) = k
            BY <6>1, RoundedPeriodsLeft
          <6> QED BY <6>2
        <5>5. RemainingPeriods(d)' = j
          <6>1. ~(NextPeriodOffset(d)' > mPeriod'[d])
            BY <5>1, <5>2, <5>4
          <6>2. RemainingPeriods(d)' = mCurrentPeriodMultiplier'[d] - 1
                   - ConsumedMasterTicks(mPeriod'[d] - NextPeriodOffset(d)',
                                         mCurrentPeriodMultiplier'[d], mPeriod'[d])
            BY <5>1, <6>1 DEF RemainingPeriods
          <6> QED BY <5>1, <5>2, <5>4, <6>2
        <5>6. Since(d) \in Nat
          BY <1>1 DEF HistoryTypes, Since, Passed
        <5>7. k >= m - 1 - Since(d) /\ (Exact(m) => k = m - 1 - Since(d))
          BY <3>3, <3>7, <3>12 DEF Left
        <5> QED BY <1>2, <3>1, <3>3, <5>4, <5>5, <5>6, <5>7 DEF Left
      <4>2. CASE ~ConfiguredRunning(d)
        <5>1. ~mRunning'[d] /\ mRemainingMasterPeriods'[d] = RemainingPeriods(d)
          BY <1>6, <2>3, <3>4, <4>2
        <5>2. RemainingPeriods(d)' = mRemainingMasterPeriods'[d]
          BY <5>1 DEF RemainingPeriods
        <5> QED BY <1>2, <3>1, <3>6, <3>12, <5>1, <5>2 DEF Left
      <4> QED BY <4>1, <4>2
    <3>13. Remembered(d)'
      BY <1>2, <2>1, <3>1, <3>3, <3>12 DEF Remembered
    <3> QED BY <3>2, <3>11, <3>13
  <2> QED BY <2>2, <2>3
<1>11. HistoryTypes'
  BY <1>1, <1>2 DEF HistoryTypes
<1> QED BY <1>9, <1>10, <1>11 DEF AlignInv

\* When time advances, what is left of the period of a divider shrinks with
\* the period of its parent.
LEMMA AdvanceTimeAligns ==
  ASSUME Inverted = {}, Flat, ClockInv, AlignInv, AdvanceTime
  PROVE  AlignInv'
<1>1. /\ EngineTypes /\ HistoryTypes /\ runnable = {} /\ updates = {} /\ edgeNextDelta = {}
      /\ now \in Nat /\ now' = now + 1 /\ ticked' = {} /\ touched' = {}
      /\ since' = [d \in Dividers |-> IF d \in ticked THEN 0 ELSE ParentTicks(d)]
      /\ steady' = steady \cup ((ticked \cap Dividers) \ touched)
  BY DEF AdvanceTime, Quiet, ClockInv, KernelPhases, EngineTypes, AlignInv
<1>2. UNCHANGED <<mPeriod, mOffset, mRunning, mClockCountOffset, mParametersChanged, ticks,
                  cEnabled, cPeriod, cOffset, cMultiplier, mCurrentPeriodMultiplier,
                  mRemainingMasterPeriods>>
  BY DEF AdvanceTime, engineState, settings, alignment
<1>3. ASSUME NEW c \in Clock
      PROVE  Phase(c) /\ ~mParametersChanged[c] /\ ~RiseDue(c) /\ ~Rising(c)
  BY <1>1 DEF ClockInv, Requested, Pending, RiseDue, Rising
<1>4. ASSUME NEW c \in Clock
      PROVE  /\ Starts(c) <=> c \in ticked
             /\ Starts(c)' <=> (mRunning[c] /\ Until(now, mOffset[c], mPeriod[c]) = 1)
  <2>1. mRunning[c] => now < NextStart(c) /\ NextStart(c) = now + Until(now, mOffset[c], mPeriod[c])
    BY <1>1, <1>3, NextIsLater, NextIsNext
  <2>2. NextStart(c)' = NextStart(c)
    BY <1>2 DEF NextStart, Started
  <2>3. Starts(c)' <=> (mRunning[c] /\ NextStart(c) = now + 1)
    BY <1>1, <1>2, <2>2 DEF Starts
  <2>4. Until(now, mOffset[c], mPeriod[c]) \in Nat
    BY <1>1, UntilFacts DEF EngineTypes
  <2> QED BY <1>1, <2>1, <2>3, <2>4 DEF Starts
<1>5. ASSUME NEW c \in Clock PROVE Settled(c)'
  BY <1>2, SameSettled DEF AlignInv
<1>6. ASSUME NEW d \in Dividers PROVE (Linked(d) /\ Remembered(d) /\ InStep(d))'
  <2>1. /\ Linked(d) /\ Remembered(d) /\ InStep(d) /\ d \in Clock /\ d \notin Sources
        /\ Parent[d] \in Sources /\ Parent[d] \in Clock /\ Settled(d) /\ Settled(Parent[d])
    BY <1>1, DividerFacts DEF AlignInv
  <2>2. PICK m \in Nat \ {0}, p \in Nat \ {0, 1}, o \in Nat :
            m = cMultiplier[d] /\ p = cPeriod[Parent[d]] /\ o = cOffset[Parent[d]]
    BY <1>1, DividerFacts
  <2>3. PICK s \in Nat : s = Since(d) /\ (Counted(d) /\ Exact(m) => s < m)
    <3>1. since[d] \in Nat
      BY <1>1 DEF HistoryTypes
    <3>2. Since(d) \in Nat
      BY <3>1 DEF Since, Passed
    <3>3. ASSUME Counted(d), Exact(m) PROVE Since(d) < m
      <4>1. RemainingPeriods(d) \in Nat /\ RemainingPeriods(d) = m - 1 - Since(d)
        BY <2>1, <2>2, <3>3 DEF Remembered, Left
      <4> QED BY <3>2, <4>1
    <3> QED BY <3>2, <3>3
  <2>4. since'[d] = s /\ (d \in steady' <=> Counted(d)) /\ d \notin touched'
    <3>1. Parent[d] \in ticked <=> Starts(Parent[d])
      BY <1>4, <2>1
    <3>2. d \in ticked <=> Starts(d)
      BY <1>4, <2>1
    <3> QED BY <1>1, <2>3, <3>1, <3>2 DEF ParentTicks, Since, Passed, Counted
  <2>5. mRunning[d] = (cEnabled[d] /\ cEnabled[Parent[d]])
        /\ mPeriod[d] = m * p /\ mCurrentPeriodMultiplier[d] = m
        /\ (mRunning[d] => mRemainingMasterPeriods[d] = Unknown)
    BY <1>3, <2>1, <2>2 DEF Settled
  <2>6. PICK x \in Nat \ {0} : /\ x = Until(now, o, p) /\ (o <= now + p => x <= p)
                               /\ x = 1 => o <= now + 1
                               /\ Until(now + 1, o, p) = IF x = 1 THEN p ELSE x - 1
    <3>1. p \in Nat \ {0}
      OBVIOUS
    <3>2. /\ Until(now, o, p) \in Nat \ {0}
          /\ o <= now + p => Until(now, o, p) <= p
          /\ Until(now, o, p) = 1 => o <= now + 1
          /\ Until(now + 1, o, p) = IF Until(now, o, p) = 1 THEN p ELSE Until(now, o, p) - 1
      BY <1>1, <3>1, UntilFacts
    <3> QED BY <3>2
  <2>7. Starts(Parent[d])' <=> (cEnabled[Parent[d]] /\ x = 1)
    BY <1>3, <1>4, <2>1, <2>2, <2>6 DEF Settled
  <2>8. CASE mRunning[d]
    <3>1. PICK k \in Nat : /\ Until(now, mOffset[d], mPeriod[d]) = x + k * p
                           /\ Counted(d) => /\ k < m /\ k >= m - 1 - s
                                            /\ Exact(m) => k = m - 1 - s
      BY <1>3, <2>1, <2>2, <2>3, <2>6, <2>8 DEF Linked, Left
    <3>2. k * p \in Nat /\ (k # 0 => k * p >= p) /\ (k = 0 => k * p = 0)
      <4>1. CASE k = 0
        <5>1. 0 * p = 0
          OBVIOUS
        <5> QED BY <4>1, <5>1
      <4>2. CASE k # 0
        <5>1. PICK j \in Nat : k = j + 1
          <6>1. k - 1 \in Nat /\ k = (k - 1) + 1
            BY <4>2
          <6> QED BY <6>1
        <5>2. j * p \in Nat /\ k * p = j * p + p
          BY <5>1, Product
        <5> QED BY <4>2, <5>2
      <4> QED BY <4>1, <4>2
    <3>3. Until(now, mOffset[d], mPeriod[d]) = 1 <=> (x = 1 /\ k = 0)
      BY <3>1, <3>2
    <3>4. (Starts(d)' <=> (x = 1 /\ k = 0)) /\ (Starts(Parent[d])' <=> x = 1)
      BY <1>4, <2>1, <2>5, <2>7, <2>8, <3>3
    <3>5. Until(now + 1, mOffset[d], mPeriod[d]) =
            IF x = 1 /\ k = 0 THEN m * p ELSE x + k * p - 1
      <4>1. mOffset[d] \in Nat /\ mPeriod[d] \in Nat \ {0}
        BY <1>1, <2>1 DEF EngineTypes
      <4>2. Until(now + 1, mOffset[d], mPeriod[d]) =
              IF Until(now, mOffset[d], mPeriod[d]) = 1 THEN mPeriod[d]
              ELSE Until(now, mOffset[d], mPeriod[d]) - 1
        <5>1. PICK t \in Nat, a \in Nat, b \in Nat \ {0} :
                  t = now /\ a = mOffset[d] /\ b = mPeriod[d]
          BY <1>1, <4>1
        <5>2. Until(t + 1, a, b) = IF Until(t, a, b) = 1 THEN b ELSE Until(t, a, b) - 1
          BY UntilFacts
        <5> QED BY <5>1, <5>2
      <4> QED BY <2>5, <3>1, <3>3, <4>2
    <3>6. PICK y \in Nat \ {0} : y = (IF x = 1 THEN p ELSE x - 1) /\ y = Until(now', o, p)
      BY <1>1, <2>6
    <3>7. PICK j \in Nat : j = IF x = 1 THEN (IF k = 0 THEN m - 1 ELSE k - 1) ELSE k
      OBVIOUS
    <3>8. Until(now', mOffset'[d], mPeriod'[d]) = y + j * p
      <4>1. CASE x = 1 /\ k = 0
        <5>1. m - 1 \in Nat /\ ((m - 1) + 1) * p = (m - 1) * p + p /\ (m - 1) * p \in Nat
          BY Product
        <5>2. m * p = j * p + p /\ j * p \in Nat
          BY <3>7, <4>1, <5>1
        <5> QED BY <1>1, <1>2, <3>5, <3>6, <4>1, <5>2
      <4>2. CASE x = 1 /\ k # 0
        <5>1. k = j + 1
          BY <3>7, <4>2
        <5>2. k * p = j * p + p /\ j * p \in Nat
          BY <5>1, Product
        <5> QED BY <1>1, <1>2, <3>5, <3>6, <4>2, <5>2
      <4>3. CASE x # 1
        BY <1>1, <1>2, <3>2, <3>5, <3>6, <3>7, <4>3
      <4> QED BY <4>1, <4>2, <4>3
    <3>9. (Counted(d)' <=> (Counted(d) \/ Starts(d)'))
          /\ Passed(d)' = s + (IF x = 1 THEN 1 ELSE 0)
          /\ Since(d)' = IF Starts(d)' THEN 0 ELSE s + (IF x = 1 THEN 1 ELSE 0)
      BY <2>4, <3>4 DEF Counted, Passed, Since
    <3>10. ASSUME Counted(d)'
           PROVE  j < m /\ j >= m - 1 - Since(d)' /\ (Exact(m) => j = m - 1 - Since(d)')
      BY <2>3, <3>1, <3>4, <3>7, <3>9, <3>10
    <3>11. Linked(d)'
      BY <1>2, <2>2, <3>6, <3>8, <3>10 DEF Linked, Left
    <3>12. ASSUME Counted(d)'
           PROVE  o <= now' + p /\ y <= p /\ j < m
      <4>1. o <= now' + p
        <5>1. CASE x = 1
          BY <1>1, <2>6, <5>1
        <5>2. CASE x # 1
          BY <1>1, <2>1, <2>2, <3>4, <3>9, <3>12, <5>2 DEF Remembered
        <5> QED BY <5>1, <5>2
      <4>2. y <= p
        BY <1>1, <3>6, <4>1, UntilFacts
      <4> QED BY <3>10, <3>12, <4>1, <4>2
    <3>13. Remembered(d)'
      <4>1. ASSUME Counted(d)' PROVE Left(d, RemainingPeriods(d))'
        <5>1. PICK i \in Nat :
                /\ y + j * p \in Nat /\ y + j * p <= m * p
                /\ i = m - 1 - ConsumedMasterTicks(m * p - (y + j * p), m, m * p)
                /\ j <= i /\ i < m /\ (Exact(m) => i = j)
          <6>1. y <= p /\ j < m /\ p \in Nat \ {0}
            BY <3>12, <4>1
          <6>2. /\ y + j * p \in Nat /\ y + j * p <= m * p
                /\ m - 1 - ConsumedMasterTicks(m * p - (y + j * p), m, m * p) \in j .. m - 1
                /\ Exact(m) =>
                      m - 1 - ConsumedMasterTicks(m * p - (y + j * p), m, m * p) = j
            BY <6>1, RoundedPeriodsLeft
          <6> QED BY <6>2
        <5>2. NextPeriodOffset(d)' = y + j * p
          <6>1. NextPeriodOffset(d)' = Until(now', mOffset'[d], mPeriod'[d])
            BY DEF NextPeriodOffset, Until
          <6> QED BY <3>8, <6>1
        <5>3. /\ mRunning'[d] /\ mRemainingMasterPeriods'[d] = Unknown
              /\ mCurrentPeriodMultiplier'[d] = m /\ mPeriod'[d] = m * p
          BY <1>2, <2>5, <2>8
        <5>4. ~(NextPeriodOffset(d)' > mPeriod'[d])
          BY <5>1, <5>2, <5>3
        <5>5. RemainingPeriods(d)' = mCurrentPeriodMultiplier'[d] - 1
                 - ConsumedMasterTicks(mPeriod'[d] - NextPeriodOffset(d)',
                                       mCurrentPeriodMultiplier'[d], mPeriod'[d])
          BY <5>3, <5>4 DEF RemainingPeriods
        <5>6. RemainingPeriods(d)' = i
          BY <5>1, <5>2, <5>3, <5>5
        <5>7. Since(d)' \in Nat
          BY <3>9
        <5> QED BY <1>2, <2>2, <3>10, <4>1, <5>1, <5>6, <5>7 DEF Left
      <4>2. cEnabled'[d]
        BY <1>1, <1>2, <2>1, <2>5, <2>8 DEF EngineTypes
      <4> QED BY <1>2, <2>2, <3>12, <4>1, <4>2 DEF Remembered
    <3>14. InStep(d)'
      <4>1. Starts(d)' => Starts(Parent[d])'
        BY <3>4
      <4>2. ASSUME d \in steady', Exact(m)
            PROVE  Passed(d)' <= m /\ (Starts(d)' <=> Passed(d)' = m)
        <5>1. k = m - 1 - s
          BY <2>4, <3>1, <4>2
        <5> QED BY <3>4, <3>9, <5>1
      <4>3. ASSUME d \in steady', Starts(d)' PROVE Passed(d)' >= m
        <5>1. k >= m - 1 - s /\ k = 0 /\ x = 1
          BY <2>4, <3>1, <3>4, <4>3
        <5> QED BY <3>9, <5>1
      <4> QED BY <1>2, <2>2, <4>1, <4>2, <4>3 DEF InStep
    <3> QED BY <3>11, <3>13, <3>14
  <2>9. CASE ~mRunning[d]
    <3>1. ~Starts(d)' /\ ~mRunning'[d]
      BY <1>2, <1>4, <2>1, <2>9
    <3>2. Counted(d)' <=> Counted(d)
      BY <2>4, <3>1 DEF Counted
    <3>3. ASSUME Counted(d)
          PROVE  /\ ~Starts(Parent[d])' /\ Passed(d)' = s /\ Since(d)' = s
                 /\ Exact(m) => s < m
      <4>1. ~cEnabled[Parent[d]]
        BY <2>1, <2>5, <2>9, <3>3 DEF Remembered
      <4>2. ~Starts(Parent[d])'
        BY <2>7, <4>1
      <4> QED BY <2>3, <2>4, <3>1, <3>3, <4>2 DEF Passed, Since
    <3>4. Linked(d)'
      BY <3>1 DEF Linked
    <3>5. RemainingPeriods(d)' = mRemainingMasterPeriods'[d]
          /\ RemainingPeriods(d) = mRemainingMasterPeriods[d]
      BY <2>9, <3>1 DEF RemainingPeriods
    <3>6. Remembered(d)'
      <4>1. ASSUME Counted(d)'
            PROVE  Left(d, RemainingPeriods(d))' /\ o <= now' + p /\ cEnabled'[d]
        <5>1. Left(d, RemainingPeriods(d)) /\ o <= now + p /\ cEnabled[d]
          BY <2>1, <2>2, <3>2, <4>1 DEF Remembered
        <5>2. Left(d, RemainingPeriods(d))'
          BY <1>2, <2>3, <3>2, <3>3, <3>5, <4>1, <5>1 DEF Left
        <5> QED BY <1>1, <1>2, <5>1, <5>2
      <4> QED BY <1>2, <2>2, <4>1 DEF Remembered
    <3>7. InStep(d)'
      BY <1>2, <2>2, <2>4, <3>1, <3>3 DEF InStep
    <3> QED BY <3>4, <3>6, <3>7
  <2> QED BY <2>8, <2>9
<1>7. HistoryTypes'
  <2>1. since' \in [Dividers -> Nat]
    <3>1. \A d \in Dividers : ParentTicks(d) \in Nat
      BY <1>1 DEF HistoryTypes, ParentTicks
    <3> QED BY <1>1, <3>1
  <2> QED BY <1>1, <2>1 DEF HistoryTypes
<1> QED BY <1>5, <1>6, <1>7 DEF AlignInv

\* The clocks start with the periods of the dividers on those of the sources.
LEMMA InitAligns ==
  ASSUME Inverted = {}, Flat, Init
  PROVE  AlignInv
<1>1. /\ EngineTypes /\ now = 0 /\ ticked = {} /\ steady = {} /\ touched = {}
      /\ since = [d \in Dividers |-> 0]
      /\ mRunning = [c \in Clock |-> ConfiguredRunning(c)]
      /\ mPeriod = ConfiguredPeriod /\ mOffset = ConfiguredOffset
      /\ mCurrentPeriodMultiplier = cMultiplier
      /\ mRemainingMasterPeriods = [c \in Clock |-> Unknown]
      /\ \A c \in Clock : ticks[c] = 0 /\ mClockCountOffset[c] = 0
  BY InitInv DEF Init, ClockInv
<1>2. ASSUME NEW c \in Clock PROVE Starts(c) <=> mRunning[c] /\ mOffset[c] = 0
  <2>1. Started(c) = 0
    BY <1>1 DEF Started
  <2> QED BY <1>1, <2>1, TimesFacts DEF Starts
<1>3. ASSUME NEW c \in Sources
      PROVE  mRunning[c] = cEnabled[c] /\ mPeriod[c] = cPeriod[c] /\ mOffset[c] = cOffset[c]
  <2>1. c \in Clock /\ Parent[c] = NoClock /\ (ConfiguredRunning(c) <=> cEnabled[c])
    BY TreeFacts DEF Sources
  <2>2. ConfiguredPeriod[c] = cPeriod[c] /\ ConfiguredOffset[c] = cOffset[c]
    BY <1>1, <2>1, ConfiguredPeriodFacts, ConfiguredOffsetFacts DEF EngineTypes
  <2>3. mRunning[c] = cEnabled[c]
    BY <1>1, <2>1 DEF EngineTypes, ConfiguredRunning
  <2> QED BY <1>1, <2>2, <2>3
<1>4. ASSUME NEW d \in Dividers
      PROVE  /\ d \in Clock /\ d \notin Sources /\ Parent[d] \in Sources /\ Parent[d] \in Clock
             /\ mRunning[d] = (cEnabled[d] /\ cEnabled[Parent[d]])
             /\ mPeriod[d] = cMultiplier[d] * cPeriod[Parent[d]]
             /\ mOffset[d] = cOffset[Parent[d]] + StartMultiplier[d] * cPeriod[Parent[d]]
             /\ StartMultiplier[d] \in Nat
  <2>1. /\ d \in Clock /\ d \notin Sources /\ Parent[d] \in Sources /\ Parent[d] \in Clock
        /\ ConfiguredRunning(d) <=> (cEnabled[d] /\ cEnabled[Parent[d]])
        /\ ConfiguredPeriod[d] = cMultiplier[d] * cPeriod[Parent[d]]
        /\ ConfiguredPeriod[Parent[d]] = cPeriod[Parent[d]]
    BY <1>1, DividerFacts
  <2>2. ConfiguredOffset[Parent[d]] = cOffset[Parent[d]]
    BY <1>1, <1>3, <2>1
  <2>3. ConfiguredOffset[d] = ConfiguredOffset[Parent[d]]
                                + StartMultiplier[d] * ConfiguredPeriod[Parent[d]]
    <3>1. Parent[d] # NoClock
      BY <2>1 DEF Sources
    <3> QED BY <1>1, <2>1, <3>1, ConfiguredOffsetFacts DEF EngineTypes
  <2>4. mRunning[d] = (cEnabled[d] /\ cEnabled[Parent[d]])
    BY <1>1, <2>1 DEF ConfiguredRunning
  <2>5. StartMultiplier[d] \in Nat
    BY <2>1, ClockAssumption
  <2> QED BY <1>1, <2>1, <2>2, <2>3, <2>4, <2>5
<1>5. ASSUME NEW c \in Clock PROVE Settled(c)
  <2>1. CASE c \in Sources
    BY <1>3, <2>1 DEF Settled
  <2>2. CASE c \notin Sources
    <3>1. c \in Dividers
      BY <2>2 DEF Dividers
    <3>2. mCurrentPeriodMultiplier[c] = cMultiplier[c] /\ mRemainingMasterPeriods[c] = Unknown
      BY <1>1
    <3> QED BY <1>4, <2>2, <3>1, <3>2 DEF Settled
  <2> QED BY <2>1, <2>2
<1>6. ASSUME NEW d \in Dividers PROVE Linked(d) /\ Remembered(d) /\ InStep(d)
  <2>1. PICK m \in Nat \ {0}, p \in Nat \ {0, 1}, o \in Nat, n \in Nat :
            /\ m = cMultiplier[d] /\ p = cPeriod[Parent[d]] /\ o = cOffset[Parent[d]]
            /\ n = StartMultiplier[d]
    BY <1>1, <1>4, DividerFacts
  <2>2. /\ d \in Clock /\ Parent[d] \in Clock /\ Parent[d] \in Sources
        /\ mRunning[d] = (cEnabled[d] /\ cEnabled[Parent[d]])
        /\ mPeriod[d] = m * p /\ mOffset[d] = o + n * p
    BY <1>4, <2>1
  <2>3. n * p \in Nat /\ 0 * p = 0 /\ 0 % p = 0 /\ m * p \in Nat \ {0}
        /\ (n # 0 => n * p >= p /\ n * p = p + (n - 1) * p) /\ m * p = p + (m - 1) * p
        /\ (n - 1) * p \in Int /\ (m - 1) * p \in Nat
    <3>1. ASSUME NEW i \in Nat \ {0} PROVE i * p = p + (i - 1) * p /\ (i - 1) * p \in Nat
      <4>1. i - 1 \in Nat /\ (i - 1) + 1 = i
        OBVIOUS
      <4>2. (i - 1) * p \in Nat /\ ((i - 1) + 1) * p = (i - 1) * p + p
        BY <4>1, Product
      <4> QED BY <4>1, <4>2
    <3>2. n * p \in Nat /\ 0 * p = 0 /\ (n - 1) * p \in Int
      OBVIOUS
    <3>3. 0 % p = 0
      BY <3>2, Division
    <3>4. m * p = p + (m - 1) * p /\ (m - 1) * p \in Nat
      BY <3>1
    <3>5. n # 0 => n * p >= p /\ n * p = p + (n - 1) * p
      BY <3>1
    <3> QED BY <3>2, <3>3, <3>4, <3>5
  <2>4. Starts(d) <=> (mRunning[d] /\ o = 0 /\ n = 0)
    <3>1. o + n * p = 0 <=> (o = 0 /\ n = 0)
      BY <2>3
    <3> QED BY <1>2, <2>2, <3>1
  <2>5. ASSUME o = 0, n = 0
        PROVE  Until(now, mOffset[d], mPeriod[d]) = m * p /\ Until(now, o, p) = p
    <3>1. 0 * (m * p) = 0
      BY <2>3
    <3>2. 0 % (m * p) = 0
      BY <2>3, <3>1, Division
    <3> QED BY <1>1, <2>2, <2>3, <2>5, <3>2 DEF Until
  <2>6. Since(d) = (IF Starts(d) THEN 0 ELSE Passed(d)) /\ (Counted(d) <=> Starts(d))
    BY <1>1 DEF Since, Counted
  <2>7. Linked(d)
    <3>1. PICK k \in Nat : k = IF o = 0 THEN (IF n = 0 THEN m - 1 ELSE n - 1) ELSE n
      OBVIOUS
    <3>2. Until(now, mOffset[d], mPeriod[d]) = Until(now, o, p) + k * p
      <4>1. CASE o = 0 /\ n = 0
        BY <2>3, <2>5, <3>1, <4>1
      <4>2. CASE o = 0 /\ n # 0
        <5>1. Until(now, o, p) = p
          BY <1>1, <2>3, <4>2 DEF Until
        <5>2. Until(now, mOffset[d], mPeriod[d]) = n * p
          BY <1>1, <2>2, <2>3, <4>2 DEF Until
        <5> QED BY <2>3, <3>1, <4>2, <5>1, <5>2
      <4>3. CASE o # 0
        <5>1. Until(now, o, p) = o
          BY <1>1, <4>3 DEF Until
        <5>2. Until(now, mOffset[d], mPeriod[d]) = o + n * p
          BY <1>1, <2>2, <2>3, <4>3 DEF Until
        <5> QED BY <3>1, <4>3, <5>1, <5>2
      <4> QED BY <4>1, <4>2, <4>3
    <3>3. ASSUME Counted(d) PROVE Left(d, k)
      <4>1. k = m - 1 /\ Since(d) = 0
        BY <2>4, <2>6, <3>1, <3>3
      <4> QED BY <2>1, <4>1 DEF Left
    <3> QED BY <2>1, <3>2, <3>3 DEF Linked
  <2>8. Remembered(d)
    <3>1. ASSUME Counted(d)
          PROVE  Left(d, RemainingPeriods(d)) /\ o <= now + p /\ cEnabled[d]
      <4>1. Starts(d) /\ mRunning[d] /\ o = 0 /\ n = 0 /\ Since(d) = 0
        BY <2>4, <2>6, <3>1
      <4>2. NextPeriodOffset(d) = m * p
        BY <2>2, <2>5, <4>1, OffsetIsUntil
      <4>3. mRemainingMasterPeriods[d] = Unknown /\ mCurrentPeriodMultiplier[d] = m
        BY <1>1, <2>1, <2>2
      <4>4. ConsumedMasterTicks(m * p - m * p, m, m * p) = 0
        <5>1. PICK u \in Nat \ {0} : u = m * p
          BY <2>3
        <5>2. u - u = 0 /\ 0 * m = 0 /\ 0 \in Nat /\ 0 < u /\ 0 * u = 0
          OBVIOUS
        <5>3. 0 \div u = 0
          BY <5>2, Division
        <5>4. ConsumedMasterTicks(0, m, u) \in Nat /\ ConsumedMasterTicks(0, m, u) <= (0 * m) \div u
          BY <5>2, ConsumedFacts
        <5> QED BY <5>1, <5>2, <5>3, <5>4
      <4>5. ~(NextPeriodOffset(d) > mPeriod[d])
        BY <2>2, <2>3, <4>2
      <4>6. RemainingPeriods(d) = m - 1 - ConsumedMasterTicks(m * p - m * p, m, m * p)
        BY <2>2, <4>1, <4>2, <4>3, <4>5 DEF RemainingPeriods
      <4>7. cEnabled[d]
        BY <1>1, <2>2, <4>1 DEF EngineTypes
      <4>8. RemainingPeriods(d) = m - 1
        BY <4>4, <4>6
      <4> QED BY <1>1, <2>1, <4>1, <4>7, <4>8 DEF Left
    <3> QED BY <2>1, <3>1 DEF Remembered
  <2>9. InStep(d)
    <3>1. ASSUME Starts(d) PROVE Starts(Parent[d])
      <4>1. mRunning[d] /\ o = 0
        BY <2>4, <3>1
      <4>2. mRunning[Parent[d]] /\ mOffset[Parent[d]] = 0
        BY <1>1, <1>3, <2>1, <2>2, <4>1 DEF EngineTypes
      <4> QED BY <1>2, <2>2, <4>2
    <3> QED BY <1>1, <3>1 DEF InStep
  <2> QED BY <2>7, <2>8, <2>9
<1>7. HistoryTypes
  BY <1>1 DEF HistoryTypes
<1> QED BY <1>5, <1>6, <1>7 DEF AlignInv

\* Every step keeps the alignment.
LEMMA StepAligns ==
  ASSUME Inverted = {}, Flat, ClockInv, AlignInv, [Next]_vars
  PROVE  AlignInv'
<1>1. ASSUME NEW c \in Clock, ClockStep(c) PROVE AlignInv'
  <2>1. CASE HandleEdge(c)
    BY <2>1, OthersAlign
  <2>2. CASE UpdateParameters(c)
    BY <2>2, UpdateParametersAligns
  <2>3. CASE UpdateEdge(c)
    BY <2>3, UpdateEdgeAligns
  <2>4. CASE \/ \E period \in Period : SetPeriod(c, period)
             \/ \E m \in Multiplier : SetPeriodMultiplier(c, m)
             \/ SetDutyCycle(c)
             \/ \E enabled \in BOOLEAN : SetEnabled(c, enabled)
    <3>1. /\ cEnabled[c] \in BOOLEAN /\ cMultiplier[c] \in Nat \ {0}
          /\ c \in Sources => cPeriod[c] \in Period
          /\ Multiplier \subseteq Nat \ {0}
      BY ClockAssumption DEF ClockInv, EngineTypes
    <3>2. \/ \E enabled \in BOOLEAN, period \in Period :
                c \in Sources /\ SourceChanged(c, enabled, period)
          \/ \E enabled \in BOOLEAN, multiplier \in Nat \ {0} :
                c \in Dividers /\ DividerChanged(c, enabled, multiplier)
      BY <2>4, <3>1 DEF SetPeriod, SetPeriodMultiplier, SetDutyCycle, SetEnabled
    <3> QED BY <3>2, SourceChangedAligns, DividerChangedAligns
  <2> QED BY <1>1, <2>1, <2>2, <2>3, <2>4 DEF ClockStep
<1> QED BY <1>1, AdvanceTimeAligns, OthersAlign DEF Next

\* At every moment each divider of a source is on the periods of its parent, and
\* remembers how many of them are left when its parameters change.
THEOREM AlignInvariance ==
  ASSUME Inverted = {}, Flat
  PROVE  Spec => []AlignInv
<1>1. Init => AlignInv
  BY InitAligns
<1>2. ClockInv /\ AlignInv /\ [Next]_vars => AlignInv'
  BY StepAligns
<1> QED BY <1>1, <1>2, ClockInvariance, PTL DEF Spec

\* What the invariant says once nothing is left to do at a time.
LEMMA WhenQuiet ==
  ASSUME Inverted = {}, Flat, ClockInv, AlignInv, Quiet, NEW d \in Dividers
  PROVE  /\ d \in ticked => Parent[d] \in ticked
         /\ d \in steady /\ d \in ticked => ParentTicks(d) >= cMultiplier[d]
         /\ d \in steady /\ Exact(cMultiplier[d]) =>
                /\ ParentTicks(d) <= cMultiplier[d]
                /\ d \in ticked <=> ParentTicks(d) = cMultiplier[d]
         /\ ParentTicks(d) \in Nat /\ (Parent[d] \in ticked => ParentTicks(d) # 0)
<1>1. EngineTypes /\ HistoryTypes /\ InStep(d) /\ runnable = {} /\ updates = {}
  BY DEF Quiet, ClockInv, AlignInv
<1>2. d \in Clock /\ Parent[d] \in Clock /\ since[d] \in Nat
  BY <1>1, DividerFacts DEF HistoryTypes
<1>3. ASSUME NEW c \in Clock PROVE Starts(c) <=> c \in ticked
  <2>1. Phase(c) /\ ~RiseDue(c) /\ ~Rising(c)
    BY <1>1 DEF ClockInv, Requested, RiseDue, Rising
  <2>2. mRunning[c] => now < NextStart(c)
    BY <1>1, <2>1, NextIsLater
  <2> QED BY <1>1, <2>2, TimesFacts DEF Starts, EngineTypes
<1>4. ParentTicks(d) = Passed(d)
  BY <1>2, <1>3 DEF ParentTicks, Passed
<1>5. ParentTicks(d) \in Nat /\ (Parent[d] \in ticked => ParentTicks(d) # 0)
  BY <1>2 DEF ParentTicks
<1> QED BY <1>1, <1>2, <1>3, <1>4, <1>5 DEF InStep

\* divider_configurator::get_next_parameters and get_next_period_start_time keep
\* a divider of a source aligned with it: it starts a period only together with
\* its parent and, as long as it is not changed itself, never before the
\* multiplier-th one, through all changes of the period, the duty cycle and the
\* enabling of the parent.  With a multiplier for which the arithmetic in double
\* loses nothing it is on exactly every multiplier-th one.
THEOREM DividersStayAligned ==
  ASSUME Inverted = {}, Flat
  PROVE  Spec => []DividersAligned
<1>1. ClockInv /\ AlignInv => DividersAligned
  BY WhenQuiet DEF DividersAligned
<1> QED BY <1>1, ClockInvariance, AlignInvariance, PTL

\* A clock derived with multiplier 1 from a source, such as a clock gate that
\* stays enabled (gate.cc), starts every period the source starts.
THEOREM MirrorsStayInStep ==
  ASSUME Inverted = {}, Flat
  PROVE  Spec => []MirrorsItsParent
<1>1. ClockInv /\ AlignInv => MirrorsItsParent
  <2>1. ASSUME ClockInv, AlignInv, Quiet, NEW d \in steady, cMultiplier[d] = 1
        PROVE  d \in ticked <=> Parent[d] \in ticked
    <3>1. d \in Dividers
      BY <2>1 DEF AlignInv, HistoryTypes
    <3>2. Exact(1)
      BY RoundingAssumption DEF Exact
    <3> QED BY <2>1, <3>1, <3>2, WhenQuiet
  <2> QED BY <2>1 DEF MirrorsItsParent
<1> QED BY <1>1, ClockInvariance, AlignInvariance, PTL

-----------------------------------------------------------------------------
(* The clocked timer.                                                      *)

\* Before the simulation nothing has happened to the timer.
Untouched == ~simRunning => /\ mState = "Idle" /\ mScheduledTick = None
                            /\ ~cacheIsNow /\ ~inCallback

\* mCallbackPending stands for an alarm of this instant that is accounted for.
PendingMeansAlarm == mCallbackPending <=> (inCallback \/ (cacheIsNow /\ Due))

\* In the callback the request is gone and the expiry accounted for.
CallbackState == inCallback => cacheIsNow /\ mScheduledTick = None

\* A request belongs to a running timer, or to the alarm of this instant.
RequestBelongs ==
    /\ (~inCallback /\ ~mCallbackPending) =>
           IF mState = "Running" THEN mScheduledTick >= tickCount
           ELSE mScheduledTick = None
    /\ mScheduledTick # None => mScheduledTick >= tickCount

\* A timer that is not idle has a period and shots to go.
Counting == mState # "Idle" => mTicksPerPeriod > 0 /\ mRemainingShotCount # 0

\* A timer stopped in the tick of its alarm has a whole period to go.
StoppedAtAlarm ==
    (mState = "Stopped" /\ mCallbackPending) =>
        mRemainingTicksWhenResuming = mTicksPerPeriod - 1

\* The inductive invariant.
TimerInv == /\ TimerTypeOK
        /\ Untouched
        /\ PendingMeansAlarm
        /\ CallbackState
        /\ RequestBelongs
        /\ Counting
        /\ StoppedAtAlarm

USE DEF None, States

-----------------------------------------------------------------------------

\* The constructor leaves the timer as the invariant says.
LEMMA InitTimerInv == TimerInit => TimerInv
<1>. SUFFICES ASSUME TimerInit PROVE TimerInv
  OBVIOUS
<1>1. TimerTypeOK
  BY TimerAssumption DEF TimerInit, TimerTypeOK
<1>2. PendingMeansAlarm
  BY DEF TimerInit, PendingMeansAlarm, Due
<1>3. Untouched /\ CallbackState /\ RequestBelongs /\ Counting /\ StoppedAtAlarm
  BY DEF TimerInit, Untouched, CallbackState, RequestBelongs, Counting, StoppedAtAlarm
<1>. QED
  BY <1>1, <1>2, <1>3 DEF TimerInv

\* What update_cache leaves in the members, for every call.
LEMMA UpdatedCache ==
    ASSUME TimerInv
    PROVE  /\ PendingNow <=> (inCallback \/ Due)
           /\ PendingNow \in BOOLEAN
           /\ ShotsNow \in Nat \cup {-1}
           /\ StateNow \in States
           /\ StateNow # "Idle" => mTicksPerPeriod > 0 /\ ShotsNow # 0
           /\ ~PendingNow => StateNow = mState /\ ShotsNow = mRemainingShotCount
           /\ StateSeen \in States
           /\ ShotsSeen \in Nat \cup {-1}
<1>1. PendingNow <=> (inCallback \/ Due)
  BY DEF TimerInv, TimerTypeOK, PendingMeansAlarm, CallbackState, PendingNow, Expires, Due
<1>2. PendingNow \in BOOLEAN
  BY DEF TimerInv, TimerTypeOK, PendingNow, Expires, Due
<1>3. StateNow \in States /\ ShotsNow \in Nat \cup {-1}
  BY DEF TimerInv, TimerTypeOK, StateNow, ShotsNow
<1>4. StateNow # "Idle" => mTicksPerPeriod > 0 /\ ShotsNow # 0
  BY DEF TimerInv, TimerTypeOK, Counting, StateNow, ShotsNow
<1>5. ~PendingNow => StateNow = mState /\ ShotsNow = mRemainingShotCount
  BY <1>1 DEF StateNow, ShotsNow, Expires
<1>6. StateSeen \in States /\ ShotsSeen \in Nat \cup {-1}
  BY DEF TimerInv, TimerTypeOK, StateSeen, ShotsSeen
<1>. QED
  BY <1>1, <1>2, <1>3, <1>4, <1>5, <1>6

\* Every step keeps the invariant.
LEMMA StepTimerInv ==
    ASSUME TimerInv, [TimerNext]_timerVars, ~ElaborationCalls
    PROVE  TimerInv'
<1>. USE TimerAssumption
<1>1. ASSUME NEW n \in Periods, NEW shots \in Shots, Start(n, shots)
      PROVE  TimerInv'
  <2>1. TimerTypeOK'
    BY <1>1, UpdatedCache DEF Start, FillCache, Kernel, history, TimerInv, TimerTypeOK, TickAfter
  <2>2. (Untouched /\ CallbackState /\ Counting)'
    BY <1>1, UpdatedCache DEF Start, StartCancels, FillCache, Kernel, CanCall, TimerInv,
       TimerTypeOK, Untouched, CallbackState, Counting, TickAfter
  <2>3. PendingMeansAlarm'
    BY <1>1, UpdatedCache DEF Start, StartCancels, FillCache, Kernel, TimerInv, TimerTypeOK,
       PendingMeansAlarm, CallbackState, Due, TickAfter
  <2>4. RequestBelongs'
    BY <1>1, UpdatedCache DEF Start, StartCancels, FillCache, Kernel, TimerInv, TimerTypeOK,
       RequestBelongs, CallbackState, TickAfter
  <2>5. StoppedAtAlarm'
    BY <1>1 DEF Start, StoppedAtAlarm
  <2>. QED  BY <2>1, <2>2, <2>3, <2>4, <2>5 DEF TimerInv
<1>2. CASE Stop
  <2>1. TimerTypeOK'
    BY <1>2, UpdatedCache DEF Stop, FillCache, Kernel, history, TimerInv, TimerTypeOK, TicksToGo,
       RequestBelongs, PendingMeansAlarm, Due
  <2>2. (Untouched /\ CallbackState /\ Counting)'
    BY <1>2, UpdatedCache DEF Stop, FillCache, Kernel, CanCall, TimerInv, TimerTypeOK, Untouched,
       CallbackState, Counting
  <2>3. PendingMeansAlarm'
    BY <1>2, UpdatedCache DEF Stop, FillCache, Kernel, TimerInv, TimerTypeOK, PendingMeansAlarm,
       CallbackState, Due
  <2>4. RequestBelongs'
    BY <1>2, UpdatedCache DEF Stop, FillCache, Kernel, TimerInv, TimerTypeOK, RequestBelongs,
       CallbackState, PendingMeansAlarm, Due
  <2>5. StoppedAtAlarm'
    <3>1. CASE StateNow = "Running"
      BY <1>2, <3>1 DEF Stop, StoppedAtAlarm, TicksToGo
    <3>2. CASE StateNow = "Stopped" /\ PendingNow
      <4>1. mState = "Stopped" /\ ~Expires
        BY <3>2 DEF TimerInv, TimerTypeOK, RequestBelongs, PendingMeansAlarm, CallbackState,
           StateNow, Expires, Due
      <4>2. mCallbackPending
        BY <3>2, <4>1 DEF PendingNow
      <4>. QED
        BY <1>2, <3>2, <4>1, <4>2 DEF Stop, TimerInv, StoppedAtAlarm
    <3>. QED
      BY <1>2, <3>1, <3>2 DEF Stop, StoppedAtAlarm
  <2>. QED  BY <2>1, <2>2, <2>3, <2>4, <2>5 DEF TimerInv
<1>3. CASE ResumeStopped
  BY <1>3 DEF ResumeStopped, Kernel, cache, history, CanCall, TimerInv, TimerTypeOK, Untouched,
     PendingMeansAlarm, CallbackState, RequestBelongs, Counting, StoppedAtAlarm, Due,
     TickAfter
<1>4. CASE Query
  <2>1. TimerTypeOK'
    BY <1>4, UpdatedCache DEF Query, FillCache, Kernel, history, TimerInv, TimerTypeOK
  <2>2. (Untouched /\ CallbackState /\ Counting)'
    BY <1>4, UpdatedCache DEF Query, FillCache, Kernel, CanCall, TimerInv, TimerTypeOK, Untouched,
       CallbackState, Counting
  <2>3. PendingMeansAlarm'
    BY <1>4, UpdatedCache DEF Query, FillCache, Kernel, TimerInv, TimerTypeOK, PendingMeansAlarm,
       CallbackState, Due
  <2>4. RequestBelongs'
    BY <1>4, UpdatedCache DEF Query, FillCache, Kernel, TimerInv, TimerTypeOK, RequestBelongs,
       PendingMeansAlarm, CallbackState, Due
  <2>5. StoppedAtAlarm'
    BY <1>4, UpdatedCache DEF Query, TimerInv, TimerTypeOK, StoppedAtAlarm, PendingMeansAlarm,
       RequestBelongs, Due, StateNow, PendingNow, Expires
  <2>. QED  BY <2>1, <2>2, <2>3, <2>4, <2>5 DEF TimerInv
<1>5. CASE HandleClockTick
  <2>1. TimerTypeOK'
    BY <1>5, UpdatedCache DEF HandleClockTick, FillCache, history, TimerInv, TimerTypeOK
  <2>2. (Untouched /\ CallbackState /\ Counting)'
    BY <1>5, UpdatedCache DEF HandleClockTick, FillCache, TimerInv, TimerTypeOK, Untouched,
       CallbackState, Counting
  <2>3. (PendingMeansAlarm /\ RequestBelongs)'
    BY <1>5, UpdatedCache DEF HandleClockTick, FillCache, TimerInv, TimerTypeOK,
       PendingMeansAlarm, RequestBelongs, Due
  <2>4. StoppedAtAlarm'
    BY <1>5, UpdatedCache DEF HandleClockTick, TimerInv, TimerTypeOK, StoppedAtAlarm,
       PendingMeansAlarm, RequestBelongs, Due, StateNow, PendingNow, Expires
  <2>. QED  BY <2>1, <2>2, <2>3, <2>4 DEF TimerInv
<1>6. CASE FinishCallback
  <2>. mScheduledTick' \in Nat \cup {None}
    BY <1>6 DEF FinishCallback, TimerInv, TimerTypeOK, TickAfter
  <2>1. TimerTypeOK'
    BY <1>6 DEF FinishCallback, cache, history, TimerInv, TimerTypeOK
  <2>2. (Untouched /\ CallbackState /\ Counting)'
    BY <1>6 DEF FinishCallback, Continues, cache, TimerInv, Untouched, CallbackState,
       Counting
  <2>3. ~Due'
    BY <1>6 DEF FinishCallback, Continues, TimerInv, TimerTypeOK, CallbackState, Counting, Due,
       TickAfter
  <2>4. PendingMeansAlarm'
    BY <1>6, <2>3 DEF FinishCallback, PendingMeansAlarm
  <2>5. RequestBelongs'
    BY <1>6 DEF FinishCallback, Continues, TimerInv, TimerTypeOK, CallbackState, RequestBelongs,
       Counting, TickAfter
  <2>6. StoppedAtAlarm'
    BY <1>6 DEF FinishCallback, StoppedAtAlarm
  <2>. QED  BY <2>1, <2>2, <2>4, <2>5, <2>6 DEF TimerInv
<1>7. CASE StartSimulation
  BY <1>7 DEF StartSimulation, cache, history, TimerInv, TimerTypeOK, Untouched,
     PendingMeansAlarm, CallbackState, RequestBelongs, Counting, StoppedAtAlarm, Due
<1>8. CASE TimePasses
  <2>. tickCount' \in Nat
    BY <1>8 DEF TimePasses, TimerInv, TimerTypeOK
  <2>1. TimerTypeOK'
    BY <1>8 DEF TimePasses, TimerInv, TimerTypeOK
  <2>2. (Untouched /\ CallbackState /\ Counting)'
    BY <1>8 DEF TimePasses, TimerInv, Untouched, CallbackState, Counting
  <2>3. ~mCallbackPending
    BY <1>8 DEF TimePasses, TimerInv, PendingMeansAlarm
  <2>4. PendingMeansAlarm'
    BY <1>8, <2>3 DEF TimePasses, PendingMeansAlarm
  <2>5. RequestBelongs'
    BY <1>8, <2>3 DEF TimePasses, TimerInv, TimerTypeOK, RequestBelongs, Due
  <2>6. StoppedAtAlarm'
    BY <1>8, <2>3 DEF TimePasses, StoppedAtAlarm
  <2>. QED  BY <2>1, <2>2, <2>4, <2>5, <2>6 DEF TimerInv
<1>9. CASE UNCHANGED timerVars
  BY <1>9 DEF timerVars, cache, history, TimerInv, TimerTypeOK, Untouched, PendingMeansAlarm,
     CallbackState, RequestBelongs, Counting, StoppedAtAlarm, Due
<1>. QED
  BY <1>1, <1>2, <1>3, <1>4, <1>5, <1>6, <1>7, <1>8, <1>9 DEF TimerNext

\* The invariant holds throughout.
THEOREM TimerInvariance ==
    ASSUME ~ElaborationCalls
    PROVE  TimerSpec => []TimerInv
<1>1. TimerInv /\ [TimerNext]_timerVars => TimerInv'
  BY StepTimerInv
<1>. QED
  BY <1>1, InitTimerInv, PTL DEF TimerSpec

\* Every variable always has a value of its type.
THEOREM TimerTypeCorrect ==
    ASSUME ~ElaborationCalls
    PROVE  TimerSpec => []TimerTypeOK
<1>1. TimerInv => TimerTypeOK
  BY DEF TimerInv
<1>. QED
  BY <1>1, TimerInvariance, PTL

\* The assertions of clocked_timer.cc never fail: the timer that expires runs,
\* and every alarm given has been accounted for.
THEOREM AssertionsHold ==
    ASSUME ~ElaborationCalls
    PROVE  TimerSpec => []AlarmAccountedFor
<1>1. TimerInv => AlarmAccountedFor
  BY DEF TimerInv, TimerTypeOK, AlarmAccountedFor, Expires, PendingMeansAlarm, CallbackState,
     RequestBelongs, Due
<1>. QED
  BY <1>1, TimerInvariance, PTL

\* A running timer has its next tick requested, any other has no request.
THEOREM RequestsMatch ==
    ASSUME ~ElaborationCalls
    PROVE  TimerSpec => []RequestMatchesState
<1>1. TimerInv => RequestMatchesState
  BY DEF TimerInv, TimerTypeOK, RequestMatchesState, PendingMeansAlarm, CallbackState,
     RequestBelongs, Due
<1>. QED
  BY <1>1, TimerInvariance, PTL
-----------------------------------------------------------------------------
(* The refinement: each action is a step of the service, or none.          *)

\* Nothing the service knows changes.
Same == UNCHANGED <<StateNow, mTicksPerPeriod, ShotsNow, Due, TicksLeft>>

\* start is Start.
LEMMA StartImplements ==
    ASSUME TimerInv, NEW n \in Periods, NEW shots \in Shots, Start(n, shots)
    PROVE  Service!Start(mTicksPerPeriod', ShotsNow')
<1>. USE TimerAssumption
<1>1. ~Expires' /\ mTicksPerPeriod' = n /\ ShotsNow' = shots /\ StateNow' = mState'
  BY DEF Start, FillCache, Expires, ShotsNow, StateNow
<1>2. Due' = Due
  <2>1. CASE PendingNow
    BY <2>1 DEF Start, StartCancels, Kernel, Due
  <2>2. CASE ~PendingNow
    BY <2>2, UpdatedCache DEF Start, StartCancels, Kernel, Due, TimerInv, TimerTypeOK, TickAfter
  <2>. QED  BY <2>1, <2>2
<1>3. TicksLeft' = IF n = 0 \/ shots = 0 THEN 0 ELSE n
  <2>1. CASE PendingNow
    BY <2>1, <1>1, <1>2, UpdatedCache DEF Start, Kernel, TicksLeft
  <2>2. CASE ~PendingNow
    BY <2>2, <1>1, <1>2, UpdatedCache DEF Start, StartCancels, Kernel, TicksLeft, TimerInv,
       TimerTypeOK, TickAfter
  <2>. QED  BY <2>1, <2>2
<1>. QED
  BY <1>1, <1>2, <1>3 DEF Start, Service!Start

\* stop is Stop, or nothing.
LEMMA StopImplements ==
    ASSUME TimerInv, Stop
    PROVE  Service!Stop \/ Same
<1>1. ~Expires' /\ ShotsNow' = mRemainingShotCount' /\ StateNow' = mState'
  BY DEF Stop, FillCache, Expires, ShotsNow, StateNow
<1>2. mTicksPerPeriod' = mTicksPerPeriod /\ ShotsNow' = ShotsNow
  BY <1>1 DEF Stop
<1>3. Due' = Due
  BY UpdatedCache DEF Stop, Kernel, Due, TimerInv, TimerTypeOK
<1>4. CASE StateNow = "Running"
  <2>1. CASE PendingNow
    BY <2>1, <1>1, <1>2, <1>3, <1>4, UpdatedCache
       DEF Stop, Kernel, TicksLeft, TicksToGo, TimerInv, TimerTypeOK, Service!Stop
  <2>2. CASE ~PendingNow
    BY <2>2, <1>1, <1>2, <1>3, <1>4, UpdatedCache
       DEF Stop, Kernel, TicksLeft, TicksToGo, TimerInv, TimerTypeOK, RequestBelongs,
           PendingMeansAlarm, Service!Stop
  <2>. QED  BY <2>1, <2>2
<1>5. CASE StateNow # "Running"
  BY <1>1, <1>2, <1>3, <1>5, UpdatedCache DEF Stop, TicksLeft, Same
<1>. QED
  BY <1>4, <1>5

\* resume_stopped is Resume.
LEMMA ResumeImplements ==
    ASSUME TimerInv, ResumeStopped
    PROVE  Service!Resume
<1>1. ~Expires /\ ~Expires' /\ Due' = Due
  BY DEF TimerInv, TimerTypeOK, RequestBelongs, PendingMeansAlarm, CallbackState, ResumeStopped,
     Kernel, cache, Expires, Due, TickAfter
<1>2. StateNow = "Stopped" /\ StateNow' = "Running" /\ ShotsNow' = ShotsNow
  BY <1>1 DEF ResumeStopped, StateNow, ShotsNow
<1>3. TicksLeft' = TicksLeft
  <2>1. CASE mCallbackPending
    BY <2>1, <1>1, <1>2 DEF ResumeStopped, Kernel, TicksLeft, TimerInv, TimerTypeOK,
       StoppedAtAlarm, PendingMeansAlarm
  <2>2. CASE ~mCallbackPending
    BY <2>2, <1>1, <1>2 DEF ResumeStopped, Kernel, TicksLeft, TimerInv, TimerTypeOK,
       PendingMeansAlarm, RequestBelongs, Due, TickAfter
  <2>. QED  BY <2>1, <2>2
<1>. QED
  BY <1>1, <1>2, <1>3 DEF ResumeStopped, Service!Resume

\* A query is nothing.
LEMMA QueryImplements ==
    ASSUME TimerInv, Query
    PROVE  Same
<1>1. ~Expires' /\ Due' = Due
  BY DEF Query, FillCache, Expires, Kernel, Due
<1>2. ShotsNow' = ShotsNow /\ StateNow' = StateNow
  BY <1>1 DEF Query, ShotsNow, StateNow
<1>. QED
  BY <1>1, <1>2 DEF Query, Kernel, TicksLeft, Same

\* handle_clock_tick is the alarm.
LEMMA TickImplements ==
    ASSUME TimerInv, HandleClockTick
    PROVE  Service!Alarm
<1>1. ~Expires' /\ Due /\ ~Due'
  BY DEF HandleClockTick, FillCache, Expires, Due, TimerInv, TimerTypeOK
<1>2. ShotsNow' = ShotsNow /\ StateNow' = StateNow
  BY <1>1 DEF HandleClockTick, ShotsNow, StateNow
<1>. QED
  BY <1>1, <1>2 DEF HandleClockTick, TicksLeft, Service!Alarm

\* Its end, after the callback, is nothing.
LEMMA FinishImplements ==
    ASSUME TimerInv, FinishCallback
    PROVE  Same
<1>1. ~Due /\ ~Due' /\ ~Expires /\ ~Expires'
  BY DEF FinishCallback, Continues, TimerInv, TimerTypeOK, CallbackState, Counting, Expires, Due,
     TickAfter
<1>2. ShotsNow' = ShotsNow /\ StateNow' = StateNow /\ StateNow = mState
  BY <1>1 DEF FinishCallback, ShotsNow, StateNow
<1>3. TicksLeft' = TicksLeft
  BY <1>1, <1>2 DEF FinishCallback, Continues, TimerInv, TimerTypeOK, TicksLeft, TickAfter
<1>. QED
  BY <1>1, <1>2, <1>3 DEF FinishCallback, Same, Due

\* The start of the simulation is nothing for a timer that was not called.
LEMMA StartSimulationImplements ==
    ASSUME TimerInv, StartSimulation
    PROVE  Same
<1>1. ~Due /\ ~Due' /\ ~Expires /\ ~Expires'
  BY DEF StartSimulation, TimerInv, TimerTypeOK, Untouched, Expires, Due
<1>2. ShotsNow' = ShotsNow /\ StateNow' = StateNow /\ StateNow = "Idle"
  BY <1>1 DEF StartSimulation, TimerInv, Untouched, ShotsNow, StateNow
<1>. QED
  BY <1>1, <1>2 DEF StartSimulation, TicksLeft, Same, Due

\* A tick is counted, or is the last one of the period.
LEMMA AdvanceImplements ==
    ASSUME TimerInv, TimePasses
    PROVE  Service!Count \/ Service!Expire \/ Same
<1>1. ~Due /\ ~Expires /\ ~inCallback /\ ~inCallback' /\ ~mCallbackPending
  BY DEF TimePasses, TimerInv, PendingMeansAlarm, Expires
<1>2. StateNow = mState /\ ShotsNow = mRemainingShotCount
  BY <1>1 DEF StateNow, ShotsNow
<1>3. Expires' <=> Due'
  BY DEF TimePasses, Expires
<1>4. CASE ~Due'
  <2>1. StateNow' = StateNow /\ ShotsNow' = ShotsNow
    BY <1>2, <1>3, <1>4 DEF TimePasses, StateNow, ShotsNow
  <2>2. CASE mState # "Running" \/ tickCount' = tickCount
    BY <2>1, <2>2, <1>1, <1>2, <1>4 DEF TimePasses, TicksLeft, TimerInv, TimerTypeOK, Same, Due
  <2>3. CASE mState = "Running" /\ tickCount' = tickCount + 1
    <3>1. mScheduledTick > tickCount + 1
      BY <2>3, <1>1, <1>4 DEF TimePasses, TimerInv, TimerTypeOK, RequestBelongs, Due
    <3>2. TicksLeft = mScheduledTick - tickCount /\ TicksLeft' = TicksLeft - 1
      BY <2>1, <2>3, <3>1, <1>1, <1>2, <1>4 DEF TimePasses, TicksLeft, TimerInv, TimerTypeOK
    <3>. QED
      BY <2>1, <2>3, <3>1, <3>2, <1>1, <1>2, <1>4 DEF TimePasses, TimerInv, TimerTypeOK, Due,
         Service!Count
  <2>. QED  BY <2>2, <2>3 DEF TimePasses
<1>5. CASE Due'
  <2>1. /\ mState = "Running" /\ tickCount' = tickCount + 1
        /\ mScheduledTick = tickCount + 1
    BY <1>1, <1>5 DEF TimePasses, TimerInv, TimerTypeOK, RequestBelongs, Due
  <2>2. TicksLeft = 1
    BY <2>1, <1>1, <1>2 DEF TicksLeft, TimerInv, TimerTypeOK
  <2>3. /\ StateNow' = IF ShotsNow = 1 THEN "Idle" ELSE "Running"
        /\ ShotsNow' = IF ShotsNow > 0 THEN ShotsNow - 1 ELSE ShotsNow
    BY <2>1, <1>2, <1>3, <1>5 DEF TimePasses, StateNow, ShotsNow
  <2>4. TicksLeft' = IF ShotsNow = 1 THEN 0 ELSE mTicksPerPeriod
    BY <2>3, <1>5 DEF TimePasses, TicksLeft
  <2>. QED
    BY <2>1, <2>2, <2>3, <2>4, <1>1, <1>2, <1>5 DEF TimePasses, Service!Expire
<1>. QED
  BY <1>4, <1>5

\* A clocked timer implements the timer service.
THEOREM Implements ==
    ASSUME ~ElaborationCalls
    PROVE  TimerSpec => Promise
<1>1. TimerInit => Service!TimerInit
  BY DEF TimerInit, Service!TimerInit, StateNow, Expires, Due, TicksLeft
<1>2. TimerInv /\ [TimerNext]_timerVars => [Service!TimerNext]_(Service!tvars)
  <2>. SUFFICES ASSUME TimerInv, [TimerNext]_timerVars
                PROVE  Service!TimerNext \/ UNCHANGED Service!tvars
    OBVIOUS
  <2>1. CASE UNCHANGED timerVars
    BY <2>1 DEF timerVars, cache, history, Service!tvars, StateNow, ShotsNow, Expires, Due,
       TicksLeft
  <2>2. Same => UNCHANGED Service!tvars
    BY DEF Same, Service!tvars
  <2>3. CASE TimerNext
    BY <2>2, <2>3, StartImplements, StopImplements, ResumeImplements, QueryImplements,
       TickImplements, FinishImplements, StartSimulationImplements, AdvanceImplements
       DEF TimerNext, Service!TimerNext
  <2>. QED  BY <2>1, <2>3
<1>. QED
  BY <1>1, <1>2, TimerInvariance, PTL DEF TimerSpec, Promise, Service!TimerSpec
=============================================================================
