---------------------- MODULE TickCallbackEngineProofs ----------------------
(***************************************************************************)
(* Proofs about TickCallbackEngine, for any modules, periods and bounds:   *)
(* type correctness, the agreement between the modules' scheduled ticks    *)
(* and the list of time nodes, that the first node is never left without a *)
(* trigger; and then, on the grid of the tick times of the parameters,     *)
(* that the computed tick count is exact, that every trigger goes off in   *)
(* its own tick and that the engine implements the abstract TickService.   *)
(***************************************************************************)
EXTENDS TickCallbackEngine, FiniteSetTheorems, WellFoundedInduction, TLAPS

-----------------------------------------------------------------------------
(* Arithmetic                                                              *)

(* A nonempty set of natural numbers has a least element: the root of a    *)
(* nonempty list of time nodes exists.                                     *)
LEMMA MinExists ==
  ASSUME NEW S \in SUBSET Nat, S # {}
  PROVE  Min(S) \in S /\ \A y \in S : Min(S) <= y
<1> DEFINE Less == OpToRel(<, Nat)
<1>1. IsWellFoundedOn(Less, Nat)
  BY NatLessThanWellFounded
<1>2. ASSUME NEW x \in Nat, NEW y \in Nat, x < y
      PROVE  <<x, y>> \in Less
  BY <1>2 DEF OpToRel
<1> HIDE DEF Less
<1>3. \E x \in S : \A y \in S : <<y, x>> \notin Less
  BY <1>1, WFMin
<1>4. PICK x \in S : \A y \in S : <<y, x>> \notin Less
  BY <1>3
<1>5. ASSUME NEW y \in S PROVE x <= y
  <2>1. x \in Nat /\ y \in Nat
    OBVIOUS
  <2>2. ~(y < x)
    BY <2>1, <1>4, <1>2
  <2> QED BY <2>1, <2>2
<1>6. \E z \in S : \A y \in S : z <= y
  BY <1>5
<1> QED BY <1>6 DEF Min

(* The least element is the only one that is least.                        *)
LEMMA MinUnique ==
  ASSUME NEW S \in SUBSET Nat, NEW x \in S, \A y \in S : x <= y
  PROVE  Min(S) = x
<1>1. Min(S) \in S /\ \A y \in S : Min(S) <= y
  BY MinExists
<1>2. x \in Nat /\ Min(S) \in Nat
  BY <1>1
<1> QED BY <1>1, <1>2

(* Whole periods in a span of time.                                        *)
LEMMA WholePeriods ==
  ASSUME NEW a \in Nat, NEW p \in Nat \ {0}
  PROVE  /\ a \div p \in Nat
         /\ (a \div p) * p \in Nat
         /\ (a \div p) * p <= a
OBVIOUS

-----------------------------------------------------------------------------
(* The inductive invariant                                                 *)

\* The remembered tick is not in the future.
CacheInPast == mLastTickTime # Invalid => mLastTickTime <= now

\* What cannot be at the same time: a runnable tick method, callbacks,
\* elaboration, and a clock without an engine.
Phases ==
    /\ methodRunnable => simRunning /\ mProcessingTickCount = NotProcessing
    /\ ~simRunning => mProcessingTickCount = NotProcessing
    /\ ~exists => mProcessingTickCount = NotProcessing /\ DOMAIN mNodes = {}

\* The tick being processed has been counted, so a callback cannot request it
\* again.
ProcessedIsCounted ==
    mProcessingTickCount # NotProcessing => mLastTickCount >= mProcessingTickCount

\* The node of the tick being processed is no longer in the list.
ProcessedIsGone == mProcessingTickCount \notin DOMAIN mNodes

IndInv ==
    /\ TypeOK
    /\ CacheInPast
    /\ Phases
    /\ ProcessedIsCounted
    /\ ProcessedIsGone
    /\ RequestsAgree
    /\ RootArmed

-----------------------------------------------------------------------------
(* The tick count                                                          *)

LEMMA TickBeforeType ==
  ASSUME TypeOK, NEW x \in Nat, x >= BaseTick.time
  PROVE  /\ TickBefore(x).count \in Nat
         /\ TickBefore(x).count >= BaseTick.count
         /\ TickBefore(x).time \in Nat
         /\ TickBefore(x).time <= x
<1>1. BaseTick.time \in Nat /\ BaseTick.count \in Nat /\ mPeriod \in Nat \ {0}
  BY ConstantsAssumption DEF TypeOK, BaseTick, Invalid
<1> DEFINE a == x - BaseTick.time
<1>2. a \in Nat
  BY <1>1
<1>3. /\ a \div mPeriod \in Nat
      /\ (a \div mPeriod) * mPeriod \in Nat
      /\ (a \div mPeriod) * mPeriod <= a
  BY <1>1, <1>2, WholePeriods
<1>4. /\ TickBefore(x).count = BaseTick.count + a \div mPeriod
      /\ TickBefore(x).time = BaseTick.time + (a \div mPeriod) * mPeriod
  BY DEF TickBefore
<1> QED BY <1>1, <1>3, <1>4

(* The count of the previous tick is a number that never falls below the   *)
(* remembered one, and filling the cache keeps its time in the past.       *)
LEMMA PrevTickType ==
  ASSUME TypeOK, CacheInPast
  PROVE  /\ PrevTick.count \in Nat
         /\ PrevTick.count >= mLastTickCount
         /\ PrevTick.time \in Int
         /\ mLastTickTime # Invalid \/ Ticking =>
               PrevTick.time \in Nat /\ PrevTick.time <= now
<1>1. now \in Nat /\ mLastTickCount \in Nat /\ mOffset \in Nat /\ mPeriod \in Nat \ {0}
  BY ConstantsAssumption DEF TypeOK, Time
<1>2. CASE mLastTickTime # Invalid \/ Ticking
  <2>1. BaseTick.time <= now /\ BaseTick.count >= mLastTickCount
    BY <1>1, <1>2 DEF BaseTick, CacheInPast, Ticking
  <2>2. BaseTick.time \in Nat /\ BaseTick.count \in Nat
    BY <1>1 DEF TypeOK, BaseTick, Invalid
  <2>3. /\ TickBefore(now).count \in Nat
        /\ TickBefore(now).count >= BaseTick.count
        /\ TickBefore(now).time \in Nat
        /\ TickBefore(now).time <= now
    BY <1>1, <2>1, TickBeforeType
  <2>4. PrevTick = TickBefore(now)
    BY <1>2 DEF PrevTick
  <2> QED BY <1>1, <2>1, <2>2, <2>3, <2>4
<1>3. CASE ~(mLastTickTime # Invalid \/ Ticking)
  BY <1>1, <1>3 DEF PrevTick
<1> QED BY <1>2, <1>3

LEMMA PrevTickAfterType ==
  ASSUME TypeOK, CacheInPast, NEW d \in Nat
  PROVE  /\ PrevTickAfter(d).count \in Nat
         /\ PrevTickAfter(d).count >= mLastTickCount
         /\ PrevTickAfter(d).time \in Int
<1>1. now \in Nat /\ mLastTickCount \in Nat /\ mOffset \in Nat /\ mPeriod \in Nat \ {0}
  BY ConstantsAssumption DEF TypeOK, Time
<1>2. CASE mLastTickTime # Invalid \/ (mRunning /\ now + d >= mOffset)
  <2>1. BaseTick.time <= now + d /\ BaseTick.count >= mLastTickCount
    BY <1>1, <1>2 DEF BaseTick, CacheInPast, TypeOK, Invalid
  <2>2. BaseTick.time \in Nat /\ BaseTick.count \in Nat
    BY <1>1 DEF TypeOK, BaseTick, Invalid
  <2>3. /\ TickBefore(now + d).count \in Nat
        /\ TickBefore(now + d).count >= BaseTick.count
        /\ TickBefore(now + d).time \in Nat
    BY <1>1, <2>1, TickBeforeType
  <2>4. PrevTickAfter(d) = TickBefore(now + d)
    BY <1>2 DEF PrevTickAfter
  <2> QED BY <1>1, <2>1, <2>2, <2>3, <2>4
<1>3. CASE /\ ~(mLastTickTime # Invalid \/ (mRunning /\ now + d >= mOffset))
           /\ mRunning
  BY <1>1, <1>3 DEF PrevTickAfter
<1>4. CASE /\ ~(mLastTickTime # Invalid \/ (mRunning /\ now + d >= mOffset))
           /\ ~mRunning
  <2>1. d \div mPeriod \in Nat /\ (d \div mPeriod) * mPeriod \in Nat
    BY <1>1, WholePeriods
  <2>2. PrevTickAfter(d) = [count |-> mLastTickCount + d \div mPeriod,
                            time  |-> now + (d \div mPeriod) * mPeriod]
    BY <1>4 DEF PrevTickAfter
  <2> QED BY <1>1, <2>1, <2>2
<1> QED BY <1>2, <1>3, <1>4

(* Filling the cache keeps the invariant's parts about it.                 *)
LEMMA CacheStep ==
  ASSUME TypeOK, CacheInPast, RefreshCache \/ FillCache \/ UNCHANGED cache
  PROVE  /\ mLastTickCount' \in Nat
         /\ mLastTickCount' >= mLastTickCount
         /\ mLastTickTime' \in Nat \cup {Invalid}
         /\ mLastTickTime' # Invalid => mLastTickTime' <= now
<1>1. CASE UNCHANGED cache
  BY <1>1 DEF TypeOK, CacheInPast, cache
<1>2. CASE RefreshCache
  <2>1. CASE mLastTickTime # Invalid \/ Ticking
    BY <1>2, <2>1, PrevTickType DEF RefreshCache
  <2>2. CASE ~(mLastTickTime # Invalid \/ Ticking)
    BY <1>1, <1>2, <2>2 DEF RefreshCache
  <2> QED BY <2>1, <2>2
<1>3. CASE FillCache
  BY <1>1, <1>2, <1>3 DEF FillCache
<1> QED BY <1>1, <1>2, <1>3

-----------------------------------------------------------------------------
(* The list of time nodes                                                  *)

\* A well-formed list: a function from ticks to nonempty time nodes.
NodesOK(nodes) ==
    /\ DOMAIN nodes \subseteq Nat
    /\ \A t \in DOMAIN nodes : nodes[t] \in TimeNode
    /\ nodes = [t \in DOMAIN nodes |-> nodes[t]]

RootIsArmed(nodes) == DOMAIN nodes # {} => nodes[Root(nodes)].mTickTrigger

LEMMA RootIsFirst ==
  ASSUME NEW nodes, NodesOK(nodes), DOMAIN nodes # {}
  PROVE  Root(nodes) \in DOMAIN nodes /\ \A u \in DOMAIN nodes : Root(nodes) <= u
BY MinExists DEF NodesOK, Root

(* Arming the root changes no request, and the root is armed.              *)
LEMMA ArmRootFacts ==
  ASSUME NEW nodes, NodesOK(nodes), DOMAIN nodes # {},
         NEW last, last.count \in Int, last.time \in Int,
         NEW period \in Nat \ {0}
  PROVE  /\ NodesOK(ArmRoot(nodes, last, period))
         /\ DOMAIN ArmRoot(nodes, last, period) = DOMAIN nodes
         /\ \A t \in DOMAIN nodes :
               ArmRoot(nodes, last, period)[t].mRequests = nodes[t].mRequests
         /\ RootIsArmed(ArmRoot(nodes, last, period))
<1> DEFINE root  == Root(nodes)
           event == EventTime(period, root - last.count,
                              last.time + (root - last.count) * period)
           armed == [nodes EXCEPT ![root] = Armed(nodes[root].mRequests, event)]
<1>1. ArmRoot(nodes, last, period) = armed
  BY DEF ArmRoot
<1>2. root \in DOMAIN nodes /\ root \in Nat
  BY RootIsFirst DEF NodesOK
<1>3. event \in Int
  BY <1>2 DEF EventTime, Never
<1> HIDE DEF event
<1>4. Armed(nodes[root].mRequests, event) \in TimeNode
  BY <1>2, <1>3 DEF NodesOK, TimeNode, Armed
<1>5. DOMAIN armed = DOMAIN nodes
  OBVIOUS
<1>6. \A t \in DOMAIN nodes :
         armed[t] = IF t = root THEN Armed(nodes[root].mRequests, event) ELSE nodes[t]
  BY <1>2
<1>7. NodesOK(armed)
  BY <1>4, <1>5, <1>6 DEF NodesOK
<1>8. Root(armed) = root
  BY <1>5 DEF Root
<1> QED
  BY <1>1, <1>2, <1>5, <1>6, <1>7, <1>8 DEF RootIsArmed, Armed

(* Cancelling the triggers changes no request.                             *)
LEMMA WithoutTriggersFacts ==
  ASSUME NEW nodes, NodesOK(nodes)
  PROVE  /\ NodesOK(WithoutTriggers(nodes))
         /\ DOMAIN WithoutTriggers(nodes) = DOMAIN nodes
         /\ \A t \in DOMAIN nodes :
               WithoutTriggers(nodes)[t].mRequests = nodes[t].mRequests
<1>1. \A t \in DOMAIN nodes : Unarmed(nodes[t].mRequests) \in TimeNode
  BY DEF NodesOK, TimeNode, Unarmed, Never
<1> QED BY <1>1 DEF WithoutTriggers, NodesOK, Unarmed

(* Unlinking a waiting module removes it, and only it, from the list.      *)
LEMMA UnlinkedFacts ==
  ASSUME TypeOK, NEW m \in Module,
         mScheduledTick[m] \in DOMAIN mNodes,
         m \in mNodes[mScheduledTick[m]].mRequests
  PROVE  /\ NodesOK(Unlinked(m))
         /\ DOMAIN Unlinked(m) \subseteq DOMAIN mNodes
         /\ \A t \in DOMAIN mNodes : t # mScheduledTick[m] =>
               t \in DOMAIN Unlinked(m) /\ Unlinked(m)[t] = mNodes[t]
         /\ LET t    == mScheduledTick[m]
                left == mNodes[t].mRequests \ {m}
            IN  IF left = {} THEN t \notin DOMAIN Unlinked(m)
                ELSE /\ t \in DOMAIN Unlinked(m)
                     /\ Unlinked(m)[t].mRequests = left
                     /\ Unlinked(m)[t].mTickTrigger = mNodes[t].mTickTrigger
<1> DEFINE t    == mScheduledTick[m]
           left == mNodes[t].mRequests \ {m}
<1>1. NodesOK(mNodes)
  BY DEF TypeOK, NodesOK
<1>2. CASE left = {}
  <2>1. Unlinked(m) = [u \in DOMAIN mNodes \ {t} |-> mNodes[u]]
    BY <1>2 DEF Unlinked
  <2> QED BY <1>1, <1>2, <2>1 DEF NodesOK
<1>3. CASE left # {}
  <2>1. Unlinked(m) = [mNodes EXCEPT ![t].mRequests = left]
    BY <1>3 DEF Unlinked
  <2>2. mNodes[t] \in TimeNode
    BY <1>1 DEF NodesOK
  <2>3. /\ [mNodes[t] EXCEPT !.mRequests = left] \in TimeNode
        /\ [mNodes[t] EXCEPT !.mRequests = left].mRequests = left
        /\ [mNodes[t] EXCEPT !.mRequests = left].mTickTrigger = mNodes[t].mTickTrigger
    BY <1>3, <2>2 DEF TimeNode
  <2>4. /\ DOMAIN Unlinked(m) = DOMAIN mNodes
        /\ \A u \in DOMAIN mNodes : Unlinked(m)[u] =
              IF u = t THEN [mNodes[t] EXCEPT !.mRequests = left] ELSE mNodes[u]
    BY <2>1
  <2>5. Unlinked(m) = [u \in DOMAIN Unlinked(m) |-> Unlinked(m)[u]]
    BY <2>1
  <2>6. NodesOK(Unlinked(m))
    BY <1>1, <2>3, <2>4, <2>5 DEF NodesOK
  <2> QED BY <1>3, <2>3, <2>4, <2>6
<1> QED BY <1>2, <1>3

(* cancel_clock_trigger_impl: unlinks m and leaves the root armed if it was *)
(* and may be.                                                              *)
LEMMA NodesWithoutFacts ==
  ASSUME TypeOK, CacheInPast, NEW m \in Module,
         mScheduledTick[m] \in DOMAIN mNodes,
         m \in mNodes[mScheduledTick[m]].mRequests
  PROVE  /\ NodesOK(NodesWithout(m))
         /\ DOMAIN NodesWithout(m) = DOMAIN Unlinked(m)
         /\ \A t \in DOMAIN Unlinked(m) :
               NodesWithout(m)[t].mRequests = Unlinked(m)[t].mRequests
         /\ Armable /\ RootIsArmed(mNodes) => RootIsArmed(NodesWithout(m))
<1>1. /\ PrevTick.count \in Int /\ PrevTick.time \in Int
      /\ mPeriod \in Nat \ {0}
  BY PrevTickType, ConstantsAssumption DEF TypeOK
<1>2. NodesOK(Unlinked(m)) /\ DOMAIN Unlinked(m) \subseteq DOMAIN mNodes
  BY UnlinkedFacts
<1>3. NodesOK(mNodes)
  BY DEF TypeOK, NodesOK
<1>4. CASE CancelArms(m)
  <2>1. DOMAIN Unlinked(m) # {}
    BY <1>4 DEF CancelArms, NeedsTrigger
  <2>2. NodesWithout(m) = ArmRoot(Unlinked(m), PrevTick, mPeriod)
    BY <1>4 DEF NodesWithout
  <2> HIDE DEF PrevTick
  <2> QED BY <1>1, <1>2, <2>1, <2>2, ArmRootFacts
<1>5. CASE ~CancelArms(m)
  <2>1. NodesWithout(m) = Unlinked(m)
    BY <1>5 DEF NodesWithout
  <2>2. ASSUME Armable, RootIsArmed(mNodes), DOMAIN Unlinked(m) # {}
        PROVE  Unlinked(m)[Root(Unlinked(m))].mTickTrigger
    <3> DEFINE t == mScheduledTick[m]
    <3>1. /\ Root(mNodes) \in DOMAIN mNodes
          /\ \A u \in DOMAIN mNodes : Root(mNodes) <= u
      BY <1>3, RootIsFirst
    <3>2. CASE t \in DOMAIN Unlinked(m)
      <4>1. DOMAIN Unlinked(m) = DOMAIN mNodes
        BY <1>2, <3>2, UnlinkedFacts
      <4>2. Root(Unlinked(m)) = Root(mNodes)
        BY <4>1 DEF Root
      <4>3. Unlinked(m)[Root(mNodes)].mTickTrigger = mNodes[Root(mNodes)].mTickTrigger
        BY <3>1, <3>2, UnlinkedFacts
      <4> QED BY <2>2, <3>1, <4>2, <4>3 DEF RootIsArmed
    <3>3. CASE t \notin DOMAIN Unlinked(m) /\ t = Root(mNodes)
      BY <1>5, <2>2, <3>3 DEF CancelArms, NeedsTrigger
    <3>4. CASE t \notin DOMAIN Unlinked(m) /\ t # Root(mNodes)
      <4>1. /\ Root(mNodes) \in DOMAIN Unlinked(m)
            /\ Unlinked(m)[Root(mNodes)] = mNodes[Root(mNodes)]
        BY <3>1, <3>4, UnlinkedFacts
      <4>2. DOMAIN Unlinked(m) \in SUBSET Nat
        BY <1>2 DEF NodesOK
      <4>3. \A u \in DOMAIN Unlinked(m) : Root(mNodes) <= u
        BY <1>2, <3>1
      <4>4. Root(Unlinked(m)) = Root(mNodes)
        BY <4>1, <4>2, <4>3, MinUnique DEF Root
      <4> QED BY <2>2, <3>1, <4>1, <4>4 DEF RootIsArmed
    <3> QED BY <3>2, <3>3, <3>4
  <2> QED BY <1>2, <2>1, <2>2 DEF RootIsArmed
<1> QED BY <1>4, <1>5

(* Inserting m puts it into the node of its tick, changes no other request *)
(* and leaves the root armed if it was and may be.                         *)
LEMMA NodesWithFacts ==
  ASSUME NEW nodes, NodesOK(nodes), NEW m \in Module, NEW t \in Nat,
         NEW event \in Int
  PROVE  /\ NodesOK(NodesWith(nodes, m, t, event))
         /\ DOMAIN NodesWith(nodes, m, t, event) = DOMAIN nodes \cup {t}
         /\ \A u \in DOMAIN nodes \ {t} :
               NodesWith(nodes, m, t, event)[u] = nodes[u]
         /\ NodesWith(nodes, m, t, event)[t].mRequests =
               (IF t \in DOMAIN nodes THEN nodes[t].mRequests ELSE {}) \cup {m}
         /\ Armable /\ RootIsArmed(nodes) =>
               RootIsArmed(NodesWith(nodes, m, t, event))
<1> DEFINE isFirst == \A u \in DOMAIN nodes : t < u
           new == IF Armable /\ isFirst THEN Armed({m}, event) ELSE Unarmed({m})
           result == NodesWith(nodes, m, t, event)
<1>1. CASE t \in DOMAIN nodes
  <2>1. result = [nodes EXCEPT ![t].mRequests = @ \cup {m}]
    BY <1>1 DEF NodesWith
  <2>2. nodes[t] \in TimeNode
    BY <1>1 DEF NodesOK
  <2> DEFINE node == [nodes[t] EXCEPT !.mRequests = @ \cup {m}]
  <2>3. /\ node \in TimeNode
        /\ node.mRequests = nodes[t].mRequests \cup {m}
        /\ node.mTickTrigger = nodes[t].mTickTrigger
    BY <2>2 DEF TimeNode
  <2>4. /\ DOMAIN result = DOMAIN nodes
        /\ \A u \in DOMAIN nodes : result[u] = IF u = t THEN node ELSE nodes[u]
        /\ result = [u \in DOMAIN result |-> result[u]]
    BY <2>1
  <2> HIDE DEF node, result
  <2>5. NodesOK(result)
    BY <2>3, <2>4 DEF NodesOK
  <2>6. Root(result) = Root(nodes)
    BY <2>4 DEF Root
  <2>7. RootIsArmed(nodes) => RootIsArmed(result)
    BY <1>1, <2>3, <2>4, <2>6, RootIsFirst DEF RootIsArmed
  <2>8. DOMAIN result = DOMAIN nodes \cup {t}
    BY <1>1, <2>4
  <2> QED BY <1>1, <2>3, <2>4, <2>5, <2>7, <2>8 DEF result
<1>2. CASE t \notin DOMAIN nodes
  <2>1. result = [u \in DOMAIN nodes \cup {t} |-> IF u = t THEN new ELSE nodes[u]]
    BY <1>2 DEF NodesWith
  <2>2. new \in TimeNode /\ new.mRequests = {m}
    BY DEF TimeNode, Armed, Unarmed, Never
  <2>3. Armable /\ isFirst => new.mTickTrigger
    BY DEF Armed
  <2> HIDE DEF new, result
  <2>4. /\ DOMAIN result = DOMAIN nodes \cup {t}
        /\ result[t] = new
        /\ \A u \in DOMAIN nodes : result[u] = nodes[u]
        /\ result = [u \in DOMAIN result |-> result[u]]
    BY <1>2, <2>1
  <2>5. NodesOK(result)
    BY <2>2, <2>4 DEF NodesOK
  <2>6. ASSUME Armable, RootIsArmed(nodes)
        PROVE  RootIsArmed(result)
    <3>1. DOMAIN result \in SUBSET Nat
      BY <2>4 DEF NodesOK
    <3>2. CASE isFirst
      <4>1. \A u \in DOMAIN result : t <= u
        BY <2>4, <3>1, <3>2
      <4>2. Root(result) = t
        BY <2>4, <3>1, <4>1, MinUnique DEF Root
      <4> QED BY <2>3, <2>4, <2>6, <3>2, <4>2 DEF RootIsArmed
    <3>3. CASE ~isFirst
      <4>1. PICK v \in DOMAIN nodes : ~(t < v)
        BY <3>3
      <4>2. /\ Root(nodes) \in DOMAIN nodes
            /\ \A u \in DOMAIN nodes : Root(nodes) <= u
        BY <4>1, RootIsFirst
      <4>3. \A u \in DOMAIN result : Root(nodes) <= u
        BY <2>4, <3>1, <4>1, <4>2
      <4>4. Root(result) = Root(nodes)
        BY <2>4, <3>1, <4>2, <4>3, MinUnique DEF Root
      <4> QED BY <2>4, <2>6, <4>2, <4>4 DEF RootIsArmed
    <3> QED BY <3>2, <3>3
  <2> QED BY <1>2, <2>2, <2>4, <2>5, <2>6 DEF result
<1> QED BY <1>1, <1>2

-----------------------------------------------------------------------------
(* The steps                                                               *)

\* The part of the invariant about the list of requests.
ListInv ==
    /\ NodesOK(mNodes)
    /\ mScheduledTick \in [Module -> Nat \cup {NotScheduled}]
    /\ ProcessedIsGone
    /\ RequestsAgree
    /\ RootArmed

LEMMA ListInvHolds == IndInv => ListInv
BY DEF IndInv, TypeOK, NodesOK, ListInv

(* A module that waits and is not about to be called is in its node.       *)
LEMMA WaitingIsLinked ==
  ASSUME IndInv, NEW m \in Module, mScheduledTick[m] # NotScheduled,
         mScheduledTick[m] # mProcessingTickCount
  PROVE  /\ mScheduledTick[m] \in DOMAIN mNodes
         /\ m \in mNodes[mScheduledTick[m]].mRequests
BY DEF IndInv, RequestsAgree

LEMMA CancelStep ==
  ASSUME IndInv, NEW m \in Module, CancelTrigger(m)
  PROVE  ListInv'
<1> DEFINE t == mScheduledTick[m]
<1>1. /\ t \in DOMAIN mNodes /\ m \in mNodes[t].mRequests
      /\ t # mProcessingTickCount
  BY WaitingIsLinked DEF CancelTrigger
<1>2. /\ mNodes' = NodesWithout(m)
      /\ mScheduledTick' = [mScheduledTick EXCEPT ![m] = NotScheduled]
      /\ mCalls' = mCalls /\ mProcessingTickCount' = mProcessingTickCount
      /\ mRunning' = mRunning
  BY DEF CancelTrigger, processing, parameters
<1>3. TypeOK /\ CacheInPast /\ RequestsAgree /\ RootArmed
  BY DEF IndInv
<1>4. /\ NodesOK(mNodes')
      /\ DOMAIN mNodes' = DOMAIN Unlinked(m)
      /\ \A u \in DOMAIN mNodes' : mNodes'[u].mRequests = Unlinked(m)[u].mRequests
      /\ Armable /\ RootIsArmed(mNodes) => RootIsArmed(mNodes')
  BY <1>1, <1>2, <1>3, NodesWithoutFacts
<1>5. mScheduledTick' \in [Module -> Nat \cup {NotScheduled}]
  BY <1>2, <1>3 DEF TypeOK
<1>6. RequestsAgree'
  <2> SUFFICES ASSUME NEW x \in Module
               PROVE  /\ \A u \in DOMAIN mNodes' :
                            x \in mNodes'[u].mRequests <=> mScheduledTick'[x] = u
                      /\ x \in mCalls' <=> /\ mScheduledTick'[x] # NotScheduled
                                          /\ mScheduledTick'[x] = mProcessingTickCount'
                      /\ mScheduledTick'[x] # NotScheduled =>
                            x \in mCalls' \/ mScheduledTick'[x] \in DOMAIN mNodes'
    BY DEF RequestsAgree
  <2>1. mScheduledTick'[x] = IF x = m THEN NotScheduled ELSE mScheduledTick[x]
    BY <1>2, <1>3 DEF TypeOK
  <2>2. /\ \A u \in DOMAIN mNodes : x \in mNodes[u].mRequests <=> mScheduledTick[x] = u
        /\ x \in mCalls <=> /\ mScheduledTick[x] # NotScheduled
                            /\ mScheduledTick[x] = mProcessingTickCount
        /\ mScheduledTick[x] # NotScheduled =>
               x \in mCalls \/ mScheduledTick[x] \in DOMAIN mNodes
    BY <1>3 DEF RequestsAgree
  <2>3. \A u \in DOMAIN mNodes : m \in mNodes[u].mRequests <=> u = t
    BY <1>3 DEF RequestsAgree
  <2>4. DOMAIN mNodes' \subseteq DOMAIN mNodes /\ NotScheduled \notin DOMAIN mNodes
    BY <1>1, <1>3, <1>4, UnlinkedFacts DEF TypeOK, NotScheduled
  <2>5. ASSUME NEW u \in DOMAIN mNodes'
        PROVE  mNodes'[u].mRequests = mNodes[u].mRequests \ {m}
    BY <1>1, <1>3, <1>4, <2>3, <2>4, <2>5, UnlinkedFacts
  <2>6. ASSUME NEW u \in DOMAIN mNodes, NEW y \in mNodes[u].mRequests, y # m
        PROVE  u \in DOMAIN mNodes'
    BY <1>1, <1>3, <1>4, <2>6, UnlinkedFacts
  <2>7. \A u \in DOMAIN mNodes' : x \in mNodes'[u].mRequests <=> mScheduledTick'[x] = u
    BY <2>1, <2>2, <2>4, <2>5
  <2>8. x \in mCalls' <=> /\ mScheduledTick'[x] # NotScheduled
                         /\ mScheduledTick'[x] = mProcessingTickCount'
    BY <1>1, <1>2, <2>1, <2>2
  <2>9. mScheduledTick'[x] # NotScheduled =>
            x \in mCalls' \/ mScheduledTick'[x] \in DOMAIN mNodes'
    BY <1>2, <2>1, <2>2, <2>6
  <2> QED BY <2>7, <2>8, <2>9
<1>7. RootArmed'
  BY <1>2, <1>3, <1>4 DEF RootArmed, RootIsArmed, Armable
<1>8. ProcessedIsGone'
  BY <1>1, <1>2, <1>3, <1>4, UnlinkedFacts DEF IndInv, ProcessedIsGone
<1> QED BY <1>4, <1>5, <1>6, <1>7, <1>8 DEF ListInv

LEMMA RequestStep ==
  ASSUME IndInv, NEW m \in Module, NEW t \in Nat, NEW event \in Int,
         mProcessingTickCount # NotProcessing => t > mProcessingTickCount,
         RequestTriggerImpl(m, t, event),
         UNCHANGED <<mCalls, mProcessingTickCount, mRunning>>
  PROVE  ListInv'
<1> DEFINE pending == mScheduledTick[m] # NotScheduled
           old     == IF pending THEN NodesWithout(m) ELSE mNodes
<1>1. ListInv /\ TypeOK /\ CacheInPast
  BY ListInvHolds DEF IndInv
<1>2. CASE pending /\ t >= mScheduledTick[m]
  <2>1. UNCHANGED <<mNodes, mScheduledTick>>
    BY <1>2 DEF RequestTriggerImpl, requests
  <2> QED BY <1>1, <2>1
         DEF ListInv, NodesOK, ProcessedIsGone, RequestsAgree, RootArmed, Armable
<1>3. CASE ~(pending /\ t >= mScheduledTick[m])
  <2>1. /\ mNodes' = NodesWith(old, m, t, event)
        /\ mScheduledTick' = [mScheduledTick EXCEPT ![m] = t]
        /\ mCalls' = mCalls /\ mProcessingTickCount' = mProcessingTickCount
        /\ mRunning' = mRunning
    BY <1>3 DEF RequestTriggerImpl
  <2>2. pending => /\ mScheduledTick[m] \in DOMAIN mNodes
                   /\ m \in mNodes[mScheduledTick[m]].mRequests
                   /\ mScheduledTick[m] # mProcessingTickCount
    <3>1. pending => mScheduledTick[m] # mProcessingTickCount
      BY <1>1, <1>3 DEF ListInv, TypeOK, NotProcessing, NotScheduled
    <3> QED BY <3>1, WaitingIsLinked
  <2>3. m \notin mCalls
    BY <1>1, <2>2 DEF ListInv, RequestsAgree
  \* the list without m
  <2>4. /\ NodesOK(old)
        /\ DOMAIN old \subseteq DOMAIN mNodes
        /\ \A u \in DOMAIN old : old[u].mRequests = mNodes[u].mRequests \ {m}
        /\ \A u \in DOMAIN mNodes :
              mNodes[u].mRequests \ {m} # {} => u \in DOMAIN old
        /\ Armable /\ RootIsArmed(mNodes) => RootIsArmed(old)
    <3>1. \A u \in DOMAIN mNodes : m \in mNodes[u].mRequests <=> mScheduledTick[m] = u
      BY <1>1 DEF ListInv, RequestsAgree
    <3>2. CASE pending
      <4>1. old = NodesWithout(m)
        BY <3>2
      <4>2. /\ NodesOK(old)
            /\ DOMAIN old = DOMAIN Unlinked(m)
            /\ \A u \in DOMAIN Unlinked(m) :
                  old[u].mRequests = Unlinked(m)[u].mRequests
            /\ Armable /\ RootIsArmed(mNodes) => RootIsArmed(old)
        BY <1>1, <2>2, <3>2, <4>1, NodesWithoutFacts
      <4> HIDE DEF old
      <4> QED BY <1>1, <2>2, <3>1, <3>2, <4>2, UnlinkedFacts
    <3>3. CASE ~pending
      <4>1. old = mNodes
        BY <3>3
      <4>2. \A u \in DOMAIN mNodes : m \notin mNodes[u].mRequests
        BY <1>1, <3>1, <3>3 DEF TypeOK, NotScheduled
      <4> HIDE DEF old
      <4> QED BY <1>1, <4>1, <4>2 DEF ListInv
    <3> QED BY <3>2, <3>3
  <2> HIDE DEF old
  <2>5. /\ NodesOK(mNodes')
        /\ DOMAIN mNodes' = DOMAIN old \cup {t}
        /\ \A u \in DOMAIN old \ {t} : mNodes'[u] = old[u]
        /\ mNodes'[t].mRequests =
              (IF t \in DOMAIN old THEN old[t].mRequests ELSE {}) \cup {m}
        /\ Armable /\ RootIsArmed(old) => RootIsArmed(mNodes')
    <3> DEFINE new == NodesWith(old, m, t, event)
    <3>1. /\ NodesOK(new)
          /\ DOMAIN new = DOMAIN old \cup {t}
          /\ \A u \in DOMAIN old \ {t} : new[u] = old[u]
          /\ new[t].mRequests =
                (IF t \in DOMAIN old THEN old[t].mRequests ELSE {}) \cup {m}
          /\ Armable /\ RootIsArmed(old) => RootIsArmed(new)
      BY <2>4, NodesWithFacts, Zenon
    <3>2. mNodes' = new
      BY <2>1
    <3> HIDE DEF new
    <3> QED BY <3>1, <3>2
  <2>6. mScheduledTick' \in [Module -> Nat \cup {NotScheduled}]
    BY <1>1, <2>1 DEF ListInv
  <2>7. RequestsAgree'
    <3> SUFFICES ASSUME NEW x \in Module
                 PROVE  /\ \A u \in DOMAIN mNodes' :
                              x \in mNodes'[u].mRequests <=> mScheduledTick'[x] = u
                        /\ x \in mCalls' <=> /\ mScheduledTick'[x] # NotScheduled
                                            /\ mScheduledTick'[x] = mProcessingTickCount'
                        /\ mScheduledTick'[x] # NotScheduled =>
                              x \in mCalls' \/ mScheduledTick'[x] \in DOMAIN mNodes'
      BY DEF RequestsAgree
    <3>1. mScheduledTick'[x] = IF x = m THEN t ELSE mScheduledTick[x]
      BY <1>1, <2>1 DEF ListInv
    <3>2. /\ \A u \in DOMAIN mNodes : x \in mNodes[u].mRequests <=> mScheduledTick[x] = u
          /\ x \in mCalls <=> /\ mScheduledTick[x] # NotScheduled
                              /\ mScheduledTick[x] = mProcessingTickCount
          /\ mScheduledTick[x] # NotScheduled =>
                 x \in mCalls \/ mScheduledTick[x] \in DOMAIN mNodes
      BY <1>1 DEF ListInv, RequestsAgree
    <3>3. CASE x = m
      <4>1. \A u \in DOMAIN mNodes' : m \in mNodes'[u].mRequests <=> t = u
        BY <2>4, <2>5
      <4>2. t # NotScheduled /\ t # mProcessingTickCount
        BY <1>1 DEF TypeOK, NotScheduled, NotProcessing
      <4> QED BY <2>1, <2>3, <2>5, <3>1, <3>3, <4>1, <4>2
    <3>4. CASE x # m
      <4>1. ASSUME NEW u \in DOMAIN mNodes'
            PROVE  x \in mNodes'[u].mRequests <=>
                      u \in DOMAIN mNodes /\ x \in mNodes[u].mRequests
        <5>1. CASE u # t
          BY <2>4, <2>5, <3>4, <4>1, <5>1
        <5>2. CASE u = t
          BY <2>4, <2>5, <3>4, <4>1, <5>2
        <5> QED BY <5>1, <5>2
      <4>2. \A u \in DOMAIN mNodes' : x \in mNodes'[u].mRequests <=> mScheduledTick'[x] = u
        <5> SUFFICES ASSUME NEW u \in DOMAIN mNodes'
                     PROVE  x \in mNodes'[u].mRequests <=> mScheduledTick[x] = u
          BY <3>1, <3>4
        <5>1. CASE u \in DOMAIN mNodes
          BY <3>2, <4>1, <5>1
        <5>2. CASE u \notin DOMAIN mNodes
          <6>1. u = t
            BY <2>4, <2>5, <5>2
          <6>2. mScheduledTick[x] # t
            BY <1>1, <3>2, <5>2, <6>1 DEF TypeOK, NotScheduled, NotProcessing
          <6> QED BY <4>1, <5>2, <6>1, <6>2
        <5> QED BY <5>1, <5>2
      <4>3. mScheduledTick[x] # NotScheduled =>
              x \in mCalls \/ mScheduledTick[x] \in DOMAIN mNodes'
        BY <2>4, <2>5, <3>2, <3>4
      <4> QED BY <2>1, <3>1, <3>2, <3>4, <4>2, <4>3
    <3> QED BY <3>3, <3>4
  <2>8. RootArmed'
    BY <1>1, <2>1, <2>4, <2>5 DEF ListInv, RootArmed, RootIsArmed, Armable
  <2>9. ProcessedIsGone'
    <3>1. t # mProcessingTickCount
      BY <1>1 DEF TypeOK, NotProcessing
    <3> QED BY <1>1, <2>1, <2>4, <2>5, <3>1 DEF ListInv, ProcessedIsGone
  <2> QED BY <2>5, <2>6, <2>7, <2>8, <2>9 DEF ListInv
<1> QED BY <1>2, <1>3

LEMMA HandleStep ==
  ASSUME IndInv, NEW m \in Module, HandleTick1Trigger(m)
  PROVE  ListInv' /\ ProcessedIsCounted' /\ mProcessingTickCount' \in Nat
<1> DEFINE root == Root(mNodes)
<1>1. ListInv /\ TypeOK /\ mProcessingTickCount = NotProcessing
  BY ListInvHolds DEF IndInv, Phases, HandleTick1Trigger
<1>2. root \in DOMAIN mNodes /\ root \in Nat
  BY <1>1, RootIsFirst DEF HandleTick1Trigger, ListInv, NodesOK
<1>3. /\ m \in mNodes[root].mRequests
      /\ mCalls' = mNodes[root].mRequests \ {m}
      /\ mProcessingTickCount' = root /\ mLastTickCount' = root
      /\ mNodes' = [u \in DOMAIN mNodes \ {root} |-> mNodes[u]]
      /\ mScheduledTick' = [mScheduledTick EXCEPT ![m] = NotScheduled]
  BY DEF HandleTick1Trigger, Call
<1> HIDE DEF root
<1>4. NodesOK(mNodes')
  BY <1>1, <1>3 DEF ListInv, NodesOK
<1>5. mScheduledTick' \in [Module -> Nat \cup {NotScheduled}]
  BY <1>1, <1>3 DEF ListInv
<1>6. RequestsAgree'
  <2> SUFFICES ASSUME NEW x \in Module
               PROVE  /\ \A u \in DOMAIN mNodes' :
                            x \in mNodes'[u].mRequests <=> mScheduledTick'[x] = u
                      /\ x \in mCalls' <=> /\ mScheduledTick'[x] # NotScheduled
                                          /\ mScheduledTick'[x] = mProcessingTickCount'
                      /\ mScheduledTick'[x] # NotScheduled =>
                            x \in mCalls' \/ mScheduledTick'[x] \in DOMAIN mNodes'
    BY DEF RequestsAgree
  <2>1. mScheduledTick'[x] = IF x = m THEN NotScheduled ELSE mScheduledTick[x]
    BY <1>1, <1>3 DEF ListInv
  <2>2. /\ \A u \in DOMAIN mNodes : x \in mNodes[u].mRequests <=> mScheduledTick[x] = u
        /\ mScheduledTick[x] # NotScheduled => mScheduledTick[x] \in DOMAIN mNodes
    BY <1>1 DEF ListInv, RequestsAgree, NotScheduled, NotProcessing
  <2>3. mScheduledTick[m] = root
    BY <1>1, <1>2, <1>3 DEF ListInv, RequestsAgree
  <2>4. NotScheduled \notin DOMAIN mNodes /\ root # NotScheduled
    BY <1>1, <1>2 DEF TypeOK, NotScheduled
  <2>5. /\ DOMAIN mNodes' = DOMAIN mNodes \ {root}
        /\ \A u \in DOMAIN mNodes' : mNodes'[u] = mNodes[u]
    BY <1>3
  <2> QED BY <1>2, <1>3, <2>1, <2>2, <2>3, <2>4, <2>5
<1>7. RootArmed' /\ ProcessedIsCounted'
  BY <1>2, <1>3 DEF RootArmed, Armable, ProcessedIsCounted, NotProcessing
<1>8. ProcessedIsGone'
  BY <1>3 DEF ProcessedIsGone
<1> QED BY <1>2, <1>3, <1>4, <1>5, <1>6, <1>7, <1>8 DEF ListInv

LEMMA CallNextStep ==
  ASSUME IndInv, NEW m \in Module, CallNext(m)
  PROVE  ListInv'
<1>1. ListInv
  BY ListInvHolds
<1>2. /\ m \in mCalls /\ mCalls' = mCalls \ {m}
      /\ mScheduledTick' = [mScheduledTick EXCEPT ![m] = NotScheduled]
      /\ mNodes' = mNodes /\ mProcessingTickCount' = mProcessingTickCount
      /\ mRunning' = mRunning
  BY DEF CallNext, Call, parameters
<1>3. mScheduledTick' \in [Module -> Nat \cup {NotScheduled}]
  BY <1>1, <1>2 DEF ListInv
<1>4. RequestsAgree'
  <2>1. NotScheduled \notin DOMAIN mNodes
    BY <1>1 DEF ListInv, NodesOK, NotScheduled
  <2>2. \A x \in Module :
          mScheduledTick'[x] = IF x = m THEN NotScheduled ELSE mScheduledTick[x]
    BY <1>1, <1>2 DEF ListInv
  <2>3. \A u \in DOMAIN mNodes : m \notin mNodes[u].mRequests
    \* m is called in the tick being processed, whose node is gone
    <3> SUFFICES ASSUME NEW u \in DOMAIN mNodes, mScheduledTick[m] = u
                 PROVE  FALSE
      BY <1>1 DEF ListInv, RequestsAgree
    <3>1. mProcessingTickCount = u
      BY <1>1, <1>2 DEF ListInv, RequestsAgree
    <3> QED BY <1>1, <3>1 DEF ListInv, ProcessedIsGone
  <2> QED BY <1>1, <1>2, <2>1, <2>2, <2>3 DEF ListInv, RequestsAgree
<1>5. RootArmed'
  BY <1>1, <1>2 DEF ListInv, RootArmed, Armable
<1> QED BY <1>1, <1>2, <1>3, <1>4, <1>5 DEF ListInv, NodesOK, ProcessedIsGone

LEMMA FinishStep ==
  ASSUME IndInv, FinishTick
  PROVE  ListInv'
<1>1. ListInv /\ TypeOK
  BY ListInvHolds DEF IndInv
<1>2. /\ mCalls = {} /\ mCalls' = {} /\ mScheduledTick' = mScheduledTick
      /\ mProcessingTickCount \in Nat /\ mProcessingTickCount' = NotProcessing
      /\ mRunning' = mRunning
  BY <1>1 DEF FinishTick, TypeOK, parameters
<1>3. /\ NodesOK(mNodes')
      /\ DOMAIN mNodes' = DOMAIN mNodes
      /\ \A t \in DOMAIN mNodes : mNodes'[t].mRequests = mNodes[t].mRequests
      /\ RootIsArmed(mNodes')
  <2>1. CASE NeedsTrigger(mNodes)
    <3> DEFINE last == [count |-> mProcessingTickCount, time |-> now]
    <3>1. last.count \in Int /\ last.time \in Int /\ mPeriod \in Nat \ {0}
      BY <1>1, <1>2, ConstantsAssumption DEF TypeOK, Time
    <3>2. mNodes' = ArmRoot(mNodes, last, mPeriod) /\ DOMAIN mNodes # {}
      BY <2>1 DEF FinishTick, NeedsTrigger
    <3> HIDE DEF last
    <3> QED BY <1>1, <3>1, <3>2, ArmRootFacts DEF ListInv
  <2>2. CASE ~NeedsTrigger(mNodes)
    BY <1>1, <2>2 DEF FinishTick, NeedsTrigger, RootIsArmed, ListInv
  <2> QED BY <2>1, <2>2
<1>4. RequestsAgree'
  <2> SUFFICES ASSUME NEW x \in Module
               PROVE  /\ \A t \in DOMAIN mNodes :
                            x \in mNodes'[t].mRequests <=> mScheduledTick[x] = t
                      /\ ~(mScheduledTick[x] # NotScheduled /\ mScheduledTick[x] = NotProcessing)
                      /\ mScheduledTick[x] # NotScheduled =>
                            mScheduledTick[x] \in DOMAIN mNodes
    BY <1>2, <1>3 DEF RequestsAgree
  <2> QED BY <1>1, <1>2, <1>3 DEF ListInv, RequestsAgree, NotScheduled, NotProcessing
<1>5. RootArmed'
  BY <1>3 DEF RootArmed, RootIsArmed
<1>6. ProcessedIsGone'
  BY <1>2, <1>3 DEF ProcessedIsGone, NodesOK, NotProcessing
<1> QED BY <1>1, <1>2, <1>3, <1>4, <1>5, <1>6 DEF ListInv

LEMMA UpdateStep ==
  ASSUME IndInv, NEW period \in Period, NEW offset \in Nat, NEW running \in BOOLEAN,
         UpdateParameters(period, offset, running)
  PROVE  /\ ListInv'
         /\ mLastTickCount' \in Nat
         /\ mLastTickTime' \in Nat \cup {Invalid}
         /\ CacheInPast'
         /\ DOMAIN mNodes' = DOMAIN mNodes
<1>1. ListInv /\ TypeOK /\ CacheInPast /\ Phases
  BY ListInvHolds DEF IndInv
<1>2. /\ mCalls' = mCalls /\ mScheduledTick' = mScheduledTick
      /\ mProcessingTickCount' = mProcessingTickCount /\ now' = now
      /\ mRunning' = running
  BY DEF UpdateParameters, processing, kernel
<1>3. period \in Nat \ {0}
  BY ConstantsAssumption
<1>4. /\ NodesOK(WithoutTriggers(mNodes))
      /\ DOMAIN WithoutTriggers(mNodes) = DOMAIN mNodes
      /\ \A t \in DOMAIN mNodes :
            WithoutTriggers(mNodes)[t].mRequests = mNodes[t].mRequests
  BY <1>1, WithoutTriggersFacts DEF ListInv
<1>5. GetTickCount \in Nat
  BY <1>1, PrevTickType DEF GetTickCount
<1>6. /\ NodesOK(mNodes')
      /\ DOMAIN mNodes' = DOMAIN mNodes
      /\ \A t \in DOMAIN mNodes : mNodes'[t].mRequests = mNodes[t].mRequests
      /\ running => RootIsArmed(mNodes')
      /\ mLastTickCount' \in Nat
      /\ mLastTickTime' \in Nat \cup {Invalid}
      /\ mLastTickTime' # Invalid => mLastTickTime' <= now
  <2>1. CASE ~exists
    <3>1. mNodes' = mNodes /\ UNCHANGED cache /\ DOMAIN mNodes = {}
      BY <1>1, <2>1 DEF UpdateParameters, Phases
    <3>2. RootIsArmed(mNodes')
      BY <3>1 DEF RootIsArmed
    <3> QED BY <1>1, <3>1, <3>2 DEF ListInv, TypeOK, CacheInPast, cache
  <2>2. CASE exists /\ ~running
    <3>1. Disable
      BY <2>2 DEF UpdateParameters
    <3>2. CASE mRunning
      BY <1>4, <1>5, <2>2, <3>1, <3>2 DEF Disable
    <3>3. CASE ~mRunning
      BY <1>1, <2>2, <3>1, <3>3 DEF Disable, ListInv, TypeOK, CacheInPast, cache
    <3> QED BY <3>2, <3>3
  <2>3. CASE exists /\ running
    <3>1. Restart(period, offset)
      BY <2>3 DEF UpdateParameters
    <3>2. CASE mRunning /\ period = mPeriod /\ offset = mOffset
      <4>1. RefreshCache /\ mNodes' = mNodes
        BY <3>1, <3>2 DEF Restart
      <4>2. RootIsArmed(mNodes)
        BY <1>1, <3>2 DEF UpdateParameters, ListInv, RootArmed, RootIsArmed, Armable
      <4>3. /\ mLastTickCount' \in Nat
            /\ mLastTickTime' \in Nat \cup {Invalid}
            /\ mLastTickTime' # Invalid => mLastTickTime' <= now
        BY <1>1, <4>1, CacheStep
      <4> QED BY <1>1, <4>1, <4>2, <4>3 DEF ListInv
    <3>3. CASE ~(mRunning /\ period = mPeriod /\ offset = mOffset)
      <4> DEFINE count == IF mRunning THEN GetTickCount ELSE mLastTickCount
                 nodes == WithoutTriggers(mNodes)
                 last  == [count |-> count + 1, time |-> offset]
      <4>1. /\ mLastTickCount' = count
            /\ mLastTickTime' = Invalid
            /\ mNodes' = IF DOMAIN nodes = {} THEN nodes
                         ELSE ArmRoot(nodes, last, period)
        BY <3>1, <3>3 DEF Restart
      <4>2. count \in Nat
        BY <1>1, <1>5 DEF TypeOK
      <4>3. last.count \in Int /\ last.time \in Int
        BY <4>2
      <4>4. /\ NodesOK(nodes)
            /\ DOMAIN nodes = DOMAIN mNodes
            /\ \A t \in DOMAIN mNodes : nodes[t].mRequests = mNodes[t].mRequests
        BY <1>4
      <4> HIDE DEF count, nodes, last
      <4>5. CASE DOMAIN nodes = {}
        BY <4>1, <4>2, <4>4, <4>5 DEF RootIsArmed
      <4>6. CASE DOMAIN nodes # {}
        BY <1>3, <4>1, <4>2, <4>3, <4>4, <4>6, ArmRootFacts
      <4> QED BY <4>5, <4>6
    <3> QED BY <3>2, <3>3
  <2> QED BY <2>1, <2>2, <2>3
<1>7. RequestsAgree'
  BY <1>1, <1>2, <1>6 DEF ListInv, RequestsAgree
<1>8. RootArmed'
  BY <1>2, <1>6 DEF RootArmed, RootIsArmed, Armable
<1> QED BY <1>1, <1>2, <1>6, <1>7, <1>8 DEF ListInv, CacheInPast, ProcessedIsGone

(* A step that leaves the requests and the processing alone.               *)
LEMMA QuietStep ==
  ASSUME IndInv,
         UNCHANGED <<mNodes, mScheduledTick, mCalls, mProcessingTickCount, mRunning>>
  PROVE  ListInv'
BY ListInvHolds
   DEF ListInv, NodesOK, ProcessedIsGone, RequestsAgree, RootArmed, Armable

(* The invariant after a step, from its part about the list and the rest.  *)
LEMMA Together ==
  ASSUME ListInv', CacheInPast', Phases', ProcessedIsCounted',
         now' \in Time,
         simRunning' \in BOOLEAN, methodRunnable' \in BOOLEAN,
         mPeriod' \in Period, mOffset' \in Nat, mRunning' \in BOOLEAN,
         exists' \in BOOLEAN, reconfigured' \in BOOLEAN,
         mLastTickCount' \in Nat, mLastTickTime' \in Nat \cup {Invalid},
         mProcessingTickCount' \in Nat \cup {NotProcessing},
         mCalls' \in SUBSET Module,
         ticks' \in Nat, called' \in [Module -> Nat]
  PROVE  IndInv'
BY DEF ListInv, NodesOK, IndInv, TypeOK

-----------------------------------------------------------------------------
(* The invariant is inductive                                              *)

LEMMA InitEstablishes ==
  ASSUME Init
  PROVE  IndInv
<1>1. mNodes = [u \in {} |-> {}] /\ DOMAIN mNodes = {}
  BY DEF Init
<1>2. TypeOK
  <2>1. /\ DOMAIN mNodes \subseteq Nat
        /\ \A t \in DOMAIN mNodes : mNodes[t] \in TimeNode
        /\ mNodes = [t \in DOMAIN mNodes |-> mNodes[t]]
    BY <1>1
  <2>2. /\ now \in Time /\ mOffset \in Nat /\ ticks \in Nat
        /\ mLastTickCount \in Nat /\ mLastTickTime \in Nat \cup {Invalid}
        /\ mProcessingTickCount \in Nat \cup {NotProcessing}
    BY ConstantsAssumption DEF Init, Time
  <2>3. /\ simRunning \in BOOLEAN /\ methodRunnable \in BOOLEAN
        /\ mPeriod \in Period /\ mRunning \in BOOLEAN
        /\ exists \in BOOLEAN /\ reconfigured \in BOOLEAN
    BY Zenon DEF Init
  <2>4. /\ mCalls \in SUBSET Module
        /\ mScheduledTick \in [Module -> Nat \cup {NotScheduled}]
    BY DEF Init
  <2>5. called \in [Module -> Nat]
    BY DEF Init, NotCalled
  <2> QED BY <2>1, <2>2, <2>3, <2>4, <2>5 DEF TypeOK
<1>3. CacheInPast /\ Phases /\ ProcessedIsCounted /\ ProcessedIsGone
  BY <1>1 DEF Init, CacheInPast, Phases, ProcessedIsCounted, ProcessedIsGone
<1>4. RequestsAgree
  BY <1>1 DEF Init, RequestsAgree
<1>5. RootArmed
  BY <1>1 DEF RootArmed
<1> QED BY <1>2, <1>3, <1>4, <1>5 DEF IndInv

(* Only the calls of the method and its end change how often each module   *)
(* has been called.                                                        *)
LEMMA CallsOnlyCalled ==
  ASSUME [Next]_vars
  PROVE  \/ called' = called
         \/ \E m \in Module : called' = [called EXCEPT ![m] = @ + 1]
         \/ called' = NotCalled
<1>1. ASSUME NEW m \in Module, HandleTick1Trigger(m) \/ CallNext(m)
      PROVE  called' = [called EXCEPT ![m] = @ + 1]
  BY <1>1 DEF HandleTick1Trigger, CallNext, Call
<1>2. ASSUME FinishTick
      PROVE  called' = NotCalled
  BY <1>2 DEF FinishTick
<1>3. ASSUME NEW m \in Module, ModuleStep(m)
      PROVE  called' = called
  BY <1>3 DEF ModuleStep, RequestTrigger, RequestTriggerAfter, CancelTrigger
<1>4. ASSUME ReadTickCount \/ ReadAtTick \/ ReadNextTickData \/ CreateEngine
      PROVE  called' = called
  BY <1>4 DEF ReadTickCount, ReadAtTick, ReadNextTickData, CreateEngine
<1>5. ASSUME NEW period, NEW offset, NEW running,
             UpdateParameters(period, offset, running)
      PROVE  called' = called
  BY <1>5 DEF UpdateParameters
<1>6. ASSUME StartSimulation \/ AdvanceTime \/ UNCHANGED vars
      PROVE  called' = called
  BY <1>6 DEF StartSimulation, AdvanceTime, vars
<1> QED BY <1>1, <1>2, <1>3, <1>4, <1>5, <1>6 DEF Next, MethodStep

LEMMA CalledTyped ==
  ASSUME TypeOK, [Next]_vars
  PROVE  called' \in [Module -> Nat]
<1>1. called \in [Module -> Nat]
  BY DEF TypeOK
<1>2. ASSUME NEW m \in Module
      PROVE  [called EXCEPT ![m] = @ + 1] \in [Module -> Nat]
  BY <1>1
<1>3. NotCalled \in [Module -> Nat]
  BY DEF NotCalled
<1> QED BY <1>1, <1>2, <1>3, CallsOnlyCalled

LEMMA ModuleStepPreserves ==
  ASSUME IndInv, NEW m \in Module, ModuleStep(m)
  PROVE  IndInv'
<1>1. TypeOK /\ CacheInPast /\ Phases /\ ProcessedIsCounted
  BY DEF IndInv
<1>2. called' \in [Module -> Nat]
  BY <1>1, CalledTyped DEF Next
\* what every request and cancellation leaves alone or only refreshes
<1>3. ASSUME UNCHANGED <<kernel, parameters, existence, processing, ticks>>,
             RefreshCache \/ FillCache \/ UNCHANGED cache,
             exists, ListInv'
      PROVE  IndInv'
  <2>1. /\ mLastTickCount' \in Nat
        /\ mLastTickCount' >= mLastTickCount
        /\ mLastTickTime' \in Nat \cup {Invalid}
        /\ mLastTickTime' # Invalid => mLastTickTime' <= now
    BY <1>1, <1>3, CacheStep
  <2>2. CacheInPast' /\ Phases' /\ ProcessedIsCounted'
    BY <1>1, <1>3, <2>1
       DEF CacheInPast, Phases, ProcessedIsCounted, kernel, existence, processing,
           TypeOK, NotProcessing
  <2> QED BY <1>1, <1>2, <1>3, <2>1, <2>2, Together
          DEF TypeOK, kernel, parameters, existence, processing
<1>4. ASSUME NEW skip \in 0 .. MaxSkip, RequestTrigger(m, skip)
      PROVE  IndInv'
  <2> DEFINE t == PrevTick.count + skip + 1
             event == EventTime(mPeriod, skip + 1,
                                PrevTick.time + (skip + 1) * mPeriod)
  <2>1. /\ exists
        /\ RequestTriggerImpl(m, t, event)
        /\ RefreshCache
        /\ UNCHANGED <<kernel, parameters, existence, processing, ticks>>
    BY <1>4 DEF RequestTrigger
  <2>2. skip \in Nat /\ mPeriod \in Nat
    BY <1>1, ConstantsAssumption DEF TypeOK
  <2>3. /\ PrevTick.count \in Nat /\ PrevTick.count >= mLastTickCount
        /\ PrevTick.time \in Int
    BY <1>1, PrevTickType
  <2>4. t \in Nat
    BY <2>2, <2>3
  <2>5. event \in Int
    BY <2>2, <2>3 DEF EventTime, Never
  <2>6. mProcessingTickCount # NotProcessing => t > mProcessingTickCount
    BY <1>1, <2>2, <2>3 DEF ProcessedIsCounted, TypeOK
  <2> HIDE DEF t, event
  <2>7. ListInv'
    BY <2>1, <2>4, <2>5, <2>6, RequestStep DEF processing, parameters
  <2> QED BY <1>3, <2>1, <2>7
<1>5. ASSUME NEW delay \in 0 .. MaxDelay, RequestTriggerAfter(m, delay)
      PROVE  IndInv'
  <2> DEFINE next == GetNextTickData(delay)
  <2>1. /\ exists
        /\ RequestTriggerImpl(m, next.count, next.time)
        /\ FillCache
        /\ UNCHANGED <<kernel, parameters, existence, processing, ticks>>
    BY <1>5 DEF RequestTriggerAfter
  <2>2. delay \in Nat /\ mPeriod \in Nat
    BY <1>1, ConstantsAssumption DEF TypeOK
  <2>3. /\ PrevTickAfter(delay).count \in Nat
        /\ PrevTickAfter(delay).count >= mLastTickCount
        /\ PrevTickAfter(delay).time \in Int
    BY <1>1, <2>2, PrevTickAfterType
  <2>4. /\ next.count = PrevTickAfter(delay).count + 1
        /\ next.time = PrevTickAfter(delay).time + mPeriod
    BY DEF GetNextTickData
  <2>5. next.count \in Nat /\ next.time \in Int
    BY <2>2, <2>3, <2>4
  <2>6. mProcessingTickCount # NotProcessing => next.count > mProcessingTickCount
    BY <1>1, <2>3, <2>4 DEF ProcessedIsCounted, TypeOK
  <2> HIDE DEF next
  <2>7. ListInv'
    BY <2>1, <2>5, <2>6, RequestStep DEF processing, parameters
  <2> QED BY <1>3, <2>1, <2>7
<1>6. ASSUME CancelTrigger(m)
      PROVE  IndInv'
  <2>1. ListInv'
    BY <1>6, CancelStep
  <2>2. /\ exists
        /\ RefreshCache \/ UNCHANGED cache
        /\ UNCHANGED <<kernel, parameters, existence, processing, ticks>>
    BY <1>6 DEF CancelTrigger
  <2> QED BY <1>3, <2>1, <2>2
<1> QED BY <1>4, <1>5, <1>6 DEF ModuleStep

LEMMA NextPreserves ==
  ASSUME IndInv, [Next]_vars
  PROVE  IndInv'
<1>1. TypeOK /\ CacheInPast /\ Phases /\ ProcessedIsCounted
  BY DEF IndInv
<1>0. called' \in [Module -> Nat]
  BY <1>1, CalledTyped
<1>2. ASSUME NEW m \in Module, ModuleStep(m)
      PROVE  IndInv'
  BY <1>2, ModuleStepPreserves
<1>3. ASSUME ReadTickCount \/ ReadAtTick \/ ReadNextTickData
      PROVE  IndInv'
  <2>1. /\ RefreshCache \/ FillCache
        /\ UNCHANGED <<kernel, parameters, existence, requests, processing, ticks>>
    BY <1>3 DEF ReadTickCount, ReadAtTick, ReadNextTickData
  <2>2. ListInv'
    BY <2>1, QuietStep DEF requests, processing, parameters
  <2>3. /\ mLastTickCount' \in Nat
        /\ mLastTickCount' >= mLastTickCount
        /\ mLastTickTime' \in Nat \cup {Invalid}
        /\ mLastTickTime' # Invalid => mLastTickTime' <= now
    BY <1>1, <2>1, CacheStep
  <2>4. CacheInPast' /\ Phases' /\ ProcessedIsCounted'
    BY <1>1, <2>1, <2>3
       DEF CacheInPast, Phases, ProcessedIsCounted, kernel, existence, processing,
           requests, TypeOK, NotProcessing
  <2> QED BY <1>0, <1>1, <2>1, <2>2, <2>3, <2>4, Together
          DEF TypeOK, kernel, parameters, existence, processing
<1>4. ASSUME NEW m \in Module, HandleTick1Trigger(m)
      PROVE  IndInv'
  <2>1. ListInv' /\ ProcessedIsCounted' /\ mProcessingTickCount' \in Nat
    BY <1>4, HandleStep
  <2>2. /\ methodRunnable /\ DOMAIN mNodes # {}
        /\ mLastTickTime' = now /\ methodRunnable' = FALSE
        /\ mLastTickCount' = mProcessingTickCount'
        /\ mCalls' \subseteq mNodes[Root(mNodes)].mRequests
        /\ UNCHANGED <<now, simRunning, parameters, existence, ticks>>
    BY <1>4 DEF HandleTick1Trigger
  <2>3. mCalls' \subseteq Module
    <3>1. NodesOK(mNodes)
      BY <1>1 DEF TypeOK, NodesOK
    <3>2. mNodes[Root(mNodes)] \in TimeNode
      BY <2>2, <3>1, RootIsFirst DEF NodesOK
    <3> QED BY <2>2, <3>2 DEF TimeNode
  <2>4. exists /\ simRunning
    BY <1>1, <2>2 DEF Phases
  <2>5. CacheInPast' /\ Phases'
    BY <1>1, <2>2, <2>4 DEF CacheInPast, Phases, TypeOK, Time, existence
  <2>6. now \in Time /\ now \in Nat
    BY <1>1, ConstantsAssumption DEF TypeOK, Time
  <2>7. /\ simRunning' \in BOOLEAN
        /\ mPeriod' \in Period /\ mOffset' \in Nat /\ mRunning' \in BOOLEAN
        /\ exists' \in BOOLEAN /\ reconfigured' \in BOOLEAN
        /\ ticks' \in Nat
    BY <1>1, <2>2 DEF TypeOK, parameters, existence
  <2>8. /\ mLastTickCount' \in Nat /\ mLastTickTime' \in Nat
        /\ now' \in Time
    BY <2>1, <2>2, <2>6
  <2>9. methodRunnable' \in BOOLEAN
    BY <2>2, Zenon
  <2> QED BY <1>0, <2>1, <2>3, <2>5, <2>7, <2>8, <2>9, Together
<1>5. ASSUME NEW m \in Module, CallNext(m)
      PROVE  IndInv'
  <2>1. ListInv'
    BY <1>5, CallNextStep
  <2>2. /\ mCalls' = mCalls \ {m}
        /\ UNCHANGED <<kernel, parameters, existence, cache, mNodes,
                       mProcessingTickCount, ticks>>
    BY <1>5 DEF CallNext
  <2>3. CacheInPast' /\ Phases' /\ ProcessedIsCounted'
    BY <1>1, <2>2
       DEF CacheInPast, Phases, ProcessedIsCounted, kernel, existence, cache
  <2> QED BY <1>0, <1>1, <2>1, <2>2, <2>3, Together
          DEF TypeOK, kernel, parameters, existence, cache
<1>6. ASSUME FinishTick
      PROVE  IndInv'
  <2>1. ListInv'
    BY <1>6, FinishStep
  <2>2. /\ mProcessingTickCount # NotProcessing
        /\ mProcessingTickCount' = NotProcessing
        /\ UNCHANGED <<kernel, parameters, existence, cache, mScheduledTick, mCalls,
                       ticks>>
    BY <1>6 DEF FinishTick
  <2>3. simRunning /\ ~methodRunnable
    BY <1>1, <2>2 DEF Phases
  <2>4. exists
    BY <1>1, <2>2 DEF Phases
  <2>5. CacheInPast' /\ Phases' /\ ProcessedIsCounted'
    BY <1>1, <2>2, <2>3, <2>4
       DEF CacheInPast, Phases, ProcessedIsCounted, kernel, existence, cache
  <2> QED BY <1>0, <1>1, <2>1, <2>2, <2>5, Together
          DEF TypeOK, kernel, parameters, existence, cache
<1>7. ASSUME CreateEngine
      PROVE  IndInv'
  <2>1. /\ exists' = TRUE /\ reconfigured' = FALSE
        /\ UNCHANGED <<kernel, parameters, cache, requests, processing, ticks>>
    BY <1>7 DEF CreateEngine
  <2>2. ListInv'
    BY <2>1, QuietStep DEF requests, processing, parameters
  <2>3. CacheInPast' /\ Phases' /\ ProcessedIsCounted'
    BY <1>1, <2>1
       DEF CacheInPast, Phases, ProcessedIsCounted, kernel, cache, processing
  <2> QED BY <1>0, <1>1, <2>1, <2>2, <2>3, Together
          DEF TypeOK, kernel, parameters, processing, cache
<1>8. ASSUME NEW period \in Period, NEW offset \in now .. now + MaxOffset,
             NEW running \in BOOLEAN, UpdateParameters(period, offset, running)
      PROVE  IndInv'
  <2>1. offset \in Nat
    BY <1>1, ConstantsAssumption DEF TypeOK, Time
  <2>2. /\ ListInv'
        /\ mLastTickCount' \in Nat
        /\ mLastTickTime' \in Nat \cup {Invalid}
        /\ CacheInPast'
        /\ DOMAIN mNodes' = DOMAIN mNodes
    BY <1>8, <2>1, UpdateStep
  <2>3. /\ ~methodRunnable /\ mProcessingTickCount = NotProcessing
        /\ mPeriod' = period /\ mOffset' = offset /\ mRunning' = running
        /\ reconfigured' \in BOOLEAN
        /\ UNCHANGED <<kernel, exists, processing, mScheduledTick, ticks>>
    BY <1>8 DEF UpdateParameters
  <2>4. Phases' /\ ProcessedIsCounted'
    BY <1>1, <2>2, <2>3 DEF Phases, ProcessedIsCounted, kernel, processing
  <2> QED BY <1>0, <1>1, <2>1, <2>2, <2>3, <2>4, Together DEF TypeOK, kernel, processing
<1>9. ASSUME StartSimulation
      PROVE  IndInv'
  <2>1. /\ ~simRunning /\ simRunning' = TRUE
        /\ methodRunnable' \in BOOLEAN
        /\ ticks' \in Nat
        /\ UNCHANGED <<now, parameters, existence, cache, requests, processing>>
    BY <1>1, <1>9 DEF StartSimulation, TriggeredAt, TypeOK
  <2>2. ListInv'
    BY <2>1, QuietStep DEF requests, processing, parameters
  <2>3. CacheInPast' /\ Phases' /\ ProcessedIsCounted'
    BY <1>1, <2>1
       DEF CacheInPast, Phases, ProcessedIsCounted, existence, cache, processing, requests
  <2> QED BY <1>0, <1>1, <2>1, <2>2, <2>3, Together
          DEF TypeOK, parameters, existence, processing, cache
<1>10. ASSUME AdvanceTime
       PROVE  IndInv'
  <2>1. /\ simRunning /\ simRunning' = simRunning
        /\ mProcessingTickCount = NotProcessing
        /\ now < EndOfSim /\ now' = now + 1
        /\ methodRunnable' \in BOOLEAN
        /\ ticks' \in Nat
        /\ UNCHANGED <<parameters, existence, cache, requests, processing>>
    BY <1>1, <1>10 DEF AdvanceTime, TriggeredAt, TypeOK
  <2>2. ListInv'
    BY <2>1, QuietStep DEF requests, processing, parameters
  <2>3. now' \in Time /\ now \in Nat
    BY <1>1, <2>1, ConstantsAssumption DEF TypeOK, Time
  <2>4. CacheInPast'
    BY <1>1, <2>1, <2>3 DEF CacheInPast, cache, TypeOK, Invalid
  <2>5. Phases' /\ ProcessedIsCounted'
    BY <1>1, <2>1
       DEF Phases, ProcessedIsCounted, existence, cache, processing, requests
  <2> QED BY <1>0, <1>1, <2>1, <2>2, <2>3, <2>4, <2>5, Together
          DEF TypeOK, parameters, existence, processing, cache
<1>11. ASSUME UNCHANGED vars
       PROVE  IndInv'
  <2>1. UNCHANGED <<kernel, parameters, existence, cache, requests, processing, ticks>>
    BY <1>11 DEF vars
  <2>2. ListInv'
    BY <2>1, QuietStep DEF requests, processing, parameters
  <2>3. CacheInPast' /\ Phases' /\ ProcessedIsCounted'
    BY <1>1, <2>1
       DEF CacheInPast, Phases, ProcessedIsCounted, kernel, existence, cache,
           processing, requests
  <2> QED BY <1>0, <1>1, <2>1, <2>2, <2>3, Together
          DEF TypeOK, kernel, parameters, existence, processing, cache
<1> QED
  BY <1>2, <1>3, <1>4, <1>5, <1>6, <1>7, <1>8, <1>9, <1>10, <1>11
     DEF Next, MethodStep

-----------------------------------------------------------------------------
(* The theorems                                                            *)

(* The invariant holds in every reachable state.                           *)
THEOREM Invariance == Spec => []IndInv
<1>1. Init => IndInv
  BY InitEstablishes
<1>2. IndInv /\ [Next]_vars => IndInv'
  BY NextPreserves
<1> QED BY <1>1, <1>2, PTL DEF Spec

(* Type correctness: whatever the modules, the periods and the bounds,     *)
(* every variable keeps its type, and no node of the list of requests      *)
(* (tick_callback_engine.h:91-109) is ever empty.                          *)
THEOREM TypeCorrect == Spec => []TypeOK
<1>1. IndInv => TypeOK
  BY DEF IndInv
<1> QED BY <1>1, Invariance, PTL

(* The scheduled tick kept in each clocked_module always tells in which    *)
(* node of the engine's list its request is, so that cancellation finds it *)
(* and no request is lost or in the list twice.                            *)
THEOREM RequestsAlwaysAgree == Spec => []RequestsAgree
<1>1. IndInv => RequestsAgree
  BY DEF IndInv
<1> QED BY <1>1, Invariance, PTL

(* No lost wake-up: outside of the callbacks the first node of a running   *)
(* clock always has a tick trigger, after any sequence of requests,        *)
(* cancellations, ticks and parameter changes.                             *)
THEOREM RootAlwaysArmed == Spec => []RootArmed
<1>1. IndInv => RootArmed
  BY DEF IndInv
<1> QED BY <1>1, Invariance, PTL

-----------------------------------------------------------------------------
(* Whole periods                                                           *)

(* Multiples of a period and the number of periods in a span of time.      *)
LEMMA PeriodsIn ==
  ASSUME NEW p \in Nat \ {0}, NEW a \in Nat, NEW k \in Int
  PROVE  k * p <= a <=> k <= a \div p
<1> DEFINE q == a \div p
           r == a % p
<1>1. q \in Int /\ r \in 0 .. p - 1 /\ a = p * q + r
  OBVIOUS
<1> HIDE DEF q, r
<1>2. CASE k <= q
  <2>1. PICK d \in Nat : q = k + d
    BY <1>1, <1>2
  <2>2. p * q = k * p + d * p /\ d * p >= 0
    BY <1>1, <2>1
  <2> QED BY <1>1, <1>2, <2>2 DEF q
<1>3. CASE ~(k <= q)
  <2>1. PICK d \in Nat : k = q + 1 + d
    BY <1>1, <1>3
  <2>2. k * p = p * q + p + d * p /\ d * p >= 0
    BY <1>1, <2>1
  <2> QED BY <1>1, <1>3, <2>2 DEF q
<1> QED BY <1>2, <1>3

LEMMA WholeNumberOfPeriods ==
  ASSUME NEW p \in Nat \ {0}, NEW k \in Int, k * p \in Nat
  PROVE  (k * p) \div p = k /\ (k * p) % p = 0
<1> DEFINE a == k * p
           q == a \div p
           r == a % p
<1>1. q \in Int /\ r \in 0 .. p - 1 /\ a = p * q + r /\ a \in Nat
  OBVIOUS
<1>2. k <= q
  BY <1>1, PeriodsIn
<1>3. q * p <= a
  BY <1>1, PeriodsIn
<1> HIDE DEF q, r
<1>4. PICK d \in Nat : q = k + d
  BY <1>1, <1>2
<1>5. q * p = a + d * p
  BY <1>1, <1>4
<1>6. d * p <= 0
  BY <1>1, <1>3, <1>5
<1>7. d = 0
  BY <1>6
<1>8. q = k
  BY <1>1, <1>4, <1>7
<1>9. p * q = a
  BY <1>8
<1>10. r = 0
  BY <1>1, <1>9
<1> QED BY <1>8, <1>10 DEF q, r

LEMMA NoRemainder ==
  ASSUME NEW p \in Nat \ {0}, NEW a \in Nat
  PROVE  a % p = 0 <=> (a \div p) * p = a
<1>1. a \div p \in Int /\ a % p \in 0 .. p - 1 /\ a = (p * (a \div p)) + (a % p)
  OBVIOUS
<1>2. p * (a \div p) = (a \div p) * p
  BY <1>1
<1> QED BY <1>1, <1>2

-----------------------------------------------------------------------------
(* The ticks of the current parameters                                     *)

\* The number of tick times of the current parameters up to time x.
TicksTo(x) ==
    IF mRunning /\ x >= mOffset THEN (x - mOffset) \div mPeriod + 1 ELSE 0

\* The number of ticks counted before the first one of the current parameters.
Before == IF simRunning THEN ticks - TicksTo(now) ELSE 0

\* The time of tick c under the current parameters.
TimeOf(c) == mOffset + (c - Before - 1) * mPeriod

\* Before the simulation nothing has ticked; it is stopped at EndOfSim.
Beginning ==
    /\ ~simRunning => now = 0 /\ ticks = 0
    /\ now <= EndOfSim

\* The remembered tick is one of the current parameters, with the count that
\* counting gives; without one the count is that of the ticks before them.
CacheOnGrid ==
    /\ mLastTickTime = Invalid /\ (exists \/ ~reconfigured) => mLastTickCount = Before
    /\ mLastTickTime # Invalid =>
          /\ exists /\ mRunning /\ simRunning
          /\ mLastTickTime = TimeOf(mLastTickCount)
          /\ mOffset <= mLastTickTime
    /\ ~exists => mLastTickCount = 0 /\ mLastTickTime = Invalid

\* An event of the trigger of tick u: at the time of the tick, or never if that
\* is at the end of time.
EventOf(u, x) ==
    \/ x = TimeOf(u) /\ x \in Time
    \/ x = Never /\ TimeOf(u) > MaxSimTime - 2 * mPeriod

\* The triggers of a list of nodes; a node without one has no event.
OnGrid(nodes) ==
    \A u \in DOMAIN nodes :
        IF nodes[u].mTickTrigger THEN mRunning /\ EventOf(u, nodes[u].mEvent)
                                 ELSE nodes[u].mEvent = Never

TriggersOnGrid == OnGrid(mNodes)

\* Requests are for ticks to come, or for the one whose method is to run.
RequestsAhead ==
    \A u \in DOMAIN mNodes : u > ticks \/ (u = ticks /\ methodRunnable)

\* The method runs, and the callbacks are made, at the time of their tick.
TickInProgress ==
    /\ methodRunnable => IsTickTime(now) /\ ticks \in DOMAIN mNodes
    /\ mProcessingTickCount # NotProcessing =>
          IsTickTime(now) /\ mProcessingTickCount = ticks

GridInv ==
    /\ Beginning
    /\ CacheOnGrid
    /\ TriggersOnGrid
    /\ RequestsAhead
    /\ TickInProgress

LEMMA GridTypes ==
  ASSUME TypeOK
  PROVE  /\ mPeriod \in Nat \ {0} /\ mOffset \in Nat
         /\ now \in Nat /\ ticks \in Nat
         /\ \A x \in Int : TicksTo(x) \in Nat
         /\ Before \in Int
         /\ \A c \in Int : TimeOf(c) \in Int
<1>1. mPeriod \in Nat \ {0} /\ mOffset \in Nat /\ now \in Nat /\ ticks \in Nat
  BY ConstantsAssumption DEF TypeOK, Time
<1>2. ASSUME NEW x \in Int PROVE TicksTo(x) \in Nat
  <2>1. CASE mRunning /\ x >= mOffset
    <3>1. x - mOffset \in Nat
      BY <1>1, <2>1
    <3>2. (x - mOffset) \div mPeriod \in Nat
      BY <1>1, <3>1, WholePeriods
    <3> QED BY <2>1, <3>2 DEF TicksTo
  <2>2. CASE ~(mRunning /\ x >= mOffset)
    BY <2>2 DEF TicksTo
  <2> QED BY <2>1, <2>2
<1>3. TicksTo(now) \in Nat
  BY <1>1, <1>2
<1>4. Before \in Int
  BY <1>1, <1>3 DEF Before
<1>5. ASSUME NEW c \in Int PROVE TimeOf(c) \in Int
  <2>1. c - Before - 1 \in Int
    BY <1>4
  <2>2. (c - Before - 1) * mPeriod \in Int
    BY <1>1, <2>1
  <2> QED BY <1>1, <2>2 DEF TimeOf
<1> QED BY <1>1, <1>2, <1>4, <1>5

(* k ticks later is k periods later.                                       *)
LEMMA LaterTick ==
  ASSUME TypeOK, NEW c \in Int, NEW k \in Int
  PROVE  /\ TimeOf(c + k) = TimeOf(c) + k * mPeriod
         /\ k * mPeriod \in Int
<1> DEFINE n == c - Before - 1
<1>1. mPeriod \in Nat \ {0} /\ mOffset \in Nat /\ n \in Int /\ Before \in Int
  BY GridTypes
<1>2. (c + k) - Before - 1 = n + k
  BY <1>1
<1>3. (n + k) * mPeriod = n * mPeriod + k * mPeriod
  BY <1>1
<1>4. TimeOf(c) = mOffset + n * mPeriod
  BY DEF TimeOf
<1>5. TimeOf(c + k) = mOffset + (n + k) * mPeriod
  BY <1>2 DEF TimeOf
<1>6. n * mPeriod \in Int /\ k * mPeriod \in Int
  BY <1>1
<1> HIDE DEF n
<1> QED BY <1>1, <1>3, <1>4, <1>5, <1>6

(* The first tick of the parameters is at their offset.                    *)
LEMMA FirstTick ==
  ASSUME TypeOK
  PROVE  /\ TimeOf(Before + 1) = mOffset
         /\ TimeOf(Before) = mOffset - mPeriod
<1>1. mPeriod \in Nat \ {0} /\ mOffset \in Nat /\ Before \in Int
  BY GridTypes
<1>2. TimeOf(Before + 1) = mOffset
  <2>1. Before + 1 - Before - 1 = 0
    BY <1>1
  <2>2. 0 * mPeriod = 0
    BY <1>1
  <2> QED BY <1>1, <2>1, <2>2 DEF TimeOf
<1>3. TimeOf(Before) = mOffset - mPeriod
  <2>1. Before - Before - 1 = -1
    BY <1>1
  <2>2. (-1) * mPeriod = -mPeriod
    BY <1>1
  <2> QED BY <1>1, <2>1, <2>2 DEF TimeOf
<1> QED BY <1>2, <1>3

(* A tick is not after time x exactly if counting to x counts it.          *)
LEMMA TickOrder ==
  ASSUME TypeOK, mRunning, NEW x \in Int, NEW c \in Int, c > Before
  PROVE  TimeOf(c) <= x <=> c <= Before + TicksTo(x)
<1> DEFINE k == c - Before - 1
<1>1. /\ mPeriod \in Nat \ {0} /\ mOffset \in Nat /\ Before \in Int
      /\ k \in Nat /\ TicksTo(x) \in Nat
  BY GridTypes
<1>2. TimeOf(c) = mOffset + k * mPeriod
  BY DEF TimeOf
<1>3. k * mPeriod \in Nat
  BY <1>1
<1>4. CASE x >= mOffset
  <2>1. x - mOffset \in Nat /\ (x - mOffset) \div mPeriod \in Nat
    BY <1>1, <1>4, WholePeriods
  <2>2. TicksTo(x) = (x - mOffset) \div mPeriod + 1
    BY <1>4 DEF TicksTo
  <2>3. k * mPeriod <= x - mOffset <=> k <= (x - mOffset) \div mPeriod
    BY <1>1, <2>1, PeriodsIn
  <2>4. c = k + Before + 1
    BY <1>1
  <2> HIDE DEF k
  <2> QED BY <1>1, <1>2, <1>3, <2>1, <2>2, <2>3, <2>4
<1>5. CASE ~(x >= mOffset)
  <2>1. TicksTo(x) = 0
    BY <1>5 DEF TicksTo
  <2> HIDE DEF k
  <2> QED BY <1>1, <1>2, <1>3, <1>5, <2>1
<1> QED BY <1>4, <1>5

(* The times of the ticks are tick times, and counting to one counts it.   *)
LEMMA TicksHaveTimes ==
  ASSUME TypeOK, mRunning, NEW c \in Int, c > Before
  PROVE  /\ TimeOf(c) >= mOffset
         /\ IsTickTime(TimeOf(c))
         /\ TicksTo(TimeOf(c)) = c - Before
<1> DEFINE k == c - Before - 1
           a == k * mPeriod
<1>1. /\ mPeriod \in Nat \ {0} /\ mOffset \in Nat /\ Before \in Int /\ k \in Nat
  BY GridTypes
<1>2. TimeOf(c) = mOffset + a
  BY DEF TimeOf
<1>3. a \in Nat
  BY <1>1
<1>4. a \div mPeriod = k /\ a % mPeriod = 0
  BY <1>1, <1>3, WholeNumberOfPeriods
<1>5. c = k + Before + 1
  BY <1>1
<1> HIDE DEF k, a
<1>6. TimeOf(c) - mOffset = a /\ TimeOf(c) >= mOffset
  BY <1>1, <1>2, <1>3
<1>7. IsTickTime(TimeOf(c))
  BY <1>4, <1>6 DEF IsTickTime
<1>8. TicksTo(TimeOf(c)) = k + 1
  BY <1>4, <1>6 DEF TicksTo
<1> QED BY <1>1, <1>5, <1>6, <1>7, <1>8

(* Every tick time is the time of the tick that counting gives.            *)
LEMMA TickTimeHasTick ==
  ASSUME TypeOK, NEW x \in Int, IsTickTime(x)
  PROVE  TicksTo(x) >= 1 /\ x = TimeOf(Before + TicksTo(x))
<1> DEFINE a == x - mOffset
           k == a \div mPeriod
<1>1. /\ mPeriod \in Nat \ {0} /\ mOffset \in Nat /\ Before \in Int
      /\ a \in Nat /\ a % mPeriod = 0 /\ mRunning
  BY GridTypes DEF IsTickTime
<1>2. k \in Nat /\ k * mPeriod = a
  BY <1>1, WholePeriods, NoRemainder
<1>3. TicksTo(x) = k + 1
  BY <1>1 DEF TicksTo
<1>4. x = mOffset + a
  BY <1>1
<1> HIDE DEF a, k
<1>5. (Before + TicksTo(x)) - Before - 1 = k
  BY <1>1, <1>2, <1>3
<1>6. TimeOf(Before + TicksTo(x)) = mOffset + k * mPeriod
  BY <1>5 DEF TimeOf
<1> QED BY <1>2, <1>3, <1>4, <1>6

(* The latest tick that is not after time x.                               *)
LEMMA LatestTick ==
  ASSUME TypeOK, mRunning, NEW x \in Int, x >= mOffset
  PROVE  /\ TicksTo(x) >= 1
         /\ TimeOf(Before + TicksTo(x)) <= x
         /\ x < TimeOf(Before + TicksTo(x)) + mPeriod
<1> DEFINE c == Before + TicksTo(x)
<1>1. mPeriod \in Nat \ {0} /\ mOffset \in Nat /\ Before \in Int /\ TicksTo(x) \in Nat
  BY GridTypes
<1>2. Before + 1 <= c
  BY <1>1, FirstTick, TickOrder
<1>3. c \in Int /\ c > Before
  BY <1>1, <1>2
<1>4. TimeOf(c) <= x
  BY <1>1, <1>3, TickOrder
<1>5. c = Before + TicksTo(x)
  OBVIOUS
<1> HIDE DEF c
<1>6. ~(TimeOf(c + 1) <= x)
  BY <1>1, <1>3, <1>5, TickOrder
<1>7. TimeOf(c + 1) = TimeOf(c) + 1 * mPeriod /\ TimeOf(c) \in Int
  BY <1>3, LaterTick, GridTypes
<1>8. 1 * mPeriod = mPeriod
  BY <1>1
<1>9. x < TimeOf(c) + mPeriod
  BY <1>1, <1>6, <1>7, <1>8
<1> QED BY <1>1, <1>2, <1>4, <1>5, <1>9

(* Counting goes on by one at each tick time.                              *)
LEMMA CountingOn ==
  ASSUME TypeOK, NEW x \in Int
  PROVE  TicksTo(x) = TicksTo(x - 1) + (IF IsTickTime(x) THEN 1 ELSE 0)
<1> DEFINE A == TicksTo(x)
           B == TicksTo(x - 1)
<1>1. /\ mPeriod \in Nat \ {0} /\ mOffset \in Nat /\ Before \in Int
      /\ A \in Nat /\ B \in Nat
  BY GridTypes
<1>2. CASE ~mRunning
  BY <1>2 DEF TicksTo, IsTickTime
<1>3. CASE mRunning
  <2>1. \A c \in Int : c > Before =>
           /\ TimeOf(c) \in Int
           /\ TimeOf(c) <= x <=> c <= Before + A
           /\ TimeOf(c) <= x - 1 <=> c <= Before + B
    <3> SUFFICES ASSUME NEW c \in Int, c > Before
                 PROVE  /\ TimeOf(c) \in Int
                        /\ TimeOf(c) <= x <=> c <= Before + A
                        /\ TimeOf(c) <= x - 1 <=> c <= Before + B
      OBVIOUS
    <3> HIDE DEF A, B
    <3>1. TimeOf(c) \in Int
      BY GridTypes
    <3>2. TimeOf(c) <= x <=> c <= Before + A
      BY <1>3, TickOrder DEF A
    <3>3. x - 1 \in Int
      OBVIOUS
    <3>4. TimeOf(c) <= x - 1 <=> c <= Before + B
      BY <1>3, <3>3, TickOrder DEF B
    <3> QED BY <3>1, <3>2, <3>4
  <2>2. CASE IsTickTime(x)
    <3>1. A >= 1 /\ x = TimeOf(Before + A)
      BY <2>2, TickTimeHasTick
    <3>2. TimeOf(Before + A + (-1)) = TimeOf(Before + A) + (-1) * mPeriod
      BY <1>1, LaterTick
    <3>3. (-1) * mPeriod <= -1 /\ (-1) * mPeriod \in Int
      BY <1>1
    <3>4. Before + A + (-1) = (Before + A) - 1
      BY <1>1
    <3> HIDE DEF A, B
    <3>5. A > B
      BY <1>1, <2>1, <3>1
    <3>6. A - 1 <= B
      BY <1>1, <2>1, <3>1, <3>2, <3>3, <3>4
    <3>7. A = B + 1
      BY <1>1, <3>5, <3>6
    <3> QED BY <2>2, <3>7 DEF A, B
  <2>3. CASE ~IsTickTime(x)
    <3>1. A >= 1 => TimeOf(Before + A) # x
      BY <1>1, <1>3, <2>3, TicksHaveTimes
    <3> HIDE DEF A, B
    <3>2. A <= B
      BY <1>1, <2>1, <3>1
    <3>3. B <= A
      BY <1>1, <2>1
    <3>4. A = B
      BY <1>1, <3>2, <3>3
    <3>5. B = B + 0
      BY <1>1
    <3> QED BY <2>3, <3>4, <3>5 DEF A, B
  <2> QED BY <2>2, <2>3
<1> QED BY <1>2, <1>3

(* The number of tick times in an interval is a difference of counts: the  *)
(* ticks between the counts and their times are in one-to-one relation.    *)
LEMMA TicksInterval ==
  ASSUME TypeOK, NEW a \in Int, NEW b \in Int, a <= b + 1
  PROVE  TicksIn(a, b) = TicksTo(b) - TicksTo(a - 1)
<1> DEFINE S == {x \in a .. b : IsTickTime(x)}
           A == TicksTo(a - 1)
           B == TicksTo(b)
<1>1. /\ mPeriod \in Nat \ {0} /\ mOffset \in Nat /\ Before \in Int
      /\ A \in Nat /\ B \in Nat
  BY GridTypes
<1>2. TicksIn(a, b) = Cardinality(S)
  BY DEF TicksIn
<1>3. CASE ~mRunning
  <2>1. S = {}
    BY <1>3 DEF IsTickTime
  <2>2. Cardinality(S) = 0
    BY <2>1, FS_EmptySet
  <2>3. A = 0 /\ B = 0
    BY <1>3 DEF TicksTo
  <2> QED BY <1>2, <2>2, <2>3
<1>4. CASE mRunning
  <2>1. \A c \in Int : c > Before =>
           /\ TimeOf(c) \in Int
           /\ TimeOf(c) <= b <=> c <= Before + B
           /\ TimeOf(c) <= a - 1 <=> c <= Before + A
           /\ IsTickTime(TimeOf(c))
           /\ TicksTo(TimeOf(c)) = c - Before
    <3> SUFFICES ASSUME NEW c \in Int, c > Before
                 PROVE  /\ TimeOf(c) \in Int
                        /\ TimeOf(c) <= b <=> c <= Before + B
                        /\ TimeOf(c) <= a - 1 <=> c <= Before + A
                        /\ IsTickTime(TimeOf(c))
                        /\ TicksTo(TimeOf(c)) = c - Before
      OBVIOUS
    <3> HIDE DEF A, B, S
    <3>1. TimeOf(c) \in Int
      BY GridTypes
    <3>2. TimeOf(c) <= b <=> c <= Before + B
      BY <1>4, TickOrder DEF B
    <3>3. a - 1 \in Int
      OBVIOUS
    <3>4. TimeOf(c) <= a - 1 <=> c <= Before + A
      BY <1>4, <3>3, TickOrder DEF A
    <3>5. IsTickTime(TimeOf(c)) /\ TicksTo(TimeOf(c)) = c - Before
      BY <1>4, TicksHaveTimes
    <3> QED BY <3>1, <3>2, <3>4, <3>5
  <2>2. \A x \in Int : IsTickTime(x) =>
           /\ TicksTo(x) \in Nat
           /\ TicksTo(x) >= 1
           /\ x = TimeOf(Before + TicksTo(x))
    BY TickTimeHasTick, GridTypes
  <2> DEFINE n == B - A
             f == [k \in 1 .. n |-> TimeOf(Before + A + k)]
  <2> HIDE DEF A, B
  <2>3. n \in Nat
    BY <1>1, <2>1
  <2>4. \A k \in 1 .. n : f[k] \in S
    <3> SUFFICES ASSUME NEW k \in 1 .. n PROVE TimeOf(Before + A + k) \in S
      OBVIOUS
    <3> DEFINE c == Before + A + k
    <3>1. c \in Int /\ c > Before /\ ~(c <= Before + A) /\ c <= Before + B
      BY <1>1, <2>3
    <3>2. TimeOf(c) \in S
      <4> HIDE DEF c, f
      <4>1. /\ TimeOf(c) \in Int /\ TimeOf(c) <= b /\ ~(TimeOf(c) <= a - 1)
            /\ IsTickTime(TimeOf(c))
        BY <2>1, <3>1
      <4> QED BY <4>1
    <3> QED BY <3>2
  <2>5. \A j, k \in 1 .. n : f[j] = f[k] => j = k
    <3> SUFFICES ASSUME NEW j \in 1 .. n, NEW k \in 1 .. n,
                        TimeOf(Before + A + j) = TimeOf(Before + A + k)
                 PROVE  j = k
      OBVIOUS
    <3> DEFINE c == Before + A + j
               d == Before + A + k
    <3>1. c \in Int /\ c > Before /\ d \in Int /\ d > Before
      BY <1>1, <2>3
    <3>2. TimeOf(c) = TimeOf(d)
      OBVIOUS
    <3>3. c - Before = d - Before
      <4> HIDE DEF c, d, f
      <4> QED BY <2>1, <3>1, <3>2
    <3> QED BY <1>1, <3>3
  <2>6. \A x \in S : \E k \in 1 .. n : f[k] = x
    <3> SUFFICES ASSUME NEW x \in S PROVE \E k \in 1 .. n : f[k] = x
      OBVIOUS
    <3> DEFINE k == TicksTo(x) - A
    <3>1. /\ x \in Int /\ a <= x /\ x <= b
          /\ TicksTo(x) \in Nat /\ TicksTo(x) >= 1
          /\ x = TimeOf(Before + TicksTo(x))
      BY <2>2
    <3>2. TicksTo(x) <= B
      BY <1>1, <2>1, <3>1
    <3>3. TicksTo(x) > A
      BY <1>1, <2>1, <3>1
    <3>4. k \in 1 .. n /\ Before + A + k = Before + TicksTo(x)
      BY <1>1, <3>1, <3>2, <3>3
    <3> QED BY <3>1, <3>4
  <2>7. f \in Bijection(1 .. n, S)
    <3>1. f \in [1 .. n -> S]
      BY <2>4
    <3> HIDE DEF f
    <3> QED BY <2>5, <2>6, <3>1 DEF Bijection, Injection, Surjection, IsInjective
  <2>8. ExistsBijection(1 .. n, S)
    BY <2>7 DEF ExistsBijection
  <2>9. IsFiniteSet(1 .. n) /\ Cardinality(1 .. n) = n
    BY <2>3, FS_Interval
  <2>10. Cardinality(S) = n
    BY <2>8, <2>9, FS_Bijection
  <2> QED BY <1>2, <2>10 DEF A, B
<1> QED BY <1>3, <1>4

(* Time orders the ticks as their numbers do.                              *)
LEMMA TimesIncrease ==
  ASSUME TypeOK, NEW c \in Int, NEW d \in Int
  PROVE  c <= d <=> TimeOf(c) <= TimeOf(d)
<1>1. /\ mPeriod \in Nat \ {0} /\ TimeOf(c) \in Int /\ TimeOf(d) \in Int
      /\ d - c \in Int /\ c + (d - c) = d
  BY GridTypes
<1> DEFINE k == d - c
<1>2. TimeOf(d) = TimeOf(c) + k * mPeriod /\ k * mPeriod \in Int
  BY <1>1, LaterTick
<1>3. k >= 0 => k * mPeriod >= 0
  BY <1>1
<1>4. k < 0 => k * mPeriod < 0
  BY <1>1
<1>5. c <= d <=> k >= 0
  BY <1>1
<1> HIDE DEF k
<1>6. k \in Int
  BY <1>1 DEF k
<1> QED BY <1>1, <1>2, <1>3, <1>4, <1>5, <1>6

LEMMA CountingGrows ==
  ASSUME TypeOK, NEW x \in Int, NEW y \in Int, x <= y
  PROVE  TicksTo(x) <= TicksTo(y)
<1>1. TicksTo(x) \in Nat /\ TicksTo(y) \in Nat /\ Before \in Int /\ mOffset \in Nat
  BY GridTypes
<1>2. CASE mRunning /\ x >= mOffset
  <2> DEFINE c == Before + TicksTo(x)
  <2>1. TicksTo(x) >= 1 /\ TimeOf(c) <= x
    BY <1>2, LatestTick
  <2>2. c \in Int /\ c > Before /\ TimeOf(c) \in Int
    BY <1>1, <2>1, GridTypes
  <2>3. TimeOf(c) <= y
    BY <2>1, <2>2
  <2>4. c <= Before + TicksTo(y)
    BY <1>2, <2>2, <2>3, TickOrder
  <2> QED BY <1>1, <2>4
<1>3. CASE ~(mRunning /\ x >= mOffset)
  BY <1>1, <1>3 DEF TicksTo
<1> QED BY <1>2, <1>3

(* The ticks counted so far are those before the parameters and their own. *)
LEMMA Counted ==
  ASSUME TypeOK, Beginning
  PROVE  /\ ticks >= Before
         /\ simRunning => ticks = Before + TicksTo(now)
         /\ ~simRunning => ticks = 0 /\ Before = 0 /\ now = 0
<1>1. TicksTo(now) \in Nat /\ ticks \in Nat
  BY GridTypes
<1> QED BY <1>1 DEF Before, Beginning

(* Ticks that were not counted yet are still to come.                      *)
LEMMA StillToCome ==
  ASSUME TypeOK, Beginning, mRunning, NEW u \in Int, u > ticks
  PROVE  /\ TimeOf(u) \in Nat
         /\ TimeOf(u) >= now
         /\ simRunning => TimeOf(u) > now
<1>1. /\ u > Before /\ now \in Nat /\ mOffset \in Nat /\ ticks \in Nat
      /\ TimeOf(u) \in Int /\ Before \in Int
  BY Counted, GridTypes
<1>2. TimeOf(u) >= mOffset
  BY <1>1, TicksHaveTimes
<1>3. TimeOf(u) <= now <=> u <= Before + TicksTo(now)
  BY <1>1, TickOrder
<1> QED BY <1>1, <1>2, <1>3, Counted

(* The ticks that were counted are at most one period before the offset.   *)
LEMMA CountedTime ==
  ASSUME TypeOK, Beginning
  PROVE  TimeOf(ticks) >= -mPeriod
<1>1. /\ ticks \in Nat /\ Before \in Int /\ ticks >= Before /\ mOffset \in Nat
      /\ mPeriod \in Nat /\ TimeOf(ticks) \in Int /\ TimeOf(Before) \in Int
  BY Counted, GridTypes
<1>2. TimeOf(Before) <= TimeOf(ticks)
  BY <1>1, TimesIncrease
<1> QED BY <1>1, <1>2, FirstTick

-----------------------------------------------------------------------------
(* What the engine computes                                                *)

(* The tick from which the others are computed is one of the parameters.   *)
LEMMA BaseTickOnGrid ==
  ASSUME TypeOK, CacheOnGrid, mRunning, exists
  PROVE  /\ BaseTick.count \in Int /\ BaseTick.time \in Int
         /\ BaseTick.count > Before
         /\ BaseTick.time = TimeOf(BaseTick.count)
<1>1. /\ Before \in Int /\ mOffset \in Nat /\ mLastTickCount \in Nat
      /\ mPeriod \in Nat \ {0}
  BY GridTypes DEF TypeOK
<1>2. CASE mLastTickTime # Invalid
  <2>1. /\ BaseTick.count = mLastTickCount /\ BaseTick.time = mLastTickTime
        /\ mLastTickTime = TimeOf(mLastTickCount) /\ mLastTickTime >= mOffset
        /\ mLastTickTime \in Nat
    BY <1>2 DEF BaseTick, CacheOnGrid, TypeOK
  <2>2. ~(TimeOf(mLastTickCount) <= TimeOf(Before))
    BY <1>1, <2>1, FirstTick
  <2>3. ~(mLastTickCount <= Before)
    BY <1>1, <2>2, TimesIncrease
  <2> QED BY <1>1, <2>1, <2>3
<1>3. CASE mLastTickTime = Invalid
  <2>1. BaseTick.count = Before + 1 /\ BaseTick.time = mOffset
    BY <1>3 DEF BaseTick, CacheOnGrid
  <2> QED BY <1>1, <2>1, FirstTick
<1> QED BY <1>2, <1>3

(* The latest tick before a time is computed as counting would find it.    *)
LEMMA TickBeforeIsLatest ==
  ASSUME TypeOK, CacheOnGrid, mRunning, exists,
         NEW x \in Nat, x >= BaseTick.time
  PROVE  /\ TickBefore(x).count = Before + TicksTo(x)
         /\ TickBefore(x).time = TimeOf(Before + TicksTo(x))
<1> DEFINE b == BaseTick.count
           n == (x - BaseTick.time) \div mPeriod
           T == TicksTo(x)
<1>1. /\ Before \in Int /\ mPeriod \in Nat \ {0} /\ T \in Nat
      /\ b \in Int /\ BaseTick.time \in Int /\ b > Before
      /\ BaseTick.time = TimeOf(b)
  BY GridTypes, BaseTickOnGrid
<1>2. x - BaseTick.time \in Nat
  BY <1>1
<1>3. n \in Nat /\ n * mPeriod <= x - BaseTick.time
      /\ ~((n + 1) * mPeriod <= x - BaseTick.time)
  <2>1. n \in Nat
    BY <1>1, <1>2, WholePeriods
  <2>2. n * mPeriod <= x - BaseTick.time
    BY <1>1, <1>2, WholePeriods
  <2>3. (n + 1) * mPeriod <= x - BaseTick.time <=> n + 1 <= n
    BY <1>1, <1>2, <2>1, PeriodsIn
  <2> HIDE DEF n
  <2> QED BY <2>1, <2>2, <2>3
<1>4. TickBefore(x).count = b + n /\ TickBefore(x).time = BaseTick.time + n * mPeriod
  BY DEF TickBefore
<1> HIDE DEF b, n, T
<1>5. TimeOf(b + n) = TimeOf(b) + n * mPeriod /\ n * mPeriod \in Int
  BY <1>1, <1>3, LaterTick
<1>6. TimeOf(b + (n + 1)) = TimeOf(b) + (n + 1) * mPeriod /\ (n + 1) * mPeriod \in Int
  <2>1. n + 1 \in Int
    BY <1>3
  <2> QED BY <1>1, <2>1, LaterTick
<1>7. TimeOf(b + n) <= x /\ ~(TimeOf(b + (n + 1)) <= x)
  BY <1>1, <1>3, <1>5, <1>6
<1>8. b + n \in Int /\ b + n > Before /\ b + (n + 1) \in Int /\ b + (n + 1) > Before
  BY <1>1, <1>3
<1>9. b + n <= Before + T /\ ~(b + (n + 1) <= Before + T)
  BY <1>7, <1>8, TickOrder DEF T
<1>10. b + n = Before + T
  BY <1>1, <1>3, <1>9
<1> QED BY <1>1, <1>4, <1>5, <1>10 DEF T

(* The previous tick is the last one that was counted.                     *)
LEMMA PrevTickIsCounted ==
  ASSUME TypeOK, CacheInPast, CacheOnGrid, Beginning, exists
  PROVE  /\ PrevTick.count = ticks
         /\ mRunning => PrevTick.time = TimeOf(ticks)
         /\ mLastTickTime # Invalid \/ Ticking =>
               /\ mRunning /\ simRunning
               /\ mOffset <= TimeOf(ticks) /\ TimeOf(ticks) <= now
<1>1. /\ now \in Nat /\ mOffset \in Nat /\ mPeriod \in Nat \ {0}
      /\ Before \in Int /\ TicksTo(now) \in Nat /\ TimeOf(ticks) \in Int
  BY GridTypes
<1>2. CASE mLastTickTime # Invalid \/ Ticking
  <2>1. mRunning /\ simRunning /\ now >= mOffset
    BY <1>1, <1>2 DEF CacheOnGrid, CacheInPast, Ticking, TypeOK, Invalid
  <2>2. BaseTick.time <= now
    BY <1>2, <2>1 DEF BaseTick, CacheInPast
  <2>3. /\ TickBefore(now).count = Before + TicksTo(now)
        /\ TickBefore(now).time = TimeOf(Before + TicksTo(now))
    BY <1>1, <2>1, <2>2, TickBeforeIsLatest
  <2>4. ticks = Before + TicksTo(now)
    BY <2>1, Counted
  <2>5. PrevTick.count = ticks /\ PrevTick.time = TimeOf(ticks)
    BY <1>2, <2>3, <2>4 DEF PrevTick
  <2>6. TicksTo(now) >= 1 /\ TimeOf(ticks) <= now
    BY <1>1, <2>1, <2>4, LatestTick
  <2>7. ticks \in Int /\ ticks > Before
    BY <1>1, <2>4, <2>6
  <2>8. TimeOf(ticks) >= mOffset
    BY <2>1, <2>7, TicksHaveTimes
  <2> QED BY <2>1, <2>5, <2>6, <2>8
<1>3. CASE ~(mLastTickTime # Invalid \/ Ticking)
  <2>1. mLastTickCount = Before
    BY <1>3 DEF CacheOnGrid
  <2>2. simRunning => TicksTo(now) = 0
    BY <1>3 DEF TicksTo, Ticking
  <2>3. ticks = Before
    BY <1>1, <2>2, Counted
  <2>4. PrevTick.count = ticks
    BY <1>3, <2>1, <2>3 DEF PrevTick
  <2>5. mRunning => PrevTick.time = mOffset - mPeriod
    BY <1>3 DEF PrevTick
  <2> QED BY <1>3, <2>3, <2>4, <2>5, FirstTick
<1> QED BY <1>2, <1>3

(* The tick before a delay is the one that counting to its end gives.      *)
LEMMA PrevTickAfterIsCounted ==
  ASSUME TypeOK, CacheInPast, CacheOnGrid, Beginning, exists, NEW d \in Nat
  PROVE  /\ mRunning => /\ PrevTickAfter(d).count = Before + TicksTo(now + d)
                        /\ PrevTickAfter(d).time = TimeOf(Before + TicksTo(now + d))
         /\ PrevTickAfter(d).count \in Int
         /\ PrevTickAfter(d).count >= ticks
<1>1. /\ now \in Nat /\ mOffset \in Nat /\ mPeriod \in Nat \ {0} /\ ticks \in Nat
      /\ Before \in Int /\ TicksTo(now) \in Nat /\ TicksTo(now + d) \in Nat
  BY GridTypes
<1>2. TicksTo(now) <= TicksTo(now + d)
  BY <1>1, CountingGrows
<1>3. Before + TicksTo(now + d) >= ticks
  BY <1>1, <1>2, Counted
<1>4. CASE mRunning
  <2>1. CASE mLastTickTime # Invalid \/ now + d >= mOffset
    <3>1. BaseTick.time <= now + d
      BY <1>1, <2>1 DEF BaseTick, CacheInPast, TypeOK, Invalid
    <3>2. /\ TickBefore(now + d).count = Before + TicksTo(now + d)
          /\ TickBefore(now + d).time = TimeOf(Before + TicksTo(now + d))
      BY <1>1, <1>4, <3>1, TickBeforeIsLatest
    <3>3. PrevTickAfter(d) = TickBefore(now + d)
      BY <1>4, <2>1 DEF PrevTickAfter
    <3> QED BY <1>1, <1>3, <3>2, <3>3
  <2>2. CASE ~(mLastTickTime # Invalid \/ now + d >= mOffset)
    <3>1. /\ PrevTickAfter(d).count = mLastTickCount
          /\ PrevTickAfter(d).time = mOffset - mPeriod
          /\ mLastTickCount = Before
      BY <1>4, <2>2 DEF PrevTickAfter, CacheOnGrid
    <3>2. TicksTo(now + d) = 0
      BY <2>2 DEF TicksTo
    <3>3. Before + TicksTo(now + d) = Before
      BY <1>1, <3>2
    <3> QED BY <1>1, <1>3, <1>4, <3>1, <3>3, FirstTick
  <2> QED BY <2>1, <2>2
<1>5. CASE ~mRunning
  <2>1. mLastTickTime = Invalid /\ mLastTickCount = Before
    BY <1>5 DEF CacheOnGrid
  <2>2. PrevTickAfter(d).count = Before + d \div mPeriod
    BY <1>5, <2>1 DEF PrevTickAfter
  <2>3. d \div mPeriod \in Nat
    BY <1>1, WholePeriods
  <2>4. TicksTo(now + d) = 0
    BY <1>5 DEF TicksTo
  <2> QED BY <1>1, <1>3, <1>5, <2>2, <2>3, <2>4
<1> QED BY <1>4, <1>5

-----------------------------------------------------------------------------
(* What the invariant says of the engine                                   *)

\* The simulation stops long before the end of representable time.
StopsEarly == \A p \in Period : EndOfSim + 2 * p <= MaxSimTime

(* From now on to a time x to come there are as many ticks as the counts   *)
(* differ by.                                                              *)
LEMMA TicksFromNow ==
  ASSUME TypeOK, Beginning, NEW x \in Int, x >= now
  PROVE  /\ simRunning => ticks + TicksIn(now + 1, x) = Before + TicksTo(x)
         /\ ~simRunning => /\ ticks + TicksIn(now + 1, x) <= TicksTo(x)
                           /\ TicksIn(0, x) = TicksTo(x)
<1>1. /\ now \in Nat /\ ticks \in Nat /\ Before \in Int /\ mOffset \in Nat
      /\ TicksTo(x) \in Nat /\ TicksTo(now) \in Nat
  BY GridTypes
<1>2. TicksIn(now + 1, x) = TicksTo(x) - TicksTo(now)
  <2>1. now + 1 \in Int /\ now + 1 <= x + 1 /\ (now + 1) - 1 = now
    BY <1>1
  <2> QED BY <2>1, TicksInterval
<1>3. ~simRunning => TicksIn(0, x) = TicksTo(x)
  <2>1. 0 <= x + 1
    BY <1>1
  <2>2. TicksIn(0, x) = TicksTo(x) - TicksTo(0 - 1)
    BY <2>1, TicksInterval
  <2>3. TicksTo(0 - 1) = 0
    BY <1>1 DEF TicksTo
  <2> QED BY <1>1, <2>2, <2>3
<1> QED BY <1>1, <1>2, <1>3, Counted

(* Every node is for a tick at or after the present time.                  *)
LEMMA NodesToCome ==
  ASSUME IndInv, GridInv, NEW u \in DOMAIN mNodes, mRunning
  PROVE  /\ u \in Nat /\ u > Before
         /\ TimeOf(u) \in Nat /\ TimeOf(u) >= now
<1>1. TypeOK /\ Phases /\ Beginning /\ RequestsAhead /\ TickInProgress
  BY DEF IndInv, GridInv
<1>2. /\ u \in Nat /\ now \in Nat /\ ticks \in Nat /\ Before \in Int
      /\ TicksTo(now) \in Nat
  BY <1>1, GridTypes DEF TypeOK
<1>3. CASE u > ticks
  BY <1>1, <1>2, <1>3, StillToCome, Counted
<1>4. CASE u = ticks /\ methodRunnable
  <2>1. IsTickTime(now) /\ simRunning
    BY <1>1, <1>4 DEF TickInProgress, Phases
  <2>2. TicksTo(now) >= 1 /\ now = TimeOf(Before + TicksTo(now))
    BY <1>1, <1>2, <2>1, TickTimeHasTick
  <2>3. ticks = Before + TicksTo(now)
    BY <1>1, <2>1, Counted
  <2> QED BY <1>2, <1>4, <2>2, <2>3
<1> QED BY <1>1, <1>3, <1>4 DEF RequestsAhead

LEMMA TriggersAreOnTime ==
  ASSUME IndInv, GridInv, StopsEarly
  PROVE  TriggersOnTime
<1>1. TypeOK /\ Beginning /\ TriggersOnGrid
  BY DEF IndInv, GridInv
<1>2. /\ now \in Nat /\ ticks \in Nat /\ Before \in Int /\ MaxSimTime \in Nat
      /\ mPeriod \in Nat \ {0}
  BY <1>1, GridTypes, ConstantsAssumption
<1> SUFFICES ASSUME NEW t \in DOMAIN mNodes
             PROVE  LET x == mNodes[t].mEvent
                    IN  IF x = Never
                        THEN mNodes[t].mTickTrigger =>
                                ticks + TicksIn(now + 1, MaxSimTime - 2 * mPeriod) < t
                        ELSE /\ x \in now .. MaxSimTime
                             /\ mNodes[t].mTickTrigger
                             /\ IsTickTime(x)
                             /\ IF simRunning THEN t = ticks + TicksIn(now + 1, x)
                                              ELSE t = TicksIn(0, x)
  BY Zenon DEF TriggersOnTime
<1> DEFINE x == mNodes[t].mEvent
<1>3. ASSUME mNodes[t].mTickTrigger
      PROVE  mRunning /\ EventOf(t, x)
  BY <1>1, <1>3 DEF TriggersOnGrid, OnGrid
<1>4. ASSUME x = Never, mNodes[t].mTickTrigger
      PROVE  ticks + TicksIn(now + 1, MaxSimTime - 2 * mPeriod) < t
  <2> DEFINE e == MaxSimTime - 2 * mPeriod
  <2>1. mRunning /\ TimeOf(t) > e
    BY <1>3, <1>4 DEF EventOf, Never, Time
  <2>2. e \in Int /\ e >= now
    <3>1. mPeriod \in Period /\ now <= EndOfSim
      BY <1>1 DEF TypeOK, Beginning
    <3>2. EndOfSim + 2 * mPeriod <= MaxSimTime /\ EndOfSim \in Int
      BY <3>1, ConstantsAssumption DEF StopsEarly
    <3> QED BY <1>2, <3>1, <3>2
  <2>3. t \in Nat /\ t > Before /\ TimeOf(t) \in Nat
    BY <2>1, NodesToCome
  <2>4. TicksTo(e) \in Nat /\ TicksIn(now + 1, e) = TicksTo(e) - TicksTo(now)
        /\ TicksTo(now) \in Nat
    <3>1. now + 1 \in Int /\ now + 1 <= e + 1 /\ (now + 1) - 1 = now
      BY <1>2, <2>2
    <3> HIDE DEF e
    <3>2. TicksIn(now + 1, e) = TicksTo(e) - TicksTo(now)
      BY <1>1, <2>2, <3>1, TicksInterval
    <3> QED BY <1>1, <1>2, <2>2, <3>2, GridTypes
  <2> HIDE DEF e
  <2>5. ~(t <= Before + TicksTo(e))
    BY <1>1, <2>1, <2>2, <2>3, TickOrder
  <2>6. ticks + TicksIn(now + 1, e) <= Before + TicksTo(e)
    BY <1>1, <1>2, <2>2, <2>4, TicksFromNow, Counted
  <2>7. ticks + TicksIn(now + 1, e) < t
    BY <1>2, <2>3, <2>4, <2>5, <2>6
  <2> QED BY <2>7 DEF e
<1>5. ASSUME x # Never
      PROVE  /\ x \in now .. MaxSimTime
             /\ mNodes[t].mTickTrigger
             /\ IsTickTime(x)
             /\ IF simRunning THEN t = ticks + TicksIn(now + 1, x)
                              ELSE t = TicksIn(0, x)
  <2>1. mNodes[t].mTickTrigger
    BY <1>1, <1>5 DEF TriggersOnGrid, OnGrid
  <2>2. mRunning /\ x = TimeOf(t) /\ x <= MaxSimTime
    BY <1>3, <1>5, <2>1 DEF EventOf, Time
  <2>3. t \in Nat /\ t > Before /\ TimeOf(t) \in Nat /\ TimeOf(t) >= now
    BY <2>2, NodesToCome
  <2>4. IsTickTime(x) /\ TicksTo(x) = t - Before
    BY <1>1, <2>2, <2>3, TicksHaveTimes
  <2> HIDE DEF x
  <2>5. x \in Int /\ x >= now /\ x \in now .. MaxSimTime
    BY <1>2, <2>2, <2>3
  <2>6. simRunning => ticks + TicksIn(now + 1, x) = t
    BY <1>1, <1>2, <2>3, <2>4, <2>5, TicksFromNow
  <2>7. ~simRunning => TicksIn(0, x) = t
    BY <1>1, <1>2, <2>3, <2>4, <2>5, TicksFromNow, Counted
  <2> QED BY <2>1, <2>4, <2>5, <2>6, <2>7
<1>6. CASE x = Never
  BY <1>4, <1>6
<1>7. CASE x # Never
  BY <1>5, <1>7
<1> HIDE DEF x
<1> QED BY <1>6, <1>7 DEF x

LEMMA TicksAreExact ==
  ASSUME IndInv, GridInv
  PROVE  TicksExact
<1> SUFFICES ASSUME exists, simRunning
             PROVE  /\ GetTickCount = ticks
                    /\ mRunning =>
                         /\ CheckAtTick <=> IsTickTime(now)
                         /\ \A d \in 0 .. MaxDelay :
                               /\ GetTickCountAfter(d) = ticks + TicksIn(now + 1, now + d)
                               /\ LET next == GetNextTickData(d)
                                  IN  /\ IsTickTime(next.time) /\ next.time > now + d
                                      /\ next.count = ticks + TicksIn(now + 1, next.time)
                         /\ \A k \in 0 .. MaxSkip :
                               /\ IsTickTime(GetTickTime(k))
                               /\ TicksIn(now + 1, GetTickTime(k)) = k + 1
  BY DEF TicksExact
<1>1. TypeOK /\ CacheInPast /\ Beginning /\ CacheOnGrid
  BY DEF IndInv, GridInv
<1>2. /\ now \in Nat /\ ticks \in Nat /\ Before \in Int /\ mOffset \in Nat
      /\ TicksTo(now) \in Nat /\ mPeriod \in Nat \ {0}
      /\ ticks = Before + TicksTo(now) /\ TimeOf(ticks) \in Int
  BY <1>1, GridTypes, Counted
<1>3. /\ PrevTick.count = ticks
      /\ mRunning => PrevTick.time = TimeOf(ticks)
      /\ mLastTickTime # Invalid \/ Ticking =>
            mRunning /\ mOffset <= TimeOf(ticks) /\ TimeOf(ticks) <= now
  BY <1>1, PrevTickIsCounted
<1>4. GetTickCount = ticks
  BY <1>3 DEF GetTickCount
<1>5. ASSUME mRunning
      PROVE  CheckAtTick <=> IsTickTime(now)
  <2>1. CASE mLastTickTime # Invalid
    <3>1. CheckAtTick <=> TimeOf(ticks) = now
      BY <1>3, <1>5, <2>1 DEF CheckAtTick, PrevTick
    <3>2. IsTickTime(now) => TimeOf(ticks) = now
      BY <1>1, <1>2, TickTimeHasTick
    <3>3. ticks > Before
      <4>1. now >= mOffset
        BY <1>2, <1>3, <2>1
      <4>2. TicksTo(now) >= 1
        BY <1>1, <1>2, <1>5, <4>1, LatestTick
      <4> QED BY <1>2, <4>2
    <3>4. IsTickTime(TimeOf(ticks))
      BY <1>1, <1>2, <1>5, <3>3, TicksHaveTimes
    <3> QED BY <3>1, <3>2, <3>4
  <2>2. CASE mLastTickTime = Invalid
    BY <1>5, <2>2 DEF CheckAtTick, Ticking, IsTickTime
  <2> QED BY <2>1, <2>2
<1>6. ASSUME mRunning, NEW d \in 0 .. MaxDelay
      PROVE  /\ GetTickCountAfter(d) = ticks + TicksIn(now + 1, now + d)
             /\ IsTickTime(GetNextTickData(d).time)
             /\ GetNextTickData(d).time > now + d
             /\ GetNextTickData(d).count
                   = ticks + TicksIn(now + 1, GetNextTickData(d).time)
  <2> DEFINE x == now + d
             c == Before + TicksTo(x)
  <2>1. d \in Nat /\ x \in Int /\ x >= now /\ TicksTo(x) \in Nat
    BY <1>1, <1>2, ConstantsAssumption, GridTypes
  <2>2. PrevTickAfter(d).count = c /\ PrevTickAfter(d).time = TimeOf(c)
    BY <1>1, <1>6, <2>1, PrevTickAfterIsCounted
  <2>3. ticks + TicksIn(now + 1, x) = c
    BY <1>1, <2>1, TicksFromNow
  <2>4. c \in Int /\ c + 1 \in Int /\ c + 1 > Before /\ ~(c + 1 <= c)
        /\ TimeOf(c) \in Int /\ TimeOf(c + 1) \in Int
    BY <1>1, <1>2, <2>1, GridTypes
  <2>5. c = Before + TicksTo(x)
    OBVIOUS
  <2> HIDE DEF c
  <2>6. TimeOf(c + 1) = TimeOf(c) + mPeriod
    <3>1. TimeOf(c + 1) = TimeOf(c) + 1 * mPeriod
      BY <1>1, <2>4, LaterTick
    <3> QED BY <1>2, <2>4, <3>1
  <2>7. GetNextTickData(d).count = c + 1 /\ GetNextTickData(d).time = TimeOf(c + 1)
    BY <2>2, <2>6 DEF GetNextTickData
  <2>8. TimeOf(c + 1) > x
    BY <1>1, <1>6, <2>1, <2>4, <2>5, TickOrder
  <2>9. IsTickTime(TimeOf(c + 1)) /\ TicksTo(TimeOf(c + 1)) = (c + 1) - Before
    BY <1>1, <1>6, <2>4, TicksHaveTimes
  <2>10. TimeOf(c + 1) >= now
    BY <1>2, <2>1, <2>4, <2>8
  <2>11. ticks + TicksIn(now + 1, TimeOf(c + 1)) = Before + TicksTo(TimeOf(c + 1))
    BY <1>1, <2>4, <2>10, TicksFromNow
  <2>12. ticks + TicksIn(now + 1, TimeOf(c + 1)) = c + 1
    BY <1>2, <2>4, <2>9, <2>11
  <2> QED BY <2>2, <2>3, <2>7, <2>8, <2>9, <2>12 DEF GetTickCountAfter
<1>7. ASSUME mRunning, NEW k \in 0 .. MaxSkip
      PROVE  /\ IsTickTime(GetTickTime(k))
             /\ TicksIn(now + 1, GetTickTime(k)) = k + 1
  <2> DEFINE c == ticks + (k + 1)
  <2>1. k \in Nat /\ k + 1 \in Int /\ c \in Int /\ c > ticks /\ c > Before
    BY <1>1, <1>2, ConstantsAssumption
  <2>2. TimeOf(c) = TimeOf(ticks) + (k + 1) * mPeriod /\ (k + 1) * mPeriod \in Int
    BY <1>1, <1>2, <2>1, LaterTick
  <2>3. GetTickTime(k) = TimeOf(c)
    <3>1. CASE mLastTickTime # Invalid \/ Ticking
      BY <1>3, <1>7, <2>2, <3>1 DEF GetTickTime, PrevTick
    <3>2. CASE ~(mLastTickTime # Invalid \/ Ticking)
      <4>1. GetTickTime(k) = mOffset + k * mPeriod
        BY <1>7, <3>2 DEF GetTickTime
      <4>2. TicksTo(now) = 0
        BY <3>2 DEF TicksTo, Ticking
      <4>3. ticks = Before /\ TimeOf(ticks) = mOffset - mPeriod
        BY <1>1, <1>2, <4>2, FirstTick
      <4>4. (k + 1) * mPeriod = k * mPeriod + mPeriod /\ k * mPeriod \in Int
        BY <1>2, <2>1
      <4> HIDE DEF c
      <4> QED BY <1>2, <2>2, <4>1, <4>3, <4>4
    <3> QED BY <3>1, <3>2
  <2> HIDE DEF c
  <2>4. TimeOf(c) \in Nat /\ TimeOf(c) >= now
    BY <1>1, <1>7, <2>1, StillToCome
  <2>5. IsTickTime(TimeOf(c)) /\ TicksTo(TimeOf(c)) = c - Before
    BY <1>1, <1>7, <2>1, TicksHaveTimes
  <2>6. ticks + TicksIn(now + 1, TimeOf(c)) = Before + TicksTo(TimeOf(c))
    BY <1>1, <2>4, TicksFromNow
  <2>7. TicksIn(now + 1, TimeOf(c)) = TicksTo(TimeOf(c)) - TicksTo(now)
    <3>1. now + 1 \in Int /\ now + 1 <= TimeOf(c) + 1 /\ (now + 1) - 1 = now
      BY <1>2, <2>4
    <3> QED BY <1>1, <2>4, <3>1, TicksInterval
  <2>8. c - Before = TicksTo(now) + (k + 1)
    BY <1>2, <2>1 DEF c
  <2>9. TicksIn(now + 1, TimeOf(c)) = k + 1
    BY <1>2, <2>1, <2>5, <2>7, <2>8
  <2> QED BY <2>3, <2>5, <2>9
<1> QED BY <1>4, <1>5, <1>6, <1>7

-----------------------------------------------------------------------------
(* The triggers of the nodes                                               *)

(* A tick at time e or, when e is at the end of time, never: what the      *)
(* constructor of a TickTrigger makes of delta periods after time s.       *)
LEMMA EventTimeFacts ==
  ASSUME NEW p \in Nat \ {0}, NEW delta \in Int, NEW s \in Int,
         NEW e \in Nat, e = s + delta * p, s >= -p
  PROVE  \/ EventTime(p, delta, e) = e /\ e \in Time
         \/ EventTime(p, delta, e) = Never /\ e > MaxSimTime - 2 * p
<1> DEFINE M == MaxSimTime
           q == M \div p
<1>1. M \in Nat /\ q \in Int
  BY ConstantsAssumption
<1>2. CASE delta < q /\ e <= M
  BY <1>1, <1>2 DEF EventTime, Time
<1>3. CASE ~(e <= M)
  <2>1. 2 * p \in Nat
    OBVIOUS
  <2>2. e > M - 2 * p
    BY <1>1, <1>3, <2>1
  <2> QED BY <1>3, <2>2 DEF EventTime
<1>4. CASE ~(delta < q)
  <2>1. EventTime(p, delta, e) = Never
    BY <1>4 DEF EventTime
  <2>2. ~((q + 1) * p <= M)
    <3>1. (q + 1) * p <= M <=> q + 1 <= q
      BY <1>1, PeriodsIn
    <3> QED BY <1>1, <3>1
  <2> HIDE DEF q
  <2>3. PICK d \in Nat : delta = q + d
    BY <1>1, <1>4
  <2>4. delta * p = q * p + d * p /\ d * p >= 0
    BY <1>1, <2>3
  <2>5. (q + 1) * p = q * p + p /\ q * p \in Int
    BY <1>1
  <2>6. delta * p \in Int /\ d * p \in Int
    BY <2>3
  <2>7. delta * p > M - p
    BY <1>1, <2>2, <2>4, <2>5, <2>6
  <2>8. e > M - 2 * p
    BY <1>1, <2>6, <2>7
  <2> QED BY <2>1, <2>8
<1> QED BY <1>2, <1>3, <1>4

(* An event computed from a tick of the parameters is at the time of its   *)
(* own.                                                                    *)
LEMMA ComputedEvent ==
  ASSUME TypeOK, NEW c \in Int, NEW u \in Int, TimeOf(u) \in Nat,
         TimeOf(c) >= -mPeriod
  PROVE  EventOf(u, EventTime(mPeriod, u - c, TimeOf(c) + (u - c) * mPeriod))
<1> DEFINE delta == u - c
           s == TimeOf(c)
           e == TimeOf(u)
<1>1. mPeriod \in Nat \ {0} /\ s \in Int /\ delta \in Int /\ c + delta = u
  BY GridTypes
<1>2. e = s + delta * mPeriod
  BY <1>1, LaterTick
<1> HIDE DEF delta, s, e
<1>3. \/ EventTime(mPeriod, delta, e) = e /\ e \in Time
      \/ EventTime(mPeriod, delta, e) = Never /\ e > MaxSimTime - 2 * mPeriod
  <2>1. e \in Nat /\ s >= -mPeriod
    BY DEF e, s
  <2> QED BY <1>1, <1>2, <2>1, EventTimeFacts
<1>4. EventOf(u, EventTime(mPeriod, delta, e))
  BY <1>3 DEF EventOf, e
<1> QED BY <1>2, <1>4 DEF delta, s, e

LEMMA ArmRootOnGrid ==
  ASSUME TypeOK, Beginning, mRunning,
         NEW nodes, NodesOK(nodes), DOMAIN nodes # {}, OnGrid(nodes),
         TimeOf(Root(nodes)) \in Nat,
         NEW last, last.count = ticks, last.time = TimeOf(ticks)
  PROVE  OnGrid(ArmRoot(nodes, last, mPeriod))
<1> DEFINE root  == Root(nodes)
           event == EventTime(mPeriod, root - last.count,
                              last.time + (root - last.count) * mPeriod)
           armed == [nodes EXCEPT ![root] = Armed(nodes[root].mRequests, event)]
<1>1. ArmRoot(nodes, last, mPeriod) = armed
  BY DEF ArmRoot
<1>2. root \in DOMAIN nodes /\ root \in Int
  BY RootIsFirst DEF NodesOK
<1>3. EventOf(root, event)
  <2>1. event = EventTime(mPeriod, root - ticks,
                          TimeOf(ticks) + (root - ticks) * mPeriod)
    OBVIOUS
  <2>2. ticks \in Int /\ TimeOf(ticks) >= -mPeriod
    BY CountedTime, GridTypes
  <2> HIDE DEF event, root
  <2>3. TimeOf(root) \in Nat
    BY DEF root
  <2> QED BY <1>2, <2>1, <2>2, <2>3, ComputedEvent
<1> HIDE DEF event, root
<1>4. /\ DOMAIN armed = DOMAIN nodes
      /\ \A u \in DOMAIN nodes :
            armed[u] = IF u = root THEN Armed(nodes[root].mRequests, event)
                                   ELSE nodes[u]
  BY <1>2
<1> HIDE DEF armed
<1>5. OnGrid(armed)
  BY <1>3, <1>4 DEF OnGrid, Armed
<1> QED BY <1>1, <1>5

LEMMA UnlinkedOnGrid ==
  ASSUME TypeOK, NEW m \in Module, OnGrid(mNodes), mScheduledTick[m] \in DOMAIN mNodes
  PROVE  OnGrid(Unlinked(m))
<1> DEFINE t    == mScheduledTick[m]
           left == mNodes[t].mRequests \ {m}
<1>1. CASE left = {}
  <2>1. Unlinked(m) = [u \in DOMAIN mNodes \ {t} |-> mNodes[u]]
    BY <1>1 DEF Unlinked
  <2> QED BY <2>1 DEF OnGrid
<1>2. CASE left # {}
  <2>1. Unlinked(m) = [mNodes EXCEPT ![t].mRequests = left]
    BY <1>2 DEF Unlinked
  <2>2. mNodes[t] \in TimeNode
    BY DEF TypeOK
  <2>3. /\ DOMAIN Unlinked(m) = DOMAIN mNodes
        /\ \A u \in DOMAIN mNodes :
              /\ Unlinked(m)[u].mTickTrigger = mNodes[u].mTickTrigger
              /\ Unlinked(m)[u].mEvent = mNodes[u].mEvent
    BY <2>1, <2>2 DEF TimeNode
  <2> QED BY <2>3 DEF OnGrid
<1> QED BY <1>1, <1>2

LEMMA NodesWithoutOnGrid ==
  ASSUME IndInv, GridInv, exists, NEW m \in Module,
         mScheduledTick[m] \in DOMAIN mNodes,
         m \in mNodes[mScheduledTick[m]].mRequests
  PROVE  OnGrid(NodesWithout(m))
<1>1. TypeOK /\ CacheInPast /\ Beginning /\ CacheOnGrid /\ OnGrid(mNodes)
  BY DEF IndInv, GridInv, TriggersOnGrid, OnGrid
<1>2. OnGrid(Unlinked(m))
  BY <1>1, UnlinkedOnGrid
<1>3. NodesOK(Unlinked(m)) /\ DOMAIN Unlinked(m) \subseteq DOMAIN mNodes
  BY <1>1, UnlinkedFacts
<1>4. CASE CancelArms(m)
  <2>1. mRunning /\ DOMAIN Unlinked(m) # {}
    BY <1>4 DEF CancelArms, Armable, NeedsTrigger
  <2>2. Root(Unlinked(m)) \in DOMAIN mNodes
    BY <1>3, <2>1, RootIsFirst
  <2>3. TimeOf(Root(Unlinked(m))) \in Nat
    BY <2>1, <2>2, NodesToCome
  <2>4. PrevTick.count = ticks /\ PrevTick.time = TimeOf(ticks)
    BY <1>1, <2>1, PrevTickIsCounted
  <2>5. NodesWithout(m) = ArmRoot(Unlinked(m), PrevTick, mPeriod)
    BY <1>4 DEF NodesWithout
  <2> HIDE DEF PrevTick
  <2> QED BY <1>1, <1>2, <1>3, <2>1, <2>3, <2>4, <2>5, ArmRootOnGrid
<1>5. CASE ~CancelArms(m)
  BY <1>2, <1>5 DEF NodesWithout
<1> QED BY <1>4, <1>5

LEMMA NodesWithOnGrid ==
  ASSUME NEW nodes, NodesOK(nodes), OnGrid(nodes), NEW m \in Module, NEW t \in Nat,
         NEW event, mRunning => EventOf(t, event)
  PROVE  OnGrid(NodesWith(nodes, m, t, event))
<1> DEFINE isFirst == \A u \in DOMAIN nodes : t < u
           new == IF Armable /\ isFirst THEN Armed({m}, event) ELSE Unarmed({m})
           result == NodesWith(nodes, m, t, event)
<1>1. CASE t \in DOMAIN nodes
  <2>1. result = [nodes EXCEPT ![t].mRequests = @ \cup {m}]
    BY <1>1 DEF NodesWith
  <2>2. nodes[t] \in TimeNode
    BY <1>1 DEF NodesOK
  <2>3. /\ DOMAIN result = DOMAIN nodes
        /\ \A u \in DOMAIN nodes :
              /\ result[u].mTickTrigger = nodes[u].mTickTrigger
              /\ result[u].mEvent = nodes[u].mEvent
    BY <2>1, <2>2 DEF TimeNode
  <2> HIDE DEF result
  <2>4. OnGrid(result)
    BY <2>3 DEF OnGrid
  <2> QED BY <2>4 DEF result
<1>2. CASE t \notin DOMAIN nodes
  <2>1. result = [u \in DOMAIN nodes \cup {t} |-> IF u = t THEN new ELSE nodes[u]]
    BY <1>2 DEF NodesWith
  <2>2. IF new.mTickTrigger THEN mRunning /\ EventOf(t, new.mEvent)
                            ELSE new.mEvent = Never
    <3>1. CASE Armable /\ isFirst
      BY <3>1 DEF Armed, Armable
    <3>2. CASE ~(Armable /\ isFirst)
      BY <3>2 DEF Unarmed
    <3> QED BY <3>1, <3>2
  <2> HIDE DEF new, result
  <2>3. /\ DOMAIN result = DOMAIN nodes \cup {t}
        /\ result[t] = new
        /\ \A u \in DOMAIN nodes : result[u] = nodes[u]
    BY <1>2, <2>1
  <2>4. OnGrid(result)
    BY <2>2, <2>3 DEF OnGrid
  <2> QED BY <2>4 DEF result
<1> QED BY <1>1, <1>2

-----------------------------------------------------------------------------
(* The steps and the grid                                                  *)

(* While the parameters stay, so does the time of every tick.              *)
LEMMA SameGrid ==
  ASSUME UNCHANGED <<mPeriod, mOffset, mRunning>>, Before' = Before
  PROVE  /\ \A c : TimeOf(c)' = TimeOf(c)
         /\ \A x : IsTickTime(x)' <=> IsTickTime(x)
         /\ OnGrid(mNodes') => TriggersOnGrid'
<1>1. ASSUME NEW c PROVE TimeOf(c)' = TimeOf(c)
  BY DEF TimeOf
<1>2. ASSUME NEW x PROVE IsTickTime(x)' <=> IsTickTime(x)
  BY DEF IsTickTime
<1>3. ASSUME NEW u, NEW x PROVE EventOf(u, x)' <=> EventOf(u, x)
  BY <1>1 DEF EventOf
<1>4. ASSUME OnGrid(mNodes') PROVE TriggersOnGrid'
  BY <1>3, <1>4 DEF OnGrid, TriggersOnGrid
<1> QED BY <1>1, <1>2, <1>4

LEMMA SameBefore ==
  ASSUME UNCHANGED <<now, simRunning, mPeriod, mOffset, mRunning, ticks>>
  PROVE  Before' = Before
BY DEF Before, TicksTo

(* Filling the cache puts a tick of the parameters into it.                *)
LEMMA CacheStaysOnGrid ==
  ASSUME TypeOK, CacheInPast, CacheOnGrid, Beginning, exists,
         UNCHANGED <<now, simRunning, mPeriod, mOffset, mRunning, ticks,
                     exists, reconfigured>>,
         RefreshCache \/ FillCache \/ UNCHANGED cache
  PROVE  CacheOnGrid'
<1>1. Before' = Before
  BY SameBefore
<1>2. \A c : TimeOf(c)' = TimeOf(c)
  BY <1>1, SameGrid
<1>3. CASE UNCHANGED cache
  BY <1>1, <1>2, <1>3 DEF CacheOnGrid, cache
<1>4. CASE RefreshCache /\ (mLastTickTime # Invalid \/ Ticking)
  <2>1. mLastTickCount' = PrevTick.count /\ mLastTickTime' = PrevTick.time
    BY <1>4 DEF RefreshCache
  <2>2. /\ PrevTick.count = ticks /\ PrevTick.time = TimeOf(ticks)
        /\ mRunning /\ simRunning /\ mOffset <= TimeOf(ticks)
    BY <1>4, PrevTickIsCounted
  <2>3. TimeOf(ticks) # Invalid
    BY <2>2, GridTypes DEF Invalid
  <2> QED BY <1>2, <2>1, <2>2, <2>3 DEF CacheOnGrid
<1>5. CASE RefreshCache /\ ~(mLastTickTime # Invalid \/ Ticking)
  BY <1>3, <1>5 DEF RefreshCache
<1>6. CASE FillCache
  BY <1>3, <1>4, <1>5, <1>6 DEF FillCache
<1> QED BY <1>3, <1>4, <1>5, <1>6

LEMMA RequestOnGrid ==
  ASSUME IndInv, GridInv, exists, NEW m \in Module, NEW t \in Nat, t > ticks,
         NEW event, mRunning => EventOf(t, event),
         RequestTriggerImpl(m, t, event),
         UNCHANGED <<kernel, parameters, existence, processing, ticks>>
  PROVE  TriggersOnGrid' /\ RequestsAhead' /\ TickInProgress'
<1>1. /\ TypeOK /\ OnGrid(mNodes) /\ RequestsAhead /\ TickInProgress /\ NodesOK(mNodes)
      /\ ticks \in Nat
  BY DEF IndInv, GridInv, TriggersOnGrid, OnGrid, TypeOK, NodesOK
<1>2. /\ Before' = Before
      /\ UNCHANGED <<mPeriod, mOffset, mRunning, now, methodRunnable, ticks,
                     mProcessingTickCount>>
  BY SameBefore DEF kernel, parameters, processing
<1>3. /\ OnGrid(mNodes') => TriggersOnGrid'
      /\ IsTickTime(now)' <=> IsTickTime(now)
  BY <1>2, SameGrid DEF IsTickTime
<1> DEFINE pending == mScheduledTick[m] # NotScheduled
           old     == IF pending THEN NodesWithout(m) ELSE mNodes
<1>4. CASE pending /\ t >= mScheduledTick[m]
  <2>1. mNodes' = mNodes
    BY <1>4 DEF RequestTriggerImpl, requests
  <2> QED BY <1>1, <1>2, <1>3, <2>1 DEF RequestsAhead, TickInProgress
<1>5. CASE ~(pending /\ t >= mScheduledTick[m])
  <2>1. mNodes' = NodesWith(old, m, t, event)
    BY <1>5 DEF RequestTriggerImpl
  <2>2. /\ NodesOK(old) /\ OnGrid(old) /\ DOMAIN old \subseteq DOMAIN mNodes
        /\ ticks \in DOMAIN mNodes => ticks \in DOMAIN old
    <3>1. CASE pending
      <4>1. mScheduledTick[m] > ticks /\ mScheduledTick[m] \in Int
        BY <1>1, <1>5, <3>1 DEF TypeOK, NotScheduled
      <4>2. mScheduledTick[m] # mProcessingTickCount
        BY <1>1, <3>1, <4>1 DEF TickInProgress, NotScheduled, NotProcessing
      <4>3. /\ mScheduledTick[m] \in DOMAIN mNodes
            /\ m \in mNodes[mScheduledTick[m]].mRequests
        BY <3>1, <4>2, WaitingIsLinked
      <4>4. /\ NodesOK(NodesWithout(m))
            /\ DOMAIN NodesWithout(m) = DOMAIN Unlinked(m)
        BY <4>3, NodesWithoutFacts DEF IndInv
      <4>5. /\ DOMAIN Unlinked(m) \subseteq DOMAIN mNodes
            /\ \A u \in DOMAIN mNodes :
                  u # mScheduledTick[m] => u \in DOMAIN Unlinked(m)
        BY <1>1, <4>3, UnlinkedFacts
      <4>6. ticks # mScheduledTick[m]
        BY <1>1, <4>1
      <4>7. OnGrid(NodesWithout(m))
        BY <4>3, NodesWithoutOnGrid
      <4> QED BY <3>1, <4>4, <4>5, <4>6, <4>7
    <3>2. CASE ~pending
      BY <1>1, <3>2
    <3> QED BY <3>1, <3>2
  <2> HIDE DEF old
  <2>3. OnGrid(NodesWith(old, m, t, event))
    BY <2>2, NodesWithOnGrid
  <2>4. DOMAIN NodesWith(old, m, t, event) = DOMAIN old \cup {t}
    BY DEF NodesWith
  <2>5. \A u \in DOMAIN mNodes' : u \in DOMAIN mNodes \/ u = t
    BY <2>1, <2>2, <2>4
  <2>6. RequestsAhead'
    BY <1>1, <1>2, <2>5 DEF RequestsAhead
  <2>7. TickInProgress'
    BY <1>1, <1>2, <1>3, <2>1, <2>2, <2>4 DEF TickInProgress
  <2> QED BY <1>3, <2>1, <2>3, <2>6, <2>7
<1> QED BY <1>4, <1>5

(* A cancellation that is not late leaves the node of a method to run.     *)
LEMMA CancelOnGrid ==
  ASSUME IndInv, GridInv, ~LateCancel, NEW m \in Module, CancelTrigger(m)
  PROVE  TriggersOnGrid' /\ RequestsAhead' /\ TickInProgress'
<1>1. /\ TypeOK /\ OnGrid(mNodes) /\ RequestsAhead /\ TickInProgress /\ NodesOK(mNodes)
      /\ ticks \in Nat
  BY DEF IndInv, GridInv, TriggersOnGrid, OnGrid, TypeOK, NodesOK
<1>2. /\ exists /\ mNodes' = NodesWithout(m)
      /\ mScheduledTick[m] # NotScheduled /\ mScheduledTick[m] # mProcessingTickCount
      /\ ~IsLate(m)
      /\ UNCHANGED <<now, simRunning, methodRunnable, mPeriod, mOffset, mRunning,
                     mProcessingTickCount, ticks>>
  BY DEF CancelTrigger, kernel, parameters, processing
<1>3. Before' = Before
  BY <1>2, SameBefore
<1>4. /\ OnGrid(mNodes') => TriggersOnGrid'
      /\ IsTickTime(now)' <=> IsTickTime(now)
  BY <1>2, <1>3, SameGrid DEF IsTickTime
<1>5. /\ mScheduledTick[m] \in DOMAIN mNodes
      /\ m \in mNodes[mScheduledTick[m]].mRequests
  BY <1>2, WaitingIsLinked
<1>6. OnGrid(mNodes')
  BY <1>2, <1>5, NodesWithoutOnGrid
<1>7. DOMAIN mNodes' = DOMAIN Unlinked(m)
  BY <1>2, <1>5, NodesWithoutFacts DEF IndInv
<1>8. /\ DOMAIN Unlinked(m) \subseteq DOMAIN mNodes
      /\ \A u \in DOMAIN mNodes :
            u # mScheduledTick[m] => u \in DOMAIN Unlinked(m)
  BY <1>1, <1>5, UnlinkedFacts
<1>9. RequestsAhead'
  BY <1>1, <1>2, <1>7, <1>8 DEF RequestsAhead
<1>10. methodRunnable => ticks \in DOMAIN Unlinked(m)
  <2> SUFFICES ASSUME methodRunnable, ticks = mScheduledTick[m]
               PROVE  ticks \in DOMAIN Unlinked(m)
    BY <1>1, <1>8 DEF TickInProgress
  <2>1. ticks \in DOMAIN mNodes /\ \A u \in DOMAIN mNodes : ticks <= u
    BY <1>1, <1>5 DEF RequestsAhead, NodesOK
  <2>2. Root(mNodes) = ticks
    BY <1>1, <2>1, MinUnique DEF Root, NodesOK
  <2> QED BY <1>2, <2>2 DEF IsLate
<1>11. TickInProgress'
  BY <1>1, <1>2, <1>4, <1>7, <1>10 DEF TickInProgress
<1> QED BY <1>4, <1>6, <1>9, <1>11

LEMMA ModuleStepOnGrid ==
  ASSUME IndInv, GridInv, ~LateCancel, NEW m \in Module, ModuleStep(m)
  PROVE  GridInv'
<1>1. /\ TypeOK /\ CacheInPast /\ Beginning /\ CacheOnGrid
      /\ mPeriod \in Nat \ {0} /\ ticks \in Nat /\ Before \in Int
      /\ now \in Nat
  BY GridTypes DEF IndInv, GridInv
<1>2. ASSUME exists, UNCHANGED <<kernel, parameters, existence, processing, ticks>>,
             RefreshCache \/ FillCache \/ UNCHANGED cache,
             TriggersOnGrid', RequestsAhead', TickInProgress'
      PROVE  GridInv'
  <2>1. Beginning'
    BY <1>1, <1>2 DEF Beginning, kernel
  <2>2. CacheOnGrid'
    BY <1>1, <1>2, CacheStaysOnGrid DEF kernel, parameters, existence
  <2> QED BY <1>2, <2>1, <2>2 DEF GridInv
<1>3. ASSUME NEW skip \in 0 .. MaxSkip, RequestTrigger(m, skip)
      PROVE  GridInv'
  <2> DEFINE t == PrevTick.count + skip + 1
             event == EventTime(mPeriod, skip + 1,
                                PrevTick.time + (skip + 1) * mPeriod)
  <2>1. /\ exists
        /\ RequestTriggerImpl(m, t, event)
        /\ RefreshCache
        /\ UNCHANGED <<kernel, parameters, existence, processing, ticks>>
    BY <1>3 DEF RequestTrigger
  <2>2. /\ PrevTick.count = ticks
        /\ mRunning => PrevTick.time = TimeOf(ticks)
    BY <1>1, <2>1, PrevTickIsCounted
  <2>3. skip \in Nat /\ t \in Nat /\ t > ticks /\ skip + 1 = t - ticks
    BY <1>1, <2>2, ConstantsAssumption
  <2>4. mRunning => EventOf(t, event)
    <3> SUFFICES ASSUME mRunning PROVE EventOf(t, event)
      OBVIOUS
    <3>1. event = EventTime(mPeriod, t - ticks,
                            TimeOf(ticks) + (t - ticks) * mPeriod)
      BY <2>2, <2>3
    <3> HIDE DEF t, event
    <3>2. TimeOf(t) \in Nat /\ TimeOf(ticks) >= -mPeriod
      BY <1>1, <2>3, StillToCome, CountedTime
    <3> QED BY <1>1, <2>3, <3>1, <3>2, ComputedEvent
  <2> HIDE DEF t, event
  <2>5. TriggersOnGrid' /\ RequestsAhead' /\ TickInProgress'
    BY <2>1, <2>3, <2>4, RequestOnGrid
  <2> QED BY <1>2, <2>1, <2>5
<1>4. ASSUME NEW delay \in 0 .. MaxDelay, RequestTriggerAfter(m, delay)
      PROVE  GridInv'
  <2> DEFINE next == GetNextTickData(delay)
             prev == PrevTickAfter(delay)
  <2>1. /\ exists
        /\ next.time <= MaxSimTime
        /\ RequestTriggerImpl(m, next.count, next.time)
        /\ FillCache
        /\ UNCHANGED <<kernel, parameters, existence, processing, ticks>>
    BY <1>4 DEF RequestTriggerAfter
  <2>2. next.count = prev.count + 1 /\ next.time = prev.time + mPeriod
    BY DEF GetNextTickData
  <2>3. delay \in Nat
    BY ConstantsAssumption
  <2>4. /\ mRunning => /\ prev.count = Before + TicksTo(now + delay)
                       /\ prev.time = TimeOf(Before + TicksTo(now + delay))
        /\ prev.count \in Int /\ prev.count >= ticks
    BY <1>1, <2>1, <2>3, PrevTickAfterIsCounted
  <2> HIDE DEF next, prev
  <2>5. next.count \in Nat /\ next.count > ticks
    BY <1>1, <2>2, <2>4
  <2>6. mRunning => EventOf(next.count, next.time)
    <3> SUFFICES ASSUME mRunning PROVE EventOf(next.count, next.time)
      OBVIOUS
    <3>1. prev.time = TimeOf(prev.count)
      BY <2>4
    <3>2. TimeOf(prev.count + 1) = TimeOf(prev.count) + 1 * mPeriod
      BY <1>1, <2>4, LaterTick
    <3>3. next.time = TimeOf(next.count)
      BY <1>1, <2>2, <2>4, <3>1, <3>2
    <3>4. TimeOf(next.count) \in Nat
      BY <1>1, <2>5, StillToCome
    <3> QED BY <2>1, <3>3, <3>4, ConstantsAssumption DEF EventOf, Time
  <2>7. TriggersOnGrid' /\ RequestsAhead' /\ TickInProgress'
    BY <2>1, <2>5, <2>6, RequestOnGrid
  <2> QED BY <1>2, <2>1, <2>7
<1>5. ASSUME CancelTrigger(m)
      PROVE  GridInv'
  <2>1. /\ exists
        /\ RefreshCache \/ UNCHANGED cache
        /\ UNCHANGED <<kernel, parameters, existence, processing, ticks>>
    BY <1>5 DEF CancelTrigger
  <2>2. TriggersOnGrid' /\ RequestsAhead' /\ TickInProgress'
    BY <1>5, CancelOnGrid
  <2> QED BY <1>2, <2>1, <2>2
<1> QED BY <1>3, <1>4, <1>5 DEF ModuleStep

(* The root is the tick that is being signalled.                           *)
LEMMA RunnableRoot ==
  ASSUME IndInv, GridInv, methodRunnable
  PROVE  /\ Root(mNodes) = ticks /\ ticks \in DOMAIN mNodes
         /\ now = TimeOf(ticks) /\ mOffset <= now
         /\ exists /\ simRunning /\ mRunning
<1>1. /\ TypeOK /\ Phases /\ Beginning /\ RequestsAhead /\ TickInProgress
      /\ NodesOK(mNodes)
  BY DEF IndInv, GridInv, TypeOK, NodesOK
<1>2. /\ ticks \in DOMAIN mNodes /\ \A u \in DOMAIN mNodes : ticks <= u
      /\ IsTickTime(now) /\ simRunning
  BY <1>1 DEF RequestsAhead, TickInProgress, NodesOK, Phases
<1>3. Root(mNodes) = ticks
  BY <1>1, <1>2, MinUnique DEF Root, NodesOK
<1>4. exists /\ mRunning /\ mOffset <= now
  BY <1>1, <1>2, GridTypes DEF Phases, IsTickTime
<1>5. now = TimeOf(ticks)
  BY <1>1, <1>2, TickTimeHasTick, Counted, GridTypes
<1> QED BY <1>2, <1>3, <1>4, <1>5

LEMMA HandleOnGrid ==
  ASSUME IndInv, GridInv, NEW m \in Module, HandleTick1Trigger(m)
  PROVE  GridInv'
<1>1. /\ TypeOK /\ OnGrid(mNodes) /\ RequestsAhead /\ Beginning /\ TickInProgress
  BY DEF IndInv, GridInv, TriggersOnGrid, OnGrid
<1>2. /\ Root(mNodes) = ticks /\ ticks \in DOMAIN mNodes
      /\ now = TimeOf(ticks) /\ mOffset <= now
      /\ exists /\ simRunning /\ mRunning
  BY RunnableRoot DEF HandleTick1Trigger
<1>3. /\ methodRunnable /\ methodRunnable' = FALSE
      /\ mLastTickCount' = ticks /\ mLastTickTime' = now
      /\ mProcessingTickCount' = ticks
      /\ mNodes' = [u \in DOMAIN mNodes \ {ticks} |-> mNodes[u]]
      /\ UNCHANGED <<now, simRunning, mPeriod, mOffset, mRunning, exists,
                     reconfigured, ticks>>
  BY <1>2 DEF HandleTick1Trigger, parameters, existence
<1>4. /\ Before' = Before /\ \A c : TimeOf(c)' = TimeOf(c)
      /\ IsTickTime(now)' <=> IsTickTime(now)
      /\ OnGrid(mNodes') => TriggersOnGrid'
  BY <1>3, SameBefore, SameGrid DEF IsTickTime
<1>5. CacheOnGrid'
  BY <1>1, <1>2, <1>3, <1>4, GridTypes DEF CacheOnGrid, Invalid
<1>6. TriggersOnGrid'
  BY <1>1, <1>3, <1>4 DEF OnGrid
<1>7. RequestsAhead'
  BY <1>1, <1>3 DEF RequestsAhead
<1>8. TickInProgress'
  BY <1>1, <1>3, <1>4 DEF TickInProgress
<1>9. Beginning'
  BY <1>1, <1>3 DEF Beginning
<1> QED BY <1>5, <1>6, <1>7, <1>8, <1>9 DEF GridInv

LEMMA FinishOnGrid ==
  ASSUME IndInv, GridInv, FinishTick
  PROVE  GridInv'
<1>1. /\ TypeOK /\ OnGrid(mNodes) /\ RequestsAhead /\ Beginning /\ TickInProgress
      /\ CacheOnGrid /\ NodesOK(mNodes) /\ Phases
  BY DEF IndInv, GridInv, TriggersOnGrid, OnGrid, TypeOK, NodesOK
<1>2. /\ mProcessingTickCount # NotProcessing
      /\ mProcessingTickCount' = NotProcessing
      /\ UNCHANGED <<now, simRunning, methodRunnable, mPeriod, mOffset, mRunning,
                     exists, reconfigured, mLastTickCount, mLastTickTime, ticks>>
  BY DEF FinishTick, kernel, parameters, existence, cache
<1>3. /\ Before' = Before /\ \A c : TimeOf(c)' = TimeOf(c)
      /\ OnGrid(mNodes') => TriggersOnGrid'
  BY <1>2, SameBefore, SameGrid
<1>4. /\ mProcessingTickCount = ticks /\ IsTickTime(now) /\ mRunning
      /\ simRunning /\ ~methodRunnable
  BY <1>1, <1>2 DEF TickInProgress, Phases, IsTickTime
<1>5. now = TimeOf(ticks)
  BY <1>1, <1>4, TickTimeHasTick, Counted, GridTypes
<1>6. OnGrid(mNodes') /\ DOMAIN mNodes' = DOMAIN mNodes
  <2>1. CASE NeedsTrigger(mNodes)
    <3> DEFINE last == [count |-> mProcessingTickCount, time |-> now]
    <3>1. mNodes' = ArmRoot(mNodes, last, mPeriod) /\ DOMAIN mNodes # {}
      BY <2>1 DEF FinishTick, NeedsTrigger
    <3>2. last.count = ticks /\ last.time = TimeOf(ticks)
      BY <1>4, <1>5
    <3>3. Root(mNodes) \in DOMAIN mNodes
      BY <1>1, <3>1, RootIsFirst
    <3>4. TimeOf(Root(mNodes)) \in Nat
      BY <1>4, <3>3, NodesToCome
    <3>5. DOMAIN ArmRoot(mNodes, last, mPeriod) = DOMAIN mNodes
      BY DEF ArmRoot
    <3> HIDE DEF last
    <3>6. OnGrid(ArmRoot(mNodes, last, mPeriod))
      BY <1>1, <1>4, <3>1, <3>2, <3>4, ArmRootOnGrid
    <3> QED BY <3>1, <3>5, <3>6
  <2>2. CASE ~NeedsTrigger(mNodes)
    BY <1>1, <2>2 DEF FinishTick
  <2> QED BY <2>1, <2>2
<1>7. CacheOnGrid' /\ Beginning'
  BY <1>1, <1>2, <1>3 DEF CacheOnGrid, Beginning
<1>8. RequestsAhead' /\ TickInProgress'
  BY <1>1, <1>2, <1>4, <1>6 DEF RequestsAhead, TickInProgress
<1> QED BY <1>3, <1>6, <1>7, <1>8 DEF GridInv

(* The first tick of new parameters is to come, so that all the ticks      *)
(* counted so far are before them, and the count goes on from there.       *)
LEMMA UpdateOnGrid ==
  ASSUME IndInv, GridInv, NEW period \in Period, NEW offset \in Nat,
         NEW running \in BOOLEAN, UpdateParameters(period, offset, running)
  PROVE  GridInv'
<1>1. /\ TypeOK /\ CacheInPast /\ Phases /\ Beginning /\ CacheOnGrid /\ OnGrid(mNodes)
      /\ RequestsAhead /\ TickInProgress /\ NodesOK(mNodes)
      /\ Before \in Int /\ now \in Nat /\ ticks \in Nat /\ TicksTo(now) \in Nat
      /\ period \in Nat \ {0}
  BY GridTypes, ConstantsAssumption
     DEF IndInv, GridInv, TriggersOnGrid, OnGrid, TypeOK, NodesOK
<1>2. /\ ~methodRunnable /\ mProcessingTickCount = NotProcessing
      /\ simRunning => IF running THEN offset > now ELSE offset = now
      /\ mPeriod' = period /\ mOffset' = offset /\ (mRunning' <=> running)
      /\ reconfigured' <=> (~exists /\ (reconfigured \/ simRunning))
      /\ UNCHANGED <<now, simRunning, methodRunnable, mProcessingTickCount, ticks, exists>>
  BY DEF UpdateParameters, kernel, processing
<1>3. \A u \in DOMAIN mNodes : u \in Nat /\ u > ticks
  BY <1>1, <1>2 DEF RequestsAhead, NodesOK
<1>4. Before' = ticks
  <2>1. CASE simRunning
    <3>1. TicksTo(now)' = 0
      BY <1>1, <1>2, <2>1 DEF TicksTo
    <3>2. Before' = ticks' - TicksTo(now)'
      BY <1>2, <2>1 DEF Before
    <3> QED BY <1>1, <1>2, <3>1, <3>2
  <2>2. CASE ~simRunning
    BY <1>1, <1>2, <2>2 DEF Before, Beginning
  <2> QED BY <2>1, <2>2
<1> DEFINE At(c) == offset + (c - ticks - 1) * period
           NewEvent(c, x) == \/ x = At(c) /\ x \in Time
                             \/ x = Never /\ At(c) > MaxSimTime - 2 * period
<1>5. ASSUME NEW c, NEW x PROVE EventOf(c, x)' <=> NewEvent(c, x)
  <2>1. TimeOf(c)' = At(c)
    BY <1>2, <1>4 DEF TimeOf
  <2> HIDE DEF At
  <2> QED BY <1>2, <2>1 DEF EventOf
\* what the engine holds afterwards
<1>6. ASSUME ~mRunning PROVE Before = ticks
  <2>1. TicksTo(now) = 0
    BY <1>6 DEF TicksTo
  <2> QED BY <1>1, <2>1, Counted
<1>7. ASSUME exists PROVE GetTickCount = ticks
  BY <1>1, <1>7, PrevTickIsCounted DEF GetTickCount
<1>8. ASSUME ~exists
      PROVE  CacheOnGrid' /\ TriggersOnGrid' /\ DOMAIN mNodes' = DOMAIN mNodes
  <2>1. UNCHANGED <<cache, mNodes>> /\ DOMAIN mNodes = {}
    BY <1>1, <1>8 DEF UpdateParameters, Phases
  <2>2. ~reconfigured' => ticks = 0
    BY <1>1, <1>2, <1>8 DEF Beginning
  <2>3. CacheOnGrid'
    BY <1>1, <1>2, <1>4, <1>8, <2>1, <2>2 DEF CacheOnGrid, cache
  <2> QED BY <2>1, <2>3 DEF TriggersOnGrid, OnGrid
<1>9. ASSUME mLastTickCount' = ticks, mLastTickTime' = Invalid, exists
      PROVE  CacheOnGrid'
  BY <1>2, <1>4, <1>9 DEF CacheOnGrid
<1>10. ASSUME exists, mLastTickTime = Invalid, Before = ticks, UNCHANGED cache
       PROVE  CacheOnGrid'
  BY <1>1, <1>9, <1>10 DEF CacheOnGrid, cache
<1>11. ASSUME mNodes' = WithoutTriggers(mNodes)
       PROVE  TriggersOnGrid' /\ DOMAIN mNodes' = DOMAIN mNodes
  BY <1>11 DEF TriggersOnGrid, OnGrid, WithoutTriggers, Unarmed
<1>12. ASSUME exists, ~running
       PROVE  CacheOnGrid' /\ TriggersOnGrid' /\ DOMAIN mNodes' = DOMAIN mNodes
  <2>1. Disable
    BY <1>12 DEF UpdateParameters
  <2>2. CASE mRunning
    BY <1>7, <1>9, <1>11, <1>12, <2>1, <2>2 DEF Disable
  <2>3. CASE ~mRunning
    <3>1. UNCHANGED cache /\ mNodes' = mNodes
      BY <2>1, <2>3 DEF Disable
    <3>2. mLastTickTime = Invalid
      BY <1>1, <2>3 DEF CacheOnGrid
    <3>3. CacheOnGrid'
      BY <1>6, <1>10, <1>12, <2>3, <3>1, <3>2
    <3>4. TriggersOnGrid'
      BY <1>1, <2>3, <3>1 DEF TriggersOnGrid, OnGrid
    <3> QED BY <3>1, <3>3, <3>4
  <2> QED BY <2>2, <2>3
<1>13. ASSUME exists, running, mRunning, period = mPeriod, offset = mOffset
       PROVE  CacheOnGrid' /\ TriggersOnGrid' /\ DOMAIN mNodes' = DOMAIN mNodes
  <2>1. RefreshCache /\ mNodes' = mNodes
    BY <1>13 DEF UpdateParameters, Restart
  <2>2. mLastTickTime = Invalid /\ ~Ticking
    BY <1>1, <1>2, <1>13 DEF CacheOnGrid, CacheInPast, Ticking, TypeOK, Invalid
  <2>3. UNCHANGED cache
    BY <2>1, <2>2 DEF RefreshCache
  <2>4. Before = ticks
    <3>1. simRunning => TicksTo(now) = 0
      BY <1>1, <1>2, <1>13 DEF TicksTo
    <3> QED BY <1>1, <3>1, Counted
  <2>5. CacheOnGrid'
    BY <1>10, <1>13, <2>2, <2>3, <2>4
  <2>6. Before' = Before /\ UNCHANGED <<mPeriod, mOffset, mRunning>>
    <3>1. mRunning' = mRunning
      BY <1>13, Zenon DEF UpdateParameters
    <3> QED BY <1>2, <1>4, <1>13, <2>4, <3>1
  <2>7. TriggersOnGrid'
    BY <1>1, <2>1, <2>6, SameGrid
  <2> QED BY <2>1, <2>5, <2>7
<1>14. ASSUME exists, running, ~(mRunning /\ period = mPeriod /\ offset = mOffset)
       PROVE  CacheOnGrid' /\ TriggersOnGrid' /\ DOMAIN mNodes' = DOMAIN mNodes
  <2> DEFINE count == IF mRunning THEN GetTickCount ELSE mLastTickCount
             nodes == WithoutTriggers(mNodes)
             last  == [count |-> count + 1, time |-> offset]
  <2>1. /\ mLastTickCount' = count /\ mLastTickTime' = Invalid
        /\ mNodes' = IF DOMAIN nodes = {} THEN nodes ELSE ArmRoot(nodes, last, period)
    BY <1>14 DEF UpdateParameters, Restart
  <2>2. count = ticks
    BY <1>1, <1>6, <1>7, <1>14 DEF CacheOnGrid
  <2>3. CacheOnGrid'
    BY <1>9, <1>14, <2>1, <2>2
  <2>4. CASE DOMAIN nodes = {}
    BY <1>11, <2>1, <2>3, <2>4
  <2>5. CASE DOMAIN nodes # {}
    <3> DEFINE root  == Root(nodes)
               delta == root - last.count
               e     == last.time + delta * period
               event == EventTime(period, delta, e)
    <3>1. mNodes' = [nodes EXCEPT ![root] = Armed(nodes[root].mRequests, event)]
      BY <2>1, <2>5 DEF ArmRoot
    <3>2. NodesOK(nodes) /\ DOMAIN nodes = DOMAIN mNodes
      BY <1>1, WithoutTriggersFacts
    <3>3. root \in DOMAIN mNodes /\ root \in Nat /\ root > ticks
      BY <1>3, <2>5, <3>2, RootIsFirst
    <3>4. last.count = ticks + 1 /\ last.time = offset
      BY <2>2
    <3>5. delta \in Nat /\ delta = root - ticks - 1
      BY <1>1, <3>3, <3>4
    <3> HIDE DEF last, delta
    <3>6. delta * period \in Nat
      BY <1>1, <3>5
    <3>7. /\ period \in Nat \ {0} /\ delta \in Int /\ offset \in Int
          /\ e \in Nat /\ e = offset + delta * period /\ offset >= -period
      BY <1>1, <3>4, <3>5, <3>6
    <3>8. e = At(root)
      BY <3>5, <3>7
    <3> HIDE DEF e, root, At
    <3>9. NewEvent(root, event)
      BY <3>7, <3>8, EventTimeFacts
    <3> HIDE DEF event
    <3>10. /\ DOMAIN mNodes' = DOMAIN mNodes
           /\ \A u \in DOMAIN mNodes :
                 mNodes'[u] = IF u = root THEN Armed(nodes[root].mRequests, event)
                                          ELSE nodes[u]
      BY <3>1, <3>2
    <3>11. \A u \in DOMAIN mNodes :
              nodes[u].mTickTrigger = FALSE /\ nodes[u].mEvent = Never
      BY DEF WithoutTriggers, Unarmed
    <3> HIDE DEF nodes, last, NewEvent
    <3>12. ASSUME NEW u \in DOMAIN mNodes
           PROVE  IF mNodes'[u].mTickTrigger THEN NewEvent(u, mNodes'[u].mEvent)
                                             ELSE mNodes'[u].mEvent = Never
      <4>1. CASE u = root
        <5>1. mNodes'[u].mTickTrigger = TRUE /\ mNodes'[u].mEvent = event
          BY <3>10, <4>1 DEF Armed
        <5> QED BY <3>9, <4>1, <5>1
      <4>2. CASE u # root
        BY <3>10, <3>11, <4>2
      <4> QED BY <4>1, <4>2
    <3>13. TriggersOnGrid'
      BY <1>2, <1>5, <1>14, <3>10, <3>12 DEF TriggersOnGrid, OnGrid
    <3> QED BY <2>3, <3>10, <3>13
  <2> QED BY <2>4, <2>5
<1>15. CacheOnGrid' /\ TriggersOnGrid' /\ DOMAIN mNodes' = DOMAIN mNodes
  BY <1>8, <1>12, <1>13, <1>14
<1>16. Beginning' /\ RequestsAhead' /\ TickInProgress'
  BY <1>1, <1>2, <1>15 DEF Beginning, RequestsAhead, TickInProgress
<1> QED BY <1>15, <1>16 DEF GridInv

(* A tick that was requested finds its trigger at the root, and a trigger  *)
(* goes off in its own tick only.                                          *)
LEMMA TickMakesRunnable ==
  ASSUME IndInv, GridInv, StopsEarly, ~methodRunnable,
         mProcessingTickCount = NotProcessing,
         NEW x \in Nat, x <= EndOfSim, NEW n \in Nat,
         x = now \/ simRunning,
         IsTickTime(x) => n = ticks + 1 /\ x = TimeOf(n),
         ~IsTickTime(x) => n = ticks
  PROVE  /\ TriggeredAt(x) => IsTickTime(x) /\ n \in DOMAIN mNodes
         /\ \A u \in DOMAIN mNodes : u > n \/ (u = n /\ TriggeredAt(x))
<1>1. /\ TypeOK /\ Beginning /\ TriggersOnGrid /\ RequestsAhead /\ NodesOK(mNodes)
      /\ RootArmed
      /\ ticks \in Nat /\ Before \in Int /\ mPeriod \in Nat \ {0} /\ MaxSimTime \in Nat
  BY GridTypes, ConstantsAssumption DEF IndInv, GridInv, TypeOK, NodesOK
<1>2. \A u \in DOMAIN mNodes : u \in Nat /\ u > ticks
  BY <1>1 DEF RequestsAhead, NodesOK
<1>3. ASSUME TriggeredAt(x)
      PROVE  IsTickTime(x) /\ n \in DOMAIN mNodes
  <2>1. PICK u \in DOMAIN mNodes : mNodes[u].mEvent = x
    BY <1>3 DEF TriggeredAt
  <2>2. mRunning /\ x = TimeOf(u)
    BY <1>1, <2>1 DEF TriggersOnGrid, OnGrid, EventOf, Never
  <2>3. u \in Int /\ u > Before
    BY <1>1, <1>2, Counted
  <2>4. IsTickTime(x)
    BY <1>1, <2>2, <2>3, TicksHaveTimes
  <2>5. TimeOf(u) = TimeOf(n)
    BY <2>2, <2>4
  <2>6. u = n
    <3>1. TimeOf(u) \in Int /\ TimeOf(u) <= TimeOf(n) /\ TimeOf(n) <= TimeOf(u)
      BY <1>1, <2>3, <2>5, GridTypes
    <3>2. u <= n /\ n <= u
      BY <1>1, <2>3, <3>1, TimesIncrease
    <3> QED BY <2>3, <3>2
  <2> QED BY <2>1, <2>4, <2>6
<1>4. ASSUME NEW u \in DOMAIN mNodes
      PROVE  u > n \/ (u = n /\ TriggeredAt(x))
  <2>1. CASE ~IsTickTime(x)
    BY <1>2, <2>1
  <2>2. CASE IsTickTime(x) /\ u # n
    BY <1>1, <1>2, <2>2
  <2>3. CASE IsTickTime(x) /\ u = n
    <3>1. mRunning /\ n = ticks + 1 /\ x = TimeOf(n)
      BY <2>3 DEF IsTickTime
    <3>2. n \in DOMAIN mNodes /\ \A v \in DOMAIN mNodes : n <= v
      BY <1>1, <1>2, <2>3, <3>1
    <3>3. Root(mNodes) = n
      BY <1>1, <3>2, MinUnique DEF Root, NodesOK
    <3>4. mNodes[n].mTickTrigger
      BY <1>1, <3>1, <3>2, <3>3 DEF RootArmed, Armable
    <3>5. EventOf(n, mNodes[n].mEvent)
      BY <1>1, <3>2, <3>4 DEF TriggersOnGrid, OnGrid
    <3>6. EndOfSim + 2 * mPeriod <= MaxSimTime
      BY <1>1 DEF StopsEarly, TypeOK
    <3>7. ~(x > MaxSimTime - 2 * mPeriod)
      <4>1. 2 * mPeriod \in Nat /\ EndOfSim \in Int
        BY <1>1, ConstantsAssumption
      <4> QED BY <1>1, <3>6, <4>1
    <3>8. mNodes[n].mEvent = x
      BY <3>1, <3>5, <3>7 DEF EventOf
    <3> QED BY <2>3, <3>2, <3>8 DEF TriggeredAt
  <2> QED BY <2>1, <2>2, <2>3
<1> QED BY <1>3, <1>4

LEMMA StartOnGrid ==
  ASSUME IndInv, GridInv, StopsEarly, StartSimulation
  PROVE  GridInv'
<1>1. /\ TypeOK /\ Phases /\ Beginning /\ CacheOnGrid /\ OnGrid(mNodes)
      /\ Before \in Int /\ now \in Nat /\ ticks \in Nat /\ mOffset \in Nat
      /\ EndOfSim \in Int
  BY GridTypes, ConstantsAssumption
     DEF IndInv, GridInv, TriggersOnGrid, OnGrid
<1>2. /\ ~simRunning /\ simRunning'
      /\ methodRunnable' <=> TriggeredAt(now)
      /\ ticks' = ticks + (IF IsTickTime(now) THEN 1 ELSE 0)
      /\ UNCHANGED <<now, mPeriod, mOffset, mRunning, exists, reconfigured,
                     mLastTickCount, mLastTickTime, mNodes, mProcessingTickCount>>
  BY DEF StartSimulation, parameters, existence, cache, requests, processing
<1>3. /\ now = 0 /\ ticks = 0 /\ Before = 0
      /\ mProcessingTickCount = NotProcessing /\ ~methodRunnable
  BY <1>1, <1>2, Counted DEF Phases
<1>4. TicksTo(now)' = TicksTo(now)
  BY <1>2 DEF TicksTo
<1>5. TicksTo(now) = IF IsTickTime(now) THEN 1 ELSE 0
  <2>1. TicksTo(now) = TicksTo(now - 1) + (IF IsTickTime(now) THEN 1 ELSE 0)
    BY <1>1, CountingOn
  <2>2. TicksTo(now - 1) = 0
    BY <1>1, <1>3 DEF TicksTo
  <2> QED BY <2>1, <2>2
<1>6. ticks' = TicksTo(now) /\ TicksTo(now) \in Nat
  BY <1>1, <1>2, <1>3, <1>5, GridTypes
<1>7. Before' = Before
  BY <1>2, <1>3, <1>4, <1>6 DEF Before
<1>8. /\ \A c : TimeOf(c)' = TimeOf(c)
      /\ IsTickTime(now)' <=> IsTickTime(now)
      /\ TriggersOnGrid'
  BY <1>1, <1>2, <1>7, SameGrid DEF IsTickTime
<1>9. /\ IsTickTime(now) => ticks' = ticks + 1 /\ now = TimeOf(ticks')
      /\ ~IsTickTime(now) => ticks' = ticks
  <2>1. IsTickTime(now) => now = TimeOf(Before + TicksTo(now))
    BY <1>1, TickTimeHasTick
  <2> QED BY <1>1, <1>2, <1>3, <1>6, <2>1
<1>10. /\ TriggeredAt(now) => IsTickTime(now) /\ ticks' \in DOMAIN mNodes
       /\ \A u \in DOMAIN mNodes : u > ticks' \/ (u = ticks' /\ TriggeredAt(now))
  BY <1>1, <1>3, <1>6, <1>9, TickMakesRunnable DEF Beginning
<1>11. Beginning'
  BY <1>1, <1>2 DEF Beginning
<1>12. CacheOnGrid'
  BY <1>1, <1>2, <1>7, <1>8 DEF CacheOnGrid
<1>13. RequestsAhead' /\ TickInProgress'
  BY <1>2, <1>3, <1>8, <1>10 DEF RequestsAhead, TickInProgress
<1> QED BY <1>8, <1>11, <1>12, <1>13 DEF GridInv

LEMMA AdvanceOnGrid ==
  ASSUME IndInv, GridInv, StopsEarly, AdvanceTime
  PROVE  GridInv'
<1>1. /\ TypeOK /\ Phases /\ Beginning /\ CacheOnGrid /\ OnGrid(mNodes)
      /\ Before \in Int /\ now \in Nat /\ ticks \in Nat /\ mOffset \in Nat
      /\ EndOfSim \in Int
  BY GridTypes, ConstantsAssumption
     DEF IndInv, GridInv, TriggersOnGrid, OnGrid
<1>2. /\ simRunning /\ simRunning' /\ ~methodRunnable
      /\ mProcessingTickCount = NotProcessing
      /\ now < EndOfSim /\ now' = now + 1
      /\ methodRunnable' <=> TriggeredAt(now')
      /\ ticks' = ticks + (IF IsTickTime(now') THEN 1 ELSE 0)
      /\ UNCHANGED <<mPeriod, mOffset, mRunning, exists, reconfigured,
                     mLastTickCount, mLastTickTime, mNodes, mProcessingTickCount>>
  BY DEF AdvanceTime, parameters, existence, cache, requests, processing
<1> DEFINE x == now + 1
<1>3. /\ x \in Nat /\ x <= EndOfSim /\ now' = x /\ x - 1 = now
      /\ TicksTo(x) \in Nat /\ TicksTo(now) \in Nat
  BY <1>1, <1>2, GridTypes
<1>4. TicksTo(x) = TicksTo(now) + (IF IsTickTime(x) THEN 1 ELSE 0)
  BY <1>1, <1>3, CountingOn
<1>5. ticks = Before + TicksTo(now)
  BY <1>1, <1>2, Counted
<1>6. ticks' = Before + TicksTo(x) /\ ticks' \in Nat
  <2>1. CASE IsTickTime(x)
    BY <1>1, <1>2, <1>3, <1>4, <1>5, <2>1
  <2>2. CASE ~IsTickTime(x)
    BY <1>1, <1>2, <1>3, <1>4, <1>5, <2>2
  <2> QED BY <2>1, <2>2
<1>7. Before' = Before
  <2>1. TicksTo(now)' = TicksTo(x)
    BY <1>2 DEF TicksTo
  <2>2. Before' = ticks' - TicksTo(now)'
    BY <1>2 DEF Before
  <2> QED BY <1>1, <1>3, <1>6, <2>1, <2>2
<1>8. /\ \A c : TimeOf(c)' = TimeOf(c)
      /\ IsTickTime(now)' <=> IsTickTime(x)
      /\ TriggersOnGrid'
  BY <1>1, <1>2, <1>7, SameGrid DEF IsTickTime
<1>9. /\ IsTickTime(x) => ticks' = ticks + 1 /\ x = TimeOf(ticks')
      /\ ~IsTickTime(x) => ticks' = ticks
  <2>1. IsTickTime(x) => x = TimeOf(Before + TicksTo(x))
    BY <1>1, <1>3, TickTimeHasTick
  <2> QED BY <1>1, <1>2, <1>3, <1>6, <2>1
<1> HIDE DEF x
<1>10. /\ TriggeredAt(x) => IsTickTime(x) /\ ticks' \in DOMAIN mNodes
       /\ \A u \in DOMAIN mNodes : u > ticks' \/ (u = ticks' /\ TriggeredAt(x))
  BY <1>2, <1>3, <1>6, <1>9, TickMakesRunnable
<1>11. Beginning'
  BY <1>1, <1>2, <1>3 DEF Beginning
<1>12. CacheOnGrid'
  BY <1>1, <1>2, <1>7, <1>8 DEF CacheOnGrid
<1>13. RequestsAhead' /\ TickInProgress'
  BY <1>2, <1>3, <1>8, <1>10 DEF RequestsAhead, TickInProgress
<1> QED BY <1>8, <1>11, <1>12, <1>13 DEF GridInv

LEMMA InitOnGrid ==
  ASSUME Init
  PROVE  GridInv
<1>1. DOMAIN mNodes = {}
  <2>1. mNodes = [u \in {} |-> {}]
    BY DEF Init
  <2> QED BY <2>1
<1>2. Before = 0 /\ Beginning
  BY ConstantsAssumption DEF Init, Before, Beginning
<1>3. CacheOnGrid
  BY <1>2 DEF Init, CacheOnGrid
<1>4. TriggersOnGrid /\ RequestsAhead /\ TickInProgress
  BY <1>1 DEF Init, TriggersOnGrid, OnGrid, RequestsAhead, TickInProgress
<1> QED BY <1>2, <1>3, <1>4 DEF GridInv

(* A step that changes nothing but the cache, the calls and which modules  *)
(* wait.                                                                   *)
LEMMA QuietOnGrid ==
  ASSUME IndInv, GridInv, exists,
         UNCHANGED <<kernel, parameters, existence, mNodes, mProcessingTickCount, ticks>>,
         RefreshCache \/ FillCache \/ UNCHANGED cache
  PROVE  GridInv'
<1>1. /\ TypeOK /\ CacheInPast /\ Beginning /\ CacheOnGrid /\ OnGrid(mNodes)
      /\ RequestsAhead /\ TickInProgress
  BY DEF IndInv, GridInv, TriggersOnGrid, OnGrid
<1>2. UNCHANGED <<now, simRunning, methodRunnable, mPeriod, mOffset, mRunning, exists,
                  reconfigured, mNodes, mProcessingTickCount, ticks>>
  BY DEF kernel, parameters, existence
<1>3. CacheOnGrid'
  BY <1>1, <1>2, CacheStaysOnGrid
<1>4. Before' = Before
  BY <1>2, SameBefore
<1>5. TriggersOnGrid' /\ (IsTickTime(now)' <=> IsTickTime(now))
  BY <1>1, <1>2, <1>4, SameGrid DEF IsTickTime
<1>6. Beginning' /\ RequestsAhead' /\ TickInProgress'
  BY <1>1, <1>2, <1>5 DEF Beginning, RequestsAhead, TickInProgress
<1> QED BY <1>3, <1>5, <1>6 DEF GridInv

LEMMA CreateOnGrid ==
  ASSUME IndInv, GridInv, ~LateCreation, CreateEngine
  PROVE  GridInv'
<1>1. /\ TypeOK /\ Beginning /\ CacheOnGrid /\ OnGrid(mNodes)
      /\ RequestsAhead /\ TickInProgress
  BY DEF IndInv, GridInv, TriggersOnGrid, OnGrid
<1>2. /\ ~exists /\ ~reconfigured /\ exists' /\ ~reconfigured'
      /\ UNCHANGED <<now, simRunning, methodRunnable, mPeriod, mOffset, mRunning,
                     mLastTickCount, mLastTickTime, mNodes, mProcessingTickCount, ticks>>
  BY DEF CreateEngine, kernel, parameters, cache, requests, processing
<1>3. Before' = Before
  BY <1>2, SameBefore
<1>4. TriggersOnGrid' /\ (IsTickTime(now)' <=> IsTickTime(now))
  BY <1>1, <1>2, <1>3, SameGrid DEF IsTickTime
<1>5. CacheOnGrid'
  BY <1>1, <1>2, <1>3 DEF CacheOnGrid
<1>6. Beginning' /\ RequestsAhead' /\ TickInProgress'
  BY <1>1, <1>2, <1>4 DEF Beginning, RequestsAhead, TickInProgress
<1> QED BY <1>4, <1>5, <1>6 DEF GridInv

LEMMA NextOnGrid ==
  ASSUME IndInv, GridInv, ~LateCancel, ~LateCreation, StopsEarly, [Next]_vars
  PROVE  GridInv'
<1>1. TypeOK /\ Phases /\ CacheOnGrid
  BY DEF IndInv, GridInv
<1>2. ASSUME NEW m \in Module, ModuleStep(m)
      PROVE  GridInv'
  BY <1>2, ModuleStepOnGrid
<1>3. ASSUME ReadTickCount \/ ReadAtTick \/ ReadNextTickData
      PROVE  GridInv'
  <2>1. /\ exists
        /\ RefreshCache \/ FillCache
        /\ UNCHANGED <<kernel, parameters, existence, mNodes, mProcessingTickCount, ticks>>
    BY <1>3 DEF ReadTickCount, ReadAtTick, ReadNextTickData, requests, processing
  <2> QED BY <2>1, QuietOnGrid
<1>4. ASSUME NEW m \in Module, HandleTick1Trigger(m)
      PROVE  GridInv'
  BY <1>4, HandleOnGrid
<1>5. ASSUME NEW m \in Module, CallNext(m)
      PROVE  GridInv'
  <2>1. /\ m \in mCalls
        /\ UNCHANGED <<kernel, parameters, existence, cache, mNodes,
                       mProcessingTickCount, ticks>>
    BY <1>5 DEF CallNext
  <2>2. exists
    <3>1. mProcessingTickCount # NotProcessing
      <4>1. RequestsAgree
        BY DEF IndInv
      <4>2. mScheduledTick[m] # NotScheduled /\ mScheduledTick[m] = mProcessingTickCount
        BY <2>1, <4>1 DEF RequestsAgree
      <4> QED BY <4>2 DEF NotScheduled, NotProcessing
    <3> QED BY <1>1, <3>1 DEF Phases
  <2> QED BY <2>1, <2>2, QuietOnGrid
<1>6. ASSUME FinishTick
      PROVE  GridInv'
  BY <1>6, FinishOnGrid
<1>7. ASSUME CreateEngine
      PROVE  GridInv'
  BY <1>7, CreateOnGrid
<1>8. ASSUME NEW period \in Period, NEW offset \in now .. now + MaxOffset,
             NEW running \in BOOLEAN, UpdateParameters(period, offset, running)
      PROVE  GridInv'
  <2>1. offset \in Nat
    BY <1>1, ConstantsAssumption DEF TypeOK, Time
  <2> QED BY <1>8, <2>1, UpdateOnGrid
<1>9. ASSUME StartSimulation
      PROVE  GridInv'
  BY <1>9, StartOnGrid
<1>10. ASSUME AdvanceTime
       PROVE  GridInv'
  BY <1>10, AdvanceOnGrid
<1>11. ASSUME UNCHANGED vars
       PROVE  GridInv'
  <2>1. UNCHANGED <<now, simRunning, methodRunnable, mPeriod, mOffset, mRunning, exists,
                    reconfigured, mLastTickCount, mLastTickTime, mNodes,
                    mProcessingTickCount, ticks>>
    BY <1>11 DEF vars, kernel, parameters, existence, cache, requests, processing
  <2>2. Before' = Before
    BY <2>1, SameBefore
  <2>3. TriggersOnGrid'
    BY <2>1, <2>2, SameGrid DEF GridInv, TriggersOnGrid, OnGrid
  <2>4. CacheOnGrid'
    BY <1>1, <2>1, <2>2, SameGrid DEF CacheOnGrid
  <2>5. Beginning' /\ RequestsAhead' /\ TickInProgress'
    BY <2>1 DEF GridInv, Beginning, RequestsAhead, TickInProgress, IsTickTime
  <2> QED BY <2>3, <2>4, <2>5 DEF GridInv
<1> QED
  BY <1>2, <1>3, <1>4, <1>5, <1>6, <1>7, <1>8, <1>9, <1>10, <1>11
     DEF Next, MethodStep

-----------------------------------------------------------------------------
(* The abstract service                                                    *)

(* The callback of a module is made in the tick it waits for.              *)
LEMMA CallsServe ==
  ASSUME IndInv, GridInv, NEW m \in Module, HandleTick1Trigger(m) \/ CallNext(m)
  PROVE  Service!Serve(m)
<1>1. TypeOK /\ RequestsAgree /\ TickInProgress
  BY DEF IndInv, GridInv
<1>2. CASE HandleTick1Trigger(m)
  <2>1. /\ m \in mNodes[Root(mNodes)].mRequests
        /\ mScheduledTick' = [mScheduledTick EXCEPT ![m] = NotScheduled]
        /\ called' = [called EXCEPT ![m] = @ + 1]
        /\ ticks' = ticks /\ methodRunnable
    BY <1>2 DEF HandleTick1Trigger, Call
  <2>2. Root(mNodes) = ticks /\ ticks \in DOMAIN mNodes
    BY <2>1, RunnableRoot
  <2>3. mScheduledTick[m] = ticks
    BY <1>1, <2>1, <2>2 DEF RequestsAgree
  <2> QED BY <2>1, <2>3 DEF Service!Serve, Service!None, NotScheduled
<1>3. CASE CallNext(m)
  <2>1. /\ m \in mCalls /\ ticks' = ticks
        /\ mScheduledTick' = [mScheduledTick EXCEPT ![m] = NotScheduled]
        /\ called' = [called EXCEPT ![m] = @ + 1]
    BY <1>3 DEF CallNext, Call
  <2>2. mScheduledTick[m] # NotScheduled /\ mScheduledTick[m] = mProcessingTickCount
    BY <1>1, <2>1 DEF RequestsAgree
  <2>3. mScheduledTick[m] = ticks
    BY <1>1, <2>2 DEF TickInProgress, NotScheduled, NotProcessing
  <2> QED BY <2>1, <2>3 DEF Service!Serve, Service!None, NotScheduled
<1> QED BY <1>2, <1>3

(* A request is for a tick to come and only ever brings the call forward.  *)
LEMMA RequestsRequest ==
  ASSUME TypeOK, NEW m \in Module, NEW t \in Nat, t > ticks, NEW event,
         RequestTriggerImpl(m, t, event), ticks' = ticks, called' = called
  PROVE  Service!Request(m) \/ UNCHANGED <<ticks, mScheduledTick, called>>
<1>1. CASE mScheduledTick[m] # NotScheduled /\ t >= mScheduledTick[m]
  BY <1>1 DEF RequestTriggerImpl, requests
<1>2. CASE ~(mScheduledTick[m] # NotScheduled /\ t >= mScheduledTick[m])
  <2>1. mScheduledTick' = [mScheduledTick EXCEPT ![m] = t]
    BY <1>2 DEF RequestTriggerImpl
  <2>2. mScheduledTick \in [Module -> Nat \cup {NotScheduled}]
    BY DEF TypeOK
  <2>3. mScheduledTick'[m] = t
    BY <2>1, <2>2
  <2>4. mScheduledTick[m] # NotScheduled => t < mScheduledTick[m]
    BY <1>2, <2>2 DEF NotScheduled
  <2> QED BY <2>1, <2>3, <2>4 DEF Service!Request, Service!None, NotScheduled
<1> QED BY <1>1, <1>2

(* Nobody waits for a tick that has been counted when no method is to run  *)
(* and no callback is left to be made.                                     *)
LEMMA NobodyLate ==
  ASSUME IndInv, GridInv, ~methodRunnable,
         mProcessingTickCount = NotProcessing \/ mCalls = {},
         NEW m \in Module
  PROVE  mScheduledTick[m] # ticks
<1>1. /\ TypeOK /\ RequestsAgree /\ RequestsAhead /\ ticks \in Nat
  BY GridTypes DEF IndInv, GridInv
<1>2. CASE mScheduledTick[m] = NotScheduled
  BY <1>1, <1>2 DEF NotScheduled
<1>3. CASE mScheduledTick[m] # NotScheduled
  <2>1. m \notin mCalls
    BY <1>1 DEF RequestsAgree, NotScheduled, NotProcessing
  <2>2. mScheduledTick[m] \in DOMAIN mNodes
    BY <1>1, <1>3, <2>1 DEF RequestsAgree
  <2>3. mScheduledTick[m] > ticks
    BY <1>1, <2>2 DEF RequestsAhead
  <2> QED BY <1>1, <2>3
<1> QED BY <1>2, <1>3

LEMMA StepsRefine ==
  ASSUME IndInv, GridInv, [Next]_vars
  PROVE  Service!ServiceNext \/ UNCHANGED <<ticks, mScheduledTick, called>>
<1>1. /\ TypeOK /\ CacheInPast /\ Phases /\ Beginning /\ CacheOnGrid
      /\ ticks \in Nat
  BY GridTypes DEF IndInv, GridInv
<1>2. ASSUME NEW m \in Module, NEW skip \in 0 .. MaxSkip, RequestTrigger(m, skip)
      PROVE  Service!Request(m) \/ UNCHANGED <<ticks, mScheduledTick, called>>
  <2>1. exists /\ ticks' = ticks /\ called' = called
    BY <1>2 DEF RequestTrigger
  <2>2. PrevTick.count = ticks
    BY <1>1, <2>1, PrevTickIsCounted
  <2> DEFINE t == PrevTick.count + skip + 1
             event == EventTime(mPeriod, skip + 1,
                                PrevTick.time + (skip + 1) * mPeriod)
  <2>3. t \in Nat /\ t > ticks
    BY <1>1, <2>2, ConstantsAssumption
  <2>4. RequestTriggerImpl(m, t, event)
    BY <1>2 DEF RequestTrigger
  <2> HIDE DEF t, event
  <2> QED BY <1>1, <2>1, <2>3, <2>4, RequestsRequest
<1>3. ASSUME NEW m \in Module, NEW d \in 0 .. MaxDelay, RequestTriggerAfter(m, d)
      PROVE  Service!Request(m) \/ UNCHANGED <<ticks, mScheduledTick, called>>
  <2> DEFINE next == GetNextTickData(d)
  <2>1. /\ exists /\ ticks' = ticks /\ called' = called
        /\ RequestTriggerImpl(m, next.count, next.time)
    BY <1>3 DEF RequestTriggerAfter
  <2>2. next.count = PrevTickAfter(d).count + 1
    BY DEF GetNextTickData
  <2>3. PrevTickAfter(d).count \in Int /\ PrevTickAfter(d).count >= ticks
    BY <1>1, <2>1, PrevTickAfterIsCounted, ConstantsAssumption
  <2> HIDE DEF next
  <2>4. next.count \in Nat /\ next.count > ticks
    BY <1>1, <2>2, <2>3
  <2> QED BY <1>1, <2>1, <2>4, RequestsRequest
<1>4. ASSUME NEW m \in Module, CancelTrigger(m)
      PROVE  Service!Cancel(m)
  BY <1>4 DEF CancelTrigger, Service!Cancel, Service!None, NotScheduled
<1>5. ASSUME ReadTickCount \/ ReadAtTick \/ ReadNextTickData
      PROVE  UNCHANGED <<ticks, mScheduledTick, called>>
  BY <1>5 DEF ReadTickCount, ReadAtTick, ReadNextTickData, requests
<1>6. ASSUME NEW m \in Module, HandleTick1Trigger(m) \/ CallNext(m)
      PROVE  Service!Serve(m)
  BY <1>6, CallsServe
<1>7. ASSUME FinishTick
      PROVE  Service!Return
  <2>1. /\ mProcessingTickCount # NotProcessing /\ mCalls = {}
        /\ ticks' = ticks /\ mScheduledTick' = mScheduledTick
        /\ called' = NotCalled
    BY <1>7 DEF FinishTick
  <2>2. ~methodRunnable
    BY <1>1, <2>1 DEF Phases
  <2>3. \A m \in Module : mScheduledTick[m] # ticks
    BY <2>1, <2>2, NobodyLate
  <2> QED BY <2>1, <2>3 DEF Service!Return, NotCalled
<1>11. ASSUME CreateEngine
       PROVE  UNCHANGED <<ticks, mScheduledTick, called>>
  BY <1>11 DEF CreateEngine, requests
<1>8. ASSUME NEW period \in Period, NEW offset, NEW running,
             UpdateParameters(period, offset, running)
      PROVE  UNCHANGED <<ticks, mScheduledTick, called>>
  BY <1>8 DEF UpdateParameters
<1>9. ASSUME StartSimulation \/ AdvanceTime
      PROVE  Service!Tick \/ UNCHANGED <<ticks, mScheduledTick, called>>
  <2>1. /\ mScheduledTick' = mScheduledTick /\ called' = called
        /\ ticks' = ticks + (IF IsTickTime(now') THEN 1 ELSE 0)
        /\ ~methodRunnable /\ mProcessingTickCount = NotProcessing
    BY <1>1, <1>9 DEF StartSimulation, AdvanceTime, requests, Phases
  <2>2. \A m \in Module : mScheduledTick[m] # ticks
    BY <2>1, NobodyLate
  <2>3. CASE IsTickTime(now')
    BY <2>1, <2>2, <2>3 DEF Service!Tick
  <2>4. CASE ~IsTickTime(now')
    BY <1>1, <2>1, <2>4
  <2> QED BY <2>3, <2>4
<1>10. ASSUME UNCHANGED vars
       PROVE  UNCHANGED <<ticks, mScheduledTick, called>>
  BY <1>10 DEF vars, requests
<1> QED
  BY <1>2, <1>3, <1>4, <1>5, <1>6, <1>7, <1>8, <1>9, <1>10, <1>11
     DEF Next, ModuleStep, MethodStep, Service!ServiceNext

-----------------------------------------------------------------------------
(* The theorems about the ticks                                            *)
(*                                                                         *)
(* They hold when no process cancels the last request of a tick between    *)
(* the notification and the callbacks of that tick, no engine is created   *)
(* after the parameters changed in the running simulation, and the         *)
(* simulation stops two periods before the end of representable time.      *)

(* The engine and the grid of tick times agree in every reachable state.   *)
THEOREM GridInvariance ==
  ASSUME ~LateCancel, ~LateCreation, StopsEarly
  PROVE  Spec => [](IndInv /\ GridInv)
<1>1. Init => GridInv
  BY InitOnGrid
<1>2. IndInv /\ GridInv /\ [Next]_vars => GridInv'
  BY NextOnGrid
<1> QED BY <1>1, <1>2, Invariance, PTL DEF Spec

(* The tick count that the engine computes from a remembered tick is the   *)
(* one that counting every tick gives, across any changes of the period,   *)
(* the offset and the running state, and so are the answers about delays,  *)
(* later ticks and the next tick (scml_clock_if.h:51-79).                  *)
THEOREM TicksAlwaysExact ==
  ASSUME ~LateCancel, ~LateCreation, StopsEarly
  PROVE  Spec => []TicksExact
<1>1. IndInv /\ GridInv => TicksExact
  BY TicksAreExact
<1> QED BY <1>1, GridInvariance, PTL

(* Every tick trigger is notified for the time of its own tick, or its     *)
(* tick is beyond the end of representable time.                           *)
THEOREM TriggersAlwaysOnTime ==
  ASSUME ~LateCancel, ~LateCreation, StopsEarly
  PROVE  Spec => []TriggersOnTime
<1>1. IndInv /\ GridInv => TriggersOnTime
  BY TriggersAreOnTime
<1> QED BY <1>1, GridInvariance, PTL

(* The engine implements the service a clock promises: every call of a     *)
(* module is made in exactly the tick it last asked for and uses that      *)
(* request up, and no tick passes while a request for it is pending.       *)
THEOREM EngineImplementsService ==
  ASSUME ~LateCancel, ~LateCreation, StopsEarly
  PROVE  Spec => ServiceSpec
<1>1. Init => Service!ServiceInit
  BY DEF Init, Service!ServiceInit, Service!None, NotScheduled, NotCalled
<1>2. IndInv /\ GridInv /\ [Next]_vars => [Service!ServiceNext]_(Service!svars)
  BY StepsRefine DEF Service!svars
<1> QED
  BY <1>1, <1>2, GridInvariance, PTL DEF Spec, ServiceSpec, Service!ServiceSpec
=============================================================================
