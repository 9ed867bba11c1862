--------------------------- MODULE ToplevelMemory ---------------------------
(***************************************************************************)
(* A memory object with its tree of aliases (scml2::toplevel_memory_base,  *)
(* memory_base, memory_alias, find_alias.h).  Every object of the tree may *)
(* have callbacks of its own for reads and for writes, may have its direct *)
(* memory interface switched off, and may be watched by content observers. *)
(* Two questions are asked of it: which object answers each word of an     *)
(* access (FindAlias and the unrolling of bursts), and which words an      *)
(* initiator may go on accessing directly (the region tables and their     *)
(* invalidation).                                                          *)
(***************************************************************************)
EXTENDS Integers, Sequences, FiniteSetsExt, MemoryIndices

CONSTANTS
    Objects,      \* the memory and its aliases
    Memory,       \* the toplevel object
    Parent,       \* [Objects \ {Memory} -> Objects]
    Offset,       \* first word of an object, in words of the toplevel memory
    Width,        \* width of a word of an object, in words of the toplevel memory
    Words,        \* size of an object in words of its own: get_size()
    Switched,     \* the objects whose direct memory interface is switched
    CallbackKinds,\* what one set_*_callback call installs: sets of access kinds
    Observed      \* the objects whose words content observers watch

MemorySize == Words[Memory] * Width[Memory]

LastWordOf(o) == Offset[o] + Words[o] * Width[o] - 1

Children(o) == {c \in Objects \ {Memory} : Parent[c] = o}

(* An alias is created in an object that is there already, so that going   *)
(* up from parent to parent never goes in a circle.  What register_alias   *)
(* reports as a configuration error is excluded, and an alias starts at a  *)
(* multiple of its own width.                                              *)
ASSUME TreeAssumption ==
    /\ IsFiniteSet(Objects)
    /\ Parent \in [Objects \ {Memory} -> Objects] /\ Offset \in [Objects -> Nat]
    /\ Width \in [Objects -> Nat \ {0}] /\ Words \in [Objects -> Nat \ {0}]
    /\ \A S \in SUBSET (Objects \ {Memory}) :
          S # {} => \E o \in S : Parent[o] \notin S
    /\ Memory \in Objects /\ Switched \subseteq Objects /\ Observed \subseteq Objects
    /\ Offset[Memory] = 0 /\ Width[Memory] = 1 /\ Top >= MemorySize
    /\ CallbackKinds \subseteq (SUBSET Kinds) \ {{}}
    /\ \A o \in Objects \ {Memory} :
          /\ Width[o] % Width[Parent[o]] = 0
          /\ Offset[o] >= Offset[Parent[o]] /\ LastWordOf(o) <= LastWordOf(Parent[o])
          /\ Offset[o] % Width[o] = 0
          /\ \A p \in Children(Parent[o]) \ {o} :
                LastWordOf(p) < Offset[o] \/ LastWordOf(o) < Offset[p]

Table == INSTANCE MemoryDmi
             WITH Size <- MemorySize, mDmiData <- << >>, mCleared <- TRUE, denied <- {}

VARIABLES
    callbacks,          \* the <<object, kind>> with a callback of their own
    dmiDisabled,        \* the objects with mDmiEnabled = FALSE
    observers,          \* the <<object, kind>> watched by a content observer
    dmiPointersInUse,   \* the tables are valid and ranges may have been granted
    dmiData,            \* [Kinds -> region table]: mReadDmiData, mWriteDmiData
    heldWords           \* for checking: the <<kind, word>> granted to initiators
                        \* and not invalidated since

treeVars == << callbacks, dmiDisabled, observers, dmiPointersInUse, dmiData, heldWords >>

NoTable == [k \in Kinds |-> Table!ClearedTable]

TreeTypeOK ==
    /\ callbacks \subseteq Objects \X Kinds
    /\ dmiDisabled \subseteq Switched
    /\ observers \subseteq Observed \X Kinds
    /\ dmiPointersInUse \in BOOLEAN
    /\ \A k \in Kinds : dmiData[k] \in Seq([startIndex : 0..Top, endIndex : 0..Top,
                                             dmiAllowed : BOOLEAN])
    /\ heldWords \subseteq Kinds \X (0..Top)

TreeInit ==
    /\ callbacks = {} /\ dmiDisabled = {} /\ observers = {}
    /\ dmiPointersInUse = FALSE
    /\ dmiData = NoTable
    /\ heldWords = {}

-----------------------------------------------------------------------------
(***************************************************************************)
(* Looking an access up in the tree.                                       *)
(***************************************************************************)
(* What is reached from o by the pairs of a relation.                      *)
Reached(relation, o) ==
    {x \in Objects : \A closed \in SUBSET Objects :
        (o \in closed /\ \A e \in relation : e[1] \in closed => e[2] \in closed)
            => x \in closed}

Ancestors(o) == Reached({<< c, Parent[c] >> : c \in Objects \ {Memory}}, o) \ {o}

HoldsAll(o, low, high) == Offset[o] <= low /\ high <= LastWordOf(o)

(* find_alias(mem, low, high): from the toplevel object down, as long as a *)
(* child holds the whole access.                                           *)
InnermostAlias(low, high) ==
    LET holding == {c \in Objects \ {Memory} : HoldsAll(c, low, high)}
    IN  CHOOSE o \in Reached({<< Parent[c], c >> : c \in holding}, Memory) :
            Children(o) \intersect holding = {}

\* Mutant of AliasRange.
AliasRange_EndExcluded(o, low, high) ==
    {c \in Children(o) : Offset[c] < high}

(* get_alias_range(): the children between the last one that starts at or  *)
(* before low and the last one that starts at or before high; when none    *)
(* starts at or before low, only the first child is returned.              *)
AliasRange(o, low, high) ==
    LET before == {c \in Children(o) : Offset[c] <= low}
        first  == {c \in Children(o) : \A d \in Children(o) : Offset[c] <= Offset[d]}
        from   == {c \in before : \A d \in before : Offset[d] <= Offset[c]}
    IN  IF before # {}
        THEN {c \in Children(o) : \E f \in from : Offset[f] <= Offset[c]
                                                  /\ Offset[c] <= high}
        ELSE {c \in first : Offset[c] <= high}

(* has_refined_behavior(): some object below o that the access touches has *)
(* a callback.  The extent of a child is taken with the width of o.        *)
Touches(o, c, low, high) ==
    high >= Offset[c] /\ low < Offset[c] + Words[c] * Width[o]

HasRefinedBehavior(o, low, high, k) ==
    LET touched == {c \in Objects \ {Memory} : c \in AliasRange(Parent[c], low, high)
                                              /\ Touches(Parent[c], c, low, high)}
    IN  \E c \in Reached({<< Parent[c], c >> : c \in touched}, o) \ {o} :
            << c, k >> \in callbacks

(* find_alias(mem, low, high, condition): the innermost object with a      *)
(* callback among those that hold the access, else the memory itself; no   *)
(* object when the access has to be unrolled or lies outside.              *)
NoObject == "none"

FindAlias(low, high, k) ==
    LET innermost == InnermostAlias(low, high)
        chain     == {innermost} \union Ancestors(innermost)
        capable   == {o \in chain : << o, k >> \in callbacks}
        nearest   == {o \in capable : capable \subseteq {o} \union Ancestors(o)}
        alias     == IF capable = {} THEN Memory ELSE CHOOSE o \in nearest : TRUE
    IN  IF high >= MemorySize \/ (low # high /\ HasRefinedBehavior(alias, low, high, k))
        THEN NoObject
        ELSE alias

(***************************************************************************)
(* b_transport and burst_unroller::unroll_transaction: the object each     *)
(* word of low..high is answered by.  An unrolled access goes word by word *)
(* in the width of the innermost alias at the address.                     *)
(***************************************************************************)
AnsweredBy(low, high, k, word) ==
    LET whole == FindAlias(low, high, k)
        w     == Width[InnermostAlias(word, word)]
        start == word - (word % w)
    IN  IF whole # NoObject THEN whole ELSE FindAlias(start, start + w - 1, k)

-----------------------------------------------------------------------------
(***************************************************************************)
(* The region tables.                                                      *)
(***************************************************************************)
(* is_dmi_read_allowed() and is_dmi_write_allowed(). *)
DmiAllowed(o, k) == << o, k >> \notin callbacks /\ o \notin dmiDisabled

(* addDmiData, addReadDmiData and addWriteDmiData descend as long as the   *)
(* object allows the kind.  Once an object allows one kind only, the walk  *)
(* goes on with the functions for that kind, which take get_size() for the *)
(* number of toplevel words.                                               *)
Refuses(o, k) == /\ ~DmiAllowed(o, k)
                 /\ \A p \in Ancestors(o) : DmiAllowed(p, k)

WalkedForBoth(o) == \A p \in Ancestors(o), k \in Kinds : DmiAllowed(p, k)

LastRefused(o) == Offset[o] + (IF WalkedForBoth(o) THEN Words[o] * Width[o]
                                                   ELSE Words[o]) - 1

(* memory_content_observers::disable_dmi. *)
LastObserved(o) == LastWordOf(o)

RefusedRanges(k) ==
    {<< Offset[o], LastRefused(o) >> : o \in {x \in Objects : Refuses(x, k)}}
    \union {<< Offset[o], LastObserved(o) >> :
                o \in {x \in Objects : << x, k >> \in observers}}

(* The ranges are taken out of a cleared table one after the other.        *)
TableWithout(ranges) ==
    FoldSet(LAMBDA r, data : Table!Disable(data, r[1], r[2]), Table!ClearedTable, ranges)

ComputedTable(k) ==
    IF Memory \in dmiDisabled THEN Table!DisabledTable ELSE TableWithout(RefusedRanges(k))

(***************************************************************************)
(* invalidate_dmi: whoever holds a pointer is told, if anyone can.  The    *)
(* tables are recomputed before they are read again, so the model empties  *)
(* them here.                                                              *)
(***************************************************************************)
InvalidateAllDmi ==
    IF dmiPointersInUse
    THEN dmiPointersInUse' = FALSE /\ heldWords' = {} /\ dmiData' = NoTable
    ELSE UNCHANGED << dmiPointersInUse, heldWords, dmiData >>

KeepAllDmi == UNCHANGED << dmiPointersInUse, heldWords, dmiData >>

-----------------------------------------------------------------------------
(* get_direct_mem_ptr: compute the tables unless they are in use, then     *)
(* answer with the whole range the index lies in.                          *)
GetDirectMemPtrOf(k, index) ==
    /\ dmiPointersInUse' = TRUE
    /\ dmiData' = IF dmiPointersInUse THEN dmiData
                                       ELSE [x \in Kinds |-> ComputedTable(x)]
    /\ LET range == Table!Find(dmiData'[k], index)
       IN  heldWords' = IF range.dmiAllowed
                   THEN heldWords \union ({k} \X (range.startIndex..range.endIndex))
                   ELSE heldWords
    /\ UNCHANGED << callbacks, dmiDisabled, observers >>

\* Mutant of SetCallback.
SetCallback_BothDefault(o, ks) ==
    /\ IF \A k \in Kinds : << o, k >> \notin callbacks THEN InvalidateAllDmi ELSE KeepAllDmi
    /\ callbacks' = callbacks \union ({o} \X ks)
    /\ UNCHANGED << dmiDisabled, observers >>

(* set_callback, set_read_callback, set_write_callback. *)
SetCallback(o, ks) ==
    /\ IF \E k \in ks : << o, k >> \notin callbacks THEN InvalidateAllDmi ELSE KeepAllDmi
    /\ callbacks' = callbacks \union ({o} \X ks)
    /\ UNCHANGED << dmiDisabled, observers >>

(* remove_callback, remove_read_callback, remove_write_callback. *)
RemoveCallback(o, ks) ==
    /\ \E k \in ks : << o, k >> \in callbacks
    /\ callbacks' = callbacks \ ({o} \X ks)
    /\ InvalidateAllDmi
    /\ UNCHANGED << dmiDisabled, observers >>

\* Mutant of EnableObjectDmi.
EnableObjectDmi_Silent(o) ==
    /\ o \in dmiDisabled
    /\ KeepAllDmi
    /\ dmiDisabled' = dmiDisabled \ {o}
    /\ UNCHANGED << callbacks, observers >>

(* enable_dmi and disable_dmi of the memory or of an alias. *)
EnableObjectDmi(o) ==
    /\ o \in dmiDisabled
    /\ InvalidateAllDmi
    /\ dmiDisabled' = dmiDisabled \ {o}
    /\ UNCHANGED << callbacks, observers >>

DisableObjectDmi(o) ==
    /\ o \notin dmiDisabled
    /\ InvalidateAllDmi
    /\ dmiDisabled' = dmiDisabled \union {o}
    /\ UNCHANGED << callbacks, observers >>

(* register_content_observer and unregister_content_observer, called       *)
(* outside the notification of an observer.                                *)
RegisterContentObserver(o, k) ==
    /\ << o, k >> \notin observers
    /\ observers' = observers \union {<< o, k >>}
    /\ InvalidateAllDmi
    /\ UNCHANGED << callbacks, dmiDisabled >>

UnregisterContentObserver(o, k) ==
    /\ << o, k >> \in observers
    /\ observers' = observers \ {<< o, k >>}
    /\ InvalidateAllDmi
    /\ UNCHANGED << callbacks, dmiDisabled >>

TreeNext ==
    \/ \E k \in Kinds, index \in 0..Top : GetDirectMemPtrOf(k, index)
    \/ \E o \in Objects, ks \in CallbackKinds : SetCallback(o, ks) \/ RemoveCallback(o, ks)
    \/ \E o \in Switched : EnableObjectDmi(o) \/ DisableObjectDmi(o)
    \/ \E o \in Observed, k \in Kinds : RegisterContentObserver(o, k) \/ UnregisterContentObserver(o, k)

TreeSpec == TreeInit /\ [][TreeNext]_treeVars

-----------------------------------------------------------------------------
Covering(word) == {o \in Objects : HoldsAll(o, word, word)}

(***************************************************************************)
(* No initiator goes on accessing directly a word that an object with a    *)
(* callback, a switched-off object or an observer covers: the access would *)
(* bypass it (toplevel_memory_base: get_direct_mem_ptr, invalidate_dmi).   *)
(***************************************************************************)
HeldWordsNeedNoOne ==
    \A h \in heldWords :
        /\ h[2] < MemorySize
        /\ \A o \in Covering(h[2]) :
              DmiAllowed(o, h[1]) /\ << o, h[1] >> \notin observers

(***************************************************************************)
(* Conversely a word nobody needs to see is granted when it is asked for:  *)
(* the tables in use are those of the present callbacks, never older ones  *)
(* (the dmiPointersInUse flag).                                           *)
(***************************************************************************)
TablesAreCurrent ==
    dmiPointersInUse =>
        \A k \in Kinds, word \in 0..(MemorySize - 1) :
            Table!Find(dmiData[k], word).dmiAllowed
                <=> \A o \in Covering(word) :
                        DmiAllowed(o, k) /\ << o, k >> \notin observers

(* The aliases that get_alias_range leaves out although the access reaches  *)
(* them: it starts before all aliases of an object, of which only the      *)
(* first is returned.  An access of one word leaves none out.              *)
Overlooked(low, high) ==
    {c \in Objects \ {Memory} :
        /\ Offset[c] <= high
        /\ \A d \in Children(Parent[c]) : low < Offset[d]
        /\ \E d \in Children(Parent[c]) : Offset[d] < Offset[c]}

\* Each word of an access is answered by the innermost object with a callback
\* there, and by no callback when there is none.
AnsweredByTheInnermost(low, high, k) ==
    \A word \in low..high :
        LET capable == {o \in Covering(word) : << o, k >> \in callbacks}
            o       == AnsweredBy(low, high, k, word)
        IN  IF capable = {}
            THEN o = Memory
            ELSE o \in capable /\ capable \subseteq {o} \union Ancestors(o)

(***************************************************************************)
(* However long an access is and wherever it starts, each of its words is  *)
(* answered by the innermost object with a callback there, and by no       *)
(* callback when there is none (find_alias.h; the manual: "a burst access  *)
(* will be unrolled into accessed to the individual registers").  The      *)
(* code keeps this unless a callback is on an overlooked alias or inside   *)
(* one, and the property says nothing of such an access.                   *)
(***************************************************************************)
EveryCallbackRuns ==
    \A k \in Kinds : \A low \in 0..(MemorySize - 1) : \A high \in low..(MemorySize - 1) :
        (\A o \in Objects : << o, k >> \in callbacks =>
             ({o} \union Ancestors(o)) \intersect Overlooked(low, high) = {})
            => AnsweredByTheInnermost(low, high, k)

(***************************************************************************)
(* The same for every access, as the manual has it.  It is false of the    *)
(* code (find_alias.h, get_alias_range).                                   *)
(***************************************************************************)
NoCallbackIsOverlooked ==
    \A k \in Kinds : \A low \in 0..(MemorySize - 1) : \A high \in low..(MemorySize - 1) :
        AnsweredByTheInnermost(low, high, k)
=============================================================================
