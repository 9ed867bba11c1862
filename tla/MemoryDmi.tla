------------------------------ MODULE MemoryDmi ------------------------------
(***************************************************************************)
(* The region table of a memory (scml2::memory_dmi): the list of index     *)
(* ranges of a memory together with whether a direct memory interface may  *)
(* be granted for the range.  The table is cleared, switched off as a      *)
(* whole, or has one range of indices taken out; Disable is the list       *)
(* surgery the code does to keep the ranges few.                           *)
(***************************************************************************)
EXTENDS Integers, Sequences, FiniteSets

CONSTANTS Size,   \* the number of words of the memory
          Top     \* the largest index there is, (unsigned long long)(-1),
                  \* not smaller than Size

Entry(low, high, allowed) ==
    [startIndex |-> low, endIndex |-> high, dmiAllowed |-> allowed]

ClearedTable  == << Entry(0, Size - 1, TRUE), Entry(Size, Top, FALSE) >>
DisabledTable == << Entry(0, Top, FALSE) >>

(***************************************************************************)
(* The position of the range that holds an index: find() and the search of *)
(* disable().                                                              *)
(***************************************************************************)
At(data, index) ==
    CHOOSE i \in DOMAIN data :
        data[i].startIndex <= index /\ index <= data[i].endIndex

Find(data, index) == data[At(data, index)]

(***************************************************************************)
(* disable(low, high).  The first range touched is split, or swallowed     *)
(* when it is disabled already, or merged with a disabled predecessor; the *)
(* ranges in the middle go; the last one touched is treated likewise.      *)
(***************************************************************************)
LeftPart(data, k, low) ==
    IF data[k].startIndex < low
    THEN IF data[k].dmiAllowed
         THEN [kept |-> Append(SubSeq(data, 1, k - 1),
                               Entry(data[k].startIndex, low - 1, TRUE)),
               from |-> low]
         ELSE [kept |-> SubSeq(data, 1, k - 1), from |-> data[k].startIndex]
    ELSE IF k > 1 /\ ~data[k - 1].dmiAllowed
         THEN [kept |-> SubSeq(data, 1, k - 2), from |-> data[k - 1].startIndex]
         ELSE [kept |-> SubSeq(data, 1, k - 1), from |-> low]

RightPart(data, m, high) ==
    IF data[m].endIndex > high
    THEN IF data[m].dmiAllowed
         THEN [kept |-> << Entry(high + 1, data[m].endIndex, TRUE) >>
                        \o SubSeq(data, m + 1, Len(data)),
               to   |-> high]
         ELSE [kept |-> SubSeq(data, m + 1, Len(data)), to |-> data[m].endIndex]
    ELSE IF m < Len(data) /\ ~data[m + 1].dmiAllowed
         THEN [kept |-> SubSeq(data, m + 2, Len(data)), to |-> data[m + 1].endIndex]
         ELSE [kept |-> SubSeq(data, m + 1, Len(data)), to |-> high]

Disable(data, low, high) ==
    LET k == At(data, low)
        m == At(data, high)
        l == LeftPart(data, k, low)
        r == RightPart(data, m, high)
    IN  IF k = m /\ ~data[k].dmiAllowed
        THEN data
        ELSE l.kept \o << Entry(l.from, r.to, FALSE) >> \o r.kept

-----------------------------------------------------------------------------
VARIABLES mDmiData,   \* the list of ranges
          mCleared,   \* clear() was the last call that changed the list
          denied      \* for checking: the indices disabled since the last clear()

vars == << mDmiData, mCleared, denied >>

TypeOK ==
    /\ mDmiData \in Seq([startIndex : 0..Top, endIndex : 0..Top, dmiAllowed : BOOLEAN])
    /\ mCleared \in BOOLEAN
    /\ denied \subseteq 0..Top

Init ==
    /\ mDmiData = ClearedTable
    /\ mCleared = TRUE
    /\ denied = Size..Top

(* clear(): a table that is clear already is left alone. *)
Clear ==
    /\ mDmiData' = IF mCleared THEN mDmiData ELSE ClearedTable
    /\ mCleared' = TRUE
    /\ denied' = Size..Top

(* disable(): no index may be accessed directly. *)
DisableAll ==
    /\ mDmiData' = DisabledTable
    /\ mCleared' = FALSE
    /\ denied' = 0..Top

\* Mutant of DisableRange.
DisableRange_StillCleared(low, high) ==
    /\ low <= high
    /\ mDmiData' = Disable(mDmiData, low, high)
    /\ mCleared' = mCleared
    /\ denied' = denied \union (low..high)

(* disable(startIndex, endIndex), for the words of an alias or an observer. *)
DisableRange(low, high) ==
    /\ low <= high
    /\ mDmiData' = Disable(mDmiData, low, high)
    /\ mCleared' = FALSE
    /\ denied' = denied \union (low..high)

Next ==
    \/ Clear
    \/ DisableAll
    \/ \E low, high \in 0..(Size - 1) : DisableRange(low, high)

Spec == Init /\ [][Next]_vars

-----------------------------------------------------------------------------
(***************************************************************************)
(* The ranges follow each other without a gap or an overlap and together   *)
(* hold every index, so find() never falls through to its error            *)
(* (memory_dmi.cc: find, "Index out of bounds"); and they are as large as  *)
(* they can be: a requester is told the whole range its address lies in,   *)
(* so a split that is not undone costs it a request per fragment (the      *)
(* merges of memory_dmi::disable).                                         *)
(***************************************************************************)
EveryIndexIsInOneRange ==
    /\ mDmiData[1].startIndex = 0
    /\ mDmiData[Len(mDmiData)].endIndex = Top
    /\ \A i \in DOMAIN mDmiData : mDmiData[i].startIndex <= mDmiData[i].endIndex
    /\ \A i \in 1..(Len(mDmiData) - 1) :
          /\ mDmiData[i + 1].startIndex = mDmiData[i].endIndex + 1
          /\ mDmiData[i].dmiAllowed # mDmiData[i + 1].dmiAllowed

(***************************************************************************)
(* However the calls were ordered, an index is granted exactly when no     *)
(* call since the last clear() disabled it (memory_dmi::disable, clear).   *)
(***************************************************************************)
GrantsWhatWasNotDisabled ==
    \A index \in 0..Top : Find(mDmiData, index).dmiAllowed <=> index \notin denied
=============================================================================
