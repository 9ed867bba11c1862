---------------------------- MODULE MemoryProofs ----------------------------
(***************************************************************************)
(* Theorems about the memory with its DMI table, its content observers and *)
(* its aliases, for a memory of any size, any observers, any accesses, any *)
(* nesting of accesses in the calls of observers and any tree of aliases.  *)
(*                                                                         *)
(* The table of ranges: the list surgery of memory_dmi::disable keeps the  *)
(* ranges unbroken and maximal, and grants exactly what was not disabled.  *)
(*                                                                         *)
(* The observers: nobody who stays registered misses an access, nobody is  *)
(* called after he was unregistered, and watched words are not accessed    *)
(* directly.                                                               *)
(*                                                                         *)
(* The tree of a memory and its aliases: whatever callbacks, switches and  *)
(* observers come and go, each word of an access is answered by the        *)
(* innermost object with a callback, and exactly the words that nobody has *)
(* to see are granted.                                                     *)
(***************************************************************************)
EXTENDS MemoryContentObservers, ToplevelMemory, SequenceTheorems,
        FiniteSetTheorems, WellFoundedInduction, TLAPS

Ranges == [startIndex : Nat, endIndex : Nat, dmiAllowed : BOOLEAN]

Holds(e, x) == e.startIndex <= x /\ x <= e.endIndex

\* What a table is: nonempty ranges in order, without gaps, that hold every
\* index, two neighbours not alike.  That they are in order and hold every
\* index follows from the rest by induction, and is carried along instead.
IsTable(data) ==
    /\ data \in Seq(Ranges) /\ Len(data) >= 1
    /\ data[1].startIndex = 0
    /\ data[Len(data)].endIndex = Top
    /\ \A i \in 1 .. Len(data) : data[i].startIndex <= data[i].endIndex
    /\ \A i, j \in 1 .. Len(data) : i < j => data[i].endIndex < data[j].startIndex
    /\ \A i \in 1 .. Len(data) - 1 :
          /\ data[i + 1].startIndex = data[i].endIndex + 1
          /\ data[i].dmiAllowed # data[i + 1].dmiAllowed
    /\ \A x \in 0 .. Top : \E i \in 1 .. Len(data) : Holds(data[i], x)

Grants(data, set) ==
    \A i \in 1 .. Len(data) : \A x \in 0 .. Top :
        Holds(data[i], x) => (data[i].dmiAllowed <=> x \notin set)

\* What LeftPart leaves of a table before the range that begins at `from':
\* a part of the table whose last range is cut off there and is allowed.
IsLeft(data, kept, from, low) ==
    /\ kept \in Seq(Ranges) /\ Len(kept) <= Len(data)
    /\ from \in Nat /\ from <= low
    /\ \A i \in 1 .. Len(kept) :
          /\ kept[i].startIndex = data[i].startIndex
          /\ kept[i].dmiAllowed <=> data[i].dmiAllowed
          /\ kept[i].startIndex <= kept[i].endIndex
          /\ kept[i].endIndex <= data[i].endIndex
          /\ kept[i].endIndex < from
          /\ i < Len(kept) => kept[i].endIndex = data[i].endIndex
    /\ Len(kept) = 0 => from = 0
    /\ Len(kept) > 0 => /\ kept[Len(kept)].dmiAllowed
                        /\ kept[Len(kept)].endIndex = from - 1
    /\ \A x \in 0 .. Top : x < from => \E i \in 1 .. Len(kept) : Holds(kept[i], x)
    /\ \A x \in 0 .. Top : from <= x /\ x < low =>
          \E i \in 1 .. Len(data) : Holds(data[i], x) /\ ~data[i].dmiAllowed

\* The same for RightPart and the ranges after `to'; skipped is the number of
\* ranges of the table that are gone.
IsRight(data, kept, to, high) ==
    LET skipped == Len(data) - Len(kept)
    IN  /\ kept \in Seq(Ranges) /\ Len(kept) <= Len(data)
        /\ to \in Nat /\ high <= to /\ to <= Top
        /\ \A i \in 1 .. Len(kept) :
              /\ kept[i].endIndex = data[skipped + i].endIndex
              /\ kept[i].dmiAllowed <=> data[skipped + i].dmiAllowed
              /\ kept[i].startIndex <= kept[i].endIndex
              /\ kept[i].startIndex >= data[skipped + i].startIndex
              /\ kept[i].startIndex > to
              /\ i > 1 => kept[i].startIndex = data[skipped + i].startIndex
        /\ Len(kept) = 0 => to = Top
        /\ Len(kept) > 0 => kept[1].dmiAllowed /\ kept[1].startIndex = to + 1
        /\ \A x \in 0 .. Top : to < x => \E i \in 1 .. Len(kept) : Holds(kept[i], x)
        /\ \A x \in 0 .. Top : high < x /\ x <= to =>
              \E i \in 1 .. Len(data) : Holds(data[i], x) /\ ~data[i].dmiAllowed

-----------------------------------------------------------------------------
\* The search finds the range that holds an index.
LEMMA Found ==
    ASSUME NEW data, IsTable(data), NEW x \in 0 .. Top
    PROVE  Dmi!At(data, x) \in 1 .. Len(data) /\ Holds(data[Dmi!At(data, x)], x)
<1>1. DOMAIN data = 1 .. Len(data)
  BY DEF IsTable
<1>2. \E i \in DOMAIN data : data[i].startIndex <= x /\ x <= data[i].endIndex
  BY <1>1 DEF IsTable, Holds
<1>. QED
  BY <1>1, <1>2 DEF Dmi!At, Holds

\* The elements of a table are ranges.
LEMMA Elements ==
    ASSUME NEW data \in Seq(Ranges)
    PROVE  /\ Len(data) \in Nat
           /\ \A i \in 1 .. Len(data) :
                 /\ data[i] \in Ranges
                 /\ data[i].startIndex \in Nat /\ data[i].endIndex \in Nat
                 /\ data[i].dmiAllowed \in BOOLEAN
<1>1. Len(data) \in Nat /\ \A i \in 1 .. Len(data) : data[i] \in Ranges
  BY LenProperties, ElementOfSeq
<1>. QED
  BY <1>1 DEF Ranges

\* The first ranges of a table.
LEMMA Prefix ==
    ASSUME NEW data \in Seq(Ranges), NEW n \in 0 .. Len(data)
    PROVE  /\ SubSeq(data, 1, n) \in Seq(Ranges) /\ Len(SubSeq(data, 1, n)) = n
           /\ \A i \in 1 .. n : SubSeq(data, 1, n)[i] = data[i]
<1>1. Len(data) \in Nat /\ \A i \in 1 .. n : data[i] \in Ranges
  BY Elements
<1>. QED
  BY <1>1, SubSeqProperties

\* The last ranges of a table.
LEMMA Suffix ==
    ASSUME NEW data \in Seq(Ranges), NEW n \in 0 .. Len(data)
    PROVE  /\ SubSeq(data, n + 1, Len(data)) \in Seq(Ranges)
           /\ Len(SubSeq(data, n + 1, Len(data))) = Len(data) - n
           /\ \A i \in 1 .. Len(data) - n : SubSeq(data, n + 1, Len(data))[i] = data[n + i]
<1>1. Len(data) \in Nat /\ \A i \in n + 1 .. Len(data) : data[i] \in Ranges
  BY Elements
<1>. DEFINE s == SubSeq(data, n + 1, Len(data))
<1>2. s \in Seq(Ranges) /\ Len(s) = Len(data) - n
      /\ \A i \in 1 .. Len(s) : s[i] = data[n + 1 + i - 1]
  BY <1>1, SubSeqProperties
<1>. HIDE DEF s
<1>3. \A i \in 1 .. Len(data) - n : s[i] = data[n + i]
  BY <1>1, <1>2
<1>. QED
  BY <1>2, <1>3 DEF s

\* The ranges before one that begins at low, or that holds what is before low
\* and is not allowed.
LEMMA PrefixIsLeft ==
    ASSUME NEW data, IsTable(data), NEW n \in 0 .. Len(data) - 1, NEW low \in 0 .. Top,
           data[n + 1].startIndex <= low,
           n > 0 => data[n].dmiAllowed,
           \/ data[n + 1].startIndex = low
           \/ ~data[n + 1].dmiAllowed /\ low <= data[n + 1].endIndex + 1
    PROVE  IsLeft(data, SubSeq(data, 1, n), data[n + 1].startIndex, low)
<1>. DEFINE kept == SubSeq(data, 1, n)
            from == data[n + 1].startIndex
<1>1. data \in Seq(Ranges) /\ Len(data) \in Nat /\ n \in 0 .. Len(data) /\ n + 1 \in 1 .. Len(data)
  BY Elements DEF IsTable
<1>2. kept \in Seq(Ranges) /\ Len(kept) = n /\ \A i \in 1 .. n : kept[i] = data[i]
  BY <1>1, Prefix
<1>. HIDE DEF kept
<1>3. \A i \in 1 .. Len(data) : data[i].startIndex \in Nat /\ data[i].endIndex \in Nat
  BY <1>1, Elements
<1>4. from \in Nat /\ from <= low
  BY <1>1, <1>3
<1>5. \A i \in 1 .. Len(kept) :
          /\ kept[i].startIndex = data[i].startIndex
          /\ kept[i].dmiAllowed <=> data[i].dmiAllowed
          /\ kept[i].startIndex <= kept[i].endIndex
          /\ kept[i].endIndex <= data[i].endIndex
          /\ kept[i].endIndex < from
          /\ i < Len(kept) => kept[i].endIndex = data[i].endIndex
  <2>1. SUFFICES ASSUME NEW i \in 1 .. n
                 PROVE  data[i].startIndex <= data[i].endIndex /\ data[i].endIndex < from
                        /\ data[i].endIndex <= data[i].endIndex
    BY <1>2
  <2>2. i \in 1 .. Len(data) /\ i < n + 1
    BY <1>1
  <2>. QED
    BY <1>1, <1>3, <2>2 DEF IsTable
<1>6. n = 0 => from = 0
  BY DEF IsTable
<1>7. n > 0 => kept[n].dmiAllowed /\ kept[n].endIndex = from - 1
  <2>1. SUFFICES ASSUME n > 0 PROVE data[n].endIndex = from - 1
    BY <1>1, <1>2
  <2>2. n \in 1 .. Len(data) - 1 /\ n \in 1 .. Len(data)
    BY <1>1, <2>1
  <2>3. from = data[n].endIndex + 1
    BY <2>2 DEF IsTable
  <2>. QED
    BY <1>3, <2>2, <2>3
<1>8. ASSUME NEW x \in 0 .. Top, x < from
      PROVE  \E i \in 1 .. n : Holds(kept[i], x)
  <2>1. PICK i \in 1 .. Len(data) : Holds(data[i], x)
    BY DEF IsTable
  <2>2. i < n + 1
    <3>1. ASSUME n + 1 < i PROVE FALSE
      <4>1. data[n + 1].endIndex < data[i].startIndex /\ data[n + 1].startIndex <= data[n + 1].endIndex
        BY <1>1, <3>1 DEF IsTable
      <4>. QED
        BY <1>1, <1>3, <1>8, <2>1, <4>1 DEF Holds
    <3>2. i # n + 1
      BY <1>1, <1>3, <1>8, <2>1 DEF Holds
    <3>. QED
      BY <1>1, <3>1, <3>2
  <2>3. i \in 1 .. n
    BY <1>1, <2>2
  <2>. QED
    BY <1>2, <2>1, <2>3
<1>9. ASSUME NEW x \in 0 .. Top, from <= x, x < low
      PROVE  \E i \in 1 .. Len(data) : Holds(data[i], x) /\ ~data[i].dmiAllowed
  <2>1. ~data[n + 1].dmiAllowed /\ low <= data[n + 1].endIndex + 1
    BY <1>4, <1>9
  <2>2. Holds(data[n + 1], x)
    BY <1>1, <1>3, <1>9, <2>1 DEF Holds
  <2>. QED
    BY <1>1, <2>1, <2>2
<1>. HIDE DEF from
<1>10. Len(kept) <= Len(data)
  BY <1>1, <1>2
<1>. QED
  BY <1>2, <1>4, <1>5, <1>6, <1>7, <1>8, <1>9, <1>10 DEF IsLeft, kept, from

\* The ranges before an allowed one and what of it is before low.
LEMMA CutIsLeft ==
    ASSUME NEW data, IsTable(data), NEW k \in 1 .. Len(data), NEW low \in 0 .. Top,
           data[k].startIndex < low, low <= data[k].endIndex, data[k].dmiAllowed
    PROVE  IsLeft(data,
                  Append(SubSeq(data, 1, k - 1), Dmi!Entry(data[k].startIndex, low - 1, TRUE)),
                  low, low)
<1>. DEFINE pre  == SubSeq(data, 1, k - 1)
            e    == Dmi!Entry(data[k].startIndex, low - 1, TRUE)
            kept == Append(pre, e)
<1>1. data \in Seq(Ranges) /\ Len(data) \in Nat /\ k - 1 \in 0 .. Len(data) /\ low \in Nat
      /\ Top \in Nat
  BY Elements, ContentAssumption, TopAssumption DEF IsTable
<1>2. pre \in Seq(Ranges) /\ Len(pre) = k - 1 /\ \A i \in 1 .. k - 1 : pre[i] = data[i]
  BY <1>1, Prefix
<1>3. \A i \in 1 .. Len(data) : data[i].startIndex \in Nat /\ data[i].endIndex \in Nat
                                /\ data[i].dmiAllowed \in BOOLEAN
  BY <1>1, Elements
<1>4. e.startIndex = data[k].startIndex /\ e.endIndex = low - 1 /\ e.dmiAllowed
  BY DEF Dmi!Entry
<1>5. e \in Ranges
  BY <1>1, <1>3 DEF Dmi!Entry, Ranges
<1>. HIDE DEF pre, e
<1>12. kept \in Seq(Ranges) /\ Len(kept) = k
  BY <1>2, <1>5, AppendProperties
<1>13. \A i \in 1 .. k - 1 : kept[i] = data[i]
  BY <1>2, <1>5, AppendProperties
<1>14. kept[k] = e
  BY <1>2, <1>5, AppendProperties
<1>. HIDE DEF kept
<1>6. /\ kept[k].startIndex = data[k].startIndex /\ kept[k].endIndex = low - 1
      /\ kept[k].dmiAllowed
  BY <1>4, <1>14
<1>7. \A i \in 1 .. k :
          /\ kept[i].startIndex = data[i].startIndex
          /\ kept[i].dmiAllowed <=> data[i].dmiAllowed
          /\ kept[i].startIndex <= kept[i].endIndex
          /\ kept[i].endIndex <= data[i].endIndex
          /\ kept[i].endIndex < low
          /\ i < k => kept[i].endIndex = data[i].endIndex
  <2>. TAKE i \in 1 .. k
  <2>1. CASE i = k
    BY <1>1, <1>3, <1>4, <1>6, <2>1
  <2>2. CASE i < k
    <3>1. i \in 1 .. k - 1 /\ i \in 1 .. Len(data)
      BY <2>2
    <3>2. data[i].startIndex <= data[i].endIndex /\ data[i].endIndex < data[k].startIndex
      BY <2>2, <3>1 DEF IsTable
    <3>3. kept[i] = data[i]
      BY <1>13, <3>1
    <3>4. data[i].endIndex < low /\ data[i].endIndex <= data[i].endIndex
      BY <1>1, <1>3, <3>1, <3>2
    <3>. QED
      BY <3>2, <3>3, <3>4
  <2>. QED
    BY <2>1, <2>2
<1>9. ASSUME NEW x \in 0 .. Top, x < low
      PROVE  \E i \in 1 .. k : Holds(kept[i], x)
  <2>1. PICK i \in 1 .. Len(data) : Holds(data[i], x)
    BY DEF IsTable
  <2>2. CASE i < k
    BY <1>13, <2>1, <2>2
  <2>3. CASE i = k
    BY <1>1, <1>3, <1>4, <1>6, <1>9, <2>1, <2>3 DEF Holds
  <2>4. CASE k < i
    <3>1. data[k].endIndex < data[i].startIndex
      BY <2>4 DEF IsTable
    <3>. QED
      BY <1>1, <1>3, <1>9, <2>1, <3>1 DEF Holds
  <2>. QED
    BY <2>2, <2>3, <2>4
<1>10. \A x \in 0 .. Top : ~(low <= x /\ x < low)
  BY <1>1
<1>11. k <= Len(data) /\ ~(k = 0) /\ low <= low
  BY <1>1
<1>. QED
  BY <1>1, <1>6, <1>12, <1>7, <1>9, <1>10, <1>11 DEF IsLeft, kept, pre, e

\* LeftPart.
LEMMA LeftPartIsLeft ==
    ASSUME NEW data, IsTable(data), NEW k \in 1 .. Len(data), NEW low \in 0 .. Top,
           Holds(data[k], low)
    PROVE  IsLeft(data, Dmi!LeftPart(data, k, low).kept, Dmi!LeftPart(data, k, low).from, low)
<1>1. data \in Seq(Ranges) /\ Len(data) \in Nat
      /\ \A i \in 1 .. Len(data) : data[i].startIndex \in Nat /\ data[i].endIndex \in Nat
                                   /\ data[i].dmiAllowed \in BOOLEAN
  BY Elements DEF IsTable
<1>2. low \in Nat /\ data[k].startIndex <= low /\ low <= data[k].endIndex
  BY DEF Holds
<1>3. k > 1 => /\ k - 1 \in 1 .. Len(data) - 1 /\ k - 1 \in 1 .. Len(data)
               /\ data[k].startIndex = data[k - 1].endIndex + 1
               /\ data[k - 1].dmiAllowed # data[k].dmiAllowed
               /\ data[k - 1].startIndex <= data[k - 1].endIndex
  <2>1. ASSUME k > 1 PROVE k - 1 \in 1 .. Len(data) - 1 /\ k - 1 \in 1 .. Len(data) /\ (k - 1) + 1 = k
    BY <1>1, <2>1
  <2>. QED
    BY <2>1 DEF IsTable
<1>4. CASE data[k].startIndex < low /\ data[k].dmiAllowed
  BY <1>2, <1>4, CutIsLeft DEF Dmi!LeftPart
<1>5. CASE data[k].startIndex < low /\ ~data[k].dmiAllowed
  <2>1. k - 1 \in 0 .. Len(data) - 1 /\ (k - 1) + 1 = k
    BY <1>1
  <2>2. IsLeft(data, SubSeq(data, 1, k - 1), data[k].startIndex, low)
    BY <1>1, <1>2, <1>3, <1>5, <2>1, PrefixIsLeft
  <2>. QED
    BY <1>5, <2>2 DEF Dmi!LeftPart
<1>6. CASE data[k].startIndex = low /\ k > 1 /\ ~data[k - 1].dmiAllowed
  <2>1. k - 2 \in 0 .. Len(data) - 1 /\ (k - 2) + 1 = k - 1
    BY <1>1, <1>6
  <2>2. k - 2 > 0 => data[k - 2].dmiAllowed
    <3>1. ASSUME k - 2 > 0 PROVE k - 2 \in 1 .. Len(data) - 1 /\ k - 2 \in 1 .. Len(data)
      BY <1>1, <3>1
    <3>2. ASSUME k - 2 > 0 PROVE data[k - 2].dmiAllowed # data[k - 1].dmiAllowed
      BY <2>1, <3>1, <3>2 DEF IsTable
    <3>. QED
      BY <1>1, <1>6, <3>1, <3>2
  <2>3. IsLeft(data, SubSeq(data, 1, k - 2), data[k - 1].startIndex, low)
    BY <1>1, <1>2, <1>3, <1>6, <2>1, <2>2, PrefixIsLeft
  <2>4. ~(data[k].startIndex < low)
    BY <1>1, <1>2, <1>6
  <2>5. Dmi!LeftPart(data, k, low) = [kept |-> SubSeq(data, 1, k - 2), from |-> data[k - 1].startIndex]
    BY <1>6, <2>4, Zenon DEF Dmi!LeftPart
  <2>. QED
    BY <2>3, <2>5
<1>7. CASE data[k].startIndex = low /\ ~(k > 1 /\ ~data[k - 1].dmiAllowed)
  <2>1. k - 1 \in 0 .. Len(data) - 1 /\ (k - 1) + 1 = k
    BY <1>1
  <2>2. IsLeft(data, SubSeq(data, 1, k - 1), data[k].startIndex, low)
    BY <1>1, <1>2, <1>3, <1>7, <2>1, PrefixIsLeft
  <2>3. ~(data[k].startIndex < low)
    BY <1>1, <1>2, <1>7
  <2>4. Dmi!LeftPart(data, k, low) = [kept |-> SubSeq(data, 1, k - 1), from |-> low]
    BY <1>7, <2>3, Zenon DEF Dmi!LeftPart
  <2>. QED
    BY <1>7, <2>2, <2>4
<1>. QED
  BY <1>1, <1>2, <1>4, <1>5, <1>6, <1>7

\* The ranges behind one that ends at high, or that holds what is behind high
\* and is not allowed.
LEMMA SuffixIsRight ==
    ASSUME NEW data, IsTable(data), NEW n \in 1 .. Len(data), NEW high \in 0 .. Top,
           high <= data[n].endIndex,
           n < Len(data) => data[n + 1].dmiAllowed,
           \/ data[n].endIndex = high
           \/ ~data[n].dmiAllowed /\ data[n].startIndex <= high + 1
    PROVE  IsRight(data, SubSeq(data, n + 1, Len(data)), data[n].endIndex, high)
<1>. DEFINE kept == SubSeq(data, n + 1, Len(data))
            to   == data[n].endIndex
<1>1. data \in Seq(Ranges) /\ Len(data) \in Nat /\ n \in 0 .. Len(data)
  BY Elements DEF IsTable
<1>2. /\ kept \in Seq(Ranges) /\ Len(kept) = Len(data) - n
      /\ \A i \in 1 .. Len(data) - n : kept[i] = data[n + i]
  BY <1>1, Suffix
<1>. HIDE DEF kept
<1>3. \A i \in 1 .. Len(data) : data[i].startIndex \in Nat /\ data[i].endIndex \in Nat
  BY <1>1, Elements
<1>4. to \in Nat /\ high <= to /\ to <= Top
  <2>1. data[Len(data)].endIndex = Top /\ Len(data) \in 1 .. Len(data)
    BY <1>1 DEF IsTable
  <2>2. n < Len(data) => data[n].endIndex < data[Len(data)].startIndex
                         /\ data[Len(data)].startIndex <= data[Len(data)].endIndex
    BY <2>1 DEF IsTable
  <2>. QED
    BY <1>1, <1>3, <2>1, <2>2
<1>5. \A i \in 1 .. Len(data) - n :
          /\ kept[i].endIndex = data[n + i].endIndex
          /\ kept[i].dmiAllowed <=> data[n + i].dmiAllowed
          /\ kept[i].startIndex <= kept[i].endIndex
          /\ kept[i].startIndex >= data[n + i].startIndex
          /\ kept[i].startIndex > to
          /\ i > 1 => kept[i].startIndex = data[n + i].startIndex
  <2>1. SUFFICES ASSUME NEW i \in 1 .. Len(data) - n
                 PROVE  /\ data[n + i].startIndex <= data[n + i].endIndex
                        /\ data[n + i].startIndex > to
                        /\ data[n + i].startIndex >= data[n + i].startIndex
    BY <1>2
  <2>2. n + i \in 1 .. Len(data) /\ n < n + i
    BY <1>1
  <2>3. data[n].endIndex < data[n + i].startIndex /\ data[n + i].startIndex <= data[n + i].endIndex
    BY <2>2 DEF IsTable
  <2>. QED
    BY <1>3, <2>2, <2>3
<1>6. n = Len(data) => to = Top
  BY DEF IsTable
<1>7. n < Len(data) => kept[1].dmiAllowed /\ kept[1].startIndex = to + 1
  <2>1. SUFFICES ASSUME n < Len(data) PROVE data[n + 1].startIndex = to + 1
    BY <1>1, <1>2
  <2>2. n \in 1 .. Len(data) - 1
    BY <1>1, <2>1
  <2>. QED
    BY <2>2 DEF IsTable
<1>8. ASSUME NEW x \in 0 .. Top, to < x
      PROVE  \E i \in 1 .. Len(data) - n : Holds(kept[i], x)
  <2>1. PICK i \in 1 .. Len(data) : Holds(data[i], x)
    BY DEF IsTable
  <2>2. ASSUME i < n PROVE FALSE
    <3>1. data[i].endIndex < data[n].startIndex /\ data[n].startIndex <= data[n].endIndex
      BY <2>2 DEF IsTable
    <3>. QED
      BY <1>3, <1>8, <2>1, <3>1 DEF Holds
  <2>3. i # n
    BY <1>3, <1>8, <2>1 DEF Holds
  <2>4. i - n \in 1 .. Len(data) - n /\ n + (i - n) = i
    BY <1>1, <2>2, <2>3
  <2>. QED
    BY <1>2, <2>1, <2>4
<1>9. ASSUME NEW x \in 0 .. Top, high < x, x <= to
      PROVE  \E i \in 1 .. Len(data) : Holds(data[i], x) /\ ~data[i].dmiAllowed
  <2>1. ~data[n].dmiAllowed /\ data[n].startIndex <= high + 1
    BY <1>4, <1>9
  <2>2. Holds(data[n], x)
    BY <1>3, <1>9, <2>1 DEF Holds
  <2>. QED
    BY <2>1, <2>2
<1>. HIDE DEF to
<1>10. /\ Len(kept) <= Len(data) /\ Len(data) - Len(kept) = n
       /\ Len(kept) = 0 <=> n = Len(data)
       /\ Len(kept) > 0 <=> n < Len(data)
  BY <1>1, <1>2
<1>11. \A i \in 1 .. Len(kept) :
          /\ kept[i].endIndex = data[n + i].endIndex
          /\ kept[i].dmiAllowed <=> data[n + i].dmiAllowed
          /\ kept[i].startIndex <= kept[i].endIndex
          /\ kept[i].startIndex >= data[n + i].startIndex
          /\ kept[i].startIndex > to
          /\ i > 1 => kept[i].startIndex = data[n + i].startIndex
  BY <1>2, <1>5
<1>12. IsRight(data, kept, to, high)
  BY <1>2, <1>4, <1>6, <1>7, <1>8, <1>9, <1>10, <1>11 DEF IsRight
<1>. QED
  BY <1>12 DEF kept, to

\* What of an allowed range is behind high, and the ranges behind it.
LEMMA CutIsRight ==
    ASSUME NEW data, IsTable(data), NEW m \in 1 .. Len(data), NEW high \in 0 .. Top,
           data[m].startIndex <= high, high < data[m].endIndex, data[m].dmiAllowed
    PROVE  IsRight(data,
                   << Dmi!Entry(high + 1, data[m].endIndex, TRUE) >>
                      \o SubSeq(data, m + 1, Len(data)),
                   high, high)
<1>. DEFINE rest == SubSeq(data, m + 1, Len(data))
            e    == Dmi!Entry(high + 1, data[m].endIndex, TRUE)
            one  == << e >>
            kept == one \o rest
<1>1. data \in Seq(Ranges) /\ Len(data) \in Nat /\ m \in 0 .. Len(data) /\ high \in Nat
      /\ Top \in Nat /\ high <= Top
  BY Elements, ContentAssumption, TopAssumption DEF IsTable
<1>2. /\ rest \in Seq(Ranges) /\ Len(rest) = Len(data) - m
      /\ \A i \in 1 .. Len(data) - m : rest[i] = data[m + i]
  BY <1>1, Suffix
<1>3. \A i \in 1 .. Len(data) : data[i].startIndex \in Nat /\ data[i].endIndex \in Nat
                                /\ data[i].dmiAllowed \in BOOLEAN
  BY <1>1, Elements
<1>4. e.startIndex = high + 1 /\ e.endIndex = data[m].endIndex /\ e.dmiAllowed
  BY DEF Dmi!Entry
<1>5. e \in Ranges
  BY <1>1, <1>3 DEF Dmi!Entry, Ranges
<1>. HIDE DEF rest, e
<1>6. one \in Seq(Ranges) /\ Len(one) = 1 /\ one[1] = e
  BY <1>5
<1>. HIDE DEF one
<1>7. /\ kept \in Seq(Ranges) /\ Len(kept) = Len(data) - m + 1
      /\ kept[1] = e
      /\ \A i \in 1 .. Len(kept) : i > 1 => kept[i] = data[m - 1 + i]
  <2>1. /\ kept \in Seq(Ranges) /\ Len(kept) = 1 + Len(rest)
        /\ \A i \in 1 .. 1 + Len(rest) : kept[i] = IF i <= 1 THEN one[i] ELSE rest[i - 1]
    <3>1. /\ kept \in Seq(Ranges) /\ Len(kept) = Len(one) + Len(rest)
          /\ \A i \in 1 .. Len(one) + Len(rest) :
                kept[i] = IF i <= Len(one) THEN one[i] ELSE rest[i - Len(one)]
      <4>1. one \in Seq(Ranges) /\ rest \in Seq(Ranges)
        BY <1>2, <1>6
      <4>. QED
        BY <4>1, ConcatProperties
    <3>. QED
      BY <1>6, <3>1
  <2>. HIDE DEF kept
  <2>2. 1 \in 1 .. 1 + Len(rest)
    BY <1>1, <1>2
  <2>3. ASSUME NEW i \in 1 .. Len(kept), i > 1 PROVE kept[i] = data[m - 1 + i]
    <3>1. /\ i \in 1 .. 1 + Len(rest) /\ ~(i <= 1)
          /\ i - 1 \in 1 .. Len(data) - m /\ m + (i - 1) = m - 1 + i
      BY <1>1, <1>2, <2>1, <2>3
    <3>2. kept[i] = rest[i - 1]
      BY <2>1, <3>1
    <3>. QED
      BY <1>2, <3>1, <3>2
  <2>. QED
    BY <1>1, <1>2, <1>6, <2>1, <2>2, <2>3
<1>. HIDE DEF kept
<1>8. kept[1].startIndex = high + 1 /\ kept[1].endIndex = data[m].endIndex /\ kept[1].dmiAllowed
  BY <1>4, <1>7
<1>9. /\ Len(data) - Len(kept) = m - 1 /\ Len(kept) <= Len(data)
      /\ ~(Len(kept) = 0) /\ 1 \in 1 .. Len(kept)
  BY <1>1, <1>7
<1>10. \A i \in 1 .. Len(kept) :
          /\ kept[i].endIndex = data[m - 1 + i].endIndex
          /\ kept[i].dmiAllowed <=> data[m - 1 + i].dmiAllowed
          /\ kept[i].startIndex <= kept[i].endIndex
          /\ kept[i].startIndex >= data[m - 1 + i].startIndex
          /\ kept[i].startIndex > high
          /\ i > 1 => kept[i].startIndex = data[m - 1 + i].startIndex
  <2>. TAKE i \in 1 .. Len(kept)
  <2>1. CASE i = 1
    <3>1. m - 1 + i = m
      BY <2>1
    <3>. QED
      BY <1>1, <1>3, <1>8, <2>1, <3>1
  <2>2. CASE i > 1
    <3>1. m - 1 + i \in 1 .. Len(data) /\ m < m - 1 + i
      BY <1>1, <1>7, <2>2
    <3>2. /\ data[m - 1 + i].startIndex <= data[m - 1 + i].endIndex
          /\ data[m].endIndex < data[m - 1 + i].startIndex
      BY <3>1 DEF IsTable
    <3>3. kept[i] = data[m - 1 + i]
      BY <1>7, <2>2
    <3>4. /\ data[m - 1 + i].startIndex > high
          /\ data[m - 1 + i].startIndex >= data[m - 1 + i].startIndex
      BY <1>1, <1>3, <3>1, <3>2
    <3>. QED
      BY <3>2, <3>3, <3>4
  <2>. QED
    BY <1>7, <2>1, <2>2
<1>11. ASSUME NEW x \in 0 .. Top, high < x
       PROVE  \E i \in 1 .. Len(kept) : Holds(kept[i], x)
  <2>1. PICK i \in 1 .. Len(data) : Holds(data[i], x)
    BY DEF IsTable
  <2>2. CASE i < m
    <3>1. data[i].endIndex < data[m].startIndex
      BY <2>2 DEF IsTable
    <3>. QED
      BY <1>1, <1>3, <1>11, <2>1, <3>1 DEF Holds
  <2>3. CASE i = m
    <3>1. Holds(kept[1], x)
      BY <1>1, <1>3, <1>8, <1>11, <2>1, <2>3 DEF Holds
    <3>. QED
      BY <1>9, <3>1
  <2>4. CASE m < i
    <3>1. i - m + 1 \in 1 .. Len(kept) /\ i - m + 1 > 1 /\ m - 1 + (i - m + 1) = i
      BY <1>1, <1>7, <2>4
    <3>2. kept[i - m + 1] = data[i]
      BY <1>7, <3>1
    <3>. QED
      BY <2>1, <3>1, <3>2
  <2>. QED
    BY <2>2, <2>3, <2>4
<1>12. \A x \in 0 .. Top : ~(high < x /\ x <= high)
  BY <1>1
<1>13. high <= high
  BY <1>1
<1>14. IsRight(data, kept, high, high)
  BY <1>1, <1>7, <1>8, <1>9, <1>10, <1>11, <1>12, <1>13 DEF IsRight
<1>. QED
  BY <1>14 DEF kept, rest, one, e

\* RightPart.
LEMMA RightPartIsRight ==
    ASSUME NEW data, IsTable(data), NEW m \in 1 .. Len(data), NEW high \in 0 .. Top,
           Holds(data[m], high)
    PROVE  IsRight(data, Dmi!RightPart(data, m, high).kept, Dmi!RightPart(data, m, high).to, high)
<1>1. data \in Seq(Ranges) /\ Len(data) \in Nat
      /\ \A i \in 1 .. Len(data) : data[i].startIndex \in Nat /\ data[i].endIndex \in Nat
                                   /\ data[i].dmiAllowed \in BOOLEAN
  BY Elements DEF IsTable
<1>2. high \in Nat /\ data[m].startIndex <= high /\ high <= data[m].endIndex
  BY DEF Holds
<1>3. m < Len(data) => /\ m \in 1 .. Len(data) - 1 /\ m + 1 \in 1 .. Len(data)
                       /\ data[m + 1].startIndex = data[m].endIndex + 1
                       /\ data[m].dmiAllowed # data[m + 1].dmiAllowed
                       /\ data[m + 1].startIndex <= data[m + 1].endIndex
  <2>1. ASSUME m < Len(data) PROVE m \in 1 .. Len(data) - 1 /\ m + 1 \in 1 .. Len(data)
    BY <1>1, <2>1
  <2>. QED
    BY <2>1 DEF IsTable
<1>4. CASE data[m].endIndex > high /\ data[m].dmiAllowed
  <2>1. IsRight(data, << Dmi!Entry(high + 1, data[m].endIndex, TRUE) >>
                      \o SubSeq(data, m + 1, Len(data)), high, high)
    BY <1>1, <1>2, <1>4, CutIsRight
  <2>2. Dmi!RightPart(data, m, high) =
            [kept |-> << Dmi!Entry(high + 1, data[m].endIndex, TRUE) >>
                         \o SubSeq(data, m + 1, Len(data)), to |-> high]
    BY <1>4, Zenon DEF Dmi!RightPart
  <2>. QED
    BY <2>1, <2>2
<1>5. CASE data[m].endIndex > high /\ ~data[m].dmiAllowed
  <2>1. IsRight(data, SubSeq(data, m + 1, Len(data)), data[m].endIndex, high)
    BY <1>1, <1>2, <1>3, <1>5, SuffixIsRight
  <2>2. Dmi!RightPart(data, m, high) =
            [kept |-> SubSeq(data, m + 1, Len(data)), to |-> data[m].endIndex]
    BY <1>5, Zenon DEF Dmi!RightPart
  <2>. QED
    BY <2>1, <2>2
<1>6. CASE data[m].endIndex = high /\ m < Len(data) /\ ~data[m + 1].dmiAllowed
  <2>1. (m + 1) + 1 = m + 2
    BY <1>1
  <2>2. m + 1 < Len(data) => data[m + 2].dmiAllowed
    <3>1. ASSUME m + 1 < Len(data) PROVE m + 1 \in 1 .. Len(data) - 1 /\ m + 2 \in 1 .. Len(data)
      BY <1>1, <3>1
    <3>2. ASSUME m + 1 < Len(data) PROVE data[m + 1].dmiAllowed # data[m + 2].dmiAllowed
      BY <2>1, <3>1, <3>2 DEF IsTable
    <3>. QED
      BY <1>1, <1>3, <1>6, <3>1, <3>2
  <2>3. IsRight(data, SubSeq(data, m + 2, Len(data)), data[m + 1].endIndex, high)
    BY <1>1, <1>2, <1>3, <1>6, <2>1, <2>2, SuffixIsRight
  <2>4. ~(data[m].endIndex > high)
    BY <1>1, <1>2, <1>6
  <2>5. Dmi!RightPart(data, m, high) =
            [kept |-> SubSeq(data, m + 2, Len(data)), to |-> data[m + 1].endIndex]
    BY <1>6, <2>4, Zenon DEF Dmi!RightPart
  <2>. QED
    BY <2>3, <2>5
<1>7. CASE data[m].endIndex = high /\ ~(m < Len(data) /\ ~data[m + 1].dmiAllowed)
  <2>1. IsRight(data, SubSeq(data, m + 1, Len(data)), data[m].endIndex, high)
    BY <1>1, <1>2, <1>3, <1>7, SuffixIsRight
  <2>2. ~(data[m].endIndex > high)
    BY <1>1, <1>2, <1>7
  <2>3. Dmi!RightPart(data, m, high) =
            [kept |-> SubSeq(data, m + 1, Len(data)), to |-> high]
    BY <1>7, <2>2, Zenon DEF Dmi!RightPart
  <2>. QED
    BY <1>7, <2>1, <2>3
<1>. QED
  BY <1>1, <1>2, <1>4, <1>5, <1>6, <1>7

-----------------------------------------------------------------------------
\* Three parts of a list, the middle one a single range.
LEMMA Concatenated ==
    ASSUME NEW l \in Seq(Ranges), NEW e \in Ranges, NEW r \in Seq(Ranges)
    PROVE  /\ l \o << e >> \o r \in Seq(Ranges)
           /\ Len(l \o << e >> \o r) = Len(l) + 1 + Len(r)
           /\ \A i \in 1 .. Len(l) : (l \o << e >> \o r)[i] = l[i]
           /\ (l \o << e >> \o r)[Len(l) + 1] = e
           /\ \A i \in 1 .. Len(r) : (l \o << e >> \o r)[Len(l) + 1 + i] = r[i]
<1>. DEFINE one  == << e >>
            both == l \o one
            all  == both \o r
<1>1. one \in Seq(Ranges) /\ Len(one) = 1 /\ one[1] = e
  OBVIOUS
<1>2. Len(l) \in Nat /\ Len(r) \in Nat
  BY Elements
<1>. HIDE DEF one
<1>3. /\ both \in Seq(Ranges) /\ Len(both) = Len(l) + Len(one)
      /\ \A i \in 1 .. Len(l) + Len(one) :
            both[i] = IF i <= Len(l) THEN l[i] ELSE one[i - Len(l)]
  BY <1>1, ConcatProperties
<1>. HIDE DEF both
<1>4. /\ both \in Seq(Ranges) /\ Len(both) = Len(l) + 1
      /\ \A i \in 1 .. Len(l) : both[i] = l[i]
      /\ both[Len(l) + 1] = e
  <2>1. \A i \in 1 .. Len(l) : i \in 1 .. Len(l) + Len(one) /\ i <= Len(l)
    BY <1>1, <1>2
  <2>2. /\ Len(l) + 1 \in 1 .. Len(l) + Len(one) /\ ~(Len(l) + 1 <= Len(l))
        /\ Len(l) + 1 - Len(l) = 1
    BY <1>1, <1>2
  <2>3. \A i \in 1 .. Len(l) : both[i] = l[i]
    BY <1>3, <2>1
  <2>4. both[Len(l) + 1] = one[Len(l) + 1 - Len(l)]
    BY <1>3, <2>2
  <2>. QED
    BY <1>1, <1>3, <2>2, <2>3, <2>4
<1>5. /\ all \in Seq(Ranges) /\ Len(all) = Len(both) + Len(r)
      /\ \A i \in 1 .. Len(both) + Len(r) :
            all[i] = IF i <= Len(both) THEN both[i] ELSE r[i - Len(both)]
  BY <1>4, ConcatProperties
<1>. HIDE DEF all
<1>6. \A i \in 1 .. Len(l) + 1 : all[i] = both[i]
  <2>1. \A i \in 1 .. Len(l) + 1 : i \in 1 .. Len(both) + Len(r) /\ i <= Len(both)
    BY <1>2, <1>4
  <2>. QED
    BY <1>5, <2>1
<1>7. \A i \in 1 .. Len(r) : all[Len(l) + 1 + i] = r[i]
  <2>. TAKE i \in 1 .. Len(r)
  <2>1. /\ Len(l) + 1 + i \in 1 .. Len(both) + Len(r) /\ ~(Len(l) + 1 + i <= Len(both))
        /\ Len(l) + 1 + i - Len(both) = i
    BY <1>2, <1>4
  <2>2. all[Len(l) + 1 + i] = r[Len(l) + 1 + i - Len(both)]
    BY <1>5, <2>1
  <2>. QED
    BY <2>1, <2>2
<1>8. Len(l) + 1 \in 1 .. Len(l) + 1 /\ \A i \in 1 .. Len(l) : i \in 1 .. Len(l) + 1
  BY <1>2
<1>9. \A i \in 1 .. Len(l) : all[i] = l[i]
  BY <1>4, <1>6, <1>8
<1>10. all[Len(l) + 1] = e
  BY <1>4, <1>6, <1>8
<1>11. Len(all) = Len(l) + 1 + Len(r)
  BY <1>2, <1>4, <1>5
<1>. QED
  BY <1>5, <1>7, <1>9, <1>10, <1>11 DEF all, both, one

\* What is left on both sides of a range that is not allowed any more makes a
\* table with it, which grants what was granted before outside of low .. high.
LEMMA Joined ==
    ASSUME NEW data, NEW set, IsTable(data), Grants(data, set),
           NEW low \in 0 .. Top, NEW high \in 0 .. Top, low <= high,
           NEW l, NEW from, IsLeft(data, l, from, low),
           NEW r, NEW to, IsRight(data, r, to, high)
    PROVE  /\ IsTable(l \o << Dmi!Entry(from, to, FALSE) >> \o r)
           /\ Grants(l \o << Dmi!Entry(from, to, FALSE) >> \o r, set \cup (low .. high))
<1>. DEFINE e == Dmi!Entry(from, to, FALSE)
            n == Len(l)
            p == Len(r)
            q == Len(data) - p
            new == l \o << e >> \o r
<1>1. /\ data \in Seq(Ranges) /\ l \in Seq(Ranges) /\ r \in Seq(Ranges)
      /\ from \in Nat /\ to \in Nat /\ from <= low /\ high <= to /\ to <= Top
      /\ n <= Len(data) /\ p <= Len(data)
  BY DEF IsTable, IsLeft, IsRight
<1>2. n \in Nat /\ p \in Nat /\ Len(data) \in Nat /\ q \in Nat /\ low \in Nat /\ high \in Nat
      /\ Top \in Nat
  BY <1>1, Elements, ContentAssumption, TopAssumption
<1>3. /\ e.startIndex = from /\ e.endIndex = to /\ ~e.dmiAllowed
      /\ e \in Ranges
  BY <1>1 DEF Dmi!Entry, Ranges
<1>. HIDE DEF e
<1>4. /\ new \in Seq(Ranges) /\ Len(new) = n + 1 + p
      /\ \A i \in 1 .. n : new[i] = l[i]
      /\ new[n + 1] = e
      /\ \A i \in 1 .. p : new[n + 1 + i] = r[i]
  BY <1>1, <1>3, Concatenated
<1>5. \A i \in 1 .. n :
          /\ new[i] = l[i]
          /\ l[i].startIndex = data[i].startIndex
          /\ l[i].dmiAllowed <=> data[i].dmiAllowed
          /\ l[i].startIndex <= l[i].endIndex
          /\ l[i].endIndex <= data[i].endIndex
          /\ l[i].endIndex < from
          /\ i < n => l[i].endIndex = data[i].endIndex
  BY <1>4 DEF IsLeft
<1>6. \A i \in 1 .. p :
          /\ new[n + 1 + i] = r[i]
          /\ r[i].endIndex = data[q + i].endIndex
          /\ r[i].dmiAllowed <=> data[q + i].dmiAllowed
          /\ r[i].startIndex <= r[i].endIndex
          /\ r[i].startIndex >= data[q + i].startIndex
          /\ r[i].startIndex > to
          /\ i > 1 => r[i].startIndex = data[q + i].startIndex
  BY <1>4 DEF IsRight
<1>7. /\ new[n + 1].startIndex = from /\ new[n + 1].endIndex = to /\ ~new[n + 1].dmiAllowed
      /\ n = 0 => from = 0
      /\ n > 0 => l[n].dmiAllowed /\ l[n].endIndex = from - 1
      /\ p = 0 => to = Top
      /\ p > 0 => r[1].dmiAllowed /\ r[1].startIndex = to + 1
  BY <1>3, <1>4 DEF IsLeft, IsRight
<1>8. /\ \A x \in 0 .. Top : x < from => \E i \in 1 .. n : Holds(l[i], x)
      /\ \A x \in 0 .. Top : to < x => \E i \in 1 .. p : Holds(r[i], x)
      /\ \A x \in 0 .. Top : (from <= x /\ x < low) \/ (high < x /\ x <= to) =>
            \E i \in 1 .. Len(data) : Holds(data[i], x) /\ ~data[i].dmiAllowed
  BY DEF IsLeft, IsRight
<1>. HIDE DEF new
<1>9. \A i \in 1 .. n + 1 + p : i \in 1 .. n \/ i = n + 1
                                \/ (i - n - 1 \in 1 .. p /\ n + 1 + (i - n - 1) = i)
  BY <1>2
<1>10. /\ \A i \in 1 .. n : i \in 1 .. Len(data)
       /\ \A i \in 1 .. p : q + i \in 1 .. Len(data)
       /\ \A i \in 1 .. p : n + 1 + i \in 1 .. n + 1 + p
       /\ \A i \in 1 .. n : i \in 1 .. n + 1 + p
       /\ n + 1 \in 1 .. n + 1 + p
  BY <1>1, <1>2
<1>. HIDE DEF n, p, q
<1>11. \A i \in 1 .. Len(data) : data[i].startIndex \in Nat /\ data[i].endIndex \in Nat
                                 /\ data[i].dmiAllowed \in BOOLEAN
  BY <1>1, Elements
<1>12. \A i \in 1 .. n + 1 + p : new[i].startIndex \in Nat /\ new[i].endIndex \in Nat
                                 /\ new[i].dmiAllowed \in BOOLEAN
  BY <1>4, Elements
\* The ranges follow each other.
<1>13. /\ new[1].startIndex = 0
       /\ new[n + 1 + p].endIndex = Top
  <2>1. ASSUME n = 0 PROVE new[1].startIndex = 0
    BY <1>2, <1>7, <2>1
  <2>2. ASSUME n > 0 PROVE new[1].startIndex = 0
    <3>1. 1 \in 1 .. n
      BY <1>2, <2>2
    <3>2. new[1] = l[1] /\ l[1].startIndex = data[1].startIndex
      BY <1>5, <3>1
    <3>. QED
      BY <3>2 DEF IsTable
  <2>3. new[1].startIndex = 0
    BY <1>2, <2>1, <2>2
  <2>4. ASSUME p = 0 PROVE new[n + 1 + p].endIndex = Top
    BY <1>2, <1>7, <2>4
  <2>5. ASSUME p > 0 PROVE new[n + 1 + p].endIndex = Top
    <3>1. p \in 1 .. p /\ q + p = Len(data)
      BY <1>2, <2>5 DEF q
    <3>2. new[n + 1 + p] = r[p] /\ r[p].endIndex = data[Len(data)].endIndex
      BY <1>6, <3>1
    <3>. QED
      BY <3>2 DEF IsTable
  <2>. QED
    BY <1>2, <2>3, <2>4, <2>5
<1>14. \A i \in 1 .. n + 1 + p : new[i].startIndex <= new[i].endIndex
  <2>. TAKE i \in 1 .. n + 1 + p
  <2>1. CASE i \in 1 .. n
    BY <1>5, <2>1
  <2>2. CASE i = n + 1
    BY <1>1, <1>2, <1>7, <2>2
  <2>3. CASE i - n - 1 \in 1 .. p /\ n + 1 + (i - n - 1) = i
    BY <1>6, <2>3
  <2>. QED
    BY <1>9, <2>1, <2>2, <2>3
<1>15. \A i, j \in 1 .. n + 1 + p : i < j => new[i].endIndex < new[j].startIndex
  <2>1. \A i \in 1 .. n + 1 + p :
            /\ i <= n => new[i].endIndex < from
            /\ i > n + 1 => new[i].startIndex > to
    <3>. TAKE i \in 1 .. n + 1 + p
    <3>1. ASSUME i <= n PROVE new[i].endIndex < from
      <4>1. i \in 1 .. n
        BY <1>2, <3>1
      <4>. QED
        BY <1>5, <4>1
    <3>2. ASSUME i > n + 1 PROVE new[i].startIndex > to
      <4>1. i - n - 1 \in 1 .. p /\ n + 1 + (i - n - 1) = i
        BY <1>2, <1>9, <3>2
      <4>. QED
        BY <1>6, <4>1
    <3>. QED
      BY <3>1, <3>2
  <2>2. SUFFICES ASSUME NEW i \in 1 .. n + 1 + p, NEW j \in 1 .. n + 1 + p, i < j
                 PROVE  new[i].endIndex < new[j].startIndex
    OBVIOUS
  <2>3. CASE j <= n
    <3>1. i \in 1 .. n /\ j \in 1 .. n /\ i \in 1 .. Len(data) /\ j \in 1 .. Len(data)
      BY <1>2, <1>10, <2>2, <2>3
    <3>2. data[i].endIndex < data[j].startIndex
      BY <2>2, <3>1 DEF IsTable
    <3>3. new[i].endIndex <= data[i].endIndex /\ new[j].startIndex = data[j].startIndex
      BY <1>5, <3>1
    <3>. QED
      BY <1>11, <1>12, <3>1, <3>2, <3>3
  <2>4. CASE i > n + 1
    <3>1. /\ i - n - 1 \in 1 .. p /\ n + 1 + (i - n - 1) = i
          /\ j - n - 1 \in 1 .. p /\ n + 1 + (j - n - 1) = j
      BY <1>2, <1>9, <2>2, <2>4
    <3>. DEFINE i1 == i - n - 1
                j1 == j - n - 1
    <3>2. i1 \in 1 .. p /\ n + 1 + i1 = i /\ j1 \in 1 .. p /\ n + 1 + j1 = j /\ q + i1 < q + j1
          /\ q + i1 \in 1 .. Len(data) /\ q + j1 \in 1 .. Len(data)
      BY <1>2, <1>10, <2>2, <3>1
    <3>. HIDE DEF i1, j1
    <3>3. data[q + i1].endIndex < data[q + j1].startIndex
      BY <3>2 DEF IsTable
    <3>4. new[i].endIndex = data[q + i1].endIndex /\ new[j].startIndex >= data[q + j1].startIndex
      BY <1>6, <3>2
    <3>. QED
      BY <1>11, <1>12, <3>2, <3>3, <3>4
  <2>5. CASE j > n /\ i <= n + 1
    <3>1. /\ new[i].endIndex \in Nat /\ new[i].endIndex <= to
          /\ i <= n => new[i].endIndex < from
      BY <1>1, <1>2, <1>7, <1>12, <2>1, <2>5
    <3>2. /\ new[j].startIndex \in Nat /\ new[j].startIndex >= from
          /\ j > n + 1 => new[j].startIndex > to
      BY <1>1, <1>2, <1>7, <1>12, <2>1, <2>5
    <3>. QED
      BY <1>1, <1>2, <2>2, <2>5, <3>1, <3>2
  <2>. QED
    BY <1>2, <2>3, <2>4, <2>5
<1>16. \A i \in 1 .. n + p :
          /\ new[i + 1].startIndex = new[i].endIndex + 1
          /\ new[i].dmiAllowed # new[i + 1].dmiAllowed
  <2>. TAKE i \in 1 .. n + p
  <2>1. i \in 1 .. n + 1 + p /\ i + 1 \in 1 .. n + 1 + p
    BY <1>2
  <2>2. CASE i < n
    <3>1. i \in 1 .. n /\ i + 1 \in 1 .. n /\ i \in 1 .. Len(data) - 1
      BY <1>1, <1>2, <2>2 DEF n
    <3>2. /\ data[i + 1].startIndex = data[i].endIndex + 1
          /\ data[i].dmiAllowed # data[i + 1].dmiAllowed
      BY <3>1 DEF IsTable
    <3>3. /\ new[i].endIndex = data[i].endIndex /\ new[i + 1].startIndex = data[i + 1].startIndex
          /\ new[i].dmiAllowed <=> data[i].dmiAllowed
          /\ new[i + 1].dmiAllowed <=> data[i + 1].dmiAllowed
      BY <1>5, <2>2, <3>1
    <3>4. i \in 1 .. Len(data) /\ i + 1 \in 1 .. Len(data)
      BY <1>10, <3>1
    <3>. QED
      BY <1>11, <1>12, <2>1, <3>2, <3>3, <3>4
  <2>3. CASE i = n
    <3>1. n > 0 /\ n \in 1 .. n
      BY <1>2, <2>3
    <3>2. new[n] = l[n] /\ new[n].endIndex = from - 1 /\ new[n].dmiAllowed
      BY <1>5, <1>7, <3>1
    <3>3. new[n + 1].startIndex = new[n].endIndex + 1
      BY <1>1, <1>7, <3>2
    <3>4. new[n].dmiAllowed # new[n + 1].dmiAllowed
      BY <1>7, <3>2
    <3>. QED
      BY <2>3, <3>3, <3>4
  <2>4. CASE i = n + 1
    <3>1. p > 0 /\ 1 \in 1 .. p /\ n + 1 + 1 = i + 1
      BY <1>2, <2>4
    <3>2. new[i + 1] = r[1] /\ new[i + 1].startIndex = to + 1 /\ new[i + 1].dmiAllowed
      BY <1>6, <1>7, <3>1
    <3>. QED
      BY <1>1, <1>7, <2>4, <3>2
  <2>5. CASE i > n + 1
    <3>. DEFINE i1 == i - n - 1
    <3>1. /\ i1 \in 1 .. p /\ i1 + 1 \in 1 .. p /\ n + 1 + i1 = i /\ n + 1 + (i1 + 1) = i + 1
          /\ q + i1 \in 1 .. Len(data) - 1 /\ (q + i1) + 1 = q + (i1 + 1) /\ i1 + 1 > 1
      BY <1>1, <1>2, <2>5 DEF q
    <3>. HIDE DEF i1
    <3>2. /\ data[q + (i1 + 1)].startIndex = data[q + i1].endIndex + 1
          /\ data[q + i1].dmiAllowed # data[q + (i1 + 1)].dmiAllowed
      BY <3>1 DEF IsTable
    <3>3. /\ new[i].endIndex = data[q + i1].endIndex
          /\ new[i + 1].startIndex = data[q + (i1 + 1)].startIndex
          /\ new[i].dmiAllowed <=> data[q + i1].dmiAllowed
          /\ new[i + 1].dmiAllowed <=> data[q + (i1 + 1)].dmiAllowed
      BY <1>6, <3>1
    <3>4. q + i1 \in 1 .. Len(data) /\ q + (i1 + 1) \in 1 .. Len(data)
      BY <1>10, <3>1
    <3>. QED
      BY <1>11, <1>12, <2>1, <3>2, <3>3, <3>4
  <2>. QED
    BY <1>2, <2>2, <2>3, <2>4, <2>5
<1>17. \A x \in 0 .. Top : \E i \in 1 .. n + 1 + p : Holds(new[i], x)
  <2>. TAKE x \in 0 .. Top
  <2>1. CASE x < from
    <3>1. PICK i \in 1 .. n : Holds(l[i], x)
      BY <1>8, <2>1
    <3>. QED
      BY <1>5, <1>10, <3>1
  <2>2. CASE to < x
    <3>1. PICK i \in 1 .. p : Holds(r[i], x)
      BY <1>8, <2>2
    <3>. QED
      BY <1>6, <1>10, <3>1
  <2>3. CASE from <= x /\ x <= to
    <3>1. Holds(new[n + 1], x)
      BY <1>7, <2>3 DEF Holds
    <3>. QED
      BY <1>10, <3>1
  <2>. QED
    BY <1>1, <1>2, <2>1, <2>2, <2>3
<1>18. IsTable(new)
  <2>1. Len(new) >= 1 /\ Len(new) - 1 = n + p
    BY <1>2, <1>4
  <2>. QED
    BY <1>4, <1>13, <1>14, <1>15, <1>16, <1>17, <2>1 DEF IsTable
\* What they grant.
<1>19. \A i \in 1 .. n + 1 + p : \A x \in 0 .. Top :
           Holds(new[i], x) => (new[i].dmiAllowed <=> x \notin set \cup (low .. high))
  <2>1. SUFFICES ASSUME NEW i \in 1 .. n + 1 + p, NEW x \in 0 .. Top, Holds(new[i], x)
                 PROVE  new[i].dmiAllowed <=> x \notin set \cup (low .. high)
    OBVIOUS
  <2>2. \A k \in 1 .. Len(data) : Holds(data[k], x) => (data[k].dmiAllowed <=> x \notin set)
    BY DEF Grants
  <2>3. CASE i \in 1 .. n
    <3>1. /\ new[i].startIndex = data[i].startIndex /\ new[i].endIndex <= data[i].endIndex
          /\ new[i].endIndex < from /\ (new[i].dmiAllowed <=> data[i].dmiAllowed)
      BY <1>5, <2>3
    <3>2. Holds(data[i], x) /\ x < low
      BY <1>1, <1>2, <1>10, <1>11, <1>12, <2>1, <2>3, <3>1 DEF Holds
    <3>3. x \notin low .. high
      BY <1>2, <3>2
    <3>. QED
      BY <1>10, <2>2, <2>3, <3>1, <3>2, <3>3
  <2>4. CASE i - n - 1 \in 1 .. p /\ n + 1 + (i - n - 1) = i
    <3>. DEFINE i1 == i - n - 1
    <3>0. i1 \in 1 .. p /\ n + 1 + i1 = i
      BY <2>4
    <3>. HIDE DEF i1
    <3>1. /\ new[i].endIndex = data[q + i1].endIndex
          /\ new[i].startIndex >= data[q + i1].startIndex
          /\ new[i].startIndex > to /\ (new[i].dmiAllowed <=> data[q + i1].dmiAllowed)
      BY <1>6, <3>0
    <3>2. Holds(data[q + i1], x) /\ x > high
      <4>1. q + i1 \in 1 .. Len(data)
        BY <1>10, <3>0
      <4>2. /\ data[q + i1].startIndex \in Nat /\ data[q + i1].endIndex \in Nat
            /\ new[i].startIndex \in Nat /\ new[i].endIndex \in Nat
        BY <1>11, <1>12, <4>1
      <4>3. new[i].startIndex <= x /\ x <= new[i].endIndex
        BY <2>1 DEF Holds
      <4>4. /\ new[i].startIndex > to /\ new[i].startIndex >= data[q + i1].startIndex
            /\ new[i].endIndex = data[q + i1].endIndex
        BY <3>1
      <4>5. x \in Nat
        OBVIOUS
      <4>6. x > high
        BY <1>1, <1>2, <4>2, <4>3, <4>4, <4>5
      <4>7. data[q + i1].startIndex <= x /\ x <= data[q + i1].endIndex
        BY <4>2, <4>3, <4>4, <4>5
      <4>. QED
        BY <4>6, <4>7 DEF Holds
    <3>3. x \notin low .. high
      BY <1>2, <3>2
    <3>. QED
      BY <1>10, <2>2, <3>0, <3>1, <3>2, <3>3
  <2>5. CASE i = n + 1
    <3>1. ~new[i].dmiAllowed /\ from <= x /\ x <= to
      BY <1>7, <2>1, <2>5 DEF Holds
    <3>2. x \in low .. high \/ (from <= x /\ x < low) \/ (high < x /\ x <= to)
      BY <1>1, <1>2, <3>1
    <3>3. ASSUME (from <= x /\ x < low) \/ (high < x /\ x <= to) PROVE x \in set
      BY <1>8, <2>2, <3>3
    <3>. QED
      BY <3>1, <3>2, <3>3
  <2>. QED
    BY <1>9, <2>3, <2>4, <2>5
<1>20. Grants(new, set \cup (low .. high))
  BY <1>4, <1>19 DEF Grants
<1>. QED
  BY <1>18, <1>20 DEF new, e

\* disable, whether the range is in one that is not allowed already or not.
LEMMA DisableIsExact ==
    ASSUME NEW data, NEW set, IsTable(data), Grants(data, set),
           NEW low \in 0 .. Top, NEW high \in 0 .. Top, low <= high
    PROVE  /\ IsTable(Dmi!Disable(data, low, high))
           /\ Grants(Dmi!Disable(data, low, high), set \cup (low .. high))
<1>. DEFINE k == Dmi!At(data, low)
            m == Dmi!At(data, high)
<1>1. k \in 1 .. Len(data) /\ Holds(data[k], low)
  BY Found
<1>2. m \in 1 .. Len(data) /\ Holds(data[m], high)
  BY Found
<1>. HIDE DEF k, m
<1>3. CASE k = m /\ ~data[k].dmiAllowed
  <2>1. Dmi!Disable(data, low, high) = data
    BY <1>3, Zenon DEF Dmi!Disable, k, m
  <2>2. /\ Len(data) \in Nat /\ low \in Nat /\ high \in Nat /\ Top \in Nat
        /\ \A i \in 1 .. Len(data) : data[i].startIndex \in Nat /\ data[i].endIndex \in Nat
    BY Elements, ContentAssumption, TopAssumption DEF IsTable
  <2>3. data[k].startIndex <= low /\ high <= data[k].endIndex
    BY <1>1, <1>2, <1>3 DEF Holds
  <2>4. SUFFICES ASSUME NEW i \in 1 .. Len(data), NEW x \in 0 .. Top, Holds(data[i], x)
                 PROVE  data[i].dmiAllowed <=> x \notin set \cup (low .. high)
    BY <2>1 DEF Grants
  <2>5. data[i].dmiAllowed <=> x \notin set
    BY <2>4 DEF Grants
  <2>6. CASE x \in low .. high
    <3>1. Holds(data[k], x)
      BY <1>1, <2>2, <2>3, <2>6 DEF Holds
    <3>2. ~(i < k) /\ ~(k < i)
      <4>3. /\ data[k].startIndex <= x /\ x <= data[k].endIndex
            /\ data[i].startIndex <= x /\ x <= data[i].endIndex
        BY <2>4, <3>1 DEF Holds
      <4>4. /\ data[k].startIndex \in Nat /\ data[k].endIndex \in Nat
            /\ data[i].startIndex \in Nat /\ data[i].endIndex \in Nat /\ x \in Nat
        BY <1>1, <2>2
      <4>1. ASSUME i < k PROVE FALSE
        <5>1. data[i].endIndex < data[k].startIndex
          BY <1>1, <4>1 DEF IsTable
        <5>. QED
          BY <4>3, <4>4, <5>1
      <4>2. ASSUME k < i PROVE FALSE
        <5>1. data[k].endIndex < data[i].startIndex
          BY <1>1, <4>2 DEF IsTable
        <5>. QED
          BY <4>3, <4>4, <5>1
      <4>. QED
        BY <4>1, <4>2
    <3>3. i = k
      BY <1>1, <2>2, <3>2
    <3>. QED
      BY <1>3, <2>6, <3>3
  <2>7. CASE x \notin low .. high
    BY <2>5, <2>7
  <2>. QED
    BY <2>6, <2>7
<1>4. CASE ~(k = m /\ ~data[k].dmiAllowed)
  <2>. DEFINE l == Dmi!LeftPart(data, k, low)
              r == Dmi!RightPart(data, m, high)
  <2>1. IsLeft(data, l.kept, l.from, low)
    BY <1>1, LeftPartIsLeft
  <2>2. IsRight(data, r.kept, r.to, high)
    BY <1>2, RightPartIsRight
  <2>3. Dmi!Disable(data, low, high) = l.kept \o << Dmi!Entry(l.from, r.to, FALSE) >> \o r.kept
    BY <1>4, Zenon DEF Dmi!Disable, k, m
  <2>. HIDE DEF l, r
  <2>4. /\ IsTable(l.kept \o << Dmi!Entry(l.from, r.to, FALSE) >> \o r.kept)
        /\ Grants(l.kept \o << Dmi!Entry(l.from, r.to, FALSE) >> \o r.kept, set \cup (low .. high))
    BY <2>1, <2>2, Joined
  <2>. QED
    BY <2>3, <2>4, Zenon
<1>. QED
  BY <1>3, <1>4

\* The tables that clear and disable of everything leave.
LEMMA TwoRanges ==
    ASSUME NEW size \in Nat \ {0}, size <= Top
    PROVE  LET t == << Dmi!Entry(0, size - 1, TRUE), Dmi!Entry(size, Top, FALSE) >>
           IN  IsTable(t) /\ Grants(t, size .. Top)
<1>. DEFINE a == Dmi!Entry(0, size - 1, TRUE)
            b == Dmi!Entry(size, Top, FALSE)
            t == << a, b >>
<1>1. size \in Nat /\ size > 0 /\ Top \in Nat /\ size <= Top
  BY TopAssumption
<1>2. /\ a \in Ranges /\ b \in Ranges
      /\ a.startIndex = 0 /\ a.endIndex = size - 1 /\ a.dmiAllowed
      /\ b.startIndex = size /\ b.endIndex = Top /\ ~b.dmiAllowed
  BY <1>1 DEF Dmi!Entry, Ranges
<1>. HIDE DEF a, b
<1>3. t \in Seq(Ranges) /\ Len(t) = 2 /\ t[1] = a /\ t[2] = b
  BY <1>2
<1>. HIDE DEF t
<1>5. \A i \in 1 .. Len(t) : i = 1 \/ i = 2
  BY <1>3
<1>6. \A i \in 1 .. Len(t) : t[i].startIndex <= t[i].endIndex
  BY <1>1, <1>2, <1>3, <1>5
<1>7. \A i, j \in 1 .. Len(t) : i < j => t[i].endIndex < t[j].startIndex
  BY <1>1, <1>2, <1>3, <1>5
<1>8. \A i \in 1 .. Len(t) - 1 : /\ t[i + 1].startIndex = t[i].endIndex + 1
                                 /\ t[i].dmiAllowed # t[i + 1].dmiAllowed
  <2>1. \A i \in 1 .. Len(t) - 1 : i = 1 /\ i + 1 = 2
    BY <1>3
  <2>2. t[2].startIndex = t[1].endIndex + 1
    BY <1>1, <1>2, <1>3
  <2>3. t[1].dmiAllowed # t[2].dmiAllowed
    BY <1>2, <1>3
  <2>. QED
    BY <2>1, <2>2, <2>3
<1>9. \A x \in 0 .. Top : \E i \in 1 .. Len(t) : Holds(t[i], x)
  <2>1. \A x \in 0 .. Top : Holds(t[1], x) \/ Holds(t[2], x)
    BY <1>1, <1>2, <1>3 DEF Holds
  <2>2. 1 \in 1 .. Len(t) /\ 2 \in 1 .. Len(t)
    BY <1>3
  <2>. QED
    BY <2>1, <2>2
<1>10. IsTable(t)
  BY <1>2, <1>3, <1>6, <1>7, <1>8, <1>9 DEF IsTable
<1>11. \A x \in 0 .. Top : /\ Holds(t[1], x) => (t[1].dmiAllowed <=> x \notin size .. Top)
                           /\ Holds(t[2], x) => (t[2].dmiAllowed <=> x \notin size .. Top)
  BY <1>1, <1>2, <1>3 DEF Holds
<1>12. Grants(t, size .. Top)
  BY <1>5, <1>11 DEF Grants
<1>. QED
  BY <1>10, <1>12 DEF t, a, b

LEMMA ClearedIsExact ==
    IsTable(Dmi!ClearedTable) /\ Grants(Dmi!ClearedTable, Size .. Top)
<1>1. Size \in Nat \ {0} /\ Size <= Top
  BY ContentAssumption
<1>2. Dmi!ClearedTable = << Dmi!Entry(0, Size - 1, TRUE), Dmi!Entry(Size, Top, FALSE) >>
  BY Zenon DEF Dmi!ClearedTable
<1>. QED
  BY <1>1, <1>2, TwoRanges

LEMMA DisabledIsExact ==
    IsTable(Dmi!DisabledTable) /\ Grants(Dmi!DisabledTable, 0 .. Top)
<1>. DEFINE a == Dmi!Entry(0, Top, FALSE)
            t == << a >>
<1>1. Top \in Nat
  BY ContentAssumption, TopAssumption
<1>2. a \in Ranges /\ a.startIndex = 0 /\ a.endIndex = Top /\ ~a.dmiAllowed
  BY <1>1 DEF Dmi!Entry, Ranges
<1>. HIDE DEF a
<1>3. t \in Seq(Ranges) /\ Len(t) = 1 /\ t[1] = a
  BY <1>2
<1>4. Dmi!DisabledTable = t
  BY Zenon DEF Dmi!DisabledTable, a, t
<1>. HIDE DEF t
<1>5. IsTable(t)
  BY <1>1, <1>2, <1>3 DEF IsTable, Holds
<1>6. Grants(t, 0 .. Top)
  BY <1>1, <1>2, <1>3 DEF Grants
<1>. QED
  BY <1>4, <1>5, <1>6

-----------------------------------------------------------------------------
(* The table in use.                                                       *)

\* The inductive invariant; a table that counts as cleared is the cleared one,
\* so that clear may leave it alone.
TableInv ==
    /\ watch \in Watches
    /\ IsTable(mDmiData)
    /\ Grants(mDmiData, denied)
    /\ mCleared => mDmiData = Dmi!ClearedTable

\* What a step of the memory, its observers and initiators does to the table
\* is a call of the table.
LEMMA EveryStepIsACall ==
    ASSUME watch \in Watches, [Next]_vars
    PROVE  /\ watch' = watch
           /\ \/ UNCHANGED << mDmiData, mCleared, denied >>
              \/ Dmi!Clear
              \/ Dmi!DisableAll
              \/ \E low, high \in 0 .. Top : Dmi!DisableRange(low, high)
<1>. DEFINE Goal == /\ watch' = watch
                    /\ \/ UNCHANGED << mDmiData, mCleared, denied >>
                       \/ Dmi!Clear
                       \/ Dmi!DisableAll
                       \/ \E low, high \in 0 .. Top : Dmi!DisableRange(low, high)
<1>1. ASSUME NEW a \in Accesses, BeginAccess(a) PROVE Goal
  BY <1>1, Zenon DEF BeginAccess, dmiVars
<1>2. ASSUME NEW o \in Observers, VisitObserver(o) PROVE Goal
  BY <1>2, Zenon DEF VisitObserver, dmiVars
<1>3. ASSUME NEW o \in Observers, RegisterObserver(o) PROVE Goal
  BY <1>3, Zenon DEF RegisterObserver, KeepDmi, InvalidateDmi
<1>4. ASSUME NEW o \in Observers, UnregisterObserver(o) PROVE Goal
  BY <1>4, Zenon DEF UnregisterObserver, KeepDmi, InvalidateDmi
<1>5. ASSUME NEW o \in Observers, DisableDmi(o) PROVE Goal
  <2>1. watch[o].low \in 0 .. Top /\ watch[o].high \in 0 .. Top
    BY ContentAssumption, TopAssumption
  <2>. QED
    BY <1>5, <2>1, Zenon DEF DisableDmi
<1>6. CASE CallReturns
  BY <1>6, Zenon DEF CallReturns, dmiVars
<1>7. CASE EndNotification
  BY <1>7, Zenon DEF EndNotification, dmiVars
<1>8. CASE UnregisterAllObservers
  BY <1>8, Zenon DEF UnregisterAllObservers, InvalidateDmi
<1>9. CASE SwitchDmi
  BY <1>9, Zenon DEF SwitchDmi, InvalidateDmi
<1>10. CASE AnswerRequest
  BY <1>10, Zenon DEF AnswerRequest
<1>11. ASSUME NEW index \in Requested, GetDirectMemPtr(index) PROVE Goal
  BY <1>11, Zenon DEF GetDirectMemPtr
<1>12. CASE UNCHANGED vars
  BY <1>12, Zenon DEF vars, dmiVars
<1>. QED
  BY <1>1, <1>2, <1>3, <1>4, <1>5, <1>6, <1>7, <1>8, <1>9, <1>10, <1>11, <1>12 DEF Next

LEMMA TableStart == Init => TableInv
<1>. SUFFICES ASSUME Init PROVE TableInv
  OBVIOUS
<1>1. /\ watch \in Watches /\ mDmiData = Dmi!ClearedTable /\ denied = Size .. Top
  BY DEF Init, Dmi!Init
<1>. QED
  BY <1>1, ClearedIsExact DEF TableInv

LEMMA TableStep ==
    ASSUME TableInv, [Next]_vars
    PROVE  TableInv'
<1>1. watch' \in Watches
  BY EveryStepIsACall DEF TableInv
<1>2. CASE UNCHANGED << mDmiData, mCleared, denied >>
  BY <1>1, <1>2 DEF TableInv
<1>3. CASE Dmi!Clear
  <2>1. mDmiData' = Dmi!ClearedTable /\ denied' = Size .. Top
    BY <1>3 DEF Dmi!Clear, TableInv
  <2>. QED
    BY <1>1, <2>1, ClearedIsExact DEF TableInv
<1>4. CASE Dmi!DisableAll
  <2>1. mDmiData' = Dmi!DisabledTable /\ denied' = 0 .. Top /\ ~mCleared'
    BY <1>4 DEF Dmi!DisableAll
  <2>. QED
    BY <1>1, <2>1, DisabledIsExact DEF TableInv
<1>5. ASSUME NEW low \in 0 .. Top, NEW high \in 0 .. Top, Dmi!DisableRange(low, high)
      PROVE  TableInv'
  <2>1. /\ low <= high /\ ~mCleared'
        /\ mDmiData' = Dmi!Disable(mDmiData, low, high)
        /\ denied' = denied \cup (low .. high)
    BY <1>5 DEF Dmi!DisableRange
  <2>2. IsTable(mDmiData) /\ Grants(mDmiData, denied)
    BY DEF TableInv
  <2>3. /\ IsTable(Dmi!Disable(mDmiData, low, high))
        /\ Grants(Dmi!Disable(mDmiData, low, high), denied \cup (low .. high))
    BY <2>1, <2>2, DisableIsExact
  <2>. QED
    BY <1>1, <2>1, <2>3 DEF TableInv
<1>. QED
  BY <1>2, <1>3, <1>4, <1>5, EveryStepIsACall DEF TableInv

\* A table in this state is exact: the search returns the range of the index.
LEMMA TableInvIsExact == TableInv => TableIsExact
<1>. SUFFICES ASSUME TableInv PROVE TableIsExact
  OBVIOUS
<1>1. IsTable(mDmiData) /\ Grants(mDmiData, denied)
  BY DEF TableInv
<1>2. DOMAIN mDmiData = 1 .. Len(mDmiData)
  BY <1>1 DEF IsTable
<1>3. Dmi!EveryIndexIsInOneRange
  BY <1>1, <1>2 DEF IsTable, Dmi!EveryIndexIsInOneRange
<1>4. Dmi!GrantsWhatWasNotDisabled
  <2>. SUFFICES ASSUME NEW x \in 0 .. Top
                PROVE  Dmi!Find(mDmiData, x).dmiAllowed <=> x \notin denied
    BY DEF Dmi!GrantsWhatWasNotDisabled
  <2>1. Dmi!At(mDmiData, x) \in 1 .. Len(mDmiData) /\ Holds(mDmiData[Dmi!At(mDmiData, x)], x)
    BY <1>1, Found
  <2>. QED
    BY <1>1, <2>1 DEF Grants, Dmi!Find
<1>. QED
  BY <1>3, <1>4 DEF TableIsExact

\* For a memory of any size, any observers and any order of registrations,
\* requests and invalidations: the ranges hold every index once, without gaps
\* and as large as they can be, and the search grants an index exactly if no
\* call has disabled it since the table was last cleared.
THEOREM TableAlwaysExact == Spec => []TableIsExact
<1>1. Init => TableInv
  BY TableStart
<1>2. TableInv /\ [Next]_vars => TableInv'
  BY TableStep
<1>3. TableInv => TableIsExact
  BY TableInvIsExact
<1>. QED
  BY <1>1, <1>2, <1>3, PTL DEF Spec

-----------------------------------------------------------------------------
(* The notifications of the content observers.                             *)

Notifications ==
    [access : Accesses, phase : {"pre", "post"}, todo : SUBSET Observers,
     current : Observers \cup {Nobody}, index : Int,
     told : SUBSET (Observers \X Int), settled : SUBSET Observers]

\* What a notification in progress has to do with a list of observers: it goes
\* through the list itself, of which the settled ones are still registered;
\* the words of the call in progress up to its index have been told, and those
\* of everybody settled it is done with.
Follows(n, l) ==
    /\ n \in Notifications
    /\ n.todo \subseteq l.observers
    /\ n.settled \subseteq l.observers /\ n.settled \subseteq Registered(l)
    /\ n.current # Nobody =>
          /\ n.current \in n.todo
          /\ n.index \in FirstWord(n, n.current) .. LastWord(n, n.current)
          /\ \A w \in FirstWord(n, n.current) .. n.index : << n.current, w >> \in n.told
    /\ \A o \in n.settled \ n.todo :
          Concerns(n, o) => \A w \in FirstWord(n, o) .. LastWord(n, o) : << o, w >> \in n.told

\* The inductive invariant.
ListInv ==
    /\ watch \in Watches
    /\ list \in Lists /\ list.level = Len(accesses)
    /\ list.level = 0 => ~list.copied
    /\ accesses \in Seq(Notifications)
    /\ \A i \in 1 .. Len(accesses) : Follows(accesses[i], list)
    /\ PagesAreMarked

-----------------------------------------------------------------------------
(* The list of observers (ObserverList)                                    *)

\* What is changed during a notification is the copy.
LEMMA Changing ==
    ASSUME NEW l \in Lists, NEW set \in SUBSET Observers, l.level = 0 => ~l.copied
    PROVE  /\ WithRegistered(l, set) \in Lists /\ WithRegistered(l, set).level = l.level
           /\ Registered(WithRegistered(l, set)) = set
           /\ l.level > 0 => WithRegistered(l, set).observers = l.observers
           /\ l.level = 0 => ~WithRegistered(l, set).copied
           /\ WithRegistered(l, set).enabled = l.enabled
<1>1. CASE l.level > 0
  <2>. DEFINE w == [l EXCEPT !.copied = TRUE, !.copy = set]
  <2>1. WithRegistered(l, set) = w
    BY <1>1 DEF WithRegistered
  <2>2. w \in Lists
    BY DEF Lists
  <2>3. /\ w.observers = l.observers /\ w.level = l.level /\ w.enabled = l.enabled
        /\ w.copy = set
    BY DEF Lists
  <2>4. w.copied
    BY Zenon DEF Lists
  <2>. HIDE DEF w
  <2>5. Registered(w) = set
    BY <2>3, <2>4 DEF Registered
  <2>. QED
    BY <1>1, <2>1, <2>2, <2>3, <2>5
<1>2. CASE l.level = 0
  <2>1. WithRegistered(l, set) = [l EXCEPT !.observers = set]
    BY <1>2 DEF WithRegistered
  <2>. QED
    BY <1>2, <2>1 DEF Lists, Registered
<1>. QED
  BY <1>1, <1>2 DEF Lists

\* The flag is no part of that.
LEMMA Enabling ==
    ASSUME NEW l \in Lists, NEW flag \in BOOLEAN
    PROVE  /\ [l EXCEPT !.enabled = flag] \in Lists
           /\ [l EXCEPT !.enabled = flag].level = l.level
           /\ Registered([l EXCEPT !.enabled = flag]) = Registered(l)
           /\ [l EXCEPT !.enabled = flag].observers = l.observers
           /\ [l EXCEPT !.enabled = flag].copied = l.copied
           /\ [l EXCEPT !.enabled = flag].enabled = flag
  BY DEF Lists, Registered

LEMMA RegisteredAreObservers ==
    ASSUME NEW l \in Lists
    PROVE  Registered(l) \subseteq Observers
  BY DEF Lists, Registered

\* register_observer: during a notification the list itself stays.
LEMMA Registering ==
    ASSUME NEW l \in Lists, NEW o \in Observers, l.level = 0 => ~l.copied
    PROVE  /\ Register(l, o) \in Lists /\ Register(l, o).level = l.level
           /\ Registered(Register(l, o)) = Registered(l) \cup {o}
           /\ l.level > 0 => Register(l, o).observers = l.observers
           /\ l.level = 0 => ~Register(l, o).copied
           /\ o \in Registered(l) => (Register(l, o).enabled <=> l.enabled)
           /\ o \notin Registered(l) => Register(l, o).enabled
<1>1. CASE o \in Registered(l)
  <2>1. Register(l, o) = WithRegistered(l, Registered(l))
    BY <1>1 DEF Register
  <2>. QED
    BY <1>1, <2>1, RegisteredAreObservers, Changing
<1>2. CASE o \notin Registered(l)
  <2>. DEFINE w == WithRegistered(l, Registered(l) \cup {o})
  <2>1. Register(l, o) = [w EXCEPT !.enabled = TRUE]
    BY <1>2 DEF Register
  <2>2. Registered(l) \cup {o} \in SUBSET Observers
    BY RegisteredAreObservers
  <2>3. /\ w \in Lists /\ w.level = l.level /\ Registered(w) = Registered(l) \cup {o}
        /\ l.level > 0 => w.observers = l.observers
        /\ l.level = 0 => ~w.copied
    BY <2>2, Changing
  <2>. HIDE DEF w
  <2>. QED
    BY <1>2, <2>1, <2>3, Enabling
<1>. QED
  BY <1>1, <1>2

\* unregister_observer.
LEMMA Unregistering ==
    ASSUME NEW l \in Lists, NEW o \in Observers, l.level = 0 => ~l.copied
    PROVE  /\ Unregister(l, o) \in Lists /\ Unregister(l, o).level = l.level
           /\ Registered(Unregister(l, o)) = Registered(l) \ {o}
           /\ l.level > 0 => Unregister(l, o).observers = l.observers
           /\ l.level = 0 => ~Unregister(l, o).copied
           /\ o \notin Registered(l) => (Unregister(l, o).enabled <=> l.enabled)
           /\ o \in Registered(l) =>
                 (Unregister(l, o).enabled <=> (l.enabled /\ Registered(l) # {o}))
<1>1. CASE o \notin Registered(l)
  <2>1. Unregister(l, o) = WithRegistered(l, Registered(l)) /\ Registered(l) \ {o} = Registered(l)
    BY <1>1 DEF Unregister
  <2>. QED
    BY <1>1, <2>1, RegisteredAreObservers, Changing
<1>2. CASE o \in Registered(l)
  <2>. DEFINE w    == WithRegistered(l, Registered(l) \ {o})
              flag == w.enabled /\ Registered(l) # {o}
  <2>1. Unregister(l, o) = [w EXCEPT !.enabled = flag]
    BY <1>2 DEF Unregister
  <2>2. Registered(l) \ {o} \in SUBSET Observers
    BY RegisteredAreObservers
  <2>3. /\ w \in Lists /\ w.level = l.level /\ Registered(w) = Registered(l) \ {o}
        /\ l.level > 0 => w.observers = l.observers
        /\ l.level = 0 => ~w.copied
        /\ w.enabled = l.enabled
    BY <2>2, Changing
  <2>4. flag \in BOOLEAN /\ (flag <=> l.enabled /\ Registered(l) # {o})
    BY <2>3, Zenon
  <2>. HIDE DEF w, flag
  <2>. QED
    BY <1>2, <2>1, <2>3, <2>4, Enabling
<1>. QED
  BY <1>1, <1>2

\* unregister_all_observers.
LEMMA UnregisteringAll ==
    ASSUME NEW l \in Lists, l.level = 0 => ~l.copied
    PROVE  /\ UnregisterAll(l) \in Lists /\ UnregisterAll(l).level = l.level
           /\ Registered(UnregisterAll(l)) = {}
           /\ l.level > 0 => UnregisterAll(l).observers = l.observers
           /\ l.level = 0 => ~UnregisterAll(l).copied
           /\ ~UnregisterAll(l).enabled
<1>. DEFINE w == WithRegistered(l, {})
<1>1. UnregisterAll(l) = [w EXCEPT !.enabled = FALSE]
  BY DEF UnregisterAll
<1>2. /\ w \in Lists /\ w.level = l.level /\ Registered(w) = {}
      /\ l.level > 0 => w.observers = l.observers
      /\ l.level = 0 => ~w.copied
  BY Changing
<1>. HIDE DEF w
<1>. QED
  BY <1>1, <1>2, Enabling

\* The beginning of a notification.
LEMMA Entering ==
    ASSUME NEW l \in Lists
    PROVE  /\ Enter(l) \in Lists /\ Enter(l).level = l.level + 1
           /\ Registered(Enter(l)) = Registered(l)
           /\ Enter(l).observers = l.observers
           /\ Enter(l).enabled <=> l.enabled
  BY DEF Lists, Enter, Registered

\* The end of a notification: the copy replaces the list at the outermost one.
LEMMA Leaving ==
    ASSUME NEW l \in Lists, l.level > 0
    PROVE  /\ Leave(l) \in Lists /\ Leave(l).level = l.level - 1
           /\ Registered(Leave(l)) = Registered(l)
           /\ l.level > 1 => Leave(l).observers = l.observers
           /\ l.level = 1 => ~Leave(l).copied /\ Leave(l).observers = Registered(l)
           /\ Leave(l).enabled = l.enabled
<1>1. CASE l.level = 1 /\ l.copied
  <2>. DEFINE w == [l EXCEPT !.level = 0, !.observers = l.copy, !.copied = FALSE, !.copy = {}]
  <2>1. Leave(l) = w
    BY <1>1 DEF Leave
  <2>2. w \in Lists
    BY DEF Lists
  <2>3. w.observers = l.copy /\ w.level = 0 /\ w.enabled = l.enabled
    BY DEF Lists
  <2>4. ~w.copied
    BY Zenon DEF Lists
  <2>. HIDE DEF w
  <2>5. Registered(w) = l.copy /\ Registered(l) = l.copy
    BY <1>1, <2>3, <2>4 DEF Registered
  <2>. QED
    BY <1>1, <2>1, <2>2, <2>3, <2>4, <2>5
<1>2. CASE ~(l.level = 1 /\ l.copied)
  <2>1. Leave(l) = [l EXCEPT !.level = @ - 1]
    BY <1>2 DEF Leave
  <2>2. l.level \in Nat /\ l.level - 1 \in Nat
    BY DEF Lists
  <2>. QED
    BY <1>2, <2>1, <2>2 DEF Lists, Registered
<1>. QED
  BY <1>1, <1>2

\* Whoever is in the list and passes the test is registered, and the other
\* way round.
LEMMA Called ==
    ASSUME NEW l \in Lists, NEW o \in l.observers
    PROVE  IsCalled(l, o) <=> o \in Registered(l)
  BY DEF Lists, IsCalled, Registered

-----------------------------------------------------------------------------
(* The accesses in progress                                                *)

\* A function on the first numbers is a sequence.
LEMMA FunctionIsSequence ==
    ASSUME NEW S, NEW n \in Nat, NEW f \in [1 .. n -> S]
    PROVE  f \in Seq(S) /\ Len(f) = n
<1>1. f \in Seq(S)
  BY SeqDef
<1>2. DOMAIN f = 1 .. Len(f) /\ Len(f) \in Nat
  BY <1>1, LenProperties
<1>. QED
  BY <1>1, <1>2

\* The words of an access that an observer watches are numbers.
LEMMA WordsInOrder ==
    ASSUME watch \in Watches, NEW n, n.access \in Accesses, NEW o \in Observers
    PROVE  FirstWord(n, o) \in Int /\ LastWord(n, o) \in Int
<1>1. n.access.low \in Int /\ n.access.high \in Int
  BY ContentAssumption, TopAssumption
<1>2. watch[o].low \in Int /\ watch[o].high \in Int
  BY ContentAssumption, TopAssumption
<1>. QED
  BY <1>1, <1>2 DEF FirstWord, LastWord

\* A notification that begins: everybody of the list is still to be visited.
LEMMA NewNotification ==
    ASSUME NEW l \in Lists, NEW a \in Accesses, NEW phase \in {"pre", "post"},
           NEW settled, settled \subseteq l.observers, settled \subseteq Registered(l)
    PROVE  Follows(Notification(a, phase, l, settled), l)
<1>1. /\ l.observers \subseteq Observers
      /\ settled \subseteq Observers
  BY DEF Lists
<1>2. Notification(a, phase, l, settled) \in Notifications
  BY <1>1 DEF Notification, Notifications
<1>. QED
  BY <1>2 DEF Follows, Notification

\* Follows depends on nothing of the list but the two sets.
LEMMA SameSets ==
    ASSUME NEW n, NEW l, NEW k, Follows(n, l), k.observers = l.observers,
           n.settled \subseteq Registered(k)
    PROVE  Follows(n, k)
  BY DEF Follows

\* The innermost access is one of the sequence and the others stay.
LEMMA Replaced ==
    ASSUME ListInv, accesses # << >>, NEW n \in Notifications, SetInnermost(n)
    PROVE  /\ accesses' \in Seq(Notifications) /\ Len(accesses') = Len(accesses)
           /\ Len(accesses) \in 1 .. Len(accesses)
           /\ accesses'[Len(accesses)] = n
           /\ \A i \in 1 .. Len(accesses) : i # Len(accesses) => accesses'[i] = accesses[i]
           /\ Follows(Innermost, list)
<1>1. Len(accesses) \in 1 .. Len(accesses) /\ Len(accesses) \in Nat
  BY EmptySeq, LenProperties DEF ListInv
<1>2. accesses' = [accesses EXCEPT ![Len(accesses)] = n]
  BY DEF SetInnermost
<1>3. Follows(Innermost, list)
  BY <1>1 DEF ListInv, Innermost
<1>. QED
  BY <1>1, <1>2, <1>3, ExceptSeq DEF ListInv

\* What there is to show of a step; observers never change what they watch.
LEMMA InvariantAfter ==
    ASSUME watch \in Watches, watch' = watch,
           list' \in Lists, list'.level = Len(accesses'), list'.level = 0 => ~list'.copied,
           accesses' \in Seq(Notifications),
           \A i \in 1 .. Len(accesses') : Follows(accesses'[i], list'),
           PagesAreMarked'
    PROVE  ListInv'
<1>1. \A i \in 1 .. Len(accesses') : Follows(accesses[i], list)'
  BY Zenon DEF Follows, FirstWord, LastWord, Concerns
<1>. QED
  BY <1>1 DEF ListInv

\* The marks stay right if the observers and their pages stay.
LEMMA MarksStay ==
    ASSUME PagesAreMarked, UNCHANGED << watch, mapped, pages >>,
           Registered(list') = Registered(list), list'.enabled = list.enabled
    PROVE  PagesAreMarked'
<1>1. Registered(list)' = Registered(list)
  BY DEF Registered
<1>. QED
  BY <1>1 DEF PagesAreMarked, PagesOf, PageOf

\* A step that only replaces the innermost access.
LEMMA InnermostStep ==
    ASSUME ListInv, accesses # << >>, NEW n \in Notifications, SetInnermost(n),
           UNCHANGED << watch, listVars >>, Follows(n, list)
    PROVE  ListInv'
<1>1. UNCHANGED << watch, list, mapped, pages >>
  BY DEF listVars
<1>2. /\ accesses' \in Seq(Notifications) /\ Len(accesses') = Len(accesses)
      /\ accesses'[Len(accesses)] = n
      /\ \A i \in 1 .. Len(accesses) : i # Len(accesses) => accesses'[i] = accesses[i]
  BY Replaced
<1>3. \A i \in 1 .. Len(accesses') : Follows(accesses'[i], list')
  BY <1>1, <1>2 DEF ListInv
<1>4. PagesAreMarked'
  BY <1>1, MarksStay DEF ListInv
<1>. QED
  BY <1>1, <1>2, <1>3, <1>4, InvariantAfter DEF ListInv

-----------------------------------------------------------------------------
(* The steps                                                               *)

\* A call that a step makes is one of a registered observer.
NoLateCall ==
    \A o \in Observers : \A w \in 0 .. (Size - 1) :
        (/\ Len(accesses') = Len(accesses) /\ accesses # << >>
         /\ << o, w >> \in accesses'[Len(accesses)].told
         /\ << o, w >> \notin Innermost.told)
        => o \in Registered(list)

\* The observers are notified of an access.
LEMMA BeginKeeps ==
    ASSUME ListInv, NEW a \in Accesses, BeginAccess(a)
    PROVE  ListInv' /\ NoLateCall
<1>. DEFINE settled == IF accesses = << >> THEN list.observers ELSE Innermost.settled
            n == Notification(a, "pre", list, settled)
<1>1. /\ list' = Enter(list) /\ accesses' = Append(accesses, n)
      /\ UNCHANGED << watch, mapped, pages >>
  BY DEF BeginAccess
<1>2. list \in Lists /\ accesses \in Seq(Notifications) /\ list.level = Len(accesses)
      /\ Len(accesses) \in Nat
  BY LenProperties DEF ListInv
<1>3. /\ list' \in Lists /\ list'.level = list.level + 1 /\ list'.observers = list.observers
      /\ Registered(list') = Registered(list) /\ list'.enabled = list.enabled
  <2>1. Enter(list).enabled = list.enabled
    BY <1>2 DEF Enter, Lists
  <2>. QED
    BY <1>1, <1>2, <2>1, Entering
<1>4. settled \subseteq list.observers /\ settled \subseteq Registered(list)
  <2>1. CASE accesses = << >>
    <3>1. ~list.copied
      BY <1>2, <2>1, EmptySeq DEF ListInv
    <3>. QED
      BY <2>1, <3>1 DEF Registered
  <2>2. CASE accesses # << >>
    <3>1. Len(accesses) \in 1 .. Len(accesses)
      BY <1>2, <2>2, EmptySeq
    <3>2. Follows(Innermost, list)
      BY <3>1 DEF ListInv, Innermost
    <3>. QED
      BY <2>2, <3>2 DEF Follows
  <2>. QED
    BY <2>1, <2>2
<1>. HIDE DEF settled
<1>5. Follows(n, list)
  BY <1>2, <1>4, NewNotification
<1>6. n.settled \subseteq Registered(list) /\ n \in Notifications
  BY <1>5 DEF Follows
<1>. HIDE DEF n
<1>7. /\ accesses' \in Seq(Notifications) /\ Len(accesses') = Len(accesses) + 1
      /\ accesses'[Len(accesses) + 1] = n
      /\ \A i \in 1 .. Len(accesses) : accesses'[i] = accesses[i]
  BY <1>1, <1>2, <1>6, AppendProperties
<1>8. ASSUME NEW i \in 1 .. Len(accesses') PROVE Follows(accesses'[i], list')
  <2>1. CASE i = Len(accesses) + 1
    BY <1>3, <1>5, <1>6, <1>7, <2>1, SameSets
  <2>2. CASE i # Len(accesses) + 1
    <3>1. i \in 1 .. Len(accesses)
      BY <1>2, <1>7, <2>2
    <3>2. Follows(accesses[i], list) /\ accesses'[i] = accesses[i]
      BY <1>7, <3>1 DEF ListInv
    <3>3. accesses[i].settled \subseteq Registered(list')
      BY <1>3, <3>2 DEF Follows
    <3>. QED
      BY <1>3, <3>2, <3>3, SameSets
  <2>. QED
    BY <2>1, <2>2
<1>9. PagesAreMarked'
  BY <1>1, <1>3, MarksStay DEF ListInv
<1>10. list'.level = Len(accesses') /\ ~(list'.level = 0)
  BY <1>2, <1>3, <1>7
<1>11. ListInv'
  BY <1>1, <1>3, <1>7, <1>8, <1>9, <1>10, InvariantAfter DEF ListInv
<1>12. NoLateCall
  BY <1>2, <1>7 DEF NoLateCall
<1>. QED
  BY <1>11, <1>12

\* The loop visits an observer: he is called if he is registered, and passed
\* over otherwise, or if the access is none of his.
LEMMA VisitKeeps ==
    ASSUME ListInv, NEW o \in Observers, VisitObserver(o)
    PROVE  ListInv' /\ NoLateCall
<1>. DEFINE n      == Innermost
            called == [n EXCEPT !.current = o, !.index = FirstWord(n, o),
                                !.told = @ \cup {<< o, FirstWord(n, o) >>}]
            passed == [n EXCEPT !.todo = @ \ {o}]
<1>1. /\ accesses # << >> /\ n.current = Nobody /\ o \in n.todo
      /\ UNCHANGED << watch, listVars >>
      /\ SetInnermost(IF IsCalled(list, o) /\ Concerns(n, o) THEN called ELSE passed)
  BY DEF VisitObserver
<1>2. Follows(n, list) /\ Len(accesses) \in 1 .. Len(accesses)
  <2>1. Len(accesses) \in 1 .. Len(accesses)
    BY <1>1, EmptySeq, LenProperties DEF ListInv
  <2>. QED
    BY <2>1 DEF ListInv, Innermost
<1>3. n \in Notifications /\ list \in Lists /\ watch \in Watches
  BY <1>2 DEF Follows, ListInv
<1>4. FirstWord(n, o) \in Int /\ LastWord(n, o) \in Int
  BY <1>3, WordsInOrder DEF Notifications
<1>5. IsCalled(list, o) <=> o \in Registered(list)
  BY <1>1, <1>2, <1>3, Called DEF Follows
<1>6. o # Nobody
  BY ContentAssumption, TopAssumption
<1>. HIDE DEF n
<1>7. CASE IsCalled(list, o) /\ Concerns(n, o)
  <2>1. SetInnermost(called)
    BY <1>1, <1>7
  <2>2. /\ called \in Notifications
        /\ called.access = n.access /\ called.todo = n.todo /\ called.settled = n.settled
        /\ called.current = o /\ called.index = FirstWord(n, o)
        /\ called.told = n.told \cup {<< o, FirstWord(n, o) >>}
    <3>. DEFINE told == n.told \cup {<< o, FirstWord(n, o) >>}
    <3>1. told \in SUBSET (Observers \X Int)
      BY <1>3, <1>4 DEF Notifications
    <3>2. called = [n EXCEPT !.current = o, !.index = FirstWord(n, o), !.told = told]
      BY <1>3 DEF Notifications
    <3>. HIDE DEF called, told
    <3>3. /\ called \in Notifications
          /\ called.access = n.access /\ called.todo = n.todo /\ called.settled = n.settled
          /\ called.current = o /\ called.index = FirstWord(n, o) /\ called.told = told
      BY <1>3, <1>4, <3>1, <3>2 DEF Notifications
    <3>. QED
      BY <3>3 DEF told
  <2>. HIDE DEF called
  <2>3. \A x : FirstWord(called, x) = FirstWord(n, x) /\ LastWord(called, x) = LastWord(n, x)
               /\ (Concerns(called, x) <=> Concerns(n, x))
    BY <2>2 DEF FirstWord, LastWord, Concerns
  <2>4. FirstWord(n, o) <= LastWord(n, o)
    BY <1>7 DEF Concerns
  <2>5. /\ called.index \in FirstWord(called, o) .. LastWord(called, o)
        /\ \A w \in FirstWord(called, o) .. called.index : << o, w >> \in called.told
    BY <1>4, <2>2, <2>3, <2>4
  <2>6. \A x \in called.settled \ called.todo : Concerns(called, x) =>
            \A w \in FirstWord(called, x) .. LastWord(called, x) : << x, w >> \in called.told
    BY <1>2, <2>2, <2>3 DEF Follows
  <2>7. Follows(called, list)
    BY <1>1, <1>2, <2>2, <2>5, <2>6 DEF Follows
  <2>8. ListInv'
    BY <1>1, <2>1, <2>2, <2>7, InnermostStep
  <2>9. accesses'[Len(accesses)] = called
    BY <1>1, <2>1, <2>2, Replaced
  <2>10. NoLateCall
    BY <1>5, <1>7, <2>2, <2>9 DEF NoLateCall, n
  <2>. QED
    BY <2>8, <2>10
<1>8. CASE ~(IsCalled(list, o) /\ Concerns(n, o))
  <2>1. SetInnermost(passed)
    BY <1>1, <1>8
  <2>2. /\ passed \in Notifications
        /\ passed.access = n.access /\ passed.todo = n.todo \ {o} /\ passed.settled = n.settled
        /\ passed.current = n.current /\ passed.index = n.index /\ passed.told = n.told
    BY <1>3 DEF Notifications
  <2>. HIDE DEF passed
  <2>3. \A x : FirstWord(passed, x) = FirstWord(n, x) /\ LastWord(passed, x) = LastWord(n, x)
               /\ (Concerns(passed, x) <=> Concerns(n, x))
    BY <2>2 DEF FirstWord, LastWord, Concerns
  <2>4. o \in n.settled => ~Concerns(n, o)
    BY <1>2, <1>5, <1>8 DEF Follows
  <2>5. \A x \in passed.settled \ passed.todo : Concerns(passed, x) =>
            \A w \in FirstWord(passed, x) .. LastWord(passed, x) : << x, w >> \in passed.told
    BY <1>2, <2>2, <2>3, <2>4 DEF Follows
  <2>6. Follows(passed, list)
    BY <1>1, <1>2, <2>2, <2>5 DEF Follows
  <2>7. ListInv'
    BY <1>1, <2>1, <2>2, <2>6, InnermostStep
  <2>8. accesses'[Len(accesses)] = passed
    BY <1>1, <2>1, <2>2, Replaced
  <2>9. NoLateCall
    BY <2>2, <2>8 DEF NoLateCall, n
  <2>. QED
    BY <2>7, <2>9
<1>. QED
  BY <1>7, <1>8

\* A call returns: the next one is made if the observer is still registered;
\* otherwise he is done with, and unless he was unregistered he has been told
\* of all his words.
LEMMA ReturnKeeps ==
    ASSUME ListInv, CallReturns
    PROVE  ListInv' /\ NoLateCall
<1>. DEFINE n    == Innermost
            o    == n.current
            done == [n EXCEPT !.current = Nobody, !.todo = @ \ {o}]
            next == [n EXCEPT !.index = @ + 1, !.told = @ \cup {<< o, n.index + 1 >>}]
<1>1. /\ accesses # << >> /\ n.current # Nobody
      /\ UNCHANGED << watch, listVars >>
      /\ SetInnermost(IF n.index = LastWord(n, o) \/ ~IsCalled(list, o) THEN done ELSE next)
  BY DEF CallReturns, UserRuns
<1>2. Follows(n, list) /\ Len(accesses) \in 1 .. Len(accesses)
  <2>1. Len(accesses) \in 1 .. Len(accesses)
    BY <1>1, EmptySeq, LenProperties DEF ListInv
  <2>. QED
    BY <2>1 DEF ListInv, Innermost
<1>3. /\ n \in Notifications /\ list \in Lists /\ watch \in Watches
      /\ o \in n.todo /\ o \in Observers /\ o \in list.observers
      /\ n.index \in FirstWord(n, o) .. LastWord(n, o)
      /\ \A w \in FirstWord(n, o) .. n.index : << o, w >> \in n.told
  BY <1>1, <1>2 DEF Follows, ListInv, Lists
<1>4. FirstWord(n, o) \in Int /\ LastWord(n, o) \in Int /\ n.index \in Int
  BY <1>3, WordsInOrder DEF Notifications
<1>5. IsCalled(list, o) <=> o \in Registered(list)
  BY <1>3, Called
<1>. HIDE DEF n
<1>6. CASE n.index = LastWord(n, o) \/ ~IsCalled(list, o)
  <2>1. SetInnermost(done)
    BY <1>1, <1>6
  <2>2. /\ done \in Notifications
        /\ done.access = n.access /\ done.todo = n.todo \ {o} /\ done.settled = n.settled
        /\ done.current = Nobody /\ done.index = n.index /\ done.told = n.told
    BY <1>3 DEF Notifications
  <2>. HIDE DEF done
  <2>3. \A x : FirstWord(done, x) = FirstWord(n, x) /\ LastWord(done, x) = LastWord(n, x)
               /\ (Concerns(done, x) <=> Concerns(n, x))
    BY <2>2 DEF FirstWord, LastWord, Concerns
  <2>4. o \in n.settled => \A w \in FirstWord(n, o) .. LastWord(n, o) : << o, w >> \in n.told
    BY <1>2, <1>3, <1>5, <1>6 DEF Follows
  <2>5. \A x \in done.settled \ done.todo : Concerns(done, x) =>
            \A w \in FirstWord(done, x) .. LastWord(done, x) : << x, w >> \in done.told
    BY <1>2, <2>2, <2>3, <2>4 DEF Follows
  <2>6. Follows(done, list)
    BY <1>2, <2>2, <2>5 DEF Follows
  <2>7. ListInv'
    BY <1>1, <2>1, <2>2, <2>6, InnermostStep
  <2>8. accesses'[Len(accesses)] = done
    BY <1>1, <2>1, <2>2, Replaced
  <2>9. NoLateCall
    BY <2>2, <2>8 DEF NoLateCall, n
  <2>. QED
    BY <2>7, <2>9
<1>7. CASE ~(n.index = LastWord(n, o) \/ ~IsCalled(list, o))
  <2>1. SetInnermost(next)
    BY <1>1, <1>7
  <2>2. /\ next \in Notifications
        /\ next.access = n.access /\ next.todo = n.todo /\ next.settled = n.settled
        /\ next.current = o /\ next.index = n.index + 1
        /\ next.told = n.told \cup {<< o, n.index + 1 >>}
    <3>1. n.told \cup {<< o, n.index + 1 >>} \in SUBSET (Observers \X Int) /\ n.index + 1 \in Int
      BY <1>3, <1>4 DEF Notifications
    <3>. DEFINE told == n.told \cup {<< o, n.index + 1 >>}
    <3>2. next = [n EXCEPT !.index = n.index + 1, !.told = told]
      BY <1>3 DEF Notifications
    <3>. HIDE DEF next, told
    <3>3. told \in SUBSET (Observers \X Int)
      BY <3>1 DEF told
    <3>4. /\ next \in Notifications
          /\ next.access = n.access /\ next.todo = n.todo /\ next.settled = n.settled
          /\ next.current = n.current /\ next.index = n.index + 1 /\ next.told = told
      BY <1>3, <3>1, <3>2, <3>3 DEF Notifications
    <3>. QED
      BY <3>4 DEF told
  <2>. HIDE DEF next
  <2>3. \A x : FirstWord(next, x) = FirstWord(n, x) /\ LastWord(next, x) = LastWord(n, x)
               /\ (Concerns(next, x) <=> Concerns(n, x))
    BY <2>2 DEF FirstWord, LastWord, Concerns
  <2>4. /\ next.index \in FirstWord(next, o) .. LastWord(next, o)
        /\ \A w \in FirstWord(next, o) .. next.index : << o, w >> \in next.told
    <3>1. n.index + 1 \in FirstWord(n, o) .. LastWord(n, o)
      BY <1>3, <1>4, <1>7
    <3>2. \A w \in FirstWord(n, o) .. n.index + 1 :
              w \in FirstWord(n, o) .. n.index \/ w = n.index + 1
      BY <1>4
    <3>. QED
      BY <1>3, <2>2, <2>3, <3>1, <3>2
  <2>5. \A x \in next.settled \ next.todo : Concerns(next, x) =>
            \A w \in FirstWord(next, x) .. LastWord(next, x) : << x, w >> \in next.told
    BY <1>2, <2>2, <2>3 DEF Follows
  <2>6. Follows(next, list)
    BY <1>2, <1>3, <2>2, <2>4, <2>5 DEF Follows
  <2>7. ListInv'
    BY <1>1, <2>1, <2>2, <2>6, InnermostStep
  <2>8. accesses'[Len(accesses)] = next
    BY <1>1, <2>1, <2>2, Replaced
  <2>9. NoLateCall
    BY <1>5, <1>7, <2>2, <2>8 DEF NoLateCall, n
  <2>. QED
    BY <2>7, <2>9
<1>. QED
  BY <1>6, <1>7

\* The loop ends: the second notification of the access begins with the list
\* as it is now, or the access is over.
LEMMA EndKeeps ==
    ASSUME ListInv, EndNotification
    PROVE  ListInv' /\ NoLateCall
<1>. DEFINE n    == Innermost
            left == Leave(list)
            settled == IF Len(accesses) = 1 THEN left.observers ELSE n.settled
            post == Notification(n.access, "post", left, settled)
<1>1. /\ accesses # << >> /\ UNCHANGED << watch, mapped, pages >>
      /\ IF n.phase = "pre" /\ IsNotified(left, n.access)
         THEN list' = Enter(left) /\ SetInnermost(post)
         ELSE list' = left /\ accesses' = Front(accesses)
  BY DEF EndNotification
<1>2. /\ list \in Lists /\ accesses \in Seq(Notifications) /\ list.level = Len(accesses)
      /\ Len(accesses) \in Nat \ {0} /\ Len(accesses) \in 1 .. Len(accesses)
  BY <1>1, EmptySeq DEF ListInv
<1>8. /\ Len(accesses) \in Nat /\ Len(accesses) >= 1
      /\ Len(accesses) = 1 \/ Len(accesses) > 1
      /\ ~(Len(accesses) = 1 /\ Len(accesses) > 1)
      /\ ~(1 <= Len(accesses) - 1) => Len(accesses) = 1
  <2>1. \A k \in Nat \ {0} : /\ k \in Nat /\ k >= 1 /\ (k = 1 \/ k > 1) /\ ~(k = 1 /\ k > 1)
                             /\ ~(1 <= k - 1) => k = 1
    OBVIOUS
  <2>2. Len(accesses) \in Nat \ {0}
    BY <1>2
  <2>. QED
    BY <2>1, <2>2, Zenon
<1>3. Follows(n, list) /\ n \in Notifications
  BY <1>2 DEF ListInv, Innermost, Follows
<1>4. /\ left \in Lists /\ left.level = Len(accesses) - 1
      /\ Registered(left) = Registered(list)
      /\ Len(accesses) > 1 => left.observers = list.observers
      /\ Len(accesses) = 1 => ~left.copied /\ left.observers = Registered(list)
      /\ left.enabled = list.enabled
  <2>1. list.level > 0 /\ (list.level > 1 <=> Len(accesses) > 1)
        /\ (list.level = 1 <=> Len(accesses) = 1)
    BY <1>2
  <2>2. /\ left \in Lists /\ left.level = list.level - 1
        /\ Registered(left) = Registered(list)
        /\ list.level > 1 => left.observers = list.observers
        /\ list.level = 1 => ~left.copied /\ left.observers = Registered(list)
        /\ left.enabled = list.enabled
    BY <1>2, <2>1, Leaving
  <2>. HIDE DEF left
  <2>. QED
    BY <1>2, <2>1, <2>2
<1>. HIDE DEF left
<1>5. ASSUME NEW k, k.observers = left.observers, Registered(k) = Registered(left),
             NEW i \in 1 .. Len(accesses), Len(accesses) > 1
      PROVE  Follows(accesses[i], k)
  <2>1. Follows(accesses[i], list)
    BY DEF ListInv
  <2>2. accesses[i].settled \subseteq Registered(k) /\ k.observers = list.observers
    BY <1>4, <1>5, <2>1 DEF Follows
  <2>. QED
    BY <2>1, <2>2, SameSets
<1>6. CASE n.phase = "pre" /\ IsNotified(left, n.access)
  <2>1. list' = Enter(left) /\ SetInnermost(post)
    BY <1>1, <1>6
  <2>2. /\ Enter(left) \in Lists /\ Enter(left).level = left.level + 1
        /\ Registered(Enter(left)) = Registered(left)
        /\ Enter(left).observers = left.observers
    BY <1>4, Entering
  <2>3. Enter(left).enabled = left.enabled
    BY <1>4 DEF Enter, Lists
  <2>4. settled \subseteq left.observers /\ settled \subseteq Registered(left)
    <3>1. n.settled \subseteq list.observers /\ n.settled \subseteq Registered(list)
      BY <1>3 DEF Follows
    <3>2. CASE Len(accesses) = 1
      BY <1>4, <3>2
    <3>3. CASE Len(accesses) > 1
      <4>1. settled = n.settled
        BY <1>8, <3>3
      <4>. HIDE DEF settled
      <4>. QED
        BY <1>4, <3>1, <3>3, <4>1
    <3>. QED
      BY <1>8, <3>2, <3>3
  <2>5. n.access \in Accesses
    BY <1>3 DEF Notifications
  <2>. HIDE DEF settled, n
  <2>6. Follows(post, left)
    BY <1>4, <2>4, <2>5, NewNotification
  <2>7. post \in Notifications /\ post.settled \subseteq Registered(left) /\ post.told = {}
    BY <2>6 DEF Follows, Notification
  <2>. HIDE DEF post
  <2>8. /\ accesses' \in Seq(Notifications) /\ Len(accesses') = Len(accesses)
        /\ accesses'[Len(accesses)] = post
        /\ \A i \in 1 .. Len(accesses) : i # Len(accesses) => accesses'[i] = accesses[i]
    BY <1>1, <2>1, <2>7, Replaced
  <2>9. ASSUME NEW i \in 1 .. Len(accesses') PROVE Follows(accesses'[i], list')
    <3>1. CASE i = Len(accesses)
      BY <2>1, <2>2, <2>6, <2>7, <2>8, <3>1, SameSets
    <3>2. CASE i # Len(accesses)
      <4>1. i \in 1 .. Len(accesses) /\ Len(accesses) > 1
        BY <1>2, <2>8, <3>2
      <4>. QED
        BY <1>5, <2>1, <2>2, <2>8, <3>2, <4>1
    <3>. QED
      BY <3>1, <3>2
  <2>10. PagesAreMarked'
    BY <1>1, <1>4, <2>1, <2>2, <2>3, MarksStay DEF ListInv
  <2>11. list'.level = Len(accesses') /\ ~(list'.level = 0)
    BY <1>2, <1>4, <2>1, <2>2, <2>8
  <2>12. ListInv'
    BY <1>1, <2>1, <2>2, <2>8, <2>9, <2>10, <2>11, InvariantAfter DEF ListInv
  <2>13. NoLateCall
    BY <2>7, <2>8 DEF NoLateCall
  <2>. QED
    BY <2>12, <2>13
<1>7. CASE ~(n.phase = "pre" /\ IsNotified(left, n.access))
  <2>1. list' = left /\ accesses' = Front(accesses)
    BY <1>1, <1>7
  <2>2. accesses' = SubSeq(accesses, 1, Len(accesses) - 1)
    BY <2>1 DEF Front
  <2>3. \A i \in 1 .. Len(accesses) - 1 : accesses[i] \in Notifications
    <3>1. \A i \in 1 .. Len(accesses) : accesses[i] \in Notifications
      BY <1>2, ElementOfSeq
    <3>. QED
      BY <1>2, <3>1
  <2>4. /\ accesses' \in Seq(Notifications) /\ Len(accesses') = Len(accesses) - 1
        /\ \A i \in 1 .. Len(accesses) - 1 : accesses'[i] = accesses[i]
    <3>. DEFINE s == SubSeq(accesses, 1, Len(accesses) - 1)
    <3>1. /\ s \in Seq(Notifications)
          /\ Len(s) = IF 1 <= Len(accesses) - 1 THEN Len(accesses) - 1 - 1 + 1 ELSE 0
          /\ \A i \in 1 .. Len(accesses) - 1 - 1 + 1 : s[i] = accesses[1 + i - 1]
      BY <1>2, <2>3, SubSeqProperties
    <3>. HIDE DEF s
    <3>2. \A i \in 1 .. Len(accesses) - 1 : s[i] = accesses[i]
      BY <1>2, <3>1
    <3>3. Len(s) = Len(accesses) - 1
      <4>1. CASE 1 <= Len(accesses) - 1
        BY <1>2, <3>1, <4>1
      <4>2. CASE ~(1 <= Len(accesses) - 1)
        <5>1. Len(s) = 0
          BY <3>1, <4>2
        <5>2. Len(accesses) = 1
          BY <1>8, <4>2
        <5>. QED
          BY <5>1, <5>2
      <4>. QED
        BY <4>1, <4>2
    <3>. QED
      BY <2>2, <3>1, <3>2, <3>3 DEF s
  <2>5. ASSUME NEW i \in 1 .. Len(accesses') PROVE Follows(accesses'[i], list')
    <3>1. i \in 1 .. Len(accesses) /\ Len(accesses) > 1 /\ i \in 1 .. Len(accesses) - 1
      BY <1>2, <2>4
    <3>. QED
      BY <1>5, <2>1, <2>4, <3>1
  <2>6. PagesAreMarked'
    BY <1>1, <1>4, <2>1, MarksStay DEF ListInv
  <2>7. list'.level = Len(accesses') /\ (list'.level = 0 => ~list'.copied)
    BY <1>2, <1>4, <2>1, <2>4
  <2>8. ListInv'
    BY <1>1, <1>4, <2>1, <2>4, <2>5, <2>6, <2>7, InvariantAfter DEF ListInv
  <2>9. NoLateCall
    BY <1>2, <2>4 DEF NoLateCall
  <2>. QED
    BY <2>8, <2>9
<1>. QED
  BY <1>6, <1>7

\* A change of the list leaves what the notifications in progress follow, but
\* for those who are unregistered.
LEMMA ListChange ==
    ASSUME ListInv, NEW gone, watch' = watch,
           list' \in Lists, list'.level = list.level,
           list.level > 0 => list'.observers = list.observers,
           list.level = 0 => ~list'.copied,
           Registered(list) \ gone \subseteq Registered(list'),
           Unsettle(gone), PagesAreMarked'
    PROVE  ListInv' /\ NoLateCall
<1>1. /\ accesses \in Seq(Notifications) /\ Len(accesses) \in Nat
      /\ DOMAIN accesses = 1 .. Len(accesses) /\ list.level = Len(accesses)
      /\ \A i \in 1 .. Len(accesses) : accesses[i] \in Notifications
  BY LenProperties, ElementOfSeq DEF ListInv
<1>2. accesses' = [i \in 1 .. Len(accesses) |-> [accesses[i] EXCEPT !.settled = @ \ gone]]
  BY <1>1 DEF Unsettle
<1>3. ASSUME NEW i \in 1 .. Len(accesses)
      PROVE  /\ accesses'[i] \in Notifications
             /\ accesses'[i].access = accesses[i].access /\ accesses'[i].todo = accesses[i].todo
             /\ accesses'[i].current = accesses[i].current /\ accesses'[i].index = accesses[i].index
             /\ accesses'[i].told = accesses[i].told
             /\ accesses'[i].settled = accesses[i].settled \ gone
  <2>1. accesses[i] \in Notifications /\ accesses'[i] = [accesses[i] EXCEPT !.settled = @ \ gone]
    BY <1>1, <1>2
  <2>. QED
    BY <2>1 DEF Notifications
<1>4. accesses' \in Seq(Notifications) /\ Len(accesses') = Len(accesses)
  <2>1. accesses' \in [1 .. Len(accesses) -> Notifications]
    BY <1>2, <1>3
  <2>. QED
    BY <1>1, <2>1, FunctionIsSequence
<1>5. ASSUME NEW i \in 1 .. Len(accesses') PROVE Follows(accesses'[i], list')
  <2>. DEFINE n == accesses[i]
              m == accesses'[i]
  <2>1. i \in 1 .. Len(accesses) /\ Follows(n, list) /\ list'.observers = list.observers
    BY <1>1, <1>4 DEF ListInv
  <2>2. /\ m \in Notifications /\ m.access = n.access /\ m.todo = n.todo /\ m.current = n.current
        /\ m.index = n.index /\ m.told = n.told /\ m.settled = n.settled \ gone
    BY <1>3, <2>1
  <2>. HIDE DEF n, m
  <2>3. \A x : FirstWord(m, x) = FirstWord(n, x) /\ LastWord(m, x) = LastWord(n, x)
               /\ (Concerns(m, x) <=> Concerns(n, x))
    BY <2>2 DEF FirstWord, LastWord, Concerns
  <2>4. m.settled \subseteq Registered(list')
    BY <2>1, <2>2 DEF Follows
  <2>5. Follows(m, list')
    BY <2>1, <2>2, <2>3, <2>4 DEF Follows
  <2>. QED
    BY <2>5 DEF m
<1>6. ListInv'
  BY <1>1, <1>4, <1>5, InvariantAfter DEF ListInv
<1>7. NoLateCall
  <2>1. accesses # << >> => Len(accesses) \in 1 .. Len(accesses)
    BY <1>1, EmptySeq
  <2>2. accesses # << >> => accesses'[Len(accesses)].told = Innermost.told
    BY <1>3, <2>1 DEF Innermost
  <2>. QED
    BY <2>2 DEF NoLateCall
<1>. QED
  BY <1>6, <1>7

\* Nobody is unregistered if the accesses in progress stay as they are.
LEMMA NobodyGone ==
    ASSUME ListInv, accesses' = accesses
    PROVE  Unsettle({})
<1>1. /\ accesses \in [1 .. Len(accesses) -> Notifications]
      /\ DOMAIN accesses = 1 .. Len(accesses)
  BY LenProperties DEF ListInv
<1>2. \A r \in Notifications : [r EXCEPT !.settled = @ \ {}] = r
  BY DEF Notifications
<1>3. \A i \in DOMAIN accesses : [accesses[i] EXCEPT !.settled = @ \ {}] = accesses[i]
  BY <1>1, <1>2
<1>. QED
  BY <1>1, <1>3 DEF Unsettle

\* The kinds and pages of an observer.
LEMMA Watched ==
    ASSUME watch \in Watches, NEW o \in Observers
    PROVE  watch[o].kinds \subseteq Kinds
  BY ContentAssumption, TopAssumption

\* What the marks have to be, said of the list and the pages of the next state.
LEMMA MarksAfter ==
    ASSUME watch' = watch,
           list'.enabled <=> Registered(list') # {},
           list'.enabled => mapped',
           \A o \in Registered(list') :
               \A k \in watch[o].kinds : PagesOf(watch[o]) \subseteq pages'[k]
    PROVE  PagesAreMarked'
<1>1. Registered(list)' = Registered(list')
  BY DEF Registered
<1>. QED
  BY <1>1 DEF PagesAreMarked, PagesOf, PageOf

\* register_observer marks the pages of the new observer.
LEMMA RegisterKeeps ==
    ASSUME ListInv, NEW o \in Observers, RegisterObserver(o)
    PROVE  ListInv' /\ NoLateCall
<1>1. /\ watch' = watch /\ accesses' = accesses /\ list' = Register(list, o)
      /\ IF o \in Registered(list)
         THEN UNCHANGED << mapped, pages >>
         ELSE /\ mapped' = TRUE
              /\ pages' = [k \in Kinds |->
                              IF k \in watch[o].kinds THEN pages[k] \cup PagesOf(watch[o])
                                                      ELSE pages[k]]
  BY DEF RegisterObserver
<1>2. list \in Lists /\ watch \in Watches /\ (list.level = 0 => ~list.copied) /\ PagesAreMarked
  BY DEF ListInv
<1>3. /\ list' \in Lists /\ list'.level = list.level
      /\ Registered(list') = Registered(list) \cup {o}
      /\ list.level > 0 => list'.observers = list.observers
      /\ list.level = 0 => ~list'.copied
      /\ o \in Registered(list) => (list'.enabled <=> list.enabled)
      /\ o \notin Registered(list) => list'.enabled
  BY <1>1, <1>2, Registering
<1>4. PagesAreMarked'
  <2>1. CASE o \in Registered(list)
    <3>1. Registered(list') = Registered(list) /\ UNCHANGED << mapped, pages >>
      BY <1>1, <1>3, <2>1
    <3>2. /\ list'.enabled <=> Registered(list') # {}
          /\ list'.enabled => mapped'
      BY <1>2, <1>3, <2>1, <3>1 DEF PagesAreMarked
    <3>3. \A p \in Registered(list') :
              \A k \in watch[p].kinds : PagesOf(watch[p]) \subseteq pages'[k]
      BY <1>2, <3>1 DEF PagesAreMarked
    <3>. QED
      BY <1>1, <3>2, <3>3, MarksAfter
  <2>2. CASE o \notin Registered(list)
    <3>1. mapped' /\ list'.enabled /\ Registered(list') # {}
      BY <1>1, <1>3, <2>2
    <3>2. ASSUME NEW p \in Registered(list'), NEW k \in watch[p].kinds
          PROVE  PagesOf(watch[p]) \subseteq pages'[k]
      <4>1. p \in Observers /\ k \in Kinds
        BY <1>2, <1>3, RegisteredAreObservers, Watched
      <4>2. pages'[k] = IF k \in watch[o].kinds THEN pages[k] \cup PagesOf(watch[o])
                                                ELSE pages[k]
        BY <1>1, <2>2, <4>1
      <4>3. p = o \/ PagesOf(watch[p]) \subseteq pages[k]
        BY <1>2, <1>3 DEF PagesAreMarked
      <4>. QED
        BY <4>2, <4>3
    <3>. QED
      BY <1>1, <3>1, <3>2, MarksAfter
  <2>. QED
    BY <2>1, <2>2
<1>5. Unsettle({}) /\ Registered(list) \ {} \subseteq Registered(list')
  BY <1>1, <1>3, NobodyGone
<1>. QED
  BY <1>1, <1>3, <1>4, <1>5, ListChange

\* unregister_observer makes the marks of those who are left again.
LEMMA UnregisterKeeps ==
    ASSUME ListInv, NEW o \in Observers, UnregisterObserver(o)
    PROVE  ListInv' /\ NoLateCall
<1>1. /\ watch' = watch /\ mapped' = mapped /\ list' = Unregister(list, o) /\ Unsettle({o})
      /\ pages' = IF o \in Registered(list) THEN Remarked(o) ELSE pages
  BY DEF UnregisterObserver
<1>2. list \in Lists /\ watch \in Watches /\ (list.level = 0 => ~list.copied) /\ PagesAreMarked
  BY DEF ListInv
<1>3. /\ list' \in Lists /\ list'.level = list.level
      /\ Registered(list') = Registered(list) \ {o}
      /\ list.level > 0 => list'.observers = list.observers
      /\ list.level = 0 => ~list'.copied
      /\ o \notin Registered(list) => (list'.enabled <=> list.enabled)
      /\ o \in Registered(list) => (list'.enabled <=> (list.enabled /\ Registered(list) # {o}))
  BY <1>1, <1>2, Unregistering
<1>4. list'.enabled => list.enabled
  BY <1>3
<1>5. list'.enabled <=> Registered(list') # {}
  BY <1>2, <1>3 DEF PagesAreMarked
<1>6. ASSUME NEW p \in Registered(list'), NEW k \in watch[p].kinds
      PROVE  PagesOf(watch[p]) \subseteq pages'[k]
  <2>1. p \in Observers /\ k \in Kinds /\ p \in Registered(list) \ {o}
    BY <1>2, <1>3, RegisteredAreObservers, Watched
  <2>2. PagesOf(watch[p]) \subseteq pages[k]
    BY <1>2, <2>1 DEF PagesAreMarked
  <2>3. CASE o \in Registered(list) /\ k \in watch[o].kinds
    <3>1. pages'[k] = UNION {PagesOf(watch[q]) : q \in Registered(list) \ {o}}
      BY <1>1, <2>1, <2>3 DEF Remarked
    <3>. QED
      BY <2>1, <3>1
  <2>4. CASE ~(o \in Registered(list) /\ k \in watch[o].kinds)
    <3>1. pages'[k] = pages[k]
      BY <1>1, <2>1, <2>4 DEF Remarked
    <3>. QED
      BY <2>2, <3>1
  <2>. QED
    BY <2>3, <2>4
<1>7. PagesAreMarked'
  BY <1>1, <1>2, <1>4, <1>5, <1>6, MarksAfter DEF PagesAreMarked
<1>. QED
  BY <1>1, <1>3, <1>7, ListChange

\* unregister_all_observers.
LEMMA UnregisterAllKeeps ==
    ASSUME ListInv, UnregisterAllObservers
    PROVE  ListInv' /\ NoLateCall
<1>1. watch' = watch /\ list' = UnregisterAll(list) /\ Unsettle(Observers)
  BY DEF UnregisterAllObservers
<1>2. list \in Lists /\ (list.level = 0 => ~list.copied)
  BY DEF ListInv
<1>3. /\ list' \in Lists /\ list'.level = list.level
      /\ Registered(list') = {}
      /\ list.level > 0 => list'.observers = list.observers
      /\ list.level = 0 => ~list'.copied
      /\ ~list'.enabled
  BY <1>1, <1>2, UnregisteringAll
<1>4. Registered(list) \ Observers \subseteq Registered(list')
  BY <1>2, RegisteredAreObservers
<1>5. PagesAreMarked'
  BY <1>1, <1>3, MarksAfter
<1>. QED
  BY <1>1, <1>3, <1>4, <1>5, ListChange

\* What the direct memory interface does leaves the observers alone.
LEMMA DmiKeeps ==
    ASSUME ListInv, UNCHANGED << watch, listVars, accesses >>
    PROVE  ListInv' /\ NoLateCall
<1>1. UNCHANGED << watch, list, mapped, pages, accesses >>
  BY DEF listVars
<1>2. PagesAreMarked'
  BY <1>1, MarksStay DEF ListInv
<1>3. ListInv'
  BY <1>1, <1>2, InvariantAfter DEF ListInv
<1>4. NoLateCall
  BY <1>1 DEF NoLateCall, Innermost
<1>. QED
  BY <1>3, <1>4

\* Every step keeps the invariant and calls registered observers only.
LEMMA ListStep ==
    ASSUME ListInv, [Next]_vars
    PROVE  ListInv' /\ NoLateCall
<1>1. CASE \E a \in Accesses : BeginAccess(a)
  BY <1>1, BeginKeeps
<1>2. CASE \E o \in Observers : VisitObserver(o)
  BY <1>2, VisitKeeps
<1>3. CASE \E o \in Observers : RegisterObserver(o)
  BY <1>3, RegisterKeeps
<1>4. CASE \E o \in Observers : UnregisterObserver(o)
  BY <1>4, UnregisterKeeps
<1>5. CASE CallReturns
  BY <1>5, ReturnKeeps
<1>6. CASE EndNotification
  BY <1>6, EndKeeps
<1>7. CASE UnregisterAllObservers
  BY <1>7, UnregisterAllKeeps
<1>8. CASE \E o \in Observers : DisableDmi(o)
  <2>1. UNCHANGED << watch, listVars, accesses >>
    BY <1>8, Zenon DEF DisableDmi
  <2>. QED
    BY <2>1, DmiKeeps
<1>9. CASE SwitchDmi \/ AnswerRequest
  <2>1. UNCHANGED << watch, listVars, accesses >>
    BY <1>9, Zenon DEF SwitchDmi, AnswerRequest
  <2>. QED
    BY <2>1, DmiKeeps
<1>10. CASE \E index \in Requested : GetDirectMemPtr(index)
  <2>1. UNCHANGED << watch, listVars, accesses >>
    BY <1>10, Zenon DEF GetDirectMemPtr
  <2>. QED
    BY <2>1, DmiKeeps
<1>11. CASE UNCHANGED vars
  <2>1. UNCHANGED << watch, listVars, accesses >>
    BY <1>11, Zenon DEF vars
  <2>. QED
    BY <2>1, DmiKeeps
<1>. QED
  BY <1>1, <1>2, <1>3, <1>4, <1>5, <1>6, <1>7, <1>8, <1>9, <1>10, <1>11 DEF Next

LEMMA ListStart == Init => ListInv
<1>. SUFFICES ASSUME Init PROVE ListInv
  OBVIOUS
<1>1. /\ watch \in Watches /\ list = NoObservers /\ mapped = FALSE /\ accesses = << >>
  BY DEF Init
<1>2. list \in Lists /\ list.level = 0 /\ list.observers = {}
  BY <1>1 DEF NoObservers, Lists
<1>3. ~list.copied /\ ~list.enabled
  BY <1>1 DEF NoObservers
<1>4. accesses \in Seq(Notifications) /\ Len(accesses) = 0
  BY <1>1, EmptySeq
<1>5. PagesAreMarked
  BY <1>2, <1>3 DEF PagesAreMarked, Registered
<1>. QED
  BY <1>1, <1>2, <1>3, <1>4, <1>5 DEF ListInv

-----------------------------------------------------------------------------
(* Theorems                                                                *)

\* Whatever observers register, unregister and access while they are called:
\* the pages of everybody registered are marked, and who was registered all
\* along a notification has been told of each of his words when it is done
\* with him (notify_observers, update_page_map).
THEOREM NoAccessEverMissed == Spec => []NoAccessIsMissed
<1>1. Init => ListInv
  BY ListStart
<1>2. ListInv /\ [Next]_vars => ListInv'
  BY ListStep
<1>3. ListInv => NoAccessIsMissed
  <2>. SUFFICES ASSUME ListInv PROVE NoAccessIsMissed
    OBVIOUS
  <2>1. DOMAIN accesses = 1 .. Len(accesses)
    BY LenProperties DEF ListInv
  <2>2. \A i \in DOMAIN accesses : Follows(accesses[i], list)
    BY <2>1 DEF ListInv
  <2>. QED
    BY <2>2 DEF NoAccessIsMissed, Follows, ListInv
<1>. QED
  BY <1>1, <1>2, <1>3, PTL DEF Spec

\* Nobody is called after he was unregistered, be it by a notification that
\* began before or by one inside of it: he may be destroyed.
THEOREM NeverCalledAfterUnregister == Spec => NoCallAfterUnregister
<1>1. Init => ListInv
  BY ListStart
<1>2. ListInv /\ [Next]_vars => ListInv'
  BY ListStep
<1>3. ListInv /\ [Next]_vars => NoLateCall
  BY ListStep
<1>4. NoCallAfterUnregister <=> [][NoLateCall]_vars
  BY PTL DEF NoCallAfterUnregister, NoLateCall
<1>. QED
  BY <1>1, <1>2, <1>3, <1>4, PTL DEF Spec


-----------------------------------------------------------------------------
(* What is accessed directly                                               *)

\* The inductive invariant, on top of the other two: while pointers are in use
\* the words of everybody who is registered are out of the table, or on their
\* way out of it for a request that nobody can register in the middle of.
HeldInv ==
    /\ asked # NoIndex => accesses = << >> /\ mDmiPointersInUse
    /\ asked = NoIndex => toDisable = {}
    /\ toDisable # {} => held = {}
    /\ ~mDmiPointersInUse => held = {}
    /\ held \subseteq 0 .. Top
    /\ held \cap denied = {}
    /\ mDmiPointersInUse =>
          \A o \in Registered(list) \ toDisable :
              "write" \in watch[o].kinds => watch[o].low .. watch[o].high \subseteq denied

\* A step that leaves the table and those who are registered.
LEMMA HeldStays ==
    ASSUME HeldInv, UNCHANGED << watch, dmiVars >>,
           Registered(list') = Registered(list), asked = NoIndex \/ accesses' = accesses
    PROVE  HeldInv'
<1>1. Registered(list)' = Registered(list)
  BY DEF Registered
<1>. QED
  BY <1>1, Zenon DEF HeldInv, dmiVars

\* A step that makes all initiators ask again.
LEMMA HeldInvalidated ==
    ASSUME HeldInv, InvalidateDmi, asked = NoIndex, UNCHANGED << asked, toDisable >>
    PROVE  HeldInv'
<1>1. ~mDmiPointersInUse' /\ held' = {}
  BY DEF InvalidateDmi
<1>. QED
  BY <1>1 DEF HeldInv

\* get_direct_mem_ptr computes the table from those who are registered: outside
\* of notifications that is the list.
LEMMA HeldAsk ==
    ASSUME ListInv, HeldInv, ~RequestsInside, NEW index \in Requested, GetDirectMemPtr(index)
    PROVE  HeldInv'
<1>1. /\ asked = NoIndex /\ accesses = << >> /\ accesses' = accesses
      /\ watch' = watch /\ list' = list /\ held' = held
      /\ asked' = index /\ mDmiPointersInUse'
  BY DEF GetDirectMemPtr, UserRuns, listVars
<1>2. toDisable = {} /\ (~mDmiPointersInUse => held = {})
  BY <1>1 DEF HeldInv
<1>3. Registered(list)' = Registered(list)
  BY <1>1 DEF Registered
<1>4. asked' # NoIndex
  BY <1>1, ContentAssumption, TopAssumption DEF NoIndex
<1>5. CASE mDmiPointersInUse
  <2>1. UNCHANGED << denied, toDisable >>
    BY <1>5 DEF GetDirectMemPtr
  <2>. QED
    BY <1>1, <1>2, <1>3, <1>4, <1>5, <2>1 DEF HeldInv
<1>6. CASE ~mDmiPointersInUse /\ mDmiEnabled
  <2>1. toDisable' = IF list.enabled
                     THEN {o \in list.observers : "write" \in watch[o].kinds} ELSE {}
    BY <1>6 DEF GetDirectMemPtr
  <2>2. Registered(list) = list.observers
    BY <1>1, EmptySeq DEF ListInv, Registered
  <2>3. \A o \in Registered(list) \ toDisable' : "write" \notin watch[o].kinds
    BY <2>1, <2>2 DEF ListInv, PagesAreMarked
  <2>. QED
    BY <1>1, <1>2, <1>3, <1>4, <1>6, <2>3 DEF HeldInv
<1>7. CASE ~mDmiPointersInUse /\ ~mDmiEnabled
  <2>1. denied' = 0 .. Top /\ toDisable' = {}
    BY <1>7 DEF GetDirectMemPtr, Dmi!DisableAll
  <2>2. \A o \in Registered(list) : watch[o].low .. watch[o].high \subseteq 0 .. Top
    <3>1. \A o \in Observers : /\ watch[o].low \in 0 .. (Size - 1)
                               /\ watch[o].high \in 0 .. (Size - 1)
      BY ContentAssumption, TopAssumption DEF ListInv
    <3>2. Size \in Nat /\ Top \in Nat /\ Size <= Top
      BY ContentAssumption, TopAssumption
    <3>3. \A o \in Observers : watch[o].low .. watch[o].high \subseteq 0 .. Top
      BY <3>1, <3>2
    <3>. QED
      BY <3>3, RegisteredAreObservers DEF ListInv
  <2>. QED
    BY <1>1, <1>2, <1>3, <1>4, <1>7, <2>1, <2>2 DEF HeldInv
<1>. QED
  BY <1>5, <1>6, <1>7

\* disable_dmi of the observers takes the words of one of them out.
LEMMA HeldDisable ==
    ASSUME HeldInv, NEW o \in Observers, DisableDmi(o)
    PROVE  HeldInv'
<1>1. /\ o \in toDisable /\ toDisable' = toDisable \ {o}
      /\ denied' = denied \cup (watch[o].low .. watch[o].high)
      /\ watch' = watch /\ list' = list /\ accesses' = accesses /\ held' = held
      /\ asked' = asked /\ mDmiPointersInUse' = mDmiPointersInUse
  BY DEF DisableDmi, Dmi!DisableRange, listVars
<1>2. held = {}
  BY <1>1 DEF HeldInv
<1>3. Registered(list)' = Registered(list)
  BY <1>1 DEF Registered
<1>4. \A p \in Registered(list) \ toDisable' : p = o \/ p \in Registered(list) \ toDisable
  BY <1>1
<1>5. mDmiPointersInUse =>
          \A p \in Registered(list) \ toDisable' :
              "write" \in watch[p].kinds => watch[p].low .. watch[p].high \subseteq denied'
  BY <1>1, <1>4 DEF HeldInv
<1>. QED
  BY <1>1, <1>2, <1>3, <1>5 DEF HeldInv

\* The answer is a range of the table: it grants no word that is out of it.
LEMMA HeldAnswer ==
    ASSUME TableInv, HeldInv, asked \in 0 .. Top, AnswerRequest
    PROVE  HeldInv'
<1>. DEFINE range == Dmi!Find(mDmiData, asked)
            given == range.startIndex .. range.endIndex
<1>1. /\ toDisable = {} /\ toDisable' = {} /\ asked # NoIndex /\ asked' = NoIndex
      /\ held' = IF range.dmiAllowed THEN held \cup given ELSE held
      /\ watch' = watch /\ list' = list /\ denied' = denied
      /\ mDmiPointersInUse' = mDmiPointersInUse
  BY DEF AnswerRequest, listVars
<1>2. mDmiPointersInUse
  BY <1>1 DEF HeldInv
<1>3. Registered(list)' = Registered(list)
  BY <1>1 DEF Registered
<1>4. range.dmiAllowed => given \subseteq 0 .. Top /\ given \cap denied = {}
  <2>. DEFINE i == Dmi!At(mDmiData, asked)
  <2>0. \A j \in 1 .. Len(mDmiData) :
            mDmiData[j].startIndex \in Nat /\ mDmiData[j].endIndex \in Nat
    <3>1. mDmiData \in Seq(Ranges)
      BY DEF TableInv, IsTable
    <3>. QED
      BY <3>1, Elements
  <2>1. i \in 1 .. Len(mDmiData) /\ range = mDmiData[i]
    BY Found DEF TableInv, Dmi!Find
  <2>. HIDE DEF i, range
  <2>2. range.startIndex \in Nat /\ range.endIndex \in Nat
    BY <2>0, <2>1
  <2>3. range.endIndex <= Top
    <3>1. Len(mDmiData) \in 1 .. Len(mDmiData) /\ mDmiData[Len(mDmiData)].endIndex = Top
      BY <2>1, LenProperties DEF TableInv, IsTable
    <3>2. i = Len(mDmiData) \/ i < Len(mDmiData)
      BY <2>1, <3>1
    <3>3. i < Len(mDmiData) => range.endIndex < mDmiData[Len(mDmiData)].startIndex
                               /\ mDmiData[Len(mDmiData)].startIndex <= Top
      BY <2>1, <3>1 DEF TableInv, IsTable
    <3>4. mDmiData[Len(mDmiData)].startIndex \in Nat /\ Top \in Nat
      BY <2>0, <3>1, ContentAssumption, TopAssumption
    <3>. QED
      BY <2>1, <2>2, <3>1, <3>2, <3>3, <3>4
  <2>4. given \subseteq 0 .. Top
    BY <2>2, <2>3, ContentAssumption, TopAssumption
  <2>5. ASSUME range.dmiAllowed, NEW x \in given PROVE x \notin denied
    <3>1. x \in 0 .. Top /\ Holds(mDmiData[i], x)
      BY <2>1, <2>2, <2>4 DEF Holds
    <3>. QED
      BY <2>1, <2>5, <3>1 DEF TableInv, Grants
  <2>. QED
    BY <2>4, <2>5
<1>5. held' \subseteq 0 .. Top /\ held' \cap denied = {}
  <2>. HIDE DEF range, given
  <2>. QED
    BY <1>1, <1>4 DEF HeldInv
<1>. QED
  BY <1>1, <1>2, <1>3, <1>5 DEF HeldInv

LEMMA HeldStep ==
    ASSUME ListInv, TableInv, HeldInv, asked \in 0 .. Top \cup {NoIndex},
           ~RequestsInside, [Next]_vars
    PROVE  HeldInv' /\ asked' \in 0 .. Top \cup {NoIndex}
<1>. DEFINE Bound == asked' \in 0 .. Top \cup {NoIndex}
<1>1. ASSUME NEW a \in Accesses, BeginAccess(a) PROVE HeldInv' /\ Bound
  <2>1. asked = NoIndex /\ list' = Enter(list) /\ UNCHANGED << watch, dmiVars >>
    BY <1>1 DEF BeginAccess, UserRuns
  <2>2. Registered(list') = Registered(list)
    BY <2>1, Entering DEF ListInv
  <2>. QED
    BY <2>1, <2>2, HeldStays DEF dmiVars
<1>2. ASSUME \/ CallReturns \/ UNCHANGED vars
             \/ \E o \in Observers : VisitObserver(o)
      PROVE  HeldInv' /\ Bound
  <2>1. CASE UNCHANGED vars
    <3>1. UNCHANGED << watch, list, accesses, dmiVars >>
      BY <2>1, Zenon DEF vars, listVars
    <3>. QED
      BY <3>1, HeldStays DEF dmiVars
  <2>2. CASE CallReturns \/ \E o \in Observers : VisitObserver(o)
    <3>1. accesses # << >> /\ UNCHANGED << watch, list, dmiVars >>
      BY <2>2, Zenon DEF VisitObserver, CallReturns, listVars
    <3>2. asked = NoIndex
      BY <3>1 DEF HeldInv
    <3>. QED
      BY <3>1, <3>2, HeldStays DEF dmiVars
  <2>. QED
    BY <1>2, <2>1, <2>2
<1>3. ASSUME EndNotification PROVE HeldInv' /\ Bound
  <2>. DEFINE left == Leave(list)
  <2>1. /\ accesses # << >> /\ UNCHANGED << watch, dmiVars >>
        /\ list' = left \/ list' = Enter(left)
    BY <1>3 DEF EndNotification
  <2>2. asked = NoIndex
    BY <2>1 DEF HeldInv
  <2>3. list \in Lists /\ list.level > 0
    BY <2>1, EmptySeq, LenProperties DEF ListInv
  <2>4. left \in Lists /\ Registered(left) = Registered(list)
    BY <2>3, Leaving
  <2>. HIDE DEF left
  <2>5. Registered(Enter(left)) = Registered(list)
    BY <2>4, Entering
  <2>6. Registered(list') = Registered(list)
    BY <2>1, <2>4, <2>5
  <2>. QED
    BY <2>1, <2>2, <2>6, HeldStays DEF dmiVars
<1>4. ASSUME NEW o \in Observers, RegisterObserver(o) PROVE HeldInv' /\ Bound
  <2>1. asked = NoIndex /\ UNCHANGED << asked, toDisable, mDmiEnabled, watch, accesses >>
        /\ list' = Register(list, o)
    BY <1>4 DEF RegisterObserver, UserRuns, OtherDmi
  <2>2. CASE o \notin Registered(list)
    <3>1. InvalidateDmi
      BY <1>4, <2>2 DEF RegisterObserver
    <3>. QED
      BY <2>1, <3>1, HeldInvalidated
  <2>3. CASE o \in Registered(list)
    <3>1. UNCHANGED << watch, dmiVars >>
      BY <1>4, <2>1, <2>3 DEF RegisterObserver, KeepDmi, dmiVars
    <3>2. list \in Lists /\ (list.level = 0 => ~list.copied)
      BY DEF ListInv
    <3>3. Registered(Register(list, o)) = Registered(list) \cup {o}
      BY <3>2, Registering
    <3>4. Registered(list) \cup {o} = Registered(list)
      BY <2>3
    <3>. QED
      BY <2>1, <3>1, <3>3, <3>4, HeldStays
  <2>. QED
    BY <2>2, <2>3
<1>5. ASSUME NEW o \in Observers, UnregisterObserver(o) PROVE HeldInv' /\ Bound
  <2>1. asked = NoIndex /\ UNCHANGED << asked, toDisable, mDmiEnabled, watch >>
        /\ list' = Unregister(list, o)
    BY <1>5 DEF UnregisterObserver, UserRuns, OtherDmi
  <2>2. CASE o \in Registered(list)
    <3>1. InvalidateDmi
      BY <1>5, <2>2 DEF UnregisterObserver
    <3>. QED
      BY <2>1, <3>1, HeldInvalidated
  <2>3. CASE o \notin Registered(list)
    <3>1. UNCHANGED << watch, dmiVars >>
      BY <1>5, <2>1, <2>3 DEF UnregisterObserver, KeepDmi, dmiVars
    <3>2. list \in Lists /\ (list.level = 0 => ~list.copied)
      BY DEF ListInv
    <3>3. Registered(Unregister(list, o)) = Registered(list) \ {o}
      BY <3>2, Unregistering
    <3>4. Registered(list) \ {o} = Registered(list)
      BY <2>3
    <3>. QED
      BY <2>1, <3>1, <3>3, <3>4, HeldStays
  <2>. QED
    BY <2>2, <2>3
<1>6. ASSUME UnregisterAllObservers \/ SwitchDmi PROVE HeldInv' /\ Bound
  <2>1. InvalidateDmi /\ asked = NoIndex /\ UNCHANGED << asked, toDisable >>
    BY <1>6 DEF UnregisterAllObservers, SwitchDmi, UserRuns, OtherDmi
  <2>. QED
    BY <2>1, HeldInvalidated
<1>7. ASSUME NEW o \in Observers, DisableDmi(o) PROVE HeldInv' /\ Bound
  <2>1. asked' = asked
    BY <1>7 DEF DisableDmi
  <2>. QED
    BY <1>7, <2>1, HeldDisable
<1>8. ASSUME AnswerRequest PROVE HeldInv' /\ Bound
  <2>1. asked' = NoIndex /\ asked \in 0 .. Top
    BY <1>8 DEF AnswerRequest
  <2>. QED
    BY <1>8, <2>1, HeldAnswer
<1>9. ASSUME NEW index \in Requested, GetDirectMemPtr(index) PROVE HeldInv' /\ Bound
  <2>1. asked' = index /\ index \in 0 .. Top
    BY <1>9, ContentAssumption, TopAssumption DEF GetDirectMemPtr
  <2>. QED
    BY <1>9, <2>1, HeldAsk
<1>. QED
  BY <1>1, <1>2, <1>3, <1>4, <1>5, <1>6, <1>7, <1>8, <1>9 DEF Next

\* A word that an observer of writes watches is not accessed directly behind
\* his back, for any observers, accesses and requests, as long as nobody asks
\* for direct access from inside a notification (register_content_observer,
\* get_direct_mem_ptr).
THEOREM WatchedNeverHeld ==
    ASSUME ~RequestsInside
    PROVE  Spec => []WatchedWordsAreNotHeld
<1>. DEFINE IInv == ListInv /\ TableInv /\ HeldInv /\ asked \in 0 .. Top \cup {NoIndex}
<1>1. Init => IInv
  <2>. SUFFICES ASSUME Init PROVE HeldInv /\ asked \in 0 .. Top \cup {NoIndex}
    BY ListStart, TableStart
  <2>1. asked = NoIndex /\ toDisable = {} /\ held = {} /\ ~mDmiPointersInUse
    BY DEF Init
  <2>. QED
    BY <2>1 DEF HeldInv
<1>2. IInv /\ [Next]_vars => IInv'
  BY ListStep, TableStep, HeldStep, ~RequestsInside
<1>3. IInv => WatchedWordsAreNotHeld
  <2>. SUFFICES ASSUME HeldInv PROVE WatchedWordsAreNotHeld
    OBVIOUS
  <2>1. CASE mDmiPointersInUse
    BY <2>1 DEF HeldInv, WatchedWordsAreNotHeld
  <2>2. CASE ~mDmiPointersInUse
    BY <2>2 DEF HeldInv, WatchedWordsAreNotHeld
  <2>. QED
    BY <2>1, <2>2
<1>. QED
  BY <1>1, <1>2, <1>3, PTL DEF Spec

-----------------------------------------------------------------------------
(* The tree of a memory and its aliases.                                   *)

\* An object and what it lies in, up to the memory.
Upwards(o) == {o} \cup Ancestors(o)

ParentLinks == {<< c, Parent[c] >> : c \in Objects \ {Memory}}

\* What is reached contains the start and is closed under the relation, and is
\* contained in every set that is so.
LEMMA ReachedSet ==
    ASSUME NEW relation, NEW o \in Objects,
           \A e \in relation : e[2] \in Objects
    PROVE  /\ o \in Reached(relation, o) /\ Reached(relation, o) \subseteq Objects
           /\ \A e \in relation : e[1] \in Reached(relation, o) => e[2] \in Reached(relation, o)
           /\ \A S \in SUBSET Objects :
                 (o \in S /\ \A e \in relation : e[1] \in S => e[2] \in S)
                     => Reached(relation, o) \subseteq S
BY DEF Reached

\* The constants.
LEMMA TreeShape ==
    /\ Memory \in Objects
    /\ \A c \in Objects \ {Memory} : Parent[c] \in Objects
    /\ \A o \in Objects : /\ Offset[o] \in Nat /\ Width[o] \in Nat \ {0} /\ Words[o] \in Nat \ {0}
                          /\ Words[o] * Width[o] \in Nat \ {0}
                          /\ LastWordOf(o) \in Nat /\ Offset[o] <= LastWordOf(o)
                          /\ LastWordOf(o) = Offset[o] + Words[o] * Width[o] - 1
<1>1. /\ Memory \in Objects
      /\ \A c \in Objects \ {Memory} : Parent[c] \in Objects
      /\ \A o \in Objects : Offset[o] \in Nat /\ Width[o] \in Nat \ {0} /\ Words[o] \in Nat \ {0}
  BY TreeAssumption
<1>2. \A m, n \in Nat \ {0} : m * n \in Nat \ {0}
  <2>. TAKE m, n \in Nat \ {0}
  <2>. QED
    BY SMT
<1>3. ASSUME NEW o \in Objects
      PROVE  /\ Words[o] * Width[o] \in Nat \ {0}
             /\ LastWordOf(o) = Offset[o] + Words[o] * Width[o] - 1
             /\ LastWordOf(o) \in Nat /\ Offset[o] <= LastWordOf(o)
  <2>1. Words[o] * Width[o] \in Nat \ {0}
    BY <1>1, <1>2
  <2>. DEFINE n == Words[o] * Width[o]
  <2>2. LastWordOf(o) = Offset[o] + n - 1
    BY DEF LastWordOf
  <2>3. n \in Nat \ {0}
    BY <2>1
  <2>. HIDE DEF n
  <2>4. LastWordOf(o) \in Nat /\ Offset[o] <= LastWordOf(o)
    BY <1>1, <2>2, <2>3
  <2>. QED
    BY <2>1, <2>2, <2>4 DEF n
<1>. QED
  BY <1>1, <1>3

\* Going up: the object itself, its parent, and so on.
LEMMA Up ==
    ASSUME NEW o \in Objects
    PROVE  /\ o \in Upwards(o) /\ Upwards(o) \subseteq Objects
           /\ Ancestors(o) = Upwards(o) \ {o}
           /\ \A p \in Upwards(o) : p # Memory => Parent[p] \in Upwards(o)
           /\ \A S \in SUBSET Objects :
                 (o \in S /\ \A p \in S \ {Memory} : Parent[p] \in S) => Upwards(o) \subseteq S
<1>1. \A e \in ParentLinks : e[2] \in Objects
  BY TreeShape DEF ParentLinks
<1>2. Upwards(o) = Reached(ParentLinks, o)
  <2>1. o \in Reached(ParentLinks, o)
    BY <1>1, ReachedSet
  <2>. QED
    BY <2>1 DEF Upwards, Ancestors, ParentLinks
<1>3. o \in Upwards(o) /\ Upwards(o) \subseteq Objects
  BY <1>1, <1>2, ReachedSet
<1>4. Ancestors(o) = Upwards(o) \ {o}
  BY DEF Upwards, Ancestors
<1>5. ASSUME NEW p \in Upwards(o), p # Memory PROVE Parent[p] \in Upwards(o)
  <2>1. << p, Parent[p] >> \in ParentLinks
    BY <1>3, <1>5 DEF ParentLinks
  <2>2. \A e \in ParentLinks : e[1] \in Upwards(o) => e[2] \in Upwards(o)
    BY <1>1, <1>2, ReachedSet
  <2>3. << p, Parent[p] >>[1] = p /\ << p, Parent[p] >>[2] = Parent[p]
    OBVIOUS
  <2>. QED
    BY <1>5, <2>1, <2>2, <2>3
<1>6. ASSUME NEW S \in SUBSET Objects, o \in S, \A p \in S \ {Memory} : Parent[p] \in S
      PROVE  Upwards(o) \subseteq S
  <2>1. \A e \in ParentLinks : e[1] \in S => e[2] \in S
    BY <1>6 DEF ParentLinks
  <2>. QED
    BY <1>1, <1>2, <1>6, <2>1, ReachedSet
<1>. QED
  BY <1>3, <1>4, <1>5, <1>6

\* A set of aliases has one whose parent is not in it.
LEMMA Topmost ==
    ASSUME NEW S, S \subseteq Objects, Memory \notin S, S # {}
    PROVE  \E o \in S : Parent[o] \notin S
BY TreeAssumption

\* Everything lies in the memory, and nothing above it.
LEMMA UpToMemory ==
    /\ Upwards(Memory) = {Memory}
    /\ \A o \in Objects : Memory \in Upwards(o)
<1>1. Upwards(Memory) = {Memory}
  <2>. DEFINE S == {Memory}
  <2>2. S \in SUBSET Objects /\ Memory \in S /\ \A p \in S \ {Memory} : Parent[p] \in S
    BY TreeShape
  <2>. HIDE DEF S
  <2>3. Upwards(Memory) \subseteq S
    BY <2>2, TreeShape, Up
  <2>1. Upwards(Memory) \subseteq {Memory}
    BY <2>3 DEF S
  <2>. QED
    BY <2>1, TreeShape, Up
<1>2. ASSUME NEW o \in Objects, Memory \notin Upwards(o) PROVE FALSE
  <2>1. PICK p \in Upwards(o) : Parent[p] \notin Upwards(o)
    BY <1>2, Up, Topmost
  <2>. QED
    BY <1>2, <2>1, Up
<1>. QED
  BY <1>1, <1>2

LEMMA UpAgain ==
    ASSUME NEW o \in Objects, NEW p \in Upwards(o)
    PROVE  Upwards(p) \subseteq Upwards(o)
<1>1. p \in Objects /\ Upwards(o) \in SUBSET Objects /\ \A q \in Upwards(o) \ {Memory} : Parent[q] \in Upwards(o)
  BY Up
<1>. QED
  BY <1>1, Up

\* The first step up.
LEMMA FirstStep ==
    ASSUME NEW o \in Objects \ {Memory}
    PROVE  Upwards(o) = {o} \cup Upwards(Parent[o])
<1>1. Parent[o] \in Upwards(o) /\ Parent[o] \in Objects
  BY Up, TreeShape
<1>2. Upwards(Parent[o]) \subseteq Upwards(o)
  BY <1>1, UpAgain
<1>. DEFINE S == {o} \cup Upwards(Parent[o])
<1>3. S \in SUBSET Objects /\ o \in S /\ \A p \in S \ {Memory} : Parent[p] \in S
  BY <1>1, Up
<1>. HIDE DEF S
<1>4. Upwards(o) \subseteq S
  BY <1>3, Up
<1>. QED
  BY <1>2, <1>4, Up DEF S

\* The last step up.
LEMMA LastStep ==
    ASSUME NEW o \in Objects, NEW p \in Upwards(o), p # o
    PROVE  \E c \in Children(p) : c \in Upwards(o)
<1>. DEFINE S == {q \in Upwards(o) : q = o \/ \E c \in Children(q) : c \in Upwards(o)}
<1>1. S \in SUBSET Objects /\ o \in S
  BY Up
<1>2. ASSUME NEW q \in S \ {Memory} PROVE Parent[q] \in S
  <2>1. q \in Upwards(o) /\ q \in Objects /\ Parent[q] \in Upwards(o)
    BY <1>2, Up
  <2>2. q \in Children(Parent[q])
    BY <1>2, <2>1 DEF Children
  <2>. QED
    BY <2>1, <2>2
<1>3. Upwards(o) \subseteq S
  BY <1>1, <1>2, Up
<1>. QED
  BY <1>3

\* No circles.
LEMMA NoCircle ==
    ASSUME NEW o \in Objects, NEW p \in Upwards(o), o \in Upwards(p)
    PROVE  p = o
<1>. SUFFICES ASSUME p # o PROVE FALSE
  OBVIOUS
<1>. DEFINE S == {q \in Upwards(p) : p \in Upwards(q)}
<1>1. p \in Objects
  BY Up
<1>2. p \in S /\ S \subseteq Objects
  BY <1>1, Up
<1>3. p # Memory
  BY UpToMemory
<1>4. Memory \notin S
  BY <1>3, UpToMemory
<1>5. PICK q \in S : Parent[q] \notin S
  BY <1>2, <1>4, Topmost
<1>6. q \in Objects \ {Memory} /\ Parent[q] \in Upwards(p) /\ p \in Upwards(q)
  BY <1>1, <1>2, <1>4, <1>5, Up
<1>7. p \in Upwards(Parent[q])
  <2>1. CASE q # p
    BY <1>6, <2>1, FirstStep
  <2>2. CASE q = p
    <3>1. o \in Upwards(Parent[p])
      BY <1>6, <2>2, FirstStep
    <3>2. Parent[p] \in Objects
      BY <1>6, <2>2, TreeShape
    <3>. QED
      BY <2>2, <3>1, <3>2, UpAgain
  <2>. QED
    BY <2>1, <2>2
<1>. QED
  BY <1>5, <1>6, <1>7

\* An object lies within what is above it.
LEMMA Nested ==
    ASSUME NEW o \in Objects, NEW p \in Upwards(o)
    PROVE  Offset[p] <= Offset[o] /\ LastWordOf(o) <= LastWordOf(p)
<1>. DEFINE S == {q \in Objects : Offset[q] <= Offset[o] /\ LastWordOf(o) <= LastWordOf(q)}
<1>1. S \in SUBSET Objects /\ o \in S
  BY TreeShape
<1>2. ASSUME NEW q \in S \ {Memory} PROVE Parent[q] \in S
  <2>1. Offset[q] >= Offset[Parent[q]] /\ LastWordOf(q) <= LastWordOf(Parent[q])
    BY <1>2, TreeAssumption
  <2>. QED
    BY <1>2, <2>1, TreeShape
<1>3. Upwards(o) \subseteq S
  BY <1>1, <1>2, Up
<1>. QED
  BY <1>3

\* Neighbours do not overlap.
LEMMA Siblings ==
    ASSUME NEW c \in Objects \ {Memory}, NEW d \in Objects \ {Memory}, Parent[c] = Parent[d],
           NEW word \in Nat, HoldsAll(c, word, word), HoldsAll(d, word, word)
    PROVE  c = d
<1>. SUFFICES ASSUME c # d PROVE FALSE
  OBVIOUS
<1>1. d \in Children(Parent[c]) \ {c}
  BY DEF Children
<1>2. LastWordOf(d) < Offset[c] \/ LastWordOf(c) < Offset[d]
  BY <1>1, TreeAssumption
<1>. QED
  BY <1>2, TreeShape DEF HoldsAll

\* Of two objects with a word in common one lies in the other.
LEMMA Comparable ==
    ASSUME NEW a \in Objects, NEW b \in Objects, NEW word \in Nat,
           HoldsAll(a, word, word), HoldsAll(b, word, word)
    PROVE  a \in Upwards(b) \/ b \in Upwards(a)
<1>. SUFFICES ASSUME a \notin Upwards(b), b \notin Upwards(a) PROVE FALSE
  OBVIOUS
<1>. DEFINE S == Upwards(a) \ Upwards(b)
<1>1. S \subseteq Objects /\ Memory \notin S /\ a \in S
  BY Up, UpToMemory
<1>2. PICK q \in S : Parent[q] \notin S
  BY <1>1, Topmost
<1>3. q \in Objects \ {Memory} /\ q \in Upwards(a) /\ q \notin Upwards(b)
  BY <1>1, <1>2
<1>4. Parent[q] \in Upwards(a) /\ Parent[q] \in Upwards(b) /\ Parent[q] # b
  BY <1>2, <1>3, Up
<1>5. PICK d \in Children(Parent[q]) : d \in Upwards(b)
  BY <1>4, LastStep
<1>6. d \in Objects \ {Memory} /\ Parent[d] = Parent[q]
  BY DEF Children
<1>7. HoldsAll(q, word, word) /\ HoldsAll(d, word, word)
  <2>1. Offset[q] <= Offset[a] /\ LastWordOf(a) <= LastWordOf(q)
    BY <1>3, Nested
  <2>2. Offset[d] <= Offset[b] /\ LastWordOf(b) <= LastWordOf(d)
    BY <1>5, Nested
  <2>. QED
    BY <1>3, <1>6, <2>1, <2>2, TreeShape DEF HoldsAll
<1>8. q = d
  BY <1>3, <1>6, <1>7, Siblings
<1>. QED
  BY <1>3, <1>5, <1>8

\* A way down: what lies below o is reached from o if the relation leads from
\* each parent between them to its child.
LEMMA WayDown ==
    ASSUME NEW into, into \subseteq Objects \ {Memory}, NEW d \in Objects, NEW o \in Upwards(d),
           \A q \in Upwards(d) : o \in Upwards(q) /\ q # o => q \in into
    PROVE  d \in Reached({<< Parent[c], c >> : c \in into}, o)
<1>. DEFINE R == {<< Parent[c], c >> : c \in into}
            reached == Reached(R, o)
<1>1. o \in Objects /\ \A e \in R : e[2] \in Objects
  BY Up
<1>2. o \in reached /\ \A e \in R : e[1] \in reached => e[2] \in reached
  BY <1>1, ReachedSet
<1>3. \A c \in into : Parent[c] \in reached => c \in reached
  <2>. TAKE c \in into
  <2>1. << Parent[c], c >> \in R /\ << Parent[c], c >>[1] = Parent[c] /\ << Parent[c], c >>[2] = c
    OBVIOUS
  <2>. QED
    BY <1>2, <2>1
<1>. HIDE DEF R, reached
<1>. SUFFICES ASSUME d \notin reached PROVE FALSE
  BY DEF R, reached
<1>. DEFINE S == {q \in Upwards(d) : o \in Upwards(q) /\ q \notin reached}
<1>4. d \in S /\ S \subseteq Objects
  BY Up
<1>5. Memory \notin S
  BY <1>2, UpToMemory
<1>6. PICK q \in S : Parent[q] \notin S
  BY <1>4, <1>5, Topmost
<1>7. q \in Objects \ {Memory} /\ q \in Upwards(d) /\ o \in Upwards(q) /\ q \notin reached /\ q # o
  BY <1>2, <1>4, <1>5, <1>6
<1>8. Parent[q] \in Upwards(d) /\ o \in Upwards(Parent[q])
  BY <1>7, Up, FirstStep
<1>9. Parent[q] \in reached
  BY <1>6, <1>8
<1>. QED
  BY <1>3, <1>7, <1>9

\* Going down one comes to what lies below.
LEMMA OnlyDown ==
    ASSUME NEW into, into \subseteq Objects \ {Memory}, NEW o \in Objects,
           NEW d \in Reached({<< Parent[c], c >> : c \in into}, o)
    PROVE  d \in Objects /\ o \in Upwards(d)
<1>. DEFINE R == {<< Parent[c], c >> : c \in into}
            S == {q \in Objects : o \in Upwards(q)}
<1>1. \A e \in R : e[2] \in Objects
  OBVIOUS
<1>2. \A e \in R : e[1] \in S => e[2] \in S
  <2>1. ASSUME NEW c \in into, Parent[c] \in S PROVE c \in S
    BY <2>1, FirstStep
  <2>. QED
    BY <2>1
<1>3. o \in S /\ S \in SUBSET Objects
  BY Up
<1>4. Reached(R, o) \subseteq S
  BY <1>1, <1>2, <1>3, ReachedSet
<1>. QED
  BY <1>4

-----------------------------------------------------------------------------
(* Which object answers (find_alias.h).                                    *)

\* What lies in o, with o itself.
Downwards(o) == {d \in Objects : o \in Upwards(d)}

\* Every nonempty set of objects has one with none of the others below it.
LEMMA Lowest ==
    ASSUME NEW S, S \subseteq Objects, S # {}
    PROVE  \E o \in S : \A p \in S : o \in Upwards(p) => p = o
<1>1. IsWellFoundedOn(StrictSubsetOrdering(Objects), FiniteSubsetsOf(Objects))
  BY FS_StrictSubsetOrderingWellFounded
<1>2. FiniteSubsetsOf(Objects) = SUBSET Objects
  BY TreeAssumption, FS_FiniteSubsetsOfFinite
<1>. DEFINE T == {Downwards(o) : o \in S}
<1>3. T \subseteq SUBSET Objects /\ T # {}
  BY DEF Downwards
<1>. HIDE DEF T
<1>4. PICK t \in T : \A u \in T : << u, t >> \notin StrictSubsetOrdering(Objects)
  BY <1>1, <1>2, <1>3, WFMin
<1>5. PICK o \in S : t = Downwards(o)
  BY <1>4 DEF T
<1>6. ASSUME NEW p \in S, o \in Upwards(p) PROVE p = o
  <2>1. o \in Objects /\ p \in Objects
    OBVIOUS
  <2>2. Downwards(p) \subseteq Downwards(o)
    BY <1>6, <2>1, UpAgain DEF Downwards
  <2>3. Downwards(p) \in T
    BY DEF T
  <2>4. << Downwards(p), Downwards(o) >> \notin StrictSubsetOrdering(Objects)
    BY <1>4, <1>5, <2>3
  <2>5. Downwards(p) \in SUBSET Objects /\ Downwards(o) \in SUBSET Objects
    BY DEF Downwards
  <2>6. Downwards(p) = Downwards(o)
    BY <2>2, <2>4, <2>5 DEF StrictSubsetOrdering
  <2>7. p \in Upwards(o)
    BY <2>1, <2>6, Up DEF Downwards
  <2>. QED
    BY <1>6, <2>1, <2>7, NoCircle
<1>. QED
  BY <1>6

\* No alias lies in itself.
LEMMA NotOwnParent ==
    ASSUME NEW c \in Objects \ {Memory}
    PROVE  Parent[c] # c
<1>. DEFINE S == {c}
<1>1. S \subseteq Objects /\ Memory \notin S /\ S # {} /\ \A o \in S : o = c
  OBVIOUS
<1>. HIDE DEF S
<1>2. PICK o \in S : Parent[o] \notin S
  BY <1>1, Topmost
<1>. QED
  BY <1>1, <1>2

\* The memory holds every access that does not go beyond its last word.
LEMMA MemoryHolds ==
    ASSUME NEW low \in Nat, NEW high \in Nat, high < MemorySize
    PROVE  HoldsAll(Memory, low, high)
<1>1. Offset[Memory] = 0 /\ Width[Memory] = 1
  BY TreeAssumption
<1>2. LastWordOf(Memory) = Words[Memory] * Width[Memory] - 1 /\ LastWordOf(Memory) \in Nat
      /\ Words[Memory] * Width[Memory] \in Nat
  BY <1>1, TreeShape
<1>3. high <= LastWordOf(Memory)
  BY <1>2 DEF MemorySize
<1>. QED
  BY <1>1, <1>3 DEF HoldsAll

\* find_alias(mem, lowIndex, highIndex) ends at an object that holds the
\* access and lies in every other one that does.
LEMMA InnermostHolds ==
    ASSUME NEW low \in Nat, NEW high \in Nat, low <= high, high < MemorySize
    PROVE  /\ InnermostAlias(low, high) \in Objects
           /\ Upwards(InnermostAlias(low, high)) = {o \in Objects : HoldsAll(o, low, high)}
<1>. DEFINE holding == {c \in Objects \ {Memory} : HoldsAll(c, low, high)}
            R == {<< Parent[c], c >> : c \in holding}
            reached == Reached(R, Memory)
            inner == InnermostAlias(low, high)
<1>1. HoldsAll(Memory, low, high) /\ Memory \in Objects
  BY MemoryHolds, TreeShape
<1>2. \A e \in R : e[2] \in Objects
  OBVIOUS
<1>. DEFINE S == {o \in Objects : HoldsAll(o, low, high)}
<1>3. reached \subseteq S
  <2>1. Memory \in S /\ S \in SUBSET Objects
    BY <1>1
  <2>2. \A e \in R : e[1] \in S => e[2] \in S
    OBVIOUS
  <2>. QED
    BY <1>1, <1>2, <2>1, <2>2, ReachedSet
<1>4. Memory \in reached /\ \A c \in holding : Parent[c] \in reached => c \in reached
  <2>1. Memory \in reached /\ \A e \in R : e[1] \in reached => e[2] \in reached
    BY <1>1, <1>2, ReachedSet
  <2>2. ASSUME NEW c \in holding, Parent[c] \in reached PROVE c \in reached
    <3>1. << Parent[c], c >> \in R /\ << Parent[c], c >>[1] = Parent[c] /\ << Parent[c], c >>[2] = c
      OBVIOUS
    <3>. QED
      BY <2>1, <2>2, <3>1
  <2>. QED
    BY <2>1, <2>2
<1>5. \E o \in reached : Children(o) \cap holding = {}
  <2>1. reached \subseteq Objects /\ reached # {}
    BY <1>3, <1>4
  <2>2. PICK o \in reached : \A p \in reached : o \in Upwards(p) => p = o
    BY <2>1, Lowest
  <2>3. ASSUME NEW c \in Children(o) \cap holding PROVE FALSE
    <3>1. c \in Objects \ {Memory} /\ Parent[c] = o /\ c \in holding
      BY DEF Children
    <3>2. c \in reached /\ o \in Upwards(c)
      BY <1>4, <3>1, Up
    <3>3. c = o
      BY <2>2, <3>2
    <3>. QED
      BY <3>1, <3>3, NotOwnParent
  <2>. QED
    BY <2>3
<1>6. inner \in reached /\ Children(inner) \cap holding = {}
  BY <1>5 DEF InnermostAlias
<1>. HIDE DEF reached, inner
<1>7. inner \in Objects /\ HoldsAll(inner, low, high)
  BY <1>3, <1>6
<1>8. ASSUME NEW o \in Upwards(inner) PROVE o \in Objects /\ HoldsAll(o, low, high)
  <2>1. o \in Objects /\ Offset[o] <= Offset[inner] /\ LastWordOf(inner) <= LastWordOf(o)
    BY <1>7, Up, Nested
  <2>. QED
    BY <1>7, <2>1, TreeShape DEF HoldsAll
<1>9. ASSUME NEW o \in Objects, HoldsAll(o, low, high) PROVE o \in Upwards(inner)
  <2>1. HoldsAll(o, low, low) /\ HoldsAll(inner, low, low)
    BY <1>7, <1>9, TreeShape DEF HoldsAll
  <2>2. o \in Upwards(inner) \/ inner \in Upwards(o)
    BY <1>7, <2>1, Comparable
  <2>3. ASSUME inner \in Upwards(o), inner # o PROVE FALSE
    <3>1. PICK c \in Children(inner) : c \in Upwards(o)
      BY <2>3, LastStep
    <3>2. c \in Objects \ {Memory} /\ Offset[c] <= Offset[o] /\ LastWordOf(o) <= LastWordOf(c)
      BY <3>1, Nested DEF Children
    <3>3. HoldsAll(c, low, high)
      BY <1>9, <3>2, TreeShape DEF HoldsAll
    <3>. QED
      BY <1>6, <3>1, <3>2, <3>3
  <2>. QED
    BY <1>7, <2>2, <2>3, Up
<1>10. Upwards(inner) = {o \in Objects : HoldsAll(o, low, high)}
  BY <1>8, <1>9
<1>. QED
  BY <1>7, <1>10 DEF inner

\* Every alias counts the words of the memory.
WordSized == \A o \in Objects : Width[o] = 1

\* Among the objects in a set there is one with the largest offset.
LEMMA Rightmost ==
    ASSUME NEW S, S \subseteq Objects, S # {}, NEW low \in Nat, \A c \in S : Offset[c] <= low
    PROVE  \E c \in S : \A d \in S : Offset[d] <= Offset[c]
<1>. DEFINE T == {low - Offset[c] : c \in S}
<1>1. T \subseteq Nat /\ T # {}
  BY TreeShape
<1>. HIDE DEF T
<1>2. PICK n \in T : \A m \in T : << m, n >> \notin OpToRel(<, Nat)
  BY <1>1, NatLessThanWellFounded, WFMin
<1>3. PICK c \in S : n = low - Offset[c]
  BY <1>2 DEF T
<1>4. ASSUME NEW d \in S PROVE Offset[d] <= Offset[c]
  <2>1. low - Offset[d] \in T /\ low - Offset[d] \in Nat /\ n \in Nat
    BY <1>1 DEF T
  <2>2. ~(low - Offset[d] < n)
    BY <1>2, <2>1 DEF OpToRel
  <2>3. Offset[d] \in Nat /\ Offset[c] \in Nat
    BY TreeShape
  <2>. QED
    BY <1>3, <2>2, <2>3
<1>. QED
  BY <1>4

\* The search for refined behaviour goes into every alias that holds a word of
\* the access, unless it is overlooked.
LEMMA GoesInto ==
    ASSUME WordSized, NEW low \in Nat, NEW high \in Nat, NEW word \in low .. high,
           NEW q \in Objects \ {Memory}, HoldsAll(q, word, word), q \notin Overlooked(low, high)
    PROVE  q \in AliasRange(Parent[q], low, high) /\ Touches(Parent[q], q, low, high)
<1>. DEFINE o == Parent[q]
            before == {c \in Children(o) : Offset[c] <= low}
            first  == {c \in Children(o) : \A d \in Children(o) : Offset[c] <= Offset[d]}
            from   == {c \in before : \A d \in before : Offset[d] <= Offset[c]}
<1>1. /\ o \in Objects /\ q \in Children(o) /\ Children(o) \subseteq Objects \ {Memory}
      /\ \A c \in Children(o) : Parent[c] = o
  BY TreeShape DEF Children
<1>2. /\ word \in Nat /\ low <= word /\ word <= high
      /\ Offset[q] \in Nat /\ LastWordOf(q) \in Nat
      /\ Offset[q] <= word /\ word <= LastWordOf(q)
  BY TreeShape DEF HoldsAll
<1>3. Touches(o, q, low, high)
  <2>1. Words[q] \in Nat /\ Width[q] = 1 /\ Width[o] = 1
    BY <1>1, TreeShape DEF WordSized
  <2>2. LastWordOf(q) = Offset[q] + Words[q] - 1
    BY <2>1 DEF LastWordOf
  <2>3. Words[q] * Width[o] = Words[q]
    BY <2>1
  <2>4. high >= Offset[q] /\ low < Offset[q] + Words[q]
    BY <1>2, <2>1, <2>2
  <2>. QED
    BY <2>3, <2>4 DEF Touches
<1>4. ASSUME before # {}
      PROVE  \E f \in from : Offset[f] <= Offset[q]
  <2>1. CASE Offset[q] <= low
    <3>1. q \in before
      BY <1>1, <2>1
    <3>2. ASSUME NEW d \in before, ~(Offset[d] <= Offset[q]) PROVE FALSE
      <4>1. /\ d \in Objects \ {Memory} /\ Parent[d] = o /\ Offset[d] \in Nat /\ LastWordOf(d) \in Nat
            /\ Offset[d] <= LastWordOf(d) /\ Offset[d] <= low
        BY <1>1, TreeShape
      <4>2. HoldsAll(q, Offset[d], Offset[d]) /\ HoldsAll(d, Offset[d], Offset[d])
        BY <1>2, <3>2, <4>1 DEF HoldsAll
      <4>3. q = d
        BY <4>1, <4>2, Siblings
      <4>. QED
        BY <1>2, <3>2, <4>3
    <3>. QED
      BY <1>2, <3>1, <3>2
  <2>2. CASE ~(Offset[q] <= low)
    <3>. HIDE DEF o
    <3>1. before \subseteq Objects /\ \A c \in before : Offset[c] <= low
      BY <1>1
    <3>. HIDE DEF before
    <3>2. PICK f \in before : \A d \in before : Offset[d] <= Offset[f]
      BY <1>4, <3>1, Rightmost
    <3>3. f \in from /\ Offset[f] <= low /\ Offset[f] \in Nat
      BY <3>1, <3>2, TreeShape
    <3>. QED
      BY <1>2, <2>2, <3>3
  <2>. QED
    BY <2>1, <2>2
<1>5. ASSUME before = {} PROVE q \in first
  <2>1. \A d \in Children(o) : low < Offset[d] /\ Offset[d] \in Nat
    BY <1>1, <1>5, TreeShape
  <2>2. Offset[q] <= high
    BY <1>2
  <2>3. \A d \in Children(o) : ~(Offset[d] < Offset[q])
    BY <2>1, <2>2 DEF Overlooked
  <2>. QED
    BY <1>1, <1>2, <2>1, <2>3
<1>6. Offset[q] <= high
  BY <1>2
<1>7. AliasRange(o, low, high) =
         IF before # {}
         THEN {c \in Children(o) : \E f \in from : Offset[f] <= Offset[c] /\ Offset[c] <= high}
         ELSE {c \in first : Offset[c] <= high}
  BY DEF AliasRange
<1>. HIDE DEF before, first, from, o
<1>8. q \in AliasRange(o, low, high)
  <2>1. CASE before # {}
    BY <1>1, <1>4, <1>6, <1>7, <2>1
  <2>2. CASE before = {}
    BY <1>5, <1>6, <1>7, <2>2
  <2>. QED
    BY <2>1, <2>2
<1>. QED
  BY <1>3, <1>8 DEF o

\* An object below with a callback is refined behaviour for every access that
\* has a word in it, unless an alias around it is overlooked.
LEMMA Refined ==
    ASSUME WordSized, NEW low \in Nat, NEW high \in Nat, NEW word \in low .. high,
           NEW d \in Objects, NEW o \in Upwards(d), d # o, HoldsAll(d, word, word),
           Upwards(d) \cap Overlooked(low, high) = {},
           NEW k, << d, k >> \in callbacks
    PROVE  HasRefinedBehavior(o, low, high, k)
<1>. DEFINE touched == {c \in Objects \ {Memory} : c \in AliasRange(Parent[c], low, high)
                                                /\ Touches(Parent[c], c, low, high)}
<1>1. ASSUME NEW q \in Upwards(d), o \in Upwards(q), q # o PROVE q \in touched
  <2>1. q \in Objects /\ q # Memory
    BY <1>1, Up, UpToMemory
  <2>2. Offset[q] <= Offset[d] /\ LastWordOf(d) <= LastWordOf(q)
    BY Nested
  <2>3. HoldsAll(q, word, word)
    BY <2>1, <2>2, TreeShape DEF HoldsAll
  <2>4. q \in AliasRange(Parent[q], low, high) /\ Touches(Parent[q], q, low, high)
    BY <1>1, <2>1, <2>3, GoesInto
  <2>. QED
    BY <2>1, <2>4
<1>2. touched \subseteq Objects \ {Memory}
  OBVIOUS
<1>3. HasRefinedBehavior(o, low, high, k)
         <=> \E c \in Reached({<< Parent[c], c >> : c \in touched}, o) \ {o} : << c, k >> \in callbacks
  BY DEF HasRefinedBehavior
<1>. HIDE DEF touched
<1>4. d \in Reached({<< Parent[c], c >> : c \in touched}, o)
  BY <1>1, <1>2, WayDown
<1>. QED
  BY <1>3, <1>4

\* The objects with a callback among those that hold an access.
Capable(low, high, k) == {o \in Objects : HoldsAll(o, low, high) /\ << o, k >> \in callbacks}

\* What is to answer: the innermost of them.
Answers(o, low, high, k) ==
    /\ o \in Objects
    /\ Capable(low, high, k) = {} => o = Memory
    /\ Capable(low, high, k) # {} =>
          o \in Capable(low, high, k) /\ Capable(low, high, k) \subseteq Upwards(o)

\* find_alias(mem, lowIndex, highIndex, condition).
LEMMA FindAliasFinds ==
    ASSUME NEW low \in Nat, NEW high \in Nat, low <= high, high < MemorySize, NEW k
    PROVE  \E o : /\ Answers(o, low, high, k)
                  /\ FindAlias(low, high, k) =
                        IF low # high /\ HasRefinedBehavior(o, low, high, k)
                        THEN NoObject ELSE o
<1>. DEFINE innermost == InnermostAlias(low, high)
            chain     == {innermost} \cup Ancestors(innermost)
            capable   == {o \in chain : << o, k >> \in callbacks}
            nearest   == {o \in capable : capable \subseteq {o} \cup Ancestors(o)}
            alias     == IF capable = {} THEN Memory ELSE CHOOSE o \in nearest : TRUE
<1>1. chain = {o \in Objects : HoldsAll(o, low, high)}
  BY InnermostHolds DEF Upwards
<1>2. capable = Capable(low, high, k)
  BY <1>1 DEF Capable
<1>. HIDE DEF innermost
<1>3. ASSUME capable # {} PROVE nearest # {}
  <2>. DEFINE C == Capable(low, high, k)
  <2>1. C \subseteq Objects /\ C # {}
    BY <1>2, <1>3 DEF Capable
  <2>2. \A o \in C : HoldsAll(o, low, low)
    BY TreeShape DEF Capable, HoldsAll
  <2>. HIDE DEF C
  <2>3. PICK o \in C : \A p \in C : o \in Upwards(p) => p = o
    BY <2>1, Lowest
  <2>4. C \subseteq Upwards(o)
    <3>. SUFFICES ASSUME NEW p \in C PROVE p \in Upwards(o)
      OBVIOUS
    <3>1. p \in Upwards(o) \/ o \in Upwards(p)
      BY <2>1, <2>2, Comparable
    <3>. QED
      BY <2>1, <2>3, <3>1, Up
  <2>. QED
    BY <1>2, <2>3, <2>4 DEF C, Upwards
<1>4. Answers(alias, low, high, k)
  <2>1. CASE capable = {}
    BY <1>2, <2>1, TreeShape DEF Answers
  <2>2. CASE capable # {}
    <3>1. alias \in nearest
      BY <1>3, <2>2
    <3>. HIDE DEF alias
    <3>2. alias \in capable /\ capable \subseteq Upwards(alias)
      BY <3>1 DEF Upwards
    <3>3. alias \in Objects
      BY <1>1, <3>2
    <3>. QED
      BY <1>2, <2>2, <3>2, <3>3 DEF Answers
  <2>. QED
    BY <2>1, <2>2
<1>5. FindAlias(low, high, k) =
         IF high >= MemorySize \/ (low # high /\ HasRefinedBehavior(alias, low, high, k))
         THEN NoObject ELSE alias
  BY DEF FindAlias, innermost
<1>6. ~(high >= MemorySize)
  <2>1. MemorySize \in Nat
    BY TreeShape DEF MemorySize
  <2>. QED
    BY <2>1
<1>. HIDE DEF alias
<1>7. FindAlias(low, high, k) =
         IF low # high /\ HasRefinedBehavior(alias, low, high, k) THEN NoObject ELSE alias
  BY <1>5, <1>6, Zenon
<1>. QED
  BY <1>4, <1>7

\* A word of an access, whether the access goes to one object or is unrolled.
LEMMA WordAnswered ==
    ASSUME WordSized,
           NEW low \in Nat, NEW high \in Nat, NEW word \in low .. high, high < MemorySize, NEW k,
           \A o \in Objects : << o, k >> \in callbacks =>
              Upwards(o) \cap Overlooked(low, high) = {}
    PROVE  Answers(AnsweredBy(low, high, k, word), word, word, k)
<1>1. /\ word \in Nat /\ low <= word /\ word <= high /\ word <= word /\ low <= high
      /\ MemorySize \in Nat /\ word < MemorySize
  <2>1. MemorySize \in Nat
    BY TreeShape DEF MemorySize
  <2>. QED
    BY <2>1
<1>2. PICK single : Answers(single, word, word, k) /\ FindAlias(word, word, k) = single
  BY <1>1, FindAliasFinds
<1>3. PICK whole : /\ Answers(whole, low, high, k)
                   /\ FindAlias(low, high, k) =
                         IF low # high /\ HasRefinedBehavior(whole, low, high, k)
                         THEN NoObject ELSE whole
  BY <1>1, FindAliasFinds
<1>4. AnsweredBy(low, high, k, word) =
         IF FindAlias(low, high, k) # NoObject THEN FindAlias(low, high, k)
                                               ELSE FindAlias(word, word, k)
  <2>. DEFINE w == Width[InnermostAlias(word, word)]
  <2>1. w = 1
    BY <1>1, InnermostHolds DEF WordSized
  <2>2. word - (word % 1) = word /\ word + 1 - 1 = word
    BY <1>1
  <2>3. word - (word % w) = word /\ (word - (word % w)) + w - 1 = word
    BY <2>1, <2>2
  <2>. QED
    BY <2>3, Zenon DEF AnsweredBy
<1>5. CASE FindAlias(low, high, k) = NoObject
  BY <1>2, <1>4, <1>5
<1>6. CASE FindAlias(low, high, k) # NoObject
  <2>1. AnsweredBy(low, high, k, word) = whole /\ ~(low # high /\ HasRefinedBehavior(whole, low, high, k))
    BY <1>3, <1>4, <1>6
  <2>2. whole \in Objects /\ HoldsAll(whole, word, word)
    <3>1. whole = Memory \/ whole \in Capable(low, high, k)
      BY <1>3 DEF Answers
    <3>2. whole = Memory => HoldsAll(whole, word, word)
      BY <1>1, MemoryHolds
    <3>3. whole \in Capable(low, high, k) => HoldsAll(whole, word, word)
      BY <1>1, TreeShape DEF Capable, HoldsAll
    <3>. QED
      BY <1>3, <3>1, <3>2, <3>3 DEF Answers
  <2>3. ASSUME NEW d \in Capable(word, word, k) PROVE d \in Upwards(whole)
    <3>1. d \in Objects /\ HoldsAll(d, word, word) /\ << d, k >> \in callbacks
      BY DEF Capable
    <3>2. d \in Upwards(whole) \/ whole \in Upwards(d)
      BY <1>1, <2>2, <3>1, Comparable
    <3>3. ASSUME whole \in Upwards(d), d # whole PROVE d \in Upwards(whole)
      <4>1. CASE low # high
        <5>1. HasRefinedBehavior(whole, low, high, k)
          BY <3>1, <3>3, Refined
        <5>. QED
          BY <2>1, <4>1, <5>1
      <4>2. CASE low = high
        <5>1. low = word /\ high = word
          BY <1>1, <4>2
        <5>. QED
          BY <1>3, <5>1 DEF Answers
      <4>. QED
        BY <4>1, <4>2
    <3>. QED
      BY <2>2, <3>2, <3>3, Up
  <2>4. ASSUME Capable(word, word, k) = {} PROVE whole = Memory
    <3>1. Capable(low, high, k) \subseteq Capable(word, word, k)
      BY <1>1, TreeShape DEF Capable, HoldsAll
    <3>. QED
      BY <1>3, <2>4, <3>1 DEF Answers
  <2>5. ASSUME Capable(word, word, k) # {} PROVE whole \in Capable(word, word, k)
    <3>1. CASE Capable(low, high, k) # {}
      <4>1. << whole, k >> \in callbacks
        BY <1>3, <3>1 DEF Answers, Capable
      <4>. QED
        BY <2>2, <4>1 DEF Capable
    <3>2. CASE Capable(low, high, k) = {}
      <4>1. whole = Memory
        BY <1>3, <3>2 DEF Answers
      <4>2. PICK d \in Capable(word, word, k) : d \in Upwards(whole)
        BY <2>3, <2>5
      <4>3. d = whole
        BY <4>1, <4>2, UpToMemory
      <4>. QED
        BY <4>2, <4>3
    <3>. QED
      BY <3>1, <3>2
  <2>. QED
    BY <2>1, <2>2, <2>3, <2>4, <2>5 DEF Answers
<1>. QED
  BY <1>5, <1>6

\* Whatever callbacks are there, every word of an access is answered by the
\* innermost object with a callback there.
LEMMA CallbacksRun ==
    ASSUME WordSized
    PROVE  EveryCallbackRuns
<1>. SUFFICES ASSUME NEW k \in Kinds, NEW low \in 0 .. (MemorySize - 1),
                     NEW high \in low .. (MemorySize - 1),
                     \A o \in Objects : << o, k >> \in callbacks =>
                        ({o} \cup Ancestors(o)) \cap Overlooked(low, high) = {}
              PROVE  AnsweredByTheInnermost(low, high, k)
  BY Zenon DEF EveryCallbackRuns
<1>. SUFFICES ASSUME NEW word \in low .. high
              PROVE  LET capable == {o \in Covering(word) : << o, k >> \in callbacks}
                         o == AnsweredBy(low, high, k, word)
                     IN  IF capable = {}
                         THEN o = Memory
                         ELSE o \in capable /\ capable \subseteq {o} \cup Ancestors(o)
  BY Zenon DEF AnsweredByTheInnermost
<1>1. low \in Nat /\ high \in Nat /\ high < MemorySize
  <2>1. MemorySize \in Nat
    BY TreeShape DEF MemorySize
  <2>. QED
    BY <2>1
<1>2. \A o \in Objects : << o, k >> \in callbacks => Upwards(o) \cap Overlooked(low, high) = {}
  BY DEF Upwards
<1>3. Answers(AnsweredBy(low, high, k, word), word, word, k)
  BY <1>1, <1>2, WordAnswered
<1>4. {o \in Covering(word) : << o, k >> \in callbacks} = Capable(word, word, k)
  BY DEF Covering, Capable
<1>. QED
  BY <1>3, <1>4 DEF Answers, Upwards

\* For any tree of aliases that count words of the memory, and whatever
\* callbacks come and go: in every state each word of an access, be it answered
\* as a whole or unrolled, is answered by the innermost object with a callback
\* there, unless there is one on or in an alias that the search overlooks
\* (find_alias.h).
THEOREM CallbacksAlwaysRun ==
    ASSUME WordSized
    PROVE  TreeSpec => []EveryCallbackRuns
<1>1. EveryCallbackRuns
  BY CallbacksRun
<1>. QED
  BY <1>1, PTL

-----------------------------------------------------------------------------
(* The tables of the memory with its aliases (toplevel_memory_base.cc).    *)

\* The tables are the same, whatever the size of the memory.
LEMMA SameTables ==
    /\ \A data, low, high : Table!Disable(data, low, high) = Dmi!Disable(data, low, high)
    /\ \A data, index : Table!Find(data, index) = data[Dmi!At(data, index)]
    /\ Table!ClearedTable = << Dmi!Entry(0, MemorySize - 1, TRUE), Dmi!Entry(MemorySize, Top, FALSE) >>
    /\ Table!DisabledTable = Dmi!DisabledTable
<1>1. \A data, low, high : Table!Disable(data, low, high) = Dmi!Disable(data, low, high)
  <2>. TAKE data, low, high
  <2>1. \A x : Table!At(data, x) = Dmi!At(data, x)
    BY Zenon DEF Table!At, Dmi!At
  <2>2. \A x : Table!LeftPart(data, x, low) = Dmi!LeftPart(data, x, low)
    BY Zenon DEF Table!LeftPart, Dmi!LeftPart, Table!Entry, Dmi!Entry
  <2>3. \A x : Table!RightPart(data, x, high) = Dmi!RightPart(data, x, high)
    BY Zenon DEF Table!RightPart, Dmi!RightPart, Table!Entry, Dmi!Entry
  <2>4. \A x, y : Table!Entry(x, y, FALSE) = Dmi!Entry(x, y, FALSE)
    BY Zenon DEF Table!Entry, Dmi!Entry
  <2>. DEFINE k == Table!At(data, low)
              m == Table!At(data, high)
              l == Table!LeftPart(data, k, low)
              r == Table!RightPart(data, m, high)
              e == IF k = m /\ ~data[k].dmiAllowed
                   THEN data
                   ELSE l.kept \o << Dmi!Entry(l.from, r.to, FALSE) >> \o r.kept
  <2>5. k = Dmi!At(data, low) /\ m = Dmi!At(data, high)
    BY <2>1, Zenon
  <2>6. l = Dmi!LeftPart(data, k, low) /\ r = Dmi!RightPart(data, m, high)
    BY <2>2, <2>3, Zenon
  <2>7. Table!Disable(data, low, high) = e
    BY <2>4, Zenon DEF Table!Disable
  <2>. HIDE DEF k, m, l, r
  <2>8. Dmi!Disable(data, low, high) = e
    BY <2>5, <2>6, Zenon DEF Dmi!Disable
  <2>. HIDE DEF e
  <2>. QED
    BY <2>7, <2>8, Zenon
<1>2. \A data, index : Table!Find(data, index) = data[Dmi!At(data, index)]
  BY Zenon DEF Table!Find, Table!At, Dmi!At
<1>3. Table!ClearedTable = << Dmi!Entry(0, MemorySize - 1, TRUE), Dmi!Entry(MemorySize, Top, FALSE) >>
  BY Zenon DEF Table!ClearedTable, Table!Entry, Dmi!Entry
<1>4. Table!DisabledTable = Dmi!DisabledTable
  BY Zenon DEF Table!DisabledTable, Dmi!DisabledTable, Table!Entry, Dmi!Entry
<1>. QED
  BY <1>1, <1>2, <1>3, <1>4

\* The table left when the ranges of a set have been taken out one after the
\* other: the recursion of FoldSet.
Step(f, s) ==
    IF s = {}
    THEN Table!ClearedTable
    ELSE LET x == CHOOSE x \in s : TRUE IN Table!Disable(f[s \ {x}], x[1], x[2])

Solves(f, S) == f = [s \in SUBSET S |-> Step(f, s)]

LEMMA FoldIsSolution ==
    ASSUME NEW S
    PROVE  TableWithout(S) = (CHOOSE f : Solves(f, S))[S]
BY Zenon DEF TableWithout, FoldSet, MapThenFoldSet, Solves, Step

\* Every nonempty set of subsets of a finite set has a smallest one.
LEMMA SmallestSet ==
    ASSUME NEW S, IsFiniteSet(S), NEW B, B \subseteq SUBSET S, B # {}
    PROVE  \E s \in B : \A u \in B : u \subseteq s => u = s
<1>1. IsWellFoundedOn(StrictSubsetOrdering(S), FiniteSubsetsOf(S))
  BY FS_StrictSubsetOrderingWellFounded
<1>2. FiniteSubsetsOf(S) = SUBSET S
  BY FS_FiniteSubsetsOfFinite
<1>3. PICK s \in B : \A u \in B : ~ (<< u, s >> \in StrictSubsetOrdering(S))
  BY <1>1, <1>2, WFMin
<1>4. ASSUME NEW u \in B, u \subseteq s PROVE u = s
  BY <1>3, <1>4 DEF StrictSubsetOrdering
<1>. QED
  BY <1>4

\* Two solutions agree where both are defined.
LEMMA SolutionsAgree ==
    ASSUME NEW S, NEW T, IsFiniteSet(S), NEW f, NEW g, Solves(f, S), Solves(g, T),
           NEW s, s \subseteq S, s \subseteq T
    PROVE  f[s] = g[s]
<1>. DEFINE Bad == {u \in SUBSET S : u \subseteq T /\ f[u] # g[u]}
<1>. SUFFICES ASSUME f[s] # g[s] PROVE FALSE
  OBVIOUS
<1>1. Bad \subseteq SUBSET S /\ Bad # {}
  OBVIOUS
<1>2. PICK u \in Bad : \A v \in Bad : v \subseteq u => v = u
  <2>. HIDE DEF Bad
  <2>. QED
    BY <1>1, SmallestSet
<1>3. u \in SUBSET S /\ u \in SUBSET T /\ f[u] # g[u]
  OBVIOUS
<1>4. f[u] = Step(f, u) /\ g[u] = Step(g, u)
  BY <1>3 DEF Solves
<1>5. CASE u = {}
  BY <1>3, <1>4, <1>5 DEF Step
<1>6. CASE u # {}
  <2>. DEFINE x == CHOOSE x \in u : TRUE
              v == u \ {x}
  <2>1. x \in u
    BY <1>6
  <2>. HIDE DEF x
  <2>2. v \notin Bad
    BY <1>2, <2>1
  <2>3. f[v] = g[v]
    BY <1>3, <2>2
  <2>4. Step(f, u) = Table!Disable(f[v], x[1], x[2]) /\ Step(g, u) = Table!Disable(g[v], x[1], x[2])
    BY <1>6 DEF Step, x
  <2>. QED
    BY <1>3, <1>4, <2>3, <2>4
<1>. QED
  BY <1>5, <1>6

\* There is a solution for every finite set.
LEMMA SolutionExists ==
    ASSUME NEW S, IsFiniteSet(S)
    PROVE  \E f : Solves(f, S)
<1>. DEFINE Bad == {U \in SUBSET S : ~ \E f : Solves(f, U)}
<1>. SUFFICES ASSUME S \in Bad PROVE FALSE
  OBVIOUS
<1>1. PICK T \in Bad : \A U \in Bad : U \subseteq T => U = T
  <2>1. Bad \subseteq SUBSET S /\ Bad # {}
    OBVIOUS
  <2>. HIDE DEF Bad
  <2>. QED
    BY <2>1, SmallestSet
<1>2. T \in SUBSET S /\ IsFiniteSet(T)
  BY FS_Subset
<1>. DEFINE F(U) == CHOOSE f : Solves(f, U)
            G == [U \in (SUBSET T) \ {T} |-> F(U)[U]]
            h == [U \in SUBSET T |-> IF U = T THEN Step(G, T) ELSE F(U)[U]]
<1>3. ASSUME NEW U \in SUBSET T, U # T PROVE Solves(F(U), U)
  <2>1. U \in SUBSET S /\ U \notin Bad
    BY <1>1, <1>2, <1>3
  <2>2. \E f : Solves(f, U)
    BY <2>1
  <2>. QED
    BY <2>2
<1>. HIDE DEF F
<1>4. ASSUME NEW U \in SUBSET T PROVE h[U] = Step(h, U)
  <2>1. CASE U = {}
    <3>1. Step(h, U) = Table!ClearedTable /\ Step(G, U) = Table!ClearedTable
          /\ Step(F(U), U) = Table!ClearedTable
      BY <2>1, Zenon DEF Step
    <3>2. U # T => h[U] = Step(F(U), U)
      BY <1>3 DEF Solves
    <3>. QED
      BY <3>1, <3>2
  <2>2. CASE U # {}
    <3>. DEFINE x == CHOOSE x \in U : TRUE
                V == U \ {x}
    <3>1. x \in U
      BY <2>2
    <3>2. /\ Step(h, U) = Table!Disable(h[V], x[1], x[2])
          /\ Step(G, U) = Table!Disable(G[V], x[1], x[2])
          /\ Step(F(U), U) = Table!Disable(F(U)[V], x[1], x[2])
      <4>. HIDE DEF h, G
      <4>. QED
        BY <2>2, Zenon DEF Step
    <3>. HIDE DEF x
    <3>3. V \in SUBSET T /\ V # T /\ V \subseteq U /\ V # U
      BY <3>1
    <3>. HIDE DEF V
    <3>4. h[V] = F(V)[V] /\ G[V] = F(V)[V]
      BY <3>3
    <3>5. CASE U = T
      BY <3>2, <3>4, <3>5
    <3>6. CASE U # T
      <4>1. Solves(F(U), U) /\ Solves(F(V), V) /\ IsFiniteSet(U)
        BY <1>2, <1>3, <3>3, <3>6, FS_Subset
      <4>2. F(U)[V] = F(V)[V]
        BY <3>3, <4>1, SolutionsAgree
      <4>3. F(U)[U] = Step(F(U), U)
        BY <4>1 DEF Solves
      <4>4. h[U] = F(U)[U]
        BY <3>6
      <4>. QED
        BY <3>2, <3>4, <4>2, <4>3, <4>4
    <3>. QED
      BY <3>5, <3>6
  <2>. QED
    BY <2>1, <2>2
<1>5. h = [U \in SUBSET T |-> h[U]]
  OBVIOUS
<1>. HIDE DEF h
<1>6. h = [U \in SUBSET T |-> Step(h, U)]
  BY <1>4, <1>5
<1>7. Solves(h, T)
  BY <1>6 DEF Solves
<1>. QED
  BY <1>7

\* The memory has words, and indices beyond them.
LEMMA MemoryEnds == MemorySize \in Nat \ {0} /\ MemorySize <= Top /\ Top \in Nat
BY TreeShape, TreeAssumption, TopAssumption DEF MemorySize

\* However many ranges are taken out, in whatever order: the table is one, and
\* refuses what lies in a range or beyond the memory.
LEMMA FoldIsExact ==
    ASSUME NEW R, IsFiniteSet(R),
           \A r \in R : r[1] \in 0 .. Top /\ r[2] \in 0 .. Top /\ r[1] <= r[2]
    PROVE  /\ IsTable(TableWithout(R))
           /\ Grants(TableWithout(R), (MemorySize .. Top) \cup UNION {r[1] .. r[2] : r \in R})
<1>. DEFINE Out(s) == (MemorySize .. Top) \cup UNION {r[1] .. r[2] : r \in s}
<1>1. PICK f : f = (CHOOSE g : Solves(g, R))
  OBVIOUS
<1>2. Solves(f, R)
  BY <1>1, SolutionExists
<1>. DEFINE Bad == {s \in SUBSET R : ~(IsTable(f[s]) /\ Grants(f[s], Out(s)))}
<1>3. ASSUME Bad # {} PROVE FALSE
  <2>1. PICK s \in Bad : \A u \in Bad : u \subseteq s => u = s
    <3>1. Bad \subseteq SUBSET R /\ Bad # {}
      BY <1>3
    <3>. HIDE DEF Bad
    <3>. QED
      BY <3>1, SmallestSet
  <2>2. s \in SUBSET R /\ f[s] = Step(f, s)
    BY <1>2 DEF Solves
  <2>3. CASE s = {}
    <3>1. f[s] = Table!ClearedTable
      BY <2>2, <2>3 DEF Step
    <3>2. Out(s) = MemorySize .. Top
      BY <2>3
    <3>3. IsTable(f[s]) /\ Grants(f[s], MemorySize .. Top)
      BY <3>1, MemoryEnds, TwoRanges, SameTables
    <3>. QED
      BY <2>1, <3>2, <3>3
  <2>4. CASE s # {}
    <3>. DEFINE x == CHOOSE x \in s : TRUE
                v == s \ {x}
    <3>1. x \in s
      BY <2>4
    <3>2. f[s] = Dmi!Disable(f[v], x[1], x[2])
      BY <2>2, <2>4, SameTables DEF Step
    <3>. HIDE DEF x
    <3>3. v \in SUBSET R /\ v \subseteq s /\ v # s
      BY <2>2, <3>1
    <3>4. IsTable(f[v]) /\ Grants(f[v], Out(v))
      BY <2>1, <3>3
    <3>5. x \in R
      BY <2>2, <3>1
    <3>6. x[1] \in 0 .. Top /\ x[2] \in 0 .. Top /\ x[1] <= x[2]
      BY <3>5
    <3>7. Out(s) = Out(v) \cup (x[1] .. x[2])
      <4>1. s = v \cup {x}
        BY <3>1
      <4>. QED
        BY <4>1
    <3>. DEFINE data == f[v]
                low  == x[1]
                high == x[2]
                out  == Out(v)
    <3>8. /\ IsTable(data) /\ Grants(data, out) /\ low \in 0 .. Top /\ high \in 0 .. Top
          /\ low <= high /\ f[s] = Dmi!Disable(data, low, high) /\ Out(s) = out \cup (low .. high)
      BY <3>2, <3>4, <3>6, <3>7
    <3>. HIDE DEF data, low, high, out
    <3>9. /\ IsTable(Dmi!Disable(data, low, high))
          /\ Grants(Dmi!Disable(data, low, high), out \cup (low .. high))
      BY <3>8, DisableIsExact
    <3>10. IsTable(f[s]) /\ Grants(f[s], Out(s))
      BY <3>8, <3>9
    <3>. QED
      BY <2>1, <3>10
  <2>. QED
    BY <2>3, <2>4
<1>4. R \in SUBSET R /\ R \notin Bad
  BY <1>3
<1>5. IsTable(f[R]) /\ Grants(f[R], Out(R))
  BY <1>4
<1>. QED
  BY <1>1, <1>5, FoldIsSolution

\* Somebody has to see the accesses of a kind to a word.
Needed(word, k) ==
    \E o \in Covering(word) : ~DmiAllowed(o, k) \/ << o, k >> \in observers

\* The sizes that addReadDmiData and addWriteDmiData take for numbers of words
\* of the memory are that, or no object has a callback for one kind alone.
Balanced == \A o \in Objects : << o, "read" >> \in callbacks <=> << o, "write" >> \in callbacks

\* Everything lies in the memory.
LEMMA WithinMemory ==
    ASSUME NEW o \in Objects
    PROVE  /\ Offset[o] \in 0 .. Top /\ LastWordOf(o) \in 0 .. Top /\ Offset[o] <= LastWordOf(o)
           /\ LastWordOf(o) < MemorySize
<1>1. LastWordOf(o) <= LastWordOf(Memory)
  BY UpToMemory, Nested
<1>2. Offset[Memory] = 0 /\ Words[Memory] * Width[Memory] = MemorySize
  BY TreeAssumption DEF MemorySize
<1>3. LastWordOf(Memory) = MemorySize - 1
  BY <1>2, MemoryEnds DEF LastWordOf
<1>. QED
  BY <1>1, <1>3, TreeShape, MemoryEnds

\* What is refused is taken out as far as it reaches.
LEMMA RefusedToTheEnd ==
    ASSUME WordSized \/ Balanced, NEW o \in Objects, NEW k \in Kinds, Refuses(o, k)
    PROVE  LastRefused(o) = LastWordOf(o)
<1>1. CASE WalkedForBoth(o)
  BY <1>1 DEF LastRefused, LastWordOf
<1>2. CASE WordSized
  <2>1. Words[o] \in Nat /\ Width[o] = 1
    BY <1>2, TreeShape DEF WordSized
  <2>2. Words[o] * Width[o] = Words[o]
    BY <2>1
  <2>. QED
    BY <2>2 DEF LastRefused, LastWordOf
<1>3. CASE Balanced
  <2>1. ASSUME NEW p \in Ancestors(o), NEW l \in Kinds PROVE DmiAllowed(p, l)
    <3>1. p \in Objects /\ DmiAllowed(p, k)
      BY Up DEF Refuses
    <3>2. << p, "read" >> \in callbacks <=> << p, "write" >> \in callbacks
      BY <1>3, <3>1 DEF Balanced
    <3>. QED
      BY <3>1, <3>2 DEF DmiAllowed, Kinds
  <2>2. WalkedForBoth(o)
    BY <2>1 DEF WalkedForBoth
  <2>. QED
    BY <1>1, <2>2
<1>. QED
  BY <1>1, <1>2, <1>3

\* Going down from the memory one comes to an object that refuses, before any
\* that is not to be accessed directly.
LEMMA RefusedAbove ==
    ASSUME NEW o \in Objects, NEW k, ~DmiAllowed(o, k)
    PROVE  \E p \in Upwards(o) : Refuses(p, k)
<1>. DEFINE S == {q \in Upwards(o) : \E r \in Upwards(q) : ~DmiAllowed(r, k)}
<1>1. o \in S /\ S \subseteq Objects
  BY Up
<1>2. CASE Memory \in S
  <2>1. ~DmiAllowed(Memory, k) /\ Ancestors(Memory) = {}
    BY <1>2, UpToMemory, Up, TreeShape
  <2>. QED
    BY <2>1, UpToMemory DEF Refuses
<1>3. CASE Memory \notin S
  <2>1. PICK q \in S : Parent[q] \notin S
    <3>. HIDE DEF S
    <3>. QED
      BY <1>1, <1>3, Topmost
  <2>2. q \in Objects \ {Memory} /\ q \in Upwards(o)
    BY <1>1, <1>3, <2>1
  <2>3. Parent[q] \in Upwards(o)
    BY <2>2, Up
  <2>4. \A p \in Upwards(Parent[q]) : DmiAllowed(p, k)
    BY <2>1, <2>3
  <2>5. Upwards(q) = {q} \cup Upwards(Parent[q])
    BY <2>2, FirstStep
  <2>6. ~DmiAllowed(q, k)
    BY <2>1, <2>4, <2>5
  <2>7. Refuses(q, k)
    BY <2>2, <2>4, <2>5, <2>6, Up DEF Refuses
  <2>. QED
    BY <2>2, <2>7
<1>. QED
  BY <1>2, <1>3

\* A range of words.
LEMMA InRange ==
    ASSUME NEW o \in Objects, NEW word \in Nat
    PROVE  word \in Offset[o] .. LastWordOf(o) <=> o \in Covering(word)
BY TreeShape DEF Covering, HoldsAll

\* The ranges taken out hold the words that somebody has to see, and no others.
LEMMA RefusedExactly ==
    ASSUME WordSized \/ Balanced, NEW k \in Kinds, NEW word \in Nat
    PROVE  (\E r \in RefusedRanges(k) : word \in r[1] .. r[2]) <=> Needed(word, k)
<1>1. RefusedRanges(k) =
         {<< Offset[o], LastWordOf(o) >> :
              o \in {x \in Objects : Refuses(x, k) \/ << x, k >> \in observers}}
  BY RefusedToTheEnd DEF RefusedRanges, LastObserved
<1>2. (\E r \in RefusedRanges(k) : word \in r[1] .. r[2])
         <=> \E o \in Covering(word) : Refuses(o, k) \/ << o, k >> \in observers
  <2>1. (\E r \in RefusedRanges(k) : word \in r[1] .. r[2])
           <=> \E o \in Objects : /\ Refuses(o, k) \/ << o, k >> \in observers
                                  /\ word \in Offset[o] .. LastWordOf(o)
    <3>. DEFINE R == {x \in Objects : Refuses(x, k) \/ << x, k >> \in observers}
    <3>1. ASSUME NEW r \in RefusedRanges(k)
          PROVE  \E o \in R : r[1] = Offset[o] /\ r[2] = LastWordOf(o)
      <4>1. PICK o \in R : r = << Offset[o], LastWordOf(o) >>
        BY <1>1
      <4>. QED
        BY <4>1
    <3>2. \A o \in R : << Offset[o], LastWordOf(o) >> \in RefusedRanges(k)
      BY <1>1
    <3>3. \A o \in R : << Offset[o], LastWordOf(o) >>[1] = Offset[o]
                     /\ << Offset[o], LastWordOf(o) >>[2] = LastWordOf(o)
      OBVIOUS
    <3>4. (\E r \in RefusedRanges(k) : word \in r[1] .. r[2])
             <=> \E o \in R : word \in Offset[o] .. LastWordOf(o)
      <4>1. ASSUME NEW r \in RefusedRanges(k), word \in r[1] .. r[2]
            PROVE  \E o \in R : word \in Offset[o] .. LastWordOf(o)
        BY <3>1, <4>1
      <4>2. ASSUME NEW o \in R, word \in Offset[o] .. LastWordOf(o)
            PROVE  \E r \in RefusedRanges(k) : word \in r[1] .. r[2]
        <5>. DEFINE r == << Offset[o], LastWordOf(o) >>
        <5>1. r \in RefusedRanges(k) /\ r[1] = Offset[o] /\ r[2] = LastWordOf(o)
          BY <3>2, <3>3
        <5>. HIDE DEF r
        <5>. QED
          BY <4>2, <5>1
      <4>. QED
        BY <4>1, <4>2
    <3>. QED
      BY <3>4
  <2>. QED
    BY <2>1, InRange DEF Covering
<1>3. ASSUME NEW o \in Covering(word), ~DmiAllowed(o, k)
      PROVE  \E p \in Covering(word) : Refuses(p, k)
  <2>1. o \in Objects /\ HoldsAll(o, word, word)
    BY DEF Covering
  <2>2. PICK p \in Upwards(o) : Refuses(p, k)
    BY <1>3, <2>1, RefusedAbove
  <2>3. p \in Objects /\ Offset[p] <= Offset[o] /\ LastWordOf(o) <= LastWordOf(p)
    BY <2>1, Up, Nested
  <2>4. p \in Covering(word)
    BY <2>1, <2>3, TreeShape DEF Covering, HoldsAll
  <2>. QED
    BY <2>2, <2>4
<1>. QED
  BY <1>2, <1>3 DEF Needed, Refuses

\* The ranges are finitely many and lie within the memory.
LEMMA RangesInMemory ==
    ASSUME WordSized \/ Balanced, NEW k \in Kinds
    PROVE  /\ IsFiniteSet(RefusedRanges(k))
           /\ \A r \in RefusedRanges(k) : r[1] \in 0 .. Top /\ r[2] \in 0 .. Top /\ r[1] <= r[2]
<1>. DEFINE R == {x \in Objects : Refuses(x, k) \/ << x, k >> \in observers}
            f == [o \in R |-> << Offset[o], LastWordOf(o) >>]
<1>1. RefusedRanges(k) = {<< Offset[o], LastWordOf(o) >> : o \in R}
  BY RefusedToTheEnd DEF RefusedRanges, LastObserved
<1>2. R \subseteq Objects /\ IsFiniteSet(R)
  BY TreeAssumption, FS_Subset
<1>. HIDE DEF R
<1>3. f \in Surjection(R, RefusedRanges(k))
  BY <1>1 DEF Surjection
<1>. HIDE DEF f
<1>5. IsFiniteSet(RefusedRanges(k))
  BY <1>2, <1>3, FS_Surjection
<1>. QED
  BY <1>1, <1>2, <1>5, WithinMemory

\* What a table has to refuse.
Refused(k) == {x \in 0 .. Top : x >= MemorySize \/ Needed(x, k)}

\* The tables computed for a request refuse that and grant the rest.
LEMMA ComputedIsExact ==
    ASSUME WordSized \/ Balanced, NEW k \in Kinds
    PROVE  IsTable(ComputedTable(k)) /\ Grants(ComputedTable(k), Refused(k))
<1>. DEFINE table == ComputedTable(k)
<1>1. CASE Memory \in dmiDisabled
  <2>1. table = Dmi!DisabledTable
    BY <1>1, SameTables DEF ComputedTable
  <2>2. ASSUME NEW x \in 0 .. Top, x < MemorySize PROVE Needed(x, k)
    <3>1. Memory \in Covering(x)
      BY <2>2, MemoryHolds, TreeShape DEF Covering
    <3>. QED
      BY <1>1, <3>1 DEF Needed, DmiAllowed
  <2>3. Refused(k) = 0 .. Top
    BY <2>2, MemoryEnds DEF Refused
  <2>. QED
    BY <2>1, <2>3, DisabledIsExact
<1>2. CASE Memory \notin dmiDisabled
  <2>. DEFINE R == RefusedRanges(k)
              out == (MemorySize .. Top) \cup UNION {r[1] .. r[2] : r \in R}
  <2>1. table = TableWithout(R)
    BY <1>2, Zenon DEF ComputedTable
  <2>2. IsTable(table) /\ Grants(table, out)
    BY <2>1, RangesInMemory, FoldIsExact
  <2>3. ASSUME NEW x \in 0 .. Top PROVE x \in out <=> x \in Refused(k)
    <3>1. x \in Nat
      BY MemoryEnds
    <3>2. x \in UNION {r[1] .. r[2] : r \in R} <=> Needed(x, k)
      BY <3>1, RefusedExactly
    <3>. QED
      BY <3>1, <3>2, MemoryEnds DEF Refused
  <2>. HIDE DEF table, out
  <2>4. Grants(table, Refused(k))
    BY <2>2, <2>3 DEF Grants
  <2>. QED
    BY <2>2, <2>4 DEF table
<1>. QED
  BY <1>1, <1>2

\* A range that is granted holds words of the memory that nobody has to see.
LEMMA GrantedIsFree ==
    ASSUME WordSized \/ Balanced, NEW k \in Kinds, NEW data, data = ComputedTable(k),
           NEW index \in 0 .. Top, Table!Find(data, index).dmiAllowed,
           NEW x \in Table!Find(data, index).startIndex .. Table!Find(data, index).endIndex
    PROVE  x \in 0 .. Top /\ x < MemorySize /\ ~Needed(x, k)
<1>1. IsTable(data) /\ Grants(data, Refused(k))
  BY ComputedIsExact
<1>. DEFINE i == Dmi!At(data, index)
<1>2. i \in 1 .. Len(data) /\ Table!Find(data, index) = data[i]
  BY <1>1, Found, SameTables
<1>. HIDE DEF i
<1>3. /\ data \in Seq(Ranges) /\ Len(data) \in Nat
      /\ \A j \in 1 .. Len(data) : data[j].startIndex \in Nat /\ data[j].endIndex \in Nat
  <2>1. data \in Seq(Ranges)
    BY <1>1 DEF IsTable
  <2>. QED
    BY <2>1, Elements
<1>4. data[i].endIndex <= Top
  <2>1. Len(data) \in 1 .. Len(data) /\ data[Len(data)].endIndex = Top
        /\ data[Len(data)].startIndex <= data[Len(data)].endIndex
    BY <1>1, <1>3 DEF IsTable
  <2>2. i < Len(data) => data[i].endIndex < data[Len(data)].startIndex
    BY <1>1, <1>2, <2>1 DEF IsTable
  <2>. QED
    BY <1>2, <1>3, <2>1, <2>2
<1>5. x \in 0 .. Top /\ Holds(data[i], x)
  BY <1>2, <1>3, <1>4, MemoryEnds DEF Holds
<1>6. x \notin Refused(k)
  BY <1>1, <1>2, <1>5 DEF Grants
<1>. QED
  BY <1>5, <1>6, MemoryEnds DEF Refused

\* One kind of callback is never installed or removed without the other.
BothKinds == \A ks \in CallbackKinds : ks = Kinds

\* The inductive invariant: tables in use are the ones that would be computed
\* now, so nothing changes what they depend on without an invalidation.
TreeInv ==
    /\ dmiPointersInUse => dmiData = [k \in Kinds |-> ComputedTable(k)]
    /\ ~dmiPointersInUse => heldWords = {}
    /\ \A h \in heldWords :
          h[1] \in Kinds /\ h[2] \in 0 .. Top /\ h[2] < MemorySize /\ ~Needed(h[2], h[1])
    /\ BothKinds => Balanced

\* The first state and the steps.
LEMMA TreeStart == TreeInit => TreeInv
BY DEF TreeInit, TreeInv, Balanced

\* What the tables depend on.
LEMMA SameNeeds ==
    ASSUME UNCHANGED << callbacks, dmiDisabled, observers >>
    PROVE  /\ \A k : ComputedTable(k)' = ComputedTable(k)
           /\ \A word, k : Needed(word, k)' = Needed(word, k)
           /\ Balanced' = Balanced
<1>1. \A o, k : DmiAllowed(o, k)' = DmiAllowed(o, k)
  BY DEF DmiAllowed
<1>2. \A o, k : Refuses(o, k)' = Refuses(o, k)
  BY <1>1 DEF Refuses
<1>3. \A o : WalkedForBoth(o)' = WalkedForBoth(o)
  BY <1>1 DEF WalkedForBoth
<1>4. \A o : LastRefused(o)' = LastRefused(o)
  BY <1>3 DEF LastRefused
<1>5. \A k : RefusedRanges(k)' = RefusedRanges(k)
  BY <1>2, <1>4 DEF RefusedRanges
<1>6. \A k : ComputedTable(k)' = ComputedTable(k)
  BY <1>5 DEF ComputedTable
<1>7. \A word, k : Needed(word, k)' = Needed(word, k)
  BY <1>1 DEF Needed
<1>8. Balanced' = Balanced
  BY DEF Balanced
<1>. QED
  BY <1>6, <1>7, <1>8

\* A call that changes what the tables depend on leaves no tables in use.
LEMMA Invalidated ==
    ASSUME TreeInv, InvalidateAllDmi, BothKinds => Balanced'
    PROVE  TreeInv'
<1>1. ~dmiPointersInUse' /\ heldWords' = {}
  BY DEF TreeInv, InvalidateAllDmi
<1>. QED
  BY <1>1 DEF TreeInv

\* A request.
LEMMA RequestKeeps ==
    ASSUME WordSized \/ BothKinds, TreeInv,
           NEW k \in Kinds, NEW index \in 0 .. Top, GetDirectMemPtrOf(k, index)
    PROVE  TreeInv'
<1>1. UNCHANGED << callbacks, dmiDisabled, observers >> /\ dmiPointersInUse'
  BY DEF GetDirectMemPtrOf
<1>2. dmiData' = [x \in Kinds |-> ComputedTable(x)]
  BY DEF GetDirectMemPtrOf, TreeInv
<1>. DEFINE range == Table!Find(dmiData'[k], index)
<1>3. dmiData'[k] = ComputedTable(k)
  BY <1>2
<1>4. range.dmiAllowed =>
        \A x \in range.startIndex .. range.endIndex :
            x \in 0 .. Top /\ x < MemorySize /\ ~Needed(x, k)
  BY <1>3, GrantedIsFree DEF TreeInv
<1>5. heldWords' = IF range.dmiAllowed
                   THEN heldWords \cup ({k} \X (range.startIndex .. range.endIndex))
                   ELSE heldWords
  BY DEF GetDirectMemPtrOf
<1>. HIDE DEF range
<1>6. ASSUME NEW h \in heldWords'
      PROVE  h[1] \in Kinds /\ h[2] \in 0 .. Top /\ h[2] < MemorySize /\ ~Needed(h[2], h[1])
  <2>1. CASE h \in heldWords
    BY <2>1 DEF TreeInv
  <2>2. CASE h \notin heldWords
    <3>1. range.dmiAllowed /\ h \in {k} \X (range.startIndex .. range.endIndex)
      BY <1>5, <2>2
    <3>2. h[1] = k /\ h[2] \in range.startIndex .. range.endIndex
      BY <3>1
    <3>. QED
      BY <1>4, <3>1, <3>2
  <2>. QED
    BY <2>1, <2>2
<1>7. \A h \in heldWords' :
          h[1] \in Kinds /\ h[2] \in 0 .. Top /\ h[2] < MemorySize /\ ~Needed(h[2], h[1])'
  BY <1>1, <1>6, SameNeeds
<1>8. dmiData' = [x \in Kinds |-> ComputedTable(x)']
  BY <1>1, <1>2, SameNeeds
<1>. QED
  BY <1>1, <1>7, <1>8, SameNeeds DEF TreeInv

\* A step that changes nothing the tables depend on, nor the tables.
LEMMA NothingChanged ==
    ASSUME TreeInv, UNCHANGED << callbacks, dmiDisabled, observers >>, KeepAllDmi
    PROVE  TreeInv'
<1>1. dmiPointersInUse' = dmiPointersInUse /\ dmiData' = dmiData /\ heldWords' = heldWords
  BY DEF KeepAllDmi
<1>2. dmiPointersInUse' => dmiData' = [k \in Kinds |-> ComputedTable(k)']
  BY <1>1, SameNeeds DEF TreeInv
<1>3. \A h \in heldWords' :
          h[1] \in Kinds /\ h[2] \in 0 .. Top /\ h[2] < MemorySize /\ ~Needed(h[2], h[1])'
  BY <1>1, SameNeeds DEF TreeInv
<1>. QED
  BY <1>1, <1>2, <1>3, SameNeeds DEF TreeInv

\* Callbacks of both kinds come and go together.
LEMMA StaysBalanced ==
    ASSUME BothKinds, Balanced, NEW o \in Objects, NEW ks \in CallbackKinds,
           callbacks' = callbacks \cup ({o} \X ks) \/ callbacks' = callbacks \ ({o} \X ks)
    PROVE  Balanced'
<1>1. ks = Kinds
  BY DEF BothKinds
<1>2. \A p, k : << p, k >> \in {o} \X ks <=> p = o /\ k \in Kinds
  BY <1>1
<1>3. "read" \in Kinds /\ "write" \in Kinds
  BY DEF Kinds
<1>. QED
  BY <1>2, <1>3 DEF Balanced

\* One step for each action: all but a request and a second call of
\* set_callback invalidate the tables.
LEMMA TreeStep ==
    ASSUME WordSized \/ BothKinds, TreeInv, [TreeNext]_treeVars
    PROVE  TreeInv'
<1>1. ASSUME NEW k \in Kinds, NEW index \in 0 .. Top, GetDirectMemPtrOf(k, index)
      PROVE  TreeInv'
  <2>1. UNCHANGED << callbacks, dmiDisabled, observers >>
    BY <1>1 DEF GetDirectMemPtrOf
  <2>. QED
    BY <1>1, <2>1, RequestKeeps, SameNeeds
<1>2. ASSUME NEW o \in Objects, NEW ks \in CallbackKinds, SetCallback(o, ks)
      PROVE  TreeInv'
  <2>1. callbacks' = callbacks \cup ({o} \X ks) /\ UNCHANGED << dmiDisabled, observers >>
    BY <1>2 DEF SetCallback
  <2>2. BothKinds => Balanced'
    BY <2>1, StaysBalanced DEF TreeInv
  <2>3. CASE \E k \in ks : << o, k >> \notin callbacks
    <3>1. InvalidateAllDmi
      BY <1>2, <2>3 DEF SetCallback
    <3>. QED
      BY <2>2, <3>1, Invalidated
  <2>4. CASE ~ \E k \in ks : << o, k >> \notin callbacks
    <3>1. KeepAllDmi
      BY <1>2, <2>4 DEF SetCallback
    <3>2. callbacks' = callbacks
      BY <2>1, <2>4
    <3>. QED
      BY <2>1, <2>2, <3>1, <3>2, NothingChanged
  <2>. QED
    BY <2>3, <2>4
<1>3. ASSUME NEW o \in Objects, NEW ks \in CallbackKinds, RemoveCallback(o, ks)
      PROVE  TreeInv'
  <2>1. callbacks' = callbacks \ ({o} \X ks) /\ InvalidateAllDmi
    BY <1>3 DEF RemoveCallback
  <2>2. BothKinds => Balanced'
    BY <2>1, StaysBalanced DEF TreeInv
  <2>. QED
    BY <2>1, <2>2, Invalidated
<1>4. ASSUME InvalidateAllDmi, callbacks' = callbacks
      PROVE  TreeInv'
  <2>1. Balanced' <=> Balanced
    BY <1>4 DEF Balanced
  <2>. QED
    BY <1>4, <2>1, Invalidated DEF TreeInv
<1>5. ASSUME NEW o \in Switched, EnableObjectDmi(o) \/ DisableObjectDmi(o)
      PROVE  TreeInv'
  BY <1>4, <1>5 DEF EnableObjectDmi, DisableObjectDmi
<1>6. ASSUME NEW o \in Observed, NEW k \in Kinds,
             RegisterContentObserver(o, k) \/ UnregisterContentObserver(o, k)
      PROVE  TreeInv'
  BY <1>4, <1>6 DEF RegisterContentObserver, UnregisterContentObserver
<1>7. CASE UNCHANGED treeVars
  <2>1. UNCHANGED << callbacks, dmiDisabled, observers >> /\ KeepAllDmi
    BY <1>7 DEF treeVars, KeepAllDmi
  <2>. QED
    BY <2>1, NothingChanged, SameNeeds
<1>. QED
  BY <1>1, <1>2, <1>3, <1>5, <1>6, <1>7 DEF TreeNext

\* The invariant, for an object tree of any shape.
LEMMA TreeInvariance ==
    ASSUME WordSized \/ BothKinds
    PROVE  TreeSpec => []TreeInv
<1>1. TreeInit => TreeInv
  BY TreeStart
<1>2. TreeInv /\ [TreeNext]_treeVars => TreeInv'
  BY TreeStep
<1>. QED
  BY <1>1, <1>2, PTL DEF TreeSpec

\* For a memory with any tree of aliases, any callbacks, switches and
\* observers coming and going: no word is held for direct access that an
\* object with a callback, a switched-off object or an observer covers.
THEOREM HeldWordsNeverNeedAnyone ==
    ASSUME WordSized \/ BothKinds
    PROVE  TreeSpec => []HeldWordsNeedNoOne
<1>1. TreeInv => HeldWordsNeedNoOne
  BY DEF TreeInv, HeldWordsNeedNoOne, Needed
<1>. QED
  BY <1>1, TreeInvariance, PTL

\* The tables in use are always those of the present callbacks, switches and
\* observers: a word is granted exactly if nobody has to see it.
THEOREM TablesStayCurrent ==
    ASSUME WordSized \/ BothKinds
    PROVE  TreeSpec => []TablesAreCurrent
<1>1. ASSUME TreeInv PROVE TablesAreCurrent
  <2>1. SUFFICES ASSUME dmiPointersInUse, NEW k \in Kinds, NEW word \in 0 .. (MemorySize - 1)
                 PROVE  Table!Find(dmiData[k], word).dmiAllowed <=> ~Needed(word, k)
    BY DEF TablesAreCurrent, Needed
  <2>. DEFINE data == ComputedTable(k)
              i    == Dmi!At(data, word)
  <2>2. word \in 0 .. Top /\ word < MemorySize
    BY MemoryEnds
  <2>3. dmiData[k] = data
    BY <1>1, <2>1 DEF TreeInv
  <2>4. IsTable(data) /\ Grants(data, Refused(k))
    BY <1>1, ComputedIsExact DEF TreeInv
  <2>. HIDE DEF data
  <2>5. i \in 1 .. Len(data) /\ Holds(data[i], word) /\ Table!Find(data, word) = data[i]
    BY <2>2, <2>4, Found, SameTables
  <2>. HIDE DEF i
  <2>6. data[i].dmiAllowed <=> word \notin Refused(k)
    BY <2>2, <2>4, <2>5 DEF Grants
  <2>. QED
    BY <2>2, <2>3, <2>5, <2>6, MemoryEnds DEF Refused
<1>. QED
  BY <1>1, TreeInvariance, PTL
=============================================================================
