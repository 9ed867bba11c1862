--------------------------- MODULE DmiPathProofs ---------------------------
(***************************************************************************)
(* Theorems about the path of a direct memory access, for a router and a   *)
(* memory of any size, any mappings and any number of initiators.          *)
(* The argument: an answer of the router is the same for each address it   *)
(* holds, and every range that is remembered is the answer that would be   *)
(* given now, because whoever may have to forget something is marked as    *)
(* in use.                                                                 *)
(***************************************************************************)
EXTENDS DmiPath, WellFoundedInduction, TLAPS

Ranges == [start : Addresses, end : Addresses, granted : BOOLEAN, word : 0..Top]

\* What makes an index the low or the high end of the block around a word.
IsLow(words, w, x) ==
    /\ \A y \in x..w : Alike(words, w, y)
    /\ x = 0 \/ ~Alike(words, w, x - 1)
IsHigh(words, w, x) ==
    /\ \A y \in w..x : Alike(words, w, y)
    /\ x = Top \/ ~Alike(words, w, x + 1)

\* The answer of the router as a function of its state.
Asks(on, rs, a) == on /\ a < RouterSize /\ \E r \in rs : In(r, a)

MappingOf(rs, a) == CHOOSE r \in rs : In(r, a)

Answer(on, rs, words, a) ==
    IF ~on THEN Refused(0, Top)
    ELSE IF a >= RouterSize THEN Refused(RouterSize, Top)
    ELSE IF Asks(on, rs, a)
         THEN Clipped(MappingOf(rs, a),
                      MemoryAnswer(words, a - MappingOf(rs, a).base
                                            + MappingOf(rs, a).offset))
         ELSE Gap(rs, a)

Disjoint(rs) == \A r, s \in rs : r # s => ~Overlap(r, s)

LEMMA RouterAnswers ==
  ASSUME NEW k, NEW a, NEW words
  PROVE  /\ RouterAnswer(k, a, words) = Answer(routerEnabled, mapped[k], words, a)
         /\ AsksMemory(k, a) = Asks(routerEnabled, mapped[k], a)
  BY DEF RouterAnswer, Answer, AsksMemory, Asks, MappingOf

-----------------------------------------------------------------------------
(***************************************************************************)
(* Sets of numbers.                                                        *)
(***************************************************************************)
LEMMA LeastOne ==
  ASSUME NEW T, T \subseteq Nat, T # {}
  PROVE  \E x \in T : \A y \in T : x <= y
<1> DEFINE Less == OpToRel(<, Nat)
<1>1. IsWellFoundedOn(Less, Nat)
  BY NatLessThanWellFounded
<1>2. ASSUME NEW x \in Nat, NEW y \in Nat, x < y
      PROVE  << x, y >> \in Less
  BY <1>2 DEF OpToRel
<1> HIDE DEF Less
<1>3. PICK x \in T : \A y \in T : << y, x >> \notin Less
  BY <1>1, WFMin
<1>4. ASSUME NEW y \in T PROVE x <= y
  <2>1. x \in Nat /\ y \in Nat
    OBVIOUS
  <2>2. ~(y < x)
    BY <1>2, <1>3, <2>1
  <2> QED
    BY <2>1, <2>2
<1> QED
  BY <1>4

LEMMA LargestOne ==
  ASSUME NEW n \in Nat, NEW T, T \subseteq 0..n, T # {}
  PROVE  \E x \in T : \A y \in T : y <= x
<1> DEFINE U == {n - y : y \in T}
<1>1. U \subseteq Nat /\ U # {}
  <2>1. ASSUME NEW y \in T PROVE n - y \in Nat
    <3>1. y \in 0..n
      OBVIOUS
    <3> QED
      BY <3>1
  <2> QED
    BY <2>1
<1>2. PICK u \in U : \A v \in U : u <= v
  <2> HIDE DEF U
  <2> QED
    BY <1>1, LeastOne
<1>3. PICK x \in T : u = n - x
  BY <1>2
<1>4. ASSUME NEW y \in T PROVE y <= x
  <2>1. n - y \in U
    OBVIOUS
  <2>2. n - x <= n - y
    BY <1>2, <1>3, <2>1
  <2>3. x \in 0..n /\ y \in 0..n
    OBVIOUS
  <2> QED
    BY <2>2, <2>3
<1> QED
  BY <1>4

-----------------------------------------------------------------------------
(***************************************************************************)
(* The answer of the memory.                                               *)
(***************************************************************************)
LEMMA LowFacts ==
  ASSUME NEW words, NEW w \in 0..Top
  PROVE  /\ LowEnd(words, w) \in 0..w
         /\ IsLow(words, w, LowEnd(words, w))
<1> DEFINE T == {x \in 0..w : \A y \in x..w : Alike(words, w, y)}
<1>0. Top \in Nat
  BY PathAssumption
<1>1. T \subseteq Nat /\ w \in T
  BY <1>0 DEF Alike
<1>2. PICK x \in T : \A y \in T : x <= y
  <2> HIDE DEF T
  <2> QED
    BY <1>1, LeastOne
<1>3. x = 0 \/ ~Alike(words, w, x - 1)
  <2> SUFFICES ASSUME x # 0, Alike(words, w, x - 1) PROVE FALSE
    OBVIOUS
  <2>1. x - 1 \in 0..w /\ x \in Nat
    BY <1>0
  <2>2. ASSUME NEW y \in (x - 1)..w PROVE Alike(words, w, y)
    <3>1. y = x - 1 \/ y \in x..w
      BY <1>0, <2>1
    <3> QED
      BY <3>1
  <2>3. x - 1 \in T
    BY <2>1, <2>2
  <2> HIDE DEF T
  <2>4. x <= x - 1
    BY <1>2, <2>3
  <2> QED
    BY <2>1, <2>4
<1>4. x \in 0..w /\ IsLow(words, w, x)
  BY <1>3 DEF IsLow
<1> QED
  BY <1>4 DEF LowEnd, IsLow

LEMMA HighFacts ==
  ASSUME NEW words, NEW w \in 0..Top
  PROVE  /\ HighEnd(words, w) \in w..Top
         /\ IsHigh(words, w, HighEnd(words, w))
<1> DEFINE T == {x \in w..Top : \A y \in w..x : Alike(words, w, y)}
<1>0. Top \in Nat
  BY PathAssumption
<1>1. T \subseteq 0..Top /\ w \in T
  BY <1>0 DEF Alike
<1>2. PICK x \in T : \A y \in T : y <= x
  <2> HIDE DEF T
  <2> QED
    BY <1>0, <1>1, LargestOne
<1>3. x = Top \/ ~Alike(words, w, x + 1)
  <2> SUFFICES ASSUME x # Top, Alike(words, w, x + 1) PROVE FALSE
    OBVIOUS
  <2>1. x + 1 \in w..Top /\ x \in Nat
    BY <1>0
  <2>2. ASSUME NEW y \in w..(x + 1) PROVE Alike(words, w, y)
    <3>1. y = x + 1 \/ y \in w..x
      BY <1>0, <2>1
    <3> QED
      BY <3>1
  <2>3. x + 1 \in T
    BY <2>1, <2>2
  <2> HIDE DEF T
  <2>4. x + 1 <= x
    BY <1>2, <2>3
  <2> QED
    BY <2>1, <2>4
<1>4. x \in w..Top /\ IsHigh(words, w, x)
  BY <1>3 DEF IsHigh
<1> QED
  BY <1>4 DEF HighEnd, IsHigh

LEMMA SameBlock ==
  ASSUME NEW words, NEW w \in 0..Top,
         NEW v \in LowEnd(words, w)..HighEnd(words, w)
  PROVE  /\ v \in 0..Top
         /\ Alike(words, w, v)
         /\ LowEnd(words, v) = LowEnd(words, w)
         /\ HighEnd(words, v) = HighEnd(words, w)
<1> DEFINE l == LowEnd(words, w)
           h == HighEnd(words, w)
<1>0. Top \in Nat
  BY PathAssumption
<1>1. /\ l \in 0..w /\ IsLow(words, w, l)
      /\ h \in w..Top /\ IsHigh(words, w, h)
  BY LowFacts, HighFacts
<1> DEFINE l2 == LowEnd(words, v)
           h2 == HighEnd(words, v)
<1>2. v \in 0..Top /\ v \in l..h
  BY <1>0, <1>1
<1>3. /\ l2 \in 0..v /\ IsLow(words, v, l2)
      /\ h2 \in v..Top /\ IsHigh(words, v, h2)
  BY <1>2, LowFacts, HighFacts
<1> HIDE DEF l, h, l2, h2
<1>4. \A y \in l..h : Alike(words, w, y)
  <2> SUFFICES ASSUME NEW y \in l..h PROVE Alike(words, w, y)
    OBVIOUS
  <2>1. y \in l..w \/ y \in w..h
    BY <1>0, <1>1
  <2> QED
    BY <1>1, <2>1 DEF IsLow, IsHigh
<1>5. Alike(words, w, v)
  BY <1>2, <1>4
<1>6. \A y : Alike(words, v, y) <=> Alike(words, w, y)
  BY <1>5 DEF Alike
<1>7. l2 = l
  <2>1. CASE l2 < l
    <3>1. l - 1 \in l2..v /\ l # 0
      BY <1>0, <1>1, <1>2, <1>3, <2>1
    <3>2. Alike(words, w, l - 1)
      BY <1>3, <1>6, <3>1 DEF IsLow
    <3> QED
      BY <1>1, <3>1, <3>2 DEF IsLow
  <2>2. CASE l < l2
    <3>1. l2 - 1 \in l..h /\ l2 # 0
      BY <1>0, <1>1, <1>2, <1>3, <2>2
    <3>2. Alike(words, v, l2 - 1)
      BY <1>4, <1>6, <3>1
    <3> QED
      BY <1>3, <3>1, <3>2 DEF IsLow
  <2> QED
    BY <1>0, <1>1, <1>2, <1>3, <2>1, <2>2
<1>8. h2 = h
  <2>1. CASE h < h2
    <3>1. h + 1 \in v..h2 /\ h # Top
      BY <1>0, <1>1, <1>2, <1>3, <2>1
    <3>2. Alike(words, w, h + 1)
      BY <1>3, <1>6, <3>1 DEF IsHigh
    <3> QED
      BY <1>1, <3>1, <3>2 DEF IsHigh
  <2>2. CASE h2 < h
    <3>1. h2 + 1 \in l..h /\ h2 # Top
      BY <1>0, <1>1, <1>2, <1>3, <2>2
    <3>2. Alike(words, v, h2 + 1)
      BY <1>4, <1>6, <3>1
    <3> QED
      BY <1>3, <3>1, <3>2 DEF IsHigh
  <2> QED
    BY <1>0, <1>1, <1>2, <1>3, <2>1, <2>2
<1> QED
  BY <1>2, <1>5, <1>7, <1>8 DEF l, h, l2, h2

-----------------------------------------------------------------------------
(***************************************************************************)
(* The answer of the router.                                               *)
(***************************************************************************)
LEMMA MappingFacts ==
  ASSUME NEW r \in Mappings
  PROVE  /\ r.base \in Nat /\ r.size \in Nat \ {0} /\ r.offset \in Nat
         /\ r.base + r.size <= RouterSize /\ r.offset + r.size <= Top
         /\ RouterSize \in Nat \ {0} /\ MemorySize \in Nat \ {0} /\ Top \in Nat
         /\ RouterSize <= Top /\ MemorySize <= Top
  BY PathAssumption

LEMMA RangeIsRange ==
  ASSUME NEW low \in Addresses, NEW high \in Addresses,
         NEW granted \in BOOLEAN, NEW word \in 0..Top
  PROVE  Range(low, high, granted, word) \in Ranges
  BY DEF Range, Ranges

LEMMA RefusedFacts ==
  ASSUME NEW low \in Addresses, NEW high \in Addresses,
         NEW A, A = Refused(low, high)
  PROVE  /\ A \in Ranges
         /\ A.start = low /\ A.end = high /\ ~A.granted
<1>1. Top \in Nat
  BY PathAssumption
<1>2. A \in Ranges
  <2>1. 0 \in 0..Top /\ FALSE \in BOOLEAN
    BY <1>1
  <2>2. Range(low, high, FALSE, 0) \in Ranges
    BY <2>1, RangeIsRange
  <2> QED
    BY <2>2 DEF Refused
<1>3. A.start = low /\ A.end = high /\ ~A.granted
  BY DEF Refused, Range
<1> QED
  BY <1>2, <1>3

LEMMA ClippedFacts ==
  ASSUME NEW r \in Mappings, NEW words,
         NEW a \in Addresses, In(r, a),
         NEW w, w = a - r.base + r.offset,
         NEW A, A = Clipped(r, MemoryAnswer(words, w))
  PROVE  /\ w \in 0..Top
         /\ A \in Ranges
         /\ Contains(A, a)
         /\ A.granted <=> w \in words
         /\ A.granted => A.word + (a - A.start) = w
         /\ \A b \in A.start..A.end :
               /\ In(r, b)
               /\ MemoryAnswer(words, b - r.base + r.offset) = MemoryAnswer(words, w)
<1> DEFINE l == LowEnd(words, w)
           h == HighEnd(words, w)
           low  == IF l < r.offset THEN r.offset ELSE l
           high == IF h > r.offset + r.size - 1 THEN r.offset + r.size - 1 ELSE h
<1>1. /\ r.base \in Nat /\ r.size \in Nat \ {0} /\ r.offset \in Nat
      /\ r.base + r.size <= RouterSize /\ r.offset + r.size <= Top
      /\ RouterSize \in Nat \ {0} /\ Top \in Nat
      /\ RouterSize <= Top
  BY MappingFacts
<1>2. /\ w \in 0..Top /\ w \in r.offset..(r.offset + r.size - 1)
      /\ a \in 0..Top /\ r.base <= a /\ a < r.base + r.size
  BY <1>1 DEF In, Addresses
<1>3. l \in 0..w /\ h \in w..Top
  BY <1>2, LowFacts, HighFacts
<1>4. A = Range(low - r.offset + r.base, high - r.offset + r.base, w \in words,
                IF w \in words THEN (IF w \in words THEN l ELSE 0) + (low - l) ELSE 0)
  BY DEF Clipped, MemoryAnswer, Range
<1> HIDE DEF l, h
<1>5. /\ low \in l..w /\ low \in r.offset..w
      /\ high \in w..h /\ high \in w..(r.offset + r.size - 1)
  BY <1>1, <1>2, <1>3
<1> HIDE DEF low, high
<1>6. A = Range(low - r.offset + r.base, high - r.offset + r.base, w \in words,
                IF w \in words THEN low ELSE 0)
  <2>1. l + (low - l) = low
    BY <1>1, <1>2, <1>3, <1>5
  <2> QED
    BY <1>4, <2>1
<1>7. /\ A.start = low - r.offset + r.base
      /\ A.end = high - r.offset + r.base
      /\ A.granted = (w \in words)
      /\ A.word = IF w \in words THEN low ELSE 0
  BY <1>6 DEF Range
<1>8. /\ low - r.offset + r.base \in 0..a
      /\ high - r.offset + r.base \in a..(r.base + r.size - 1)
      /\ low \in 0..Top /\ 0 \in 0..Top
  BY <1>1, <1>2, <1>3, <1>5
<1>9. A \in Ranges
  <2>1. /\ low - r.offset + r.base \in Addresses
        /\ high - r.offset + r.base \in Addresses
    BY <1>1, <1>2, <1>8 DEF Addresses
  <2>2. (IF w \in words THEN low ELSE 0) \in 0..Top
    BY <1>8
  <2>3. (w \in words) \in BOOLEAN
    OBVIOUS
  <2> QED
    BY <1>6, <2>1, <2>2, <2>3, RangeIsRange
<1>10. Contains(A, a)
  BY <1>1, <1>2, <1>7, <1>8 DEF Contains
<1>11. A.granted => A.word + (a - A.start) = w
  <2>1. low + (a - (low - r.offset + r.base)) = w
    BY <1>1, <1>2, <1>3, <1>5
  <2> QED
    BY <1>7, <2>1
<1>12. ASSUME NEW b \in A.start..A.end
       PROVE  /\ In(r, b)
              /\ MemoryAnswer(words, b - r.base + r.offset) = MemoryAnswer(words, w)
  <2> DEFINE v == b - r.base + r.offset
  <2>1. b \in Int /\ low - r.offset + r.base <= b /\ b <= high - r.offset + r.base
    BY <1>1, <1>2, <1>3, <1>5, <1>7
  <2>2. In(r, b) /\ v \in l..h
    BY <1>1, <1>2, <1>3, <1>5, <2>1 DEF In
  <2> HIDE DEF v
  <2>3. /\ Alike(words, w, v)
        /\ LowEnd(words, v) = LowEnd(words, w)
        /\ HighEnd(words, v) = HighEnd(words, w)
    BY <1>2, <2>2, SameBlock DEF l, h
  <2>4. MemoryAnswer(words, v) = MemoryAnswer(words, w)
    BY <2>3 DEF MemoryAnswer, Alike
  <2> QED
    BY <2>2, <2>4 DEF v
<1> QED
  BY <1>2, <1>7, <1>9, <1>10, <1>11, <1>12

LEMMA RefusedClip ==
  ASSUME NEW r, NEW m, NEW low, NEW high, m.granted = FALSE,
         (IF m.start < r.offset THEN r.offset ELSE m.start) = low,
         (IF m.end > r.offset + r.size - 1 THEN r.offset + r.size - 1 ELSE m.end) = high
  PROVE  Clipped(r, m) = Refused(low - r.offset + r.base, high - r.offset + r.base)
  BY DEF Clipped, Refused, Range

\* Beyond the memory the words that are granted do not matter.
LEMMA BeyondTheMemory ==
  ASSUME NEW r \in Mappings, ~Forwards(r),
         NEW words, words \subseteq MemoryWords,
         NEW a \in Addresses, In(r, a)
  PROVE  Clipped(r, MemoryAnswer(words, a - r.base + r.offset))
             = Refused(r.base, r.base + r.size - 1)
<1> DEFINE w == a - r.base + r.offset
           l == LowEnd(words, w)
           h == HighEnd(words, w)
<1>1. /\ r.base \in Nat /\ r.size \in Nat \ {0} /\ r.offset \in Nat
      /\ r.base + r.size <= RouterSize /\ r.offset + r.size <= Top
      /\ MemorySize \in Nat \ {0} /\ Top \in Nat /\ RouterSize \in Nat
      /\ RouterSize <= Top /\ MemorySize <= Top
      /\ MemorySize <= r.offset
  BY MappingFacts DEF Forwards
<1>2. w \in 0..Top /\ w \in r.offset..(r.offset + r.size - 1)
  BY <1>1 DEF In, Addresses
<1> HIDE DEF w
<1>3. ASSUME NEW x \in Int, r.offset <= x PROVE x \notin words
  BY <1>1, <1>3 DEF MemoryWords
<1>4. /\ l \in 0..w /\ IsLow(words, w, l)
      /\ h \in w..Top /\ IsHigh(words, w, h)
  BY <1>2, LowFacts, HighFacts
<1> HIDE DEF l, h
<1>5. ASSUME NEW x \in Int, r.offset <= x PROVE Alike(words, w, x)
  <2>1. x \notin words /\ w \notin words
    BY <1>1, <1>2, <1>3, <1>5
  <2> QED
    BY <2>1 DEF Alike
<1>6. l <= r.offset
  <2> SUFFICES ASSUME r.offset < l PROVE FALSE
    BY <1>1, <1>2, <1>4
  <2>1. l - 1 \in Int /\ r.offset <= l - 1 /\ l # 0
    BY <1>1, <1>2, <1>4
  <2>2. Alike(words, w, l - 1)
    BY <1>5, <2>1
  <2> QED
    BY <1>4, <2>1, <2>2 DEF IsLow
<1>7. h = Top
  <2> SUFFICES ASSUME h # Top PROVE FALSE
    OBVIOUS
  <2>1. h + 1 \in Int /\ r.offset <= h + 1
    BY <1>1, <1>2, <1>4
  <2>2. Alike(words, w, h + 1)
    BY <1>5, <2>1
  <2> QED
    BY <1>4, <2>2 DEF IsHigh
<1>8. w \notin words
  BY <1>1, <1>2, <1>3
<1>9. MemoryAnswer(words, w).start = l /\ MemoryAnswer(words, w).end = h
  BY DEF MemoryAnswer, l, h, Range
<1>10. MemoryAnswer(words, w).granted = FALSE
  <2>1. MemoryAnswer(words, w).granted = (w \in words)
    BY DEF MemoryAnswer, Range
  <2>2. (w \in words) = FALSE
    BY <1>8
  <2> QED
    BY <2>1, <2>2
<1> DEFINE m == MemoryAnswer(words, w)
<1>11. m.start = l /\ m.end = h /\ m.granted = FALSE
  BY <1>9, <1>10
<1> HIDE DEF m
<1>12. /\ (IF l < r.offset THEN r.offset ELSE l) = r.offset
       /\ (IF h > r.offset + r.size - 1 THEN r.offset + r.size - 1 ELSE h)
              = r.offset + r.size - 1
  BY <1>1, <1>2, <1>4, <1>6, <1>7
<1>13. /\ r.offset - r.offset + r.base = r.base
       /\ (r.offset + r.size - 1) - r.offset + r.base = r.base + r.size - 1
  BY <1>1
<1>14. Clipped(r, m) = Refused(r.offset - r.offset + r.base,
                               (r.offset + r.size - 1) - r.offset + r.base)
  BY <1>11, <1>12, RefusedClip
<1> QED
  BY <1>13, <1>14 DEF w, m

LEMMA GapFacts ==
  ASSUME NEW rs, rs \subseteq Mappings,
         NEW a \in Addresses, a < RouterSize, \A r \in rs : ~In(r, a),
         NEW A, A = Gap(rs, a)
  PROVE  /\ A \in Ranges /\ ~A.granted
         /\ Contains(A, a)
         /\ \A b \in A.start..A.end : /\ b \in Addresses /\ b < RouterSize
                                      /\ \A r \in rs : ~In(r, b)
                                      /\ Gap(rs, b) = A
<1> DEFINE Below(x) == {r.base + r.size : r \in {y \in rs : y.base + y.size <= x}}
           Above(x) == {r.base - 1 : r \in {y \in rs : x < y.base}}
           L(x) == CHOOSE y \in Below(x) \union {0} : \A z \in Below(x) : z <= y
           H(x) == CHOOSE y \in Above(x) \union {RouterSize - 1} :
                       \A z \in Above(x) : y <= z
<1>1. /\ RouterSize \in Nat \ {0} /\ Top \in Nat /\ RouterSize <= Top
      /\ \A r \in rs : /\ r.base \in Nat /\ r.size \in Nat \ {0}
                       /\ r.base + r.size <= RouterSize
  BY MappingFacts, PathAssumption
<1>2. \A x : Gap(rs, x) = Refused(L(x), H(x))
  BY DEF Gap
<1>3. a \in 0..Top
  BY DEF Addresses
<1>4. /\ L(a) \in Below(a) \union {0}
      /\ \A z \in Below(a) : z <= L(a)
  <2>1. Below(a) \subseteq 0..Top
    BY <1>1, <1>3
  <2>2. \E y \in Below(a) \union {0} : \A z \in Below(a) : z <= y
    <3> HIDE DEF Below
    <3>1. CASE Below(a) = {}
      BY <3>1
    <3>2. CASE Below(a) # {}
      BY <1>1, <2>1, <3>2, LargestOne
    <3> QED
      BY <3>1, <3>2
  <2> HIDE DEF Below
  <2> QED
    BY <2>2
<1>5. /\ H(a) \in Above(a) \union {RouterSize - 1}
      /\ \A z \in Above(a) : H(a) <= z
  <2>1. Above(a) \subseteq Nat
    BY <1>1, <1>3
  <2>2. \E y \in Above(a) \union {RouterSize - 1} : \A z \in Above(a) : y <= z
    <3> HIDE DEF Above
    <3>1. CASE Above(a) = {}
      BY <3>1
    <3>2. CASE Above(a) # {}
      BY <1>1, <2>1, <3>2, LeastOne
    <3> QED
      BY <3>1, <3>2
  <2> HIDE DEF Above
  <2> QED
    BY <2>2
<1> DEFINE l == L(a)
           h == H(a)
<1>6. \A b : Below(b) = Below(a) /\ Above(b) = Above(a) => Gap(rs, b) = Refused(l, h)
  <2> HIDE DEF Below, Above
  <2> QED
    BY <1>2
<1>7. l \in 0..a
  <2>1. \A z \in Below(a) : z \in 0..a
    BY <1>1, <1>3
  <2> HIDE DEF L, Below
  <2> QED
    BY <1>3, <1>4, <2>1
<1>8. h \in a..(RouterSize - 1)
  <2>1. \A z \in Above(a) : z \in a..(RouterSize - 1)
    BY <1>1, <1>3
  <2> HIDE DEF H, Above
  <2> QED
    BY <1>1, <1>3, <1>5, <2>1
<1>9. ASSUME NEW r \in rs, r.base + r.size <= a PROVE r.base + r.size <= l
  <2>1. r.base + r.size \in Below(a)
    BY <1>9
  <2> HIDE DEF L, Below
  <2> QED
    BY <1>4, <2>1
<1>10. ASSUME NEW r \in rs, a < r.base PROVE h < r.base
  <2>1. r.base - 1 \in Above(a)
    BY <1>10
  <2> HIDE DEF H, Above
  <2>2. h <= r.base - 1
    BY <1>5, <2>1
  <2> QED
    BY <1>1, <1>3, <1>8, <2>2
<1> HIDE DEF l, h, L, H
<1>11. \A r \in rs : r.base + r.size <= a \/ a < r.base
  <2> SUFFICES ASSUME NEW r \in rs PROVE r.base + r.size <= a \/ a < r.base
    OBVIOUS
  <2>1. ~In(r, a)
    OBVIOUS
  <2> QED
    BY <1>1, <1>3, <2>1 DEF In
<1>12. ASSUME NEW b \in l..h
       PROVE  /\ b \in Addresses /\ b < RouterSize
              /\ \A r \in rs : ~In(r, b)
              /\ Gap(rs, b) = Refused(l, h)
  <2>1. b \in 0..Top /\ b < RouterSize
    BY <1>1, <1>3, <1>7, <1>8
  <2>2. ASSUME NEW r \in rs
        PROVE  /\ (r.base + r.size <= b) = (r.base + r.size <= a)
               /\ (b < r.base) = (a < r.base)
               /\ ~In(r, b)
    <3>1. CASE r.base + r.size <= a
      <4>1. r.base + r.size <= l
        BY <1>9, <3>1
      <4> QED
        BY <1>1, <1>3, <1>7, <1>8, <3>1, <4>1 DEF In
    <3>2. CASE a < r.base
      <4>1. h < r.base
        BY <1>10, <3>2
      <4> QED
        BY <1>1, <1>3, <1>7, <1>8, <3>2, <4>1 DEF In
    <3> QED
      BY <1>11, <3>1, <3>2
  <2>3. Below(b) = Below(a) /\ Above(b) = Above(a)
    <3>1. {y \in rs : y.base + y.size <= b} = {y \in rs : y.base + y.size <= a}
      BY <2>2
    <3>2. {y \in rs : b < y.base} = {y \in rs : a < y.base}
      BY <2>2
    <3> QED
      BY <3>1, <3>2
  <2>4. Gap(rs, b) = Refused(l, h)
    BY <1>6, <2>3
  <2> QED
    BY <2>1, <2>2, <2>4 DEF Addresses
<1>13. A = Refused(l, h)
  BY <1>6
<1>14. A.start = l /\ A.end = h /\ A.granted = FALSE
  BY <1>13 DEF Refused, Range
<1>15. A \in Ranges
  <2>1. l \in Addresses /\ h \in Addresses /\ 0 \in 0..Top
    BY <1>1, <1>3, <1>7, <1>8 DEF Addresses
  <2> QED
    BY <1>13, <2>1 DEF Refused, Range, Ranges
<1>16. Contains(A, a)
  BY <1>3, <1>7, <1>8, <1>14 DEF Contains
<1> QED
  BY <1>12, <1>13, <1>14, <1>15, <1>16

(***************************************************************************)
(* What an initiator gets from the router: a range that holds the address, *)
(* that would be the answer for every other address it holds, and that is  *)
(* granted exactly if the word behind the address is, and leads to it.     *)
(***************************************************************************)
LEMMA AnswerFacts ==
  ASSUME NEW on \in BOOLEAN, NEW rs, rs \subseteq Mappings, Disjoint(rs),
         NEW words, NEW a \in Addresses,
         NEW A, A = Answer(on, rs, words, a)
  PROVE  /\ A \in Ranges
         /\ Contains(A, a)
         /\ \A b \in A.start..A.end : /\ Answer(on, rs, words, b) = A
                                      /\ Asks(on, rs, b) => Asks(on, rs, a)
         /\ A.granted => Asks(on, rs, a)
         /\ \A r \in rs : on /\ In(r, a) =>
               /\ A.granted <=> (a - r.base + r.offset) \in words
               /\ A.granted => A.word + (a - A.start) = a - r.base + r.offset
<1>1. /\ RouterSize \in Nat \ {0} /\ Top \in Nat /\ RouterSize <= Top
      /\ a \in 0..Top
      /\ \A r \in rs : /\ r.base \in Nat /\ r.size \in Nat \ {0}
                       /\ r.base + r.size <= RouterSize
  BY PathAssumption, MappingFacts DEF Addresses
<1>2. \A r \in rs, b \in Int : In(r, b) => b < RouterSize
  BY <1>1 DEF In
<1>3. ASSUME NEW r \in rs, NEW b \in Int, In(r, b)
      PROVE  MappingOf(rs, b) = r
  <2>1. \A q \in rs : In(q, b) => q = r
    <3> SUFFICES ASSUME NEW q \in rs, In(q, b), q # r PROVE FALSE
      OBVIOUS
    <3>1. ~Overlap(q, r)
      BY DEF Disjoint
    <3> QED
      BY <1>1, <1>3, <3>1 DEF Overlap, In
  <2> QED
    BY <1>3, <2>1 DEF MappingOf
<1>4. CASE ~on
  <2>1. \A b : Answer(on, rs, words, b) = Refused(0, Top) /\ ~Asks(on, rs, b)
    BY <1>4 DEF Answer, Asks
  <2>2. /\ A \in Ranges
        /\ A.start = 0 /\ A.end = Top /\ ~A.granted
    <3>1. 0 \in Addresses /\ Top \in Addresses
      BY <1>1 DEF Addresses
    <3> QED
      BY <2>1, <3>1, RefusedFacts
  <2>4. Contains(A, a)
    BY <1>1, <2>2 DEF Contains
  <2> QED
    BY <1>4, <2>1, <2>2, <2>4
<1>5. CASE on /\ a >= RouterSize
  <2>0. a >= RouterSize
    BY <1>5
  <2>1. \A b : b >= RouterSize => Answer(on, rs, words, b) = Refused(RouterSize, Top)
    BY <1>5 DEF Answer
  <2>2. /\ A \in Ranges
        /\ A.start = RouterSize /\ A.end = Top /\ ~A.granted
    <3>1. RouterSize \in Addresses /\ Top \in Addresses
      BY <1>1 DEF Addresses
    <3> QED
      BY <2>0, <2>1, <3>1, RefusedFacts
  <2>4. Contains(A, a)
    BY <1>1, <2>0, <2>2 DEF Contains
  <2>5. ASSUME NEW b \in A.start..A.end
        PROVE  Answer(on, rs, words, b) = A /\ ~Asks(on, rs, b)
    <3>1. b >= RouterSize /\ b \in Int
      BY <1>1, <2>2
    <3>2. ~(b < RouterSize)
      BY <1>1, <3>1
    <3> QED
      BY <1>5, <2>1, <3>1, <3>2 DEF Asks
  <2>6. \A r \in rs : ~In(r, a)
    BY <1>1, <1>2, <2>0
  <2> QED
    BY <2>2, <2>4, <2>5, <2>6
<1>6. CASE on /\ a < RouterSize /\ \E r \in rs : In(r, a)
  <2>1. PICK r \in rs : In(r, a)
    BY <1>6
  <2>2. ASSUME NEW b \in Int, In(r, b)
        PROVE  /\ Asks(on, rs, b)
               /\ Answer(on, rs, words, b)
                    = Clipped(r, MemoryAnswer(words, b - r.base + r.offset))
    <3>1. b < RouterSize /\ ~(b >= RouterSize)
      BY <1>1, <1>2, <2>2
    <3>2. MappingOf(rs, b) = r
      BY <1>3, <2>2
    <3>3. Asks(on, rs, b)
      BY <1>6, <2>2, <3>1 DEF Asks
    <3> QED
      BY <1>6, <3>1, <3>2, <3>3 DEF Answer
  <2>3. PICK w : w = a - r.base + r.offset
    OBVIOUS
  <2>4. A = Clipped(r, MemoryAnswer(words, w)) /\ Asks(on, rs, a)
    BY <1>1, <2>1, <2>2, <2>3
  <2>5. /\ A \in Ranges
        /\ Contains(A, a)
        /\ A.granted <=> w \in words
        /\ A.granted => A.word + (a - A.start) = w
        /\ \A b \in A.start..A.end :
              /\ In(r, b)
              /\ MemoryAnswer(words, b - r.base + r.offset) = MemoryAnswer(words, w)
    <3>1. r \in Mappings
      BY <2>1
    <3> QED
      BY <2>1, <2>3, <2>4, <3>1, ClippedFacts
  <2>6. ASSUME NEW b \in A.start..A.end PROVE Answer(on, rs, words, b) = A
    <3>1. In(r, b)
      BY <2>5
    <3>2. b \in Int
      BY <2>5 DEF Ranges, Addresses
    <3> QED
      BY <2>2, <2>4, <2>5, <3>1, <3>2
  <2>7. ASSUME NEW q \in rs, In(q, a) PROVE q = r
    BY <1>1, <1>3, <2>1, <2>7
  <2> QED
    BY <2>3, <2>4, <2>5, <2>6, <2>7
<1>7. CASE on /\ a < RouterSize /\ ~(\E r \in rs : In(r, a))
  <2>0. a \in Int /\ a < RouterSize /\ \A r \in rs : ~In(r, a)
    BY <1>1, <1>7
  <2>1. ASSUME NEW b \in Int, b < RouterSize, \A r \in rs : ~In(r, b)
        PROVE  Answer(on, rs, words, b) = Gap(rs, b) /\ ~Asks(on, rs, b)
    <3>1. ~(b >= RouterSize)
      BY <1>1, <2>1
    <3> QED
      BY <1>7, <2>1, <3>1 DEF Answer, Asks
  <2>2. A = Gap(rs, a)
    BY <2>0, <2>1
  <2>3. /\ A \in Ranges /\ ~A.granted
        /\ Contains(A, a)
        /\ \A b \in A.start..A.end : /\ b \in Addresses /\ b < RouterSize
                                     /\ \A r \in rs : ~In(r, b)
                                     /\ Gap(rs, b) = A
    BY <2>0, <2>2, GapFacts
  <2>4. ASSUME NEW b \in A.start..A.end
        PROVE  Answer(on, rs, words, b) = A /\ ~Asks(on, rs, b)
    <3>1. /\ b < RouterSize /\ \A r \in rs : ~In(r, b)
          /\ Gap(rs, b) = A
      BY <2>3
    <3>2. b \in Int
      BY <2>3 DEF Ranges, Addresses
    <3> QED
      BY <2>1, <3>1, <3>2
  <2> QED
    BY <1>7, <2>3, <2>4
<1> QED
  <2>1. a < RouterSize \/ a >= RouterSize
    BY <1>1
  <2> QED
    BY <1>4, <1>5, <1>6, <1>7, <2>1

\* An answer depends on what the memory grants only through the mappings that
\* reach the memory.
LEMMA AnswerIgnoresWords ==
  ASSUME NEW on \in BOOLEAN, NEW rs, rs \subseteq Mappings,
         NEW words, words \subseteq MemoryWords,
         NEW others, others \subseteq MemoryWords,
         NEW a \in Addresses, on => \A r \in rs : In(r, a) => ~Forwards(r)
  PROVE  Answer(on, rs, words, a) = Answer(on, rs, others, a)
<1>1. CASE Asks(on, rs, a)
  <2> DEFINE r == MappingOf(rs, a)
  <2>1. r \in rs /\ In(r, a)
    BY <1>1 DEF Asks, MappingOf
  <2> HIDE DEF r
  <2>2. r \in Mappings /\ ~Forwards(r)
    BY <1>1, <2>1 DEF Asks
  <2>3. Clipped(r, MemoryAnswer(words, a - r.base + r.offset))
          = Clipped(r, MemoryAnswer(others, a - r.base + r.offset))
    BY <2>1, <2>2, BeyondTheMemory
  <2> QED
    BY <2>3 DEF Answer, r
<1>2. CASE ~Asks(on, rs, a)
  BY <1>2 DEF Answer
<1> QED
  BY <1>1, <1>2

-----------------------------------------------------------------------------
(***************************************************************************)
(* What a handler remembers of one kind of access while it may use direct  *)
(* accesses: what the router would answer now, in ranges that do not meet; *)
(* and the memory knows that it is in use if it was asked.                 *)
(***************************************************************************)
Apart(p, q) == p.end < q.start \/ q.end < p.start

IsCurrent(on, rs, words, inUse, range) ==
    /\ range.start <= range.end
    /\ \A a \in range.start..range.end :
          /\ Answer(on, rs, words, a) = range
          /\ on => \A r \in rs : In(r, a) /\ Forwards(r) => inUse

AllCurrent(on, rs, words, inUse, list) ==
    /\ \A i \in 1..Len(list) : IsCurrent(on, rs, words, inUse, list[i])
    /\ \A i, j \in 1..Len(list) : i # j => Apart(list[i], list[j])

LEMMA Joined ==
  ASSUME NEW S, NEW s \in Seq(S), NEW t \in Seq(S)
  PROVE  /\ s \o t \in Seq(S) /\ Len(s \o t) = Len(s) + Len(t)
         /\ \A j \in 1..Len(s) : (s \o t)[j] = s[j]
         /\ \A j \in 1..(Len(s) + Len(t)) : j > Len(s) => (s \o t)[j] = t[j - Len(s)]
  OBVIOUS

Moved(list, i) == << list[i] >> \o SubSeq(list, 1, i - 1)
                                \o SubSeq(list, i + 1, Len(list))

From(i, j) == IF j = 1 THEN i ELSE IF j <= i THEN j - 1 ELSE j

LEMMA MovedFacts ==
  ASSUME NEW S, NEW list \in Seq(S), NEW i \in 1..Len(list)
  PROVE  /\ Moved(list, i) \in Seq(S) /\ Len(Moved(list, i)) = Len(list)
         /\ \A j \in 1..Len(list) : Moved(list, i)[j] = list[From(i, j)]
<1> DEFINE one   == << list[i] >>
           left  == SubSeq(list, 1, i - 1)
           front == one \o left
           back  == SubSeq(list, i + 1, Len(list))
           whole == front \o back
<1>1. Len(list) \in Nat /\ i \in 1..Len(list) /\ list[i] \in S
  OBVIOUS
<1>2. one \in Seq(S) /\ Len(one) = 1 /\ one[1] = list[i]
  BY <1>1
<1>3. /\ left \in Seq(S) /\ Len(left) = i - 1
      /\ \A j \in 1..(i - 1) : left[j] = list[j]
  BY <1>1
<1>4. /\ back \in Seq(S) /\ Len(back) = Len(list) - i
      /\ \A j \in 1..(Len(list) - i) : back[j] = list[i + j]
  BY <1>1
<1> HIDE DEF one, left, back
<1>5. /\ front \in Seq(S) /\ Len(front) = i
      /\ front[1] = list[i]
      /\ \A j \in 2..i : front[j] = list[j - 1]
  <2>1. /\ front \in Seq(S) /\ Len(front) = 1 + (i - 1)
        /\ \A j \in 1..1 : front[j] = one[j]
        /\ \A j \in 1..(1 + (i - 1)) : j > 1 => front[j] = left[j - 1]
    <3>1. /\ front \in Seq(S) /\ Len(front) = Len(one) + Len(left)
          /\ \A j \in 1..Len(one) : front[j] = one[j]
          /\ \A j \in 1..(Len(one) + Len(left)) :
                j > Len(one) => front[j] = left[j - Len(one)]
      <4>1. one \in Seq(S) /\ left \in Seq(S)
        BY <1>2, <1>3
      <4> QED
        BY <4>1, Joined
    <3> HIDE DEF front
    <3>2. Len(one) = 1 /\ Len(left) = i - 1
      BY <1>2, <1>3
    <3> QED
      BY <3>1, <3>2
  <2> HIDE DEF front
  <2>2. ASSUME NEW j \in 2..i PROVE front[j] = list[j - 1]
    <3>1. j \in 1..(1 + (i - 1)) /\ j > 1 /\ j - 1 \in 1..(i - 1)
      BY <1>1
    <3> QED
      BY <1>3, <2>1, <3>1
  <2>3. 1 \in 1..1 /\ 1 + (i - 1) = i
    BY <1>1
  <2> QED
    BY <1>2, <2>1, <2>2, <2>3
<1> HIDE DEF front
<1>6. /\ whole \in Seq(S) /\ Len(whole) = i + (Len(list) - i)
      /\ \A j \in 1..i : whole[j] = front[j]
      /\ \A j \in 1..(i + (Len(list) - i)) : j > i => whole[j] = back[j - i]
  <2>1. /\ whole \in Seq(S) /\ Len(whole) = Len(front) + Len(back)
        /\ \A j \in 1..Len(front) : whole[j] = front[j]
        /\ \A j \in 1..(Len(front) + Len(back)) :
              j > Len(front) => whole[j] = back[j - Len(front)]
    <3>1. front \in Seq(S) /\ back \in Seq(S)
      BY <1>4, <1>5
    <3> QED
      BY <3>1, Joined
  <2> HIDE DEF whole
  <2>2. Len(front) = i /\ Len(back) = Len(list) - i
    BY <1>4, <1>5
  <2> QED
    BY <2>1, <2>2
<1> HIDE DEF whole
<1>7. ASSUME NEW j \in 1..Len(list) PROVE whole[j] = list[From(i, j)]
  <2>1. CASE j = 1
    <3>1. 1 \in 1..i
      BY <1>1
    <3> QED
      BY <1>5, <1>6, <2>1, <3>1 DEF From
  <2>2. CASE j # 1 /\ j <= i
    <3>1. j \in 1..i /\ j \in 2..i
      BY <1>1, <2>2
    <3>2. whole[j] = list[j - 1]
      BY <1>5, <1>6, <3>1
    <3> QED
      BY <2>2, <3>2 DEF From
  <2>3. CASE j > i
    <3>1. /\ j \in 1..(i + (Len(list) - i)) /\ j - i \in 1..(Len(list) - i)
          /\ i + (j - i) = j /\ j # 1 /\ ~(j <= i)
      BY <1>1, <2>3
    <3>2. whole[j] = back[j - i]
      BY <1>6, <2>3, <3>1
    <3>3. back[j - i] = list[i + (j - i)]
      BY <1>4, <3>1
    <3> QED
      BY <3>1, <3>2, <3>3 DEF From
  <2> QED
    BY <1>1, <2>1, <2>2, <2>3
<1>8. whole \in Seq(S) /\ Len(whole) = Len(list)
  BY <1>1, <1>6
<1>9. Moved(list, i) = whole
  BY DEF Moved, whole, front, one, left, back
<1> QED
  BY <1>7, <1>8, <1>9

LEMMA OnlyOne ==
  ASSUME NEW S, NEW x \in S
  PROVE  Moved(<< x >>, 1) = << x >>
<1> DEFINE list == << x >>
<1>1. list \in Seq(S) /\ Len(list) = 1 /\ 1 \in 1..Len(list) /\ list[1] = x
  OBVIOUS
<1>2. From(1, 1) = 1
  BY DEF From
<1> HIDE DEF list
<1>3. /\ Moved(list, 1) \in Seq(S) /\ Len(Moved(list, 1)) = 1
      /\ Moved(list, 1)[1] = x
  BY <1>1, <1>2, MovedFacts
<1>4. ASSUME NEW s \in Seq(S), Len(s) = 1, s[1] = x PROVE s = << x >>
  BY <1>4
<1> QED
  BY <1>3, <1>4 DEF list

LEMMA MovedIsCurrent ==
  ASSUME NEW on, NEW rs, NEW words, NEW inUse,
         NEW list \in Seq(Ranges), NEW i \in 1..Len(list),
         AllCurrent(on, rs, words, inUse, list)
  PROVE  AllCurrent(on, rs, words, inUse, Moved(list, i))
<1>1. /\ Len(Moved(list, i)) = Len(list) /\ Len(list) \in Nat
      /\ \A j \in 1..Len(list) : Moved(list, i)[j] = list[From(i, j)]
  BY MovedFacts
<1>2. ASSUME NEW j \in 1..Len(list)
      PROVE  From(i, j) \in 1..Len(list)
  BY <1>1 DEF From
<1>3. ASSUME NEW j \in 1..Len(list), NEW k \in 1..Len(list), j # k
      PROVE  From(i, j) # From(i, k)
  BY <1>1, <1>3 DEF From
<1>4. \A j \in 1..Len(list) : IsCurrent(on, rs, words, inUse, Moved(list, i)[j])
  BY <1>1, <1>2 DEF AllCurrent
<1>5. ASSUME NEW j \in 1..Len(list), NEW k \in 1..Len(list), j # k
      PROVE  Apart(Moved(list, i)[j], Moved(list, i)[k])
  <2>1. /\ From(i, j) \in 1..Len(list) /\ From(i, k) \in 1..Len(list)
        /\ From(i, j) # From(i, k)
    BY <1>2, <1>3, <1>5
  <2>2. Apart(list[From(i, j)], list[From(i, k)])
    BY <2>1 DEF AllCurrent
  <2> QED
    BY <1>1, <2>2
<1> QED
  BY <1>1, <1>4, <1>5 DEF AllCurrent

LEMMA LoadedIsCurrent ==
  ASSUME NEW on \in BOOLEAN, NEW rs, rs \subseteq Mappings, Disjoint(rs),
         NEW words, NEW list \in Seq(Ranges), NEW a \in Addresses,
         NEW inUse \in BOOLEAN, NEW now \in BOOLEAN,
         now <=> inUse \/ Asks(on, rs, a),
         AllCurrent(on, rs, words, inUse, list),
         \A i \in 1..Len(list) : ~Contains(list[i], a),
         NEW A, A = Answer(on, rs, words, a)
  PROVE  /\ << A >> \o list \in Seq(Ranges)
         /\ AllCurrent(on, rs, words, now, << A >> \o list)
<1>1. Top \in Nat /\ RouterSize \in Nat /\ a \in 0..Top
  BY PathAssumption DEF Addresses
<1>2. /\ A \in Ranges /\ Contains(A, a)
      /\ \A b \in A.start..A.end : /\ Answer(on, rs, words, b) = A
                                   /\ Asks(on, rs, b) => Asks(on, rs, a)
  BY AnswerFacts
<1>3. /\ A.start \in 0..Top /\ A.end \in 0..Top
      /\ A.start <= a /\ a <= A.end
  BY <1>2 DEF Ranges, Addresses, Contains
<1>4. IsCurrent(on, rs, words, now, A)
  <2>1. ASSUME NEW b \in A.start..A.end, on, NEW r \in rs, In(r, b)
        PROVE  now
    <3>1. b < RouterSize
      <4>1. r.base \in Nat /\ r.size \in Nat /\ r.base + r.size <= RouterSize
        BY MappingFacts
      <4> QED
        BY <1>1, <1>3, <2>1, <4>1 DEF In
    <3>2. Asks(on, rs, b)
      BY <2>1, <3>1 DEF Asks
    <3> QED
      BY <1>2, <3>2
  <2>2. A.start <= A.end
    BY <1>1, <1>3
  <2> QED
    BY <1>2, <2>1, <2>2 DEF IsCurrent
<1>5. ASSUME NEW i \in 1..Len(list)
      PROVE  /\ IsCurrent(on, rs, words, now, list[i])
             /\ Apart(list[i], A) /\ Apart(A, list[i])
  <2>1. IsCurrent(on, rs, words, inUse, list[i])
    BY DEF AllCurrent
  <2>2. /\ list[i].start \in 0..Top /\ list[i].end \in 0..Top
        /\ list[i].start <= list[i].end
    <3>1. list[i] \in Ranges
      OBVIOUS
    <3> QED
      BY <2>1, <3>1 DEF IsCurrent, Ranges, Addresses
  <2>3. ASSUME NEW c \in list[i].start..list[i].end, c \in A.start..A.end
        PROVE  FALSE
    <3>1. Answer(on, rs, words, c) = list[i] /\ Answer(on, rs, words, c) = A
      BY <1>2, <2>1, <2>3 DEF IsCurrent
    <3> QED
      BY <1>2, <3>1
  <2>4. A.end < list[i].start \/ list[i].end < A.start
    <3> SUFFICES ASSUME list[i].start <= A.end, A.start <= list[i].end PROVE FALSE
      BY <1>1, <1>3, <2>2
    <3>1. CASE list[i].start <= A.start
      <4>1. A.start \in list[i].start..list[i].end /\ A.start \in A.start..A.end
        BY <1>1, <1>3, <2>2, <3>1
      <4> QED
        BY <2>3, <4>1
    <3>2. CASE A.start < list[i].start
      <4>1. list[i].start \in list[i].start..list[i].end
            /\ list[i].start \in A.start..A.end
        BY <1>1, <1>3, <2>2, <3>2
      <4> QED
        BY <2>3, <4>1
    <3> QED
      BY <1>1, <1>3, <2>2, <3>1, <3>2
  <2>5. IsCurrent(on, rs, words, now, list[i])
    BY <2>1 DEF IsCurrent
  <2> QED
    BY <2>4, <2>5 DEF Apart
<1> DEFINE longer == << A >> \o list
<1>6. /\ longer \in Seq(Ranges)
      /\ Len(longer) = Len(list) + 1 /\ Len(list) \in Nat
      /\ longer[1] = A
      /\ \A i \in 2..(Len(list) + 1) : longer[i] = list[i - 1] /\ i - 1 \in 1..Len(list)
  BY <1>2
<1> HIDE DEF longer
<1>7. \A i \in 1..Len(longer) : IsCurrent(on, rs, words, now, longer[i])
  <2> SUFFICES ASSUME NEW i \in 1..Len(longer)
               PROVE  IsCurrent(on, rs, words, now, longer[i])
    OBVIOUS
  <2>1. i = 1 \/ i \in 2..(Len(list) + 1)
    BY <1>6
  <2> QED
    BY <1>4, <1>5, <1>6, <2>1
<1>8. \A i, j \in 1..Len(longer) : i # j => Apart(longer[i], longer[j])
  <2> SUFFICES ASSUME NEW i \in 1..Len(longer), NEW j \in 1..Len(longer), i # j
               PROVE  Apart(longer[i], longer[j])
    OBVIOUS
  <2>1. /\ i = 1 \/ i \in 2..(Len(list) + 1)
        /\ j = 1 \/ j \in 2..(Len(list) + 1)
    BY <1>6
  <2>2. CASE i = 1
    BY <1>5, <1>6, <2>1, <2>2
  <2>3. CASE j = 1
    BY <1>5, <1>6, <2>1, <2>3
  <2>4. CASE i # 1 /\ j # 1
    <3>1. /\ longer[i] = list[i - 1] /\ i - 1 \in 1..Len(list)
          /\ longer[j] = list[j - 1] /\ j - 1 \in 1..Len(list)
      BY <1>6, <2>1, <2>4
    <3>2. i - 1 # j - 1
      OBVIOUS
    <3> QED
      BY <3>1, <3>2 DEF AllCurrent
  <2> QED
    BY <2>2, <2>3, <2>4
<1> QED
  BY <1>6, <1>7, <1>8 DEF AllCurrent, longer

\* The memory may grant other words without a word to a handler that remembers
\* nothing of it, or if nothing of it is mapped.
LEMMA OtherWordsStayCurrent ==
  ASSUME NEW on \in BOOLEAN, NEW rs, rs \subseteq Mappings,
         NEW words, words \subseteq MemoryWords,
         NEW others, others \subseteq MemoryWords,
         NEW inUse \in BOOLEAN,
         NEW list \in Seq(Ranges),
         AllCurrent(on, rs, words, inUse, list),
         inUse => \A r \in rs : ~Forwards(r)
  PROVE  AllCurrent(on, rs, others, FALSE, list)
<1>1. Top \in Nat
  BY PathAssumption
<1>2. ASSUME NEW i \in 1..Len(list)
      PROVE  IsCurrent(on, rs, others, FALSE, list[i])
  <2>1. IsCurrent(on, rs, words, inUse, list[i])
    BY DEF AllCurrent
  <2>2. list[i] \in Ranges
    OBVIOUS
  <2>3. ASSUME NEW a \in list[i].start..list[i].end
        PROVE  /\ Answer(on, rs, others, a) = list[i]
               /\ on => \A r \in rs : In(r, a) => ~Forwards(r)
    <3>1. a \in Addresses
      BY <1>1, <2>2 DEF Ranges, Addresses
    <3>2. on => \A r \in rs : In(r, a) => ~Forwards(r)
      BY <2>1 DEF IsCurrent
    <3>3. Answer(on, rs, words, a) = Answer(on, rs, others, a)
      BY <3>1, <3>2, AnswerIgnoresWords
    <3> QED
      BY <2>1, <3>2, <3>3 DEF IsCurrent
  <2> QED
    BY <2>1, <2>3 DEF IsCurrent
<1> QED
  BY <1>2 DEF AllCurrent

-----------------------------------------------------------------------------
(***************************************************************************)
(* The inductive invariant: a handler that may use direct accesses         *)
(* remembers what is current, and the router and the memory know of it; a  *)
(* handler that may not remembers one refusal of every address.            *)
(***************************************************************************)
MayUse(h) == dmiEnabled[h] /\ dmiAllowed

Remembered(h, k) ==
    IF MayUse(h)
    THEN /\ AllCurrent(routerEnabled, mapped[k], grantable[k], memoryInUse,
                       ranges[h][k])
         /\ ranges[h][k] # << >> => routerInUse
    ELSE ranges[h][k] = << Refused(0, Top) >>

Types ==
    /\ dmiAllowed \in BOOLEAN
    /\ dmiEnabled \in [Handlers -> BOOLEAN]
    /\ ranges \in [Handlers -> [Kinds -> Seq(Ranges)]]
    /\ mapped \in [Kinds -> SUBSET Mappings]
    /\ routerEnabled \in BOOLEAN /\ routerInUse \in BOOLEAN
    /\ grantable \in [Kinds -> SUBSET MemoryWords]
    /\ memoryInUse \in BOOLEAN
    /\ table \in [Kinds -> SUBSET MemoryWords]

TableIsCurrent == memoryInUse => table = grantable
MappingsAreApart == \A k \in Kinds : Disjoint(mapped[k])
AllRemembered == \A h \in Handlers, k \in Kinds : Remembered(h, k)

IInv == Types /\ TableIsCurrent /\ MappingsAreApart /\ AllRemembered

LEMMA RefusesAll ==
  /\ Refused(0, Top) \in Ranges
  /\ Refused(0, Top).start = 0 /\ Refused(0, Top).end = Top
  /\ ~Refused(0, Top).granted
<1>1. 0 \in Addresses /\ Top \in Addresses
  BY PathAssumption DEF Addresses
<1> QED
  BY <1>1, RefusedFacts

LEMMA ForgottenFacts ==
  ASSUME NEW enabled \in BOOLEAN, NEW allowed \in BOOLEAN
  PROVE  /\ Forgotten(enabled, allowed) \in [Kinds -> Seq(Ranges)]
         /\ \A k \in Kinds : Forgotten(enabled, allowed)[k] =
               IF enabled /\ allowed THEN << >> ELSE << Refused(0, Top) >>
<1>1. << >> \in Seq(Ranges) /\ << Refused(0, Top) >> \in Seq(Ranges)
  BY RefusesAll
<1>2. CASE enabled /\ allowed
  BY <1>1, <1>2 DEF Forgotten
<1>3. CASE ~(enabled /\ allowed)
  BY <1>1, <1>3 DEF Forgotten
<1> QED
  BY <1>2, <1>3

LEMMA NothingIsCurrent ==
  ASSUME NEW on, NEW rs, NEW words, NEW inUse
  PROVE  AllCurrent(on, rs, words, inUse, << >>)
  BY DEF AllCurrent

\* Who was told to forget remembers what he should, whatever else changed.
LEMMA ForgottenIsRemembered ==
  ASSUME dmiAllowed' \in BOOLEAN, dmiEnabled' \in [Handlers -> BOOLEAN],
         NEW h \in Handlers, NEW k \in Kinds,
         ranges'[h] = Forgotten(dmiEnabled'[h], dmiAllowed')
  PROVE  Remembered(h, k)'
<1>1. ranges'[h][k] = IF MayUse(h)' THEN << >> ELSE << Refused(0, Top) >>
  BY ForgottenFacts DEF MayUse
<1>2. CASE MayUse(h)'
  <2>1. ranges'[h][k] = << >>
    BY <1>1, <1>2
  <2> QED
    BY <1>2, <2>1, NothingIsCurrent DEF Remembered
<1>3. CASE ~MayUse(h)'
  BY <1>1, <1>3 DEF Remembered
<1> QED
  BY <1>2, <1>3

LEMMA AllForgetFacts ==
  ASSUME IInv, AllForget, UNCHANGED << dmiAllowed, dmiEnabled >>
  PROVE  /\ ranges' \in [Handlers -> [Kinds -> Seq(Ranges)]]
         /\ AllRemembered'
<1>1. /\ dmiAllowed' \in BOOLEAN /\ dmiEnabled' \in [Handlers -> BOOLEAN]
      /\ \A h \in Handlers : ranges'[h] = Forgotten(dmiEnabled'[h], dmiAllowed')
  BY DEF IInv, Types, AllForget
<1>2. ranges' \in [Handlers -> [Kinds -> Seq(Ranges)]]
  <2>1. \A h \in Handlers : Forgotten(dmiEnabled[h], dmiAllowed) \in [Kinds -> Seq(Ranges)]
    BY ForgottenFacts DEF IInv, Types
  <2> QED
    BY <2>1 DEF AllForget
<1>3. AllRemembered'
  BY <1>1, ForgottenIsRemembered DEF AllRemembered
<1> QED
  BY <1>2, <1>3

\* When the router does not pass the invalidation on, there is nothing to
\* forget.
LEMMA RouterInvalidatesFacts ==
  ASSUME IInv, RouterInvalidates, UNCHANGED << dmiAllowed, dmiEnabled >>
  PROVE  /\ ranges' \in [Handlers -> [Kinds -> Seq(Ranges)]]
         /\ routerInUse' \in BOOLEAN
         /\ AllRemembered'
<1>1. CASE routerInUse
  <2>1. AllForget /\ routerInUse' = FALSE
    BY <1>1 DEF RouterInvalidates
  <2> QED
    BY <2>1, AllForgetFacts
<1>2. CASE ~routerInUse
  <2>1. ranges' = ranges /\ routerInUse' = routerInUse
    BY <1>2 DEF RouterInvalidates
  <2>2. ASSUME NEW h \in Handlers, NEW k \in Kinds PROVE Remembered(h, k)'
    <3>1. Remembered(h, k)
      BY DEF IInv, AllRemembered
    <3>2. CASE MayUse(h)
      <4>1. ranges'[h][k] = << >>
        BY <1>2, <2>1, <3>1, <3>2 DEF Remembered
      <4>2. MayUse(h)'
        BY <3>2 DEF MayUse
      <4> QED
        BY <4>1, <4>2, NothingIsCurrent DEF Remembered
    <3>3. CASE ~MayUse(h)
      <4>1. ~MayUse(h)'
        BY <3>3 DEF MayUse
      <4> QED
        BY <2>1, <3>1, <3>3, <4>1 DEF Remembered
    <3> QED
      BY <3>2, <3>3
  <2> QED
    BY <2>1, <2>2 DEF IInv, Types, AllRemembered
<1> QED
  BY <1>1, <1>2

-----------------------------------------------------------------------------
(***************************************************************************)
(* Every action keeps the invariant.                                       *)
(***************************************************************************)
LEMMA InitHolds == Init => IInv
<1> SUFFICES ASSUME Init PROVE IInv
  OBVIOUS
<1>1. Types
  <2>1. << >> \in Seq(Ranges)
    OBVIOUS
  <2>2. ranges \in [Handlers -> [Kinds -> Seq(Ranges)]]
    BY <2>1 DEF Init
  <2> QED
    BY <2>2 DEF Init, Types
<1>2. TableIsCurrent
  BY DEF Init, TableIsCurrent
<1>3. MappingsAreApart
  BY DEF Init, MappingsAreApart, Disjoint
<1>4. AllRemembered
  <2> SUFFICES ASSUME NEW h \in Handlers, NEW k \in Kinds PROVE Remembered(h, k)
    BY DEF AllRemembered
  <2>1. MayUse(h) /\ ranges[h][k] = << >>
    BY DEF Init, MayUse
  <2> QED
    BY <2>1, NothingIsCurrent DEF Remembered
<1> QED
  BY <1>1, <1>2, <1>3, <1>4 DEF IInv

LEMMA RecallKeeps ==
  ASSUME IInv, NEW h \in Handlers, NEW k \in Kinds, NEW a \in Addresses,
         Recall(h, k, a)
  PROVE  IInv'
<1>1. PICK i \in DOMAIN ranges[h][k] :
         /\ ranges' = [ranges EXCEPT ![h][k] = Moved(ranges[h][k], i)]
         /\ UNCHANGED << dmiAllowed, dmiEnabled, routerVars, memoryVars >>
  BY DEF Recall, Moved
<1>2. /\ ranges \in [Handlers -> [Kinds -> Seq(Ranges)]]
      /\ ranges[h][k] \in Seq(Ranges)
      /\ i \in 1..Len(ranges[h][k])
  BY <1>1 DEF IInv, Types
<1>3. /\ Moved(ranges[h][k], i) \in Seq(Ranges)
      /\ Len(Moved(ranges[h][k], i)) = Len(ranges[h][k])
  BY <1>2, MovedFacts
<1>4. Types'
  <2>1. ranges' \in [Handlers -> [Kinds -> Seq(Ranges)]]
    BY <1>1, <1>2, <1>3
  <2> QED
    BY <1>1, <2>1 DEF IInv, Types, routerVars, memoryVars
<1>5. TableIsCurrent' /\ MappingsAreApart'
  BY <1>1 DEF IInv, TableIsCurrent, MappingsAreApart, routerVars, memoryVars
<1>6. ASSUME NEW g \in Handlers, NEW l \in Kinds PROVE Remembered(g, l)'
  <2>1. Remembered(g, l)
    BY DEF IInv, AllRemembered
  <2>2. CASE g = h /\ l = k
    <3>1. ranges'[g][l] = Moved(ranges[g][l], i)
      BY <1>1, <1>2, <2>2
    <3>2. CASE MayUse(g)
      <4>1. AllCurrent(routerEnabled, mapped[l], grantable[l], memoryInUse,
                       ranges'[g][l])
        BY <1>2, <2>1, <2>2, <3>1, <3>2, MovedIsCurrent DEF Remembered
      <4>2. ranges[g][l] # << >> /\ routerInUse
        BY <1>2, <2>1, <2>2, <3>2 DEF Remembered
      <4>3. MayUse(g)'
        BY <1>1, <3>2 DEF MayUse
      <4> QED
        BY <1>1, <4>1, <4>2, <4>3 DEF Remembered, routerVars, memoryVars
    <3>3. CASE ~MayUse(g)
      <4>1. ranges[g][l] = << Refused(0, Top) >>
        BY <2>1, <3>3 DEF Remembered
      <4>2. i = 1
        BY <1>2, <2>2, <4>1
      <4>3. Moved(<< Refused(0, Top) >>, 1) = << Refused(0, Top) >>
        BY OnlyOne, RefusesAll
      <4>4. ~MayUse(g)'
        BY <1>1, <3>3 DEF MayUse
      <4> QED
        BY <3>1, <4>1, <4>2, <4>3, <4>4 DEF Remembered
    <3> QED
      BY <3>2, <3>3
  <2>3. CASE ~(g = h /\ l = k)
    <3>1. ranges'[g][l] = ranges[g][l]
      BY <1>1, <1>2, <2>3
    <3> QED
      BY <1>1, <2>1, <3>1 DEF Remembered, MayUse, routerVars, memoryVars
  <2> QED
    BY <2>2, <2>3
<1> QED
  BY <1>4, <1>5, <1>6 DEF IInv, AllRemembered

LEMMA LoadKeeps ==
  ASSUME IInv, NEW h \in Handlers, NEW k \in Kinds, NEW a \in Addresses,
         Load(h, k, a)
  PROVE  IInv'
<1> DEFINE asked == AsksMemory(k, a)
           A == Answer(routerEnabled, mapped[k], grantable[k], a)
<1>1. IF memoryInUse THEN table = grantable ELSE TRUE
  BY DEF IInv, TableIsCurrent
<1>2. (IF memoryInUse THEN table ELSE grantable) = grantable
  BY <1>1
<1>3. /\ \A i \in DOMAIN ranges[h][k] : ~Contains(ranges[h][k][i], a)
      /\ ranges' = [ranges EXCEPT ![h][k] = << A >> \o ranges[h][k]]
      /\ routerInUse' = TRUE
      /\ table' = IF asked THEN grantable ELSE table
      /\ memoryInUse' = (memoryInUse \/ asked)
      /\ UNCHANGED << dmiAllowed, dmiEnabled, mapped, routerEnabled, grantable >>
  BY <1>2, RouterAnswers DEF Load
<1>4. /\ ranges \in [Handlers -> [Kinds -> Seq(Ranges)]]
      /\ ranges[h][k] \in Seq(Ranges)
      /\ routerEnabled \in BOOLEAN /\ memoryInUse \in BOOLEAN
      /\ mapped[k] \subseteq Mappings /\ Disjoint(mapped[k])
      /\ Remembered(h, k)
  BY DEF IInv, Types, MappingsAreApart, AllRemembered
<1>5. asked = Asks(routerEnabled, mapped[k], a) /\ asked \in BOOLEAN
  BY RouterAnswers DEF AsksMemory
<1> HIDE DEF asked
<1>6. /\ memoryInUse' \in BOOLEAN
      /\ memoryInUse' <=> memoryInUse \/ Asks(routerEnabled, mapped[k], a)
  BY <1>3, <1>4, <1>5
<1>7. ASSUME ~MayUse(h) PROVE FALSE
  <2>1. ranges[h][k] = << Refused(0, Top) >>
    BY <1>4, <1>7 DEF Remembered
  <2>2. 1 \in DOMAIN ranges[h][k] /\ ranges[h][k][1] = Refused(0, Top)
    BY <2>1
  <2>3. Contains(Refused(0, Top), a)
    BY RefusesAll, PathAssumption DEF Contains, Addresses
  <2> QED
    BY <1>3, <2>2, <2>3
<1>8. AllCurrent(routerEnabled, mapped[k], grantable[k], memoryInUse, ranges[h][k])
  BY <1>4, <1>7 DEF Remembered
<1>9. \A i \in 1..Len(ranges[h][k]) : ~Contains(ranges[h][k][i], a)
  BY <1>3, <1>4
<1>10. /\ << A >> \o ranges[h][k] \in Seq(Ranges)
       /\ AllCurrent(routerEnabled, mapped[k], grantable[k], memoryInUse',
                     << A >> \o ranges[h][k])
  BY <1>4, <1>6, <1>8, <1>9, LoadedIsCurrent
<1> HIDE DEF A
<1>11. Types'
  <2>1. ranges' \in [Handlers -> [Kinds -> Seq(Ranges)]]
    BY <1>3, <1>4, <1>10
  <2>2. table' \in [Kinds -> SUBSET MemoryWords]
    BY <1>3 DEF IInv, Types
  <2> QED
    BY <1>3, <1>6, <2>1, <2>2 DEF IInv, Types
<1>12. TableIsCurrent' /\ MappingsAreApart'
  BY <1>1, <1>3 DEF IInv, TableIsCurrent, MappingsAreApart
<1>13. ASSUME NEW g \in Handlers, NEW l \in Kinds PROVE Remembered(g, l)'
  <2>1. Remembered(g, l) /\ MayUse(g)' = MayUse(g)
    BY <1>3 DEF IInv, AllRemembered, MayUse
  <2>2. CASE g = h /\ l = k
    <3>1. ranges'[g][l] = << A >> \o ranges[h][k]
      BY <1>3, <1>4, <2>2
    <3> QED
      BY <1>3, <1>7, <1>10, <2>1, <2>2, <3>1 DEF Remembered
  <2>3. CASE ~(g = h /\ l = k)
    <3>1. ranges'[g][l] = ranges[g][l]
      BY <1>3, <1>4, <2>3
    <3>2. ASSUME MayUse(g)
          PROVE  AllCurrent(routerEnabled, mapped[l], grantable[l], memoryInUse',
                            ranges[g][l])
      <4>1. AllCurrent(routerEnabled, mapped[l], grantable[l], memoryInUse, ranges[g][l])
        BY <2>1, <3>2 DEF Remembered
      <4> QED
        BY <1>6, <4>1 DEF AllCurrent, IsCurrent
    <3> QED
      BY <1>3, <2>1, <3>1, <3>2 DEF Remembered
  <2> QED
    BY <2>2, <2>3
<1> QED
  BY <1>11, <1>12, <1>13 DEF IInv, AllRemembered

LEMMA SetHandlerDmiKeeps ==
  ASSUME IInv, NEW h \in Handlers, NEW enabled \in BOOLEAN,
         SetHandlerDmi(h, enabled)
  PROVE  IInv'
<1>1. /\ ranges \in [Handlers -> [Kinds -> Seq(Ranges)]]
      /\ dmiEnabled \in [Handlers -> BOOLEAN] /\ dmiAllowed \in BOOLEAN
  BY DEF IInv, Types
<1>2. /\ dmiEnabled' = [dmiEnabled EXCEPT ![h] = enabled]
      /\ ranges' = [ranges EXCEPT ![h] = Forgotten(enabled, dmiAllowed)]
      /\ UNCHANGED << dmiAllowed, routerVars, memoryVars >>
  BY DEF SetHandlerDmi
<1>3. /\ dmiEnabled' \in [Handlers -> BOOLEAN] /\ dmiAllowed' \in BOOLEAN
      /\ ranges' \in [Handlers -> [Kinds -> Seq(Ranges)]]
  BY <1>1, <1>2, ForgottenFacts
<1>4. Types'
  BY <1>2, <1>3 DEF IInv, Types, routerVars, memoryVars
<1>5. TableIsCurrent' /\ MappingsAreApart'
  BY <1>2 DEF IInv, TableIsCurrent, MappingsAreApart, routerVars, memoryVars
<1>6. ASSUME NEW g \in Handlers, NEW k \in Kinds PROVE Remembered(g, k)'
  <2>1. CASE g = h
    <3>1. ranges'[g] = Forgotten(dmiEnabled'[g], dmiAllowed')
      BY <1>1, <1>2, <2>1
    <3> QED
      BY <1>3, <3>1, ForgottenIsRemembered
  <2>2. CASE g # h
    <3>1. ranges'[g] = ranges[g] /\ dmiEnabled'[g] = dmiEnabled[g]
      BY <1>1, <1>2, <2>2
    <3>2. Remembered(g, k)
      BY DEF IInv, AllRemembered
    <3> QED
      BY <1>2, <3>1, <3>2 DEF Remembered, MayUse, routerVars, memoryVars
  <2> QED
    BY <2>1, <2>2
<1> QED
  BY <1>4, <1>5, <1>6 DEF IInv, AllRemembered

LEMMA SetDmiAllowedKeeps ==
  ASSUME IInv, NEW allowed \in BOOLEAN, SetDmiAllowed(allowed)
  PROVE  IInv'
<1>1. dmiEnabled \in [Handlers -> BOOLEAN]
  BY DEF IInv, Types
<1>2. /\ dmiAllowed' = allowed
      /\ ranges' = [h \in Handlers |-> Forgotten(dmiEnabled[h], allowed)]
      /\ UNCHANGED << dmiEnabled, routerVars, memoryVars >>
  BY DEF SetDmiAllowed
<1>3. ranges' \in [Handlers -> [Kinds -> Seq(Ranges)]]
  <2>1. \A h \in Handlers : Forgotten(dmiEnabled[h], allowed) \in [Kinds -> Seq(Ranges)]
    BY <1>1, ForgottenFacts
  <2> QED
    BY <1>2, <2>1
<1>4. Types'
  BY <1>2, <1>3 DEF IInv, Types, routerVars, memoryVars
<1>5. TableIsCurrent' /\ MappingsAreApart'
  BY <1>2 DEF IInv, TableIsCurrent, MappingsAreApart, routerVars, memoryVars
<1>6. ASSUME NEW h \in Handlers, NEW k \in Kinds PROVE Remembered(h, k)'
  <2>1. /\ dmiEnabled' \in [Handlers -> BOOLEAN] /\ dmiAllowed' \in BOOLEAN
        /\ ranges'[h] = Forgotten(dmiEnabled'[h], dmiAllowed')
    BY <1>1, <1>2
  <2> QED
    BY <2>1, ForgottenIsRemembered
<1> QED
  BY <1>4, <1>5, <1>6 DEF IInv, AllRemembered

LEMMA MapKeeps ==
  ASSUME IInv, NEW r \in Mappings, NEW ks, Map(r, ks)
  PROVE  IInv'
<1>1. /\ \A k \in ks : \A s \in mapped[k] : ~Overlap(r, s)
      /\ mapped' = [k \in Kinds |-> IF k \in ks THEN mapped[k] \union {r} ELSE mapped[k]]
      /\ RouterInvalidates
      /\ UNCHANGED << dmiAllowed, dmiEnabled, routerEnabled, memoryVars >>
  BY DEF Map
<1>2. /\ ranges' \in [Handlers -> [Kinds -> Seq(Ranges)]]
      /\ routerInUse' \in BOOLEAN
      /\ AllRemembered'
  BY <1>1, RouterInvalidatesFacts
<1>3. mapped' \in [Kinds -> SUBSET Mappings]
  BY <1>1 DEF IInv, Types
<1>4. Types'
  BY <1>1, <1>2, <1>3 DEF IInv, Types, memoryVars
<1>5. TableIsCurrent'
  BY <1>1 DEF IInv, TableIsCurrent, memoryVars
<1>6. ASSUME NEW k \in Kinds PROVE Disjoint(mapped'[k])
  <2>1. Disjoint(mapped[k])
    BY DEF IInv, MappingsAreApart
  <2>2. CASE k \in ks
    <3>1. mapped'[k] = mapped[k] \union {r}
      BY <1>1, <2>2
    <3>2. \A s \in mapped[k] : ~Overlap(r, s) /\ ~Overlap(s, r)
      BY <1>1, <2>2 DEF Overlap
    <3> QED
      BY <2>1, <3>1, <3>2 DEF Disjoint
  <2>3. CASE k \notin ks
    BY <1>1, <2>1, <2>3
  <2> QED
    BY <2>2, <2>3
<1> QED
  BY <1>2, <1>4, <1>5, <1>6 DEF IInv, MappingsAreApart

\* unmap, unmap_read, unmap_write and unmap_all take mappings away.
LEMMA UnmappingKeeps ==
  ASSUME IInv, RouterInvalidates,
         UNCHANGED << dmiAllowed, dmiEnabled, routerEnabled, memoryVars >>,
         mapped' \in [Kinds -> SUBSET Mappings],
         \A k \in Kinds : mapped'[k] \subseteq mapped[k]
  PROVE  IInv'
<1>1. /\ ranges' \in [Handlers -> [Kinds -> Seq(Ranges)]]
      /\ routerInUse' \in BOOLEAN
      /\ AllRemembered'
  BY RouterInvalidatesFacts
<1>2. Types'
  BY <1>1 DEF IInv, Types, memoryVars
<1>3. TableIsCurrent'
  BY DEF IInv, TableIsCurrent, memoryVars
<1>4. MappingsAreApart'
  BY DEF IInv, MappingsAreApart, Disjoint
<1> QED
  BY <1>1, <1>2, <1>3, <1>4 DEF IInv

LEMMA UnmapKeeps ==
  ASSUME IInv, NEW base, NEW ks, Unmap(base, ks)
  PROVE  IInv'
<1>1. /\ mapped' = [k \in Kinds |-> IF k \in ks THEN {r \in mapped[k] : r.base # base}
                                                ELSE mapped[k]]
      /\ RouterInvalidates
      /\ UNCHANGED << dmiAllowed, dmiEnabled, routerEnabled, memoryVars >>
  BY DEF Unmap
<1>2. /\ mapped' \in [Kinds -> SUBSET Mappings]
      /\ \A k \in Kinds : mapped'[k] \subseteq mapped[k]
  BY <1>1 DEF IInv, Types
<1> QED
  BY <1>1, <1>2, UnmappingKeeps

LEMMA UnmapAllKeeps ==
  ASSUME IInv, UnmapAll
  PROVE  IInv'
<1>1. /\ mapped' = [k \in Kinds |-> {}]
      /\ RouterInvalidates
      /\ UNCHANGED << dmiAllowed, dmiEnabled, routerEnabled, memoryVars >>
  BY DEF UnmapAll
<1>2. /\ mapped' \in [Kinds -> SUBSET Mappings]
      /\ \A k \in Kinds : mapped'[k] \subseteq mapped[k]
  BY <1>1
<1> QED
  BY <1>1, <1>2, UnmappingKeeps

LEMMA SetRouterDmiKeeps ==
  ASSUME IInv, NEW enabled \in BOOLEAN, SetRouterDmi(enabled)
  PROVE  IInv'
<1>1. /\ RouterInvalidates
      /\ routerEnabled' = enabled
      /\ UNCHANGED << dmiAllowed, dmiEnabled, mapped, memoryVars >>
  BY DEF SetRouterDmi
<1>2. /\ ranges' \in [Handlers -> [Kinds -> Seq(Ranges)]]
      /\ routerInUse' \in BOOLEAN
      /\ AllRemembered'
  BY <1>1, RouterInvalidatesFacts
<1>3. Types'
  BY <1>1, <1>2 DEF IInv, Types, memoryVars
<1>4. TableIsCurrent' /\ MappingsAreApart'
  BY <1>1 DEF IInv, TableIsCurrent, MappingsAreApart, memoryVars
<1> QED
  BY <1>2, <1>3, <1>4 DEF IInv

LEMMA ChangeMemoryKeeps ==
  ASSUME IInv, NEW k \in Kinds, NEW words \in SUBSET MemoryWords,
         ChangeMemory(k, words)
  PROVE  IInv'
<1>1. /\ grantable' = [grantable EXCEPT ![k] = words]
      /\ MemoryInvalidates
      /\ UNCHANGED << dmiAllowed, dmiEnabled, routerVars, table >>
  BY DEF ChangeMemory
<1>2. memoryInUse' = FALSE
  BY <1>1 DEF MemoryInvalidates, IInv, Types
<1>3. grantable' \in [Kinds -> SUBSET MemoryWords]
  BY <1>1 DEF IInv, Types
<1>4. TableIsCurrent' /\ MappingsAreApart'
  BY <1>1, <1>2 DEF IInv, TableIsCurrent, MappingsAreApart, routerVars
<1>5. ranges' \in [Handlers -> [Kinds -> Seq(Ranges)]] /\ AllRemembered'
  <2>1. CASE AllForget
    BY <1>1, <2>1, AllForgetFacts
  <2>2. CASE ~AllForget
    <3>1. /\ ranges' = ranges
          /\ memoryInUse => \A l \in Kinds : \A r \in mapped[l] : ~Forwards(r)
      BY <1>1, <2>2 DEF MemoryInvalidates
    <3>2. ASSUME NEW h \in Handlers, NEW l \in Kinds PROVE Remembered(h, l)'
      <4>1. Remembered(h, l) /\ MayUse(h)' = MayUse(h)
        BY <1>1 DEF IInv, AllRemembered, MayUse
      <4>2. /\ ranges[h][l] \in Seq(Ranges)
            /\ mapped[l] \subseteq Mappings
            /\ routerEnabled \in BOOLEAN /\ memoryInUse \in BOOLEAN
            /\ grantable[l] \subseteq MemoryWords
            /\ grantable'[l] \subseteq MemoryWords
        BY <1>3 DEF IInv, Types
      <4>3. memoryInUse => \A r \in mapped[l] : ~Forwards(r)
        BY <3>1
      <4>4. ASSUME MayUse(h)
            PROVE  AllCurrent(routerEnabled, mapped[l], grantable'[l], FALSE, ranges[h][l])
        <5>1. AllCurrent(routerEnabled, mapped[l], grantable[l], memoryInUse, ranges[h][l])
          BY <4>1, <4>4 DEF Remembered
        <5> QED
          BY <4>2, <4>3, <5>1, OtherWordsStayCurrent
      <4> QED
        BY <1>1, <1>2, <3>1, <4>1, <4>4 DEF Remembered, routerVars
    <3> QED
      BY <3>1, <3>2 DEF IInv, Types, AllRemembered
  <2> QED
    BY <2>1, <2>2
<1>6. Types'
  BY <1>1, <1>2, <1>3, <1>5 DEF IInv, Types, routerVars
<1> QED
  BY <1>4, <1>5, <1>6 DEF IInv

LEMMA StutteringKeeps ==
  ASSUME IInv, UNCHANGED vars
  PROVE  IInv'
<1>1. UNCHANGED << dmiAllowed, dmiEnabled, ranges, mapped, routerEnabled,
                   routerInUse, grantable, memoryInUse, table >>
  BY DEF vars, handlerVars, routerVars, memoryVars
<1>2. Types' /\ TableIsCurrent' /\ MappingsAreApart'
  BY <1>1 DEF IInv, Types, TableIsCurrent, MappingsAreApart
<1>3. AllRemembered'
  BY <1>1 DEF IInv, AllRemembered, Remembered, MayUse
<1> QED
  BY <1>2, <1>3 DEF IInv

LEMMA StepKeeps ==
  ASSUME IInv, [Next]_vars
  PROVE  IInv'
<1>1. CASE \E h \in Handlers : \E k \in Accesses[h], a \in Addresses :
               Recall(h, k, a) \/ Load(h, k, a)
  <2>1. PICK h \in Handlers : \E k \in Accesses[h], a \in Addresses :
                                  Recall(h, k, a) \/ Load(h, k, a)
    BY <1>1
  <2>2. PICK k \in Accesses[h], a \in Addresses : Recall(h, k, a) \/ Load(h, k, a)
    BY <2>1
  <2>3. k \in Kinds
    BY PathAssumption
  <2> QED
    BY <2>2, <2>3, RecallKeeps, LoadKeeps
<1>2. ASSUME NEW h \in Handlers, NEW enabled \in BOOLEAN, SetHandlerDmi(h, enabled)
      PROVE  IInv'
  BY <1>2, SetHandlerDmiKeeps
<1>3. ASSUME NEW allowed \in BOOLEAN, SetDmiAllowed(allowed) PROVE IInv'
  BY <1>3, SetDmiAllowedKeeps
<1>4. ASSUME NEW r \in Mappings, NEW ks \in KindSets, Map(r, ks) \/ Unmap(r.base, ks)
      PROVE  IInv'
  BY <1>4, MapKeeps, UnmapKeeps
<1>5. CASE UnmapAll
  BY <1>5, UnmapAllKeeps
<1>6. ASSUME NEW enabled \in BOOLEAN, SetRouterDmi(enabled) PROVE IInv'
  BY <1>6, SetRouterDmiKeeps
<1>7. ASSUME NEW k \in Kinds, NEW words \in SUBSET MemoryWords, ChangeMemory(k, words)
      PROVE  IInv'
  BY <1>7, ChangeMemoryKeeps
<1>8. CASE UNCHANGED vars
  BY <1>8, StutteringKeeps
<1> QED
  BY <1>1, <1>2, <1>3, <1>4, <1>5, <1>6, <1>7, <1>8 DEF Next

LEMMA Invariant == Spec => []IInv
<1>1. Init => IInv
  BY InitHolds
<1>2. IInv /\ [Next]_vars => IInv'
  BY StepKeeps
<1> QED
  BY <1>1, <1>2, PTL DEF Spec

-----------------------------------------------------------------------------
(***************************************************************************)
(* What follows from the invariant.                                        *)
(***************************************************************************)
\* What is known of a range that a handler remembers while it may use it.
LEMMA RememberedFacts ==
  ASSUME IInv, NEW h \in Handlers, NEW k \in Kinds, MayUse(h),
         NEW i \in DOMAIN ranges[h][k],
         NEW a \in ranges[h][k][i].start..ranges[h][k][i].end
  PROVE  /\ a \in Addresses
         /\ ranges[h][k][i] = Answer(routerEnabled, mapped[k], grantable[k], a)
<1>1. /\ ranges[h][k] \in Seq(Ranges) /\ i \in 1..Len(ranges[h][k])
      /\ ranges[h][k][i] \in Ranges
  BY DEF IInv, Types
<1>2. a \in Addresses
  BY <1>1, PathAssumption DEF Ranges, Addresses
<1>3. IsCurrent(routerEnabled, mapped[k], grantable[k], memoryInUse, ranges[h][k][i])
  BY <1>1 DEF IInv, AllRemembered, Remembered, AllCurrent
<1> QED
  BY <1>2, <1>3 DEF IsCurrent

\* What the answer says of an address, in the words of the properties.
LEMMA AnswerIsTrue ==
  ASSUME IInv, NEW k \in Kinds, NEW a \in Addresses,
         NEW A, A = Answer(routerEnabled, mapped[k], grantable[k], a)
  PROVE  /\ A.granted <=> GrantableNow(k, a)
         /\ A.granted => A.word + (a - A.start) \in WordBehind(k, a)
<1>1. /\ routerEnabled \in BOOLEAN
      /\ mapped[k] \subseteq Mappings /\ Disjoint(mapped[k])
  BY DEF IInv, Types, MappingsAreApart
<1>2. /\ A.granted => Asks(routerEnabled, mapped[k], a)
      /\ \A r \in mapped[k] : routerEnabled /\ In(r, a) =>
            /\ A.granted <=> (a - r.base + r.offset) \in grantable[k]
            /\ A.granted => A.word + (a - A.start) = a - r.base + r.offset
  BY <1>1, AnswerFacts
<1>3. ASSUME A.granted
      PROVE  GrantableNow(k, a) /\ A.word + (a - A.start) \in WordBehind(k, a)
  <2>1. routerEnabled /\ \E r \in mapped[k] : In(r, a)
    BY <1>2, <1>3 DEF Asks
  <2>2. PICK r \in mapped[k] : In(r, a)
    BY <2>1
  <2>3. /\ (a - r.base + r.offset) \in grantable[k]
        /\ A.word + (a - A.start) = a - r.base + r.offset
    BY <1>2, <1>3, <2>1, <2>2
  <2>4. (a - r.base + r.offset) \in WordBehind(k, a)
    BY <2>2 DEF WordBehind
  <2> QED
    BY <2>1, <2>3, <2>4 DEF GrantableNow
<1>4. ASSUME GrantableNow(k, a) PROVE A.granted
  <2>1. PICK w \in WordBehind(k, a) : w \in grantable[k]
    BY <1>4 DEF GrantableNow
  <2>2. PICK r \in mapped[k] : In(r, a) /\ w = a - r.base + r.offset
    BY <2>1 DEF WordBehind
  <2> QED
    BY <1>2, <1>4, <2>1, <2>2 DEF GrantableNow
<1> QED
  BY <1>3, <1>4

\* A handler that may not use direct accesses remembers nothing as granted.
LEMMA OffFacts ==
  ASSUME IInv, NEW h \in Handlers, NEW k \in Kinds, ~MayUse(h)
  PROVE  /\ ranges[h][k] = << Refused(0, Top) >>
         /\ DOMAIN ranges[h][k] = {1}
         /\ ~ranges[h][k][1].granted
<1>1. ranges[h][k] = << Refused(0, Top) >>
  BY DEF IInv, AllRemembered, Remembered
<1> QED
  BY <1>1, RefusesAll

(***************************************************************************)
(* For any sizes, mappings and number of handlers, an initiator never acts *)
(* on a grant that is out of date: every address of a range it remembers   *)
(* as granted is granted now and leads to the word it is mapped to now     *)
(* (dmi_handler::get_read_range, router_base::invalidate_dmi,              *)
(* toplevel_memory_base::invalidate_dmi).                                  *)
(***************************************************************************)
THEOREM GrantsAreNeverStale == Spec => []NoStaleGrant
<1>1. IInv => NoStaleGrant
  <2> SUFFICES ASSUME IInv, NEW h \in Handlers, NEW k \in Kinds,
                      NEW i \in DOMAIN ranges[h][k], ranges[h][k][i].granted,
                      NEW a \in ranges[h][k][i].start..ranges[h][k][i].end
               PROVE  /\ GrantableNow(k, a)
                      /\ ranges[h][k][i].word + (a - ranges[h][k][i].start)
                            \in WordBehind(k, a)
    BY DEF NoStaleGrant
  <2>1. MayUse(h)
    BY OffFacts
  <2>2. /\ a \in Addresses
        /\ ranges[h][k][i] = Answer(routerEnabled, mapped[k], grantable[k], a)
    BY <2>1, RememberedFacts
  <2> QED
    BY <2>2, AnswerIsTrue
<1> QED
  BY <1>1, Invariant, PTL

(***************************************************************************)
(* A refusal is forgotten when its reason ends: no initiator stays slow    *)
(* because a callback was removed, a range mapped or the router switched   *)
(* on without anybody telling it.                                          *)
(***************************************************************************)
THEOREM RefusalsAreNeverStale == Spec => []NoStaleRefusal
<1>1. IInv => NoStaleRefusal
  <2> SUFFICES ASSUME IInv, dmiAllowed, NEW h \in Handlers, NEW k \in Kinds,
                      dmiEnabled[h],
                      NEW i \in DOMAIN ranges[h][k], ~ranges[h][k][i].granted,
                      NEW a \in ranges[h][k][i].start..ranges[h][k][i].end
               PROVE  ~GrantableNow(k, a)
    BY DEF NoStaleRefusal
  <2>1. MayUse(h)
    BY DEF MayUse
  <2>2. /\ a \in Addresses
        /\ ranges[h][k][i] = Answer(routerEnabled, mapped[k], grantable[k], a)
    BY <2>1, RememberedFacts
  <2> QED
    BY <2>2, AnswerIsTrue
<1> QED
  BY <1>1, Invariant, PTL

(***************************************************************************)
(* A handler that is switched off, by itself or by the abstraction level,  *)
(* finds a refusal for every address before any grant                      *)
(* (dmi_handler::invalidate).                                              *)
(***************************************************************************)
THEOREM OffStaysOff == Spec => []OffMeansNoDirectAccess
<1>1. IInv => OffMeansNoDirectAccess
  <2> SUFFICES ASSUME IInv, NEW h \in Handlers, NEW k \in Kinds,
                      ~dmiEnabled[h] \/ ~dmiAllowed, NEW a \in Addresses
               PROVE  \E i \in DOMAIN ranges[h][k] :
                         /\ Contains(ranges[h][k][i], a)
                         /\ \A j \in 1..i : ~ranges[h][k][j].granted
    BY DEF OffMeansNoDirectAccess
  <2>1. ~MayUse(h)
    BY DEF MayUse
  <2>2. /\ ranges[h][k][1] = Refused(0, Top)
        /\ 1 \in DOMAIN ranges[h][k]
        /\ ~ranges[h][k][1].granted
    BY <2>1, OffFacts
  <2>3. Contains(Refused(0, Top), a)
    BY RefusesAll, PathAssumption DEF Contains, Addresses
  <2> QED
    BY <2>2, <2>3
<1> QED
  BY <1>1, Invariant, PTL

(***************************************************************************)
(* An address lies in one remembered range at most: the order in which a   *)
(* handler searches its list never decides what an access gets             *)
(* (dmi_handler::get_read_range_slow, load_range).                         *)
(***************************************************************************)
THEOREM RangesNeverMeet == Spec => []RangesAreDisjoint
<1>1. IInv => RangesAreDisjoint
  <2> SUFFICES ASSUME IInv, NEW h \in Handlers, NEW k \in Kinds,
                      NEW i \in DOMAIN ranges[h][k], NEW j \in DOMAIN ranges[h][k],
                      i # j
               PROVE  Apart(ranges[h][k][i], ranges[h][k][j])
    BY DEF RangesAreDisjoint, Apart
  <2>1. MayUse(h)
    BY OffFacts
  <2>2. ranges[h][k] \in Seq(Ranges)
    BY DEF IInv, Types
  <2> QED
    BY <2>1, <2>2 DEF IInv, AllRemembered, Remembered, AllCurrent
<1> QED
  BY <1>1, Invariant, PTL

(***************************************************************************)
(* The state of the path is well formed, for any values of the constants.  *)
(***************************************************************************)
THEOREM TypeCorrect == Spec => []TypeOK
<1>1. IInv => TypeOK
  BY DEF IInv, Types, TypeOK, Ranges
<1> QED
  BY <1>1, Invariant, PTL
=============================================================================
