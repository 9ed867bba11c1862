----------------------------- MODULE FifoProofs -----------------------------
(***************************************************************************)
(* Theorems about scml2::objects::fifo, for any sizes and levels, any      *)
(* number of calls inside each other and any callbacks that keep the       *)
(* contract below: the contents change as BoundedQueue says, push tells    *)
(* the truth about its element, and the flags can be relied on.            *)
(***************************************************************************)
EXTENDS Fifo, SequenceTheorems, TLAPS

\* What callbacks must leave alone, at the least; the README says what happens
\* otherwise.  Somebody who makes room for an element, or has said that it is
\* there, relies on the room; somebody who found elements relies on them.
Contract ==
    /\ \A p \in {"forced_pop", "forced_item_popped", "V1_new_item_available"} :
          Reenter[p] \subseteq {"pop", "clear"}
    /\ "restyle" \notin Reenter["overflow"]
    /\ "pop" \notin Reenter["insufficient_elements"]
    /\ "clear" \notin Reenter["insufficient_elements"]
    /\ \A p \in {"new_item_overwrite", "V1_almost_empty", "V1_almost_full"} :
          Reenter[p] = {}

Flags  == [full : BOOLEAN, empty : BOOLEAN, almostEmpty : BOOLEAN,
           almostFull : BOOLEAN, insufficient : BOOLEAN]
Arguments == Values \cup {""}
Frames == [op : {"push", "pop"}, pc : Places \cup {""}, value : Arguments,
           elementAdded : BOOLEAN, retVal : BOOLEAN, times : Nat]
Answers  == [retVal : BOOLEAN, times : Nat]
Machines == [Q : Seq(Values), flags : Flags, calls : Seq(Frames),
             undefined : BOOLEAN, returned : Answers]

\* Where a frame waits: room was made or found for the element of a push; the
\* front may be gone for a moment; the flags are not up to date.
Roomy     == {"forced_pop", "forced_item_popped", "V1_new_item_available",
              "V1_almost_empty", "V1_almost_full"}
Forced    == {"forced_pop", "forced_item_popped"}
V1Checks  == {"V1_almost_empty", "V1_almost_full"}
V1Places  == {"V1_full", "V1_empty", "V1_new_item_available"} \cup V1Checks
Unsettled == {"", "item_popped", "new_item_available", "new_item_flex",
              "new_item_overwrite", "new_item_forced"} \cup Forced
PopPlaces == {"underflow", "insufficient_elements", "item_popped", "almost_empty",
              "empty", "V1_empty"}
Unadded   == {"", "overflow", "overrun", "V1_full"} \cup Roomy
Once      == {"new_item_available", "new_item_flex", "new_item_overwrite",
              "new_item_forced", "almost_full", "almost_full_flex"}
Succeeds  == {"", "overflow", "new_item_overwrite", "new_item_forced", "almost_full"}
             \cup Forced

Truth(times, val) == (val => times = 1) /\ (~val => times = 0)

\* What a frame knows of its own call at each place, and what it relies on.
ShapeAt(c, place) ==
    /\ place \in PopPlaces => c.op = "pop"
    /\ c.op = "pop" => place \in PopPlaces \cup V1Checks \cup {""}
    /\ place \in V1Places => version = "V1_0"
    /\ place \in Unadded => c.times = 0 /\ ~c.elementAdded
    /\ place \in Once => c.times = 1
    /\ place \in Succeeds => c.retVal
    /\ place = "full" => Truth(c.times, c.retVal)

FitsAt(op, place, q) ==
    /\ op = "push" /\ place \in Roomy => Len(q) < size
    /\ op = "pop" /\ place \in V1Checks => q # << >>
    /\ place = "overflow" => sizeStyle # "flex"
    /\ place = "new_item_overwrite" => Len(q) = size

Shape(c)   == (c.op = "push" => c.value \in Values) /\ ShapeAt(c, c.pc)
Fits(c, q) == FitsAt(c.op, c.pc, q)

Bounded == version = "V1_0" \/ sizeStyle # "flex"

FullRight(f, q)  == version # "V1_0" /\ sizeStyle # "flex" => (f.full <=> Len(q) = size)
EmptyRight(f, q) == version # "V1_0" => (f.empty <=> q = << >>)
FlagsRight(f, q) == FullRight(f, q) /\ EmptyRight(f, q)

\* Flags that were just computed.
Fresh(m) ==
    /\ m.flags.full <=> Len(m.Q) = size
    /\ m.flags.empty <=> m.Q = << >>
    /\ m.flags.insufficient <=> (sizeStyle = "fixed" /\ Len(m.Q) # size)

TopFlags(pc, f, q) ==
    /\ pc \notin Unsettled => FlagsRight(f, q)
    /\ pc = "new_item_flex" => FullRight(f, q)

\* The inductive invariant, of the state or of one in the middle of a step.
\* A frame below others is disturbed only by what its place admits; whoever
\* found elements finds them again when all calls above him have returned.
MInv(m) ==
    /\ m \in Machines
    /\ Bounded => Len(m.Q) <= size
    /\ \A i \in 1 .. Len(m.calls) : Shape(m.calls[i]) /\ Fits(m.calls[i], m.Q)
    /\ \A i, j \in 1 .. Len(m.calls) :
          i < j => m.calls[i].pc \in Places /\ m.calls[j].op \in Reenter[m.calls[i].pc]
    /\ \A i \in 1 .. Len(m.calls) :
          m.calls[i].pc = "insufficient_elements" =>
             m.Q # << >> \/ m.calls[Len(m.calls)].pc \in Forced
    /\ m.calls # << >> => TopFlags(m.calls[Len(m.calls)].pc, m.flags, m.Q)
    /\ m.calls = << >> => FlagsRight(m.flags, m.Q)
    /\ Truth(m.returned.times, m.returned.retVal)
    /\ ~m.undefined

Configured ==
    /\ version \in Versions /\ size \in Sizes
    /\ sizeStyle \in SizeStyles /\ overflowStyle \in OverflowStyles

FifoInv ==
    /\ Configured
    /\ MInv(Now)
    /\ \A i \in 1 .. Len(calls) : calls[i].pc \in Places

-----------------------------------------------------------------------------
(* Sequences and records                                                   *)

LEMMA Beginning ==
    ASSUME NEW S, NEW s \in Seq(S), NEW n \in 0 .. Len(s)
    PROVE  /\ SubSeq(s, 1, n) \in Seq(S) /\ Len(SubSeq(s, 1, n)) = n
           /\ \A i \in 1 .. n : SubSeq(s, 1, n)[i] = s[i]
<1>1. Len(s) \in Nat /\ \A i \in 1 .. n : s[i] \in S
  BY ElementOfSeq, LenProperties
<1>. QED
  BY <1>1, SubSeqProperties

LEMMA Top ==
    ASSUME NEW S, NEW s \in Seq(S), s # << >>
    PROVE  /\ Len(s) \in 1 .. Len(s) /\ Last(s) = s[Len(s)] /\ Last(s) \in S
           /\ Front(s) \in Seq(S) /\ Len(Front(s)) = Len(s) - 1
           /\ \A i \in 1 .. Len(s) - 1 : Front(s)[i] = s[i]
<1>1. Len(s) \in Nat /\ Len(s) > 0
  BY EmptySeq, LenProperties
<1>2. \A i \in 1 .. Len(s) : s[i] \in S
  BY ElementOfSeq
<1>3. Front(s) = SubSeq(s, 1, Len(s) - 1) /\ Last(s) = s[Len(s)]
  BY DEF Front, Last
<1>4. /\ SubSeq(s, 1, Len(s) - 1) \in Seq(S)
      /\ Len(SubSeq(s, 1, Len(s) - 1)) = Len(s) - 1
      /\ \A i \in 1 .. Len(s) - 1 : SubSeq(s, 1, Len(s) - 1)[i] = s[i]
  <2>. DEFINE n == Len(s) - 1
  <2>1. n \in 0 .. Len(s)
    BY <1>1
  <2>. HIDE DEF n
  <2>2. /\ SubSeq(s, 1, n) \in Seq(S) /\ Len(SubSeq(s, 1, n)) = n
        /\ \A i \in 1 .. n : SubSeq(s, 1, n)[i] = s[i]
    BY <2>1, Beginning
  <2>. QED
    BY <2>2 DEF n
<1>. QED
  BY <1>1, <1>2, <1>3, <1>4

LEMMA TopReplaced ==
    ASSUME NEW S, NEW s \in Seq(S), s # << >>, NEW c \in S
    PROVE  /\ Append(Front(s), c) \in Seq(S) /\ Len(Append(Front(s), c)) = Len(s)
           /\ Append(Front(s), c)[Len(s)] = c
           /\ \A i \in 1 .. Len(s) - 1 : Append(Front(s), c)[i] = s[i]
           /\ Append(Front(s), c) # << >>
           /\ Front(Append(Front(s), c)) = Front(s)
           /\ Last(Append(Front(s), c)) = c
<1>. DEFINE t == Append(Front(s), c)
<1>1. /\ Len(s) \in 1 .. Len(s) /\ Front(s) \in Seq(S) /\ Len(Front(s)) = Len(s) - 1
      /\ \A i \in 1 .. Len(s) - 1 : Front(s)[i] = s[i]
  BY Top
<1>2. /\ t \in Seq(S) /\ t # << >> /\ Len(t) = Len(s)
      /\ \A i \in 1 .. Len(s) - 1 : t[i] = s[i]
      /\ t[Len(s)] = c
  BY <1>1, AppendProperties
<1>. HIDE DEF t
<1>3. Last(t) = c
  BY <1>2 DEF Last
<1>4. Front(t) = Front(s)
  <2>1. /\ Front(t) \in Seq(S) /\ Len(Front(t)) = Len(t) - 1
        /\ \A i \in 1 .. Len(t) - 1 : Front(t)[i] = t[i]
    BY <1>2, Top
  <2>2. \A i \in 1 .. Len(Front(s)) : Front(t)[i] = Front(s)[i]
    BY <1>1, <1>2, <2>1
  <2>. QED
    BY <1>1, <1>2, <2>1, <2>2, SeqEqual
<1>. QED
  BY <1>2, <1>3, <1>4 DEF t

\* SetCall replaces the innermost frame and nothing else.
LEMMA SetCallFields ==
    ASSUME NEW m \in Machines, m.calls # << >>, NEW c \in Frames
    PROVE  /\ SetCall(m, c) \in Machines
           /\ SetCall(m, c).calls = Append(Front(m.calls), c)
           /\ SetCall(m, c).Q = m.Q /\ SetCall(m, c).flags = m.flags
           /\ SetCall(m, c).returned = m.returned
           /\ SetCall(m, c).undefined <=> m.undefined
           /\ Call(SetCall(m, c)) = c
<1>1. SetCall(m, c) = [m EXCEPT !.calls = Append(Front(m.calls), c)]
  BY DEF SetCall
<1>2. /\ Append(Front(m.calls), c) \in Seq(Frames)
      /\ Last(Append(Front(m.calls), c)) = c
  BY TopReplaced DEF Machines
<1>. QED
  BY <1>1, <1>2 DEF Machines, Call

LEMMA CallIsAFrame ==
    ASSUME NEW m \in Machines, m.calls # << >>
    PROVE  /\ Call(m) \in Frames /\ Call(m) = m.calls[Len(m.calls)]
           /\ Len(m.calls) \in 1 .. Len(m.calls)
  BY Top DEF Machines, Call

-----------------------------------------------------------------------------
(* The steps a call can make                                               *)

\* The call goes on: it waits at another place, with other contents.
LEMMA GoesOn ==
    ASSUME Contract, Configured,
           NEW m, MInv(m), m.calls # << >>,
           NEW c \in Frames, c.op = Call(m).op, Shape(c),
           NEW r \in Machines, r.calls = Append(Front(m.calls), c),
           Fits(c, r.Q), Bounded => Len(r.Q) <= size,
           c.op = "pop" => Len(r.Q) <= Len(m.Q),
           TopFlags(c.pc, r.flags, r.Q),
           \/ r.Q # << >> \/ c.pc \in Forced \/ c.op = "pop"
           \/ r.Q = m.Q /\ Call(m).pc \notin Forced,
           c.pc = "insufficient_elements" => r.Q # << >>,
           r.returned = m.returned, r.undefined <=> m.undefined
    PROVE  MInv(r)
<1>. DEFINE n == Len(m.calls)
<1>1. /\ m \in Machines /\ n \in 1 .. n /\ Call(m) = m.calls[n]
      /\ r.calls # << >> /\ Len(r.calls) = n
      /\ r.calls[n] = c
      /\ \A i \in 1 .. n - 1 : r.calls[i] = m.calls[i]
  <2>1. m \in Machines
    BY DEF MInv
  <2>2. n \in 1 .. n /\ Call(m) = m.calls[n]
    BY <2>1, CallIsAFrame
  <2>3. m.calls \in Seq(Frames)
    BY <2>1 DEF Machines
  <2>4. /\ r.calls # << >> /\ Len(r.calls) = n /\ r.calls[n] = c
        /\ \A i \in 1 .. n - 1 : r.calls[i] = m.calls[i]
    BY <2>3, TopReplaced
  <2>. QED
    BY <2>1, <2>2, <2>4
<1>2. \A i, j \in 1 .. n :
          i < j => /\ r.calls[i].pc \in Places /\ r.calls[j].op \in Reenter[r.calls[i].pc]
                   /\ r.calls[i] = m.calls[i] /\ m.calls[n].op \in Reenter[m.calls[i].pc]
  <2>. SUFFICES ASSUME NEW i \in 1 .. n, NEW j \in 1 .. n, i < j
                PROVE  /\ r.calls[i].pc \in Places /\ r.calls[j].op \in Reenter[r.calls[i].pc]
                       /\ r.calls[i] = m.calls[i] /\ m.calls[n].op \in Reenter[m.calls[i].pc]
    OBVIOUS
  <2>1. r.calls[i] = m.calls[i] /\ r.calls[j].op = m.calls[j].op /\ i < n /\ n \in 1 .. n
    <3>1. i \in 1 .. n - 1 /\ (j = n \/ j \in 1 .. n - 1)
      BY <1>1
    <3>. QED
      BY <1>1, <3>1
  <2>2. /\ m.calls[i].pc \in Places /\ m.calls[j].op \in Reenter[m.calls[i].pc]
        /\ m.calls[n].op \in Reenter[m.calls[i].pc]
    BY <2>1 DEF MInv
  <2>. QED
    BY <2>1, <2>2
<1>3. ASSUME NEW i \in 1 .. n
      PROVE  Shape(r.calls[i]) /\ Fits(r.calls[i], r.Q)
  <2>1. CASE i = n
    BY <1>1, <2>1
  <2>2. CASE i # n
    <3>. DEFINE d == m.calls[i]
    <3>1. r.calls[i] = d /\ d.pc \in Places /\ c.op \in Reenter[d.pc]
      BY <1>1, <1>2, <2>2
    <3>2. Shape(d) /\ Fits(d, m.Q)
      BY DEF MInv
    <3>3. d.pc \notin {"new_item_overwrite"} \cup V1Checks
      BY <3>1 DEF Contract, V1Checks
    <3>4. d.pc \in Roomy => c.op = "pop"
      <4>1. c.op \in {"push", "pop"}
        BY DEF Frames
      <4>. QED
        BY <3>1, <3>3, <4>1 DEF Contract, Roomy, V1Checks
    <3>. HIDE DEF d
    <3>5. Len(r.Q) \in Nat /\ Len(m.Q) \in Nat /\ size \in Nat
      BY <1>1, LenProperties, FifoAssumption DEF Machines, Configured
    <3>6. Fits(d, r.Q)
      BY <3>2, <3>3, <3>4, <3>5 DEF Fits, FitsAt
    <3>. QED
      BY <3>1, <3>2, <3>6
  <2>. QED
    BY <2>1, <2>2
<1>4. ASSUME NEW i \in 1 .. n, r.calls[i].pc = "insufficient_elements"
      PROVE  r.Q # << >> \/ c.pc \in Forced
  <2>1. CASE i = n
    BY <1>1, <1>4, <2>1
  <2>2. CASE i # n
    <3>1. r.calls[i] = m.calls[i] /\ c.op \in Reenter["insufficient_elements"]
      BY <1>1, <1>2, <1>4, <2>2
    <3>2. m.Q # << >> \/ m.calls[n].pc \in Forced
      BY <1>4, <3>1 DEF MInv
    <3>3. c.op # "pop"
      BY <3>1 DEF Contract
    <3>. QED
      BY <1>1, <3>2, <3>3
  <2>. QED
    BY <2>1, <2>2
<1>5. Truth(r.returned.times, r.returned.retVal) /\ ~r.undefined
  BY DEF MInv
<1>. QED
  BY <1>1, <1>2, <1>3, <1>4, <1>5 DEF MInv

\* The call returns.
LEMMA Returned ==
    ASSUME Contract, Configured,
           NEW m, MInv(m), m.calls # << >>, NEW val \in BOOLEAN,
           Call(m).op = "push" => Truth(Call(m).times, val),
           FlagsRight(m.flags, m.Q), Call(m).pc \notin Forced
    PROVE  MInv(Returning(m, val)) /\ Returning(m, val).Q = m.Q
           /\ Returning(m, val).calls = Front(m.calls)
<1>. DEFINE n == Len(m.calls)
            answer == IF Call(m).op = "push"
                      THEN [retVal |-> val, times |-> Call(m).times] ELSE m.returned
            r == [m EXCEPT !.calls = Front(m.calls), !.returned = answer]
<1>1. /\ m \in Machines /\ n \in 1 .. n /\ Call(m) = m.calls[n] /\ Call(m) \in Frames
      /\ Front(m.calls) \in Seq(Frames) /\ Len(Front(m.calls)) = n - 1
      /\ \A i \in 1 .. n - 1 : Front(m.calls)[i] = m.calls[i]
  BY CallIsAFrame, Top DEF MInv, Machines
<1>2. Returning(m, val) = r
  BY DEF Returning
<1>3. answer \in Answers /\ Truth(answer.times, answer.retVal)
  <2>1. CASE Call(m).op = "push"
    <3>1. Call(m).times \in Nat
      BY <1>1 DEF Frames
    <3>2. /\ answer = [retVal |-> val, times |-> Call(m).times]
          /\ answer.times = Call(m).times /\ answer.retVal = val
      BY <2>1
    <3>. QED
      BY <2>1, <3>1, <3>2 DEF Answers
  <2>2. CASE Call(m).op # "push"
    <3>1. answer = m.returned
      BY <2>2
    <3>. QED
      BY <1>1, <3>1 DEF Answers, Machines, MInv
  <2>. QED
    BY <2>1, <2>2
<1>. HIDE DEF answer
<1>4. /\ r \in Machines /\ r.Q = m.Q /\ r.flags = m.flags /\ r.calls = Front(m.calls)
      /\ r.returned = answer /\ (r.undefined <=> m.undefined)
  BY <1>1, <1>3 DEF Machines
<1>. HIDE DEF r
<1>5. Len(r.calls) = n - 1 /\ \A i \in 1 .. n - 1 : r.calls[i] = m.calls[i] /\ i \in 1 .. n
  BY <1>1, <1>4
<1>6. ASSUME NEW i \in 1 .. n - 1, r.calls[i].pc = "insufficient_elements"
      PROVE  r.Q # << >>
  BY <1>1, <1>4, <1>5, <1>6 DEF MInv
<1>7. \A pc : TopFlags(pc, r.flags, r.Q)
  BY <1>4 DEF TopFlags, FlagsRight
<1>8. /\ Bounded => Len(r.Q) <= size
      /\ \A i \in 1 .. n - 1 : Shape(r.calls[i]) /\ Fits(r.calls[i], r.Q)
      /\ \A i, j \in 1 .. n - 1 :
            i < j => r.calls[i].pc \in Places /\ r.calls[j].op \in Reenter[r.calls[i].pc]
      /\ ~r.undefined
  BY <1>4, <1>5 DEF MInv
<1>9. MInv(r)
  BY <1>3, <1>4, <1>5, <1>6, <1>7, <1>8 DEF MInv
<1>. QED
  BY <1>2, <1>4, <1>9

-----------------------------------------------------------------------------
(* The pieces of the code, see Fifo                                        *)

\* A frame that is moved to another place.
LEMMA FrameAt ==
    ASSUME NEW c \in Frames, NEW place \in Places
    PROVE  /\ [c EXCEPT !.pc = place] \in Frames
           /\ [c EXCEPT !.pc = place].pc = place
           /\ [c EXCEPT !.pc = place].op = c.op
           /\ [c EXCEPT !.pc = place].value = c.value
           /\ [c EXCEPT !.pc = place].times = c.times
           /\ [c EXCEPT !.pc = place].retVal <=> c.retVal
           /\ [c EXCEPT !.pc = place].elementAdded <=> c.elementAdded
  BY DEF Frames

LEMMA FrameAdded ==
    ASSUME NEW c \in Frames, NEW place \in Places
    PROVE  /\ [c EXCEPT !.pc = place, !.times = @ + 1] \in Frames
           /\ [c EXCEPT !.pc = place, !.times = @ + 1].pc = place
           /\ [c EXCEPT !.pc = place, !.times = @ + 1].op = c.op
           /\ [c EXCEPT !.pc = place, !.times = @ + 1].value = c.value
           /\ [c EXCEPT !.pc = place, !.times = @ + 1].times = c.times + 1
           /\ [c EXCEPT !.pc = place, !.times = @ + 1].retVal <=> c.retVal
           /\ [c EXCEPT !.pc = place, !.times = @ + 1].elementAdded <=> c.elementAdded
<1>1. c.times \in Nat
  BY DEF Frames
<1>2. c.times + 1 \in Nat
  BY <1>1
<1>. QED
  BY <1>2 DEF Frames

\* The flags are computed.
LEMMA WithFlagsFields ==
    ASSUME NEW m \in Machines
    PROVE  /\ WithFlags(m) \in Machines /\ Fresh(WithFlags(m))
           /\ WithFlags(m).Q = m.Q /\ WithFlags(m).calls = m.calls
           /\ WithFlags(m).returned = m.returned
           /\ WithFlags(m).undefined <=> m.undefined
           /\ Call(WithFlags(m)) = Call(m)
<1>. DEFINE f == CtrlFlags(m.Q, m.flags, TRUE)
            r == [m EXCEPT !.flags = f]
<1>1. /\ f \in Flags
      /\ f.full <=> Len(m.Q) = size
      /\ f.empty <=> m.Q = << >>
      /\ f.insufficient <=> (sizeStyle = "fixed" /\ Len(m.Q) # size)
  <2>1. /\ f.full <=> Len(m.Q) = size
        /\ f.empty <=> m.Q = << >>
        /\ f.insufficient <=> (sizeStyle = "fixed" /\ Len(m.Q) # size)
    BY Zenon DEF CtrlFlags
  <2>2. f \in Flags
    <3>. DEFINE full == Len(m.Q) = size
                empty == m.Q = << >>
                few == Len(m.Q) <= AlmostEmptyLevel
                many == Len(m.Q) >= AlmostFullLevel
                short == sizeStyle = "fixed" /\ Len(m.Q) # size
    <3>0. /\ Len(m.Q) \in Nat /\ AlmostEmptyLevel \in Nat /\ AlmostFullLevel \in Nat
      BY LenProperties, FifoAssumption DEF Machines
    <3>1. /\ full \in BOOLEAN /\ empty \in BOOLEAN /\ few \in BOOLEAN /\ many \in BOOLEAN
          /\ short \in BOOLEAN
      BY <3>0
    <3>2. f = [full |-> full, empty |-> empty, almostEmpty |-> few, almostFull |-> many,
               insufficient |-> short]
      BY Zenon DEF CtrlFlags
    <3>. HIDE DEF f, full, empty, few, many, short
    <3>. QED
      BY <3>1, <3>2, Zenon DEF Flags
  <2>. QED
    BY <2>1, <2>2
<1>2. WithFlags(m) = r
  BY DEF WithFlags
<1>. HIDE DEF f
<1>3. /\ r \in Machines /\ r.Q = m.Q /\ r.flags = f /\ r.calls = m.calls
      /\ r.returned = m.returned /\ (r.undefined <=> m.undefined)
  BY <1>1 DEF Machines
<1>. HIDE DEF r
<1>. QED
  BY <1>1, <1>2, <1>3 DEF Fresh, Call

LEMMA FreshIsRight ==
    ASSUME NEW m, Fresh(m)
    PROVE  FlagsRight(m.flags, m.Q) /\ \A pc : TopFlags(pc, m.flags, m.Q)
  BY DEF Fresh, FlagsRight, FullRight, EmptyRight, TopFlags

LEMMA Flagged ==
    ASSUME NEW m, MInv(m)
    PROVE  MInv(WithFlags(m))
<1>. DEFINE r == WithFlags(m)
<1>1. /\ r \in Machines /\ Fresh(r) /\ r.Q = m.Q /\ r.calls = m.calls
      /\ r.returned = m.returned /\ (r.undefined <=> m.undefined)
  BY WithFlagsFields DEF MInv
<1>. HIDE DEF r
<1>2. FlagsRight(r.flags, r.Q) /\ \A pc : TopFlags(pc, r.flags, r.Q)
  BY <1>1, FreshIsRight
<1>3. MInv(r)
  BY <1>1, <1>2 DEF MInv
<1>. QED
  BY <1>3 DEF r

LEMMA AtFields ==
    ASSUME NEW m \in Machines, m.calls # << >>, NEW place \in Places
    PROVE  /\ At(m, place) \in Machines
           /\ At(m, place).calls = Append(Front(m.calls), [Call(m) EXCEPT !.pc = place])
           /\ At(m, place).Q = m.Q /\ At(m, place).flags = m.flags
           /\ At(m, place).returned = m.returned
           /\ At(m, place).undefined <=> m.undefined
           /\ Call(At(m, place)) = [Call(m) EXCEPT !.pc = place]
<1>1. [Call(m) EXCEPT !.pc = place] \in Frames
  BY CallIsAFrame, FrameAt
<1>. QED
  BY <1>1, SetCallFields, Zenon DEF At

\* The call waits at another place.
LEMMA Waits ==
    ASSUME Contract, Configured,
           NEW m, MInv(m), m.calls # << >>, NEW place \in Places,
           Shape([Call(m) EXCEPT !.pc = place]), Fits([Call(m) EXCEPT !.pc = place], m.Q),
           TopFlags(place, m.flags, m.Q),
           m.Q # << >> \/ place \in Forced \/ Call(m).pc \notin Forced,
           place = "insufficient_elements" => m.Q # << >>
    PROVE  MInv(At(m, place)) /\ At(m, place).Q = m.Q /\ At(m, place).calls # << >>
<1>. DEFINE c == [Call(m) EXCEPT !.pc = place]
            r == At(m, place)
<1>1. m \in Machines /\ Call(m) \in Frames
  BY CallIsAFrame DEF MInv
<1>2. c \in Frames /\ c.pc = place /\ c.op = Call(m).op
  BY <1>1, FrameAt
<1>3. /\ r \in Machines /\ r.calls = Append(Front(m.calls), c)
      /\ r.Q = m.Q /\ r.flags = m.flags /\ r.returned = m.returned
      /\ r.undefined <=> m.undefined
  BY <1>1, AtFields
<1>4. Shape(c) /\ Fits(c, m.Q)
  OBVIOUS
<1>. HIDE DEF c, r
<1>5. Len(m.Q) \in Nat /\ (Bounded => Len(m.Q) <= size)
  BY <1>1, LenProperties DEF MInv, Machines
<1>6. MInv(r)
  BY <1>1, <1>2, <1>3, <1>4, <1>5, GoesOn
<1>7. r.calls # << >>
  BY <1>1, <1>2, <1>3, TopReplaced DEF Machines
<1>. QED
  BY <1>3, <1>6, <1>7 DEF r

\* An element comes in, after what gave way to it has left.
LEMMA Adds ==
    ASSUME Contract, Configured,
           NEW m, MInv(m), m.calls # << >>, Call(m).op = "push", Call(m).times = 0,
           NEW q \in Seq(Values), Bounded => Len(q) < size,
           NEW place \in Once \cap Unsettled,
           place = "new_item_flex" => FullRight(m.flags, << Call(m).value >> \o q),
           place \in {"new_item_overwrite", "new_item_forced"} => Call(m).retVal,
           place = "new_item_overwrite" => Len(q) + 1 = size
    PROVE  /\ MInv(Added([m EXCEPT !.Q = q], place))
           /\ Added([m EXCEPT !.Q = q], place).Q = << Call(m).value >> \o q
           /\ Call(m).value \in Values
<1>. DEFINE d == [m EXCEPT !.Q = q]
            v == Call(m).value
            c == [Call(m) EXCEPT !.pc = place, !.times = @ + 1]
            s == SetCall(d, c)
            r == [s EXCEPT !.Q = << v >> \o q]
<1>1. /\ m \in Machines /\ Call(m) \in Frames /\ Call(m) = m.calls[Len(m.calls)]
      /\ Len(m.calls) \in 1 .. Len(m.calls)
  BY CallIsAFrame DEF MInv
<1>2. /\ d \in Machines /\ d.Q = q /\ d.calls = m.calls /\ d.flags = m.flags
      /\ d.returned = m.returned /\ (d.undefined <=> m.undefined)
  BY <1>1 DEF Machines
<1>3. Call(d) = Call(m)
  BY <1>2 DEF Call
<1>4. v \in Values
  <2>1. Shape(Call(m))
    BY <1>1 DEF MInv
  <2>. QED
    BY <2>1 DEF Shape
<1>5. place \in Places
  BY DEF Once, Places
<1>6. /\ c \in Frames /\ c.pc = place /\ c.op = "push" /\ c.value = v /\ c.times = 1
      /\ c.retVal <=> Call(m).retVal
  <2>. DEFINE e == Call(m)
  <2>1. e \in Frames /\ e.op = "push" /\ e.times = 0 /\ e.value = v
    BY <1>1
  <2>. HIDE DEF e, v
  <2>2. [e EXCEPT !.pc = place, !.times = @ + 1].times = e.times + 1
    BY <1>5, <2>1, FrameAdded
  <2>3. [e EXCEPT !.pc = place, !.times = @ + 1].times = 1
    BY <2>1, <2>2
  <2>4. /\ [e EXCEPT !.pc = place, !.times = @ + 1] \in Frames
        /\ [e EXCEPT !.pc = place, !.times = @ + 1].pc = place
        /\ [e EXCEPT !.pc = place, !.times = @ + 1].op = "push"
        /\ [e EXCEPT !.pc = place, !.times = @ + 1].value = v
        /\ [e EXCEPT !.pc = place, !.times = @ + 1].retVal <=> e.retVal
    BY <1>5, <2>1, FrameAdded
  <2>. QED
    BY <2>3, <2>4 DEF e
<1>7. /\ s \in Machines /\ s.Q = q /\ s.flags = m.flags /\ s.returned = m.returned
      /\ s.undefined <=> m.undefined
      /\ s.calls = Append(Front(m.calls), c)
  <2>. HIDE DEF d, c
  <2>. QED
    BY <1>2, <1>6, SetCallFields
<1>8. Added(d, place) = r
  <2>1. Added(d, place) = [s EXCEPT !.Q = << v >> \o s.Q]
    BY <1>3 DEF Added
  <2>. HIDE DEF s
  <2>. QED
    BY <1>7, <2>1
<1>. HIDE DEF d, c, s, v
<1>9. /\ << v >> \o q \in Seq(Values) /\ Len(<< v >> \o q) = Len(q) + 1
      /\ << v >> \o q # << >> /\ Len(q) \in Nat
  <2>1. << v >> \in Seq(Values) /\ Len(<< v >>) = 1
    BY <1>4
  <2>2. Len(q) \in Nat
    BY LenProperties
  <2>3. << v >> \o q \in Seq(Values) /\ Len(<< v >> \o q) = Len(q) + 1
    BY <2>1, ConcatProperties
  <2>. QED
    BY <2>2, <2>3, EmptySeq
<1>10. /\ r \in Machines /\ r.Q = << v >> \o q /\ r.flags = m.flags
       /\ r.calls = Append(Front(m.calls), c) /\ r.returned = m.returned
       /\ r.undefined <=> m.undefined
  BY <1>7, <1>9 DEF Machines
<1>. HIDE DEF r
<1>11. Shape(c)
  BY <1>4, <1>6 DEF Shape, ShapeAt, PopPlaces, V1Places, V1Checks, Unadded, Roomy, Once, Unsettled, Succeeds, Forced
<1>12. size \in Nat
  BY FifoAssumption DEF Configured
<1>13. Fits(c, r.Q) /\ (Bounded => Len(r.Q) <= size)
  BY <1>6, <1>9, <1>10, <1>12 DEF Fits, FitsAt, Roomy, V1Checks, Once
<1>14. TopFlags(c.pc, r.flags, r.Q)
  BY <1>6, <1>10 DEF TopFlags, v
<1>15. MInv(r)
  BY <1>6, <1>9, <1>10, <1>11, <1>13, <1>14, GoesOn DEF Once
<1>. QED
  BY <1>4, <1>8, <1>10, <1>15 DEF d, v

-----------------------------------------------------------------------------
(* What a step comes to                                                    *)

\* A change of the contents that BoundedQueue has; V1_0 counts as "max" there.
Moves(p, q) ==
    \/ q = p
    \/ ~(Bounded /\ Len(p) >= size) /\ \E v \in Values : q = << v >> \o p
    \/ /\ Bounded /\ Len(p) >= size /\ overflowStyle = "overwrite"
       /\ \E v \in Values : q = << v >> \o Tail(p)
    \/ /\ p # << >> /\ q = Front(p)
       /\ \/ version # "V1_0" /\ sizeStyle = "fixed" => Len(p) = size
          \/ Bounded /\ Len(p) >= size /\ overflowStyle = "forced_pop"

Done(m, r) ==
    /\ MInv(r) /\ Moves(m.Q, r.Q)
    /\ r.calls # << >> => Call(r).pc \in Places

LEMMA WaitsDone ==
    ASSUME Contract, Configured,
           NEW m, MInv(m), m.calls # << >>, NEW place \in Places,
           ShapeAt(Call(m), place), FitsAt(Call(m).op, place, m.Q),
           TopFlags(place, m.flags, m.Q),
           m.Q # << >> \/ place \in Forced \/ Call(m).pc \notin Forced,
           place = "insufficient_elements" => m.Q # << >>
    PROVE  Done(m, At(m, place))
<1>. DEFINE d == Call(m)
            c == [d EXCEPT !.pc = place]
<1>1. m \in Machines /\ d \in Frames /\ Shape(d)
  BY CallIsAFrame DEF MInv
<1>2. /\ c \in Frames /\ c.pc = place /\ c.op = d.op /\ c.value = d.value /\ c.times = d.times
      /\ c.retVal <=> d.retVal
      /\ c.elementAdded <=> d.elementAdded
  <2>. HIDE DEF d
  <2>. QED
    BY <1>1, FrameAt
<1>3. ShapeAt(d, place) /\ FitsAt(d.op, place, m.Q)
  OBVIOUS
<1>4. Call(At(m, place)) = c /\ At(m, place).Q = m.Q
  BY <1>1, AtFields
<1>. HIDE DEF c, d
<1>5. Shape(c) /\ Fits(c, m.Q)
  BY <1>1, <1>2, <1>3 DEF Shape, ShapeAt, Fits, Truth
<1>6. MInv(At(m, place))
  BY <1>5, Waits DEF c, d
<1>. QED
  BY <1>2, <1>4, <1>6 DEF Done, Moves

LEMMA ReturnsDone ==
    ASSUME Contract, Configured,
           NEW m, MInv(m), m.calls # << >>, NEW val \in BOOLEAN,
           Call(m).op = "push" => Truth(Call(m).times, val),
           FlagsRight(m.flags, m.Q), Call(m).pc \notin Forced
    PROVE  Done(m, Returning(m, val))
<1>. DEFINE r == Returning(m, val)
            n == Len(m.calls)
<1>1. MInv(r) /\ r.Q = m.Q /\ r.calls = Front(m.calls)
  BY Returned
<1>. HIDE DEF r
<1>2. /\ n \in 1 .. n /\ Front(m.calls) \in Seq(Frames) /\ Len(Front(m.calls)) = n - 1
      /\ \A i \in 1 .. n - 1 : Front(m.calls)[i] = m.calls[i]
  BY Top DEF MInv, Machines
<1>3. ASSUME r.calls # << >> PROVE Call(r).pc \in Places
  <2>1. n - 1 \in 1 .. n - 1 /\ n - 1 \in 1 .. n
    BY <1>1, <1>2, <1>3, EmptySeq
  <2>2. Call(r) = m.calls[n - 1]
    BY <1>1, <1>2, <2>1 DEF Call, Last
  <2>3. n - 1 < n
    BY <1>2
  <2>. QED
    BY <1>2, <2>1, <2>2, <2>3 DEF MInv
<1>. QED
  BY <1>1, <1>3 DEF Done, Moves, r

LEMMA AddsDone ==
    ASSUME Contract, Configured,
           NEW m, MInv(m), m.calls # << >>, Call(m).op = "push", Call(m).times = 0,
           NEW q \in Seq(Values), Bounded => Len(q) < size,
           NEW place \in Once \cap Unsettled,
           place = "new_item_flex" => FullRight(m.flags, << Call(m).value >> \o q),
           place \in {"new_item_overwrite", "new_item_forced"} => Call(m).retVal,
           place = "new_item_overwrite" => Len(q) + 1 = size,
           \/ q = m.Q
           \/ /\ q = Tail(m.Q) /\ Bounded /\ Len(m.Q) >= size
              /\ overflowStyle = "overwrite"
    PROVE  Done(m, Added([m EXCEPT !.Q = q], place))
<1>. DEFINE d == [m EXCEPT !.Q = q]
            c == [Call(m) EXCEPT !.pc = place, !.times = @ + 1]
            r == Added(d, place)
<1>1. MInv(r) /\ r.Q = << Call(m).value >> \o q /\ Call(m).value \in Values
  BY Adds
<1>2. m \in Machines /\ Call(m) \in Frames /\ place \in Places /\ r \in Machines
  BY <1>1, CallIsAFrame DEF MInv, Once, Places
<1>3. Call(r).pc = place
  <2>1. /\ d \in Machines /\ d.calls = m.calls /\ Call(d) = Call(m)
    BY <1>2 DEF Machines, Call
  <2>2. c \in Frames /\ c.pc = place
    BY <1>2, FrameAdded
  <2>3. r = [SetCall(d, c) EXCEPT !.Q = << Call(m).value >> \o SetCall(d, c).Q]
    BY <2>1 DEF Added
  <2>. HIDE DEF d, c, r
  <2>4. SetCall(d, c) \in Machines /\ SetCall(d, c).calls = Append(Front(m.calls), c)
    BY <2>1, <2>2, SetCallFields
  <2>5. r.calls = Append(Front(m.calls), c)
    BY <2>3, <2>4 DEF Machines
  <2>6. Call(r) = c
    BY <1>2, <2>2, <2>5, TopReplaced DEF Call, Machines
  <2>. QED
    BY <2>2, <2>6
<1>. HIDE DEF r, d
<1>4. Len(m.Q) \in Nat /\ size \in Nat
  BY <1>2, LenProperties, FifoAssumption DEF Machines, Configured
<1>5. Moves(m.Q, r.Q)
  <2>1. CASE q = m.Q
    BY <1>1, <1>4, <2>1 DEF Moves
  <2>2. CASE q # m.Q
    BY <1>1, <2>2 DEF Moves
  <2>. QED
    BY <2>1, <2>2
<1>. QED
  BY <1>1, <1>2, <1>3, <1>5 DEF Done, r, d

\* Nothing taken out: the element is added to what there is.
LEMMA SameContents ==
    ASSUME NEW m \in Machines
    PROVE  [m EXCEPT !.Q = m.Q] = m
  BY DEF Machines

-----------------------------------------------------------------------------
(* The parts that several callbacks lead to                                *)

\* The last part of push, with flags just computed.
LEMMA RoomDone ==
    ASSUME Contract, Configured,
           NEW m, MInv(m), m.calls # << >>, Fresh(m), Call(m).op = "push",
           Call(m).pc \notin Forced,
           Call(m).elementAdded => Call(m).times = 1 /\ Call(m).retVal,
           ~Call(m).elementAdded => Call(m).times = 0 \/ Len(m.Q) = size,
           Len(m.Q) = size => Truth(Call(m).times, Call(m).retVal)
    PROVE  Done(m, AddedIfRoom(m))
<1>1. /\ m \in Machines /\ Call(m) \in Frames /\ m.Q \in Seq(Values) /\ Len(m.Q) \in Nat
      /\ Call(m).retVal \in BOOLEAN
  BY CallIsAFrame, LenProperties DEF MInv, Machines, Frames
<1>2. /\ FlagsRight(m.flags, m.Q) /\ \A pc : TopFlags(pc, m.flags, m.Q)
      /\ m.flags.full <=> Len(m.Q) = size
  BY FreshIsRight DEF Fresh
<1>3. size \in Nat
  BY FifoAssumption DEF Configured
<1>4. CASE ~m.flags.full /\ ~Call(m).elementAdded
  <2>1. AddedIfRoom(m) = Added(m, "new_item_available")
    BY <1>4 DEF AddedIfRoom
  <2>2. Bounded => Len(m.Q) < size
    BY <1>1, <1>2, <1>3, <1>4 DEF MInv
  <2>3. "new_item_available" \in Once \cap Unsettled /\ Call(m).times = 0
    BY <1>2, <1>4 DEF Once, Unsettled
  <2>4. Done(m, Added([m EXCEPT !.Q = m.Q], "new_item_available"))
    BY <1>1, <2>2, <2>3, AddsDone
  <2>. QED
    BY <1>1, <2>1, <2>4, SameContents
<1>5. CASE m.flags.full
  <2>1. AddedIfRoom(m) = At(m, "full")
    BY <1>5 DEF AddedIfRoom
  <2>2. ShapeAt(Call(m), "full") /\ FitsAt(Call(m).op, "full", m.Q) /\ "full" \in Places
    BY <1>2, <1>5 DEF ShapeAt, FitsAt, PopPlaces, V1Places, V1Checks, Unadded, Roomy, Once,
                      Succeeds, Forced, Places
  <2>. QED
    BY <1>2, <2>1, <2>2, WaitsDone
<1>6. CASE ~m.flags.full /\ Call(m).elementAdded
  <2>1. AddedIfRoom(m) = Returning(m, Call(m).retVal)
    BY <1>6 DEF AddedIfRoom
  <2>2. Truth(Call(m).times, Call(m).retVal)
    BY <1>6 DEF Truth
  <2>. QED
    BY <1>1, <1>2, <2>1, <2>2, ReturnsDone
<1>. QED
  BY <1>4, <1>5, <1>6

LEMMA FullOrReturnsDone ==
    ASSUME Contract, Configured,
           NEW m, MInv(m), m.calls # << >>, FlagsRight(m.flags, m.Q), Call(m).op = "push",
           Call(m).pc \notin Forced, Call(m).times = 1, Call(m).retVal
    PROVE  Done(m, FullOrReturns(m))
<1>1. CASE m.flags.full
  <2>1. FullOrReturns(m) = At(m, "full")
    BY <1>1 DEF FullOrReturns
  <2>2. ShapeAt(Call(m), "full") /\ FitsAt(Call(m).op, "full", m.Q) /\ "full" \in Places
        /\ TopFlags("full", m.flags, m.Q)
    BY DEF ShapeAt, FitsAt, PopPlaces, V1Places, V1Checks, Unadded, Roomy, Once,
           Succeeds, Forced, Places, Truth, TopFlags
  <2>. QED
    BY <2>1, <2>2, WaitsDone
<1>2. CASE ~m.flags.full
  <2>1. FullOrReturns(m) = Returning(m, TRUE)
    BY <1>2 DEF FullOrReturns
  <2>2. Truth(Call(m).times, TRUE)
    BY DEF Truth
  <2>. QED
    BY <2>1, <2>2, ReturnsDone
<1>. QED
  BY <1>1, <1>2

\* The value of a pop is taken.
LEMMA PoppedDone ==
    ASSUME Contract, Configured,
           NEW m, MInv(m), m.calls # << >>, Call(m).op = "pop", m.Q # << >>,
           version # "V1_0" /\ sizeStyle = "fixed" => Len(m.Q) = size
    PROVE  /\ Done(m, At([m EXCEPT !.Q = Front(@)], "item_popped"))
           /\ At([m EXCEPT !.Q = Front(@)], "item_popped").Q = Front(m.Q)
           /\ [m EXCEPT !.Q = Front(@)] \in Machines
<1>. DEFINE d == [m EXCEPT !.Q = Front(m.Q)]
            c == [Call(m) EXCEPT !.pc = "item_popped"]
            r == At(d, "item_popped")
<1>1. m \in Machines /\ Call(m) \in Frames /\ Shape(Call(m))
  BY CallIsAFrame DEF MInv
<1>2. /\ Front(m.Q) \in Seq(Values) /\ Len(Front(m.Q)) = Len(m.Q) - 1 /\ Len(m.Q) \in Nat
  BY <1>1, Top, LenProperties DEF Machines
<1>3. /\ d \in Machines /\ d.Q = Front(m.Q) /\ d.calls = m.calls /\ d.flags = m.flags
      /\ d.returned = m.returned /\ (d.undefined <=> m.undefined)
  BY <1>1, <1>2 DEF Machines
<1>4. Call(d) = Call(m) /\ "item_popped" \in Places
  BY <1>3 DEF Call, Places
<1>5. /\ c \in Frames /\ c.pc = "item_popped" /\ c.op = "pop"
  BY <1>1, <1>4, FrameAt
<1>. HIDE DEF d
<1>6. /\ r \in Machines /\ r.calls = Append(Front(m.calls), c) /\ r.Q = Front(m.Q)
      /\ r.flags = m.flags /\ r.returned = m.returned /\ Call(r) = c
      /\ r.undefined <=> m.undefined
  BY <1>3, <1>4, AtFields
<1>. HIDE DEF r, c
<1>7. Shape(c) /\ Fits(c, r.Q)
  BY <1>5 DEF Shape, ShapeAt, Fits, FitsAt, PopPlaces, V1Places, V1Checks, Unadded, Roomy, Once,
              Succeeds, Forced
<1>8. TopFlags(c.pc, r.flags, r.Q)
  BY <1>5 DEF TopFlags, Unsettled
<1>9. Len(r.Q) <= Len(m.Q) /\ (Bounded => Len(r.Q) <= size)
  <2>1. size \in Nat /\ (Bounded => Len(m.Q) <= size)
    BY FifoAssumption DEF Configured, MInv
  <2>. QED
    BY <1>2, <1>6, <2>1
<1>10. MInv(r)
  BY <1>5, <1>6, <1>7, <1>8, <1>9, GoesOn
<1>11. Moves(m.Q, r.Q)
  BY <1>6 DEF Moves
<1>12. Call(r).pc \in Places
  BY <1>4, <1>5, <1>6
<1>13. Done(m, r)
  BY <1>10, <1>11, <1>12 DEF Done
<1>. QED
  BY <1>3, <1>6, <1>13 DEF d, r

LEMMA PopDone ==
    ASSUME Contract, Configured,
           NEW m, MInv(m), m.calls # << >>, Fresh(m), Call(m).op = "pop", m.Q # << >>
    PROVE  Done(m, PoppedIfSufficient(m))
<1>1. CASE m.flags.insufficient
  <2>1. PoppedIfSufficient(m) = At(m, "insufficient_elements")
    BY <1>1 DEF PoppedIfSufficient
  <2>2. /\ ShapeAt(Call(m), "insufficient_elements")
        /\ FitsAt(Call(m).op, "insufficient_elements", m.Q)
        /\ "insufficient_elements" \in Places
        /\ TopFlags("insufficient_elements", m.flags, m.Q)
    BY FreshIsRight DEF ShapeAt, FitsAt, PopPlaces, V1Places, V1Checks, Unadded, Roomy, Once,
           Succeeds, Forced, Places
  <2>. QED
    BY <2>1, <2>2, WaitsDone
<1>2. CASE ~m.flags.insufficient
  <2>1. PoppedIfSufficient(m) = At([m EXCEPT !.Q = Front(@)], "item_popped")
    BY <1>2 DEF PoppedIfSufficient, Popped
  <2>2. sizeStyle = "fixed" => Len(m.Q) = size
    BY <1>2 DEF Fresh
  <2>. QED
    BY <2>1, <2>2, PoppedDone
<1>. QED
  BY <1>1, <1>2

\* A call that returns leaves nothing of its frame but what it answers.
LEMMA ReturningAlike ==
    ASSUME NEW a \in Machines, NEW b \in Machines, NEW val \in BOOLEAN,
           a.Q = b.Q, a.flags = b.flags, a.undefined = b.undefined, a.returned = b.returned,
           Front(a.calls) = Front(b.calls), Call(a).op = Call(b).op,
           Call(a).times = Call(b).times
    PROVE  Returning(a, val) = Returning(b, val)
<1>. DEFINE below == Front(a.calls)
            answer == IF Call(a).op = "push"
                      THEN [retVal |-> val, times |-> Call(a).times] ELSE a.returned
<1>1. /\ Returning(a, val) = [a EXCEPT !.calls = below, !.returned = answer]
      /\ Returning(b, val) = [b EXCEPT !.calls = below, !.returned = answer]
  BY Zenon DEF Returning
<1>. HIDE DEF below, answer
<1>2. [a EXCEPT !.calls = below, !.returned = answer]
          = [b EXCEPT !.calls = below, !.returned = answer]
  <2>1. DOMAIN a = DOMAIN b /\ DOMAIN a = {"Q", "flags", "calls", "undefined", "returned"}
    BY DEF Machines
  <2>2. a = [x \in DOMAIN a |-> a[x]] /\ b = [x \in DOMAIN b |-> b[x]]
    BY DEF Machines
  <2>3. \A x \in DOMAIN a : [a EXCEPT !.calls = below, !.returned = answer][x]
                                 = [b EXCEPT !.calls = below, !.returned = answer][x]
    BY <2>1
  <2>. QED
    BY <2>1, <2>2, <2>3
<1>. QED
  BY <1>1, <1>2, Zenon

\* The almost checks of V1_0: they find what the call relies on, and nobody
\* may disturb it before they are through.
V1Ready(m) ==
    /\ version = "V1_0"
    /\ Call(m).op = "push" => Len(m.Q) < size
    /\ Call(m).op = "pop" => m.Q # << >>
    /\ Call(m).times = 0 /\ ~Call(m).elementAdded /\ Call(m).pc \notin Forced

LEMMA V1WaitsDone ==
    ASSUME Contract, Configured, NEW m, MInv(m), m.calls # << >>, V1Ready(m),
           NEW place \in V1Checks \cup {"V1_new_item_available"},
           place = "V1_new_item_available" => Call(m).op = "push"
    PROVE  Done(m, At(m, place))
<1>1. Call(m).op \in {"push", "pop"}
  BY CallIsAFrame DEF MInv, Frames
<1>2. Call(m).op = "pop" => ~(Call(m).op = "push")
  OBVIOUS
<1>3. place \in Places /\ TopFlags(place, m.flags, m.Q)
  BY DEF V1Ready, V1Checks, Places, TopFlags, FlagsRight, FullRight, EmptyRight
<1>4. /\ FitsAt(Call(m).op, place, m.Q)
      /\ place # "insufficient_elements" /\ Call(m).pc \notin Forced
  BY DEF V1Ready, FitsAt, V1Checks
<1>5. ShapeAt(Call(m), place)
  BY <1>1, <1>2 DEF V1Ready, ShapeAt, PopPlaces, V1Places, V1Checks, Unadded, Roomy, Once,
              Succeeds, Forced
<1>. QED
  BY <1>3, <1>4, <1>5, WaitsDone

LEMMA V1CheckedDone ==
    ASSUME Contract, Configured, NEW m, MInv(m), m.calls # << >>, V1Ready(m)
    PROVE  Done(m, V1_Checked(m))
<1>1. m \in Machines /\ Call(m) \in Frames /\ Call(m).op \in {"push", "pop"}
  BY CallIsAFrame DEF MInv, Frames
<1>2. CASE Call(m).op = "push"
  <2>1. V1_Checked(m) = At(m, "V1_new_item_available")
    BY <1>2 DEF V1_Checked
  <2>. QED
    BY <1>2, <2>1, V1WaitsDone
<1>3. CASE Call(m).op = "pop"
  <2>. DEFINE d == [m EXCEPT !.Q = Front(@)]
              e == At(d, "item_popped")
  <2>1. m.Q # << >> /\ version = "V1_0"
    BY <1>3 DEF V1Ready
  <2>2. V1_Checked(m) = Returning(d, TRUE)
    BY <1>3, <2>1, Zenon DEF V1_Checked
  <2>3. Done(m, e) /\ e.Q = Front(m.Q) /\ d \in Machines
    BY <1>3, <2>1, PoppedDone
  <2>4. /\ d.Q = Front(m.Q) /\ d.flags = m.flags /\ d.calls = m.calls
        /\ d.returned = m.returned /\ d.undefined = m.undefined /\ Call(d) = Call(m)
    BY <1>1 DEF Machines, Call
  <2>. DEFINE c == [Call(m) EXCEPT !.pc = "item_popped"]
  <2>5. "item_popped" \in Places
    BY DEF Places
  <2>6. c \in Frames /\ c.op = "pop" /\ c.times = Call(m).times /\ c.pc = "item_popped"
    BY <1>1, <1>3, <2>5, FrameAt
  <2>. HIDE DEF d
  <2>7. /\ e \in Machines /\ e.calls = Append(Front(m.calls), c) /\ Call(e) = c
        /\ e.flags = m.flags /\ e.returned = m.returned
        /\ e.undefined <=> d.undefined
    BY <2>3, <2>4, <2>5, AtFields
  <2>8. e.undefined = d.undefined
    BY <2>3, <2>7 DEF Machines
  <2>. HIDE DEF e, c
  <2>9. Front(e.calls) = Front(m.calls) /\ e.calls # << >>
    BY <1>1, <2>6, <2>7, TopReplaced DEF Machines
  <2>10. Returning(d, TRUE) = Returning(e, TRUE)
    BY <1>3, <2>3, <2>4, <2>6, <2>7, <2>8, <2>9, ReturningAlike
  <2>11. FlagsRight(e.flags, e.Q) /\ Call(e).pc \notin Forced /\ Call(e).op # "push"
    BY <2>1, <2>6, <2>7 DEF FlagsRight, FullRight, EmptyRight, Forced
  <2>12. MInv(e) /\ Moves(m.Q, e.Q)
    BY <2>3 DEF Done
  <2>13. Done(e, Returning(e, TRUE)) /\ Returning(e, TRUE).Q = e.Q
    BY <2>9, <2>11, <2>12, ReturnsDone, Returned
  <2>. QED
    BY <2>2, <2>10, <2>12, <2>13 DEF Done
<1>. QED
  BY <1>1, <1>2, <1>3

LEMMA V1CheckedFullDone ==
    ASSUME Contract, Configured, NEW m, MInv(m), m.calls # << >>, V1Ready(m)
    PROVE  Done(m, V1_CheckedFull(m))
<1>1. CASE Len(m.Q) >= AlmostFullLevel
  BY <1>1, V1WaitsDone DEF V1_CheckedFull, V1Checks
<1>2. CASE ~(Len(m.Q) >= AlmostFullLevel)
  BY <1>2, V1CheckedDone DEF V1_CheckedFull
<1>. QED
  BY <1>1, <1>2

LEMMA V1SizesDone ==
    ASSUME Contract, Configured, NEW m, MInv(m), m.calls # << >>, V1Ready(m)
    PROVE  Done(m, V1_CheckAlmostSizes(m))
<1>1. CASE Len(m.Q) <= AlmostEmptyLevel
  BY <1>1, V1WaitsDone DEF V1_CheckAlmostSizes, V1Checks
<1>2. CASE ~(Len(m.Q) <= AlmostEmptyLevel)
  BY <1>2, V1CheckedFullDone DEF V1_CheckAlmostSizes
<1>. QED
  BY <1>1, <1>2

-----------------------------------------------------------------------------
(* From steps to states                                                    *)

LEMMA NowFields ==
    ASSUME MInv(Now)
    PROVE  /\ Now.Q = Q /\ Now.flags = flags /\ Now.calls = calls
           /\ Now.returned = returned /\ Now.undefined = undefined
           /\ Q \in Seq(Values) /\ flags \in Flags /\ calls \in Seq(Frames)
           /\ undefined \in BOOLEAN /\ returned \in Answers
<1>1. /\ Now.Q = Q /\ Now.flags = flags /\ Now.calls = calls
      /\ Now.returned = returned /\ Now.undefined = undefined
  BY DEF Now
<1>2. Now \in Machines
  BY DEF MInv
<1>. HIDE DEF Now
<1>. QED
  BY <1>1, <1>2 DEF Machines

\* A call begins: nobody below relies on what it may change.
LEMMA Begun ==
    ASSUME Contract, FifoInv, NEW op \in {"push", "pop"}, UserMay(op),
           NEW v \in Arguments, op = "push" => v \in Values
    PROVE  /\ MInv(Called(Now, op, v)) /\ Called(Now, op, v).calls # << >>
           /\ Called(Now, op, v).Q = Q
           /\ Call(Called(Now, op, v)).op = op /\ Call(Called(Now, op, v)).pc \notin Forced
           /\ Call(Called(Now, op, v)).times = 0 /\ ~Call(Called(Now, op, v)).elementAdded
           /\ Call(Called(Now, op, v)).retVal
<1>. DEFINE c == [op |-> op, pc |-> "", value |-> v, elementAdded |-> FALSE,
                  retVal |-> TRUE, times |-> 0]
            r == [Now EXCEPT !.calls = Append(calls, c)]
<1>1. /\ Now.Q = Q /\ Now.flags = flags /\ Now.calls = calls
      /\ Now.returned = returned /\ Now.undefined = undefined
      /\ Now \in Machines /\ calls \in Seq(Frames)
  BY NowFields DEF FifoInv, MInv
<1>2. c \in Frames /\ c.op = op /\ c.pc = "" /\ c.value = v /\ c.times = 0
  BY DEF Frames
<1>3. ~c.elementAdded /\ c.retVal
  OBVIOUS
<1>4. Called(Now, op, v) = r
  BY <1>1 DEF Called
<1>. HIDE DEF c
<1>0. PICK n \in Nat : n = Len(calls)
  BY <1>1, LenProperties
<1>5. /\ Append(calls, c) \in Seq(Frames) /\ Append(calls, c) # << >>
      /\ Len(Append(calls, c)) = n + 1
      /\ \A i \in 1 .. n : Append(calls, c)[i] = calls[i]
      /\ Append(calls, c)[n + 1] = c
  <2>1. calls \in Seq(Frames) /\ c \in Frames
    BY <1>1, <1>2
  <2>. QED
    BY <1>0, <2>1, AppendProperties
<1>6. /\ r \in Machines /\ r.Q = Q /\ r.flags = flags /\ r.calls = Append(calls, c)
      /\ r.returned = returned /\ (r.undefined <=> undefined)
  BY <1>1, <1>5 DEF Machines
<1>. HIDE DEF r
<1>7. Call(r) = c
  BY <1>5, <1>6 DEF Call, Last
<1>8. \A i \in 1 .. n : /\ r.calls[i] = calls[i] /\ calls[i].pc \in Places
                        /\ op \in Reenter[calls[i].pc]
  <2>1. DOMAIN calls = 1 .. n
    BY <1>0, <1>1, LenProperties
  <2>. QED
    BY <1>0, <1>5, <1>6, <2>1 DEF UserMay, FifoInv
<1>9. \A i \in 1 .. n + 1 : i = n + 1 \/ i \in 1 .. n
  BY <1>0
<1>10. Shape(c) /\ Fits(c, Q)
  BY <1>2, <1>3 DEF Shape, ShapeAt, Fits, FitsAt, PopPlaces, V1Places, V1Checks, Unadded, Roomy,
                    Once, Succeeds, Forced
<1>11. \A i \in 1 .. n : Shape(calls[i]) /\ Fits(calls[i], Q)
  BY <1>0, <1>1 DEF FifoInv, MInv
<1>12. \A i \in 1 .. n + 1 : Shape(r.calls[i]) /\ Fits(r.calls[i], r.Q)
  BY <1>5, <1>6, <1>8, <1>9, <1>10, <1>11
<1>13. \A i, j \in 1 .. n + 1 :
          i < j => r.calls[i].pc \in Places /\ r.calls[j].op \in Reenter[r.calls[i].pc]
  <2>. SUFFICES ASSUME NEW i \in 1 .. n + 1, NEW j \in 1 .. n + 1, i < j
                PROVE  r.calls[i].pc \in Places /\ r.calls[j].op \in Reenter[r.calls[i].pc]
    OBVIOUS
  <2>1. i \in 1 .. n /\ (j \in 1 .. n \/ j = n + 1)
    BY <1>0
  <2>2. CASE j = n + 1
    BY <1>2, <1>5, <1>6, <1>8, <2>1, <2>2
  <2>3. CASE j \in 1 .. n
    BY <1>0, <1>1, <1>8, <2>1, <2>3 DEF FifoInv, MInv
  <2>. QED
    BY <2>1, <2>2, <2>3
<1>14. \A i \in 1 .. n + 1 : r.calls[i].pc = "insufficient_elements" => r.Q # << >>
  <2>. SUFFICES ASSUME NEW i \in 1 .. n + 1, r.calls[i].pc = "insufficient_elements"
                PROVE  Q # << >>
    BY <1>6
  <2>1. i \in 1 .. n
    BY <1>2, <1>5, <1>6, <1>9
  <2>2. op = "push" /\ n \in 1 .. n
    <3>1. op \in Reenter["insufficient_elements"]
      BY <1>8, <2>1
    <3>3. op # "pop"
      BY <3>1 DEF Contract
    <3>2. n \in 1 .. n
      BY <1>0, <2>1
    <3>. QED
      BY <3>2, <3>3
  <2>3. calls[n].pc \notin Forced
    BY <1>8, <2>2 DEF Contract, Forced
  <2>. QED
    BY <1>0, <1>1, <1>8, <2>1, <2>3 DEF FifoInv, MInv
<1>15. TopFlags("", r.flags, r.Q)
  BY DEF TopFlags, Unsettled
<1>16. Truth(r.returned.times, r.returned.retVal) /\ ~r.undefined /\ (Bounded => Len(r.Q) <= size)
  BY <1>1, <1>6 DEF FifoInv, MInv
<1>18. c.pc \notin Forced
  BY DEF Forced, c
<1>17. MInv(r)
  BY <1>0, <1>2, <1>5, <1>6, <1>12, <1>13, <1>14, <1>15, <1>16 DEF MInv
<1>. QED
  BY <1>2, <1>3, <1>4, <1>5, <1>6, <1>7, <1>17, <1>18

\* What a step of a call comes to: some machine with the same contents (that of
\* the call just begun, or with the flags just computed) is done with it.
Stepped == \E m, r : m.Q = Q /\ Done(m, r) /\ Becomes(r)

LEMMA SameJudgement ==
    ASSUME UNCHANGED << version, size, sizeStyle, overflowStyle >>, NEW m, MInv(m)
    PROVE  MInv(m)'
<1>1. Bounded' <=> Bounded
  BY DEF Bounded
<1>2. \A c : Shape(c)' <=> Shape(c)
  BY DEF Shape, ShapeAt
<1>3. \A c, q : Fits(c, q)' <=> Fits(c, q)
  BY DEF Fits, FitsAt
<1>4. \A f, q : FlagsRight(f, q)' <=> FlagsRight(f, q)
  BY DEF FlagsRight, FullRight, EmptyRight
<1>5. \A pc, f, q : TopFlags(pc, f, q)' <=> TopFlags(pc, f, q)
  BY <1>4 DEF TopFlags, FullRight
<1>. QED
  BY <1>1, <1>2, <1>3, <1>4, <1>5 DEF MInv

LEMMA AfterStep ==
    ASSUME Contract, FifoInv, Stepped
    PROVE  FifoInv' /\ [Queue!Next]_(Queue!vars)
<1>1. PICK m, r : m.Q = Q /\ Done(m, r) /\ Becomes(r)
  BY DEF Stepped
<1>2. MInv(r) /\ r \in Machines /\ r.calls \in Seq(Frames)
  BY <1>1 DEF Done, MInv, Machines
<1>3. /\ Q' = r.Q /\ flags' = r.flags /\ calls' = r.calls
      /\ undefined' = r.undefined /\ returned' = r.returned
      /\ UNCHANGED << version, size, sizeStyle, overflowStyle >>
  BY <1>1 DEF Becomes
<1>4. Now' = r
  BY <1>2, <1>3 DEF Now, Machines
<1>5. MInv(r)'
  BY <1>2, <1>3, SameJudgement
<1>6. MInv(Now)'
  BY <1>4, <1>5
<1>7. \A i \in 1 .. Len(calls') : calls'[i].pc \in Places
  <2>. SUFFICES ASSUME NEW i \in 1 .. Len(r.calls)
                PROVE  r.calls[i].pc \in Places
    BY <1>3
  <2>. DEFINE n == Len(r.calls)
  <2>1. n \in 1 .. n /\ r.calls # << >> /\ (i = n \/ i < n)
    BY <1>2, LenProperties, EmptySeq
  <2>2. Call(r) = r.calls[n] /\ Call(r).pc \in Places
    BY <1>1, <2>1 DEF Done, Call, Last
  <2>. QED
    BY <1>2, <2>1, <2>2 DEF MInv
<1>8. Configured'
  BY <1>3 DEF FifoInv, Configured
<1>9. [Queue!Next]_(Queue!vars)
  <2>1. Moves(Q, Q')
    BY <1>1, <1>3 DEF Done
  <2>. DEFINE style == IF version = "V1_0" THEN "max" ELSE sizeStyle
  <2>2. /\ style' = style /\ (style # "flex" <=> Bounded)
        /\ style = "fixed" <=> (version # "V1_0" /\ sizeStyle = "fixed")
    BY <1>3 DEF Bounded
  <2>3. Queue!IsFull <=> Bounded /\ Len(Q) >= size
    BY <2>2 DEF Queue!IsFull
  <2>4. /\ Queue!Front(Q) = Front(Q) /\ UNCHANGED size /\ UNCHANGED overflowStyle
    BY <1>3 DEF Front, Queue!Front
  <2>. HIDE DEF style
  <2>5. CASE Q' = Q
    BY <2>2, <2>4, <2>5 DEF Queue!vars, style
  <2>6. ASSUME ~(Bounded /\ Len(Q) >= size), NEW v \in Values, Q' = << v >> \o Q
        PROVE  Queue!Enter(v)
    BY <2>2, <2>3, <2>4, <2>6 DEF Queue!Enter, style
  <2>7. ASSUME Bounded /\ Len(Q) >= size, overflowStyle = "overwrite",
               NEW v \in Values, Q' = << v >> \o Tail(Q)
        PROVE  Queue!Overwrite(v)
    BY <2>2, <2>3, <2>4, <2>7 DEF Queue!Overwrite, style
  <2>8. ASSUME Q # << >>, Q' = Front(Q),
               \/ version # "V1_0" /\ sizeStyle = "fixed" => Len(Q) = size
               \/ Bounded /\ Len(Q) >= size /\ overflowStyle = "forced_pop"
        PROVE  Queue!Leave
    BY <2>2, <2>3, <2>4, <2>8 DEF Queue!Leave, style
  <2>. QED
    BY <2>1, <2>5, <2>6, <2>7, <2>8 DEF Moves, Queue!Next
<1>. QED
  BY <1>6, <1>7, <1>8, <1>9 DEF FifoInv

LEMMA ToStepped ==
    ASSUME NEW m, NEW r, m.Q = Q, Done(m, r), Becomes(r)
    PROVE  Stepped
BY Zenon DEF Stepped

\* What is known when a callback returns, before and after the flags are computed.
LEMMA AtReturn ==
    ASSUME Contract, FifoInv, NEW place, Returns(place)
    PROVE  /\ Configured /\ MInv(Now) /\ Now.Q = Q /\ Now.calls # << >> /\ Now.flags = flags
           /\ Now \in Machines /\ Call(Now) \in Frames /\ Call(Now).pc = place
           /\ ShapeAt(Call(Now), place) /\ FitsAt(Call(Now).op, place, Q)
           /\ TopFlags(place, flags, Q)
           /\ place = "insufficient_elements" => Q # << >>
<1>1. Configured /\ MInv(Now) /\ Now.Q = Q /\ Now.calls = calls /\ Now.flags = flags
  BY NowFields DEF FifoInv
<1>2. Now.calls # << >> /\ Last(Now.calls).pc = place
  BY <1>1 DEF Returns
<1>. DEFINE n == Len(Now.calls)
<1>3. /\ Now \in Machines /\ Call(Now) \in Frames /\ Call(Now) = Now.calls[n]
      /\ n \in 1 .. n /\ Call(Now).pc = place
  BY <1>1, <1>2, CallIsAFrame DEF MInv, Call
<1>. HIDE DEF n
<1>4. Shape(Call(Now)) /\ Fits(Call(Now), Now.Q) /\ TopFlags(place, Now.flags, Now.Q)
  BY <1>1, <1>2, <1>3 DEF MInv, n
<1>5. ASSUME place = "insufficient_elements" PROVE Now.Q # << >>
  <2>1. Now.calls[n].pc = "insufficient_elements"
    BY <1>3, <1>5
  <2>2. Now.calls[Len(Now.calls)].pc \notin Forced
    BY <2>1 DEF Forced, n
  <2>. QED
    BY <1>1, <1>3, <2>1, <2>2 DEF MInv, n
<1>. QED
  BY <1>1, <1>2, <1>3, <1>4, <1>5 DEF Shape, Fits

LEMMA FlaggedAtReturn ==
    ASSUME Contract, FifoInv, NEW place, Returns(place)
    PROVE  /\ MInv(WithFlags(Now)) /\ WithFlags(Now).Q = Q /\ WithFlags(Now).calls # << >>
           /\ WithFlags(Now).calls = Now.calls
           /\ Fresh(WithFlags(Now)) /\ Call(WithFlags(Now)) = Call(Now)
           /\ WithFlags(Now) \in Machines
  BY AtReturn, Flagged, WithFlagsFields

-----------------------------------------------------------------------------
(* Calls of the fifo                                                       *)

LEMMA PushStep ==
    ASSUME Contract, FifoInv, NEW v \in Values, Push(v)
    PROVE  Stepped
<1>. DEFINE m == Called(Now, "push", v)
            w == WithFlags(m)
<1>1. /\ MInv(m) /\ m.calls # << >> /\ m.Q = Q /\ Call(m).op = "push"
      /\ Call(m).pc \notin Forced /\ Call(m).times = 0 /\ ~Call(m).elementAdded
      /\ Call(m).retVal
  <2>1. UserMay("push") /\ v \in Arguments
    BY DEF Push, Arguments
  <2>. QED
    BY <2>1, Begun
<1>2. Configured /\ m \in Machines /\ Len(Q) \in Nat /\ size \in Nat
  BY <1>1, LenProperties, FifoAssumption DEF FifoInv, MInv, Machines, Configured
<1>3. /\ MInv(w) /\ w.Q = Q /\ w.calls # << >> /\ Call(w) = Call(m) /\ Fresh(w)
  BY <1>1, <1>2, Flagged, WithFlagsFields
<1>4. ASSUME NEW place \in {"V1_full", "overflow"}, place = "V1_full" => version = "V1_0"
      PROVE  place \in Places /\ ShapeAt(Call(m), place)
  BY <1>1, <1>4 DEF ShapeAt, PopPlaces, V1Places, V1Checks, Unadded, Roomy, Once, Succeeds, Forced,
                    Places
<1>. HIDE DEF m, w
<1>5. CASE version = "V1_0" /\ Len(Q) = size
  <2>1. Becomes(At(m, "V1_full"))
    BY <1>5 DEF Push, m
  <2>2. FitsAt(Call(m).op, "V1_full", m.Q) /\ TopFlags("V1_full", m.flags, m.Q)
    BY <1>1, <1>5 DEF FitsAt, Roomy, V1Checks, TopFlags, FlagsRight, FullRight, EmptyRight
  <2>3. Done(m, At(m, "V1_full"))
    BY <1>1, <1>2, <1>4, <1>5, <2>2, WaitsDone
  <2>. QED
    BY <1>1, <2>1, <2>3, ToStepped
<1>6. CASE version = "V1_0" /\ Len(Q) # size
  <2>1. Becomes(V1_CheckAlmostSizes(m))
    BY <1>6 DEF Push, m
  <2>2. Len(Q) < size
    BY <1>1, <1>2, <1>6 DEF MInv, Bounded
  <2>3. V1Ready(m)
    BY <1>1, <1>6, <2>2 DEF V1Ready
  <2>4. Done(m, V1_CheckAlmostSizes(m))
    BY <1>1, <1>2, <2>3, V1SizesDone
  <2>. QED
    BY <1>1, <2>1, <2>4, ToStepped
<1>7. CASE version # "V1_0" /\ sizeStyle = "flex"
  <2>1. Becomes(Added(m, "new_item_flex"))
    BY <1>7 DEF Push, m
  <2>2. m.Q \in Seq(Values) /\ ~Bounded /\ "new_item_flex" \in Once \cap Unsettled
        /\ FullRight(m.flags, << Call(m).value >> \o m.Q)
    BY <1>2, <1>7 DEF Machines, Bounded, FullRight, Once, Unsettled
  <2>3. Done(m, Added([m EXCEPT !.Q = m.Q], "new_item_flex"))
    BY <1>1, <1>2, <2>2, AddsDone
  <2>4. Done(m, Added(m, "new_item_flex"))
    BY <1>2, <2>3, SameContents
  <2>. QED
    BY <1>1, <2>1, <2>4, ToStepped
<1>8. CASE version # "V1_0" /\ sizeStyle # "flex" /\ w.flags.full
  <2>1. Becomes(At(w, "overflow"))
    BY <1>8 DEF Push, m, w
  <2>2. /\ FitsAt(Call(w).op, "overflow", w.Q) /\ TopFlags("overflow", w.flags, w.Q)
        /\ "overflow" \in Places /\ ShapeAt(Call(w), "overflow")
    BY <1>3, <1>4, <1>8, FreshIsRight DEF FitsAt, Roomy, V1Checks
  <2>3. Done(w, At(w, "overflow"))
    BY <1>1, <1>2, <1>3, <2>2, WaitsDone
  <2>. QED
    BY <1>3, <2>1, <2>3, ToStepped
<1>9. CASE version # "V1_0" /\ sizeStyle # "flex" /\ ~w.flags.full
  <2>1. Becomes(AddedIfRoom(w))
    BY <1>9 DEF Push, m, w
  <2>2. ~(Len(w.Q) = size)
    BY <1>3, <1>9 DEF Fresh
  <2>3. Done(w, AddedIfRoom(w))
    BY <1>1, <1>2, <1>3, <2>2, RoomDone
  <2>. QED
    BY <1>3, <2>1, <2>3, ToStepped
<1>. QED
  BY <1>5, <1>6, <1>7, <1>8, <1>9

LEMMA PopStep ==
    ASSUME Contract, FifoInv, Pop
    PROVE  Stepped
<1>. DEFINE m == Called(Now, "pop", "")
            w == WithFlags(m)
<1>1. /\ MInv(m) /\ m.calls # << >> /\ m.Q = Q /\ Call(m).op = "pop"
      /\ Call(m).pc \notin Forced /\ Call(m).times = 0 /\ ~Call(m).elementAdded
      /\ Call(m).retVal
  <2>1. UserMay("pop") /\ "" \in Arguments
    BY DEF Pop, Arguments
  <2>. QED
    BY <2>1, Begun
<1>2. Configured /\ m \in Machines
  BY <1>1 DEF FifoInv, MInv
<1>3. /\ MInv(w) /\ w.Q = Q /\ w.calls # << >> /\ Call(w) = Call(m) /\ Fresh(w)
  BY <1>1, <1>2, Flagged, WithFlagsFields
<1>4. ASSUME NEW place \in {"V1_empty", "underflow"}, place = "V1_empty" => version = "V1_0"
      PROVE  place \in Places /\ ShapeAt(Call(m), place)
  BY <1>1, <1>4 DEF ShapeAt, PopPlaces, V1Places, V1Checks, Unadded, Roomy, Once, Succeeds, Forced,
                    Places
<1>. HIDE DEF m, w
<1>5. CASE version = "V1_0" /\ Q = << >>
  <2>1. Becomes(At(m, "V1_empty"))
    BY <1>5 DEF Pop, m
  <2>2. FitsAt(Call(m).op, "V1_empty", m.Q) /\ TopFlags("V1_empty", m.flags, m.Q)
    BY <1>1, <1>5 DEF FitsAt, Roomy, V1Checks, TopFlags, FlagsRight, FullRight, EmptyRight
  <2>3. Done(m, At(m, "V1_empty"))
    BY <1>1, <1>2, <1>4, <1>5, <2>2, WaitsDone
  <2>. QED
    BY <1>1, <2>1, <2>3, ToStepped
<1>6. CASE version = "V1_0" /\ Q # << >>
  <2>1. Becomes(V1_CheckAlmostSizes(m))
    BY <1>6 DEF Pop, m
  <2>2. V1Ready(m)
    BY <1>1, <1>6 DEF V1Ready
  <2>3. Done(m, V1_CheckAlmostSizes(m))
    BY <1>1, <1>2, <2>2, V1SizesDone
  <2>. QED
    BY <1>1, <2>1, <2>3, ToStepped
<1>7. CASE version # "V1_0" /\ w.flags.empty
  <2>1. Becomes(At(w, "underflow"))
    BY <1>7 DEF Pop, m, w
  <2>2. /\ FitsAt(Call(w).op, "underflow", w.Q) /\ TopFlags("underflow", w.flags, w.Q)
        /\ "underflow" \in Places /\ ShapeAt(Call(w), "underflow")
    BY <1>3, <1>4, <1>7, FreshIsRight DEF FitsAt, Roomy, V1Checks
  <2>3. Done(w, At(w, "underflow"))
    BY <1>1, <1>2, <1>3, <2>2, WaitsDone
  <2>. QED
    BY <1>3, <2>1, <2>3, ToStepped
<1>8. CASE version # "V1_0" /\ ~w.flags.empty
  <2>1. Becomes(PoppedIfSufficient(w))
    BY <1>8 DEF Pop, m, w
  <2>2. Done(w, PoppedIfSufficient(w))
    BY <1>1, <1>2, <1>3, <1>8, PopDone DEF Fresh
  <2>. QED
    BY <1>3, <2>1, <2>2, ToStepped
<1>. QED
  BY <1>5, <1>6, <1>7, <1>8

-----------------------------------------------------------------------------
(* Callbacks that return during a push                                     *)

\* A variable of the call is set.
LEMMA Noted ==
    ASSUME Contract, Configured, NEW m, MInv(m), m.calls # << >>,
           NEW c \in Frames, c.op = Call(m).op, c.pc = Call(m).pc, Shape(c),
           c.pc \notin Forced, c.pc # "insufficient_elements"
    PROVE  /\ MInv(SetCall(m, c)) /\ SetCall(m, c).Q = m.Q /\ SetCall(m, c).calls # << >>
           /\ SetCall(m, c).flags = m.flags /\ Call(SetCall(m, c)) = c
<1>. DEFINE r == SetCall(m, c)
<1>1. m \in Machines /\ Call(m) = m.calls[Len(m.calls)] /\ Len(m.calls) \in 1 .. Len(m.calls)
  BY CallIsAFrame DEF MInv
<1>2. /\ r \in Machines /\ r.calls = Append(Front(m.calls), c) /\ r.Q = m.Q
      /\ r.flags = m.flags /\ r.returned = m.returned /\ Call(r) = c
      /\ r.undefined <=> m.undefined
  BY <1>1, SetCallFields
<1>. HIDE DEF r
<1>3. Fits(Call(m), m.Q) /\ TopFlags(Call(m).pc, m.flags, m.Q) /\ Len(m.Q) \in Nat
  BY <1>1, LenProperties DEF MInv, Machines
<1>4. Fits(c, r.Q) /\ TopFlags(c.pc, r.flags, r.Q) /\ Len(r.Q) <= Len(m.Q)
      /\ (Bounded => Len(r.Q) <= size)
  BY <1>2, <1>3 DEF Fits, MInv
<1>5. MInv(r)
  BY <1>2, <1>3, <1>4, GoesOn
<1>6. r.calls # << >>
  BY <1>1, <1>2, TopReplaced DEF Machines
<1>. QED
  BY <1>2, <1>5, <1>6 DEF r

LEMMA FrameNotes ==
    ASSUME NEW c \in Frames, NEW b \in BOOLEAN
    PROVE  /\ [c EXCEPT !.retVal = b] \in Frames /\ [c EXCEPT !.retVal = b].pc = c.pc
           /\ [c EXCEPT !.retVal = b].op = c.op /\ [c EXCEPT !.retVal = b].value = c.value
           /\ [c EXCEPT !.retVal = b].times = c.times
           /\ [c EXCEPT !.retVal = b].retVal <=> b
           /\ [c EXCEPT !.retVal = b].elementAdded <=> c.elementAdded
           /\ [c EXCEPT !.elementAdded = b] \in Frames /\ [c EXCEPT !.elementAdded = b].pc = c.pc
           /\ [c EXCEPT !.elementAdded = b].op = c.op
           /\ [c EXCEPT !.elementAdded = b].value = c.value
           /\ [c EXCEPT !.elementAdded = b].times = c.times
           /\ [c EXCEPT !.elementAdded = b].retVal <=> c.retVal
           /\ [c EXCEPT !.elementAdded = b].elementAdded <=> b
  BY DEF Frames

\* A frame of a push at a place that pops do not reach.
LEMMA Pushing ==
    ASSUME NEW c \in Frames, NEW place \in Places, ShapeAt(c, place),
           place \notin PopPlaces \cup V1Checks
    PROVE  c.op = "push"
  BY DEF ShapeAt, Frames, Places

LEMMA OverflowStep ==
    ASSUME Contract, FifoInv, OverflowReturns
    PROVE  Stepped
<1>. DEFINE w == WithFlags(Now)
<1>0. Returns("overflow")
  BY DEF OverflowReturns
<1>1. /\ Configured /\ MInv(w) /\ w.Q = Q /\ w.calls # << >> /\ Fresh(w)
      /\ w \in Machines /\ Call(w) = Call(Now) /\ Call(w) \in Frames
      /\ Call(w).pc = "overflow"
  BY <1>0, AtReturn, FlaggedAtReturn
<1>2. /\ sizeStyle # "flex" /\ Call(w).times = 0 /\ ~Call(w).elementAdded /\ Call(w).retVal
      /\ Call(w).op = "push" /\ Shape(Call(w))
  <2>1. ShapeAt(Call(Now), "overflow") /\ FitsAt(Call(Now).op, "overflow", Q)
    BY <1>0, AtReturn
  <2>2. "overflow" \in Places /\ "overflow" \notin PopPlaces \cup V1Checks
    BY DEF Places, PopPlaces, V1Checks
  <2>3. Shape(Call(w))
    BY <1>1, CallIsAFrame DEF MInv
  <2>. QED
    BY <1>1, <2>1, <2>2, <2>3, Pushing DEF ShapeAt, FitsAt, Unadded, Succeeds
<1>3. /\ Len(Q) \in Nat /\ size \in Nat \ {0} /\ Q \in Seq(Values) /\ Bounded
      /\ w.flags.full <=> Len(Q) = size
  BY <1>1, <1>2, LenProperties, FifoAssumption DEF Machines, Configured, Bounded, Fresh
<1>5. \/ ~w.flags.full /\ Becomes(AddedIfRoom(w))
      \/ /\ w.flags.full /\ overflowStyle = "overwrite"
         /\ Becomes(Added([w EXCEPT !.Q = Tail(@)], "new_item_overwrite"))
      \/ /\ w.flags.full /\ overflowStyle = "forced_pop"
         /\ Becomes(At([w EXCEPT !.Q = Front(@)], "forced_pop"))
      \/ w.flags.full /\ Becomes(At(w, "overrun"))
  BY Zenon DEF OverflowReturns
<1>. HIDE DEF w
<1>6. CASE ~w.flags.full /\ Becomes(AddedIfRoom(w))
  <2>1. ~(Len(w.Q) = size) /\ Call(w).pc \notin Forced
    BY <1>1, <1>3, <1>6 DEF Forced
  <2>2. Done(w, AddedIfRoom(w))
    BY <1>1, <1>2, <2>1, RoomDone
  <2>. QED
    BY <1>1, <1>6, <2>2, ToStepped
<1>7. ASSUME w.flags.full, overflowStyle = "overwrite",
             Becomes(Added([w EXCEPT !.Q = Tail(@)], "new_item_overwrite"))
      PROVE  Stepped
  <2>1. w.Q # << >> /\ Tail(w.Q) \in Seq(Values) /\ Len(Tail(w.Q)) = Len(w.Q) - 1
    BY <1>1, <1>3, <1>7, EmptySeq, HeadTailProperties
  <2>2. Len(w.Q) = size /\ Len(Tail(w.Q)) < size /\ Len(Tail(w.Q)) + 1 = size
    BY <1>1, <1>3, <1>7, <2>1
  <2>3. "new_item_overwrite" \in Once \cap Unsettled
    BY DEF Once, Unsettled
  <2>4. Len(w.Q) >= size
    BY <1>3, <2>2
  <2>5. Done(w, Added([w EXCEPT !.Q = Tail(w.Q)], "new_item_overwrite"))
    BY <1>1, <1>2, <1>3, <1>7, <2>1, <2>2, <2>3, <2>4, AddsDone
  <2>. QED
    BY <1>1, <1>7, <2>5, ToStepped
<1>8. ASSUME w.flags.full, overflowStyle = "forced_pop",
             Becomes(At([w EXCEPT !.Q = Front(@)], "forced_pop"))
      PROVE  Stepped
  <2>. DEFINE d == [w EXCEPT !.Q = Front(w.Q)]
              c == [Call(w) EXCEPT !.pc = "forced_pop"]
              r == At(d, "forced_pop")
  <2>1. Len(w.Q) = size /\ w.Q # << >> /\ Len(w.Q) >= size
    BY <1>1, <1>3, <1>8, EmptySeq
  <2>2. Front(w.Q) \in Seq(Values) /\ Len(Front(w.Q)) = Len(w.Q) - 1
    BY <1>1, <1>3, <2>1, Top
  <2>3. /\ d \in Machines /\ d.Q = Front(w.Q) /\ d.calls = w.calls /\ d.flags = w.flags
        /\ d.returned = w.returned /\ (d.undefined <=> w.undefined)
    BY <1>1, <2>2 DEF Machines
  <2>4. Call(d) = Call(w) /\ "forced_pop" \in Places
    BY <2>3 DEF Call, Places
  <2>5. /\ c \in Frames /\ c.pc = "forced_pop" /\ c.op = "push" /\ c.times = 0
        /\ c.value = Call(w).value
        /\ c.retVal <=> Call(w).retVal
        /\ c.elementAdded <=> Call(w).elementAdded
    BY <1>1, <1>2, <2>4, FrameAt
  <2>. HIDE DEF d
  <2>6. /\ r \in Machines /\ r.calls = Append(Front(w.calls), c) /\ r.Q = Front(w.Q)
        /\ r.flags = w.flags /\ r.returned = w.returned /\ Call(r) = c
        /\ r.undefined <=> w.undefined
    BY <1>1, <2>3, <2>4, AtFields
  <2>. HIDE DEF r, c
  <2>7. Len(r.Q) < size /\ Len(r.Q) <= size
    BY <1>1, <1>3, <2>1, <2>2, <2>6
  <2>8. Shape(c)
    BY <1>2, <2>5 DEF Shape, ShapeAt, PopPlaces, V1Places, V1Checks, Unadded, Roomy, Once,
                      Succeeds, Forced
  <2>9. Fits(c, r.Q) /\ TopFlags(c.pc, r.flags, r.Q) /\ c.pc \in Forced
    BY <2>5, <2>7 DEF Fits, FitsAt, V1Checks, TopFlags, Unsettled, Forced
  <2>10. MInv(r)
    BY <1>1, <1>2, <2>5, <2>6, <2>7, <2>8, <2>9, GoesOn
  <2>11. Moves(w.Q, r.Q)
    BY <1>3, <1>8, <2>1, <2>6 DEF Moves
  <2>12. Done(w, r)
    BY <2>4, <2>5, <2>6, <2>10, <2>11 DEF Done
  <2>. QED
    BY <1>1, <1>8, <2>12, ToStepped DEF d, r
<1>9. CASE w.flags.full /\ Becomes(At(w, "overrun"))
  <2>1. /\ "overrun" \in Places /\ ShapeAt(Call(w), "overrun") /\ Call(w).pc \notin Forced
        /\ FitsAt(Call(w).op, "overrun", w.Q) /\ TopFlags("overrun", w.flags, w.Q)
    BY <1>1, <1>2, FreshIsRight DEF Places, ShapeAt, PopPlaces, V1Places, V1Checks, Unadded, Roomy,
                                    Once, Succeeds, Forced, FitsAt
  <2>2. Done(w, At(w, "overrun"))
    BY <1>1, <2>1, WaitsDone
  <2>. QED
    BY <1>1, <1>9, <2>2, ToStepped
<1>. QED
  BY <1>5, <1>6, <1>7, <1>8, <1>9

LEMMA OverrunStep ==
    ASSUME Contract, FifoInv, OverrunReturns
    PROVE  Stepped
<1>. DEFINE w == WithFlags(Now)
            c == [Call(w) EXCEPT !.retVal = FALSE]
            m == SetCall(w, c)
<1>0. Returns("overrun") /\ Becomes(AddedIfRoom(m))
  BY DEF OverrunReturns
<1>1. /\ Configured /\ MInv(w) /\ w.Q = Q /\ w.calls # << >> /\ Fresh(w)
      /\ w \in Machines /\ Call(w) = Call(Now) /\ Call(w) \in Frames
      /\ Call(w).pc = "overrun"
  BY <1>0, AtReturn, FlaggedAtReturn
<1>2. Call(w).op = "push" /\ Call(w).times = 0 /\ ~Call(w).elementAdded /\ Shape(Call(w))
  <2>1. ShapeAt(Call(Now), "overrun")
    BY <1>0, AtReturn
  <2>2. "overrun" \in Places /\ "overrun" \notin PopPlaces \cup V1Checks
    BY DEF Places, PopPlaces, V1Checks
  <2>3. Shape(Call(w))
    BY <1>1, CallIsAFrame DEF MInv
  <2>. QED
    BY <1>1, <2>1, <2>2, <2>3, Pushing DEF ShapeAt, Unadded
<1>3. /\ c \in Frames /\ c.pc = "overrun" /\ c.op = "push" /\ c.times = 0
      /\ c.value = Call(w).value /\ ~c.retVal /\ ~c.elementAdded
  <2>. DEFINE d == Call(w)
  <2>1. d \in Frames
    BY <1>1
  <2>. HIDE DEF d
  <2>2. /\ [d EXCEPT !.retVal = FALSE] \in Frames /\ [d EXCEPT !.retVal = FALSE].pc = d.pc
        /\ [d EXCEPT !.retVal = FALSE].op = d.op /\ [d EXCEPT !.retVal = FALSE].times = d.times
        /\ [d EXCEPT !.retVal = FALSE].value = d.value
        /\ [d EXCEPT !.retVal = FALSE].retVal <=> FALSE
        /\ [d EXCEPT !.retVal = FALSE].elementAdded <=> d.elementAdded
    BY <2>1, FrameNotes
  <2>. QED
    BY <1>1, <1>2, <2>2 DEF d
<1>. HIDE DEF w, c
<1>4. Shape(c)
  BY <1>2, <1>3 DEF Shape, ShapeAt, PopPlaces, V1Places, V1Checks, Unadded, Roomy, Once, Succeeds,
                    Forced
<1>5. c.pc \notin Forced
  BY <1>3 DEF Forced
<1>6. /\ MInv(m) /\ m.Q = w.Q /\ m.calls # << >> /\ m.flags = w.flags /\ Call(m) = c
  BY <1>1, <1>2, <1>3, <1>4, <1>5, Noted
<1>. HIDE DEF m
<1>7. Fresh(m)
  BY <1>1, <1>6 DEF Fresh
<1>8. Truth(c.times, c.retVal)
  BY <1>3 DEF Truth
<1>9. Done(m, AddedIfRoom(m))
  BY <1>1, <1>3, <1>5, <1>6, <1>7, <1>8, RoomDone
<1>. QED
  BY <1>0, <1>1, <1>6, <1>9, ToStepped DEF m, c, w

LEMMA ForcedPopStep ==
    ASSUME Contract, FifoInv, ForcedPopReturns
    PROVE  Stepped
<1>0. Returns("forced_pop") /\ Becomes(At(Now, "forced_item_popped"))
  BY DEF ForcedPopReturns
<1>1. /\ Configured /\ MInv(Now) /\ Now.Q = Q /\ Now.calls # << >>
      /\ ShapeAt(Call(Now), "forced_pop") /\ FitsAt(Call(Now).op, "forced_pop", Q)
  BY <1>0, AtReturn
<1>2. /\ ShapeAt(Call(Now), "forced_item_popped") /\ "forced_item_popped" \in Places \cap Forced
      /\ TopFlags("forced_item_popped", Now.flags, Now.Q)
  BY <1>1 DEF ShapeAt, PopPlaces, V1Places, V1Checks, Unadded, Roomy, Once, Succeeds, Forced, Places,
              TopFlags, Unsettled
<1>3. FitsAt(Call(Now).op, "forced_item_popped", Now.Q)
  BY <1>1 DEF FitsAt, Roomy, V1Checks
<1>4. Done(Now, At(Now, "forced_item_popped"))
  BY <1>1, <1>2, <1>3, WaitsDone
<1>. QED
  BY <1>0, <1>1, <1>4, ToStepped

LEMMA ForcedItemPoppedStep ==
    ASSUME Contract, FifoInv, ForcedItemPoppedReturns
    PROVE  Stepped
<1>0. Returns("forced_item_popped") /\ Becomes(Added(Now, "new_item_forced"))
  BY DEF ForcedItemPoppedReturns
<1>1. /\ Configured /\ MInv(Now) /\ Now.Q = Q /\ Now.calls # << >> /\ Call(Now) \in Frames
      /\ Now \in Machines /\ ShapeAt(Call(Now), "forced_item_popped")
      /\ FitsAt(Call(Now).op, "forced_item_popped", Q)
  BY <1>0, AtReturn
<1>2. "forced_item_popped" \in Places /\ "forced_item_popped" \notin PopPlaces \cup V1Checks
  BY DEF Places, PopPlaces, V1Checks
<1>3. Call(Now).op = "push" /\ Call(Now).times = 0 /\ Call(Now).retVal /\ Len(Q) < size
  BY <1>1, <1>2, Pushing DEF ShapeAt, FitsAt, Unadded, Roomy, Succeeds, Forced
<1>4. "new_item_forced" \in Once \cap Unsettled /\ Q \in Seq(Values)
  BY <1>1 DEF Once, Unsettled, Machines
<1>5. Done(Now, Added([Now EXCEPT !.Q = Now.Q], "new_item_forced"))
  BY <1>1, <1>3, <1>4, AddsDone
<1>6. Done(Now, Added(Now, "new_item_forced"))
  BY <1>1, <1>5, SameContents
<1>. QED
  BY <1>0, <1>1, <1>6, ToStepped

LEMMA NewItemForcedStep ==
    ASSUME Contract, FifoInv, NewItemForcedReturns
    PROVE  Stepped
<1>. DEFINE w == WithFlags(Now)
            c == [Call(w) EXCEPT !.elementAdded = TRUE]
            m == SetCall(w, c)
<1>0. Returns("new_item_forced") /\ Becomes(AddedIfRoom(m))
  BY DEF NewItemForcedReturns
<1>1. /\ Configured /\ MInv(w) /\ w.Q = Q /\ w.calls # << >> /\ Fresh(w)
      /\ w \in Machines /\ Call(w) = Call(Now) /\ Call(w) \in Frames
      /\ Call(w).pc = "new_item_forced"
  BY <1>0, AtReturn, FlaggedAtReturn
<1>2. Call(w).op = "push" /\ Call(w).times = 1 /\ Call(w).retVal /\ Shape(Call(w))
  <2>1. ShapeAt(Call(Now), "new_item_forced")
    BY <1>0, AtReturn
  <2>2. "new_item_forced" \in Places /\ "new_item_forced" \notin PopPlaces \cup V1Checks
    BY DEF Places, PopPlaces, V1Checks
  <2>3. Shape(Call(w))
    BY <1>1, CallIsAFrame DEF MInv
  <2>. QED
    BY <1>1, <2>1, <2>2, <2>3, Pushing DEF ShapeAt, Once, Succeeds
<1>3. /\ c \in Frames /\ c.pc = "new_item_forced" /\ c.op = "push" /\ c.times = 1
      /\ c.value = Call(w).value /\ c.retVal /\ c.elementAdded
  <2>. DEFINE d == Call(w)
  <2>1. d \in Frames
    BY <1>1
  <2>. HIDE DEF d
  <2>2. /\ [d EXCEPT !.elementAdded = TRUE] \in Frames
        /\ [d EXCEPT !.elementAdded = TRUE].pc = d.pc
        /\ [d EXCEPT !.elementAdded = TRUE].op = d.op
        /\ [d EXCEPT !.elementAdded = TRUE].times = d.times
        /\ [d EXCEPT !.elementAdded = TRUE].value = d.value
        /\ [d EXCEPT !.elementAdded = TRUE].retVal <=> d.retVal
        /\ [d EXCEPT !.elementAdded = TRUE].elementAdded <=> TRUE
    BY <2>1, FrameNotes
  <2>. QED
    BY <1>1, <1>2, <2>2 DEF d
<1>. HIDE DEF w, c
<1>4. Shape(c) /\ c.pc \notin Forced /\ Truth(c.times, c.retVal)
  BY <1>2, <1>3 DEF Shape, ShapeAt, PopPlaces, V1Places, V1Checks, Unadded, Roomy, Once, Succeeds,
                    Forced, Truth
<1>5. /\ MInv(m) /\ m.Q = w.Q /\ m.calls # << >> /\ m.flags = w.flags /\ Call(m) = c
  BY <1>1, <1>2, <1>3, <1>4, Noted
<1>. HIDE DEF m
<1>6. Fresh(m)
  BY <1>1, <1>5 DEF Fresh
<1>7. Done(m, AddedIfRoom(m))
  BY <1>1, <1>3, <1>4, <1>5, <1>6, RoomDone
<1>. QED
  BY <1>0, <1>1, <1>5, <1>7, ToStepped DEF m, c, w

LEMMA NewItemOverwriteStep ==
    ASSUME Contract, FifoInv, NewItemOverwriteReturns
    PROVE  Stepped
<1>. DEFINE w == WithFlags(Now)
<1>0. Returns("new_item_overwrite") /\ Becomes(AddedIfRoom(w))
  BY DEF NewItemOverwriteReturns
<1>1. /\ Configured /\ MInv(w) /\ w.Q = Q /\ w.calls # << >> /\ Fresh(w)
      /\ Call(w) = Call(Now) /\ Call(w) \in Frames /\ Call(w).pc = "new_item_overwrite"
      /\ ShapeAt(Call(w), "new_item_overwrite") /\ FitsAt(Call(w).op, "new_item_overwrite", Q)
  BY <1>0, AtReturn, FlaggedAtReturn
<1>. HIDE DEF w
<1>2. "new_item_overwrite" \in Places /\ "new_item_overwrite" \notin PopPlaces \cup V1Checks
  BY DEF Places, PopPlaces, V1Checks
<1>3. Call(w).op = "push" /\ Call(w).times = 1 /\ Call(w).retVal /\ Len(Q) = size
  BY <1>1, <1>2, Pushing DEF ShapeAt, FitsAt, Once, Succeeds
<1>4. Truth(Call(w).times, Call(w).retVal) /\ Call(w).pc \notin Forced
  BY <1>1, <1>3 DEF Truth, Forced
<1>5. Done(w, AddedIfRoom(w))
  BY <1>1, <1>3, <1>4, RoomDone
<1>. QED
  BY <1>0, <1>1, <1>5, ToStepped DEF w

LEMMA NewItemStep ==
    ASSUME Contract, FifoInv, NewItemReturns
    PROVE  Stepped
<1>. DEFINE w == WithFlags(Now)
            c == [Call(w) EXCEPT !.retVal = TRUE]
            t == SetCall(w, c)
<1>0. /\ Returns("new_item_available")
      /\ Becomes(IF w.flags.almostFull THEN At(t, "almost_full") ELSE FullOrReturns(t))
  BY DEF NewItemReturns
<1>1. /\ Configured /\ MInv(w) /\ w.Q = Q /\ w.calls # << >> /\ Fresh(w)
      /\ w \in Machines /\ Call(w) = Call(Now) /\ Call(w) \in Frames
      /\ Call(w).pc = "new_item_available"
  BY <1>0, AtReturn, FlaggedAtReturn
<1>2. Call(w).op = "push" /\ Call(w).times = 1 /\ Shape(Call(w))
  <2>1. ShapeAt(Call(Now), "new_item_available")
    BY <1>0, AtReturn
  <2>2. "new_item_available" \in Places /\ "new_item_available" \notin PopPlaces \cup V1Checks
    BY DEF Places, PopPlaces, V1Checks
  <2>3. Shape(Call(w))
    BY <1>1, CallIsAFrame DEF MInv
  <2>. QED
    BY <1>1, <2>1, <2>2, <2>3, Pushing DEF ShapeAt, Once
<1>3. /\ c \in Frames /\ c.pc = "new_item_available" /\ c.op = "push" /\ c.times = 1
      /\ c.value = Call(w).value /\ c.retVal
  <2>. DEFINE d == Call(w)
  <2>1. d \in Frames
    BY <1>1
  <2>. HIDE DEF d
  <2>2. /\ [d EXCEPT !.retVal = TRUE] \in Frames /\ [d EXCEPT !.retVal = TRUE].pc = d.pc
        /\ [d EXCEPT !.retVal = TRUE].op = d.op /\ [d EXCEPT !.retVal = TRUE].times = d.times
        /\ [d EXCEPT !.retVal = TRUE].value = d.value
        /\ [d EXCEPT !.retVal = TRUE].retVal <=> TRUE
    BY <2>1, FrameNotes
  <2>. QED
    BY <1>1, <1>2, <2>2 DEF d
<1>. HIDE DEF w, c
<1>4. Shape(c) /\ c.pc \notin Forced
  BY <1>2, <1>3 DEF Shape, ShapeAt, PopPlaces, V1Places, V1Checks, Unadded, Roomy, Once, Succeeds,
                    Forced
<1>5. /\ MInv(t) /\ t.Q = w.Q /\ t.calls # << >> /\ t.flags = w.flags /\ Call(t) = c
  BY <1>1, <1>2, <1>3, <1>4, Noted
<1>. HIDE DEF t
<1>6. FlagsRight(t.flags, t.Q) /\ \A pc : TopFlags(pc, t.flags, t.Q)
  BY <1>1, <1>5, FreshIsRight
<1>7. CASE w.flags.almostFull
  <2>1. /\ "almost_full" \in Places /\ ShapeAt(Call(t), "almost_full")
        /\ FitsAt(Call(t).op, "almost_full", t.Q)
    BY <1>3, <1>5 DEF Places, ShapeAt, PopPlaces, V1Places, V1Checks, Unadded, Roomy, Once,
                      Succeeds, Forced, FitsAt
  <2>2. Done(t, At(t, "almost_full"))
    BY <1>1, <1>4, <1>5, <1>6, <2>1, WaitsDone
  <2>. QED
    BY <1>0, <1>1, <1>5, <1>7, <2>2, ToStepped
<1>8. CASE ~w.flags.almostFull
  <2>1. Done(t, FullOrReturns(t))
    BY <1>1, <1>3, <1>4, <1>5, <1>6, FullOrReturnsDone
  <2>. QED
    BY <1>0, <1>1, <1>5, <1>8, <2>1, ToStepped
<1>. QED
  BY <1>7, <1>8

LEMMA AlmostFullStep ==
    ASSUME Contract, FifoInv, AlmostFullReturns
    PROVE  Stepped
<1>0. Returns("almost_full") /\ Becomes(FullOrReturns(Now))
  BY DEF AlmostFullReturns
<1>1. /\ Configured /\ MInv(Now) /\ Now.Q = Q /\ Now.calls # << >> /\ Call(Now) \in Frames
      /\ Now.flags = flags /\ Call(Now).pc = "almost_full"
      /\ ShapeAt(Call(Now), "almost_full") /\ TopFlags("almost_full", flags, Q)
  BY <1>0, AtReturn
<1>2. "almost_full" \in Places /\ "almost_full" \notin PopPlaces \cup V1Checks
  BY DEF Places, PopPlaces, V1Checks
<1>3. Call(Now).op = "push" /\ Call(Now).times = 1 /\ Call(Now).retVal
  BY <1>1, <1>2, Pushing DEF ShapeAt, Once, Succeeds
<1>4. FlagsRight(Now.flags, Now.Q) /\ Call(Now).pc \notin Forced
  BY <1>1 DEF TopFlags, Unsettled, Forced
<1>5. Done(Now, FullOrReturns(Now))
  BY <1>1, <1>3, <1>4, FullOrReturnsDone
<1>. QED
  BY <1>0, <1>1, <1>5, ToStepped

LEMMA FullStep ==
    ASSUME Contract, FifoInv, FullReturns
    PROVE  Stepped
<1>0. Returns("full") /\ Becomes(Returning(Now, Call(Now).retVal))
  BY DEF FullReturns
<1>1. /\ Configured /\ MInv(Now) /\ Now.Q = Q /\ Now.calls # << >> /\ Call(Now) \in Frames
      /\ Now.flags = flags /\ Call(Now).pc = "full"
      /\ ShapeAt(Call(Now), "full") /\ TopFlags("full", flags, Q)
  BY <1>0, AtReturn
<1>2. FlagsRight(Now.flags, Now.Q) /\ Call(Now).pc \notin Forced
  BY <1>1 DEF TopFlags, Unsettled, Forced
<1>3. Truth(Call(Now).times, Call(Now).retVal) /\ Call(Now).retVal \in BOOLEAN
  BY <1>1 DEF ShapeAt, Frames
<1>4. Done(Now, Returning(Now, Call(Now).retVal))
  BY <1>1, <1>2, <1>3, ReturnsDone
<1>. QED
  BY <1>0, <1>1, <1>4, ToStepped

LEMMA NewItemFlexStep ==
    ASSUME Contract, FifoInv, NewItemFlexReturns
    PROVE  Stepped
<1>. DEFINE f == CtrlFlags(Q, Now.flags, FALSE)
            m == [Now EXCEPT !.flags = f]
<1>0. /\ Returns("new_item_flex")
      /\ Becomes(IF m.flags.almostFull THEN At(m, "almost_full_flex") ELSE Returning(m, TRUE))
  BY Zenon DEF NewItemFlexReturns
<1>1. /\ Configured /\ MInv(Now) /\ Now.Q = Q /\ Now.calls # << >> /\ Call(Now) \in Frames
      /\ Now.flags = flags /\ Now \in Machines /\ Call(Now).pc = "new_item_flex"
      /\ ShapeAt(Call(Now), "new_item_flex") /\ TopFlags("new_item_flex", flags, Q)
  BY <1>0, AtReturn
<1>2. "new_item_flex" \in Places /\ "new_item_flex" \notin PopPlaces \cup V1Checks
  BY DEF Places, PopPlaces, V1Checks
<1>3. Call(Now).op = "push" /\ Call(Now).times = 1
  BY <1>1, <1>2, Pushing DEF ShapeAt, Once
<1>4. f \in Flags /\ (f.full <=> flags.full) /\ (f.empty <=> Q = << >>)
  <2>. DEFINE full == Now.flags.full
              empty == Q = << >>
              few == Len(Q) <= AlmostEmptyLevel
              many == Len(Q) >= AlmostFullLevel
              short == sizeStyle = "fixed" /\ Len(Q) # size
  <2>1. /\ Q \in Seq(Values) /\ Now.flags \in Flags
    BY <1>1 DEF Machines
  <2>2. /\ Len(Q) \in Nat /\ AlmostEmptyLevel \in Nat /\ AlmostFullLevel \in Nat
    BY <2>1, LenProperties, FifoAssumption
  <2>3. /\ full \in BOOLEAN /\ empty \in BOOLEAN /\ few \in BOOLEAN /\ many \in BOOLEAN
        /\ short \in BOOLEAN
    BY <2>1, <2>2 DEF Flags
  <2>4. f = [full |-> full, empty |-> empty, almostEmpty |-> few, almostFull |-> many,
             insufficient |-> short]
    BY Zenon DEF CtrlFlags
  <2>5. full <=> flags.full
    BY <1>1
  <2>6. empty <=> Q = << >>
    OBVIOUS
  <2>. HIDE DEF f, full, empty, few, many, short
  <2>7. f \in Flags
    BY <2>3, <2>4, Zenon DEF Flags
  <2>8. (f.full <=> full) /\ (f.empty <=> empty)
    BY <2>4, Zenon
  <2>. QED
    BY <2>5, <2>6, <2>7, <2>8
<1>. HIDE DEF f
<1>5. /\ m \in Machines /\ m.Q = Q /\ m.flags = f /\ m.calls = Now.calls
      /\ m.returned = Now.returned /\ (m.undefined <=> Now.undefined)
  BY <1>1, <1>4 DEF Machines
<1>. HIDE DEF m
<1>6. FlagsRight(m.flags, m.Q) /\ \A pc : TopFlags(pc, m.flags, m.Q)
  BY <1>1, <1>4, <1>5 DEF TopFlags, FlagsRight, FullRight, EmptyRight
<1>7. Call(m) = Call(Now)
  BY <1>5 DEF Call
<1>8. MInv(m)
  BY <1>1, <1>5, <1>6 DEF MInv
<1>9. Call(m).pc \notin Forced /\ Truth(1, TRUE) /\ TRUE \in BOOLEAN
  BY <1>1, <1>7 DEF Forced, Truth
<1>10. CASE m.flags.almostFull
  <2>1. /\ "almost_full_flex" \in Places /\ ShapeAt(Call(m), "almost_full_flex")
        /\ FitsAt(Call(m).op, "almost_full_flex", m.Q)
    BY <1>3, <1>7 DEF Places, ShapeAt, PopPlaces, V1Places, V1Checks, Unadded, Roomy, Once,
                      Succeeds, Forced, FitsAt
  <2>2. Done(m, At(m, "almost_full_flex"))
    BY <1>1, <1>5, <1>6, <1>8, <1>9, <2>1, WaitsDone
  <2>. QED
    BY <1>0, <1>5, <1>10, <2>2, ToStepped
<1>11. CASE ~m.flags.almostFull
  <2>1. Done(m, Returning(m, TRUE))
    BY <1>1, <1>3, <1>5, <1>6, <1>7, <1>8, <1>9, ReturnsDone
  <2>. QED
    BY <1>0, <1>5, <1>11, <2>1, ToStepped
<1>. QED
  BY <1>10, <1>11

LEMMA AlmostFullFlexStep ==
    ASSUME Contract, FifoInv, AlmostFullFlexReturns
    PROVE  Stepped
<1>0. Returns("almost_full_flex") /\ Becomes(Returning(Now, TRUE))
  BY DEF AlmostFullFlexReturns
<1>1. /\ Configured /\ MInv(Now) /\ Now.Q = Q /\ Now.calls # << >> /\ Call(Now) \in Frames
      /\ Now.flags = flags /\ Call(Now).pc = "almost_full_flex"
      /\ ShapeAt(Call(Now), "almost_full_flex") /\ TopFlags("almost_full_flex", flags, Q)
  BY <1>0, AtReturn
<1>2. FlagsRight(Now.flags, Now.Q) /\ Call(Now).pc \notin Forced
  BY <1>1 DEF TopFlags, Unsettled, Forced
<1>3. Truth(Call(Now).times, TRUE) /\ TRUE \in BOOLEAN
  BY <1>1 DEF ShapeAt, Truth, Once
<1>4. Done(Now, Returning(Now, TRUE))
  BY <1>1, <1>2, <1>3, ReturnsDone
<1>. QED
  BY <1>0, <1>1, <1>4, ToStepped

-----------------------------------------------------------------------------
(* Callbacks that return during a pop                                      *)

LEMMA EmptyOrReturnsDone ==
    ASSUME Contract, Configured,
           NEW m, MInv(m), m.calls # << >>, FlagsRight(m.flags, m.Q), Call(m).op = "pop",
           Call(m).pc \notin Forced
    PROVE  Done(m, EmptyOrReturns(m))
<1>1. CASE m.flags.empty
  <2>1. EmptyOrReturns(m) = At(m, "empty")
    BY <1>1 DEF EmptyOrReturns
  <2>2. ShapeAt(Call(m), "empty") /\ FitsAt(Call(m).op, "empty", m.Q) /\ "empty" \in Places
        /\ TopFlags("empty", m.flags, m.Q)
    BY DEF ShapeAt, FitsAt, PopPlaces, V1Places, V1Checks, Unadded, Roomy, Once,
           Succeeds, Forced, Places, TopFlags
  <2>. QED
    BY <2>1, <2>2, WaitsDone
<1>2. CASE ~m.flags.empty
  <2>1. EmptyOrReturns(m) = Returning(m, TRUE)
    BY <1>2 DEF EmptyOrReturns
  <2>. QED
    BY <2>1, ReturnsDone
<1>. QED
  BY <1>1, <1>2

LEMMA UnderflowStep ==
    ASSUME Contract, FifoInv, UnderflowReturns
    PROVE  Stepped
<1>. DEFINE w == WithFlags(Now)
<1>0. /\ Returns("underflow")
      /\ Becomes(IF w.flags.empty THEN Returning(w, FALSE) ELSE PoppedIfSufficient(w))
  BY DEF UnderflowReturns
<1>1. /\ Configured /\ MInv(w) /\ w.Q = Q /\ w.calls # << >> /\ Fresh(w)
      /\ Call(w) = Call(Now) /\ Call(w).pc = "underflow" /\ ShapeAt(Call(w), "underflow")
  BY <1>0, AtReturn, FlaggedAtReturn
<1>. HIDE DEF w
<1>2. Call(w).op = "pop" /\ Call(w).pc \notin Forced
  BY <1>1 DEF ShapeAt, PopPlaces, Forced
<1>3. CASE w.flags.empty
  <2>1. Done(w, Returning(w, FALSE))
    BY <1>1, <1>2, ReturnsDone, FreshIsRight
  <2>. QED
    BY <1>0, <1>1, <1>3, <2>1, ToStepped DEF w
<1>4. CASE ~w.flags.empty
  <2>1. Done(w, PoppedIfSufficient(w))
    BY <1>1, <1>2, <1>4, PopDone DEF Fresh
  <2>. QED
    BY <1>0, <1>1, <1>4, <2>1, ToStepped DEF w
<1>. QED
  BY <1>3, <1>4

LEMMA InsufficientStep ==
    ASSUME Contract, FifoInv, InsufficientReturns
    PROVE  Stepped
<1>. DEFINE w == WithFlags(Now)
<1>0. /\ Returns("insufficient_elements")
      /\ Becomes(IF w.flags.insufficient THEN Returning(w, FALSE) ELSE Popped(w))
  BY DEF InsufficientReturns
<1>1. /\ Configured /\ MInv(w) /\ w.Q = Q /\ w.calls # << >> /\ Fresh(w) /\ Q # << >>
      /\ Call(w) = Call(Now) /\ Call(w).pc = "insufficient_elements"
      /\ ShapeAt(Call(w), "insufficient_elements")
  BY <1>0, AtReturn, FlaggedAtReturn
<1>. HIDE DEF w
<1>2. Call(w).op = "pop" /\ Call(w).pc \notin Forced
  BY <1>1 DEF ShapeAt, PopPlaces, Forced
<1>3. CASE w.flags.insufficient
  <2>1. Done(w, Returning(w, FALSE))
    BY <1>1, <1>2, ReturnsDone, FreshIsRight
  <2>. QED
    BY <1>0, <1>1, <1>3, <2>1, ToStepped DEF w
<1>4. CASE ~w.flags.insufficient
  <2>1. Popped(w) = At([w EXCEPT !.Q = Front(@)], "item_popped")
    BY <1>1 DEF Popped
  <2>2. sizeStyle = "fixed" => Len(w.Q) = size
    BY <1>1, <1>4 DEF Fresh
  <2>3. Done(w, Popped(w))
    BY <1>1, <1>2, <2>1, <2>2, PoppedDone
  <2>. QED
    BY <1>0, <1>1, <1>4, <2>3, ToStepped DEF w
<1>. QED
  BY <1>3, <1>4

LEMMA ItemPoppedStep ==
    ASSUME Contract, FifoInv, ItemPoppedReturns
    PROVE  Stepped
<1>. DEFINE w == WithFlags(Now)
<1>0. /\ Returns("item_popped")
      /\ Becomes(IF w.flags.almostEmpty THEN At(w, "almost_empty") ELSE EmptyOrReturns(w))
  BY DEF ItemPoppedReturns
<1>1. /\ Configured /\ MInv(w) /\ w.Q = Q /\ w.calls # << >> /\ Fresh(w)
      /\ Call(w) = Call(Now) /\ Call(w).pc = "item_popped" /\ ShapeAt(Call(w), "item_popped")
  BY <1>0, AtReturn, FlaggedAtReturn
<1>. HIDE DEF w
<1>2. Call(w).op = "pop" /\ Call(w).pc \notin Forced
  BY <1>1 DEF ShapeAt, PopPlaces, Forced
<1>3. CASE w.flags.almostEmpty
  <2>1. /\ "almost_empty" \in Places /\ ShapeAt(Call(w), "almost_empty")
        /\ FitsAt(Call(w).op, "almost_empty", w.Q) /\ TopFlags("almost_empty", w.flags, w.Q)
    BY <1>1, <1>2, FreshIsRight DEF Places, ShapeAt, PopPlaces, V1Places, V1Checks, Unadded, Roomy,
                                    Once, Succeeds, Forced, FitsAt
  <2>2. Done(w, At(w, "almost_empty"))
    BY <1>1, <1>2, <2>1, WaitsDone
  <2>. QED
    BY <1>0, <1>1, <1>3, <2>2, ToStepped DEF w
<1>4. CASE ~w.flags.almostEmpty
  <2>1. Done(w, EmptyOrReturns(w))
    BY <1>1, <1>2, EmptyOrReturnsDone, FreshIsRight
  <2>. QED
    BY <1>0, <1>1, <1>4, <2>1, ToStepped DEF w
<1>. QED
  BY <1>3, <1>4

LEMMA AlmostEmptyStep ==
    ASSUME Contract, FifoInv, AlmostEmptyReturns
    PROVE  Stepped
<1>0. Returns("almost_empty") /\ Becomes(EmptyOrReturns(Now))
  BY DEF AlmostEmptyReturns
<1>1. /\ Configured /\ MInv(Now) /\ Now.Q = Q /\ Now.calls # << >> /\ Now.flags = flags
      /\ Call(Now).pc = "almost_empty" /\ ShapeAt(Call(Now), "almost_empty")
      /\ TopFlags("almost_empty", flags, Q)
  BY <1>0, AtReturn
<1>2. Call(Now).op = "pop" /\ FlagsRight(Now.flags, Now.Q) /\ Call(Now).pc \notin Forced
  BY <1>1 DEF ShapeAt, PopPlaces, TopFlags, Unsettled, Forced
<1>3. Done(Now, EmptyOrReturns(Now))
  BY <1>1, <1>2, EmptyOrReturnsDone
<1>. QED
  BY <1>0, <1>1, <1>3, ToStepped

LEMMA EmptyStep ==
    ASSUME Contract, FifoInv, EmptyReturns
    PROVE  Stepped
<1>0. Returns("empty") /\ Becomes(Returning(Now, TRUE))
  BY DEF EmptyReturns
<1>1. /\ Configured /\ MInv(Now) /\ Now.Q = Q /\ Now.calls # << >> /\ Now.flags = flags
      /\ Call(Now).pc = "empty" /\ ShapeAt(Call(Now), "empty") /\ TopFlags("empty", flags, Q)
  BY <1>0, AtReturn
<1>2. Call(Now).op = "pop" /\ FlagsRight(Now.flags, Now.Q) /\ Call(Now).pc \notin Forced
  BY <1>1 DEF ShapeAt, PopPlaces, TopFlags, Unsettled, Forced
<1>3. Done(Now, Returning(Now, TRUE))
  BY <1>1, <1>2, ReturnsDone
<1>. QED
  BY <1>0, <1>1, <1>3, ToStepped

-----------------------------------------------------------------------------
(* Callbacks of V1_0                                                       *)

LEMMA V1_RefusalStep ==
    ASSUME Contract, FifoInv, V1_RefusalReturns
    PROVE  Stepped
<1>1. PICK place \in {"V1_full", "V1_empty"} :
          Returns(place) /\ Becomes(Returning(Now, FALSE))
  BY DEF V1_RefusalReturns
<1>2. /\ Configured /\ MInv(Now) /\ Now.Q = Q /\ Now.calls # << >> /\ Now.flags = flags
      /\ Call(Now).pc = place /\ ShapeAt(Call(Now), place)
  BY <1>1, AtReturn
<1>3. /\ Call(Now).op = "push" => Truth(Call(Now).times, FALSE)
      /\ version = "V1_0" /\ Call(Now).pc \notin Forced
  BY <1>1, <1>2 DEF ShapeAt, PopPlaces, Unadded, V1Places, Forced, Truth
<1>4. FlagsRight(Now.flags, Now.Q)
  BY <1>3 DEF FlagsRight, FullRight, EmptyRight
<1>5. Done(Now, Returning(Now, FALSE))
  BY <1>2, <1>3, <1>4, ReturnsDone
<1>. QED
  BY <1>1, <1>2, <1>5, ToStepped

LEMMA V1_ReadyAtReturn ==
    ASSUME Contract, FifoInv, NEW place \in V1Checks, Returns(place)
    PROVE  V1Ready(Now)
<1>1. /\ Now.Q = Q /\ Call(Now).pc = place /\ ShapeAt(Call(Now), place)
      /\ FitsAt(Call(Now).op, place, Q)
  BY AtReturn
<1>2. place \in Roomy /\ place \in Unadded /\ place \in V1Places /\ place \notin Forced
  BY DEF V1Checks, Roomy, Unadded, V1Places, Forced
<1>. QED
  BY <1>1, <1>2 DEF V1Ready, ShapeAt, FitsAt

LEMMA V1_AlmostStep ==
    ASSUME Contract, FifoInv, V1_AlmostEmptyReturns \/ V1_AlmostFullReturns
    PROVE  Stepped
<1>1. CASE V1_AlmostEmptyReturns
  <2>1. Returns("V1_almost_empty") /\ "V1_almost_empty" \in V1Checks
        /\ Becomes(V1_CheckedFull(Now))
    BY <1>1 DEF V1_AlmostEmptyReturns, V1Checks
  <2>2. Configured /\ MInv(Now) /\ Now.Q = Q /\ Now.calls # << >> /\ V1Ready(Now)
    BY <2>1, AtReturn, V1_ReadyAtReturn
  <2>3. Done(Now, V1_CheckedFull(Now))
    BY <2>2, V1CheckedFullDone
  <2>. QED
    BY <2>1, <2>2, <2>3, ToStepped
<1>2. CASE V1_AlmostFullReturns
  <2>1. Returns("V1_almost_full") /\ "V1_almost_full" \in V1Checks /\ Becomes(V1_Checked(Now))
    BY <1>2 DEF V1_AlmostFullReturns, V1Checks
  <2>2. Configured /\ MInv(Now) /\ Now.Q = Q /\ Now.calls # << >> /\ V1Ready(Now)
    BY <2>1, AtReturn, V1_ReadyAtReturn
  <2>3. Done(Now, V1_Checked(Now))
    BY <2>2, V1CheckedDone
  <2>. QED
    BY <2>1, <2>2, <2>3, ToStepped
<1>. QED
  BY <1>1, <1>2

LEMMA V1_NewItemStep ==
    ASSUME Contract, FifoInv, V1_NewItemReturns
    PROVE  Stepped
<1>. DEFINE k == Call(Now)
            a == [k EXCEPT !.times = @ + 1]
            b == [k EXCEPT !.pc = "new_item_available", !.times = @ + 1]
            m == SetCall(Now, a)
            s == SetCall(Now, b)
            d == [m EXCEPT !.Q = << Call(m).value >> \o @]
            e == [s EXCEPT !.Q = << k.value >> \o @]
<1>0. Returns("V1_new_item_available") /\ Becomes(Returning(d, TRUE))
  BY DEF V1_NewItemReturns
<1>1. /\ Configured /\ MInv(Now) /\ Now.Q = Q /\ Now.calls # << >> /\ k \in Frames
      /\ Now \in Machines /\ ShapeAt(k, "V1_new_item_available")
      /\ FitsAt(k.op, "V1_new_item_available", Q) /\ Q \in Seq(Values)
  BY <1>0, AtReturn DEF Machines
<1>2. "V1_new_item_available" \in Places /\ "V1_new_item_available" \notin PopPlaces \cup V1Checks
  BY DEF Places, PopPlaces, V1Checks
<1>3. k.op = "push" /\ k.times = 0 /\ Len(Q) < size /\ version = "V1_0"
  BY <1>1, <1>2, Pushing DEF ShapeAt, FitsAt, Unadded, Roomy, V1Places
<1>4. k.value \in Values
  <2>1. Shape(k)
    BY <1>1, CallIsAFrame DEF MInv
  <2>. QED
    BY <1>3, <2>1 DEF Shape
<1>5. Added(Now, "new_item_available") = e
  BY DEF Added
<1>. HIDE DEF k
<1>6. /\ a \in Frames /\ a.op = "push" /\ a.times = 1 /\ a.value = k.value
      /\ b \in Frames /\ b.op = "push" /\ b.times = 1 /\ b.pc = "new_item_available"
  <2>1. k.times + 1 = 1
    BY <1>3
  <2>2. a = [k EXCEPT !.times = 1] /\ b = [k EXCEPT !.pc = "new_item_available", !.times = 1]
    BY <2>1, Zenon
  <2>. HIDE DEF a, b
  <2>3. 1 \in Nat /\ "new_item_available" \in Places
    BY DEF Places
  <2>. QED
    BY <1>1, <1>3, <2>2, <2>3 DEF Frames
<1>. HIDE DEF a, b
<1>7. /\ m \in Machines /\ m.calls = Append(Front(Now.calls), a) /\ m.Q = Now.Q
      /\ m.flags = Now.flags /\ m.returned = Now.returned /\ Call(m) = a
      /\ (m.undefined <=> Now.undefined)
  BY <1>1, <1>6, SetCallFields
<1>8. /\ s \in Machines /\ s.calls = Append(Front(Now.calls), b) /\ s.Q = Now.Q
      /\ s.flags = Now.flags /\ s.returned = Now.returned /\ Call(s) = b
      /\ (s.undefined <=> Now.undefined)
  BY <1>1, <1>6, SetCallFields
<1>. HIDE DEF m, s
<1>9. << k.value >> \o Q \in Seq(Values)
  <2>1. << k.value >> \in Seq(Values)
    BY <1>4
  <2>. QED
    BY <1>1, <2>1, ConcatProperties
<1>10. /\ d \in Machines /\ d.calls = m.calls /\ d.Q = << k.value >> \o Q
       /\ d.flags = m.flags /\ d.returned = m.returned /\ d.undefined = m.undefined
  BY <1>1, <1>6, <1>7, <1>9 DEF Machines
<1>11. /\ e \in Machines /\ e.calls = s.calls /\ e.Q = << k.value >> \o Q
       /\ e.flags = s.flags /\ e.returned = s.returned /\ e.undefined = s.undefined
  BY <1>1, <1>8, <1>9 DEF Machines
<1>. HIDE DEF d, e
<1>12. Call(d) = a /\ Call(e) = b
  BY <1>7, <1>8, <1>10, <1>11 DEF Call
<1>13. Front(d.calls) = Front(e.calls) /\ e.calls # << >>
  <2>1. Now.calls \in Seq(Frames)
    BY <1>1 DEF Machines
  <2>2. /\ Front(Append(Front(Now.calls), a)) = Front(Now.calls)
        /\ Front(Append(Front(Now.calls), b)) = Front(Now.calls)
        /\ Append(Front(Now.calls), b) # << >>
    BY <1>1, <1>6, <2>1, TopReplaced
  <2>. QED
    BY <1>7, <1>8, <1>10, <1>11, <2>2
<1>14. m.undefined = s.undefined
  BY <1>7, <1>8 DEF Machines
<1>15. Returning(d, TRUE) = Returning(e, TRUE)
  <2>1. /\ d.Q = e.Q /\ d.flags = e.flags /\ d.undefined = e.undefined
        /\ d.returned = e.returned
    BY <1>7, <1>8, <1>10, <1>11, <1>14
  <2>2. Call(d).op = Call(e).op /\ Call(d).times = Call(e).times
    BY <1>6, <1>12
  <2>3. d \in Machines /\ e \in Machines /\ TRUE \in BOOLEAN
    BY <1>10, <1>11
  <2>. QED
    BY <1>13, <2>1, <2>2, <2>3, ReturningAlike
<1>16. Done(Now, e)
  <2>1. "new_item_available" \in Once \cap Unsettled
    BY DEF Once, Unsettled
  <2>2. Done(Now, Added([Now EXCEPT !.Q = Now.Q], "new_item_available"))
    BY <1>1, <1>3, <2>1, AddsDone DEF k
  <2>. QED
    BY <1>1, <1>5, <2>2, SameContents
<1>17. /\ Truth(Call(e).times, TRUE) /\ FlagsRight(e.flags, e.Q) /\ Call(e).pc \notin Forced
  BY <1>3, <1>6, <1>12 DEF Truth, FlagsRight, FullRight, EmptyRight, Forced
<1>18. Done(e, Returning(e, TRUE)) /\ Returning(e, TRUE).Q = e.Q
  BY <1>1, <1>13, <1>16, <1>17, ReturnsDone, Returned DEF Done
<1>19. Done(Now, Returning(e, TRUE))
  BY <1>16, <1>18 DEF Done
<1>. QED
  BY <1>0, <1>1, <1>15, <1>19, ToStepped DEF d, m, a, k

-----------------------------------------------------------------------------
(* What the user does without a call in between                            *)

LEMMA AfterUser ==
    ASSUME Contract, FifoInv, NEW op \in {"clear", "resize", "restyle"}, UserMay(op),
           UNCHANGED << version, calls, undefined, returned >>, Configured',
           Q' \in Seq(Values), flags' \in Flags, Bounded' => Len(Q') <= size',
           FullRight(flags, Q) => FullRight(flags, Q)',
           EmptyRight(flags, Q) => EmptyRight(flags, Q)',
           IF op = "clear" THEN Q' = << >> ELSE Q # << >> => Q' # << >>,
           op # "restyle" => sizeStyle' = sizeStyle
    PROVE  FifoInv'
<1>. DEFINE n == Len(calls)
<1>1. /\ Now.Q = Q /\ Now.flags = flags /\ Now.calls = calls /\ Now.returned = returned
      /\ Now.undefined = undefined /\ calls \in Seq(Frames) /\ returned \in Answers
      /\ undefined \in BOOLEAN
  BY NowFields DEF FifoInv
<1>2. PICK r : r = Now'
  OBVIOUS
<1>3. /\ r = [Q |-> Q', flags |-> flags', calls |-> calls',
              undefined |-> undefined', returned |-> returned']
  BY <1>2 DEF Now
<1>4. /\ r \in Machines /\ r.Q = Q' /\ r.flags = flags' /\ r.calls = calls
      /\ r.undefined = undefined /\ r.returned = returned
  BY <1>1, <1>3 DEF Machines
<1>5. \A i \in 1 .. n : /\ calls[i].pc \in Places /\ op \in Reenter[calls[i].pc]
                        /\ Shape(calls[i]) /\ Fits(calls[i], Q)
  <2>1. DOMAIN calls = 1 .. n
    BY <1>1, LenProperties
  <2>. QED
    BY <1>1, <2>1 DEF UserMay, FifoInv, MInv
<1>6. \A c : Shape(c)' <=> Shape(c)
  BY DEF Shape, ShapeAt
<1>7. ASSUME NEW i \in 1 .. n
      PROVE  Fits(r.calls[i], r.Q)'
  <2>. DEFINE d == calls[i]
  <2>1. /\ d.pc \notin V1Checks \cup {"new_item_overwrite"}
        /\ d.pc \in Roomy => op = "clear"
        /\ d.pc = "overflow" => op # "restyle"
    <3>1. op \in Reenter[d.pc] /\ op \in {"clear", "resize", "restyle"}
      BY <1>5
    <3>2. d.pc \notin V1Checks \cup {"new_item_overwrite"}
      BY <3>1 DEF Contract, V1Checks
    <3>. QED
      BY <3>1, <3>2 DEF Contract, V1Checks, Roomy
  <2>2. Fits(d, Q)
    BY <1>5
  <2>3. Q' = << >> => Len(Q') < size'
    BY FifoAssumption DEF Configured
  <2>4. PICK c : c = d
    OBVIOUS
  <2>5. Fits(c, r.Q)'
    BY <1>4, <2>1, <2>2, <2>3, <2>4 DEF Fits, FitsAt
  <2>6. r.calls[i] = c
    BY <1>4, <2>4
  <2>. QED
    BY <2>5, <2>6
<1>8. ASSUME NEW i \in 1 .. n, calls[i].pc = "insufficient_elements"
      PROVE  r.Q # << >>
  <2>1. op \in Reenter["insufficient_elements"]
    BY <1>5, <1>8
  <2>2. op # "clear"
    BY <2>1 DEF Contract
  <2>3. n \in 1 .. n
    BY <1>1, LenProperties
  <2>4. op \in Reenter[calls[n].pc] /\ op # "pop"
    BY <1>5, <2>3
  <2>5. calls[n].pc \notin Forced
    BY <2>2, <2>4 DEF Contract, Forced
  <2>6. Q # << >>
    BY <1>1, <1>8, <2>5 DEF FifoInv, MInv
  <2>. QED
    BY <1>4, <2>2, <2>6
<1>9. /\ FullRight(flags, Q) => FullRight(r.flags, r.Q)'
      /\ EmptyRight(flags, Q) => EmptyRight(r.flags, r.Q)'
  BY <1>4 DEF FullRight, EmptyRight
<1>10. /\ r.calls # << >> => TopFlags(r.calls[Len(r.calls)].pc, r.flags, r.Q)'
       /\ r.calls = << >> => FlagsRight(r.flags, r.Q)'
  <2>1. /\ calls # << >> => TopFlags(calls[Len(calls)].pc, flags, Q)
        /\ calls = << >> => FlagsRight(flags, Q)
    BY <1>1 DEF FifoInv, MInv
  <2>. QED
    BY <1>4, <1>9, <2>1 DEF TopFlags, FlagsRight
<1>11. MInv(r)'
  <2>1. \A i, j \in 1 .. n : i < j => calls[i].pc \in Places /\ calls[j].op \in Reenter[calls[i].pc]
    BY <1>1 DEF FifoInv, MInv
  <2>2. Truth(returned.times, returned.retVal) /\ ~undefined
    BY <1>1 DEF FifoInv, MInv
  <2>3. \A i \in 1 .. n : Shape(r.calls[i])' /\ Fits(r.calls[i], r.Q)'
    BY <1>4, <1>5, <1>6, <1>7
  <2>. QED
    BY <1>4, <1>8, <1>10, <2>1, <2>2, <2>3 DEF MInv
<1>12. MInv(Now)'
  BY <1>2, <1>11
<1>. QED
  BY <1>5, <1>12 DEF FifoInv

LEMMA ClearStep ==
    ASSUME Contract, FifoInv, Clear
    PROVE  FifoInv' /\ [Queue!Next]_(Queue!vars)
<1>. DEFINE m == [Q |-> << >>, flags |-> flags, calls |-> calls,
                  undefined |-> undefined, returned |-> returned]
<1>1. /\ UserMay("clear") /\ Q' = << >> /\ flags' = CtrlFlags(<< >>, flags, TRUE)
      /\ UNCHANGED << version, size, sizeStyle, overflowStyle, calls, undefined, returned >>
  BY DEF Clear
<1>2. /\ flags \in Flags /\ calls \in Seq(Frames) /\ undefined \in BOOLEAN
      /\ returned \in Answers
  BY NowFields DEF FifoInv
<1>3. << >> \in Seq(Values) /\ Len(<< >>) = 0
  OBVIOUS
<1>4. m \in Machines /\ m.Q = << >> /\ m.flags = flags
  BY <1>2, <1>3 DEF Machines
<1>5. WithFlags(m) \in Machines /\ Fresh(WithFlags(m)) /\ WithFlags(m).Q = << >>
  BY <1>4, WithFlagsFields
<1>6. WithFlags(m).flags = flags'
  <2>1. WithFlags(m) = [m EXCEPT !.flags = CtrlFlags(<< >>, flags, TRUE)]
    BY <1>4 DEF WithFlags
  <2>. HIDE DEF m
  <2>. QED
    BY <1>1, <1>4, <2>1 DEF Machines
<1>. HIDE DEF m
<1>7. /\ flags' \in Flags
      /\ flags'.full <=> Len(<< >>) = size
      /\ flags'.empty
  BY <1>5, <1>6 DEF Fresh, Machines
<1>8. FullRight(flags, Q)' /\ EmptyRight(flags, Q)'
  BY <1>1, <1>7 DEF FullRight, EmptyRight
<1>9. Configured' /\ (Bounded' => Len(Q') <= size') /\ sizeStyle' = sizeStyle
  BY <1>1, <1>3, FifoAssumption DEF FifoInv, Configured
<1>10. FifoInv'
  BY <1>1, <1>3, <1>7, <1>8, <1>9, AfterUser
<1>11. Queue!Clear
  BY <1>1 DEF Queue!Clear
<1>. QED
  BY <1>10, <1>11 DEF Queue!Next

\* update_size_config: what Configure does to the contents, and the flag full.
LEMMA UpdateSizeConfigStep ==
    ASSUME Contract, FifoInv, NEW op \in {"resize", "restyle"}, UserMay(op),
           NEW n \in Sizes, NEW style \in SizeStyles, UpdateSizeConfig(n, style),
           op = "resize" => style = sizeStyle /\ version # "V1_0",
           op = "restyle" => n = size
    PROVE  FifoInv' /\ [Queue!Next]_(Queue!vars)
<1>. DEFINE q == Resized(n, style)
            short == style = "fixed" /\ Len(Q) # n
            full == style # "flex" /\ Len(q) = n
<1>1. /\ size' = n /\ sizeStyle' = style /\ Q' = q
      /\ flags' = [flags EXCEPT !.insufficient = short, !.full = full]
      /\ UNCHANGED << version, overflowStyle, calls, undefined, returned >>
  BY DEF UpdateSizeConfig
<1>2. /\ flags \in Flags /\ Q \in Seq(Values) /\ Len(Q) \in Nat /\ n \in Nat \ {0}
      /\ Configured /\ (Bounded => Len(Q) <= size)
  BY NowFields, LenProperties, FifoAssumption DEF FifoInv, MInv
<1>3. /\ q \in Seq(Values) /\ (style # "flex" => Len(q) <= n) /\ (Len(Q) <= n => q = Q)
      /\ Q = << >> <=> q = << >>
  <2>1. CASE style # "flex" /\ Len(Q) > n
    <3>1. n \in 0 .. Len(Q)
      BY <1>2, <2>1
    <3>2. SubSeq(Q, 1, n) \in Seq(Values) /\ Len(SubSeq(Q, 1, n)) = n
      BY <1>2, <3>1, Beginning
    <3>3. q = SubSeq(Q, 1, n)
      BY <2>1 DEF Resized
    <3>. QED
      BY <1>2, <2>1, <3>2, <3>3, EmptySeq
  <2>2. CASE ~(style # "flex" /\ Len(Q) > n)
    BY <1>2, <2>2 DEF Resized
  <2>. QED
    BY <2>1, <2>2
<1>4. short \in BOOLEAN /\ full \in BOOLEAN
  OBVIOUS
<1>5. full <=> (style # "flex" /\ Len(q) = n)
  OBVIOUS
<1>. HIDE DEF q, short, full
<1>6. /\ flags' \in Flags
      /\ flags'.full <=> full
      /\ flags'.empty <=> flags.empty
  BY <1>1, <1>2, <1>4 DEF Flags
<1>7. FullRight(flags, Q)'
  BY <1>1, <1>5, <1>6 DEF FullRight
<1>8. EmptyRight(flags, Q) => EmptyRight(flags, Q)'
  BY <1>1, <1>3, <1>6 DEF EmptyRight
<1>9. Configured' /\ (Bounded' => Len(Q') <= size')
  <2>1. Configured'
    BY <1>1, <1>2 DEF Configured
  <2>2. ASSUME Bounded' PROVE Len(Q') <= size'
    <3>1. CASE style # "flex"
      BY <1>1, <1>3, <3>1
    <3>2. CASE style = "flex"
      <4>1. version = "V1_0" /\ Bounded /\ n = size
        BY <1>1, <2>2, <3>2 DEF Bounded
      <4>. QED
        BY <1>1, <1>2, <1>3, <4>1
    <3>. QED
      BY <3>1, <3>2
  <2>. QED
    BY <2>1, <2>2
<1>10. FifoInv'
  BY <1>1, <1>3, <1>6, <1>7, <1>8, <1>9, AfterUser
<1>11. Queue!Configure
  <2>. DEFINE old == IF version = "V1_0" THEN "max" ELSE sizeStyle
  <2>1. /\ size' \in Sizes /\ old' \in Queue!SizeStyles
        /\ overflowStyle' \in Queue!OverflowStyles
    BY <1>1, <1>2 DEF Configured, Queue!SizeStyles, Queue!OverflowStyles, SizeStyles,
                      OverflowStyles
  <2>2. Q' = IF old' # "flex" /\ Len(Q) > size' THEN SubSeq(Q, 1, size') ELSE Q
    <3>1. CASE version = "V1_0"
      <4>1. Len(Q) <= n
        BY <1>2, <3>1 DEF Bounded
      <4>2. ~(Len(Q) > n)
        BY <1>2, <4>1
      <4>. QED
        BY <1>1, <1>3, <4>1, <4>2
    <3>2. CASE version # "V1_0"
      BY <1>1, <3>2 DEF q, Resized
    <3>. QED
      BY <3>1, <3>2
  <2>. QED
    BY <2>1, <2>2 DEF Queue!Configure
<1>. QED
  BY <1>10, <1>11 DEF Queue!Next

LEMMA SetOverflowStyleStep ==
    ASSUME Contract, FifoInv, NEW style \in OverflowStyles, SetOverflowStyle(style)
    PROVE  FifoInv' /\ [Queue!Next]_(Queue!vars)
<1>1. /\ UserMay("restyle") /\ overflowStyle' = style
      /\ UNCHANGED << version, Q, size, sizeStyle, flags, calls, undefined, returned >>
  BY DEF SetOverflowStyle
<1>2. /\ flags \in Flags /\ Q \in Seq(Values) /\ Len(Q) \in Nat /\ size \in Nat
      /\ Configured /\ (Bounded => Len(Q) <= size)
  BY NowFields, LenProperties, FifoAssumption DEF FifoInv, MInv, Configured
<1>3. /\ FullRight(flags, Q)' <=> FullRight(flags, Q)
      /\ EmptyRight(flags, Q)' <=> EmptyRight(flags, Q)
      /\ Bounded' <=> Bounded
  BY <1>1 DEF FullRight, EmptyRight, Bounded
<1>4. Configured'
  BY <1>1, <1>2 DEF Configured
<1>5. FifoInv'
  BY <1>1, <1>2, <1>3, <1>4, AfterUser
<1>6. Queue!Configure
  <2>. DEFINE old == IF version = "V1_0" THEN "max" ELSE sizeStyle
  <2>1. /\ size' \in Sizes /\ old' \in Queue!SizeStyles
        /\ overflowStyle' \in Queue!OverflowStyles
    BY <1>1, <1>2 DEF Configured, Queue!SizeStyles, Queue!OverflowStyles, SizeStyles,
                      OverflowStyles
  <2>2. old' # "flex" => Bounded
    BY <1>1 DEF Bounded
  <2>3. Q' = IF old' # "flex" /\ Len(Q) > size' THEN SubSeq(Q, 1, size') ELSE Q
    BY <1>1, <1>2, <2>2
  <2>. QED
    BY <2>1, <2>3 DEF Queue!Configure
<1>. QED
  BY <1>5, <1>6 DEF Queue!Next

-----------------------------------------------------------------------------
(* The theorems                                                            *)

LEMMA Initially ==
    ASSUME Init
    PROVE  FifoInv /\ Queue!Init
<1>1. /\ version \in Versions /\ Q = << >> /\ size \in Sizes /\ sizeStyle \in SizeStyles
      /\ overflowStyle \in OverflowStyles /\ calls = << >> /\ undefined = FALSE
      /\ returned = [retVal |-> TRUE, times |-> 1]
      /\ flags = [full |-> FALSE, empty |-> TRUE, almostEmpty |-> TRUE,
                  almostFull |-> FALSE, insufficient |-> sizeStyle = "fixed"]
  BY DEF Init
<1>2. Q \in Seq(Values) /\ calls \in Seq(Frames) /\ Len(Q) = 0 /\ Len(calls) = 0
  BY <1>1
<1>3. flags \in Flags /\ ~flags.full /\ flags.empty
  <2>. DEFINE short == sizeStyle = "fixed"
  <2>1. short \in BOOLEAN
    OBVIOUS
  <2>2. flags = [full |-> FALSE, empty |-> TRUE, almostEmpty |-> TRUE,
                 almostFull |-> FALSE, insufficient |-> short]
    BY <1>1
  <2>. HIDE DEF short
  <2>. QED
    BY <2>1, <2>2 DEF Flags
<1>4. returned \in Answers /\ Truth(returned.times, returned.retVal)
  BY <1>1 DEF Answers, Truth
<1>5. /\ Now \in Machines /\ Now.Q = Q /\ Now.flags = flags /\ Now.calls = calls
      /\ Now.returned = returned /\ Now.undefined = FALSE
  BY <1>1, <1>2, <1>3, <1>4 DEF Now, Machines
<1>6. size \in Nat \ {0} /\ Configured
  BY <1>1, FifoAssumption DEF Configured
<1>7. FlagsRight(flags, Q)
  BY <1>1, <1>2, <1>3, <1>6 DEF FlagsRight, FullRight, EmptyRight
<1>8. MInv(Now)
  <2>1. Now.calls = << >> /\ \A i \in 1 .. Len(Now.calls) : FALSE
    BY <1>1, <1>2, <1>5
  <2>2. Len(Now.Q) <= size /\ FlagsRight(Now.flags, Now.Q)
    BY <1>2, <1>5, <1>6, <1>7
  <2>3. Truth(Now.returned.times, Now.returned.retVal) /\ ~Now.undefined
    BY <1>4, <1>5
  <2>. QED
    BY <1>5, <2>1, <2>2, <2>3 DEF MInv
<1>9. Queue!Init
  BY <1>1 DEF Queue!Init, Queue!SizeStyles, Queue!OverflowStyles, SizeStyles, OverflowStyles
<1>. QED
  BY <1>2, <1>6, <1>8, <1>9 DEF FifoInv

LEMMA Stuttering ==
    ASSUME FifoInv, UNCHANGED vars
    PROVE  FifoInv' /\ [Queue!Next]_(Queue!vars)
<1>1. /\ UNCHANGED << version, size, sizeStyle, overflowStyle >>
      /\ Q' = Q /\ flags' = flags /\ calls' = calls /\ undefined' = undefined
      /\ returned' = returned
  BY DEF vars
<1>2. PICK m : m = Now
  OBVIOUS
<1>3. Now' = m
  BY <1>1, <1>2 DEF Now
<1>4. MInv(m)'
  <2>1. MInv(m)
    BY <1>2 DEF FifoInv
  <2>. QED
    BY <1>1, <2>1, SameJudgement
<1>5. MInv(Now)'
  BY <1>3, <1>4
<1>6. FifoInv'
  BY <1>1, <1>5 DEF FifoInv, Configured
<1>7. UNCHANGED Queue!vars
  BY <1>1 DEF Queue!vars
<1>. QED
  BY <1>6, <1>7

LEMMA EveryStep ==
    ASSUME Contract, FifoInv, [Next]_vars
    PROVE  FifoInv' /\ [Queue!Next]_(Queue!vars)
<1>1. CASE UNCHANGED vars
  BY <1>1, Stuttering
<1>2. ASSUME NEW v \in Values, Push(v) PROVE Stepped
  BY <1>2, PushStep
<1>3. ASSUME NEW n \in Sizes, SetSize(n)
      PROVE  FifoInv' /\ [Queue!Next]_(Queue!vars)
  <2>1. sizeStyle \in SizeStyles
    BY DEF FifoInv, Configured
  <2>. QED
    BY <1>3, <2>1, UpdateSizeConfigStep DEF SetSize
<1>4. ASSUME NEW style \in SizeStyles, SetSizeStyle(style)
      PROVE  FifoInv' /\ [Queue!Next]_(Queue!vars)
  <2>1. size \in Sizes
    BY DEF FifoInv, Configured
  <2>. QED
    BY <1>4, <2>1, UpdateSizeConfigStep DEF SetSizeStyle
<1>5. ASSUME NEW style \in OverflowStyles, SetOverflowStyle(style)
      PROVE  FifoInv' /\ [Queue!Next]_(Queue!vars)
  BY <1>5, SetOverflowStyleStep
<1>6. ASSUME \/ OverflowReturns \/ OverrunReturns \/ ForcedPopReturns
             \/ ForcedItemPoppedReturns \/ NewItemForcedReturns \/ NewItemOverwriteReturns
             \/ NewItemReturns \/ AlmostFullReturns \/ FullReturns
             \/ NewItemFlexReturns \/ AlmostFullFlexReturns
      PROVE  Stepped
  BY <1>6, OverflowStep, OverrunStep, ForcedPopStep, ForcedItemPoppedStep, NewItemForcedStep,
     NewItemOverwriteStep, NewItemStep, AlmostFullStep, FullStep, NewItemFlexStep,
     AlmostFullFlexStep
<1>7. ASSUME \/ Pop \/ UnderflowReturns \/ InsufficientReturns \/ ItemPoppedReturns
             \/ AlmostEmptyReturns \/ EmptyReturns
             \/ V1_RefusalReturns \/ V1_AlmostEmptyReturns \/ V1_AlmostFullReturns
             \/ V1_NewItemReturns
      PROVE  Stepped
  BY <1>7, PopStep, UnderflowStep, InsufficientStep, ItemPoppedStep, AlmostEmptyStep, EmptyStep,
     V1_RefusalStep, V1_AlmostStep, V1_NewItemStep
<1>8. CASE Stepped
  BY <1>8, AfterStep
<1>9. CASE Clear
  BY <1>9, ClearStep
<1>. QED
  BY <1>1, <1>2, <1>3, <1>4, <1>5, <1>6, <1>7, <1>8, <1>9 DEF Next

LEMMA AlwaysFifoInv ==
    ASSUME Contract
    PROVE  Spec => []FifoInv
<1>1. Init => FifoInv
  BY Initially
<1>2. FifoInv /\ [Next]_vars => FifoInv'
  BY EveryStep
<1>. QED
  BY <1>1, <1>2, PTL DEF Spec

\* The fifo implements the bounded queue, whatever callbacks within the
\* contract do in the middle of a push or a pop.
THEOREM FifoKeepsItsPromise ==
    ASSUME Contract
    PROVE  Spec => KeepsItsPromise
<1>1. Init => Queue!Init
  BY Initially
<1>2. FifoInv /\ [Next]_vars => [Queue!Next]_(Queue!vars)
  BY EveryStep
<1>. QED
  BY <1>1, <1>2, AlwaysFifoInv, PTL DEF Spec, KeepsItsPromise, Queue!Spec

\* push returns true exactly when it has added its element, and then once.
THEOREM FifoPushTellsTheTruth ==
    ASSUME Contract
    PROVE  Spec => []PushTellsTheTruth
<1>1. FifoInv => PushTellsTheTruth
  <2>. SUFFICES ASSUME FifoInv PROVE PushTellsTheTruth
    OBVIOUS
  <2>1. Truth(returned.times, returned.retVal)
    BY NowFields DEF FifoInv, MInv
  <2>. QED
    BY <2>1 DEF PushTellsTheTruth, Truth
<1>. QED
  BY <1>1, AlwaysFifoInv, PTL

\* Nothing is taken from an empty fifo, and at rest the flags full and empty
\* are those of the contents.
THEOREM FifoFlagsCanBeReliedOn ==
    ASSUME Contract
    PROVE  Spec => []FlagsCanBeReliedOn
<1>1. FifoInv => FlagsCanBeReliedOn
  <2>. SUFFICES ASSUME FifoInv PROVE FlagsCanBeReliedOn
    OBVIOUS
  <2>1. /\ ~undefined /\ flags \in Flags
        /\ calls = << >> => FlagsRight(flags, Q)
    BY NowFields DEF FifoInv, MInv
  <2>2. flags.empty \in BOOLEAN /\ flags.full \in BOOLEAN
    BY <2>1 DEF Flags
  <2>3. ASSUME calls = << >>, version # "V1_0"
        PROVE  /\ flags.empty = (Q = << >>)
               /\ sizeStyle # "flex" => flags.full = (Len(Q) = size)
    <3>1. flags.empty <=> Q = << >>
      BY <2>1, <2>3 DEF FlagsRight, EmptyRight
    <3>2. sizeStyle # "flex" => (flags.full <=> Len(Q) = size)
      BY <2>1, <2>3 DEF FlagsRight, FullRight
    <3>. QED
      BY <2>2, <3>1, <3>2
  <2>. QED
    BY <2>1, <2>3 DEF FlagsCanBeReliedOn
<1>. QED
  BY <1>1, AlwaysFifoInv, PTL

=============================================================================
