----------------------- MODULE RegisterBitfieldsProofs -----------------------
(***************************************************************************)
(* Proofs about RegisterBitfields, for any register, bitfields and number  *)
(* of changes: accesses reach the callbacks that are set, and the pieces   *)
(* of an access are put together right as long as callbacks put the bits   *)
(* of their own bitfield only.                                             *)
(***************************************************************************)
EXTENDS RegisterBitfields, FiniteSetTheorems, NaturalsInduction, WellFoundedInduction, TLAPS

-----------------------------------------------------------------------------
(* The callbacks and the flags of the register.                            *)
ConfigTypeOK ==
    /\ callbacks \in [Kinds \cup {"post"} -> SUBSET Fields]
    /\ installed \in [Kinds -> {"default", "bitfields", "user"}]
    /\ hasUser \in [Kinds -> BOOLEAN]
    /\ hasDefaultFields \in [Kinds -> BOOLEAN]
    /\ hasPost \in BOOLEAN

ConfigInv == ConfigTypeOK /\ CallbacksAreReached

\* A first callback of a kind is registered.
LEMMA InstalledForType ==
    ASSUME ConfigTypeOK, NEW k \in Kinds
    PROVE  /\ InstalledFor(k) \in [Kinds -> {"default", "bitfields", "user"}]
           /\ \A l \in Kinds : InstalledFor(k)[l] =
                  IF l = k /\ installed[k] = "default" THEN "bitfields" ELSE installed[l]
  BY DEF ConfigTypeOK, InstalledFor

\* One lemma per operation that sets or removes a callback.
LEMMA SetFieldCallbackReached ==
    ASSUME ConfigInv, NEW k \in Kinds, NEW f \in Fields, SetFieldCallback(k, f)
    PROVE  ConfigInv'
  <1>1. ConfigTypeOK'
    BY InstalledForType DEF ConfigInv, ConfigTypeOK, SetFieldCallback
  <1>2. CallbacksAreReached'
    <2>1. CASE f \in callbacks[k]
      <3>1. callbacks' = callbacks
        BY <2>1 DEF ConfigInv, ConfigTypeOK, SetFieldCallback
      <3> QED
        BY <2>1, <3>1 DEF ConfigInv, CallbacksAreReached, SetFieldCallback
    <2>2. CASE f \notin callbacks[k]
      <3>1. \A l \in Kinds :
                /\ callbacks'[l] = IF l = k THEN callbacks[k] \cup {f} ELSE callbacks[l]
                /\ hasDefaultFields'[l] = IF l = k THEN FALSE ELSE hasDefaultFields[l]
                /\ installed'[l] = IF l = k /\ installed[k] = "default"
                                   THEN "bitfields" ELSE installed[l]
        <4>1. installed' = InstalledFor(k)
          BY <2>2 DEF SetFieldCallback
        <4>2. \A l \in Kinds : installed'[l] = IF l = k /\ installed[k] = "default"
                                               THEN "bitfields" ELSE installed[l]
          BY <4>1, InstalledForType DEF ConfigInv
        <4>3. \A l \in Kinds : hasDefaultFields'[l] = IF l = k THEN FALSE ELSE hasDefaultFields[l]
          BY <2>2 DEF ConfigInv, ConfigTypeOK, SetFieldCallback
        <4>4. \A l \in Kinds : callbacks'[l] = IF l = k THEN callbacks[k] \cup {f} ELSE callbacks[l]
          BY DEF ConfigInv, ConfigTypeOK, SetFieldCallback
        <4> QED
          BY <4>2, <4>3, <4>4
      <3>2. hasUser' = hasUser /\ hasPost' = hasPost
        BY DEF SetFieldCallback
      <3> QED
        BY <3>1, <3>2 DEF ConfigInv, ConfigTypeOK, CallbacksAreReached
    <2> QED
      BY <2>1, <2>2
  <1> QED
    BY <1>1, <1>2 DEF ConfigInv

LEMMA RemoveFieldCallbackReached ==
    ASSUME ConfigInv, NEW k \in Kinds, NEW f \in Fields, RemoveFieldCallback(k, f)
    PROVE  ConfigInv'
  <1>1. ConfigTypeOK'
    BY DEF ConfigInv, ConfigTypeOK, RemoveFieldCallback
  <1>2. \A l \in Kinds : callbacks'[l] = IF l = k THEN callbacks[k] \ {f} ELSE callbacks[l]
    BY DEF ConfigInv, ConfigTypeOK, RemoveFieldCallback
  <1>3. hasUser' = hasUser /\ hasPost' = hasPost
    BY DEF RemoveFieldCallback
  <1>4. CallbacksAreReached'
    <2>1. CASE callbacks'[k] = {}
      <3>1. \A l \in Kinds :
                /\ hasDefaultFields'[l] = IF l = k THEN TRUE ELSE hasDefaultFields[l]
                /\ installed'[l] = IF l = k /\ ~hasUser[k] THEN "default" ELSE installed[l]
        BY <2>1 DEF ConfigInv, ConfigTypeOK, RemoveFieldCallback
      <3> QED
        BY <1>2, <1>3, <2>1, <3>1 DEF ConfigInv, ConfigTypeOK, CallbacksAreReached
    <2>2. CASE callbacks'[k] # {}
      <3>1. hasDefaultFields' = hasDefaultFields /\ installed' = installed
        BY <2>2 DEF RemoveFieldCallback
      <3> QED
        BY <1>2, <1>3, <2>2, <3>1 DEF ConfigInv, ConfigTypeOK, CallbacksAreReached
    <2> QED
      BY <2>1, <2>2
  <1> QED
    BY <1>1, <1>4 DEF ConfigInv

LEMMA SetPostWriteCallbackReached ==
    ASSUME ConfigInv, NEW f \in Fields, SetPostWriteCallback(f)
    PROVE  ConfigInv'
  <1>1. "write" \in Kinds /\ "post" \notin Kinds
    BY DEF Kinds
  <1>2. ConfigTypeOK'
    BY <1>1, InstalledForType DEF ConfigInv, ConfigTypeOK, SetPostWriteCallback
  <1>3. /\ \A l \in Kinds :
              /\ callbacks'[l] = callbacks[l]
              /\ installed'[l] = IF l = "write" /\ installed["write"] = "default"
                                 THEN "bitfields" ELSE installed[l]
        /\ hasUser' = hasUser /\ hasDefaultFields' = hasDefaultFields /\ hasPost'
    BY <1>1, InstalledForType DEF ConfigInv, ConfigTypeOK, SetPostWriteCallback
  <1> QED
    BY <1>2, <1>3 DEF ConfigInv, ConfigTypeOK, CallbacksAreReached

LEMMA SetCallbackReached ==
    ASSUME ConfigInv, NEW ks \in SUBSET Kinds, SetCallback(ks)
    PROVE  ConfigInv'
  <1>1. ConfigTypeOK'
    BY DEF ConfigInv, ConfigTypeOK, SetCallback
  <1>2. CallbacksAreReached'
    BY DEF ConfigInv, ConfigTypeOK, CallbacksAreReached, SetCallback
  <1> QED
    BY <1>1, <1>2 DEF ConfigInv

LEMMA RemoveCallbackReached ==
    ASSUME ConfigInv, NEW ks \in SUBSET Kinds, RemoveCallback(ks)
    PROVE  ConfigInv'
  <1>1. ConfigTypeOK'
    BY DEF ConfigInv, ConfigTypeOK, RemoveCallback
  <1>2. CallbacksAreReached'
    BY DEF ConfigInv, ConfigTypeOK, CallbacksAreReached, RemoveCallback
  <1> QED
    BY <1>1, <1>2 DEF ConfigInv

LEMMA RemovePostWriteCallbackReached ==
    ASSUME ConfigInv, NEW f \in Fields, RemovePostWriteCallback(f)
    PROVE  ConfigInv'
  <1>1. "post" \notin Kinds
    BY DEF Kinds
  <1>2. ConfigTypeOK'
    BY DEF ConfigInv, ConfigTypeOK, RemovePostWriteCallback
  <1>3. \A l \in Kinds : callbacks'[l] = callbacks[l]
    BY <1>1 DEF ConfigInv, ConfigTypeOK, RemovePostWriteCallback
  <1> QED
    BY <1>2, <1>3 DEF ConfigInv, CallbacksAreReached, RemovePostWriteCallback

\* An access leaves the callbacks alone, whatever its callbacks do to them
\* are steps of their own.
LEMMA UnchangedReached ==
    ASSUME ConfigInv, UNCHANGED config
    PROVE  ConfigInv'
  BY DEF ConfigInv, ConfigTypeOK, CallbacksAreReached, config

\* The flags and the callbacks agree after every step.
LEMMA StepReached ==
    ASSUME ConfigInv, [Next]_vars
    PROVE  ConfigInv'
  <1>1. ASSUME NEW k \in Kinds, NEW f \in Fields, SetFieldCallback(k, f)
        PROVE  ConfigInv'
    BY <1>1, SetFieldCallbackReached
  <1>2. ASSUME NEW k \in Kinds, NEW f \in Fields, RemoveFieldCallback(k, f)
        PROVE  ConfigInv'
    BY <1>2, RemoveFieldCallbackReached
  <1>3. ASSUME NEW f \in Fields, SetPostWriteCallback(f)
        PROVE  ConfigInv'
    BY <1>3, SetPostWriteCallbackReached
  <1>4. ASSUME NEW f \in Fields, RemovePostWriteCallback(f)
        PROVE  ConfigInv'
    BY <1>4, RemovePostWriteCallbackReached
  <1>5. ASSUME NEW ks \in (SUBSET Kinds) \ {{}}, SetCallback(ks)
        PROVE  ConfigInv'
    BY <1>5, SetCallbackReached
  <1>6. ASSUME NEW ks \in (SUBSET Kinds) \ {{}}, RemoveCallback(ks)
        PROVE  ConfigInv'
    BY <1>6, RemoveCallbackReached
  <1>7. ASSUME UNCHANGED config
        PROVE  ConfigInv'
    BY <1>7, UnchangedReached
  <1>8. CASE \/ \E k \in Kinds, mask \in Masks : Access(k, mask)
             \/ \E bits \in SUBSET Bits : CallbackPuts(bits)
             \/ \E ok \in BOOLEAN : CallbackReturns(ok)
             \/ PostWriteReturns
             \/ Forget
             \/ UNCHANGED vars
    <2>1. UNCHANGED config
      BY <1>8 DEF Access, CallbackPuts, CallbackReturns, PostWriteReturns, Forget, vars
    <2> QED
      BY <2>1, <1>7
  <1> QED
    BY <1>1, <1>2, <1>3, <1>4, <1>5, <1>6, <1>8 DEF Next

LEMMA InitReached == Init => ConfigInv
  BY DEF Init, ConfigInv, ConfigTypeOK, CallbacksAreReached

(***************************************************************************)
(* However callbacks are set and removed, no read or write callback of a   *)
(* bitfield is left behind the default behaviour of the register, and its  *)
(* memory callback for the bitfields stands without such a callback only   *)
(* for writes, once a post-write callback has been set.  Post-write        *)
(* callbacks themselves may be left behind the default behaviour           *)
(* (bitfield_write_callback_unregistered does not look for them): of them  *)
(* this says nothing.                                                      *)
(***************************************************************************)
THEOREM CallbacksAlwaysReached == Spec => []CallbacksAreReached
  <1>1. Init => ConfigInv
    BY InitReached
  <1>2. ConfigInv /\ [Next]_vars => ConfigInv'
    BY StepReached
  <1>3. ConfigInv => CallbacksAreReached
    BY DEF ConfigInv
  <1> QED
    BY <1>1, <1>2, <1>3, PTL DEF Spec

-----------------------------------------------------------------------------
(* Who answers for a bit: the first bitfield of the walk that has a        *)
(* callback and holds the bit.                                             *)
Takes(k, b, l)   == Walk[l] \in callbacks[k] /\ b \in BitsOf[Walk[l]]
Handled(k, b, i) == \E l \in 1 .. (i - 1) : Takes(k, b, l)
IsFirst(k, b, l) == Takes(k, b, l) /\ ~Handled(k, b, l)

\* A record has the fields of an access.
AccessFields == {"phase", "kind", "mask", "at", "ok", "data", "taken", "asked",
                 "puts", "posted", "same"}

IsRecord(a) == a = [x \in AccessFields |-> a[x]]
IsAccess(a) == IsRecord(a) /\ a.kind \in Kinds /\ a.mask \subseteq Bits

(***************************************************************************)
(* The invariant, one bit at a time; value is where the bit in the memory  *)
(* comes from.  BitReady: the bitfields before place i have been asked and *)
(* the next one is looked for.                                             *)
(***************************************************************************)
BitData(a, b) ==
    /\ a.kind = "write" => a.data[b] = IF b \in a.mask THEN "access" ELSE "old"
    /\ a.kind = "read" /\ b \notin a.mask => b \in a.taken /\ a.data[b] = "kept"
    /\ b \in a.mask /\ b \in a.taken =>
           \E f \in Fields : a.asked[b] = {f} /\ (a.kind = "read" => a.data[b] = f)
    /\ b \notin a.mask => a.asked[b] = {}

BitOrder(a, i, b) ==
    a.same /\ b \in a.mask =>
        /\ b \in a.taken <=> Handled(a.kind, b, i)
        /\ \A l \in 1 .. (i - 1) : IsFirst(a.kind, b, l) => a.asked[b] = {Walk[l]}

BitReady(a, i, value, b) ==
    /\ value \in {"old", "callback"}
    /\ b \in a.puts => value = "callback" /\ (PutsElsewhere \/ b \in a.taken)
    /\ b \in a.mask /\ b \notin a.taken => a.asked[b] = {}
    /\ BitData(a, b)
    /\ BitOrder(a, i, b)

\* The bitfield at place a.at is being asked.
BitPending(a, value, b) ==
    /\ value \in {"old", "callback"}
    /\ b \in a.puts => /\ value = "callback"
                       /\ PutsElsewhere \/ b \in a.taken \/ b \in BitsOf[Walk[a.at]]
    /\ b \in a.mask /\ b \notin a.taken =>
           a.asked[b] = IF b \in BitsOf[Walk[a.at]] THEN {Walk[a.at]} ELSE {}
    /\ BitData(a, b)
    /\ BitOrder(a, a.at, b)

\* All have been asked.
BitAsked(a, b) ==
    /\ b \notin a.mask => a.asked[b] = {}
    /\ a.asked[b] = {} \/ \E f \in Fields : a.asked[b] = {f}
    /\ a.same /\ b \in a.mask => a.asked[b] = AnswersFor(a.kind, b)

\* The memory has been written.
BitWritten(a, value, b) ==
    /\ value = "access" => b \in a.mask /\ a.asked[b] = {}
    /\ b \in a.mask /\ a.asked[b] = {} => value \in {"access", "callback"}
    /\ b \in a.puts /\ (b \notin a.mask \/ a.asked[b] # {}) =>
           PutsElsewhere \/ value = "callback"

BitDone(a, value, b) ==
    /\ b \notin a.mask => a.asked[b] = {}
    /\ a.asked[b] = {} \/ \E f \in Fields : a.asked[b] = {f}
    /\ a.ok => BitAsked(a, b)
    /\ value = "access" => a.kind = "write" /\ a.ok
    /\ a.kind = "write" /\ a.ok => BitWritten(a, value, b)
    /\ b \in a.puts /\ (b \notin a.mask \/ a.asked[b] # {}) =>
           PutsElsewhere \/ value = "callback"
    /\ a.kind = "read" /\ a.ok =>
           a.data[b] \in IF b \notin a.mask THEN {"kept"}
                         ELSE IF a.asked[b] # {} THEN a.asked[b]
                         ELSE {value}

\* The post-write callbacks up to place i have been called.
Posts(a, i) ==
    a.same => a.posted = {Walk[l] : l \in {m \in 1 .. i :
                              Walk[m] \in callbacks["post"] /\ IsAccessed(Walk[m], a.mask)}}

PendingInv(a, s) ==
    /\ a.phase = "callback" /\ a.posted = {}
    /\ a.at \in DOMAIN Walk
    /\ a.same => Walk[a.at] \in callbacks[a.kind]
    /\ \A b \in Bits : BitPending(a, s[b], b)

PostInv(a, s) ==
    /\ a.phase = "post" /\ a.kind = "write"
    /\ a.at \in DOMAIN Walk /\ Posts(a, a.at)
    /\ \A b \in Bits : BitAsked(a, b) /\ BitWritten(a, s[b], b)

DoneInv(a, s) ==
    /\ a.phase = "done"
    /\ a.kind = "read" => a.posted = {}
    /\ a.kind = "write" /\ a.ok => Posts(a, Len(Walk))
    /\ \A b \in Bits : BitDone(a, s[b], b)

AccessInv(a, s) ==
    \/ a = NoAccess /\ s = Old
    \/ IsAccess(a) /\ (PendingInv(a, s) \/ PostInv(a, s) \/ DoneInv(a, s))

PostsInstalled == ~hasPost => callbacks["post"] = {}

IInv == ConfigInv /\ PostsInstalled /\ AccessInv(access, store)

-----------------------------------------------------------------------------
\* The walk is a sequence of bitfields.
LEMMA WalkFacts ==
    /\ Len(Walk) \in Nat
    /\ DOMAIN Walk = 1 .. Len(Walk)
    /\ \A l \in 1 .. Len(Walk) : Walk[l] \in Fields
  BY WalkAssumption

\* The next place is the first one that the bitfields fs and the mask allow.
LEMMA NextPlaceFacts ==
    ASSUME NEW i \in 1 .. (Len(Walk) + 1), NEW fs, NEW mask
    PROVE  /\ NextPlace(i, fs, mask) \in i .. (Len(Walk) + 1)
           /\ \A l \in i .. (NextPlace(i, fs, mask) - 1) :
                  ~(Walk[l] \in fs /\ IsAccessed(Walk[l], mask))
           /\ NextPlace(i, fs, mask) <= Len(Walk) =>
                  /\ Walk[NextPlace(i, fs, mask)] \in fs
                  /\ IsAccessed(Walk[NextPlace(i, fs, mask)], mask)
  <1> DEFINE places == {j \in i .. Len(Walk) : Walk[j] \in fs /\ IsAccessed(Walk[j], mask)}
             Less   == OpToRel(<, Nat)
  <1>1. Len(Walk) \in Nat /\ places \subseteq Nat
    BY WalkFacts
  <1>2. CASE places = {}
    <2>1. NextPlace(i, fs, mask) = Len(Walk) + 1
      BY <1>2 DEF NextPlace
    <2> QED
      BY <1>1, <1>2, <2>1
  <1>3. CASE places # {}
    <2>1. IsWellFoundedOn(Less, Nat)
      BY NatLessThanWellFounded
    <2>2. ASSUME NEW x \in Nat, NEW y \in Nat, x < y
          PROVE  << x, y >> \in Less
      BY <2>2 DEF OpToRel
    <2> HIDE DEF Less
    <2>3. PICK x \in places : \A y \in places : << y, x >> \notin Less
      <3> HIDE DEF places
      <3> QED
        BY <1>1, <1>3, <2>1, WFMin
    <2>4. \A y \in places : x <= y
      <3> SUFFICES ASSUME NEW y \in places PROVE x <= y
        OBVIOUS
      <3>1. x \in Nat /\ y \in Nat
        BY <1>1
      <3>2. ~(y < x)
        BY <2>2, <2>3, <3>1
      <3> QED
        BY <3>1, <3>2
    <2>5. NextPlace(i, fs, mask) = CHOOSE j \in places : \A l \in places : j <= l
      BY <1>3 DEF NextPlace
    <2>6. /\ NextPlace(i, fs, mask) \in places
          /\ \A l \in places : NextPlace(i, fs, mask) <= l
      <3> HIDE DEF places
      <3> QED
        BY <2>4, <2>5
    <2> QED
      BY <1>1, <2>6
  <1> QED
    BY <1>2, <1>3

(***************************************************************************)
(* Places that are passed over change nothing for the enabled bits.        *)
(***************************************************************************)
LEMMA ReadyAtNextPlace ==
    ASSUME NEW a, NEW value, NEW b, NEW i \in 1 .. (Len(Walk) + 1),
           NEW j \in i .. (Len(Walk) + 1), BitReady(a, i, value, b),
           \A l \in i .. (j - 1) : ~(Walk[l] \in callbacks[a.kind] /\ IsAccessed(Walk[l], a.mask))
    PROVE  BitReady(a, j, value, b)
  <1>1. Len(Walk) \in Nat
    BY WalkFacts
  <1>2. ASSUME b \in a.mask, NEW l \in i .. (j - 1)
        PROVE  ~Takes(a.kind, b, l)
    BY <1>2 DEF Takes, IsAccessed
  <1>3. ASSUME b \in a.mask
        PROVE  Handled(a.kind, b, j) <=> Handled(a.kind, b, i)
    <2>1. Handled(a.kind, b, i) => Handled(a.kind, b, j)
      BY <1>1 DEF Handled
    <2>2. ASSUME NEW l \in 1 .. (j - 1), Takes(a.kind, b, l)
          PROVE  l \in 1 .. (i - 1)
      BY <1>1, <1>2, <1>3, <2>2
    <2> QED
      BY <2>1, <2>2 DEF Handled
  <1>4. ASSUME b \in a.mask, NEW l \in 1 .. (j - 1), IsFirst(a.kind, b, l)
        PROVE  l \in 1 .. (i - 1)
    BY <1>1, <1>2, <1>4 DEF IsFirst
  <1>5. BitOrder(a, j, b)
    BY <1>3, <1>4 DEF BitReady, BitOrder
  <1> QED
    BY <1>5 DEF BitReady

\* What Handled says after the last place.
LEMMA AskedInOrder ==
    ASSUME NEW a, NEW value, NEW b, BitReady(a, Len(Walk) + 1, value, b),
           ConfigInv, a.kind \in Kinds
    PROVE  BitAsked(a, b)
  <1>1. Len(Walk) \in Nat /\ \A l \in 1 .. Len(Walk) : Walk[l] \in Fields
    BY WalkFacts
  <1>2. b \notin a.mask => a.asked[b] = {}
    BY DEF BitReady, BitData
  <1>3. a.asked[b] = {} \/ \E f \in Fields : a.asked[b] = {f}
    BY DEF BitReady, BitData
  <1>4. ASSUME a.same, b \in a.mask
        PROVE  a.asked[b] = AnswersFor(a.kind, b)
    <2> DEFINE N == Len(Walk)
    <2>1. callbacks[a.kind] \subseteq Fields
      BY DEF ConfigInv, ConfigTypeOK
    <2>2. \A f \in callbacks[a.kind] : \E l \in 1 .. N : Walk[l] = f
      BY <2>1, WalkAssumption
    <2>3. (b \in a.taken) <=> \E l \in 1 .. N : Takes(a.kind, b, l)
      BY <1>1, <1>4 DEF BitReady, BitOrder, Handled
    <2>4. CASE b \notin a.taken
      <3>1. a.asked[b] = {}
        BY <1>4, <2>4 DEF BitReady
      <3>2. AnswersFor(a.kind, b) = {}
        BY <2>2, <2>3, <2>4 DEF AnswersFor, Takes
      <3> QED
        BY <3>1, <3>2
    <2>5. CASE b \in a.taken
      <3>1. PICK f \in Fields : a.asked[b] = {f}
        BY <1>4, <2>5 DEF BitReady, BitData
      <3>2. PICK l \in 1 .. N : IsFirst(a.kind, b, l)
        <4> DEFINE S == {m \in 1 .. N : Takes(a.kind, b, m)}
                   fs == {g \in callbacks[a.kind] : b \in BitsOf[g]}
        <4>1. \A m \in 1 .. N : Takes(a.kind, b, m) <=>
                    Walk[m] \in fs /\ IsAccessed(Walk[m], {b})
          BY DEF Takes, IsAccessed
        <4>2. 1 \in 1 .. (N + 1)
          BY <1>1
        <4> DEFINE n == NextPlace(1, fs, {b})
        <4>3. /\ n \in 1 .. (N + 1)
              /\ \A m \in 1 .. (n - 1) : ~(Walk[m] \in fs /\ IsAccessed(Walk[m], {b}))
              /\ n <= N => Walk[n] \in fs /\ IsAccessed(Walk[n], {b})
          <5> HIDE DEF fs
          <5> QED
            BY <4>2, NextPlaceFacts
        <4> HIDE DEF n, fs
        <4>4. \A m \in 1 .. (n - 1) : m \in 1 .. N
          BY <1>1, <4>3
        <4>5. \A m \in 1 .. (n - 1) : ~Takes(a.kind, b, m)
          BY <4>1, <4>3, <4>4
        <4>6. n \in 1 .. N /\ Takes(a.kind, b, n)
          <5>1. PICK m \in 1 .. N : Takes(a.kind, b, m)
            BY <2>3, <2>5
          <5>2. ~(m <= n - 1)
            BY <1>1, <4>3, <4>5, <5>1
          <5>3. n \in 1 .. N
            BY <1>1, <4>3, <5>1, <5>2
          <5> QED
            BY <4>1, <4>3, <5>3
        <4>7. IsFirst(a.kind, b, n)
          BY <4>5, <4>6 DEF IsFirst, Handled
        <4> QED
          BY <4>6, <4>7
      <3>3. a.asked[b] = {Walk[l]}
        BY <1>1, <1>4, <3>2 DEF BitReady, BitOrder
      <3>4. Walk[l] \in AnswersFor(a.kind, b)
        <4>1. Takes(a.kind, b, l)
          BY <3>2 DEF IsFirst
        <4>2. ASSUME NEW g \in callbacks[a.kind], b \in BitsOf[g]
              PROVE  \E i, j \in DOMAIN Walk : Walk[i] = Walk[l] /\ Walk[j] = g /\ i <= j
          <5>1. PICK m \in 1 .. N : Walk[m] = g
            BY <2>2
          <5>2. Takes(a.kind, b, m)
            BY <4>2, <5>1 DEF Takes
          <5>3. l <= m
            BY <1>1, <3>2, <5>2 DEF IsFirst, Handled
          <5> QED
            BY <5>1, <5>3, WalkFacts
        <4> QED
          BY <4>1, <4>2 DEF AnswersFor, Takes
      <3>5. ASSUME NEW g \in AnswersFor(a.kind, b)
            PROVE  g = Walk[l]
        <4>1. g \in callbacks[a.kind] /\ b \in BitsOf[g]
          BY DEF AnswersFor
        <4>2. Takes(a.kind, b, l)
          BY <3>2 DEF IsFirst
        <4>3. PICK i \in DOMAIN Walk, j \in DOMAIN Walk :
                  Walk[i] = g /\ Walk[j] = Walk[l] /\ i <= j
          BY <4>2 DEF AnswersFor, Takes
        <4>4. j = l
          BY <4>3, WalkAssumption, WalkFacts
        <4>5. Takes(a.kind, b, i)
          BY <4>1, <4>3 DEF Takes
        <4>6. ~(i < l)
          BY <1>1, <3>2, <4>3, <4>5, WalkFacts DEF IsFirst, Handled
        <4>7. i = l
          BY <1>1, <4>3, <4>4, <4>6, WalkFacts
        <4> QED
          BY <4>3, <4>7
      <3> QED
        BY <3>3, <3>4, <3>5
    <2> QED
      BY <2>4, <2>5
  <1> QED
    BY <1>2, <1>3, <1>4 DEF BitAsked

-----------------------------------------------------------------------------
(* The records an access goes through.                                     *)
LEMMA EndedFields ==
    ASSUME NEW a, IsAccess(a), NEW ok \in BOOLEAN
    PROVE  /\ IsAccess(Ended(a, ok))
           /\ Ended(a, ok).phase = "done" /\ Ended(a, ok).ok = ok
           /\ Ended(a, ok).kind = a.kind /\ Ended(a, ok).mask = a.mask
           /\ Ended(a, ok).data = a.data /\ Ended(a, ok).taken = a.taken
           /\ Ended(a, ok).asked = a.asked /\ Ended(a, ok).puts = a.puts
           /\ Ended(a, ok).posted = a.posted /\ Ended(a, ok).same = a.same
  BY DEF IsAccess, IsRecord, AccessFields, Ended

LEMMA AskingFields ==
    ASSUME NEW a, IsAccess(a), NEW j \in 1 .. Len(Walk)
    PROVE  /\ IsAccess(Asking(a, j))
           /\ Asking(a, j).phase = "callback" /\ Asking(a, j).at = j
           /\ Asking(a, j).kind = a.kind /\ Asking(a, j).mask = a.mask
           /\ Asking(a, j).data = a.data /\ Asking(a, j).taken = a.taken
           /\ Asking(a, j).puts = a.puts
           /\ Asking(a, j).posted = a.posted /\ Asking(a, j).same = a.same
  BY DEF IsAccess, IsRecord, AccessFields, Asking

\* Only the bits that nobody took are given to the bitfield.
LEMMA AskingAsked ==
    ASSUME NEW a, IsAccess(a), NEW j \in 1 .. Len(Walk), NEW b \in Bits
    PROVE  Asking(a, j).asked[b] =
               IF b \in a.mask /\ b \in BitsOf[Walk[j]] /\ b \notin a.taken
               THEN a.asked[b] \cup {Walk[j]} ELSE a.asked[b]
  BY DEF IsAccess, IsRecord, AccessFields, Asking

LEMMA WithTakenFields ==
    ASSUME NEW a, IsAccess(a)
    PROVE  /\ IsAccess(WithTaken(a))
           /\ WithTaken(a).phase = a.phase /\ WithTaken(a).kind = a.kind
           /\ WithTaken(a).mask = a.mask
           /\ WithTaken(a).taken = a.taken \cup BitsOf[Walk[a.at]]
           /\ WithTaken(a).asked = a.asked /\ WithTaken(a).puts = a.puts
           /\ WithTaken(a).posted = a.posted /\ WithTaken(a).same = a.same
           /\ a.kind = "write" => WithTaken(a).data = a.data
           /\ a.kind = "read" => \A b \in Bits : WithTaken(a).data[b] =
                  IF b \in a.taken THEN a.data[b]
                  ELSE IF b \in BitsOf[Walk[a.at]] THEN Walk[a.at] ELSE "none"
  BY DEF IsAccess, IsRecord, AccessFields, WithTaken

-----------------------------------------------------------------------------
(* The next callback is called.                                            *)
LEMMA NextIsAsked ==
    ASSUME NEW a, IsAccess(a), a.posted = {}, NEW s,
           NEW i \in 1 .. (Len(Walk) + 1), \A b \in Bits : BitReady(a, i, s[b], b),
           NEW j \in 1 .. Len(Walk), j = NextPlace(i, callbacks[a.kind], a.mask)
    PROVE  PendingInv(Asking(a, j), s)
  <1> DEFINE c == Asking(a, j)
  <1>1. /\ Len(Walk) \in Nat /\ DOMAIN Walk = 1 .. Len(Walk)
        /\ j \in i .. (Len(Walk) + 1)
        /\ \A l \in i .. (j - 1) : ~(Walk[l] \in callbacks[a.kind] /\ IsAccessed(Walk[l], a.mask))
        /\ Walk[j] \in callbacks[a.kind]
    BY WalkFacts, NextPlaceFacts
  <1>2. /\ IsAccess(c) /\ c.phase = "callback" /\ c.at = j /\ c.kind = a.kind
        /\ c.mask = a.mask /\ c.data = a.data /\ c.taken = a.taken /\ c.puts = a.puts
        /\ c.posted = a.posted /\ c.same = a.same
        /\ \A b \in Bits : c.asked[b] =
               IF b \in a.mask /\ b \in BitsOf[Walk[j]] /\ b \notin a.taken
               THEN a.asked[b] \cup {Walk[j]} ELSE a.asked[b]
    <2>1. /\ IsAccess(Asking(a, j))
          /\ Asking(a, j).phase = "callback" /\ Asking(a, j).at = j
          /\ Asking(a, j).kind = a.kind /\ Asking(a, j).mask = a.mask
          /\ Asking(a, j).data = a.data /\ Asking(a, j).taken = a.taken
          /\ Asking(a, j).puts = a.puts
          /\ Asking(a, j).posted = a.posted /\ Asking(a, j).same = a.same
      BY AskingFields
    <2>2. \A b \in Bits : Asking(a, j).asked[b] =
              IF b \in a.mask /\ b \in BitsOf[Walk[j]] /\ b \notin a.taken
              THEN a.asked[b] \cup {Walk[j]} ELSE a.asked[b]
      BY AskingAsked
    <2> QED
      BY <2>1, <2>2
  <1> HIDE DEF c
  <1>3. ASSUME NEW b \in Bits
        PROVE  BitPending(c, s[b], b)
    <2>1. BitReady(a, j, s[b], b)
      BY <1>1, ReadyAtNextPlace
    <2>2. /\ s[b] \in {"old", "callback"}
          /\ b \in c.puts => /\ s[b] = "callback"
                             /\ PutsElsewhere \/ b \in c.taken \/ b \in BitsOf[Walk[c.at]]
          /\ b \in c.mask /\ b \notin c.taken =>
                 c.asked[b] = IF b \in BitsOf[Walk[c.at]] THEN {Walk[c.at]} ELSE {}
      BY <1>2, <2>1 DEF BitReady
    <2>3. BitData(c, b)
      BY <1>2, <2>1 DEF BitReady, BitData
    <2>4. BitOrder(c, c.at, b)
      <3> SUFFICES ASSUME a.same, b \in a.mask
                   PROVE  /\ b \in a.taken <=> Handled(a.kind, b, j)
                          /\ \A l \in 1 .. (j - 1) :
                                 IsFirst(a.kind, b, l) => c.asked[b] = {Walk[l]}
        BY <1>2 DEF BitOrder
      <3>1. b \in a.taken <=> Handled(a.kind, b, j)
        BY <2>1 DEF BitReady, BitOrder
      <3>2. ASSUME NEW l \in 1 .. (j - 1), IsFirst(a.kind, b, l)
            PROVE  c.asked[b] = {Walk[l]}
        <4>1. b \in a.taken
          BY <3>1, <3>2 DEF IsFirst, Handled
        <4>2. a.asked[b] = {Walk[l]}
          BY <2>1, <3>2 DEF BitReady, BitOrder
        <4> QED
          BY <1>2, <4>1, <4>2
      <3> QED
        BY <3>1, <3>2
    <2> QED
      BY <2>2, <2>3, <2>4 DEF BitPending
  <1> QED
    BY <1>1, <1>2, <1>3 DEF PendingInv, c

\* The bitfield has returned: its bits are taken.
LEMMA ReadyAfterCallback ==
    ASSUME NEW a, IsAccess(a), NEW s, PendingInv(a, s), NEW b \in Bits
    PROVE  BitReady(WithTaken(a), a.at + 1, s[b], b)
  <1> DEFINE c == WithTaken(a)
             f == Walk[a.at]
  <1>1. /\ Len(Walk) \in Nat /\ a.at \in 1 .. Len(Walk) /\ f \in Fields
        /\ a.same => f \in callbacks[a.kind]
        /\ BitPending(a, s[b], b)
    BY WalkFacts DEF PendingInv
  <1>2. /\ c.kind = a.kind /\ c.mask = a.mask /\ c.taken = a.taken \cup BitsOf[f]
        /\ c.asked = a.asked /\ c.puts = a.puts /\ c.same = a.same
        /\ a.kind = "write" => c.data = a.data
        /\ a.kind = "read" => c.data[b] = IF b \in a.taken THEN a.data[b]
                                          ELSE IF b \in BitsOf[f] THEN f ELSE "none"
    BY WithTakenFields
  <1> HIDE DEF c
  <1>3. /\ s[b] \in {"old", "callback"}
        /\ b \in c.puts => s[b] = "callback" /\ (PutsElsewhere \/ b \in c.taken)
        /\ b \in c.mask /\ b \notin c.taken => c.asked[b] = {}
    BY <1>1, <1>2 DEF BitPending
  <1>4. BitData(c, b)
    BY <1>1, <1>2 DEF BitPending, BitData
  <1>5. BitOrder(c, a.at + 1, b)
    <2> SUFFICES ASSUME a.same, b \in a.mask
                 PROVE  /\ b \in c.taken <=> Handled(a.kind, b, a.at + 1)
                        /\ \A l \in 1 .. a.at : IsFirst(a.kind, b, l) => a.asked[b] = {Walk[l]}
      BY <1>1, <1>2 DEF BitOrder
    <2>1. /\ b \in a.taken <=> Handled(a.kind, b, a.at)
          /\ \A l \in 1 .. (a.at - 1) : IsFirst(a.kind, b, l) => a.asked[b] = {Walk[l]}
      BY <1>1 DEF BitPending, BitOrder
    <2>2. Takes(a.kind, b, a.at) <=> b \in BitsOf[f]
      BY <1>1 DEF Takes
    <2>3. Handled(a.kind, b, a.at + 1) <=> Handled(a.kind, b, a.at) \/ Takes(a.kind, b, a.at)
      BY <1>1 DEF Handled
    <2>4. IsFirst(a.kind, b, a.at) => a.asked[b] = {f}
      BY <1>1, <2>1, <2>2 DEF IsFirst, BitPending
    <2> QED
      BY <1>1, <1>2, <2>1, <2>2, <2>3, <2>4
  <1> QED
    BY <1>3, <1>4, <1>5 DEF BitReady, c

-----------------------------------------------------------------------------
(* The post-write callbacks: i is the place from which the next one is     *)
(* looked for.                                                             *)
LEMMA PostsGoOn ==
    ASSUME NEW a, IsAccess(a), a.kind = "write", NEW s, NEW i \in 1 .. (Len(Walk) + 1),
           Posts(a, i - 1), PostsInstalled,
           \A b \in Bits : BitAsked(a, b) /\ BitWritten(a, s[b], b)
    PROVE  AccessInv(AtPost(a, i), s)
  <1> DEFINE fs == IF hasPost THEN callbacks["post"] ELSE {}
             j  == NextPlace(i, fs, a.mask)
             calls(n) == {Walk[l] : l \in {m \in 1 .. n :
                             Walk[m] \in callbacks["post"] /\ IsAccessed(Walk[m], a.mask)}}
  <1>1. Len(Walk) \in Nat /\ DOMAIN Walk = 1 .. Len(Walk)
    BY WalkFacts
  <1>2. fs = callbacks["post"]
    BY DEF PostsInstalled
  <1>3. /\ j \in i .. (Len(Walk) + 1)
        /\ \A l \in i .. (j - 1) : ~(Walk[l] \in fs /\ IsAccessed(Walk[l], a.mask))
        /\ j <= Len(Walk) => Walk[j] \in fs /\ IsAccessed(Walk[j], a.mask)
    <2> HIDE DEF fs
    <2> QED
      BY NextPlaceFacts
  <1>4. a.same => a.posted = calls(i - 1)
    BY DEF Posts
  <1>5. CASE j > Len(Walk)
    <2> DEFINE c == Ended(a, TRUE)
    <2>1. AtPost(a, i) = c
      BY <1>5 DEF AtPost
    <2>2. /\ IsAccess(c) /\ c.phase = "done" /\ c.kind = a.kind
          /\ c.mask = a.mask /\ c.asked = a.asked /\ c.puts = a.puts
          /\ c.posted = a.posted /\ c.same = a.same
      BY EndedFields
    <2>3. c.ok
      BY EndedFields
    <2> HIDE DEF c
    <2>4. Posts(c, Len(Walk))
      <3>1. {m \in 1 .. (i - 1) : Walk[m] \in callbacks["post"] /\ IsAccessed(Walk[m], a.mask)}
            = {m \in 1 .. Len(Walk) : Walk[m] \in callbacks["post"] /\ IsAccessed(Walk[m], a.mask)}
        BY <1>1, <1>2, <1>3, <1>5
      <3> QED
        BY <1>4, <2>2, <3>1 DEF Posts
    <2>5. ASSUME NEW b \in Bits
          PROVE  BitDone(c, s[b], b)
      <3>1. BitAsked(a, b) /\ BitWritten(a, s[b], b)
        OBVIOUS
      <3>2. BitAsked(c, b)
        BY <2>2, <3>1 DEF BitAsked
      <3>3. BitWritten(c, s[b], b)
        BY <2>2, <3>1 DEF BitWritten
      <3>4. c.kind = "write" /\ c.ok
        BY <2>2, <2>3
      <3> QED
        BY <3>2, <3>3, <3>4 DEF BitDone, BitAsked, BitWritten
    <2>6. DoneInv(c, s)
      BY <2>2, <2>4, <2>5 DEF DoneInv
    <2> QED
      BY <2>1, <2>2, <2>6 DEF AccessInv
  <1>6. CASE j <= Len(Walk)
    <2> DEFINE c == [a EXCEPT !.phase = "post", !.at = j, !.posted = @ \cup {Walk[j]}]
    <2>1. AtPost(a, i) = c
      <3>1. ~(j > Len(Walk))
        BY <1>1, <1>3, <1>6
      <3> QED
        BY <3>1 DEF AtPost
    <2>2. /\ IsAccess(c) /\ c.phase = "post" /\ c.at = j /\ c.kind = a.kind
          /\ c.mask = a.mask /\ c.asked = a.asked /\ c.puts = a.puts
          /\ c.posted = a.posted \cup {Walk[j]} /\ c.same = a.same
      <3> HIDE DEF j
      <3> QED
        BY DEF IsAccess, IsRecord, AccessFields
    <2> HIDE DEF c
    <2>3. Posts(c, j)
      <3>1. {m \in 1 .. j : Walk[m] \in callbacks["post"] /\ IsAccessed(Walk[m], a.mask)}
            = {m \in 1 .. (i - 1) : Walk[m] \in callbacks["post"] /\ IsAccessed(Walk[m], a.mask)}
              \cup {j}
        <4> HIDE DEF j, fs
        <4> QED
          BY <1>1, <1>2, <1>3, <1>6
      <3> QED
        BY <1>4, <2>2, <3>1 DEF Posts
    <2>4. ASSUME NEW b \in Bits
          PROVE  BitAsked(c, b) /\ BitWritten(c, s[b], b)
      <3>1. BitAsked(a, b) /\ BitWritten(a, s[b], b)
        OBVIOUS
      <3> QED
        BY <2>2, <3>1 DEF BitAsked, BitWritten
    <2>5. j \in DOMAIN Walk
      BY <1>1, <1>3, <1>6
    <2>6. PostInv(c, s)
      BY <2>2, <2>3, <2>4, <2>5 DEF PostInv
    <2> QED
      BY <2>1, <2>2, <2>6 DEF AccessInv
  <1> QED
    BY <1>1, <1>3, <1>5, <1>6

\* All bitfields have been asked by a write.
LEMMA WriteEnds ==
    ASSUME ConfigInv, PostsInstalled,
           NEW a, IsAccess(a), a.kind = "write", a.posted = {}, NEW s,
           \A b \in Bits : BitReady(a, Len(Walk) + 1, s[b], b)
    PROVE  AccessInv(AtPost(a, 1), [b \in Bits |-> IF b \in a.taken THEN s[b] ELSE a.data[b]])
  <1> DEFINE t == [b \in Bits |-> IF b \in a.taken THEN s[b] ELSE a.data[b]]
  <1>1. Len(Walk) \in Nat /\ a.kind \in Kinds
    BY WalkFacts DEF IsAccess
  <1>2. Posts(a, 0)
    BY DEF Posts
  <1>3. ASSUME NEW b \in Bits
        PROVE  BitAsked(a, b) /\ BitWritten(a, t[b], b)
    <2>1. BitReady(a, Len(Walk) + 1, s[b], b)
      OBVIOUS
    <2>2. BitAsked(a, b)
      BY <1>1, <2>1, AskedInOrder
    <2>3. t[b] = IF b \in a.taken THEN s[b] ELSE IF b \in a.mask THEN "access" ELSE "old"
      BY <2>1 DEF BitReady, BitData
    <2>4. t[b] = "access" => b \in a.mask /\ a.asked[b] = {}
      BY <2>1, <2>3 DEF BitReady
    <2>5. b \in a.mask /\ a.asked[b] = {} => t[b] \in {"access", "callback"}
      BY <2>1, <2>3 DEF BitReady, BitData
    <2>6. b \in a.puts => PutsElsewhere \/ t[b] = "callback"
      BY <2>1, <2>3 DEF BitReady
    <2> QED
      BY <2>2, <2>4, <2>5, <2>6 DEF BitWritten
  <1>4. 1 \in 1 .. (Len(Walk) + 1) /\ 1 - 1 = 0
    BY <1>1
  <1> HIDE DEF t
  <1>5. AccessInv(AtPost(a, 1), t)
    BY <1>2, <1>3, <1>4, PostsGoOn
  <1> QED
    BY <1>5 DEF t

\* All bitfields have been asked by a read.
LEMMA ReadEnds ==
    ASSUME ConfigInv,
           NEW a, IsAccess(a), a.kind = "read", a.posted = {}, NEW s,
           \A b \in Bits : BitReady(a, Len(Walk) + 1, s[b], b)
    PROVE  AccessInv(Ended([a EXCEPT !.data = [b \in Bits |->
                        IF b \in a.taken THEN a.data[b] ELSE s[b]]], TRUE), s)
  <1> DEFINE d == [b \in Bits |-> IF b \in a.taken THEN a.data[b] ELSE s[b]]
             r == [a EXCEPT !.data = d]
             c == Ended(r, TRUE)
  <1>1. \A b \in Bits : d[b] = IF b \in a.taken THEN a.data[b] ELSE s[b]
    OBVIOUS
  <1> HIDE DEF d
  <1>2. /\ IsAccess(r) /\ r.kind = a.kind /\ r.mask = a.mask /\ r.data = d /\ r.asked = a.asked
        /\ r.puts = a.puts /\ r.posted = a.posted /\ r.same = a.same
    BY DEF IsAccess, IsRecord, AccessFields
  <1> HIDE DEF r
  <1>3. /\ IsAccess(c) /\ c.phase = "done" /\ c.kind = a.kind /\ c.mask = a.mask
        /\ c.data = d /\ c.asked = a.asked /\ c.puts = a.puts /\ c.posted = a.posted
        /\ c.same = a.same
    BY <1>2, EndedFields
  <1> HIDE DEF c
  <1>4. ASSUME NEW b \in Bits
        PROVE  BitDone(c, s[b], b)
    <2>1. BitReady(a, Len(Walk) + 1, s[b], b)
      OBVIOUS
    <2>2. BitAsked(a, b)
      BY <2>1, AskedInOrder DEF IsAccess
    <2>3. BitAsked(c, b)
      BY <1>3, <2>2 DEF BitAsked
    <2>4. c.data[b] \in IF b \notin c.mask THEN {"kept"}
                        ELSE IF c.asked[b] # {} THEN c.asked[b] ELSE {s[b]}
      BY <1>1, <1>3, <2>1 DEF BitReady, BitData
    <2>5. s[b] # "access" /\ (b \in c.puts => s[b] = "callback") /\ c.kind # "write"
      BY <1>3, <2>1 DEF BitReady
    <2> QED
      BY <2>3, <2>4, <2>5 DEF BitDone, BitAsked
  <1>5. DoneInv(c, s)
    BY <1>3, <1>4 DEF DoneInv
  <1> QED
    BY <1>3, <1>5 DEF AccessInv, c, r, d

-----------------------------------------------------------------------------
(* The steps of an access.                                                 *)
LEMMA Continues ==
    ASSUME IInv, NEW a, IsAccess(a), a.posted = {},
           NEW i \in 1 .. (Len(Walk) + 1), \A b \in Bits : BitReady(a, i, store[b], b),
           ContinueAt(a, i)
    PROVE  AccessInv(access', store')
  <1> DEFINE j == NextPlace(i, callbacks[a.kind], a.mask)
  <1>1. /\ Len(Walk) \in Nat /\ DOMAIN Walk = 1 .. Len(Walk)
        /\ j \in i .. (Len(Walk) + 1)
        /\ \A l \in i .. (j - 1) : ~(Walk[l] \in callbacks[a.kind] /\ IsAccessed(Walk[l], a.mask))
    BY WalkFacts, NextPlaceFacts
  <1>2. a.kind = "read" \/ a.kind = "write"
    BY DEF IsAccess, Kinds
  <1>3. CASE j <= Len(Walk)
    <2>1. access' = Asking(a, j) /\ store' = store
      BY <1>3 DEF ContinueAt
    <2>2. j \in 1 .. Len(Walk)
      BY <1>1, <1>3
    <2>3. PendingInv(Asking(a, j), store)
      BY <2>2, NextIsAsked
    <2>4. IsAccess(Asking(a, j))
      BY <2>2, AskingFields
    <2> QED
      BY <2>1, <2>3, <2>4 DEF AccessInv
  <1>4. CASE ~(j <= Len(Walk))
    <2>1. \A b \in Bits : BitReady(a, Len(Walk) + 1, store[b], b)
      <3>1. j = Len(Walk) + 1
        BY <1>1, <1>4
      <3> HIDE DEF j
      <3> QED
        BY <1>1, <3>1, ReadyAtNextPlace
    <2>2. CASE a.kind = "write"
      <3>1. /\ store' = [b \in Bits |-> IF b \in a.taken THEN store[b] ELSE a.data[b]]
            /\ access' = AtPost(a, 1)
        BY <1>4, <2>2 DEF ContinueAt
      <3>2. AccessInv(AtPost(a, 1),
                      [b \in Bits |-> IF b \in a.taken THEN store[b] ELSE a.data[b]])
        BY <2>1, <2>2, WriteEnds DEF IInv
      <3> QED
        BY <3>1, <3>2
    <2>3. CASE a.kind = "read"
      <3>1. /\ store' = store
            /\ access' = Ended([a EXCEPT !.data = [b \in Bits |->
                                   IF b \in a.taken THEN a.data[b] ELSE store[b]]], TRUE)
        BY <1>4, <2>3 DEF ContinueAt
      <3>2. AccessInv(Ended([a EXCEPT !.data = [b \in Bits |->
                                 IF b \in a.taken THEN a.data[b] ELSE store[b]]], TRUE), store)
        BY <2>1, <2>3, ReadEnds DEF IInv
      <3> QED
        BY <3>1, <3>2
    <2> QED
      BY <1>2, <2>2, <2>3
  <1> QED
    BY <1>3, <1>4

\* An access begins: no bitfield has been asked.
LEMMA BeginFields ==
    ASSUME NEW k \in Kinds, NEW mask \in SUBSET Bits
    PROVE  /\ IsAccess(Begin(k, mask))
           /\ Begin(k, mask).kind = k /\ Begin(k, mask).mask = mask
           /\ k = "read" => Begin(k, mask).taken = Bits \ mask
           /\ k # "read" => Begin(k, mask).taken = {}
           /\ Begin(k, mask).puts = {} /\ Begin(k, mask).posted = {}
  BY DEF Begin, IsAccess, IsRecord, AccessFields

\* What a bit holds when an access begins.
LEMMA BeginBits ==
    ASSUME NEW k \in Kinds, NEW mask \in SUBSET Bits, store = Old, NEW b \in Bits
    PROVE  /\ Begin(k, mask).asked[b] = {}
           /\ k = "read" => Begin(k, mask).data[b] = "kept"
           /\ k # "read" => Begin(k, mask).data[b] = IF b \in mask THEN "access" ELSE "old"
  BY DEF Begin, Old

\* Before the first place, no bit has been asked for.
LEMMA ReadyAtBegin ==
    ASSUME NEW k \in Kinds, NEW mask \in SUBSET Bits, store = Old, NEW b \in Bits
    PROVE  BitReady(Begin(k, mask), 1, store[b], b)
  <1> DEFINE a == Begin(k, mask)
  <1>1. /\ a.kind = k /\ a.mask = mask
        /\ k = "read" => a.taken = Bits \ mask
        /\ k # "read" => a.taken = {}
        /\ a.puts = {}
    BY BeginFields
  <1>2. /\ a.asked[b] = {}
        /\ k = "read" => a.data[b] = "kept"
        /\ k # "read" => a.data[b] = IF b \in mask THEN "access" ELSE "old"
    BY BeginBits
  <1> HIDE DEF a
  <1>3. store[b] = "old"
    BY DEF Old
  <1>4. BitData(a, b)
    BY <1>1, <1>2 DEF BitData, Kinds
  <1>5. BitOrder(a, 1, b)
    BY <1>1 DEF BitOrder, Handled
  <1> QED
    BY <1>1, <1>2, <1>3, <1>4, <1>5 DEF BitReady, a

\* An access begins, with or without a bitfield to ask.
LEMMA AccessStep ==
    ASSUME IInv, NEW k \in Kinds, NEW mask \in Masks, Access(k, mask)
    PROVE  AccessInv(access', store')
  <1> DEFINE a == Begin(k, mask)
  <1>1. mask \in SUBSET Bits
    BY BitfieldsAssumption
  <1>2. store = Old
    <2>1. access = NoAccess
      BY DEF Access
    <2>2. access.phase = "none"
      BY <2>1 DEF NoAccess
    <2> QED
      BY <2>2 DEF IInv, AccessInv, PendingInv, PostInv, DoneInv
  <1>3. /\ IsAccess(a) /\ a.kind = k /\ a.mask = mask /\ a.posted = {} /\ a.puts = {}
    BY <1>1, BeginFields
  <1>4. \A b \in Bits :
            /\ a.asked[b] = {}
            /\ k = "read" => a.data[b] = "kept"
            /\ k # "read" => a.data[b] = IF b \in mask THEN "access" ELSE "old"
    BY <1>1, <1>2, BeginBits
  <1>5. \A b \in Bits : BitReady(a, 1, store[b], b)
    BY <1>1, <1>2, ReadyAtBegin
  <1>6. Len(Walk) \in Nat /\ 1 \in 1 .. (Len(Walk) + 1)
    BY WalkFacts
  <1>7. CASE ~hasDefaultFields[k]
    <2>1. ContinueAt(a, 1)
      BY <1>7 DEF Access
    <2> HIDE DEF a
    <2> QED
      BY <1>3, <1>5, <1>6, <2>1, Continues
  <1>8. CASE hasDefaultFields[k]
    <2>1. callbacks[k] = {}
      BY <1>8 DEF IInv, ConfigInv, CallbacksAreReached
    <2> USE DEF a
    <2>2. CASE k = "write"
      <3>1. store' = a.data /\ access' = AtPost(a, 1)
        BY <1>8, <2>2 DEF Access
      <3> HIDE DEF a
      <3>2. \A b \in Bits : BitAsked(a, b)
        BY <1>3, <1>4, <2>1 DEF BitAsked, AnswersFor
      <3>3. \A b \in Bits : BitWritten(a, a.data[b], b)
        BY <1>3, <1>4, <2>2 DEF BitWritten
      <3>4. Posts(a, 1 - 1)
        BY <1>3 DEF Posts
      <3>5. AccessInv(AtPost(a, 1), a.data)
        BY <1>3, <1>6, <2>2, <3>2, <3>3, <3>4, PostsGoOn DEF IInv
      <3> QED
        BY <3>1, <3>5
    <2>3. CASE k = "read"
      <3> DEFINE d == [b \in Bits |-> IF b \in mask THEN store[b] ELSE a.data[b]]
                 r == [a EXCEPT !.data = d]
                 c == Ended(r, TRUE)
      <3>1. store' = store /\ access' = c
        BY <1>8, <2>3 DEF Access
      <3> HIDE DEF a
      <3>2. \A b \in Bits : d[b] = IF b \in mask THEN "old" ELSE "kept"
        BY <1>2, <1>4, <2>3 DEF Old
      <3> HIDE DEF d
      <3>3. /\ IsAccess(r) /\ r.kind = k /\ r.mask = mask /\ r.data = d /\ r.asked = a.asked
            /\ r.puts = {} /\ r.posted = {}
        BY <1>3 DEF IsAccess, IsRecord, AccessFields
      <3> HIDE DEF r
      <3>4. /\ IsAccess(c) /\ c.phase = "done" /\ c.kind = k /\ c.mask = mask
            /\ c.data = d /\ c.asked = a.asked /\ c.puts = {} /\ c.posted = {}
        BY <3>3, EndedFields
      <3> HIDE DEF c
      <3>5. ASSUME NEW b \in Bits
            PROVE  BitDone(c, store[b], b)
        <4>1. store[b] = "old"
          BY <1>2 DEF Old
        <4>2. BitAsked(c, b)
          BY <1>4, <2>1, <3>4 DEF BitAsked, AnswersFor
        <4> QED
          BY <1>4, <2>3, <3>2, <3>4, <4>1, <4>2 DEF BitDone
      <3>6. DoneInv(c, store)
        BY <2>3, <3>4, <3>5 DEF DoneInv
      <3> QED
        BY <3>1, <3>4, <3>6 DEF AccessInv
    <2> QED
      BY <2>2, <2>3 DEF Kinds
  <1> QED
    BY <1>7, <1>8

\* A callback puts bits: they are the callback's from then on.
LEMMA CallbackPutsStep ==
    ASSUME IInv, NEW bits \in SUBSET Bits, CallbackPuts(bits)
    PROVE  AccessInv(access', store')
  <1> DEFINE a == access
             c == [a EXCEPT !.puts = @ \cup bits]
  <1>1. /\ a.phase \in {"callback", "post"}
        /\ PutsElsewhere \/ bits \subseteq BitsOf[Walk[a.at]]
        /\ access' = c
        /\ \A b \in Bits : store'[b] = IF b \in bits THEN "callback" ELSE store[b]
    BY DEF CallbackPuts
  <1>2. IsAccess(a) /\ (PendingInv(a, store) \/ PostInv(a, store))
    BY <1>1 DEF IInv, AccessInv, DoneInv, NoAccess
  <1> HIDE DEF a
  <1>3. /\ IsAccess(c) /\ c.phase = a.phase /\ c.kind = a.kind /\ c.mask = a.mask
        /\ c.at = a.at /\ c.data = a.data /\ c.taken = a.taken /\ c.asked = a.asked
        /\ c.puts = a.puts \cup bits /\ c.posted = a.posted /\ c.same = a.same
    BY <1>2 DEF IsAccess, IsRecord, AccessFields
  <1> HIDE DEF c
  <1>4. CASE PendingInv(a, store)
    <2>1. ASSUME NEW b \in Bits
          PROVE  BitPending(c, store'[b], b)
      <3>1. BitPending(a, store[b], b)
        BY <1>4 DEF PendingInv
      <3>2. BitData(c, b)
        BY <1>3, <3>1 DEF BitPending, BitData
      <3>3. BitOrder(c, c.at, b)
        BY <1>3, <3>1 DEF BitPending, BitOrder
      <3> QED
        BY <1>1, <1>3, <3>1, <3>2, <3>3 DEF BitPending
    <2> QED
      BY <1>1, <1>3, <1>4, <2>1 DEF AccessInv, PendingInv
  <1>5. CASE PostInv(a, store)
    <2>1. ASSUME NEW b \in Bits
          PROVE  BitAsked(c, b) /\ BitWritten(c, store'[b], b)
      <3>1. BitAsked(a, b) /\ BitWritten(a, store[b], b)
        BY <1>5 DEF PostInv
      <3> QED
        BY <1>1, <1>3, <3>1 DEF BitAsked, BitWritten
    <2>2. Posts(c, c.at)
      BY <1>3, <1>5 DEF PostInv, Posts
    <2> QED
      BY <1>1, <1>3, <1>5, <2>1, <2>2 DEF AccessInv, PostInv
  <1> QED
    BY <1>2, <1>4, <1>5

\* A callback returns: the walk goes on, or the access has failed.
LEMMA CallbackReturnsStep ==
    ASSUME IInv, NEW ok \in BOOLEAN, CallbackReturns(ok)
    PROVE  AccessInv(access', store')
  <1> DEFINE a == access
  <1>1. /\ IsAccess(a) /\ PendingInv(a, store) /\ a.phase = "callback"
    BY DEF CallbackReturns, IInv, AccessInv, PostInv, DoneInv, NoAccess
  <1>2. CASE ok
    <2> DEFINE r == WithTaken(a)
    <2>1. ContinueAt(r, a.at + 1)
      BY <1>2 DEF CallbackReturns
    <2> HIDE DEF a
    <2>2. IsAccess(r) /\ r.posted = {}
      BY <1>1, WithTakenFields DEF PendingInv
    <2>3. \A b \in Bits : BitReady(r, a.at + 1, store[b], b)
      BY <1>1, ReadyAfterCallback
    <2>4. a.at + 1 \in 1 .. (Len(Walk) + 1)
      BY <1>1, WalkFacts DEF PendingInv
    <2> HIDE DEF r
    <2> QED
      BY <2>1, <2>2, <2>3, <2>4, Continues
  <1>3. CASE ~ok
    <2> DEFINE c == Ended(a, FALSE)
    <2>1. access' = c /\ store' = store
      BY <1>3 DEF CallbackReturns
    <2> HIDE DEF a
    <2>2. /\ IsAccess(c) /\ c.phase = "done" /\ ~c.ok /\ c.kind = a.kind /\ c.mask = a.mask
          /\ c.asked = a.asked /\ c.puts = a.puts /\ c.posted = a.posted
      BY <1>1, EndedFields
    <2> HIDE DEF c
    <2>3. ASSUME NEW b \in Bits
          PROVE  BitDone(c, store[b], b)
      <3>1. BitPending(a, store[b], b) /\ Walk[a.at] \in Fields
        BY <1>1, WalkFacts DEF PendingInv
      <3>2. /\ b \notin a.mask => a.asked[b] = {}
            /\ a.asked[b] = {} \/ \E f \in Fields : a.asked[b] = {f}
        BY <3>1 DEF BitPending, BitData
      <3> QED
        BY <2>2, <3>1, <3>2 DEF BitDone, BitPending
    <2> QED
      BY <1>1, <2>1, <2>2, <2>3 DEF AccessInv, DoneInv, PendingInv
  <1> QED
    BY <1>2, <1>3

\* A post-write callback returns: the next one is called.
LEMMA PostWriteReturnsStep ==
    ASSUME IInv, PostWriteReturns
    PROVE  AccessInv(access', store')
  <1>1. IsAccess(access) /\ PostInv(access, store)
    BY DEF PostWriteReturns, IInv, AccessInv, PendingInv, DoneInv, NoAccess
  <1>2. /\ access.at + 1 \in 1 .. (Len(Walk) + 1)
        /\ (access.at + 1) - 1 = access.at
    BY <1>1, WalkFacts DEF PostInv
  <1>3. Posts(access, (access.at + 1) - 1)
    BY <1>1, <1>2 DEF PostInv
  <1>4. AccessInv(AtPost(access, access.at + 1), store)
    BY <1>1, <1>2, <1>3, PostsGoOn DEF PostInv, IInv
  <1> QED
    BY <1>4 DEF PostWriteReturns

\* Between accesses the memory is what it was.
LEMMA ForgetStep ==
    ASSUME Forget
    PROVE  AccessInv(access', store')
  BY DEF Forget, AccessInv

-----------------------------------------------------------------------------
(* A step of an access leaves the callbacks alone; once callbacks are set  *)
(* or removed, the invariant no longer says which bitfield answers.        *)
LEMMA SameCallbacks ==
    ASSUME UNCHANGED callbacks, AccessInv(access', store')
    PROVE  AccessInv(access, store)'
  <1>1. IsAccess(access') => IsAccess(access)'
    BY DEF IsAccess, IsRecord
  <1>2. ASSUME NEW b \in Bits
        PROVE  /\ BitPending(access', store'[b], b) => BitPending(access, store[b], b)'
               /\ BitAsked(access', b) => BitAsked(access, b)'
               /\ BitWritten(access', store'[b], b) => BitWritten(access, store[b], b)'
    <2>1. BitData(access', b) => BitData(access, b)'
      BY DEF BitData
    <2>2. BitOrder(access', access'.at, b) => BitOrder(access, access.at, b)'
      BY DEF BitOrder, Handled, IsFirst, Takes
    <2>3. BitAsked(access', b) => BitAsked(access, b)'
      BY DEF BitAsked, AnswersFor
    <2> QED
      BY <2>1, <2>2, <2>3 DEF BitPending, BitWritten
  <1>3. PendingInv(access', store') => PendingInv(access, store)'
    BY <1>2 DEF PendingInv
  <1>4. PostInv(access', store') => PostInv(access, store)'
    BY <1>2 DEF PostInv, Posts
  <1>5. DoneInv(access', store') => DoneInv(access, store)'
    <2>1. ASSUME NEW b \in Bits
          PROVE  BitDone(access', store'[b], b) => BitDone(access, store[b], b)'
      BY <1>2 DEF BitDone
    <2> QED
      BY <2>1 DEF DoneInv, Posts
  <1> QED
    BY <1>1, <1>3, <1>4, <1>5 DEF AccessInv

\* A change of the callbacks leaves what was already settled.
LEMMA ChangingStep ==
    ASSUME IInv, Changing
    PROVE  AccessInv(access, store)'
  <1>1. CASE access = NoAccess
    BY <1>1 DEF Changing, IInv, AccessInv, NoAccess, PendingInv, PostInv, DoneInv
  <1>2. CASE access # NoAccess
    <2> DEFINE a == access
               c == [a EXCEPT !.same = FALSE]
    <2>1. access' = c /\ store' = store
      BY <1>2 DEF Changing
    <2>2. IsAccess(a) /\ (PendingInv(a, store) \/ PostInv(a, store))
      BY <1>2 DEF Changing, UserRuns, IInv, AccessInv, DoneInv
    <2> HIDE DEF a
    <2>3. /\ IsAccess(c) /\ c.phase = a.phase /\ c.kind = a.kind /\ c.mask = a.mask
          /\ c.at = a.at /\ c.data = a.data /\ c.taken = a.taken /\ c.asked = a.asked
          /\ c.puts = a.puts /\ c.posted = a.posted /\ ~c.same
      BY <2>2 DEF IsAccess, IsRecord, AccessFields
    <2> HIDE DEF c
    <2>4. CASE PendingInv(a, store)
      <3>1. PendingInv(access, store)'
        <4>1. ASSUME NEW b \in Bits
              PROVE  BitPending(access, store[b], b)'
          <5>1. BitPending(a, store[b], b)
            BY <2>4 DEF PendingInv
          <5>2. BitData(access, b)'
            BY <2>1, <2>3, <5>1 DEF BitPending, BitData
          <5>3. BitOrder(access, access.at, b)'
            BY <2>1, <2>3 DEF BitOrder
          <5> QED
            BY <2>1, <2>3, <5>1, <5>2, <5>3 DEF BitPending
        <4> QED
          BY <2>1, <2>3, <2>4, <4>1 DEF PendingInv
      <3> QED
        BY <2>1, <2>3, <3>1 DEF AccessInv, IsAccess, IsRecord
    <2>5. CASE PostInv(a, store)
      <3>1. PostInv(access, store)'
        BY <2>1, <2>3, <2>5 DEF PostInv, Posts, BitAsked, BitWritten
      <3> QED
        BY <2>1, <2>3, <3>1 DEF AccessInv, IsAccess, IsRecord
    <2> QED
      BY <2>2, <2>4, <2>5
  <1> QED
    BY <1>1, <1>2

\* hasPost stays set, so no post-write callback is passed over.
LEMMA PostsInstalledStep ==
    ASSUME ConfigInv, PostsInstalled, [Next]_vars
    PROVE  PostsInstalled'
  <1>1. "post" \notin Kinds /\ callbacks \in [Kinds \cup {"post"} -> SUBSET Fields]
    BY DEF Kinds, ConfigInv, ConfigTypeOK
  <1>2. ASSUME NEW k \in Kinds, NEW f \in Fields, SetFieldCallback(k, f) \/ RemoveFieldCallback(k, f)
        PROVE  PostsInstalled'
    BY <1>1, <1>2 DEF PostsInstalled, SetFieldCallback, RemoveFieldCallback
  <1>3. ASSUME NEW f \in Fields, SetPostWriteCallback(f) \/ RemovePostWriteCallback(f)
        PROVE  PostsInstalled'
    BY <1>1, <1>3 DEF PostsInstalled, SetPostWriteCallback, RemovePostWriteCallback
  <1>4. ASSUME NEW ks, SetCallback(ks) \/ RemoveCallback(ks)
        PROVE  PostsInstalled'
    BY <1>4 DEF PostsInstalled, SetCallback, RemoveCallback
  <1>5. CASE UNCHANGED config
    BY <1>5 DEF PostsInstalled, config
  <1> QED
    BY <1>2, <1>3, <1>4, <1>5
    DEF Next, Access, CallbackPuts, CallbackReturns, PostWriteReturns, Forget, vars

(***************************************************************************)
(* The invariant is inductive.                                             *)
(***************************************************************************)
LEMMA InitInv == Init => IInv
  BY InitReached DEF Init, IInv, PostsInstalled, AccessInv

\* Every step preserves the invariant.
LEMMA StepInv ==
    ASSUME IInv, [Next]_vars
    PROVE  IInv'
  <1>1. ConfigInv' /\ PostsInstalled'
    BY StepReached, PostsInstalledStep DEF IInv
  <1>2. AccessInv(access, store)'
    <2>1. ASSUME NEW k \in Kinds, NEW f \in Fields, SetFieldCallback(k, f) \/ RemoveFieldCallback(k, f)
          PROVE  AccessInv(access, store)'
      BY <2>1, ChangingStep DEF SetFieldCallback, RemoveFieldCallback
    <2>2. ASSUME NEW f \in Fields, SetPostWriteCallback(f) \/ RemovePostWriteCallback(f)
          PROVE  AccessInv(access, store)'
      BY <2>2, ChangingStep DEF SetPostWriteCallback, RemovePostWriteCallback
    <2>3. ASSUME NEW ks, SetCallback(ks) \/ RemoveCallback(ks)
          PROVE  AccessInv(access, store)'
      BY <2>3, ChangingStep DEF SetCallback, RemoveCallback
    <2>4. CASE \E k \in Kinds, mask \in Masks : Access(k, mask)
      BY <2>4, AccessStep, SameCallbacks DEF Access, config
    <2>5. CASE \E bits \in SUBSET Bits : CallbackPuts(bits)
      BY <2>5, CallbackPutsStep, SameCallbacks DEF CallbackPuts, config
    <2>6. CASE \E ok \in BOOLEAN : CallbackReturns(ok)
      BY <2>6, CallbackReturnsStep, SameCallbacks DEF CallbackReturns, config
    <2>7. CASE PostWriteReturns
      BY <2>7, PostWriteReturnsStep, SameCallbacks DEF PostWriteReturns, config
    <2>8. CASE Forget
      BY <2>8, ForgetStep, SameCallbacks DEF Forget, config
    <2>9. CASE UNCHANGED vars
      BY <2>9, SameCallbacks DEF vars, config, IInv
    <2> QED
      BY <2>1, <2>2, <2>3, <2>4, <2>5, <2>6, <2>7, <2>8, <2>9 DEF Next
  <1> QED
    BY <1>1, <1>2 DEF IInv

\* The invariant holds in every reachable state.
LEMMA AlwaysInv == Spec => []IInv
  BY InitInv, StepInv, PTL DEF Spec

-----------------------------------------------------------------------------

\* A bit that one bitfield was given was given to at most one.
LEMMA AtMostOne ==
    ASSUME NEW S, S = {} \/ \E f \in Fields : S = {f}
    PROVE  Cardinality(S) <= 1
  BY FS_EmptySet, FS_Singleton

(***************************************************************************)
(* Whatever callbacks do, no bit of an access goes to two bitfields or to  *)
(* one that was not enabled, and a bit of an access that no change of the  *)
(* callbacks disturbed goes to the innermost bitfield that has a callback  *)
(* (the bitsWritten and bitsRead masks of reg.h).                          *)
(***************************************************************************)
THEOREM BitsGoToOnePlace == Spec => []EveryBitGoesToOnePlace
  <1>1. IInv => EveryBitGoesToOnePlace
    <2> SUFFICES ASSUME IInv, access.phase \in {"callback", "post", "done"}, NEW b \in Bits
                 PROVE  /\ Cardinality(access.asked[b]) <= 1
                        /\ b \notin access.mask => access.asked[b] = {}
                        /\ Undisturbed /\ b \in access.mask =>
                               access.asked[b] = AnswersFor(access.kind, b)
      BY DEF EveryBitGoesToOnePlace
    <2>1. /\ IsAccess(access)
          /\ PendingInv(access, store) \/ PostInv(access, store) \/ DoneInv(access, store)
      BY DEF IInv, AccessInv, NoAccess
    <2>2. CASE PendingInv(access, store)
      <3>1. BitPending(access, store[b], b) /\ Walk[access.at] \in Fields /\ access.phase = "callback"
        BY <2>2, WalkFacts DEF PendingInv
      <3>2. /\ b \notin access.mask => access.asked[b] = {}
            /\ access.asked[b] = {} \/ \E f \in Fields : access.asked[b] = {f}
        BY <3>1 DEF BitPending, BitData
      <3> QED
        BY <3>1, <3>2, AtMostOne DEF Undisturbed
    <2>3. CASE PostInv(access, store)
      <3>1. BitAsked(access, b) /\ access.phase = "post"
        BY <2>3 DEF PostInv
      <3> QED
        BY <3>1, AtMostOne DEF Undisturbed, BitAsked
    <2>4. CASE DoneInv(access, store)
      <3>1. BitDone(access, store[b], b)
        BY <2>4 DEF DoneInv
      <3> QED
        BY <3>1, AtMostOne DEF Undisturbed, BitDone, BitAsked
    <2> QED
      BY <2>1, <2>2, <2>3, <2>4
  <1> QED
    BY <1>1, AlwaysInv, PTL

(***************************************************************************)
(* When callbacks put the bits of their own bitfield only, every bit a     *)
(* write leaves and a read returns comes from where it should: the merge   *)
(* of what the bitfields took with the rest loses nothing (reg.h).         *)
(***************************************************************************)
THEOREM ResultAlwaysWhole == ~PutsElsewhere => (Spec => []TheResultIsWhole)
  <1> SUFFICES ASSUME ~PutsElsewhere PROVE Spec => []TheResultIsWhole
    OBVIOUS
  <1>1. IInv => TheResultIsWhole
    <2> SUFFICES ASSUME IInv, access.phase = "done"
                 PROVE  \A b \in Bits : BitDone(access, store[b], b)
      BY DEF TheResultIsWhole, BitDone, BitWritten
    <2> QED
      BY DEF IInv, AccessInv, NoAccess, PendingInv, PostInv, DoneInv
  <1> QED
    BY <1>1, AlwaysInv, PTL

(***************************************************************************)
(* A write calls the post-write callback of every bitfield it touched, and *)
(* not before its bits are in the memory, however callbacks are set and    *)
(* removed meanwhile (reg::put_with_triggering_bitfield_callbacks).        *)
(***************************************************************************)
THEOREM PostWritesAlwaysFollow == Spec => []PostWritesFollow
  <1>1. IInv => PostWritesFollow
    <2> SUFFICES ASSUME IInv, access.phase \in {"post", "done"}
                 PROVE  /\ access.posted # {} => access.kind = "write"
                        /\ access.phase = "post" =>
                               \A b \in access.mask : access.asked[b] = {} => store[b] # "old"
                        /\ Undisturbed /\ access.kind = "write" =>
                               access.posted = {f \in callbacks["post"] : IsAccessed(f, access.mask)}
      BY DEF PostWritesFollow
    <2>1. IsAccess(access) /\ (PostInv(access, store) \/ DoneInv(access, store))
      BY DEF IInv, AccessInv, NoAccess, PendingInv
    <2>2. access.posted # {} => access.kind = "write"
      BY <2>1 DEF IsAccess, Kinds, PostInv, DoneInv
    <2>3. ASSUME access.phase = "post", NEW b \in access.mask, access.asked[b] = {}
          PROVE  store[b] # "old"
      <3>1. b \in Bits /\ BitWritten(access, store[b], b)
        BY <2>1, <2>3 DEF IsAccess, PostInv, DoneInv
      <3> QED
        BY <2>3, <3>1 DEF BitWritten
    <2>4. ASSUME Undisturbed, access.kind = "write"
          PROVE  access.posted = {f \in callbacks["post"] : IsAccessed(f, access.mask)}
      <3>1. access.posted = {Walk[l] : l \in {m \in 1 .. Len(Walk) :
                                Walk[m] \in callbacks["post"] /\ IsAccessed(Walk[m], access.mask)}}
        BY <2>1, <2>4 DEF Undisturbed, PostInv, DoneInv, Posts
      <3>2. callbacks["post"] \subseteq Fields
        BY DEF IInv, ConfigInv, ConfigTypeOK
      <3>3. \A f \in callbacks["post"] : \E l \in 1 .. Len(Walk) : Walk[l] = f
        BY <3>2, WalkAssumption
      <3> QED
        BY <3>1, <3>3
    <2> QED
      BY <2>2, <2>3, <2>4
  <1> QED
    BY <1>1, AlwaysInv, PTL
=============================================================================
