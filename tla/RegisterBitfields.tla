------------------------- MODULE RegisterBitfields -------------------------
(***************************************************************************)
(* A scml2::reg and its bitfields, which may be nested.  The register      *)
(* installs a memory callback of its own as soon as a bitfield has one, so *)
(* that accesses reach it, and takes it away after the last is gone.  An   *)
(* access is then handed to the bitfields one by one, the inner ones       *)
(* first, and what nobody took goes to the memory.  Callbacks are user     *)
(* code: they may set and remove callbacks and write the register.         *)
(*                                                                         *)
(* A bit is known by where its value comes from: what the register held    *)
(* before the access ("old"), the access, or a put made by a callback.     *)
(* The debug accesses are the same code over flags of their own.           *)
(***************************************************************************)
EXTENDS Naturals, Sequences, FiniteSets

CONSTANTS
    Bits,           \* the bits of the register
    Fields,         \* its bitfields
    BitsOf,         \* [Fields -> SUBSET Bits]
    Parent,         \* [Fields -> Fields \cup {Register}]
    Register,
    Walk,           \* the bitfields in the order in which an access asks them
    Masks,          \* the bits that accesses enable
    PutsElsewhere,  \* may a callback put bits that are not its bitfield's?
    MaxChanges      \* bound on callbacks set and removed

Kinds == {"read", "write"}

ASSUME BitfieldsAssumption ==
    /\ Register \notin Fields
    /\ BitsOf \in [Fields -> SUBSET Bits]
    /\ Parent \in [Fields -> Fields \cup {Register}]
    /\ Masks \subseteq SUBSET Bits
    /\ PutsElsewhere \in BOOLEAN /\ MaxChanges \in Nat

\* The containers hold their bitfields in the order of registration; the
\* inner ones are asked before the one they are in.  Bitfields that overlap,
\* or that reach out of the one they are in, are reported as errors.
ASSUME WalkAssumption ==
    /\ Walk \in Seq(Fields)
    /\ \A f \in Fields : \E i \in DOMAIN Walk : Walk[i] = f
    /\ \A i, j \in DOMAIN Walk :
         /\ Walk[i] = Walk[j] => i = j
         /\ Parent[Walk[i]] = Walk[j] => i < j
    /\ \A f \in Fields : Parent[f] # Register => BitsOf[f] \subseteq BitsOf[Parent[f]]
    /\ \A f, g \in Fields : f # g /\ Parent[f] = Parent[g] => BitsOf[f] \cap BitsOf[g] = {}

VARIABLES
    callbacks,        \* per kind, and for "post": the bitfields that have a callback
    installed,        \* per kind: the memory callback of the register
    hasUser,          \* mHasUserReadCallback, mHasUserWriteCallback
    hasDefaultFields, \* mHasDefaultBitfieldReadBehavior, ...WriteBehavior
    hasPost,          \* mHasBitfieldPostWriteBehavior
    store,            \* where the value of each bit in the memory comes from
    access,           \* the access in progress, or its result; for checking,
                      \* which callbacks a bit was given to (asked), bits put by
                      \* callbacks (puts), post-write callbacks called (posted)
    changes           \* callbacks set and removed so far

config == << callbacks, installed, hasUser, hasDefaultFields, hasPost, changes >>
vars   == << config, store, access >>

NoAccess == [phase |-> "none"]
Old      == [b \in Bits |-> "old"]

Init ==
    /\ callbacks = [k \in Kinds \cup {"post"} |-> {}]
    /\ installed = [k \in Kinds |-> "default"]
    /\ hasUser = [k \in Kinds |-> FALSE]
    /\ hasDefaultFields = [k \in Kinds |-> TRUE]
    /\ hasPost = FALSE
    /\ store = Old
    /\ access = NoAccess
    /\ changes = 0

-----------------------------------------------------------------------------
(* Callbacks are set and removed between accesses and by the callbacks     *)
(* themselves; same says that the access in progress has seen no change.   *)
UserRuns == access.phase # "done"

Changing ==
    /\ UserRuns
    /\ changes < MaxChanges /\ changes' = changes + 1
    /\ access' = IF access = NoAccess THEN access ELSE [access EXCEPT !.same = FALSE]
    /\ UNCHANGED store

(* bitfield_read_callback_registered and its like.                         *)
InstalledFor(k) ==
    IF installed[k] = "default" THEN [installed EXCEPT ![k] = "bitfields"] ELSE installed

SetFieldCallback(k, f) ==
    /\ Changing
    /\ IF f \in callbacks[k]
       THEN UNCHANGED << installed, hasDefaultFields >>
       ELSE /\ installed' = InstalledFor(k)
            /\ hasDefaultFields' = [hasDefaultFields EXCEPT ![k] = FALSE]
    /\ callbacks' = [callbacks EXCEPT ![k] = @ \cup {f}]
    /\ UNCHANGED << hasUser, hasPost >>

(* The callback of the bitfield goes first, so that the register no longer *)
(* counts it when it looks whether any is left.                            *)
RemoveFieldCallback(k, f) ==
    /\ f \in callbacks[k]
    /\ Changing
    /\ callbacks' = [callbacks EXCEPT ![k] = @ \ {f}]
    /\ IF callbacks'[k] = {}
       THEN /\ installed' = IF hasUser[k] THEN installed
                            ELSE [installed EXCEPT ![k] = "default"]
            /\ hasDefaultFields' = [hasDefaultFields EXCEPT ![k] = TRUE]
       ELSE UNCHANGED << installed, hasDefaultFields >>
    /\ UNCHANGED << hasUser, hasPost >>

SetPostWriteCallback(f) ==
    /\ Changing
    /\ installed' = InstalledFor("write")
    /\ hasPost' = TRUE
    /\ callbacks' = [callbacks EXCEPT !["post"] = @ \cup {f}]
    /\ UNCHANGED << hasUser, hasDefaultFields >>

(* Nothing is taken back: the body of the register's part is commented out. *)
RemovePostWriteCallback(f) ==
    /\ f \in callbacks["post"]
    /\ Changing
    /\ callbacks' = [callbacks EXCEPT !["post"] = @ \ {f}]
    /\ UNCHANGED << installed, hasUser, hasDefaultFields, hasPost >>

(* set_callback, set_read_callback and set_write_callback of the register. *)
SetCallback(ks) ==
    /\ Changing
    /\ installed' = [k \in Kinds |-> IF k \in ks THEN "user" ELSE installed[k]]
    /\ hasUser' = [k \in Kinds |-> k \in ks \/ hasUser[k]]
    /\ UNCHANGED << callbacks, hasDefaultFields, hasPost >>

(* remove_callback, remove_read_callback and remove_write_callback.        *)
\* Mutant of RemoveCallback.
RemoveCallback_ToDefault(ks) ==
    /\ Changing
    /\ installed' = [k \in Kinds |-> IF k \in ks THEN "default" ELSE installed[k]]
    /\ hasUser' = [k \in Kinds |-> k \notin ks /\ hasUser[k]]
    /\ UNCHANGED << callbacks, hasDefaultFields, hasPost >>

RemoveCallback(ks) ==
    /\ Changing
    /\ installed' = [k \in Kinds |->
                        IF k \notin ks THEN installed[k]
                        ELSE IF hasDefaultFields[k] THEN "default" ELSE "bitfields"]
    /\ hasUser' = [k \in Kinds |-> k \notin ks /\ hasUser[k]]
    /\ UNCHANGED << callbacks, hasDefaultFields, hasPost >>

-----------------------------------------------------------------------------
(* The first of the bitfields fs, from place i of the walk on, that the    *)
(* enabled bits touch; Len(Walk) + 1 when there is none.  A bitfield whose *)
(* parent is not touched is not touched either.                            *)
IsAccessed(f, mask) == BitsOf[f] \cap mask # {}

NextPlace(i, fs, mask) ==
    LET places == {j \in i .. Len(Walk) : Walk[j] \in fs /\ IsAccessed(Walk[j], mask)}
    IN  IF places = {} THEN Len(Walk) + 1
        ELSE CHOOSE j \in places : \A l \in places : j <= l

(* The access goes on at place i: it calls the next callback, or, having   *)
(* asked all bitfields, deals with the bits nobody took.                   *)
Ended(a, ok) == [a EXCEPT !.phase = "done", !.at = 0, !.ok = ok]

\* Mutant of AtPost.
AtPost_NotTaken(a, i) ==
    LET j == NextPlace(i, IF hasPost THEN callbacks["post"] ELSE {}, a.mask \ a.taken) IN
    IF j > Len(Walk) THEN Ended(a, TRUE)
    ELSE [a EXCEPT !.phase = "post", !.at = j, !.posted = @ \cup {Walk[j]}]

AtPost(a, i) ==
    LET j == NextPlace(i, IF hasPost THEN callbacks["post"] ELSE {}, a.mask) IN
    IF j > Len(Walk) THEN Ended(a, TRUE)
    ELSE [a EXCEPT !.phase = "post", !.at = j, !.posted = @ \cup {Walk[j]}]

\* Mutant of Asking.
Asking_AllEnabled(a, j) ==
    [a EXCEPT !.phase = "callback", !.at = j,
              !.asked = [b \in Bits |-> IF b \in a.mask \cap BitsOf[Walk[j]]
                                        THEN a.asked[b] \cup {Walk[j]} ELSE a.asked[b]]]

Asking(a, j) ==
    [a EXCEPT !.phase = "callback", !.at = j,
              !.asked = [b \in Bits |-> IF b \in (a.mask \cap BitsOf[Walk[j]]) \ a.taken
                                        THEN a.asked[b] \cup {Walk[j]} ELSE a.asked[b]]]

ContinueAt(a, i) ==
    LET j == NextPlace(i, callbacks[a.kind], a.mask) IN
    IF j <= Len(Walk)
    THEN /\ access' = Asking(a, j)
         /\ UNCHANGED store
    ELSE IF a.kind = "write"
    THEN /\ store' = [b \in Bits |-> IF b \in a.taken THEN store[b] ELSE a.data[b]]
         /\ access' = AtPost(a, 1)
    ELSE /\ access' = Ended([a EXCEPT !.data = [b \in Bits |->
                                IF b \in a.taken THEN a.data[b] ELSE store[b]]], TRUE)
         /\ UNCHANGED store

(* put_with_triggering_bitfield_callbacks: data is writeData and taken is  *)
(* bitsWritten.  get_with_triggering_bitfield_callbacks: data is what the  *)
(* caller passed and taken is bitsRead.                                    *)
Begin(k, mask) ==
    [phase |-> "callback", kind |-> k, mask |-> mask, at |-> 0, ok |-> FALSE,
     data  |-> [b \in Bits |-> IF k = "read" THEN "kept"
                               ELSE IF b \in mask THEN "access" ELSE store[b]],
     taken |-> IF k = "read" THEN Bits \ mask ELSE {},
     asked |-> [b \in Bits |-> {}], puts |-> {}, posted |-> {}, same |-> TRUE]

Access(k, mask) ==
    /\ access = NoAccess
    /\ LET a == Begin(k, mask) IN
       IF ~hasDefaultFields[k] THEN ContinueAt(a, 1)
       ELSE IF k = "write"
       THEN store' = a.data /\ access' = AtPost(a, 1)
       ELSE /\ access' = Ended([a EXCEPT !.data = [b \in Bits |->
                                  IF b \in mask THEN store[b] ELSE a.data[b]]], TRUE)
            /\ UNCHANGED store
    /\ UNCHANGED config

(* A callback, of the access or a post-write one, puts some bits.          *)
CallbackPuts(bits) ==
    /\ access.phase \in {"callback", "post"}
    /\ PutsElsewhere \/ bits \subseteq BitsOf[Walk[access.at]]
    /\ store' = [b \in Bits |-> IF b \in bits THEN "callback" ELSE store[b]]
    /\ access' = [access EXCEPT !.puts = @ \cup bits]
    /\ UNCHANGED config

(* The bits of the bitfield are taken, those it was not asked for too.     *)
\* Mutant of WithTaken.
WithTaken_EnabledOnly(a) ==
    LET f == Walk[a.at] IN
    [a EXCEPT !.taken = @ \cup (BitsOf[f] \cap a.mask),
              !.data = IF a.kind = "write" THEN @
                       ELSE [b \in Bits |-> IF b \in a.taken THEN @[b]
                                            ELSE IF b \in BitsOf[f] THEN f ELSE "none"]]

WithTaken(a) ==
    LET f == Walk[a.at] IN
    [a EXCEPT !.taken = @ \cup BitsOf[f],
              !.data = IF a.kind = "write" THEN @
                       ELSE [b \in Bits |-> IF b \in a.taken THEN @[b]
                                            ELSE IF b \in BitsOf[f] THEN f ELSE "none"]]

CallbackReturns(ok) ==
    /\ access.phase = "callback"
    /\ IF ok
       THEN ContinueAt(WithTaken(access), access.at + 1)
       ELSE access' = Ended(access, FALSE) /\ UNCHANGED store
    /\ UNCHANGED config

PostWriteReturns ==
    /\ access.phase = "post"
    /\ access' = AtPost(access, access.at + 1)
    /\ UNCHANGED << config, store >>

(* The access has returned; what the memory holds now is old.              *)
Forget ==
    /\ access.phase = "done"
    /\ access' = NoAccess
    /\ store' = Old
    /\ UNCHANGED config

Next ==
    \/ \E k \in Kinds, f \in Fields : SetFieldCallback(k, f) \/ RemoveFieldCallback(k, f)
    \/ \E f \in Fields : SetPostWriteCallback(f) \/ RemovePostWriteCallback(f)
    \/ \E ks \in (SUBSET Kinds) \ {{}} : SetCallback(ks) \/ RemoveCallback(ks)
    \/ \E k \in Kinds, mask \in Masks : Access(k, mask)
    \/ \E bits \in SUBSET Bits : CallbackPuts(bits)
    \/ \E ok \in BOOLEAN : CallbackReturns(ok)
    \/ PostWriteReturns
    \/ Forget

Spec == Init /\ [][Next]_vars

-----------------------------------------------------------------------------
(* However callbacks of the bitfields and of the register are set and      *)
(* removed, the register's memory callback for a kind of access is the     *)
(* user's if the user has set one, and otherwise that of the bitfields if  *)
(* one of them has a callback of this kind.  It is left without either     *)
(* only for writes, and only once a post-write callback has been set:      *)
(* nothing takes it away when the last of those is gone.  Whether          *)
(* post-write callbacks are reached it does not say (see below).           *)
CallbacksAreReached ==
    \A k \in Kinds :
        /\ hasDefaultFields[k] <=> callbacks[k] = {}
        /\ hasUser[k] <=> installed[k] = "user"
        /\ ~hasUser[k] /\ callbacks[k] # {} => installed[k] = "bitfields"
        /\ installed[k] = "bitfields" /\ callbacks[k] = {} => k = "write" /\ hasPost

(* A bitfield's post-write callback is reached as long as it is set        *)
(* (bitfield_write_callback_unregistered and remove_write_callback take    *)
(* the register's memory callback away without looking for one).           *)
PostWritesAreReached == callbacks["post"] # {} => installed["write"] # "default"

(* An access that has ended, and during which no callback was set or removed. *)
Undisturbed == access.phase = "done" /\ access.ok /\ access.same

(* The bitfield that answers for a bit: of those with a callback, the one  *)
(* that is asked first.                                                    *)
AnswersFor(k, b) ==
    {f \in callbacks[k] : b \in BitsOf[f] /\ \A g \in callbacks[k] :
        b \in BitsOf[g] => \E i, j \in DOMAIN Walk : Walk[i] = f /\ Walk[j] = g /\ i <= j}

(* Every enabled bit of an access goes to one place: to the innermost      *)
(* bitfield with a callback that it belongs to, or else to the memory; and *)
(* no bit that is not enabled goes anywhere.                               *)
EveryBitGoesToOnePlace ==
    access.phase \in {"callback", "post", "done"} =>
        \A b \in Bits :
            /\ Cardinality(access.asked[b]) <= 1
            /\ b \notin access.mask => access.asked[b] = {}
            /\ Undisturbed /\ b \in access.mask =>
                   access.asked[b] = AnswersFor(access.kind, b)

(* What a write leaves in the memory, and a read in the caller's hands: an *)
(* enabled bit that a bitfield took is what its callback made of it, any   *)
(* other is the access's or the memory's; a bit that is not enabled is     *)
(* untouched, what a callback put there stays; a write that fails leaves   *)
(* nothing of its data.                                                    *)
TheResultIsWhole ==
    access.phase = "done" =>
        \A b \in Bits :
            /\ store[b] = "access" =>
                   access.kind = "write" /\ access.ok /\ b \in access.mask /\ access.asked[b] = {}
            /\ access.kind = "write" /\ access.ok /\ b \in access.mask /\ access.asked[b] = {}
                   => store[b] \in {"access", "callback"}
            /\ b \in access.puts /\ (b \notin access.mask \/ access.asked[b] # {})
                   => store[b] = "callback"
            /\ access.kind = "read" /\ access.ok =>
                   access.data[b] \in IF b \notin access.mask THEN {"kept"}
                                      ELSE IF access.asked[b] # {} THEN access.asked[b]
                                      ELSE {store[b]}

(* A write that succeeds calls the post-write callback of every bitfield   *)
(* it touched, after the last of its bits is in place.                     *)
PostWritesFollow ==
    access.phase \in {"post", "done"} =>
        /\ access.posted # {} => access.kind = "write"
        /\ access.phase = "post" =>
               \A b \in access.mask : access.asked[b] = {} => store[b] # "old"
        /\ Undisturbed /\ access.kind = "write" =>
               access.posted = {f \in callbacks["post"] : IsAccessed(f, access.mask)}
=============================================================================
