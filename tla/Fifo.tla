-------------------------------- MODULE Fifo --------------------------------
(***************************************************************************)
(* scml2::objects::fifo.  push and pop call the user's callbacks in the    *)
(* middle of their work, and what is called there may use the same fifo:   *)
(* push, pop, clear it, or change its size and styles.  Calls in progress  *)
(* are a stack of frames; a frame's pc names the callback it is waiting    *)
(* for, or rather the place in the code that calls it.                     *)
(***************************************************************************)
EXTENDS Naturals, Sequences, SequencesExt, FiniteSets

CONSTANTS
    Values,          \* what is pushed
    Sizes,           \* the values of the attribute size
    AlmostEmptyLevel, AlmostFullLevel,
    Reenter,         \* [Places -> SUBSET Operations]: what may be done to the
                     \* fifo, directly or not, while it waits at a place
    MaxDepth,        \* bound on calls inside each other
    MaxElements      \* bound on the elements of a fifo without limit

SizeStyles     == {"fixed", "flex", "max"}
OverflowStyles == {"overwrite", "overrun", "forced_pop"}
Versions       == {"V1_0", "V2_0"}
Operations     == {"push", "pop", "clear", "resize", "restyle"}

(* Where the fifo calls its user: the last five are those of V1_0.         *)
Places ==
    {"overflow", "overrun", "forced_pop", "forced_item_popped",
     "new_item_available", "new_item_flex", "new_item_overwrite",
     "new_item_forced", "almost_full", "almost_full_flex", "full",
     "underflow", "insufficient_elements", "item_popped", "almost_empty",
     "empty", "V1_full", "V1_empty", "V1_almost_empty", "V1_almost_full",
     "V1_new_item_available"}

ASSUME FifoAssumption ==
    /\ Sizes \subseteq Nat \ {0} /\ AlmostEmptyLevel \in Nat /\ AlmostFullLevel \in Nat
    /\ Reenter \in [Places -> SUBSET Operations]
    /\ MaxDepth \in Nat \ {0} /\ MaxElements \in Nat

VARIABLES
    version,        \* the fifo's version; never changes
    Q,              \* the deque; its front is where elements come in
    size,           \* the attribute size
    sizeStyle,      \* config_options.fifo_size_style
    overflowStyle,  \* config_options.fifo_overflow_style
    flags,          \* ctrl_flags
    calls,          \* the calls in progress, the innermost last
    undefined,      \* an element was taken from an empty deque
    returned        \* for checking: what the last push returned, and how
                    \* often it had added its element

vars == << version, Q, size, sizeStyle, overflowStyle, flags, calls,
           undefined, returned >>

-----------------------------------------------------------------------------
(* set_ctrl_flags: everything but, if asked, the flag full.                *)
\* Mutant of CtrlFlags.
CtrlFlags_FullKept(q, old, fullIncluded) ==
    [full         |-> old.full,
     empty        |-> q = << >>,
     almostEmpty  |-> Len(q) <= AlmostEmptyLevel,
     almostFull   |-> Len(q) >= AlmostFullLevel,
     insufficient |-> sizeStyle = "fixed" /\ Len(q) # size]

CtrlFlags(q, old, fullIncluded) ==
    [full         |-> IF fullIncluded THEN Len(q) = size ELSE old.full,
     empty        |-> q = << >>,
     almostEmpty  |-> Len(q) <= AlmostEmptyLevel,
     almostFull   |-> Len(q) >= AlmostFullLevel,
     insufficient |-> sizeStyle = "fixed" /\ Len(q) # size]

(* The part of the state that the steps of a call work on.                 *)
Now == [Q |-> Q, flags |-> flags, calls |-> calls,
        undefined |-> undefined, returned |-> returned]

Becomes(m) ==
    /\ Q' = m.Q /\ flags' = m.flags /\ calls' = m.calls
    /\ undefined' = m.undefined /\ returned' = m.returned
    /\ UNCHANGED << version, size, sizeStyle, overflowStyle >>

Call(m) == Last(m.calls)
SetCall(m, c) == [m EXCEPT !.calls = Append(Front(@), c)]

Called(m, op, v) ==
    [m EXCEPT !.calls = Append(@, [op |-> op, pc |-> "", value |-> v,
                                   elementAdded |-> FALSE, retVal |-> TRUE, times |-> 0])]
At(m, place)   == SetCall(m, [Call(m) EXCEPT !.pc = place])
WithFlags(m)   == [m EXCEPT !.flags = CtrlFlags(m.Q, m.flags, TRUE)]
Returning(m, val) ==
    [m EXCEPT !.calls = Front(@),
              !.returned = IF Call(m).op = "push"
                           THEN [retVal |-> val, times |-> Call(m).times] ELSE @]

(* add_element, up to the call of new_item_available.                      *)
Added(m, place) ==
    [SetCall(m, [Call(m) EXCEPT !.pc = place, !.times = @ + 1])
        EXCEPT !.Q = << Call(m).value >> \o @]

(* The last part of push: the element is added unless it was before or the *)
(* fifo is full.                                                           *)
\* Mutant of AddedIfRoom.
AddedIfRoom_Forgets(m) ==
    IF ~m.flags.full THEN Added(m, "new_item_available")
    ELSE At(m, "full")

AddedIfRoom(m) ==
    IF ~m.flags.full /\ ~Call(m).elementAdded THEN Added(m, "new_item_available")
    ELSE IF m.flags.full THEN At(m, "full") ELSE Returning(m, Call(m).retVal)

(* pop: the value is taken, unless there are too few elements.             *)
Popped(m) ==
    IF m.Q = << >> THEN [m EXCEPT !.undefined = TRUE]
    ELSE At([m EXCEPT !.Q = Front(@)], "item_popped")

PoppedIfSufficient(m) ==
    IF m.flags.insufficient THEN At(m, "insufficient_elements") ELSE Popped(m)

(* check_almost_sizes of V1_0, and what follows it in push and in pop.     *)
V1_Checked(m) ==
    IF Call(m).op = "push" THEN At(m, "V1_new_item_available")
    ELSE IF m.Q = << >> THEN [m EXCEPT !.undefined = TRUE]
    ELSE Returning([m EXCEPT !.Q = Front(@)], TRUE)

V1_CheckedFull(m) ==
    IF Len(m.Q) >= AlmostFullLevel THEN At(m, "V1_almost_full") ELSE V1_Checked(m)

V1_CheckAlmostSizes(m) ==
    IF Len(m.Q) <= AlmostEmptyLevel THEN At(m, "V1_almost_empty")
    ELSE V1_CheckedFull(m)

-----------------------------------------------------------------------------
(* The user calls the fifo at any time, and while callbacks are running    *)
(* what Reenter has for the place of every one of them.                    *)
UserMay(op) ==
    /\ ~undefined
    /\ \A i \in DOMAIN calls : op \in Reenter[calls[i].pc]
    /\ Len(calls) < MaxDepth

Push(v) ==
    /\ UserMay("push") /\ Len(Q) < MaxElements
    /\ LET m == Called(Now, "push", v)
       IN  \/ /\ version = "V1_0"
              /\ Becomes(IF Len(Q) = size THEN At(m, "V1_full")
                         ELSE V1_CheckAlmostSizes(m))
           \/ /\ version # "V1_0" /\ sizeStyle = "flex"
              /\ Becomes(Added(m, "new_item_flex"))
           \/ /\ version # "V1_0" /\ sizeStyle # "flex"
              /\ Becomes(IF WithFlags(m).flags.full THEN At(WithFlags(m), "overflow")
                         ELSE AddedIfRoom(WithFlags(m)))

Pop ==
    /\ UserMay("pop")
    /\ LET m == Called(Now, "pop", "")
           f == WithFlags(m)
       IN  \/ /\ version = "V1_0"
              /\ Becomes(IF Q = << >> THEN At(m, "V1_empty") ELSE V1_CheckAlmostSizes(m))
           \/ /\ version # "V1_0"
              /\ Becomes(IF f.flags.empty THEN At(f, "underflow")
                         ELSE PoppedIfSufficient(f))

Clear ==
    /\ UserMay("clear")
    /\ Q' = << >> /\ flags' = CtrlFlags(<< >>, flags, TRUE)
    /\ UNCHANGED << version, size, sizeStyle, overflowStyle, calls, undefined, returned >>

(* update_size_config, after an assignment to size or fifo_size_style.     *)
Resized(n, style) ==
    IF style # "flex" /\ Len(Q) > n THEN SubSeq(Q, 1, n) ELSE Q

UpdateSizeConfig(n, style) ==
    /\ size' = n /\ sizeStyle' = style
    /\ Q' = Resized(n, style)
    /\ flags' = [flags EXCEPT
                    !.insufficient = style = "fixed" /\ Len(Q) # n,
                    !.full = style # "flex" /\ Len(Resized(n, style)) = n]
    /\ UNCHANGED << version, overflowStyle, calls, undefined, returned >>

(* The size of a fifo of V1_0 is set once, before it is used.              *)
SetSize(n) ==
    /\ UserMay("resize") /\ version # "V1_0"
    /\ UpdateSizeConfig(n, sizeStyle)

SetSizeStyle(style) ==
    /\ UserMay("restyle")
    /\ UpdateSizeConfig(size, style)

SetOverflowStyle(style) ==
    /\ UserMay("restyle")
    /\ overflowStyle' = style
    /\ UNCHANGED << version, Q, size, sizeStyle, flags, calls, undefined, returned >>

-----------------------------------------------------------------------------
(* A callback returns, and its caller goes on.                             *)
Returns(place) == ~undefined /\ calls # << >> /\ Last(calls).pc = place

\* Mutant of OverflowReturns.
OverflowReturns_NotAsked ==
    /\ Returns("overflow") /\ Q # << >>
    /\ \/ /\ overflowStyle = "overwrite"
          /\ Becomes(Added([WithFlags(Now) EXCEPT !.Q = Tail(@)], "new_item_overwrite"))
       \/ /\ overflowStyle = "forced_pop"
          /\ Becomes(At([WithFlags(Now) EXCEPT !.Q = Front(@)], "forced_pop"))
       \/ /\ overflowStyle = "overrun"
          /\ Becomes(At(WithFlags(Now), "overrun"))

OverflowReturns ==
    /\ Returns("overflow")
    /\ LET m == WithFlags(Now)
       IN  \/ /\ ~m.flags.full
              /\ Becomes(AddedIfRoom(m))
           \/ /\ m.flags.full /\ overflowStyle = "overwrite"
              /\ Becomes(Added([m EXCEPT !.Q = Tail(@)], "new_item_overwrite"))
           \/ /\ m.flags.full /\ overflowStyle = "forced_pop"
              /\ Becomes(At([m EXCEPT !.Q = Front(@)], "forced_pop"))
           \/ /\ m.flags.full /\ overflowStyle = "overrun"
              /\ Becomes(At(m, "overrun"))

OverrunReturns ==
    /\ Returns("overrun")
    /\ LET m == WithFlags(Now)
       IN  Becomes(AddedIfRoom(SetCall(m, [Call(m) EXCEPT !.retVal = FALSE])))

ForcedPopReturns ==
    Returns("forced_pop") /\ Becomes(At(Now, "forced_item_popped"))

ForcedItemPoppedReturns ==
    Returns("forced_item_popped") /\ Becomes(Added(Now, "new_item_forced"))

NewItemForcedReturns ==
    /\ Returns("new_item_forced")
    /\ LET m == WithFlags(Now)
       IN  Becomes(AddedIfRoom(SetCall(m, [Call(m) EXCEPT !.elementAdded = TRUE])))

(* element_added is not set when an element was overwritten.               *)
NewItemOverwriteReturns ==
    Returns("new_item_overwrite") /\ Becomes(AddedIfRoom(WithFlags(Now)))

FullOrReturns(m) == IF m.flags.full THEN At(m, "full") ELSE Returning(m, TRUE)

NewItemReturns ==
    /\ Returns("new_item_available")
    /\ LET m == WithFlags(Now)
           t == SetCall(m, [Call(m) EXCEPT !.retVal = TRUE])
       IN  Becomes(IF m.flags.almostFull THEN At(t, "almost_full") ELSE FullOrReturns(t))

AlmostFullReturns == Returns("almost_full") /\ Becomes(FullOrReturns(Now))

FullReturns == Returns("full") /\ Becomes(Returning(Now, Call(Now).retVal))

NewItemFlexReturns ==
    /\ Returns("new_item_flex")
    /\ LET m == [Now EXCEPT !.flags = CtrlFlags(Q, @, FALSE)]
       IN  Becomes(IF m.flags.almostFull THEN At(m, "almost_full_flex")
                   ELSE Returning(m, TRUE))

AlmostFullFlexReturns == Returns("almost_full_flex") /\ Becomes(Returning(Now, TRUE))

UnderflowReturns ==
    /\ Returns("underflow")
    /\ LET m == WithFlags(Now)
       IN  Becomes(IF m.flags.empty THEN Returning(m, FALSE) ELSE PoppedIfSufficient(m))

InsufficientReturns ==
    /\ Returns("insufficient_elements")
    /\ LET m == WithFlags(Now)
       IN  Becomes(IF m.flags.insufficient THEN Returning(m, FALSE) ELSE Popped(m))

EmptyOrReturns(m) == IF m.flags.empty THEN At(m, "empty") ELSE Returning(m, TRUE)

ItemPoppedReturns ==
    /\ Returns("item_popped")
    /\ LET m == WithFlags(Now)
       IN  Becomes(IF m.flags.almostEmpty THEN At(m, "almost_empty") ELSE EmptyOrReturns(m))

AlmostEmptyReturns == Returns("almost_empty") /\ Becomes(EmptyOrReturns(Now))

EmptyReturns == Returns("empty") /\ Becomes(Returning(Now, TRUE))

V1_RefusalReturns ==
    \E place \in {"V1_full", "V1_empty"} :
        Returns(place) /\ Becomes(Returning(Now, FALSE))

V1_AlmostEmptyReturns == Returns("V1_almost_empty") /\ Becomes(V1_CheckedFull(Now))
V1_AlmostFullReturns  == Returns("V1_almost_full") /\ Becomes(V1_Checked(Now))

(* V1_0 announces the element before it is there.                          *)
V1_NewItemReturns ==
    /\ Returns("V1_new_item_available")
    /\ LET m == SetCall(Now, [Call(Now) EXCEPT !.times = @ + 1])
       IN  Becomes(Returning([m EXCEPT !.Q = << Call(m).value >> \o @], TRUE))

-----------------------------------------------------------------------------
Init ==
    /\ version \in Versions
    /\ Q = << >>
    /\ size \in Sizes /\ sizeStyle \in SizeStyles /\ overflowStyle \in OverflowStyles
    /\ flags = [full |-> FALSE, empty |-> TRUE, almostEmpty |-> TRUE,
                almostFull |-> FALSE, insufficient |-> sizeStyle = "fixed"]
    /\ calls = << >>
    /\ undefined = FALSE
    /\ returned = [retVal |-> TRUE, times |-> 1]

Next ==
    \/ \E v \in Values : Push(v)
    \/ Pop \/ Clear
    \/ \E n \in Sizes : SetSize(n)
    \/ \E style \in SizeStyles : SetSizeStyle(style)
    \/ \E style \in OverflowStyles : SetOverflowStyle(style)
    \/ OverflowReturns \/ OverrunReturns \/ ForcedPopReturns \/ ForcedItemPoppedReturns
    \/ NewItemForcedReturns \/ NewItemOverwriteReturns \/ NewItemReturns
    \/ AlmostFullReturns \/ FullReturns \/ NewItemFlexReturns \/ AlmostFullFlexReturns
    \/ UnderflowReturns \/ InsufficientReturns \/ ItemPoppedReturns
    \/ AlmostEmptyReturns \/ EmptyReturns
    \/ V1_RefusalReturns \/ V1_AlmostEmptyReturns \/ V1_AlmostFullReturns
    \/ V1_NewItemReturns

Spec == Init /\ [][Next]_vars

-----------------------------------------------------------------------------
TypeOK ==
    /\ version \in Versions /\ Q \in Seq(Values) /\ size \in Sizes
    /\ sizeStyle \in SizeStyles /\ overflowStyle \in OverflowStyles
    /\ flags \in [{"full", "empty", "almostEmpty", "almostFull", "insufficient"} -> BOOLEAN]
    /\ undefined \in BOOLEAN
    /\ \A i \in DOMAIN calls : calls[i].pc \in Places

(***************************************************************************)
(* The contents change only as the configured styles say, whatever the     *)
(* callbacks do in the middle of a push or a pop; in particular no element *)
(* comes in over the limit and a fixed fifo gives none away before it is   *)
(* full (push_impl, pop_impl, update_size_config).  V1_0 knows no styles.  *)
(***************************************************************************)
Queue == INSTANCE BoundedQueue WITH
            contents  <- Q,
            sizeStyle <- IF version = "V1_0" THEN "max" ELSE sizeStyle

KeepsItsPromise == Queue!Spec

(***************************************************************************)
(* push returns true exactly when it has added its element, and it has     *)
(* added it once ("make sure elements are added only once", push_impl),    *)
(* whatever overflow, overrun and forced_pop did meanwhile.                *)
(***************************************************************************)
PushTellsTheTruth ==
    returned.times = IF returned.retVal THEN 1 ELSE 0

(***************************************************************************)
(* When no call is in progress the flags full and empty are those of the   *)
(* contents, and while one is, nothing is ever taken from an empty deque:  *)
(* the flags a pop goes by were computed after the last callback.          *)
(***************************************************************************)
FlagsCanBeReliedOn ==
    /\ ~undefined
    /\ calls = << >> /\ version # "V1_0" =>
          /\ flags.empty = (Q = << >>)
          /\ sizeStyle # "flex" => flags.full = (Len(Q) = size)

(***************************************************************************)
(* What the declarations of the flags say of full and of                   *)
(* insufficient_elements: "indicates whether fifo has fewer elements than  *)
(* size in case of FIXED_SIZE style" (fifo_ctrl_flags), and a fifo without *)
(* limit "can never be full" (push_impl).                                  *)
(***************************************************************************)
FlagsAsDeclared ==
    calls = << >> /\ version # "V1_0" =>
        /\ flags.insufficient <=> sizeStyle = "fixed" /\ Len(Q) < size
        /\ sizeStyle = "flex" => ~flags.full
=============================================================================
