---------------------------- MODULE BoundedQueue ----------------------------
(***************************************************************************)
(* What a scml2::objects::fifo promises about its contents, whatever its   *)
(* callbacks do: when an element may come in, which one leaves, and what a *)
(* change of the size does.  The first element is the newest.              *)
(***************************************************************************)
EXTENDS Naturals, Sequences, SequencesExt

CONSTANTS Values, Sizes

VARIABLES
    contents,       \* the elements, the newest first
    size,           \* how many there may be
    sizeStyle,      \* "fixed": none leaves before it is full; "flex": no limit
    overflowStyle   \* what gives way when it is full

vars == << contents, size, sizeStyle, overflowStyle >>

SizeStyles     == {"fixed", "flex", "max"}
OverflowStyles == {"overwrite", "overrun", "forced_pop"}

IsFull == sizeStyle # "flex" /\ Len(contents) >= size

Init ==
    /\ contents = << >>
    /\ size \in Sizes /\ sizeStyle \in SizeStyles /\ overflowStyle \in OverflowStyles

Enter(v) ==
    /\ ~IsFull
    /\ contents' = << v >> \o contents
    /\ UNCHANGED << size, sizeStyle, overflowStyle >>

(* The newest element gives way to a newer one.                            *)
Overwrite(v) ==
    /\ IsFull /\ overflowStyle = "overwrite"
    /\ contents' = << v >> \o Tail(contents)
    /\ UNCHANGED << size, sizeStyle, overflowStyle >>

(* The oldest element leaves: when it is asked for, or to make room.       *)
Leave ==
    /\ contents # << >>
    /\ \/ sizeStyle = "fixed" => Len(contents) = size
       \/ IsFull /\ overflowStyle = "forced_pop"
    /\ contents' = Front(contents)
    /\ UNCHANGED << size, sizeStyle, overflowStyle >>

Clear == contents' = << >> /\ UNCHANGED << size, sizeStyle, overflowStyle >>

(* A change of the configuration drops the oldest elements over the limit. *)
Configure ==
    /\ size' \in Sizes /\ sizeStyle' \in SizeStyles
    /\ overflowStyle' \in OverflowStyles
    /\ contents' = IF sizeStyle' # "flex" /\ Len(contents) > size'
                   THEN SubSeq(contents, 1, size') ELSE contents

Next ==
    \/ \E v \in Values : Enter(v) \/ Overwrite(v)
    \/ Leave \/ Clear \/ Configure

Spec == Init /\ [][Next]_vars
=============================================================================
