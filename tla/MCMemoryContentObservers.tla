----------------------- MODULE MCMemoryContentObservers -----------------------
(***************************************************************************)
(* A memory of six words in pages of two, and three observers.             *)
(***************************************************************************)
EXTENDS MemoryContentObservers, TLC

CONSTANTS o1, o2, o3

Watching(kinds, low, high) == [kinds |-> kinds, low |-> low, high |-> high]
Access(kind, low, high)    == [kind |-> kind, low |-> low, high |-> high]

MCObservers == {o1, o2, o3}

(* Neighbours, overlaps and a range between two others; an observer of the  *)
(* whole memory and one that only watches reads, in a page of the others.  *)
MCWatches ==
    { (o1 :> Watching({"write"}, 1, 2)) @@ (o2 :> Watching(Kinds, 2, 4))
         @@ (o3 :> Watching({"write"}, 5, 5)),
      (o1 :> Watching(Kinds, 0, 5)) @@ (o2 :> Watching({"write"}, 2, 2))
         @@ (o3 :> Watching({"read"}, 3, 3)),
      (o1 :> Watching({"write"}, 0, 0)) @@ (o2 :> Watching({"write"}, 4, 4))
         @@ (o3 :> Watching({"write"}, 2, 3)) }

MCAccesses == {Access("write", 2, 3)}
=============================================================================
