------------------------------- MODULE MCFifo -------------------------------
(***************************************************************************)
(* A small fifo and the callbacks that its contract bears (see the README  *)
(* for what happens with the others).                                      *)
(***************************************************************************)
EXTENDS Fifo

MCValues == {"a", "b"}
MCSizes  == {1, 2}

\* All that the contract of FifoProofs leaves.
MCReenter ==
    [p \in Places |->
        CASE p \in {"forced_pop", "forced_item_popped", "V1_new_item_available"} ->
                 {"pop", "clear"}
          [] p \in {"new_item_overwrite", "V1_almost_empty", "V1_almost_full"} -> {}
          [] p = "insufficient_elements" -> Operations \ {"pop", "clear"}
          [] p = "overflow" -> Operations \ {"restyle"}
          [] OTHER -> Operations]
=============================================================================
