--------------------------- MODULE UmemOwnership ---------------------------
(***************************************************************************)
(* What the AF_XDP backend promises about the frames of its UMEM           *)
(* (af_xdp.rs).  When the socket is bound every frame joins one of two     *)
(* pools, and from then on it goes round the cycle of its pool:            *)
(*                                                                         *)
(*   RX pool   fill -> rx -> reading -> fill                               *)
(*   TX pool   free -> writing -> tx -> sending -> completed -> free       *)
(*                                                                         *)
(* A frame has one holder at a time and never changes pool, so program and *)
(* kernel never touch a frame together.  The one way out of a cycle is     *)
(* from writing, when the TX ring has no slot for a frame already filled.  *)
(***************************************************************************)
CONSTANT Frames      \* the frame indices of the largest UMEM

VARIABLE holder      \* holder[f]: who has frame f

Successors(h) ==
    CASE h = "unmapped"  -> {"fill", "free"}
      [] h = "fill"      -> {"rx"}
      [] h = "rx"        -> {"reading"}
      [] h = "reading"   -> {"fill"}
      [] h = "free"      -> {"writing"}
      [] h = "writing"   -> {"tx", "lost"}
      [] h = "tx"        -> {"sending"}
      [] h = "sending"   -> {"completed"}
      [] h = "completed" -> {"free"}
      [] h = "lost"      -> {}

Init == holder = [f \in Frames |-> "unmapped"]

\* Rings move batches, so several frames may go on in one step.
Next ==
    /\ DOMAIN holder' = Frames
    /\ \A f \in Frames :
          holder'[f] = holder[f] \/ holder'[f] \in Successors(holder[f])

Spec == Init /\ [][Next]_holder
=============================================================================
