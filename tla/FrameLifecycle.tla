--------------------------- MODULE FrameLifecycle ---------------------------
(***************************************************************************)
(* What the packet pool promises about one frame, taken from the lifecycle *)
(* its module comment draws (packet_pool.rs):                              *)
(*                                                                         *)
(*   free list -> steering -> rx queue -> rewriter -> tx queue -> muxer    *)
(*        ^__________|___________________________|_________________|       *)
(*                                                                         *)
(* At every moment each frame is in exactly one place, a function from     *)
(* frames to places, and it moves only along the edges above: forward to   *)
(* the next stage of the same rewriter, or back to the free list.  A frame *)
(* never changes rewriter without going through the free list.             *)
(***************************************************************************)
EXTENDS Integers

CONSTANTS Frames,        \* the FrameIndex values of the pool
          NumRewriters   \* number of rewriter threads

VARIABLE owner           \* owner[f]: the place that holds frame f

Queues == 0 .. (NumRewriters - 1)

\* Where a frame may go next.
Successors(a) ==
    CASE a[1] = "free"  -> {<<"steer", 0>>}
      [] a[1] = "steer" -> ({"rx"} \X Queues) \cup {<<"free", 0>>}
      [] a[1] = "rx"    -> {<<"batch", a[2]>>}
      [] a[1] = "batch" -> {<<"tx", a[2]>>, <<"free", 0>>}
      [] a[1] = "tx"    -> {<<"mux", 0>>}
      [] a[1] = "mux"   -> {<<"free", 0>>}

Init == owner = [f \in Frames |-> <<"free", 0>>]

HandOver(f) ==
    \E b \in Successors(owner[f]) : owner' = [owner EXCEPT ![f] = b]

Next == \E f \in Frames : HandOver(f)

Spec == Init /\ [][Next]_owner
=============================================================================
