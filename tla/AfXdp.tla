------------------------------- MODULE AfXdp -------------------------------
(***************************************************************************)
(* One AF_XDP socket (lb-io/src/af_xdp.rs) and the thread that drives it   *)
(* (run_per_queue of threading.rs), against a kernel that fills, sends and *)
(* completes frames at its own pace.  The four rings are the queues the    *)
(* program and the kernel share; every action is one commit or release of  *)
(* a ring, or a copy to or from the UMEM, so that the kernel may step in   *)
(* between any two of them.                                                *)
(*                                                                         *)
(* Rings hold UMEM addresses, free_frames holds frame indices, as in the   *)
(* code.  A packet is a label; what the rewriter makes of a batch is any   *)
(* subsequence of it (the packets are rewritten in place).                 *)
(***************************************************************************)
EXTENDS Integers, Sequences, FiniteSets

CONSTANTS
    Configs,        \* the AfXdpConfig values: num_frames, frame_size,
                    \* ring_size and whether there is an xskmap_pin
    PACKET_BUF_SIZE,
    BatchSize,      \* the length of the buffer of run_per_queue
    Labels,         \* what tells two packets apart
    NoPacket,       \* the bytes of a frame nobody may rely on
    Headroom        \* the kernel puts a packet this far into its frame

Frames == UNION {0 .. (c.num_frames - 1) : c \in Configs}

ASSUME BatchAssumption == BatchSize \in Nat \ {0}
ASSUME BufferAssumption == PACKET_BUF_SIZE \in Nat
ASSUME ConfigsAssumption ==
    Configs \subseteq [num_frames : Nat \ {0}, frame_size : Nat \ {0},
                       ring_size : Nat \ {0}, pinned : BOOLEAN]
ASSUME HeadroomAssumption ==
    Headroom \in Nat /\ \A c \in Configs : Headroom < c.frame_size \/
                                           c.frame_size < PACKET_BUF_SIZE

VARIABLES
    cfg,            \* the configuration given to AfXdpIo::new
    status,         \* boot, bound, up, failed, stopped
    fill, rx, tx, completion,   \* the rings, as sequences of addresses
    free_frames,    \* frame indices free for TX
    content,        \* content[f]: the packet in UMEM frame f
    nic,            \* addresses the kernel has taken from TX and is sending
    parked,         \* the kernel has parked the TX path: needs_wakeup
    pc,             \* where run_per_queue is
    consumed,       \* recv_batch: addresses taken from RX
    descs,          \* send_batch: addresses to put on TX
    buf,            \* the packets of the working buffer
    arrived, queued,   \* history: the packets on their way from the kernel
                       \* to recv_batch, and from send_batch to the wire
    refused         \* history: a wake had no effect

rings == <<fill, rx, tx, completion, free_frames>>
user  == <<pc, consumed, descs, buf>>
ghost == <<arrived, queued, refused>>
vars  == <<cfg, status, rings, content, nic, parked, user, ghost>>

-----------------------------------------------------------------------------
(***************************************************************************)
(* Addresses.                                                              *)
(***************************************************************************)
frame_idx_to_addr(idx)  == idx * cfg.frame_size
addr_to_frame_idx(addr) == addr \div cfg.frame_size

Min2(a, b)  == IF a < b THEN a ELSE b
Take(s, n)  == SubSeq(s, 1, Min2(n, Len(s)))
Drop(s, n)  == SubSeq(s, Min2(n, Len(s)) + 1, Len(s))
Map(s, F(_)) == [i \in DOMAIN s |-> F(s[i])]

\* What a ring producer may still insert of a batch: the slots left over.
Insert(ring, batch) == ring \o Take(batch, cfg.ring_size - Len(ring))

\* The UMEM once the packets at addrs are no longer needed.
Erase(addrs) ==
    [f \in Frames |-> IF \E i \in DOMAIN addrs : addr_to_frame_idx(addrs[i]) = f
                      THEN NoPacket ELSE content[f]]

-----------------------------------------------------------------------------
(***************************************************************************)
(* AfXdpIo::new.                                                           *)
(***************************************************************************)
is_power_of_two(n) == \E k \in 0 .. n : n = 2 ^ k

ValidConfig ==
    /\ cfg.frame_size >= PACKET_BUF_SIZE
    /\ is_power_of_two(cfg.num_frames)
    /\ cfg.num_frames >= 2 * cfg.ring_size

\* A configuration that is refused, or a kernel call that fails; main exits.
NewFails ==
    /\ status \in {"boot", "bound"}
    /\ status = "bound" => cfg.pinned
    /\ status' = "failed"
    /\ UNCHANGED <<cfg, rings, content, nic, parked, user, ghost>>

\* Mutant of NewBinds: the RX pool takes a frame too many from the TX pool.
NewBindsOverlap ==
    /\ status = "boot" /\ ValidConfig
    /\ status' = "bound"
    /\ fill' = [i \in 1 .. cfg.ring_size |-> frame_idx_to_addr(i - 1)]
    /\ free_frames' = [i \in 1 .. (cfg.num_frames - cfg.ring_size + 1) |->
                          cfg.ring_size + i - 2]
    /\ UNCHANGED <<cfg, rx, tx, completion, content, nic, parked, user,
                   ghost>>

\* Bind the socket, seed FILL with the RX half, keep the rest for TX.
NewBinds ==
    /\ status = "boot" /\ ValidConfig
    /\ status' = "bound"
    /\ fill' = [i \in 1 .. cfg.ring_size |-> frame_idx_to_addr(i - 1)]
    /\ free_frames' = [i \in 1 .. (cfg.num_frames - cfg.ring_size) |->
                          cfg.ring_size + i - 1]
    /\ UNCHANGED <<cfg, rx, tx, completion, content, nic, parked, user,
                   ghost>>

\* xskmap::register_xsk, skipped when the operator fills the map by hand.
register_xsk ==
    /\ status = "bound"
    /\ status' = "up"
    /\ UNCHANGED <<cfg, rings, content, nic, parked, user, ghost>>

-----------------------------------------------------------------------------
(***************************************************************************)
(* recv_batch.                                                             *)
(***************************************************************************)
\* Take up to a buffer's worth of descriptors off RX; none: park and retry.
RecvTake ==
    /\ status = "up" /\ pc = "recv" /\ rx # <<>>
    /\ consumed' = Take(rx, BatchSize)
    /\ rx' = Drop(rx, BatchSize)
    /\ pc' = "copy"
    /\ UNCHANGED <<cfg, status, fill, tx, completion, free_frames, content,
                   nic, parked, descs, buf, ghost>>

\* The frames of addrs, aligned down, go back to FILL, and their bytes are the
\* kernel's from now on.
Refill(addrs) ==
    /\ fill' = Insert(fill, Map(addrs, LAMBDA a :
                   frame_idx_to_addr(addr_to_frame_idx(a))))
    /\ content' = Erase(addrs)

\* Mutant of RecvCopy: the frames go back to FILL before they are read.
RecvRefillFirst ==
    /\ pc = "copy"
    /\ Refill(consumed)
    /\ pc' = "refill"
    /\ UNCHANGED <<cfg, status, rx, tx, completion, free_frames, nic, parked,
                   consumed, descs, buf, ghost>>

\* umem_read of every descriptor.
RecvCopy ==
    /\ pc = "copy"
    /\ buf' = Map(consumed, LAMBDA a : content[addr_to_frame_idx(a)])
    /\ arrived' = Drop(arrived, Len(consumed))
    /\ pc' = "refill"
    /\ UNCHANGED <<cfg, status, rings, content, nic, parked, consumed, descs,
                   queued, refused>>

\* Mutant of RecvRefill: one frame of the batch is forgotten.
RecvRefillShort ==
    /\ pc = "refill"
    /\ Refill(Tail(consumed))
    /\ consumed' = <<>>
    /\ pc' = "process"
    /\ UNCHANGED <<cfg, status, rx, tx, completion, free_frames, nic, parked,
                   descs, buf, ghost>>

\* Exactly the frames just consumed are recycled.
RecvRefill ==
    /\ pc = "refill"
    /\ Refill(consumed)
    /\ consumed' = <<>>
    /\ pc' = "process"
    /\ UNCHANGED <<cfg, status, rx, tx, completion, free_frames, nic, parked,
                   descs, buf, ghost>>

-----------------------------------------------------------------------------
(***************************************************************************)
(* process_batch keeps some of the packets; send_batch is called when any  *)
(* is left.                                                                *)
(***************************************************************************)
Process ==
    /\ pc = "process"
    /\ \E Kept \in SUBSET DOMAIN buf :
          LET rank(i) == Cardinality({j \in Kept : j <= i})
          IN  buf' = [k \in 1 .. Cardinality(Kept) |->
                        buf[CHOOSE i \in Kept : rank(i) = k]]
    /\ pc' = IF buf' = <<>> THEN "recv" ELSE "send"
    /\ UNCHANGED <<cfg, status, rings, content, nic, parked, consumed, descs,
                   ghost>>

-----------------------------------------------------------------------------
(***************************************************************************)
(* send_batch.                                                             *)
(***************************************************************************)
\* Mutant of SendDrain: the free list is looked at before it is replenished.
SendDrainLate ==
    /\ pc = "send"
    /\ pc'  = IF free_frames = <<>> THEN "recv" ELSE "write"
    /\ buf' = IF free_frames = <<>> THEN <<>> ELSE buf
    /\ IF free_frames = <<>> THEN UNCHANGED <<free_frames, completion>>
       ELSE /\ free_frames' = free_frames \o Map(completion, addr_to_frame_idx)
            /\ completion' = <<>>
    /\ UNCHANGED <<cfg, status, fill, rx, tx, content, nic, parked, consumed,
                   descs, ghost>>

\* drain_completions; without a free frame the call returns at once, before
\* it looks at needs_wakeup, and the next recv_batch overwrites the packets.
SendDrain ==
    /\ pc = "send"
    /\ free_frames' = free_frames \o Map(completion, addr_to_frame_idx)
    /\ completion' = <<>>
    /\ pc'  = IF free_frames' = <<>> THEN "recv" ELSE "write"
    /\ buf' = IF free_frames' = <<>> THEN <<>> ELSE buf
    /\ UNCHANGED <<cfg, status, fill, rx, tx, content, nic, parked, consumed,
                   descs, ghost>>

\* Pop a free frame for each packet that gets one and copy it there
\* (umem_write_for_tx).
SendWrite ==
    /\ pc = "write"
    /\ LET n   == Min2(Len(buf), Len(free_frames))
           idx == Take(free_frames, n)
       IN  /\ free_frames' = Drop(free_frames, n)
           /\ descs' = Map(idx, frame_idx_to_addr)
           /\ content' = [f \in Frames |->
                 IF \E i \in 1 .. n : idx[i] = f
                 THEN buf[CHOOSE i \in 1 .. n : idx[i] = f] ELSE content[f]]
    /\ pc' = "insert"
    /\ UNCHANGED <<cfg, status, fill, rx, tx, completion, nic, parked,
                   consumed, buf, ghost>>

\* What does not fit into TX is dropped, its frame with it.
SendInsert ==
    /\ pc = "insert"
    /\ tx' = Insert(tx, descs)
    /\ queued' = queued \o Take(buf, Min2(Len(descs), cfg.ring_size - Len(tx)))
    /\ descs' = <<>> /\ buf' = <<>>
    /\ pc' = "wake"
    /\ UNCHANGED <<cfg, status, fill, rx, completion, free_frames, content,
                   nic, parked, consumed, arrived, refused>>

\* Mutant of SendWake: the kernel is never told.
SendNoWake ==
    /\ pc = "wake"
    /\ pc' = "recv"
    /\ UNCHANGED <<cfg, status, rings, content, nic, consumed, descs, buf,
                   ghost, parked>>

\* The outcome of wake is ignored; a system call that fails leaves the
\* kernel parked.
SendWake ==
    /\ pc = "wake"
    /\ \/ parked' = FALSE /\ UNCHANGED refused
       \/ parked /\ refused' = TRUE /\ UNCHANGED parked
    /\ pc' = "recv"
    /\ UNCHANGED <<cfg, status, rings, content, nic, consumed, descs, buf,
                   arrived, queued>>

-----------------------------------------------------------------------------
(***************************************************************************)
(* The kernel, as the program relies on it.                                *)
(***************************************************************************)
\* A packet for this queue arrives: FILL -> RX.
KernelReceives ==
    /\ status = "up" /\ fill # <<>> /\ Len(rx) < cfg.ring_size
    /\ \E p \in Labels :
          /\ content' = [content EXCEPT ![addr_to_frame_idx(Head(fill))] = p]
          /\ arrived' = Append(arrived, p)
    /\ rx' = Append(rx, Head(fill) + Headroom)
    /\ fill' = Tail(fill)
    /\ UNCHANGED <<cfg, status, tx, completion, free_frames, nic, parked,
                   user, queued, refused>>

\* It takes a descriptor from TX when COMPLETION will have room for it.
KernelTakes ==
    /\ status = "up" /\ ~parked /\ tx # <<>>
    /\ Len(nic) + Len(completion) < cfg.ring_size
    /\ nic' = Append(nic, Head(tx)) /\ tx' = Tail(tx)
    /\ UNCHANGED <<cfg, status, fill, rx, completion, free_frames, content,
                   parked, user, ghost>>

KernelCompletes ==
    /\ status = "up" /\ nic # <<>>
    /\ completion' = Append(completion, Head(nic)) /\ nic' = Tail(nic)
    /\ content' = Erase(<<Head(nic)>>)
    /\ queued' = Tail(queued)
    /\ UNCHANGED <<cfg, status, fill, rx, tx, free_frames, parked, user,
                   arrived, refused>>

\* It parks when it has run out of work, or for a while after some work.
KernelParks ==
    /\ status = "up" /\ ~parked
    /\ tx = <<>> \/ nic # <<>> \/ completion # <<>>
    /\ parked' = TRUE
    /\ UNCHANGED <<cfg, status, rings, content, nic, user, ghost>>

-----------------------------------------------------------------------------
\* MultiThreadedForwarder::shutdown; the loop reads the flag at its head only.
\* The socket is closed with the thread.
Shutdown ==
    /\ status = "up" /\ pc = "recv"
    /\ status' = "stopped"
    /\ UNCHANGED <<cfg, rings, content, nic, parked, user, ghost>>

Terminated == status \in {"failed", "stopped"} /\ UNCHANGED vars

Init ==
    /\ cfg \in Configs
    /\ status = "boot"
    /\ fill = <<>> /\ rx = <<>> /\ tx = <<>> /\ completion = <<>>
    /\ free_frames = <<>>
    /\ content = [f \in Frames |-> NoPacket]
    /\ nic = <<>> /\ parked = TRUE
    /\ pc = "recv" /\ consumed = <<>> /\ descs = <<>> /\ buf = <<>>
    /\ arrived = <<>> /\ queued = <<>> /\ refused = FALSE

\* Everything the rewriter thread does in its loop.
run_per_queue ==
    \/ RecvTake \/ RecvCopy \/ RecvRefill
    \/ Process
    \/ SendDrain \/ SendWrite \/ SendInsert \/ SendWake

Next ==
    \/ NewFails \/ NewBinds \/ register_xsk
    \/ run_per_queue
    \/ KernelReceives \/ KernelTakes \/ KernelCompletes \/ KernelParks
    \/ Shutdown
    \/ Terminated

Spec == Init /\ [][Next]_vars

\* The thread and the kernel keep running; packets need not arrive, and the
\* kernel need not park.
FairSpec ==
    Spec /\ WF_vars(run_per_queue) /\ WF_vars(KernelTakes)
         /\ WF_vars(KernelCompletes)

-----------------------------------------------------------------------------
(***************************************************************************)
(* Who holds a frame: the refinement mapping to UmemOwnership.             *)
(***************************************************************************)
HeldIn(h) ==
    CASE h = "fill"      -> fill
      [] h = "rx"        -> rx
      [] h = "reading"   -> consumed
      [] h = "free"      -> Map(free_frames, frame_idx_to_addr)
      [] h = "writing"   -> descs
      [] h = "tx"        -> tx
      [] h = "sending"   -> nic
      [] h = "completed" -> completion

RxHolders == {"fill", "rx", "reading"}
TxHolders == {"free", "writing", "tx", "sending", "completed"}
Holders   == RxHolders \cup TxHolders

Has(addrs, f) == \E i \in DOMAIN addrs : addr_to_frame_idx(addrs[i]) = f

\* A frame held in two places, or twice in one, is shared; one held nowhere is
\* lost, unless it is not part of this UMEM or nothing is mapped yet.
Holder(f) ==
    LET held == {h \in Holders : Has(HeldIn(h), f)}
        h    == CHOOSE x \in held : TRUE
    IN  IF held = {}
        THEN IF f < cfg.num_frames /\ <<fill, rx, consumed>> # <<<<>>, <<>>, <<>>>>
             THEN "lost" ELSE "unmapped"
        ELSE IF held # {h} \/ \E i, j \in DOMAIN HeldIn(h) :
                   i < j /\ {addr_to_frame_idx(HeldIn(h)[k]) : k \in {i, j}} = {f}
             THEN "shared" ELSE h

Ownership == INSTANCE UmemOwnership
                 WITH holder <- [f \in Frames |-> Holder(f)]

\* Through every interleaving of the thread with the kernel each UMEM frame
\* has one holder, goes round the cycle of its own pool, and is neither read
\* nor written while the kernel may use it (the SAFETY comments of af_xdp.rs).
OwnershipSpec == Ownership!Spec

\* The rings and the lists of recv_batch and send_batch hold frames of this
\* UMEM and never more than their slots.
TypeOK ==
    /\ cfg \in Configs
    /\ status \in {"boot", "bound", "up", "failed", "stopped"}
    /\ \A h \in Holders :
          HeldIn(h) \in Seq(0 .. (cfg.num_frames * cfg.frame_size - 1))
    /\ \A ring \in {fill, rx, tx, completion, consumed} :
          Len(ring) <= cfg.ring_size
    /\ buf \in Seq(Labels) /\ content \in [Frames -> Labels \cup {NoPacket}]
    /\ parked \in BOOLEAN /\ refused \in BOOLEAN

\* The packets that recv_batch reads are those the kernel delivered, in their
\* order, and the packets the kernel sends are those send_batch was given, in
\* theirs: no frame is overwritten while its packet is still needed.
PacketsIntact ==
    LET bytes(s) == Map(s, LAMBDA a : content[addr_to_frame_idx(a)])
    IN  /\ bytes((IF pc = "copy" THEN consumed ELSE <<>>) \o rx) = arrived
        /\ bytes(nic \o tx) = queued

\* send_batch loses frames only when num_frames leaves more for TX than the TX
\* ring has slots; with num_frames = 2 * ring_size, the default, never.
LeakNeedsSpareFrames ==
    (\E f \in Frames : Holder(f) = "lost") => cfg.num_frames > 2 * cfg.ring_size

\* Everything TX has is in its ring behind a kernel that sleeps: send_batch
\* returns for want of a frame before it gets to wake it.
Stalled ==
    /\ parked /\ tx # <<>> /\ nic = <<>> /\ completion = <<>>
    /\ free_frames = <<>> /\ descs = <<>> /\ pc # "wake"

\* Only a wake that failed can stall the transmit path: the early return of
\* send_batch never skips the one that is needed.
StallNeedsRefusal == Stalled => refused

\* As long as send_batch is called again and again, a frame given to the
\* kernel comes back to free_frames, unless TX is stalled.
TxFrameReturns ==
    []<>(pc = "send") =>
        \A f \in Frames :
            Has(tx, f) ~> (Stalled \/ Has(HeldIn("free"), f))
=============================================================================
