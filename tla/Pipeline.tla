------------------------------ MODULE Pipeline ------------------------------
(***************************************************************************)
(* The multi-threaded forwarder of lb-forwarder (threading.rs, `start`     *)
(* mode): one steering thread, NumRewriters rewriter threads and one muxer *)
(* thread that pass frame indices of a shared PacketPool through bounded   *)
(* lock-free queues.                                                       *)
(*                                                                         *)
(*   NIC -> steering -> rx[q] -> rewriter q -> tx[q] -> muxer -> NIC       *)
(*                                                                         *)
(* Every action performs one operation on a shared queue (one pop, one     *)
(* push, or a refused push followed by the free of the same frame).  What  *)
(* a rewriter decides about a packet is nondeterministic here: it forwards *)
(* it or drops it.                                                         *)
(***************************************************************************)
EXTENDS Integers, Sequences, FiniteSets

CONSTANTS
    Frames,          \* the FrameIndex values of the pool
    NumRewriters,    \* number of rewriter threads (start takes the max with 1)
    QueueCapacity,   \* QUEUE_CAPACITY
    BatchDrainSize,  \* BATCH_DRAIN_SIZE, the most a rewriter takes per loop
    BatchSize,       \* config.batch_size, of steering and of the muxer
    Flows,           \* the classes of packets that arrive
    FlowHash,        \* PacketMeta::flow_hash of each flow
    Parsed,          \* the flows steering can read a 5-tuple of, IPv4 or IPv6
    Forwardable,     \* the flows a rewriter may forward: IPv4 TCP and UDP, and
                     \* non-first fragments, which steering may fail to parse
    Labels,          \* what else tells two packets of a flow apart
    SrcIpv4,         \* whether the configured source address is IPv4
    NoFrame, NoPacket

Queues   == 0 .. (NumRewriters - 1)
PoolSize == QueueCapacity * NumRewriters * 2 + BatchSize * 2
Packet   == [flow : Flows, label : Labels]

\* A packet in a frame, with the number of GRE headers put before it.
Stored == [pkt : Packet, encap : Nat]

ASSUME SizesAssumption ==
    /\ NumRewriters   \in Nat \ {0}
    /\ QueueCapacity  \in Nat \ {0}
    /\ BatchDrainSize \in Nat \ {0}
    /\ BatchSize      \in Nat \ {0}

ASSUME FramesAssumption ==
    /\ IsFiniteSet(Frames)
    /\ Cardinality(Frames) = PoolSize
    /\ NoFrame \notin Frames

ASSUME FlowsAssumption ==
    /\ Parsed \subseteq Flows /\ Forwardable \subseteq Flows
    /\ FlowHash \in [Flows -> Nat]
    /\ SrcIpv4 \in BOOLEAN
    /\ NoPacket \notin Stored

VARIABLES
    free,        \* PacketPool.free_list
    content,     \* the bytes of each frame: a packet or NoPacket
    rx, tx,      \* rx_queues, tx_queues
    steerPc, steerBuf, steerFrame,   \* run_steering: rx_buf still to do, idx
    rewPc, batch,                    \* run_rewriter: indices still to do
    muxPc, muxQ, muxBatch,           \* run_muxer: q, send_indices
    wire,        \* what the latest send_batch put on the wire
    shutdown     \* the AtomicBool every loop reads

steerVars == <<steerPc, steerBuf, steerFrame>>
rewVars   == <<rewPc, batch>>
muxVars   == <<muxPc, muxQ, muxBatch>>
vars == <<free, content, rx, tx, steerVars, rewVars, muxVars, wire, shutdown>>

(***************************************************************************)
(* Helpers.                                                                *)
(***************************************************************************)
RangeOf(s)   == {s[i] : i \in DOMAIN s}
NoRepeats(s) == \A i, j \in DOMAIN s : s[i] = s[j] => i = j
SeqsUpTo(S, n) == UNION {[1 .. k -> S] : k \in 1 .. n}

\* Mutant of assign_queue: the next idle queue instead of the flow's own.
assign_least_loaded(flow) == IF rx[0] = <<>> THEN 0 ELSE NumRewriters - 1

\* steering::assign_queue, and queue 0 for what cannot be parsed.
assign_queue(flow) == IF flow \in Parsed THEN FlowHash[flow] % NumRewriters ELSE 0

\* ArrayQueue::push refuses when the queue is full.
Full(q) == Len(q) >= QueueCapacity

\* PacketPool::free: the push on the free list is ignored when it fails.  The
\* bytes of a free frame are never read again before write_from replaces
\* them, so they are forgotten here: a read of a freed frame yields NoPacket.
PoolFree(f) ==
    /\ free' = IF Len(free) < PoolSize THEN Append(free, f) ELSE free
    /\ content' = [content EXCEPT ![f] = NoPacket]

(***************************************************************************)
(* Steering thread.                                                        *)
(***************************************************************************)
\* One loop iteration reads the shutdown flag and a non-empty batch b.  An
\* error and an empty batch lead back to the loop head and change nothing.
SteerRecvBatch(b) ==
    /\ steerPc = "check" /\ ~shutdown
    /\ steerBuf' = b
    /\ steerPc' = "alloc"
    /\ UNCHANGED <<free, content, rx, tx, steerFrame, rewVars, muxVars, wire, shutdown>>

SteerRecv == \E b \in SeqsUpTo(Packet, BatchSize) : SteerRecvBatch(b)

\* The loop's next step once the first packet of rx_buf is dealt with.
SteerAdvance ==
    /\ steerBuf' = Tail(steerBuf)
    /\ steerPc' = IF Tail(steerBuf) = <<>> THEN "check" ELSE "alloc"

\* pool.alloc() gives a frame and the packet is copied into it.
SteerAlloc ==
    /\ steerPc = "alloc" /\ free # <<>>
    /\ steerFrame' = Head(free)
    /\ free' = Tail(free)
    /\ content' = [content EXCEPT ![Head(free)] = [pkt |-> Head(steerBuf), encap |-> 0]]
    /\ steerPc' = "push"
    /\ UNCHANGED <<rx, tx, steerBuf, rewVars, muxVars, wire, shutdown>>

\* Pool exhausted: the packet is dropped.
SteerExhausted ==
    /\ steerPc = "alloc" /\ free = <<>>
    /\ SteerAdvance
    /\ UNCHANGED <<free, content, rx, tx, steerFrame, rewVars, muxVars, wire, shutdown>>

\* Mutants of SteerPush: the frame is freed although it was queued; the frame
\* is forgotten when the queue is full.
SteerPushAndFree ==
    LET q == assign_queue(Head(steerBuf).flow) IN
    /\ steerPc = "push"
    /\ rx' = IF Full(rx[q]) THEN rx ELSE [rx EXCEPT ![q] = Append(@, steerFrame)]
    /\ PoolFree(steerFrame)
    /\ steerFrame' = NoFrame
    /\ SteerAdvance
    /\ UNCHANGED <<tx, rewVars, muxVars, wire, shutdown>>

SteerPushLeaks ==
    LET q == assign_queue(Head(steerBuf).flow) IN
    /\ steerPc = "push"
    /\ rx' = IF Full(rx[q]) THEN rx ELSE [rx EXCEPT ![q] = Append(@, steerFrame)]
    /\ steerFrame' = NoFrame
    /\ SteerAdvance
    /\ UNCHANGED <<free, content, tx, rewVars, muxVars, wire, shutdown>>

\* Push on the flow's queue, or free the frame when that queue is full.
SteerPush ==
    LET q == assign_queue(Head(steerBuf).flow) IN
    /\ steerPc = "push"
    /\ \/ /\ ~Full(rx[q])
          /\ rx' = [rx EXCEPT ![q] = Append(@, steerFrame)]
          /\ UNCHANGED <<free, content>>
       \/ /\ Full(rx[q])
          /\ PoolFree(steerFrame)
          /\ UNCHANGED rx
    /\ steerFrame' = NoFrame
    /\ SteerAdvance
    /\ UNCHANGED <<tx, rewVars, muxVars, wire, shutdown>>

SteerExit ==
    /\ steerPc = "check" /\ shutdown
    /\ steerPc' = "done"
    /\ UNCHANGED <<free, content, rx, tx, steerBuf, steerFrame, rewVars, muxVars, wire, shutdown>>

Steering == SteerRecv \/ SteerAlloc \/ SteerExhausted \/ SteerPush \/ SteerExit

(***************************************************************************)
(* Rewriter thread q.                                                      *)
(***************************************************************************)
\* The loop head: leave when the flag is set, otherwise start draining.
RewCheck(q) ==
    /\ rewPc[q] = "check"
    /\ rewPc' = [rewPc EXCEPT ![q] = IF shutdown THEN "done" ELSE "drain"]
    /\ UNCHANGED <<free, content, rx, tx, steerVars, batch, muxVars, wire, shutdown>>

RewPop(q) ==
    /\ rewPc[q] = "drain" /\ Len(batch[q]) < BatchDrainSize /\ rx[q] # <<>>
    /\ batch' = [batch EXCEPT ![q] = Append(@, Head(rx[q]))]
    /\ rx' = [rx EXCEPT ![q] = Tail(@)]
    /\ UNCHANGED <<free, content, tx, steerVars, rewPc, muxVars, wire, shutdown>>

\* Mutant of RewDrained: a batch that was drained is not processed.
RewDrainedForgets(q) ==
    /\ rewPc[q] = "drain"
    /\ Len(batch[q]) = BatchDrainSize \/ rx[q] = <<>>
    /\ rewPc' = [rewPc EXCEPT ![q] = "check"]
    /\ UNCHANGED <<free, content, rx, tx, steerVars, batch, muxVars, wire, shutdown>>

\* The drain ends on a full batch or an empty queue; nothing drained means
\* back to the loop head (spin or park).
RewDrained(q) ==
    /\ rewPc[q] = "drain"
    /\ Len(batch[q]) = BatchDrainSize \/ rx[q] = <<>>
    /\ rewPc' = [rewPc EXCEPT ![q] = IF batch[q] = <<>> THEN "check" ELSE "process"]
    /\ UNCHANGED <<free, content, rx, tx, steerVars, batch, muxVars, wire, shutdown>>

\* The loop's next step once the first index of the batch is dealt with.
RewAdvance(q) ==
    /\ batch' = [batch EXCEPT ![q] = Tail(@)]
    /\ rewPc' = [rewPc EXCEPT ![q] = IF Tail(batch[q]) = <<>> THEN "check" ELSE "process"]

\* Mutants of RewForward: a full tx queue is retried with the frame already
\* encapsulated; the frame goes to the next rewriter's tx queue.
RewForwardRetries(q) ==
    LET f == Head(batch[q]) IN
    /\ rewPc[q] = "process"
    /\ content[f] # NoPacket /\ content[f].pkt.flow \in Forwardable
    /\ content' = [content EXCEPT ![f].encap = @ + 1]
    /\ \/ ~Full(tx[q]) /\ tx' = [tx EXCEPT ![q] = Append(@, f)] /\ RewAdvance(q)
       \/ Full(tx[q]) /\ UNCHANGED <<tx, rewVars>>
    /\ UNCHANGED <<free, rx, steerVars, muxVars, wire, shutdown>>

RewForwardElsewhere(q) ==
    LET f == Head(batch[q])
        r == (q + 1) % NumRewriters
    IN  /\ rewPc[q] = "process"
        /\ content[f] # NoPacket /\ content[f].pkt.flow \in Forwardable
        /\ \/ /\ ~Full(tx[r])
              /\ tx' = [tx EXCEPT ![r] = Append(@, f)]
              /\ content' = [content EXCEPT ![f].encap = @ + 1]
              /\ UNCHANGED free
           \/ /\ Full(tx[r])
              /\ PoolFree(f)
              /\ UNCHANGED tx
        /\ RewAdvance(q)
        /\ UNCHANGED <<rx, steerVars, muxVars, wire, shutdown>>

\* Encapsulate in place and push on the tx queue, or free when it is full.
RewForward(q) ==
    LET f == Head(batch[q]) IN
    /\ rewPc[q] = "process"
    /\ content[f] # NoPacket /\ content[f].pkt.flow \in Forwardable
    /\ \/ /\ ~Full(tx[q])
          /\ tx' = [tx EXCEPT ![q] = Append(@, f)]
          /\ content' = [content EXCEPT ![f].encap = @ + 1]
          /\ UNCHANGED free
       \/ /\ Full(tx[q])
          /\ PoolFree(f)
          /\ UNCHANGED tx
    /\ RewAdvance(q)
    /\ UNCHANGED <<rx, steerVars, muxVars, wire, shutdown>>

\* Every drop path of the loop body: no fragment mapping, unparsable, no VIP,
\* no table, IPv6 backend, no room for the GRE header.
RewDrop(q) ==
    /\ rewPc[q] = "process"
    /\ PoolFree(Head(batch[q]))
    /\ RewAdvance(q)
    /\ UNCHANGED <<rx, tx, steerVars, muxVars, wire, shutdown>>

Rewriter(q) == RewCheck(q) \/ RewPop(q) \/ RewDrained(q) \/ RewForward(q) \/ RewDrop(q)

(***************************************************************************)
(* Muxer thread.                                                           *)
(***************************************************************************)
\* Mutant of MuxCheck: the flag is not read.
MuxCheckNoFlag ==
    /\ muxPc = "check"
    /\ muxPc' = "drain"
    /\ muxQ' = 0
    /\ UNCHANGED <<free, content, rx, tx, steerVars, rewVars, muxBatch, wire, shutdown>>

MuxCheck ==
    /\ muxPc = "check"
    /\ muxPc' = IF shutdown THEN "done" ELSE "drain"
    /\ muxQ' = 0
    /\ UNCHANGED <<free, content, rx, tx, steerVars, rewVars, muxBatch, wire, shutdown>>

\* Mutant of MuxPop: the newest frame goes to the front of the batch.
MuxPopReversed ==
    /\ muxPc = "drain" /\ muxQ < NumRewriters /\ Len(muxBatch) < BatchSize
    /\ tx[muxQ] # <<>>
    /\ muxBatch' = <<Head(tx[muxQ])>> \o muxBatch
    /\ tx' = [tx EXCEPT ![muxQ] = Tail(@)]
    /\ UNCHANGED <<free, content, rx, steerVars, rewVars, muxPc, muxQ, wire, shutdown>>

MuxPop ==
    /\ muxPc = "drain" /\ muxQ < NumRewriters /\ Len(muxBatch) < BatchSize
    /\ tx[muxQ] # <<>>
    /\ muxBatch' = Append(muxBatch, Head(tx[muxQ]))
    /\ tx' = [tx EXCEPT ![muxQ] = Tail(@)]
    /\ UNCHANGED <<free, content, rx, steerVars, rewVars, muxPc, muxQ, wire, shutdown>>

\* Mutant of MuxNextQueue: the drain goes the wrong way.
MuxPreviousQueue ==
    /\ muxPc = "drain" /\ muxQ < NumRewriters /\ Len(muxBatch) < BatchSize
    /\ tx[muxQ] = <<>>
    /\ muxQ' = muxQ - 1
    /\ UNCHANGED <<free, content, rx, tx, steerVars, rewVars, muxPc, muxBatch, wire, shutdown>>

\* An empty queue sends the drain to the next one.
MuxNextQueue ==
    /\ muxPc = "drain" /\ muxQ < NumRewriters /\ Len(muxBatch) < BatchSize
    /\ tx[muxQ] = <<>>
    /\ muxQ' = muxQ + 1
    /\ UNCHANGED <<free, content, rx, tx, steerVars, rewVars, muxPc, muxBatch, wire, shutdown>>

MuxDrained ==
    /\ muxPc = "drain"
    /\ Len(muxBatch) = BatchSize \/ muxQ = NumRewriters
    /\ muxPc' = IF muxBatch = <<>> THEN "check" ELSE "send"
    /\ UNCHANGED <<free, content, rx, tx, steerVars, rewVars, muxQ, muxBatch, wire, shutdown>>

\* Copy the frames out and send_batch them; its result is ignored, so any
\* prefix of the batch reaches the wire.
MuxSend ==
    /\ muxPc = "send"
    /\ \E n \in 0 .. Len(muxBatch) :
          wire' = [i \in 1 .. n |-> content[muxBatch[i]]]
    /\ muxPc' = "free"
    /\ UNCHANGED <<free, content, rx, tx, steerVars, rewVars, muxQ, muxBatch, shutdown>>

MuxFree ==
    /\ muxPc = "free"
    /\ PoolFree(Head(muxBatch))
    /\ muxBatch' = Tail(muxBatch)
    /\ muxPc' = IF Tail(muxBatch) = <<>> THEN "check" ELSE "free"
    /\ wire' = <<>>
    /\ UNCHANGED <<rx, tx, steerVars, rewVars, muxQ, shutdown>>

Muxer == MuxCheck \/ MuxPop \/ MuxNextQueue \/ MuxDrained \/ MuxSend \/ MuxFree

(***************************************************************************)
(* The whole forwarder.                                                    *)
(***************************************************************************)
\* MultiThreadedForwarder::shutdown raises the flag; join waits for "done".
Shutdown ==
    /\ ~shutdown
    /\ shutdown' = TRUE
    /\ UNCHANGED <<free, content, rx, tx, steerVars, rewVars, muxVars, wire>>

Stopped ==
    /\ steerPc = "done" /\ muxPc = "done"
    /\ \A q \in Queues : rewPc[q] = "done"

\* Nothing is left to run once every thread has been joined.
Terminated == Stopped /\ UNCHANGED vars

\* PacketPool::new puts every frame on the free list; the threads start at
\* their loop heads, but rewriters return at once without an IPv4 source.
Init ==
    /\ free \in {s \in [1 .. PoolSize -> Frames] : NoRepeats(s)}
    /\ content = [f \in Frames |-> NoPacket]
    /\ rx = [q \in Queues |-> <<>>] /\ tx = [q \in Queues |-> <<>>]
    /\ steerPc = "check" /\ steerBuf = <<>> /\ steerFrame = NoFrame
    /\ rewPc = [q \in Queues |-> IF SrcIpv4 THEN "check" ELSE "done"]
    /\ batch = [q \in Queues |-> <<>>]
    /\ muxPc = "check" /\ muxQ = 0 /\ muxBatch = <<>>
    /\ wire = <<>> /\ shutdown = FALSE

Next ==
    \/ Steering
    \/ \E q \in Queues : Rewriter(q)
    \/ Muxer
    \/ Shutdown
    \/ Terminated

Spec == Init /\ [][Next]_vars

\* Each OS thread keeps running; packets need not arrive and shutdown need
\* not be requested.
Fairness ==
    /\ WF_vars(SteerAlloc \/ SteerExhausted \/ SteerPush \/ SteerExit)
    /\ \A q \in Queues : WF_vars(Rewriter(q))
    /\ WF_vars(Muxer)

FairSpec == Spec /\ Fairness

(***************************************************************************)
(* Where the frames are.                                                   *)
(***************************************************************************)
Places == ({"rx", "batch", "tx"} \X Queues) \cup ({"free", "steer", "mux"} \X {0})

\* The frame indices held at a place, in order.
HeldAt(p) ==
    CASE p[1] = "free"  -> free
      [] p[1] = "steer" -> IF steerFrame = NoFrame THEN <<>> ELSE <<steerFrame>>
      [] p[1] = "rx"    -> rx[p[2]]
      [] p[1] = "batch" -> batch[p[2]]
      [] p[1] = "tx"    -> tx[p[2]]
      [] p[1] = "mux"   -> muxBatch

\* The place that holds frame f (the refinement mapping to FrameLifecycle).
owner == [f \in Frames |-> CHOOSE p \in Places : f \in RangeOf(HeldAt(p))]

Lifecycle == INSTANCE FrameLifecycle
             WITH Frames <- Frames, NumRewriters <- NumRewriters, owner <- owner

(***************************************************************************)
(* Properties.                                                             *)
(***************************************************************************)
PcsOK ==
    /\ steerPc \in {"check", "alloc", "push", "done"}
    /\ rewPc \in [Queues -> {"check", "drain", "process", "done"}]
    /\ muxPc \in {"check", "drain", "send", "free", "done"}

\* Type invariant of the forwarder's shared state and of each thread's locals.
TypeOK ==
    /\ free \in Seq(Frames) /\ Len(free) <= PoolSize
    /\ content \in [Frames -> Stored \cup {NoPacket}]
    /\ rx \in [Queues -> Seq(Frames)] /\ tx \in [Queues -> Seq(Frames)]
    /\ batch \in [Queues -> Seq(Frames)]
    /\ steerBuf \in Seq(Packet) /\ steerFrame \in Frames \cup {NoFrame}
    /\ muxQ \in 0 .. NumRewriters /\ muxBatch \in Seq(Frames)
    /\ wire \in Seq(Stored \cup {NoPacket})
    /\ shutdown \in BOOLEAN
    /\ PcsOK

\* The ownership protocol that makes the UnsafeCell accesses of PacketPool
\* sound: no frame index is held twice, neither by two threads or queues nor
\* twice by the same one, whatever the interleaving of the threads.
SingleOwner ==
    /\ \A p \in Places : NoRepeats(HeldAt(p))
    /\ \A p1, p2 \in Places :
          p1 # p2 => RangeOf(HeldAt(p1)) \cap RangeOf(HeldAt(p2)) = {}

\* No path of any thread (full queue, exhausted pool, drop, failed send) loses
\* a frame index, and the free list, whose push result is ignored, never
\* overflows.
NoFrameLost == \A f \in Frames : \E p \in Places : f \in RangeOf(HeldAt(p))

\* The queues, drains and batches stay within the sizes the code gives them.
QueuesBounded ==
    /\ \A q \in Queues : /\ Len(rx[q]) <= QueueCapacity
                         /\ Len(tx[q]) <= QueueCapacity
                         /\ Len(batch[q]) <= BatchDrainSize
    /\ Len(muxBatch) <= BatchSize

\* Whatever reaches the wire is a packet in a live frame, of a flow a rewriter
\* may forward, encapsulated exactly once, although the frame is shared by three
\* threads and reused, and no drain takes more frames than its limit.
EncapsulatedOnce ==
    /\ \A i \in DOMAIN wire : /\ wire[i] # NoPacket /\ wire[i].encap = 1
                             /\ wire[i].pkt.flow \in Forwardable
    /\ QueuesBounded

\* A frame moves only along the lifecycle drawn in packet_pool.rs.
LifecycleSpec == Lifecycle!Spec

\* After shutdown() every thread leaves its loop, so the joins return.
ShutdownCompletes == shutdown ~> Stopped

\* While the forwarder runs, every frame that leaves the free list returns to
\* it: no frame is stranded in a queue that nobody drains.
FramesReturn ==
    \A f \in Frames : f \notin RangeOf(free) ~> (f \in RangeOf(free) \/ shutdown)

=============================================================================
