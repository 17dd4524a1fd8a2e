--------------------------- MODULE PipelineProofs ---------------------------
(***************************************************************************)
(* Proofs about Pipeline and PipelineOrder, for any number of rewriters,   *)
(* any queue capacity and any batch sizes: the type invariant, the         *)
(* single-owner protocol of the packet pool, that no frame is ever lost,   *)
(* that what is sent is encapsulated once, and that each flow keeps its    *)
(* order.                                                                  *)
(***************************************************************************)
EXTENDS PipelineOrder, FiniteSetTheorems, SequenceTheorems, TLAPS

-----------------------------------------------------------------------------
(* Sequences.                                                              *)

\* Appending adds one element and keeps a sequence free of duplicates when
\* the element is new.
LEMMA AppendFacts ==
    ASSUME NEW S, NEW s \in Seq(S), NEW x \in S
    PROVE  /\ Append(s, x) \in Seq(S)
           /\ Len(Append(s, x)) = Len(s) + 1
           /\ RangeOf(Append(s, x)) = RangeOf(s) \cup {x}
           /\ NoRepeats(s) /\ x \notin RangeOf(s) => NoRepeats(Append(s, x))
  <1> DEFINE t == Append(s, x)
  <1>1. /\ Len(s) \in Nat /\ DOMAIN s = 1 .. Len(s)
        /\ t \in Seq(S) /\ Len(t) = Len(s) + 1 /\ DOMAIN t = 1 .. (Len(s) + 1)
        /\ \A i \in 1 .. Len(s) : t[i] = s[i]
        /\ t[Len(s) + 1] = x
    OBVIOUS
  <1>2. RangeOf(t) = RangeOf(s) \cup {x}
    <2>1. ASSUME NEW i \in DOMAIN t
          PROVE  t[i] \in RangeOf(s) \cup {x}
      <3>1. i = Len(s) + 1 \/ i \in DOMAIN s
        BY <1>1
      <3> QED
        BY <1>1, <3>1 DEF RangeOf
    <2>2. \A i \in DOMAIN s : i \in DOMAIN t /\ s[i] = t[i]
      BY <1>1
    <2>3. Len(s) + 1 \in DOMAIN t
      BY <1>1
    <2> QED
      BY <1>1, <2>1, <2>2, <2>3 DEF RangeOf
  <1>3. ASSUME NoRepeats(s), x \notin RangeOf(s)
        PROVE  NoRepeats(t)
    <2>1. \A i \in 1 .. Len(s) : t[i] # x
      BY <1>1, <1>3 DEF RangeOf
    <2> QED
      BY <1>1, <1>3, <2>1 DEF NoRepeats
  <1> QED
    BY <1>1, <1>2, <1>3

\* Taking the head off removes exactly that element from a sequence without
\* duplicates.
LEMMA TailFacts ==
    ASSUME NEW S, NEW s \in Seq(S), s # <<>>
    PROVE  /\ Head(s) \in S
           /\ Head(s) \in RangeOf(s)
           /\ Tail(s) \in Seq(S)
           /\ Len(Tail(s)) = Len(s) - 1
           /\ RangeOf(s) = RangeOf(Tail(s)) \cup {Head(s)}
           /\ NoRepeats(s) => /\ NoRepeats(Tail(s))
                                /\ Head(s) \notin RangeOf(Tail(s))
  <1>1. /\ Len(s) \in Nat \ {0} /\ DOMAIN s = 1 .. Len(s)
        /\ Head(s) = s[1] /\ Tail(s) \in Seq(S) /\ Len(Tail(s)) = Len(s) - 1
        /\ DOMAIN Tail(s) = 1 .. (Len(s) - 1)
        /\ \A i \in 1 .. (Len(s) - 1) : Tail(s)[i] = s[i + 1]
    OBVIOUS
  <1>2. RangeOf(s) = RangeOf(Tail(s)) \cup {Head(s)}
    <2>1. ASSUME NEW i \in DOMAIN s
          PROVE  s[i] \in RangeOf(Tail(s)) \cup {Head(s)}
      <3>1. CASE i = 1
        BY <1>1, <3>1
      <3>2. CASE i # 1
        <4>1. i - 1 \in DOMAIN Tail(s) /\ Tail(s)[i - 1] = s[i]
          BY <1>1, <3>2
        <4> QED
          BY <4>1 DEF RangeOf
      <3> QED
        BY <3>1, <3>2
    <2>2. ASSUME NEW i \in DOMAIN Tail(s)
          PROVE  Tail(s)[i] \in RangeOf(s)
      BY <1>1 DEF RangeOf
    <2>3. Head(s) \in RangeOf(s)
      BY <1>1 DEF RangeOf
    <2> QED
      BY <2>1, <2>2, <2>3 DEF RangeOf
  <1>3. ASSUME NoRepeats(s)
        PROVE  NoRepeats(Tail(s)) /\ Head(s) \notin RangeOf(Tail(s))
    BY <1>1, <1>3 DEF NoRepeats, RangeOf
  <1> QED
    BY <1>1, <1>2, <1>3 DEF RangeOf

-----------------------------------------------------------------------------
(* The type invariant.  It is inductive together with what each program    *)
(* counter says of its thread's locals.                                    *)

ControlOK ==
    /\ steerPc \in {"alloc", "push"} => steerBuf # <<>>
    /\ steerPc = "push" <=> steerFrame # NoFrame
    /\ \A q \in Queues : rewPc[q] = "process" => batch[q] # <<>>
    /\ muxPc \in {"send", "free"} => muxBatch # <<>>

TypeInv == TypeOK /\ ControlOK

LEMMA QueueFacts ==
    /\ PoolSize \in Nat
    /\ Queues # {} /\ Queues \subseteq Int
    /\ \A flow \in Flows : assign_queue(flow) \in Queues
  <1>1. PoolSize \in Nat
    BY SizesAssumption DEF PoolSize
  <1>2. 0 \in Queues /\ Queues \subseteq Int
    BY SizesAssumption DEF Queues
  <1>3. ASSUME NEW flow \in Flows
        PROVE  assign_queue(flow) \in Queues
    <2>1. FlowHash[flow] \in Nat
      BY FlowsAssumption
    <2>2. FlowHash[flow] % NumRewriters \in 0 .. (NumRewriters - 1)
      BY <2>1, SizesAssumption
    <2> QED
      BY <1>2, <2>2 DEF assign_queue, Queues
  <1> QED
    BY <1>1, <1>2, <1>3

LEMMA InitTypeInv == Init => TypeInv
  <1> SUFFICES ASSUME Init PROVE TypeInv
    OBVIOUS
  <1>1. free \in Seq(Frames) /\ Len(free) <= PoolSize
    BY QueueFacts DEF Init
  <1>2. muxQ \in 0 .. NumRewriters
    BY SizesAssumption DEF Init
  <1>3. PcsOK
    BY DEF Init, PcsOK
  <1>4. ControlOK
    BY FlowsAssumption DEF Init, ControlOK
  <1>5. shutdown \in BOOLEAN
    BY DEF Init
  <1>6. TypeOK
    BY <1>1, <1>2, <1>3, <1>5 DEF Init, TypeOK
  <1> QED
    BY <1>4, <1>6 DEF TypeInv

\* Freeing a frame keeps the free list and the frames well typed.
LEMMA PoolFreeType ==
    ASSUME TypeInv, NEW f \in Frames, PoolFree(f)
    PROVE  /\ free' \in Seq(Frames) /\ Len(free') <= PoolSize
           /\ content' \in [Frames -> Stored \cup {NoPacket}]
  <1>1. /\ Append(free, f) \in Seq(Frames)
        /\ Len(Append(free, f)) = Len(free) + 1
    BY AppendFacts DEF TypeInv, TypeOK
  <1>2. Len(free) \in Nat /\ PoolSize \in Nat
    BY QueueFacts DEF TypeInv, TypeOK
  <1> QED
    BY <1>1, <1>2 DEF PoolFree, TypeInv, TypeOK

LEMMA SteeringTypeInv == TypeInv /\ Steering => TypeInv'
  <1> SUFFICES ASSUME TypeInv, Steering PROVE TypeInv'
    OBVIOUS
  <1> USE DEF TypeInv
  <1>0. PoolSize \in Nat /\ Len(free) \in Nat
    BY QueueFacts DEF TypeOK
  <1>1. ASSUME NEW b \in SeqsUpTo(Packet, BatchSize), SteerRecvBatch(b)
        PROVE  TypeInv'
    <2>1. b \in Seq(Packet) /\ b # <<>>
      BY <1>1, SizesAssumption DEF SeqsUpTo
    <2> QED
      BY <1>1, <2>1 DEF SteerRecvBatch, TypeOK, ControlOK, PcsOK, rewVars, muxVars
  <1>2. ASSUME steerBuf # <<>>, SteerAdvance
        PROVE  /\ steerBuf' \in Seq(Packet)
               /\ steerPc' \in {"check", "alloc"}
               /\ steerPc' = "alloc" => steerBuf' # <<>>
    BY <1>2, TailFacts DEF SteerAdvance, TypeOK
  <1>3. CASE SteerAlloc
    <2>1. Head(free) \in Frames /\ Tail(free) \in Seq(Frames) /\ Len(Tail(free)) <= PoolSize
      BY <1>0, <1>3, TailFacts DEF SteerAlloc, TypeOK
    <2>2. steerBuf # <<>> /\ Head(steerBuf) \in Packet
      BY <1>3, TailFacts DEF SteerAlloc, TypeOK, ControlOK
    <2>3. content' \in [Frames -> Stored \cup {NoPacket}]
      BY <1>3, <2>1, <2>2 DEF SteerAlloc, TypeOK, Stored
    <2>4. TypeOK'
      BY <1>3, <2>1, <2>3 DEF SteerAlloc, TypeOK, PcsOK, rewVars, muxVars
    <2> QED
      BY <1>3, <2>1, <2>2, <2>4, FramesAssumption DEF SteerAlloc, ControlOK, rewVars, muxVars
  <1>4. CASE SteerExhausted
    <2>1. steerBuf # <<>> /\ steerFrame = NoFrame
      BY <1>4 DEF SteerExhausted, ControlOK
    <2> QED
      BY <1>2, <1>4, <2>1 DEF SteerExhausted, TypeOK, ControlOK, PcsOK, rewVars, muxVars
  <1>5. CASE SteerPush
    <2> DEFINE q == assign_queue(Head(steerBuf).flow)
    <2>1. steerBuf # <<>> /\ steerFrame \in Frames /\ Head(steerBuf) \in Packet
      BY <1>5, TailFacts DEF SteerPush, TypeOK, ControlOK
    <2>2. q \in Queues
      BY <2>1, QueueFacts DEF Packet
    <2>3. /\ free' \in Seq(Frames) /\ Len(free') <= PoolSize
          /\ content' \in [Frames -> Stored \cup {NoPacket}]
          /\ rx' \in [Queues -> Seq(Frames)]
      <3>1. CASE ~Full(rx[q]) /\ rx' = [rx EXCEPT ![q] = Append(@, steerFrame)]
                 /\ UNCHANGED <<free, content>>
        <4>1. Append(rx[q], steerFrame) \in Seq(Frames)
          BY <2>1, <2>2, AppendFacts DEF TypeOK
        <4> QED
          BY <3>1, <4>1, <2>2 DEF TypeOK
      <3>2. CASE Full(rx[q]) /\ PoolFree(steerFrame) /\ UNCHANGED rx
        BY <2>1, <3>2, PoolFreeType DEF TypeOK
      <3> QED
        BY <1>5, <3>1, <3>2 DEF SteerPush
    <2>4. SteerAdvance /\ steerFrame' = NoFrame
          /\ UNCHANGED <<tx, rewPc, batch, muxPc, muxQ, muxBatch, wire, shutdown>>
      BY <1>5 DEF SteerPush, rewVars, muxVars
    <2> QED
      BY <1>2, <2>1, <2>3, <2>4 DEF TypeOK, ControlOK, PcsOK
  <1>6. CASE SteerExit
    BY <1>6 DEF SteerExit, TypeOK, ControlOK, PcsOK, rewVars, muxVars
  <1> QED
    BY <1>1, <1>3, <1>4, <1>5, <1>6 DEF Steering, SteerRecv

LEMMA RewriterTypeInv ==
    ASSUME TypeInv, NEW q \in Queues, Rewriter(q)
    PROVE  TypeInv'
  <1> USE DEF TypeInv
  <1>1. CASE RewCheck(q)
    BY <1>1 DEF RewCheck, TypeOK, ControlOK, PcsOK, steerVars, muxVars
  <1>2. CASE RewPop(q)
    <2>1. Head(rx[q]) \in Frames /\ Tail(rx[q]) \in Seq(Frames)
      BY <1>2, TailFacts DEF RewPop, TypeOK
    <2>2. Append(batch[q], Head(rx[q])) \in Seq(Frames)
      BY <2>1, AppendFacts DEF TypeOK
    <2> QED
      BY <1>2, <2>1, <2>2 DEF RewPop, TypeOK, ControlOK, PcsOK, steerVars, muxVars
  <1>3. CASE RewDrained(q)
    BY <1>3 DEF RewDrained, TypeOK, ControlOK, PcsOK, steerVars, muxVars
  <1>4. ASSUME RewAdvance(q), rewPc[q] = "process"
        PROVE  /\ Head(batch[q]) \in Frames
               /\ batch' \in [Queues -> Seq(Frames)]
               /\ rewPc' \in [Queues -> {"check", "drain", "process", "done"}]
               /\ \A p \in Queues : rewPc'[p] = "process" => batch'[p] # <<>>
    <2>1. Head(batch[q]) \in Frames /\ Tail(batch[q]) \in Seq(Frames)
      BY <1>4, TailFacts DEF TypeOK, ControlOK
    <2> QED
      BY <1>4, <2>1 DEF RewAdvance, TypeOK, ControlOK, PcsOK
  <1>5. CASE RewForward(q)
    <2> DEFINE f == Head(batch[q])
    <2>1. /\ RewAdvance(q) /\ rewPc[q] = "process" /\ content[f] # NoPacket
          /\ UNCHANGED <<rx, steerPc, steerBuf, steerFrame, muxPc, muxQ, muxBatch, wire, shutdown>>
      BY <1>5 DEF RewForward, steerVars, muxVars
    <2>2. /\ free' \in Seq(Frames) /\ Len(free') <= PoolSize
          /\ content' \in [Frames -> Stored \cup {NoPacket}]
          /\ tx' \in [Queues -> Seq(Frames)]
      <3>1. CASE /\ tx' = [tx EXCEPT ![q] = Append(@, f)]
                 /\ content' = [content EXCEPT ![f].encap = @ + 1]
                 /\ UNCHANGED free
        <4>1. Append(tx[q], f) \in Seq(Frames)
          BY <1>4, <2>1, AppendFacts DEF TypeOK
        <4>2. content[f] \in Stored
          BY <1>4, <2>1 DEF TypeOK
        <4>3. [content[f] EXCEPT !.encap = @ + 1] \in Stored
          BY <4>2 DEF Stored
        <4>4. content' = [content EXCEPT ![f] = [content[f] EXCEPT !.encap = @ + 1]]
          BY <3>1
        <4> QED
          BY <1>4, <2>1, <3>1, <4>1, <4>3, <4>4 DEF TypeOK
      <3>2. CASE PoolFree(f) /\ UNCHANGED tx
        BY <1>4, <2>1, <3>2, PoolFreeType DEF TypeOK
      <3> QED
        BY <1>5, <3>1, <3>2 DEF RewForward
    <2> QED
      BY <1>4, <2>1, <2>2 DEF TypeOK, ControlOK, PcsOK
  <1>6. CASE RewDrop(q)
    <2>1. /\ RewAdvance(q) /\ rewPc[q] = "process" /\ PoolFree(Head(batch[q]))
          /\ UNCHANGED <<rx, tx, steerPc, steerBuf, steerFrame, muxPc, muxQ, muxBatch, wire, shutdown>>
      BY <1>6 DEF RewDrop, steerVars, muxVars
    <2> QED
      BY <1>4, <2>1, PoolFreeType DEF TypeOK, ControlOK, PcsOK
  <1> QED
    BY <1>1, <1>2, <1>3, <1>5, <1>6 DEF Rewriter

LEMMA MuxerTypeInv == TypeInv /\ Muxer => TypeInv'
  <1> SUFFICES ASSUME TypeInv, Muxer PROVE TypeInv'
    OBVIOUS
  <1> USE DEF TypeInv
  <1>1. CASE MuxCheck
    BY <1>1, SizesAssumption DEF MuxCheck, TypeOK, ControlOK, PcsOK, steerVars, rewVars
  <1>2. CASE MuxPop
    <2>1. muxQ \in Queues
      BY <1>2, SizesAssumption DEF MuxPop, TypeOK, Queues
    <2>2. Head(tx[muxQ]) \in Frames /\ Tail(tx[muxQ]) \in Seq(Frames)
      BY <1>2, <2>1, TailFacts DEF MuxPop, TypeOK
    <2>3. Append(muxBatch, Head(tx[muxQ])) \in Seq(Frames)
      BY <2>2, AppendFacts DEF TypeOK
    <2> QED
      BY <1>2, <2>1, <2>2, <2>3 DEF MuxPop, TypeOK, ControlOK, PcsOK, steerVars, rewVars
  <1>3. CASE MuxNextQueue
    BY <1>3, SizesAssumption DEF MuxNextQueue, TypeOK, ControlOK, PcsOK, steerVars, rewVars
  <1>4. CASE MuxDrained
    BY <1>4 DEF MuxDrained, TypeOK, ControlOK, PcsOK, steerVars, rewVars
  <1>5. CASE MuxSend
    <2>1. PICK n \in 0 .. Len(muxBatch) : wire' = [i \in 1 .. n |-> content[muxBatch[i]]]
      BY <1>5 DEF MuxSend
    <2>2. \A i \in 1 .. n : content[muxBatch[i]] \in Stored \cup {NoPacket}
      BY <2>1 DEF TypeOK
    <2>3. wire' \in Seq(Stored \cup {NoPacket})
      BY <2>1, <2>2 DEF TypeOK
    <2> QED
      BY <1>5, <2>3 DEF MuxSend, TypeOK, ControlOK, PcsOK, steerVars, rewVars
  <1>6. CASE MuxFree
    <2>1. /\ muxPc = "free" /\ muxBatch # <<>>
          /\ Head(muxBatch) \in Frames /\ Tail(muxBatch) \in Seq(Frames)
      BY <1>6, TailFacts DEF MuxFree, TypeOK, ControlOK
    <2>2. /\ free' \in Seq(Frames) /\ Len(free') <= PoolSize
          /\ content' \in [Frames -> Stored \cup {NoPacket}]
      BY <1>6, <2>1, PoolFreeType DEF MuxFree
    <2> QED
      BY <1>6, <2>1, <2>2 DEF MuxFree, TypeOK, ControlOK, PcsOK, steerVars, rewVars
  <1> QED
    BY <1>1, <1>2, <1>3, <1>4, <1>5, <1>6 DEF Muxer

LEMMA NextTypeInv == TypeInv /\ [Next]_vars => TypeInv'
  <1> SUFFICES ASSUME TypeInv, [Next]_vars PROVE TypeInv'
    OBVIOUS
  <1>1. CASE Steering
    BY <1>1, SteeringTypeInv
  <1>2. ASSUME NEW q \in Queues, Rewriter(q) PROVE TypeInv'
    BY <1>2, RewriterTypeInv
  <1>3. CASE Muxer
    BY <1>3, MuxerTypeInv
  <1>4. CASE Shutdown
    BY <1>4 DEF Shutdown, TypeInv, TypeOK, ControlOK, PcsOK, steerVars, rewVars, muxVars
  <1>5. CASE UNCHANGED vars
    BY <1>5 DEF vars, TypeInv, TypeOK, ControlOK, PcsOK, steerVars, rewVars, muxVars
  <1> QED
    BY <1>1, <1>2, <1>3, <1>4, <1>5 DEF Next, Terminated

\* Every reachable state of the forwarder is well typed: queues and batches
\* hold frame indices, the free list never exceeds the pool, and each thread's
\* locals agree with its place in its loop.
THEOREM TypeCorrect == Spec => []TypeOK
  <1>1. Spec => []TypeInv
    BY InitTypeInv, NextTypeInv, PTL DEF Spec
  <1>2. TypeInv => TypeOK
    BY DEF TypeInv
  <1> QED
    BY <1>1, <1>2, PTL

-----------------------------------------------------------------------------
(* Ownership.  Every step of the forwarder that touches a frame index takes *)
(* the head of one place and appends it to another; a single lemma says     *)
(* that such a move keeps the frames exclusively owned and loses none.      *)

Held == [p \in Places |-> HeldAt(p)]

Exclusive(H) ==
    /\ \A p \in Places : NoRepeats(H[p])
    /\ \A p1, p2 \in Places : p1 # p2 => RangeOf(H[p1]) \cap RangeOf(H[p2]) = {}

Complete(H) == \A f \in Frames : \E p \in Places : f \in RangeOf(H[p])

\* G is H with the first index at a moved to the end of b.
Moved(H, G, a, b) ==
    /\ H[a] # <<>>
    /\ G[a] = Tail(H[a])
    /\ G[b] = Append(H[b], Head(H[a]))
    /\ \A p \in Places : p # a /\ p # b => G[p] = H[p]

LEMMA MoveFacts ==
    ASSUME NEW H \in [Places -> Seq(Frames)], NEW G,
           NEW a \in Places, NEW b \in Places, a # b,
           Moved(H, G, a, b), Exclusive(H), Complete(H)
    PROVE  Exclusive(G) /\ Complete(G)
  <1> DEFINE x == Head(H[a])
  <1>1. /\ x \in Frames /\ x \in RangeOf(H[a])
        /\ RangeOf(H[a]) = RangeOf(G[a]) \cup {x}
        /\ NoRepeats(G[a]) /\ x \notin RangeOf(G[a])
    BY TailFacts DEF Moved, Exclusive
  <1>2. x \notin RangeOf(H[b])
    BY <1>1 DEF Exclusive
  <1>3. RangeOf(G[b]) = RangeOf(H[b]) \cup {x} /\ NoRepeats(G[b])
    BY <1>1, <1>2, AppendFacts DEF Moved, Exclusive
  <1>4. \A p \in Places : p # a /\ p # b => G[p] = H[p] /\ x \notin RangeOf(H[p])
    BY <1>1 DEF Moved, Exclusive
  <1>5. \A p \in Places : NoRepeats(G[p])
    BY <1>1, <1>3, <1>4 DEF Exclusive
  <1>6. ASSUME NEW p1 \in Places, NEW p2 \in Places, p1 # p2
        PROVE  RangeOf(G[p1]) \cap RangeOf(G[p2]) = {}
    <2>1. RangeOf(H[p1]) \cap RangeOf(H[p2]) = {}
      BY <1>6 DEF Exclusive
    <2>2. \A p \in Places : p # b => RangeOf(G[p]) \subseteq RangeOf(H[p]) /\ x \notin RangeOf(G[p])
      BY <1>1, <1>4
    <2> QED
      BY <1>3, <1>6, <2>1, <2>2
  <1>7. ASSUME NEW f \in Frames PROVE \E p \in Places : f \in RangeOf(G[p])
    <2>1. PICK p \in Places : f \in RangeOf(H[p])
      BY DEF Complete
    <2>2. CASE f = x
      BY <1>3, <2>2
    <2>3. CASE f # x
      BY <1>1, <1>3, <1>4, <2>1, <2>3
    <2> QED
      BY <2>2, <2>3
  <1> QED
    BY <1>5, <1>6, <1>7 DEF Exclusive, Complete

LEMMA PlaceFacts ==
    /\ \A p \in Places : \/ p = <<"free", 0>> \/ p = <<"steer", 0>> \/ p = <<"mux", 0>>
                         \/ \E q \in Queues : \/ p = <<"rx", q>> \/ p = <<"batch", q>>
                                              \/ p = <<"tx", q>>
    /\ <<"free", 0>> \in Places /\ <<"steer", 0>> \in Places /\ <<"mux", 0>> \in Places
    /\ \A q \in Queues : /\ <<"rx", q>> \in Places /\ <<"batch", q>> \in Places
                         /\ <<"tx", q>> \in Places
  BY DEF Places

\* The steering thread's frame as a sequence.
SteerHeld == IF steerFrame = NoFrame THEN <<>> ELSE <<steerFrame>>

\* What each place holds, now and in the next state.
LEMMA HeldFacts ==
    /\ Held[<<"free", 0>>] = free /\ Held[<<"steer", 0>>] = SteerHeld
    /\ Held[<<"mux", 0>>] = muxBatch
    /\ \A q \in Queues : /\ Held[<<"rx", q>>] = rx[q] /\ Held[<<"batch", q>>] = batch[q]
                         /\ Held[<<"tx", q>>] = tx[q]
  BY PlaceFacts DEF Held, HeldAt, SteerHeld

\* At the start every frame is on the free list and nowhere else.
LEMMA InitHeld ==
    Init => /\ Held[<<"free", 0>>] = free
            /\ \A p \in Places : p # <<"free", 0>> => Held[p] = <<>>
  <1> SUFFICES ASSUME Init
               PROVE  /\ Held[<<"free", 0>>] = free
                      /\ \A p \in Places : p # <<"free", 0>> => Held[p] = <<>>
    OBVIOUS
  <1>1. steerFrame = NoFrame /\ muxBatch = <<>>
    BY DEF Init
  <1>2. \A q \in Queues : rx[q] = <<>> /\ batch[q] = <<>> /\ tx[q] = <<>>
    BY DEF Init
  <1>3. SteerHeld = <<>>
    BY <1>1 DEF SteerHeld
  <1>4. ASSUME NEW p \in Places, p # <<"free", 0>>
        PROVE  Held[p] = <<>>
    <2>1. CASE p = <<"steer", 0>> \/ p = <<"mux", 0>>
      BY <1>1, <1>3, <2>1, HeldFacts
    <2>2. CASE \E q \in Queues : p = <<"rx", q>> \/ p = <<"batch", q>> \/ p = <<"tx", q>>
      BY <1>2, <2>2, HeldFacts
    <2> QED
      BY <1>4, <2>1, <2>2, PlaceFacts
  <1> QED
    BY <1>4, HeldFacts

LEMMA HeldFactsNext ==
    /\ Held'[<<"free", 0>>] = free' /\ Held'[<<"steer", 0>>] = SteerHeld'
    /\ Held'[<<"mux", 0>>] = muxBatch'
    /\ \A q \in Queues : /\ Held'[<<"rx", q>>] = rx'[q] /\ Held'[<<"batch", q>>] = batch'[q]
                         /\ Held'[<<"tx", q>>] = tx'[q]
  BY PlaceFacts DEF Held, HeldAt, SteerHeld

LEMMA HeldType == TypeOK => Held \in [Places -> Seq(Frames)]
  <1> SUFFICES ASSUME TypeOK PROVE Held \in [Places -> Seq(Frames)]
    OBVIOUS
  <1>1. SteerHeld \in Seq(Frames)
    BY DEF TypeOK, SteerHeld
  <1>2. ASSUME NEW p \in Places PROVE Held[p] \in Seq(Frames)
    <2>1. CASE p \in {<<"free", 0>>, <<"steer", 0>>, <<"mux", 0>>}
      BY <1>1, <2>1, HeldFacts DEF TypeOK
    <2>2. ASSUME NEW q \in Queues, p \in {<<"rx", q>>, <<"batch", q>>, <<"tx", q>>}
          PROVE  Held[p] \in Seq(Frames)
      <3>1. rx[q] \in Seq(Frames) /\ batch[q] \in Seq(Frames) /\ tx[q] \in Seq(Frames)
        BY DEF TypeOK
      <3> QED
        BY <2>2, <3>1, HeldFacts
    <2> QED
      BY <2>1, <2>2, PlaceFacts
  <1> QED
    BY <1>2 DEF Held

OwnInv == Exclusive(Held) /\ Complete(Held)

\* A frame that is not on the free list always fits there.
LEMMA FreeHasRoom ==
    ASSUME TypeOK, OwnInv, NEW f \in Frames, f \notin RangeOf(free)
    PROVE  Len(free) < PoolSize
  <1> DEFINE R == RangeOf(free)
             L == Len(free)
  <1>1. free \in Seq(Frames) /\ L \in Nat /\ DOMAIN free = 1 .. L
    BY DEF TypeOK
  <1>2. NoRepeats(free)
    BY PlaceFacts, HeldFacts DEF OwnInv, Exclusive
  <1>3. R \subseteq Frames \ {f}
    BY <1>1 DEF RangeOf
  <1>4. IsFiniteSet(1 .. L) /\ Cardinality(1 .. L) = L
    BY <1>1, FS_Interval
  <1>5. free \in Bijection(1 .. L, R)
    BY <1>1, <1>2 DEF Bijection, Injection, Surjection, IsInjective, NoRepeats, RangeOf
  <1>6. IsFiniteSet(R) /\ Cardinality(R) = L
    BY <1>4, <1>5, FS_Bijection DEF ExistsBijection
  <1>7. IsFiniteSet(Frames \ {f}) /\ Cardinality(Frames \ {f}) = PoolSize - 1
    BY FS_RemoveElement, FramesAssumption
  <1>8. Cardinality(R) <= Cardinality(Frames \ {f})
    BY <1>3, <1>7, FS_Subset
  <1> QED
    BY <1>1, <1>6, <1>7, <1>8, QueueFacts

\* Places that an action does not touch hold what they held.
LEMMA OtherPlaces ==
    ASSUME NEW a, NEW b,
           <<"free", 0>> \notin {a, b} => free' = free,
           <<"steer", 0>> \notin {a, b} => steerFrame' = steerFrame,
           <<"mux", 0>> \notin {a, b} => muxBatch' = muxBatch,
           \A q \in Queues : /\ <<"rx", q>> \notin {a, b} => rx'[q] = rx[q]
                             /\ <<"batch", q>> \notin {a, b} => batch'[q] = batch[q]
                             /\ <<"tx", q>> \notin {a, b} => tx'[q] = tx[q]
    PROVE  \A p \in Places : p # a /\ p # b => Held'[p] = Held[p]
  <1> SUFFICES ASSUME NEW p \in Places, p # a, p # b PROVE Held'[p] = Held[p]
    OBVIOUS
  <1>1. CASE p \in {<<"free", 0>>, <<"steer", 0>>, <<"mux", 0>>}
    BY <1>1, HeldFacts, HeldFactsNext DEF SteerHeld
  <1>2. ASSUME NEW q \in Queues, p \in {<<"rx", q>>, <<"batch", q>>, <<"tx", q>>}
        PROVE  Held'[p] = Held[p]
    BY <1>2, HeldFacts, HeldFactsNext, ZenonT(30)
  <1> QED
    BY <1>1, <1>2, PlaceFacts

LEMMA AllPlacesSame ==
    ASSUME UNCHANGED <<free, steerFrame, muxBatch, rx, batch, tx>>
    PROVE  Held' = Held
  BY DEF Held, HeldAt

\* What a frame at a place contains: from the moment it is filled a packet, with
\* a GRE header, and of a flow that is forwarded, once a rewriter has handed it on.
Fits(p, c) ==
    /\ p[1] # "free" => /\ c # NoPacket
                        /\ c.encap = IF p[1] \in {"tx", "mux"} THEN 1 ELSE 0
    /\ p[1] \in {"tx", "mux"} => c.pkt.flow \in Forwardable

\* Only the frame that moves is written to, and as its next place requires.
Carried(a, b) ==
    /\ \A f \in Frames : f # Head(Held[a]) => content'[f] = content[f]
    /\ Fits(a, content[Head(Held[a])]) => Fits(b, content'[Head(Held[a])])

\* A step hands over one frame index along the lifecycle, or none.
HandsOver == \E a, b \in Places : /\ a # b
                                  /\ b \in Lifecycle!Successors(a)
                                  /\ Moved(Held, Held', a, b)
                                  /\ Carried(a, b)

Stays == Held' = Held /\ content' = content

LEMMA QueuePlaces ==
    /\ Lifecycle!Successors(<<"free", 0>>) = {<<"steer", 0>>}
    /\ Lifecycle!Successors(<<"steer", 0>>) = ({"rx"} \X Queues) \cup {<<"free", 0>>}
    /\ Lifecycle!Successors(<<"mux", 0>>) = {<<"free", 0>>}
    /\ \A q \in Queues :
          /\ Lifecycle!Successors(<<"rx", q>>) = {<<"batch", q>>}
          /\ Lifecycle!Successors(<<"batch", q>>) = {<<"tx", q>>, <<"free", 0>>}
          /\ Lifecycle!Successors(<<"tx", q>>) = {<<"mux", 0>>}
  BY DEF Lifecycle!Successors, Lifecycle!Queues, Queues

LEMMA SteeringMoves ==
    ASSUME TypeInv, OwnInv, Steering
    PROVE  Stays \/ HandsOver
  <1>1. ASSUME NEW b, SteerRecvBatch(b) PROVE Stays
    BY <1>1, AllPlacesSame DEF SteerRecvBatch, Stays, rewVars, muxVars
  <1>2. CASE SteerAlloc
    <2> DEFINE a == <<"free", 0>>
               b == <<"steer", 0>>
    <2>1. /\ steerFrame = NoFrame /\ Head(free) \in Frames /\ free # <<>>
          /\ steerFrame' = Head(free) /\ free' = Tail(free)
          /\ UNCHANGED <<rx, tx, batch, muxBatch>>
      BY <1>2, TailFacts DEF SteerAlloc, TypeInv, TypeOK, ControlOK, rewVars, muxVars
    <2>2. \A p \in Places : p # a /\ p # b => Held'[p] = Held[p]
      BY <2>1, OtherPlaces
    <2>3. SteerHeld = <<>> /\ SteerHeld' = Append(SteerHeld, Head(free))
      BY <2>1, FramesAssumption DEF SteerHeld
    <2>4. Moved(Held, Held', a, b)
      BY <2>1, <2>2, <2>3, HeldFacts, HeldFactsNext DEF Moved
    <2>5. content' = [content EXCEPT ![Head(free)] = [pkt |-> Head(steerBuf), encap |-> 0]]
      BY <1>2 DEF SteerAlloc
    <2>6. Head(steerBuf) \in Packet
      BY <1>2, TailFacts DEF SteerAlloc, TypeInv, TypeOK, ControlOK
    <2>7. Carried(a, b)
      <3>1. content'[Head(free)] = [pkt |-> Head(steerBuf), encap |-> 0]
        BY <2>1, <2>5 DEF TypeInv, TypeOK
      <3>2. [pkt |-> Head(steerBuf), encap |-> 0] \in Stored
        BY <2>6 DEF Stored
      <3>3. /\ content'[Head(free)] # NoPacket /\ content'[Head(free)].encap = 0
            /\ \A f \in Frames : f # Head(free) => content'[f] = content[f]
        BY <2>5, <3>1, <3>2, FlowsAssumption DEF TypeInv, TypeOK
      <3> QED
        BY <3>3, HeldFacts DEF Carried, Fits
    <2> QED
      BY <2>4, <2>7, PlaceFacts, QueuePlaces DEF HandsOver
  <1>3. CASE SteerExhausted
    BY <1>3, AllPlacesSame DEF SteerExhausted, Stays, rewVars, muxVars
  <1>4. CASE SteerPush
    <2> DEFINE q == assign_queue(Head(steerBuf).flow)
               a == <<"steer", 0>>
    <2>1. /\ steerFrame \in Frames /\ steerFrame # NoFrame /\ steerFrame' = NoFrame
          /\ Head(steerBuf) \in Packet
          /\ UNCHANGED <<tx, batch, muxBatch>>
      BY <1>4, TailFacts DEF SteerPush, TypeInv, TypeOK, ControlOK, rewVars, muxVars
    <2>2. q \in Queues
      BY <2>1, QueueFacts DEF Packet
    <2>3. /\ SteerHeld # <<>> /\ Head(SteerHeld) = steerFrame
          /\ SteerHeld' = Tail(SteerHeld)
      BY <2>1 DEF SteerHeld
    <2>4. CASE rx' = [rx EXCEPT ![q] = Append(@, steerFrame)] /\ UNCHANGED <<free, content>>
      <3> DEFINE b == <<"rx", q>>
      <3>1. \A p \in Places : p # a /\ p # b => Held'[p] = Held[p]
        BY <2>1, <2>2, <2>4, OtherPlaces DEF TypeInv, TypeOK
      <3>2. rx'[q] = Append(rx[q], steerFrame)
        BY <2>2, <2>4 DEF TypeInv, TypeOK
      <3>3. Moved(Held, Held', a, b)
        BY <2>2, <2>3, <3>1, <3>2, HeldFacts, HeldFactsNext DEF Moved
      <3>4. Carried(a, b)
        BY <2>4 DEF Carried, Fits
      <3> QED
        BY <2>2, <3>3, <3>4, PlaceFacts, QueuePlaces DEF HandsOver
    <2>5. CASE PoolFree(steerFrame) /\ UNCHANGED rx
      <3> DEFINE b == <<"free", 0>>
      <3>1. steerFrame \in RangeOf(Held[a])
        BY <2>1, HeldFacts DEF SteerHeld, RangeOf
      <3>2. steerFrame \notin RangeOf(free)
        BY <3>1, HeldFacts, PlaceFacts DEF OwnInv, Exclusive
      <3>3. free' = Append(free, steerFrame)
        BY <2>1, <2>5, <3>2, FreeHasRoom DEF PoolFree, TypeInv
      <3>4. \A p \in Places : p # a /\ p # b => Held'[p] = Held[p]
        BY <2>1, <2>5, OtherPlaces
      <3>5. Moved(Held, Held', a, b)
        BY <2>3, <3>3, <3>4, HeldFacts, HeldFactsNext DEF Moved
      <3>6. Carried(a, b)
        BY <2>3, <2>5, HeldFacts DEF Carried, Fits, PoolFree, TypeInv, TypeOK
      <3> QED
        BY <3>5, <3>6, PlaceFacts, QueuePlaces DEF HandsOver
    <2> QED
      BY <1>4, <2>4, <2>5 DEF SteerPush
  <1>5. CASE SteerExit
    BY <1>5, AllPlacesSame DEF SteerExit, Stays, rewVars, muxVars
  <1> QED
    BY <1>1, <1>2, <1>3, <1>4, <1>5 DEF Steering, SteerRecv

\* Freeing the frame at the head of a thread's batch hands it to the free list.
LEMMA FreeingMoves ==
    ASSUME TypeInv, OwnInv, NEW a \in Places, a # <<"free", 0>>,
           <<"free", 0>> \in Lifecycle!Successors(a),
           Held[a] # <<>>, PoolFree(Head(Held[a])), Held'[a] = Tail(Held[a]),
           \A p \in Places : p # a /\ p # <<"free", 0>> => Held'[p] = Held[p]
    PROVE  HandsOver
  <1> DEFINE b == <<"free", 0>>
             f == Head(Held[a])
  <1>1. f \in Frames /\ f \in RangeOf(Held[a])
    BY HeldType, TailFacts DEF TypeInv
  <1>2. f \notin RangeOf(free)
    BY <1>1, HeldFacts, PlaceFacts DEF OwnInv, Exclusive
  <1>3. free' = Append(free, f)
    BY <1>1, <1>2, FreeHasRoom DEF PoolFree, TypeInv
  <1>4. Moved(Held, Held', a, b)
    BY <1>3, HeldFacts, HeldFactsNext DEF Moved
  <1>5. Carried(a, b)
    BY DEF Carried, Fits, PoolFree, TypeInv, TypeOK
  <1> QED
    BY <1>4, <1>5, PlaceFacts DEF HandsOver

LEMMA RewriterMoves ==
    ASSUME TypeInv, OwnInv, NEW q \in Queues, Rewriter(q)
    PROVE  Stays \/ HandsOver
  <1>1. CASE RewCheck(q)
    BY <1>1, AllPlacesSame DEF RewCheck, Stays, steerVars, muxVars
  <1>2. CASE RewPop(q)
    <2> DEFINE a == <<"rx", q>>
               b == <<"batch", q>>
    <2>1. /\ rx[q] # <<>> /\ rx'[q] = Tail(rx[q])
          /\ batch'[q] = Append(batch[q], Head(rx[q]))
          /\ \A p \in Queues : p # q => rx'[p] = rx[p] /\ batch'[p] = batch[p]
          /\ UNCHANGED <<free, steerFrame, tx, muxBatch>>
      BY <1>2 DEF RewPop, TypeInv, TypeOK, steerVars, muxVars
    <2>4. \A p \in Queues : /\ <<"rx", p>> \notin {a, b} => rx'[p] = rx[p]
                            /\ <<"batch", p>> \notin {a, b} => batch'[p] = batch[p]
                            /\ <<"tx", p>> \notin {a, b} => tx'[p] = tx[p]
      BY <2>1
    <2>2. \A p \in Places : p # a /\ p # b => Held'[p] = Held[p]
      BY <2>1, <2>4, OtherPlaces, ZenonT(30)
    <2>3. Moved(Held, Held', a, b)
      BY <2>1, <2>2, HeldFacts, HeldFactsNext DEF Moved
    <2>5. Carried(a, b)
      BY <1>2 DEF RewPop, Carried, Fits
    <2> QED
      BY <2>3, <2>5, PlaceFacts, QueuePlaces DEF HandsOver
  <1>3. CASE RewDrained(q)
    BY <1>3, AllPlacesSame DEF RewDrained, Stays, steerVars, muxVars
  <1>4. ASSUME RewAdvance(q), rewPc[q] = "process"
        PROVE  /\ batch[q] # <<>> /\ batch'[q] = Tail(batch[q])
               /\ \A p \in Queues : p # q => batch'[p] = batch[p]
    BY <1>4 DEF RewAdvance, TypeInv, TypeOK, ControlOK
  <1>5. ASSUME RewAdvance(q), rewPc[q] = "process", PoolFree(Head(batch[q])),
               UNCHANGED <<rx, tx, steerFrame, muxBatch>>
        PROVE  HandsOver
    <2> DEFINE a == <<"batch", q>>
               b == <<"free", 0>>
    <2>4. \A p \in Queues : /\ <<"rx", p>> \notin {a, b} => rx'[p] = rx[p]
                            /\ <<"batch", p>> \notin {a, b} => batch'[p] = batch[p]
                            /\ <<"tx", p>> \notin {a, b} => tx'[p] = tx[p]
      BY <1>4, <1>5
    <2>1. \A p \in Places : p # a /\ p # b => Held'[p] = Held[p]
      BY <1>4, <1>5, <2>4, OtherPlaces, ZenonT(30)
    <2>2. Held[a] # <<>> /\ Held[a] = batch[q] /\ Held'[a] = Tail(Held[a])
      BY <1>4, <1>5, HeldFacts, HeldFactsNext
    <2>3. b \in Lifecycle!Successors(a) /\ a \in Places /\ a # b
      BY QueuePlaces, PlaceFacts
    <2> QED
      BY <1>5, <2>1, <2>2, <2>3, FreeingMoves
  <1>6. CASE RewForward(q)
    <2> DEFINE f == Head(batch[q])
    <2>1. /\ RewAdvance(q) /\ rewPc[q] = "process"
          /\ UNCHANGED <<rx, steerFrame, muxBatch>>
      BY <1>6 DEF RewForward, steerVars, muxVars
    <2>2. CASE /\ tx' = [tx EXCEPT ![q] = Append(@, f)]
               /\ content' = [content EXCEPT ![f].encap = @ + 1]
               /\ UNCHANGED free
      <3> DEFINE a == <<"batch", q>>
                 b == <<"tx", q>>
      <3>1. /\ tx'[q] = Append(tx[q], f)
            /\ \A p \in Queues : p # q => tx'[p] = tx[p]
        BY <2>2 DEF TypeInv, TypeOK
      <3>4. \A p \in Queues : /\ <<"rx", p>> \notin {a, b} => rx'[p] = rx[p]
                              /\ <<"batch", p>> \notin {a, b} => batch'[p] = batch[p]
                              /\ <<"tx", p>> \notin {a, b} => tx'[p] = tx[p]
        BY <1>4, <2>1, <3>1
      <3>2. \A p \in Places : p # a /\ p # b => Held'[p] = Held[p]
        <4>1. UNCHANGED <<free, steerFrame, muxBatch>>
          BY <2>1, <2>2
        <4> QED
          BY <3>4, <4>1, OtherPlaces
      <3>3. Moved(Held, Held', a, b)
        BY <1>4, <2>1, <3>1, <3>2, HeldFacts, HeldFactsNext DEF Moved
      <3>5. Carried(a, b)
        <4>1. f \in Frames /\ content[f] \in Stored
          BY <1>4, <1>6, <2>1, TailFacts DEF RewForward, TypeInv, TypeOK
        <4>2. content'[f] = [content[f] EXCEPT !.encap = @ + 1]
          BY <2>2, <4>1 DEF TypeInv, TypeOK
        <4>3. /\ content'[f] \in Stored /\ content'[f].encap = content[f].encap + 1
              /\ content'[f].pkt = content[f].pkt
          BY <4>1, <4>2 DEF Stored
        <4>4. \A g \in Frames : g # f => content'[g] = content[g]
          BY <2>2 DEF TypeInv, TypeOK
        <4>5. Head(Held[a]) = f
          BY HeldFacts
        <4>6. content[f].pkt.flow \in Forwardable
          BY <1>6 DEF RewForward
        <4> HIDE DEF f
        <4> QED
          BY <4>3, <4>4, <4>5, <4>6, FlowsAssumption DEF Carried, Fits
      <3> QED
        BY <3>3, <3>5, PlaceFacts, QueuePlaces DEF HandsOver
    <2>3. CASE PoolFree(f) /\ UNCHANGED tx
      BY <1>5, <2>1, <2>3
    <2> QED
      BY <1>6, <2>2, <2>3 DEF RewForward
  <1>7. CASE RewDrop(q)
    BY <1>5, <1>7 DEF RewDrop, steerVars, muxVars
  <1> QED
    BY <1>1, <1>2, <1>3, <1>6, <1>7 DEF Rewriter

LEMMA MuxerMoves ==
    ASSUME TypeInv, OwnInv, Muxer
    PROVE  Stays \/ HandsOver
  <1>1. CASE MuxPop
    <2> DEFINE a == <<"tx", muxQ>>
               b == <<"mux", 0>>
    <2>1. muxQ \in Queues
      BY <1>1, SizesAssumption DEF MuxPop, TypeInv, TypeOK, Queues
    <2>2. /\ tx[muxQ] # <<>> /\ tx'[muxQ] = Tail(tx[muxQ])
          /\ muxBatch' = Append(muxBatch, Head(tx[muxQ]))
          /\ \A p \in Queues : p # muxQ => tx'[p] = tx[p]
          /\ UNCHANGED <<free, steerFrame, rx, batch>>
      BY <1>1, <2>1 DEF MuxPop, TypeInv, TypeOK, steerVars, rewVars
    <2>5. \A p \in Queues : /\ <<"rx", p>> \notin {a, b} => rx'[p] = rx[p]
                            /\ <<"batch", p>> \notin {a, b} => batch'[p] = batch[p]
                            /\ <<"tx", p>> \notin {a, b} => tx'[p] = tx[p]
      BY <2>2
    <2>3. \A p \in Places : p # a /\ p # b => Held'[p] = Held[p]
      BY <2>2, <2>5, OtherPlaces, ZenonT(30)
    <2>4. Moved(Held, Held', a, b)
      BY <2>1, <2>2, <2>3, HeldFacts, HeldFactsNext DEF Moved
    <2>6. Carried(a, b)
      BY <1>1 DEF MuxPop, Carried, Fits
    <2> QED
      BY <2>1, <2>4, <2>6, PlaceFacts, QueuePlaces DEF HandsOver
  <1>2. CASE MuxFree
    <2> DEFINE a == <<"mux", 0>>
               b == <<"free", 0>>
    <2>1. /\ muxBatch # <<>> /\ muxBatch' = Tail(muxBatch) /\ PoolFree(Head(muxBatch))
          /\ UNCHANGED <<rx, tx, batch, steerFrame>>
      BY <1>2 DEF MuxFree, TypeInv, ControlOK, steerVars, rewVars
    <2>2. \A p \in Places : p # a /\ p # b => Held'[p] = Held[p]
      BY <2>1, OtherPlaces
    <2>3. Held[a] = muxBatch /\ Held'[a] = Tail(Held[a])
      BY <2>1, HeldFacts, HeldFactsNext
    <2>4. b \in Lifecycle!Successors(a) /\ a \in Places /\ a # b
      BY QueuePlaces, PlaceFacts
    <2> QED
      BY <2>1, <2>2, <2>3, <2>4, FreeingMoves
  <1>3. CASE MuxCheck \/ MuxNextQueue \/ MuxDrained \/ MuxSend
    BY <1>3, AllPlacesSame
    DEF MuxCheck, MuxNextQueue, MuxDrained, MuxSend, Stays, steerVars, rewVars
  <1> QED
    BY <1>1, <1>2, <1>3 DEF Muxer

LEMMA StepMoves ==
    ASSUME TypeInv, OwnInv, [Next]_vars
    PROVE  Stays \/ HandsOver
  <1>1. ASSUME NEW q \in Queues, Rewriter(q) PROVE Stays \/ HandsOver
    BY <1>1, RewriterMoves
  <1>2. CASE Shutdown \/ UNCHANGED vars
    BY <1>2, AllPlacesSame DEF Shutdown, Stays, vars, steerVars, rewVars, muxVars
  <1> QED
    BY <1>1, <1>2, SteeringMoves, MuxerMoves DEF Next, Terminated

LEMMA InitOwnInv == Init => OwnInv
  <1> SUFFICES ASSUME Init PROVE OwnInv
    OBVIOUS
  <1>1. /\ Held[<<"free", 0>>] = free
        /\ \A p \in Places : p # <<"free", 0>> => Held[p] = <<>>
    BY InitHeld
  <1>2. NoRepeats(<<>>) /\ RangeOf(<<>>) = {}
    BY DEF NoRepeats, RangeOf
  <1>3. NoRepeats(free) /\ free \in [1 .. PoolSize -> Frames]
    BY DEF Init
  <1>4. RangeOf(free) = Frames
    <2>1. RangeOf(free) \subseteq Frames
      BY <1>3 DEF RangeOf
    <2>2. IsFiniteSet(1 .. PoolSize) /\ Cardinality(1 .. PoolSize) = PoolSize
      BY QueueFacts, FS_Interval
    <2>3. free \in Bijection(1 .. PoolSize, RangeOf(free))
      BY <1>3 DEF Bijection, Injection, Surjection, IsInjective, NoRepeats, RangeOf
    <2>4. Cardinality(RangeOf(free)) = PoolSize
      BY <2>2, <2>3, FS_Bijection DEF ExistsBijection
    <2> QED
      BY <2>1, <2>4, FS_Subset, FramesAssumption
  <1>5. Exclusive(Held)
    BY <1>1, <1>2, <1>3, PlaceFacts DEF Exclusive
  <1>6. Complete(Held)
    BY <1>1, <1>4, PlaceFacts DEF Complete
  <1> QED
    BY <1>5, <1>6 DEF OwnInv

LEMMA NextOwnInv ==
    ASSUME TypeInv, OwnInv, [Next]_vars
    PROVE  OwnInv'
  <1>1. Held \in [Places -> Seq(Frames)]
    BY HeldType DEF TypeInv
  <1>2. CASE Stays
    BY <1>2 DEF Stays, OwnInv, Exclusive, Complete
  <1>3. ASSUME NEW a \in Places, NEW b \in Places, a # b, Moved(Held, Held', a, b)
        PROVE  OwnInv'
    <2>1. Exclusive(Held') /\ Complete(Held')
      BY <1>1, <1>3, MoveFacts DEF OwnInv
    <2> QED
      BY <2>1 DEF OwnInv, Exclusive, Complete
  <1> QED
    BY <1>2, <1>3, StepMoves DEF HandsOver

FullInv == TypeInv /\ OwnInv

LEMMA InvariantHolds == Spec => []FullInv
  <1>1. Init => FullInv
    BY InitTypeInv, InitOwnInv DEF FullInv
  <1>2. FullInv /\ [Next]_vars => FullInv'
    BY NextTypeInv, NextOwnInv DEF FullInv
  <1> QED
    BY <1>1, <1>2, PTL DEF Spec

\* For every number of rewriters and every queue and batch size, no frame
\* index is ever held by two threads or queues at once: the protocol on which
\* the unsafe Sync implementation of PacketPool rests.
THEOREM FramesSingleOwner == Spec => []SingleOwner
  <1>1. FullInv => SingleOwner
    BY DEF FullInv, OwnInv, Exclusive, SingleOwner, Held
  <1> QED
    BY <1>1, InvariantHolds, PTL

\* No interleaving loses a frame index, so the pool never shrinks and the
\* ignored result of the free-list push is always a success.
THEOREM FramesNeverLost == Spec => []NoFrameLost
  <1>1. FullInv => NoFrameLost
    BY DEF FullInv, OwnInv, Complete, NoFrameLost, Held
  <1> QED
    BY <1>1, InvariantHolds, PTL

-----------------------------------------------------------------------------
(* The forwarder implements the frame lifecycle.                           *)

\* Under exclusive and complete ownership the owner of a frame is the one
\* place that holds it.
LEMMA OwnerIs ==
    ASSUME OwnInv, NEW f \in Frames
    PROVE  /\ owner[f] \in Places
           /\ \A p \in Places : f \in RangeOf(Held[p]) <=> owner[f] = p
  <1>1. \E p \in Places : f \in RangeOf(HeldAt(p))
    BY DEF OwnInv, Complete, Held
  <1>2. owner[f] \in Places /\ f \in RangeOf(HeldAt(owner[f]))
    BY <1>1 DEF owner
  <1>3. f \in RangeOf(Held[owner[f]])
    BY <1>2 DEF Held
  <1> QED
    BY <1>2, <1>3 DEF OwnInv, Exclusive

LEMMA OwnerIsNext ==
    ASSUME OwnInv', NEW f \in Frames
    PROVE  /\ owner'[f] \in Places
           /\ \A p \in Places : f \in RangeOf(Held'[p]) <=> owner'[f] = p
  <1>1. \E p \in Places : f \in RangeOf(HeldAt(p)')
    BY DEF OwnInv, Complete, Held
  <1>2. owner'[f] \in Places /\ f \in RangeOf(Held'[owner'[f]])
    <2> DEFINE P(p) == p \in Places /\ f \in RangeOf(Held'[p])
    <2>1. \A p \in Places : Held'[p] = HeldAt(p)'
      BY DEF Held
    <2>2. owner'[f] = CHOOSE p \in Places : f \in RangeOf(HeldAt(p)')
      BY DEF owner
    <2> QED
      BY <1>1, <2>1, <2>2
  <1> QED
    BY <1>2 DEF OwnInv, Exclusive

\* Every behaviour of the forwarder, seen as the place of each frame, is one
\* of the lifecycle drawn in packet_pool.rs: a frame only ever moves to the
\* next stage of its own rewriter or back to the free list.
THEOREM ImplementsLifecycle == Spec => LifecycleSpec
  <1>1. FullInv /\ Init => Lifecycle!Init
    <2> SUFFICES ASSUME FullInv, Init PROVE owner = [f \in Frames |-> <<"free", 0>>]
      BY DEF Lifecycle!Init
    <2>1. ASSUME NEW f \in Frames PROVE owner[f] = <<"free", 0>>
      <3>1. \A p \in Places : p # <<"free", 0>> => Held[p] = <<>>
        BY InitHeld
      <3>2. owner[f] \in Places /\ f \in RangeOf(Held[owner[f]])
        BY OwnerIs DEF FullInv
      <3>3. RangeOf(<<>>) = {}
        BY DEF RangeOf
      <3> QED
        BY <3>1, <3>2, <3>3
    <2> QED
      BY <2>1 DEF owner
  <1>2. FullInv /\ FullInv' /\ [Next]_vars => [Lifecycle!Next]_owner
    <2> SUFFICES ASSUME FullInv, FullInv', [Next]_vars
                 PROVE  [Lifecycle!Next]_owner
      OBVIOUS
    <2>0. OwnInv /\ OwnInv' /\ TypeInv
      BY DEF FullInv
    <2>1. CASE Stays
      <3>1. \A f \in Frames : owner'[f] = owner[f]
        BY <2>0, <2>1, OwnerIs, OwnerIsNext DEF Stays
      <3> QED
        BY <3>1 DEF owner
    <2>2. ASSUME NEW a \in Places, NEW b \in Places, a # b,
                 b \in Lifecycle!Successors(a), Moved(Held, Held', a, b)
          PROVE  Lifecycle!Next
      <3> DEFINE x == Head(Held[a])
      <3>1. /\ x \in Frames /\ x \in RangeOf(Held[a])
            /\ RangeOf(Held[a]) = RangeOf(Held'[a]) \cup {x}
        BY <2>0, <2>2, HeldType, TailFacts DEF Moved, TypeInv
      <3>2. RangeOf(Held'[b]) = RangeOf(Held[b]) \cup {x}
        BY <2>0, <2>2, <3>1, HeldType, AppendFacts DEF Moved, TypeInv
      <3>3. owner[x] = a /\ owner'[x] = b
        BY <2>0, <3>1, <3>2, OwnerIs, OwnerIsNext
      <3>4. ASSUME NEW f \in Frames, f # x PROVE owner'[f] = owner[f]
        <4>1. \A p \in Places : f \in RangeOf(Held'[p]) <=> f \in RangeOf(Held[p])
          <5>1. \A p \in Places : p # a /\ p # b => Held'[p] = Held[p]
            BY <2>2 DEF Moved
          <5> HIDE DEF x
          <5> QED
            BY <3>1, <3>2, <3>4, <5>1
        <4> QED
          BY <2>0, <4>1, OwnerIs, OwnerIsNext
      <3>5. owner' = [owner EXCEPT ![x] = b]
        <4>1. owner = [f \in Frames |-> owner[f]] /\ owner' = [f \in Frames |-> owner'[f]]
          BY DEF owner
        <4> HIDE DEF x
        <4> QED
          BY <3>1, <3>3, <3>4, <4>1
      <3> QED
        BY <2>2, <3>1, <3>3, <3>5 DEF Lifecycle!Next, Lifecycle!HandOver
    <2> QED
      BY <2>0, <2>1, <2>2, StepMoves DEF HandsOver
  <1> QED
    BY <1>1, <1>2, InvariantHolds, PTL DEF Spec, LifecycleSpec, Lifecycle!Spec

-----------------------------------------------------------------------------
(* What the frames contain, and how full the queues are.                   *)

ContentInv == \A p \in Places : \A f \in RangeOf(Held[p]) : Fits(p, content[f])

WireInv == \A i \in DOMAIN wire : /\ wire[i] # NoPacket /\ wire[i].encap = 1
                                 /\ wire[i].pkt.flow \in Forwardable

LEMMA InitContent == Init => ContentInv /\ WireInv /\ QueuesBounded
  <1> SUFFICES ASSUME Init PROVE ContentInv /\ WireInv /\ QueuesBounded
    OBVIOUS
  <1>1. RangeOf(<<>>) = {}
    BY DEF RangeOf
  <1>2. ContentInv
    BY <1>1, InitHeld DEF ContentInv, Fits
  <1>3. WireInv
    BY DEF Init, WireInv
  <1>4. QueuesBounded
    BY SizesAssumption DEF Init, QueuesBounded
  <1> QED
    BY <1>2, <1>3, <1>4

\* A frame that moves is written to by its owner alone.
LEMMA NextContent ==
    ASSUME TypeInv, OwnInv, ContentInv, [Next]_vars
    PROVE  ContentInv'
  <1>1. CASE Stays
    BY <1>1 DEF Stays, ContentInv
  <1>2. ASSUME NEW a \in Places, NEW b \in Places, a # b, Moved(Held, Held', a, b), Carried(a, b)
        PROVE  ContentInv'
    <2> DEFINE x == Head(Held[a])
    <2>1. /\ x \in Frames /\ x \in RangeOf(Held[a])
          /\ RangeOf(Held[a]) = RangeOf(Held'[a]) \cup {x} /\ x \notin RangeOf(Held'[a])
      BY <1>2, HeldType, TailFacts DEF Moved, TypeInv, OwnInv, Exclusive
    <2>2. RangeOf(Held'[b]) = RangeOf(Held[b]) \cup {x}
      BY <1>2, <2>1, HeldType, AppendFacts DEF Moved, TypeInv
    <2>3. \A p \in Places : p # a => x \notin RangeOf(Held[p])
      BY <2>1 DEF OwnInv, Exclusive
    <2>4. \A p \in Places : p # a /\ p # b => Held'[p] = Held[p]
      BY <1>2 DEF Moved
    <2>5. \A p \in Places : RangeOf(Held[p]) \subseteq Frames
      BY HeldType DEF TypeInv, RangeOf
    <2>6. /\ \A f \in Frames : f # x => content'[f] = content[f]
          /\ Fits(a, content[x]) => Fits(b, content'[x])
      BY <1>2 DEF Carried
    <2> HIDE DEF x
    <2>7. ASSUME NEW p \in Places, NEW f \in RangeOf(Held'[p])
          PROVE  Fits(p, content'[f])
      <3>1. CASE f = x
        <4>1. p = b
          BY <2>1, <2>3, <2>4, <2>7, <3>1
        <4>2. Fits(a, content[x])
          BY <2>1 DEF ContentInv
        <4> QED
          BY <2>6, <3>1, <4>1, <4>2
      <3>2. CASE f # x
        <4>1. f \in RangeOf(Held[p])
          BY <2>1, <2>2, <2>4, <2>7, <3>2
        <4>2. f \in Frames /\ Fits(p, content[f])
          BY <2>5, <4>1 DEF ContentInv
        <4> QED
          BY <2>6, <3>2, <4>2
      <3> QED
        BY <3>1, <3>2
    <2> QED
      BY <2>7 DEF ContentInv, Fits
  <1> QED
    BY <1>1, <1>2, StepMoves DEF HandsOver

LEMMA NextWire ==
    ASSUME TypeInv, ContentInv, WireInv, [Next]_vars
    PROVE  WireInv'
  <1>1. CASE MuxSend
    <2>1. PICK n \in 0 .. Len(muxBatch) : wire' = [i \in 1 .. n |-> content[muxBatch[i]]]
      BY <1>1 DEF MuxSend
    <2>2. ASSUME NEW i \in 1 .. n
          PROVE  /\ content[muxBatch[i]] # NoPacket /\ content[muxBatch[i]].encap = 1
                 /\ content[muxBatch[i]].pkt.flow \in Forwardable
      <3>1. i \in DOMAIN muxBatch
        BY <2>1 DEF TypeInv, TypeOK
      <3>2. muxBatch[i] \in RangeOf(Held[<<"mux", 0>>])
        BY <3>1, HeldFacts DEF RangeOf
      <3> QED
        BY <3>2, PlaceFacts DEF ContentInv, Fits
    <2> QED
      BY <2>1, <2>2 DEF WireInv
  <1>2. CASE MuxFree
    BY <1>2 DEF MuxFree, WireInv
  <1>3. CASE UNCHANGED wire
    BY <1>3 DEF WireInv
  <1>4. ASSUME NEW q \in Queues, Rewriter(q)
        PROVE  UNCHANGED wire
    BY <1>4 DEF Rewriter, RewCheck, RewPop, RewDrained, RewForward, RewDrop
  <1>5. Steering => UNCHANGED wire
    BY DEF Steering, SteerRecv, SteerRecvBatch, SteerAlloc, SteerExhausted, SteerPush, SteerExit
  <1>6. Muxer => MuxSend \/ MuxFree \/ UNCHANGED wire
    BY DEF Muxer, MuxCheck, MuxPop, MuxNextQueue, MuxDrained
  <1> QED
    BY <1>1, <1>2, <1>3, <1>4, <1>5, <1>6 DEF Next, Shutdown, Terminated, vars

LEMMA NextBounds ==
    ASSUME TypeInv, QueuesBounded, [Next]_vars
    PROVE  QueuesBounded'
  <1>0. /\ rx \in [Queues -> Seq(Frames)] /\ tx \in [Queues -> Seq(Frames)]
        /\ batch \in [Queues -> Seq(Frames)] /\ muxBatch \in Seq(Frames)
    BY DEF TypeInv, TypeOK
  <1>1. CASE UNCHANGED <<rx, tx, batch, muxBatch>>
    BY <1>1 DEF QueuesBounded
  <1>2. CASE SteerPush
    <2> DEFINE q == assign_queue(Head(steerBuf).flow)
    <2>1. UNCHANGED <<tx, batch, muxBatch>>
      BY <1>2 DEF SteerPush, rewVars, muxVars
    <2>2. \/ UNCHANGED rx
          \/ ~Full(rx[q]) /\ rx' = [rx EXCEPT ![q] = Append(@, steerFrame)]
      BY <1>2 DEF SteerPush
    <2>3. ASSUME ~Full(rx[q]), rx' = [rx EXCEPT ![q] = Append(@, steerFrame)], NEW p \in Queues
          PROVE  Len(rx'[p]) <= QueueCapacity
      <3>1. CASE p = q
        <4>1. Len(rx'[p]) = Len(rx[p]) + 1 /\ Len(rx[p]) \in Nat
          BY <1>0, <2>3, <3>1
        <4> QED
          BY <2>3, <3>1, <4>1, SizesAssumption DEF Full
      <3>2. CASE p # q
        BY <1>0, <2>3, <3>2 DEF QueuesBounded
      <3> QED
        BY <3>1, <3>2
    <2> QED
      BY <2>1, <2>2, <2>3 DEF QueuesBounded
  <1>3. ASSUME NEW q \in Queues, Rewriter(q)
        PROVE  QueuesBounded'
    <2>1. CASE RewCheck(q) \/ RewDrained(q)
      BY <1>1, <2>1 DEF RewCheck, RewDrained, steerVars, muxVars
    <2>2. CASE RewPop(q)
      <3>1. /\ rx[q] # <<>> /\ Len(batch[q]) < BatchDrainSize
            /\ batch' = [batch EXCEPT ![q] = Append(batch[q], Head(rx[q]))]
            /\ rx' = [rx EXCEPT ![q] = Tail(rx[q])] /\ UNCHANGED <<tx, muxBatch>>
        BY <2>2 DEF RewPop, muxVars
      <3>2. /\ Len(Append(batch[q], Head(rx[q]))) <= BatchDrainSize
            /\ Len(Tail(rx[q])) <= QueueCapacity
        <4>1. /\ Len(Append(batch[q], Head(rx[q]))) = Len(batch[q]) + 1 /\ Len(batch[q]) \in Nat
              /\ Len(Tail(rx[q])) = Len(rx[q]) - 1 /\ Len(rx[q]) \in Nat /\ Len(rx[q]) <= QueueCapacity
          BY <1>0, <3>1 DEF QueuesBounded
        <4> QED
          BY <3>1, <4>1, SizesAssumption
      <3> QED
        BY <1>0, <3>1, <3>2 DEF QueuesBounded
    <2>3. CASE RewForward(q) \/ RewDrop(q)
      <3>1. /\ batch' = [batch EXCEPT ![q] = Tail(batch[q])] /\ UNCHANGED <<rx, muxBatch>>
            /\ \/ UNCHANGED tx
               \/ ~Full(tx[q]) /\ tx' = [tx EXCEPT ![q] = Append(tx[q], Head(batch[q]))]
            /\ batch[q] # <<>>
        BY <2>3 DEF RewForward, RewDrop, RewAdvance, muxVars, TypeInv, ControlOK
      <3>2. Len(Tail(batch[q])) <= BatchDrainSize
        <4>1. Len(Tail(batch[q])) = Len(batch[q]) - 1 /\ Len(batch[q]) \in Nat /\ Len(batch[q]) <= BatchDrainSize
          BY <1>0, <3>1 DEF QueuesBounded
        <4> QED
          BY <4>1, SizesAssumption
      <3>3. ~Full(tx[q]) => Len(Append(tx[q], Head(batch[q]))) <= QueueCapacity
        <4>1. Len(Append(tx[q], Head(batch[q]))) = Len(tx[q]) + 1 /\ Len(tx[q]) \in Nat
          BY <1>0
        <4> QED
          BY <4>1, SizesAssumption DEF Full
      <3> QED
        BY <1>0, <3>1, <3>2, <3>3 DEF QueuesBounded
    <2> QED
      BY <1>3, <2>1, <2>2, <2>3 DEF Rewriter
  <1>4. CASE MuxPop
    <2>1. muxQ \in Queues
      BY <1>4, SizesAssumption DEF MuxPop, TypeInv, TypeOK, Queues
    <2>2. /\ tx[muxQ] # <<>> /\ Len(muxBatch) < BatchSize
          /\ muxBatch' = Append(muxBatch, Head(tx[muxQ]))
          /\ tx' = [tx EXCEPT ![muxQ] = Tail(tx[muxQ])] /\ UNCHANGED <<rx, batch>>
      BY <1>4 DEF MuxPop, rewVars
    <2>3. /\ Len(Append(muxBatch, Head(tx[muxQ]))) <= BatchSize
          /\ Len(Tail(tx[muxQ])) <= QueueCapacity
      <3>1. /\ Len(Append(muxBatch, Head(tx[muxQ]))) = Len(muxBatch) + 1 /\ Len(muxBatch) \in Nat
            /\ Len(Tail(tx[muxQ])) = Len(tx[muxQ]) - 1 /\ Len(tx[muxQ]) \in Nat
            /\ Len(tx[muxQ]) <= QueueCapacity
        BY <1>0, <2>1, <2>2 DEF QueuesBounded
      <3> QED
        BY <2>2, <3>1, SizesAssumption
    <2> QED
      BY <1>0, <2>1, <2>2, <2>3 DEF QueuesBounded
  <1>5. CASE MuxFree
    <2>1. muxBatch # <<>> /\ muxBatch' = Tail(muxBatch) /\ UNCHANGED <<rx, tx, batch>>
      BY <1>5 DEF MuxFree, TypeInv, ControlOK, rewVars
    <2>2. Len(Tail(muxBatch)) <= BatchSize
      <3>1. Len(Tail(muxBatch)) = Len(muxBatch) - 1 /\ Len(muxBatch) \in Nat /\ Len(muxBatch) <= BatchSize
        BY <1>0, <2>1 DEF QueuesBounded
      <3> QED
        BY <3>1, SizesAssumption
    <2> QED
      BY <2>1, <2>2 DEF QueuesBounded
  <1>6. Steering => SteerPush \/ UNCHANGED <<rx, tx, batch, muxBatch>>
    BY DEF Steering, SteerRecv, SteerRecvBatch, SteerAlloc, SteerExhausted, SteerExit, rewVars, muxVars
  <1>7. Muxer => MuxPop \/ MuxFree \/ UNCHANGED <<rx, tx, batch, muxBatch>>
    BY DEF Muxer, MuxCheck, MuxNextQueue, MuxDrained, MuxSend, rewVars
  <1> QED
    BY <1>1, <1>2, <1>3, <1>4, <1>5, <1>6, <1>7
    DEF Next, Shutdown, Terminated, vars, rewVars, muxVars

\* EncapsulatedOnce: for every number of rewriters, capacity and batch size,
\* send_batch is given live frames with one GRE header each, and no queue,
\* drain or batch exceeds its buffer.
THEOREM EncapsulatedOnceHolds == Spec => []EncapsulatedOnce
  <1> DEFINE Inv == FullInv /\ ContentInv /\ WireInv /\ QueuesBounded
  <1>1. Init => Inv
    BY InitTypeInv, InitOwnInv, InitContent DEF FullInv
  <1>2. Inv /\ [Next]_vars => Inv'
    BY NextTypeInv, NextOwnInv, NextContent, NextWire, NextBounds DEF FullInv
  <1>3. Inv => EncapsulatedOnce
    BY DEF WireInv, EncapsulatedOnce
  <1> QED
    BY <1>1, <1>2, <1>3, PTL DEF Spec

-----------------------------------------------------------------------------
(* The order of a flow's packets.  Between the batch that steering received *)
(* and the wire the packets stand in lines: the rest of the batch, the      *)
(* queues and batches of each rewriter, the muxer's batch until it is sent, *)
(* and the log.                                                             *)

LinePlaces == ({"tx", "batch", "rx"} \X Queues) \cup ({"log", "mux", "buf"} \X {0})

\* How far a place is from the wire.
Rank(p) == CASE p[1] = "log" -> 0 [] p[1] = "mux" -> 1 [] p[1] = "tx" -> 2
             [] p[1] = "batch" -> 3 [] p[1] = "rx" -> 4 [] p[1] = "buf" -> 5

\* Position i of place p is nearer to the wire than position j of place r.
Ahead(p, i, r, j) == Rank(p) < Rank(r) \/ (p = r /\ i < j)

Before(x, y) == x.flow = y.flow => x.label < y.label

Sorted(L) ==
    \A p, r \in LinePlaces : \A i \in DOMAIN L[p], j \in DOMAIN L[r] :
        Ahead(p, i, r, j) => Before(L[p][i], L[r][j])

\* A flow is handled by one rewriter.
Routed(L) ==
    \A p \in LinePlaces : \A i \in DOMAIN L[p] :
        p[1] \in {"tx", "batch", "rx"} => assign_queue(L[p][i].flow) = p[2]

\* No packet is numbered beyond the packets of its flow that arrived.
Counted(L, a) ==
    \A p \in LinePlaces : \A i \in DOMAIN L[p] :
        L[p][i].label \in Nat /\ L[p][i].label <= a[L[p][i].flow]

LEMMA RankFacts ==
    /\ \A p \in LinePlaces : Rank(p) \in 0 .. 5
    /\ \A p, r \in LinePlaces : Rank(p) = Rank(r) /\ p # r =>
          p[1] \in {"tx", "batch", "rx"} /\ p[1] = r[1] /\ p[2] # r[2]
    /\ <<"log", 0>> \in LinePlaces /\ Rank(<<"log", 0>>) = 0
    /\ <<"mux", 0>> \in LinePlaces /\ Rank(<<"mux", 0>>) = 1
    /\ <<"buf", 0>> \in LinePlaces /\ Rank(<<"buf", 0>>) = 5
    /\ \A q \in Queues : /\ <<"tx", q>> \in LinePlaces /\ Rank(<<"tx", q>>) = 2
                         /\ <<"batch", q>> \in LinePlaces /\ Rank(<<"batch", q>>) = 3
                         /\ <<"rx", q>> \in LinePlaces /\ Rank(<<"rx", q>>) = 4
  <1>1. \A p \in LinePlaces : /\ p = <<p[1], p[2]>>
                              /\ \/ p[1] \in {"tx", "batch", "rx"} /\ p[2] \in Queues
                                 \/ p[1] \in {"log", "mux", "buf"} /\ p[2] = 0
    BY DEF LinePlaces
  <1>2. ASSUME NEW p \in LinePlaces, NEW r \in LinePlaces, Rank(p) = Rank(r), p # r
        PROVE  p[1] \in {"tx", "batch", "rx"} /\ p[1] = r[1] /\ p[2] # r[2]
    <2>1. p[1] = r[1]
      BY <1>1, <1>2 DEF Rank
    <2>2. p[2] # r[2]
      BY <1>1, <1>2, <2>1, Zenon
    <2> QED
      BY <1>1, <2>1, <2>2
  <1>3. \A p \in LinePlaces : Rank(p) \in 0 .. 5
    BY <1>1 DEF Rank
  <1> QED
    BY <1>2, <1>3 DEF Rank, LinePlaces

\* M is L with the first packet at a moved to the end of b, one place nearer
\* to the wire; or lost; or with some of the muxer's batch in the log; or
\* with a received batch.
Advances(L, M, a, b) ==
    /\ L[a] # <<>> /\ Rank(a) = Rank(b) + 1
    /\ M[a] = Tail(L[a]) /\ M[b] = Append(L[b], Head(L[a]))
    /\ \A p \in LinePlaces : p # a /\ p # b => M[p] = L[p]
    /\ b[1] \in {"tx", "batch", "rx"} =>
          \/ a[1] \in {"tx", "batch", "rx"} /\ a[2] = b[2]
          \/ assign_queue(Head(L[a]).flow) = b[2]

Sheds(L, M, a) ==
    /\ L[a] # <<>> /\ M[a] = Tail(L[a])
    /\ \A p \in LinePlaces : p # a => M[p] = L[p]

Sends(L, M) ==
    /\ M[<<"mux", 0>>] = <<>>
    /\ \A p \in LinePlaces : p[1] \notin {"log", "mux"} => M[p] = L[p]
    /\ \E n \in 0 .. Len(L[<<"mux", 0>>]) :
          /\ DOMAIN M[<<"log", 0>>] = 1 .. (Len(L[<<"log", 0>>]) + n)
          /\ \A i \in 1 .. Len(L[<<"log", 0>>]) : M[<<"log", 0>>][i] = L[<<"log", 0>>][i]
          /\ \A i \in 1 .. n : M[<<"log", 0>>][Len(L[<<"log", 0>>]) + i] = L[<<"mux", 0>>][i]

Receives(L, M, b) ==
    /\ M[<<"buf", 0>>] = b
    /\ \A p \in LinePlaces : p # <<"buf", 0>> => M[p] = L[p]

AllLines == [LinePlaces -> Seq(Packet)]

LEMMA AdvanceKeepsOrder ==
    ASSUME NEW L \in AllLines, NEW M, NEW a \in LinePlaces, NEW b \in LinePlaces,
           NEW c, Sorted(L), Routed(L), Counted(L, c), Advances(L, M, a, b)
    PROVE  Sorted(M) /\ Routed(M) /\ Counted(M, c)
  <1>0. /\ L[a] # <<>> /\ Rank(a) = Rank(b) + 1
        /\ M[a] = Tail(L[a]) /\ M[b] = Append(L[b], Head(L[a]))
        /\ \A p \in LinePlaces : p # a /\ p # b => M[p] = L[p]
        /\ b[1] \in {"tx", "batch", "rx"} => assign_queue(Head(L[a]).flow) = b[2]
    <2>1. /\ L[a] \in Seq(Packet) /\ L[a] # <<>>
          /\ b[1] \in {"tx", "batch", "rx"} =>
                \/ a[1] \in {"tx", "batch", "rx"} /\ a[2] = b[2]
                \/ assign_queue(Head(L[a]).flow) = b[2]
      BY DEF Advances, AllLines
    <2>2. 1 \in DOMAIN L[a] /\ Head(L[a]) = L[a][1]
      BY <2>1
    <2>3. a[1] \in {"tx", "batch", "rx"} => assign_queue(Head(L[a]).flow) = a[2]
      BY <2>2 DEF Routed
    <2> QED
      BY <2>1, <2>3 DEF Advances
  <1>1. /\ \A p \in LinePlaces : Rank(p) \in 0 .. 5
        /\ \A p, r \in LinePlaces : Rank(p) = Rank(r) /\ p # r =>
              p[1] \in {"tx", "batch", "rx"} /\ p[1] = r[1] /\ p[2] # r[2]
    BY RankFacts
  <1>2. a # b
    BY <1>0, <1>1
  <1>3. L[a] \in Seq(Packet) /\ L[b] \in Seq(Packet)
    BY DEF AllLines
  <1>4. /\ 1 \in DOMAIN L[a] /\ Head(L[a]) = L[a][1]
        /\ \A i \in DOMAIN Tail(L[a]) : i \in Nat /\ i + 1 \in DOMAIN L[a] /\ Tail(L[a])[i] = L[a][i + 1] /\ 1 < i + 1
    BY <1>0, <1>3
  <1>5. \A i \in DOMAIN Append(L[b], Head(L[a])) :
           \/ i \in DOMAIN L[b] /\ Append(L[b], Head(L[a]))[i] = L[b][i]
           \/ i = Len(L[b]) + 1 /\ Append(L[b], Head(L[a]))[i] = Head(L[a])
    BY <1>3, <1>4
  <1>6. \A i \in DOMAIN L[b] : i \in Nat /\ i < Len(L[b]) + 1
    BY <1>3
  \* Where each packet was before.
  <1> DEFINE Shifted(p, i) == p = a /\ i + 1 \in DOMAIN L[a] /\ M[p][i] = L[a][i + 1] /\ i \in Nat
             Moved1(p, i)  == p = b /\ i = Len(L[b]) + 1 /\ M[p][i] = L[a][1]
             Kept(p, i)    == p # a /\ i \in DOMAIN L[p] /\ M[p][i] = L[p][i]
  <1>7. ASSUME NEW p \in LinePlaces, NEW i \in DOMAIN M[p]
        PROVE  Shifted(p, i) \/ Moved1(p, i) \/ Kept(p, i)
    <2>1. CASE p = a
      BY <1>0, <1>4, <2>1
    <2>2. CASE p = b
      BY <1>0, <1>2, <1>4, <1>5, <2>2
    <2>3. CASE p # a /\ p # b
      BY <1>0, <2>3
    <2> QED
      BY <2>1, <2>2, <2>3
  <1>8. \A p, r \in LinePlaces : \A i \in DOMAIN L[p], j \in DOMAIN L[r] :
           Ahead(p, i, r, j) => Before(L[p][i], L[r][j])
    BY DEF Sorted
  <1>9. ASSUME NEW p \in LinePlaces, NEW r \in LinePlaces, NEW i \in DOMAIN M[p],
               NEW j \in DOMAIN M[r], Ahead(p, i, r, j)
        PROVE  Before(M[p][i], M[r][j])
    <2>0. Rank(p) < Rank(r) \/ (p = r /\ i < j)
      BY <1>9 DEF Ahead
    <2>1. CASE Shifted(p, i) /\ Shifted(r, j)
      <3>1. i < j
        BY <1>1, <2>0, <2>1
      <3>2. i + 1 < j + 1
        BY <2>1, <3>1
      <3> QED
        BY <1>8, <2>1, <3>2 DEF Ahead
    <2>2. CASE Shifted(p, i) /\ Moved1(r, j)
      BY <1>0, <1>1, <1>2, <2>0, <2>2
    <2>3. CASE Shifted(p, i) /\ Kept(r, j)
      BY <1>8, <2>0, <2>3 DEF Ahead
    <2>4. CASE Moved1(p, i) /\ Shifted(r, j)
      <3>1. j \in DOMAIN Tail(L[a])
        BY <1>0, <2>4
      <3>2. Ahead(a, 1, a, j + 1)
        BY <1>4, <3>1 DEF Ahead
      <3> QED
        BY <1>4, <1>8, <2>4, <3>2
    <2>5. CASE Moved1(p, i) /\ Moved1(r, j)
      <3>1. Len(L[b]) \in Nat
        BY <1>3
      <3> QED
        BY <1>1, <2>0, <2>5, <3>1
    <2>6. CASE Moved1(p, i) /\ Kept(r, j)
      <3>1. Rank(b) < Rank(r)
        BY <1>1, <1>6, <2>0, <2>6, <1>3
      <3>2. CASE Rank(a) < Rank(r)
        BY <1>4, <1>8, <2>6, <3>2 DEF Ahead
      <3>3. CASE Rank(a) = Rank(r)
        <4>1. a[1] \in {"tx", "batch", "rx"} /\ a[1] = r[1] /\ a[2] # r[2]
          BY <1>1, <2>6, <3>3
        <4>2. assign_queue(L[a][1].flow) = a[2] /\ assign_queue(L[r][j].flow) = r[2]
          BY <1>4, <2>6, <4>1 DEF Routed
        <4>3. L[a][1].flow # L[r][j].flow
          BY <4>1, <4>2
        <4> QED
          BY <2>6, <4>3 DEF Before
      <3> QED
        BY <1>0, <1>1, <3>1, <3>2, <3>3
    <2>7. CASE Kept(p, i) /\ Shifted(r, j)
      BY <1>8, <2>0, <2>7 DEF Ahead
    <2>8. CASE Kept(p, i) /\ Moved1(r, j)
      <3>1. Rank(p) < Rank(a)
        BY <1>0, <1>1, <2>0, <2>8
      <3> QED
        BY <1>4, <1>8, <2>8, <3>1 DEF Ahead
    <2>9. CASE Kept(p, i) /\ Kept(r, j)
      BY <1>8, <1>9, <2>9
    <2> QED
      BY <1>7, <2>1, <2>2, <2>3, <2>4, <2>5, <2>6, <2>7, <2>8, <2>9
  <1>10. ASSUME NEW p \in LinePlaces, NEW i \in DOMAIN M[p]
         PROVE  /\ p[1] \in {"tx", "batch", "rx"} => assign_queue(M[p][i].flow) = p[2]
                /\ M[p][i].label \in Nat /\ M[p][i].label <= c[M[p][i].flow]
    BY <1>0, <1>4, <1>7 DEF Routed, Counted
  <1> QED
    BY <1>9, <1>10 DEF Sorted, Routed, Counted

LEMMA ShedKeepsOrder ==
    ASSUME NEW L \in AllLines, NEW M, NEW a \in LinePlaces, NEW c,
           Sorted(L), Routed(L), Counted(L, c), Sheds(L, M, a)
    PROVE  Sorted(M) /\ Routed(M) /\ Counted(M, c)
  <1>1. \A i \in DOMAIN Tail(L[a]) : i \in Nat /\ i + 1 \in DOMAIN L[a] /\ Tail(L[a])[i] = L[a][i + 1]
    BY DEF AllLines, Sheds
  <1>2. /\ \A i \in DOMAIN M[a] : i \in Nat /\ i + 1 \in DOMAIN L[a] /\ M[a][i] = L[a][i + 1]
        /\ \A p \in LinePlaces : p # a => M[p] = L[p]
    BY <1>1 DEF Sheds
  <1>3. ASSUME NEW p \in LinePlaces, NEW r \in LinePlaces, NEW i \in DOMAIN M[p],
               NEW j \in DOMAIN M[r], Ahead(p, i, r, j)
        PROVE  Before(M[p][i], M[r][j])
    <2>1. \A k, m \in Nat : k < m => k + 1 < m + 1
      OBVIOUS
    <2>2. CASE p = a /\ r = a
      <3>1. Rank(a) \in 0 .. 5
        BY RankFacts
      <3>2. i < j
        BY <1>3, <2>2, <3>1 DEF Ahead
      <3>3. Ahead(a, i + 1, a, j + 1)
        BY <1>2, <2>1, <2>2, <3>2 DEF Ahead
      <3> QED
        BY <1>2, <2>2, <3>3 DEF Sorted
    <2>3. CASE p = a /\ r # a
      BY <1>2, <1>3, <2>3 DEF Sorted, Ahead
    <2>4. CASE p # a /\ r = a
      BY <1>2, <1>3, <2>4 DEF Sorted, Ahead
    <2>5. CASE p # a /\ r # a
      BY <1>2, <1>3, <2>5 DEF Sorted
    <2> QED
      BY <2>2, <2>3, <2>4, <2>5
  <1>4. ASSUME NEW p \in LinePlaces, NEW i \in DOMAIN M[p]
        PROVE  \E k \in DOMAIN L[p] : M[p][i] = L[p][k]
    BY <1>2
  <1> QED
    BY <1>3, <1>4 DEF Sorted, Routed, Counted

\* What a batch goes out with, the muxer's batch no longer holds: the rest of
\* it is not sent again.
LEMMA SendKeepsOrder ==
    ASSUME NEW L \in AllLines, NEW M, NEW c,
           Sorted(L), Routed(L), Counted(L, c), Sends(L, M)
    PROVE  Sorted(M) /\ Routed(M) /\ Counted(M, c)
  <1> DEFINE out == <<"log", 0>>
             mux == <<"mux", 0>>
             n == Len(L[out])
  <1>1. /\ out \in LinePlaces /\ mux \in LinePlaces /\ Rank(out) = 0 /\ Rank(mux) = 1
        /\ \A p \in LinePlaces : Rank(p) \in 0 .. 5
        /\ \A p \in LinePlaces : Rank(p) = 0 => p = out
        /\ \A p \in LinePlaces : Rank(p) = 1 => p = mux
    BY RankFacts DEF LinePlaces
  <1>2. PICK k \in 0 .. Len(L[mux]) :
          /\ DOMAIN M[out] = 1 .. (n + k)
          /\ \A i \in 1 .. n : M[out][i] = L[out][i]
          /\ \A i \in 1 .. k : M[out][n + i] = L[mux][i]
    BY DEF Sends
  <1>3. /\ M[mux] = <<>>
        /\ \A p \in LinePlaces : p # out /\ p # mux => M[p] = L[p]
    BY DEF Sends, LinePlaces
  <1>4. L[out] \in Seq(Packet) /\ L[mux] \in Seq(Packet)
    BY <1>1 DEF AllLines
  <1>5. n \in Nat /\ DOMAIN L[out] = 1 .. n /\ DOMAIN L[mux] = 1 .. Len(L[mux]) /\ Len(L[mux]) \in Nat
    BY <1>4
  <1> HIDE DEF out, mux, n
  <1> DEFINE Logged(p, i) == p = out /\ i \in 1 .. n /\ i \in DOMAIN L[p] /\ M[p][i] = L[p][i]
             Sent(p, i)   == p = out /\ i - n \in DOMAIN L[mux] /\ i \in Nat /\ M[p][i] = L[mux][i - n]
             Kept(p, i)   == p # out /\ p # mux /\ i \in DOMAIN L[p] /\ M[p][i] = L[p][i]
  <1>6. ASSUME NEW p \in LinePlaces, NEW i \in DOMAIN M[p]
        PROVE  Logged(p, i) \/ Sent(p, i) \/ Kept(p, i)
    <2>1. CASE p = out /\ i \in 1 .. n
      BY <1>2, <1>5, <2>1
    <2>2. CASE p = out /\ i \notin 1 .. n
      <3>1. i \in Nat /\ i - n \in 1 .. k /\ n + (i - n) = i
        BY <1>2, <1>5, <1>6, <2>2
      <3>2. M[out][n + (i - n)] = L[mux][i - n]
        BY <1>2, <3>1
      <3>3. i - n \in DOMAIN L[mux]
        BY <1>2, <1>5, <3>1
      <3> QED
        BY <2>2, <3>1, <3>2, <3>3
    <2>3. CASE p = mux
      BY <1>3, <1>6, <2>3
    <2>4. CASE p # out /\ p # mux
      BY <1>3, <1>6, <2>4
    <2> QED
      BY <2>1, <2>2, <2>3, <2>4
  <1>7. \A p, r \in LinePlaces : \A i \in DOMAIN L[p], j \in DOMAIN L[r] :
           Ahead(p, i, r, j) => Before(L[p][i], L[r][j])
    BY DEF Sorted
  <1>8. ASSUME NEW p \in LinePlaces, NEW r \in LinePlaces, NEW i \in DOMAIN M[p],
               NEW j \in DOMAIN M[r], Ahead(p, i, r, j)
        PROVE  Before(M[p][i], M[r][j])
    <2>0. Rank(p) < Rank(r) \/ (p = r /\ i < j)
      BY <1>8 DEF Ahead
    <2>1. CASE (Logged(p, i) \/ Kept(p, i)) /\ (Logged(r, j) \/ Kept(r, j))
      BY <1>7, <1>8, <2>1
    <2>2. CASE Logged(p, i) /\ Sent(r, j)
      <3>1. Ahead(out, i, mux, j - n)
        BY <1>1 DEF Ahead
      <3> QED
        BY <1>1, <1>7, <2>2, <3>1
    <2>3. CASE Sent(p, i) /\ Logged(r, j)
      <3>1. i < j
        BY <1>1, <2>0, <2>3
      <3> QED
        BY <1>5, <2>3, <3>1
    <2>4. CASE Sent(p, i) /\ Sent(r, j)
      <3>1. i < j
        BY <1>1, <2>0, <2>4
      <3>2. i - n < j - n
        BY <1>5, <2>4, <3>1
      <3>3. Ahead(mux, i - n, mux, j - n)
        BY <3>2 DEF Ahead
      <3> QED
        BY <1>1, <1>7, <2>4, <3>3
    <2>5. CASE Sent(p, i) /\ Kept(r, j)
      <3>1. Rank(mux) < Rank(r)
        BY <1>1, <2>5
      <3>2. Ahead(mux, i - n, r, j)
        BY <3>1 DEF Ahead
      <3> QED
        BY <1>1, <1>7, <2>5, <3>2
    <2>6. CASE Kept(p, i) /\ Sent(r, j)
      BY <1>1, <2>0, <2>6
    <2> QED
      BY <1>6, <2>1, <2>2, <2>3, <2>4, <2>5, <2>6
  <1>9. ASSUME NEW p \in LinePlaces, NEW i \in DOMAIN M[p]
        PROVE  /\ p[1] \in {"tx", "batch", "rx"} => assign_queue(M[p][i].flow) = p[2]
               /\ M[p][i].label \in Nat /\ M[p][i].label <= c[M[p][i].flow]
    <2>1. p[1] \in {"tx", "batch", "rx"} => p # out
      BY DEF out
    <2> QED
      BY <1>1, <1>6, <2>1 DEF Routed, Counted
  <1> QED
    BY <1>8, <1>9 DEF Sorted, Routed, Counted

LEMMA ReceiveKeepsOrder ==
    ASSUME NEW L \in AllLines, NEW M, NEW c \in [Flows -> Nat], NEW d \in [Flows -> Nat],
           NEW b \in Seq(Packet), Receives(L, M, b), L[<<"buf", 0>>] = <<>>,
           Sorted(L), Routed(L), Counted(L, c),
           \A fl \in Flows : c[fl] <= d[fl],
           \A i \in DOMAIN b : /\ b[i].label \in Nat
                               /\ c[b[i].flow] < b[i].label /\ b[i].label <= d[b[i].flow],
           \A i, j \in DOMAIN b : i < j => Before(b[i], b[j])
    PROVE  Sorted(M) /\ Routed(M) /\ Counted(M, d)
  <1> DEFINE buf == <<"buf", 0>>
  <1>1. /\ buf \in LinePlaces /\ Rank(buf) = 5
        /\ \A p \in LinePlaces : Rank(p) \in 0 .. 5
    BY RankFacts
  <1>2. M[buf] = b /\ \A p \in LinePlaces : p # buf => M[p] = L[p]
    BY DEF Receives
  <1>0. \A x \in Packet : x.flow \in Flows
    BY DEF Packet
  <1>3. \A p \in LinePlaces : \A i \in DOMAIN L[p] : L[p][i].flow \in Flows
    BY <1>0 DEF AllLines
  <1>4. ASSUME NEW p \in LinePlaces, NEW r \in LinePlaces, NEW i \in DOMAIN M[p],
               NEW j \in DOMAIN M[r], Ahead(p, i, r, j)
        PROVE  Before(M[p][i], M[r][j])
    <2>1. CASE p # buf /\ r # buf
      BY <1>2, <1>4, <2>1 DEF Sorted
    <2>2. CASE p # buf /\ r = buf
      <3>1. L[p][i].label \in Nat /\ L[p][i].label <= c[L[p][i].flow] /\ L[p][i].flow \in Flows
        BY <1>2, <1>3, <2>2 DEF Counted
      <3>2. b[j].label \in Nat /\ c[b[j].flow] < b[j].label
        BY <1>2, <2>2
      <3>3. L[p][i].flow = b[j].flow => L[p][i].label < b[j].label
        BY <3>1, <3>2
      <3> QED
        BY <1>2, <2>2, <3>3 DEF Before
    <2>3. CASE p = buf
      <3>1. r = buf /\ i < j
        BY <1>1, <1>4, <2>3 DEF Ahead, Rank, LinePlaces
      <3> QED
        BY <1>2, <2>3, <3>1
    <2> QED
      BY <2>1, <2>2, <2>3
  <1>5. ASSUME NEW p \in LinePlaces, NEW i \in DOMAIN M[p]
        PROVE  /\ p[1] \in {"tx", "batch", "rx"} => assign_queue(M[p][i].flow) = p[2]
               /\ M[p][i].label \in Nat /\ M[p][i].label <= d[M[p][i].flow]
    <2>1. CASE p = buf
      BY <1>2, <2>1
    <2>2. CASE p # buf
      <3>1. L[p][i].label \in Nat /\ L[p][i].label <= c[L[p][i].flow] /\ L[p][i].flow \in Flows
        BY <1>2, <1>3, <2>2 DEF Counted
      <3>2. L[p][i].label <= d[L[p][i].flow]
        BY <3>1
      <3> QED
        BY <1>2, <2>2, <3>1, <3>2 DEF Routed
    <2> QED
      BY <2>1, <2>2
  <1> QED
    BY <1>4, <1>5 DEF Sorted, Routed, Counted

\* Numbering: CountFlow grows with every packet of its flow.
LEMMA CountFacts ==
    ASSUME NEW b, NEW fl, NEW n \in Nat, NEW m \in Nat, n <= m
    PROVE  /\ CountFlow(b, fl, n) \in Nat
           /\ CountFlow(b, fl, n) <= CountFlow(b, fl, m)
           /\ \A j \in (n + 1) .. m : b[j].flow = fl => CountFlow(b, fl, n) < CountFlow(b, fl, m)
  <1> DEFINE S(k) == {i \in 1 .. k : b[i].flow = fl}
  <1>1. ASSUME NEW k \in Nat PROVE IsFiniteSet(S(k)) /\ Cardinality(S(k)) \in Nat
    <2>1. IsFiniteSet(1 .. k) /\ S(k) \subseteq 1 .. k
      BY FS_Interval
    <2>2. IsFiniteSet(S(k))
      BY <2>1, FS_Subset
    <2> HIDE DEF S
    <2> QED
      BY <2>2, FS_CardinalityType
  <1>2. S(n) \subseteq S(m)
    OBVIOUS
  <1>3. CountFlow(b, fl, n) = Cardinality(S(n)) /\ CountFlow(b, fl, m) = Cardinality(S(m))
    BY DEF CountFlow
  <1>4. ASSUME NEW j \in (n + 1) .. m, b[j].flow = fl
        PROVE  Cardinality(S(n)) < Cardinality(S(m))
    <2>1. j \notin S(n) /\ S(n) \cup {j} \subseteq S(m)
      BY <1>4
    <2> HIDE DEF S
    <2>2. Cardinality(S(n) \cup {j}) = Cardinality(S(n)) + 1
      BY <1>1, <2>1, FS_AddElement
    <2>3. Cardinality(S(n) \cup {j}) <= Cardinality(S(m))
      BY <1>1, <2>1, FS_Subset
    <2> QED
      BY <1>1, <2>2, <2>3
  <1> HIDE DEF S
  <1>5. Cardinality(S(n)) <= Cardinality(S(m))
    BY <1>1, <1>2, FS_Subset
  <1> QED
    BY <1>1, <1>3, <1>4, <1>5

LEMMA NumberedFacts ==
    ASSUME arrived \in [Flows -> Nat], NEW b \in Seq(Packet), Numbered(b)
    PROVE  LET d == [fl \in Flows |-> arrived[fl] + CountFlow(b, fl, Len(b))] IN
           /\ d \in [Flows -> Nat]
           /\ \A fl \in Flows : arrived[fl] <= d[fl]
           /\ \A i \in DOMAIN b : /\ b[i].label \in Nat
                                  /\ arrived[b[i].flow] < b[i].label
                                  /\ b[i].label <= d[b[i].flow]
           /\ \A i, j \in DOMAIN b : i < j => Before(b[i], b[j])
  <1> DEFINE d == [fl \in Flows |-> arrived[fl] + CountFlow(b, fl, Len(b))]
  <1>0. \A x \in Packet : x.flow \in Flows
    BY DEF Packet
  <1>1. Len(b) \in Nat /\ DOMAIN b = 1 .. Len(b) /\ \A i \in DOMAIN b : b[i].flow \in Flows
    BY <1>0
  <1>2. \A fl : CountFlow(b, fl, Len(b)) \in Nat
    BY <1>1, CountFacts
  <1>3. d \in [Flows -> Nat] /\ \A fl \in Flows : arrived[fl] <= d[fl]
    BY <1>2
  <1>4. ASSUME NEW i \in DOMAIN b
        PROVE  /\ CountFlow(b, b[i].flow, i) \in Nat /\ 0 < CountFlow(b, b[i].flow, i)
               /\ CountFlow(b, b[i].flow, i) <= CountFlow(b, b[i].flow, Len(b))
    <2>1. i \in Nat /\ 0 <= i /\ i <= Len(b) /\ i \in (0 + 1) .. i
      BY <1>1
    <2>2. CountFlow(b, b[i].flow, 0) \in Nat /\ CountFlow(b, b[i].flow, 0) < CountFlow(b, b[i].flow, i)
      BY <2>1, CountFacts
    <2>3. CountFlow(b, b[i].flow, i) \in Nat /\ CountFlow(b, b[i].flow, i) <= CountFlow(b, b[i].flow, Len(b))
      BY <1>1, <2>1, CountFacts
    <2> QED
      BY <2>2, <2>3
  <1>5. \A i \in DOMAIN b : b[i].label = arrived[b[i].flow] + CountFlow(b, b[i].flow, i)
    BY DEF Numbered
  <1>6. ASSUME NEW i \in DOMAIN b
        PROVE  b[i].label \in Nat /\ arrived[b[i].flow] < b[i].label /\ b[i].label <= d[b[i].flow]
    <2>1. /\ arrived[b[i].flow] \in Nat
          /\ d[b[i].flow] = arrived[b[i].flow] + CountFlow(b, b[i].flow, Len(b))
      BY <1>1
    <2> HIDE DEF d
    <2> QED
      BY <1>2, <1>4, <1>5, <2>1
  <1>7. ASSUME NEW i \in DOMAIN b, NEW j \in DOMAIN b, i < j, b[i].flow = b[j].flow
        PROVE  b[i].label < b[j].label
    <2>1. i \in Nat /\ j \in Nat /\ i <= j /\ j \in (i + 1) .. j
      BY <1>1, <1>7
    <2>2. CountFlow(b, b[j].flow, i) < CountFlow(b, b[j].flow, j)
      BY <2>1, CountFacts
    <2>3. CountFlow(b, b[j].flow, i) \in Nat /\ CountFlow(b, b[j].flow, j) \in Nat /\ arrived[b[j].flow] \in Nat
      BY <1>1, <1>4, <1>7
    <2> QED
      BY <1>5, <1>7, <2>2, <2>3
  <1> QED
    BY <1>3, <1>6, <1>7 DEF Before

-----------------------------------------------------------------------------
(* The lines of a state.                                                   *)

\* The packets in the frames of s.
Pkts(s, c) == [i \in DOMAIN s |-> c[s[i]].pkt]

LogLine == [i \in DOMAIN log |-> log[i].pkt]

\* Once it has been sent the muxer's batch only waits to be freed.
MuxLine == IF muxPc = "free" THEN <<>> ELSE Pkts(muxBatch, content)

LineAt(p) ==
    CASE p[1] = "log"   -> LogLine
      [] p[1] = "mux"   -> MuxLine
      [] p[1] = "tx"    -> Pkts(tx[p[2]], content)
      [] p[1] = "batch" -> Pkts(batch[p[2]], content)
      [] p[1] = "rx"    -> Pkts(rx[p[2]], content)
      [] p[1] = "buf"   -> steerBuf

Lines == [p \in LinePlaces |-> LineAt(p)]

\* The frame that steering has filled holds the packet it is working on, and it
\* receives again only when the batch is done.
SteerInv ==
    /\ steerPc = "push" => content[steerFrame].pkt = Head(steerBuf)
    /\ steerPc \in {"check", "done"} => steerBuf = <<>>

LogTyped == log \in Seq(Stored) /\ arrived \in [Flows -> Nat]

LineInv == Sorted(Lines) /\ Routed(Lines) /\ Counted(Lines, arrived)

LEMMA LinePlaceFacts ==
    \A p \in LinePlaces : \/ p = <<"log", 0>> \/ p = <<"mux", 0>> \/ p = <<"buf", 0>>
                          \/ \E q \in Queues : \/ p = <<"tx", q>> \/ p = <<"batch", q>>
                                               \/ p = <<"rx", q>>
  BY DEF LinePlaces

LEMMA LineFacts ==
    /\ Lines[<<"log", 0>>] = LogLine /\ Lines[<<"mux", 0>>] = MuxLine
    /\ Lines[<<"buf", 0>>] = steerBuf
    /\ \A q \in Queues : /\ Lines[<<"tx", q>>] = Pkts(tx[q], content)
                         /\ Lines[<<"batch", q>>] = Pkts(batch[q], content)
                         /\ Lines[<<"rx", q>>] = Pkts(rx[q], content)
  BY RankFacts DEF Lines, LineAt

LEMMA LineFactsNext ==
    /\ Lines'[<<"log", 0>>] = LogLine' /\ Lines'[<<"mux", 0>>] = MuxLine'
    /\ Lines'[<<"buf", 0>>] = steerBuf'
    /\ \A q \in Queues : /\ Lines'[<<"tx", q>>] = Pkts(tx'[q], content')
                         /\ Lines'[<<"batch", q>>] = Pkts(batch'[q], content')
                         /\ Lines'[<<"rx", q>>] = Pkts(rx'[q], content')
  BY RankFacts DEF Lines, LineAt

\* Lines that an action does not touch.
LEMMA OtherLines ==
    ASSUME NEW a, NEW b,
           <<"log", 0>> \notin {a, b} => LogLine' = LogLine,
           <<"mux", 0>> \notin {a, b} => MuxLine' = MuxLine,
           <<"buf", 0>> \notin {a, b} => steerBuf' = steerBuf,
           \A q \in Queues :
              /\ <<"tx", q>> \notin {a, b} => Pkts(tx'[q], content') = Pkts(tx[q], content)
              /\ <<"batch", q>> \notin {a, b} => Pkts(batch'[q], content') = Pkts(batch[q], content)
              /\ <<"rx", q>> \notin {a, b} => Pkts(rx'[q], content') = Pkts(rx[q], content)
    PROVE  \A p \in LinePlaces : p # a /\ p # b => Lines'[p] = Lines[p]
  <1> SUFFICES ASSUME NEW p \in LinePlaces, p # a, p # b PROVE Lines'[p] = Lines[p]
    OBVIOUS
  <1>1. CASE p \in {<<"log", 0>>, <<"mux", 0>>, <<"buf", 0>>}
    BY <1>1, LineFacts, LineFactsNext
  <1>2. ASSUME NEW q \in Queues, p \in {<<"rx", q>>, <<"batch", q>>, <<"tx", q>>}
        PROVE  Lines'[p] = Lines[p]
    BY <1>2, LineFacts, LineFactsNext
  <1> QED
    BY <1>1, <1>2, LinePlaceFacts

\* The same for one line.
LEMMA OtherLine ==
    ASSUME NEW a,
           <<"log", 0>> # a => LogLine' = LogLine,
           <<"mux", 0>> # a => MuxLine' = MuxLine,
           <<"buf", 0>> # a => steerBuf' = steerBuf,
           \A q \in Queues :
              /\ <<"tx", q>> # a => Pkts(tx'[q], content') = Pkts(tx[q], content)
              /\ <<"batch", q>> # a => Pkts(batch'[q], content') = Pkts(batch[q], content)
              /\ <<"rx", q>> # a => Pkts(rx'[q], content') = Pkts(rx[q], content)
    PROVE  \A p \in LinePlaces : p # a => Lines'[p] = Lines[p]
  <1>1. \A p \in LinePlaces : p # a /\ p # a => Lines'[p] = Lines[p]
    BY OtherLines
  <1> QED
    BY <1>1

\* Writing to a frame leaves the packets of the other frames alone.
LEMMA PktsUnwritten ==
    ASSUME NEW s \in Seq(Frames), NEW c, NEW d, NEW f, f \notin RangeOf(s),
           \A g \in Frames : g # f => d[g] = c[g]
    PROVE  Pkts(s, d) = Pkts(s, c)
  <1>1. \A i \in DOMAIN s : s[i] \in Frames /\ s[i] # f
    BY DEF RangeOf
  <1> QED
    BY <1>1 DEF Pkts

\* The packets of a longer and of a shorter line.
LEMMA PktsType ==
    ASSUME NEW s \in Seq(Frames), NEW c, \A f \in RangeOf(s) : c[f].pkt \in Packet
    PROVE  /\ Pkts(s, c) \in Seq(Packet)
           /\ Len(Pkts(s, c)) = Len(s)
           /\ \A i \in 1 .. Len(s) : Pkts(s, c)[i] = c[s[i]].pkt
  <1>1. Len(s) \in Nat /\ DOMAIN s = 1 .. Len(s)
    OBVIOUS
  <1>2. \A i \in 1 .. Len(s) : c[s[i]].pkt \in Packet
    BY <1>1 DEF RangeOf
  <1>3. Pkts(s, c) = [i \in 1 .. Len(s) |-> c[s[i]].pkt]
    BY <1>1 DEF Pkts
  <1> QED
    BY <1>1, <1>2, <1>3

LEMMA PktsAppend ==
    ASSUME NEW s \in Seq(Frames), NEW c, \A f \in RangeOf(s) : c[f].pkt \in Packet,
           NEW x \in Frames, c[x].pkt \in Packet
    PROVE  Pkts(Append(s, x), c) = Append(Pkts(s, c), c[x].pkt)
  <1> DEFINE t == Append(s, x)
             y == c[x].pkt
             u == Pkts(s, c)
  <1>1. /\ t \in Seq(Frames) /\ Len(t) = Len(s) + 1 /\ RangeOf(t) = RangeOf(s) \cup {x}
        /\ Len(s) \in Nat
        /\ \A i \in 1 .. Len(s) : t[i] = s[i]
        /\ t[Len(s) + 1] = x
    BY AppendFacts
  <1>2. u \in Seq(Packet) /\ Len(u) = Len(s) /\ \A i \in 1 .. Len(s) : u[i] = c[s[i]].pkt
    BY PktsType
  <1>3. /\ Append(u, y) \in Seq(Packet) /\ Len(Append(u, y)) = Len(s) + 1
        /\ \A i \in 1 .. Len(s) : Append(u, y)[i] = u[i]
        /\ Append(u, y)[Len(s) + 1] = y
    <2> HIDE DEF u
    <2> QED
      BY <1>1, <1>2
  <1>4. \A f \in RangeOf(t) : c[f].pkt \in Packet
    BY <1>1
  <1> HIDE DEF t, u
  <1>5. /\ Pkts(t, c) \in Seq(Packet) /\ Len(Pkts(t, c)) = Len(t)
        /\ \A i \in 1 .. Len(t) : Pkts(t, c)[i] = c[t[i]].pkt
    BY <1>1, <1>4, PktsType
  <1>6. \A i \in 1 .. Len(Pkts(t, c)) : Pkts(t, c)[i] = Append(u, y)[i]
    <2> SUFFICES ASSUME NEW i \in 1 .. (Len(s) + 1) PROVE c[t[i]].pkt = Append(u, y)[i]
      BY <1>1, <1>5
    <2> HIDE DEF y
    <2>1. CASE i = Len(s) + 1
      BY <1>1, <1>3, <2>1 DEF y
    <2>2. CASE i \in 1 .. Len(s)
      <3>1. t[i] = s[i] /\ u[i] = c[s[i]].pkt /\ Append(u, y)[i] = u[i]
        BY <1>1, <1>2, <1>3, <2>2, Zenon
      <3> QED
        BY <3>1, Zenon
    <2>3. i = Len(s) + 1 \/ i \in 1 .. Len(s)
      <3>1. Len(s) \in Nat
        OBVIOUS
      <3> QED
        BY <3>1
    <2> QED
      BY <2>1, <2>2, <2>3, Zenon
  <1> HIDE DEF y
  <1>7. Pkts(t, c) = Append(u, y)
    BY <1>1, <1>3, <1>5, <1>6, SeqEqual
  <1> QED
    BY <1>7 DEF t, u, y

LEMMA PktsTail ==
    ASSUME NEW s \in Seq(Frames), NEW c, \A f \in RangeOf(s) : c[f].pkt \in Packet, s # <<>>
    PROVE  /\ Pkts(s, c) # <<>> /\ Head(Pkts(s, c)) = c[Head(s)].pkt
           /\ Pkts(Tail(s), c) = Tail(Pkts(s, c))
  <1> DEFINE t == Tail(s)
             u == Pkts(s, c)
  <1>1. /\ t \in Seq(Frames) /\ Len(t) = Len(s) - 1 /\ Len(s) \in Nat \ {0}
        /\ \A i \in 1 .. Len(t) : t[i] = s[i + 1]
        /\ Head(s) = s[1]
    OBVIOUS
  <1>0. RangeOf(t) \subseteq RangeOf(s)
    BY TailFacts
  <1>2. u \in Seq(Packet) /\ Len(u) = Len(s) /\ \A i \in 1 .. Len(s) : u[i] = c[s[i]].pkt
    BY PktsType
  <1>3. /\ u # <<>> /\ Head(u) = u[1]
        /\ Tail(u) \in Seq(Packet) /\ Len(Tail(u)) = Len(s) - 1
        /\ \A i \in 1 .. (Len(s) - 1) : Tail(u)[i] = u[i + 1]
    <2> HIDE DEF u
    <2> QED
      BY <1>1, <1>2
  <1>4. \A f \in RangeOf(t) : c[f].pkt \in Packet
    BY <1>0
  <1> HIDE DEF t, u
  <1>5. /\ Pkts(t, c) \in Seq(Packet) /\ Len(Pkts(t, c)) = Len(t)
        /\ \A i \in 1 .. Len(t) : Pkts(t, c)[i] = c[t[i]].pkt
    BY <1>1, <1>4, PktsType
  <1>6. \A i \in 1 .. Len(Pkts(t, c)) : Pkts(t, c)[i] = Tail(u)[i]
    <2> SUFFICES ASSUME NEW i \in 1 .. (Len(s) - 1) PROVE c[t[i]].pkt = Tail(u)[i]
      BY <1>1, <1>5
    <2>1. i + 1 \in 1 .. Len(s) /\ i \in 1 .. Len(t)
      BY <1>1
    <2> QED
      BY <1>1, <1>2, <1>3, <2>1
  <1>7. Pkts(t, c) = Tail(u)
    BY <1>1, <1>3, <1>5, <1>6, SeqEqual
  <1>8. Head(u) = c[Head(s)].pkt
    BY <1>1, <1>2, <1>3
  <1> QED
    BY <1>3, <1>7, <1>8 DEF t, u

\* Every queued frame holds a packet.
LEMMA QueuePkts ==
    ASSUME TypeInv, ContentInv
    PROVE  /\ muxBatch \in Seq(Frames) /\ \A f \in RangeOf(muxBatch) : content[f].pkt \in Packet
           /\ \A q \in Queues :
                 /\ rx[q] \in Seq(Frames) /\ \A f \in RangeOf(rx[q]) : content[f].pkt \in Packet
                 /\ batch[q] \in Seq(Frames) /\ \A f \in RangeOf(batch[q]) : content[f].pkt \in Packet
                 /\ tx[q] \in Seq(Frames) /\ \A f \in RangeOf(tx[q]) : content[f].pkt \in Packet
  <1>1. ASSUME NEW p \in Places, p # <<"free", 0>>, NEW f \in RangeOf(Held[p])
        PROVE  content[f].pkt \in Packet
    <2>1. p[1] # "free"
      BY <1>1 DEF Places
    <2>2. f \in Frames
      BY HeldType DEF TypeInv, RangeOf
    <2>3. content[f] \in Stored
      BY <1>1, <2>1, <2>2 DEF ContentInv, Fits, TypeInv, TypeOK
    <2> QED
      BY <2>3 DEF Stored
  <1>2. /\ muxBatch \in Seq(Frames)
        /\ \A q \in Queues : rx[q] \in Seq(Frames) /\ batch[q] \in Seq(Frames) /\ tx[q] \in Seq(Frames)
    BY DEF TypeInv, TypeOK
  <1>3. \A f \in RangeOf(muxBatch) : content[f].pkt \in Packet
    BY <1>1, HeldFacts, PlaceFacts
  <1>4. ASSUME NEW q \in Queues
        PROVE  /\ \A f \in RangeOf(rx[q]) : content[f].pkt \in Packet
               /\ \A f \in RangeOf(batch[q]) : content[f].pkt \in Packet
               /\ \A f \in RangeOf(tx[q]) : content[f].pkt \in Packet
    BY <1>1, HeldFacts, PlaceFacts
  <1> QED
    BY <1>2, <1>3, <1>4

LEMMA LinesType ==
    ASSUME TypeInv, ContentInv, LogTyped
    PROVE  Lines \in AllLines
  <1>1. LogLine \in Seq(Packet)
    <2>1. \A c \in Stored : c.pkt \in Packet
      BY DEF Stored
    <2>2. log \in Seq(Stored) /\ Len(log) \in Nat /\ DOMAIN log = 1 .. Len(log)
      BY DEF LogTyped
    <2>3. \A i \in 1 .. Len(log) : log[i].pkt \in Packet
      BY <2>1, <2>2
    <2> QED
      BY <2>2, <2>3 DEF LogLine
  <1>2. MuxLine \in Seq(Packet)
    BY QueuePkts, PktsType DEF MuxLine
  <1>3. steerBuf \in Seq(Packet)
    BY DEF TypeInv, TypeOK
  <1>4. ASSUME NEW q \in Queues
        PROVE  /\ Pkts(tx[q], content) \in Seq(Packet) /\ Pkts(batch[q], content) \in Seq(Packet)
               /\ Pkts(rx[q], content) \in Seq(Packet)
    BY QueuePkts, PktsType
  <1>5. \A p \in LinePlaces : Lines[p] \in Seq(Packet)
    BY <1>1, <1>2, <1>3, <1>4, LineFacts, LinePlaceFacts
  <1> QED
    BY <1>5 DEF Lines, AllLines

\* A frame is in one place, so writing to the one at the head of a place
\* changes no packet elsewhere, nor behind it.
LEMMA Elsewhere ==
    ASSUME TypeInv, OwnInv, NEW a \in Places, Held[a] # <<>>,
           \A g \in Frames : g # Head(Held[a]) => content'[g] = content[g]
    PROVE  /\ a # <<"mux", 0>> => Pkts(muxBatch, content') = Pkts(muxBatch, content)
           /\ \A q \in Queues :
                 /\ a # <<"tx", q>> => Pkts(tx[q], content') = Pkts(tx[q], content)
                 /\ a # <<"batch", q>> => Pkts(batch[q], content') = Pkts(batch[q], content)
                 /\ a # <<"rx", q>> => Pkts(rx[q], content') = Pkts(rx[q], content)
           /\ Pkts(Tail(Held[a]), content') = Pkts(Tail(Held[a]), content)
  <1> DEFINE f == Head(Held[a])
  <1>1. \A p \in Places : Held[p] \in Seq(Frames)
    BY HeldType DEF TypeInv
  <1>2. /\ f \in RangeOf(Held[a]) /\ f \notin RangeOf(Tail(Held[a]))
        /\ Tail(Held[a]) \in Seq(Frames)
    BY <1>1, TailFacts DEF OwnInv, Exclusive
  <1>3. \A p \in Places : p # a => f \notin RangeOf(Held[p])
    BY <1>2 DEF OwnInv, Exclusive
  <1> HIDE DEF f
  <1>4. \A g \in Frames : g # f => content'[g] = content[g]
    BY DEF f
  <1>5. \A s \in Seq(Frames) : f \notin RangeOf(s) => Pkts(s, content') = Pkts(s, content)
    BY <1>4, PktsUnwritten
  <1>6. \A p \in Places : p # a => Pkts(Held[p], content') = Pkts(Held[p], content)
    BY <1>1, <1>3, <1>5
  <1>7. a # <<"mux", 0>> => Pkts(muxBatch, content') = Pkts(muxBatch, content)
    BY <1>6, HeldFacts, PlaceFacts
  <1>8. ASSUME NEW q \in Queues
        PROVE  /\ a # <<"tx", q>> => Pkts(tx[q], content') = Pkts(tx[q], content)
               /\ a # <<"batch", q>> => Pkts(batch[q], content') = Pkts(batch[q], content)
               /\ a # <<"rx", q>> => Pkts(rx[q], content') = Pkts(rx[q], content)
    <2>1. /\ Held[<<"tx", q>>] = tx[q] /\ Held[<<"batch", q>>] = batch[q] /\ Held[<<"rx", q>>] = rx[q]
          /\ <<"tx", q>> \in Places /\ <<"batch", q>> \in Places /\ <<"rx", q>> \in Places
      BY HeldFacts, PlaceFacts
    <2>2. /\ <<"tx", q>> # a => Pkts(Held[<<"tx", q>>], content') = Pkts(Held[<<"tx", q>>], content)
          /\ <<"batch", q>> # a => Pkts(Held[<<"batch", q>>], content') = Pkts(Held[<<"batch", q>>], content)
          /\ <<"rx", q>> # a => Pkts(Held[<<"rx", q>>], content') = Pkts(Held[<<"rx", q>>], content)
      BY <1>6, <2>1
    <2> QED
      BY <2>1, <2>2, Zenon
  <1> QED
    BY <1>2, <1>5, <1>7, <1>8

\* What a step that receives nothing does to the lines.
Orderly ==
    \/ Lines' = Lines
    \/ \E a, b \in LinePlaces : Advances(Lines, Lines', a, b)
    \/ \E a \in LinePlaces : Sheds(Lines, Lines', a)
    \/ Sends(Lines, Lines')

LEMMA SameLines ==
    ASSUME LogLine' = LogLine, MuxLine' = MuxLine, steerBuf' = steerBuf,
           \A q \in Queues : /\ Pkts(tx'[q], content') = Pkts(tx[q], content)
                             /\ Pkts(batch'[q], content') = Pkts(batch[q], content)
                             /\ Pkts(rx'[q], content') = Pkts(rx[q], content)
    PROVE  Lines' = Lines
  <1> DEFINE a == <<"log", 0>>
  <1>1. \A p \in LinePlaces : p # a => Lines'[p] = Lines[p]
    BY OtherLine
  <1>2. Lines'[a] = Lines[a]
    <2>1. Lines[a] = LogLine /\ Lines'[a] = LogLine'
      BY LineFacts, LineFactsNext
    <2> QED
      BY <2>1
  <1>3. Lines = [p \in LinePlaces |-> Lines[p]] /\ Lines' = [p \in LinePlaces |-> Lines'[p]]
    BY DEF Lines
  <1> QED
    BY <1>1, <1>2, <1>3

LEMMA SteeringLines ==
    ASSUME TypeInv, OwnInv, ContentInv, SteerInv, UNCHANGED log,
           SteerAlloc \/ SteerExhausted \/ SteerPush \/ SteerExit
    PROVE  Orderly
  <1> DEFINE buf == <<"buf", 0>>
  <1>0. LogLine' = LogLine
    BY DEF LogLine
  <1>5. ASSUME MuxLine' = MuxLine,
               \A q \in Queues : /\ Pkts(tx'[q], content') = Pkts(tx[q], content)
                                 /\ Pkts(batch'[q], content') = Pkts(batch[q], content)
                                 /\ Pkts(rx'[q], content') = Pkts(rx[q], content)
        PROVE  \A p \in LinePlaces : p # buf => Lines'[p] = Lines[p]
    <2>1. <<"buf", 0>> # buf => steerBuf' = steerBuf
      OBVIOUS
    <2> HIDE DEF buf
    <2> QED
      BY <1>0, <1>5, <2>1, OtherLine
  <1>1. CASE SteerAlloc
    <2> DEFINE a == <<"free", 0>>
    <2>1. /\ a \in Places /\ Held[a] # <<>> /\ Head(Held[a]) = Head(free)
      BY <1>1, PlaceFacts, HeldFacts DEF SteerAlloc
    <2>2. \A g \in Frames : g # Head(free) => content'[g] = content[g]
      BY <1>1 DEF SteerAlloc, TypeInv, TypeOK
    <2>3. /\ Pkts(muxBatch, content') = Pkts(muxBatch, content)
          /\ \A q \in Queues : /\ Pkts(tx[q], content') = Pkts(tx[q], content)
                               /\ Pkts(batch[q], content') = Pkts(batch[q], content)
                               /\ Pkts(rx[q], content') = Pkts(rx[q], content)
      <3>1. \A q \in Queues : a # <<"tx", q>> /\ a # <<"batch", q>> /\ a # <<"rx", q>>
        OBVIOUS
      <3>2. a # <<"mux", 0>>
        OBVIOUS
      <3>3. \A g \in Frames : g # Head(Held[a]) => content'[g] = content[g]
        BY <2>1, <2>2
      <3> HIDE DEF a
      <3> QED
        BY <2>1, <3>1, <3>2, <3>3, Elsewhere
    <2>4. UNCHANGED <<rx, tx, batch, muxBatch, muxPc, steerBuf>>
      BY <1>1 DEF SteerAlloc, rewVars, muxVars
    <2>5. MuxLine' = MuxLine
      BY <2>3, <2>4 DEF MuxLine
    <2>6. \A q \in Queues : /\ Pkts(tx'[q], content') = Pkts(tx[q], content)
                            /\ Pkts(batch'[q], content') = Pkts(batch[q], content)
                            /\ Pkts(rx'[q], content') = Pkts(rx[q], content)
      BY <2>3, <2>4
    <2>7. Lines' = Lines
      BY <1>0, <2>4, <2>5, <2>6, SameLines
    <2> QED
      BY <2>7 DEF Orderly
  <1>2. CASE SteerExhausted
    <2>1. /\ UNCHANGED <<rx, tx, batch, muxBatch, muxPc, content>>
          /\ steerBuf # <<>> /\ steerBuf' = Tail(steerBuf)
      BY <1>2 DEF SteerExhausted, SteerAdvance, rewVars, muxVars, TypeInv, ControlOK
    <2>2. MuxLine' = MuxLine
      BY <2>1 DEF MuxLine
    <2>3. \A p \in LinePlaces : p # buf => Lines'[p] = Lines[p]
      BY <1>5, <2>1, <2>2
    <2>4. Sheds(Lines, Lines', buf)
      BY <2>1, <2>3, LineFacts, LineFactsNext DEF Sheds
    <2> QED
      BY <2>4, RankFacts DEF Orderly
  <1>3. CASE SteerPush
    <2> DEFINE q == assign_queue(Head(steerBuf).flow)
               f == steerFrame
    <2>1. /\ UNCHANGED <<tx, batch, muxBatch, muxPc>>
          /\ steerBuf # <<>> /\ steerBuf' = Tail(steerBuf) /\ Head(steerBuf) \in Packet
          /\ f \in Frames /\ f # NoFrame /\ content[f].pkt = Head(steerBuf)
      BY <1>3, TailFacts
      DEF SteerPush, SteerAdvance, rewVars, muxVars, TypeInv, TypeOK, ControlOK, SteerInv
    <2>2. q \in Queues
      BY <2>1, QueueFacts DEF Packet
    <2>3. CASE rx' = [rx EXCEPT ![q] = Append(@, f)] /\ UNCHANGED <<free, content>>
      <3> DEFINE b == <<"rx", q>>
      <3>1. MuxLine' = MuxLine
        BY <2>1, <2>3 DEF MuxLine
      <3>2. rx'[q] = Append(rx[q], f) /\ \A r \in Queues : r # q => rx'[r] = rx[r]
        BY <2>2, <2>3 DEF TypeInv, TypeOK
      <3>3. Pkts(rx'[q], content') = Append(Pkts(rx[q], content), Head(steerBuf))
        <4>1. rx[q] \in Seq(Frames) /\ \A g \in RangeOf(rx[q]) : content[g].pkt \in Packet
          BY <2>2, QueuePkts
        <4> HIDE DEF q, f
        <4>2. Pkts(Append(rx[q], f), content) = Append(Pkts(rx[q], content), content[f].pkt)
          BY <2>1, <4>1, PktsAppend
        <4> QED
          BY <2>1, <2>3, <3>2, <4>2
      <3> HIDE DEF q, f
      <3>4. \A r \in Queues : /\ <<"tx", r>> \notin {buf, b} => Pkts(tx'[r], content') = Pkts(tx[r], content)
                              /\ <<"batch", r>> \notin {buf, b} => Pkts(batch'[r], content') = Pkts(batch[r], content)
                              /\ <<"rx", r>> \notin {buf, b} => Pkts(rx'[r], content') = Pkts(rx[r], content)
        BY <2>1, <2>3, <3>2
      <3>5. \A p \in LinePlaces : p # buf /\ p # b => Lines'[p] = Lines[p]
        BY <1>0, <2>1, <3>1, <3>4, OtherLines
      <3>6. /\ Lines[buf] = steerBuf /\ Lines'[buf] = Tail(steerBuf)
            /\ Lines[b] = Pkts(rx[q], content) /\ Lines'[b] = Append(Pkts(rx[q], content), Head(steerBuf))
            /\ Rank(buf) = 5 /\ Rank(b) = 4 /\ buf \in LinePlaces /\ b \in LinePlaces /\ b[2] = q
        BY <2>1, <2>2, <3>3, LineFacts, LineFactsNext, RankFacts
      <3>7. assign_queue(Head(steerBuf).flow) = q
        BY DEF q
      <3> HIDE DEF b, buf
      <3>8. Advances(Lines, Lines', buf, b)
        BY <2>1, <3>5, <3>6, <3>7 DEF Advances
      <3> QED
        BY <3>6, <3>8 DEF Orderly
    <2>4. CASE PoolFree(f) /\ UNCHANGED rx
      <3> DEFINE a == <<"steer", 0>>
      <3>1. a \in Places /\ Held[a] # <<>> /\ Head(Held[a]) = f
        BY <2>1, PlaceFacts, HeldFacts DEF SteerHeld
      <3>2. \A g \in Frames : g # Head(Held[a]) => content'[g] = content[g]
        BY <2>4, <3>1 DEF PoolFree, TypeInv, TypeOK
      <3>3. a # <<"mux", 0>> /\ \A r \in Queues : a # <<"tx", r>> /\ a # <<"batch", r>> /\ a # <<"rx", r>>
        OBVIOUS
      <3> HIDE DEF a
      <3>4. /\ Pkts(muxBatch, content') = Pkts(muxBatch, content)
            /\ \A r \in Queues : /\ Pkts(tx[r], content') = Pkts(tx[r], content)
                                 /\ Pkts(batch[r], content') = Pkts(batch[r], content)
                                 /\ Pkts(rx[r], content') = Pkts(rx[r], content)
        BY <3>1, <3>2, <3>3, Elsewhere
      <3>5. MuxLine' = MuxLine
        BY <2>1, <3>4 DEF MuxLine
      <3>6. \A r \in Queues : /\ Pkts(tx'[r], content') = Pkts(tx[r], content)
                              /\ Pkts(batch'[r], content') = Pkts(batch[r], content)
                              /\ Pkts(rx'[r], content') = Pkts(rx[r], content)
        BY <2>1, <2>4, <3>4
      <3>7. \A p \in LinePlaces : p # buf => Lines'[p] = Lines[p]
        BY <1>5, <3>5, <3>6
      <3>8. Sheds(Lines, Lines', buf)
        BY <2>1, <3>7, LineFacts, LineFactsNext DEF Sheds
      <3> QED
        BY <3>8, RankFacts DEF Orderly
    <2> QED
      BY <1>3, <2>3, <2>4 DEF SteerPush
  <1>4. CASE SteerExit
    <2>1. UNCHANGED <<rx, tx, batch, muxBatch, muxPc, content, steerBuf>>
      BY <1>4 DEF SteerExit, rewVars, muxVars
    <2>2. Lines' = Lines
      BY <1>0, <2>1, SameLines DEF MuxLine
    <2> QED
      BY <2>2 DEF Orderly
  <1> QED
    BY <1>1, <1>2, <1>3, <1>4

LEMMA RewriterLines ==
    ASSUME TypeInv, OwnInv, ContentInv, UNCHANGED log, NEW q \in Queues, Rewriter(q)
    PROVE  Orderly
  <1> DEFINE here == <<"batch", q>>
             f    == Head(batch[q])
  <1>0. /\ LogLine' = LogLine /\ UNCHANGED <<steerBuf, muxPc, muxBatch>>
        /\ rx[q] \in Seq(Frames) /\ \A g \in RangeOf(rx[q]) : content[g].pkt \in Packet
        /\ batch[q] \in Seq(Frames) /\ \A g \in RangeOf(batch[q]) : content[g].pkt \in Packet
        /\ tx[q] \in Seq(Frames) /\ \A g \in RangeOf(tx[q]) : content[g].pkt \in Packet
    BY QueuePkts DEF Rewriter, RewCheck, RewPop, RewDrained, RewForward, RewDrop, LogLine, steerVars, muxVars
  <1>1. CASE RewCheck(q) \/ RewDrained(q)
    <2>1. UNCHANGED <<rx, tx, batch, content>>
      BY <1>1 DEF RewCheck, RewDrained
    <2>2. Lines' = Lines
      BY <1>0, <2>1, SameLines DEF MuxLine
    <2> QED
      BY <2>2 DEF Orderly
  <1>2. CASE RewPop(q)
    <2> DEFINE a == <<"rx", q>>
               x == Head(rx[q])
    <2>1. /\ rx[q] # <<>> /\ rx'[q] = Tail(rx[q]) /\ batch'[q] = Append(batch[q], x)
          /\ \A r \in Queues : r # q => rx'[r] = rx[r] /\ batch'[r] = batch[r]
          /\ UNCHANGED <<tx, content>>
      BY <1>2 DEF RewPop, TypeInv, TypeOK
    <2>2. x \in Frames /\ content[x].pkt \in Packet
      BY <1>0, <2>1, TailFacts
    <2> HIDE DEF x
    <2>3. /\ Pkts(rx[q], content) # <<>> /\ Head(Pkts(rx[q], content)) = content[x].pkt
          /\ Pkts(rx'[q], content') = Tail(Pkts(rx[q], content))
      <3>1. /\ Pkts(rx[q], content) # <<>> /\ Head(Pkts(rx[q], content)) = content[x].pkt
            /\ Pkts(Tail(rx[q]), content) = Tail(Pkts(rx[q], content))
        BY <1>0, <2>1, PktsTail DEF x
      <3> QED
        BY <2>1, <3>1
    <2>4. Pkts(batch'[q], content') = Append(Pkts(batch[q], content), content[x].pkt)
      <3>1. Pkts(Append(batch[q], x), content) = Append(Pkts(batch[q], content), content[x].pkt)
        BY <1>0, <2>2, PktsAppend
      <3> QED
        BY <2>1, <3>1
    <2>5. \A r \in Queues : /\ <<"tx", r>> \notin {a, here} => Pkts(tx'[r], content') = Pkts(tx[r], content)
                            /\ <<"batch", r>> \notin {a, here} => Pkts(batch'[r], content') = Pkts(batch[r], content)
                            /\ <<"rx", r>> \notin {a, here} => Pkts(rx'[r], content') = Pkts(rx[r], content)
      BY <2>1
    <2>6. \A p \in LinePlaces : p # a /\ p # here => Lines'[p] = Lines[p]
      <3>1. MuxLine' = MuxLine
        BY <1>0, <2>1 DEF MuxLine
      <3> QED
        BY <1>0, <2>5, <3>1, OtherLines
    <2>7. /\ Lines[a] # <<>> /\ Lines'[a] = Tail(Lines[a])
          /\ Lines'[here] = Append(Lines[here], Head(Lines[a]))
          /\ a \in LinePlaces /\ here \in LinePlaces /\ Rank(a) = Rank(here) + 1
      <3>1. /\ Lines[a] = Pkts(rx[q], content) /\ Lines'[a] = Pkts(rx'[q], content')
            /\ Lines[here] = Pkts(batch[q], content) /\ Lines'[here] = Pkts(batch'[q], content')
        BY LineFacts, LineFactsNext
      <3>2. a \in LinePlaces /\ here \in LinePlaces /\ Rank(a) = 4 /\ Rank(here) = 3
        BY RankFacts
      <3> HIDE DEF a, here
      <3> QED
        BY <2>3, <2>4, <3>1, <3>2
    <2>8. here[1] \in {"tx", "batch", "rx"} /\ a[1] \in {"tx", "batch", "rx"} /\ a[2] = here[2]
      OBVIOUS
    <2> HIDE DEF a, here
    <2>9. Advances(Lines, Lines', a, here)
      BY <2>6, <2>7, <2>8 DEF Advances
    <2> QED
      BY <2>7, <2>9 DEF Orderly
  \* What remains of the batch when its first frame is written to or freed.
  <1>3. ASSUME RewAdvance(q), rewPc[q] = "process"
        PROVE  /\ batch[q] # <<>> /\ batch'[q] = Tail(batch[q])
               /\ \A r \in Queues : r # q => batch'[r] = batch[r]
               /\ f \in Frames /\ content[f].pkt \in Packet
               /\ Pkts(batch[q], content) # <<>> /\ Head(Pkts(batch[q], content)) = content[f].pkt
               /\ Pkts(Tail(batch[q]), content) = Tail(Pkts(batch[q], content))
    <2>1. /\ batch[q] # <<>> /\ batch'[q] = Tail(batch[q])
          /\ \A r \in Queues : r # q => batch'[r] = batch[r]
      BY <1>3 DEF RewAdvance, TypeInv, TypeOK, ControlOK
    <2>2. f \in Frames /\ content[f].pkt \in Packet
      BY <1>0, <2>1, TailFacts
    <2>3. /\ Pkts(batch[q], content) # <<>> /\ Head(Pkts(batch[q], content)) = content[f].pkt
          /\ Pkts(Tail(batch[q]), content) = Tail(Pkts(batch[q], content))
      BY <1>0, <2>1, PktsTail
    <2> QED
      BY <2>1, <2>2, <2>3
  <1>4. ASSUME RewAdvance(q), rewPc[q] = "process",
               \A g \in Frames : g # f => content'[g] = content[g]
        PROVE  /\ Pkts(muxBatch, content') = Pkts(muxBatch, content)
               /\ \A r \in Queues :
                     /\ Pkts(tx[r], content') = Pkts(tx[r], content)
                     /\ r # q => Pkts(batch[r], content') = Pkts(batch[r], content)
                     /\ Pkts(rx[r], content') = Pkts(rx[r], content)
               /\ Pkts(batch'[q], content') = Tail(Pkts(batch[q], content))
    <2>1. /\ here \in Places /\ Held[here] = batch[q] /\ Held[here] # <<>>
          /\ Head(Held[here]) = f
      BY <1>3, <1>4, PlaceFacts, HeldFacts
    <2>2. /\ here # <<"mux", 0>>
          /\ \A r \in Queues : /\ here # <<"tx", r>> /\ here # <<"rx", r>>
                               /\ r # q => here # <<"batch", r>>
      OBVIOUS
    <2>3. \A g \in Frames : g # Head(Held[here]) => content'[g] = content[g]
      BY <1>4, <2>1
    <2> HIDE DEF here, f
    <2>4. /\ here # <<"mux", 0>> => Pkts(muxBatch, content') = Pkts(muxBatch, content)
          /\ \A r \in Queues :
                /\ here # <<"tx", r>> => Pkts(tx[r], content') = Pkts(tx[r], content)
                /\ here # <<"batch", r>> => Pkts(batch[r], content') = Pkts(batch[r], content)
                /\ here # <<"rx", r>> => Pkts(rx[r], content') = Pkts(rx[r], content)
          /\ Pkts(Tail(Held[here]), content') = Pkts(Tail(Held[here]), content)
      BY <2>1, <2>3, Elsewhere
    <2>5. Pkts(batch'[q], content') = Tail(Pkts(batch[q], content))
      BY <1>3, <1>4, <2>1, <2>4
    <2> QED
      BY <2>2, <2>4, <2>5
  <1>5. ASSUME RewAdvance(q), rewPc[q] = "process", PoolFree(f), UNCHANGED <<rx, tx>>
        PROVE  Orderly
    <2>1. \A g \in Frames : g # f => content'[g] = content[g]
      BY <1>5 DEF PoolFree, TypeInv, TypeOK
    <2> HIDE DEF f
    <2>2. /\ Pkts(muxBatch, content') = Pkts(muxBatch, content)
          /\ \A r \in Queues :
                /\ Pkts(tx[r], content') = Pkts(tx[r], content)
                /\ r # q => Pkts(batch[r], content') = Pkts(batch[r], content)
                /\ Pkts(rx[r], content') = Pkts(rx[r], content)
          /\ Pkts(batch'[q], content') = Tail(Pkts(batch[q], content))
      BY <1>4, <1>5, <2>1
    <2>3. MuxLine' = MuxLine
      BY <1>0, <2>2 DEF MuxLine
    <2>4. \A r \in Queues : /\ <<"tx", r>> # here => Pkts(tx'[r], content') = Pkts(tx[r], content)
                            /\ <<"batch", r>> # here => Pkts(batch'[r], content') = Pkts(batch[r], content)
                            /\ <<"rx", r>> # here => Pkts(rx'[r], content') = Pkts(rx[r], content)
      BY <1>3, <1>5, <2>2
    <2>5. \A p \in LinePlaces : p # here => Lines'[p] = Lines[p]
      <3>1. LogLine' = LogLine /\ steerBuf' = steerBuf
        BY <1>0
      <3> HIDE DEF here
      <3> QED
        BY <2>3, <2>4, <3>1, OtherLine
    <2>6. Sheds(Lines, Lines', here)
      BY <1>3, <1>5, <2>2, <2>5, LineFacts, LineFactsNext DEF Sheds
    <2> QED
      BY <2>6, RankFacts DEF Orderly
  <1>6. CASE RewForward(q)
    <2>1. RewAdvance(q) /\ rewPc[q] = "process" /\ UNCHANGED rx
      BY <1>6 DEF RewForward
    <2>2. CASE /\ tx' = [tx EXCEPT ![q] = Append(@, f)]
               /\ content' = [content EXCEPT ![f].encap = @ + 1]
      <3> DEFINE b == <<"tx", q>>
      <3>1. tx'[q] = Append(tx[q], f) /\ \A r \in Queues : r # q => tx'[r] = tx[r]
        BY <2>2 DEF TypeInv, TypeOK
      <3>2. \A g \in Frames : g # f => content'[g] = content[g]
        BY <2>2 DEF TypeInv, TypeOK
      <3>3. content'[f].pkt = content[f].pkt
        <4>1. f \in Frames /\ content[f] \in Stored
          BY <1>3, <1>6, <2>1 DEF RewForward, TypeInv, TypeOK
        <4>2. content'[f] = [content[f] EXCEPT !.encap = @ + 1]
          BY <2>2, <4>1 DEF TypeInv, TypeOK
        <4> HIDE DEF f
        <4> QED
          BY <4>1, <4>2 DEF Stored
      <3> HIDE DEF f
      <3>4. /\ Pkts(muxBatch, content') = Pkts(muxBatch, content)
            /\ \A r \in Queues :
                  /\ Pkts(tx[r], content') = Pkts(tx[r], content)
                  /\ r # q => Pkts(batch[r], content') = Pkts(batch[r], content)
                  /\ Pkts(rx[r], content') = Pkts(rx[r], content)
            /\ Pkts(batch'[q], content') = Tail(Pkts(batch[q], content))
        BY <1>4, <2>1, <3>2
      <3>5. MuxLine' = MuxLine
        BY <1>0, <3>4 DEF MuxLine
      <3>6. Pkts(tx'[q], content') = Append(Pkts(tx[q], content), content[f].pkt)
        <4>1. f \notin RangeOf(tx[q])
          <5>1. <<"batch", q>> \in Places /\ <<"tx", q>> \in Places
            BY PlaceFacts
          <5>2. f \in RangeOf(Held[<<"batch", q>>])
            BY <1>0, <1>3, <2>1, HeldFacts, TailFacts DEF f
          <5> QED
            BY <5>1, <5>2, HeldFacts DEF OwnInv, Exclusive
        <4>2. \A g \in RangeOf(tx[q]) : g \in Frames /\ content'[g].pkt \in Packet
          BY <1>0, <3>2, <4>1 DEF RangeOf
        <4>3. f \in Frames /\ content'[f].pkt \in Packet
          BY <1>3, <2>1, <3>3
        <4>4. Pkts(Append(tx[q], f), content') = Append(Pkts(tx[q], content'), content'[f].pkt)
          BY <1>0, <4>2, <4>3, PktsAppend
        <4> QED
          BY <3>1, <3>3, <3>4, <4>4
      <3>7. \A r \in Queues : /\ <<"tx", r>> \notin {here, b} => Pkts(tx'[r], content') = Pkts(tx[r], content)
                              /\ <<"batch", r>> \notin {here, b} => Pkts(batch'[r], content') = Pkts(batch[r], content)
                              /\ <<"rx", r>> \notin {here, b} => Pkts(rx'[r], content') = Pkts(rx[r], content)
        BY <1>3, <2>1, <3>1, <3>4
      <3>8. \A p \in LinePlaces : p # here /\ p # b => Lines'[p] = Lines[p]
        BY <1>0, <3>5, <3>7, OtherLines
      <3>9. /\ Lines[here] # <<>> /\ Lines'[here] = Tail(Lines[here])
            /\ Lines'[b] = Append(Lines[b], Head(Lines[here]))
            /\ b \in LinePlaces /\ here \in LinePlaces /\ Rank(here) = Rank(b) + 1
        <4>1. /\ Lines[b] = Pkts(tx[q], content) /\ Lines'[b] = Pkts(tx'[q], content')
              /\ Lines[here] = Pkts(batch[q], content) /\ Lines'[here] = Pkts(batch'[q], content')
          BY LineFacts, LineFactsNext
        <4>2. b \in LinePlaces /\ here \in LinePlaces /\ Rank(here) = 3 /\ Rank(b) = 2
          BY RankFacts
        <4> HIDE DEF b, here
        <4> QED
          BY <1>3, <2>1, <3>4, <3>6, <4>1, <4>2
      <3>10. here[1] \in {"tx", "batch", "rx"} /\ here[2] = b[2]
        OBVIOUS
      <3> HIDE DEF b, here
      <3>11. Advances(Lines, Lines', here, b)
        BY <3>8, <3>9, <3>10 DEF Advances
      <3> QED
        BY <3>9, <3>11 DEF Orderly
    <2>3. CASE PoolFree(f) /\ UNCHANGED tx
      BY <1>5, <2>1, <2>3
    <2> QED
      BY <1>6, <2>2, <2>3 DEF RewForward
  <1>7. CASE RewDrop(q)
    BY <1>5, <1>7 DEF RewDrop
  <1> QED
    BY <1>1, <1>2, <1>6, <1>7 DEF Rewriter

\* What the muxer sends is the beginning of its batch.
LEMMA SendLines ==
    ASSUME TypeInv, ContentInv, LogTyped, WireInv', OrderSend
    PROVE  Sends(Lines, Lines') /\ LogTyped'
  <1>0. /\ MuxSend /\ log' = log \o wire' /\ arrived' = arrived
        /\ muxPc = "send" /\ muxPc' = "free"
        /\ UNCHANGED <<content, rx, tx, batch, steerBuf>>
    BY DEF OrderSend, MuxSend, steerVars, rewVars
  <1>1. PICK n \in 0 .. Len(muxBatch) : wire' = [i \in 1 .. n |-> content[muxBatch[i]]]
    BY <1>0 DEF MuxSend
  <1>2. /\ muxBatch \in Seq(Frames) /\ \A f \in RangeOf(muxBatch) : content[f].pkt \in Packet
        /\ content \in [Frames -> Stored \cup {NoPacket}]
    BY QueuePkts DEF TypeInv, TypeOK
  <1>3. n \in Nat /\ n <= Len(muxBatch) /\ Len(muxBatch) \in Nat
    BY <1>1, <1>2
  <1>4. wire' \in Seq(Stored) /\ Len(wire') = n
    <2>1. ASSUME NEW i \in 1 .. n PROVE content[muxBatch[i]] \in Stored
      <3>1. i \in DOMAIN wire' /\ wire'[i] = content[muxBatch[i]]
        BY <1>1
      <3>2. wire'[i] # NoPacket
        BY <3>1 DEF WireInv
      <3>3. muxBatch[i] \in Frames
        BY <1>2, <1>3
      <3> QED
        BY <1>2, <3>1, <3>2, <3>3
    <2> QED
      BY <1>1, <1>3, <2>1
  <1>5. log \in Seq(Stored) /\ Len(log) \in Nat /\ DOMAIN log = 1 .. Len(log)
    BY DEF LogTyped
  <1>6. /\ log' \in Seq(Stored) /\ Len(log') = Len(log) + n
        /\ \A i \in 1 .. (Len(log) + n) : log'[i] = IF i <= Len(log) THEN log[i] ELSE wire'[i - Len(log)]
    BY <1>0, <1>4, <1>5, ConcatProperties
  <1>7. DOMAIN log' = 1 .. (Len(log) + n)
    BY <1>6
  <1>8. /\ DOMAIN LogLine' = 1 .. (Len(log) + n)
        /\ \A i \in 1 .. (Len(log) + n) : LogLine'[i] = log'[i].pkt
        /\ DOMAIN LogLine = 1 .. Len(log) /\ Len(LogLine) = Len(log)
        /\ \A i \in 1 .. Len(log) : LogLine[i] = log[i].pkt
    BY <1>5, <1>7 DEF LogLine
  <1>9. \A i \in 1 .. Len(log) : LogLine'[i] = LogLine[i]
    <2> SUFFICES ASSUME NEW i \in 1 .. Len(log) PROVE LogLine'[i] = LogLine[i]
      OBVIOUS
    <2>1. i \in 1 .. (Len(log) + n) /\ i <= Len(log)
      BY <1>3, <1>5
    <2>2. log'[i] = log[i]
      BY <1>6, <2>1
    <2> QED
      BY <1>8, <2>1, <2>2
  <1>10. MuxLine = Pkts(muxBatch, content) /\ MuxLine' = <<>>
    BY <1>0 DEF MuxLine
  <1>11. Len(MuxLine) = Len(muxBatch) /\ \A i \in 1 .. Len(muxBatch) : MuxLine[i] = content[muxBatch[i]].pkt
    BY <1>2, <1>10, PktsType
  <1>12. \A i \in 1 .. n : LogLine'[Len(log) + i] = MuxLine[i]
    <2> SUFFICES ASSUME NEW i \in 1 .. n PROVE LogLine'[Len(log) + i] = MuxLine[i]
      OBVIOUS
    <2>1. /\ Len(log) + i \in 1 .. (Len(log) + n) /\ ~(Len(log) + i <= Len(log))
          /\ Len(log) + i - Len(log) = i /\ i \in 1 .. Len(muxBatch)
      BY <1>3, <1>5
    <2>2. log'[Len(log) + i] = wire'[i]
      BY <1>6, <2>1
    <2>3. wire'[i] = content[muxBatch[i]]
      BY <1>1
    <2>4. LogLine'[Len(log) + i] = log'[Len(log) + i].pkt
      BY <1>8, <2>1
    <2> QED
      BY <1>11, <2>1, <2>2, <2>3, <2>4
  <1>13. ASSUME NEW p \in LinePlaces, p[1] \notin {"log", "mux"}
         PROVE  Lines'[p] = Lines[p]
    <2>1. p = <<"buf", 0>> \/ \E q \in Queues : p = <<"tx", q>> \/ p = <<"batch", q>> \/ p = <<"rx", q>>
      BY <1>13, LinePlaceFacts
    <2> QED
      BY <1>0, <2>1, LineFacts, LineFactsNext
  <1>14. /\ Lines[<<"log", 0>>] = LogLine /\ Lines'[<<"log", 0>>] = LogLine'
         /\ Lines[<<"mux", 0>>] = MuxLine /\ Lines'[<<"mux", 0>>] = <<>>
    BY <1>10, LineFacts, LineFactsNext
  <1>15. n \in 0 .. Len(MuxLine)
    BY <1>3, <1>11
  <1>16. Sends(Lines, Lines')
    BY <1>8, <1>9, <1>12, <1>13, <1>14, <1>15 DEF Sends
  <1> QED
    BY <1>0, <1>6, <1>16 DEF LogTyped

LEMMA MuxerLines ==
    ASSUME TypeInv, OwnInv, ContentInv, UNCHANGED log,
           MuxCheck \/ MuxPop \/ MuxNextQueue \/ MuxDrained \/ MuxFree
    PROVE  Orderly
  <1> DEFINE b == <<"mux", 0>>
  <1>0. /\ LogLine' = LogLine /\ UNCHANGED <<steerBuf, rx, batch>>
        /\ muxBatch \in Seq(Frames) /\ \A g \in RangeOf(muxBatch) : content[g].pkt \in Packet
    BY QueuePkts DEF MuxCheck, MuxPop, MuxNextQueue, MuxDrained, MuxFree, LogLine, steerVars, rewVars
  <1>1. CASE MuxCheck \/ MuxNextQueue \/ MuxDrained
    <2>1. UNCHANGED <<tx, content, muxBatch>> /\ muxPc # "free" /\ muxPc' # "free"
      BY <1>1 DEF MuxCheck, MuxNextQueue, MuxDrained
    <2>2. Lines' = Lines
      BY <1>0, <2>1, SameLines DEF MuxLine
    <2> QED
      BY <2>2 DEF Orderly
  <1>2. CASE MuxPop
    <2> DEFINE a == <<"tx", muxQ>>
               x == Head(tx[muxQ])
    <2>0. muxQ \in Queues
      BY <1>2, SizesAssumption DEF MuxPop, TypeInv, TypeOK, Queues
    <2>1. /\ tx[muxQ] # <<>> /\ tx'[muxQ] = Tail(tx[muxQ]) /\ muxBatch' = Append(muxBatch, x)
          /\ \A r \in Queues : r # muxQ => tx'[r] = tx[r]
          /\ UNCHANGED content /\ muxPc # "free" /\ muxPc' # "free"
          /\ tx[muxQ] \in Seq(Frames) /\ \A g \in RangeOf(tx[muxQ]) : content[g].pkt \in Packet
      BY <1>2, <2>0, QueuePkts DEF MuxPop, TypeInv, TypeOK
    <2>2. x \in Frames /\ content[x].pkt \in Packet
      BY <2>1, TailFacts
    <2>3. /\ Pkts(tx[muxQ], content) # <<>> /\ Head(Pkts(tx[muxQ], content)) = content[x].pkt
          /\ Pkts(tx'[muxQ], content') = Tail(Pkts(tx[muxQ], content))
      <3>1. /\ Pkts(tx[muxQ], content) # <<>> /\ Head(Pkts(tx[muxQ], content)) = content[x].pkt
            /\ Pkts(Tail(tx[muxQ]), content) = Tail(Pkts(tx[muxQ], content))
        BY <2>1, PktsTail
      <3> QED
        BY <2>1, <3>1
    <2> HIDE DEF x
    <2>4. MuxLine' = Append(MuxLine, content[x].pkt)
      <3>1. Pkts(Append(muxBatch, x), content) = Append(Pkts(muxBatch, content), content[x].pkt)
        BY <1>0, <2>2, PktsAppend
      <3> QED
        BY <2>1, <3>1 DEF MuxLine
    <2>5. \A r \in Queues : /\ <<"tx", r>> \notin {a, b} => Pkts(tx'[r], content') = Pkts(tx[r], content)
                            /\ <<"batch", r>> \notin {a, b} => Pkts(batch'[r], content') = Pkts(batch[r], content)
                            /\ <<"rx", r>> \notin {a, b} => Pkts(rx'[r], content') = Pkts(rx[r], content)
      BY <1>0, <2>1
    <2>6. \A p \in LinePlaces : p # a /\ p # b => Lines'[p] = Lines[p]
      BY <1>0, <2>5, OtherLines
    <2>7. /\ Lines[a] # <<>> /\ Lines'[a] = Tail(Lines[a])
          /\ Lines'[b] = Append(Lines[b], Head(Lines[a]))
          /\ a \in LinePlaces /\ b \in LinePlaces /\ Rank(a) = Rank(b) + 1
      <3>1. /\ Lines[a] = Pkts(tx[muxQ], content) /\ Lines'[a] = Pkts(tx'[muxQ], content')
            /\ Lines[b] = MuxLine /\ Lines'[b] = MuxLine'
        BY <2>0, LineFacts, LineFactsNext
      <3>2. a \in LinePlaces /\ b \in LinePlaces /\ Rank(a) = 2 /\ Rank(b) = 1
        BY <2>0, RankFacts
      <3> HIDE DEF a, b
      <3> QED
        BY <2>3, <2>4, <3>1, <3>2
    <2>8. b[1] \notin {"tx", "batch", "rx"}
      OBVIOUS
    <2> HIDE DEF a, b
    <2>9. Advances(Lines, Lines', a, b)
      BY <2>6, <2>7, <2>8 DEF Advances
    <2> QED
      BY <2>7, <2>9 DEF Orderly
  <1>3. CASE MuxFree
    <2>1. /\ muxPc = "free" /\ muxBatch # <<>> /\ UNCHANGED tx /\ PoolFree(Head(muxBatch))
          /\ muxPc' = "free" \/ muxBatch' = <<>>
      BY <1>3 DEF MuxFree, TypeInv, ControlOK
    <2>2. MuxLine = <<>> /\ MuxLine' = <<>>
      BY <2>1 DEF MuxLine, Pkts
    <2>3. /\ b \in Places /\ Held[b] # <<>> /\ Head(Held[b]) = Head(muxBatch)
          /\ \A g \in Frames : g # Head(muxBatch) => content'[g] = content[g]
      BY <2>1, PlaceFacts, HeldFacts DEF PoolFree, TypeInv, TypeOK
    <2>4. \A q \in Queues : b # <<"tx", q>> /\ b # <<"batch", q>> /\ b # <<"rx", q>>
      OBVIOUS
    <2> HIDE DEF b
    <2>5. \A q \in Queues : /\ Pkts(tx[q], content') = Pkts(tx[q], content)
                            /\ Pkts(batch[q], content') = Pkts(batch[q], content)
                            /\ Pkts(rx[q], content') = Pkts(rx[q], content)
      BY <2>3, <2>4, Elsewhere
    <2>6. \A q \in Queues : /\ Pkts(tx'[q], content') = Pkts(tx[q], content)
                            /\ Pkts(batch'[q], content') = Pkts(batch[q], content)
                            /\ Pkts(rx'[q], content') = Pkts(rx[q], content)
      BY <1>0, <2>1, <2>5
    <2>7. Lines' = Lines
      BY <1>0, <2>2, <2>6, SameLines
    <2> QED
      BY <2>7 DEF Orderly
  <1> QED
    BY <1>1, <1>2, <1>3

OrderInv == SteerInv /\ LogTyped /\ LineInv

LEMMA InitOrder == OrderInit => Init /\ OrderInv
  <1> SUFFICES ASSUME OrderInit PROVE OrderInv
    BY DEF OrderInit
  <1>1. SteerInv
    BY DEF OrderInit, Init, SteerInv
  <1>2. LogTyped
    BY DEF OrderInit, LogTyped
  <1>3. LogLine = <<>> /\ MuxLine = <<>> /\ steerBuf = <<>>
    BY DEF OrderInit, Init, LogLine, MuxLine, Pkts
  <1>4. ASSUME NEW q \in Queues
        PROVE  Pkts(tx[q], content) = <<>> /\ Pkts(batch[q], content) = <<>> /\ Pkts(rx[q], content) = <<>>
    BY DEF OrderInit, Init, Pkts
  <1>5. \A p \in LinePlaces : Lines[p] = <<>>
    BY <1>3, <1>4, LineFacts, LinePlaceFacts
  <1>6. LineInv
    BY <1>5 DEF LineInv, Sorted, Routed, Counted
  <1> QED
    BY <1>1, <1>2, <1>6 DEF OrderInv

LEMMA NextSteer ==
    ASSUME TypeInv, OwnInv, SteerInv, [Next]_vars
    PROVE  SteerInv'
  <1>1. CASE UNCHANGED steerVars
    <2>0. UNCHANGED <<steerPc, steerBuf, steerFrame>>
      BY <1>1 DEF steerVars
    <2>1. ASSUME steerPc = "push" PROVE content'[steerFrame] = content[steerFrame]
      <3>1. /\ steerFrame # NoFrame /\ steerFrame \in Frames
            /\ Held[<<"steer", 0>>] = <<steerFrame>> /\ Held'[<<"steer", 0>>] = <<steerFrame>>
        BY <2>0, <2>1, HeldFacts, HeldFactsNext DEF TypeInv, TypeOK, ControlOK, SteerHeld
      <3>2. CASE Stays
        BY <3>2 DEF Stays
      <3>3. ASSUME NEW a \in Places, NEW b \in Places, Moved(Held, Held', a, b), Carried(a, b)
            PROVE  content'[steerFrame] = content[steerFrame]
        <4>1. a # <<"steer", 0>>
          <5>1. Tail(<<steerFrame>>) # <<steerFrame>>
            OBVIOUS
          <5> QED
            BY <3>1, <3>3, <5>1 DEF Moved
        <4>2. Head(Held[a]) \in RangeOf(Held[a])
          BY <3>3, HeldType, TailFacts DEF Moved, TypeInv
        <4>3. steerFrame \in RangeOf(Held[<<"steer", 0>>])
          BY <3>1 DEF RangeOf
        <4>4. steerFrame # Head(Held[a])
          BY <4>1, <4>2, <4>3, PlaceFacts DEF OwnInv, Exclusive
        <4> QED
          BY <3>1, <3>3, <4>4 DEF Carried
      <3> QED
        BY <3>2, <3>3, StepMoves DEF HandsOver
    <2> QED
      BY <2>0, <2>1 DEF SteerInv
  <1>2. CASE SteerRecv
    BY <1>2 DEF SteerRecv, SteerRecvBatch, SteerInv
  <1>3. CASE SteerAlloc
    <2>1. Head(free) \in Frames
      BY <1>3, TailFacts DEF SteerAlloc, TypeInv, TypeOK
    <2>2. content'[Head(free)] = [pkt |-> Head(steerBuf), encap |-> 0]
      BY <1>3, <2>1 DEF SteerAlloc, TypeInv, TypeOK
    <2> QED
      BY <1>3, <2>2 DEF SteerAlloc, SteerInv
  <1>4. CASE SteerExhausted \/ SteerPush
    BY <1>4 DEF SteerExhausted, SteerPush, SteerAdvance, SteerInv
  <1>5. CASE SteerExit
    BY <1>5 DEF SteerExit, SteerInv
  <1>6. ASSUME NEW q \in Queues, Rewriter(q) PROVE UNCHANGED steerVars
    BY <1>6 DEF Rewriter, RewCheck, RewPop, RewDrained, RewForward, RewDrop
  <1>7. Muxer => UNCHANGED steerVars
    BY DEF Muxer, MuxCheck, MuxPop, MuxNextQueue, MuxDrained, MuxSend, MuxFree
  <1> QED
    BY <1>1, <1>2, <1>3, <1>4, <1>5, <1>6, <1>7 DEF Next, Steering, Shutdown, Terminated, vars

\* Whatever a thread does, the lines stay in order.
LEMMA OrderlyKeepsOrder ==
    ASSUME Lines \in AllLines, LineInv, Orderly, UNCHANGED arrived
    PROVE  LineInv'
  <1> DEFINE Good(M) == Sorted(M) /\ Routed(M) /\ Counted(M, arrived)
  <1>1. Good(Lines)
    BY DEF LineInv
  <1>2. Good(Lines')
    <2>1. ASSUME NEW a \in LinePlaces, NEW b \in LinePlaces, Advances(Lines, Lines', a, b)
          PROVE  Good(Lines')
      BY <1>1, <2>1, AdvanceKeepsOrder
    <2>2. ASSUME NEW a \in LinePlaces, Sheds(Lines, Lines', a)
          PROVE  Good(Lines')
      BY <1>1, <2>2, ShedKeepsOrder
    <2>3. CASE Sends(Lines, Lines')
      BY <1>1, <2>3, SendKeepsOrder
    <2>4. CASE Lines' = Lines
      BY <1>1, <2>4
    <2> HIDE DEF Good
    <2> QED
      BY <2>1, <2>2, <2>3, <2>4 DEF Orderly
  <1> QED
    BY <1>2 DEF LineInv, Sorted, Routed, Counted

LEMMA RecvLines ==
    ASSUME TypeInv, ContentInv, SteerInv, LogTyped, LineInv, OrderRecv
    PROVE  LineInv' /\ LogTyped'
  <1>1. PICK b \in SeqsUpTo(Packet, BatchSize) :
          /\ Numbered(b) /\ SteerRecvBatch(b)
          /\ arrived' = [fl \in Flows |-> arrived[fl] + CountFlow(b, fl, Len(b))]
    BY DEF OrderRecv
  <1>2. b \in Seq(Packet)
    <2>1. PICK k \in 1 .. BatchSize : b \in [1 .. k -> Packet]
      BY DEF SeqsUpTo
    <2>2. k \in Nat
      BY SizesAssumption
    <2> QED
      BY <2>1, <2>2
  <1>3. /\ arrived' \in [Flows -> Nat]
        /\ \A fl \in Flows : arrived[fl] <= arrived'[fl]
        /\ \A i \in DOMAIN b : /\ b[i].label \in Nat
                               /\ arrived[b[i].flow] < b[i].label
                               /\ b[i].label <= arrived'[b[i].flow]
        /\ \A i, j \in DOMAIN b : i < j => Before(b[i], b[j])
    BY <1>1, <1>2, NumberedFacts DEF LogTyped
  <1>4. /\ steerPc = "check" /\ steerBuf' = b
        /\ UNCHANGED <<content, rx, tx, batch, muxPc, muxBatch, log>>
    BY <1>1 DEF SteerRecvBatch, OrderRecv, rewVars, muxVars
  <1>5. Receives(Lines, Lines', b)
    <2>1. LogLine' = LogLine /\ MuxLine' = MuxLine
      BY <1>4 DEF LogLine, MuxLine
    <2>2. \A q \in Queues : /\ Pkts(tx'[q], content') = Pkts(tx[q], content)
                            /\ Pkts(batch'[q], content') = Pkts(batch[q], content)
                            /\ Pkts(rx'[q], content') = Pkts(rx[q], content)
      BY <1>4
    <2>3. \A p \in LinePlaces : p # <<"buf", 0>> => Lines'[p] = Lines[p]
      <3> DEFINE a == <<"buf", 0>>
      <3>1. <<"buf", 0>> # a => steerBuf' = steerBuf
        OBVIOUS
      <3> HIDE DEF a
      <3>2. \A p \in LinePlaces : p # a => Lines'[p] = Lines[p]
        BY <2>1, <2>2, <3>1, OtherLine
      <3> QED
        BY <3>2 DEF a
    <2> QED
      BY <1>4, <2>3, LineFactsNext DEF Receives
  <1>6. Lines[<<"buf", 0>>] = <<>> /\ Lines \in AllLines
    BY <1>4, LineFacts, LinesType DEF SteerInv
  <1>7. Sorted(Lines') /\ Routed(Lines') /\ Counted(Lines', arrived')
    <2>1. arrived \in [Flows -> Nat] /\ Sorted(Lines) /\ Routed(Lines) /\ Counted(Lines, arrived)
      BY DEF LogTyped, LineInv
    <2> QED
      BY <1>2, <1>3, <1>5, <1>6, <2>1, ReceiveKeepsOrder
  <1> QED
    BY <1>3, <1>4, <1>7 DEF LineInv, LogTyped, Sorted, Routed, Counted

LEMMA OrderIsNext == [OrderNext]_orderVars => [Next]_vars
  <1>1. OrderRecv => Steering
    BY DEF OrderRecv, Steering, SteerRecv
  <1>2. OrderSend => Muxer
    BY DEF OrderSend, Muxer
  <1>3. OrderOther => Next
    BY DEF OrderOther, Next, Steering, Muxer
  <1> QED
    BY <1>1, <1>2, <1>3 DEF OrderNext, Next, orderVars

LEMMA NextOrder ==
    ASSUME FullInv, ContentInv, WireInv', OrderInv, [OrderNext]_orderVars
    PROVE  OrderInv'
  <1>0. TypeInv /\ OwnInv /\ SteerInv /\ LogTyped /\ LineInv /\ Lines \in AllLines
    BY LinesType DEF FullInv, OrderInv
  <1>1. SteerInv'
    BY <1>0, OrderIsNext, NextSteer
  <1>2. CASE OrderRecv
    BY <1>0, <1>1, <1>2, RecvLines DEF OrderInv
  <1>3. CASE OrderSend
    <2>1. Orderly /\ LogTyped' /\ UNCHANGED arrived
      BY <1>0, <1>3, SendLines DEF Orderly, OrderSend
    <2> QED
      BY <1>0, <1>1, <2>1, OrderlyKeepsOrder DEF OrderInv
  <1>4. CASE OrderOther \/ UNCHANGED orderVars
    <2>1. UNCHANGED <<arrived, log>>
      BY <1>4 DEF OrderOther, orderVars
    <2>2. ASSUME NEW q \in Queues, Rewriter(q) PROVE Orderly
      BY <1>0, <2>1, <2>2, RewriterLines
    <2>3. ASSUME SteerAlloc \/ SteerExhausted \/ SteerPush \/ SteerExit PROVE Orderly
      BY <1>0, <2>1, <2>3, SteeringLines
    <2>4. ASSUME MuxCheck \/ MuxPop \/ MuxNextQueue \/ MuxDrained \/ MuxFree PROVE Orderly
      BY <1>0, <2>1, <2>4, MuxerLines
    <2>5. ASSUME Shutdown \/ Terminated \/ UNCHANGED orderVars PROVE Orderly
      <3>1. UNCHANGED <<rx, tx, batch, content, steerBuf, muxPc, muxBatch, log>>
        BY <2>1, <2>5 DEF Shutdown, Terminated, orderVars, vars, steerVars, rewVars, muxVars
      <3>2. Lines' = Lines
        BY <3>1, SameLines DEF LogLine, MuxLine
      <3> QED
        BY <3>2 DEF Orderly
    <2>6. Orderly
      BY <1>4, <2>2, <2>3, <2>4, <2>5 DEF OrderOther
    <2>7. LineInv'
      BY <1>0, <2>1, <2>6, OrderlyKeepsOrder
    <2> QED
      BY <1>0, <1>1, <2>1, <2>7 DEF OrderInv, LogTyped
  <1> QED
    BY <1>2, <1>3, <1>4 DEF OrderNext

\* PerFlowOrder: for any number of rewriters, any capacities, whatever is
\* dropped, and however much arrives, the packets of a flow are sent in the
\* order in which they came, and none is sent twice.
THEOREM FlowsKeepTheirOrder == OrderSpec => []PerFlowOrder
  <1> DEFINE Inv == FullInv /\ ContentInv /\ WireInv /\ QueuesBounded /\ OrderInv
  <1>1. OrderInit => Inv
    BY InitOrder, InitTypeInv, InitOwnInv, InitContent DEF FullInv
  <1>2. Inv /\ [OrderNext]_orderVars => Inv'
    <2> SUFFICES ASSUME Inv, [OrderNext]_orderVars PROVE Inv'
      OBVIOUS
    <2>1. [Next]_vars
      BY OrderIsNext
    <2>2. FullInv' /\ ContentInv' /\ WireInv' /\ QueuesBounded'
      BY <2>1, NextTypeInv, NextOwnInv, NextContent, NextWire, NextBounds DEF FullInv
    <2>3. OrderInv'
      BY <2>2, NextOrder
    <2> QED
      BY <2>2, <2>3
  <1>3. Inv => PerFlowOrder
    <2> SUFFICES ASSUME OrderInv, NEW i \in DOMAIN log, NEW j \in DOMAIN log, i < j,
                        log[i].pkt.flow = log[j].pkt.flow
                 PROVE  log[i].pkt.label < log[j].pkt.label
      BY DEF PerFlowOrder
    <2> DEFINE out == <<"log", 0>>
    <2>1. Lines[out] = LogLine /\ out \in LinePlaces
      BY LineFacts, RankFacts
    <2>2. DOMAIN LogLine = DOMAIN log /\ LogLine[i] = log[i].pkt /\ LogLine[j] = log[j].pkt
      BY DEF LogLine
    <2>3. Before(Lines[out][i], Lines[out][j])
      BY <2>1, <2>2 DEF OrderInv, LineInv, Sorted, Ahead
    <2> QED
      BY <2>1, <2>2, <2>3 DEF Before
  <1> QED
    BY <1>1, <1>2, <1>3, PTL DEF OrderSpec
=============================================================================
