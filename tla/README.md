# A TLA+ model of lb

`lb` is a layer-4 load balancer in Rust. A node reads packets for virtual IPs
(VIPs) from an AF_XDP socket, picks a backend by Maglev hashing with a
connection table in front of it, puts a GRE header before the packet and sends
it on. A control plane follows a configuration file and backend health, builds
the lookup tables and announces the VIPs over BGP. This directory holds TLA+
modules of the parts whose correctness depends on interleavings, failures and
long sequences of calls, the TLC runs that check them, and TLAPS proofs about
all of them. `PROJECT.json` names for every definition the source lines it
stands for.

Paths below are relative to `src/crates/`.

## 1. Inventory

| Component | State | Operations | Interacts with |
|---|---|---|---|
| Multi-threaded forwarder (`lb-forwarder/src/threading.rs`, `packet_pool.rs`, `steering.rs`) | frame pool, free list, one rx and one tx queue per rewriter, each thread's batch | steering: receive, alloc, push; rewriter: drain, decide, push or free; muxer: drain, send, free; shutdown | passes frame *indices* through lock-free queues; frames are reached through an `UnsafeCell` |
| Connection table (`conn_table.rs`) | slots, size counter | get, touch, insert (Robin Hood), mark_established, mark_closing | one per rewriter thread, called for each packet |
| Fragment table (`fragment_table.rs`) | slots | get, insert (Robin Hood) | one per worker; written by first fragments, read by later ones |
| Rewriter decision (`threading.rs` 394-558, `rewriter.rs`) | ICMP limiter | parse, match VIP, look up table, connection table, fragment table, oversize check, encapsulate | reads the matcher and the tables once per batch and the health map for each packet |
| Packet formats (`lb-types/src/packet.rs`, `gre.rs`, `icmp.rs`) | none | parse, hash, tell fragments, write GRE, outer IP and ICMP headers | called by steering and the rewriters |
| Controller (`lb-controller/src/orchestrator.rs`) | config, tables, backend index, pending pools, debounce window, announced VIPs | apply_config, on_health_change, tick, flush_pending, reannounce_all, withdraw_all | swaps the tables, commands the speaker, called by three tasks under one mutex |
| Table building, validation, cache (`lb-config-manager`) | none | build tables, validate, write cache | called by the controller |
| Config watcher and reload (`watcher.rs`, `lb-node/src/main.rs`) | pending inotify events, channel to the apply-task | initial load, watch, reload, two pointer swaps | file system, apply-task, data-plane workers |
| BGP speaker (`lb-bgp/src/speaker.rs`) | per peer: task, command channel, connection, backoff; one event channel | announce, withdraw, connect, drive, shutdown | controller (commands), event pump (events), the peer |
| Node wiring (`lb-node/src/main.rs`) | shutdown flag, gauges | boot, event pump, signal handler | everything |
| Maglev hashing (`lb-hashing`) | lookup table | build, lookup | controller, rewriter |
| Health checker and probes (`lb-health`) | per (ip, port) threshold state machine, status map keyed by ip | probe in stages, record_result, publish | written for the controller, but not started by lb-node |
| BGP messages (`messages.rs`, `take_message`) | receive buffer | encode, parse, take_message | the byte stream of a session |
| AF_XDP I/O (`lb-io/src/af_xdp.rs`) | UMEM frames, four rings, TX free list | new, recv_batch, send_batch | the kernel through shared rings; one thread of the per-queue mode |
| MSS clamping (`mss_clamp.rs`, `lb-types/src/mtu.rs`) | none | clamp_mss | called for each packet of a VIP |
| Metrics, ops server, CLI | counters | | all |

What makes the behaviour hard, and what has to hold:

* **Forwarder.** Four kinds of threads, full queues, an empty pool. No frame
  index may ever be held twice (the `unsafe` code in `PacketPool` is sound only
  then), none may be lost, a flow's packets stay in order, a packet leaves
  encapsulated exactly once, shutdown ends.
* **Connection table.** The lookup stops early because Robin Hood hashing keeps
  entries ordered by probe distance; insertion, displacement and lazy reclaim
  of expired slots must keep what the lookup relies on. The size counter must
  match the slots. A Closing flow must not come back.
* **Per-packet decision.** Tables and health change while a batch is processed.
  Fragments must follow their first fragment, a failed backend must lose its
  flows, the ICMP replies of any second are bounded.
* **Packet formats.** Steering, rewriter and fragment table each read the header for
  themselves. They must agree on the flow of a packet, with IP options, fragments and
  IPv6; what leaves must be what came, and a reply must reach its sender.
* **Controller.** BGP is reconciled at once, tables are rebuilt lazily, both from
  health and configuration that change meanwhile. Announcements must equal what
  health calls for; no stale table, no table of a removed pool, no pending
  rebuild without a window that ends.
* **Speaker.** Commands sent to a peer that is down are dropped and replaced by a
  re-announcement that an event triggers, possibly for a session that is already
  gone. The router must neither keep a withdrawn VIP nor miss an announced one.
* **Reload.** Events lag behind changes; two pointers are swapped one by one and
  read one by one. Nothing older may replace something newer; the last valid
  file must get into force.
* **AF_XDP.** Program and kernel share one memory area and hand frames over by
  four rings, with no lock and no check. No frame may be used by both, none may
  get lost, and a kernel that has gone to sleep must be woken.
* **Health checker.** Two counters decide all transitions; several probes write
  one map entry.
* **Maglev, BGP bytes, MSS.** The filling must end and give exact shares; length
  fields and framing must agree however TCP cuts the stream; a rewritten SYN
  needs an MSS that fits and a valid checksum.

The full list of hazards, each at its source line with the properties that
cover it, is in `PROJECT.json`.

## 2. Modules

| Module | Models | Proved about in |
|---|---|---|
| `FrameLifecycle` | abstract: a frame index moves along the lifecycle that the head of `packet_pool.rs` draws | `PipelineProofs` |
| `Pipeline` | the forwarder in `start` mode, one action per shared queue operation | `PipelineProofs` |
| `PipelineOrder` | `Pipeline` with numbered packets and a log of what was sent | `PipelineProofs` |
| `ConnTable` | the connection table under the rewriter's calls, insert one probe per action | `ConnTableProofs` |
| `FragmentTable` | operators: lookup and Robin Hood insert of the fragment table | `RewriterProofs` |
| `Rewriter` | the per-packet decision of one or several workers, on `FragmentTable` | `RewriterProofs` |
| `PacketPath` | the bytes of a packet from steering to the tunnel or the ICMP reply | |
| `Controller` | the orchestrator with table building and validation | `ControllerProofs` |
| `BgpSpeaker` | session tasks, fan-out, event pump, signal handler | `BgpSpeakerProofs` |
| `ConfigReload` | boot, watcher, apply-task, workers' two loads | `WatchProofs` |
| `UmemOwnership` | abstract: who may hold a UMEM frame, and where it goes next | `AfXdpProofs` |
| `AfXdp` | one AF_XDP socket, its thread (`run_per_queue`) and the kernel; implements `UmemOwnership` | `AfXdpProofs` |
| `HealthChecker` | probe tasks, thresholds, the status map | `WatchProofs` |
| `MaglevTable` | the filling of a lookup table, one look at a slot per step | `AlgorithmProofs` |
| `BgpWire` | encoders, parsers and `take_message`, byte by byte, under a peer's stream | `AlgorithmProofs` |
| `MssClamp` | `clamp_mss`, one TCP option per step, byte by byte | `AlgorithmProofs` |
| `MCNodeParts` | `ConfigReload`, `HealthChecker`, `MaglevTable`, `BgpWire`, `MssClamp` and `PacketPath` side by side | |
| other `MC*` | instances for TLC; `MCPacketPath` has the packets of `PacketPath` | |

### Pipeline

`free`, `rx`, `tx` are the free list and the queues; `content` is what the bytes
of a frame hold: a packet and how many GRE headers are before it. Each thread has
a program counter (`steerPc`, `rewPc[q]`, `muxPc`) and its local batch. One action
is one operation on a shared queue; a refused push and the free that follows it
are one action, because between them the index is in the hands of one thread and
no other thread can observe the difference. What a rewriter decides is a choice
between `RewForward` and `RewDrop`; `RewForward` is open to the flows in
`Forwardable` only. `Parsed` are the flows steering can parse, others go to
queue 0: IPv6 flows are parsed and never forwarded, short non-first fragments
are not parsed and may be forwarded.

`PoolFree` forgets the bytes of a freed frame. The real frame keeps them, but a
thread that read them would break the ownership protocol; the model makes such
a read visible as `NoPacket` on the wire.

`FrameLifecycle` is implemented with `owner` as the refinement mapping: the place
(free list, steering, rx queue, rewriter, tx queue, muxer) that holds each index.

### ConnTable

An entry has a hash, a backend, a TCP state and an age, `now - last_seen`, that
`Tick` raises between packets and that saturates when every TTL is exceeded.
`Found` is the slot where the probe loop of `get` stops on a match. A packet is
`PacketHit` (get, touch, transition) or `PacketInsert` followed by the iterations
of insert (`InsertEmpty`, `InsertExpired`, `InsertUpdate`, `InsertProbe`), the last
of which applies the TCP transition. `before` and `reclaimed` are history
variables for the properties.

### FragmentTable and Rewriter

`frag_insert` runs `ProbeStep` once per iteration of the loop, as a recursive
function over the number of iterations. `Reclaims` follows the same iterations to see
whether one of them ends in the expired slot of another 3-tuple: an expired slot off the
probe, or an expired mapping of the 3-tuple itself, is not reclaimed. `Rewriter` gives each worker a fragment
table, an ICMP limiter, and `pinned`, the backends its connection table may hold
for a flow: `get` returns any of them or none, which covers expiry, eviction and
the duplicates that `ConnTable` shows. `pick` is what matcher and tables
together offer a flow; it is read at `BatchStart`, health (`unhealthy`) at each
packet, and `Publish` and `SetHealth` may come in between. A packet is
`LaterFragment`, `NoService` or `Serve`. `SizeChecked` tells the per-queue mode
(`rewriter.rs`) from `run_rewriter` (`threading.rs`), which has the same steps but
neither oversize check nor ICMP. `scenario` fixes for each behaviour which
packets arrive and which backends may fail, so that one run adds up two state
spaces instead of multiplying them. `latest`, `damage`, `sent` and `gone` are
history variables for the properties; `sent[w][a]` counts the replies that are at
most `a` ticks old.

### PacketPath

A packet is its bytes, with the 5-tuple its sender means, which the code has to find
in them. `Steer` and `NicSteers` put it into the queue of a rewriter; `Rewrite` is
`LaterFragment`, `NoService` or `Serve` on the bytes of the frame, and leaves what became
of it in `out`, the bytes that are sent included. The decision itself is `Rewriter`'s, with one
pool that does not change; this module is about how a header is read in three places and
written in two. `xxh3` is a constant operator; the run gives it a polynomial hash that separates the
3-tuples and spreads the flows over both rewriters and all backends. `Forget` is
the loss of a mapping by its TTL or by another insert.

### Controller

One action per method; `Configs` is a set of configurations with pools, drains,
weights and the pools each VIP uses. The debounce window is `none`, `open` or
`elapsed`. `rib` adds up the diffs the speaker was given. `build` says which
backends a Maglev table contains: those with a weight, nothing if there is none; then a reload
leaves the pool without a table and a flush leaves it the one it had.
`withdraw_all` starts the drain; `apply_config` may still come, as the
apply-task is not stopped. lb-node itself calls `apply_config`,
`reannounce_all` and `withdraw_all`; `on_health_change`, `tick` and
`flush_pending` are the controller's interface to a health checker that lb-node
does not start yet.

### BgpSpeaker

`task[p]` is where the session task of a peer is: at the head of its loop, in
the TCP connect, waiting for the peer's OPEN, in the select of `drive`, writing
a command one UPDATE at a time, in the backoff, or finished. The command channel
is read at the head (drained), in `drive` and in the backoff (one command ends
it), and not while connecting. `rib[p]` is what the router learned on the present
session; a lost connection clears it. The orchestrator is reduced to
`sync_bgp_announcements` with any desired set. A keepalive that fails, a
NOTIFICATION, the hold timer and a closed connection are the disconnect they
cause, `SessionLost`.

### ConfigReload

`file` is the content with a version; `boot` is the position of `main`: load,
watch, install, run, or `blind` when the first load failed and no watcher exists.
`notes` counts pending inotify events, `queue` is the channel to the apply-task,
which swaps `matcher` and then `tables`. A worker loads them one after the other
for each batch (`snap`). What a configuration says does not matter here; it is a value.

### AfXdp

`fill`, `rx`, `tx` and `completion` are the rings, as sequences of UMEM addresses;
`free_frames` holds frame indices, as in the code, so that the conversions
between the two (and aligning an address with headroom down) are part of the
model. One action is one commit or release of a ring or one copy from or to the
UMEM, and the kernel (`Kernel*`) may step in between any two. `content` is what
the bytes of each frame hold; `Erase` makes them unreliable from the moment a
frame belongs to the kernel again. `send_batch` without a free frame returns
before it looks at `needs_wakeup` (`SendDrain` to `recv`), and what it could not
send is overwritten by the next `recv_batch`. `parked` is the kernel's request to
be woken; `SendWake` may fail, as the code ignores its outcome.

`UmemOwnership` has one variable, the holder of each frame. `AfXdp` implements it with
`Holder` as the refinement mapping, which is `"shared"`, a holder the abstract
specification does not know, when two places have the frame.

### HealthChecker

`stage[k]` is where the task of target `k` is: at its ticker, in a stage of its
probe (`TcpProbe`, `HttpProbe`, `HttpsProbe`: connect, handshake, write, read, each of which
passes or fails by error or timeout), with a result, or about to publish a transition. `status_map` has
one entry for each ip, as in the code, although tasks are per (ip, port).
Results are counted up to the larger threshold. `recent` is a history variable.

### MaglevTable

`params` gives each backend any offset and skip in the ranges of `permutation.rs`,
so the properties hold for whatever the hash function returns. `Skip` is one
turn of the inner loop, `Claim` what follows it. `TableSize` stands for the prime
65537.

### BgpWire

`connect` reads once and looks for an OPEN up to its hold time; the rest of that
read is lost, as in the code. `ReadBytes` takes any number of bytes that are there,
`PopMessage` is one call of `take_message`. `wrote` is the last message written and
why. The transcripts of the run are real messages: one peer closes with a NOTIFICATION,
one offers hold time 0, one sends no OPEN, one sends a header with an
impossible length, one sends an UPDATE with a whole KEEPALIVE in its body.

`FramingIsExact` is about any stream of bytes, so it has to say what exact means once the
framing is lost: `connect` may have cut a message in two, or the peer may have sent
something else. A reader then scans for the next header, and if a message
happens to contain one, as that UPDATE does, it takes the inner message for a real one; the code
cannot tell. The property therefore speaks of a reader that is in sync (`InSync`: it began at a
boundary of the peer's messages) or of a stream that has no header but those of
its messages (`Unambiguous`). An in-sync reader must not be
confused by what is inside a message.

### MssClamp

`tcp` holds the bytes of a TCP header; `ClampInit` builds them as a sender would, with
options from `OptionLists` and a valid checksum. `at` is the loop variable.

## 3. Runs

| Run | Module, bounds | Shows |
|---|---|---|
| `pipeline_two` | 2 rewriters, queues and batches of 1, 6 frames, 2 flows; frames symmetric | `SingleOwner`, `NoFrameLost`; implements `FrameLifecycle` |
| `pipeline_order` | 2 rewriters, batches of 2, queues of 1, a flow and junk, 3 packets | `PerFlowOrder`, `EncapsulatedOnce`, `ShutdownCompletes`, `FramesReturn` |
| `conn_table` | 4 slots, 5 flows of 3 protocols on homes 0 and 3; one protocol outlives the others by a tick | `OnlyDropLosesFlow` with the counter, `PacketIsTracked`; reachability, probe distances and uniqueness, and Closing, until the first reclaim |
| `conn_reach` (violation) | 4 slots, 4 TCP flows | reclaiming a slot hides a live entry |
| `rewriter` | 1 worker, 4 slots; 3 datagrams on 2 homes and 2 backends, or 1 datagram with oversized packets while both backends fail | `FragmentsFollowFirst`, `FragmentsAreFound`, `UnhealthyIsDrained`, `IcmpBounded` |
| `controller` | 2 pools that share a backend of 3, 3 VIPs (one IPv6), 4 configurations | announcements, tables, pending rebuilds |
| `controller_drain` (violation) | the same | a late `apply_config` undoes the drain |
| `bgp_routes` | 2 enabled peers and a disabled one, 1 VIP, channels of 3 | `NoStaleRoute`, `NoMissingRoute`, `GaugeIsAccurate`; `RoutesConverge`, `ShutdownCompletes` if peers answer |
| `bgp_hang` (violation) | 1 peer | a silent peer blocks the shutdown |
| `af_xdp` | rings of 1 or 2 slots with 2 or 4 frames, 3 configurations that are refused, batches of 2, 2 packets, headroom 1 | implements `UmemOwnership`; `PacketsIntact`, `LeakNeedsSpareFrames`, `StallNeedsRefusal`, `TxFrameReturns` |
| `node_parts` | reload: 3 configurations, a malformed file, 3 changes, 1 worker; health: 1 ip with 2 ports, thresholds 2 and 3; Maglev: table of 5, up to 3 backends, all offsets and skips; wire: 5 transcripts; MSS: 4 MTUs, 13 option lists; path: both modes, 2 rewriters, queues of 1, MTU 1280, 12 packets: with and without IP options, cut off, two datagrams of two fragments, one byte too long for the tunnel with and without DF, IPv6, for no VIP | `NeverGoesBack`, `FileIsApplied`; `StatusFollowsRuns`, `MapHasWitness`, `DeadIsReported`; `TableIsFair`; `FramingIsExact`, `OwnMessagesDecode`; `SynFitsTunnel`; `FlowsReachTheirBackend` |
| `mss_checksum` (violation) | 2 MTUs, 24 option lists | the checksum is wrong when the MSS lies at an odd offset |

`node_parts` checks six components in one run. They share no variable and no
interaction, so the run does not multiply their state spaces: a behaviour picks
one (`part`), starts it in its own `Init`, and leaves the variables of the others in
one resting state. The fairness of each part is conditioned on its being picked.
Every property of a part is checked over all behaviours of that part; in the
others its part does not move. The resting states are chosen so that they satisfy
the properties without being the reason they hold.

`TypeOK` of `Pipeline` is an invariant of a run; those of the other modules document
the types; some of the proofs start from them and some establish them.

Why the bounds are enough. The ownership protocol has no state that grows with
the number of frames: queues of one slot and a pool of six frames reach a full
queue, an empty pool, a full batch and every hand-over at once, and the proofs
remove the bounds for these properties. Two rewriters are what distinguishes
"its own queue" from "any queue"; three packets allow two of a flow to travel in
one batch while another is in the other rewriter. Four slots with five flows, three on home 0 and
two on home 3, give displacement, chains of displacements, wrap-around and a full table;
and because one protocol outlives the others, a slot is reclaimed in front of a
live entry of the same flow, which is then in the table twice.
The fragment run has chains
of displacements, reuse of expired slots and duplicate mappings; a second as two
ticks lets two windows of the limiter meet in it. Three backends, one of them shared by both pools, give every combination of
"usable" and "not usable" for a VIP over two pools, and health events for one
pool while the other is pending. Two peers interact only through the commands
that one peer's event sends to the other; a third adds a copy. `MaxCmds` and
`MaxEvents` bound channels that are unbounded in the code: a full channel only
delays the sender, so the bounds leave out longer backlogs and no kind of step.
One VIP per command leaves out the interruption of a command between two of its
UPDATEs. Rings of one and of two slots under batches
of two are full, empty and half full; `num_frames` is both equal to and above twice
the ring size, which is what tells the leak from its absence, and the default
configuration has the former shape. The packets of `PacketPath` have one of each shape the
code tells apart; options of 16 bytes move the ports, which is all an IHL does, and two
datagrams with the same addresses are what the identification is for. Three
changes of the file put two events behind one another while a swap is half done. Thresholds 2 and 3 differ, so that the two
counters cannot be confused. A table of 5 slots with weights up to 9 has full,
partial and only passes over the backends. The transcripts are cut at every byte.
`pipeline_two` uses symmetry, which is sound as it checks
no liveness; `pipeline_order` starts from one order of the free list, as frames
are interchangeable.

Deadlock is checked in every run but `mss_checksum`, where the one call ends; the
other intended ends (`Terminated`, `Exited`, `Ended`) are stuttering steps.

### Disagreements the runs show

* `conn_reach`: `insert` reclaims an expired slot for any entry in hand, so a live
  entry further along loses the guarantee that `get` stops early for
  (`conn_table.rs:42-44`). A packet of the hidden flow is a miss: it is hashed
  anew and gets a second entry. From then on uniqueness and the terminal
  Closing state are not guaranteed either, which is why these are checked
  until the first reclaim (`reclaimed`).
* `controller_drain`: see `WithdrawnStaysWithdrawn`; `orchestrator.rs:104-105`.
* `bgp_hang`: the OPEN is awaited without a deadline (`speaker.rs:351`), and so is
  the shutdown (`main.rs:470`).
* `mss_checksum`: `clamp_mss` treats the two bytes of the MSS value as one word of
  the checksum (`mss_clamp.rs:97`). Behind an odd number of option bytes, for
  instance one NOP, they belong to two words, and the checksum the packet leaves
  with is wrong; `mtu-handling-spec.md:273` lists a test of a valid checksum, and
  all tests have the MSS option first.

Met while modelling, and described here without a run. Where a property is named, it says what
the code keeps instead of what is promised:

* `DroppedFull` does not mean that the new entry was dropped
  (`conn_table.rs:26-27`, `operations.md:123`, `lb-spec-v2.md:470`: "without storing them"). When the new
  entry has displaced others, what finds no slot is one of those: a live flow is lost
  and the new one stored (`conn_table.rs:211`). `OnlyDropLosesFlow` says what does
  hold, that it is one flow.
* `allow` counts from the first call after a window is over
  (`icmp.rs:127`), so two full windows can meet in a second, for each worker;
  `operations.md:96` and `mtu-handling-spec.md:142` and `289` promise the limit itself. `IcmpBounded`
  is what holds, twice the limit.
* A flush for which `build` fails, because no usable backend has
  a weight, merges nothing (`applier.rs:57-62`, `94-99`), so the table with the dead backend stays and
  nothing is pending any more. `operations.md:254-255` says the backend is removed.
  `TablesAreFresh` allows this case by name and no other.
* `operations.md:232` promises an atomic swap of matcher and tables. They are
  two pointers, stored and loaded one after the other (`main.rs:405`), so a batch
  between them can serve a VIP from a pool that no configuration gives it.
* The file is read before the watch exists (`watcher.rs:35-61`), so a change in
  between waits for the next one; `operations.md:16`.
* `operations.md:528` says of a missing file that the node "will begin
  forwarding once the config file is created". Without a first load there is no
  watcher (`main.rs:385`). `FileIsApplied` excepts this case and the window before through `watched`.
* Steering hashes a later fragment by the bytes that stand where its
  ports would be (`threading.rs:325`), and each rewriter has a fragment table of its own,
  so with several rewriters in `start` mode such a fragment is dropped although
  its first fragment has been seen, which `operations.md:129` and `README.md:14` rule
  out. `Rewriter` models the worker to which all fragments of a datagram come.
* `is_non_first_fragment` reads the next header and the hop limit of
  an IPv6 packet as a fragment offset, so all IPv6 traffic is dropped as fragments
  without a mapping and, in `start` mode, counted as such (`threading.rs:403`).
* The ICMP reply quotes 28 bytes, which is "IP header + 8 bytes"
  (`mtu-handling-spec.md:141`) only for a header without options (`icmp.rs:53`).
* A packet buffer has 2048 bytes (`lb-io/src/lib.rs:12`, "accommodates jumbo
  frames"), so above an MTU of 2048 packets that fit into the tunnel are dropped
  without a reply; `mtu-handling-spec.md:19`.
* The tracer foretells a fall-back "to another Maglev slot"
  (`tracer.rs:115`); the rewriter looks up the same slot and does not ask for the
  health of what it finds there (`rewriter.rs:207`).
* A negotiated hold time of 0 disables the timers (`speaker.rs:318-319`), for which
  `drive` adds `u64::MAX / 2` seconds to the present at its start (`speaker.rs:395`, `406`); that overflows
  the clock's 64-bit seconds, and the addition panics. The task ends after
  `PeerConnected` without a `PeerDisconnected`, so the peer stays Established in the gauge and
  is not connected again. `BgpSpeaker` assumes a non-zero hold time.
* `status_line.contains(" 2")` (`probe.rs:97`) accepts any word that begins with the
  digit 2, a reason phrase too; `StatusLines` has this case as `reason`. With a
  threshold of 0, which `HealthChecker::new` does not refuse, a status could change with no run at
  all; `ThresholdsAssumption` excludes it.
* After a desync `take_message` drops one byte and returns `None`, which ends the
  loop of `drive`, so each read drops one byte and a whole message can wait in the
  buffer until enough reads have come (the last clause of `FramingIsExact`).
* `send_batch` loses a TX frame for good when the TX ring has no slot for it, which
  needs `num_frames > 2 * ring_size`; the comment at `af_xdp.rs:417-419` counts on the
  cap by the ring.
* `run_rewriter` neither checks the size of a packet nor clamps the MSS, so in
  `start` mode an outer packet can be longer than the MTU, with DF set; in the per-queue mode that
  remains for packets that have no DF.
* `lb-spec-v2.md:599` lets a later fragment be buffered if the first has not arrived;
  the code drops it.
* A pool whose only active backend has weight 0 gets no table at a reload; the packet pool is a
  few frames short of "all in-flight frames" with two or more rewriters
  (`threading.rs:97-100`); a command ends a peer's
  backoff early; the muxer's drain starts at queue 0 each time; a fragment table
  that has overflowed may answer with an older mapping of a 3-tuple
  (`FragmentsFollowFirst` is stated until then); a first fragment answered by ICMP
  still leaves its mapping, so its later fragments are forwarded;
  `total_len + GRE_OVERHEAD` (`icmp.rs:38`) is a 16-bit sum that wraps for a claimed
  length above 65511; the configuration cache (`cache.rs:14`) is written and never
  read at boot; the command channel of a session that waits for an OPEN grows
  without bound (`speaker.rs:134`).

## 4. Fairness

* `Pipeline`: weak fairness for each thread, which the OS scheduler gives: every
  loop is polled, none waits on a lock. None for the arrival of packets or the
  request to shut down. `FramesReturn` is checked with finitely many packets: the
  muxer serves queue 0 first, so with two rewriters endless traffic on the first
  could keep the second waiting.
* `Controller`: `tick` is called periodically, as its doc says, and time passes.
* `BgpSpeaker`: tokio schedules each task; a task's own steps include the TCP
  connect (it has a timeout) and the backoff (it has a timer), but not the
  peer's answer. `AnsweringSpec` adds that a peer that accepted the connection
  answers or closes it; `ShutdownCompletes` holds with it and fails without
  it. Writes are assumed to finish or fail.
* `ConfigReload`: main, the watcher thread and the apply-task keep running.
* `AfXdp`: the thread of the socket runs, and the kernel, unless parked, takes
  descriptors from TX and completes them. Packets need not arrive; a parked
  kernel need not wake by itself, which is why `TxFrameReturns` needs the wake.
* `HealthChecker`: each probe task runs; its stages have timeouts and its ticker
  bursts (`interval` makes up for late ticks). Targets need not die.

## 5. Proofs

Every theorem holds for all values of the constants that satisfy the named
`ASSUME`s of the modules; TLC evaluates those in the runs. They say no more than
the code does: sizes are positive, the pool has `PoolSize` frames, configurations
are well formed, hashes are naturals, the marker of an empty slot is no entry, thresholds are
positive (see Section 3), the headroom fits into a frame, the table size is a prime, bytes
and 16-bit fields are in their ranges, an IP header has 20 to 60 bytes.

Each proof has the same outline: an inductive invariant, that `Init` gives it, that
each action of `Next` keeps it, that it implies the property.

**`PipelineProofs`**, for any number of rewriters, queue capacity and batch sizes.

* `TypeCorrect`: `TypeOK`. Inductive together with `ControlOK`, which says what each
  program counter implies for the thread's locals (a batch is not empty while it
  is processed, and so on).
* `FramesSingleOwner`, `FramesNeverLost`: `SingleOwner` and `NoFrameLost`. The inductive
  invariant is `FullInv`: types, control, and `OwnInv`, that the places' sequences are
  injective, disjoint and together contain every frame. Every step either moves
  the head of one place to the end of another or moves nothing (`StepMoves`), and
  such a move preserves `OwnInv` (`MoveFacts`). That the ignored push on the free
  list never fails needs both parts: a frame outside the list means, by counting,
  that the list is shorter than the pool (`FreeHasRoom`).
* `ImplementsLifecycle`: `Spec => LifecycleSpec`, from the same move lemma.
* `EncapsulatedOnceHolds`: `EncapsulatedOnce`. The property speaks of the wire and of the bounds of
  the places; `ContentInv` says what the bytes of a frame may be in each place, bare packets before the
  rewriter has decided and encapsulated ones of a forwardable flow after it, and rests on `OwnInv`:
  writing one frame changes the bytes of no other place.
* `FlowsKeepTheirOrder`: `OrderSpec => []PerFlowOrder`. The places between arrival
  and the log are lined up (`Lines`), with the places of different rewriters side by side.
  `Sorted` says that in any two places one behind the other the packets of a flow
  ascend, and within a place too; `Routed`, that the places of one rewriter contain the flows
  `assign_queue` gives it, which is what makes the places side by side harmless; `Counted`, that
  no label is ahead of the arrivals.

**`ControllerProofs`**, for any set of configurations.

* `AnnouncementsFollowHealth`, `NoStaleTable`,
  `RemovedPoolsHaveNoTable`. The invariant adds `IndexOK`, that the reverse index
  lists for each backend exactly its pools in the present configuration; without
  it a health change could miss a pool. `TableDependsOnPool` says that a backend
  outside a pool does not influence its table, `MaybeFlushInv` that a flush
  preserves the invariant. A table that a flush could not replace needs `TablesOfConfig`: every table is
  one that the present configuration gives for some health.

**`BgpSpeakerProofs`**, for any peers, VIPs and lengths of the channels.

* `NoRouteIsStale`, `NoRouteIsMissing`: `NoStaleRoute` and `NoMissingRoute`. They are
  inductive with `IdleSessions` (a peer without a connection has learned nothing
  and has no command half written) and `NoStaleChannel`: a session heads for no
  withdrawn VIP from the moment the head of its loop has emptied the channel, not only once it
  is up. Without it `NoStaleRoute` could break when the peer's OPEN arrives.
  `EffectAppend` and `EffectHead` say what a command adds to a channel at either end.
* `GaugeFollowsSessions`: `GaugeIsAccurate`, with `LastEventIsTrue`: the last event of a
  peer in the shared channel says how its session is, so the order of the
  events before it does not matter.

**`ConnTableProofs`**, for any capacity, hashes, TTLs and flags.

* `RobinHoodOrderHolds`: `ReachableBeforeReclaim`. `OrderInv`: a probe for an entry
  meets, before it comes to that entry, only other flows that are at least as far from
  their homes as the probe is, and the entry in hand has passed only such slots. From
  that the lookup's early end is right and a flow has one entry.
* `ClosingIsNotReopened`: `ClosingIsTerminal`, with `ClosingInv`: an insert for a Closing flow
  comes to the flow's own entry before it displaces any.
* `AcceptedIsTracked`: `PacketIsTracked`, reclaims included. `TrackInv`: the packet's flow
  is in hand, or is stored nearer than where the insert is now, and what is
  stored later is behind it.
* `NothingElseLosesAFlow`: `OnlyDropLosesFlow`, reclaims included. `LossInv`: while
  an insert runs only the flow in hand may be without an entry, and of two entries of a
  flow the nearer is the younger (`AgesOrdered`), so an update in place never replaces an entry
  by an older one that is about to expire.

  The attempt to prove this property in its first form failed for a good
  reason: it said that `DroppedFull` loses exactly one flow. After a reclaim a flow can be in the
  table twice, and the drop may then hit the second entry and lose no flow. The run had not shown
  it because all of its TTLs were equal; it now has a protocol that outlives the others, and
  the property says exactly one until the first reclaim, at most one after that.

**`AfXdpProofs`**, for any ring size, frame count, frame size, batch size and headroom.

* `FramesAreOwned`: `Spec => OwnershipSpec`, the refinement of `UmemOwnership`. `LenInv` bounds the
  rings, ties the thread's locals to its program counter and has every address
  stand for a frame; `PlaceInv` has the places' sequences of frames injective and disjoint,
  the receive frames and the transmit frames within their own pools. Every step
  moves one segment of frames, from the front of one place to the end of another.
* `PacketsAreIntact`: `PacketsIntact`, with `PacketInv`: the bytes in the places before
  the reader are the packets in their order. It rests on the disjointness in `PlaceInv`.
* `LeaksNeedSpareFrames`: `LeakNeedsSpareFrames`, by counting: with no more transmit frames than
  TX slots, the ring has room for all that are not in it.
* `OnlyARefusedWakeStalls`: `StallNeedsRefusal`, from `WakeIsDue`: with something in TX and a
  parked kernel that refused no wake, the kernel is at work, has completions to
  collect, or the thread is on its way to the wake.

**`WatchProofs`**, about `HealthChecker`, for any targets and thresholds.

* `RunsDecideStatus`, an action property: `HealthSpec => StatusFollowsRuns`. `CountersAreRuns` ties the two counters
  to the window of results the property looks at, `RunsAreObeyed` says that the status
  already agrees with the last complete run, so a run longer than its threshold changes nothing.
* `MapIsWitnessed`: `MapHasWitness`, with `TransitionIsStatus`: a task that is
  about to publish carries the present status of its target, and no other task has a transition.

**`RewriterProofs`**, for any workers, capacity, hashes, TTL, packets and limits.

* `FragmentsFollow`, `FragmentsFound`: `FragmentsFollowFirst` and `FragmentsAreFound`. `AllFollow`:
  of a hash's entries, the one nearest to its home is its latest mapping, unless
  that has expired, and no entry is younger than a nearer one. `AllFound` says
  that the Robin Hood order holds, which is so until an insert ends in the
  expired slot of another 3-tuple, and that each live mapping has an entry. `frag_insert` is a recursive function over the
  iterations of the loop, so keeping these through an insert takes an induction;
  `LeastElement` gets it from the library's well-founded orders and
  `IntervalInduction` and `LoopUnfolds` apply it.
* `DrainHolds`: `UnhealthyIsDrained`, with `DrainInv`: what is out of service for a batch is
  unhealthy still and not among what the batch's tables offer.
* `RepliesAreBounded`: `IcmpBounded`, with `Limited`: the replies since the window began are at
  most its count, and what a second holds beyond them is at most one more window.
* `TypesHold`: `TypeOK`, from the types the other proofs rest on and `Limited`.

**`WatchProofs`**, about `ConfigReload`, for any configurations, changes and workers.

* `OnlyValidatedIsActive`: `TypeOK`, of which this part matters: only a configuration that passed
  validation, or the empty one at boot, is ever in a pointer.
* `VersionsNeverGoBack`, an action property: `NeverGoesBack`. `OrderInv`: versions descend from the file
  through the queue and the matcher to the tables; `SnapInv`: what a worker has
  loaded is no newer than the pointer it loaded.

**`AlgorithmProofs`**, about the three algorithms that work on arrays and bytes.

* `MaglevTable`, for any prime size, weights, offsets and skips. `TablesAreFair`:
  `TableIsFair`. Its first half, `SearchEnds`, is from `SearchInv`: the slots a backend has looked at are taken. A preference list does not
  repeat a slot within its first `m` entries (`ListsDoNotRepeat`, by `PrimeProduct`: a prime that
  divides a product divides a factor), so a backend that has looked at `m` slots has seen
  the whole table taken, and the loop had ended. Its second half, `SharesAreFair`, is from `DealInv`: the
  slots dealt are `p` full passes, the weights of the backends before the present one, and what the
  present one has had. With the table full, division with remainder turns that into
  `FairShare` (`DealtIsFair`).
* `MssClamp`, for any MTU, flags and options. `ClampFitsTunnel`: `SynFitsTunnel`, from
  `OnTheWay`: `at` is the beginning of an option that only well-formed ones
  other than the MSS precede, or the end, or beyond the header because the last option was cut off. The
  checksum needs ones-complement arithmetic: sums modulo 65535 in which only
  nothing adds up to zero (`Vanishes`, `FoldFacts`), and that a rewritten word at an even offset changes the
  sum by the difference of the words (`SumOfPut`, `ClampedSum`).
  `OptionsAssumption` says that the options fit into 40 bytes and that each one is well formed, ends the list, or
  is cut off by the end of the header: every content of an options area is of that kind.
* `BgpWire`, for any AS number, hold time, router, VIPs. `OwnMessagesAreWellFormed`: `OwnMessagesDecode`, which is
  inductive by itself; `FramedIsTaken` is the one fact about `take_message`, and there is one
  lemma for each message.
* `BgpWire`, for any bytes of the peer and any cut of its stream. `FramingHolds`:
  `FramingIsExact`, from `FramingInv`: the buffer is the part of the stream between what was popped or
  dropped and what was read; what was popped is `Between` the cut and the buffer; no message of the
  peer reaches from one into the other; and a reader that began in sync stands at a boundary. The step that matters
  is `PopMessage`: a header at the buffer's first byte is the header of a message that
  begins there (`HeadIsMessage`), so popping it adds this message and no other (`MessageTaken`), and
  a byte is dropped only where no message begins (`ByteDropped`).

  The first form of the property was false for some streams, the UPDATE with a KEEPALIVE inside among
  them, and the proof led to the condition described in Section 2 (BgpWire).

Sums, concatenations and the picking of messages are recursive functions over an
interval of naturals; `IntervalInduction` and `Iterates` derive the induction these proofs need from the library's
well-founded orders, with a set in place of a predicate.

Every invariant and every action property of the passing runs but `FlowsReachTheirBackend`
is stated by a theorem, with the refinements. Only model-checked:

* `FlowsReachTheirBackend`: what it says beyond arithmetic on bytes is about the packets
  that occur, of which the run has one of each shape;

* liveness (`PendingIsFlushed`, `RoutesConverge`, `ShutdownCompletes` of the forwarder and of the
  speaker, `FramesReturn`, `FileIsApplied`, `DeadIsReported`, `TxFrameReturns`): the
  prover handles neither fairness nor `ENABLED`.
* the violations, which are single behaviours.

What an operator declared `RECURSIVE` computes cannot be proved with the
installed backends; the modules proved about have none.

## 6. Not modelled

* The effect of a SYN's new MSS on its path (`PacketPath` has no SYN, `MssClamp` no path).
* The hash functions (xxh3): their values are constants or free choices.
* TLS set-up of the HTTPS probe and TCP-MD5 of the speaker: calls into libraries
  that succeed or fail, which the models have as failing stages and connects.
* The parsing of configuration files and of the node's own configuration
  (`lb-types/src/config.rs`): straight conversions without state.
* Durations: backoff growth, hold and keepalive intervals, the two seconds of
  drain. A timer can fire at any time.
* A router id that is not IPv4 (no session is started then), and the watcher
  thread's own exit on shutdown.
* Metrics other than the peer gauge, the wording of a trace, the ops server, the CLI.
* `cache.rs`: the cache is written (variable `cache`) and read only in tests.

## 7. Plan

What is left to prove is liveness, which is out of the prover's reach (Section 5).
To model: `Rewriter` over the detailed `ConnTable`, and `Controller` with `BgpSpeaker`, whose
orchestrator is reduced to any desired set.
