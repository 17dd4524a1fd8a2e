----------------------------- MODULE Controller -----------------------------
(***************************************************************************)
(* The control-plane orchestrator (lb-controller/orchestrator.rs) with the *)
(* table building of lb-config-manager/applier.rs.  Its methods run under  *)
(* one mutex, so each is one action; what interleaves are the callers: the *)
(* config apply-task, the health checker, the periodic tick, the BGP event *)
(* pump and the shutdown handler.                                          *)
(*                                                                         *)
(* A Maglev table is kept as the set of backends it spreads flows over,    *)
(* and {} stands for a pool without a table.  A configuration gives each   *)
(* pool its backends (none: the pool is absent) and each VIP the pools of  *)
(* its services (none: the VIP is absent).                                 *)
(***************************************************************************)
EXTENDS Integers

CONSTANTS
    Backends, PoolIds, Vips,
    IPv4Vips,      \* the VIPs that BGP announces; the others are IPv6
    Configs,       \* the configurations that pass validation
    NoConfig

Status == {"Unknown", "Healthy", "Unhealthy"}

ConfigType == [backends : [PoolIds -> SUBSET Backends],
               weight   : [PoolIds -> [Backends -> Nat]],
               drain    : [PoolIds -> SUBSET Backends],
               vips     : [Vips -> SUBSET PoolIds]]

\* validator::validate: no service refers to a missing pool.  (A pool without
\* backends and a duplicate VIP cannot be written in this representation.)
Valid(c) == \A v \in Vips : \A p \in c.vips[v] : c.backends[p] # {}

ASSUME ConfigsAssumption ==
    /\ IPv4Vips \subseteq Vips
    /\ Configs \subseteq ConfigType
    /\ \A c \in Configs : Valid(c)
    /\ NoConfig \notin ConfigType

VARIABLES
    config,      \* the configuration applied last, or NoConfig
    cache,       \* the configuration in the local cache file
    health,      \* the shared health map; an absent backend is "Unknown"
    tables,      \* the shared lookup tables: [pool -> backends in its table]
    index,       \* backend_pool_index: [backend -> pools that contain it]
    pending,     \* pending_pools
    window,      \* pending_since: none, open, or DEBOUNCE_WINDOW has elapsed
    announced,   \* vips_announced
    rib,         \* the VIPs the announce and withdraw calls leave announced
    draining     \* withdraw_all has been called by the shutdown handler

vars == <<config, cache, health, tables, index, pending, window, announced, rib, draining>>

(***************************************************************************)
(* Table building and BGP reconciliation.                                  *)
(***************************************************************************)
\* LookupTable::build over a list of backends: those with a weight, and an
\* error (no table) when none has one.
build(c, p, bs) == {b \in bs : c.weight[p][b] > 0}

\* build_lookup_tables_for_pools for one pool: the backends that are neither
\* drained nor Unhealthy, or all of them when there is none.
Active(c, h, p) == {b \in c.backends[p] \ c.drain[p] : h[b] # "Unhealthy"}

TableFor(c, h, p) ==
    IF Active(c, h, p) = {} THEN build(c, p, c.backends[p]) ELSE build(c, p, Active(c, h, p))

build_backend_pool_index(c) == [b \in Backends |-> {p \in PoolIds : b \in c.backends[p]}]

PoolHealthy(c, h, p) == \E b \in c.backends[p] : h[b] # "Unhealthy"

desired_announced_vips(c, h) ==
    IF c = NoConfig THEN {}
    ELSE {v \in IPv4Vips : \E p \in c.vips[v] : PoolHealthy(c, h, p)}

\* Mutant of sync_bgp_announcements: nothing is withdrawn.
sync_announce_only(c, h) ==
    LET desired == desired_announced_vips(c, h) IN
    /\ rib' = rib \cup (desired \ announced)
    /\ announced' = desired

\* Announce and withdraw the difference to what is believed announced.
sync_bgp_announcements(c, h) ==
    LET desired == desired_announced_vips(c, h) IN
    /\ rib' = (rib \cup (desired \ announced)) \ (announced \ desired)
    /\ announced' = desired

\* The tables after a flush: the pending pools that the configuration still
\* has are rebuilt and merged; a pool whose build fails keeps its old table.
Flushed(c, h, ps) ==
    [p \in PoolIds |->
        IF c # NoConfig /\ p \in ps /\ TableFor(c, h, p) # {} THEN TableFor(c, h, p)
        ELSE tables[p]]

flush(h, ps) ==
    /\ tables' = Flushed(config, h, ps)
    /\ pending' = {}
    /\ window' = "none"

\* maybe_flush, for the window w and pending pools ps the caller leaves.
maybe_flush(h, ps, w) ==
    \/ w = "elapsed" /\ flush(h, ps)
    \/ w # "elapsed" /\ pending' = ps /\ window' = w /\ UNCHANGED tables

(***************************************************************************)
(* Operations.                                                             *)
(***************************************************************************)
\* Mutant of apply_config: the new tables are merged into the old ones.
apply_config_merging(c) ==
    /\ pending' = {} /\ window' = "none"
    /\ tables' = [p \in PoolIds |-> IF c.backends[p] = {} THEN tables[p] ELSE TableFor(c, health, p)]
    /\ index' = build_backend_pool_index(c)
    /\ cache' \in {c, cache}
    /\ config' = c
    /\ sync_bgp_announcements(c, health)
    /\ UNCHANGED <<health, draining>>

\* apply_config: everything is rebuilt; only writing the cache may fail.
apply_config(c) ==
    /\ pending' = {} /\ window' = "none"
    /\ tables' = [p \in PoolIds |-> TableFor(c, health, p)]
    /\ index' = build_backend_pool_index(c)
    /\ cache' \in {c, cache}
    /\ config' = c
    /\ sync_bgp_announcements(c, health)
    /\ UNCHANGED <<health, draining>>

\* Mutants of on_health_change: BGP waits for the tables; only the first event
\* of a window is remembered; every event restarts the window.
health_change_debounces_bgp(b, s) ==
    LET h == [health EXCEPT ![b] = s] IN
    /\ health' = h
    /\ \E w \in IF index[b] # {} /\ window = "none" THEN {"open", "elapsed"} ELSE {window} :
          maybe_flush(h, pending \cup index[b], w)
    /\ UNCHANGED <<config, cache, index, announced, rib, draining>>

health_change_first_only(b, s) ==
    LET h == [health EXCEPT ![b] = s] IN
    /\ health' = h
    /\ sync_bgp_announcements(config, h)
    /\ \E w \in IF index[b] # {} /\ window = "none" THEN {"open", "elapsed"} ELSE {window} :
          maybe_flush(h, IF window = "none" THEN index[b] ELSE pending, w)
    /\ UNCHANGED <<config, cache, index, draining>>

health_change_restarts(b, s) ==
    LET h == [health EXCEPT ![b] = s] IN
    /\ health' = h
    /\ sync_bgp_announcements(config, h)
    /\ maybe_flush(h, pending \cup index[b], IF index[b] # {} THEN "open" ELSE window)
    /\ UNCHANGED <<config, cache, index, draining>>

\* on_health_change: the health map, the pending pools and BGP at once, the
\* tables when the debounce window is over.
on_health_change(b, s) ==
    LET h  == [health EXCEPT ![b] = s]
        ps == pending \cup index[b]
    IN  /\ health' = h
        /\ sync_bgp_announcements(config, h)
        /\ \E w \in IF index[b] # {} /\ window = "none" THEN {"open", "elapsed"} ELSE {window} :
              maybe_flush(h, ps, w)
        /\ UNCHANGED <<config, cache, index, draining>>

tick ==
    /\ maybe_flush(health, pending, window)
    /\ UNCHANGED <<config, cache, health, index, announced, rib, draining>>

\* flush_pending ignores the window.
flush_pending ==
    /\ flush(health, pending)
    /\ UNCHANGED <<config, cache, health, index, announced, rib, draining>>

\* reannounce_all: called when a peer connects.
reannounce_all ==
    /\ rib' = rib \cup announced
    /\ UNCHANGED <<config, cache, health, tables, index, pending, window, announced, draining>>

\* withdraw_all: called once, by the shutdown handler.
withdraw_all ==
    /\ ~draining
    /\ rib' = rib \ announced
    /\ announced' = {}
    /\ draining' = TRUE
    /\ UNCHANGED <<config, cache, health, tables, index, pending, window>>

\* The debounce window runs out.
WindowElapses ==
    /\ window = "open"
    /\ window' = "elapsed"
    /\ UNCHANGED <<config, cache, health, tables, index, pending, announced, rib, draining>>

Init ==
    /\ config = NoConfig /\ cache = NoConfig
    /\ health = [b \in Backends |-> "Unknown"]
    /\ tables = [p \in PoolIds |-> {}]
    /\ index = [b \in Backends |-> {}]
    /\ pending = {} /\ window = "none"
    /\ announced = {} /\ rib = {} /\ draining = FALSE

Next ==
    \/ \E c \in Configs : apply_config(c)
    \/ \E b \in Backends, s \in Status : on_health_change(b, s)
    \/ tick \/ flush_pending \/ reannounce_all \/ withdraw_all
    \/ WindowElapses

Spec == Init /\ [][Next]_vars

\* The contract tick documents: it is called periodically, and time passes.
FairSpec == Spec /\ WF_vars(tick) /\ WF_vars(WindowElapses)

(***************************************************************************)
(* Properties.                                                             *)
(***************************************************************************)
\* Type invariant of the controller.
TypeOK ==
    /\ config \in Configs \cup {NoConfig} /\ cache \in Configs \cup {NoConfig}
    /\ health \in [Backends -> Status]
    /\ tables \in [PoolIds -> SUBSET Backends]
    /\ index \in [Backends -> SUBSET PoolIds]
    /\ pending \subseteq PoolIds
    /\ window \in {"none", "open", "elapsed"}
    /\ announced \subseteq IPv4Vips /\ rib \subseteq IPv4Vips
    /\ draining \in BOOLEAN

\* However config reloads, health events, ticks and re-announcements follow
\* each other, the announce and withdraw diffs the peers were sent add up to the
\* set the controller believes announced, and until the drain these are the VIPs
\* with a usable pool right now.
AnnouncedIsDesired ==
    /\ rib = announced
    /\ ~draining => announced = desired_announced_vips(config, health)

\* A pool with no rebuild pending has the table that the present health and
\* configuration give: no health change between two configurations, or during
\* a debounce window, is forgotten, and a change that puts things back is not
\* either.  If that table cannot be built, as no usable backend has a weight,
\* the pool keeps a table that the same configuration gave for another health,
\* and backends in it that have become unhealthy since go on being named: an
\* unhealthy backend "is removed from the Maglev lookup table"
\* (operations.md:254) only by a rebuild that succeeds.
TablesAreFresh ==
    config # NoConfig =>
        \A p \in PoolIds \ pending :
            \/ tables[p] = TableFor(config, health, p)
            \/ /\ TableFor(config, health, p) = {}
               /\ \E h \in [Backends -> Status] : tables[p] = TableFor(config, h, p)

\* A pool the configuration dropped has no table, not even through a rebuild
\* that was pending when the configuration changed.
NoTableForRemovedPool ==
    \A p \in PoolIds : tables[p] # {} => config # NoConfig /\ config.backends[p] # {}

\* A pending rebuild always has a running window, so a tick will flush it.
PendingHasWindow == pending # {} => window # "none"

\* A pending rebuild is flushed, even when backends keep flapping.
PendingIsFlushed == \A p \in PoolIds : p \in pending ~> p \notin pending

\* After withdraw_all, "any later re-announce path has nothing to fire".
WithdrawnStaysWithdrawn == draining => announced = {}
=============================================================================
