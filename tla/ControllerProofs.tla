-------------------------- MODULE ControllerProofs --------------------------
(***************************************************************************)
(* Proofs about Controller, for any backends, pools, VIPs and any set of   *)
(* valid configurations: announcements follow health and configuration,    *)
(* and no lookup table is stale unless its rebuild is pending.             *)
(***************************************************************************)
EXTENDS Controller, TLAPS

\* The reverse index belongs to the configuration in force.  It is what makes
\* TablesAreFresh inductive: a health change marks every pool it can affect.
IndexOK == index = IF config = NoConfig THEN [b \in Backends |-> {}]
                   ELSE build_backend_pool_index(config)

\* Every table, its rebuild pending or not, is one that the configuration in
\* force gives for some health.  A rebuild that fails keeps such a table.
TablesOfConfig ==
    config # NoConfig =>
        \A p \in PoolIds : \E h \in [Backends -> Status] : tables[p] = TableFor(config, h, p)

Inv ==
    /\ TypeOK
    /\ IndexOK
    /\ TablesOfConfig
    /\ AnnouncedIsDesired
    /\ TablesAreFresh
    /\ NoTableForRemovedPool
    /\ PendingHasWindow

-----------------------------------------------------------------------------
(* The operators the controller is built from.                             *)

LEMMA ConfigFacts ==
    ASSUME NEW c \in Configs
    PROVE  /\ c # NoConfig /\ c \in ConfigType
           /\ c.backends \in [PoolIds -> SUBSET Backends]
           /\ c.drain \in [PoolIds -> SUBSET Backends]
           /\ c.vips \in [Vips -> SUBSET PoolIds]
  BY ConfigsAssumption DEF ConfigType

\* A table holds backends of its pool only.
LEMMA TableInPool ==
    ASSUME NEW c \in Configs, NEW h, NEW p \in PoolIds
    PROVE  TableFor(c, h, p) \subseteq c.backends[p] /\ c.backends[p] \subseteq Backends
  BY ConfigFacts DEF TableFor, build, Active

\* A table depends on the health of its pool's backends only.
LEMMA TableDependsOnPool ==
    ASSUME NEW c \in Configs, NEW p \in PoolIds, NEW h, NEW g,
           \A b \in c.backends[p] : h[b] = g[b]
    PROVE  TableFor(c, h, p) = TableFor(c, g, p)
  <1>1. Active(c, h, p) = Active(c, g, p)
    BY ConfigFacts DEF Active
  <1> QED
    BY <1>1 DEF TableFor

\* Sending the differences leaves exactly the desired set announced.
LEMMA SyncFacts ==
    ASSUME rib = announced, NEW c, NEW h, sync_bgp_announcements(c, h)
    PROVE  announced' = desired_announced_vips(c, h) /\ rib' = announced'
  BY DEF sync_bgp_announcements

LEMMA DesiredType ==
    ASSUME NEW c, NEW h
    PROVE  desired_announced_vips(c, h) \subseteq IPv4Vips
  BY DEF desired_announced_vips

LEMMA FlushedType ==
    ASSUME Inv, NEW h, NEW ps
    PROVE  /\ Flushed(config, h, ps) \in [PoolIds -> SUBSET Backends]
           /\ \A p \in PoolIds : Flushed(config, h, ps)[p] # {} =>
                 config # NoConfig /\ config.backends[p] # {}
  <1>1. ASSUME NEW p \in PoolIds, config # NoConfig
        PROVE  /\ TableFor(config, h, p) \subseteq config.backends[p]
               /\ config.backends[p] \subseteq Backends
    BY <1>1, TableInPool DEF Inv, TypeOK
  <1> QED
    BY <1>1 DEF Flushed, Inv, TypeOK, NoTableForRemovedPool

-----------------------------------------------------------------------------
(* Inductive step, one lemma per operation.                                *)

LEMMA InitInv == Init => Inv
  BY ConfigsAssumption
  DEF Init, Inv, TypeOK, Status, IndexOK, AnnouncedIsDesired, desired_announced_vips,
      TablesAreFresh, TablesOfConfig, NoTableForRemovedPool, PendingHasWindow

LEMMA ApplyConfigInv ==
    ASSUME Inv, NEW c \in Configs, apply_config(c)
    PROVE  Inv'
  <1>1. /\ config' = c /\ health' = health /\ pending' = {} /\ window' = "none"
        /\ cache' \in {c, cache} /\ draining' = draining
        /\ index' = build_backend_pool_index(c)
        /\ tables' = [p \in PoolIds |-> TableFor(c, health, p)]
    BY DEF apply_config
  <1>2. announced' = desired_announced_vips(c, health) /\ rib' = announced'
    BY SyncFacts DEF apply_config, Inv, AnnouncedIsDesired
  <1>3. TypeOK'
    <2>1. index' \in [Backends -> SUBSET PoolIds]
      BY <1>1 DEF build_backend_pool_index
    <2>2. tables' \in [PoolIds -> SUBSET Backends]
      BY <1>1, TableInPool
    <2> QED
      BY <1>1, <1>2, <2>1, <2>2, DesiredType DEF Inv, TypeOK
  <1>4. IndexOK'
    BY <1>1, ConfigFacts DEF IndexOK
  <1>5. AnnouncedIsDesired' /\ PendingHasWindow'
    BY <1>1, <1>2 DEF AnnouncedIsDesired, PendingHasWindow
  <1>6. TablesAreFresh' /\ TablesOfConfig'
    BY <1>1 DEF TablesAreFresh, TablesOfConfig, Inv, TypeOK
  <1>7. NoTableForRemovedPool'
    BY <1>1, TableInPool, ConfigFacts DEF NoTableForRemovedPool
  <1> QED
    BY <1>3, <1>4, <1>5, <1>6, <1>7 DEF Inv

\* maybe_flush keeps the tables fresh, for the health h and the pending pools
\* ps of its caller, when ps covers every pool whose table is not fresh under h.
LEMMA MaybeFlushInv ==
    ASSUME Inv, NEW h \in [Backends -> Status], NEW ps \in SUBSET PoolIds,
           NEW w \in {"none", "open", "elapsed"}, ps # {} => w # "none",
           maybe_flush(h, ps, w),
           config # NoConfig =>
               \A p \in PoolIds \ ps :
                  TableFor(config, h, p) # {} => tables[p] = TableFor(config, h, p)
    PROVE  /\ tables' \in [PoolIds -> SUBSET Backends]
           /\ pending' \subseteq PoolIds /\ window' \in {"none", "open", "elapsed"}
           /\ pending' # {} => window' # "none"
           /\ config # NoConfig =>
                 \A p \in PoolIds \ pending' :
                    TableFor(config, h, p) # {} => tables'[p] = TableFor(config, h, p)
           /\ config # NoConfig =>
                 \A p \in PoolIds : \E g \in [Backends -> Status] : tables'[p] = TableFor(config, g, p)
           /\ \A p \in PoolIds : tables'[p] # {} => config # NoConfig /\ config.backends[p] # {}
  <1>1. CASE w = "elapsed"
    <2>1. tables' = Flushed(config, h, ps) /\ pending' = {} /\ window' = "none"
      BY <1>1 DEF maybe_flush, flush
    <2>2. ASSUME config # NoConfig, NEW p \in PoolIds, TableFor(config, h, p) # {}
          PROVE  tables'[p] = TableFor(config, h, p)
      BY <2>1, <2>2 DEF Flushed
    <2>3. ASSUME config # NoConfig, NEW p \in PoolIds
          PROVE  \E g \in [Backends -> Status] : tables'[p] = TableFor(config, g, p)
      <3>1. tables'[p] \in {TableFor(config, h, p), tables[p]}
        BY <2>1 DEF Flushed
      <3> QED
        BY <2>3, <3>1 DEF Inv, TablesOfConfig
    <2> QED
      BY <2>1, <2>2, <2>3, FlushedType
  <1>2. CASE w # "elapsed"
    BY <1>2 DEF maybe_flush, Inv, TypeOK, NoTableForRemovedPool, TablesOfConfig
  <1> QED
    BY <1>1, <1>2

LEMMA HealthChangeInv ==
    ASSUME Inv, NEW b \in Backends, NEW s \in Status, on_health_change(b, s)
    PROVE  Inv'
  <1> DEFINE h  == [health EXCEPT ![b] = s]
             ps == pending \cup index[b]
  <1>1. /\ health' = h /\ h \in [Backends -> Status] /\ ps \in SUBSET PoolIds
        /\ UNCHANGED <<config, cache, index, draining>>
    BY DEF on_health_change, Inv, TypeOK
  <1>2. announced' = desired_announced_vips(config, h) /\ rib' = announced'
    BY SyncFacts DEF on_health_change, Inv, AnnouncedIsDesired
  <1>3. PICK w \in IF index[b] # {} /\ window = "none" THEN {"open", "elapsed"} ELSE {window} :
           maybe_flush(h, ps, w)
    BY DEF on_health_change
  <1>4. w \in {"none", "open", "elapsed"} /\ (ps # {} => w # "none")
    BY <1>3 DEF Inv, TypeOK, PendingHasWindow
  <1>5. ASSUME config # NoConfig, NEW p \in PoolIds \ ps, TableFor(config, h, p) # {}
        PROVE  tables[p] = TableFor(config, h, p)
    <2>1. config \in Configs
      BY <1>5 DEF Inv, TypeOK
    <2>2. b \notin config.backends[p]
      BY <1>5, <2>1 DEF Inv, IndexOK, build_backend_pool_index
    <2>3. \A x \in config.backends[p] : h[x] = health[x]
      BY <2>1, <2>2, ConfigFacts DEF Inv, TypeOK
    <2>4. TableFor(config, h, p) = TableFor(config, health, p)
      BY <2>1, <2>3, TableDependsOnPool
    <2> QED
      BY <1>5, <2>4 DEF Inv, TablesAreFresh
  <1> HIDE DEF h, ps
  <1>6. /\ tables' \in [PoolIds -> SUBSET Backends]
        /\ pending' \subseteq PoolIds /\ window' \in {"none", "open", "elapsed"}
        /\ pending' # {} => window' # "none"
        /\ config # NoConfig =>
              \A p \in PoolIds \ pending' :
                 TableFor(config, h, p) # {} => tables'[p] = TableFor(config, h, p)
        /\ config # NoConfig =>
              \A p \in PoolIds : \E g \in [Backends -> Status] : tables'[p] = TableFor(config, g, p)
        /\ \A p \in PoolIds : tables'[p] # {} => config # NoConfig /\ config.backends[p] # {}
    BY <1>1, <1>3, <1>4, <1>5, MaybeFlushInv
  <1>7. TypeOK'
    BY <1>1, <1>2, <1>6, DesiredType DEF Inv, TypeOK
  <1> QED
    BY <1>1, <1>2, <1>6, <1>7
    DEF Inv, IndexOK, AnnouncedIsDesired, TablesAreFresh, TablesOfConfig,
        NoTableForRemovedPool, PendingHasWindow

LEMMA FlushInv ==
    ASSUME Inv, tick \/ flush_pending
    PROVE  Inv'
  <1>1. UNCHANGED <<config, cache, health, index, announced, rib, draining>>
    BY DEF tick, flush_pending
  <1>2. \E w \in {"none", "open", "elapsed"} :
           (pending # {} => w # "none") /\ maybe_flush(health, pending, w)
    BY DEF tick, flush_pending, maybe_flush, Inv, TypeOK, PendingHasWindow
  <1>3. health \in [Backends -> Status] /\ pending \in SUBSET PoolIds
    BY DEF Inv, TypeOK
  <1>4. /\ tables' \in [PoolIds -> SUBSET Backends]
        /\ pending' \subseteq PoolIds /\ window' \in {"none", "open", "elapsed"}
        /\ pending' # {} => window' # "none"
        /\ config # NoConfig =>
              \A p \in PoolIds \ pending' :
                 TableFor(config, health, p) # {} => tables'[p] = TableFor(config, health, p)
        /\ config # NoConfig =>
              \A p \in PoolIds : \E g \in [Backends -> Status] : tables'[p] = TableFor(config, g, p)
        /\ \A p \in PoolIds : tables'[p] # {} => config # NoConfig /\ config.backends[p] # {}
    BY <1>2, <1>3, MaybeFlushInv DEF Inv, TablesAreFresh
  <1> QED
    BY <1>1, <1>4
    DEF Inv, TypeOK, IndexOK, AnnouncedIsDesired, TablesAreFresh, TablesOfConfig,
        NoTableForRemovedPool, PendingHasWindow

LEMMA OthersInv ==
    ASSUME Inv, reannounce_all \/ withdraw_all \/ WindowElapses \/ UNCHANGED vars
    PROVE  Inv'
  <1> USE DEF Inv, TypeOK, IndexOK, AnnouncedIsDesired, TablesAreFresh,
              TablesOfConfig, NoTableForRemovedPool, PendingHasWindow
  <1>1. CASE reannounce_all
    BY <1>1 DEF reannounce_all
  <1>2. CASE withdraw_all
    BY <1>2 DEF withdraw_all
  <1>3. CASE WindowElapses
    BY <1>3 DEF WindowElapses
  <1>4. CASE UNCHANGED vars
    BY <1>4 DEF vars
  <1> QED
    BY <1>1, <1>2, <1>3, <1>4

LEMMA Invariance == Spec => []Inv
  <1>1. Inv /\ [Next]_vars => Inv'
    BY ApplyConfigInv, HealthChangeInv, FlushInv, OthersInv DEF Next
  <1> QED
    BY InitInv, <1>1, PTL DEF Spec

-----------------------------------------------------------------------------
(* Results.                                                                *)

\* What the peers were told adds up to what the controller believes announced,
\* and until shutdown these are always the VIPs with a usable pool under the
\* configuration and the health of this moment.
THEOREM AnnouncementsFollowHealth == Spec => []AnnouncedIsDesired
  <1>1. Inv => AnnouncedIsDesired
    BY DEF Inv
  <1> QED
    BY <1>1, Invariance, PTL

\* TablesAreFresh: a pool that is not pending a rebuild has the table of the
\* present health, or one of the same configuration if that cannot be built.
THEOREM NoStaleTable == Spec => []TablesAreFresh
  <1>1. Inv => TablesAreFresh
    BY DEF Inv
  <1> QED
    BY <1>1, Invariance, PTL

\* A pool removed by a reload never keeps or regains a table.
THEOREM RemovedPoolsHaveNoTable == Spec => []NoTableForRemovedPool
  <1>1. Inv => NoTableForRemovedPool
    BY DEF Inv
  <1> QED
    BY <1>1, Invariance, PTL
=============================================================================
