--------------------------- MODULE HealthChecker ---------------------------
(***************************************************************************)
(* The health checker of lb-health: one task for each distinct (ip, port)  *)
(* among the backends probes its target again and again, counts results    *)
(* (state_machine.rs) and publishes transitions in a map keyed by the ip   *)
(* alone (checker.rs).  A probe (probe.rs) is a sequence of stages, each   *)
(* with a timeout of its own.                                              *)
(*                                                                         *)
(* Counters saturate at the larger threshold, the last value that a        *)
(* comparison can tell apart.  The request is written into the empty send  *)
(* buffer of a fresh connection, so writing succeeds or fails but never    *)
(* waits, although no timeout guards it.                                   *)
(***************************************************************************)
EXTENDS Integers, Sequences, FiniteSets

CONSTANTS
    Ips, Ports,
    Targets,            \* the list given to start: records of ip, port, pool
    ProbeKind,           \* "tcp", "http" or "https", for each port
    healthy_threshold, unhealthy_threshold

\* Deduplicated by ProbeKey: a backend of two pools is probed once.
ProbeKeys == {<<b.ip, b.port>> : b \in Targets}

ASSUME ThresholdsAssumption ==
    /\ healthy_threshold \in Nat \ {0}
    /\ unhealthy_threshold \in Nat \ {0}

ASSUME TargetsAssumption ==
    /\ \A b \in Targets : b.ip \in Ips /\ b.port \in Ports
    /\ ProbeKind \in [Ports -> {"tcp", "http", "https"}]

MaxThreshold == IF healthy_threshold > unhealthy_threshold
                THEN healthy_threshold ELSE unhealthy_threshold

VARIABLES
    stage,       \* stage[k]: where the task of k is
    state,       \* state[k]: its HealthState
    transition,  \* transition[k]: a new_status not yet in the map, or "none"
    status_map,  \* the watch channel's map; "none" for an ip without entry
    dead,        \* the targets that have stopped answering for good
    recent       \* history: the latest MaxThreshold results of each task

healthVars == <<stage, state, transition, status_map, dead, recent>>

-----------------------------------------------------------------------------
(***************************************************************************)
(* Probe::check.                                                           *)
(***************************************************************************)
TcpProbe   == <<"connect">>
HttpProbe  == <<"connect", "write", "read">>
HttpsProbe == <<"connect", "handshake", "write", "read">>

Stages(kind) ==
    CASE kind = "tcp"   -> TcpProbe
      [] kind = "http"  -> HttpProbe
      [] kind = "https" -> HttpsProbe

\* The first line of a response, as far as contains(" 2") tells: where in it
\* a word begins with the digit 2.  The status code is the second word.
StatusLines == {"empty", "none", "code", "reason"}
accepted(line) == line \in {"code", "reason"}

\* MissedTickBehavior::Burst makes up for late ticks, so one is always due.
HealthTick(k) ==
    /\ stage[k] = "tick"
    /\ stage' = [stage EXCEPT ![k] = Stages(ProbeKind[k[2]])[1]]
    /\ UNCHANGED <<state, transition, status_map, dead, recent>>

Probing(k) == stage[k] \notin {"tick", "success", "failure", "publish"}

\* A stage succeeds: the next one begins, or the probe has its result.
StagePasses(k) ==
    LET stages == Stages(ProbeKind[k[2]])
        i == CHOOSE j \in DOMAIN stages : stages[j] = stage[k]
    IN  /\ Probing(k) /\ k \notin dead
        /\ IF i < Len(stages)
           THEN stage' = [stage EXCEPT ![k] = stages[i + 1]]
           ELSE \E line \in IF stage[k] = "read" THEN StatusLines ELSE {"code"} :
                   stage' = [stage EXCEPT ![k] =
                       IF accepted(line) THEN "success" ELSE "failure"]
        /\ UNCHANGED <<state, transition, status_map, dead, recent>>

\* An error, or the timeout of the stage.
StageFails(k) ==
    /\ Probing(k)
    /\ stage' = [stage EXCEPT ![k] = "failure"]
    /\ UNCHANGED <<state, transition, status_map, dead, recent>>

-----------------------------------------------------------------------------
(***************************************************************************)
(* HealthState::record_result.                                             *)
(***************************************************************************)
increment(n) == IF n < MaxThreshold THEN n + 1 ELSE n

\* Mutant of count: a failure does not interrupt a run of successes.
count_total(s, success) ==
    IF success
    THEN [s EXCEPT !.consecutive_successes = increment(@),
                   !.consecutive_failures = 0]
    ELSE [s EXCEPT !.consecutive_failures = increment(@)]

count(s, success) ==
    IF success
    THEN [s EXCEPT !.consecutive_successes = increment(@),
                   !.consecutive_failures = 0]
    ELSE [s EXCEPT !.consecutive_failures = increment(@),
                   !.consecutive_successes = 0]

new_status(s) ==
    IF s.status # "Healthy" /\ s.consecutive_successes >= healthy_threshold
    THEN "Healthy"
    ELSE IF s.status # "Unhealthy" /\
            s.consecutive_failures >= unhealthy_threshold
    THEN "Unhealthy"
    ELSE "none"

record_result(k) ==
    LET success == stage[k] = "success"
        s == count(state[k], success)
        n == new_status(s)
    IN  /\ stage[k] \in {"success", "failure"}
        /\ state' = [state EXCEPT ![k] =
              IF n = "none" THEN s ELSE [s EXCEPT !.status = n]]
        /\ transition' = [transition EXCEPT ![k] = n]
        /\ stage' = [stage EXCEPT ![k] = IF n = "none" THEN "tick" ELSE "publish"]
        /\ recent' = [recent EXCEPT ![k] =
              LET r == Append(@, success)
              IN  IF Len(r) > MaxThreshold THEN Tail(r) ELSE r]
        /\ UNCHANGED <<status_map, dead>>

\* Mutant of send_modify: entry().or_insert() in place of insert().
send_modify_first(k) ==
    /\ stage[k] = "publish"
    /\ status_map' = [status_map EXCEPT ![k[1]] =
          IF @ = "none" THEN transition[k] ELSE @]
    /\ transition' = [transition EXCEPT ![k] = "none"]
    /\ stage' = [stage EXCEPT ![k] = "tick"]
    /\ UNCHANGED <<state, dead, recent>>

\* The tasks run on several threads, so others may publish between a task's
\* record_result and its own insert.
send_modify(k) ==
    /\ stage[k] = "publish"
    /\ status_map' = [status_map EXCEPT ![k[1]] = transition[k]]
    /\ transition' = [transition EXCEPT ![k] = "none"]
    /\ stage' = [stage EXCEPT ![k] = "tick"]
    /\ UNCHANGED <<state, dead, recent>>

\* A target stops answering for good.
TargetDies(k) ==
    /\ k \notin dead
    /\ dead' = dead \cup {k}
    /\ UNCHANGED <<stage, state, transition, status_map, recent>>

-----------------------------------------------------------------------------
HealthInit ==
    /\ stage = [k \in ProbeKeys |-> "tick"]
    /\ state = [k \in ProbeKeys |-> [status |-> "Unknown",
                   consecutive_successes |-> 0, consecutive_failures |-> 0]]
    /\ transition = [k \in ProbeKeys |-> "none"]
    /\ status_map = [ip \in Ips |-> "none"]
    /\ dead = {}
    /\ recent = [k \in ProbeKeys |-> <<>>]

ProbeTask(k) ==
    HealthTick(k) \/ StagePasses(k) \/ StageFails(k) \/ record_result(k)
                  \/ send_modify(k)

HealthNext == \E k \in ProbeKeys : ProbeTask(k) \/ TargetDies(k)

HealthSpec == HealthInit /\ [][HealthNext]_healthVars

\* Every spawned task keeps running: all its waits are bounded.
HealthFairness == \A k \in ProbeKeys : WF_healthVars(ProbeTask(k))

-----------------------------------------------------------------------------
\* The last n results of k are all r.
LastResults(k, n, r) ==
    /\ Len(recent[k]) >= n
    /\ \A i \in (Len(recent[k]) - n + 1) .. Len(recent[k]) : recent[k][i] = r

\* A target's status is decided by the latest unbroken run of results that
\* reached its threshold: it changes with the result that completes such a
\* run and with no other (record_result keeps this with two counters).
StatusFollowsRuns ==
    [][\A k \in ProbeKeys :
          state'[k].status =
             IF LastResults(k, healthy_threshold, TRUE)' THEN "Healthy"
             ELSE IF LastResults(k, unhealthy_threshold, FALSE)' THEN "Unhealthy"
             ELSE state[k].status]_healthVars

\* Tasks of one ip overwrite each other's entry in the map, in any order; what
\* it says is nevertheless the present status of one of them, unless that one
\* is about to publish a newer.
MapHasWitness ==
    \A ip \in Ips :
       status_map[ip] # "none" =>
          \E k \in ProbeKeys :
             k[1] = ip /\ (state[k].status = status_map[ip] \/ transition[k] # "none")

\* When no target of an ip answers any more the map ends up saying so, and
\* goes on saying so.
DeadIsReported ==
    \A ip \in {k[1] : k \in ProbeKeys} :
       ({k \in ProbeKeys : k[1] = ip} \subseteq dead)
           ~> [](status_map[ip] = "Unhealthy")
=============================================================================
