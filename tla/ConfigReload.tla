---------------------------- MODULE ConfigReload ----------------------------
(***************************************************************************)
(* How a configuration gets from the file on disk to the packets: the boot *)
(* sequence of main.rs, the file watcher (lb-config-manager/watcher.rs),   *)
(* the apply-task with its two pointer swaps, and the data-plane workers,  *)
(* which load the two pointers one after the other for each batch.         *)
(*                                                                         *)
(* What apply_config does beyond its swap of the tables is the subject of  *)
(* module Controller; here a configuration is a value.                     *)
(***************************************************************************)
EXTENDS Integers, Sequences

CONSTANTS
    Configs,       \* the configurations that load and validate
    EmptyConfig,   \* no VIPs and no pools: the state before a configuration
    Malformed,     \* a file that is missing, does not parse or is invalid
    Workers,       \* rewriter threads, or per-queue workers
    InitialFiles,  \* what the file may contain when the process starts
    MaxChanges     \* bound on the changes of the file

ASSUME ReloadAssumption ==
    /\ Malformed \notin Configs \cup {EmptyConfig}
    /\ InitialFiles \subseteq Configs \cup {Malformed}
    /\ MaxChanges \in Nat

\* A configuration tagged with the change of the file it was read from.
Version(S) == [ver : 0 .. MaxChanges, cfg : S]
Booted     == [ver |-> 0, cfg |-> EmptyConfig]

VARIABLES
    file,       \* what the file contains
    watched,    \* history: the file's latest change found the watch installed
    boot,       \* load, watch, install, then run, or blind without a watcher
    initial,    \* the configuration ConfigWatcher::new has loaded
    notes,      \* pending inotify events
    queue,      \* the channel from the watcher thread to the apply-task
    applying,   \* the apply-task is between its two swaps
    matcher, tables,   \* the shared vip_matcher and lookup_tables
    snap        \* [worker -> the matcher and the tables of its batch]

vars == <<file, watched, boot, initial, notes, queue, applying, matcher, tables, snap>>

Idle == <<>>

(***************************************************************************)
(* The file and the boot sequence.                                         *)
(***************************************************************************)
\* The deployment replaces the file; the watch, once installed, reports it.
FileChanges(c) ==
    /\ file.ver < MaxChanges
    /\ file' = [ver |-> file.ver + 1, cfg |-> c]
    /\ watched' = (boot \in {"install", "run"})
    /\ notes' = IF watched' THEN notes + 1 ELSE notes
    /\ UNCHANGED <<boot, initial, queue, applying, matcher, tables, snap>>

\* ConfigWatcher::new loads and validates the file; without a configuration
\* the process goes on empty and without a watcher.
BootLoad ==
    /\ boot = "load"
    /\ initial' = file
    /\ boot' = IF file.cfg = Malformed THEN "blind" ELSE "watch"
    /\ UNCHANGED <<file, watched, notes, queue, applying, matcher, tables, snap>>

\* Then it installs the watch.
BootWatch ==
    /\ boot = "watch"
    /\ boot' = "install"
    /\ UNCHANGED <<file, watched, initial, notes, queue, applying, matcher, tables, snap>>

\* apply_lb_config and apply_config at boot, before any worker runs.
BootInstall ==
    /\ boot = "install"
    /\ matcher' = initial /\ tables' = initial
    /\ snap' = [w \in Workers |-> [m |-> initial, t |-> initial, at |-> "idle"]]
    /\ boot' = "run"
    /\ UNCHANGED <<file, watched, initial, notes, queue, applying>>

(***************************************************************************)
(* The watcher thread.                                                     *)
(***************************************************************************)
\* wait_for_change: for each event the file is read as it now is; a file that
\* does not load is skipped, and another is sent to the apply-task.
wait_for_change ==
    /\ boot = "run" /\ notes > 0
    /\ notes' = notes - 1
    /\ queue' = IF file.cfg # Malformed THEN Append(queue, file) ELSE queue
    /\ UNCHANGED <<file, watched, boot, initial, applying, matcher, tables, snap>>

(***************************************************************************)
(* The apply-task: vip_matcher.store, then apply_config's replace_tables.  *)
(***************************************************************************)
\* Mutants of StoreMatcher: the newest queued configuration goes first; the
\* rest of a backlog is discarded.
StoreNewestMatcher ==
    /\ applying = Idle /\ queue # <<>>
    /\ applying' = <<queue[Len(queue)]>>
    /\ matcher' = queue[Len(queue)]
    /\ queue' = SubSeq(queue, 1, Len(queue) - 1)
    /\ UNCHANGED <<file, watched, boot, initial, notes, tables, snap>>

StoreOldestMatcher ==
    /\ applying = Idle /\ queue # <<>>
    /\ applying' = <<Head(queue)>>
    /\ matcher' = Head(queue)
    /\ queue' = <<>>
    /\ UNCHANGED <<file, watched, boot, initial, notes, tables, snap>>

StoreMatcher ==
    /\ applying = Idle /\ queue # <<>>
    /\ applying' = <<Head(queue)>>
    /\ matcher' = Head(queue)
    /\ queue' = Tail(queue)
    /\ UNCHANGED <<file, watched, boot, initial, notes, tables, snap>>

StoreTables ==
    /\ applying # Idle
    /\ tables' = applying[1]
    /\ applying' = Idle
    /\ UNCHANGED <<file, watched, boot, initial, notes, queue, matcher, snap>>

(***************************************************************************)
(* A worker's batch: it loads the matcher, then the tables, and decides    *)
(* its packets from the two.                                               *)
(***************************************************************************)
Running == boot \in {"run", "blind"}

LoadMatcher(w) ==
    /\ Running /\ snap[w].at # "half"
    /\ snap' = [snap EXCEPT ![w].m = matcher, ![w].at = "half"]
    /\ UNCHANGED <<file, watched, boot, initial, notes, queue, applying, matcher, tables>>

LoadTables(w) ==
    /\ Running /\ snap[w].at = "half"
    /\ snap' = [snap EXCEPT ![w].t = tables, ![w].at = "ready"]
    /\ UNCHANGED <<file, watched, boot, initial, notes, queue, applying, matcher, tables>>

Init ==
    /\ file \in [ver : {0}, cfg : InitialFiles]
    /\ watched = FALSE /\ boot = "load"
    /\ initial = Booted
    /\ notes = 0 /\ queue = <<>> /\ applying = Idle
    /\ matcher = Booted /\ tables = Booted
    /\ snap = [w \in Workers |-> [m |-> Booted, t |-> Booted, at |-> "idle"]]

Next ==
    \/ \E c \in Configs \cup {Malformed} : FileChanges(c)
    \/ BootLoad \/ BootWatch \/ BootInstall
    \/ wait_for_change \/ StoreMatcher \/ StoreTables
    \/ \E w \in Workers : LoadMatcher(w) \/ LoadTables(w)

Spec == Init /\ [][Next]_vars

\* The main thread, the watcher thread and the apply-task keep running.
FairSpec ==
    /\ Spec
    /\ WF_vars(BootLoad \/ BootWatch \/ BootInstall)
    /\ WF_vars(wait_for_change) /\ WF_vars(StoreMatcher \/ StoreTables)

(***************************************************************************)
(* Properties.                                                             *)
(***************************************************************************)
\* Type invariant: in particular only a configuration that was validated is
\* ever queued, active, or in a worker's hands.
TypeOK ==
    LET Active == Version(Configs \cup {EmptyConfig}) IN
    /\ file \in Version(Configs \cup {Malformed})
    /\ boot \in {"load", "watch", "install", "run", "blind"}
    /\ initial \in Version(Configs \cup {EmptyConfig, Malformed})
    /\ notes \in Nat /\ watched \in BOOLEAN
    /\ queue \in Seq(Version(Configs))
    /\ applying = Idle \/ applying \in [{1} -> Version(Configs)]
    /\ matcher \in Active /\ tables \in Active
    /\ snap \in [Workers -> [m : Active, t : Active, at : {"idle", "half", "ready"}]]

\* However changes of the file, events, the apply-task and the workers' loads
\* interleave, an older configuration never replaces a newer one: not in the two
\* shared pointers, and not in a worker's hands from one batch to the next.
NeverGoesBack ==
    [][/\ matcher'.ver >= matcher.ver /\ tables'.ver >= tables.ver
       /\ \A w \in Workers : /\ snap'[w].m.ver >= snap[w].m.ver
                              /\ snap'[w].t.ver >= snap[w].t.ver]_vars

\* When the file comes to rest on a valid configuration, the matcher and the
\* tables come to rest on it, provided the process loaded it at boot or had its
\* watch installed when the file was changed.  Events outnumber and lag behind
\* the changes they report.
FileIsApplied ==
    \A c \in Configs :
        <>[](file.cfg = c /\ (watched \/ file = initial))
            => <>[](matcher.cfg = c /\ tables.cfg = c)
=============================================================================
