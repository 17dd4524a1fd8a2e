----------------------------- MODULE WatchProofs -----------------------------
(***************************************************************************)
(* Proofs about the two components that watch something outside the node   *)
(* and hand on what they have seen.                                        *)
(*                                                                         *)
(* ConfigReload, for any configurations, any number of changes of the file *)
(* and any number of workers: only a configuration that was validated ever *)
(* reaches the data plane, and an older one never replaces a newer one     *)
(* there.                                                                  *)
(*                                                                         *)
(* HealthChecker, for any targets, probes and thresholds: a status follows *)
(* from the unbroken run of results behind it.                             *)
(***************************************************************************)
EXTENDS ConfigReload, HealthChecker, TLAPS

-----------------------------------------------------------------------------
(***************************************************************************)
(* ConfigReload: the invariants.                                           *)
(***************************************************************************)
Loaded == Version(Configs)
Active == Version(Configs \cup {EmptyConfig})

\* The type invariant, with what the boot sequence has done so far: until it
\* has installed a configuration there is nothing to apply.
BootInv ==
    /\ TypeOK
    /\ boot \in {"watch", "install"} => initial \in Loaded
    /\ boot # "run" => matcher = Booted /\ tables = Booted /\ queue = <<>> /\ applying = Idle

\* Along the way from the file to the packets the versions only get older:
\* the file, the queue from its end to its front, the configuration whose
\* matcher has been stored, and the tables.
OrderInv ==
    /\ initial.ver <= file.ver
    /\ \A i \in DOMAIN queue : matcher.ver <= queue[i].ver /\ queue[i].ver <= file.ver
    /\ \A i, j \in DOMAIN queue : i < j => queue[i].ver <= queue[j].ver
    /\ matcher.ver <= file.ver /\ tables.ver <= matcher.ver
    /\ applying # Idle => applying[1] = matcher

\* What a worker has loaded is no newer than what it would load now.
SnapInv == \A w \in Workers : /\ snap[w].m.ver <= matcher.ver
                              /\ snap[w].t.ver <= tables.ver

-----------------------------------------------------------------------------
(***************************************************************************)
(* Versions and queues.                                                    *)
(***************************************************************************)
LEMMA VersionFacts ==
    /\ \A S : \A v \in Version(S) : v.ver \in Nat /\ v.ver <= MaxChanges /\ v.cfg \in S
    /\ Loaded \subseteq Active /\ Booted \in Active /\ Booted.ver = 0
    /\ EmptyConfig # Malformed /\ Malformed \notin Configs /\ MaxChanges \in Nat
  BY ReloadAssumption DEF Version, Loaded, Active, Booted

\* What the watcher reads is the configuration of the file, or nothing.
LEMMA FileFacts ==
    ASSUME BootInv, file.cfg # Malformed
    PROVE  file \in Loaded
  BY DEF BootInv, TypeOK, Version, Loaded

LEMMA QueueGrows ==
    ASSUME NEW S, NEW q \in Seq(S), NEW x \in S
    PROVE  /\ Append(q, x) \in Seq(S)
           /\ \A i \in DOMAIN Append(q, x) :
                 \/ i \in DOMAIN q /\ Append(q, x)[i] = q[i]
                 \/ i = Len(q) + 1 /\ Append(q, x)[i] = x
  OBVIOUS

LEMMA QueueShrinks ==
    ASSUME NEW S, NEW q \in Seq(S), q # <<>>
    PROVE  /\ Head(q) \in S /\ Head(q) = q[1] /\ 1 \in DOMAIN q /\ Tail(q) \in Seq(S)
           /\ \A i \in DOMAIN Tail(q) : i \in Nat \ {0} /\ i + 1 \in DOMAIN q /\ Tail(q)[i] = q[i + 1]
  OBVIOUS

-----------------------------------------------------------------------------
(***************************************************************************)
(* The boot sequence and the types.                                        *)
(***************************************************************************)
LEMMA BootInit == Init => BootInv
  <1> SUFFICES ASSUME Init PROVE BootInv
    OBVIOUS
  <1>1. file \in Version(Configs \cup {Malformed})
    BY ReloadAssumption DEF Init, Version
  <1>2. /\ initial \in Version(Configs \cup {EmptyConfig, Malformed})
        /\ matcher \in Active /\ tables \in Active
    BY ReloadAssumption DEF Init, Version, Booted, Active
  <1>3. snap \in [Workers -> [m : Active, t : Active, at : {"idle", "half", "ready"}]]
    BY <1>2 DEF Init
  <1>4. /\ boot = "load" /\ notes = 0 /\ watched = FALSE /\ queue = <<>> /\ applying = Idle
        /\ matcher = Booted /\ tables = Booted
    BY DEF Init
  <1>5. watched \in BOOLEAN
    BY <1>4, Zenon
  <1>7. queue \in Seq(Version(Configs)) /\ notes \in Nat
    BY <1>4
  <1>6. TypeOK
    BY <1>1, <1>2, <1>3, <1>4, <1>5, <1>7 DEF TypeOK, Active
  <1> QED
    BY <1>4, <1>6 DEF BootInv

LEMMA BootNext == BootInv /\ [Next]_vars => BootInv'
  <1> SUFFICES ASSUME BootInv, [Next]_vars
               PROVE  BootInv'
    OBVIOUS
  <1>0. /\ file \in Version(Configs \cup {Malformed})
        /\ boot \in {"load", "watch", "install", "run", "blind"}
        /\ initial \in Version(Configs \cup {EmptyConfig, Malformed})
        /\ notes \in Nat /\ watched \in BOOLEAN
        /\ queue \in Seq(Loaded)
        /\ applying = Idle \/ applying \in [{1} -> Loaded]
        /\ matcher \in Active /\ tables \in Active
        /\ snap \in [Workers -> [m : Active, t : Active, at : {"idle", "half", "ready"}]]
        /\ boot \in {"watch", "install"} => initial \in Loaded
        /\ boot # "run" => /\ matcher = Booted /\ tables = Booted
                           /\ queue = <<>> /\ applying = Idle
    BY DEF BootInv, TypeOK, Loaded, Active
  <1> DEFINE Next1 ==
        /\ file' \in Version(Configs \cup {Malformed})
        /\ boot' \in {"load", "watch", "install", "run", "blind"}
        /\ initial' \in Version(Configs \cup {EmptyConfig, Malformed})
        /\ notes' \in Nat /\ watched' \in BOOLEAN
        /\ queue' \in Seq(Loaded)
        /\ applying' = Idle \/ applying' \in [{1} -> Loaded]
        /\ matcher' \in Active /\ tables' \in Active
        /\ snap' \in [Workers -> [m : Active, t : Active, at : {"idle", "half", "ready"}]]
        /\ boot' \in {"watch", "install"} => initial' \in Loaded
        /\ boot' # "run" => /\ matcher' = Booted /\ tables' = Booted
                            /\ queue' = <<>> /\ applying' = Idle
  <1>1. ASSUME NEW c \in Configs \cup {Malformed}, FileChanges(c)
        PROVE  Next1
    <2>1. file' \in Version(Configs \cup {Malformed})
      BY <1>0, <1>1, VersionFacts DEF FileChanges, Version
    <2>2. watched' \in BOOLEAN /\ notes' \in Nat
      BY <1>0, <1>1 DEF FileChanges
    <2>3. UNCHANGED <<boot, initial, queue, applying, matcher, tables, snap>>
      BY <1>1 DEF FileChanges
    <2> QED
      BY <1>0, <2>1, <2>2, <2>3
  <1>2. ASSUME BootLoad
        PROVE  Next1
    <2>1. /\ boot = "load" /\ initial' = file
          /\ boot' = IF file.cfg = Malformed THEN "blind" ELSE "watch"
          /\ UNCHANGED <<file, watched, notes, queue, applying, matcher, tables, snap>>
      BY <1>2 DEF BootLoad
    <2>2. initial' \in Version(Configs \cup {EmptyConfig, Malformed})
      BY <1>0, <2>1 DEF Version
    <2>3. boot' = "watch" => initial' \in Loaded
      BY <2>1, FileFacts
    <2> QED
      BY <1>0, <2>1, <2>2, <2>3
  <1>3. ASSUME BootWatch
        PROVE  Next1
    BY <1>0, <1>3 DEF BootWatch
  <1>4. ASSUME BootInstall
        PROVE  Next1
    <2>1. /\ initial \in Active /\ boot' = "run" /\ matcher' = initial /\ tables' = initial
          /\ snap' = [w \in Workers |-> [m |-> initial, t |-> initial, at |-> "idle"]]
          /\ UNCHANGED <<file, watched, initial, notes, queue, applying>>
      BY <1>0, <1>4, VersionFacts DEF BootInstall
    <2>2. snap' \in [Workers -> [m : Active, t : Active, at : {"idle", "half", "ready"}]]
      BY <2>1
    <2> QED
      BY <1>0, <2>1, <2>2
  <1>5. ASSUME wait_for_change
        PROVE  Next1
    <2>1. file.cfg # Malformed => Append(queue, file) \in Seq(Loaded)
      BY <1>0, FileFacts, QueueGrows
    <2> QED
      BY <1>0, <1>5, <2>1 DEF wait_for_change
  <1>6. ASSUME StoreMatcher
        PROVE  Next1
    <2>1. Head(queue) \in Loaded /\ Tail(queue) \in Seq(Loaded) /\ Head(queue) \in Active
      BY <1>0, <1>6, QueueShrinks, VersionFacts DEF StoreMatcher
    <2>2. <<Head(queue)>> \in [{1} -> Loaded]
      BY <2>1
    <2> QED
      BY <1>0, <1>6, <2>1, <2>2 DEF StoreMatcher
  <1>7. ASSUME StoreTables
        PROVE  Next1
    BY <1>0, <1>7, VersionFacts DEF StoreTables
  <1>8. ASSUME NEW w \in Workers, LoadMatcher(w) \/ LoadTables(w)
        PROVE  Next1
    <2>1. snap' \in [Workers -> [m : Active, t : Active, at : {"idle", "half", "ready"}]]
      BY <1>0, <1>8 DEF LoadMatcher, LoadTables
    <2>2. UNCHANGED <<file, watched, boot, initial, notes, queue, applying, matcher, tables>>
      BY <1>8 DEF LoadMatcher, LoadTables
    <2> QED
      BY <1>0, <2>1, <2>2
  <1>9. ASSUME UNCHANGED vars
        PROVE  Next1
    BY <1>0, <1>9 DEF vars
  <1> HIDE DEF Next1
  <1>10. Next1
    BY <1>1, <1>2, <1>3, <1>4, <1>5, <1>6, <1>7, <1>8, <1>9 DEF Next
  <1> QED
    BY <1>10 DEF BootInv, TypeOK, Next1, Loaded, Active

\* TypeOK: whatever the file contains and whenever it is read, only what has
\* been loaded and validated is ever queued, swapped in or loaded by a worker.
THEOREM OnlyValidatedIsActive == Spec => []TypeOK
  <1>1. Init => BootInv
    BY BootInit
  <1>2. BootInv /\ [Next]_vars => BootInv'
    BY BootNext
  <1>3. BootInv => TypeOK
    BY DEF BootInv
  <1> QED
    BY <1>1, <1>2, <1>3, PTL DEF Spec

-----------------------------------------------------------------------------
(***************************************************************************)
(* The order of versions.                                                  *)
(***************************************************************************)
\* What holds a version, and that the versions are numbers.
LEMMA Numbers ==
    ASSUME BootInv
    PROVE  /\ file.ver \in Nat /\ file.ver <= MaxChanges /\ initial.ver \in Nat
           /\ matcher.ver \in Nat /\ tables.ver \in Nat
           /\ queue \in Seq(Loaded) /\ \A i \in DOMAIN queue : queue[i].ver \in Nat
  <1>1. /\ file \in Version(Configs \cup {Malformed})
        /\ initial \in Version(Configs \cup {EmptyConfig, Malformed})
        /\ queue \in Seq(Loaded) /\ matcher \in Active /\ tables \in Active
    BY DEF BootInv, TypeOK, Loaded, Active
  <1>2. \A v \in Loaded \cup Active : v.ver \in Nat
    BY VersionFacts DEF Loaded, Active
  <1>3. \A i \in DOMAIN queue : queue[i] \in Loaded
    BY <1>1
  <1> QED
    BY <1>1, <1>2, <1>3, VersionFacts

LEMMA OrderInit == Init => OrderInv
  <1> SUFFICES ASSUME Init PROVE OrderInv
    OBVIOUS
  <1>1. file.ver = 0 /\ initial.ver = 0 /\ matcher.ver = 0 /\ tables.ver = 0
    BY DEF Init, Booted
  <1> QED
    BY <1>1 DEF Init, OrderInv

\* One step never takes the versions of the matcher or the tables back.
Forward == matcher'.ver >= matcher.ver /\ tables'.ver >= tables.ver

LEMMA OrderNext == BootInv /\ OrderInv /\ [Next]_vars => OrderInv' /\ Forward
  <1> SUFFICES ASSUME BootInv, OrderInv, [Next]_vars
               PROVE  OrderInv' /\ Forward
    OBVIOUS
  <1>0. /\ file.ver \in Nat /\ initial.ver \in Nat /\ matcher.ver \in Nat /\ tables.ver \in Nat
        /\ queue \in Seq(Loaded) /\ \A i \in DOMAIN queue : queue[i].ver \in Nat
    BY Numbers
  <1>1. /\ initial.ver <= file.ver
        /\ \A i \in DOMAIN queue : matcher.ver <= queue[i].ver /\ queue[i].ver <= file.ver
        /\ \A i, j \in DOMAIN queue : i < j => queue[i].ver <= queue[j].ver
        /\ matcher.ver <= file.ver /\ tables.ver <= matcher.ver
        /\ applying # Idle => applying[1] = matcher
    BY DEF OrderInv
  <1> DEFINE Goal == OrderInv' /\ Forward
  <1>2. ASSUME NEW c \in Configs \cup {Malformed}, FileChanges(c)
        PROVE  Goal
    <2>1. file'.ver = file.ver + 1 /\ UNCHANGED <<initial, queue, applying, matcher, tables>>
      BY <1>2 DEF FileChanges
    <2>2. /\ initial.ver <= file'.ver /\ matcher.ver <= file'.ver
          /\ \A i \in DOMAIN queue : queue[i].ver <= file'.ver
      BY <1>0, <1>1, <2>1
    <2> QED
      BY <1>0, <1>1, <2>1, <2>2 DEF OrderInv, Forward
  <1>3. ASSUME BootLoad
        PROVE  Goal
    <2>1. initial' = file /\ UNCHANGED <<file, queue, applying, matcher, tables>>
      BY <1>3 DEF BootLoad
    <2> QED
      BY <1>0, <1>1, <2>1 DEF OrderInv, Forward
  <1>4. ASSUME BootWatch
        PROVE  Goal
    BY <1>0, <1>1, <1>4 DEF BootWatch, OrderInv, Forward
  <1>5. ASSUME BootInstall
        PROVE  Goal
    <2>1. /\ matcher = Booted /\ tables = Booted /\ queue = <<>> /\ applying = Idle
          /\ matcher' = initial /\ tables' = initial
          /\ UNCHANGED <<file, initial, queue, applying>>
      BY <1>5 DEF BootInstall, BootInv
    <2> QED
      BY <1>0, <1>1, <2>1, VersionFacts DEF OrderInv, Forward
  <1>6. ASSUME wait_for_change
        PROVE  Goal
    <2>1. UNCHANGED <<file, initial, applying, matcher, tables>>
      BY <1>6 DEF wait_for_change
    <2>2. CASE UNCHANGED queue
      BY <1>0, <1>1, <2>1, <2>2 DEF OrderInv, Forward
    <2>3. CASE file.cfg # Malformed /\ queue' = Append(queue, file)
      <3>1. \A i \in DOMAIN queue' : \/ i \in DOMAIN queue /\ queue'[i] = queue[i]
                                     \/ i = Len(queue) + 1 /\ queue'[i] = file
        BY <1>0, <2>3, FileFacts, QueueGrows
      <3>2. \A i \in DOMAIN queue : i \in Nat /\ i <= Len(queue) /\ Len(queue) \in Nat
        BY <1>0
      <3>3. ASSUME NEW i \in DOMAIN queue'
            PROVE  matcher.ver <= queue'[i].ver /\ queue'[i].ver <= file.ver
        BY <1>0, <1>1, <3>1
      <3>4. ASSUME NEW i \in DOMAIN queue', NEW j \in DOMAIN queue', i < j
            PROVE  queue'[i].ver <= queue'[j].ver
        <4>1. i \in DOMAIN queue /\ queue'[i] = queue[i]
          <5>1. ~(i = Len(queue) + 1)
            <6>1. SUFFICES ASSUME i = Len(queue) + 1 PROVE FALSE
              OBVIOUS
            <6>2. Len(queue) \in Nat
              BY <1>0
            <6>3. j = Len(queue) + 1 \/ (j \in Nat /\ j <= Len(queue))
              BY <3>1, <3>2
            <6> QED
              BY <3>4, <6>1, <6>2, <6>3
          <5> QED
            BY <3>1, <5>1
        <4>2. CASE j = Len(queue) + 1 /\ queue'[j] = file
          BY <1>1, <4>1, <4>2
        <4>3. CASE j \in DOMAIN queue /\ queue'[j] = queue[j]
          BY <1>1, <3>4, <4>1, <4>3
        <4> QED
          BY <3>1, <4>2, <4>3
      <3> QED
        BY <1>0, <1>1, <2>1, <3>3, <3>4 DEF OrderInv, Forward
    <2> QED
      BY <1>6, <2>2, <2>3 DEF wait_for_change
  <1>7. ASSUME StoreMatcher
        PROVE  Goal
    <2>1. /\ queue # <<>> /\ applying' = <<Head(queue)>> /\ matcher' = Head(queue)
          /\ queue' = Tail(queue) /\ UNCHANGED <<file, initial, tables>>
      BY <1>7 DEF StoreMatcher
    <2>2. /\ Head(queue) = queue[1] /\ 1 \in DOMAIN queue
          /\ \A i \in DOMAIN queue' : i \in Nat \ {0} /\ i + 1 \in DOMAIN queue /\ queue'[i] = queue[i + 1]
      BY <1>0, <2>1, QueueShrinks
    <2>3. matcher' = queue[1] /\ applying'[1] = matcher'
      BY <2>1, <2>2
    <2>4. /\ matcher.ver <= queue[1].ver /\ queue[1].ver <= file.ver /\ queue[1].ver \in Nat
      BY <1>0, <1>1, <2>2
    <2>5. ASSUME NEW i \in DOMAIN queue'
          PROVE  queue[1].ver <= queue'[i].ver /\ queue'[i].ver <= file.ver
      <3>1. i + 1 \in DOMAIN queue /\ 1 \in DOMAIN queue /\ 1 < i + 1 /\ queue'[i] = queue[i + 1]
        BY <2>2
      <3> QED
        BY <1>1, <3>1
    <2>6. ASSUME NEW i \in DOMAIN queue', NEW j \in DOMAIN queue', i < j
          PROVE  queue'[i].ver <= queue'[j].ver
      <3>1. /\ i + 1 \in DOMAIN queue /\ j + 1 \in DOMAIN queue /\ i + 1 < j + 1
            /\ queue'[i] = queue[i + 1] /\ queue'[j] = queue[j + 1]
        BY <2>2, <2>6
      <3> QED
        BY <1>1, <3>1
    <2>7. tables.ver <= queue[1].ver
      BY <1>0, <1>1, <2>4
    <2> QED
      BY <1>0, <1>1, <2>1, <2>3, <2>4, <2>5, <2>6, <2>7 DEF OrderInv, Forward
  <1>8. ASSUME StoreTables
        PROVE  Goal
    <2>1. /\ tables' = matcher /\ applying' = Idle
          /\ UNCHANGED <<file, initial, queue, matcher>>
      BY <1>1, <1>8 DEF StoreTables
    <2> QED
      BY <1>0, <1>1, <2>1 DEF OrderInv, Forward
  <1>9. ASSUME UNCHANGED <<file, initial, queue, applying, matcher, tables>>
        PROVE  Goal
    BY <1>0, <1>1, <1>9 DEF OrderInv, Forward
  <1>10. ASSUME NEW w \in Workers, LoadMatcher(w) \/ LoadTables(w)
         PROVE  Goal
    BY <1>9, <1>10 DEF LoadMatcher, LoadTables
  <1>11. ASSUME UNCHANGED vars
         PROVE  Goal
    BY <1>9, <1>11 DEF vars
  <1> HIDE DEF Goal
  <1>12. Goal
    BY <1>2, <1>3, <1>4, <1>5, <1>6, <1>7, <1>8, <1>10, <1>11 DEF Next
  <1> QED
    BY <1>12 DEF Goal

LEMMA SnapInit == Init => SnapInv
  BY DEF Init, SnapInv, Booted

\* Nor does it give a worker an older matcher or older tables than it had.
SnapForward == \A w \in Workers : /\ snap'[w].m.ver >= snap[w].m.ver
                                  /\ snap'[w].t.ver >= snap[w].t.ver

LEMMA SnapNext == BootInv /\ SnapInv /\ Forward /\ BootInv' /\ [Next]_vars => SnapInv' /\ SnapForward
  <1> SUFFICES ASSUME BootInv, SnapInv, Forward, BootInv', [Next]_vars
               PROVE  SnapInv' /\ SnapForward
    OBVIOUS
  <1>1. /\ matcher.ver \in Nat /\ tables.ver \in Nat /\ matcher'.ver \in Nat /\ tables'.ver \in Nat
        /\ snap \in [Workers -> [m : Active, t : Active, at : {"idle", "half", "ready"}]]
        /\ \A w \in Workers : snap[w].m.ver \in Nat /\ snap[w].t.ver \in Nat
    BY VersionFacts DEF BootInv, TypeOK, Active
  <1>2. \A w \in Workers : snap[w].m.ver <= matcher.ver /\ snap[w].t.ver <= tables.ver
    BY DEF SnapInv
  <1>3. matcher.ver <= matcher'.ver /\ tables.ver <= tables'.ver
    BY <1>1 DEF Forward
  <1>4. ASSUME UNCHANGED snap
        PROVE  SnapInv' /\ SnapForward
    BY <1>1, <1>2, <1>3, <1>4 DEF SnapInv, SnapForward
  <1>5. CASE BootInstall
    <2>1. /\ matcher.ver = 0 /\ tables.ver = 0 /\ matcher' = initial /\ tables' = initial
          /\ \A w \in Workers : snap'[w].m = initial /\ snap'[w].t = initial
      BY <1>5, VersionFacts DEF BootInstall, BootInv
    <2> QED
      BY <1>1, <1>2, <1>3, <2>1 DEF SnapInv, SnapForward
  <1>6. ASSUME NEW w \in Workers, LoadMatcher(w) \/ LoadTables(w)
        PROVE  SnapInv' /\ SnapForward
    <2>1. /\ matcher' = matcher /\ tables' = tables
          /\ snap'[w].m \in {snap[w].m, matcher} /\ snap'[w].t \in {snap[w].t, tables}
          /\ \A u \in Workers : u # w => snap'[u] = snap[u]
      BY <1>1, <1>6 DEF LoadMatcher, LoadTables
    <2> QED
      BY <1>1, <1>2, <2>1 DEF SnapInv, SnapForward
  <1> QED
    BY <1>4, <1>5, <1>6
    DEF Next, vars, FileChanges, BootLoad, BootWatch, wait_for_change, StoreMatcher, StoreTables

\* NeverGoesBack: however many changes of the file are pending, and whatever
\* the file contains when the watcher gets to each, the two stores of the
\* apply-task never replace a newer configuration with an older one, and what a
\* worker loads for a batch is never older than what it had for the last.
THEOREM VersionsNeverGoBack == Spec => NeverGoesBack
  <1> DEFINE Inv == BootInv /\ OrderInv /\ SnapInv
  <1>1. Init => Inv
    BY BootInit, OrderInit, SnapInit
  <1>2. Inv /\ [Next]_vars => Inv' /\ Forward /\ SnapForward
    BY BootNext, OrderNext, SnapNext
  <1>3. Inv /\ [Next]_vars
           => [/\ matcher'.ver >= matcher.ver /\ tables'.ver >= tables.ver
               /\ \A w \in Workers : /\ snap'[w].m.ver >= snap[w].m.ver
                                      /\ snap'[w].t.ver >= snap[w].t.ver]_vars
    BY <1>2 DEF Forward, SnapForward
  <1> HIDE DEF Inv
  <1> QED
    BY <1>1, <1>2, <1>3, PTL DEF Spec, NeverGoesBack

-----------------------------------------------------------------------------
(* HealthChecker: the window of latest results, and what the counters say of *)
(* it.                                                                      *)

\* The j-th latest result of r, from 0.
Ago(r, j) == r[Len(r) - j]

Pushed(r, v) == LET s == Append(r, v) IN IF Len(s) > MaxThreshold THEN Tail(s) ELSE s

Windows == {r \in Seq(BOOLEAN) : Len(r) <= MaxThreshold}

\* The unbroken run of v at the end of r has the length n.
RunIs(r, v, n) ==
    /\ n \in 0 .. Len(r)
    /\ \A j \in 0 .. (n - 1) : Ago(r, j) = v
    /\ n < Len(r) => Ago(r, n) # v

LEMMA MaxThresholdIsMax ==
    /\ MaxThreshold \in Nat \ {0}
    /\ healthy_threshold <= MaxThreshold /\ unhealthy_threshold <= MaxThreshold
  BY ThresholdsAssumption DEF MaxThreshold

\* Pushing a result moves the earlier ones back by one, and drops at most the
\* earliest.
LEMMA PushMovesBack ==
    ASSUME NEW r \in Windows, NEW v \in BOOLEAN
    PROVE  /\ Pushed(r, v) \in Windows
           /\ Len(Pushed(r, v)) = IF Len(r) < MaxThreshold THEN Len(r) + 1 ELSE Len(r)
           /\ Len(Pushed(r, v)) > 0
           /\ Ago(Pushed(r, v), 0) = v
           /\ \A j \in 0 .. (Len(Pushed(r, v)) - 2) : Ago(Pushed(r, v), j + 1) = Ago(r, j)
  <1> DEFINE s == Append(r, v)
  <1>1. MaxThreshold \in Nat \ {0}
    BY MaxThresholdIsMax
  <1>2. r \in Seq(BOOLEAN) /\ Len(r) \in Nat /\ Len(r) <= MaxThreshold
    BY DEF Windows
  <1>3. /\ s \in Seq(BOOLEAN) /\ Len(s) = Len(r) + 1 /\ s[Len(r) + 1] = v
        /\ \A i \in 1 .. Len(r) : s[i] = r[i]
    BY <1>2
  <1>4. CASE Len(r) < MaxThreshold
    <2>1. Pushed(r, v) = s
      BY <1>1, <1>2, <1>3, <1>4 DEF Pushed
    <2> HIDE DEF s
    <2> QED
      BY <1>1, <1>2, <1>3, <1>4, <2>1 DEF Ago, Windows
  <1>5. CASE Len(r) = MaxThreshold
    <2> DEFINE t == Tail(s)
    <2>1. Pushed(r, v) = t
      BY <1>1, <1>2, <1>3, <1>5 DEF Pushed
    <2> HIDE DEF s
    <2>2. s # <<>>
      BY <1>2, <1>3
    <2>3. t \in Seq(BOOLEAN) /\ Len(t) = Len(r) /\ \A i \in 1 .. Len(r) : t[i] = s[i + 1]
      BY <1>2, <1>3, <2>2
    <2> HIDE DEF t
    <2> QED
      BY <1>1, <1>2, <1>3, <1>5, <2>1, <2>3 DEF Ago, Windows
  <1> QED
    BY <1>1, <1>2, <1>4, <1>5

\* A result of the run's kind lengthens the run, as far as the window goes,
\* and the other result ends it.
LEMMA RunAfterPush ==
    ASSUME NEW r \in Windows, NEW v \in BOOLEAN, NEW n, RunIs(r, v, n)
    PROVE  /\ RunIs(Pushed(r, v), v, increment(n))
           /\ RunIs(Pushed(r, ~v), v, 0)
  <1>1. MaxThreshold \in Nat \ {0} /\ Len(r) \in Nat /\ Len(r) <= MaxThreshold
    BY MaxThresholdIsMax DEF Windows
  <1>2. /\ n \in 0 .. Len(r)
        /\ \A j \in 0 .. (n - 1) : Ago(r, j) = v
        /\ n < Len(r) => Ago(r, n) # v
    BY DEF RunIs
  <1>3. RunIs(Pushed(r, v), v, increment(n))
    <2> DEFINE q == Pushed(r, v)
               m == increment(n)
    <2>1. /\ Len(q) = IF Len(r) < MaxThreshold THEN Len(r) + 1 ELSE Len(r)
          /\ Ago(q, 0) = v /\ \A j \in 0 .. (Len(q) - 2) : Ago(q, j + 1) = Ago(r, j)
      BY PushMovesBack
    <2>2. m = IF n < MaxThreshold THEN n + 1 ELSE n
      BY DEF increment
    <2> HIDE DEF q, m
    <2>3. m \in 0 .. Len(q)
      BY <1>1, <1>2, <2>1, <2>2
    <2>4. ASSUME NEW j \in 0 .. (m - 1)
          PROVE  Ago(q, j) = v
      <3>1. CASE j = 0
        BY <2>1, <3>1
      <3>2. CASE j > 0
        <4>1. j - 1 \in 0 .. (n - 1) /\ j - 1 \in 0 .. (Len(q) - 2) /\ (j - 1) + 1 = j
          BY <1>1, <1>2, <2>1, <2>2, <2>3, <3>2
        <4> QED
          BY <1>2, <2>1, <4>1
      <3> QED
        BY <3>1, <3>2
    <2>5. m < Len(q) => Ago(q, m) # v
      <3> SUFFICES ASSUME m < Len(q) PROVE Ago(q, m) # v
        OBVIOUS
      <3>1. m = n + 1 /\ n \in 0 .. (Len(q) - 2) /\ n < Len(r)
        BY <1>1, <1>2, <2>1, <2>2
      <3> QED
        BY <1>2, <2>1, <3>1
    <2> QED
      BY <2>3, <2>4, <2>5 DEF RunIs, q, m
  <1>4. RunIs(Pushed(r, ~v), v, 0)
    <2> DEFINE q == Pushed(r, ~v)
    <2>1. q \in Windows /\ Len(q) > 0 /\ Ago(q, 0) = ~v
      BY PushMovesBack
    <2>2. Len(q) \in Nat
      BY <2>1 DEF Windows
    <2> HIDE DEF q
    <2>3. 0 \in 0 .. Len(q) /\ ~(\E j \in 0 .. (0 - 1) : TRUE)
      BY <2>2
    <2>4. Ago(q, 0) # v
      BY <2>1
    <2> QED
      BY <2>3, <2>4 DEF RunIs, q
  <1> QED
    BY <1>3, <1>4

-----------------------------------------------------------------------------
(* The invariant: each counter is the length of a run at the end of the     *)
(* window, a run that reached its threshold is obeyed, and a transition in  *)
(* a task's hands is its present status.                                    *)

Counters == [status : {"Unknown", "Healthy", "Unhealthy"},
             consecutive_successes : Nat, consecutive_failures : Nat]

\* Where the task of k may be: at a stage of its own kind of probe, or not
\* probing.
StagesOf(k) == {Stages(ProbeKind[k[2]])[i] : i \in DOMAIN Stages(ProbeKind[k[2]])}
Places(k)   == StagesOf(k) \cup {"tick", "success", "failure", "publish"}

HealthTyped ==
    /\ DOMAIN stage = ProbeKeys /\ \A k \in ProbeKeys : stage[k] \in Places(k)
    /\ state \in [ProbeKeys -> Counters]
    /\ transition \in [ProbeKeys -> {"none", "Healthy", "Unhealthy"}]
    /\ DOMAIN status_map = Ips
    /\ recent \in [ProbeKeys -> Windows]

CountersAreRuns ==
    \A k \in ProbeKeys :
        /\ RunIs(recent[k], TRUE, state[k].consecutive_successes)
        /\ RunIs(recent[k], FALSE, state[k].consecutive_failures)

RunsAreObeyed ==
    \A k \in ProbeKeys :
        /\ state[k].consecutive_successes >= healthy_threshold => state[k].status = "Healthy"
        /\ state[k].consecutive_failures >= unhealthy_threshold => state[k].status = "Unhealthy"

TransitionIsStatus ==
    \A k \in ProbeKeys :
        /\ stage[k] = "publish" => transition[k] = state[k].status
        /\ stage[k] # "publish" => transition[k] = "none"

HealthInv == HealthTyped /\ CountersAreRuns /\ RunsAreObeyed /\ TransitionIsStatus

\* A counter decides what the window says.
LEMMA RunsAreCounted ==
    ASSUME NEW r \in Windows, NEW v \in BOOLEAN, NEW n, RunIs(r, v, n), NEW m \in Nat \ {0}
    PROVE  (Len(r) >= m /\ \A i \in (Len(r) - m + 1) .. Len(r) : r[i] = v) <=> n >= m
  <1>1. Len(r) \in Nat /\ n \in 0 .. Len(r)
    BY DEF Windows, RunIs
  <1>2. CASE n >= m
    <2>1. ASSUME NEW i \in (Len(r) - m + 1) .. Len(r)
          PROVE  r[i] = v
      <3>1. Len(r) - i \in 0 .. (n - 1) /\ Len(r) - (Len(r) - i) = i
        BY <1>1, <1>2
      <3> QED
        BY <3>1 DEF RunIs, Ago
    <2> QED
      BY <1>1, <1>2, <2>1
  <1>3. CASE n < m /\ Len(r) >= m
    <2>1. Len(r) - n \in (Len(r) - m + 1) .. Len(r) /\ n < Len(r) /\ n \in Nat
      BY <1>1, <1>3
    <2>2. r[Len(r) - n] # v
      BY <2>1 DEF RunIs, Ago
    <2>3. ~(n >= m)
      BY <1>1, <1>3
    <2> QED
      BY <2>1, <2>2, <2>3
  <1>4. CASE n < m /\ ~(Len(r) >= m)
    BY <1>1, <1>4
  <1> QED
    BY <1>1, <1>2, <1>3, <1>4

-----------------------------------------------------------------------------
(* The steps of a task.                                                     *)

\* What a probe does between its tick and its result leaves the counters, the
\* window and the map alone.
LEMMA ProbeOnlyMoves ==
    ASSUME HealthInv, NEW k \in ProbeKeys, HealthTick(k) \/ StagePasses(k) \/ StageFails(k)
    PROVE  /\ stage[k] # "publish"
           /\ \E x \in Places(k) \ {"publish"} : stage' = [stage EXCEPT ![k] = x]
           /\ UNCHANGED <<state, transition, status_map, recent>>
  <1> DEFINE stages == Stages(ProbeKind[k[2]])
  <1>1. ProbeKind[k[2]] \in {"tcp", "http", "https"}
    BY TargetsAssumption DEF ProbeKeys
  <1>2. \/ stages = <<"connect">> \/ stages = <<"connect", "write", "read">>
        \/ stages = <<"connect", "handshake", "write", "read">>
    BY <1>1, Zenon DEF Stages, TcpProbe, HttpProbe, HttpsProbe
  <1>3. StagesOf(k) = {stages[i] : i \in DOMAIN stages}
    BY DEF StagesOf
  <1> HIDE DEF stages
  <1>4. /\ Len(stages) \in Nat \ {0} /\ DOMAIN stages = 1 .. Len(stages)
        /\ \A i \in DOMAIN stages : stages[i] # "publish"
    <2>1. CASE stages = <<"connect">>
      BY <2>1
    <2>2. CASE stages = <<"connect", "write", "read">>
      BY <2>2
    <2>3. CASE stages = <<"connect", "handshake", "write", "read">>
      BY <2>3
    <2> QED
      BY <1>2, <2>1, <2>2, <2>3
  <1>5. \A i \in 1 .. Len(stages) : stages[i] \in Places(k) \ {"publish"}
    BY <1>3, <1>4 DEF Places
  <1>6. "success" \in Places(k) \ {"publish"} /\ "failure" \in Places(k) \ {"publish"}
    BY DEF Places
  <1>7. CASE HealthTick(k)
    <2>1. stage' = [stage EXCEPT ![k] = stages[1]]
      BY <1>7 DEF HealthTick, stages
    <2>2. stages[1] \in Places(k) \ {"publish"}
      BY <1>4, <1>5
    <2> QED
      BY <1>7, <2>1, <2>2 DEF HealthTick
  <1>8. CASE StagePasses(k)
    <2> DEFINE i == CHOOSE j \in DOMAIN stages : stages[j] = stage[k]
    <2>1. /\ Probing(k)
          /\ IF i < Len(stages)
             THEN stage' = [stage EXCEPT ![k] = stages[i + 1]]
             ELSE \E line \in IF stage[k] = "read" THEN StatusLines ELSE {"code"} :
                     stage' = [stage EXCEPT ![k] =
                         IF accepted(line) THEN "success" ELSE "failure"]
          /\ UNCHANGED <<state, transition, status_map, recent>>
      BY <1>8 DEF StagePasses, stages
    \* The probe is at one of its stages, so i is its position.
    <2>2. \E j \in DOMAIN stages : stages[j] = stage[k]
      BY <1>3, <2>1 DEF HealthInv, HealthTyped, Places, Probing
    <2>3. i \in 1 .. Len(stages)
      BY <1>4, <2>2
    <2> HIDE DEF i
    <2>4. CASE i < Len(stages)
      <3>1. stages[i + 1] \in Places(k) \ {"publish"}
        BY <1>4, <1>5, <2>3, <2>4
      <3> QED
        BY <2>1, <2>4, <3>1 DEF Probing
    <2>5. CASE ~(i < Len(stages))
      <3>1. PICK line : stage' = [stage EXCEPT ![k] =
                                    IF accepted(line) THEN "success" ELSE "failure"]
        BY <2>1, <2>5
      <3> QED
        BY <1>6, <2>1, <3>1 DEF Probing
    <2> QED
      BY <2>4, <2>5
  <1>9. CASE StageFails(k)
    BY <1>6, <1>9 DEF StageFails, Probing
  <1> QED
    BY <1>7, <1>8, <1>9

\* A result is counted: the counters follow the window, and the status changes
\* exactly as the run that the result completes says.
LEMMA ResultIsCounted ==
    ASSUME HealthInv, NEW k \in ProbeKeys, record_result(k)
    PROVE  /\ HealthInv'
           /\ state'[k].status =
                 IF state'[k].consecutive_successes >= healthy_threshold THEN "Healthy"
                 ELSE IF state'[k].consecutive_failures >= unhealthy_threshold THEN "Unhealthy"
                 ELSE state[k].status
           /\ \A l \in ProbeKeys \ {k} : state'[l] = state[l]
           /\ state[k].status # state'[k].status => transition'[k] # "none"
           /\ transition[k] = "none"
  <1> DEFINE success == stage[k] = "success"
             s == count(state[k], success)
             n == new_status(s)
             t == IF n = "none" THEN s ELSE [s EXCEPT !.status = n]
  <1>1. /\ stage[k] \in {"success", "failure"}
        /\ state' = [state EXCEPT ![k] = t]
        /\ transition' = [transition EXCEPT ![k] = n]
        /\ stage' = [stage EXCEPT ![k] = IF n = "none" THEN "tick" ELSE "publish"]
        /\ recent' = [recent EXCEPT ![k] = Pushed(@, success)]
        /\ status_map' = status_map
    BY DEF record_result, Pushed
  <1>2. /\ HealthTyped /\ success \in BOOLEAN /\ state[k] \in Counters /\ recent[k] \in Windows
        /\ RunIs(recent[k], TRUE, state[k].consecutive_successes)
        /\ RunIs(recent[k], FALSE, state[k].consecutive_failures)
        /\ transition[k] = "none"
    BY <1>1 DEF HealthInv, HealthTyped, CountersAreRuns, TransitionIsStatus
  <1>3. s = [status |-> state[k].status,
             consecutive_successes |-> IF success THEN increment(state[k].consecutive_successes) ELSE 0,
             consecutive_failures |-> IF success THEN 0 ELSE increment(state[k].consecutive_failures)]
    BY <1>2 DEF count, Counters
  <1>4. /\ RunIs(Pushed(recent[k], success), TRUE, s.consecutive_successes)
        /\ RunIs(Pushed(recent[k], success), FALSE, s.consecutive_failures)
        /\ Pushed(recent[k], success) \in Windows
    <2>1. CASE success
      <3>1. success = TRUE /\ ~FALSE = TRUE
        BY <2>1
      <3>2. RunIs(Pushed(recent[k], TRUE), TRUE, increment(state[k].consecutive_successes))
        BY <1>2, RunAfterPush
      <3>3. RunIs(Pushed(recent[k], ~FALSE), FALSE, 0) /\ Pushed(recent[k], TRUE) \in Windows
        BY <1>2, RunAfterPush, PushMovesBack
      <3>4. /\ s.consecutive_successes = increment(state[k].consecutive_successes)
            /\ s.consecutive_failures = 0
        BY <1>3, <2>1
      <3> HIDE DEF s, success
      <3> QED
        BY <3>1, <3>2, <3>3, <3>4
    <2>2. CASE ~success
      <3>1. success = FALSE /\ ~TRUE = FALSE
        BY <2>2
      <3>2. RunIs(Pushed(recent[k], FALSE), FALSE, increment(state[k].consecutive_failures))
        BY <1>2, RunAfterPush
      <3>3. RunIs(Pushed(recent[k], ~TRUE), TRUE, 0) /\ Pushed(recent[k], FALSE) \in Windows
        BY <1>2, RunAfterPush, PushMovesBack
      <3>4. /\ s.consecutive_failures = increment(state[k].consecutive_failures)
            /\ s.consecutive_successes = 0
        BY <1>3, <2>2
      <3> HIDE DEF s, success
      <3> QED
        BY <3>1, <3>2, <3>3, <3>4
    <2> QED
      BY <2>1, <2>2
  <1>5. s \in Counters /\ s.status = state[k].status
    BY <1>2, <1>3, MaxThresholdIsMax DEF Counters, increment
  <1>6. n = IF s.status # "Healthy" /\ s.consecutive_successes >= healthy_threshold THEN "Healthy"
            ELSE IF s.status # "Unhealthy" /\ s.consecutive_failures >= unhealthy_threshold
            THEN "Unhealthy" ELSE "none"
    BY DEF new_status
  <1>7. s.consecutive_successes = 0 \/ s.consecutive_failures = 0
    BY <1>3
  <1> HIDE DEF s, n
  <1>8. /\ t \in Counters /\ n \in {"none", "Healthy", "Unhealthy"}
        /\ t.consecutive_successes = s.consecutive_successes
        /\ t.consecutive_failures = s.consecutive_failures
        /\ t.status = IF n = "none" THEN s.status ELSE n
    BY <1>5, <1>6 DEF Counters
  <1> HIDE DEF t
  <1>9. /\ t.status = IF t.consecutive_successes >= healthy_threshold THEN "Healthy"
                      ELSE IF t.consecutive_failures >= unhealthy_threshold THEN "Unhealthy"
                      ELSE state[k].status
        /\ t.consecutive_failures >= unhealthy_threshold => t.status = "Unhealthy"
    BY <1>5, <1>6, <1>7, <1>8, ThresholdsAssumption
  <1> HIDE DEF success
  <1>10. state'[k] = t /\ transition'[k] = n /\ recent'[k] = Pushed(recent[k], success)
         /\ stage'[k] = IF n = "none" THEN "tick" ELSE "publish"
    BY <1>1, <1>2 DEF HealthTyped
  <1>11. \A l \in ProbeKeys \ {k} : /\ state'[l] = state[l] /\ transition'[l] = transition[l]
                                    /\ recent'[l] = recent[l] /\ stage'[l] = stage[l]
    BY <1>1, <1>2 DEF HealthTyped
  <1>12. HealthTyped'
    <2>2. DOMAIN stage' = ProbeKeys /\ \A l \in ProbeKeys : stage'[l] \in Places(l)
      BY <1>1, <1>2, <1>10, <1>11 DEF HealthTyped, Places
    <2>3. state' \in [ProbeKeys -> Counters]
      BY <1>1, <1>2, <1>8 DEF HealthTyped
    <2>4. transition' \in [ProbeKeys -> {"none", "Healthy", "Unhealthy"}]
      BY <1>1, <1>2, <1>8 DEF HealthTyped
    <2>5. recent' \in [ProbeKeys -> Windows]
      BY <1>1, <1>2, <1>4 DEF HealthTyped
    <2>6. DOMAIN status_map' = Ips
      BY <1>1, <1>2 DEF HealthTyped
    <2> QED
      BY <2>2, <2>3, <2>4, <2>5, <2>6 DEF HealthTyped
  <1>13. CountersAreRuns'
    BY <1>4, <1>8, <1>10, <1>11 DEF HealthInv, CountersAreRuns
  <1>14. RunsAreObeyed'
    BY <1>9, <1>10, <1>11 DEF HealthInv, RunsAreObeyed
  <1>15. TransitionIsStatus'
    BY <1>8, <1>10, <1>11 DEF HealthInv, TransitionIsStatus
  <1> QED
    BY <1>2, <1>5, <1>8, <1>9, <1>10, <1>11, <1>12, <1>13, <1>14, <1>15 DEF HealthInv

\* A publication puts the task's present status in the map.
LEMMA StatusIsPublished ==
    ASSUME HealthInv, NEW k \in ProbeKeys, send_modify(k)
    PROVE  /\ HealthInv' /\ UNCHANGED <<state, recent>>
           /\ status_map' = [status_map EXCEPT ![k[1]] = state[k].status]
           /\ \A l \in ProbeKeys \ {k} : transition'[l] = transition[l]
  <1>1. /\ stage[k] = "publish" /\ UNCHANGED <<state, recent>>
        /\ status_map' = [status_map EXCEPT ![k[1]] = transition[k]]
        /\ transition' = [transition EXCEPT ![k] = "none"]
        /\ stage' = [stage EXCEPT ![k] = "tick"]
    BY DEF send_modify
  <1>2. transition[k] = state[k].status
    BY <1>1 DEF HealthInv, TransitionIsStatus
  <1>3. HealthTyped'
    BY <1>1 DEF HealthInv, HealthTyped, Places, StagesOf
  <1>4. CountersAreRuns' /\ RunsAreObeyed'
    BY <1>1 DEF HealthInv, CountersAreRuns, RunsAreObeyed, RunIs, Ago
  <1>5. TransitionIsStatus'
    BY <1>1 DEF HealthInv, HealthTyped, TransitionIsStatus
  <1> QED
    BY <1>1, <1>2, <1>3, <1>4, <1>5 DEF HealthInv, HealthTyped

LEMMA ProbeKeepsInv ==
    ASSUME HealthInv, NEW k \in ProbeKeys, HealthTick(k) \/ StagePasses(k) \/ StageFails(k)
    PROVE  HealthInv'
  <1>1. PICK x \in Places(k) \ {"publish"} : stage' = [stage EXCEPT ![k] = x]
    BY ProbeOnlyMoves
  <1>2. stage[k] # "publish" /\ UNCHANGED <<state, transition, status_map, recent>>
    BY ProbeOnlyMoves
  <1>3. HealthTyped'
    BY <1>1, <1>2 DEF HealthInv, HealthTyped, Places, StagesOf
  <1>4. CountersAreRuns' /\ RunsAreObeyed'
    BY <1>2 DEF HealthInv, CountersAreRuns, RunsAreObeyed, RunIs, Ago
  <1>5. TransitionIsStatus'
    BY <1>1, <1>2 DEF HealthInv, HealthTyped, TransitionIsStatus
  <1> QED
    BY <1>3, <1>4, <1>5 DEF HealthInv

LEMMA HealthUnchanged ==
    ASSUME HealthInv, UNCHANGED <<stage, state, transition, status_map, recent>>
    PROVE  HealthInv'
  BY DEF HealthInv, HealthTyped, CountersAreRuns, RunsAreObeyed, TransitionIsStatus,
         Places, StagesOf, RunIs, Ago

LEMMA HealthInvInit == HealthInit => HealthInv
  <1> SUFFICES ASSUME HealthInit PROVE HealthInv
    OBVIOUS
  <1>1. <<>> \in Windows /\ Len(<<>>) = 0
    BY MaxThresholdIsMax DEF Windows
  <1>2. \A v \in BOOLEAN : RunIs(<<>>, v, 0)
    BY <1>1 DEF RunIs
  <1>3. HealthTyped
    <2>1. [status |-> "Unknown", consecutive_successes |-> 0, consecutive_failures |-> 0]
             \in Counters
      BY DEF Counters
    <2>2. stage = [k \in ProbeKeys |-> "tick"] /\ \A k \in ProbeKeys : "tick" \in Places(k)
      BY DEF HealthInit, Places
    <2> QED
      BY <1>1, <2>1, <2>2 DEF HealthInit, HealthTyped
  <1>4. \A k \in ProbeKeys : /\ state[k].consecutive_successes = 0
                             /\ state[k].consecutive_failures = 0
                             /\ recent[k] = <<>> /\ stage[k] = "tick" /\ transition[k] = "none"
    BY DEF HealthInit
  <1>5. CountersAreRuns
    BY <1>2, <1>4 DEF CountersAreRuns
  <1>6. RunsAreObeyed /\ TransitionIsStatus
    BY <1>4, ThresholdsAssumption DEF RunsAreObeyed, TransitionIsStatus
  <1> QED
    BY <1>3, <1>5, <1>6 DEF HealthInv

LEMMA HealthInvNext == HealthInv /\ [HealthNext]_healthVars => HealthInv'
  <1> SUFFICES ASSUME HealthInv, [HealthNext]_healthVars PROVE HealthInv'
    OBVIOUS
  <1>1. CASE UNCHANGED healthVars
    BY <1>1, HealthUnchanged DEF healthVars
  <1>2. ASSUME NEW k \in ProbeKeys, ProbeTask(k) \/ TargetDies(k)
        PROVE  HealthInv'
    <2>1. CASE HealthTick(k) \/ StagePasses(k) \/ StageFails(k)
      BY <2>1, ProbeKeepsInv
    <2>2. CASE record_result(k)
      BY <2>2, ResultIsCounted
    <2>3. CASE send_modify(k)
      BY <2>3, StatusIsPublished
    <2>4. CASE TargetDies(k)
      BY <2>4, HealthUnchanged DEF TargetDies
    <2> QED
      BY <1>2, <2>1, <2>2, <2>3, <2>4 DEF ProbeTask
  <1> QED
    BY <1>1, <1>2 DEF HealthNext

\* The two saturating counters, the window and the status agree with each
\* other in every reachable state.
THEOREM HealthInvHolds == HealthSpec => []HealthInv
  BY HealthInvInit, HealthInvNext, PTL DEF HealthSpec

-----------------------------------------------------------------------------
(* The status.                                                              *)

\* What the window says of the two thresholds, the counters say too.
WindowIsCounted ==
    \A k \in ProbeKeys :
        /\ LastResults(k, healthy_threshold, TRUE)
              <=> state[k].consecutive_successes >= healthy_threshold
        /\ LastResults(k, unhealthy_threshold, FALSE)
              <=> state[k].consecutive_failures >= unhealthy_threshold

LEMMA InvCountsWindow == HealthInv => WindowIsCounted
  <1> SUFFICES ASSUME HealthInv, NEW k \in ProbeKeys
               PROVE  /\ LastResults(k, healthy_threshold, TRUE)
                            <=> state[k].consecutive_successes >= healthy_threshold
                      /\ LastResults(k, unhealthy_threshold, FALSE)
                            <=> state[k].consecutive_failures >= unhealthy_threshold
    BY DEF WindowIsCounted
  <1>1. recent[k] \in Windows
    BY DEF HealthInv, HealthTyped
  <1>2. /\ RunIs(recent[k], TRUE, state[k].consecutive_successes)
        /\ RunIs(recent[k], FALSE, state[k].consecutive_failures)
    BY DEF HealthInv, CountersAreRuns
  <1>3. LastResults(k, healthy_threshold, TRUE)
           <=> state[k].consecutive_successes >= healthy_threshold
    BY <1>1, <1>2, RunsAreCounted, ThresholdsAssumption DEF LastResults
  <1>4. LastResults(k, unhealthy_threshold, FALSE)
           <=> state[k].consecutive_failures >= unhealthy_threshold
    BY <1>1, <1>2, RunsAreCounted, ThresholdsAssumption, ZenonT(30) DEF LastResults
  <1> QED
    BY <1>3, <1>4

\* The status after a step, by the counters after it.
StatusByCounters(k) ==
    state'[k].status =
        IF state'[k].consecutive_successes >= healthy_threshold THEN "Healthy"
        ELSE IF state'[k].consecutive_failures >= unhealthy_threshold THEN "Unhealthy"
        ELSE state[k].status

\* A counter that has reached its threshold has been obeyed already, so what
\* leaves the state of a task alone agrees with its counters too.
LEMMA RestingStatus ==
    ASSUME HealthInv, NEW k \in ProbeKeys, state'[k] = state[k]
    PROVE  StatusByCounters(k)
  BY DEF HealthInv, RunsAreObeyed, StatusByCounters

LEMMA StepsFollowCounters ==
    HealthInv /\ HealthNext => \A k \in ProbeKeys : StatusByCounters(k)
  <1> SUFFICES ASSUME HealthInv, NEW l \in ProbeKeys, ProbeTask(l) \/ TargetDies(l),
                      NEW k \in ProbeKeys
               PROVE  StatusByCounters(k)
    BY DEF HealthNext
  <1>1. CASE record_result(l)
    <2>1. CASE k = l
      BY <1>1, <2>1, ResultIsCounted DEF StatusByCounters
    <2>2. CASE k # l
      <3>1. state'[k] = state[k]
        BY <1>1, <2>2, ResultIsCounted
      <3> QED
        BY <3>1, RestingStatus
    <2> QED
      BY <2>1, <2>2
  <1>2. CASE HealthTick(l) \/ StagePasses(l) \/ StageFails(l) \/ send_modify(l) \/ TargetDies(l)
    <2>1. state' = state
      BY <1>2 DEF HealthTick, StagePasses, StageFails, send_modify, TargetDies
    <2> QED
      BY <2>1, RestingStatus
  <1> QED
    BY <1>1, <1>2 DEF ProbeTask

\* For any thresholds and targets: a target's status changes with the result
\* that completes an unbroken run of its threshold's length, and no other step
\* changes it; the two saturating counters of record_result say what the
\* sequence of results says.
THEOREM RunsDecideStatus == HealthSpec => StatusFollowsRuns
  <1>1. HealthInv /\ HealthInv' /\ [HealthNext]_healthVars =>
          [\A k \in ProbeKeys :
              state'[k].status =
                 IF LastResults(k, healthy_threshold, TRUE)' THEN "Healthy"
                 ELSE IF LastResults(k, unhealthy_threshold, FALSE)' THEN "Unhealthy"
                 ELSE state[k].status]_healthVars
    <2> SUFFICES ASSUME HealthInv, HealthInv', HealthNext, NEW k \in ProbeKeys
                 PROVE  state'[k].status =
                           IF LastResults(k, healthy_threshold, TRUE)' THEN "Healthy"
                           ELSE IF LastResults(k, unhealthy_threshold, FALSE)' THEN "Unhealthy"
                           ELSE state[k].status
      OBVIOUS
    <2>1. WindowIsCounted'
      BY InvCountsWindow, PTL
    <2>2. StatusByCounters(k)
      BY StepsFollowCounters
    <2> QED
      BY <2>1, <2>2 DEF WindowIsCounted, StatusByCounters
  <1> QED
    BY <1>1, HealthInvHolds, PTL DEF HealthSpec, StatusFollowsRuns

-----------------------------------------------------------------------------
(* The map.                                                                 *)

\* For any targets, and any order in which the tasks of one address publish:
\* what the map says of the address is the present status of one of them, or
\* one of them has a newer status in its hands.
THEOREM MapIsWitnessed == HealthSpec => []MapHasWitness
  <1>1. HealthInit => MapHasWitness
    BY DEF HealthInit, MapHasWitness
  <1>2. HealthInv /\ MapHasWitness /\ [HealthNext]_healthVars => MapHasWitness'
    <2> SUFFICES ASSUME HealthInv, MapHasWitness, [HealthNext]_healthVars
                 PROVE  MapHasWitness'
      OBVIOUS
    <2>1. CASE UNCHANGED <<state, transition, status_map>>
      BY <2>1 DEF MapHasWitness
    <2>2. ASSUME NEW k \in ProbeKeys, record_result(k)
          PROVE  MapHasWitness'
      <3>1. /\ status_map' = status_map
            /\ state[k].status # state'[k].status => transition'[k] # "none"
            /\ transition[k] = "none"
        BY <2>2, ResultIsCounted DEF record_result
      <3>2. \A l \in ProbeKeys \ {k} : state'[l] = state[l] /\ transition'[l] = transition[l]
        BY <2>2 DEF record_result, HealthInv, HealthTyped
      <3> QED
        BY <3>1, <3>2 DEF MapHasWitness
    <2>3. ASSUME NEW k \in ProbeKeys, send_modify(k)
          PROVE  MapHasWitness'
      <3>1. /\ state' = state
            /\ status_map' = [status_map EXCEPT ![k[1]] = state[k].status]
            /\ \A l \in ProbeKeys \ {k} : transition'[l] = transition[l]
        BY <2>3, StatusIsPublished
      <3>2. ASSUME NEW ip \in Ips, status_map'[ip] # "none"
            PROVE  \E l \in ProbeKeys : l[1] = ip /\ (state'[l].status = status_map'[ip]
                                                         \/ transition'[l] # "none")
        <4>1. CASE ip = k[1]
          <5>1. status_map'[ip] = state[k].status
            BY <3>1, <4>1 DEF HealthInv, HealthTyped
          <5> QED
            BY <3>1, <4>1, <5>1
        \* The witness of another address is another task.
        <4>2. CASE ip # k[1]
          <5>1. status_map'[ip] = status_map[ip]
            BY <3>1, <4>2 DEF HealthInv, HealthTyped
          <5> QED
            BY <3>1, <3>2, <4>2, <5>1 DEF MapHasWitness
        <4> QED
          BY <4>1, <4>2
      <3> QED
        BY <3>2 DEF MapHasWitness
    <2> QED
      BY <2>1, <2>2, <2>3
      DEF HealthNext, ProbeTask, HealthTick, StagePasses, StageFails, TargetDies, healthVars
  <1> QED
    BY <1>1, <1>2, HealthInvHolds, PTL DEF HealthSpec
=============================================================================
