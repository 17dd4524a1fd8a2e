---------------------------- MODULE MCNodeParts -----------------------------
(* The parts of the node that share no state and meet only through what they *)
(* hand on, each by itself: in a behaviour one part moves, and the others    *)
(* rest in one state.                                                        *)
EXTENDS ConfigReload, HealthChecker, MaglevTable, BgpWire, MssClamp, MCPacketPath

CONSTANTS pool1, pool2

VARIABLE part

nodeVars == <<part, vars, healthVars, maglevVars, wireVars, clampVars, pathVars>>

-----------------------------------------------------------------------------
(* One address with two ports; the backend on port 80 is in both pools.      *)
MCTargets == {[ip |-> "ip1", port |-> 80, pool |-> pool1], [ip |-> "ip1", port |-> 80, pool |-> pool2],
              [ip |-> "ip1", port |-> 443, pool |-> pool1]}
MCProbeKind == [x \in {80, 443} |-> IF x = 80 THEN "tcp" ELSE "http"]

MCWeights == {<<3>>, <<0, 9, 1>>, <<2, 0, 1>>, <<1, 2, 1>>}

(* A peer that announces nothing and closes with a NOTIFICATION, one whose   *)
(* OPEN disables the timers, one that sends no OPEN, one that loses its      *)
(* framing in the middle of the stream, and one with a KEEPALIVE inside an   *)
(* UPDATE, which only a reader in sync takes for what it is.                 *)
Open(h)    == Framed(1, <<4, 253, 232>> \o u16(h) \o <<9, 9, 9, 9, 0>>)
Broken     == MARKER \o u16(18) \o <<4>>
MCTranscripts ==
    {<<Open(90), encode_keepalive, encode_notification(6, 0)>>,
     <<Open(0), encode_keepalive>>,
     <<encode_keepalive>>,
     <<Open(9), Broken, encode_keepalive>>,
     <<Open(9), Framed(2, encode_keepalive)>>}
MCRouterId == <<10, 0, 0, 1>>
MCWireVips == {<<203, 0, 113, 10>>}

Mss(n)    == <<2, 4>> \o u16(n)
MCOptions == {<<>>, <<Mss(1460)>>, <<Mss(536)>>, <<Mss(8960), <<1>>, <<3, 3, 7>>>>,
              <<<<1>>, Mss(1460)>>, <<<<3, 3, 7>>, <<1>>, Mss(65535)>>, <<<<0>>, Mss(1460)>>,
              <<<<4, 2>>, Mss(1460), Mss(9000)>>, <<<<2, 3, 0>>, Mss(1460)>>, <<<<8, 1>>, Mss(1460)>>,
              <<<<1>>, <<2, 4, 255>>>>, <<Mss(9000), <<8, 10, 0, 0>>>>, <<<<8, 10, 0, 0>>>>}
MCIp == {[version |-> 4, protocol |-> 6, ihl |-> 20], [version |-> 4, protocol |-> 6, ihl |-> 24],
         [version |-> 4, protocol |-> 17, ihl |-> 20]}
-----------------------------------------------------------------------------
ReloadRests ==
    /\ file = [ver |-> 0, cfg |-> Malformed] /\ watched = FALSE /\ boot = "blind"
    /\ initial = Booted /\ notes = 0 /\ queue = <<>> /\ applying = Idle
    /\ matcher = Booted /\ tables = Booted
    /\ snap = [w \in Workers |-> [m |-> Booted, t |-> Booted, at |-> "idle"]]

MaglevRests ==
    /\ weights = <<1>> /\ params = <<[offset |-> 0, skip |-> 1]>>
    /\ entries = [c \in MaglevSlots |-> 1] /\ next = <<TableSize>>
    /\ turn = 1 /\ chance = 1 /\ building = FALSE

WireRests ==
    /\ transcript = <<>> /\ phase = "failed" /\ hold = 0 /\ received = 0
    /\ incoming = <<>> /\ taken = <<>> /\ start = 0
    /\ wrote = [why |-> <<"open">>, bytes |-> encode_open(Asn, HoldTime, RouterId)]

ClampRests ==
    /\ network_mtu = 1500 /\ ip = [version |-> 4, protocol |-> 17, ihl |-> 20]
    /\ options = <<>> /\ tcp = Header(0, <<>>) /\ original = tcp
    /\ at = 20 /\ clamp_result = "NotTcp"

PathRests ==
    /\ mode = "threaded" /\ out = NoOutcome
    /\ rx = [i \in Queues |-> <<>>] /\ fragments = [i \in Queues |-> <<>>]

MCInit ==
    /\ part \in {"reload", "health", "maglev", "wire", "clamp", "path"}
    /\ IF part = "reload" THEN Init ELSE ReloadRests
    /\ HealthInit
    /\ IF part = "maglev" THEN MaglevInit ELSE MaglevRests
    /\ IF part = "wire" THEN WireInit ELSE WireRests
    /\ IF part = "clamp" THEN ClampInit ELSE ClampRests
    /\ IF part = "path" THEN PathInit ELSE PathRests

(* The end of build, of the session and of clamp_mss.                        *)
Ended ==
    \/ part = "maglev" /\ ~building
    \/ part = "wire" /\ phase \in {"failed", "closed", "panicked"}
    \/ part = "clamp" /\ clamp_result \notin {"start", "loop"}

ReloadMoves == part = "reload" /\ Next
HealthMoves == part = "health" /\ HealthNext
MaglevMoves == part = "maglev" /\ MaglevNext
WireMoves   == part = "wire" /\ WireNext
ClampMoves  == part = "clamp" /\ ClampNext
PathMoves   == part = "path" /\ PathNext

MCNext ==
    /\ UNCHANGED part
    /\ \/ ReloadMoves /\ UNCHANGED <<healthVars, maglevVars, wireVars, clampVars, pathVars>>
       \/ HealthMoves /\ UNCHANGED <<vars, maglevVars, wireVars, clampVars, pathVars>>
       \/ MaglevMoves /\ UNCHANGED <<vars, healthVars, wireVars, clampVars, pathVars>>
       \/ WireMoves   /\ UNCHANGED <<vars, healthVars, maglevVars, clampVars, pathVars>>
       \/ ClampMoves  /\ UNCHANGED <<vars, healthVars, maglevVars, wireVars, pathVars>>
       \/ PathMoves   /\ UNCHANGED <<vars, healthVars, maglevVars, wireVars, clampVars>>
       \/ Ended /\ UNCHANGED <<vars, healthVars, maglevVars, wireVars, clampVars, pathVars>>

(* The fairness of FairSpec and HealthFairness.                              *)
MCSpec ==
    /\ MCInit /\ [][MCNext]_nodeVars
    /\ WF_vars(part = "reload" /\ (BootLoad \/ BootWatch \/ BootInstall))
    /\ WF_vars(part = "reload" /\ wait_for_change)
    /\ WF_vars(part = "reload" /\ (StoreMatcher \/ StoreTables))
    /\ \A k \in ProbeKeys : WF_healthVars(part = "health" /\ ProbeTask(k))
=============================================================================
