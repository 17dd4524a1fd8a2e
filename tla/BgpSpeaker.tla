----------------------------- MODULE BgpSpeaker -----------------------------
(***************************************************************************)
(* The BGP speaker (lb-bgp/speaker.rs) between its two users in lb-node:   *)
(* the orchestrator, which fans announce and withdraw commands out to one  *)
(* unbounded channel per peer, and the event pump, which re-announces all  *)
(* VIPs when a peer connects; and the shutdown sequence of main.rs.        *)
(*                                                                         *)
(* Every enabled peer has a session task.  Its program counter is          *)
(*   Start        the head of the loop in run                              *)
(*   Connecting   the TCP connect, under CONNECT_TIMEOUT                   *)
(*   Opening      the OPEN was sent, the peer's OPEN is awaited            *)
(*   Established  the select of drive                                      *)
(*   Writing      send_announce or send_withdraw                           *)
(*   Backoff      the select after a lost or failed session                *)
(*   Done         run has returned and the channel is closed               *)
(* The task of a disabled peer waits for Shutdown in Disabled.             *)
(***************************************************************************)
EXTENDS Integers, Sequences

CONSTANTS
    Peers, Enabled,   \* the configured peers, and those with enabled = true
    Vips,
    MaxCmds,          \* bound on a channel before the orchestrator sends more
    MaxEvents         \* bound on the event channel before a session starts

ASSUME PeersAssumption == Enabled \subseteq Peers
ASSUME BoundsAssumption == MaxCmds \in Nat /\ MaxEvents \in Nat

VARIABLES
    task,        \* [peer -> program counter]
    cmds,        \* [peer -> queued commands]
    out,         \* [peer -> the command being written, with the VIPs left]
    rib,         \* [peer -> VIPs the router has learned on this session]
    events,      \* the event channel
    gauge,       \* [peer -> lb_bgp_peer_state]
    announced,   \* the orchestrator's vips_announced
    phase        \* the shutdown handler of main.rs

vars == <<task, cmds, out, rib, events, gauge, announced, phase>>
sessionVars == <<task, out, rib>>

Announce(vs) == [kind |-> "announce", vips |-> vs]
Withdraw(vs) == [kind |-> "withdraw", vips |-> vs]
ShutdownCmd  == [kind |-> "shutdown", vips |-> {}]
Nothing      == Announce({})

SessionCmd == [kind : {"announce", "withdraw", "shutdown"}, vips : SUBSET Vips]
BgpEvent   == [kind : {"connected", "disconnected"}, peer : Peers]
Tasks      == {"Start", "Connecting", "Opening", "Established", "Writing",
               "Backoff", "Done", "Disabled"}

Up(p) == task[p] \in {"Established", "Writing"}

Event(k, p) == Append(events, [kind |-> k, peer |-> p])

(***************************************************************************)
(* The fan-out.  announce and withdraw skip disabled peers and do nothing  *)
(* for an empty list; a send to a task that has returned is dropped.       *)
(***************************************************************************)
NonEmpty(c) == IF c.vips = {} THEN <<>> ELSE <<c>>

FanOut(s) ==
    cmds' = [p \in Peers |->
                IF p \in Enabled /\ task[p] # "Done" THEN cmds[p] \o s ELSE cmds[p]]

HasRoom(n) == \A p \in Peers : Len(cmds[p]) + n <= MaxCmds

\* Mutant of sync_bgp_announcements: nothing is withdrawn.
sync_announce_only(desired) ==
    /\ phase # "stopped" /\ HasRoom(2)
    /\ desired # announced
    /\ FanOut(NonEmpty(Announce(desired \ announced)))
    /\ announced' = desired
    /\ UNCHANGED <<sessionVars, events, gauge, phase>>

\* sync_bgp_announcements, for whatever VIPs the orchestrator now desires.
sync_bgp_announcements(desired) ==
    /\ phase # "stopped" /\ HasRoom(2)
    /\ desired # announced
    /\ FanOut(NonEmpty(Announce(desired \ announced)) \o NonEmpty(Withdraw(announced \ desired)))
    /\ announced' = desired
    /\ UNCHANGED <<sessionVars, events, gauge, phase>>

\* Mutant of EventPump: the gauge is set but nothing is re-announced.
EventPumpGaugeOnly ==
    /\ phase # "stopped" /\ events # <<>>
    /\ gauge' = [gauge EXCEPT ![Head(events).peer] = IF Head(events).kind = "connected" THEN 1 ELSE 0]
    /\ events' = Tail(events)
    /\ UNCHANGED <<sessionVars, cmds, announced, phase>>

\* One turn of the event pump: the peer's gauge, and reannounce_all.
EventPump ==
    /\ phase # "stopped" /\ events # <<>>
    /\ LET e == Head(events) IN
        \/ /\ e.kind = "connected"
           /\ HasRoom(1)
           /\ FanOut(NonEmpty(Announce(announced)))
           /\ gauge' = [gauge EXCEPT ![e.peer] = 1]
        \/ /\ e.kind = "disconnected"
           /\ gauge' = [gauge EXCEPT ![e.peer] = 0]
           /\ UNCHANGED cmds
    /\ events' = Tail(events)
    /\ UNCHANGED <<sessionVars, announced, phase>>

(***************************************************************************)
(* The shutdown handler: withdraw_all, two seconds of drain, shutdown of   *)
(* the speaker, and the forwarder once every task has been joined.         *)
(***************************************************************************)
withdraw_all ==
    /\ phase = "running"
    /\ FanOut(NonEmpty(Withdraw(announced)))
    /\ announced' = {}
    /\ phase' = "draining"
    /\ UNCHANGED <<sessionVars, events, gauge>>

shutdown ==
    /\ phase = "draining"
    /\ cmds' = [p \in Peers |-> IF task[p] # "Done" THEN Append(cmds[p], ShutdownCmd) ELSE cmds[p]]
    /\ phase' = "joining"
    /\ UNCHANGED <<sessionVars, events, gauge, announced>>

Joined ==
    /\ phase = "joining"
    /\ \A p \in Peers : task[p] = "Done"
    /\ phase' = "stopped"
    /\ UNCHANGED <<sessionVars, cmds, events, gauge, announced>>

(***************************************************************************)
(* The session task.                                                       *)
(***************************************************************************)
\* Mutant of Drain: the announcements are kept for the new session.
DrainKeepsAnnounces(p) ==
    /\ task[p] = "Start"
    /\ cmds' = [cmds EXCEPT ![p] = SelectSeq(@, LAMBDA c : c.kind = "announce")]
    /\ task' = [task EXCEPT ![p] =
                   IF \E i \in DOMAIN cmds[p] : cmds[p][i].kind = "shutdown"
                   THEN "Done" ELSE "Connecting"]
    /\ UNCHANGED <<out, rib, events, gauge, announced, phase>>

\* The loop head: queued commands are dropped; a Shutdown among them returns.
Drain(p) ==
    /\ task[p] = "Start"
    /\ cmds' = [cmds EXCEPT ![p] = <<>>]
    /\ task' = [task EXCEPT ![p] =
                   IF \E i \in DOMAIN cmds[p] : cmds[p][i].kind = "shutdown"
                   THEN "Done" ELSE "Connecting"]
    /\ UNCHANGED <<out, rib, events, gauge, announced, phase>>

EnterBackoff(p) == task' = [task EXCEPT ![p] = "Backoff"]

\* connect fails: no TCP connection within CONNECT_TIMEOUT, or a peer that
\* closes or answers with something else than an OPEN.
ConnectFails(p) ==
    /\ task[p] \in {"Connecting", "Opening"}
    /\ EnterBackoff(p)
    /\ UNCHANGED <<cmds, out, rib, events, gauge, announced, phase>>

ConnectTcp(p) ==
    /\ task[p] = "Connecting"
    /\ task' = [task EXCEPT ![p] = "Opening"]
    /\ UNCHANGED <<cmds, out, rib, events, gauge, announced, phase>>

\* The peer's OPEN arrives: run emits PeerConnected before it enters drive.
OpenReceived(p) ==
    /\ task[p] = "Opening"
    /\ Len(events) < MaxEvents
    /\ task' = [task EXCEPT ![p] = "Established"]
    /\ events' = Event("connected", p)
    /\ UNCHANGED <<cmds, out, rib, gauge, announced, phase>>

\* What a task leaves in its channel when it takes one command: returning
\* drops the receiver.
Rest(p) == IF Head(cmds[p]).kind = "shutdown" THEN <<>> ELSE Tail(cmds[p])

\* Mutant of RecvCmd: a terminal disconnect emits no event.
RecvCmdSilent(p) ==
    /\ task[p] = "Established"
    /\ cmds[p] # <<>>
    /\ cmds' = [cmds EXCEPT ![p] = Rest(p)]
    /\ \/ /\ Head(cmds[p]).kind = "shutdown"
          /\ task' = [task EXCEPT ![p] = "Done"]
          /\ rib' = [rib EXCEPT ![p] = {}]
          /\ UNCHANGED out
       \/ /\ Head(cmds[p]).kind # "shutdown"
          /\ task' = [task EXCEPT ![p] = "Writing"]
          /\ out' = [out EXCEPT ![p] = Head(cmds[p])]
          /\ UNCHANGED rib
    /\ UNCHANGED <<events, gauge, announced, phase>>

\* drive takes a command.  Shutdown is terminal and closes the connection.
RecvCmd(p) ==
    /\ task[p] = "Established"
    /\ cmds[p] # <<>>
    /\ cmds' = [cmds EXCEPT ![p] = Rest(p)]
    /\ \/ /\ Head(cmds[p]).kind = "shutdown"
          /\ task' = [task EXCEPT ![p] = "Done"]
          /\ rib' = [rib EXCEPT ![p] = {}]
          /\ events' = Event("disconnected", p)
          /\ UNCHANGED out
       \/ /\ Head(cmds[p]).kind # "shutdown"
          /\ task' = [task EXCEPT ![p] = "Writing"]
          /\ out' = [out EXCEPT ![p] = Head(cmds[p])]
          /\ UNCHANGED <<rib, events>>
    /\ UNCHANGED <<gauge, announced, phase>>

\* One UPDATE of the command is written, or the command is finished.
WriteUpdate(p) ==
    /\ task[p] = "Writing"
    /\ \E v \in out[p].vips :
        /\ out' = [out EXCEPT ![p].vips = @ \ {v}]
        /\ rib' = [rib EXCEPT ![p] = IF out[p].kind = "announce" THEN @ \cup {v} ELSE @ \ {v}]
    /\ UNCHANGED <<task, cmds, events, gauge, announced, phase>>

WriteDone(p) ==
    /\ task[p] = "Writing" /\ out[p].vips = {}
    /\ task' = [task EXCEPT ![p] = "Established"]
    /\ out' = [out EXCEPT ![p] = Nothing]
    /\ UNCHANGED <<cmds, rib, events, gauge, announced, phase>>

\* A transient disconnect: a failed write, a closed connection, a
\* NOTIFICATION or the hold timer.  The router forgets the session's routes.
SessionLost(p) ==
    /\ Up(p)
    /\ EnterBackoff(p)
    /\ out' = [out EXCEPT ![p] = Nothing]
    /\ rib' = [rib EXCEPT ![p] = {}]
    /\ events' = Event("disconnected", p)
    /\ UNCHANGED <<cmds, gauge, announced, phase>>

\* The select of the backoff: the sleep elapses, or any one command ends it.
BackoffOver(p) ==
    /\ task[p] = "Backoff"
    /\ task' = [task EXCEPT ![p] = "Start"]
    /\ UNCHANGED <<cmds, out, rib, events, gauge, announced, phase>>

\* Mutant of BackoffCmd: a Shutdown cuts the backoff short like any command.
BackoffCmdIgnoresShutdown(p) ==
    /\ task[p] = "Backoff"
    /\ cmds[p] # <<>>
    /\ cmds' = [cmds EXCEPT ![p] = Rest(p)]
    /\ task' = [task EXCEPT ![p] = "Start"]
    /\ UNCHANGED <<out, rib, events, gauge, announced, phase>>

BackoffCmd(p) ==
    /\ task[p] = "Backoff"
    /\ cmds[p] # <<>>
    /\ cmds' = [cmds EXCEPT ![p] = Rest(p)]
    /\ task' = [task EXCEPT ![p] = IF Head(cmds[p]).kind = "shutdown" THEN "Done" ELSE "Start"]
    /\ UNCHANGED <<out, rib, events, gauge, announced, phase>>

\* The task of a disabled peer.
DisabledCmd(p) ==
    /\ task[p] = "Disabled"
    /\ cmds[p] # <<>>
    /\ cmds' = [cmds EXCEPT ![p] = Rest(p)]
    /\ task' = [task EXCEPT ![p] = IF Head(cmds[p]).kind = "shutdown" THEN "Done" ELSE @]
    /\ UNCHANGED <<out, rib, events, gauge, announced, phase>>

Init ==
    /\ task = [p \in Peers |-> IF p \in Enabled THEN "Start" ELSE "Disabled"]
    /\ cmds = [p \in Peers |-> <<>>]
    /\ out = [p \in Peers |-> Nothing]
    /\ rib = [p \in Peers |-> {}]
    /\ events = <<>>
    /\ gauge = [p \in Peers |-> 0]
    /\ announced = {}
    /\ phase = "running"

\* The steps a session task takes by itself, and those that wait for the peer.
Session(p) ==
    \/ Drain(p) \/ RecvCmd(p) \/ WriteUpdate(p) \/ WriteDone(p)
    \/ BackoffOver(p) \/ BackoffCmd(p) \/ DisabledCmd(p)
    \/ (task[p] = "Connecting" /\ ConnectFails(p)) \/ ConnectTcp(p)

PeerAnswers(p) ==
    \/ (task[p] = "Opening" /\ ConnectFails(p)) \/ OpenReceived(p)

\* process::exit after the joined shutdown.
Exited == phase = "stopped" /\ UNCHANGED vars

Next ==
    \/ \E desired \in SUBSET Vips : sync_bgp_announcements(desired)
    \/ EventPump
    \/ withdraw_all \/ shutdown \/ Joined \/ Exited
    \/ \E p \in Peers : Session(p) \/ PeerAnswers(p) \/ SessionLost(p)

Spec == Init /\ [][Next]_vars

\* The runtime schedules every task and select polls every ready branch; the
\* connect and the backoff have timers; a signalled shutdown goes on.
FairSpec ==
    /\ Spec
    /\ WF_vars(EventPump) /\ WF_vars(shutdown) /\ WF_vars(Joined)
    /\ \A p \in Peers : WF_vars(Session(p))

\* In addition, every peer that accepts a connection answers or closes it.
AnsweringSpec == FairSpec /\ \A p \in Peers : WF_vars(PeerAnswers(p))

(***************************************************************************)
(* Properties.                                                             *)
(***************************************************************************)
\* Type invariant of the speaker.
TypeOK ==
    /\ task \in [Peers -> Tasks]
    /\ cmds \in [Peers -> Seq(SessionCmd)]
    /\ out \in [Peers -> SessionCmd]
    /\ rib \in [Peers -> SUBSET Vips]
    /\ events \in Seq(BgpEvent)
    /\ gauge \in [Peers -> {0, 1}]
    /\ announced \subseteq Vips
    /\ phase \in {"running", "draining", "joining", "stopped"}

\* What the commands in s make of a router that has learned r: the last
\* command that names a VIP decides about it.
Effect(r, s) ==
    {v \in Vips :
        \/ /\ v \in r
           /\ \A j \in DOMAIN s : s[j].kind = "withdraw" => v \notin s[j].vips
        \/ \E i \in DOMAIN s :
             /\ s[i].kind = "announce" /\ v \in s[i].vips
             /\ \A j \in DOMAIN s : j > i /\ s[j].kind = "withdraw" => v \notin s[j].vips}

\* What the router will have learned once the session has worked off the
\* command it is writing and its channel.
Settled(p) == Effect(Effect(rib[p], <<out[p]>>), cmds[p])

Reannouncing(p) == \E i \in DOMAIN events : events[i] = [kind |-> "connected", peer |-> p]

\* No session ends up with a VIP the orchestrator has withdrawn, in whatever
\* order commands are queued, dropped by the drain or the backoff, and
\* re-announced by the event pump for an earlier session.
NoStaleRoute == \A p \in Enabled : Up(p) => Settled(p) \subseteq announced

\* No session misses an announced VIP, unless the event pump has yet to
\* re-announce all of them for that session: what the drain and the backoff
\* drop is always replayed.
NoMissingRoute ==
    \A p \in Enabled : Up(p) /\ ~Reannouncing(p) => announced \subseteq Settled(p)

\* The peer gauge the operator sees: once the pump has handled the events of
\* a peer, the gauge says whether its session is established.
GaugeIsAccurate ==
    \A p \in Peers :
        (\A i \in DOMAIN events : events[i].peer # p) => (gauge[p] = 1 <=> Up(p))

\* A session that stays up gets the routes: once the desired VIPs settle, the
\* router has learned exactly those.
RoutesConverge ==
    \A p \in Enabled, vs \in SUBSET Vips :
        <>[](Up(p) /\ announced = vs) => <>[](rib[p] = vs)

\* shutdown: every session task ends and the process stops.
ShutdownCompletes == phase = "draining" ~> phase = "stopped"
=============================================================================
