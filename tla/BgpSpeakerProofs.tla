-------------------------- MODULE BgpSpeakerProofs --------------------------
(***************************************************************************)
(* Proofs about BgpSpeaker, for any peers, VIPs and bounds.                *)
(***************************************************************************)
EXTENDS BgpSpeaker, TLAPS

-----------------------------------------------------------------------------
(* Effect, one command at a time from either end of a channel.             *)

Apply(r, c) == IF c.kind = "announce" THEN r \cup c.vips
               ELSE IF c.kind = "withdraw" THEN r \ c.vips ELSE r

\* Queueing a command changes what a router ends up with by that command.
LEMMA EffectAppend ==
    ASSUME NEW r \in SUBSET Vips, NEW s \in Seq(SessionCmd), NEW c \in SessionCmd
    PROVE  Effect(r, Append(s, c)) = Apply(Effect(r, s), c)
  <1> DEFINE t == Append(s, c)
  <1>1. /\ DOMAIN t = 1 .. (Len(s) + 1) /\ DOMAIN s = 1 .. Len(s) /\ Len(s) \in Nat
        /\ t[Len(s) + 1] = c /\ \A i \in 1 .. Len(s) : t[i] = s[i]
    OBVIOUS
  <1>2. c.vips \subseteq Vips /\ c.kind \in {"announce", "withdraw", "shutdown"}
    BY DEF SessionCmd
  <1> HIDE DEF t
  <1>3. ASSUME NEW v \in Vips
        PROVE  v \in Effect(r, t) <=> v \in Apply(Effect(r, s), c)
    BY <1>1, <1>2, <1>3 DEF Effect, Apply
  <1> QED
    BY <1>2, <1>3 DEF Effect, Apply, t

\* Taking the first command off a channel and writing it changes nothing.
LEMMA EffectHead ==
    ASSUME NEW r \in SUBSET Vips, NEW s \in Seq(SessionCmd), s # <<>>
    PROVE  Effect(Apply(r, Head(s)), Tail(s)) = Effect(r, s)
  <1> DEFINE t == Tail(s)
             c == Head(s)
  <1>1. /\ DOMAIN t = 1 .. (Len(s) - 1) /\ DOMAIN s = 1 .. Len(s) /\ Len(s) \in Nat \ {0}
        /\ s[1] = c /\ \A i \in 1 .. (Len(s) - 1) : t[i] = s[i + 1]
    OBVIOUS
  <1>2. c \in SessionCmd
    BY <1>1
  <1>3. c.vips \subseteq Vips /\ c.kind \in {"announce", "withdraw", "shutdown"}
    BY <1>2 DEF SessionCmd
  <1> HIDE DEF t, c
  \* The positions of s are 1 and those of t moved up by one.
  <1>4. \A j \in DOMAIN s : j = 1 \/ (j - 1 \in DOMAIN t /\ t[j - 1] = s[j])
    BY <1>1
  <1>5. \A j \in DOMAIN t : j + 1 \in DOMAIN s /\ s[j + 1] = t[j] /\ j + 1 > 1
    BY <1>1
  <1>6. ASSUME NEW v \in Effect(Apply(r, c), t)
        PROVE  v \in Effect(r, s)
    <2>1. CASE \E i \in DOMAIN t :
                  /\ t[i].kind = "announce" /\ v \in t[i].vips
                  /\ \A j \in DOMAIN t : j > i /\ t[j].kind = "withdraw" => v \notin t[j].vips
      <3>1. PICK i \in DOMAIN t :
                  /\ t[i].kind = "announce" /\ v \in t[i].vips
                  /\ \A j \in DOMAIN t : j > i /\ t[j].kind = "withdraw" => v \notin t[j].vips
        BY <2>1
      <3>2. i + 1 \in DOMAIN s /\ s[i + 1] = t[i]
        BY <1>5
      <3>3. \A j \in DOMAIN s : j > i + 1 =>
               j - 1 \in DOMAIN t /\ t[j - 1] = s[j] /\ j - 1 > i
        BY <1>1, <1>4
      <3> QED
        BY <3>1, <3>2, <3>3 DEF Effect
    <2>2. CASE /\ v \in Apply(r, c)
               /\ \A j \in DOMAIN t : t[j].kind = "withdraw" => v \notin t[j].vips
      <3>1. CASE c.kind = "announce" /\ v \in c.vips
        BY <1>1, <1>4, <2>2, <3>1 DEF Effect
      <3>2. CASE v \in r /\ ~(c.kind = "withdraw" /\ v \in c.vips)
        BY <1>1, <1>4, <2>2, <3>2 DEF Effect
      <3> QED
        BY <2>2, <3>1, <3>2 DEF Apply
    <2> QED
      BY <2>1, <2>2 DEF Effect
  <1>7. ASSUME NEW v \in Effect(r, s)
        PROVE  v \in Effect(Apply(r, c), t)
    <2>1. CASE /\ v \in r
               /\ \A j \in DOMAIN s : s[j].kind = "withdraw" => v \notin s[j].vips
      BY <1>1, <1>5, <2>1 DEF Effect, Apply
    <2>2. ASSUME NEW i \in DOMAIN s, s[i].kind = "announce", v \in s[i].vips,
                 \A j \in DOMAIN s : j > i /\ s[j].kind = "withdraw" => v \notin s[j].vips
          PROVE  v \in Effect(Apply(r, c), t)
      <3>1. CASE i = 1
        BY <1>1, <1>5, <2>2, <3>1 DEF Effect, Apply
      <3>2. CASE i - 1 \in DOMAIN t /\ t[i - 1] = s[i]
        <4>1. \A j \in DOMAIN t : j > i - 1 => j + 1 > i
          BY <1>1
        <4> QED
          BY <1>3, <1>5, <2>2, <3>2, <4>1 DEF Effect, Apply
      <3> QED
        BY <1>4, <3>1, <3>2
    <2> QED
      BY <2>1, <2>2 DEF Effect
  <1> QED
    BY <1>6, <1>7 DEF t, c

LEMMA EffectNone ==
    ASSUME NEW r \in SUBSET Vips, NEW c \in SessionCmd
    PROVE  Effect(r, <<>>) = r /\ Effect(r, <<c>>) = Apply(r, c)
  <1>1. Effect(r, <<>>) = r
    BY DEF Effect
  <1>2. <<>> \in Seq(SessionCmd) /\ Append(<<>>, c) = <<c>>
    OBVIOUS
  <1> QED
    BY <1>1, <1>2, EffectAppend

\* What NonEmpty leaves out would have had no effect.
LEMMA EffectNonEmpty ==
    ASSUME NEW r \in SUBSET Vips, NEW s \in Seq(SessionCmd),
           NEW c \in SessionCmd
    PROVE  /\ s \o NonEmpty(c) \in Seq(SessionCmd)
           /\ Effect(r, s \o NonEmpty(c)) = Apply(Effect(r, s), c)
  <1>1. CASE c.vips = {}
    <2>1. s \o <<>> = s
      OBVIOUS
    <2>2. Apply(Effect(r, s), c) = Effect(r, s)
      BY <1>1 DEF Apply
    <2> QED
      BY <1>1, <2>1, <2>2 DEF NonEmpty
  <1>2. CASE c.vips # {}
    <2>1. s \o <<c>> = Append(s, c) /\ Append(s, c) \in Seq(SessionCmd)
      OBVIOUS
    <2> QED
      BY <1>2, <2>1, EffectAppend DEF NonEmpty
  <1> QED
    BY <1>1, <1>2

\* The two commands of sync_bgp_announcements turn the old set into the new.
LEMMA EffectSync ==
    ASSUME NEW r \in SUBSET Vips, NEW s \in Seq(SessionCmd),
           NEW old \in SUBSET Vips, NEW new \in SUBSET Vips
    PROVE  LET t == s \o (NonEmpty(Announce(new \ old)) \o NonEmpty(Withdraw(old \ new)))
           IN  /\ t \in Seq(SessionCmd)
               /\ Effect(r, t) = (Effect(r, s) \cup (new \ old)) \ (old \ new)
  <1> DEFINE a == Announce(new \ old)
             w == Withdraw(old \ new)
  <1>1. a \in SessionCmd /\ w \in SessionCmd
    BY DEF Announce, Withdraw, SessionCmd
  <1>2. NonEmpty(a) \in Seq(SessionCmd) /\ NonEmpty(w) \in Seq(SessionCmd)
    BY <1>1 DEF NonEmpty
  <1>3. s \o (NonEmpty(a) \o NonEmpty(w)) = (s \o NonEmpty(a)) \o NonEmpty(w)
    <2> HIDE DEF a, w
    <2> QED BY <1>2
  <1>4. /\ (s \o NonEmpty(a)) \o NonEmpty(w) \in Seq(SessionCmd)
        /\ Effect(r, (s \o NonEmpty(a)) \o NonEmpty(w)) = Apply(Apply(Effect(r, s), a), w)
    <2> HIDE DEF a, w
    <2>1. /\ s \o NonEmpty(a) \in Seq(SessionCmd)
          /\ Effect(r, s \o NonEmpty(a)) = Apply(Effect(r, s), a)
      BY <1>1, EffectNonEmpty
    <2> DEFINE sa == s \o NonEmpty(a)
    <2>2. /\ sa \o NonEmpty(w) \in Seq(SessionCmd)
          /\ Effect(r, sa \o NonEmpty(w)) = Apply(Effect(r, sa), w)
      <3> HIDE DEF sa
      <3> QED BY <1>1, <2>1, EffectNonEmpty DEF sa
    <2> QED
      BY <2>1, <2>2
  <1>5. Apply(Apply(Effect(r, s), a), w) = (Effect(r, s) \cup (new \ old)) \ (old \ new)
    BY DEF Apply, Announce, Withdraw
  <1> QED
    BY <1>3, <1>4, <1>5

-----------------------------------------------------------------------------
(***************************************************************************)
(* The inductive invariant.                                                *)
(***************************************************************************)
\* A session that is not up has taught the router nothing, and only a session
\* that is writing has a command in hand.
IdleSessions ==
    \A p \in Peers :
        /\ ~Up(p) => rib[p] = {}
        /\ task[p] # "Writing" => out[p] = Nothing
        /\ out[p].kind # "shutdown"

\* From the moment the loop head has emptied its channel, not only once it is
\* up, a session heads for no withdrawn VIP: what NoStaleRoute needs to hold
\* when the peer's OPEN arrives.
NoStaleChannel ==
    \A p \in Enabled :
        task[p] \in {"Connecting", "Opening", "Established", "Writing"} =>
            Settled(p) \subseteq announced

\* The latest event of a peer still in the channel says whether it is up.
LastEventIsTrue ==
    \A p \in Peers : \A i \in DOMAIN events :
        /\ events[i].peer = p
        /\ \A j \in DOMAIN events : j > i => events[j].peer # p
        => (events[i].kind = "connected" <=> Up(p))

RouteInv == TypeOK /\ IdleSessions /\ NoStaleChannel /\ NoMissingRoute
GaugeInv == LastEventIsTrue /\ GaugeIsAccurate

LEMMA CmdTypes ==
    /\ Nothing \in SessionCmd /\ ShutdownCmd \in SessionCmd
    /\ Nothing.kind = "announce" /\ Nothing.vips = {}
    /\ \A vs \in SUBSET Vips : Announce(vs) \in SessionCmd /\ Withdraw(vs) \in SessionCmd
  BY DEF Nothing, ShutdownCmd, Announce, Withdraw, SessionCmd

LEMMA InitInv == Init => RouteInv /\ GaugeInv
  <1> SUFFICES ASSUME Init
               PROVE  RouteInv /\ GaugeInv
    OBVIOUS
  <1>1. TypeOK
    BY CmdTypes DEF Init, TypeOK, Tasks, BgpEvent
  <1>2. \A p \in Peers : ~Up(p) /\ task[p] \in {"Start", "Disabled"}
    BY DEF Init, Up
  <1>3. IdleSessions
    BY CmdTypes DEF Init, IdleSessions
  <1>4. NoStaleChannel /\ NoMissingRoute
    BY <1>2, PeersAssumption DEF NoStaleChannel, NoMissingRoute
  <1>5. GaugeInv
    BY <1>2 DEF Init, GaugeInv, LastEventIsTrue, GaugeIsAccurate
  <1> QED
    BY <1>1, <1>3, <1>4, <1>5 DEF RouteInv

-----------------------------------------------------------------------------
(***************************************************************************)
(* The orchestrator's and the event pump's steps: they append to the       *)
(* channels and leave the sessions alone.                                  *)
(***************************************************************************)
\* What a fan-out does to the channel of a peer: nothing, or s at its end.
LEMMA FanOutFacts ==
    ASSUME TypeOK, NEW s \in Seq(SessionCmd), FanOut(s)
    PROVE  /\ cmds' \in [Peers -> Seq(SessionCmd)]
           /\ \A p \in Peers :
                 cmds'[p] = IF p \in Enabled /\ task[p] # "Done" THEN cmds[p] \o s ELSE cmds[p]
  BY DEF TypeOK, FanOut

LEMMA SyncInv ==
    ASSUME RouteInv, NEW desired \in SUBSET Vips, sync_bgp_announcements(desired)
    PROVE  RouteInv'
  <1> DEFINE s == NonEmpty(Announce(desired \ announced)) \o NonEmpty(Withdraw(announced \ desired))
  <1>1. TypeOK /\ announced \in SUBSET Vips
    BY DEF RouteInv, TypeOK
  <1>2. s \in Seq(SessionCmd)
    <2>1. Announce(desired \ announced) \in SessionCmd /\ Withdraw(announced \ desired) \in SessionCmd
      BY <1>1, CmdTypes
    <2> QED
      BY <2>1 DEF NonEmpty
  <1>3. FanOut(s) /\ announced' = desired /\ UNCHANGED <<task, out, rib, events, gauge, phase>>
    BY DEF sync_bgp_announcements, sessionVars
  <1> HIDE DEF s
  <1>4. /\ cmds' \in [Peers -> Seq(SessionCmd)]
        /\ \A p \in Enabled : task[p] # "Done" => cmds'[p] = cmds[p] \o s
    BY <1>1, <1>2, <1>3, FanOutFacts, PeersAssumption
  <1>5. TypeOK' /\ IdleSessions'
    BY <1>1, <1>3, <1>4 DEF RouteInv, TypeOK, IdleSessions, Up
  <1>6. ASSUME NEW p \in Enabled, task[p] # "Done"
        PROVE  Settled(p)' = (Settled(p) \cup (desired \ announced)) \ (announced \ desired)
    <2>1. Effect(rib[p], <<out[p]>>) \in SUBSET Vips
      BY DEF Effect
    <2>2. cmds[p] \in Seq(SessionCmd)
      BY <1>1, PeersAssumption DEF TypeOK
    <2> QED
      <3> DEFINE r == Effect(rib[p], <<out[p]>>)
      <3>1. Effect(r, cmds[p] \o s) = (Effect(r, cmds[p]) \cup (desired \ announced)) \ (announced \ desired)
        <4> HIDE DEF r
        <4> QED BY <1>1, <2>1, <2>2, EffectSync DEF r, s
      <3> QED
        BY <1>3, <1>4, <1>6, <3>1 DEF Settled
  <1>7. NoStaleChannel'
    BY <1>1, <1>3, <1>6 DEF RouteInv, NoStaleChannel
  <1>8. NoMissingRoute'
    BY <1>1, <1>3, <1>6 DEF RouteInv, NoMissingRoute, Up, Reannouncing
  <1> QED
    BY <1>5, <1>7, <1>8 DEF RouteInv

LEMMA WithdrawAllInv == RouteInv /\ withdraw_all => RouteInv'
  <1> SUFFICES ASSUME RouteInv, withdraw_all
               PROVE  RouteInv'
    OBVIOUS
  <1> DEFINE s == NonEmpty(Withdraw(announced))
  <1>1. TypeOK /\ announced \in SUBSET Vips /\ Withdraw(announced) \in SessionCmd
    BY CmdTypes DEF RouteInv, TypeOK
  <1>2. s \in Seq(SessionCmd)
    BY <1>1 DEF NonEmpty
  <1>3. /\ FanOut(s) /\ announced' = {} /\ phase' = "draining"
        /\ UNCHANGED <<task, out, rib, events, gauge>>
    BY DEF withdraw_all, sessionVars
  <1> HIDE DEF s
  <1>4. /\ cmds' \in [Peers -> Seq(SessionCmd)]
        /\ \A p \in Enabled : task[p] # "Done" => cmds'[p] = cmds[p] \o s
    BY <1>1, <1>2, <1>3, FanOutFacts, PeersAssumption
  <1>5. TypeOK' /\ IdleSessions'
    BY <1>1, <1>3, <1>4 DEF RouteInv, TypeOK, IdleSessions, Up
  <1>6. ASSUME NEW p \in Enabled, task[p] # "Done"
        PROVE  Settled(p)' = Settled(p) \ announced
    <2>1. Effect(rib[p], <<out[p]>>) \in SUBSET Vips
      BY DEF Effect
    <2>2. cmds[p] \in Seq(SessionCmd)
      BY <1>1, PeersAssumption DEF TypeOK
    <2>3. Settled(p)' = Apply(Settled(p), Withdraw(announced))
      <3> DEFINE r == Effect(rib[p], <<out[p]>>)
      <3>1. Effect(r, cmds[p] \o s) = Apply(Effect(r, cmds[p]), Withdraw(announced))
        <4> HIDE DEF r
        <4> QED BY <1>1, <2>1, <2>2, EffectNonEmpty DEF r, s
      <3> QED
        BY <1>3, <1>4, <1>6, <3>1 DEF Settled
    <2> QED
      BY <2>3 DEF Apply, Withdraw
  <1>7. NoStaleChannel'
    BY <1>1, <1>3, <1>6 DEF RouteInv, NoStaleChannel
  <1>8. NoMissingRoute'
    BY <1>3 DEF NoMissingRoute
  <1> QED
    BY <1>5, <1>7, <1>8 DEF RouteInv

\* The Shutdown command changes nothing a router will have learned.
LEMMA ShutdownInv == RouteInv /\ shutdown => RouteInv'
  <1> SUFFICES ASSUME RouteInv, shutdown
               PROVE  RouteInv'
    OBVIOUS
  <1>1. /\ TypeOK /\ phase' = "joining"
        /\ UNCHANGED <<task, out, rib, events, gauge, announced>>
        /\ cmds' = [p \in Peers |-> IF task[p] # "Done" THEN Append(cmds[p], ShutdownCmd) ELSE cmds[p]]
    BY DEF RouteInv, shutdown, sessionVars
  <1>2. cmds' \in [Peers -> Seq(SessionCmd)]
    BY <1>1, CmdTypes DEF TypeOK
  <1>3. TypeOK' /\ IdleSessions'
    BY <1>1, <1>2 DEF RouteInv, TypeOK, IdleSessions, Up
  <1>4. ASSUME NEW p \in Peers
        PROVE  Settled(p)' = Settled(p)
    <2>1. Effect(rib[p], <<out[p]>>) \in SUBSET Vips
      BY DEF Effect
    <2>2. CASE task[p] # "Done"
      <3>1. Settled(p)' = Effect(Effect(rib[p], <<out[p]>>), Append(cmds[p], ShutdownCmd))
        BY <1>1, <2>2 DEF Settled
      <3>2. Settled(p)' = Apply(Settled(p), ShutdownCmd)
        BY <1>1, <2>1, <3>1, EffectAppend, CmdTypes DEF TypeOK, Settled
      <3> QED
        BY <3>2 DEF Apply, ShutdownCmd
    <2>3. CASE task[p] = "Done"
      BY <1>1, <2>3 DEF Settled
    <2> QED
      BY <2>2, <2>3
  <1> QED
    BY <1>1, <1>3, <1>4, PeersAssumption
    DEF RouteInv, NoStaleChannel, NoMissingRoute, Up, Reannouncing

\* A peer that is not being re-announced to was not before, unless the event
\* just handled was its own.
LEMMA PopEvent ==
    ASSUME TypeOK, events # <<>>, events' = Tail(events), NEW p \in Peers, Reannouncing(p)
    PROVE  Reannouncing(p)' \/ Head(events) = [kind |-> "connected", peer |-> p]
  <1>1. PICK i \in DOMAIN events : events[i] = [kind |-> "connected", peer |-> p]
    BY DEF Reannouncing
  <1>2. /\ Len(events) \in Nat /\ DOMAIN events = 1 .. Len(events)
        /\ DOMAIN events' = 1 .. (Len(events) - 1)
        /\ \A j \in DOMAIN events' : events'[j] = events[j + 1]
        /\ Head(events) = events[1]
    BY DEF TypeOK
  <1>3. i = 1 \/ (i - 1 \in DOMAIN events' /\ events'[i - 1] = events[i])
    BY <1>2
  <1> QED
    BY <1>1, <1>2, <1>3 DEF Reannouncing

LEMMA EventPumpInv == RouteInv /\ EventPump => RouteInv'
  <1> SUFFICES ASSUME RouteInv, EventPump
               PROVE  RouteInv'
    OBVIOUS
  <1> DEFINE e == Head(events)
  <1>1. /\ TypeOK /\ events # <<>> /\ events' = Tail(events)
        /\ UNCHANGED <<task, out, rib, announced, phase>>
        /\ gauge' = [gauge EXCEPT ![e.peer] = IF e.kind = "connected" THEN 1 ELSE 0]
    BY DEF RouteInv, EventPump, sessionVars
  <1>2. e \in BgpEvent /\ events' \in Seq(BgpEvent)
    BY <1>1 DEF TypeOK
  <1>3. e.peer \in Peers /\ e.kind \in {"connected", "disconnected"}
    BY <1>2 DEF BgpEvent
  <1>4. gauge' \in [Peers -> {0, 1}]
    BY <1>1, <1>3 DEF TypeOK
  <1>5. CASE e.kind = "connected"
    <2> DEFINE s == NonEmpty(Announce(announced))
    <2>1. FanOut(s) /\ Announce(announced) \in SessionCmd
      BY <1>1, <1>5, CmdTypes DEF EventPump, TypeOK
    <2>2. s \in Seq(SessionCmd)
      BY <2>1 DEF NonEmpty
    <2> HIDE DEF s
    <2>3. /\ cmds' \in [Peers -> Seq(SessionCmd)]
          /\ \A p \in Enabled : task[p] # "Done" => cmds'[p] = cmds[p] \o s
      BY <1>1, <2>1, <2>2, FanOutFacts, PeersAssumption
    <2>4. TypeOK' /\ IdleSessions'
      BY <1>1, <1>2, <1>4, <2>3 DEF RouteInv, TypeOK, IdleSessions, Up
    <2>5. ASSUME NEW p \in Enabled, task[p] # "Done"
          PROVE  Settled(p)' = Settled(p) \cup announced
      <3>1. Effect(rib[p], <<out[p]>>) \in SUBSET Vips
        BY DEF Effect
      <3>2. cmds[p] \in Seq(SessionCmd)
        BY <1>1, PeersAssumption DEF TypeOK
      <3>3. Settled(p)' = Apply(Settled(p), Announce(announced))
        <4> DEFINE r == Effect(rib[p], <<out[p]>>)
        <4>1. Effect(r, cmds[p] \o s) = Apply(Effect(r, cmds[p]), Announce(announced))
          <5> HIDE DEF r
          <5> QED BY <2>1, <3>1, <3>2, EffectNonEmpty DEF r, s
        <4> QED
          BY <1>1, <2>3, <2>5, <4>1 DEF Settled
      <3> QED
        BY <3>3 DEF Apply, Announce
    <2>6. NoStaleChannel' /\ NoMissingRoute'
      BY <1>1, <2>5 DEF RouteInv, NoStaleChannel, NoMissingRoute, Up
    <2> QED
      BY <2>4, <2>6 DEF RouteInv
  <1>6. CASE e.kind = "disconnected"
    <2>1. cmds' = cmds
      BY <1>6 DEF EventPump
    <2>2. TypeOK' /\ IdleSessions' /\ NoStaleChannel'
      BY <1>1, <1>2, <1>4, <2>1 DEF RouteInv, TypeOK, IdleSessions, NoStaleChannel, Settled, Up
    <2>3. \A p \in Peers : Reannouncing(p) => Reannouncing(p)'
      BY <1>1, <1>6, PopEvent
    <2>4. NoMissingRoute'
      BY <1>1, <2>1, <2>3, PeersAssumption DEF RouteInv, NoMissingRoute, Settled, Up
    <2> QED
      BY <2>2, <2>4 DEF RouteInv
  <1> QED
    BY <1>3, <1>5, <1>6

-----------------------------------------------------------------------------
(***************************************************************************)
(* The session tasks' steps: each concerns one peer.                       *)
(***************************************************************************)
\* What RouteInv says of one peer.
SessionOK(p) ==
    /\ ~Up(p) => rib[p] = {}
    /\ task[p] # "Writing" => out[p] = Nothing
    /\ out[p].kind # "shutdown"
    /\ p \in Enabled =>
          /\ task[p] \in {"Connecting", "Opening", "Established", "Writing"} =>
                Settled(p) \subseteq announced
          /\ Up(p) /\ ~Reannouncing(p) => announced \subseteq Settled(p)

LEMMA RouteInvIs == RouteInv <=> TypeOK /\ \A p \in Peers : SessionOK(p)
  BY PeersAssumption DEF RouteInv, IdleSessions, NoStaleChannel, NoMissingRoute, SessionOK

\* A step of p that is good for p is good for all.
LEMMA OneSession ==
    ASSUME RouteInv, NEW p \in Peers, TypeOK', SessionOK(p)', announced' = announced,
           \A q \in Peers \ {p} : /\ task'[q] = task[q] /\ cmds'[q] = cmds[q]
                                  /\ out'[q] = out[q] /\ rib'[q] = rib[q],
           \A q \in Peers : Reannouncing(q) => Reannouncing(q)'
    PROVE  RouteInv'
  <1>1. ASSUME NEW q \in Peers \ {p}
        PROVE  SessionOK(q)'
    <2>1. SessionOK(q)
      BY RouteInvIs
    <2> QED
      BY <2>1 DEF SessionOK, Up, Settled
  <1>2. \A q \in Peers : SessionOK(q)'
    BY <1>1
  <1> QED
    BY <1>2, PeersAssumption
    DEF RouteInv, IdleSessions, NoStaleChannel, NoMissingRoute, SessionOK

\* Events are only added by a session, so none to re-announce is lost.
LEMMA PushEvent ==
    ASSUME TypeOK, NEW p \in Peers, NEW k \in {"connected", "disconnected"},
           events' = Event(k, p)
    PROVE  /\ events' \in Seq(BgpEvent)
           /\ \A q \in Peers : Reannouncing(q) => Reannouncing(q)'
           /\ k = "connected" => Reannouncing(p)'
  <1> DEFINE e == [kind |-> k, peer |-> p]
  <1>1. e \in BgpEvent /\ events' = Append(events, e)
    BY DEF BgpEvent, Event
  <1>2. /\ events' \in Seq(BgpEvent) /\ Len(events) \in Nat
        /\ DOMAIN events = 1 .. Len(events) /\ DOMAIN events' = 1 .. (Len(events) + 1)
        /\ \A i \in DOMAIN events : events'[i] = events[i]
        /\ events'[Len(events) + 1] = e
    BY <1>1 DEF TypeOK
  <1> QED
    BY <1>2 DEF Reannouncing

LEMMA DrainInv ==
    ASSUME RouteInv, NEW p \in Peers, Drain(p)
    PROVE  RouteInv'
  <1>1. TypeOK /\ SessionOK(p)
    BY RouteInvIs
  <1>2. TypeOK'
    BY <1>1 DEF TypeOK, Drain, Tasks
  <1>3. SessionOK(p)'
    <2>1. /\ task'[p] \in {"Done", "Connecting"} /\ cmds'[p] = <<>>
          /\ rib'[p] = {} /\ out'[p] = Nothing
      BY <1>1 DEF Drain, TypeOK, SessionOK, Up
    <2>2. Settled(p)' = {}
      <3>1. Settled(p)' = Effect(Effect({}, <<Nothing>>), <<>>)
        BY <2>1 DEF Settled
      <3>2. Effect({}, <<Nothing>>) = {}
        BY EffectNone, CmdTypes DEF Apply
      <3> QED
        BY <3>1, <3>2, EffectNone, CmdTypes
    <2> QED
      BY <2>1, <2>2, CmdTypes DEF SessionOK, Up
  <1> QED
    BY <1>1, <1>2, <1>3, OneSession DEF Drain, TypeOK, Reannouncing

\* The steps that only move the program counter.
LEMMA TaskOnlyInv ==
    ASSUME RouteInv, NEW p \in Peers, NEW t \in Tasks,
           task' = [task EXCEPT ![p] = t],
           UNCHANGED <<cmds, out, rib, announced, phase, gauge>>,
           events' \in Seq(BgpEvent), \A q \in Peers : Reannouncing(q) => Reannouncing(q)',
           \/ task[p] \in {"Connecting", "Opening", "Backoff", "Disabled"} /\
                 t \in {"Backoff", "Start", "Done", "Disabled"}
           \/ task[p] = "Connecting" /\ t = "Opening"
           \/ task[p] = "Opening" /\ t = "Established" /\ Reannouncing(p)'
    PROVE  RouteInv'
  <1>1. TypeOK /\ SessionOK(p)
    BY RouteInvIs
  <1>2. TypeOK' /\ task'[p] = t
    BY <1>1 DEF TypeOK
  <1>3. SessionOK(p)'
    BY <1>1, <1>2 DEF SessionOK, Up, Settled
  <1> QED
    BY <1>1, <1>2, <1>3, OneSession DEF TypeOK

LEMMA ConnectInv ==
    ASSUME RouteInv, NEW p \in Peers,
           ConnectFails(p) \/ ConnectTcp(p) \/ BackoffOver(p)
    PROVE  RouteInv'
  <1>1. TypeOK /\ events' = events /\ UNCHANGED <<cmds, out, rib, announced, phase, gauge>>
    BY DEF RouteInv, ConnectFails, ConnectTcp, BackoffOver
  <1>2. events' \in Seq(BgpEvent) /\ \A q \in Peers : Reannouncing(q) => Reannouncing(q)'
    BY <1>1 DEF TypeOK, Reannouncing
  <1>3. PICK t \in {"Backoff", "Opening", "Start"} :
           /\ task' = [task EXCEPT ![p] = t]
           /\ \/ task[p] \in {"Connecting", "Opening"} /\ t = "Backoff"
              \/ task[p] = "Connecting" /\ t = "Opening"
              \/ task[p] = "Backoff" /\ t = "Start"
    BY DEF ConnectFails, ConnectTcp, BackoffOver, EnterBackoff
  <1> QED
    BY <1>1, <1>2, <1>3, TaskOnlyInv DEF Tasks

LEMMA OpenReceivedInv ==
    ASSUME RouteInv, NEW p \in Peers, OpenReceived(p)
    PROVE  RouteInv'
  <1>1. /\ TypeOK /\ task[p] = "Opening" /\ task' = [task EXCEPT ![p] = "Established"]
        /\ events' = Event("connected", p)
        /\ UNCHANGED <<cmds, out, rib, announced, phase, gauge>>
    BY DEF RouteInv, OpenReceived
  <1>2. /\ events' \in Seq(BgpEvent) /\ \A q \in Peers : Reannouncing(q) => Reannouncing(q)'
        /\ Reannouncing(p)'
    BY <1>1, PushEvent
  <1> QED
    BY <1>1, <1>2, TaskOnlyInv DEF Tasks

LEMMA RestType ==
    ASSUME TypeOK, NEW p \in Peers, cmds[p] # <<>>
    PROVE  /\ Head(cmds[p]) \in SessionCmd /\ cmds[p] \in Seq(SessionCmd)
           /\ Rest(p) \in Seq(SessionCmd)
           /\ Tail(cmds[p]) \in Seq(SessionCmd)
  <1>1. cmds[p] \in Seq(SessionCmd)
    BY DEF TypeOK
  <1> QED
    BY <1>1 DEF Rest

LEMMA RecvCmdInv ==
    ASSUME RouteInv, NEW p \in Peers, RecvCmd(p)
    PROVE  RouteInv'
  <1>1. /\ TypeOK /\ SessionOK(p) /\ task[p] = "Established" /\ cmds[p] # <<>>
        /\ cmds' = [cmds EXCEPT ![p] = Rest(p)]
        /\ UNCHANGED <<gauge, announced, phase>>
    BY RouteInvIs DEF RecvCmd
  <1>2. /\ Head(cmds[p]) \in SessionCmd /\ cmds[p] \in Seq(SessionCmd)
        /\ Rest(p) \in Seq(SessionCmd)
    BY <1>1, RestType
  <1>3. CASE Head(cmds[p]).kind = "shutdown"
    <2>1. /\ task' = [task EXCEPT ![p] = "Done"] /\ rib' = [rib EXCEPT ![p] = {}]
          /\ events' = Event("disconnected", p) /\ out' = out
      BY <1>3 DEF RecvCmd
    <2>2. events' \in Seq(BgpEvent) /\ \A q \in Peers : Reannouncing(q) => Reannouncing(q)'
      BY <1>1, <2>1, PushEvent
    <2>3. TypeOK'
      BY <1>1, <1>2, <2>1, <2>2 DEF TypeOK, Tasks
    <2>4. SessionOK(p)'
      BY <1>1, <2>1 DEF SessionOK, Up, TypeOK
    <2> QED
      BY <1>1, <2>1, <2>2, <2>3, <2>4, OneSession DEF TypeOK
  <1>4. CASE Head(cmds[p]).kind # "shutdown"
    <2>1. /\ task' = [task EXCEPT ![p] = "Writing"] /\ out' = [out EXCEPT ![p] = Head(cmds[p])]
          /\ events' = events /\ rib' = rib
      BY <1>4 DEF RecvCmd
    <2>2. TypeOK'
      BY <1>1, <1>2, <2>1 DEF TypeOK, Tasks
    <2>3. Settled(p)' = Settled(p)
      <3>1. out[p] = Nothing /\ rib[p] \in SUBSET Vips
        BY <1>1 DEF SessionOK, TypeOK
      <3>2. out'[p] = Head(cmds[p]) /\ rib'[p] = rib[p] /\ cmds'[p] = Tail(cmds[p])
        <4>1. Rest(p) = Tail(cmds[p])
          BY <1>4 DEF Rest
        <4> QED
          BY <1>1, <2>1, <4>1 DEF TypeOK
      <3>3. Effect(rib[p], <<Nothing>>) = rib[p]
        <4>1. Effect(rib[p], <<Nothing>>) = Apply(rib[p], Nothing)
          BY <3>1, EffectNone, CmdTypes
        <4> QED
          BY <4>1, CmdTypes DEF Apply
      <3>4. Effect(rib[p], <<Head(cmds[p])>>) = Apply(rib[p], Head(cmds[p]))
        BY <1>2, <3>1, EffectNone
      <3>5. Effect(Apply(rib[p], Head(cmds[p])), Tail(cmds[p])) = Effect(rib[p], cmds[p])
        BY <1>1, <1>2, <3>1, EffectHead
      <3> QED
        BY <3>1, <3>2, <3>3, <3>4, <3>5 DEF Settled
    <2>4. SessionOK(p)'
      BY <1>1, <1>4, <2>1, <2>3 DEF SessionOK, Up, TypeOK, Reannouncing
    <2> QED
      BY <1>1, <2>1, <2>2, <2>4, OneSession DEF TypeOK, Reannouncing
  <1> QED
    BY <1>3, <1>4

\* Writing moves VIPs from the command in hand to the router.
LEMMA WriteInv ==
    ASSUME RouteInv, NEW p \in Peers, WriteUpdate(p) \/ WriteDone(p)
    PROVE  RouteInv'
  <1>1. /\ TypeOK /\ SessionOK(p) /\ task[p] = "Writing"
        /\ UNCHANGED <<cmds, events, gauge, announced, phase>>
        /\ rib[p] \in SUBSET Vips /\ out[p] \in SessionCmd /\ cmds[p] \in Seq(SessionCmd)
    BY RouteInvIs DEF WriteUpdate, WriteDone, TypeOK
  <1>2. out[p].kind \in {"announce", "withdraw"} /\ out[p].vips \subseteq Vips
    BY <1>1 DEF SessionOK, SessionCmd
  <1>3. TypeOK' /\ Up(p)' /\ out'[p].kind # "shutdown"
        /\ (task'[p] # "Writing" => out'[p] = Nothing)
        /\ \A q \in Peers \ {p} : /\ task'[q] = task[q] /\ out'[q] = out[q] /\ rib'[q] = rib[q]
    <2>1. CASE WriteUpdate(p)
      <3>1. PICK v \in out[p].vips :
               /\ out' = [out EXCEPT ![p].vips = @ \ {v}]
               /\ rib' = [rib EXCEPT ![p] = IF out[p].kind = "announce" THEN @ \cup {v} ELSE @ \ {v}]
        BY <2>1 DEF WriteUpdate
      <3>2. [out[p] EXCEPT !.vips = @ \ {v}] \in SessionCmd
            /\ [out[p] EXCEPT !.vips = @ \ {v}].kind = out[p].kind
        BY <1>1 DEF SessionCmd
      <3> QED
        <4>1. out'[p].kind = out[p].kind /\ task' = task
          BY <1>1, <2>1, <3>1, <3>2 DEF TypeOK, WriteUpdate
        <4>2. rib' \in [Peers -> SUBSET Vips] /\ out' \in [Peers -> SessionCmd]
          BY <1>1, <1>2, <3>1, <3>2 DEF TypeOK
        <4>3. TypeOK'
          BY <1>1, <4>1, <4>2 DEF TypeOK
        <4>4. \A q \in Peers \ {p} : out'[q] = out[q] /\ rib'[q] = rib[q]
          BY <1>1, <3>1 DEF TypeOK
        <4> QED
          BY <1>1, <1>2, <4>1, <4>3, <4>4 DEF Up
    <2>2. CASE WriteDone(p)
      BY <1>1, <2>2, CmdTypes DEF TypeOK, WriteDone, Up, Tasks
    <2> QED
      BY <2>1, <2>2
  <1>4. Apply(rib'[p], out'[p]) = Apply(rib[p], out[p])
    <2>1. CASE WriteUpdate(p)
      <3>1. PICK v \in out[p].vips :
               /\ out' = [out EXCEPT ![p].vips = @ \ {v}]
               /\ rib' = [rib EXCEPT ![p] = IF out[p].kind = "announce" THEN @ \cup {v} ELSE @ \ {v}]
        BY <2>1 DEF WriteUpdate
      <3>2. /\ out'[p].kind = out[p].kind /\ out'[p].vips = out[p].vips \ {v}
            /\ rib'[p] = IF out[p].kind = "announce" THEN rib[p] \cup {v} ELSE rib[p] \ {v}
        BY <1>1, <3>1 DEF TypeOK, SessionCmd
      <3> QED
        BY <1>2, <3>2 DEF Apply
    <2>2. CASE WriteDone(p)
      <3>1. out[p].vips = {} /\ out'[p] = Nothing /\ rib'[p] = rib[p]
        BY <1>1, <2>2 DEF WriteDone, TypeOK
      <3> QED
        BY <3>1, CmdTypes DEF Apply
    <2> QED
      BY <2>1, <2>2
  <1>5. Settled(p)' = Settled(p)
    <2>1. rib'[p] \in SUBSET Vips /\ out'[p] \in SessionCmd
      BY <1>3 DEF TypeOK
    <2>2. Effect(rib'[p], <<out'[p]>>) = Effect(rib[p], <<out[p]>>)
      <3>1. Effect(rib[p], <<out[p]>>) = Apply(rib[p], out[p])
        BY <1>1, EffectNone
      <3>2. Effect(rib'[p], <<out'[p]>>) = Apply(rib'[p], out'[p])
        BY <2>1, EffectNone
      <3> QED
        BY <1>4, <3>1, <3>2
    <2> QED
      BY <1>1, <2>2 DEF Settled
  <1>6. SessionOK(p)'
    BY <1>1, <1>3, <1>5 DEF SessionOK, Up, Reannouncing
  <1> QED
    BY <1>1, <1>3, <1>6, OneSession DEF Reannouncing

LEMMA SessionLostInv ==
    ASSUME RouteInv, NEW p \in Peers, SessionLost(p)
    PROVE  RouteInv'
  <1>1. /\ TypeOK /\ task' = [task EXCEPT ![p] = "Backoff"]
        /\ out' = [out EXCEPT ![p] = Nothing] /\ rib' = [rib EXCEPT ![p] = {}]
        /\ events' = Event("disconnected", p) /\ UNCHANGED <<cmds, gauge, announced, phase>>
    BY DEF RouteInv, SessionLost, EnterBackoff
  <1>2. events' \in Seq(BgpEvent) /\ \A q \in Peers : Reannouncing(q) => Reannouncing(q)'
    BY <1>1, PushEvent
  <1>3. TypeOK'
    BY <1>1, <1>2, CmdTypes DEF TypeOK, Tasks
  <1>4. SessionOK(p)'
    BY <1>1, CmdTypes DEF SessionOK, Up, TypeOK
  <1> QED
    BY <1>1, <1>2, <1>3, <1>4, OneSession DEF TypeOK

\* A command taken in the backoff, or by a disabled peer, is dropped.
LEMMA DropCmdInv ==
    ASSUME RouteInv, NEW p \in Peers, BackoffCmd(p) \/ DisabledCmd(p)
    PROVE  RouteInv'
  <1>1. /\ TypeOK /\ SessionOK(p) /\ cmds[p] # <<>> /\ task[p] \in {"Backoff", "Disabled"}
        /\ cmds' = [cmds EXCEPT ![p] = Rest(p)]
        /\ UNCHANGED <<out, rib, events, gauge, announced, phase>>
    BY RouteInvIs DEF BackoffCmd, DisabledCmd
  <1>2. PICK t \in {"Done", "Start", "Disabled"} : task' = [task EXCEPT ![p] = t]
    BY <1>1 DEF BackoffCmd, DisabledCmd, TypeOK
  <1>3. TypeOK'
    BY <1>1, <1>2, RestType DEF TypeOK, Tasks
  <1>4. SessionOK(p)'
    BY <1>1, <1>2 DEF SessionOK, Up, TypeOK
  <1> QED
    BY <1>1, <1>2, <1>3, <1>4, OneSession DEF TypeOK, Reannouncing

LEMMA NextRouteInv == RouteInv /\ [Next]_vars => RouteInv'
  <1> SUFFICES ASSUME RouteInv, [Next]_vars
               PROVE  RouteInv'
    OBVIOUS
  <1>1. CASE \E desired \in SUBSET Vips : sync_bgp_announcements(desired)
    BY <1>1, SyncInv
  <1>2. CASE EventPump
    BY <1>2, EventPumpInv
  <1>3. CASE withdraw_all
    BY <1>3, WithdrawAllInv
  <1>4. CASE shutdown
    BY <1>4, ShutdownInv
  <1>5. CASE Joined \/ Exited \/ UNCHANGED vars
    BY <1>5
    DEF Joined, Exited, vars, sessionVars, RouteInv, TypeOK, IdleSessions, NoStaleChannel,
        NoMissingRoute, Settled, Up, Reannouncing
  <1>6. ASSUME NEW p \in Peers, Session(p) \/ PeerAnswers(p) \/ SessionLost(p)
        PROVE  RouteInv'
    BY <1>6, DrainInv, ConnectInv, OpenReceivedInv, RecvCmdInv, WriteInv, SessionLostInv,
       DropCmdInv
    DEF Session, PeerAnswers
  <1> QED
    BY <1>1, <1>2, <1>3, <1>4, <1>5, <1>6 DEF Next

LEMMA RoutesInvariant == Spec => []RouteInv
  <1>1. Init => RouteInv
    BY InitInv
  <1> QED
    BY <1>1, NextRouteInv, PTL DEF Spec

\* For any peers and VIPs: whatever is queued, dropped and re-announced, no
\* session that is up will leave its router with a withdrawn VIP
\* (sync_bgp_announcements, reannounce_all and the drain of speaker.rs).
THEOREM NoRouteIsStale == Spec => []NoStaleRoute
  <1>1. RouteInv => NoStaleRoute
    BY DEF RouteInv, NoStaleChannel, NoStaleRoute, Up
  <1> QED
    BY <1>1, RoutesInvariant, PTL

\* And none misses an announced VIP whose re-announcement is not under way.
THEOREM NoRouteIsMissing == Spec => []NoMissingRoute
  <1>1. RouteInv => NoMissingRoute
    BY DEF RouteInv
  <1> QED
    BY <1>1, RoutesInvariant, PTL

-----------------------------------------------------------------------------
(***************************************************************************)
(* The gauge follows the events, and the events follow the sessions.       *)
(***************************************************************************)
\* Steps that add no event change no session's being up.
LEMMA GaugeKeeps ==
    ASSUME GaugeInv, UNCHANGED <<events, gauge>>, \A p \in Peers : Up(p)' <=> Up(p)
    PROVE  GaugeInv'
  BY DEF GaugeInv, LastEventIsTrue, GaugeIsAccurate

\* A session that connects or disconnects says so in the channel.
LEMMA GaugePush ==
    ASSUME TypeOK, GaugeInv, NEW p \in Peers, NEW k \in {"connected", "disconnected"},
           events' = Event(k, p), gauge' = gauge, Up(p)' <=> k = "connected",
           \A q \in Peers \ {p} : Up(q)' <=> Up(q)
    PROVE  GaugeInv'
  <1> DEFINE n == Len(events) + 1
  <1>1. /\ n \in Nat \ {0} /\ DOMAIN events = 1 .. (n - 1) /\ DOMAIN events' = 1 .. n
        /\ \A i \in 1 .. (n - 1) : events'[i] = events[i]
        /\ events'[n].kind = k /\ events'[n].peer = p
    BY DEF TypeOK, Event
  <1> HIDE DEF n
  <1>2. ASSUME NEW q \in Peers \ {p}
        PROVE  /\ \A i \in DOMAIN events' :
                     /\ events'[i].peer = q
                     /\ \A j \in DOMAIN events' : j > i => events'[j].peer # q
                     => (events'[i].kind = "connected" <=> Up(q)')
               /\ (\A i \in DOMAIN events' : events'[i].peer # q) => (gauge'[q] = 1 <=> Up(q)')
    <2>1. \A i \in DOMAIN events' : events'[i].peer = q => i \in 1 .. (n - 1)
      BY <1>1
    <2> QED
      BY <1>1, <1>2, <2>1 DEF GaugeInv, LastEventIsTrue, GaugeIsAccurate
  <1>3. \A i \in DOMAIN events' :
           (\A j \in DOMAIN events' : j > i => events'[j].peer # p) => i = n
    BY <1>1
  <1>4. n \in DOMAIN events'
    BY <1>1
  <1>5. LastEventIsTrue'
    <2>0. Up(p)' <=> events'[n].kind = "connected"
      BY <1>1
    <2> SUFFICES ASSUME NEW q \in Peers, NEW i \in DOMAIN events', events'[i].peer = q,
                        \A j \in DOMAIN events' : j > i => events'[j].peer # q
                 PROVE  events'[i].kind = "connected" <=> Up(q)'
      BY DEF LastEventIsTrue
    <2>1. CASE q = p
      BY <1>3, <2>0, <2>1
    <2> QED
      BY <1>2, <2>1
  <1>6. GaugeIsAccurate'
    BY <1>1, <1>2, <1>4 DEF GaugeIsAccurate
  <1> QED
    BY <1>5, <1>6 DEF GaugeInv

LEMMA GaugePump ==
    ASSUME TypeOK, GaugeInv, EventPump
    PROVE  GaugeInv'
  <1> DEFINE e == Head(events)
  <1>1. /\ events # <<>> /\ events' = Tail(events) /\ UNCHANGED <<task, out, rib>>
        /\ gauge' = [gauge EXCEPT ![e.peer] = IF e.kind = "connected" THEN 1 ELSE 0]
    BY DEF EventPump, sessionVars
  <1>2. /\ Len(events) \in Nat \ {0} /\ DOMAIN events = 1 .. Len(events)
        /\ DOMAIN events' = 1 .. (Len(events) - 1)
        /\ \A i \in DOMAIN events' : events'[i] = events[i + 1]
        /\ e = events[1] /\ e \in BgpEvent
    BY <1>1 DEF TypeOK
  <1>3. e.peer \in Peers
    BY <1>2 DEF BgpEvent
  <1> HIDE DEF e
  <1>4. \A j \in DOMAIN events : j = 1 \/ (j - 1 \in DOMAIN events' /\ events'[j - 1] = events[j])
    BY <1>2
  <1>5. \A p \in Peers : Up(p)' <=> Up(p)
    BY <1>1 DEF Up
  <1>6. LastEventIsTrue'
    <2> SUFFICES ASSUME NEW p \in Peers, NEW i \in DOMAIN events', events'[i].peer = p,
                        \A j \in DOMAIN events' : j > i => events'[j].peer # p
                 PROVE  events'[i].kind = "connected" <=> Up(p)'
      BY DEF LastEventIsTrue
    <2>1. i + 1 \in DOMAIN events /\ events[i + 1] = events'[i]
      BY <1>2
    <2>2. ASSUME NEW j \in DOMAIN events, j > i + 1
          PROVE  events[j].peer # p
      <3>1. j - 1 \in DOMAIN events' /\ events'[j - 1] = events[j] /\ j - 1 > i
        BY <1>2, <1>4, <2>2
      <3> QED
        BY <3>1
    <2> QED
      BY <1>5, <2>1, <2>2 DEF GaugeInv, LastEventIsTrue
  <1>7. GaugeIsAccurate'
    <2> SUFFICES ASSUME NEW p \in Peers, \A i \in DOMAIN events' : events'[i].peer # p
                 PROVE  gauge'[p] = 1 <=> Up(p)'
      BY DEF GaugeIsAccurate
    <2>1. CASE e.peer = p
      <3>1. \A j \in DOMAIN events : j > 1 => events[j].peer # p
        BY <1>2, <1>4
      <3>2. e.kind = "connected" <=> Up(p)
        BY <1>2, <2>1, <3>1 DEF GaugeInv, LastEventIsTrue
      <3>3. gauge'[p] = IF e.kind = "connected" THEN 1 ELSE 0
        BY <1>1, <1>3, <2>1 DEF TypeOK
      <3> QED
        BY <1>5, <3>2, <3>3
    <2>2. CASE e.peer # p
      <3>1. \A j \in DOMAIN events : events[j].peer # p
        BY <1>2, <1>4, <2>2
      <3>2. gauge'[p] = gauge[p]
        BY <1>1, <1>3, <2>2 DEF TypeOK
      <3> QED
        BY <1>5, <3>1, <3>2 DEF GaugeInv, GaugeIsAccurate
    <2> QED
      BY <2>1, <2>2
  <1> QED
    BY <1>6, <1>7 DEF GaugeInv

LEMMA SessionGaugeInv ==
    ASSUME TypeOK, GaugeInv, NEW p \in Peers, Session(p) \/ PeerAnswers(p) \/ SessionLost(p)
    PROVE  GaugeInv'
  <1>1. CASE OpenReceived(p)
    BY <1>1, GaugePush DEF OpenReceived, TypeOK, Up
  <1>2. CASE SessionLost(p)
    BY <1>2, GaugePush DEF SessionLost, EnterBackoff, TypeOK, Up
  <1>3. CASE RecvCmd(p)
    <2>1. CASE Head(cmds[p]).kind = "shutdown"
      BY <1>3, <2>1, GaugePush DEF RecvCmd, TypeOK, Up
    <2>2. CASE Head(cmds[p]).kind # "shutdown"
      BY <1>3, <2>2, GaugeKeeps DEF RecvCmd, TypeOK, Up
    <2> QED
      BY <2>1, <2>2
  <1>4. CASE Drain(p) \/ WriteUpdate(p) \/ WriteDone(p) \/ ConnectFails(p)
    BY <1>4, GaugeKeeps
    DEF Drain, WriteUpdate, WriteDone, ConnectFails, EnterBackoff, TypeOK, Up
  <1>5. CASE BackoffOver(p) \/ BackoffCmd(p) \/ DisabledCmd(p) \/ ConnectTcp(p)
    BY <1>5, GaugeKeeps DEF BackoffOver, BackoffCmd, DisabledCmd, ConnectTcp, TypeOK, Up
  <1> QED
    BY <1>1, <1>2, <1>3, <1>4, <1>5 DEF Session, PeerAnswers

\* For any peers: once the pump has handled the events of a peer, its gauge
\* says whether the session is established, however often it flapped meanwhile.
THEOREM GaugeFollowsSessions == Spec => []GaugeIsAccurate
  <1>1. Init => GaugeInv
    BY InitInv
  <1>2. ASSUME TypeOK, GaugeInv, [Next]_vars
        PROVE  GaugeInv'
    <2>1. CASE EventPump
      BY <1>2, <2>1, GaugePump
    <2>2. ASSUME NEW p \in Peers, Session(p) \/ PeerAnswers(p) \/ SessionLost(p)
          PROVE  GaugeInv'
      BY <1>2, <2>2, SessionGaugeInv
    <2>3. CASE UNCHANGED <<events, gauge, task>>
      BY <1>2, <2>3, GaugeKeeps DEF Up
    <2> QED
      BY <1>2, <2>1, <2>2, <2>3
      DEF Next, sync_bgp_announcements, withdraw_all, shutdown, Joined, Exited, vars, sessionVars
  <1>3. RouteInv => TypeOK
    BY DEF RouteInv
  <1>4. GaugeInv => GaugeIsAccurate
    BY DEF GaugeInv
  <1> QED
    BY <1>1, <1>2, <1>3, <1>4, RoutesInvariant, PTL DEF Spec
=============================================================================
