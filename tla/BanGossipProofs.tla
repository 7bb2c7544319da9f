-------------------------- MODULE BanGossipProofs --------------------------
(***************************************************************************)
(* What BanGossip promises for any peers and leaves, lifetimes and number  *)
(* of bans: however a ban is relayed, the node it is attributed to decided *)
(* it.  The invariant follows the attribution through everything a node    *)
(* carries between two rows: outbox, batch and pulled ban.                 *)
(***************************************************************************)
EXTENDS BanGossip, TLAPS

\* The origin a row would be passed on with, and those on their way, decided.
RowsDecided == \A n \in GossipNode : rowEnds[n] # 0 => Origin(n) \in decided
OutboxDecided == \A n \in GossipNode : toPush[n] # << >> => n \in decided
BatchDecided ==
  \A n \in GossipNode : \A i \in DOMAIN batch[n] : batch[n][i].origin \in decided
PulledDecided == \A n \in GossipNode : phase[n] = "insert" => got[n].origin \in decided

GossipInv ==
  GossipTypeOK /\ RowsDecided /\ OutboxDecided /\ BatchDecided /\ PulledDecided

-----------------------------------------------------------------------------

LEMMA RemainingTyped ==
  ASSUME GossipTypeOK, NEW e \in Nat
  PROVE  Remaining(e) \in Nat /\ gossipClock + Remaining(e) \in Nat
BY BanGossipAssumption DEF GossipTypeOK, Remaining

LEMMA OriginTyped ==
  ASSUME GossipTypeOK, NEW n \in GossipNode
  PROVE  Origin(n) \in GossipNode
BY DEF Origin

\* ban.add keeps the types of the rows.
LEMMA UpsertTyped ==
  ASSUME GossipTypeOK, NEW n \in GossipNode, NEW e \in Nat,
         NEW label \in GossipNode \cup {"own", "community"}, Upsert(n, e, label)
  PROVE  /\ rowEnds' \in [GossipNode -> Nat]
         /\ by' \in [GossipNode -> GossipNode \cup {"own", "community"}]
BY DEF GossipTypeOK, Upsert

\* What receiving a push does to the rows: nothing, or one ban.add for one of the
\* bans received.
LEMMA ReceivedOne ==
  ASSUME GossipTypeOK, NEW n \in GossipNode, NEW p \in GossipNode, ReceiveBans(p, batch[n])
  PROVE  \/ UNCHANGED rows
         \/ \E i \in DOMAIN batch[n] : \E e \in Nat : Upsert(p, e, batch[n][i].origin)
<1>1. \A i \in DOMAIN batch[n] : batch[n][i] \in Bans
  BY DEF GossipTypeOK
<1>2. \A i \in DOMAIN batch[n] : gossipClock + Remaining(batch[n][i].expires) \in Nat
  BY <1>1, RemainingTyped DEF Bans
<1> QED
  BY <1>2 DEF ReceiveBans

LEMMA GossipTypeInit == GossipInit => GossipTypeOK
<1> SUFFICES ASSUME GossipInit PROVE GossipTypeOK
  OBVIOUS
<1> USE BanGossipAssumption DEF GossipInit
<1>1. << >> \in Seq(Nat) /\ << >> \in Seq(Bans)
  OBVIOUS
<1>2. 0 \in 0 .. ReshareEvery - 1
  OBVIOUS
<1> QED
  BY <1>1, <1>2 DEF GossipTypeOK

LEMMA GossipTypeNext == GossipTypeOK /\ [GossipNext]_gossipVars => GossipTypeOK'
<1> SUFFICES ASSUME GossipTypeOK, [GossipNext]_gossipVars PROVE GossipTypeOK'
  OBVIOUS
<1> USE BanGossipAssumption DEF GossipTypeOK, rows, tickState, decisions
<1>1. ASSUME NEW n \in GossipNode, BanHere(n) PROVE GossipTypeOK'
  <2>1. gossipClock + Ttl \in Nat
    OBVIOUS
  <2>2. Upsert(n, gossipClock + Ttl, "own")
    BY <1>1 DEF BanHere
  <2>3. /\ rowEnds' \in [GossipNode -> Nat]
        /\ by' \in [GossipNode -> GossipNode \cup {"own", "community"}]
    BY <2>1, <2>2, UpsertTyped
  <2>4. toPush' \in [GossipNode -> Seq(Nat)]
    BY <1>1, <2>1 DEF BanHere
  <2> QED
    BY <1>1, <2>3, <2>4 DEF BanHere, Decide
<1>2. ASSUME NEW n \in GossipNode, BanByCommunity(n) PROVE GossipTypeOK'
  <2>1. gossipClock + Ttl \in Nat
    OBVIOUS
  <2>2. Upsert(n, gossipClock + Ttl, "community")
    BY <1>2 DEF BanByCommunity
  <2>3. /\ rowEnds' \in [GossipNode -> Nat]
        /\ by' \in [GossipNode -> GossipNode \cup {"own", "community"}]
    BY <2>1, <2>2, UpsertTyped
  <2> QED
    BY <1>2, <2>3 DEF BanByCommunity, Decide
<1>3. ASSUME NEW n \in GossipNode, NodeUnbans(n) \/ RowExpires(n) PROVE GossipTypeOK'
  <2>1. /\ rowEnds' = [rowEnds EXCEPT ![n] = 0] /\ by' = [by EXCEPT ![n] = "own"]
        /\ UNCHANGED <<gossipClock, toPush, tickState, decisions>>
    BY <1>3 DEF NodeUnbans, RowExpires, Remove
  <2>2. rowEnds' \in [GossipNode -> Nat]
    BY <2>1
  <2>3. by' \in [GossipNode -> GossipNode \cup {"own", "community"}]
    BY <2>1
  <2> QED
    BY <2>1, <2>2, <2>3
<1>4. ASSUME NEW n \in GossipNode, TickStart(n) PROVE GossipTypeOK'
  <2>1. GossipPeers(n) \subseteq GossipPeer
    BY DEF GossipPeers
  <2>2. left' \in [GossipNode -> SUBSET GossipPeer]
    BY <1>4, <2>1 DEF TickStart
  <2>3. [i \in DOMAIN toPush[n] |-> Ban(toPush[n][i], n)] \in Seq(Bans)
    <3> DEFINE s == toPush[n]
    <3>1. s \in Seq(Nat) /\ DOMAIN s = 1 .. Len(s) /\ Len(s) \in Nat
      OBVIOUS
    <3>2. \A i \in 1 .. Len(s) : Ban(s[i], n) \in Bans
      BY <3>1 DEF Ban, Bans
    <3>3. [i \in 1 .. Len(s) |-> Ban(s[i], n)] \in Seq(Bans)
      BY <3>1, <3>2
    <3> QED
      BY <3>1, <3>3
  <2>4. batch' \in [GossipNode -> Seq(Bans)]
    BY <1>4, <2>3 DEF TickStart
  <2>5. << >> \in Seq(Nat)
    OBVIOUS
  <2>6. toPush' \in [GossipNode -> Seq(Nat)] /\ phase' \in [GossipNode ->
                                     {"idle", "push", "pull", "insert", "reshare"}]
    BY <1>4, <2>5 DEF TickStart
  <2> QED
    BY <1>4, <2>2, <2>4, <2>6 DEF TickStart
<1>5. ASSUME NEW n \in GossipNode, NEW p \in GossipPeer, NEW arrives \in BOOLEAN,
             PushBans(n, p, arrives)
      PROVE  GossipTypeOK'
  <2>1. p \in GossipNode
    BY DEF GossipNode
  <2>2. UNCHANGED rows \/ \E i \in DOMAIN batch[n] : \E e \in Nat : Upsert(p, e, batch[n][i].origin)
    BY <1>5, <2>1, ReceivedOne DEF PushBans
  <2>3. \A i \in DOMAIN batch[n] : batch[n][i].origin \in GossipNode
    <3>1. \A i \in DOMAIN batch[n] : batch[n][i] \in Bans
      OBVIOUS
    <3> QED
      BY <3>1 DEF Bans
  <2>4. /\ rowEnds' \in [GossipNode -> Nat]
        /\ by' \in [GossipNode -> GossipNode \cup {"own", "community"}]
    BY <2>1, <2>2, <2>3, UpsertTyped
  <2> QED
    BY <1>5, <2>4 DEF PushBans
<1>6. ASSUME NEW n \in GossipNode, BansPushed(n) PROVE GossipTypeOK'
  <2>1. << >> \in Seq(Bans) /\ GossipPeers(n) \subseteq GossipPeer
    BY DEF GossipPeers
  <2>2. batch' \in [GossipNode -> Seq(Bans)]
    BY <1>6, <2>1 DEF BansPushed
  <2>3. (ticks[n] + 1) % ReshareEvery \in 0 .. ReshareEvery - 1
    OBVIOUS
  <2>4. ticks' \in [GossipNode -> 0 .. ReshareEvery - 1]
    BY <1>6, <2>3 DEF BansPushed
  <2>5. left' \in [GossipNode -> SUBSET GossipPeer]
    <3>1. CASE UNCHANGED left
      BY <3>1
    <3>2. CASE left' = [left EXCEPT ![n] = GossipPeers(n)]
      BY <2>1, <3>2
    <3> QED
      BY <1>6, <3>1, <3>2 DEF BansPushed
  <2>6. phase' \in [GossipNode -> {"idle", "push", "pull", "insert", "reshare"}]
    BY <1>6 DEF BansPushed
  <2>7. UNCHANGED <<gossipClock, rowEnds, by, toPush, got, bans, restarts, decided>>
    BY <1>6 DEF BansPushed
  <2> QED
    BY <2>2, <2>4, <2>5, <2>6, <2>7
<1>7. ASSUME NEW n \in GossipNode, NEW p \in GossipPeer, NEW arrives \in BOOLEAN,
             Pull(n, p, arrives)
      PROVE  GossipTypeOK'
  <2>1. p \in GossipNode
    BY DEF GossipNode
  <2>2. Pulling(Remaining(rowEnds[p]), Origin(p)) \in [ttl : Nat, origin : GossipNode]
    BY <2>1, RemainingTyped, OriginTyped DEF Pulling
  <2>3. phase' \in [GossipNode -> {"idle", "push", "pull", "insert", "reshare"}]
    <3>1. CASE UNCHANGED phase
      BY <3>1
    <3>2. CASE phase' = [phase EXCEPT ![n] = "insert"]
      BY <3>2
    <3> QED
      BY <1>7, <3>1, <3>2 DEF Pull
  <2>4. got' \in [GossipNode -> {NoBan} \cup [ttl : Nat, origin : GossipNode]]
    <3>1. CASE UNCHANGED got
      BY <3>1
    <3>2. CASE got' = [got EXCEPT ![n] = Pulling(Remaining(rowEnds[p]), Origin(p))]
      BY <2>2, <3>2
    <3> QED
      BY <1>7, <3>1, <3>2 DEF Pull
  <2>5. left' \in [GossipNode -> SUBSET GossipPeer]
    BY <1>7 DEF Pull
  <2>6. UNCHANGED <<gossipClock, rowEnds, by, toPush, batch, ticks, bans, restarts, decided>>
    BY <1>7 DEF Pull
  <2> QED
    BY <2>3, <2>4, <2>5, <2>6
<1>8. ASSUME NEW n \in GossipNode, InsertPulled(n) PROVE GossipTypeOK'
  <2>1. gossipClock + got[n].ttl \in Nat
        /\ got[n].origin \in GossipNode \cup {"own", "community"}
    BY DEF NoBan, Pulling
  <2>2. /\ rowEnds' \in [GossipNode -> Nat]
        /\ by' \in [GossipNode -> GossipNode \cup {"own", "community"}]
    BY <1>8, <2>1, UpsertTyped DEF InsertPulled
  <2> QED
    BY <1>8, <2>2 DEF InsertPulled
<1>9. ASSUME NEW n \in GossipNode, Pulled(n) PROVE GossipTypeOK'
  <2>1. GossipPeers(n) \subseteq GossipPeer
    BY DEF GossipPeers
  <2>2. <<Ban(rowEnds[n], n)>> \in Seq(Bans)
    BY DEF Ban, Bans
  <2>3. batch' \in [GossipNode -> Seq(Bans)]
    <3>1. CASE UNCHANGED batch
      BY <3>1
    <3>2. CASE batch' = [batch EXCEPT ![n] = <<Ban(rowEnds[n], n)>>]
      BY <2>2, <3>2
    <3> QED
      BY <1>9, <3>1, <3>2 DEF Pulled
  <2>4. left' \in [GossipNode -> SUBSET GossipPeer]
    <3>1. CASE UNCHANGED left
      BY <3>1
    <3>2. CASE left' = [left EXCEPT ![n] = GossipPeers(n)]
      BY <2>1, <3>2
    <3> QED
      BY <1>9, <3>1, <3>2 DEF Pulled
  <2>5. phase' \in [GossipNode -> {"idle", "push", "pull", "insert", "reshare"}]
    BY <1>9 DEF Pulled
  <2>6. UNCHANGED <<gossipClock, rowEnds, by, toPush, got, ticks, bans, restarts, decided>>
    BY <1>9 DEF Pulled
  <2> QED
    BY <2>3, <2>4, <2>5, <2>6
<1>10. ASSUME NEW n \in GossipNode, NodeRestarts(n) PROVE GossipTypeOK'
  <2>1. << >> \in Seq(Nat) /\ << >> \in Seq(Bans) /\ 0 \in 0 .. ReshareEvery - 1
    OBVIOUS
  <2>2. /\ toPush' \in [GossipNode -> Seq(Nat)] /\ batch' \in [GossipNode -> Seq(Bans)]
        /\ ticks' \in [GossipNode -> 0 .. ReshareEvery - 1]
    BY <1>10, <2>1 DEF NodeRestarts
  <2> QED
    BY <1>10, <2>2 DEF NodeRestarts
<1>11. CASE GossipTick
  BY <1>11 DEF GossipTick
<1>12. CASE UNCHANGED gossipVars
  BY <1>12 DEF gossipVars
<1> HIDE BanGossipAssumption DEF GossipTypeOK, rows, tickState, decisions
<1>13. ASSUME NEW n \in GossipNode, Work(n) PROVE GossipTypeOK'
  <2>1. CASE TickStart(n) \/ BansPushed(n) \/ InsertPulled(n) \/ Pulled(n)
    BY <1>4, <1>6, <1>8, <1>9, <2>1
  <2>2. CASE \E p \in GossipPeer, arrives \in BOOLEAN :
               PushBans(n, p, arrives) \/ Pull(n, p, arrives)
    BY <1>5, <1>7, <2>2
  <2> QED
    BY <1>13, <2>1, <2>2 DEF Work
<1> QED
  BY <1>1, <1>2, <1>3, <1>10, <1>11, <1>12, <1>13 DEF GossipNext

\* The tables of the nodes and the ticks that gossip keep their types.
THEOREM GossipTypeCorrect == GossipSpec => []GossipTypeOK
BY GossipTypeInit, GossipTypeNext, PTL DEF GossipSpec

-----------------------------------------------------------------------------

\* ban.add keeps the rows attributed to deciders when the label it may write does.
LEMMA UpsertDecided ==
  ASSUME GossipTypeOK, RowsDecided, NEW n \in GossipNode, NEW e, NEW label,
         Upsert(n, e, label), decided \subseteq decided',
         IF label \in GossipNode THEN label \in decided' ELSE n \in decided'
  PROVE  RowsDecided'
<1> USE DEF RowsDecided, Origin
<1> SUFFICES ASSUME NEW m \in GossipNode, (rowEnds[m] # 0)' PROVE (Origin(m) \in decided)'
  OBVIOUS
<1>1. CASE m # n
  <2>1. rowEnds'[m] = rowEnds[m] /\ by'[m] = by[m]
    BY <1>1 DEF GossipTypeOK, Upsert
  <2> QED
    BY <2>1
<1>2. CASE m = n /\ rowEnds[n] # 0
  <2>1. by'[n] = by[n]
    BY <1>2 DEF GossipTypeOK, Upsert
  <2> QED
    BY <1>2, <2>1
<1>3. CASE m = n /\ rowEnds[n] = 0
  <2>1. by'[n] = label
    BY <1>3 DEF GossipTypeOK, Upsert
  <2> QED
    BY <1>3, <2>1
<1> QED
  BY <1>1, <1>2, <1>3

LEMMA GossipInvInit == GossipInit => GossipInv
BY GossipTypeInit
DEF GossipInit, GossipInv, RowsDecided, OutboxDecided, BatchDecided, PulledDecided

LEMMA GossipInvNext == GossipInv /\ [GossipNext]_gossipVars => GossipInv'
<1> SUFFICES ASSUME GossipInv, [GossipNext]_gossipVars PROVE GossipInv'
  OBVIOUS
<1> DEFINE Decisions == RowsDecided /\ OutboxDecided /\ BatchDecided /\ PulledDecided
<1>0. GossipTypeOK /\ GossipTypeOK' /\ Decisions
  BY GossipTypeNext DEF GossipInv
<1>1. ASSUME NEW n \in GossipNode, BanHere(n) PROVE Decisions'
  <2>1. n \in decided' /\ decided \subseteq decided'
    BY <1>1 DEF BanHere, Decide
  <2>2. RowsDecided'
    BY <1>0, <1>1, <2>1, UpsertDecided, BanGossipAssumption DEF BanHere
  <2>3. \A m \in GossipNode : m # n => toPush'[m] = toPush[m]
    BY <1>0, <1>1 DEF BanHere, GossipTypeOK
  <2>4. OutboxDecided'
    BY <1>0, <2>1, <2>3 DEF OutboxDecided
  <2>5. BatchDecided' /\ PulledDecided'
    BY <1>0, <1>1, <2>1 DEF BanHere, tickState, BatchDecided, PulledDecided
  <2> QED
    BY <2>2, <2>4, <2>5
<1>2. ASSUME NEW n \in GossipNode, BanByCommunity(n) PROVE Decisions'
  <2>1. n \in decided' /\ decided \subseteq decided'
    BY <1>2 DEF BanByCommunity, Decide
  <2>2. RowsDecided'
    BY <1>0, <1>2, <2>1, UpsertDecided, BanGossipAssumption DEF BanByCommunity
  <2>3. OutboxDecided' /\ BatchDecided' /\ PulledDecided'
    BY <1>0, <1>2, <2>1
    DEF BanByCommunity, tickState, OutboxDecided, BatchDecided, PulledDecided
  <2> QED
    BY <2>2, <2>3
<1>3. ASSUME NEW n \in GossipNode, NodeUnbans(n) \/ RowExpires(n) PROVE Decisions'
  <2>1. Remove(n)
    BY <1>3 DEF NodeUnbans, RowExpires
  <2>2. \A m \in GossipNode :
          rowEnds'[m] # 0 => rowEnds[m] # 0 /\ by'[m] = by[m]
    BY <1>0, <2>1 DEF Remove, GossipTypeOK
  <2>3. decided' = decided
    BY <2>1 DEF Remove, decisions
  <2>4. RowsDecided'
    BY <1>0, <2>2, <2>3 DEF RowsDecided, Origin
  <2>5. OutboxDecided' /\ BatchDecided' /\ PulledDecided'
    BY <1>0, <2>1, <2>3
    DEF Remove, tickState, OutboxDecided, BatchDecided, PulledDecided
  <2> QED
    BY <2>4, <2>5
<1>4. ASSUME NEW n \in GossipNode, TickStart(n) PROVE Decisions'
  <2>1. decided' = decided /\ UNCHANGED <<rows, got>>
    BY <1>4 DEF TickStart, decisions
  <2>2. RowsDecided'
    BY <1>0, <2>1 DEF rows, RowsDecided, Origin
  <2>3. \A m \in GossipNode : toPush'[m] # << >> => toPush[m] # << >>
    BY <1>0, <1>4 DEF TickStart, GossipTypeOK
  <2>4. OutboxDecided'
    BY <1>0, <2>1, <2>3 DEF OutboxDecided
  <2>5. \A m \in GossipNode : \A i \in DOMAIN batch'[m] : batch'[m][i].origin \in decided
    <3> SUFFICES ASSUME NEW m \in GossipNode, NEW i \in DOMAIN batch'[m]
                 PROVE  batch'[m][i].origin \in decided
      OBVIOUS
    <3>1. CASE m # n
      <4>1. batch'[m] = batch[m]
        BY <1>0, <1>4, <3>1 DEF TickStart, GossipTypeOK
      <4> QED
        BY <1>0, <4>1 DEF BatchDecided
    <3>2. CASE m = n
      <4>1. batch'[n] = [j \in DOMAIN toPush[n] |-> Ban(toPush[n][j], n)]
        BY <1>0, <1>4 DEF TickStart, GossipTypeOK
      <4>2. toPush[n] # << >>
        BY <3>2, <4>1, <1>0 DEF GossipTypeOK
      <4>3. n \in decided
        BY <1>0, <4>2 DEF OutboxDecided
      <4> QED
        BY <3>2, <4>1, <4>3 DEF Ban
    <3> QED
      BY <3>1, <3>2
  <2>6. BatchDecided'
    BY <2>1, <2>5 DEF BatchDecided
  <2>7. \A m \in GossipNode : phase'[m] = "insert" => phase[m] = "insert"
    BY <1>0, <1>4 DEF TickStart, GossipTypeOK
  <2>8. PulledDecided'
    BY <1>0, <2>1, <2>7 DEF PulledDecided
  <2> QED
    BY <2>2, <2>4, <2>6, <2>8
<1>5. ASSUME NEW n \in GossipNode, NEW p \in GossipPeer, NEW arrives \in BOOLEAN,
             PushBans(n, p, arrives)
      PROVE  Decisions'
  <2>1. p \in GossipNode
    BY DEF GossipNode
  <2>2. decided' = decided /\ UNCHANGED <<toPush, phase, batch, got>>
    BY <1>5 DEF PushBans, decisions
  <2>3. UNCHANGED rows
        \/ \E i \in DOMAIN batch[n] : \E e \in Nat : Upsert(p, e, batch[n][i].origin)
    BY <1>0, <1>5, <2>1, ReceivedOne DEF PushBans
  <2>4. \A i \in DOMAIN batch[n] : batch[n][i].origin \in decided
    BY <1>0 DEF BatchDecided
  <2>5. decided \subseteq GossipNode
    BY <1>0 DEF GossipTypeOK
  <2>6. RowsDecided'
    <3>1. CASE UNCHANGED rows
      BY <1>0, <2>2, <3>1 DEF rows, RowsDecided, Origin
    <3>2. ASSUME NEW i \in DOMAIN batch[n], NEW e \in Nat, Upsert(p, e, batch[n][i].origin)
          PROVE  RowsDecided'
      BY <1>0, <2>1, <2>2, <2>4, <2>5, <3>2, UpsertDecided
    <3> QED
      BY <2>3, <3>1, <3>2
  <2>7. OutboxDecided' /\ BatchDecided' /\ PulledDecided'
    BY <1>0, <2>2 DEF OutboxDecided, BatchDecided, PulledDecided
  <2> QED
    BY <2>6, <2>7
<1>6. ASSUME NEW n \in GossipNode, BansPushed(n) PROVE Decisions'
  <2>1. decided' = decided /\ UNCHANGED <<rows, toPush, got>>
    BY <1>6 DEF BansPushed, decisions
  <2>2. RowsDecided' /\ OutboxDecided'
    BY <1>0, <2>1 DEF rows, RowsDecided, Origin, OutboxDecided
  <2>3. \A m \in GossipNode : batch'[m] = << >> \/ batch'[m] = batch[m]
    BY <1>0, <1>6 DEF BansPushed, GossipTypeOK
  <2>4. BatchDecided'
    BY <1>0, <2>1, <2>3 DEF BatchDecided
  <2>5. \A m \in GossipNode : phase'[m] = "insert" => phase[m] = "insert"
    BY <1>0, <1>6 DEF BansPushed, GossipTypeOK
  <2>6. PulledDecided'
    BY <1>0, <2>1, <2>5 DEF PulledDecided
  <2> QED
    BY <2>2, <2>4, <2>6
<1>7. ASSUME NEW n \in GossipNode, NEW p \in GossipPeer, NEW arrives \in BOOLEAN,
             Pull(n, p, arrives)
      PROVE  Decisions'
  <2>1. decided' = decided /\ UNCHANGED <<rows, toPush, batch>>
    BY <1>7 DEF Pull, decisions
  <2>2. RowsDecided' /\ OutboxDecided' /\ BatchDecided'
    BY <1>0, <2>1 DEF rows, RowsDecided, Origin, OutboxDecided, BatchDecided
  <2>3. PulledDecided'
    <3>1. CASE UNCHANGED <<phase, got>>
      BY <1>0, <2>1, <3>1 DEF PulledDecided
    <3>2. CASE /\ ActiveAt(p)
               /\ phase' = [phase EXCEPT ![n] = "insert"]
               /\ got' = [got EXCEPT ![n] = Pulling(Remaining(rowEnds[p]), Origin(p))]
      <4>1. p \in GossipNode
        BY DEF GossipNode
      <4>2. rowEnds[p] # 0
        BY <1>0, <3>2, <4>1 DEF ActiveAt, GossipTypeOK
      <4>3. Origin(p) \in decided
        BY <1>0, <4>1, <4>2 DEF RowsDecided
      <4>4. got'[n].origin \in decided
        BY <1>0, <3>2, <4>3 DEF Pulling, GossipTypeOK
      <4>5. \A m \in GossipNode : m # n => got'[m] = got[m] /\ phase'[m] = phase[m]
        BY <1>0, <3>2 DEF GossipTypeOK
      <4> QED
        BY <1>0, <2>1, <4>4, <4>5 DEF PulledDecided
    <3> QED
      BY <1>7, <3>1, <3>2 DEF Pull
  <2> QED
    BY <2>2, <2>3
<1>8. ASSUME NEW n \in GossipNode, InsertPulled(n) PROVE Decisions'
  <2>1. decided' = decided /\ UNCHANGED <<toPush, batch>>
    BY <1>8 DEF InsertPulled, decisions
  <2>2. got[n].origin \in decided /\ decided \subseteq GossipNode
    BY <1>0, <1>8 DEF InsertPulled, PulledDecided, GossipTypeOK
  <2>3. RowsDecided'
    BY <1>0, <1>8, <2>1, <2>2, UpsertDecided DEF InsertPulled
  <2>4. OutboxDecided' /\ BatchDecided'
    BY <1>0, <2>1 DEF OutboxDecided, BatchDecided
  <2>5. \A m \in GossipNode : phase'[m] = "insert" => phase[m] = "insert" /\ got'[m] = got[m]
    BY <1>0, <1>8 DEF InsertPulled, GossipTypeOK
  <2>6. PulledDecided'
    BY <1>0, <2>1, <2>5 DEF PulledDecided
  <2> QED
    BY <2>3, <2>4, <2>6
<1>9. ASSUME NEW n \in GossipNode, Pulled(n) PROVE Decisions'
  <2>1. decided' = decided /\ UNCHANGED <<rows, toPush, got>>
    BY <1>9 DEF Pulled, decisions
  <2>2. RowsDecided' /\ OutboxDecided'
    BY <1>0, <2>1 DEF rows, RowsDecided, Origin, OutboxDecided
  <2>3. BatchDecided'
    <3>1. CASE UNCHANGED batch
      BY <1>0, <2>1, <3>1 DEF BatchDecided
    <3>2. CASE Reshares(n) /\ batch' = [batch EXCEPT ![n] = <<Ban(rowEnds[n], n)>>]
      <4>1. rowEnds[n] # 0 /\ Origin(n) = n
        BY <1>0, <3>2 DEF Reshares, ActiveAt, GossipTypeOK
      <4>2. n \in decided
        BY <1>0, <4>1 DEF RowsDecided
      <4>3. \A m \in GossipNode :
              batch'[m] = IF m = n THEN <<Ban(rowEnds[n], n)>> ELSE batch[m]
        BY <1>0, <3>2 DEF GossipTypeOK
      <4>4. \A i \in DOMAIN <<Ban(rowEnds[n], n)>> :
              <<Ban(rowEnds[n], n)>>[i].origin = n
        BY DEF Ban
      <4> QED
        BY <1>0, <2>1, <4>2, <4>3, <4>4 DEF BatchDecided
    <3> QED
      BY <1>9, <3>1, <3>2 DEF Pulled
  <2>4. \A m \in GossipNode : phase'[m] = "insert" => phase[m] = "insert"
    BY <1>0, <1>9 DEF Pulled, GossipTypeOK
  <2>5. PulledDecided'
    BY <1>0, <2>1, <2>4 DEF PulledDecided
  <2> QED
    BY <2>2, <2>3, <2>5
<1>10. ASSUME NEW n \in GossipNode, NodeRestarts(n) PROVE Decisions'
  <2>1. UNCHANGED <<rows, decided>>
    BY <1>10 DEF NodeRestarts
  <2>2. \A m \in GossipNode :
          /\ toPush'[m] = << >> \/ toPush'[m] = toPush[m]
          /\ batch'[m] = << >> \/ batch'[m] = batch[m]
          /\ phase'[m] = "insert" => phase[m] = "insert" /\ got'[m] = got[m]
    BY <1>0, <1>10 DEF NodeRestarts, GossipTypeOK
  <2>3. RowsDecided'
    BY <1>0, <2>1 DEF rows, RowsDecided, Origin
  <2>4. OutboxDecided' /\ BatchDecided' /\ PulledDecided'
    BY <1>0, <2>1, <2>2 DEF OutboxDecided, BatchDecided, PulledDecided
  <2> QED
    BY <2>3, <2>4
<1>11. ASSUME UNCHANGED <<rows, toPush, tickState, decided>> PROVE Decisions'
  <2>1. UNCHANGED <<rowEnds, by, toPush, phase, batch, got, decided>>
    BY <1>11 DEF rows, tickState
  <2>2. RowsDecided' /\ OutboxDecided'
    BY <1>0, <2>1 DEF RowsDecided, Origin, OutboxDecided
  <2>3. BatchDecided' /\ PulledDecided'
    BY <1>0, <2>1 DEF BatchDecided, PulledDecided
  <2> QED
    BY <2>2, <2>3
<1>12. GossipTick \/ UNCHANGED gossipVars => UNCHANGED <<rows, toPush, tickState, decided>>
  BY DEF GossipTick, gossipVars, decisions
<1> HIDE DEF Decisions
<1>13. ASSUME NEW n \in GossipNode, Work(n) PROVE Decisions'
  <2>1. CASE TickStart(n) \/ BansPushed(n) \/ InsertPulled(n) \/ Pulled(n)
    BY <1>4, <1>6, <1>8, <1>9, <2>1
  <2>2. CASE \E p \in GossipPeer, arrives \in BOOLEAN :
               PushBans(n, p, arrives) \/ Pull(n, p, arrives)
    BY <1>5, <1>7, <2>2
  <2> QED
    BY <1>13, <2>1, <2>2 DEF Work
<1>14. Decisions'
  <2>1. CASE GossipTick \/ UNCHANGED gossipVars
    BY <1>11, <1>12, <2>1
  <2>2. ASSUME NEW n \in GossipNode,
               \/ BanHere(n) \/ BanByCommunity(n) \/ NodeUnbans(n) \/ RowExpires(n)
               \/ Work(n) \/ NodeRestarts(n)
        PROVE  Decisions'
    BY <1>1, <1>2, <1>3, <1>10, <1>13, <2>2
  <2> QED
    BY <2>1, <2>2 DEF GossipNext
<1> QED
  BY <1>0, <1>14 DEF GossipInv, Decisions

\* A row attributed to a node is of a ban that node decided or took from the
\* community's list, over any relays, losses and restarts.
THEOREM OriginsAreDecided == GossipSpec => []OriginDecided
<1>1. GossipInv => OriginDecided
  BY DEF GossipInv, RowsDecided, Origin, OriginDecided
<1> QED
  BY <1>1, GossipInvInit, GossipInvNext, PTL DEF GossipSpec
=============================================================================
