------------------------------ MODULE BanGossip ------------------------------
(***************************************************************************)
(* How the nodes of a cluster share the ban of one address: the outbox of  *)
(* local bans and its push, the pull of every peer's blocklist, a leaf's   *)
(* periodic re-push (cluster.tick, in a worker thread of each node), the   *)
(* receiving endpoint (web.cluster_ban), and what may happen to the row    *)
(* meanwhile: a detection or an operator bans the address, the community   *)
(* list brings it, it is unbanned, it expires.                             *)
(*                                                                         *)
(* A request between nodes is answered at once or fails; a failure is only *)
(* logged.  A tick is cut at each request, and between the reading of the  *)
(* own bans and the insertion of a pulled one.  BanStore models the edge   *)
(* and the checks of ban.add; here every address may be banned, and every  *)
(* node knows every peer.                                                  *)
(***************************************************************************)
EXTENDS Integers, Sequences

CONSTANTS
  GossipPeer,    \* nodes of role "peer": queryable, each knows all of them
  GossipLeaf,    \* nodes of role "leaf": outbound requests only
  Ttl,           \* lifetime of a ban decided by a node or by the community
  MinTtl,        \* the least lifetime of a received ban (0.02 h)
  ReshareEvery,  \* CLUSTER_LEAF_RESHARE_EVERY
  Community,     \* crowd.consume is on
  MaxBans,       \* bound of the bans decided
  MaxRestarts,   \* bound of the restarts
  MaxGossipTime  \* bound of the clock

GossipNode == GossipPeer \cup GossipLeaf

ASSUME BanGossipAssumption ==
  /\ GossipPeer \cap GossipLeaf = {}
  /\ {"own", "community"} \cap GossipNode = {}
  /\ Ttl \in Nat \ {0} /\ MinTtl \in Nat \ {0} /\ ReshareEvery \in Nat \ {0}
  /\ Community \in BOOLEAN
  /\ MaxBans \in Nat /\ MaxRestarts \in Nat /\ MaxGossipTime \in Nat \ {0}

VARIABLES
  gossipClock, \* the clock
  rowEnds,     \* rowEnds[n]: end of the ban in n's table, 0 without a row
  by,          \* by[n]: banned_by of that row: "own", "community" or the
               \* origin of a ban received from the cluster
  toPush,      \* toPush[n], _outbox: ends of the local bans to push
  phase,       \* phase[n]: where the tick of n is
  left,        \* left[n]: peers it has still to talk to in this phase
  batch,       \* batch[n]: the bans it is pushing
  got,         \* got[n]: the pulled ban it is about to insert
  ticks,       \* ticks[n]: the ticks of n so far, modulo ReshareEvery
  bans,        \* number of bans decided
  restarts,    \* number of restarts
  decided      \* the nodes that decided a ban, or took it from the community
               \* (a history variable)

rows == <<rowEnds, by>>
tickState == <<phase, left, batch, got, ticks>>
decisions == <<bans, restarts, decided>>
gossipVars == <<gossipClock, rows, toPush, tickState, decisions>>

Ban(e, o) == [expires |-> e, origin |-> o]
Bans == [expires : Nat, origin : GossipNode]
Pulling(t, o) == [ttl |-> t, origin |-> o]
NoBan == Pulling(0, "own")
ActiveAt(n) == rowEnds[n] > gossipClock
GossipPeers(n) == GossipPeer \ {n}

GossipTypeOK ==
  /\ gossipClock \in 1 .. MaxGossipTime
  /\ rowEnds \in [GossipNode -> Nat]
  /\ by \in [GossipNode -> GossipNode \cup {"own", "community"}]
  /\ toPush \in [GossipNode -> Seq(Nat)]
  /\ phase \in [GossipNode -> {"idle", "push", "pull", "insert", "reshare"}]
  /\ left \in [GossipNode -> SUBSET GossipPeer]
  /\ batch \in [GossipNode -> Seq(Bans)]
  /\ got \in [GossipNode -> {NoBan} \cup [ttl : Nat, origin : GossipNode]]
  /\ ticks \in [GossipNode -> 0 .. ReshareEvery - 1]
  /\ bans \in 0 .. MaxBans
  /\ restarts \in 0 .. MaxRestarts
  /\ decided \in SUBSET GossipNode

GossipInit ==
  /\ gossipClock = 1
  /\ rowEnds = [n \in GossipNode |-> 0]
  /\ by = [n \in GossipNode |-> "own"]
  /\ toPush = [n \in GossipNode |-> << >>]
  /\ phase = [n \in GossipNode |-> "idle"]
  /\ left = [n \in GossipNode |-> {}]
  /\ batch = [n \in GossipNode |-> << >>]
  /\ got = [n \in GossipNode |-> NoBan]
  /\ ticks = [n \in GossipNode |-> 0]
  /\ bans = 0 /\ restarts = 0 /\ decided = {}

-----------------------------------------------------------------------------
(* ban.add and the table of one node *)

\* INSERT ... ON CONFLICT leaves banned_by as it is in an old row.
Upsert(n, e, label) ==
  /\ rowEnds' = [rowEnds EXCEPT ![n] = e]
  /\ by' = [by EXCEPT ![n] = IF rowEnds[n] = 0 THEN label ELSE @]

Decide(n) ==
  /\ bans < MaxBans
  /\ bans' = bans + 1 /\ UNCHANGED restarts
  /\ decided' = decided \cup {n}

\* A detection of this node, or /api/ban.
BanHere(n) ==
  /\ Decide(n)
  /\ Upsert(n, gossipClock + Ttl, "own")
  /\ toPush' = [toPush EXCEPT ![n] = Append(@, gossipClock + Ttl)]
  /\ UNCHANGED <<gossipClock, tickState>>

\* crowd_task applies the community's list.
BanByCommunity(n) ==
  /\ Community
  /\ Decide(n)
  /\ Upsert(n, gossipClock + Ttl, "community")
  /\ UNCHANGED <<gossipClock, toPush, tickState>>

Remove(n) ==
  /\ rowEnds' = [rowEnds EXCEPT ![n] = 0]
  /\ by' = [by EXCEPT ![n] = "own"]
  /\ UNCHANGED <<gossipClock, toPush, tickState, decisions>>

NodeUnbans(n) == rowEnds[n] # 0 /\ Remove(n)
RowExpires(n) == rowEnds[n] # 0 /\ ~ActiveAt(n) /\ Remove(n)

-----------------------------------------------------------------------------
(* One tick: push, pull, reshare *)

\* A variant that passes every ban on as the node's own.
OriginSelf(n) == n

\* The origin local_blocklist() names.
Origin(n) == IF by[n] \in GossipNode THEN by[n] ELSE n

\* A received ban ends when its sender's does, but not too soon.
Remaining(e) == IF e - gossipClock > MinTtl THEN e - gossipClock ELSE MinTtl

\* A variant that goes by the rows, whether or not they have run out.
HasRow(n) == rowEnds[n] # 0

\* The node holds the ban already.
Holds(n) == ActiveAt(n)

\* _apply_remote_bans() at the receiver of a push: the bans held are read once,
\* so of several bans of the address the last one stays, under the first one's label.
ReceiveBans(p, list) ==
  LET running == {i \in DOMAIN list : list[i].expires > gossipClock} IN
    IF running = {} \/ Holds(p)
    THEN UNCHANGED rows
    ELSE \E first, last \in running :
           /\ \A i \in running : first <= i /\ i <= last
           /\ Upsert(p, gossipClock + Remaining(list[last].expires), list[first].origin)

TickStart(n) ==
  /\ phase[n] = "idle"
  /\ phase' = [phase EXCEPT ![n] = "push"]
  /\ left' = [left EXCEPT ![n] = IF toPush[n] = << >> THEN {} ELSE GossipPeers(n)]
  /\ batch' = [batch EXCEPT ![n] = [i \in DOMAIN toPush[n] |-> Ban(toPush[n][i], n)]]
  /\ toPush' = [toPush EXCEPT ![n] = << >>]
  /\ UNCHANGED <<gossipClock, rows, got, ticks, decisions>>

PushBans(n, p, arrives) ==
  /\ phase[n] \in {"push", "reshare"}
  /\ p \in left[n]
  /\ left' = [left EXCEPT ![n] = @ \ {p}]
  /\ IF arrives THEN ReceiveBans(p, batch[n]) ELSE UNCHANGED rows
  /\ UNCHANGED <<gossipClock, toPush, phase, batch, got, ticks, decisions>>

\* From pushing to pulling, and after a reshare to the end of the tick.
BansPushed(n) ==
  /\ phase[n] \in {"push", "reshare"} /\ left[n] = {}
  /\ batch' = [batch EXCEPT ![n] = << >>]
  /\ IF phase[n] = "push"
     THEN /\ phase' = [phase EXCEPT ![n] = "pull"]
          /\ left' = [left EXCEPT ![n] = GossipPeers(n)]
          /\ UNCHANGED ticks
     ELSE /\ phase' = [phase EXCEPT ![n] = "idle"]
          /\ ticks' = [ticks EXCEPT ![n] = (@ + 1) % ReshareEvery]
          /\ UNCHANGED left
  /\ UNCHANGED <<gossipClock, rows, toPush, got, decisions>>

\* A peer's blocklist, and what of it this node does not hold.
Pull(n, p, arrives) ==
  /\ phase[n] = "pull"
  /\ p \in left[n]
  /\ left' = [left EXCEPT ![n] = @ \ {p}]
  /\ IF arrives /\ ActiveAt(p) /\ ~Holds(n)
     THEN /\ phase' = [phase EXCEPT ![n] = "insert"]
          /\ got' = [got EXCEPT ![n] = Pulling(Remaining(rowEnds[p]), Origin(p))]
     ELSE UNCHANGED <<phase, got>>
  /\ UNCHANGED <<gossipClock, rows, toPush, batch, ticks, decisions>>

InsertPulled(n) ==
  /\ phase[n] = "insert"
  /\ Upsert(n, gossipClock + got[n].ttl, got[n].origin)
  /\ got' = [got EXCEPT ![n] = NoBan]
  /\ phase' = [phase EXCEPT ![n] = "pull"]
  /\ UNCHANGED <<gossipClock, toPush, left, batch, ticks, decisions>>

\* A variant that looks for its own name in the raw label.
ResharesByLabel(n) == n \in GossipLeaf /\ ticks[n] = 0 /\ ActiveAt(n) /\ by[n] = n

\* A leaf re-pushes the active bans of which it is the origin.
Reshares(n) == n \in GossipLeaf /\ ticks[n] = 0 /\ ActiveAt(n) /\ Origin(n) = n

Pulled(n) ==
  /\ phase[n] = "pull" /\ left[n] = {}
  /\ phase' = [phase EXCEPT ![n] = "reshare"]
  /\ IF Reshares(n)
     THEN /\ batch' = [batch EXCEPT ![n] = <<Ban(rowEnds[n], n)>>]
          /\ left' = [left EXCEPT ![n] = GossipPeers(n)]
     ELSE UNCHANGED <<batch, left>>
  /\ UNCHANGED <<gossipClock, rows, toPush, got, ticks, decisions>>

\* The node stops and starts again: only the table survives.
NodeRestarts(n) ==
  /\ restarts < MaxRestarts
  /\ restarts' = restarts + 1
  /\ toPush' = [toPush EXCEPT ![n] = << >>]
  /\ phase' = [phase EXCEPT ![n] = "idle"]
  /\ left' = [left EXCEPT ![n] = {}]
  /\ batch' = [batch EXCEPT ![n] = << >>]
  /\ got' = [got EXCEPT ![n] = NoBan]
  /\ ticks' = [ticks EXCEPT ![n] = 0]
  /\ UNCHANGED <<gossipClock, rows, bans, decided>>

\* The time between the reading and the insertion of a ban is no unit of it.
GossipTick ==
  /\ gossipClock < MaxGossipTime
  /\ \A n \in GossipNode : phase[n] # "insert"
  /\ gossipClock' = gossipClock + 1
  /\ UNCHANGED <<rows, toPush, tickState, decisions>>

Work(n) ==
  \/ TickStart(n) \/ BansPushed(n) \/ InsertPulled(n) \/ Pulled(n)
  \/ \E p \in GossipPeer, arrives \in BOOLEAN :
       PushBans(n, p, arrives) \/ Pull(n, p, arrives)

GossipNext ==
  \/ \E n \in GossipNode :
       \/ BanHere(n) \/ BanByCommunity(n) \/ NodeUnbans(n) \/ RowExpires(n)
       \/ Work(n) \/ NodeRestarts(n)
  \/ GossipTick

GossipSpec == GossipInit /\ [][GossipNext]_gossipVars

\* Every node's cluster task goes on ticking, and the requests from a node to a
\* peer do not fail for ever.
GossipFairness ==
  \A n \in GossipNode :
    /\ WF_gossipVars(Work(n))
    /\ \A p \in GossipPeers(n) :
         /\ SF_gossipVars(Pull(n, p, TRUE))
         /\ SF_gossipVars(phase[n] = "reshare" /\ PushBans(n, p, TRUE))

GossipFairSpec == GossipSpec /\ GossipFairness

-----------------------------------------------------------------------------
(* Properties *)

\* A ban attributed to a node was decided there or taken there from the community:
\* relaying it over other nodes, in any order of pushes and pulls, keeps its
\* origin (local_blocklist, _apply_remote_bans).
OriginDecided ==
  \A n \in GossipNode : rowEnds[n] # 0 /\ by[n] \in GossipNode => by[n] \in decided

\* "Catches missed pushes": a peer's ban reaches every node that knows the peer,
\* whatever pushes were lost and whichever node was restarted (_pull_blocklists).
PeerBansSpread ==
  \A p \in GossipPeer, n \in GossipNode : ActiveAt(p) ~> ActiveAt(n) \/ ~ActiveAt(p)

\* The periodic re-push makes up for every lost push of a leaf, whose own bans
\* nobody can pull: a ban the leaf's table calls its own reaches each peer
\* (_reshare_local_bans).
LeafBansSpread ==
  \A n \in GossipLeaf, p \in GossipPeer :
    (ActiveAt(n) /\ by[n] = "own") ~> ActiveAt(p) \/ ~ActiveAt(n) \/ by[n] # "own"
=============================================================================
