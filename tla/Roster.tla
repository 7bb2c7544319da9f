------------------------------- MODULE Roster -------------------------------
(***************************************************************************)
(* Who is in the cluster (cluster.json on every node) and the events of a  *)
(* leaf, which nobody can query, so it pushes them to a peer.              *)
(*                                                                         *)
(* A node joins through a peer; a tick of the gossip tells every peer on   *)
(* the node's list whom the node knew when the tick began, and merges the  *)
(* peer's answer.  add_peer puts the entry it writes at the end of the     *)
(* list, and the leaf pushes to the first peer of its list, so the order   *)
(* of the list decides whether its events arrive.                          *)
(*                                                                         *)
(* A call and its answer are one step, unless the answer is lost.  An      *)
(* entry is its name; a list is taken to be rewritten in one step (its     *)
(* lost updates, see README, are repaired by the next tick).               *)
(***************************************************************************)
EXTENDS Integers, SequencesExt

CONSTANTS
  Queryable,    \* nodes of role peer
  Steady,       \* the one of them that created the cluster and stays up
  Edge,         \* the leaf
  BatchLimit,   \* LIMIT of the leaf's query
  MaxEvents, MaxLost, MaxOutages, MaxRemovals  \* bounds

ASSUME RosterAssumption ==
  /\ Steady \in Queryable /\ Edge \notin Queryable
  /\ BatchLimit \in Nat \ {0}
  /\ {MaxEvents, MaxLost, MaxOutages, MaxRemovals} \subseteq Nat

VARIABLES
  roster,     \* roster[n]: the names in cluster.json, in order
  member,     \* the nodes that have the secret and run the gossip
  reachable,  \* nodes that answer
  told,       \* told[n]: what the tick under way tells, and
  callees,    \* callees[n]: whom it still has to call
  events,     \* the highest id in the leaf's events table
  pushed,     \* the leaf's high-water id, or -1 while its task has none
  arrived,    \* the ids some peer has received
  skipped,    \* the ids the leaf will never push: older than its start
  lost, outages, removals  \* so far

rosterNodeVars == <<roster, member, told, callees>>
leafVars == <<events, pushed, arrived, skipped>>
rosterBounds == <<lost, outages, removals>>
rosterVars == <<rosterNodeVars, reachable, leafVars, rosterBounds>>

Everyone == Queryable \cup {Edge}

RosterTypeOK ==
  /\ {member, reachable} \subseteq SUBSET Everyone
  /\ \A n \in Everyone :
       /\ IsInjective(roster[n]) /\ ToSet(roster[n]) \subseteq Everyone \ {n}
       /\ ToSet(told[n]) \subseteq Everyone /\ ToSet(callees[n]) \subseteq Queryable
  /\ events \in 0 .. MaxEvents /\ pushed \in -1 .. events
  /\ {arrived, skipped} \subseteq SUBSET (1 .. events)
  /\ lost \in 0 .. MaxLost /\ outages \in 0 .. MaxOutages /\ removals \in 0 .. MaxRemovals

RosterInit ==
  /\ roster = [n \in Everyone |-> << >>]
  /\ member = {Steady}
  /\ reachable = Queryable
  /\ told = [n \in Everyone |-> << >>] /\ callees = [n \in Everyone |-> << >>]
  /\ events = 0 /\ pushed = -1 /\ arrived = {} /\ skipped = {}
  /\ lost = 0 /\ outages = 0 /\ removals = 0

-----------------------------------------------------------------------------
(* cluster.json *)

\* merge_roster, an add_peer for each name: never the node itself, and an entry
\* that was there moves to the end.  A list of names has no name twice.
Merge(n, list, names) ==
  SelectSeq(list, LAMBDA q : q \notin ToSet(names)) \o SelectSeq(names, LAMBDA q : q # n)

AddPeer(n, list, q) == Merge(n, list, <<q>>)

\* queryable_peers(): a leaf is never one.
RosterPeers(list) == SelectSeq(list, LAMBDA q : q \in Queryable)

\* The receiver checks the signature with the secret only members have.
Answers(p) == p \in reachable /\ p \in member

Loses == lost < MaxLost /\ lost' = lost + 1 /\ UNCHANGED <<outages, removals>>
Unharmed == UNCHANGED rosterBounds

-----------------------------------------------------------------------------
(* Membership *)

\* join(): the peer adds the caller, and the caller the peer and all it names.
JoinCluster(n, p) ==
  /\ n \notin member /\ n # p /\ p \in Queryable /\ Answers(p)
  /\ member' = member \cup {n}
  /\ LET there == AddPeer(p, roster[p], n)
     IN roster' = [roster EXCEPT ![p] = there,
                                 ![n] = Merge(n, AddPeer(n, @, p), there)]
  /\ pushed' = IF n = Edge THEN events ELSE pushed
  /\ skipped' = IF n = Edge THEN skipped \cup 1 .. events ELSE skipped
  /\ UNCHANGED <<reachable, told, callees, events, arrived>> /\ Unharmed

\* The answer to a join is lost: the peer has the caller, the caller nothing.
JoinUnanswered(n, p) ==
  /\ n \notin member /\ n # p /\ p \in Queryable /\ Answers(p)
  /\ roster' = [roster EXCEPT ![p] = AddPeer(p, @, n)]
  /\ Loses
  /\ UNCHANGED <<member, reachable, told, callees, leafVars>>

\* The dashboard forgets a peer.  The operator leaves the steady one alone.
RemovePeer(n, q) ==
  /\ removals < MaxRemovals /\ removals' = removals + 1
  /\ q # Steady /\ q \in ToSet(roster[n])
  /\ roster' = [roster EXCEPT ![n] = SelectSeq(@, LAMBDA p : p # q)]
  /\ UNCHANGED <<member, reachable, told, callees, leafVars, lost, outages>>

\* A variant that does not name itself.
BeginTickUnnamed(n) ==
  /\ n \in member /\ n \in reachable \cup {Edge}
  /\ callees[n] = << >> /\ RosterPeers(roster[n]) # << >>
  /\ told' = [told EXCEPT ![n] = roster[n]]
  /\ callees' = [callees EXCEPT ![n] = RosterPeers(roster[n])]
  /\ UNCHANGED <<roster, member, reachable, leafVars>> /\ Unharmed

\* _gossip_roster begins: what this node knows, itself last.
BeginTick(n) ==
  /\ n \in member /\ n \in reachable \cup {Edge}
  /\ callees[n] = << >> /\ RosterPeers(roster[n]) # << >>
  /\ told' = [told EXCEPT ![n] = Append(roster[n], n)]
  /\ callees' = [callees EXCEPT ![n] = RosterPeers(roster[n])]
  /\ UNCHANGED <<roster, member, reachable, leafVars>> /\ Unharmed

\* One call: it fails, or the peer merges what it is told and answers with its
\* list, and the answer arrives or is lost.
Exchange(n, answered) ==
  /\ callees[n] # << >>
  /\ LET p == Head(callees[n])
         there == Merge(p, roster[p], told[n])
     IN /\ roster' = CASE ~Answers(p) -> roster
                       [] Answers(p) /\ ~answered -> [roster EXCEPT ![p] = there]
                       [] OTHER -> [roster EXCEPT ![p] = there, ![n] = Merge(n, @, there)]
        /\ IF Answers(p) /\ ~answered THEN Loses ELSE answered /\ Unharmed
  /\ callees' = [callees EXCEPT ![n] = Tail(@)]
  /\ told' = IF Len(callees[n]) = 1 THEN [told EXCEPT ![n] = << >>] ELSE told
  /\ UNCHANGED <<member, reachable, leafVars>>

-----------------------------------------------------------------------------
(* The events of the leaf *)

LeafDetects ==
  /\ events < MaxEvents
  /\ events' = events + 1
  /\ skipped' = IF pushed = -1 THEN skipped \cup {events + 1} ELSE skipped
  /\ UNCHANGED <<rosterNodeVars, reachable, pushed, arrived>> /\ Unharmed

Batch == (pushed + 1) .. (IF pushed + BatchLimit < events THEN pushed + BatchLimit ELSE events)

\* A variant that moves on whatever became of the call.
PushBlindly(answered) ==
  /\ pushed # -1 /\ RosterPeers(roster[Edge]) # << >> /\ Batch # {}
  /\ LET p == Head(RosterPeers(roster[Edge]))
     IN /\ arrived' = IF Answers(p) THEN arrived \cup Batch ELSE arrived
        /\ roster' = IF Answers(p) THEN [roster EXCEPT ![p] = AddPeer(p, @, Edge)] ELSE roster
        /\ pushed' = Max(Batch)
        /\ IF Answers(p) /\ ~answered THEN Loses ELSE answered /\ Unharmed
  /\ UNCHANGED <<member, reachable, told, callees, events, skipped>>

\* push_events_since: to the first peer of the list; the high-water id moves when
\* the answer has come, and cluster_event refreshes the leaf's entry.
PushEvents(answered) ==
  /\ pushed # -1 /\ RosterPeers(roster[Edge]) # << >> /\ Batch # {}
  /\ LET p == Head(RosterPeers(roster[Edge]))
     IN /\ arrived' = IF Answers(p) THEN arrived \cup Batch ELSE arrived
        /\ roster' = IF Answers(p) THEN [roster EXCEPT ![p] = AddPeer(p, @, Edge)] ELSE roster
        /\ pushed' = IF Answers(p) /\ answered THEN Max(Batch) ELSE pushed
        /\ IF Answers(p) /\ ~answered THEN Loses ELSE answered /\ Unharmed
  /\ UNCHANGED <<member, reachable, told, callees, events, skipped>>

\* A restart of the leaf begins with current_max_event_id; the tick is gone.
LeafRestarts ==
  /\ Edge \in member /\ outages < MaxOutages
  /\ outages' = outages + 1
  /\ pushed' = events
  /\ skipped' = skipped \cup ((pushed + 1) .. events)
  /\ callees' = [callees EXCEPT ![Edge] = << >>] /\ told' = [told EXCEPT ![Edge] = << >>]
  /\ UNCHANGED <<roster, member, reachable, events, arrived, lost, removals>>

-----------------------------------------------------------------------------
(* Outages of the other peers; one of them may stay down for ever *)

GoesDown(p) ==
  /\ p \in reachable \ {Steady} /\ outages < MaxOutages
  /\ reachable' = reachable \ {p} /\ outages' = outages + 1
  /\ callees' = [callees EXCEPT ![p] = << >>] /\ told' = [told EXCEPT ![p] = << >>]
  /\ UNCHANGED <<roster, member, leafVars, lost, removals>>

ComesBack(p) ==
  /\ p \in Queryable \ reachable
  /\ reachable' = reachable \cup {p}
  /\ UNCHANGED <<rosterNodeVars, leafVars>> /\ Unharmed

RosterNext ==
  \/ \E n \in Everyone, p \in Queryable : JoinCluster(n, p) \/ JoinUnanswered(n, p)
  \/ \E n, q \in Everyone : RemovePeer(n, q)
  \/ \E n \in Everyone : BeginTick(n)
  \/ \E n \in Everyone, answered \in BOOLEAN : Exchange(n, answered)
  \/ \E answered \in BOOLEAN : PushEvents(answered)
  \/ LeafDetects \/ LeafRestarts
  \/ \E p \in Queryable : GoesDown(p) \/ ComesBack(p)

\* cluster_task and leaf_forward_task come round on every node that runs.
RosterFairness ==
  /\ \A n \in Everyone : WF_rosterVars(BeginTick(n)) /\ WF_rosterVars(Exchange(n, TRUE))
  /\ WF_rosterVars(PushEvents(TRUE))

RosterSpec == RosterInit /\ [][RosterNext]_rosterVars
RosterFairSpec == RosterSpec /\ RosterFairness

-----------------------------------------------------------------------------
(* Properties *)

\* As long as one peer answers, every event the leaf records while its forwarding
\* runs reaches a peer, although only the first peer of the list is ever tried and
\* that one may be down for good ("Push this leaf's new events to one reachable
\* peer", cluster.py:373), or the leaf is restarted before.
LeafEventsArrive ==
  \A e \in 1 .. MaxEvents : [](e <= events => <>(e \in arrived \cup skipped))

\* Members that stay up come to know each other, whichever way they joined, whatever
\* answers were lost and whomever an operator removed once ("Converge membership",
\* cluster.py:288).
Up(n) == n \in member /\ n \in reachable \cup {Edge}
MembersMeet ==
  []<>(\A n, m \in Everyone : n # m /\ Up(n) /\ Up(m) => m \in ToSet(roster[n]))
=============================================================================
