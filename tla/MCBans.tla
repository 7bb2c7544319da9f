------------------------------- MODULE MCBans -------------------------------
(* The bans of one node at the grain of its threads, and the ban of one        *)
(* address among the nodes of a cluster, for TLC.  The two modules share no    *)
(* variable, and a property of one says nothing of the other, so a behaviour   *)
(* chooses at the start which of them moves (see README).                      *)
EXTENDS BanStore, BanGossip, TLC

CONSTANTS a, b, p

Symmetry == Permutations({a, b})

VARIABLE part

bansVars == <<part, vars, gossipVars>>

BansInit == part \in {"store", "gossip"} /\ Init /\ GossipInit

BansNext ==
  /\ UNCHANGED part
  /\ \/ part = "store" /\ Next /\ UNCHANGED gossipVars
     \/ part = "gossip" /\ GossipNext /\ UNCHANGED vars

BansSpec == BansInit /\ [][BansNext]_bansVars
==============================================================================
