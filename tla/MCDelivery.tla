------------------------------ MODULE MCDelivery ------------------------------
(* The parts that have to bring something to its place through failures, for    *)
(* TLC: log lines into the tables, an agent's events to its core, a leaf's to a *)
(* peer, the bans of the table to the edge.  As modelled they share no variable *)
(* and a property of one says nothing of the others, so a behaviour chooses at  *)
(* the start which of them moves (see README).                                  *)
EXTENDS LogTail, AgentLink, EdgeDrill, Roster

VARIABLE part

deliveryVars == <<part, tailVars, agentVars, edgeDrillVars, rosterVars>>

\* The parts that do not move have one initial state.
DeliveryInit ==
  /\ part \in {"tail", "agent", "edge", "roster"}
  /\ TailInit /\ AgentInit /\ EdgeInit /\ RosterInit
  /\ part # "agent" => ~remote /\ containers = Nothing
  /\ part # "edge" => actuator = "traefik" /\ ownConn

DeliveryNext ==
  /\ UNCHANGED part
  /\ \/ part = "tail" /\ TailNext /\ UNCHANGED <<agentVars, edgeDrillVars, rosterVars>>
     \/ part = "agent" /\ AgentNext /\ UNCHANGED <<tailVars, edgeDrillVars, rosterVars>>
     \/ part = "edge" /\ EdgeNext /\ UNCHANGED <<tailVars, agentVars, rosterVars>>
     \/ part = "roster" /\ RosterNext /\ UNCHANGED <<tailVars, agentVars, edgeDrillVars>>

\* TailFairness, AgentFairness, EdgeFairness and RosterFairness, each for the
\* behaviours of its part.
DeliveryFairness ==
  /\ WF_tailVars(part = "tail" /\ Open)
  /\ SF_tailVars(part = "tail" /\ (HandleLine(TRUE) \/ AtEnd(TRUE)))
  /\ WF_tailVars(part = "tail" /\ fd \in torn /\ WriteLine)
  /\ WF_agentVars(part = "agent" /\ ReadBaseline)
  /\ WF_agentVars(part = "agent" /\
                    (DockerListed(TRUE) \/ SystemListed(TRUE) \/ UserListed(TRUE, TRUE)))
  /\ WF_agentVars(part = "agent" /\ Ship)
  /\ SF_agentVars(part = "agent" /\ Delivered)
  /\ WF_agentVars(part = "agent" /\ \E r \in DockerRule : Lapse(r))
  /\ \A t \in Hand : WF_edgeDrillVars(part = "edge" /\ EdgeStep(t))
  /\ \A t \in Writer : WF_edgeDrillVars(part = "edge" /\ Reconcile(t))
  /\ \A d \in Drill :
       WF_edgeDrillVars(part = "edge" /\ (Judge(d) \/ Restore(d) \/ WriteBack(d) \/ Verify(d)))
  /\ \A n \in Everyone :
       /\ WF_rosterVars(part = "roster" /\ BeginTick(n))
       /\ WF_rosterVars(part = "roster" /\ Exchange(n, TRUE))
  /\ WF_rosterVars(part = "roster" /\ PushEvents(TRUE))

DeliverySpec == DeliveryInit /\ [][DeliveryNext]_deliveryVars /\ DeliveryFairness
===============================================================================
