----------------------------- MODULE MCDetection -----------------------------
(* The parts of one installation that find something and say so, for TLC: the   *)
(* engine's windows and its response, the watchers of the host, its files, its  *)
(* kernel and its processes, the community list, the log sources, and the       *)
(* alarms secwatch raises about itself.  As modelled they share no variable,    *)
(* and a property of one says nothing of the others, so a behaviour chooses at  *)
(* the start which of them moves (see README).                                  *)
EXTENDS Windows, Response, HostWatch, FileWatch, KernWatch, ProcWatch, Alarms,
        Sources, Community, TLC

CONSTANTS k1, k2, ports, units, sockets

KindOfKey == k1 :> units @@ k2 :> units @@ ports :> sockets

VARIABLE part

engineVars == <<windowVars, responseVars>>
hostFileVars == <<vars, fileVars>>
pollVars == <<kernVars, procVars>>
installVars == <<alarmVars, sourceVars, communityVars>>
detectionVars == <<part, engineVars, hostFileVars, pollVars, installVars>>

\* The parts that do not move have one initial state.
DetectionInit ==
  /\ part \in {"windows", "response", "host", "files", "kern", "proc", "alarms",
               "sources", "community"}
  /\ WindowsInit /\ ResponseInit /\ Init /\ FileInit /\ KernInit /\ ProcInit
  /\ AlarmInit /\ SourcesInit /\ CommunityInit
  /\ part # "host" => host = CHOOSE snap \in Snapshot : TRUE
  /\ part # "files" => files = {}
  /\ part # "kern" => ~ownThread /\ kernLog = {}
  /\ part # "proc" => dests = {}
  /\ part # "sources" => yaml = {}

DetectionNext ==
  /\ UNCHANGED part
  /\ \/ /\ part = "windows" /\ WindowsNext
        /\ UNCHANGED <<responseVars, hostFileVars, pollVars, installVars>>
     \/ /\ part = "response" /\ ResponseNext
        /\ UNCHANGED <<windowVars, hostFileVars, pollVars, installVars>>
     \/ /\ part = "host" /\ Next
        /\ UNCHANGED <<engineVars, fileVars, pollVars, installVars>>
     \/ /\ part = "files" /\ FileNext
        /\ UNCHANGED <<engineVars, vars, pollVars, installVars>>
     \/ /\ part = "kern" /\ KernNext
        /\ UNCHANGED <<engineVars, hostFileVars, procVars, installVars>>
     \/ /\ part = "proc" /\ ProcNext
        /\ UNCHANGED <<engineVars, hostFileVars, kernVars, installVars>>
     \/ /\ part = "alarms" /\ AlarmNext
        /\ UNCHANGED <<engineVars, hostFileVars, pollVars, sourceVars, communityVars>>
     \/ /\ part = "sources" /\ SourcesNext
        /\ UNCHANGED <<engineVars, hostFileVars, pollVars, alarmVars, communityVars>>
     \/ /\ part = "community" /\ CommunityNext
        /\ UNCHANGED <<engineVars, hostFileVars, pollVars, alarmVars, sourceVars>>

DetectionSpec == DetectionInit /\ [][DetectionNext]_detectionVars
==============================================================================
