------------------------------ MODULE EdgeDrill ------------------------------
(***************************************************************************)
(* The edge at the grain of the actuators' own steps (banactuators.py) and *)
(* the fire drill that exercises it (selftest.run_firedrill).  BanStore    *)
(* has the table's side of the same calls and takes an actuator for one    *)
(* step; here the table is just the set of active bans.                    *)
(*                                                                         *)
(* Every writer ends in write_file: read the active bans, then sync them.  *)
(* traefik's file is replaced through a temporary file whose name all      *)
(* writers share; nginx's is written in place and takes effect by a        *)
(* reload; nftables' set is flushed and filled by two commands.  A drill   *)
(* runs on a thread of its own and ends by writing back what it found.     *)
(***************************************************************************)
EXTENDS Integers

CONSTANTS
  Banned,        \* addresses that get banned
  Synthetic,     \* FIREDRILL_IP
  NoFile,        \* the file does not exist, or could not be read
  Writer,        \* threads that call write_file: the event loop, the pool
  Drill,         \* threads that run a drill
  MaxDrills,     \* bound: drills
  MaxUpsets      \* bound: changes of the table and failing steps

ASSUME EdgeDrillAssumption ==
  /\ Synthetic \notin Banned
  /\ \A l \in SUBSET (Banned \cup {Synthetic}) : l # NoFile
  /\ Writer \cap Drill = {}
  /\ MaxDrills \in Nat /\ MaxUpsets \in Nat

Actuator == {"traefik", "nginx", "nftables"}
List == SUBSET (Banned \cup {Synthetic})
Places == {"idle", "read", "sync", "replace", "reload", "fill", "judge",
           "restore", "written back", "verify"}

VARIABLES
  actuator,   \* ban.actuator
  ownConn,    \* the drill's connection was opened by the drill's thread
  active,     \* the active bans of the table
  file,       \* the actuator's file
  temp,       \* the temporary file beside it
  loaded,     \* what nginx has loaded; the nftables set
  spot,       \* spot[t]: the next step of t
  list,       \* list[t]: the addresses t syncs
  found,      \* found[d]: the state drill d found
  enforced,   \* enforced[d]: the result of its enforce stage, and
  restored,   \* restored[d]: of its restore stage
  clean,      \* no step failed so far
  drills, upsets   \* so far

edgeVars == <<file, temp, loaded>>
threadVars == <<spot, list>>
drillVars == <<found, enforced, restored>>
edgeDrillVars == <<actuator, ownConn, active, edgeVars, threadVars, drillVars,
                   clean, drills, upsets>>

Hand == Writer \cup Drill

EdgeTypeOK ==
  /\ actuator \in Actuator /\ ownConn \in BOOLEAN
  /\ active \in SUBSET Banned
  /\ {file, temp} \subseteq List \cup {NoFile} /\ loaded \in List
  /\ spot \in [Hand -> Places]
  /\ list \in [Hand -> List]
  /\ found \in [Drill -> List \cup {NoFile}]
  /\ {enforced, restored} \subseteq [Drill -> {"none", "ok", "red"}]
  /\ clean \in BOOLEAN
  /\ drills \in 0 .. MaxDrills /\ upsets \in 0 .. MaxUpsets

EdgeInit ==
  /\ actuator \in Actuator /\ ownConn \in BOOLEAN
  /\ active = {} /\ file = NoFile /\ temp = NoFile /\ loaded = {}
  /\ spot = [t \in Hand |-> "idle"]
  /\ list = [t \in Hand |-> {}]
  /\ found = [d \in Drill |-> NoFile]
  /\ enforced = [d \in Drill |-> "none"] /\ restored = [d \in Drill |-> "none"]
  /\ clean = TRUE /\ drills = 0 /\ upsets = 0

Contents(text) == IF text = NoFile THEN {} ELSE text

\* What the edge denies, and _enforcement_text(), the state as the drill reads it.
Denied == IF actuator = "traefik" THEN Contents(file) ELSE loaded
Text == IF actuator = "nftables" THEN loaded ELSE file

Goto(t, p) == spot' = [spot EXCEPT ![t] = p]

\* Where a thread goes on when its sync is over.
AfterSync(t) ==
  IF t \in Writer THEN "idle" ELSE IF enforced[t] = "none" THEN "judge" ELSE "verify"

Fails == upsets < MaxUpsets /\ upsets' = upsets + 1 /\ clean' = FALSE
Works == UNCHANGED <<upsets, clean>>
Same == UNCHANGED <<actuator, ownConn, drills>>

-----------------------------------------------------------------------------
(* sync() *)

SyncFrom(t) == spot[t] = "sync" /\ UNCHANGED <<active, list, drillVars>> /\ Same

\* _traefik: nothing to do when the file is right, else the temporary file.
SyncTraefik(t) ==
  /\ actuator = "traefik" /\ SyncFrom(t) /\ Works
  /\ IF file = list[t]
     THEN Goto(t, AfterSync(t)) /\ UNCHANGED temp
     ELSE Goto(t, "replace") /\ temp' = list[t]
  /\ UNCHANGED <<file, loaded>>

\* os.replace: it moves the temporary file, whoever wrote it last, or finds that
\* another thread has moved it.
Replace(t) ==
  /\ spot[t] = "replace"
  /\ IF temp = NoFile THEN UNCHANGED <<file, temp>> ELSE file' = temp /\ temp' = NoFile
  /\ Goto(t, AfterSync(t))
  /\ Works /\ UNCHANGED <<active, list, drillVars, loaded>> /\ Same

\* _nginx: the file is opened for writing, that is emptied, and written.
SyncNginx(t) ==
  /\ actuator = "nginx" /\ SyncFrom(t) /\ Works
  /\ file' = list[t]
  /\ Goto(t, "reload")
  /\ UNCHANGED <<temp, loaded>>

Reload(t, ok) ==
  /\ spot[t] = "reload"
  /\ loaded' = IF ok THEN Contents(file) ELSE loaded
  /\ Goto(t, AfterSync(t))
  /\ IF ok THEN Works ELSE Fails
  /\ UNCHANGED <<active, list, drillVars, file, temp>> /\ Same

\* _nftables: the set is flushed, a failure goes unnoticed, and then filled.
SyncNftables(t, ok) ==
  /\ actuator = "nftables" /\ SyncFrom(t)
  /\ loaded' = IF ok THEN {} ELSE loaded
  /\ Goto(t, IF list[t] = {} THEN AfterSync(t) ELSE "fill")
  /\ IF ok THEN Works ELSE Fails
  /\ UNCHANGED <<file, temp>>

Fill(t, ok) ==
  /\ spot[t] = "fill"
  /\ loaded' = IF ok THEN loaded \cup list[t] ELSE loaded
  /\ Goto(t, AfterSync(t))
  /\ IF ok THEN Works ELSE Fails
  /\ UNCHANGED <<active, list, drillVars, file, temp>> /\ Same

\* An OSError of the two file actuators, which is logged.
SyncFailsToWrite(t) ==
  /\ actuator # "nftables" /\ SyncFrom(t) /\ Fails
  /\ Goto(t, AfterSync(t))
  /\ UNCHANGED edgeVars

-----------------------------------------------------------------------------
(* write_file and its callers *)

\* A ban or an unban, committed; the thread goes on to write_file.
ChangeTable(t, bans) ==
  /\ t \in Writer /\ spot[t] = "idle" /\ bans # active
  /\ upsets < MaxUpsets /\ upsets' = upsets + 1
  /\ active' = bans
  /\ Goto(t, "read")
  /\ UNCHANGED <<list, edgeVars, drillVars, clean>> /\ Same

\* A variant that syncs only when the last ban has expired.
ReconcileOnExpiry(t) ==
  /\ t \in Writer /\ spot[t] = "idle"
  /\ Goto(t, IF active = {} THEN "read" ELSE "idle")
  /\ Works /\ UNCHANGED <<active, list, edgeVars, drillVars>> /\ Same

\* expire_and_sync, every maintenance cycle.
Reconcile(t) ==
  /\ t \in Writer /\ spot[t] = "idle"
  /\ Goto(t, "read")
  /\ Works /\ UNCHANGED <<active, list, edgeVars, drillVars>> /\ Same

\* active() for the list to sync.
ReadActive(t) ==
  /\ spot[t] = "read"
  /\ list' = [list EXCEPT ![t] = active]
  /\ Goto(t, "sync")
  /\ Works /\ UNCHANGED <<active, edgeVars, drillVars>> /\ Same

-----------------------------------------------------------------------------
(* run_firedrill *)

\* _enforcement_text, the detect stage, which touches nothing, and the enforce
\* stage up to sync: the list of active bans needs a connection of this thread.
StartDrill(d) ==
  /\ d \in Drill /\ spot[d] = "idle" /\ drills < MaxDrills
  /\ drills' = drills + 1
  /\ found' = [found EXCEPT ![d] = Text]
  /\ restored' = [restored EXCEPT ![d] = "none"]
  /\ IF ownConn
     THEN /\ list' = [list EXCEPT ![d] = active \cup {Synthetic}]
          /\ enforced' = [enforced EXCEPT ![d] = "none"]
          /\ Goto(d, "sync")
     ELSE /\ enforced' = [enforced EXCEPT ![d] = "red"]
          /\ Goto(d, "restore")
          /\ UNCHANGED list
  /\ Works /\ UNCHANGED <<actuator, ownConn, active, edgeVars>>

\* The end of the enforce stage: what was synced is what is there.
Judge(d) ==
  /\ spot[d] = "judge"
  /\ enforced' = [enforced EXCEPT ![d] = IF list[d] \subseteq Contents(Text) THEN "ok" ELSE "red"]
  /\ Goto(d, "restore")
  /\ Works /\ UNCHANGED <<active, list, edgeVars, found, restored>> /\ Same

\* A file that was there is written back as it was found, not as the table has it.
WritesBack(d) == actuator # "nftables" /\ found[d] # NoFile

\* _restore after the edge stage, which only looks: the bytes found, by way of the
\* temporary file; or write_file, which needs the connection.
Restore(d) ==
  /\ spot[d] = "restore"
  /\ IF WritesBack(d)
     THEN temp' = found[d] /\ Goto(d, "written back") /\ UNCHANGED restored
     ELSE /\ UNCHANGED temp
          /\ IF ownConn THEN Goto(d, "read") /\ UNCHANGED restored
             ELSE Goto(d, "idle") /\ restored' = [restored EXCEPT ![d] = "red"]
  /\ Works /\ UNCHANGED <<active, list, file, loaded, found, enforced>> /\ Same

\* _atomic_write's os.replace; no reload follows.
WriteBack(d) ==
  /\ spot[d] = "written back"
  /\ IF temp = NoFile
     THEN /\ restored' = [restored EXCEPT ![d] = "red"]
          /\ Goto(d, "idle") /\ UNCHANGED <<file, temp>>
     ELSE /\ file' = temp /\ temp' = NoFile
          /\ Goto(d, "verify") /\ UNCHANGED restored
  /\ Works /\ UNCHANGED <<active, list, loaded, found, enforced>> /\ Same

\* The verdict of the restore stage.
Verify(d) ==
  /\ spot[d] = "verify"
  /\ restored' = [restored EXCEPT ![d] =
       IF Synthetic \in Contents(Text) \/ (WritesBack(d) /\ Text # found[d])
       THEN "red" ELSE "ok"]
  /\ Goto(d, "idle")
  /\ Works /\ UNCHANGED <<active, list, edgeVars, found, enforced>> /\ Same

\* The process dies and comes back; lifespan begins with expire_and_sync.
EdgeCrash ==
  /\ \E t \in Hand : spot[t] # "idle"
  /\ Fails
  /\ spot' = [t \in Hand |-> IF t \in Writer THEN "read" ELSE "idle"]
  /\ UNCHANGED <<active, list, edgeVars, drillVars>> /\ Same

EdgeStep(t) ==
  \/ SyncTraefik(t) \/ Replace(t) \/ SyncNginx(t) \/ Reload(t, TRUE)
  \/ SyncNftables(t, TRUE) \/ Fill(t, TRUE) \/ ReadActive(t)

EdgeNext ==
  \/ \E t \in Hand :
       \/ EdgeStep(t)
       \/ Reload(t, FALSE) \/ SyncNftables(t, FALSE) \/ Fill(t, FALSE) \/ SyncFailsToWrite(t)
  \/ \E t \in Writer : Reconcile(t) \/ \E bans \in SUBSET Banned : ChangeTable(t, bans)
  \/ \E d \in Drill : StartDrill(d) \/ Judge(d) \/ Restore(d) \/ WriteBack(d) \/ Verify(d)
  \/ EdgeCrash

\* Threads run, and the maintenance task comes round.
EdgeFairness ==
  /\ \A t \in Hand : WF_edgeDrillVars(EdgeStep(t))
  /\ \A t \in Writer : WF_edgeDrillVars(Reconcile(t))
  /\ \A d \in Drill : WF_edgeDrillVars(Judge(d) \/ Restore(d) \/ WriteBack(d) \/ Verify(d))

EdgeSpec == EdgeInit /\ [][EdgeNext]_edgeDrillVars
EdgeFairSpec == EdgeSpec /\ EdgeFairness

-----------------------------------------------------------------------------
(* Properties *)

\* Whatever drills write back, actuators fail to do, threads do to each other's
\* temporary file or flushed set, and crashes leave half done: the edge comes back
\* to denying the active bans and nothing else, the synthetic address included ("the
\* normal maintenance reconcile would strip it anyway", selftest.py:12).
EdgeIsHealed == []<>(Denied = active)

\* A drill that meets no failure exercises the chain: its ban reaches the edge
\* ("exercise the real detect -> enforce -> restore chain end-to-end", web.py:1493).
DrillReachesTheEdge ==
  clean => \A d \in Drill : enforced[d] # "red"
=============================================================================
