------------------------------ MODULE AgentLink ------------------------------
(***************************************************************************)
(* The docker and systemd watcher (dockerwatch.DockerWatcher) and the way  *)
(* of its events: straight into the engine, or, in agent mode, through the *)
(* agent's bounded queue and one HTTP post per event (agent._forward,      *)
(* _shipper, _post) to the core's /api/ingest, which hands it to _event.   *)
(*                                                                         *)
(* check() reads the baseline, awaits three commands and writes at the     *)
(* end; a command that fails reads as one that lists nothing.  A container *)
(* is an image with a state; of each systemd scope one unit is watched.    *)
(* Time appears only as the end of a suppression.                          *)
(***************************************************************************)
EXTENDS Integers, Sequences, SequencesExt

CONSTANTS
  Container, Image,
  NotThere,           \* no such container
  LinkMax,          \* capacity of the agent's queue
  MaxMishaps        \* bound: changes of the host, commands that fail, writes that
                    \* are refused and restarts of the watcher's process

ASSUME AgentLinkAssumption ==
  /\ LinkMax \in Nat \ {0}
  /\ MaxMishaps \in Nat
  /\ NotThere \notin Image \X {"running", "restarting", "exited"}

Scope == {"system", "user"}
Status == Image \X {"running", "restarting", "exited"}
DockerRule == {"docker_new", "docker_image", "docker_down", "docker_restart_loop", "unit_failed"}
Event == DockerRule \X (Container \cup Scope)

VARIABLES
  remote,       \* agent mode: events are forwarded
  containers,   \* what docker would list
  failed,       \* the scopes whose unit has failed
  known,        \* the docker: rows of host_baseline
  knownFailed,  \* its unit: rows
  at,           \* where check() waits: "idle", "docker", "system", "user"
  first,        \* first_run of that check
  listed, listedFailed,   \* its seen
  link,         \* the agent's queue
  post,         \* the event being posted, if any
  quietRules,   \* the rules the receiving engine suppresses
  recorded,         \* the events the last step put into the table, and
  announced,    \* those it emitted (history variables),
  steady,       \* the containers that a finished check and every listing since had
  mishaps       \* so far

hostVars == <<remote, containers, failed>>
baseVars == <<known, knownFailed>>
checkVars == <<at, first, listed, listedFailed>>
linkVars == <<link, post, quietRules>>
agentVars == <<hostVars, baseVars, checkVars, linkVars, recorded, announced, steady,
               mishaps>>

NoPost == << >>
Nothing == [c \in Container |-> NotThere]

AgentTypeOK ==
  /\ {containers, known, listed} \subseteq [Container -> Status \cup {NotThere}]
  /\ {failed, knownFailed, listedFailed} \subseteq SUBSET Scope
  /\ at \in {"idle", "docker", "system", "user"} /\ first \in BOOLEAN
  /\ link \in Seq(Event) /\ Len(link) <= LinkMax
  /\ post \in Event \cup {NoPost}
  /\ quietRules \in SUBSET DockerRule
  /\ {recorded, announced} \subseteq SUBSET Event
  /\ steady \in SUBSET Container
  /\ remote \in BOOLEAN /\ mishaps \in 0 .. MaxMishaps

AgentInit ==
  /\ remote \in BOOLEAN
  /\ containers \in [Container -> Status \cup {NotThere}]
  /\ failed = {}
  /\ known = Nothing /\ knownFailed = {}
  /\ at = "idle" /\ first = FALSE /\ listed = Nothing /\ listedFailed = {}
  /\ link = << >> /\ post = NoPost
  /\ quietRules = {}
  /\ recorded = {} /\ announced = {} /\ steady = {}
  /\ mishaps = 0

-----------------------------------------------------------------------------
(* Where an event goes *)

\* put_nowait() for each: what finds the queue full is dropped.
Linked(events) ==
  LET all == link \o events
  IN IF Len(all) <= LinkMax THEN all ELSE SubSeq(all, 1, LinkMax)

\* _event for each: the first of a rule that is not suppressed gets its row.
Rows(events) ==
  {events[i] : i \in {j \in DOMAIN events :
     /\ events[j][1] \notin quietRules
     /\ \A k \in 1 .. j - 1 : events[k][1] # events[j][1]}}

\* Engine.emit for each of the events, which are those of told in some order:
\* forwarded, or handled here.
Emit(events, told) ==
  /\ announced' = told
  /\ IF remote
     THEN /\ link' = Linked(events)
          /\ recorded' = {} /\ UNCHANGED quietRules
     ELSE /\ recorded' = Rows(events)
          /\ quietRules' = quietRules \cup {e[1] : e \in Rows(events)}
          /\ UNCHANGED link
  /\ UNCHANGED post

Silent == recorded' = {} /\ announced' = {}

\* A step that goes well, or one that counts as a mishap.
Mishap(ok) ==
  IF ok THEN UNCHANGED mishaps ELSE mishaps < MaxMishaps /\ mishaps' = mishaps + 1

-----------------------------------------------------------------------------
(* check() *)

\* The table holds no row of this watcher.
FirstRun == known = Nothing /\ knownFailed = {}

ReadBaseline ==
  /\ at = "idle"
  /\ at' = "docker"
  /\ first' = FirstRun
  /\ listed' = Nothing /\ listedFailed' = {}
  /\ Silent
  /\ UNCHANGED <<hostVars, baseVars, linkVars, steady, mishaps>>

\* A variant that reports a restart loop only when it begins.
StatusEventsOnce(c, status) ==
  LET old == known[c]
  IN (IF old = NotThere
      THEN IF first THEN << >> ELSE << <<"docker_new", c>> >>
      ELSE IF old[1] # status[1] THEN << <<"docker_image", c>> >> ELSE << >>)
     \o (IF old # status /\ status[2] = "restarting"
         THEN << <<"docker_restart_loop", c>> >> ELSE << >>)

\* What one line of docker ps is worth.
StatusEvents(c, status) ==
  LET old == known[c]
  IN (IF old = NotThere
      THEN IF first THEN << >> ELSE << <<"docker_new", c>> >>
      ELSE (IF old[1] # status[1] THEN << <<"docker_image", c>> >> ELSE << >>)
           \o (IF old[2] = "running" /\ status[2] = "exited"
               THEN << <<"docker_down", c>> >> ELSE << >>))
     \o (IF status[2] = "restarting" THEN << <<"docker_restart_loop", c>> >> ELSE << >>)

\* docker ps answers, or fails and so lists nothing.
DockerListed(ok) ==
  /\ at = "docker"
  /\ at' = "system"
  /\ listed' = IF ok THEN containers ELSE Nothing
  /\ LET there == {c \in Container : listed'[c] # NotThere}
         lines == SetToSeq(there)
         of[i \in DOMAIN lines] == StatusEvents(lines[i], listed'[lines[i]])
     IN Emit(FlattenSeq(of), UNION {Range(StatusEvents(c, listed'[c])) : c \in there})
  /\ steady' = {c \in steady : listed'[c] # NotThere}
  /\ Mishap(ok)
  /\ UNCHANGED <<hostVars, baseVars, first, listedFailed>>

\* The failed unit of a scope, when its row is missing.
UnitEvents(scope, ok) ==
  IF ok /\ scope \in failed /\ scope \notin knownFailed /\ ~first
  THEN << <<"unit_failed", scope>> >> ELSE << >>

Failing(scope, ok) ==
  IF ok /\ scope \in failed THEN listedFailed \cup {scope} ELSE listedFailed

SystemListed(ok) ==
  /\ at = "system"
  /\ at' = "user"
  /\ listedFailed' = Failing("system", ok)
  /\ Emit(UnitEvents("system", ok), Range(UnitEvents("system", ok)))
  /\ Mishap(ok)
  /\ UNCHANGED <<hostVars, baseVars, first, listed, steady>>

\* A variant that keeps rows only of what runs.
KnownRunning == [c \in Container |->
  IF listed[c] # NotThere /\ listed[c][2] = "running" THEN listed[c] ELSE NotThere]

\* The docker: rows after a check: what it listed, and nothing else.
KnownNow == listed

\* The last listing, and the write of the baseline right after it, which another
\* connection's lock may refuse.
UserListed(ok, written) ==
  /\ at = "user"
  /\ at' = "idle"
  /\ listedFailed' = Failing("user", ok)
  /\ Emit(UnitEvents("user", ok), Range(UnitEvents("user", ok)))
  /\ IF written
     THEN /\ known' = KnownNow
          /\ knownFailed' = listedFailed'
          /\ steady' = {c \in Container : listed[c] # NotThere}
     ELSE UNCHANGED <<known, knownFailed, steady>>
  /\ Mishap(ok /\ written)
  /\ UNCHANGED <<hostVars, first, listed>>

-----------------------------------------------------------------------------
(* The shipper and the core *)

Ship ==
  /\ post = NoPost /\ link # << >>
  /\ post' = Head(link) /\ link' = Tail(link)
  /\ Silent
  /\ UNCHANGED <<hostVars, baseVars, checkVars, quietRules, steady, mishaps>>

\* _event at the core: a suppressed event leaves no trace.
Ingest(e) ==
  /\ recorded' = IF e[1] \in quietRules THEN {} ELSE {e}
  /\ quietRules' = quietRules \cup {e[1]}
  /\ announced' = {}

Delivered ==
  /\ post # NoPost
  /\ Ingest(post)
  /\ post' = NoPost
  /\ UNCHANGED <<hostVars, baseVars, checkVars, link, steady, mishaps>>

\* A refused or failed post is logged, and its event forgotten; one that times out
\* is either.
PostFails ==
  /\ post # NoPost
  /\ post' = NoPost
  /\ Silent
  /\ UNCHANGED <<hostVars, baseVars, checkVars, link, quietRules, steady, mishaps>>

-----------------------------------------------------------------------------
(* The world *)

\* EVENT_SUPPRESS passes.
Lapse(r) ==
  /\ r \in quietRules
  /\ quietRules' = quietRules \ {r}
  /\ Silent
  /\ UNCHANGED <<hostVars, baseVars, checkVars, link, post, steady, mishaps>>

HostChanges ==
  /\ Mishap(FALSE)
  /\ \/ \E c \in Container, s \in Status \cup {NotThere} :
          containers' = [containers EXCEPT ![c] = s] /\ UNCHANGED <<remote, failed>>
     \/ \E u \in SUBSET Scope : failed' = u /\ UNCHANGED <<remote, containers>>
  /\ Silent
  /\ UNCHANGED <<baseVars, checkVars, linkVars, steady>>

\* Of the watcher's process only the table survives.
AgentRestart ==
  /\ Mishap(FALSE)
  /\ at' = "idle" /\ first' = FALSE /\ listed' = Nothing /\ listedFailed' = {}
  /\ link' = << >> /\ post' = NoPost
  /\ quietRules' = IF remote THEN quietRules ELSE {}
  /\ Silent
  /\ UNCHANGED <<hostVars, baseVars, steady>>

AgentNext ==
  \/ ReadBaseline
  \/ \E ok \in BOOLEAN : DockerListed(ok) \/ SystemListed(ok)
  \/ \E ok, written \in BOOLEAN : UserListed(ok, written)
  \/ Ship \/ Delivered \/ PostFails
  \/ \E r \in DockerRule : Lapse(r)
  \/ HostChanges \/ AgentRestart

\* The poll and the shipper are tasks that keep running; the network works now and
\* then; a suppression ends.
AgentFairness ==
  /\ WF_agentVars(ReadBaseline)
  /\ WF_agentVars(DockerListed(TRUE) \/ SystemListed(TRUE) \/ UserListed(TRUE, TRUE))
  /\ WF_agentVars(Ship)
  /\ SF_agentVars(Delivered)
  /\ WF_agentVars(\E r \in DockerRule : Lapse(r))

AgentSpec == AgentInit /\ [][AgentNext]_agentVars
AgentFairSpec == AgentSpec /\ AgentFairness

-----------------------------------------------------------------------------
(* Properties *)

\* A container that a check listed, and every listing since, is not announced as
\* new, whatever is restarted, refused or failing in between: "a secwatch restart
\* doesn't re-announce the world" (dockerwatch.py:3).
SteadyNotAnnounced ==
  [][\A c \in Container : <<"docker_new", c>> \in announced' => c \notin steady]_agentVars

\* A container that restart-loops for good is recorded again and again, though the
\* queue drops what it has no room for and a failed post is never repeated
\* (DockerWatcher.check, agent._forward, _shipper).
LoopsAreTold ==
  \A c \in Container :
    <>[](containers[c] # NotThere /\ containers[c][2] = "restarting") =>
      []<>(\E e \in recorded : e[1] = "docker_restart_loop")
=============================================================================
