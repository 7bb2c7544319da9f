------------------------------ MODULE Response ------------------------------
(***************************************************************************)
(* What the engine does with a detection (Engine._event): the suppression  *)
(* of repeats, the row in the events table, the alert with its cooldown,   *)
(* quiet rules and mutes, the bounded alert queue, the automatic ban; the  *)
(* classification of hosts that answer every path (catchall_task), which   *)
(* decides the severity of a probe; and the events that peers and agents   *)
(* send, which carry a time of their own.                                  *)
(*                                                                         *)
(* Everything here runs on the event loop and no step contains an await,   *)
(* so one call of _event is one step.                                      *)
(***************************************************************************)
EXTENDS Integers, Sequences

CONSTANTS
  IP,           \* addresses
  Trusted,      \* those in network.trusted_nets
  Private,      \* internal addresses
  EventRule,         \* detection rules, among them Probe
  Probe,        \* the rule whose severity depends on the host
  QuietRules,        \* ALERT_QUIET_RULES
  BanRules,     \* rules that ban
  SuppressFor, AlertCooldown,
  QueueMax,     \* capacity of the alert queue
  MaxEventTime  \* bound of the clock

ASSUME ResponseAssumption ==
  /\ Trusted \subseteq IP /\ Private \subseteq IP
  /\ Probe \in EventRule
  /\ SuppressFor \in Nat \ {0}
  /\ AlertCooldown \in Nat
  /\ SuppressFor <= AlertCooldown
  /\ QueueMax \in Nat \ {0}
  /\ MaxEventTime \in Nat \ {0}

EventKey == IP \X EventRule
Severity == {"info", "low", "medium", "high"}
Origin == {"own", "agent", "peer"}

VARIABLES
  time,        \* the clock
  quietUntil,  \* Engine.suppress: until when events of k are dropped, or 0
  gate,        \* alert_gate[k]: until when alerts of k are withheld
  mutes,       \* what the operator muted
  verdict,     \* what is known of the probed host: "unknown", "spa", "real"
  pending,     \* the host waits for its classification
  queue,       \* the alert queue
  newestEvent, \* newestEvent[k]: the newest time of an event of k in the table, or 0
  bans,        \* what ban_cb was called for: the address and the event's origin
  own,         \* own[k]: this process's last own event of k, or 0, and
  alerted,     \* alerted[k]: its last own alert (history variables)
  hit          \* the address whose probe the last step found answered by a
               \* host known to be a real backend, if any (a history variable)

memory == <<quietUntil, gate, queue, newestEvent, bans, own, alerted>>
responseVars == <<memory, time, mutes, verdict, pending, hit>>

Nobody == "nobody"
ResponseTypeOK ==
  /\ time \in 1 .. MaxEventTime
  /\ quietUntil \in [EventKey -> Nat]
  /\ gate \in [EventKey -> Nat]
  /\ mutes \in SUBSET EventKey
  /\ verdict \in {"unknown", "spa", "real"}
  /\ pending \in BOOLEAN
  /\ queue \in Seq(EventKey) /\ Len(queue) <= QueueMax
  /\ {newestEvent, own, alerted} \subseteq [EventKey -> 0 .. MaxEventTime]
  /\ bans \in SUBSET (IP \X Origin)
  /\ hit \in IP \cup {Nobody}

ResponseInit ==
  /\ time = 1
  /\ quietUntil = [k \in EventKey |-> 0]
  /\ gate = [k \in EventKey |-> 0]
  /\ mutes = {}
  /\ verdict = "unknown" /\ pending = FALSE
  /\ queue = << >>
  /\ newestEvent = [k \in EventKey |-> 0]
  /\ own = [k \in EventKey |-> 0] /\ alerted = [k \in EventKey |-> 0]
  /\ bans = {}
  /\ hit = Nobody

-----------------------------------------------------------------------------
(* _event *)

\* A variant that does not compare with the cooldown.
AlertsAgain(k, sev, t, origin) ==
  /\ origin # "peer" /\ sev = "high"
  /\ k[2] \notin QuietRules \/ k[1] \in Private
  /\ k \notin mutes

\* An alert is due: high enough, not in its cooldown, and neither a quiet rule
\* (which an internal address still alerts for) nor muted.
Alerts(k, sev, t, origin) ==
  /\ origin # "peer" /\ sev = "high"
  /\ gate[k] <= t
  /\ k[2] \notin QuietRules \/ k[1] \in Private
  /\ k \notin mutes

\* The automatic ban; a peer's record-only event is not told apart here.
Bans(k, sev) ==
  /\ sev = "high" /\ k[2] \in BanRules
  /\ k[1] \notin Trusted \cup Private

Later(f, k, t) == [f EXCEPT ![k] = IF t > @ THEN t ELSE @]

\* A variant whose suppressed events prolong the suppression.
RecordEventSliding(k, sev, t, origin) ==
  /\ quietUntil' = [quietUntil EXCEPT ![k] = t + SuppressFor]
  /\ newestEvent' = IF quietUntil[k] > t THEN newestEvent ELSE Later(newestEvent, k, t)
  /\ UNCHANGED <<gate, queue, bans, own, alerted>>

\* put_nowait() on a full queue drops the alert.
Queued(k) == IF Len(queue) < QueueMax THEN Append(queue, k) ELSE queue

\* A suppressed event leaves no trace.
RecordEvent(k, sev, t, origin) ==
  IF quietUntil[k] > t
  THEN UNCHANGED memory
  ELSE LET alert == Alerts(k, sev, t, origin)
           mine == origin = "own"
       IN /\ quietUntil' = [quietUntil EXCEPT ![k] = t + SuppressFor]
          /\ gate' = IF alert THEN [gate EXCEPT ![k] = t + AlertCooldown] ELSE gate
          /\ queue' = IF alert THEN Queued(k) ELSE queue
          /\ newestEvent' = Later(newestEvent, k, t)
          /\ bans' = IF Bans(k, sev) THEN bans \cup {<<k[1], origin>>} ELSE bans
          /\ own' = IF mine THEN [own EXCEPT ![k] = t] ELSE own
          /\ alerted' = IF mine /\ alert THEN [alerted EXCEPT ![k] = t] ELSE alerted

\* A detection of this node by any other rule.
Detect(k, sev) ==
  /\ k[2] # Probe
  /\ RecordEvent(k, sev, time, "own")
  /\ hit' = Nobody
  /\ UNCHANGED <<time, mutes, verdict, pending>>

\* feed() on a probe path: answered, or not, by the host.
ProbeSeverity(ip, answered) ==
  CASE ip \in Trusted -> "info"
    [] ip \notin Trusted /\ ~answered -> "medium"
    [] ip \notin Trusted /\ answered ->
         CASE verdict = "spa" -> "low"
           [] verdict = "real" -> "high"
           [] OTHER -> "medium"

DetectProbe(ip, answered) ==
  /\ RecordEvent(<<ip, Probe>>, ProbeSeverity(ip, answered), time, "own")
  /\ pending' = (pending \/ (answered /\ verdict = "unknown" /\ ip \notin Trusted))
  /\ hit' = IF answered /\ verdict = "real" THEN ip ELSE Nobody
  /\ UNCHANGED <<time, mutes, verdict>>

\* catchall_task: the check of the host may also fail to say anything.
Classify(v) ==
  /\ pending
  /\ pending' = FALSE
  /\ verdict' = v
  /\ hit' = Nobody
  /\ UNCHANGED <<time, quietUntil, gate, mutes, queue, newestEvent, bans, own, alerted>>

\* /api/ingest and /api/cluster/event: an event with the time of its sender.
Receive(k, sev, t, origin) ==
  /\ t <= time
  /\ RecordEvent(k, sev, t, origin)
  /\ hit' = Nobody
  /\ UNCHANGED <<time, mutes, verdict, pending>>

\* A variant that forgets what is not yet over.
PruneLive ==
  /\ quietUntil' = [k \in EventKey |-> IF quietUntil[k] >= time THEN 0 ELSE quietUntil[k]]
  /\ gate' = [k \in EventKey |-> IF gate[k] < time THEN 0 ELSE gate[k]]
  /\ hit' = Nobody
  /\ UNCHANGED <<time, mutes, verdict, pending, queue, newestEvent, bans, own, alerted>>

\* _prune_idle() at a flush.
Prune ==
  /\ quietUntil' = [k \in EventKey |-> IF quietUntil[k] < time THEN 0 ELSE quietUntil[k]]
  /\ gate' = [k \in EventKey |-> IF gate[k] < time THEN 0 ELSE gate[k]]
  /\ hit' = Nobody
  /\ UNCHANGED <<time, mutes, verdict, pending, queue, newestEvent, bans, own, alerted>>

-----------------------------------------------------------------------------
(* The alert task, the operator, the world *)

Dispatch ==
  /\ queue # << >>
  /\ queue' = Tail(queue)
  /\ hit' = Nobody
  /\ UNCHANGED <<time, quietUntil, gate, mutes, verdict, pending, newestEvent, bans,
                 own, alerted>>

Mute(k, on) ==
  /\ mutes' = IF on THEN mutes \cup {k} ELSE mutes \ {k}
  /\ hit' = Nobody
  /\ UNCHANGED <<time, quietUntil, gate, verdict, pending, queue, newestEvent, bans,
                 own, alerted>>

TimePasses ==
  /\ time < MaxEventTime
  /\ time' = time + 1
  /\ hit' = Nobody
  /\ UNCHANGED <<quietUntil, gate, mutes, verdict, pending, queue, newestEvent, bans,
                 own, alerted>>

\* Only the database and the mutes survive.
EngineRestarts ==
  /\ quietUntil' = [k \in EventKey |-> 0]
  /\ gate' = [k \in EventKey |-> 0]
  /\ verdict' = "unknown" /\ pending' = FALSE
  /\ queue' = << >>
  /\ own' = [k \in EventKey |-> 0] /\ alerted' = [k \in EventKey |-> 0]
  /\ hit' = Nobody
  /\ UNCHANGED <<time, mutes, newestEvent, bans>>

ResponseNext ==
  \/ \E k \in EventKey, sev \in {"medium", "high"} : Detect(k, sev)
  \/ \E ip \in IP, answered \in BOOLEAN : DetectProbe(ip, answered)
  \/ \E v \in {"spa", "real", "unknown"} : Classify(v)
  \/ \E k \in EventKey, t \in 1 .. MaxEventTime, origin \in {"agent", "peer"} :
       Receive(k, "high", t, origin)
  \/ Prune \/ Dispatch \/ TimePasses \/ EngineRestarts
  \/ \E k \in EventKey, on \in BOOLEAN : Mute(k, on)

ResponseSpec == ResponseInit /\ [][ResponseNext]_responseVars

-----------------------------------------------------------------------------
(* Properties *)

\* The table never shows two own detections of one address by one rule closer
\* than EVENT_SUPPRESS in one life of the process, whatever late events of others
\* and prunings come between them (Engine.suppress, _prune_idle).
NoRepeats ==
  [][\A k \in EventKey :
       own'[k] > own[k] /\ own[k] # 0 => own'[k] - own[k] >= SuppressFor]_responseVars

\* Nor is anyone alerted twice for them within ALERT_COOLDOWN (alert_gate).
AlertsSpaced ==
  [][\A k \in EventKey : alerted'[k] > alerted[k] /\ alerted[k] # 0 =>
       alerted'[k] - alerted[k] >= AlertCooldown]_responseVars

\* However long a prober goes on, a probe that succeeded is in the table, or one
\* of the same address is not older than EVENT_SUPPRESS (_event).
HitsAreRecorded ==
  hit # Nobody =>
    /\ newestEvent[<<hit, Probe>>] # 0
    /\ time - newestEvent[<<hit, Probe>>] < SuppressFor

\* A probe answered by a host known to be a real backend is judged as such: its
\* address is banned (the classification's comment in Engine.feed).
HitsAreBanned ==
  hit \in IP \ (Trusted \cup Private) => <<hit, "own">> \in bans
=============================================================================
