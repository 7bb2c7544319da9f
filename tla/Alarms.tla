------------------------------- MODULE Alarms -------------------------------
(***************************************************************************)
(* The alarms secwatch raises about itself: a silent access log            *)
(* (edge_silence_task), a degraded self-check (healthwatch.py) and the     *)
(* heartbeat to an outside monitor (heartbeat.py).  Both alarms latch:     *)
(* they speak once when the trouble begins and once when it is over,       *)
(* through Engine.emit, whose suppression and alert cooldown they share    *)
(* with every other rule (module Response).  The unit of time is the       *)
(* interval of the self-check, 300 s.                                      *)
(***************************************************************************)
EXTENDS Integers

CONSTANTS
  SilenceLimit,              \* LOG_SILENCE_ALERT_SECS
  AlarmSuppress,             \* EVENT_SUPPRESS
  AlarmCooldown,             \* ALERT_COOLDOWN
  MaxAlarmTime, MaxRefusals  \* bounds: the clock, refused INSERTs

ASSUME AlarmsAssumption ==
  /\ SilenceLimit \in Nat \ {0}
  /\ AlarmSuppress \in Nat \ {0} /\ AlarmSuppress <= 2
  /\ AlarmCooldown \in Nat /\ AlarmSuppress <= AlarmCooldown
  /\ MaxAlarmTime \in Nat /\ MaxRefusals \in Nat

HighAlarm == {"edge_silent", "health_degraded"}
Alarm == HighAlarm \cup {"edge_recovered", "health_recovered"}

VARIABLES
  alarmClock,
  lastLine,      \* last_log_line_ts
  silenceTask,   \* edge_silence_task runs (nothing restarts it)
  latched,       \* its local "alerted"
  silentAt,      \* when it was set (a history variable)
  broken,        \* some check fails at the moment: disk, KEV feed, bans directory
  checkedAt,     \* the last self-check of this life, or -1
  degraded,      \* _degraded
  since,         \* when the check that set it ran (a history variable)
  status,        \* STATE["status"], which the heartbeat reads
  ping,          \* what the monitor heard last
  suppressed, withheld,   \* suppress and alert_gate of the alarms' rules
  recorded, notified,     \* when each was last stored, sent (history variables)
  refused,       \* the INSERT of the present outage's event failed
  refusals

silenceVars == <<lastLine, silenceTask, latched, silentAt>>
healthVars == <<checkedAt, degraded, since, status, refused>>
emitVars == <<suppressed, withheld, recorded, notified, refusals>>
alarmVars == <<alarmClock, silenceVars, broken, healthVars, ping, emitVars>>

Moment == -1 .. MaxAlarmTime

AlarmTypeOK ==
  /\ alarmClock \in 0 .. MaxAlarmTime /\ lastLine \in 0 .. MaxAlarmTime
  /\ {silenceTask, latched, broken, degraded, refused} \subseteq BOOLEAN
  /\ {checkedAt, since, silentAt} \subseteq Moment
  /\ status \in {"starting", "ok", "degraded"} /\ ping \in {"none", "up", "down"}
  /\ {suppressed, withheld} \subseteq [Alarm -> Nat]
  /\ {recorded, notified} \subseteq [Alarm -> Moment]
  /\ refusals \in 0 .. MaxRefusals

Fresh ==
  /\ silenceTask' = TRUE /\ latched' = FALSE /\ silentAt' = -1
  /\ checkedAt' = -1 /\ degraded' = FALSE /\ since' = -1 /\ refused' = FALSE
  /\ status' = "starting"
  /\ suppressed' = [r \in Alarm |-> 0] /\ withheld' = [r \in Alarm |-> 0]

AlarmInit ==
  /\ alarmClock = 0 /\ lastLine = 0
  /\ silenceTask = TRUE /\ latched = FALSE /\ silentAt = -1
  /\ broken = FALSE
  /\ checkedAt = -1 /\ degraded = FALSE /\ since = -1 /\ refused = FALSE
  /\ status = "starting" /\ ping = "none"
  /\ suppressed = [r \in Alarm |-> 0] /\ withheld = [r \in Alarm |-> 0]
  /\ recorded = [r \in Alarm |-> -1] /\ notified = [r \in Alarm |-> -1]
  /\ refusals = 0

-----------------------------------------------------------------------------
(* Engine.emit for an alarm *)

\* A variant that is strict at the end of the suppression.
SuppressedStill(r) == suppressed[r] >= alarmClock /\ suppressed[r] # 0

Suppressed(r) == suppressed[r] > alarmClock

Put(f, r, x) == [f EXCEPT ![r] = x]

\* What is remembered before the INSERT, which may be refused ("database is
\* locked", a full disk): the call then raises, and nothing is stored or sent.
Emit(r, inserted) ==
  IF Suppressed(r)
  THEN inserted /\ UNCHANGED emitVars
  ELSE LET alert == r \in HighAlarm /\ withheld[r] <= alarmClock
       IN /\ suppressed' = Put(suppressed, r, alarmClock + AlarmSuppress)
          /\ withheld' = IF alert THEN Put(withheld, r, alarmClock + AlarmCooldown) ELSE withheld
          /\ recorded' = IF inserted THEN Put(recorded, r, alarmClock) ELSE recorded
          /\ notified' = IF inserted /\ alert THEN Put(notified, r, alarmClock) ELSE notified
          /\ IF inserted THEN UNCHANGED refusals
             ELSE refusals < MaxRefusals /\ refusals' = refusals + 1

Quiet == UNCHANGED emitVars

-----------------------------------------------------------------------------
(* edge_silence_task *)

Silent == alarmClock - lastLine >= SilenceLimit

\* The loop has no try: an emit that raises is the end of the task.
WatchSilence(inserted) ==
  /\ silenceTask
  /\ CASE Silent /\ ~latched -> Emit("edge_silent", inserted) /\ latched' = inserted
       [] ~Silent /\ latched -> Emit("edge_recovered", inserted) /\ latched' = ~inserted
       [] OTHER -> inserted /\ Quiet /\ UNCHANGED latched
  /\ silentAt' = IF latched' /\ ~latched THEN alarmClock ELSE silentAt
  /\ silenceTask' = inserted
  /\ UNCHANGED <<alarmClock, lastLine, broken, healthVars, ping>>

-----------------------------------------------------------------------------
(* HealthWatcher.check, Heartbeat *)

\* The state is published and the flag set before the event is emitted; run()
\* logs what emit raises and goes on.
SelfCheck(inserted) ==
  /\ alarmClock > checkedAt
  /\ checkedAt' = alarmClock
  /\ status' = IF broken THEN "degraded" ELSE "ok"
  /\ degraded' = broken
  /\ IF broken # degraded
     THEN /\ Emit(IF broken THEN "health_degraded" ELSE "health_recovered", inserted)
          /\ since' = IF broken THEN alarmClock ELSE since
          /\ refused' = (broken /\ ~inserted)
     ELSE inserted /\ Quiet /\ UNCHANGED <<since, refused>>
  /\ UNCHANGED <<alarmClock, silenceVars, broken, ping>>

\* send_once, on a thread; a ping may not get through.
Beat(heard) ==
  /\ ping' = CASE ~heard -> ping [] heard /\ status = "degraded" -> "down" [] OTHER -> "up"
  /\ UNCHANGED <<alarmClock, silenceVars, broken, healthVars, emitVars>>

-----------------------------------------------------------------------------
(* The world *)

LogLine ==
  /\ lastLine' = alarmClock
  /\ UNCHANGED <<alarmClock, silenceTask, latched, silentAt, broken, healthVars, ping, emitVars>>

Breaks ==
  /\ broken' = ~broken
  /\ UNCHANGED <<alarmClock, silenceVars, healthVars, ping, emitVars>>

\* _prune_idle at a flush.
AlarmPrune ==
  LET pruned(f) == [r \in Alarm |-> IF f[r] < alarmClock THEN 0 ELSE f[r]]
  IN /\ suppressed' = pruned(suppressed) /\ withheld' = pruned(withheld)
     /\ UNCHANGED <<alarmClock, silenceVars, broken, healthVars, ping, recorded, notified,
                    refusals>>

AlarmTick ==
  /\ alarmClock < MaxAlarmTime
  /\ alarmClock' = alarmClock + 1
  /\ UNCHANGED <<silenceVars, broken, healthVars, ping, emitVars>>

\* The silence counts from the start; latches and gates are gone.
AlarmRestart ==
  /\ Fresh
  /\ lastLine' = alarmClock
  /\ UNCHANGED <<alarmClock, broken, ping, recorded, notified, refusals>>

AlarmNext ==
  \/ \E inserted \in BOOLEAN : WatchSilence(inserted) \/ SelfCheck(inserted)
  \/ \E heard \in BOOLEAN : Beat(heard)
  \/ LogLine \/ Breaks \/ AlarmPrune \/ AlarmTick \/ AlarmRestart

AlarmSpec == AlarmInit /\ [][AlarmNext]_alarmVars

-----------------------------------------------------------------------------
(* Properties *)

\* An outage that a self-check found has its event, however soon after the last
\* one it began, unless the table refused it (healthwatch.py's "alerts on
\* degradation"; the suppression runs out just when a second outage can be found).
OutageIsRecorded ==
  degraded => recorded["health_degraded"] >= since \/ refused

\* While edge_silence_task holds its latch, the operator was notified of the
\* silence ("Alert if the Traefik access log stops advancing", web.py:199).
SilenceIsNotified ==
  latched => notified["edge_silent"] >= silentAt
=============================================================================
