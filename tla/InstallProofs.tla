--------------------------- MODULE InstallProofs ----------------------------
(***************************************************************************)
(* What an installation promises beyond its hosts, for every value of the  *)
(* constants: the alarms of its self-check, its log sources and the bans   *)
(* it takes from the community list.                                       *)
(***************************************************************************)
EXTENDS Alarms, Sources, Community, FiniteSetTheorems, TLAPS

-----------------------------------------------------------------------------
(***************************************************************************)
(* What Alarms promises for any thresholds, any cooldown and any number of *)
(* refused writes, if the suppression is at most two intervals of the      *)
(* self-check (AlarmsAssumption; 600 s and 300 s in the code).             *)
(***************************************************************************)

Down == "health_degraded"

\* An outage ends at a later self-check than the one that found it.
OutagesTakeTime ==
  /\ checkedAt <= alarmClock /\ since <= checkedAt
  /\ ~degraded /\ since # -1 => since < checkedAt

\* The suppression of the outage's event began with the last outage.
SuppressionIsOld ==
  suppressed[Down] # 0 => since # -1 /\ suppressed[Down] <= since + AlarmSuppress

AlarmInv == AlarmTypeOK /\ OutagesTakeTime /\ SuppressionIsOld /\ OutageIsRecorded

LEMMA DownIsAlarm == Down \in Alarm
BY DEF Down, Alarm, HighAlarm

\* What an emit of any alarm does to the variables of the engine.
LEMMA EmitTyped ==
  ASSUME AlarmTypeOK, NEW r \in Alarm, NEW inserted \in BOOLEAN, Emit(r, inserted)
  PROVE  /\ {suppressed', withheld'} \subseteq [Alarm -> Nat]
         /\ {recorded', notified'} \subseteq [Alarm -> Moment]
         /\ refusals' \in 0 .. MaxRefusals
<1> USE AlarmsAssumption DEF AlarmTypeOK, Moment
<1>1. CASE Suppressed(r)
  BY <1>1 DEF Emit, emitVars
<1>2. CASE ~Suppressed(r)
  BY <1>2 DEF Emit, Put
<1> QED
  BY <1>1, <1>2

\* An emit of another alarm leaves the outage's suppression and record alone.
LEMMA EmitApart ==
  ASSUME AlarmTypeOK, NEW r \in Alarm \ {Down}, NEW inserted \in BOOLEAN, Emit(r, inserted)
  PROVE  suppressed'[Down] = suppressed[Down] /\ recorded'[Down] = recorded[Down]
<1> USE DownIsAlarm DEF AlarmTypeOK
<1>1. CASE Suppressed(r)
  BY <1>1 DEF Emit, emitVars
<1>2. CASE ~Suppressed(r)
  BY <1>2 DEF Emit, Put
<1> QED
  BY <1>1, <1>2

-----------------------------------------------------------------------------

LEMMA AlarmInvInit == AlarmInit => AlarmInv
<1> SUFFICES ASSUME AlarmInit PROVE AlarmInv
  OBVIOUS
<1> USE AlarmsAssumption, DownIsAlarm DEF AlarmInit, Moment
<1>1. {silenceTask, latched, broken, degraded, refused} \subseteq BOOLEAN
  OBVIOUS
<1>2. AlarmTypeOK
  BY <1>1 DEF AlarmTypeOK
<1>3. OutagesTakeTime /\ OutageIsRecorded
  BY DEF OutagesTakeTime, OutageIsRecorded
<1>4. SuppressionIsOld
  BY DEF SuppressionIsOld
<1> QED
  BY <1>2, <1>3, <1>4 DEF AlarmInv

\* The self-check: an outage it finds is not suppressed, since the one before, of
\* which the suppression would be, was found two checks ago or more.
LEMMA SelfCheckKeeps ==
  ASSUME AlarmInv, NEW inserted \in BOOLEAN, SelfCheck(inserted)
  PROVE  AlarmInv'
<1> USE AlarmsAssumption, DownIsAlarm DEF AlarmInv, AlarmTypeOK, Moment
<1>1. /\ checkedAt < alarmClock /\ checkedAt' = alarmClock
      /\ status' \in {"starting", "ok", "degraded"} /\ degraded' = broken
      /\ UNCHANGED <<alarmClock, lastLine, silenceTask, latched, silentAt, broken, ping>>
  BY DEF SelfCheck, silenceVars
<1>2. CASE broken /\ ~degraded
  <2>1. Emit(Down, inserted) /\ since' = alarmClock /\ refused' = ~inserted
    BY <1>2 DEF SelfCheck, Down
  <2>2. ~Suppressed(Down)
    BY <1>1, <1>2 DEF Suppressed, OutagesTakeTime, SuppressionIsOld
  <2>3. /\ suppressed'[Down] = alarmClock + AlarmSuppress
        /\ inserted => recorded'[Down] = alarmClock
    BY <2>1, <2>2 DEF Emit, Put
  <2>4. AlarmTypeOK'
    BY <1>1, <2>1, EmitTyped
  <2>5. OutagesTakeTime'
    BY <1>1, <1>2, <2>1 DEF OutagesTakeTime
  <2>6. SuppressionIsOld'
    BY <1>1, <2>1, <2>3 DEF SuppressionIsOld
  <2>7. OutageIsRecorded'
    <3>1. CASE inserted
      BY <1>1, <2>1, <2>3, <3>1 DEF OutageIsRecorded, Down
    <3>2. CASE ~inserted
      BY <2>1, <3>2 DEF OutageIsRecorded
    <3> QED
      BY <3>1, <3>2
  <2> QED
    BY <2>4, <2>5, <2>6, <2>7
<1>3. CASE ~broken /\ degraded
  <2>1. Emit("health_recovered", inserted) /\ since' = since /\ refused' = FALSE
    BY <1>3 DEF SelfCheck
  <2>2. "health_recovered" \in Alarm \ {Down}
    BY DEF Alarm, Down
  <2>3. suppressed'[Down] = suppressed[Down]
    BY <2>1, <2>2, EmitApart
  <2>4. AlarmTypeOK'
    <3>1. /\ {suppressed', withheld'} \subseteq [Alarm -> Nat]
          /\ {recorded', notified'} \subseteq [Alarm -> Moment]
          /\ refusals' \in 0 .. MaxRefusals
      BY <2>1, <2>2, EmitTyped
    <3>2. {silenceTask', latched', broken', degraded', refused'} \subseteq BOOLEAN
      BY <1>1, <2>1
    <3> QED
      BY <1>1, <2>1, <3>1, <3>2
  <2>5. OutagesTakeTime'
    BY <1>1, <1>3, <2>1 DEF OutagesTakeTime
  <2>6. SuppressionIsOld'
    BY <2>1, <2>3 DEF SuppressionIsOld
  <2>7. OutageIsRecorded'
    BY <1>1, <1>3 DEF OutageIsRecorded
  <2> QED
    BY <2>4, <2>5, <2>6, <2>7
<1>4. CASE broken = degraded
  <2>1. UNCHANGED <<since, refused, suppressed, withheld, recorded, notified, refusals>>
    BY <1>4 DEF SelfCheck, Quiet, emitVars
  <2>2. AlarmTypeOK'
    BY <1>1, <2>1
  <2>3. OutagesTakeTime'
    BY <1>1, <1>4, <2>1 DEF OutagesTakeTime
  <2>4. SuppressionIsOld' /\ OutageIsRecorded'
    BY <1>1, <1>4, <2>1 DEF SuppressionIsOld, OutageIsRecorded
  <2> QED
    BY <2>2, <2>3, <2>4
<1> QED
  BY <1>2, <1>3, <1>4

\* The silence task shares the engine, and nothing else, with the self-check.
LEMMA WatchSilenceKeeps ==
  ASSUME AlarmInv, NEW inserted \in BOOLEAN, WatchSilence(inserted)
  PROVE  AlarmInv'
<1> USE AlarmsAssumption, DownIsAlarm DEF AlarmInv, AlarmTypeOK, Moment
<1>1. /\ UNCHANGED <<alarmClock, lastLine, broken, checkedAt, degraded, since, status,
                     refused, ping>>
      /\ silenceTask' \in BOOLEAN
  BY DEF WatchSilence, healthVars
<1>2. /\ latched' \in BOOLEAN
      /\ \/ \E r \in {"edge_silent", "edge_recovered"} : Emit(r, inserted)
         \/ UNCHANGED emitVars
  <2>1. CASE Silent /\ ~latched
    BY <2>1 DEF WatchSilence
  <2>2. CASE ~Silent /\ latched
    BY <2>2 DEF WatchSilence
  <2>3. CASE ~(Silent /\ ~latched) /\ ~(~Silent /\ latched)
    BY <2>3 DEF WatchSilence, Quiet
  <2> QED
    BY <2>1, <2>2, <2>3
<1>3. /\ suppressed'[Down] = suppressed[Down] /\ recorded'[Down] = recorded[Down]
      /\ {suppressed', withheld'} \subseteq [Alarm -> Nat]
      /\ {recorded', notified'} \subseteq [Alarm -> Moment]
      /\ refusals' \in 0 .. MaxRefusals
  <2>1. {"edge_silent", "edge_recovered"} \subseteq Alarm \ {Down}
    BY DEF Alarm, HighAlarm, Down
  <2>2. CASE UNCHANGED emitVars
    BY <2>2 DEF emitVars
  <2>3. ASSUME NEW r \in {"edge_silent", "edge_recovered"}, Emit(r, inserted)
        PROVE  <1>3
    BY <2>1, <2>3, EmitTyped, EmitApart
  <2> QED
    BY <1>2, <2>2, <2>3
<1>4. silentAt' \in Moment
  BY DEF WatchSilence
<1>5. AlarmTypeOK'
  BY <1>1, <1>2, <1>3, <1>4
<1>6. OutagesTakeTime' /\ SuppressionIsOld' /\ OutageIsRecorded'
  BY <1>1, <1>3 DEF OutagesTakeTime, SuppressionIsOld, OutageIsRecorded, Down
<1> QED
  BY <1>5, <1>6

LEMMA AlarmInvNext == AlarmInv /\ [AlarmNext]_alarmVars => AlarmInv'
<1> SUFFICES ASSUME AlarmInv, [AlarmNext]_alarmVars PROVE AlarmInv'
  OBVIOUS
<1> USE AlarmsAssumption, DownIsAlarm
    DEF AlarmInv, AlarmTypeOK, Moment, OutagesTakeTime, SuppressionIsOld, OutageIsRecorded,
        silenceVars, healthVars, emitVars
<1>1. ASSUME NEW inserted \in BOOLEAN, WatchSilence(inserted) PROVE AlarmInv'
  BY <1>1, WatchSilenceKeeps
<1>2. ASSUME NEW inserted \in BOOLEAN, SelfCheck(inserted) PROVE AlarmInv'
  BY <1>2, SelfCheckKeeps
<1>3. ASSUME NEW heard \in BOOLEAN, Beat(heard) PROVE AlarmInv'
  BY <1>3 DEF Beat
<1>4. CASE LogLine
  BY <1>4 DEF LogLine
<1>5. CASE Breaks
  BY <1>5 DEF Breaks
<1>6. CASE AlarmPrune
  BY <1>6 DEF AlarmPrune
<1>7. CASE AlarmTick
  BY <1>7 DEF AlarmTick
<1>8. CASE AlarmRestart
  <2>1. {silenceTask', latched', broken', degraded', refused'} \subseteq BOOLEAN
    BY <1>8 DEF AlarmRestart, Fresh
  <2>2. AlarmTypeOK'
    BY <1>8, <2>1 DEF AlarmRestart, Fresh
  <2>3. OutagesTakeTime' /\ SuppressionIsOld' /\ OutageIsRecorded'
    BY <1>8 DEF AlarmRestart, Fresh
  <2> QED
    BY <2>2, <2>3
<1>9. CASE UNCHANGED alarmVars
  BY <1>9 DEF alarmVars
<1> QED
  BY <1>1, <1>2, <1>3, <1>4, <1>5, <1>6, <1>7, <1>8, <1>9 DEF AlarmNext

\* The variables of the three tasks and of the engine keep their types.
THEOREM AlarmsTypeCorrect == AlarmSpec => []AlarmTypeOK
<1>1. AlarmInv => AlarmTypeOK
  BY DEF AlarmInv
<1> QED
  BY <1>1, AlarmInvInit, AlarmInvNext, PTL DEF AlarmSpec

\* However checks, restarts, prunings and refused writes follow each other, an
\* outage that lasts is in the table, unless the table refused it (HealthWatcher.check,
\* Engine._event).
THEOREM OutagesAreRecorded == AlarmSpec => []OutageIsRecorded
<1>1. AlarmInv => OutageIsRecorded
  BY DEF AlarmInv
<1> QED
  BY <1>1, AlarmInvInit, AlarmInvNext, PTL DEF AlarmSpec

-----------------------------------------------------------------------------

(* The silence task speaks again only when the log came back in between and was *)
(* then silent for the whole limit: what its last event shut has opened by then *)
(* if the cooldown is no longer than the limit.                                 *)

SilentRule == "edge_silent"

\* What the task last had to do with: the silence, or the line that ended it.
Turn == IF latched THEN silentAt ELSE lastLine

SilencesAreApart ==
  /\ lastLine <= alarmClock /\ silentAt <= alarmClock
  /\ silenceTask => /\ suppressed[SilentRule] <= Turn + AlarmSuppress
                    /\ withheld[SilentRule] <= Turn + AlarmCooldown
  /\ latched => silentAt <= lastLine \/ lastLine + SilenceLimit <= silentAt

LEMMA SilentIsAlarm == SilentRule \in HighAlarm /\ SilentRule \in Alarm /\ Down # SilentRule
BY DEF SilentRule, Alarm, HighAlarm, Down

\* An emit of another alarm leaves this rule alone.
LEMMA EmitBeside ==
  ASSUME AlarmTypeOK, NEW r \in Alarm \ {SilentRule}, NEW inserted \in BOOLEAN, Emit(r, inserted)
  PROVE  /\ suppressed'[SilentRule] = suppressed[SilentRule]
         /\ withheld'[SilentRule] = withheld[SilentRule]
         /\ notified'[SilentRule] = notified[SilentRule]
<1> USE SilentIsAlarm DEF AlarmTypeOK
<1>1. CASE Suppressed(r)
  BY <1>1 DEF Emit, emitVars
<1>2. CASE ~Suppressed(r)
  BY <1>2 DEF Emit, Put
<1> QED
  BY <1>1, <1>2

SilenceInv == AlarmTypeOK /\ SilencesAreApart /\ SilenceIsNotified

LEMMA SilenceInit == AlarmInit => SilenceInv
<1> SUFFICES ASSUME AlarmInit PROVE SilenceInv
  OBVIOUS
<1>1. AlarmTypeOK
  BY AlarmInvInit DEF AlarmInv
<1>2. SilencesAreApart /\ SilenceIsNotified
  BY SilentIsAlarm, AlarmsAssumption DEF AlarmInit, SilencesAreApart, SilenceIsNotified, Turn
<1> QED
  BY <1>1, <1>2 DEF SilenceInv

LEMMA WatchKeepsSilence ==
  ASSUME AlarmCooldown <= SilenceLimit, SilenceInv,
         NEW inserted \in BOOLEAN, WatchSilence(inserted)
  PROVE  SilencesAreApart' /\ SilenceIsNotified'
<1> USE SilentIsAlarm, AlarmsAssumption
<1>1. /\ alarmClock \in Nat /\ lastLine \in Nat /\ silentAt \in Int
      /\ suppressed \in [Alarm -> Nat] /\ withheld \in [Alarm -> Nat]
      /\ notified \in [Alarm -> Int]
      /\ alarmClock' = alarmClock /\ lastLine' = lastLine /\ SilencesAreApart /\ silenceTask
  BY DEF SilenceInv, AlarmTypeOK, Moment, WatchSilence
<1>2. CASE Silent /\ ~latched
  <2>1. /\ Emit(SilentRule, inserted) /\ latched' = inserted /\ silenceTask' = inserted
        /\ silentAt' = IF inserted THEN alarmClock ELSE silentAt
    BY <1>2 DEF WatchSilence, SilentRule
  <2>2. ~Suppressed(SilentRule) /\ withheld[SilentRule] <= alarmClock
    BY <1>1, <1>2 DEF SilencesAreApart, Turn, Silent, Suppressed
  <2>3. /\ suppressed'[SilentRule] = alarmClock + AlarmSuppress
        /\ withheld'[SilentRule] = alarmClock + AlarmCooldown
        /\ inserted => notified'[SilentRule] = alarmClock
    BY <1>1, <2>1, <2>2 DEF Emit, Put
  <2>4. SilencesAreApart'
    BY <1>1, <1>2, <2>1, <2>3 DEF SilencesAreApart, Turn, Silent
  <2>5. SilenceIsNotified'
    BY <1>1, <2>1, <2>3 DEF SilenceIsNotified, SilentRule
  <2> QED
    BY <2>4, <2>5
<1>3. CASE ~Silent /\ latched
  <2>1. /\ Emit("edge_recovered", inserted) /\ latched' = ~inserted /\ silenceTask' = inserted
        /\ silentAt' = silentAt
    BY <1>3 DEF WatchSilence
  <2>2. "edge_recovered" \in Alarm \ {SilentRule}
    BY DEF Alarm, SilentRule
  <2>3. AlarmTypeOK
    BY DEF SilenceInv
  <2>4. /\ suppressed'[SilentRule] = suppressed[SilentRule]
        /\ withheld'[SilentRule] = withheld[SilentRule]
        /\ notified'[SilentRule] = notified[SilentRule]
    BY <2>1, <2>2, <2>3, EmitBeside
  <2>5. silentAt <= lastLine
    BY <1>1, <1>3 DEF SilencesAreApart, Silent
  <2>6. SilencesAreApart'
    BY <1>1, <1>3, <2>1, <2>4, <2>5 DEF SilencesAreApart, Turn
  <2>7. SilenceIsNotified'
    BY <1>1, <1>3, <2>1, <2>4 DEF SilenceInv, SilenceIsNotified, SilentRule
  <2> QED
    BY <2>6, <2>7
<1>4. CASE ~(Silent /\ ~latched) /\ ~(~Silent /\ latched)
  <2>1. UNCHANGED <<suppressed, withheld, notified, latched, silentAt, lastLine, alarmClock>>
    BY <1>1, <1>4 DEF WatchSilence, Quiet, emitVars
  <2>2. SilencesAreApart'
    BY <1>1, <2>1 DEF SilencesAreApart, Turn
  <2> QED
    BY <2>1, <2>2 DEF SilenceInv, SilenceIsNotified
<1> QED
  BY <1>2, <1>3, <1>4

\* A step that does not touch what the task and the engine know of the rule.
LEMMA SilenceUntouched ==
  ASSUME SilenceInv,
         UNCHANGED <<latched, silentAt, silenceTask>>,
         notified'[SilentRule] = notified[SilentRule],
         suppressed'[SilentRule] \in {0, suppressed[SilentRule]},
         withheld'[SilentRule] \in {0, withheld[SilentRule]},
         alarmClock' \in {alarmClock, alarmClock + 1}, lastLine' \in {lastLine, alarmClock}
  PROVE  SilencesAreApart' /\ SilenceIsNotified'
<1> USE SilentIsAlarm, AlarmsAssumption
<1>1. /\ alarmClock \in Nat /\ lastLine \in Nat /\ silentAt \in Int /\ silentAt >= -1
      /\ suppressed \in [Alarm -> Nat] /\ withheld \in [Alarm -> Nat]
      /\ SilencesAreApart /\ SilenceIsNotified
  BY DEF SilenceInv, AlarmTypeOK, Moment
<1>2. suppressed[SilentRule] \in Nat /\ withheld[SilentRule] \in Nat
  BY <1>1
<1>3. lastLine <= alarmClock /\ silentAt <= alarmClock /\ lastLine' <= alarmClock'
      /\ lastLine <= lastLine' /\ alarmClock' \in Nat /\ lastLine' \in Nat
  BY <1>1 DEF SilencesAreApart
<1>4. SilenceIsNotified'
  BY <1>1 DEF SilenceIsNotified, SilentRule
<1>5. (latched' <=> latched) /\ (silenceTask' <=> silenceTask) /\ silentAt' = silentAt
  OBVIOUS
<1>6. silentAt' <= alarmClock'
  BY <1>1, <1>3
<1>7. CASE latched
  <2>1. silentAt <= lastLine' \/ lastLine' + SilenceLimit <= silentAt
    BY <1>1, <1>3, <1>7 DEF SilencesAreApart
  <2>2. silenceTask => /\ suppressed'[SilentRule] <= silentAt + AlarmSuppress
                       /\ withheld'[SilentRule] <= silentAt + AlarmCooldown
    BY <1>1, <1>2, <1>7 DEF SilencesAreApart, Turn
  <2>3. Turn' = silentAt
    BY <1>7, <1>5 DEF Turn
  <2> QED
    BY <1>3, <1>4, <1>5, <1>6, <2>1, <2>2, <2>3 DEF SilencesAreApart
<1>8. CASE ~latched
  <2>1. silenceTask => /\ suppressed'[SilentRule] <= lastLine' + AlarmSuppress
                       /\ withheld'[SilentRule] <= lastLine' + AlarmCooldown
    BY <1>1, <1>2, <1>3, <1>8 DEF SilencesAreApart, Turn
  <2>2. Turn' = lastLine'
    BY <1>8, <1>5 DEF Turn
  <2> QED
    BY <1>3, <1>4, <1>8, <1>5, <1>6, <2>1, <2>2 DEF SilencesAreApart
<1> QED
  BY <1>7, <1>8

\* The same for a step that leaves the engine alone.
LEMMA SilenceQuiet ==
  ASSUME SilenceInv, UNCHANGED <<latched, silentAt, silenceTask>>, UNCHANGED emitVars,
         alarmClock' \in {alarmClock, alarmClock + 1}, lastLine' \in {lastLine, alarmClock}
  PROVE  SilencesAreApart' /\ SilenceIsNotified'
<1>1. UNCHANGED <<notified, suppressed, withheld>>
  BY DEF emitVars
<1>2. /\ notified'[SilentRule] = notified[SilentRule]
      /\ suppressed'[SilentRule] \in {0, suppressed[SilentRule]}
      /\ withheld'[SilentRule] \in {0, withheld[SilentRule]}
  BY <1>1
<1> QED
  BY <1>2, SilenceUntouched

LEMMA SilenceNext ==
  ASSUME AlarmCooldown <= SilenceLimit, SilenceInv, AlarmTypeOK', [AlarmNext]_alarmVars
  PROVE  SilenceInv'
<1> USE SilentIsAlarm, AlarmsAssumption
<1>1. /\ alarmClock \in Nat /\ lastLine \in Nat /\ silentAt \in Int
      /\ suppressed \in [Alarm -> Nat] /\ withheld \in [Alarm -> Nat]
      /\ notified \in [Alarm -> Int]
      /\ SilencesAreApart /\ SilenceIsNotified /\ AlarmTypeOK
  BY DEF SilenceInv, AlarmTypeOK, Moment
<1> DEFINE Goal == SilencesAreApart' /\ SilenceIsNotified'
<1> SUFFICES Goal
  BY DEF SilenceInv
<1>2. ASSUME NEW inserted \in BOOLEAN, WatchSilence(inserted) PROVE Goal
  BY <1>2, WatchKeepsSilence
<1>3. ASSUME NEW inserted \in BOOLEAN, SelfCheck(inserted) PROVE Goal
  <2>1. UNCHANGED <<latched, silentAt, silenceTask, lastLine, alarmClock>>
    BY <1>3 DEF SelfCheck, silenceVars
  <2>2. {"health_degraded", "health_recovered"} \subseteq Alarm \ {SilentRule}
    BY DEF Alarm, HighAlarm, SilentRule
  <2>3. /\ suppressed'[SilentRule] = suppressed[SilentRule]
        /\ withheld'[SilentRule] = withheld[SilentRule]
        /\ notified'[SilentRule] = notified[SilentRule]
    <3>1. CASE broken # degraded
      BY <1>1, <1>3, <2>2, <3>1, EmitBeside DEF SelfCheck
    <3>2. CASE broken = degraded
      BY <1>3, <3>2 DEF SelfCheck, Quiet, emitVars
    <3> QED
      BY <3>1, <3>2
  <2> QED
    BY <2>1, <2>3, SilenceUntouched
<1>4. ASSUME NEW heard \in BOOLEAN, Beat(heard) PROVE Goal
  <2>1. UNCHANGED <<latched, silentAt, silenceTask>> /\ lastLine' = lastLine
    BY <1>4 DEF Beat, silenceVars
  <2>2. UNCHANGED emitVars /\ alarmClock' = alarmClock
    BY <1>4 DEF Beat
  <2> QED
    BY <2>1, <2>2, SilenceQuiet
<1>5. CASE LogLine
  <2>1. UNCHANGED <<latched, silentAt, silenceTask>> /\ lastLine' = alarmClock
    BY <1>5 DEF LogLine
  <2>2. UNCHANGED emitVars /\ alarmClock' = alarmClock
    BY <1>5 DEF LogLine
  <2> QED
    BY <2>1, <2>2, SilenceQuiet
<1>6. CASE Breaks
  <2>1. UNCHANGED <<latched, silentAt, silenceTask>> /\ lastLine' = lastLine
    BY <1>6 DEF Breaks, silenceVars
  <2>2. UNCHANGED emitVars /\ alarmClock' = alarmClock
    BY <1>6 DEF Breaks
  <2> QED
    BY <2>1, <2>2, SilenceQuiet
<1>7. CASE AlarmPrune
  <2>1. /\ suppressed'[SilentRule] \in {0, suppressed[SilentRule]}
        /\ withheld'[SilentRule] \in {0, withheld[SilentRule]}
    BY <1>7 DEF AlarmPrune
  <2>2. UNCHANGED <<latched, silentAt, silenceTask>> /\ lastLine' = lastLine
    BY <1>7 DEF AlarmPrune, silenceVars
  <2>3. notified'[SilentRule] = notified[SilentRule] /\ alarmClock' = alarmClock
    BY <1>7 DEF AlarmPrune
  <2> QED
    BY <2>1, <2>2, <2>3, SilenceUntouched
<1>8. CASE AlarmTick
  <2>1. UNCHANGED <<latched, silentAt, silenceTask>> /\ lastLine' = lastLine
    BY <1>8 DEF AlarmTick, silenceVars
  <2>2. UNCHANGED emitVars /\ alarmClock' = alarmClock + 1
    BY <1>8 DEF AlarmTick
  <2> QED
    BY <2>1, <2>2, SilenceQuiet
<1>9. CASE AlarmRestart
  <2>1. lastLine' = alarmClock /\ alarmClock' = alarmClock /\ latched' = FALSE /\ silentAt' = -1
    BY <1>9 DEF AlarmRestart, Fresh
  <2>2. suppressed'[SilentRule] = 0 /\ withheld'[SilentRule] = 0
    BY <1>9 DEF AlarmRestart, Fresh
  <2>3. SilencesAreApart'
    BY <1>1, <2>1, <2>2 DEF SilencesAreApart, Turn
  <2>4. SilenceIsNotified'
    BY <2>1 DEF SilenceIsNotified
  <2> QED
    BY <2>3, <2>4
<1>10. CASE UNCHANGED alarmVars
  <2>1. UNCHANGED <<latched, silentAt, silenceTask>> /\ lastLine' = lastLine
    BY <1>10 DEF alarmVars, silenceVars
  <2>2. UNCHANGED emitVars /\ alarmClock' = alarmClock
    BY <1>10 DEF alarmVars
  <2> QED
    BY <2>1, <2>2, SilenceQuiet
<1> QED
  BY <1>2, <1>3, <1>4, <1>5, <1>6, <1>7, <1>8, <1>9, <1>10 DEF AlarmNext

\* An installation whose alert cooldown is no longer than the silence it waits for is
\* told of every silence of its log: what the run "alarms" finds needs the longer
\* cooldown (1800 s against 900 s) that is the default (edge_silence_task, _event).
THEOREM ShortCooldownsNotify ==
  ASSUME AlarmCooldown <= SilenceLimit
  PROVE  AlarmSpec => []SilenceIsNotified
<1>1. SilenceInv => SilenceIsNotified
  BY DEF SilenceInv
<1>2. SilenceInv /\ AlarmTypeOK' /\ [AlarmNext]_alarmVars => SilenceInv'
  BY SilenceNext
<1> QED
  BY <1>1, <1>2, SilenceInit, AlarmsTypeCorrect, PTL DEF AlarmSpec

-----------------------------------------------------------------------------
(***************************************************************************)
(* What Sources promises for any paths, any limit of managed sources and   *)
(* any number of tasks that die.                                           *)
(***************************************************************************)

\* Through everything an operator, a disk and a restart do, a source whose adding
\* was confirmed stays in the file of managed sources (Manager.add, Manager.remove):
\* the YAML list, which may change at any time, is not what it rests on.
Confirmed == promised \subseteq store

\* What is running is known, and what is in the file is shown.
TasksAreKnown ==
  /\ \A p \in Path : running[p] \in {0, 1} /\ (running[p] = 1 => p \in sources \cap handle)
  /\ promised \subseteq sources

SourcesInv == SourcesTypeOK /\ IsFiniteSet(store) /\ TasksAreKnown /\ Confirmed

\* The file of managed sources has at most MaxManaged entries, and the others keep
\* their types.
LEMMA StoreBound ==
  ASSUME SourcesTypeOK, IsFiniteSet(store), NEW p \in Path, MayAdd(p)
  PROVE  IsFiniteSet(store \cup {p}) /\ Cardinality(store \cup {p}) <= MaxManaged
<1>1. /\ IsFiniteSet(store \cup {p})
      /\ Cardinality(store \cup {p}) = IF p \in store THEN Cardinality(store)
                                       ELSE Cardinality(store) + 1
  BY FS_AddElement
<1>2. Cardinality(store) \in Nat
  BY FS_CardinalityType
<1> QED
  BY <1>1, <1>2, SourcesAssumption DEF MayAdd

LEMMA StoreShrinks ==
  ASSUME SourcesTypeOK, IsFiniteSet(store), NEW p \in store
  PROVE  IsFiniteSet(store \ {p}) /\ Cardinality(store \ {p}) <= MaxManaged
<1>1. IsFiniteSet(store \ {p}) /\ Cardinality(store \ {p}) = Cardinality(store) - 1
  BY FS_RemoveElement
<1>2. Cardinality(store) \in Nat
  BY FS_CardinalityType
<1> QED
  BY <1>1, <1>2, SourcesAssumption DEF SourcesTypeOK

-----------------------------------------------------------------------------

LEMMA SourcesInvInit == SourcesInit => SourcesInv
<1> SUFFICES ASSUME SourcesInit PROVE SourcesInv
  OBVIOUS
<1>1. IsFiniteSet(store) /\ Cardinality(store) = 0
  BY FS_EmptySet DEF SourcesInit
<1>2. sources \subseteq Path
  BY SourcesAssumption DEF SourcesInit, Listed
<1> QED
  BY <1>1, <1>2, SourcesAssumption
  DEF SourcesInit, SourcesInv, SourcesTypeOK, TasksAreKnown, Confirmed

LEMMA SourcesInvNext == SourcesInv /\ [SourcesNext]_sourceVars => SourcesInv'
<1> SUFFICES ASSUME SourcesInv, [SourcesNext]_sourceVars PROVE SourcesInv'
  OBVIOUS
<1> USE SourcesAssumption DEF SourcesInv, SourcesTypeOK, TasksAreKnown, Confirmed
<1>1. ASSUME NEW p \in Path, NEW saved \in BOOLEAN, AddSource(p, saved) PROVE SourcesInv'
  <2>1. running[p] = 0
    BY <1>1 DEF AddSource, MayAdd
  <2>2. IsFiniteSet(store') /\ Cardinality(store') <= MaxManaged
    BY <1>1, StoreBound DEF AddSource
  <2>3. running' \in [Path -> Nat] /\ running'[p] = 1
    BY <1>1, <2>1 DEF AddSource
  <2>4. \A q \in Path \ {p} : running'[q] = running[q]
    BY <1>1 DEF AddSource
  <2> QED
    BY <1>1, <2>2, <2>3, <2>4 DEF AddSource
<1>2. ASSUME NEW p \in Path, RemoveSource(p) PROVE SourcesInv'
  <2>1. IsFiniteSet(store') /\ Cardinality(store') <= MaxManaged
    BY <1>2, StoreShrinks DEF RemoveSource
  <2>2. running' \in [Path -> Nat] /\ running'[p] = 0
    <3>1. CASE p \in handle
      BY <1>2, <3>1 DEF RemoveSource
    <3>2. CASE p \notin handle
      BY <1>2, <3>2 DEF RemoveSource
    <3> QED
      BY <3>1, <3>2
  <2>3. \A q \in Path \ {p} : running'[q] = running[q]
    BY <1>2 DEF RemoveSource
  <2> QED
    BY <1>2, <2>1, <2>2, <2>3 DEF RemoveSource
<1>3. ASSUME NEW p \in Path, TailDies(p) PROVE SourcesInv'
  <2>1. running' \in [Path -> Nat] /\ running'[p] = 0
    BY <1>3 DEF TailDies
  <2>2. \A q \in Path \ {p} : running'[q] = running[q]
    BY <1>3 DEF TailDies
  <2> QED
    BY <1>3, <2>1, <2>2 DEF TailDies
<1>4. ASSUME NEW p \in Path, FileComesOrGoes(p) PROVE SourcesInv'
  BY <1>4 DEF FileComesOrGoes
<1>5. ASSUME NEW y \in SUBSET Path, EditYaml(y) PROVE SourcesInv'
  BY <1>5 DEF EditYaml
<1>6. CASE SourcesRestart
  <2>1. Listed(yaml, store) \subseteq Path /\ store \subseteq Listed(yaml, store)
    BY DEF Listed
  <2> QED
    BY <1>6, <2>1 DEF SourcesRestart, Begin
<1>7. CASE UNCHANGED sourceVars
  BY <1>7 DEF sourceVars
<1> QED
  BY <1>1, <1>2, <1>3, <1>4, <1>5, <1>6, <1>7 DEF SourcesNext

\* The variables of the manager keep their types, the limit of its file included.
THEOREM SourcesTypeCorrect == SourcesSpec => []SourcesTypeOK
<1>1. SourcesInv => SourcesTypeOK
  BY DEF SourcesInv
<1> QED
  BY <1>1, SourcesInvInit, SourcesInvNext, PTL DEF SourcesSpec

\* No file is ever tailed twice or out of sight, and what was confirmed stays
\* (Manager, _build_log_sources).
THEOREM TailsAreSingle == SourcesSpec => []OneTailPerSource
<1>1. SourcesInv => OneTailPerSource
  BY DEF SourcesInv, SourcesTypeOK, TasksAreKnown, Confirmed, OneTailPerSource, Listed
<1> QED
  BY <1>1, SourcesInvInit, SourcesInvNext, PTL DEF SourcesSpec

-----------------------------------------------------------------------------
(***************************************************************************)
(* What Community promises for any installs, consensus, window and         *)
(* lifetimes.  The inductive invariant follows a ban back to its list, the *)
(* list to the reports and the reports to detections: the step from a list *)
(* to a report is the one that must not exist.                             *)
(***************************************************************************)

\* The installs that, by f, detected the address themselves at t or later, and
\* whether they are enough.
Detected(f, t) == {j \in Install : f[j] # -1 /\ f[j] >= t}
Backed(f, t) == Cardinality(Detected(f, t)) >= Consensus

\* A report is not younger than a detection of its install, and one that waits is
\* of today.
ReportsAreDetections ==
  \A j \in Install : seen[j] <= day /\ reports[j] <= seen[j] /\ (j \in unsent => seen[j] = day)

\* A list that waits to be applied is of today.
ListsAreBacked == \A i \in fetched : Backed(seen, day - ListWindow)

\* A ban from a list was backed when it was applied, and has not run out.
BansAreBacked ==
  \A i \in Install : ban[i].rule = "community" =>
    ban[i].until >= day /\ Backed(seen, ban[i].until - CommunityTtl - ListWindow)

CommunityInv ==
  CommunityTypeOK /\ ReportsAreDetections /\ ListsAreBacked /\ BansAreBacked

\* More installs are not fewer.
LEMMA Larger ==
  ASSUME NEW S \in SUBSET Install, NEW T \in SUBSET Install, S \subseteq T,
         Cardinality(S) >= Consensus
  PROVE  Cardinality(T) >= Consensus
<1>1. IsFiniteSet(T)
  BY FS_Subset, CommunityAssumption
<1>2. IsFiniteSet(S) /\ Cardinality(S) <= Cardinality(T)
  BY <1>1, FS_Subset
<1>3. Cardinality(S) \in Nat /\ Cardinality(T) \in Nat
  BY <1>1, <1>2, FS_CardinalityType
<1> QED
  BY <1>2, <1>3, CommunityAssumption

\* What was detected by t was detected by s before t, and stays detected.
LEMMA BackedStill ==
  ASSUME CommunityInv, NEW s \in Int, NEW t \in Int, s <= t, Backed(seen, t),
         NEW f \in [Install -> Instant],
         \A j \in Install : f[j] = seen[j] \/ f[j] = day
  PROVE  Backed(f, s)
<1>1. Detected(seen, t) \subseteq Detected(f, s)
  BY CommunityAssumption
  DEF Detected, CommunityInv, CommunityTypeOK, ReportsAreDetections, Instant
<1> QED
  BY <1>1, Larger DEF Backed, Detected

-----------------------------------------------------------------------------

LEMMA TypeInit == CommunityInit => CommunityTypeOK
BY CommunityAssumption DEF CommunityInit, CommunityTypeOK, Row, NoRow, Instant

LEMMA TypeNext == CommunityTypeOK /\ [CommunityNext]_communityVars => CommunityTypeOK'
<1> SUFFICES ASSUME CommunityTypeOK, [CommunityNext]_communityVars PROVE CommunityTypeOK'
  OBVIOUS
<1> USE CommunityAssumption DEF CommunityTypeOK, Instant
<1>1. NoRow \in Row
  BY DEF NoRow, Row
<1>2. ASSUME NEW i \in Install, NEW rule \in {"own", "community"}, NEW ttl \in Nat,
             AddBan(i, rule, ttl)
      PROVE  ban' \in [Install -> Row] /\ unsent' \subseteq Install
  <2>1. [until |-> day + ttl, rule |-> rule] \in Row
    BY DEF Row
  <2> QED
    BY <1>2, <2>1 DEF AddBan
<1>3. ASSUME NEW i \in Install, DetectAddress(i) PROVE CommunityTypeOK'
  BY <1>2, <1>3 DEF DetectAddress
<1>4. ASSUME NEW i \in Install, NEW yes \in BOOLEAN, ShipReport(i, yes) PROVE CommunityTypeOK'
  <2>1. reports' \in [Install -> -1 .. MaxCommunityTime]
    BY <1>4 DEF ShipReport, StoreReport
  <2> QED
    BY <1>4, <2>1 DEF ShipReport
<1>5. ASSUME NEW i \in Install, NEW yes \in BOOLEAN, Fetch(i, yes) PROVE CommunityTypeOK'
  <2>1. pulled' \in [Install -> -PullEvery .. MaxCommunityTime]
    BY <1>5 DEF Fetch
  <2>2. fetched' \subseteq Install
    BY <1>5 DEF Fetch
  <2> QED
    BY <1>5, <2>1, <2>2 DEF Fetch
<1>6. ASSUME NEW i \in Install, ApplyList(i) PROVE CommunityTypeOK'
  BY <1>2, <1>6 DEF ApplyList
<1>7. ASSUME NEW i \in Install, UnbanHere(i) PROVE CommunityTypeOK'
  BY <1>1, <1>7 DEF UnbanHere
<1>8. ASSUME NEW i \in Install, InstallRestarts(i) PROVE CommunityTypeOK'
  BY <1>8 DEF InstallRestarts
<1>9. CASE NextDay
  BY <1>1, <1>9 DEF NextDay
<1>10. CASE UNCHANGED communityVars
  BY <1>10 DEF communityVars
<1> QED
  BY <1>3, <1>4, <1>5, <1>6, <1>7, <1>8, <1>9, <1>10 DEF CommunityNext

\* The variables of installs and aggregator keep their types.
THEOREM CommunityTypeCorrect == CommunitySpec => []CommunityTypeOK
BY TypeInit, TypeNext, PTL DEF CommunitySpec

-----------------------------------------------------------------------------

LEMMA CommunityInvInit == CommunityInit => CommunityInv
BY TypeInit, CommunityAssumption
DEF CommunityInit, CommunityInv, ReportsAreDetections, ListsAreBacked, BansAreBacked, NoRow

\* A step that leaves the clock alone, and detects at most now, keeps the backing of
\* the lists and of the bans that were there.
LEMMA BackingKept ==
  ASSUME CommunityInv, CommunityTypeOK', UNCHANGED day,
         \A j \in Install : seen'[j] = seen[j] \/ seen'[j] = day
  PROVE  /\ \A i \in fetched : Backed(seen', day - ListWindow)
         /\ \A i \in Install : ban[i].rule = "community" =>
              Backed(seen', ban[i].until - CommunityTtl - ListWindow)
<1> USE CommunityAssumption
<1>1. seen' \in [Install -> Instant] /\ day \in Int
  BY DEF CommunityTypeOK, CommunityInv
<1>2. \A t \in Int : Backed(seen, t) => Backed(seen', t)
  BY <1>1, BackedStill
<1>3. day - ListWindow \in Int /\ \A i \in Install : ban[i].until \in Int
  BY DEF CommunityInv, CommunityTypeOK, Row
<1> QED
  BY <1>2, <1>3 DEF CommunityInv, ListsAreBacked, BansAreBacked

\* The same for a step that touches neither the bans nor the lists.
LEMMA Untouched ==
  ASSUME CommunityInv, CommunityTypeOK', UNCHANGED <<day, ban, seen>>,
         fetched' \subseteq fetched
  PROVE  ListsAreBacked' /\ BansAreBacked'
BY BackingKept DEF CommunityInv, ListsAreBacked, BansAreBacked

LEMMA CommunityInvNext == CommunityInv /\ [CommunityNext]_communityVars => CommunityInv'
<1> SUFFICES ASSUME CommunityInv, [CommunityNext]_communityVars PROVE CommunityInv'
  OBVIOUS
<1>1. CommunityTypeOK'
  BY TypeNext DEF CommunityInv
<1> USE <1>1, CommunityAssumption DEF CommunityInv
<1>2. ASSUME NEW i \in Install, DetectAddress(i) PROVE CommunityInv'
  <2>1. /\ seen' = [seen EXCEPT ![i] = day] /\ unsent' \subseteq unsent \cup {i}
        /\ ban' = [ban EXCEPT ![i] = [until |-> day + OwnTtl, rule |-> "own"]]
        /\ UNCHANGED <<day, reports, fetched, pulled>>
    BY <1>2 DEF DetectAddress, AddBan
  <2>2. ReportsAreDetections'
    BY <2>1 DEF ReportsAreDetections, CommunityTypeOK, Instant
  <2>3. \A j \in Install : seen'[j] = seen[j] \/ seen'[j] = day
    BY <2>1 DEF CommunityTypeOK
  <2>4. ListsAreBacked'
    BY <2>1, <2>3, BackingKept DEF ListsAreBacked
  <2>5. BansAreBacked'
    BY <2>1, <2>3, BackingKept DEF BansAreBacked, CommunityTypeOK
  <2> QED
    BY <2>2, <2>4, <2>5
<1>3. ASSUME NEW i \in Install, NEW yes \in BOOLEAN, ShipReport(i, yes) PROVE CommunityInv'
  <2>1. ReportsAreDetections'
    <3>1. \A j \in Install : reports'[j] = reports[j] \/ (j \in unsent /\ reports'[j] = day)
      BY <1>3 DEF ShipReport, StoreReport, CommunityTypeOK
    <3> QED
      BY <1>3, <3>1 DEF ShipReport, ReportsAreDetections, CommunityTypeOK, Instant
  <2>2. UNCHANGED <<day, ban, seen>> /\ fetched' \subseteq fetched
    BY <1>3 DEF ShipReport
  <2> QED
    BY <2>1, <2>2, Untouched
<1>4. ASSUME NEW i \in Install, NEW yes \in BOOLEAN, Fetch(i, yes) PROVE CommunityInv'
  <2>1. UNCHANGED <<day, ban, unsent, reports, seen>>
    BY <1>4 DEF Fetch
  <2>2. ReportsAreDetections' /\ BansAreBacked'
    BY <2>1 DEF ReportsAreDetections, BansAreBacked
  <2>3. ListsAreBacked'
    <3>1. CASE fetched' \subseteq fetched
      BY <2>1, <3>1, Untouched
    <3>2. CASE Cardinality(Reporters) >= Consensus
      <4>1. Reporters \subseteq Detected(seen, day - ListWindow)
        BY DEF Reporters, Detected, ReportsAreDetections, CommunityTypeOK, Instant
      <4>2. Backed(seen, day - ListWindow)
        BY <3>2, <4>1, Larger DEF Backed, Detected, Reporters
      <4> QED
        BY <2>1, <4>2 DEF ListsAreBacked
    <3> QED
      BY <1>4, <3>1, <3>2 DEF Fetch
  <2> QED
    BY <2>2, <2>3
<1>5. ASSUME NEW i \in Install, ApplyList(i) PROVE CommunityInv'
  <2>1. /\ ban' = [ban EXCEPT ![i] = [until |-> day + CommunityTtl, rule |-> "community"]]
        /\ UNCHANGED <<day, unsent, reports, seen>>
        /\ fetched' = fetched \ {i} /\ i \in fetched
    BY <1>5 DEF ApplyList, AddBan, Shares
  <2>2. ReportsAreDetections'
    BY <2>1 DEF ReportsAreDetections
  <2>3. ListsAreBacked'
    BY <2>1 DEF ListsAreBacked
  <2>4. ban'[i].until = day + CommunityTtl /\ day + CommunityTtl >= day
    BY <2>1 DEF CommunityTypeOK
  <2>5. ban'[i].until - CommunityTtl - ListWindow = day - ListWindow
    BY <2>4 DEF CommunityTypeOK
  <2>6. Backed(seen, day - ListWindow)
    BY <2>1 DEF ListsAreBacked
  <2>7. \A j \in Install \ {i} : ban'[j] = ban[j]
    BY <2>1 DEF CommunityTypeOK
  <2>8. ASSUME NEW j \in Install, ban'[j].rule = "community"
        PROVE  ban'[j].until >= day /\ Backed(seen, ban'[j].until - CommunityTtl - ListWindow)
    <3>1. CASE j = i
      BY <2>4, <2>5, <2>6, <3>1
    <3>2. CASE j # i
      BY <2>7, <2>8, <3>2 DEF BansAreBacked
    <3> QED
      BY <3>1, <3>2
  <2>9. BansAreBacked'
    BY <2>1, <2>8 DEF BansAreBacked, Backed, Detected
  <2> QED
    BY <2>2, <2>3, <2>9
<1>6. ASSUME NEW i \in Install, UnbanHere(i) PROVE CommunityInv'
  <2>1. \A j \in Install : ban'[j] = ban[j] \/ ban'[j].rule = "own"
    BY <1>6 DEF UnbanHere, NoRow, CommunityTypeOK
  <2>2. UNCHANGED <<day, unsent, reports, fetched, seen>>
    BY <1>6 DEF UnbanHere
  <2> QED
    BY <2>1, <2>2 DEF ReportsAreDetections, ListsAreBacked, BansAreBacked
<1>7. ASSUME NEW i \in Install, InstallRestarts(i) PROVE CommunityInv'
  <2>1. UNCHANGED <<day, ban, reports, seen>> /\ unsent' \subseteq unsent
        /\ fetched' \subseteq fetched
    BY <1>7 DEF InstallRestarts
  <2>2. ReportsAreDetections'
    BY <2>1 DEF ReportsAreDetections
  <2> QED
    BY <2>1, <2>2, Untouched
<1>8. CASE NextDay
  <2>1. /\ day' = day + 1 /\ unsent' = {} /\ fetched' = {}
        /\ UNCHANGED <<reports, seen>>
    BY <1>8 DEF NextDay
  <2>2. \A j \in Install : \/ ban'[j].rule = "own"
                           \/ ban'[j] = ban[j] /\ ~(ban[j].until <= day + 1)
    BY <1>8 DEF NextDay, NoRow, CommunityTypeOK
  <2>3. ReportsAreDetections'
    BY <2>1 DEF ReportsAreDetections, CommunityTypeOK, Instant
  <2>4. BansAreBacked'
    BY <2>1, <2>2 DEF BansAreBacked, CommunityTypeOK, Row
  <2> QED
    BY <2>1, <2>3, <2>4 DEF ListsAreBacked
<1>9. CASE UNCHANGED communityVars
  BY <1>9 DEF communityVars, ReportsAreDetections, ListsAreBacked, BansAreBacked
<1> QED
  BY <1>2, <1>3, <1>4, <1>5, <1>6, <1>7, <1>8, <1>9 DEF CommunityNext

\* A ban from the list always rests on detections, whatever is fetched, applied,
\* shipped or lost: the list does not confirm itself (ban.add, blocklist).
THEOREM BansRestOnDetections == CommunitySpec => []ListRestsOnDetections
<1>1. CommunityInv => ListRestsOnDetections
  <2> SUFFICES ASSUME CommunityInv, NEW i \in Install, ban[i].rule = "community"
               PROVE  Cardinality({j \in Install :
                        seen[j] # -1 /\ seen[j] >= day - ListWindow - CommunityTtl})
                      >= Consensus
    BY DEF ListRestsOnDetections
  <2> DEFINE s == day - ListWindow - CommunityTtl
             t == ban[i].until - CommunityTtl - ListWindow
  <2>1. s \in Int /\ t \in Int /\ s <= t /\ Backed(seen, t)
    BY CommunityAssumption
    DEF CommunityInv, CommunityTypeOK, Row, BansAreBacked
  <2>2. seen \in [Install -> Instant]
    BY DEF CommunityInv, CommunityTypeOK
  <2>3. Backed(seen, s)
    BY <2>1, <2>2, BackedStill
  <2> QED
    BY <2>3 DEF Backed, Detected
<1> QED
  BY <1>1, CommunityInvInit, CommunityInvNext, PTL DEF CommunitySpec
=============================================================================
