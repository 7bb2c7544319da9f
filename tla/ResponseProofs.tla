--------------------------- MODULE ResponseProofs ---------------------------
(***************************************************************************)
(* What Response promises for any addresses, rules, lifetimes and queue.   *)
(* Events of agents and peers write the same suppression and gate with     *)
(* times of their own, and a flush forgets entries: the inductive          *)
(* invariant says that an entry reaches at least as far as the last own    *)
(* event or alert it stands for, unless the clock has passed that point.   *)
(***************************************************************************)
EXTENDS Response, TLAPS

EventTime == 0 .. MaxEventTime

\* An own event or alert is over, or its entry is still there.
SuppressionHolds ==
  \A k \in EventKey :
    /\ own[k] <= time
    /\ own[k] # 0 => quietUntil[k] >= own[k] + SuppressFor \/ time >= own[k] + SuppressFor
GateHolds ==
  \A k \in EventKey :
    /\ alerted[k] <= time
    /\ alerted[k] # 0 => gate[k] >= alerted[k] + AlertCooldown \/ time >= alerted[k] + AlertCooldown

\* A suppression was set by an event that is in the table.
SuppressionIsTable ==
  \A k \in EventKey :
    quietUntil[k] # 0 =>
      newestEvent[k] # 0 /\ quietUntil[k] <= newestEvent[k] + SuppressFor

ResponseInv ==
  /\ ResponseTypeOK /\ SuppressionHolds /\ GateHolds
  /\ SuppressionIsTable /\ HitsAreRecorded

-----------------------------------------------------------------------------

LEMMA ResponseInvInit == ResponseInit => ResponseInv
<1> SUFFICES ASSUME ResponseInit PROVE ResponseInv
  OBVIOUS
<1> USE ResponseAssumption DEF ResponseInit
<1>1. ResponseTypeOK
  <2>1. queue \in Seq(EventKey) /\ Len(queue) <= QueueMax
    OBVIOUS
  <2>2. /\ quietUntil \in [EventKey -> Nat] /\ gate \in [EventKey -> Nat]
        /\ {newestEvent, own, alerted} \subseteq [EventKey -> 0 .. MaxEventTime]
    OBVIOUS
  <2>3. /\ time \in 1 .. MaxEventTime /\ mutes \in SUBSET EventKey
        /\ verdict \in {"unknown", "spa", "real"}
        /\ bans \in SUBSET (IP \X Origin) /\ hit \in IP \cup {Nobody}
    OBVIOUS
  <2>4. pending \in BOOLEAN
    OBVIOUS
  <2> QED
    BY <2>1, <2>2, <2>3, <2>4 DEF ResponseTypeOK
<1>2. SuppressionHolds /\ GateHolds
  BY DEF SuppressionHolds, GateHolds
<1>3. SuppressionIsTable /\ HitsAreRecorded
  BY DEF SuppressionIsTable, HitsAreRecorded
<1> QED
  BY <1>1, <1>2, <1>3 DEF ResponseInv

\* The alert queue after put_nowait(): the capacity is never exceeded.
LEMMA QueueBound ==
  ASSUME ResponseTypeOK, NEW k \in EventKey
  PROVE  Queued(k) \in Seq(EventKey) /\ Len(Queued(k)) <= QueueMax
BY ResponseAssumption DEF ResponseTypeOK, Queued

\* One call of _event keeps the types.
LEMMA EventTyped ==
  ASSUME ResponseTypeOK, NEW k \in EventKey, NEW sev \in Severity,
         NEW t \in 1 .. MaxEventTime, NEW origin \in Origin, RecordEvent(k, sev, t, origin)
  PROVE  /\ quietUntil' \in [EventKey -> Nat] /\ gate' \in [EventKey -> Nat]
         /\ queue' \in Seq(EventKey) /\ Len(queue') <= QueueMax
         /\ newestEvent' \in [EventKey -> EventTime] /\ own' \in [EventKey -> EventTime]
         /\ alerted' \in [EventKey -> EventTime]
         /\ bans' \in SUBSET (IP \X Origin)
<1> USE ResponseAssumption DEF ResponseTypeOK, EventTime
<1>1. CASE quietUntil[k] > t
  BY <1>1 DEF RecordEvent, memory
<1>2. CASE ~(quietUntil[k] > t)
  <2>1. k[1] \in IP
    BY DEF EventKey
  <2>2. t \in EventTime /\ t + SuppressFor \in Nat /\ t + AlertCooldown \in Nat
    OBVIOUS
  <2>3. quietUntil' \in [EventKey -> Nat]
    BY <1>2, <2>2 DEF RecordEvent
  <2>4. gate' \in [EventKey -> Nat]
    BY <1>2, <2>2 DEF RecordEvent
  <2>5. queue' \in Seq(EventKey) /\ Len(queue') <= QueueMax
    <3>1. queue' = queue \/ queue' = Queued(k)
      BY <1>2 DEF RecordEvent
    <3> QED
      BY <3>1, QueueBound
  <2>6. newestEvent' \in [EventKey -> EventTime]
    BY <1>2, <2>2 DEF RecordEvent, Later
  <2>7. own' \in [EventKey -> EventTime] /\ alerted' \in [EventKey -> EventTime]
    BY <1>2, <2>2 DEF RecordEvent
  <2>8. bans' \in SUBSET (IP \X Origin)
    BY <1>2, <2>1 DEF RecordEvent
  <2> QED
    BY <2>3, <2>4, <2>5, <2>6, <2>7, <2>8
<1> QED
  BY <1>1, <1>2

\* The same call keeps what suppression, gate and table say of each other; an own
\* event is one of the present, and afterwards its rule has an event in the table.
LEMMA EventKeeps ==
  ASSUME ResponseInv, NEW k \in EventKey, NEW sev \in Severity,
         NEW t \in 1 .. MaxEventTime, NEW origin \in Origin, RecordEvent(k, sev, t, origin),
         t <= time, origin = "own" => t = time, UNCHANGED time
  PROVE  /\ SuppressionHolds' /\ GateHolds' /\ SuppressionIsTable'
         /\ newestEvent'[k] # 0
         /\ t - newestEvent'[k] < SuppressFor
<1> USE ResponseAssumption DEF ResponseInv
<1>1. time \in Nat /\ \A q \in EventKey :
        /\ quietUntil[q] \in Nat /\ gate[q] \in Nat
        /\ newestEvent[q] \in Nat /\ own[q] \in Nat /\ alerted[q] \in Nat
  BY DEF ResponseTypeOK
<1>2. CASE quietUntil[k] > t
  <2>1. UNCHANGED <<quietUntil, gate, newestEvent, own, alerted>>
    BY <1>2 DEF RecordEvent, memory
  <2>2. SuppressionHolds' /\ GateHolds' /\ SuppressionIsTable'
    BY <2>1 DEF SuppressionHolds, GateHolds, SuppressionIsTable
  <2>3. newestEvent[k] # 0 /\ t - newestEvent[k] < SuppressFor
    BY <1>1, <1>2 DEF SuppressionIsTable
  <2> QED
    BY <2>1, <2>2, <2>3
<1>3. CASE ~(quietUntil[k] > t)
  <2>1. \A q \in EventKey :
          /\ quietUntil'[q] = IF q = k THEN t + SuppressFor ELSE quietUntil[q]
          /\ newestEvent'[q] = IF q = k /\ t > newestEvent[q] THEN t ELSE newestEvent[q]
          /\ own'[q] = IF q = k /\ origin = "own" THEN t ELSE own[q]
    BY <1>3 DEF RecordEvent, Later, ResponseTypeOK
  <2>2. \A q \in EventKey :
          \/ gate'[q] = gate[q] /\ alerted'[q] = alerted[q]
          \/ /\ q = k /\ gate[k] <= t
             /\ gate'[k] = t + AlertCooldown
             /\ alerted'[k] = IF origin = "own" THEN t ELSE alerted[k]
    <3>1. CASE Alerts(k, sev, t, origin)
      BY <1>3, <3>1 DEF RecordEvent, Alerts, ResponseTypeOK
    <3>2. CASE ~Alerts(k, sev, t, origin)
      BY <1>3, <3>2 DEF RecordEvent
    <3> QED
      BY <3>1, <3>2
  <2>3. SuppressionHolds'
    <3> SUFFICES ASSUME NEW q \in EventKey
                 PROVE  /\ own'[q] <= time
                        /\ own'[q] # 0 => \/ quietUntil'[q] >= own'[q] + SuppressFor
                                          \/ time >= own'[q] + SuppressFor
      BY DEF SuppressionHolds
    <3> QED
      BY <1>1, <1>3, <2>1 DEF SuppressionHolds
  <2>4. GateHolds'
    <3> SUFFICES ASSUME NEW q \in EventKey
                 PROVE  /\ alerted'[q] <= time
                        /\ alerted'[q] # 0 => \/ gate'[q] >= alerted'[q] + AlertCooldown
                                              \/ time >= alerted'[q] + AlertCooldown
      BY DEF GateHolds
    <3> QED
      BY <1>1, <2>2 DEF GateHolds
  <2>5. SuppressionIsTable'
    BY <1>1, <2>1 DEF SuppressionIsTable
  <2>6. newestEvent'[k] >= t /\ newestEvent'[k] \in Nat
    BY <1>1, <2>1
  <2> QED
    BY <2>3, <2>4, <2>5, <2>6
<1> QED
  BY <1>2, <1>3

\* And an own event or alert comes no sooner after the last than it may.
LEMMA EventSpaced ==
  ASSUME ResponseInv, NEW k \in EventKey, NEW sev \in Severity,
         NEW t \in 1 .. MaxEventTime, NEW origin \in Origin, RecordEvent(k, sev, t, origin),
         origin = "own" => t = time, NEW q \in EventKey
  PROVE  /\ own'[q] > own[q] /\ own[q] # 0 => own'[q] - own[q] >= SuppressFor
         /\ alerted'[q] > alerted[q] /\ alerted[q] # 0 =>
              alerted'[q] - alerted[q] >= AlertCooldown
<1> USE ResponseAssumption DEF ResponseInv
<1>1. /\ time \in Nat /\ quietUntil[q] \in Nat /\ gate[q] \in Nat
      /\ own[q] \in Nat /\ alerted[q] \in Nat
  BY DEF ResponseTypeOK
<1>2. CASE q # k \/ origin # "own" \/ quietUntil[k] > t
  <2>1. own'[q] = own[q] /\ alerted'[q] = alerted[q]
    BY <1>2 DEF RecordEvent, memory, ResponseTypeOK
  <2> QED
    BY <1>1, <2>1
<1>3. CASE q = k /\ origin = "own" /\ ~(quietUntil[k] > t)
  <2>1. own'[q] = time
    BY <1>3 DEF RecordEvent, ResponseTypeOK
  <2>2. alerted'[q] = alerted[q] \/ (alerted'[q] = time /\ gate[q] <= time)
    BY <1>3 DEF RecordEvent, Alerts, ResponseTypeOK
  <2> QED
    BY <1>1, <1>3, <2>1, <2>2 DEF SuppressionHolds, GateHolds
<1> QED
  BY <1>2, <1>3

-----------------------------------------------------------------------------
(* The steps *)

\* What a probe's severity and every other severity are.
LEMMA ProbeTyped ==
  ASSUME NEW ip \in IP, NEW answered \in BOOLEAN
  PROVE  ProbeSeverity(ip, answered) \in Severity /\ <<ip, Probe>> \in EventKey
<1>1. <<ip, Probe>> \in EventKey
  BY ResponseAssumption DEF EventKey
<1>2. ProbeSeverity(ip, answered) \in Severity
  <2>1. CASE ip \in Trusted
    BY <2>1 DEF ProbeSeverity, Severity
  <2>2. CASE ip \notin Trusted /\ ~answered
    BY <2>2 DEF ProbeSeverity, Severity
  <2>3. CASE ip \notin Trusted /\ answered
    BY <2>3 DEF ProbeSeverity, Severity
  <2> QED
    BY <2>1, <2>2, <2>3
<1> QED
  BY <1>1, <1>2

LEMMA ResponseInvNext == ResponseInv /\ [ResponseNext]_responseVars => ResponseInv'
<1> SUFFICES ASSUME ResponseInv, [ResponseNext]_responseVars PROVE ResponseInv'
  OBVIOUS
<1> USE ResponseAssumption DEF ResponseInv
<1>0. /\ "own" \in Origin /\ {"agent", "peer"} \subseteq Origin
      /\ time \in 1 .. MaxEventTime /\ {"medium", "high"} \subseteq Severity
  BY DEF Origin, ResponseTypeOK, Severity
<1>1. ASSUME NEW k \in EventKey, NEW sev \in {"medium", "high"}, Detect(k, sev)
      PROVE  ResponseInv'
  <2>1. RecordEvent(k, sev, time, "own") /\ hit' = Nobody
        /\ UNCHANGED <<time, mutes, verdict, pending>>
    BY <1>1 DEF Detect
  <2>2. SuppressionHolds' /\ GateHolds' /\ SuppressionIsTable'
    BY <1>0, <2>1, EventKeeps
  <2>3. ResponseTypeOK'
    BY <1>0, <2>1, EventTyped DEF ResponseTypeOK, EventTime
  <2> QED
    BY <2>1, <2>2, <2>3 DEF HitsAreRecorded
<1>2. ASSUME NEW ip \in IP, NEW answered \in BOOLEAN, DetectProbe(ip, answered)
      PROVE  ResponseInv'
  <2> DEFINE k == <<ip, Probe>>
             sev == ProbeSeverity(ip, answered)
  <2>1. RecordEvent(k, sev, time, "own") /\ UNCHANGED <<time, mutes, verdict>>
        /\ hit' \in {ip, Nobody} /\ pending' \in BOOLEAN
    BY <1>2 DEF DetectProbe, ResponseTypeOK
  <2>2. k \in EventKey /\ sev \in Severity
    BY ProbeTyped
  <2>3. /\ SuppressionHolds' /\ GateHolds' /\ SuppressionIsTable'
        /\ newestEvent'[k] # 0 /\ time - newestEvent'[k] < SuppressFor
    BY <1>0, <2>1, <2>2, EventKeeps
  <2>4. ResponseTypeOK'
    BY <1>0, <2>1, <2>2, EventTyped DEF ResponseTypeOK, EventTime
  <2>5. HitsAreRecorded'
    BY <2>1, <2>3 DEF HitsAreRecorded
  <2> QED
    BY <2>3, <2>4, <2>5
<1>3. ASSUME NEW v \in {"spa", "real", "unknown"}, Classify(v) PROVE ResponseInv'
  BY <1>3 DEF Classify, ResponseTypeOK, SuppressionHolds, GateHolds, SuppressionIsTable,
              HitsAreRecorded
<1>4. ASSUME NEW k \in EventKey, NEW t \in 1 .. MaxEventTime,
             NEW origin \in {"agent", "peer"}, Receive(k, "high", t, origin)
      PROVE  ResponseInv'
  <2>1. RecordEvent(k, "high", t, origin) /\ hit' = Nobody /\ t <= time
        /\ UNCHANGED <<time, mutes, verdict, pending>>
    BY <1>4 DEF Receive
  <2>2. SuppressionHolds' /\ GateHolds' /\ SuppressionIsTable'
    BY <1>0, <2>1, EventKeeps
  <2>3. ResponseTypeOK'
    BY <1>0, <2>1, EventTyped DEF ResponseTypeOK, EventTime
  <2> QED
    BY <2>1, <2>2, <2>3 DEF HitsAreRecorded
<1>5. CASE Prune
  <2>1. \A k \in EventKey :
          /\ quietUntil'[k] = IF quietUntil[k] < time THEN 0 ELSE quietUntil[k]
          /\ gate'[k] = IF gate[k] < time THEN 0 ELSE gate[k]
          /\ quietUntil[k] \in Nat /\ gate[k] \in Nat /\ own[k] \in Nat /\ alerted[k] \in Nat
    BY <1>5 DEF Prune, ResponseTypeOK
  <2>2. UNCHANGED <<time, newestEvent, own, alerted>> /\ hit' = Nobody
    BY <1>5 DEF Prune
  <2>3. ResponseTypeOK'
    BY <1>5 DEF Prune, ResponseTypeOK
  <2>4. SuppressionHolds' /\ SuppressionIsTable'
    BY <1>0, <2>1, <2>2 DEF SuppressionHolds, SuppressionIsTable
  <2>5. GateHolds'
    BY <1>0, <2>1, <2>2 DEF GateHolds
  <2> QED
    BY <2>2, <2>3, <2>4, <2>5 DEF HitsAreRecorded
<1>6. CASE Dispatch
  <2>1. queue' \in Seq(EventKey) /\ Len(queue') <= QueueMax
    BY <1>6 DEF Dispatch, ResponseTypeOK
  <2>2. hit' = Nobody
        /\ UNCHANGED <<time, quietUntil, gate, mutes, verdict, pending, newestEvent, bans,
                       own, alerted>>
    BY <1>6 DEF Dispatch
  <2> QED
    BY <2>1, <2>2 DEF ResponseTypeOK, SuppressionHolds, GateHolds, SuppressionIsTable,
                      HitsAreRecorded
<1>7. CASE TimePasses
  <2>1. time' = time + 1 /\ time' \in 1 .. MaxEventTime /\ hit' = Nobody
        /\ UNCHANGED <<memory, mutes, verdict, pending>>
    BY <1>0, <1>7 DEF TimePasses, memory
  <2>2. ResponseTypeOK'
    BY <2>1 DEF ResponseTypeOK, memory
  <2>3. \A k \in EventKey : own[k] \in Nat /\ alerted[k] \in Nat
    BY DEF ResponseTypeOK
  <2>4. SuppressionHolds' /\ GateHolds'
    BY <1>0, <2>1, <2>3 DEF SuppressionHolds, GateHolds, memory
  <2> QED
    BY <2>1, <2>2, <2>4 DEF SuppressionIsTable, HitsAreRecorded, memory
<1>8. CASE EngineRestarts
  <2>1. ResponseTypeOK'
    <3>1. queue' \in Seq(EventKey) /\ Len(queue') <= QueueMax
      BY <1>8 DEF EngineRestarts
    <3>2. /\ quietUntil' \in [EventKey -> Nat] /\ gate' \in [EventKey -> Nat]
          /\ {newestEvent', own', alerted'} \subseteq [EventKey -> 0 .. MaxEventTime]
      BY <1>8 DEF EngineRestarts, ResponseTypeOK
    <3> QED
      BY <1>8, <3>1, <3>2 DEF EngineRestarts, ResponseTypeOK
  <2>2. SuppressionHolds' /\ GateHolds'
    BY <1>0, <1>8 DEF EngineRestarts, SuppressionHolds, GateHolds
  <2> QED
    BY <1>8, <2>1, <2>2 DEF EngineRestarts, SuppressionIsTable, HitsAreRecorded
<1>9. ASSUME NEW k \in EventKey, NEW on \in BOOLEAN, Mute(k, on) PROVE ResponseInv'
  BY <1>9 DEF Mute, ResponseTypeOK, SuppressionHolds, GateHolds, SuppressionIsTable,
              HitsAreRecorded
<1>10. CASE UNCHANGED responseVars
  BY <1>10 DEF responseVars, memory, ResponseTypeOK, SuppressionHolds, GateHolds,
               SuppressionIsTable, HitsAreRecorded
<1> QED
  BY <1>1, <1>2, <1>3, <1>4, <1>5, <1>6, <1>7, <1>8, <1>9, <1>10 DEF ResponseNext

\* Only _event moves the history variables forward.
LEMMA StepsAreSpaced ==
  ASSUME ResponseInv, [ResponseNext]_responseVars, NEW q \in EventKey
  PROVE  /\ own'[q] > own[q] /\ own[q] # 0 => own'[q] - own[q] >= SuppressFor
         /\ alerted'[q] > alerted[q] /\ alerted[q] # 0 =>
              alerted'[q] - alerted[q] >= AlertCooldown
<1>0. /\ "own" \in Origin /\ {"agent", "peer"} \subseteq Origin
      /\ time \in 1 .. MaxEventTime /\ {"medium", "high"} \subseteq Severity
      /\ own[q] \in Nat /\ alerted[q] \in Nat
  BY ResponseAssumption DEF Origin, ResponseInv, ResponseTypeOK, Severity
<1>1. ASSUME NEW k \in EventKey, NEW sev \in {"medium", "high"}, Detect(k, sev)
      PROVE  RecordEvent(k, sev, time, "own")
  BY <1>1 DEF Detect
<1>2. ASSUME NEW ip \in IP, NEW answered \in BOOLEAN, DetectProbe(ip, answered)
      PROVE  RecordEvent(<<ip, Probe>>, ProbeSeverity(ip, answered), time, "own")
  BY <1>2 DEF DetectProbe
<1>3. CASE \E k \in EventKey, t \in 1 .. MaxEventTime, origin \in {"agent", "peer"} :
            Receive(k, "high", t, origin)
  BY <1>0, <1>3, EventSpaced DEF Receive
<1>4. CASE \/ \E k \in EventKey, sev \in {"medium", "high"} : Detect(k, sev)
           \/ \E ip \in IP, answered \in BOOLEAN : DetectProbe(ip, answered)
  BY <1>0, <1>1, <1>2, <1>4, ProbeTyped, EventSpaced
<1>5. CASE \/ UNCHANGED <<own, alerted>>
           \/ own' = [k \in EventKey |-> 0] /\ alerted' = [k \in EventKey |-> 0]
  BY <1>0, <1>5
<1>6. CASE \/ \E v \in {"spa", "real", "unknown"} : Classify(v)
           \/ Prune \/ Dispatch \/ TimePasses \/ EngineRestarts
           \/ \E k \in EventKey, on \in BOOLEAN : Mute(k, on)
           \/ UNCHANGED responseVars
  BY <1>5, <1>6 DEF Classify, Prune, Dispatch, TimePasses, EngineRestarts, Mute,
                    responseVars, memory
<1> QED
  BY <1>3, <1>4, <1>6 DEF ResponseNext

-----------------------------------------------------------------------------

\* The variables of the engine keep their types, the capacity of the alert queue
\* included.
THEOREM ResponseTypeCorrect == ResponseSpec => []ResponseTypeOK
<1>1. ResponseInv => ResponseTypeOK
  BY DEF ResponseInv
<1> QED
  BY <1>1, ResponseInvInit, ResponseInvNext, PTL DEF ResponseSpec

\* A probe that succeeded is in the table, or one of its address is recent
\* (Engine._event).
THEOREM HitsRecorded == ResponseSpec => []HitsAreRecorded
<1>1. ResponseInv => HitsAreRecorded
  BY DEF ResponseInv
<1> QED
  BY <1>1, ResponseInvInit, ResponseInvNext, PTL DEF ResponseSpec

\* Late events of agents and peers, prunings and restarts notwithstanding, own
\* detections of a key are SuppressFor apart in one life of the process
\* (Engine.suppress).
THEOREM RepeatsAreSpaced == ResponseSpec => NoRepeats
<1>1. ResponseInv /\ [ResponseNext]_responseVars =>
        [\A k \in EventKey :
           own'[k] > own[k] /\ own[k] # 0 => own'[k] - own[k] >= SuppressFor]_responseVars
  BY StepsAreSpaced
<1> QED
  BY <1>1, ResponseInvInit, ResponseInvNext, PTL DEF ResponseSpec, NoRepeats

\* And so are alerts, by the cooldown (Engine.alert_gate).
THEOREM AlertsAreSpaced == ResponseSpec => AlertsSpaced
<1>1. ResponseInv /\ [ResponseNext]_responseVars =>
        [\A k \in EventKey : alerted'[k] > alerted[k] /\ alerted[k] # 0 =>
           alerted'[k] - alerted[k] >= AlertCooldown]_responseVars
  BY StepsAreSpaced
<1> QED
  BY <1>1, ResponseInvInit, ResponseInvNext, PTL DEF ResponseSpec, AlertsSpaced
=============================================================================
