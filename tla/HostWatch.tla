------------------------------ MODULE HostWatch ------------------------------
(***************************************************************************)
(* The host baseline watcher (hostwatch.HostWatcher.check): a snapshot of  *)
(* the host is compared with the baseline table, differences become events *)
(* through the engine (Engine.emit, _event), and the snapshot becomes the  *)
(* new baseline in the same transaction.                                   *)
(*                                                                         *)
(* All these events carry the address "-", so the engine suppresses them   *)
(* by rule alone, that is by the kind of the key.  check() contains no     *)
(* await, so it is one step.  Its first write fails when another           *)
(* connection holds the database ("database is locked"); the exception is  *)
(* logged by run() and the next check starts over.                         *)
(***************************************************************************)
EXTENDS Integers

CONSTANTS
  Key,             \* keys of the snapshot
  Fixed,           \* those in every snapshot ("ports", "users", ...)
  Kind,            \* their classes
  KindOf,          \* the class of a key
  Value,           \* what a key can have as its value
  Absent,          \* no such key
  EventSuppress,   \* seconds during which a rule is not repeated
  MaxTime          \* bound of the clock

ASSUME HostWatchAssumption ==
  /\ KindOf \in [Key -> Kind]
  /\ Fixed \subseteq Key
  /\ Absent \notin Value
  /\ EventSuppress \in Nat \ {0}
  /\ MaxTime \in Nat \ {0}

VARIABLES
  now,         \* the clock
  host,        \* host[k]: what a snapshot would find
  baseline,    \* the host_baseline table
  suppress,    \* suppress[c]: until when events of rule host_c are dropped
  newest,      \* newest[c]: the newest event of that rule in the table, or 0
  told,        \* the keys the events of the last step describe, and
  unsaid       \* the classes whose suppression began with an event that never
               \* got into the table (history variables)

vars == <<now, host, baseline, suppress, newest, told, unsaid>>

Values(k) == IF k \in Fixed THEN Value ELSE Value \cup {Absent}
Snapshot == {snap \in [Key -> Value \cup {Absent}] : \A k \in Key : snap[k] \in Values(k)}

TypeOK ==
  /\ now \in 1 .. MaxTime
  /\ host \in Snapshot
  /\ baseline \in [Key -> Value \cup {Absent}]
  /\ suppress \in [Kind -> 0 .. MaxTime + EventSuppress]
  /\ newest \in [Kind -> 0 .. MaxTime]
  /\ told \in SUBSET Key
  /\ unsaid \in SUBSET Kind

Init ==
  /\ now = 1
  /\ host \in Snapshot
  /\ baseline = [k \in Key |-> Absent]
  /\ suppress = [c \in Kind |-> 0]
  /\ newest = [c \in Kind |-> 0]
  /\ told = {} /\ unsaid = {}

Present(snap) == {k \in Key : snap[k] # Absent}
Kinds(keys) == {KindOf[k] : k \in keys}
Changed == {k \in Key : host[k] # baseline[k]}

\* The changes worth an event: none on the first run, and no key of a class the
\* baseline does not hold yet.
Noteworthy == {k \in Changed : KindOf[k] \in Kinds(Present(baseline))}

\* A variant that renews the suppression with each event it drops.
Renewed(c) == IF c \in Kinds(Noteworthy) THEN now + EventSuppress ELSE suppress[c]

\* The rules that get an event, and the suppression that follows from it.
Reported == {c \in Kinds(Noteworthy) : suppress[c] <= now}
Suppression(c) == IF c \in Reported THEN now + EventSuppress ELSE suppress[c]

\* Only the first difference of a class gets through to the table.
Check ==
  /\ \E first \in SUBSET Noteworthy :
       /\ \A c \in Reported : \E k \in first : KindOf[k] = c
       /\ \A k, l \in first : KindOf[k] = KindOf[l] => k = l
       /\ Kinds(first) = Reported
       /\ told' = first
  /\ suppress' = [c \in Kind |-> Suppression(c)]
  /\ newest' = [c \in Kind |-> IF c \in Reported THEN now ELSE newest[c]]
  /\ baseline' = host
  /\ unsaid' = unsaid \ Reported
  /\ UNCHANGED <<now, host>>

\* A variant whose events are committed before the baseline's write is refused.
CheckFailsLate ==
  /\ \E k \in Noteworthy :
       /\ suppress[KindOf[k]] <= now
       /\ suppress' = [suppress EXCEPT ![KindOf[k]] = now + EventSuppress]
       /\ newest' = [newest EXCEPT ![KindOf[k]] = now]
       /\ told' = {k}
  /\ UNCHANGED <<now, host, baseline, unsaid>>

\* The first write is refused; _event() has begun the suppression before it.
CheckFails ==
  /\ \E k \in Changed :
       LET c == KindOf[k] IN
         IF k \in Noteworthy /\ c \in Reported
         THEN /\ suppress' = [suppress EXCEPT ![c] = Suppression(c)]
              /\ unsaid' = unsaid \cup {c}
         ELSE UNCHANGED <<suppress, unsaid>>
  /\ told' = {}
  /\ UNCHANGED <<now, host, baseline, newest>>

\* Anybody changes the host.
Change(k) ==
  /\ \E v \in Values(k) : host' = [host EXCEPT ![k] = v]
  /\ told' = {}
  /\ UNCHANGED <<now, baseline, suppress, newest, unsaid>>

Tick ==
  /\ now < MaxTime
  /\ now' = now + 1
  /\ told' = {}
  /\ UNCHANGED <<host, baseline, suppress, newest, unsaid>>

Restart ==
  /\ suppress' = [c \in Kind |-> 0]
  /\ told' = {} /\ unsaid' = {}
  /\ UNCHANGED <<now, host, baseline, newest>>

Next ==
  \/ Check \/ CheckFails \/ Tick \/ Restart
  \/ \E k \in Key : Change(k)

Spec == Init /\ [][Next]_vars

-----------------------------------------------------------------------------
(* Properties *)

\* The keys of a tracked class whose difference the step puts into the baseline.
Absorbed == {k \in Noteworthy : baseline'[k] # baseline[k]}

\* A change that becomes the baseline is behind an event of its rule that is not
\* older than EVENT_SUPPRESS: repeats, failed checks, restarts and pauses never let
\* a rule go silent for longer, unless the event that began its suppression was
\* refused by the database (HostWatcher.check, Engine._event).
AbsorbedIsRecorded ==
  [][\A k \in Absorbed :
       KindOf[k] \notin unsaid =>
         newest'[KindOf[k]] # 0 /\ now - newest'[KindOf[k]] < EventSuppress]_vars

\* A change is reported at most once: its event is in the table only if the
\* baseline has the change too, however checks fail and are repeated (check).
ReportedOnce == [][told' \subseteq Absorbed]_vars
=============================================================================
