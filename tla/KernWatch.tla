------------------------------ MODULE KernWatch ------------------------------
(***************************************************************************)
(* The early warning for hangs (kernwatch.py): every interval the new      *)
(* lines of the kernel log and the resources of the host become findings,  *)
(* and each finding a forensic snapshot, perhaps a cleanup of the disk, a  *)
(* row of the remediations table and an event.                             *)
(*                                                                         *)
(* KernWatcher.run hands poll() to a worker thread together with the       *)
(* connection of the event loop, which SQLite refuses to any other thread  *)
(* (db.connect leaves check_same_thread on); a direct caller of poll(), as *)
(* in the tests, uses a connection of its own thread.  A finding's class   *)
(* stands for its text; reading /proc and the log is data.                 *)
(***************************************************************************)
EXTENDS Integers, FiniteSets

CONSTANTS
  Fault, HighFault,      \* classes of kernel lines, those of high severity
  Precursor,             \* resource conditions, all of high severity
  DiskFull,              \* the one with a fix
  Autofix,               \* kernwatch.autofix
  SnapshotGap, FixGap,   \* 120 s and 900 s
  SnapshotsKept,         \* 30
  MaxKernTime, MaxManual \* bounds: the clock, snapshots asked for by hand

ASSUME KernWatchAssumption ==
  /\ HighFault \subseteq Fault /\ DiskFull \in Precursor
  /\ Fault \cap Precursor = {}
  /\ Autofix \in BOOLEAN
  /\ {SnapshotGap, FixGap} \subseteq Nat
  /\ SnapshotsKept \in Nat \ {0}
  /\ MaxKernTime \in Nat /\ MaxManual \in Nat

VARIABLES
  ownThread,     \* poll() runs on the thread of its connection
  kernClock,     \* seconds, in units of the gaps
  kernLog,       \* the faults logged behind the cursor
  pressure,      \* the precursors that hold on the host
  cursor,        \* the cursor file exists
  kern,          \* "off", "sleeping", or "polling"
  todo,          \* the findings of the poll still to be handled
  lastSnapshot, lastFix,   \* _last_snapshot, _last_action; never = a gap ago
  snapshots,     \* the stamps of the snapshot files
  unwritten,     \* the last snapshot by handle() could not be written
  unrecorded,    \* findings handled without a row and an event (a history variable)
  manual         \* snapshots asked for so far

kernVars == <<ownThread, kernClock, kernLog, pressure, cursor, kern, todo, lastSnapshot,
              lastFix, snapshots, unwritten, unrecorded, manual>>

Finding == Fault \cup Precursor
High(f) == f \in HighFault \cup Precursor
Never == 0 - SnapshotGap - FixGap - 1

KernTypeOK ==
  /\ ownThread \in BOOLEAN /\ cursor \in BOOLEAN /\ unwritten \in BOOLEAN
  /\ kernClock \in 0 .. MaxKernTime /\ manual \in 0 .. MaxManual
  /\ kernLog \in SUBSET Fault /\ pressure \in SUBSET Precursor
  /\ kern \in {"off", "sleeping", "polling"}
  /\ {todo, unrecorded} \subseteq SUBSET Finding
  /\ {lastSnapshot, lastFix} \subseteq {Never} \cup 0 .. MaxKernTime
  /\ snapshots \in SUBSET (0 .. MaxKernTime) /\ Cardinality(snapshots) <= SnapshotsKept

KernInit ==
  /\ ownThread \in BOOLEAN
  /\ kernClock = 0 /\ manual = 0
  /\ kernLog \in SUBSET Fault /\ pressure = {}
  /\ cursor = FALSE
  /\ kern = "off" /\ todo = {}
  /\ lastSnapshot = Never /\ lastFix = Never
  /\ snapshots = {} /\ unwritten = FALSE /\ unrecorded = {}

-----------------------------------------------------------------------------
(* The snapshot files *)

\* A variant that deletes from the wrong end.
OldestKept(stamps) ==
  {s \in stamps : Cardinality({r \in stamps : r < s}) < SnapshotsKept}

\* capture_snapshot prunes by name, and a name is a time.
NewestKept(stamps) ==
  {s \in stamps : Cardinality({r \in stamps : r > s}) < SnapshotsKept}

\* The file is named after the second: two snapshots of one second are one file.
Captured(written) == IF written THEN NewestKept(snapshots \cup {kernClock}) ELSE snapshots

\* The dashboard's button, on another thread.
ManualSnapshot ==
  /\ manual < MaxManual
  /\ manual' = manual + 1
  /\ \E written \in BOOLEAN : snapshots' = Captured(written)
  /\ UNCHANGED <<ownThread, kernClock, kernLog, pressure, cursor, kern, todo, lastSnapshot,
                 lastFix, unwritten, unrecorded>>

-----------------------------------------------------------------------------
(* poll() *)

\* _kernel_lines: without a cursor, one is made at the end of the log; a
\* journalctl that fails shows nothing and leaves the cursor where it is.
NewLines(ok) == IF cursor /\ ok THEN kernLog ELSE {}
LogLeft(ok) == IF cursor /\ ~ok THEN kernLog ELSE {}

\* run() starts with a scan whose findings it drops.
StartKern(ok) ==
  /\ kern = "off"
  /\ kern' = "sleeping"
  /\ kernLog' = LogLeft(ok) /\ cursor' = TRUE
  /\ lastSnapshot' = Never /\ lastFix' = Never /\ unwritten' = FALSE
  /\ UNCHANGED <<ownThread, kernClock, pressure, todo, snapshots, unrecorded, manual>>

\* scan_kernel and check_resources; a class counts once in a poll.
Poll(ok) ==
  /\ kern = "sleeping"
  /\ kern' = "polling"
  /\ todo' = NewLines(ok) \cup pressure
  /\ kernLog' = LogLeft(ok)
  /\ UNCHANGED <<ownThread, kernClock, pressure, cursor, lastSnapshot, lastFix, snapshots,
                 unwritten, unrecorded, manual>>

\* The throttle of the fix.
FixDue(f) == Autofix /\ f = DiskFull /\ kernClock - lastFix >= FixGap

SnapshotDue(f) == High(f) /\ kernClock - lastSnapshot > SnapshotGap

\* record(): the row and, after it, the event; poll() logs the exception.
Record(f) == unrecorded' = IF ownThread THEN unrecorded ELSE unrecorded \cup {f}

\* handle(): the kernel's findings first.  A snapshot that could not be written
\* counts for the gap, and a fix for its own.
Handle(f, written, freed) ==
  /\ kern = "polling" /\ f \in todo
  /\ todo \cap Fault # {} => f \in Fault
  /\ todo' = todo \ {f}
  /\ IF SnapshotDue(f)
     THEN /\ lastSnapshot' = kernClock
          /\ snapshots' = Captured(written) /\ unwritten' = ~written
     ELSE UNCHANGED <<lastSnapshot, snapshots, unwritten>>
  /\ IF FixDue(f)
     THEN /\ lastFix' = kernClock
          /\ pressure' = IF freed THEN pressure \ {DiskFull} ELSE pressure
     ELSE UNCHANGED <<lastFix, pressure>>
  /\ Record(f)
  /\ UNCHANGED <<ownThread, kernClock, kernLog, cursor, kern, manual>>

PollEnds ==
  /\ kern = "polling" /\ todo = {}
  /\ kern' = "sleeping"
  /\ UNCHANGED <<ownThread, kernClock, kernLog, pressure, cursor, todo, lastSnapshot,
                 lastFix, snapshots, unwritten, unrecorded, manual>>

-----------------------------------------------------------------------------
(* The host *)

KernelLogs(f) ==
  /\ f \notin kernLog
  /\ kernLog' = kernLog \cup {f}
  /\ UNCHANGED <<ownThread, kernClock, pressure, cursor, kern, todo, lastSnapshot, lastFix,
                 snapshots, unwritten, unrecorded, manual>>

PressureChanges(c) ==
  /\ pressure' = IF c \in pressure THEN pressure \ {c} ELSE pressure \cup {c}
  /\ UNCHANGED <<ownThread, kernClock, kernLog, cursor, kern, todo, lastSnapshot, lastFix,
                 snapshots, unwritten, unrecorded, manual>>

KernTick ==
  /\ kernClock < MaxKernTime
  /\ kernClock' = kernClock + 1
  /\ UNCHANGED <<ownThread, kernLog, pressure, cursor, kern, todo, lastSnapshot, lastFix,
                 snapshots, unwritten, unrecorded, manual>>

\* The freeze itself, or a restart of secwatch.
KernStops ==
  /\ kern # "off"
  /\ kern' = "off" /\ todo' = {}
  /\ UNCHANGED <<ownThread, kernClock, kernLog, pressure, cursor, lastSnapshot, lastFix,
                 snapshots, unwritten, unrecorded, manual>>

KernNext ==
  \/ ManualSnapshot
  \/ \E ok \in BOOLEAN : StartKern(ok) \/ Poll(ok)
  \/ \E f \in Finding, written, freed \in BOOLEAN : Handle(f, written, freed)
  \/ PollEnds
  \/ \E f \in Fault : KernelLogs(f)
  \/ \E c \in Precursor : PressureChanges(c)
  \/ KernTick \/ KernStops

KernSpec == KernInit /\ [][KernNext]_kernVars

-----------------------------------------------------------------------------
(* Properties *)

\* When a finding of high severity has been handled, a snapshot of the last
\* SnapshotGap seconds is on disk, whatever the pruning, the button, the gap and
\* restarts did, unless the last one could not be written ("the key action is a
\* forensic snapshot captured the instant a high-severity precursor appears",
\* CHANGELOG.md:87).
EvidenceAtHand ==
  [][\A f \in todo \ todo' :
       kern' = "polling" /\ High(f) /\ ~unwritten' =>
         \E s \in snapshots' : kernClock - s <= SnapshotGap]_kernVars

\* Every finding that was handled has its row and its event ("Every detection +
\* action is written to the `remediations` audit table", kernwatch.py:16).
DetectionsAreRecorded == unrecorded = {}
=============================================================================
