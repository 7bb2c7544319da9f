---------------------------- MODULE WatchProofs -----------------------------
(***************************************************************************)
(* What the watchers of a host promise, for every value of their           *)
(* constants: the baseline, the monitored files, the kernel log with its   *)
(* snapshots, and the processes.  What a watcher saw has an event or a     *)
(* snapshot behind it, although suppressions swallow events, writes are    *)
(* refused, files are pruned and secwatch restarts.                        *)
(***************************************************************************)
EXTENDS HostWatch, FileWatch, KernWatch, ProcWatch,
        FiniteSetTheorems, WellFoundedInduction, TLAPS

-----------------------------------------------------------------------------
(***************************************************************************)
(* What HostWatch promises for any keys, classes and suppression time. The *)
(* inductive invariant ties the engine's memory to the table: a class is   *)
(* suppressed only for EventSuppress seconds after an event of it that is  *)
(* in the table, or else an event of it was refused by the database,       *)
(* because the engine sets the suppression before it inserts the event.    *)
(***************************************************************************)

\* The variables keep their types (HostWatcher, Engine.suppress).
THEOREM TypeCorrect == Spec => []TypeOK
<1>1. Init => TypeOK
  BY HostWatchAssumption DEF Init, TypeOK, Snapshot, Values
<1>2. TypeOK /\ [Next]_vars => TypeOK'
  <2> SUFFICES ASSUME TypeOK, [Next]_vars PROVE TypeOK'
    OBVIOUS
  <2> USE HostWatchAssumption DEF TypeOK
  <2>1. CASE Check
    <3>1. suppress' \in [Kind -> 0 .. MaxTime + EventSuppress]
      BY <2>1 DEF Check, Suppression
    <3>2. newest' \in [Kind -> 0 .. MaxTime]
      BY <2>1 DEF Check
    <3>3. told' \in SUBSET Key /\ unsaid' \in SUBSET Kind
      BY <2>1 DEF Check, Noteworthy, Changed
    <3>4. baseline' \in [Key -> Value \cup {Absent}]
      BY <2>1 DEF Check, Snapshot
    <3> QED
      BY <2>1, <3>1, <3>2, <3>3, <3>4 DEF Check
  <2>2. CASE CheckFails
    <3>1. PICK k \in Changed :
            IF k \in Noteworthy /\ KindOf[k] \in Reported
            THEN /\ suppress' = [suppress EXCEPT ![KindOf[k]] = Suppression(KindOf[k])]
                 /\ unsaid' = unsaid \cup {KindOf[k]}
            ELSE UNCHANGED <<suppress, unsaid>>
      BY <2>2 DEF CheckFails
    <3>2. KindOf[k] \in Kind
      BY DEF Changed
    <3>3. Suppression(KindOf[k]) \in 0 .. MaxTime + EventSuppress
      BY <3>2 DEF Suppression
    <3>4. suppress' \in [Kind -> 0 .. MaxTime + EventSuppress] /\ unsaid' \in SUBSET Kind
      BY <3>1, <3>2, <3>3
    <3> QED
      BY <2>2, <3>4 DEF CheckFails
  <2>3. ASSUME NEW k \in Key, Change(k) PROVE TypeOK'
    <3>1. host' \in Snapshot
      BY <2>3 DEF Change, Snapshot, Values
    <3> QED
      BY <2>3, <3>1 DEF Change
  <2>4. CASE Tick
    BY <2>4 DEF Tick
  <2>5. CASE Restart
    BY <2>5 DEF Restart
  <2>6. CASE UNCHANGED vars
    BY <2>6 DEF vars
  <2> QED
    BY <2>1, <2>2, <2>3, <2>4, <2>5, <2>6 DEF Next
<1> QED
  BY <1>1, <1>2, PTL DEF Spec

-----------------------------------------------------------------------------
(* A change is in the table at most once *)

\* An event that describes a key comes with the key's new baseline, whatever
\* checks fail before and after it (HostWatcher.check).
THEOREM ReportsAreSingle == Spec => ReportedOnce
<1>1. Next => told' \subseteq Absorbed
  <2> SUFFICES ASSUME Next PROVE told' \subseteq Absorbed
    OBVIOUS
  <2>1. CASE Check
    <3>1. told' \subseteq Noteworthy /\ baseline' = host
      BY <2>1 DEF Check
    <3>2. \A k \in Noteworthy : host[k] # baseline[k]
      BY DEF Noteworthy, Changed
    <3> QED
      BY <3>1, <3>2 DEF Absorbed
  <2>2. CASE CheckFails \/ Tick \/ Restart \/ \E k \in Key : Change(k)
    <3>1. told' = {}
      BY <2>2 DEF CheckFails, Tick, Restart, Change
    <3> QED
      BY <3>1
  <2> QED
    BY <2>1, <2>2 DEF Next
<1>2. [Next]_vars => [told' \subseteq Absorbed]_vars
  BY <1>1
<1> QED
  BY <1>2, PTL DEF Spec, ReportedOnce

-----------------------------------------------------------------------------
(* What is absorbed was recorded *)

\* A suppressed class has an event in the table from which its time is counted.
SuppressedIsRecorded ==
  \A c \in Kind \ unsaid :
    suppress[c] > now => newest[c] # 0 /\ suppress[c] = newest[c] + EventSuppress

\* The memory of the engine follows the table, but for events that were refused.
THEOREM SuppressionFollowsTable == Spec => []SuppressedIsRecorded
<1>1. Init => SuppressedIsRecorded
  BY HostWatchAssumption DEF Init, SuppressedIsRecorded
<1>2. TypeOK /\ SuppressedIsRecorded /\ [Next]_vars => SuppressedIsRecorded'
  <2> SUFFICES ASSUME TypeOK, SuppressedIsRecorded, [Next]_vars,
                      NEW c \in Kind, c \notin unsaid', (suppress[c] > now)'
               PROVE  (newest[c] # 0 /\ suppress[c] = newest[c] + EventSuppress)'
    BY DEF SuppressedIsRecorded
  <2> USE HostWatchAssumption DEF TypeOK
  <2>1. CASE Check
    <3>1. /\ suppress'[c] = IF c \in Reported THEN now + EventSuppress ELSE suppress[c]
          /\ newest'[c] = IF c \in Reported THEN now ELSE newest[c]
          /\ now' = now /\ unsaid' = unsaid \ Reported
      BY <2>1 DEF Check, Suppression
    <3>2. CASE c \in Reported
      BY <3>1, <3>2
    <3>3. CASE c \notin Reported
      BY <3>1, <3>3 DEF SuppressedIsRecorded
    <3> QED
      BY <3>2, <3>3
  <2>2. CASE CheckFails
    <3>1. c \notin unsaid /\ suppress'[c] = suppress[c]
      BY <2>2 DEF CheckFails
    <3> QED
      BY <2>2, <3>1 DEF CheckFails, SuppressedIsRecorded
  <2>3. CASE \E k \in Key : Change(k)
    BY <2>3 DEF Change, SuppressedIsRecorded
  <2>4. CASE Tick
    <3>1. suppress[c] > now
      BY <2>4 DEF Tick
    <3> QED
      BY <2>4, <3>1 DEF Tick, SuppressedIsRecorded
  <2>5. CASE Restart
    BY <2>5 DEF Restart
  <2>6. CASE UNCHANGED vars
    BY <2>6 DEF vars, SuppressedIsRecorded
  <2> QED
    BY <2>1, <2>2, <2>3, <2>4, <2>5, <2>6 DEF Next
<1> QED
  BY <1>1, <1>2, TypeCorrect, PTL DEF Spec

\* A change that becomes the baseline is behind an event of its rule younger than
\* EVENT_SUPPRESS, over any pauses and restarts (HostWatcher.check, Engine._event).
THEOREM ChangesAreRecorded == Spec => AbsorbedIsRecorded
<1> DEFINE Recorded(k) ==
      KindOf[k] \notin unsaid =>
        newest'[KindOf[k]] # 0 /\ now - newest'[KindOf[k]] < EventSuppress
<1>1. TypeOK /\ SuppressedIsRecorded /\ Next => \A k \in Absorbed : Recorded(k)
  <2> SUFFICES ASSUME TypeOK, SuppressedIsRecorded, Next, NEW k \in Absorbed,
                      KindOf[k] \notin unsaid
               PROVE  Recorded(k)
    OBVIOUS
  <2> USE HostWatchAssumption DEF TypeOK
  <2>1. k \in Noteworthy /\ k \in Key /\ baseline' # baseline
    BY DEF Absorbed, Noteworthy, Changed
  <2>2. Check
    BY <2>1 DEF Next, CheckFails, Tick, Restart, Change
  <2>3. KindOf[k] \in Kind /\ KindOf[k] \in Kinds(Noteworthy)
    BY <2>1 DEF Kinds
  <2>4. CASE KindOf[k] \in Reported
    BY <2>2, <2>3, <2>4 DEF Check
  <2>5. CASE KindOf[k] \notin Reported
    <3>1. suppress[KindOf[k]] > now
      BY <2>3, <2>5 DEF Reported
    <3>2. newest'[KindOf[k]] = newest[KindOf[k]]
      BY <2>2, <2>3, <2>5 DEF Check
    <3> QED
      BY <2>3, <3>1, <3>2 DEF SuppressedIsRecorded
  <2> QED
    BY <2>4, <2>5
<1>2. TypeOK /\ SuppressedIsRecorded /\ [Next]_vars
        => [\A k \in Absorbed : Recorded(k)]_vars
  BY <1>1
<1> QED
  BY <1>2, TypeCorrect, SuppressionFollowsTable, PTL DEF Spec, AbsorbedIsRecorded

-----------------------------------------------------------------------------
(***************************************************************************)
(* FileWatch: what a check finds (a new file, a canary that is modified or *)
(* gone) is behind an event of its rule that is not older than the         *)
(* suppression.  The inductive invariant says that a rule is quiet only by *)
(* an event in the table.                                                  *)
(***************************************************************************)

\* A rule is quiet for FileSuppress seconds after an event of it that is in the
\* table, and for nothing else.
QuietByEvent ==
  \A r \in Rule :
    fileQuiet[r] # 0 => newestFound[r] # 0 /\ fileQuiet[r] = newestFound[r] + FileSuppress

FileInv == FileTypeOK /\ QuietByEvent

LEMMA FileTypes ==
  ASSUME FileTypeOK
  PROVE  /\ fileClock \in 1 .. MaxFileClock /\ FileSuppress \in Nat \ {0}
         /\ MaxFileClock \in Nat \ {0}
         /\ fileQuiet \in [Rule -> 0 .. MaxFileClock + FileSuppress]
         /\ newestFound \in [Rule -> 0 .. MaxFileClock]
  BY FileWatchAssumption DEF FileTypeOK

LEMMA FileInvInit == FileInit => FileInv
<1> SUFFICES ASSUME FileInit PROVE FileInv
  OBVIOUS
<1>1. /\ fileQuiet \in [Rule -> 0 .. MaxFileClock + FileSuppress]
      /\ newestFound \in [Rule -> 0 .. MaxFileClock]
  BY FileWatchAssumption DEF FileInit
<1>2. /\ up \in BOOLEAN /\ scanned \in BOOLEAN
      /\ canary \in Canary /\ expected \in Canary /\ listedFiles \in SUBSET File
  BY DEF FileInit, Canary
<1>3. FileTypeOK
  BY <1>1, <1>2, FileWatchAssumption DEF FileInit, FileTypeOK
<1> QED
  BY <1>3 DEF FileInit, FileInv, QuietByEvent

LEMMA CheckFilesStep == FileInv /\ CheckFiles => FileInv'
<1> SUFFICES ASSUME FileInv, CheckFiles PROVE FileInv'
  OBVIOUS
<1>0. FileTypeOK /\ QuietByEvent
  BY DEF FileInv
<1>1. /\ fileQuiet' = [r \in Rule |-> IF r \in Due THEN fileClock + FileSuppress
                                      ELSE fileQuiet[r]]
      /\ newestFound' = [r \in Rule |-> IF r \in Due THEN fileClock ELSE newestFound[r]]
      /\ expected' = ExpectedNow /\ scanned' = TRUE /\ listedFiles' = files
      /\ UNCHANGED <<fileClock, up, canary, files>>
  BY DEF CheckFiles, disk, Relisted
<1>2. /\ fileQuiet' \in [Rule -> 0 .. MaxFileClock + FileSuppress]
      /\ newestFound' \in [Rule -> 0 .. MaxFileClock]
  BY <1>0, <1>1, FileTypes
<1>3. scanned' \in BOOLEAN /\ expected' \in Canary
  BY <1>0, <1>1 DEF FileTypeOK, ExpectedNow
<1>4. FileTypeOK'
  BY <1>0, <1>1, <1>2, <1>3 DEF FileTypeOK
<1>5. QuietByEvent'
  <2> SUFFICES ASSUME NEW r \in Rule, fileQuiet'[r] # 0
               PROVE  newestFound'[r] # 0 /\ fileQuiet'[r] = newestFound'[r] + FileSuppress
    BY DEF QuietByEvent
  <2>1. CASE r \in Due
    BY <1>0, <1>1, <2>1, FileTypes
  <2>2. CASE r \notin Due
    BY <1>0, <1>1, <2>2 DEF QuietByEvent
  <2> QED
    BY <2>1, <2>2
<1> QED
  BY <1>4, <1>5 DEF FileInv

LEMMA FileInvStep == FileInv /\ [FileNext]_fileVars => FileInv'
<1> SUFFICES ASSUME FileInv, [FileNext]_fileVars PROVE FileInv'
  OBVIOUS
<1>0. FileTypeOK /\ QuietByEvent
  BY DEF FileInv
<1>1. CASE Start
  <2>1. /\ fileQuiet' = [r \in Rule |-> 0]
        /\ fileQuiet' \in [Rule -> 0 .. MaxFileClock + FileSuppress]
    BY <1>0, <1>1, FileTypes DEF Start
  <2>2. canary' \in Canary /\ expected' \in Canary
    BY <1>0, <1>1 DEF Start, FileTypeOK, Canary
  <2>3. up' \in BOOLEAN
    BY <1>1 DEF Start
  <2> QED
    BY <1>0, <1>1, <2>1, <2>2, <2>3 DEF Start, FileInv, FileTypeOK, QuietByEvent
<1>2. CASE Stop
  <2>1. up' \in BOOLEAN
    BY <1>2 DEF Stop
  <2> QED
    BY <1>0, <1>2, <2>1 DEF Stop, disk, table, FileInv, FileTypeOK, QuietByEvent
<1>3. CASE CheckFiles
  BY <1>3, CheckFilesStep
<1>4. CASE FileTick
  <2>1. fileClock' \in 1 .. MaxFileClock
    BY <1>0, <1>4, FileTypes DEF FileTick
  <2> QED
    BY <1>0, <1>4, <2>1 DEF FileTick, disk, table, FileInv, FileTypeOK, QuietByEvent
<1>5. ASSUME NEW c \in Canary, Tamper(c) PROVE FileInv'
  BY <1>0, <1>5 DEF Tamper, table, FileInv, FileTypeOK, QuietByEvent
<1>6. ASSUME NEW f \in File, Drop(f) \/ Remove(f) PROVE FileInv'
  <2>1. files' \in SUBSET File
    BY <1>0, <1>6 DEF Drop, Remove, FileTypeOK
  <2> QED
    BY <1>0, <1>6, <2>1 DEF Drop, Remove, table, FileInv, FileTypeOK, QuietByEvent
<1>7. CASE UNCHANGED fileVars
  BY <1>0, <1>7 DEF fileVars, disk, table, FileInv, FileTypeOK, QuietByEvent
<1> QED
  BY <1>1, <1>2, <1>3, <1>4, <1>5, <1>6, <1>7 DEF FileNext

\* The variables keep their types (FimWatcher, Engine.suppress).
THEOREM FileTypeCorrect == FileSpec => []FileTypeOK
<1>1. FileInv => FileTypeOK
  BY DEF FileInv
<1> QED
  BY <1>1, FileInvInit, FileInvStep, PTL DEF FileSpec

\* What a check finds, it stores or finds an event for that is young enough.
LEMMA FoundBehindEvent ==
  ASSUME FileInv, CheckFiles, NEW r \in Rule,
         r = "ransomware_canary" => CanaryChanged,
         r = "webshell_dropped" => ~NeverChecked /\ Dropped # {}
  PROVE  Recent(r)
<1>1. /\ fileClock \in 1 .. MaxFileClock /\ FileSuppress \in Nat \ {0}
      /\ MaxFileClock \in Nat \ {0}
      /\ fileQuiet[r] \in 0 .. MaxFileClock + FileSuppress /\ newestFound[r] \in 0 .. MaxFileClock
      /\ fileQuiet[r] # 0 =>
           newestFound[r] # 0 /\ fileQuiet[r] = newestFound[r] + FileSuppress
  BY FileTypes DEF FileInv, QuietByEvent
<1>2. newestFound' = [s \in Rule |-> IF s \in Due THEN fileClock ELSE newestFound[s]]
  BY DEF CheckFiles
<1>3. CASE r \in Due
  BY <1>1, <1>2, <1>3 DEF Recent
<1>4. CASE r \notin Due
  <2>1. ~(fileQuiet[r] <= fileClock)
    BY <1>4 DEF Due, Rule
  <2> QED
    BY <1>1, <1>2, <1>4, <2>1 DEF Recent
<1> QED
  BY <1>3, <1>4

\* A new file that a check takes into its row, a modified canary it expects from
\* now on and a canary it misses are behind an event of their rule that is not
\* older than FileSuppress (FimWatcher.check, Engine._event).
THEOREM FindingsAreRecorded == FileSpec => FoundIsRecorded
<1> DEFINE Step ==
      /\ scanned /\ listedFiles' \ listedFiles # {} => Recent("webshell_dropped")
      /\ up /\ expected # Gone /\ expected' # expected => Recent("ransomware_canary")
      /\ CheckFiles /\ CanaryChanged => Recent("ransomware_canary")
<1>1. FileInv /\ [FileNext]_fileVars => [Step]_fileVars
  <2> SUFFICES ASSUME FileInv, FileNext PROVE Step
    BY DEF fileVars, FileInv
  <2>1. CASE CheckFiles
    <3>1. /\ scanned /\ listedFiles' \ listedFiles # {} => ~NeverChecked /\ Dropped # {}
          /\ expected # Gone /\ expected' # expected => CanaryChanged
      BY <2>1 DEF CheckFiles, Relisted, NeverChecked, Dropped, ExpectedNow
    <3>2. "webshell_dropped" \in Rule /\ "ransomware_canary" \in Rule
      BY DEF Rule
    <3>3. ~NeverChecked /\ Dropped # {} => Recent("webshell_dropped")
      BY <2>1, <3>2, FoundBehindEvent
    <3>4. CanaryChanged => Recent("ransomware_canary")
      BY <2>1, <3>2, FoundBehindEvent
    <3> QED
      BY <3>1, <3>3, <3>4
  <2>2. ASSUME ~CheckFiles PROVE Step
    <3>1. listedFiles' = listedFiles /\ (up => expected' = expected)
      BY <2>2 DEF FileNext, Start, Stop, FileTick, Tamper, Drop, Remove, disk, table
    <3> QED
      BY <2>2, <3>1
  <2> QED
    BY <2>1, <2>2
<1> QED
  BY <1>1, FileInvInit, FileInvStep, PTL DEF FileSpec, FoundIsRecorded

-----------------------------------------------------------------------------
(***************************************************************************)
(* KernWatch: when a finding of high severity has been handled, a snapshot *)
(* of the last SnapshotGap seconds is on disk, unless the last one could   *)
(* not be written.  The inductive invariant says that stamps lie in the    *)
(* past, that pruning, the button and restarts leave a snapshot as young   *)
(* as the last of handle, and that findings wait only during a poll.       *)
(***************************************************************************)

LEMMA LeastNumber ==
  ASSUME NEW T \in SUBSET Nat, T # {}
  PROVE  \E m \in T : \A n \in T : m <= n
<1>1. PICK m \in T : \A n \in T : ~(<<n, m>> \in OpToRel(<, Nat))
  BY NatLessThanWellFounded, WFMin
<1>2. \A n \in T : ~(n < m)
  BY <1>1 DEF OpToRel
<1> QED
  BY <1>2

\* The pruning leaves no more files than it should, and never deletes the newest:
\* if more were left, the oldest of them would have too many newer ones.
LEMMA PruningBounds ==
  ASSUME NEW stamps \in SUBSET Nat, IsFiniteSet(stamps), KernWatchAssumption
  PROVE  /\ NewestKept(stamps) \subseteq stamps
         /\ Cardinality(NewestKept(stamps)) <= SnapshotsKept
         /\ \A s \in stamps : (\A r \in stamps : r <= s) => s \in NewestKept(stamps)
<1> DEFINE left == NewestKept(stamps)
<1>1. SnapshotsKept \in Nat \ {0}
  BY DEF KernWatchAssumption
<1>2. left \subseteq stamps /\ IsFiniteSet(left) /\ Cardinality(left) \in Nat
  <2>1. left \subseteq stamps
    BY DEF NewestKept
  <2> QED
    BY <2>1, FS_Subset, FS_CardinalityType
<1>3. Cardinality(left) <= SnapshotsKept
  <2>1. CASE left = {}
    BY <1>1, <2>1, FS_EmptySet
  <2>2. CASE left # {}
    <3>1. PICK m \in left : \A n \in left : m <= n
      BY <1>2, <2>2, LeastNumber
    <3> DEFINE newer == {r \in stamps : r > m}
    <3>2. left \ {m} \subseteq newer
      <4> SUFFICES ASSUME NEW n \in left, n # m PROVE n \in stamps /\ n > m
        OBVIOUS
      <4>1. n \in Nat /\ m \in Nat /\ n \in stamps /\ m <= n
        BY <1>2, <3>1
      <4> QED
        BY <4>1
    <3>3. /\ Cardinality(newer) \in Nat
          /\ Cardinality(left \ {m}) <= Cardinality(newer)
      <4>1. newer \in SUBSET stamps
        OBVIOUS
      <4>2. IsFiniteSet(newer)
        BY <4>1, FS_Subset
      <4> HIDE DEF newer
      <4> QED
        BY <3>2, <4>2, FS_Subset, FS_CardinalityType
    <3>4. Cardinality(newer) < SnapshotsKept
      BY <3>1 DEF NewestKept
    <3> HIDE DEF newer
    <3>5. Cardinality(left \ {m}) = Cardinality(left) - 1
      BY <1>2, <3>1, FS_RemoveElement
    <3> QED
      BY <1>1, <1>2, <3>3, <3>4, <3>5
  <2> QED
    BY <2>1, <2>2
<1>4. ASSUME NEW s \in stamps, \A r \in stamps : r <= s
      PROVE  s \in left
  <2> DEFINE newer == {r \in stamps : r > s}
  <2>1. newer = {}
    <3>1. \A r \in stamps : ~(r > s)
      BY <1>4
    <3> QED
      BY <3>1
  <2>2. Cardinality(newer) = 0
    BY <2>1, FS_EmptySet
  <2> QED
    BY <1>1, <2>2 DEF NewestKept
<1> QED
  BY <1>2, <1>3, <1>4

-----------------------------------------------------------------------------
(* The inductive invariant *)

\* No file is from the future.
StampsArePast == (\A s \in snapshots : s <= kernClock) /\ lastSnapshot <= kernClock

\* Pruning, the button and restarts leave a snapshot as young as the last one of
\* handle(), unless that one could not be written.
LastIsOnDisk ==
  lastSnapshot # Never /\ ~unwritten => \E s \in snapshots : s >= lastSnapshot

\* Findings wait only while a poll handles them.
WaitInPolls == kern # "polling" => todo = {}

KernInv == KernTypeOK /\ StampsArePast /\ LastIsOnDisk /\ WaitInPolls

LEMMA KernTypes ==
  ASSUME KernTypeOK
  PROVE  /\ kernClock \in Nat /\ MaxKernTime \in Nat /\ kernClock <= MaxKernTime
         /\ SnapshotGap \in Nat /\ FixGap \in Nat /\ SnapshotsKept \in Nat \ {0}
         /\ Never \in Int /\ Never < 0 /\ Never < kernClock - SnapshotGap
         /\ snapshots \in SUBSET Nat /\ IsFiniteSet(snapshots)
         /\ lastSnapshot \in {Never} \cup 0 .. MaxKernTime
         /\ lastFix \in {Never} \cup 0 .. MaxKernTime
<1>1. snapshots \in SUBSET (0 .. MaxKernTime) /\ MaxKernTime \in Nat
  BY KernWatchAssumption DEF KernTypeOK, KernWatchAssumption
<1>2. IsFiniteSet(snapshots)
  <2>1. IsFiniteSet(0 .. MaxKernTime)
    BY <1>1, FS_Interval
  <2> QED
    BY <1>1, <2>1, FS_Subset
<1> QED
  BY <1>1, <1>2, KernWatchAssumption DEF KernTypeOK, Never, KernWatchAssumption

\* A snapshot leaves the files in their bounds, with its own among them.
LEMMA CapturedFits ==
  ASSUME KernTypeOK, StampsArePast, NEW written \in BOOLEAN
  PROVE  /\ Captured(written) \in SUBSET (0 .. MaxKernTime)
         /\ Cardinality(Captured(written)) <= SnapshotsKept
         /\ \A s \in Captured(written) : s <= kernClock
         /\ written => kernClock \in Captured(written)
         /\ ~written => Captured(written) = snapshots
<1> DEFINE all == snapshots \cup {kernClock}
<1>1. /\ snapshots \in SUBSET (0 .. MaxKernTime) /\ Cardinality(snapshots) <= SnapshotsKept
      /\ \A s \in snapshots : s <= kernClock
  BY DEF KernTypeOK, StampsArePast
<1>2. /\ all \in SUBSET Nat /\ IsFiniteSet(all) /\ all \in SUBSET (0 .. MaxKernTime)
      /\ kernClock \in all /\ \A s \in all : s <= kernClock
  <2>1. /\ kernClock \in Nat /\ kernClock <= MaxKernTime /\ MaxKernTime \in Nat
        /\ IsFiniteSet(snapshots)
    BY KernTypes
  <2>2. IsFiniteSet(all)
    BY <2>1, FS_AddElement
  <2> QED
    BY <1>1, <2>1, <2>2
<1>3. /\ NewestKept(all) \subseteq all /\ Cardinality(NewestKept(all)) <= SnapshotsKept
      /\ kernClock \in NewestKept(all)
  BY <1>2, PruningBounds, KernWatchAssumption
<1>4. CASE written
  BY <1>2, <1>3, <1>4 DEF Captured
<1>5. CASE ~written
  BY <1>1, <1>5 DEF Captured
<1> QED
  BY <1>4, <1>5

LEMMA KernInvInit == KernInit => KernInv
<1> SUFFICES ASSUME KernInit PROVE KernInv
  OBVIOUS
<1>1. Cardinality({}) <= SnapshotsKept
  BY FS_EmptySet, KernWatchAssumption DEF KernWatchAssumption
<1>2. Never < 0 /\ Never \in Int
  BY KernWatchAssumption DEF Never, KernWatchAssumption
<1>3. ownThread \in BOOLEAN /\ cursor \in BOOLEAN /\ unwritten \in BOOLEAN
  BY DEF KernInit
<1>4. kernClock \in 0 .. MaxKernTime /\ manual \in 0 .. MaxManual
  BY KernWatchAssumption DEF KernInit, KernWatchAssumption
<1>5. {todo, unrecorded} \subseteq SUBSET Finding /\ pressure \in SUBSET Precursor
  BY DEF KernInit
<1>6. KernTypeOK
  BY <1>1, <1>3, <1>4, <1>5 DEF KernInit, KernTypeOK
<1> QED
  BY <1>2, <1>6 DEF KernInit, KernInv, StampsArePast, LastIsOnDisk, WaitInPolls

\* What happens to the snapshots keeps their part of the invariant.
LEMMA SnapshotStep ==
  ASSUME KernTypeOK, StampsArePast, LastIsOnDisk, UNCHANGED kernClock,
         NEW written \in BOOLEAN, snapshots' = Captured(written),
         \/ lastSnapshot' = kernClock /\ unwritten' = ~written
         \/ UNCHANGED <<lastSnapshot, unwritten>>
  PROVE  StampsArePast' /\ LastIsOnDisk'
<1>1. /\ \A s \in snapshots' : s <= kernClock
      /\ written => kernClock \in snapshots'
      /\ ~written => snapshots' = snapshots
      /\ kernClock \in Nat /\ lastSnapshot <= kernClock
  BY CapturedFits, KernTypes DEF StampsArePast
<1>2. StampsArePast'
  BY <1>1 DEF StampsArePast
<1>3. ASSUME written PROVE LastIsOnDisk'
  <2>1. kernClock \in snapshots' /\ kernClock >= lastSnapshot'
    BY <1>1, <1>3
  <2> QED
    BY <2>1 DEF LastIsOnDisk
<1>4. ASSUME ~written PROVE LastIsOnDisk'
  <2>1. snapshots' = snapshots
    BY <1>1, <1>4
  <2>2. unwritten' \/ UNCHANGED <<lastSnapshot, unwritten>>
    BY <1>4
  <2> QED
    BY <2>1, <2>2 DEF LastIsOnDisk
<1> QED
  BY <1>2, <1>3, <1>4

\* One finding of a poll: only a snapshot that is due touches the files.
LEMMA HandleStep ==
  ASSUME KernInv, NEW f \in Finding, NEW written \in BOOLEAN, NEW freed \in BOOLEAN,
         Handle(f, written, freed)
  PROVE  KernInv'
<1>0. KernTypeOK /\ StampsArePast /\ LastIsOnDisk /\ WaitInPolls
  BY DEF KernInv
<1>1. UNCHANGED <<ownThread, kernClock, kernLog, cursor, kern, manual>>
  BY DEF Handle
<1>2. todo' \in SUBSET Finding /\ unrecorded' \in SUBSET Finding
  BY <1>0 DEF Handle, Record, KernTypeOK
<1>3. lastFix' \in {Never} \cup 0 .. MaxKernTime /\ pressure' \in SUBSET Precursor
  BY <1>0, KernTypes DEF Handle, KernTypeOK
<1>4. /\ snapshots' \in SUBSET (0 .. MaxKernTime) /\ Cardinality(snapshots') <= SnapshotsKept
      /\ lastSnapshot' \in {Never} \cup 0 .. MaxKernTime /\ unwritten' \in BOOLEAN
      /\ StampsArePast' /\ LastIsOnDisk'
  <2>1. CASE SnapshotDue(f)
    <3>1. lastSnapshot' = kernClock /\ snapshots' = Captured(written) /\ unwritten' = ~written
      BY <2>1 DEF Handle
    <3> QED
      BY <1>0, <1>1, <3>1, CapturedFits, SnapshotStep, KernTypes
  <2>2. CASE ~SnapshotDue(f)
    <3>1. UNCHANGED <<lastSnapshot, snapshots, unwritten>>
      BY <2>2 DEF Handle
    <3> QED
      BY <1>0, <1>1, <3>1 DEF KernTypeOK, StampsArePast, LastIsOnDisk
  <2> QED
    BY <2>1, <2>2
<1>5. KernTypeOK'
  BY <1>0, <1>1, <1>2, <1>3, <1>4 DEF KernTypeOK
<1>6. WaitInPolls'
  BY <1>1 DEF Handle, WaitInPolls
<1> QED
  BY <1>4, <1>5, <1>6 DEF KernInv

\* The steps that touch neither the snapshots nor the clock.
LEMMA QuietKernStep ==
  ASSUME KernTypeOK, StampsArePast, LastIsOnDisk,
         UNCHANGED <<ownThread, kernClock, snapshots, unrecorded, manual>>,
         \/ UNCHANGED <<lastSnapshot, lastFix, unwritten>>
         \/ lastSnapshot' = Never /\ lastFix' = Never /\ unwritten' = FALSE,
         cursor' \in BOOLEAN, kern' \in {"off", "sleeping", "polling"},
         kernLog' \in SUBSET Fault, pressure' \in SUBSET Precursor, todo' \in SUBSET Finding,
         kern' # "polling" => todo' = {}
  PROVE  KernInv'
<1>1. unwritten' \in BOOLEAN /\ {lastSnapshot', lastFix'} \subseteq {Never} \cup 0 .. MaxKernTime
  BY DEF KernTypeOK
<1>2. KernTypeOK'
  BY <1>1 DEF KernTypeOK
<1>3. StampsArePast' /\ LastIsOnDisk'
  BY KernTypes DEF StampsArePast, LastIsOnDisk
<1> QED
  BY <1>2, <1>3 DEF KernInv, WaitInPolls

LEMMA KernInvStep == KernInv /\ [KernNext]_kernVars => KernInv'
<1> SUFFICES ASSUME KernInv, [KernNext]_kernVars PROVE KernInv'
  OBVIOUS
<1>0. KernTypeOK /\ StampsArePast /\ LastIsOnDisk /\ WaitInPolls
  BY DEF KernInv
<1>t. /\ cursor \in BOOLEAN /\ kern \in {"off", "sleeping", "polling"}
      /\ kernLog \in SUBSET Fault /\ pressure \in SUBSET Precursor /\ todo \in SUBSET Finding
      /\ kern # "polling" => todo = {}
  BY <1>0 DEF KernTypeOK, WaitInPolls
<1>1. CASE ManualSnapshot
  <2>1. PICK written \in BOOLEAN : snapshots' = Captured(written)
    BY <1>1 DEF ManualSnapshot
  <2>2. manual' \in 0 .. MaxManual
    BY <1>0, <1>1, KernWatchAssumption DEF ManualSnapshot, KernTypeOK, KernWatchAssumption
  <2>3. /\ UNCHANGED <<ownThread, kernClock, kernLog, pressure, cursor, kern, todo,
                       lastSnapshot, lastFix, unwritten, unrecorded>>
        /\ snapshots' \in SUBSET (0 .. MaxKernTime) /\ Cardinality(snapshots') <= SnapshotsKept
    BY <1>0, <1>1, <2>1, CapturedFits DEF ManualSnapshot
  <2>4. KernTypeOK'
    BY <1>0, <2>2, <2>3 DEF KernTypeOK
  <2>5. StampsArePast' /\ LastIsOnDisk'
    BY <1>0, <2>1, <2>3, SnapshotStep
  <2>6. WaitInPolls'
    BY <1>0, <2>3 DEF WaitInPolls
  <2> QED
    BY <2>4, <2>5, <2>6 DEF KernInv
<1>2. ASSUME NEW ok \in BOOLEAN, StartKern(ok) PROVE KernInv'
  BY <1>0, <1>t, <1>2, QuietKernStep DEF StartKern, LogLeft
<1>3. ASSUME NEW ok \in BOOLEAN, Poll(ok) PROVE KernInv'
  <2>1. todo' \in SUBSET Finding /\ kernLog' \in SUBSET Fault
    BY <1>t, <1>3 DEF Poll, NewLines, LogLeft, Finding
  <2> QED
    BY <1>0, <1>t, <1>3, <2>1, QuietKernStep DEF Poll
<1>4. ASSUME NEW f \in Finding, NEW written \in BOOLEAN, NEW freed \in BOOLEAN,
             Handle(f, written, freed)
      PROVE  KernInv'
  BY <1>4, HandleStep
<1>5. CASE PollEnds
  BY <1>0, <1>t, <1>5, QuietKernStep DEF PollEnds
<1>6. ASSUME NEW f \in Fault, KernelLogs(f) PROVE KernInv'
  BY <1>0, <1>t, <1>6, QuietKernStep DEF KernelLogs
<1>7. ASSUME NEW c \in Precursor, PressureChanges(c) PROVE KernInv'
  BY <1>0, <1>t, <1>7, QuietKernStep DEF PressureChanges
<1>8. CASE KernTick
  <2>1. kernClock' = kernClock + 1 /\ kernClock' \in 0 .. MaxKernTime
    BY <1>0, <1>8, KernTypes DEF KernTick
  <2>2. /\ UNCHANGED <<ownThread, kernLog, pressure, cursor, kern, todo, lastSnapshot,
                       lastFix, snapshots, unwritten, unrecorded, manual>>
    BY <1>8 DEF KernTick
  <2>3. KernTypeOK'
    BY <1>0, <2>1, <2>2 DEF KernTypeOK
  <2>4. StampsArePast' /\ LastIsOnDisk'
    BY <1>0, <2>1, <2>2, KernTypes DEF StampsArePast, LastIsOnDisk
  <2>5. WaitInPolls'
    BY <1>0, <2>2 DEF WaitInPolls
  <2> QED
    BY <2>3, <2>4, <2>5 DEF KernInv
<1>9. CASE KernStops
  BY <1>0, <1>t, <1>9, QuietKernStep DEF KernStops
<1>10. CASE UNCHANGED kernVars
  BY <1>0, <1>t, <1>10, QuietKernStep DEF kernVars
<1> QED
  BY <1>1, <1>2, <1>3, <1>4, <1>5, <1>6, <1>7, <1>8, <1>9, <1>10 DEF KernNext

\* The variables keep their types, and there are never more than SnapshotsKept
\* snapshot files (KernWatcher, capture_snapshot).
THEOREM KernTypeCorrect == KernSpec => []KernTypeOK
<1>1. KernInv => KernTypeOK
  BY DEF KernInv
<1> QED
  BY <1>1, KernInvInit, KernInvStep, PTL DEF KernSpec

\* A finding of high severity that has been handled has a snapshot on disk that is
\* not older than SnapshotGap, unless the last one could not be written
\* (KernWatcher.handle, capture_snapshot).
THEOREM SnapshotIsAtHand == KernSpec => EvidenceAtHand
<1> DEFINE Step ==
      \A f \in todo \ todo' :
        kern' = "polling" /\ High(f) /\ ~unwritten' =>
          \E s \in snapshots' : kernClock - s <= SnapshotGap
<1>1. KernInv /\ [KernNext]_kernVars => [Step]_kernVars
  <2> SUFFICES ASSUME KernInv, KernNext,
                      NEW f \in todo \ todo', kern' = "polling", High(f), ~unwritten'
               PROVE  \E s \in snapshots' : kernClock - s <= SnapshotGap
    OBVIOUS
  <2>0. KernTypeOK /\ StampsArePast /\ LastIsOnDisk /\ WaitInPolls
    BY DEF KernInv
  <2>1. PICK g \in Finding, written \in BOOLEAN, freed \in BOOLEAN : Handle(g, written, freed)
    <3>1. todo' # todo /\ todo # {} /\ kern = "polling"
      BY <2>0 DEF WaitInPolls
    <3> QED
      BY <3>1 DEF KernNext, ManualSnapshot, StartKern, Poll, PollEnds, KernelLogs,
                  PressureChanges, KernTick, KernStops
  <2>2. g = f
    BY <2>1 DEF Handle
  <2>3. CASE SnapshotDue(f)
    <3>1. snapshots' = Captured(written) /\ unwritten' = ~written
      BY <2>1, <2>2, <2>3 DEF Handle
    <3>2. kernClock \in snapshots'
      BY <2>0, <3>1, CapturedFits
    <3> QED
      BY <2>0, <3>2, KernTypes
  <2>4. CASE ~SnapshotDue(f)
    <3>1. snapshots' = snapshots /\ unwritten' = unwritten
      BY <2>1, <2>2, <2>4 DEF Handle
    <3>2. kernClock - lastSnapshot <= SnapshotGap /\ lastSnapshot # Never
      BY <2>0, <2>4, KernTypes DEF SnapshotDue
    <3>3. PICK s \in snapshots : s >= lastSnapshot
      BY <2>0, <3>1, <3>2 DEF LastIsOnDisk
    <3> QED
      BY <2>0, <3>1, <3>2, <3>3, KernTypes
  <2> QED
    BY <2>3, <2>4
<1> QED
  BY <1>1, KernInvInit, KernInvStep, PTL DEF KernSpec, EvidenceAtHand

-----------------------------------------------------------------------------
(***************************************************************************)
(* ProcWatch: what a process is seen to match has an event of its rule,    *)
(* stored at most a suppression before it was first seen.  The inductive   *)
(* invariant says the same of what the last poll saw, ties each            *)
(* suppression to its event and dates the hits.                            *)
(***************************************************************************)

\* A rule is suppressed for PollSuppress polls after an event of it that is stored,
\* and for nothing else.
SuppressedByEvent ==
  \A r \in ProcRule :
    /\ stored[r] <= polls
    /\ procSuppress[r] # 0 => stored[r] # -1 /\ procSuppress[r] = stored[r] + PollSuppress

\* Every hit the last poll saw has a first poll.
HitsAreDated ==
  /\ \A p \in Pid : firstSeen[p] <= polls
  /\ \A h \in seenProc : h[2] # NoHit => firstSeen[h[1]] # -1

\* HitsAreStored for what a process matches now and for what it matched at the last
\* poll: it may match the same again before the next.
SeenAreStored ==
  \A h \in seenProc :
    firstSeen[h[1]] # -1 =>
      stored[h[2]] # -1 /\ stored[h[2]] > firstSeen[h[1]] - PollSuppress

ProcInv == ProcTypeOK /\ SuppressedByEvent /\ HitsAreDated /\ SeenAreStored

\* What an event that is due does to the table and to the suppression of its rule.
LEMMA StoresFits ==
  ASSUME ProcTypeOK, SuppressedByEvent, NEW rules, Stores(rules)
  PROVE  /\ stored' \in [ProcRule -> PollTime] /\ procSuppress' \in [ProcRule -> Nat]
         /\ \A r \in ProcRule :
              /\ stored'[r] <= polls
              /\ procSuppress'[r] # 0 =>
                   stored'[r] # -1 /\ procSuppress'[r] = stored'[r] + PollSuppress
              /\ stored[r] # -1 => stored'[r] # -1 /\ stored'[r] >= stored[r]
              /\ r \in rules => stored'[r] # -1 /\ stored'[r] > polls - PollSuppress
<1> DEFINE due == {r \in rules : DueNow(r)}
<1>1. /\ polls \in 0 .. MaxPolls /\ PollSuppress \in Nat \ {0} /\ MaxPolls \in Nat
      /\ stored \in [ProcRule -> PollTime] /\ procSuppress \in [ProcRule -> Nat]
  BY ProcWatchAssumption DEF ProcTypeOK
<1>2. /\ stored' = [r \in ProcRule |-> IF r \in due THEN polls ELSE stored[r]]
      /\ procSuppress' = [r \in ProcRule |->
           IF r \in due THEN polls + PollSuppress ELSE procSuppress[r]]
  BY DEF Stores
<1>3. ASSUME NEW r \in ProcRule
      PROVE  /\ stored[r] \in PollTime /\ procSuppress[r] \in Nat
             /\ stored[r] <= polls
             /\ procSuppress[r] # 0 =>
                  stored[r] # -1 /\ procSuppress[r] = stored[r] + PollSuppress
             /\ r \in rules /\ r \notin due => procSuppress[r] > polls
  BY <1>1, <1>3 DEF SuppressedByEvent, DueNow
<1> HIDE DEF due
<1>4. stored' \in [ProcRule -> PollTime] /\ procSuppress' \in [ProcRule -> Nat]
  BY <1>1, <1>2, <1>3 DEF PollTime
<1>5. ASSUME NEW r \in ProcRule
      PROVE  /\ stored'[r] <= polls
             /\ procSuppress'[r] # 0 =>
                  stored'[r] # -1 /\ procSuppress'[r] = stored'[r] + PollSuppress
             /\ stored[r] # -1 => stored'[r] # -1 /\ stored'[r] >= stored[r]
             /\ r \in rules => stored'[r] # -1 /\ stored'[r] > polls - PollSuppress
  <2>1. CASE r \in due
    BY <1>1, <1>2, <1>3, <2>1 DEF PollTime
  <2>2. CASE r \notin due
    BY <1>1, <1>2, <1>3, <2>2 DEF PollTime
  <2> QED
    BY <2>1, <2>2
<1> QED
  BY <1>4, <1>5

LEMMA ProcInvInit == ProcInit => ProcInv
<1> SUFFICES ASSUME ProcInit PROVE ProcInv
  OBVIOUS
<1>1. /\ firstSeen \in [Pid -> PollTime] /\ stored \in [ProcRule -> PollTime]
      /\ procSuppress \in [ProcRule -> Nat] /\ process \in [Pid -> Signature \cup {NoHit}]
  BY ProcWatchAssumption DEF ProcInit, PollTime
<1>2. ProcTypeOK
  <2>1. polls \in 0 .. MaxPolls /\ seenProc \subseteq Hits
    BY ProcWatchAssumption DEF ProcInit
  <2>2. primed \in BOOLEAN
    BY DEF ProcInit
  <2>3. {dests, egressSeen, kept, reported} \subseteq SUBSET Dest
    BY DEF ProcInit
  <2> QED
    BY <1>1, <2>1, <2>2, <2>3 DEF ProcTypeOK
<1> QED
  BY <1>1, <1>2 DEF ProcInit, ProcInv, SuppressedByEvent, HitsAreDated, SeenAreStored

LEMMA ProcPollStep ==
  ASSUME ProcInv, NEW d \in Dest, ProcPoll(d)
  PROVE  ProcInv'
<1> DEFINE new == {h[2] : h \in Live \ seenProc}
           strange == IF primed THEN dests \ egressSeen ELSE {}
           egress == IF strange = {} THEN {} ELSE {Egress}
<1>1. /\ ProcTypeOK /\ SuppressedByEvent /\ HitsAreDated /\ SeenAreStored
      /\ polls \in 0 .. MaxPolls /\ PollSuppress \in Nat \ {0} /\ MaxPolls \in Nat
      /\ firstSeen \in [Pid -> PollTime] /\ process \in [Pid -> Signature \cup {NoHit}]
      /\ seenProc \subseteq Hits
  BY ProcWatchAssumption DEF ProcInv, ProcTypeOK
<1>2. /\ Stores(new \cup egress)
      /\ seenProc' = Live
      /\ firstSeen' = [p \in Pid |->
           IF process[p] = NoHit THEN -1
           ELSE IF <<p, process[p]>> \in seenProc /\ firstSeen[p] # -1 THEN firstSeen[p]
           ELSE polls]
      /\ UNCHANGED <<polls, process, dests>>
  BY DEF ProcPoll, Remembered
<1>3. /\ stored' \in [ProcRule -> PollTime] /\ procSuppress' \in [ProcRule -> Nat]
      /\ \A r \in ProcRule :
           /\ stored'[r] <= polls
           /\ procSuppress'[r] # 0 =>
                stored'[r] # -1 /\ procSuppress'[r] = stored'[r] + PollSuppress
           /\ stored[r] # -1 => stored'[r] # -1 /\ stored'[r] >= stored[r]
           /\ r \in new \cup egress => stored'[r] # -1 /\ stored'[r] > polls - PollSuppress
  BY <1>1, <1>2, StoresFits
<1>4. stored \in [ProcRule -> PollTime]
  BY <1>1 DEF ProcTypeOK
<1>5. ProcTypeOK'
  <2>1. seenProc' \subseteq Hits
    BY <1>2 DEF Live
  <2>2. firstSeen' \in [Pid -> PollTime]
    BY <1>1, <1>2 DEF PollTime
  <2>3. egressSeen' \in SUBSET Dest /\ kept' \in SUBSET Dest /\ reported' \in SUBSET Dest
    BY <1>1 DEF ProcPoll, ProcTypeOK
  <2>4. primed' \in BOOLEAN
    BY DEF ProcPoll
  <2> QED
    BY <1>1, <1>2, <1>3, <2>1, <2>2, <2>3, <2>4 DEF ProcTypeOK
<1>6. SuppressedByEvent'
  BY <1>2, <1>3 DEF SuppressedByEvent
<1>7. HitsAreDated'
  <2>1. \A p \in Pid : firstSeen'[p] <= polls'
    BY <1>1, <1>2 DEF HitsAreDated, PollTime
  <2>2. ASSUME NEW h \in seenProc', h[2] # NoHit PROVE firstSeen'[h[1]] # -1
    <3>1. h[1] \in Pid /\ process[h[1]] = h[2]
      BY <1>2, <2>2 DEF Live, Hits
    <3> QED
      BY <1>1, <1>2, <2>2, <3>1
  <2> QED
    BY <2>1, <2>2 DEF HitsAreDated
<1>8. SeenAreStored'
  <2> SUFFICES ASSUME NEW h \in seenProc', firstSeen'[h[1]] # -1
               PROVE  stored'[h[2]] # -1 /\ stored'[h[2]] > firstSeen'[h[1]] - PollSuppress
    BY DEF SeenAreStored
  <2>1. /\ h \in Live /\ h[1] \in Pid /\ h[2] \in Signature /\ h[2] \in ProcRule
        /\ process[h[1]] = h[2] /\ h = <<h[1], h[2]>>
    BY <1>2 DEF Live, Hits, ProcRule
  <2>2. process[h[1]] # NoHit
    BY <1>2, <2>1
  <2>3. CASE h \notin seenProc
    <3>1. h[2] \in new
      BY <2>1, <2>3
    <3>2. firstSeen'[h[1]] = polls
      BY <1>2, <2>1, <2>2, <2>3
    <3> QED
      BY <1>3, <2>1, <3>1, <3>2
  <2>4. CASE h \in seenProc
    <3>1. firstSeen[h[1]] # -1
      BY <1>1, <2>1, <2>2, <2>4 DEF HitsAreDated
    <3>2. firstSeen'[h[1]] = firstSeen[h[1]]
      BY <1>2, <2>1, <2>2, <2>4, <3>1
    <3>3. stored[h[2]] # -1 /\ stored[h[2]] > firstSeen[h[1]] - PollSuppress
      BY <1>1, <2>1, <2>4, <3>1 DEF SeenAreStored
    <3>4. /\ stored'[h[2]] # -1 /\ stored'[h[2]] >= stored[h[2]]
          /\ stored[h[2]] \in Int /\ stored'[h[2]] \in Int /\ firstSeen[h[1]] \in Int
      BY <1>1, <1>3, <1>4, <2>1, <3>3 DEF PollTime
    <3> QED
      BY <1>1, <3>2, <3>3, <3>4
  <2> QED
    BY <2>3, <2>4
<1> QED
  BY <1>5, <1>6, <1>7, <1>8 DEF ProcInv

LEMMA ProcInvStep == ProcInv /\ [ProcNext]_procVars => ProcInv'
<1> SUFFICES ASSUME ProcInv, [ProcNext]_procVars PROVE ProcInv'
  OBVIOUS
<1>0. ProcTypeOK /\ SuppressedByEvent /\ HitsAreDated /\ SeenAreStored
  BY DEF ProcInv
<1>1. ASSUME NEW d \in Dest, ProcPoll(d) PROVE ProcInv'
  BY <1>1, ProcPollStep
<1>2. ASSUME NEW d \in Dest, ConnectionsChange(d) PROVE ProcInv'
  <2>1. dests' \in SUBSET Dest
    BY <1>0, <1>2 DEF ConnectionsChange, ProcTypeOK
  <2> QED
    BY <1>0, <1>2, <2>1
    DEF ConnectionsChange, ProcInv, ProcTypeOK, SuppressedByEvent, HitsAreDated, SeenAreStored
<1>3. ASSUME NEW p \in Pid, NEW hit \in Signature \cup {NoHit}, ProcessChanges(p, hit)
      PROVE  ProcInv'
  <2>1. process' \in [Pid -> Signature \cup {NoHit}]
    BY <1>0, <1>3 DEF ProcessChanges, ProcTypeOK
  <2> QED
    BY <1>0, <1>3, <2>1
    DEF ProcessChanges, ProcInv, ProcTypeOK, SuppressedByEvent, HitsAreDated, SeenAreStored
<1>4. CASE ProcRestart
  <2>1. /\ firstSeen' \in [Pid -> PollTime] /\ procSuppress' \in [ProcRule -> Nat]
        /\ egressSeen' \in SUBSET Dest /\ primed' \in BOOLEAN /\ seenProc' \subseteq Hits
        /\ \A p \in Pid : firstSeen'[p] <= polls
    BY <1>0, <1>4, ProcWatchAssumption DEF ProcRestart, ProcTypeOK, PollTime
  <2>2. ProcTypeOK'
    BY <1>0, <1>4, <2>1 DEF ProcRestart, ProcTypeOK
  <2>3. SuppressedByEvent' /\ HitsAreDated' /\ SeenAreStored'
    BY <1>0, <1>4, <2>1 DEF ProcRestart, SuppressedByEvent, HitsAreDated, SeenAreStored
  <2> QED
    BY <2>2, <2>3 DEF ProcInv
<1>5. CASE ProcTick
  <2>1. polls \in Nat /\ polls' \in 0 .. MaxPolls /\ polls' = polls + 1
    BY <1>0, <1>5, ProcWatchAssumption DEF ProcTick, ProcTypeOK
  <2>2. ProcTypeOK'
    BY <1>0, <1>5, <2>1 DEF ProcTick, ProcTypeOK
  <2>3. /\ \A r \in ProcRule : stored[r] <= polls => stored[r] <= polls'
        /\ \A p \in Pid : firstSeen[p] <= polls => firstSeen[p] <= polls'
    BY <1>0, <2>1 DEF ProcTypeOK, PollTime
  <2>4. SuppressedByEvent' /\ HitsAreDated' /\ SeenAreStored'
    BY <1>0, <1>5, <2>3 DEF ProcTick, SuppressedByEvent, HitsAreDated, SeenAreStored
  <2> QED
    BY <2>2, <2>4 DEF ProcInv
<1>6. CASE UNCHANGED procVars
  BY <1>0, <1>6
  DEF procVars, ProcInv, ProcTypeOK, SuppressedByEvent, HitsAreDated, SeenAreStored
<1> QED
  BY <1>1, <1>2, <1>3, <1>4, <1>5, <1>6 DEF ProcNext

\* The variables keep their types (ProcWatcher, Engine.suppress).
THEOREM ProcTypeCorrect == ProcSpec => []ProcTypeOK
<1>1. ProcInv => ProcTypeOK
  BY DEF ProcInv
<1> QED
  BY <1>1, ProcInvInit, ProcInvStep, PTL DEF ProcSpec

\* A suspicious process the polls see has an event of its rule, not older than the
\* suppression when the process first showed (ProcWatcher.check, Engine._event).
THEOREM HitsHaveEvents == ProcSpec => []HitsAreStored
<1>1. ProcInv => HitsAreStored
  BY DEF ProcInv, SeenAreStored, HitsAreStored
<1> QED
  BY <1>1, ProcInvInit, ProcInvStep, PTL DEF ProcSpec

\* What the table keeps of the baseline is in memory too, and nothing was reported
\* that it does not keep.
BaselineIsKept == kept \subseteq egressSeen /\ reported \subseteq kept /\ (~primed => kept = {})

LEMMA BaselineStep == BaselineIsKept /\ [ProcNext]_procVars => BaselineIsKept'
<1> SUFFICES ASSUME BaselineIsKept, [ProcNext]_procVars PROVE BaselineIsKept'
  OBVIOUS
<1>1. ASSUME NEW d \in Dest, ProcPoll(d) PROVE BaselineIsKept'
  <2>1. /\ egressSeen' = egressSeen \cup dests /\ primed' = TRUE
        /\ kept' = egressSeen' \/ kept' = kept
        /\ \/ reported' = reported
           \/ kept' = egressSeen' /\ reported' \subseteq reported \cup dests
    BY <1>1 DEF ProcPoll
  <2> QED
    BY <2>1 DEF BaselineIsKept
<1>2. CASE ProcRestart
  BY <1>2 DEF ProcRestart, BaselineIsKept
<1>3. ASSUME \/ \E d \in Dest : ConnectionsChange(d)
             \/ \E p \in Pid, hit \in Signature \cup {NoHit} : ProcessChanges(p, hit)
             \/ ProcTick \/ UNCHANGED procVars
      PROVE  BaselineIsKept'
  BY <1>3 DEF ConnectionsChange, ProcessChanges, ProcTick, procVars, BaselineIsKept
<1> QED
  BY <1>1, <1>2, <1>3 DEF ProcNext

\* A destination that was reported is in the baseline of the table and in that of a
\* watcher that compares.
ReportsAreLearned == reported \subseteq kept /\ (primed => reported \subseteq egressSeen)

\* A destination that was reported is never news again, whatever restarts come
\* between: only what is not in the baseline counts as new (ProcWatcher.check, run).
THEOREM ReportsStayKnown == ProcSpec => []ReportsAreLearned
<1>1. ProcInit => BaselineIsKept
  BY DEF ProcInit, BaselineIsKept
<1>2. BaselineIsKept => ReportsAreLearned
  BY DEF BaselineIsKept, ReportsAreLearned
<1> QED
  BY <1>1, <1>2, BaselineStep, PTL DEF ProcSpec

\* The event of a poll that learns a new destination.
NewEgressHasEvent ==
  [][primed /\ egressSeen' \ egressSeen # {} =>
       stored'[Egress] # -1 /\ polls - stored'[Egress] < PollSuppress]_procVars

\* A poll that compares and learns a new destination leaves an event of the rule in
\* the table that is younger than the suppression, though not always one of that
\* destination, as the run "egress" shows (ProcWatcher.check, Engine._event).
THEOREM EgressHasEvent == ProcSpec => NewEgressHasEvent
<1>1. ProcInv /\ BaselineIsKept /\ [ProcNext]_procVars =>
        [primed /\ egressSeen' \ egressSeen # {} =>
           stored'[Egress] # -1 /\ polls - stored'[Egress] < PollSuppress]_procVars
  <2> SUFFICES ASSUME ProcInv, BaselineIsKept, ProcNext, primed, egressSeen' \ egressSeen # {}
               PROVE  stored'[Egress] # -1 /\ polls - stored'[Egress] < PollSuppress
    OBVIOUS
  <2>1. PICK d \in Dest : ProcPoll(d)
    <3>1. ~ProcRestart
      BY DEF ProcRestart, BaselineIsKept
    <3> QED
      BY <3>1 DEF ProcNext, ConnectionsChange, ProcessChanges, ProcTick
  <2>2. dests \ egressSeen # {}
    BY <2>1 DEF ProcPoll
  <2> DEFINE rules == {h[2] : h \in Live \ seenProc} \cup {Egress}
  <2>3. Stores(rules)
    BY <2>1, <2>2 DEF ProcPoll
  <2>4. ProcTypeOK /\ SuppressedByEvent /\ Egress \in ProcRule /\ Egress \in rules
    BY DEF ProcInv, ProcRule
  <2> HIDE DEF rules
  <2>5. /\ stored' \in [ProcRule -> PollTime]
        /\ stored'[Egress] # -1 /\ stored'[Egress] > polls - PollSuppress
    BY <2>3, <2>4, StoresFits
  <2>6. polls \in Int /\ PollSuppress \in Int /\ stored'[Egress] \in Int
    BY <2>4, <2>5, ProcWatchAssumption DEF ProcTypeOK, PollTime
  <2> QED
    BY <2>5, <2>6
<1>2. ProcInit => BaselineIsKept
  BY DEF ProcInit, BaselineIsKept
<1> QED
  BY <1>1, <1>2, BaselineStep, ProcInvInit, ProcInvStep, PTL DEF ProcSpec, NewEgressHasEvent
=============================================================================
