------------------------------ MODULE FileWatch ------------------------------
(***************************************************************************)
(* File integrity (fimwatch.FimWatcher): the canary file of a tree, planted *)
(* at every start, and the script files of a served directory, compared    *)
(* every FIM_INTERVAL with the fim_baseline table.  Differences become     *)
(* events of one rule for all canaries and one for all files, which the    *)
(* engine suppresses for EVENT_SUPPRESS (Engine._event).                   *)
(*                                                                         *)
(* _plant_canaries() and check() contain no await: each is one step and    *)
(* one transaction.  The content of a file matters for the canary only.    *)
(***************************************************************************)
EXTENDS Integers

CONSTANTS
  File,            \* script or executable files of the served directory
  Content,         \* contents a canary may be given by somebody else
  Body,            \* CANARY_BODY
  Gone,            \* no canary; no row in the table
  Canaries,        \* a directory for canaries is configured and exists
  FileSuppress,
  MaxFileClock          \* bound of the clock

ASSUME FileWatchAssumption ==
  /\ Body \notin Content /\ Gone \notin Content \cup {Body}
  /\ Canaries \in BOOLEAN
  /\ FileSuppress \in Nat \ {0}
  /\ MaxFileClock \in Nat \ {0}

Rule == {"ransomware_canary", "webshell_dropped"}

VARIABLES
  fileClock,         \* the clock
  up,          \* secwatch runs and has planted its canary
  canary,      \* the canary on disk
  files,       \* the suspicious files on disk
  expected,    \* the canary's row in fim_baseline
  scanned,     \* the directory has a row in fim_baseline
  listedFiles,      \* the files of that row
  fileQuiet,    \* fileQuiet[r]: until when events of the rule are dropped
  newestFound       \* newestFound[r]: the newest event of the rule, or 0

disk == <<canary, files>>
table == <<expected, scanned, listedFiles, newestFound>>
fileVars == <<fileClock, up, disk, table, fileQuiet>>

Canary == Content \cup {Body, Gone}

FileTypeOK ==
  /\ fileClock \in 1 .. MaxFileClock
  /\ up \in BOOLEAN
  /\ canary \in Canary
  /\ files \in SUBSET File
  /\ expected \in Canary
  /\ scanned \in BOOLEAN
  /\ listedFiles \in SUBSET File
  /\ fileQuiet \in [Rule -> 0 .. MaxFileClock + FileSuppress]
  /\ newestFound \in [Rule -> 0 .. MaxFileClock]

FileInit ==
  /\ fileClock = 1
  /\ up = FALSE
  /\ canary = Gone
  /\ files \in SUBSET File
  /\ expected = Gone /\ scanned = FALSE /\ listedFiles = {}
  /\ fileQuiet = [r \in Rule |-> 0]
  /\ newestFound = [r \in Rule |-> 0]

\* A start, after a stop or a crash: a missing canary is written, and whatever
\* the file holds then becomes what is expected of it.
Start ==
  /\ ~up
  /\ up' = TRUE
  /\ fileQuiet' = [r \in Rule |-> 0]
  /\ canary' = IF Canaries /\ canary = Gone THEN Body ELSE canary
  /\ expected' = IF Canaries THEN canary' ELSE expected
  /\ UNCHANGED <<fileClock, files, scanned, listedFiles, newestFound>>

Stop ==
  /\ up
  /\ up' = FALSE
  /\ UNCHANGED <<fileClock, disk, table, fileQuiet>>

-----------------------------------------------------------------------------
(* check() *)

NeverChecked == expected = Gone /\ ~scanned
CanaryChanged == expected # Gone /\ canary # expected
Dropped == files \ listedFiles

\* A variant that takes a deleted canary for one that was never planted.
DueIfPresent ==
  {r \in Rule :
     /\ fileQuiet[r] <= fileClock
     /\ \/ r = "ransomware_canary" /\ CanaryChanged /\ canary # Gone
        \/ r = "webshell_dropped" /\ ~NeverChecked /\ Dropped # {}}

\* The rules that get an event.
Due ==
  {r \in Rule :
     /\ fileQuiet[r] <= fileClock
     /\ \/ r = "ransomware_canary" /\ CanaryChanged
        \/ r = "webshell_dropped" /\ ~NeverChecked /\ Dropped # {}}

\* The files of the directory's new row.
Relisted == files

\* A modified canary is expected from now on; a deleted one stays missed.
ExpectedNow == IF CanaryChanged /\ canary # Gone THEN canary ELSE expected

CheckFiles ==
  /\ up
  /\ fileQuiet' = [r \in Rule |-> IF r \in Due THEN fileClock + FileSuppress ELSE fileQuiet[r]]
  /\ newestFound' = [r \in Rule |-> IF r \in Due THEN fileClock ELSE newestFound[r]]
  /\ expected' = ExpectedNow
  /\ scanned' = TRUE
  /\ listedFiles' = Relisted
  /\ UNCHANGED <<fileClock, up, disk>>

-----------------------------------------------------------------------------
(* The world *)

\* Somebody modifies, deletes or restores the canary, once it was planted.
Tamper(c) ==
  /\ expected # Gone /\ c # canary
  /\ canary' = c
  /\ UNCHANGED <<fileClock, up, files, table, fileQuiet>>

Drop(f) ==
  /\ files' = files \cup {f}
  /\ UNCHANGED <<fileClock, up, canary, table, fileQuiet>>

Remove(f) ==
  /\ files' = files \ {f}
  /\ UNCHANGED <<fileClock, up, canary, table, fileQuiet>>

FileTick ==
  /\ fileClock < MaxFileClock
  /\ fileClock' = fileClock + 1
  /\ UNCHANGED <<up, disk, table, fileQuiet>>

FileNext ==
  \/ Start \/ Stop \/ CheckFiles \/ FileTick
  \/ \E c \in Canary : Tamper(c)
  \/ \E f \in File : Drop(f) \/ Remove(f)

FileSpec == FileInit /\ [][FileNext]_fileVars

-----------------------------------------------------------------------------
(* Properties *)

Recent(r) == newestFound'[r] # 0 /\ fileClock - newestFound'[r] < FileSuppress

\* What a check finds is behind an event of its rule that is not older than
\* EVENT_SUPPRESS: a new file that is no news to the next check, also one that
\* comes back after it was removed, a modified canary, and a deleted one at every
\* check until it is planted again (FimWatcher.check).
FoundIsRecorded ==
  [][/\ scanned /\ listedFiles' \ listedFiles # {} => Recent("webshell_dropped")
     /\ up /\ expected # Gone /\ expected' # expected => Recent("ransomware_canary")
     /\ CheckFiles /\ CanaryChanged => Recent("ransomware_canary")]_fileVars
=============================================================================
