------------------------------ MODULE LogTail ------------------------------
(***************************************************************************)
(* From the proxy's access log to the database: the generator that follows *)
(* the file (tailer.follow), the task that feeds its lines to the          *)
(* detection engine (web.tail_task), the engine's buffers and their flush  *)
(* into SQLite (Engine.feed, _event, maybe_flush), the size-based rotation *)
(* (tailer.rotate_if_needed) and the proxy that writes the log.            *)
(*                                                                         *)
(* One step of the task runs from one await to the next: it handles one    *)
(* line, or finds the end of the file, and flushes if five seconds are     *)
(* over.  The proxy is another process and writes between any two steps.   *)
(* Lines are numbered in the order they are written; an inode number is    *)
(* not used again for another file.                                        *)
(***************************************************************************)
EXTENDS Integers, Sequences

CONSTANTS
  MaxLine,     \* bound of the lines written
  Noted,       \* the lines that raise an event
  MaxInode,    \* bound of the files created at the log's path
  MaxCuts,     \* bound of the truncations of the log in place
  Tears        \* the proxy may lose its file in the middle of a line

Line == 1 .. MaxLine
Inode == 1 .. MaxInode
NoInode == 0

ASSUME LogTailAssumption ==
  /\ MaxLine \in Nat
  /\ MaxInode \in Nat \ {0}
  /\ MaxCuts \in Nat
  /\ Noted \subseteq 1 .. MaxLine
  /\ Tears \in BOOLEAN

VARIABLES
  log,         \* log[f]: the complete lines of file f
  torn,        \* the files that end in an incomplete line
  written,     \* lines written so far
  files,       \* files created so far
  cuts,        \* truncations so far
  name,        \* the file at the log's path
  fd,          \* the file the proxy writes to
  signal,      \* the rotation has renamed the file and not yet signalled
  rd,          \* the file the tail has open
  pos,         \* how many of its lines the tail has read
  resume,      \* the saved place the next open may start from
  mem,         \* tail_states: the place after the last line handled
  buf,         \* traffic_buf: how often each line was counted since the flush
  tx,          \* the lines whose event is inserted and not committed
  counted,     \* the traffic tables: how often each line was counted
  noted,       \* the events table: the lines that have an event
  saved        \* the place in the meta table

disk == <<log, torn, written, files, cuts, name, fd>>
reader == <<rd, pos, resume>>
store == <<mem, buf, tx, counted, noted, saved>>
tailVars == <<disk, signal, reader, store>>

Place == [ino : Inode \cup {NoInode}, pos : Nat]
At(f, n) == [ino |-> f, pos |-> n]
Nowhere == At(NoInode, 0)
None == [l \in Line |-> 0]
Plus(f, g) == [l \in Line |-> f[l] + g[l]]

TailTypeOK ==
  /\ log \in [Inode -> Seq(Line)]
  /\ torn \in SUBSET Inode
  /\ written \in 0 .. MaxLine
  /\ files \in 0 .. MaxInode
  /\ cuts \in 0 .. MaxCuts
  /\ name \in 0 .. files
  /\ fd \in 0 .. files
  /\ signal \in BOOLEAN
  /\ rd \in 0 .. files
  /\ pos \in Nat
  /\ resume \in Place
  /\ mem \in Place
  /\ buf \in [Line -> Nat]
  /\ tx \in SUBSET Line
  /\ counted \in [Line -> Nat]
  /\ noted \in SUBSET Line
  /\ saved \in Place

TailInit ==
  /\ log = [f \in Inode |-> << >>]
  /\ torn = {} /\ written = 0 /\ files = 0 /\ cuts = 0
  /\ name = NoInode /\ fd = NoInode
  /\ signal = FALSE
  /\ rd = NoInode /\ pos = 0
  /\ resume = Nowhere /\ mem = Nowhere /\ saved = Nowhere
  /\ buf = None /\ counted = None
  /\ tx = {} /\ noted = {}

-----------------------------------------------------------------------------
(* The proxy *)

WriteLine ==
  /\ fd # NoInode /\ written < MaxLine
  /\ written' = written + 1
  /\ log' = [log EXCEPT ![fd] = Append(@, written + 1)]
  /\ torn' = torn \ {fd}
  /\ UNCHANGED <<files, cuts, name, fd, signal, reader, store>>

WritePart ==
  /\ fd # NoInode /\ fd \notin torn /\ written < MaxLine
  /\ torn' = torn \cup {fd}
  /\ UNCHANGED <<log, written, files, cuts, name, fd, signal, reader, store>>

\* It opens the file at the path, and creates it if there is none.
Reopen ==
  IF name # NoInode
  THEN fd' = name /\ UNCHANGED <<name, files>>
  ELSE /\ files < MaxInode
       /\ files' = files + 1
       /\ fd' = files' /\ name' = files'

WriterStarts ==
  /\ fd = NoInode
  /\ Reopen
  /\ UNCHANGED <<log, torn, written, cuts, signal, reader, store>>

WriterDies ==
  /\ fd # NoInode
  /\ fd \in torn => Tears
  /\ fd' = NoInode
  /\ UNCHANGED <<log, torn, written, files, cuts, name, signal, reader, store>>

\* Somebody empties the file in place.
Truncate ==
  /\ name # NoInode /\ cuts < MaxCuts
  /\ cuts' = cuts + 1
  /\ log' = [log EXCEPT ![name] = << >>]
  /\ torn' = torn \ {name}
  /\ UNCHANGED <<written, files, name, fd, signal, reader, store>>

-----------------------------------------------------------------------------
(* Rotation, from the maintenance task: rename, then signal the proxy. *)

Rename ==
  /\ ~signal
  /\ name # NoInode /\ log[name] # << >>
  /\ name' = NoInode
  /\ signal' = TRUE
  /\ UNCHANGED <<log, torn, written, files, cuts, fd, reader, store>>

Signal ==
  /\ signal
  /\ signal' = FALSE
  /\ fd # NoInode
  /\ fd \in torn => Tears
  /\ Reopen
  /\ UNCHANGED <<log, torn, written, cuts, reader, store>>

\* docker kill fails, which is only logged.
SignalFails ==
  /\ signal
  /\ signal' = FALSE
  /\ UNCHANGED <<disk, reader, store>>

-----------------------------------------------------------------------------
(* The tail task *)

\* The saved place is used for the first open, and only on the same file.
Start(f) == IF resume.ino = f /\ resume.pos <= Len(log[f]) THEN resume.pos ELSE 0

Open ==
  /\ rd = NoInode /\ name # NoInode
  /\ rd' = name
  /\ pos' = Start(name)
  /\ resume' = Nowhere
  /\ UNCHANGED <<disk, signal, store>>

\* A variant whose flush forgets to empty the buffer.
FlushTwice(seen, events, place) ==
  /\ counted' = Plus(counted, seen)
  /\ noted' = noted \cup events
  /\ saved' = place
  /\ buf' = seen /\ tx' = {}

\* maybe_flush(): one transaction for the traffic, the events and the place.
Flush(seen, events, place) ==
  /\ counted' = Plus(counted, seen)
  /\ noted' = noted \cup events
  /\ saved' = place
  /\ buf' = None /\ tx' = {}

Keep(seen, events) ==
  /\ buf' = seen /\ tx' = events
  /\ UNCHANGED <<counted, noted, saved>>

\* A variant that saves the place of every line and the traffic when it is due.
HandledEarly(seen, events, n, due) ==
  /\ mem' = At(rd, n) /\ saved' = At(rd, n)
  /\ IF due THEN /\ counted' = Plus(counted, seen) /\ noted' = noted \cup events
                 /\ buf' = None /\ tx' = {}
            ELSE buf' = seen /\ tx' = events /\ UNCHANGED <<counted, noted>>

\* tail_task() after one iteration: the place, then the flush when it is due.
Handled(seen, events, n, due) ==
  /\ mem' = At(rd, n)
  /\ IF due THEN Flush(seen, events, At(rd, n)) ELSE Keep(seen, events)

HandleLine(due) ==
  /\ rd # NoInode /\ pos < Len(log[rd])
  /\ pos' = pos + 1
  /\ LET l == log[rd][pos + 1] IN
       Handled([buf EXCEPT ![l] = @ + 1],
               tx \cup ({l} \cap Noted), pos + 1, due)
  /\ UNCHANGED <<disk, signal, rd, resume>>

\* A variant that keeps the file it has open.
AtEndStays(due) ==
  /\ rd # NoInode /\ pos >= Len(log[rd])
  /\ rd \in torn => pos # Len(log[rd])
  /\ Handled(buf, tx, pos, due)
  /\ UNCHANGED <<disk, signal, reader>>

\* At the end of the file: flush, then look whether the path names another
\* file or the file has shrunk.  An incomplete line is not the end.
AtEnd(due) ==
  /\ rd # NoInode /\ pos >= Len(log[rd])
  /\ rd \in torn => pos # Len(log[rd])
  /\ Handled(buf, tx, pos, due)
  /\ IF name # rd \/ pos > Len(log[rd])
     THEN rd' = NoInode /\ pos' = 0
     ELSE UNCHANGED <<rd, pos>>
  /\ UNCHANGED <<disk, signal, resume>>

\* The connection is shared: a ban, or another task's commit, commits the
\* events inserted so far without the traffic and the place.
Commit ==
  /\ tx # {}
  /\ noted' = noted \cup tx
  /\ tx' = {}
  /\ UNCHANGED <<disk, signal, reader, mem, buf, counted, saved>>

\* Secwatch stops, by a crash or not, and starts again from the meta table.
TailRestart ==
  /\ signal' = FALSE
  /\ rd' = NoInode /\ pos' = 0
  /\ resume' = saved
  /\ mem' = Nowhere /\ buf' = None /\ tx' = {}
  /\ UNCHANGED <<disk, counted, noted, saved>>

TailNext ==
  \/ WriteLine \/ WritePart \/ WriterStarts \/ WriterDies \/ Truncate
  \/ Rename \/ Signal \/ SignalFails
  \/ Open \/ Commit \/ TailRestart
  \/ \E due \in BOOLEAN : HandleLine(due) \/ AtEnd(due)

TailSpec == TailInit /\ [][TailNext]_tailVars

\* The event loop keeps running the tail, five seconds pass again and again
\* between two restarts, and the proxy ends a line it has begun.
TailFairness ==
  /\ WF_tailVars(Open)
  /\ SF_tailVars(HandleLine(TRUE) \/ AtEnd(TRUE))
  /\ WF_tailVars(fd \in torn /\ WriteLine)

TailFairSpec == TailSpec /\ TailFairness

-----------------------------------------------------------------------------
(* Properties *)

\* A request is never counted twice in the traffic tables: the traffic and the
\* place it was read up to are saved together, so neither a restart, nor a
\* rotation, nor a truncated file brings a counted line back (maybe_flush).
CountedOnce == \A l \in Line : counted[l] + buf[l] <= 1

\* The saved place is never ahead of what is saved: each line before it is in
\* the traffic tables and its event is in the events table, so a restart that
\* resumes there skips nothing (tail_task, maybe_flush).
NothingSkipped ==
  cuts = 0 /\ saved.ino # NoInode =>
    \A i \in 1 .. saved.pos :
      LET l == log[saved.ino][i] IN
        counted[l] = 1 /\ (l \in Noted => l \in noted)

\* A line of the file at the path is counted, unless the file is renamed or
\* emptied first or the proxy has left a line unfinished for good: the tail gets
\* through restarts, rotations and incomplete lines to the file the path names
\* (tailer.follow).
InCurrentFile(l) == name # NoInode /\ \E i \in DOMAIN log[name] : log[name][i] = l
Unfinished == torn \ {fd} # {}

LinesAreCounted ==
  \A l \in Line :
    InCurrentFile(l) ~> (counted[l] = 1 \/ ~InCurrentFile(l) \/ cuts > 0 \/ Unfinished)
=============================================================================
