--------------------------- MODULE DeliveryProofs ---------------------------
(***************************************************************************)
(* What the parts that bring something to its place promise, for every     *)
(* value of their constants: the log tail, the watchers of a host behind   *)
(* the agent link, the edge and its fire drill, and the events of a leaf.  *)
(***************************************************************************)
EXTENDS LogTail, AgentLink, EdgeDrill, Roster, SequenceTheorems, TLAPS

-----------------------------------------------------------------------------
(***************************************************************************)
(* What LogTail promises for any number of lines, files and truncations.   *)
(* The inductive invariant says where the lines lie (each in one place of  *)
(* one file, the files in the order of their creation) and that beyond a   *)
(* place nothing was counted: beyond the saved one in the tables, beyond   *)
(* the reader's in the tables and the buffer.                              *)
(***************************************************************************)

\* The i-th line of file g, which has n, will be read by a tail that goes on from
\* place: a file that has become shorter than the place is read from its start.
Beyond(place, g, i, n) ==
  \/ g > place.ino
  \/ g = place.ino /\ (i > place.pos \/ place.pos > n)

Unread(c, b, l) == c[l] = 0 /\ b[l] = 0

\* Each line lies in one place of one file that exists.
LinesLieOnce ==
  /\ \A g \in Inode : \A i \in 1 .. Len(log[g]) : log[g][i] \in 1 .. written
  /\ \A g, h \in Inode : \A i \in 1 .. Len(log[g]), j \in 1 .. Len(log[h]) :
       log[g][i] = log[h][j] => g = h /\ i = j
  /\ \A g \in Inode : g > files => Len(log[g]) = 0

\* The path names the newest file, and a restart begins at the saved place.
PlacesAreKnown ==
  /\ name \in {NoInode, files}
  /\ saved.ino <= files /\ (saved.ino = NoInode => saved = Nowhere)
  /\ resume # Nowhere => resume = saved /\ rd = NoInode /\ buf = None

UnwrittenIsUnread == \A l \in Line : l > written => Unread(counted, buf, l)

BeyondSaved ==
  \A g \in Inode : \A i \in 1 .. Len(log[g]) :
    Beyond(saved, g, i, Len(log[g])) => counted[log[g][i]] = 0

BeyondRead ==
  /\ rd # NoInode =>
       \A g \in Inode : \A i \in 1 .. Len(log[g]) :
         Beyond(At(rd, pos), g, i, Len(log[g])) => Unread(counted, buf, log[g][i])
  /\ rd = NoInode /\ resume = Nowhere /\ name # NoInode =>
       \A i \in 1 .. Len(log[name]) : Unread(counted, buf, log[name][i])

TailInv ==
  /\ TailTypeOK /\ LinesLieOnce /\ PlacesAreKnown /\ UnwrittenIsUnread
  /\ BeyondSaved /\ BeyondRead /\ CountedOnce

-----------------------------------------------------------------------------
(* Types *)

LEMMA TailTypeInit == TailInit => TailTypeOK
<1> SUFFICES ASSUME TailInit PROVE TailTypeOK
  OBVIOUS
<1> USE LogTailAssumption DEF TailInit
<1>1. log \in [Inode -> Seq(Line)] /\ buf \in [Line -> Nat] /\ counted \in [Line -> Nat]
  BY DEF None
<1>2. Nowhere \in Place
  BY DEF Nowhere, At, Place, NoInode
<1>3. signal \in BOOLEAN
  OBVIOUS
<1> QED
  BY <1>1, <1>2, <1>3 DEF TailTypeOK, NoInode

LEMMA PlaceTyped ==
  ASSUME TailTypeOK, NEW n \in Nat
  PROVE  At(rd, n) \in Place
BY LogTailAssumption DEF TailTypeOK, At, Place, Inode, NoInode

LEMMA PlusTyped ==
  ASSUME NEW f \in [Line -> Nat], NEW g \in [Line -> Nat]
  PROVE  Plus(f, g) \in [Line -> Nat] /\ \A l \in Line : Plus(f, g)[l] = f[l] + g[l]
BY DEF Plus

LEMMA NoneTyped == None \in [Line -> Nat] /\ \A l \in Line : None[l] = 0
BY DEF None

LEMMA HandledTyped ==
  ASSUME TailTypeOK, NEW seen \in [Line -> Nat], NEW marked \in SUBSET Line, NEW n \in Nat,
         NEW due \in BOOLEAN, Handled(seen, marked, n, due)
  PROVE  /\ mem' \in Place /\ saved' \in Place
         /\ buf' \in [Line -> Nat] /\ counted' \in [Line -> Nat]
         /\ tx' \in SUBSET Line /\ noted' \in SUBSET Line
<1>1. At(rd, n) \in Place
  BY PlaceTyped
<1>2. CASE due
  BY <1>1, <1>2, PlusTyped, NoneTyped DEF Handled, Flush, TailTypeOK
<1>3. CASE ~due
  BY <1>1, <1>3 DEF Handled, Keep, TailTypeOK
<1> QED
  BY <1>2, <1>3

LEMMA TailTypeNext == TailTypeOK /\ [TailNext]_tailVars => TailTypeOK'
<1> SUFFICES ASSUME TailTypeOK, [TailNext]_tailVars PROVE TailTypeOK'
  OBVIOUS
<1> USE LogTailAssumption DEF TailTypeOK, disk, reader, store
<1>1. CASE WriteLine
  <2>1. fd \in Inode /\ written + 1 \in Line /\ written' \in 0 .. MaxLine
    BY <1>1 DEF WriteLine, Inode, NoInode, Line
  <2>2. log' \in [Inode -> Seq(Line)]
    BY <1>1, <2>1 DEF WriteLine
  <2> QED
    BY <1>1, <2>1, <2>2 DEF WriteLine
<1>2. CASE WritePart
  BY <1>2 DEF WritePart, Inode, NoInode
<1>3. ASSUME Reopen
      PROVE  files' \in 0 .. MaxInode /\ name' \in 0 .. files' /\ fd' \in 0 .. files'
             /\ files <= files'
  BY <1>3 DEF Reopen, NoInode
<1>4. CASE WriterStarts
  BY <1>3, <1>4 DEF WriterStarts
<1>5. CASE WriterDies
  BY <1>5 DEF WriterDies, NoInode
<1>6. CASE Truncate
  <2>1. << >> \in Seq(Line)
    OBVIOUS
  <2>2. log' \in [Inode -> Seq(Line)]
    BY <1>6, <2>1 DEF Truncate
  <2> QED
    BY <1>6, <2>2 DEF Truncate
<1>7. CASE Rename
  BY <1>7 DEF Rename, NoInode
<1>8. CASE Signal
  <2>1. signal' \in BOOLEAN
    BY <1>8 DEF Signal
  <2>2. /\ files' \in 0 .. MaxInode /\ name' \in 0 .. files' /\ fd' \in 0 .. files'
        /\ files <= files'
    BY <1>3, <1>8 DEF Signal
  <2>3. UNCHANGED <<log, torn, written, cuts, rd, pos, resume, mem, buf, tx, counted, noted, saved>>
    BY <1>8 DEF Signal
  <2>4. rd' \in 0 .. files'
    BY <2>2, <2>3
  <2> QED
    BY <2>1, <2>2, <2>3, <2>4
<1>9. CASE SignalFails
  BY <1>9 DEF SignalFails
<1>10. CASE Open
  <2>1. Nowhere \in Place /\ Start(name) \in Nat
    BY DEF Nowhere, At, Place, NoInode, Start
  <2> QED
    BY <1>10, <2>1 DEF Open
<1>11. CASE Commit
  BY <1>11 DEF Commit
<1>12. CASE TailRestart
  <2>1. signal' \in BOOLEAN
    BY <1>12 DEF TailRestart
  <2>2. Nowhere \in Place
    BY DEF Nowhere, At, Place, NoInode
  <2>3. /\ rd' = 0 /\ pos' = 0 /\ resume' = saved /\ mem' = Nowhere
        /\ buf' \in [Line -> Nat] /\ tx' = {}
    BY <1>12, NoneTyped DEF TailRestart, NoInode
  <2>4. UNCHANGED <<log, torn, written, files, cuts, name, fd, counted, noted, saved>>
    BY <1>12 DEF TailRestart
  <2> QED
    BY <2>1, <2>2, <2>3, <2>4
<1>13. ASSUME NEW due \in BOOLEAN, HandleLine(due) PROVE TailTypeOK'
  <2> DEFINE l == log[rd][pos + 1]
  <2>1. rd \in Inode /\ l \in Line
    BY <1>13 DEF HandleLine, Inode, NoInode
  <2>2. /\ [buf EXCEPT ![l] = @ + 1] \in [Line -> Nat]
        /\ tx \cup ({l} \cap Noted) \in SUBSET Line /\ pos + 1 \in Nat
    BY <2>1
  <2>3. Handled([buf EXCEPT ![l] = @ + 1], tx \cup ({l} \cap Noted), pos + 1, due)
    BY <1>13 DEF HandleLine
  <2> HIDE DEF l
  <2>4. PICK seen \in [Line -> Nat], marked \in SUBSET Line :
               Handled(seen, marked, pos + 1, due)
    BY <2>2, <2>3
  <2>5. TailTypeOK
    OBVIOUS
  <2> HIDE DEF TailTypeOK
  <2>6. /\ mem' \in Place /\ saved' \in Place
        /\ buf' \in [Line -> Nat] /\ counted' \in [Line -> Nat]
        /\ tx' \in SUBSET Line /\ noted' \in SUBSET Line
    BY <2>2, <2>4, <2>5, HandledTyped
  <2> USE DEF TailTypeOK
  <2> QED
    BY <1>13, <2>2, <2>5, <2>6 DEF HandleLine
<1>14. ASSUME NEW due \in BOOLEAN, AtEnd(due) PROVE TailTypeOK'
  <2>1. Handled(buf, tx, pos, due)
    BY <1>14 DEF AtEnd
  <2>2. /\ mem' \in Place /\ saved' \in Place
        /\ buf' \in [Line -> Nat] /\ counted' \in [Line -> Nat]
        /\ tx' \in SUBSET Line /\ noted' \in SUBSET Line
    BY <2>1, HandledTyped
  <2>3. rd' \in 0 .. files' /\ pos' \in Nat
    BY <1>14 DEF AtEnd, NoInode
  <2> QED
    BY <1>14, <2>2, <2>3 DEF AtEnd
<1>15. CASE UNCHANGED tailVars
  BY <1>15 DEF tailVars
<1> QED
  BY <1>1, <1>2, <1>4, <1>5, <1>6, <1>7, <1>8, <1>9, <1>10, <1>11, <1>12, <1>13, <1>14,
     <1>15 DEF TailNext

\* The variables of the log, the reader and the tables keep their types.
THEOREM TailTypeCorrect == TailSpec => []TailTypeOK
BY TailTypeInit, TailTypeNext, PTL DEF TailSpec

-----------------------------------------------------------------------------
(* The turns of the tail *)

\* After a turn the counts of a line are where they were, or all in the tables.
LEMMA HandledCounts ==
  ASSUME TailTypeOK, NEW seen \in [Line -> Nat], NEW marked, NEW n \in Nat,
         NEW due \in BOOLEAN, Handled(seen, marked, n, due)
  PROVE  \/ /\ \A l \in Line : counted'[l] = counted[l] /\ buf'[l] = seen[l]
            /\ saved' = saved /\ noted' = noted /\ tx' = marked
         \/ /\ \A l \in Line : counted'[l] = counted[l] + seen[l] /\ buf'[l] = 0
            /\ saved' = At(rd, n) /\ noted' = noted \cup marked
<1>1. CASE due
  <2>1. /\ counted' = Plus(counted, seen) /\ buf' = None
        /\ saved' = At(rd, n) /\ noted' = noted \cup marked
    BY <1>1 DEF Handled, Flush
  <2>2. \A l \in Line : Plus(counted, seen)[l] = counted[l] + seen[l] /\ None[l] = 0
    BY DEF Plus, None
  <2> QED
    BY <2>1, <2>2
<1>2. CASE ~due
  BY <1>2 DEF Handled, Keep
<1> QED
  BY <1>1, <1>2

\* If nothing was seen beyond the new place, nothing is counted beyond it.
LEMMA TurnKeeps ==
  ASSUME TailInv, rd # NoInode, UNCHANGED disk,
         NEW seen \in [Line -> Nat], NEW marked, NEW n \in Nat, NEW due \in BOOLEAN,
         Handled(seen, marked, n, due),
         \A g \in Inode : \A i \in 1 .. Len(log[g]) :
           Beyond(At(rd, n), g, i, Len(log[g])) => Unread(counted, seen, log[g][i]),
         \A l \in Line : counted[l] + seen[l] <= 1,
         \A l \in Line : l > written => Unread(counted, seen, l)
  PROVE  /\ UnwrittenIsUnread' /\ BeyondSaved' /\ CountedOnce'
         /\ \A g \in Inode : \A i \in 1 .. Len(log[g]) :
              Beyond(At(rd, n), g, i, Len(log[g])) => Unread(counted', buf', log[g][i])
         /\ saved'.ino <= files /\ (saved'.ino = NoInode => saved' = Nowhere)
<1> USE DEF Unread
<1>1. /\ TailTypeOK /\ PlacesAreKnown /\ BeyondSaved
      /\ UNCHANGED <<log, written>>
  BY DEF TailInv, disk
<1>2. \A g \in Inode : \A i \in 1 .. Len(log[g]) : log[g][i] \in Line
  BY <1>1 DEF TailTypeOK
<1>3. CASE /\ \A l \in Line : counted'[l] = counted[l] /\ buf'[l] = seen[l]
           /\ saved' = saved
  BY <1>1, <1>2, <1>3 DEF PlacesAreKnown, UnwrittenIsUnread, BeyondSaved, CountedOnce
<1>4. CASE /\ \A l \in Line : counted'[l] = counted[l] + seen[l] /\ buf'[l] = 0
           /\ saved' = At(rd, n)
  <2>1. rd <= files /\ saved'.ino = rd
    BY <1>1, <1>4 DEF TailTypeOK, At
  <2>2. \A l \in Line : counted[l] \in Nat /\ seen[l] \in Nat
    BY <1>1 DEF TailTypeOK
  <2>3. UnwrittenIsUnread' /\ CountedOnce'
    BY <1>1, <1>4, <2>2 DEF UnwrittenIsUnread, CountedOnce
  <2>4. \A g \in Inode : \A i \in 1 .. Len(log[g]) :
          Beyond(At(rd, n), g, i, Len(log[g])) => Unread(counted', buf', log[g][i])
    BY <1>2, <1>4, <2>2
  <2>5. BeyondSaved'
    BY <1>1, <1>4, <2>4 DEF BeyondSaved
  <2> QED
    BY <2>1, <2>3, <2>4, <2>5
<1> QED
  BY <1>1, <1>3, <1>4, HandledCounts

\* What one line changes in the buffer.
LEMMA LineIsUnread ==
  ASSUME TailInv, rd # NoInode, pos < Len(log[rd])
  PROVE  /\ rd \in Inode /\ pos + 1 \in 1 .. Len(log[rd]) /\ log[rd][pos + 1] \in Line
         /\ Unread(counted, buf, log[rd][pos + 1])
<1>1. TailTypeOK /\ BeyondRead
  BY DEF TailInv
<1>2. rd \in Inode /\ Len(log[rd]) \in Nat
  BY <1>1, LogTailAssumption DEF TailTypeOK, Inode, NoInode
<1>3. pos + 1 \in 1 .. Len(log[rd]) /\ log[rd][pos + 1] \in Line
  BY <1>1, <1>2 DEF TailTypeOK
<1>4. Beyond(At(rd, pos), rd, pos + 1, Len(log[rd]))
  BY <1>1 DEF Beyond, At, TailTypeOK
<1> QED
  BY <1>1, <1>2, <1>3, <1>4 DEF BeyondRead

LEMMA LineKeepsInv ==
  ASSUME TailInv, TailTypeOK', NEW due \in BOOLEAN, HandleLine(due)
  PROVE  TailInv'
<1> DEFINE l == log[rd][pos + 1]
           seen == [buf EXCEPT ![l] = @ + 1]
<1>0. TailTypeOK /\ LinesLieOnce /\ PlacesAreKnown /\ UnwrittenIsUnread /\ BeyondRead
      /\ CountedOnce /\ rd # NoInode /\ UNCHANGED <<disk, rd, resume>> /\ pos' = pos + 1
  BY DEF TailInv, HandleLine
<1>1. /\ rd \in Inode /\ pos + 1 \in 1 .. Len(log[rd]) /\ l \in Line
      /\ Unread(counted, buf, l)
  BY LineIsUnread DEF HandleLine
<1> HIDE DEF l
<1>2. /\ seen \in [Line -> Nat]
      /\ \A m \in Line : m # l => seen[m] = buf[m]
      /\ seen[l] = buf[l] + 1
  <2>1. buf \in [Line -> Nat]
    BY <1>0 DEF TailTypeOK
  <2> QED
    BY <1>1, <2>1
<1> USE DEF l
<1>3. Handled(seen, tx \cup ({l} \cap Noted), pos + 1, due)
  BY DEF HandleLine
<1>4. l <= written
  BY <1>0, <1>1 DEF LinesLieOnce
<1> HIDE DEF l, seen
<1>5. \A g \in Inode : \A i \in 1 .. Len(log[g]) :
        log[g][i] \in Line /\ (log[g][i] = l => g = rd /\ i = pos + 1)
  <2>1. \A g \in Inode : log[g] \in Seq(Line)
    BY <1>0 DEF TailTypeOK
  <2>2. \A g \in Inode : \A i \in 1 .. Len(log[g]) : log[g][i] \in Line
    BY <2>1
  <2>3. \A g \in Inode : \A i \in 1 .. Len(log[g]), j \in 1 .. Len(log[rd]) :
          log[g][i] = log[rd][j] => g = rd /\ i = j
    BY <1>0, <1>1 DEF LinesLieOnce
  <2> QED
    BY <1>1, <2>2, <2>3 DEF l
<1>6. \A g \in Inode : \A i \in 1 .. Len(log[g]) :
        Beyond(At(rd, pos + 1), g, i, Len(log[g])) =>
          Beyond(At(rd, pos), g, i, Len(log[g])) /\ ~(g = rd /\ i = pos + 1)
  <2>1. pos \in Nat /\ rd \in Nat
    BY <1>0 DEF TailTypeOK
  <2>2. \A g \in Inode : g \in Nat /\ Len(log[g]) \in Nat
    BY <1>0 DEF TailTypeOK, Inode
  <2> QED
    BY <1>1, <2>1, <2>2 DEF Beyond, At
<1>7. \A g \in Inode : \A i \in 1 .. Len(log[g]) :
        Beyond(At(rd, pos + 1), g, i, Len(log[g])) => Unread(counted, seen, log[g][i])
  BY <1>0, <1>2, <1>5, <1>6 DEF BeyondRead, Unread
<1>8. \A m \in Line : counted[m] + seen[m] <= 1
  <2>1. \A m \in Line : counted[m] \in Nat /\ buf[m] \in Nat
    BY <1>0 DEF TailTypeOK
  <2> QED
    BY <1>0, <1>1, <1>2, <2>1 DEF CountedOnce, Unread
<1>9. \A m \in Line : m > written => Unread(counted, seen, m)
  <2>1. \A m \in Line : m > written => m # l
    BY <1>0, <1>1, <1>4 DEF TailTypeOK, Line
  <2> QED
    BY <1>0, <1>2, <2>1 DEF UnwrittenIsUnread, Unread
<1>10. pos + 1 \in Nat
  BY <1>0 DEF TailTypeOK
<1>11. /\ UnwrittenIsUnread' /\ BeyondSaved' /\ CountedOnce'
       /\ \A g \in Inode : \A i \in 1 .. Len(log[g]) :
            Beyond(At(rd, pos + 1), g, i, Len(log[g])) => Unread(counted', buf', log[g][i])
       /\ saved'.ino <= files /\ (saved'.ino = NoInode => saved' = Nowhere)
  BY <1>0, <1>2, <1>3, <1>7, <1>8, <1>9, <1>10, TurnKeeps
<1>12. resume = Nowhere
  BY <1>0 DEF PlacesAreKnown
<1>13. UNCHANGED <<log, written, files, name, rd, resume>>
  BY <1>0 DEF disk
<1>14. LinesLieOnce' /\ PlacesAreKnown'
  BY <1>0, <1>11, <1>12, <1>13 DEF LinesLieOnce, PlacesAreKnown
<1>15. BeyondRead'
  BY <1>0, <1>11, <1>13 DEF BeyondRead
<1> QED
  BY <1>11, <1>14, <1>15 DEF TailInv

LEMMA EndKeepsInv ==
  ASSUME TailInv, TailTypeOK', NEW due \in BOOLEAN, AtEnd(due)
  PROVE  TailInv'
<1>0. TailTypeOK /\ LinesLieOnce /\ PlacesAreKnown /\ UnwrittenIsUnread /\ BeyondRead
      /\ CountedOnce /\ rd # NoInode /\ UNCHANGED <<disk, resume>>
  BY DEF TailInv, AtEnd
<1>1. Handled(buf, tx, pos, due)
  BY DEF AtEnd
<1>2. /\ buf \in [Line -> Nat] /\ pos \in Nat
      /\ \A l \in Line : counted[l] + buf[l] <= 1
      /\ \A l \in Line : l > written => Unread(counted, buf, l)
  BY <1>0 DEF TailTypeOK, CountedOnce, UnwrittenIsUnread
<1>3. \A g \in Inode : \A i \in 1 .. Len(log[g]) :
        Beyond(At(rd, pos), g, i, Len(log[g])) => Unread(counted, buf, log[g][i])
  BY <1>0 DEF BeyondRead
<1>4. /\ UnwrittenIsUnread' /\ BeyondSaved' /\ CountedOnce'
      /\ \A g \in Inode : \A i \in 1 .. Len(log[g]) :
           Beyond(At(rd, pos), g, i, Len(log[g])) => Unread(counted', buf', log[g][i])
      /\ saved'.ino <= files /\ (saved'.ino = NoInode => saved' = Nowhere)
  BY <1>0, <1>1, <1>2, <1>3, TurnKeeps
<1>5. resume = Nowhere
  BY <1>0 DEF PlacesAreKnown
<1>6. UNCHANGED <<log, written, files, name, resume>>
  BY <1>0 DEF disk
<1>7. LinesLieOnce' /\ PlacesAreKnown'
  BY <1>0, <1>4, <1>5, <1>6 DEF LinesLieOnce, PlacesAreKnown
<1>8. BeyondRead'
  <2>1. CASE UNCHANGED <<rd, pos>>
    BY <1>0, <1>4, <1>6, <2>1 DEF BeyondRead
  <2>2. CASE (name # rd \/ pos > Len(log[rd])) /\ rd' = NoInode
    <3>0. /\ name \in {0, files} /\ rd \in 0 .. files /\ rd # 0
          /\ files \in 0 .. MaxInode /\ MaxInode \in Nat
      BY <1>0, LogTailAssumption DEF TailTypeOK, PlacesAreKnown, NoInode
    <3>1. name # NoInode => name \in Inode /\ (name > rd \/ (name = rd /\ pos > Len(log[name])))
      <4>1. CASE name = rd
        BY <2>2, <3>0, <4>1 DEF NoInode, Inode
      <4>2. CASE name # rd /\ name # NoInode
        <5>1. name = files /\ rd < files
          BY <3>0, <4>2 DEF NoInode
        <5> QED
          BY <3>0, <5>1 DEF Inode
      <4> QED
        BY <4>1, <4>2
    <3>2. name # NoInode => \A i \in 1 .. Len(log[name]) :
                              Beyond(At(rd, pos), name, i, Len(log[name]))
      BY <3>1 DEF Beyond, At
    <3>3. name # NoInode => \A i \in 1 .. Len(log[name]) : Unread(counted', buf', log[name][i])
      BY <1>4, <3>1, <3>2
    <3> QED
      BY <1>6, <2>2, <3>3 DEF BeyondRead
  <2> QED
    BY <2>1, <2>2 DEF AtEnd
<1> QED
  BY <1>4, <1>7, <1>8 DEF TailInv

-----------------------------------------------------------------------------
(* The steps of the proxy, the rotation and the operating system *)

\* A step that leaves the tail alone: a line of a file is where it was, in a file
\* that did not become shorter, or it is new; and the path names the same file,
\* none, or an empty one.
LEMMA DiskKeepsInv ==
  ASSUME TailInv, TailTypeOK', UNCHANGED <<rd, pos, resume, store>>,
         LinesLieOnce', written' >= written, files' >= files, name' \in {NoInode, files'},
         \A g \in Inode : \A i \in 1 .. Len(log'[g]) :
           \/ log'[g][i] > written
           \/ i <= Len(log[g]) /\ Len(log[g]) <= Len(log'[g]) /\ log'[g][i] = log[g][i],
         name' \in {NoInode, name} \/ Len(log'[name']) = 0
  PROVE  TailInv'
<1>0. /\ TailTypeOK /\ PlacesAreKnown /\ UnwrittenIsUnread /\ BeyondSaved /\ BeyondRead
      /\ CountedOnce /\ UNCHANGED <<rd, pos, resume, buf, counted, saved>>
  BY DEF TailInv, store
<1>1. /\ written \in Nat /\ written' \in Nat /\ files \in Nat /\ files' \in Nat
      /\ \A g \in Inode : log[g] \in Seq(Line) /\ log'[g] \in Seq(Line)
      /\ saved.pos \in Nat /\ saved.ino \in Nat /\ pos \in Nat
  <2>1. /\ written \in Nat /\ written' \in Nat /\ files \in Nat /\ files' \in Nat
        /\ pos \in Nat
    BY <1>0, LogTailAssumption DEF TailTypeOK
  <2>2. \A g \in Inode : log[g] \in Seq(Line) /\ log'[g] \in Seq(Line)
    BY <1>0 DEF TailTypeOK
  <2>3. saved \in Place
    BY <1>0 DEF TailTypeOK
  <2>4. saved.pos \in Nat /\ saved.ino \in Nat
    BY <2>3 DEF Place, Inode, NoInode
  <2> QED
    BY <2>1, <2>2, <2>4
<1>2. UnwrittenIsUnread'
  BY <1>0, <1>1 DEF UnwrittenIsUnread, Unread, Line
<1>3. CountedOnce'
  BY <1>0 DEF CountedOnce
<1>4. PlacesAreKnown'
  BY <1>0, <1>1 DEF PlacesAreKnown
<1>5. \A g \in Inode : \A i \in 1 .. Len(log'[g]) :
        \/ Unread(counted, buf, log'[g][i])
        \/ i \in 1 .. Len(log[g]) /\ Len(log[g]) <= Len(log'[g]) /\ log'[g][i] = log[g][i]
  BY <1>0, <1>1 DEF UnwrittenIsUnread
<1>6. \A g \in Inode, i \in Nat, n \in Nat, m \in Nat, f \in Nat, p \in Nat :
        n <= m /\ Beyond(At(f, p), g, i, m) => Beyond(At(f, p), g, i, n)
  BY DEF Beyond, At
<1>7. BeyondSaved'
  <2>1. saved = At(saved.ino, saved.pos)
    BY <1>0 DEF TailTypeOK, Place, At
  <2>2. \A g \in Inode : \A i \in 1 .. Len(log'[g]) :
          Beyond(saved, g, i, Len(log'[g])) => counted[log'[g][i]] = 0
    <3> SUFFICES ASSUME NEW g \in Inode, NEW i \in 1 .. Len(log'[g]),
                        Beyond(saved, g, i, Len(log'[g]))
                 PROVE  counted[log'[g][i]] = 0
      OBVIOUS
    <3>1. CASE Unread(counted, buf, log'[g][i])
      BY <3>1 DEF Unread
    <3>2. CASE i \in 1 .. Len(log[g]) /\ Len(log[g]) <= Len(log'[g]) /\ log'[g][i] = log[g][i]
      <4>1. Len(log[g]) \in Nat /\ Len(log'[g]) \in Nat
        BY <1>1
      <4>2. Beyond(saved, g, i, Len(log[g]))
        <5>1. Beyond(At(saved.ino, saved.pos), g, i, Len(log'[g]))
          BY <2>1
        <5>2. i \in Nat /\ Len(log[g]) <= Len(log'[g])
          BY <3>2
        <5>3. Beyond(At(saved.ino, saved.pos), g, i, Len(log[g]))
          BY <1>1, <1>6, <4>1, <5>1, <5>2
        <5> QED
          BY <2>1, <5>3
      <4> QED
        BY <1>0, <3>2, <4>2 DEF BeyondSaved
    <3> QED
      BY <1>5, <3>1, <3>2
  <2> QED
    BY <1>0, <2>2 DEF BeyondSaved
<1>8. BeyondRead'
  <2>1. ASSUME rd # NoInode, NEW g \in Inode, NEW i \in 1 .. Len(log'[g]),
               Beyond(At(rd, pos), g, i, Len(log'[g]))
        PROVE  Unread(counted, buf, log'[g][i])
    <3>1. CASE i \in 1 .. Len(log[g]) /\ Len(log[g]) <= Len(log'[g]) /\ log'[g][i] = log[g][i]
      <4>1. Len(log[g]) \in Nat /\ Len(log'[g]) \in Nat
        BY <1>1, <2>1
      <4>2. rd \in Nat
        BY <1>0 DEF TailTypeOK
      <4>3. i \in Nat /\ Len(log[g]) <= Len(log'[g])
        BY <3>1
      <4>4. Beyond(At(rd, pos), g, i, Len(log[g]))
        BY <1>1, <1>6, <2>1, <4>1, <4>2, <4>3
      <4> QED
        BY <1>0, <2>1, <3>1, <4>4 DEF BeyondRead
    <3> QED
      BY <1>5, <3>1
  <2>2. ASSUME rd = NoInode, resume = Nowhere, name' # NoInode,
               NEW i \in 1 .. Len(log'[name'])
        PROVE  Unread(counted, buf, log'[name'][i])
    <3>1. name' \in Inode
      BY <2>2 DEF TailTypeOK, Inode, NoInode
    <3>2. Len(log'[name']) # 0
      BY <1>1, <2>2, <3>1
    <3>3. name' = name
      BY <2>2, <3>2
    <3> QED
      BY <1>0, <1>5, <2>2, <3>1, <3>3 DEF BeyondRead
  <2> QED
    BY <1>0, <2>1, <2>2 DEF BeyondRead
<1> QED
  BY <1>2, <1>3, <1>4, <1>7, <1>8 DEF TailInv

LEMMA WriteLineKeepsInv ==
  ASSUME TailInv, TailTypeOK', WriteLine PROVE TailInv'
<1>0. /\ TailTypeOK /\ LinesLieOnce /\ PlacesAreKnown
      /\ UNCHANGED <<files, name, rd, pos, resume, store>> /\ written' = written + 1
  BY DEF TailInv, WriteLine, reader
<1>1. fd \in Inode /\ fd <= files /\ written \in Nat /\ files \in Nat
  BY <1>0, LogTailAssumption DEF WriteLine, TailTypeOK, Inode, NoInode
<1>2. \A g \in Inode : log[g] \in Seq(Line)
  BY <1>0 DEF TailTypeOK
<1>3. /\ \A g \in Inode : g # fd => log'[g] = log[g]
      /\ log'[fd] = Append(log[fd], written + 1)
  BY <1>0, <1>1 DEF WriteLine, TailTypeOK
<1>4. /\ Len(log'[fd]) = Len(log[fd]) + 1 /\ log'[fd][Len(log[fd]) + 1] = written + 1
      /\ \A i \in 1 .. Len(log[fd]) : log'[fd][i] = log[fd][i]
      /\ Len(log[fd]) \in Nat
  BY <1>1, <1>2, <1>3
<1>5. \A g \in Inode : \A i \in 1 .. Len(log'[g]) :
        \/ log'[g][i] = written + 1 /\ g = fd /\ i = Len(log[fd]) + 1
        \/ i \in 1 .. Len(log[g]) /\ Len(log[g]) <= Len(log'[g]) /\ log'[g][i] = log[g][i]
  <2> SUFFICES ASSUME NEW g \in Inode, NEW i \in 1 .. Len(log'[g])
               PROVE  \/ log'[g][i] = written + 1 /\ g = fd /\ i = Len(log[fd]) + 1
                      \/ /\ i \in 1 .. Len(log[g]) /\ Len(log[g]) <= Len(log'[g])
                         /\ log'[g][i] = log[g][i]
    OBVIOUS
  <2>1. CASE g # fd
    BY <1>2, <1>3, <2>1
  <2>2. CASE g = fd
    BY <1>4, <2>2
  <2> QED
    BY <2>1, <2>2
<1>6. LinesLieOnce'
  <2>1. \A g \in Inode : \A i \in 1 .. Len(log'[g]) : log'[g][i] \in 1 .. written'
    BY <1>0, <1>1, <1>5 DEF LinesLieOnce
  <2>2. \A g, h \in Inode : \A i \in 1 .. Len(log'[g]), j \in 1 .. Len(log'[h]) :
          log'[g][i] = log'[h][j] => g = h /\ i = j
    <3>1. \A g \in Inode : \A i \in 1 .. Len(log[g]) : log[g][i] # written + 1
      BY <1>0, <1>1 DEF LinesLieOnce
    <3> QED
      BY <1>0, <1>5, <3>1 DEF LinesLieOnce
  <2>3. \A g \in Inode : g > files => Len(log'[g]) = 0
    BY <1>0, <1>1, <1>3 DEF LinesLieOnce, Inode
  <2> QED
    BY <1>0, <2>1, <2>2, <2>3 DEF LinesLieOnce
<1>7. \A g \in Inode : \A i \in 1 .. Len(log'[g]) :
        \/ log'[g][i] > written
        \/ i <= Len(log[g]) /\ Len(log[g]) <= Len(log'[g]) /\ log'[g][i] = log[g][i]
  BY <1>1, <1>5
<1> QED
  BY <1>0, <1>1, <1>6, <1>7, DiskKeepsInv DEF PlacesAreKnown

\* A step that empties one file at most, and creates or renames one at most.
LEMMA FilesKeepInv ==
  ASSUME TailInv, TailTypeOK', UNCHANGED <<rd, pos, resume, store, written>>,
         \A g \in Inode : log'[g] = log[g] \/ log'[g] = << >>,
         \/ files' = files /\ name' \in {NoInode, name}
         \/ files' = files + 1 /\ name' = files' /\ log' = log
  PROVE  TailInv'
<1>0. /\ TailTypeOK /\ LinesLieOnce /\ PlacesAreKnown /\ written \in Nat /\ files \in Nat
      /\ \A g \in Inode : log[g] \in Seq(Line)
  <2>1. TailTypeOK /\ LinesLieOnce /\ PlacesAreKnown
    BY DEF TailInv
  <2>2. written \in Nat /\ files \in Nat
    BY <2>1, LogTailAssumption DEF TailTypeOK
  <2>3. \A g \in Inode : log[g] \in Seq(Line)
    BY <2>1 DEF TailTypeOK
  <2> QED
    BY <2>1, <2>2, <2>3
<1>1. \A g \in Inode : \A i \in 1 .. Len(log'[g]) :
        i \in 1 .. Len(log[g]) /\ Len(log[g]) <= Len(log'[g]) /\ log'[g] = log[g]
  BY <1>0
<1>2. LinesLieOnce'
  <2>1. \A g \in Inode : \A i \in 1 .. Len(log'[g]) : log'[g][i] \in 1 .. written'
    BY <1>0, <1>1 DEF LinesLieOnce
  <2>2. \A g, h \in Inode : \A i \in 1 .. Len(log'[g]), j \in 1 .. Len(log'[h]) :
          log'[g][i] = log'[h][j] => g = h /\ i = j
    BY <1>0, <1>1 DEF LinesLieOnce
  <2>3. \A g \in Inode : g > files' => Len(log'[g]) = 0
    BY <1>0 DEF LinesLieOnce, Inode
  <2> QED
    BY <2>1, <2>2, <2>3 DEF LinesLieOnce
<1>3. name' \in {NoInode, files'}
  BY <1>0 DEF PlacesAreKnown
<1>4. name' \in {NoInode, name} \/ Len(log'[name']) = 0
  <2>1. CASE files' = files + 1 /\ name' = files' /\ log' = log
    <3>1. name' \in Inode /\ name' > files
      BY <1>0, <2>1 DEF TailTypeOK, Inode
    <3> QED
      BY <1>0, <2>1, <3>1 DEF LinesLieOnce
  <2> QED
    BY <2>1
<1>5. \A g \in Inode : \A i \in 1 .. Len(log'[g]) :
        \/ log'[g][i] > written
        \/ i <= Len(log[g]) /\ Len(log[g]) <= Len(log'[g]) /\ log'[g][i] = log[g][i]
  BY <1>0, <1>1
<1> QED
  BY <1>0, <1>2, <1>3, <1>4, <1>5, DiskKeepsInv
\* The proxy reopens its log: the newest file, or a new one.
LEMMA ReopenKeepsInv ==
  ASSUME TailInv, TailTypeOK', Reopen, UNCHANGED <<log, rd, pos, resume, store, written>>
  PROVE  TailInv'
<1>1. TailTypeOK /\ PlacesAreKnown
  BY DEF TailInv
<1>2. \/ files' = files /\ name' \in {NoInode, name}
      \/ files' = files + 1 /\ name' = files' /\ log' = log
  BY DEF Reopen
<1> QED
  BY <1>2, FilesKeepInv

LEMMA TruncateKeepsInv ==
  ASSUME TailInv, TailTypeOK', Truncate PROVE TailInv'
<1>1. log \in [Inode -> Seq(Line)]
  BY DEF TailInv, TailTypeOK
<1>2. \A g \in Inode : log'[g] = log[g] \/ log'[g] = << >>
  BY <1>1 DEF Truncate
<1>3. UNCHANGED <<rd, pos, resume, store, written, files, name>>
  BY DEF Truncate, reader
<1> QED
  BY <1>2, <1>3, FilesKeepInv

-----------------------------------------------------------------------------
(* The tail opens a file, the shared connection commits, secwatch restarts *)

LEMMA OpenKeepsInv ==
  ASSUME TailInv, TailTypeOK', Open PROVE TailInv'
<1>0. /\ TailTypeOK /\ LinesLieOnce /\ PlacesAreKnown /\ UnwrittenIsUnread /\ BeyondSaved
      /\ BeyondRead /\ CountedOnce
      /\ UNCHANGED <<log, written, files, name, buf, counted, saved>>
      /\ rd = NoInode /\ name # NoInode
      /\ rd' = name /\ pos' = Start(name) /\ resume' = Nowhere
  BY DEF TailInv, Open, disk, store
<1>1. LinesLieOnce' /\ UnwrittenIsUnread' /\ BeyondSaved' /\ CountedOnce'
  BY <1>0 DEF LinesLieOnce, UnwrittenIsUnread, BeyondSaved, CountedOnce
<1>2. PlacesAreKnown'
  BY <1>0 DEF PlacesAreKnown
<1>3. /\ name = files /\ name \in Inode /\ name \in Nat
      /\ \A g \in Inode : g \in Nat /\ Len(log[g]) \in Nat
  <2>1. name = files /\ files \in 0 .. MaxInode /\ log \in [Inode -> Seq(Line)]
    BY <1>0 DEF PlacesAreKnown, TailTypeOK
  <2>2. name \in Inode /\ name \in Nat
    BY <1>0, <2>1, LogTailAssumption DEF Inode, NoInode
  <2> QED
    BY <2>1, <2>2 DEF Inode
<1>4. \A g \in Inode : \A i \in 1 .. Len(log[g]) :
        Beyond(At(name, Start(name)), g, i, Len(log[g])) => Unread(counted, buf, log[g][i])
  <2> SUFFICES ASSUME NEW g \in Inode, NEW i \in 1 .. Len(log[g]),
                      Beyond(At(name, Start(name)), g, i, Len(log[g]))
               PROVE  Unread(counted, buf, log[g][i])
    OBVIOUS
  <2>1. log[g] # << >> /\ g <= files
    <3>1. Len(log[g]) > 0
      BY <1>3
    <3> QED
      BY <1>0, <1>3, <3>1 DEF LinesLieOnce
  <2>2. g = name /\ (i > Start(name) \/ Start(name) > Len(log[name]))
    <3>1. At(name, Start(name)).ino = name /\ At(name, Start(name)).pos = Start(name)
      BY DEF At
    <3>2. g \in Nat /\ g <= name
      BY <1>3, <2>1
    <3> QED
      BY <1>3, <3>1, <3>2 DEF Beyond
  <2>3. CASE resume = Nowhere
    BY <1>0, <2>2, <2>3 DEF BeyondRead
  <2>4. CASE resume # Nowhere
    <3>1. resume = saved /\ buf = None /\ saved \in Place
      BY <1>0, <2>4 DEF PlacesAreKnown, TailTypeOK
    <3>2. saved.ino \in Nat /\ saved.pos \in Nat /\ saved.ino <= name
      BY <1>0, <1>3, <3>1 DEF Place, PlacesAreKnown, Inode, NoInode
    <3>3. Beyond(saved, name, i, Len(log[name]))
      <4>1. CASE saved.ino = name /\ saved.pos <= Len(log[name])
        <5>1. Start(name) = saved.pos
          BY <3>1, <4>1 DEF Start
        <5> QED
          BY <1>3, <2>2, <3>2, <4>1, <5>1 DEF Beyond
      <4>2. CASE saved.ino = name /\ saved.pos > Len(log[name])
        BY <4>2 DEF Beyond
      <4>3. CASE saved.ino < name
        BY <1>3, <3>2, <4>3 DEF Beyond
      <4> QED
        BY <1>3, <3>2, <4>1, <4>2, <4>3
    <3>4. counted[log[g][i]] = 0
      BY <1>0, <2>2, <3>3 DEF BeyondSaved
    <3>5. log[g][i] \in Line
      BY <1>0 DEF TailTypeOK
    <3>6. buf[log[g][i]] = 0
      BY <3>1, <3>5, NoneTyped
    <3> QED
      BY <3>4, <3>6 DEF Unread
  <2> QED
    BY <2>3, <2>4
<1>5. BeyondRead'
  BY <1>0, <1>4 DEF BeyondRead
<1> QED
  BY <1>1, <1>2, <1>5 DEF TailInv

LEMMA RestartKeepsInv ==
  ASSUME TailInv, TailTypeOK', TailRestart PROVE TailInv'
<1>0. /\ TailTypeOK /\ LinesLieOnce /\ PlacesAreKnown /\ UnwrittenIsUnread /\ BeyondSaved
      /\ CountedOnce
      /\ UNCHANGED <<log, written, files, name, counted, saved>>
      /\ rd' = NoInode /\ resume' = saved /\ buf' = None
  BY DEF TailInv, TailRestart, disk
<1>1. \A l \in Line : buf'[l] = 0 /\ buf[l] \in Nat /\ counted[l] \in Nat
  BY <1>0, NoneTyped DEF TailTypeOK
<1>2. LinesLieOnce' /\ BeyondSaved'
  BY <1>0 DEF LinesLieOnce, BeyondSaved
<1>3. UnwrittenIsUnread' /\ CountedOnce'
  BY <1>0, <1>1 DEF UnwrittenIsUnread, Unread, CountedOnce
<1>4. PlacesAreKnown'
  BY <1>0 DEF PlacesAreKnown
<1>5. ASSUME saved = Nowhere, name # NoInode, NEW i \in 1 .. Len(log[name])
      PROVE  Unread(counted, buf', log[name][i])
  <2>1. name \in Inode /\ name > 0
    BY <1>0, <1>5, LogTailAssumption DEF TailTypeOK, Inode, NoInode
  <2>2. Beyond(saved, name, i, Len(log[name]))
    BY <1>5, <2>1 DEF Beyond, Nowhere, At, NoInode
  <2>3. counted[log[name][i]] = 0
    BY <1>0, <2>1, <2>2 DEF BeyondSaved
  <2>4. log[name][i] \in Line
    BY <1>0, <2>1 DEF TailTypeOK
  <2> QED
    BY <1>1, <2>3, <2>4 DEF Unread
<1>6. BeyondRead'
  BY <1>0, <1>5 DEF BeyondRead
<1> QED
  BY <1>2, <1>3, <1>4, <1>6 DEF TailInv

\* A step that touches neither the lines, nor the places, nor the counts.
LEMMA RestKeepsInv ==
  ASSUME TailInv, TailTypeOK',
         UNCHANGED <<log, written, files, name, rd, pos, resume, buf, counted, saved>>
  PROVE  TailInv'
BY DEF TailInv, LinesLieOnce, PlacesAreKnown, UnwrittenIsUnread, BeyondSaved, BeyondRead, CountedOnce

-----------------------------------------------------------------------------
(* The invariant *)

LEMMA TailInvInit == TailInit => TailInv
<1> SUFFICES ASSUME TailInit PROVE TailInv
  OBVIOUS
<1>1. TailTypeOK
  BY TailTypeInit
<1>2. \A g \in Inode : log[g] = << >>
  BY DEF TailInit
<1>3. \A l \in Line : counted[l] = 0 /\ buf[l] = 0
  BY DEF TailInit, None
<1>4. LinesLieOnce /\ BeyondSaved
  BY <1>2 DEF LinesLieOnce, BeyondSaved
<1>5. UnwrittenIsUnread /\ CountedOnce
  BY <1>3 DEF UnwrittenIsUnread, Unread, CountedOnce
<1>6. PlacesAreKnown /\ BeyondRead
  BY DEF TailInit, PlacesAreKnown, BeyondRead, Nowhere, At, NoInode
<1> QED
  BY <1>1, <1>4, <1>5, <1>6 DEF TailInv

LEMMA TailInvNext == TailInv /\ [TailNext]_tailVars => TailInv'
<1> SUFFICES ASSUME TailInv, [TailNext]_tailVars PROVE TailInv'
  OBVIOUS
<1>0. TailTypeOK'
  BY TailTypeNext DEF TailInv
<1> USE DEF disk, reader, store
<1>1. CASE WriteLine
  BY <1>0, <1>1, WriteLineKeepsInv
<1>2. CASE WritePart
  BY <1>0, <1>2, RestKeepsInv DEF WritePart
<1>3. CASE WriterStarts
  BY <1>0, <1>3, ReopenKeepsInv DEF WriterStarts
<1>4. CASE WriterDies
  BY <1>0, <1>4, RestKeepsInv DEF WriterDies
<1>5. CASE Truncate
  BY <1>0, <1>5, TruncateKeepsInv
<1>6. CASE Rename
  <2>1. /\ UNCHANGED <<rd, pos, resume, store, written, log>>
        /\ files' = files /\ name' \in {NoInode, name}
    BY <1>6 DEF Rename
  <2> QED
    BY <1>0, <2>1, FilesKeepInv
<1>7. CASE Signal
  BY <1>0, <1>7, ReopenKeepsInv DEF Signal
<1>8. CASE SignalFails
  BY <1>0, <1>8, RestKeepsInv DEF SignalFails
<1>9. CASE Open
  BY <1>0, <1>9, OpenKeepsInv
<1>10. CASE Commit
  BY <1>0, <1>10, RestKeepsInv DEF Commit
<1>11. CASE TailRestart
  BY <1>0, <1>11, RestartKeepsInv
<1>12. ASSUME NEW due \in BOOLEAN, HandleLine(due) PROVE TailInv'
  BY <1>0, <1>12, LineKeepsInv
<1>13. ASSUME NEW due \in BOOLEAN, AtEnd(due) PROVE TailInv'
  BY <1>0, <1>13, EndKeepsInv
<1>14. CASE UNCHANGED tailVars
  BY <1>0, <1>14, RestKeepsInv DEF tailVars
<1> QED
  BY <1>1, <1>2, <1>3, <1>4, <1>5, <1>6, <1>7, <1>8, <1>9, <1>10, <1>11, <1>12, <1>13, <1>14
     DEF TailNext

\* However the proxy, the rotation, truncations and restarts of secwatch mix, no
\* request is counted twice in the traffic tables.
THEOREM LinesAreCountedOnce == TailSpec => []CountedOnce
<1>1. TailInv => CountedOnce
  BY DEF TailInv
<1> QED
  BY <1>1, TailInvInit, TailInvNext, PTL DEF TailSpec
-----------------------------------------------------------------------------
(* Nothing is skipped *)

\* The first n lines of file f are in the counts c, and their events among e.
Held(lines, f, n, c, e) ==
  /\ n <= Len(lines[f])
  /\ \A i \in 1 .. n :
       c[lines[f][i]] = 1 /\ (lines[f][i] \in Noted => lines[f][i] \in e)

\* As long as no file is emptied in place, what lies before a place was counted:
\* before the saved one in the tables, before the reader's in the tables, the
\* buffer or the open transaction.
NothingLost ==
  cuts = 0 =>
    /\ saved.ino # NoInode => Held(log, saved.ino, saved.pos, counted, noted)
    /\ rd # NoInode => Held(log, rd, pos, Plus(counted, buf), noted \cup tx)

Grown(old, new) ==
  \A g \in Inode :
    /\ Len(old[g]) \in Nat /\ Len(old[g]) <= Len(new[g])
    /\ \A i \in 1 .. Len(old[g]) : new[g][i] = old[g][i]

LEMMA LogGrows ==
  ASSUME TailTypeOK, TailTypeOK', [TailNext]_tailVars, cuts' = 0
  PROVE  cuts = 0 /\ Grown(log, log')
<1>1. cuts \in Nat /\ \A g \in Inode : log[g] \in Seq(Line) /\ Len(log[g]) \in Nat
  <2>1. cuts \in Nat
    BY LogTailAssumption DEF TailTypeOK
  <2> QED
    BY <2>1 DEF TailTypeOK
<1>2. CASE WriteLine
  <2>1. cuts = 0 /\ log' = [log EXCEPT ![fd] = Append(@, written + 1)]
    BY <1>2 DEF WriteLine
  <2>2. \A g \in Inode : log'[g] = log[g] \/ log'[g] = Append(log[g], written + 1)
    BY <2>1 DEF TailTypeOK
  <2> QED
    BY <1>1, <2>1, <2>2 DEF Grown
<1>3. CASE UNCHANGED <<log, cuts>>
  BY <1>1, <1>3 DEF Grown
<1>4. ~Truncate
  BY <1>1 DEF Truncate
<1> QED
  BY <1>2, <1>3, <1>4 DEF TailNext, tailVars, disk, WritePart, WriterStarts, WriterDies, Rename,
     Signal, SignalFails, Open, Commit, TailRestart, HandleLine, AtEnd

LEMMA HeldStays ==
  ASSUME NEW old, NEW new, Grown(old, new), NEW f \in Inode, NEW n \in Nat, NEW c, NEW d,
         NEW e, NEW h, Held(old, f, n, c, e), e \subseteq h,
         \A i \in 1 .. n : c[old[f][i]] = 1 => d[old[f][i]] = 1
  PROVE  Held(new, f, n, d, h)
<1>1. n <= Len(old[f]) /\ Len(old[f]) \in Nat /\ Len(old[f]) <= Len(new[f])
  BY DEF Held, Grown
<1>2. n <= Len(new[f])
  <2>1. CASE n = 0
    BY <1>1, <2>1
  <2>2. CASE n # 0
    BY <1>1, <2>2
  <2> QED
    BY <2>1, <2>2
<1>3. \A i \in 1 .. n : new[f][i] = old[f][i]
  BY <1>1 DEF Grown
<1>4. ASSUME NEW i \in 1 .. n
      PROVE  d[new[f][i]] = 1 /\ (new[f][i] \in Noted => new[f][i] \in h)
  <2>1. new[f][i] = old[f][i]
    BY <1>3
  <2>2. c[old[f][i]] = 1 /\ (old[f][i] \in Noted => old[f][i] \in e)
    BY DEF Held
  <2> QED
    BY <2>1, <2>2
<1> QED
  BY <1>2, <1>4 DEF Held

LEMMA SavedTyped ==
  ASSUME TailTypeOK, saved.ino # NoInode
  PROVE  saved.ino \in Inode /\ saved.pos \in Nat
<1>1. saved \in Place
  BY DEF TailTypeOK
<1> QED
  BY <1>1 DEF Place

LEMMA ReaderTyped ==
  ASSUME TailTypeOK, rd # NoInode
  PROVE  rd \in Inode /\ pos \in Nat
BY LogTailAssumption DEF TailTypeOK, Inode, NoInode

\* The steps that neither read a line nor move the saved place.
LEMMA OthersLoseNothing ==
  ASSUME TailTypeOK, TailTypeOK', NothingLost, [TailNext]_tailVars,
         UNCHANGED <<counted, saved>>, noted \subseteq noted',
         \/ rd' = NoInode
         \/ UNCHANGED <<rd, pos, buf>> /\ noted \cup tx \subseteq noted' \cup tx'
  PROVE  NothingLost'
<1> SUFFICES ASSUME cuts' = 0
             PROVE  /\ saved'.ino # NoInode => Held(log', saved'.ino, saved'.pos, counted', noted')
                    /\ rd' # NoInode => Held(log', rd', pos', Plus(counted', buf'), noted' \cup tx')
  BY DEF NothingLost
<1>1. cuts = 0 /\ Grown(log, log')
  BY LogGrows
<1>2. ASSUME saved.ino # NoInode PROVE Held(log', saved.ino, saved.pos, counted, noted')
  <2>1. saved.ino \in Inode /\ saved.pos \in Nat
    BY <1>2, SavedTyped
  <2>2. Held(log, saved.ino, saved.pos, counted, noted)
    BY <1>1, <1>2 DEF NothingLost
  <2> QED
    BY <1>1, <2>1, <2>2, HeldStays
<1>3. ASSUME rd # NoInode, noted \cup tx \subseteq noted' \cup tx'
      PROVE  Held(log', rd, pos, Plus(counted, buf), noted' \cup tx')
  <2>1. rd \in Inode /\ pos \in Nat
    BY <1>3, ReaderTyped
  <2>2. Held(log, rd, pos, Plus(counted, buf), noted \cup tx)
    BY <1>1, <1>3 DEF NothingLost
  <2> QED
    BY <1>1, <1>3, <2>1, <2>2, HeldStays
<1> QED
  BY <1>2, <1>3

LEMMA OpenLosesNothing ==
  ASSUME TailInv, TailTypeOK', NothingLost, Open PROVE NothingLost'
<1> SUFFICES ASSUME cuts = 0
             PROVE  Held(log, name, Start(name), Plus(counted, buf), noted \cup tx)
  BY DEF NothingLost, Open, disk, store
<1>1. TailTypeOK /\ PlacesAreKnown /\ name # NoInode
  BY DEF TailInv, Open
<1>2. Len(log[name]) \in Nat
  BY <1>1, LogTailAssumption DEF TailTypeOK, Inode, NoInode
<1>3. CASE resume.ino = name /\ resume.pos <= Len(log[name])
  <2>1. resume = saved /\ buf = None
    BY <1>1, <1>3 DEF PlacesAreKnown, Nowhere, At
  <2>2. Held(log, name, Start(name), counted, noted)
    BY <1>1, <1>3, <2>1 DEF NothingLost, Start
  <2>3. name \in Inode /\ Start(name) \in Nat /\ Start(name) <= Len(log[name])
    BY <1>1, <1>3, <2>1, SavedTyped DEF Start
  <2>4. \A i \in 1 .. Start(name) : log[name][i] \in Line
    BY <1>2, <2>3, <1>1 DEF TailTypeOK
  <2>5. \A l \in Line : counted[l] = 1 => Plus(counted, buf)[l] = 1
    BY <2>1 DEF Plus, None
  <2>6. ASSUME NEW i \in 1 .. Start(name)
        PROVE  /\ Plus(counted, buf)[log[name][i]] = 1
               /\ log[name][i] \in Noted => log[name][i] \in noted \cup tx
    <3>1. counted[log[name][i]] = 1 /\ (log[name][i] \in Noted => log[name][i] \in noted)
      BY <2>2 DEF Held
    <3> QED
      BY <2>4, <2>5, <3>1
  <2> QED
    BY <2>3, <2>6 DEF Held
<1>4. CASE ~(resume.ino = name /\ resume.pos <= Len(log[name]))
  BY <1>2, <1>4 DEF Start, Held
<1> QED
  BY <1>3, <1>4

\* A turn of the tail, if what it has seen covers the lines before its new place.
LEMMA TurnLosesNothing ==
  ASSUME TailTypeOK, NothingLost, cuts = 0, rd # NoInode,
         NEW seen \in [Line -> Nat], NEW marked, NEW n \in Nat, NEW due \in BOOLEAN,
         Handled(seen, marked, n, due),
         Held(log, rd, n, Plus(counted, seen), noted \cup marked)
  PROVE  /\ saved'.ino # NoInode => Held(log, saved'.ino, saved'.pos, counted', noted')
         /\ Held(log, rd, n, Plus(counted', buf'), noted' \cup tx')
<1>1. CASE due
  <2>1. /\ counted' = Plus(counted, seen) /\ buf' = None /\ tx' = {}
        /\ saved' = At(rd, n) /\ noted' = noted \cup marked
    BY <1>1 DEF Handled, Flush
  <2>2. Held(log, rd, n, counted', noted')
    BY <2>1
  <2>3. rd \in Inode /\ \A i \in 1 .. n : log[rd][i] \in Line
    <3>1. rd \in Inode /\ log[rd] \in Seq(Line)
      BY ReaderTyped DEF TailTypeOK
    <3> QED
      BY <3>1, <2>2 DEF Held
  <2>4. \A l \in Line : Plus(counted', buf')[l] = counted'[l]
    <3>1. counted' \in [Line -> Nat]
      BY <2>1, PlusTyped DEF TailTypeOK
    <3> QED
      BY <2>1, <3>1 DEF Plus, None
  <2>5. Held(log, rd, n, Plus(counted', buf'), noted' \cup tx')
    BY <2>2, <2>3, <2>4 DEF Held
  <2> QED
    BY <2>1, <2>2, <2>5 DEF At
<1>2. CASE ~due
  BY <1>2 DEF Handled, Keep, NothingLost
<1> QED
  BY <1>1, <1>2

LEMMA LineLosesNothing ==
  ASSUME TailInv, NothingLost, NEW due \in BOOLEAN, HandleLine(due)
  PROVE  NothingLost'
<1> DEFINE l == log[rd][pos + 1]
           seen == [buf EXCEPT ![l] = @ + 1]
           marked == tx \cup ({l} \cap Noted)
<1> SUFFICES ASSUME cuts = 0
             PROVE  /\ saved'.ino # NoInode => Held(log, saved'.ino, saved'.pos, counted', noted')
                    /\ Held(log, rd, pos + 1, Plus(counted', buf'), noted' \cup tx')
  BY DEF NothingLost, HandleLine, disk
<1>0. TailTypeOK /\ LinesLieOnce /\ rd # NoInode /\ Handled(seen, marked, pos + 1, due)
  BY DEF TailInv, HandleLine
<1>1. /\ rd \in Inode /\ pos + 1 \in 1 .. Len(log[rd]) /\ l \in Line
      /\ Unread(counted, buf, l)
  BY LineIsUnread DEF HandleLine
<1>2. pos \in Nat /\ log[rd] \in Seq(Line) /\ Held(log, rd, pos, Plus(counted, buf), noted \cup tx)
  BY <1>0, <1>1 DEF NothingLost, TailTypeOK
<1>3. \A i \in 1 .. pos : log[rd][i] \in Line /\ log[rd][i] # l
  <2>1. \A i \in 1 .. pos : i \in 1 .. Len(log[rd]) /\ i # pos + 1
    BY <1>1, <1>2
  <2> QED
    BY <1>0, <1>1, <1>2, <2>1 DEF LinesLieOnce
<1>4. l = log[rd][pos + 1]
  OBVIOUS
<1> HIDE DEF l
<1>5. /\ seen \in [Line -> Nat] /\ seen[l] = buf[l] + 1
      /\ \A m \in Line : m # l => seen[m] = buf[m]
  <2>1. buf \in [Line -> Nat]
    BY <1>0 DEF TailTypeOK
  <2> QED
    BY <1>1, <2>1
<1> HIDE DEF seen
<1>6. /\ Plus(counted, seen)[l] = 1
      /\ \A m \in Line : m # l => Plus(counted, seen)[m] = Plus(counted, buf)[m]
  BY <1>1, <1>5 DEF Plus, Unread
<1>7. Held(log, rd, pos + 1, Plus(counted, seen), noted \cup marked)
  <2>1. pos + 1 <= Len(log[rd])
    BY <1>1
  <2>2. ASSUME NEW i \in 1 .. pos + 1
        PROVE  /\ Plus(counted, seen)[log[rd][i]] = 1
               /\ log[rd][i] \in Noted => log[rd][i] \in noted \cup marked
    <3>1. CASE i = pos + 1
      BY <1>4, <1>6, <3>1
    <3>2. CASE i # pos + 1
      <4>1. i \in 1 .. pos
        BY <1>2, <3>2
      <4>2. /\ Plus(counted, buf)[log[rd][i]] = 1
            /\ log[rd][i] \in Noted => log[rd][i] \in noted \cup tx
        BY <1>2, <4>1 DEF Held
      <4>3. Plus(counted, seen)[log[rd][i]] = 1
        BY <1>3, <1>6, <4>1, <4>2
      <4> QED
        BY <4>2, <4>3
    <3> QED
      BY <3>1, <3>2
  <2> QED
    BY <2>1, <2>2 DEF Held
<1>8. pos + 1 \in Nat
  BY <1>2
<1> HIDE DEF marked
<1> QED
  BY <1>0, <1>5, <1>7, <1>8, TurnLosesNothing

LEMMA EndLosesNothing ==
  ASSUME TailInv, NothingLost, NEW due \in BOOLEAN, AtEnd(due)
  PROVE  NothingLost'
<1> SUFFICES ASSUME cuts = 0
             PROVE  /\ saved'.ino # NoInode => Held(log, saved'.ino, saved'.pos, counted', noted')
                    /\ Held(log, rd, pos, Plus(counted', buf'), noted' \cup tx')
  BY DEF NothingLost, AtEnd, disk
<1>1. TailTypeOK /\ rd # NoInode /\ Handled(buf, tx, pos, due)
  BY DEF TailInv, AtEnd
<1>2. buf \in [Line -> Nat] /\ pos \in Nat
  BY <1>1 DEF TailTypeOK
<1>3. Held(log, rd, pos, Plus(counted, buf), noted \cup tx)
  BY <1>1 DEF NothingLost
<1> QED
  BY <1>1, <1>2, <1>3, TurnLosesNothing

LEMMA NothingLostNext ==
  TailInv /\ NothingLost /\ [TailNext]_tailVars => NothingLost'
<1> SUFFICES ASSUME TailInv, NothingLost, [TailNext]_tailVars PROVE NothingLost'
  OBVIOUS
<1>0. TailTypeOK /\ TailTypeOK'
  BY TailTypeNext DEF TailInv
<1>1. CASE Open
  BY <1>0, <1>1, OpenLosesNothing
<1>2. ASSUME NEW due \in BOOLEAN, HandleLine(due) PROVE NothingLost'
  BY <1>2, LineLosesNothing
<1>3. ASSUME NEW due \in BOOLEAN, AtEnd(due) PROVE NothingLost'
  BY <1>3, EndLosesNothing
<1>4. CASE UNCHANGED <<reader, store>>
  <2>1. UNCHANGED <<counted, saved, noted, rd, pos, buf, tx>>
    BY <1>4 DEF reader, store
  <2> QED
    BY <1>0, <2>1, OthersLoseNothing
<1>5. CASE Commit
  <2>1. /\ UNCHANGED <<counted, saved, rd, pos, buf>> /\ noted \subseteq noted'
        /\ noted \cup tx \subseteq noted' \cup tx'
    BY <1>5 DEF Commit, reader
  <2> QED
    BY <1>0, <2>1, OthersLoseNothing
<1>6. CASE TailRestart
  <2>1. UNCHANGED <<counted, saved, noted>> /\ rd' = NoInode
    BY <1>6 DEF TailRestart
  <2> QED
    BY <1>0, <2>1, OthersLoseNothing
<1> QED
  BY <1>1, <1>2, <1>3, <1>4, <1>5, <1>6
     DEF TailNext, tailVars, WriteLine, WritePart, WriterStarts, WriterDies, Truncate, Rename,
         Signal, SignalFails

\* A restart that goes on from the saved place skips nothing, whatever was lost
\* with the process: the lines before that place are in the traffic tables and
\* their events in the events table, unless a file was emptied in place.
THEOREM RestartsSkipNothing == TailSpec => []NothingSkipped
<1>1. TailInit => NothingLost
  BY DEF TailInit, NothingLost, Nowhere, At
<1>2. NothingLost => NothingSkipped
  <2> SUFFICES ASSUME NothingLost, cuts = 0, saved.ino # NoInode, NEW i \in 1 .. saved.pos
               PROVE  /\ counted[log[saved.ino][i]] = 1
                      /\ log[saved.ino][i] \in Noted => log[saved.ino][i] \in noted
    BY DEF NothingSkipped
  <2>1. Held(log, saved.ino, saved.pos, counted, noted)
    BY DEF NothingLost
  <2> QED
    BY <2>1 DEF Held
<1> QED
  BY <1>1, <1>2, TailInvInit, TailInvNext, NothingLostNext, PTL DEF TailSpec

-----------------------------------------------------------------------------
(***************************************************************************)
(* AgentLink: a container that was steady is not announced as new.  The    *)
(* inductive invariant says that what the watcher calls steady has its     *)
(* row; the rest follows what one line of docker ps may announce.          *)
(***************************************************************************)

\* What the watcher compares has its type, and what it calls steady has its row:
\* the rows change only when a check ends, all at once, and steady with them.
SteadyIsKnown ==
  /\ known \in [Container -> Status \cup {NotThere}]
  /\ listed \in [Container -> Status \cup {NotThere}]
  /\ containers \in [Container -> Status \cup {NotThere}]
  /\ \A c \in steady : c \in Container /\ known[c] # NotThere

\* A line of docker ps announces its own container only, and as new only when the
\* container has no row.
LEMMA NewHasNoRow ==
  ASSUME NEW c \in Container, NEW d \in Container, NEW s \in Status,
         <<"docker_new", c>> \in Range(StatusEvents(d, s))
  PROVE  c = d /\ known[d] = NotThere
<1> DEFINE new == IF first THEN << >> ELSE << <<"docker_new", d>> >>
           image == IF known[d][1] # s[1] THEN << <<"docker_image", d>> >> ELSE << >>
           down == IF known[d][2] = "running" /\ s[2] = "exited"
                   THEN << <<"docker_down", d>> >> ELSE << >>
           loop == IF s[2] = "restarting" THEN << <<"docker_restart_loop", d>> >> ELSE << >>
           rules == DockerRule \X {d}
<1>1. /\ new \in Seq(rules) /\ image \in Seq(rules) /\ down \in Seq(rules)
      /\ loop \in Seq(rules)
  <2>1. \A x \in rules : <<x>> \in Seq(rules)
    OBVIOUS
  <2>2. << >> \in Seq(rules)
    OBVIOUS
  <2>3. \A r \in DockerRule : <<r, d>> \in rules
    OBVIOUS
  <2> HIDE DEF rules
  <2> QED
    BY <2>1, <2>2, <2>3 DEF DockerRule
<1>2. /\ Range(new) \subseteq {<<"docker_new", d>>}
      /\ Range(image) \subseteq {<<"docker_image", d>>}
      /\ Range(down) \subseteq {<<"docker_down", d>>}
      /\ Range(loop) \subseteq {<<"docker_restart_loop", d>>}
  BY DEF Range
<1>3. StatusEvents(d, s) = (IF known[d] = NotThere THEN new ELSE image \o down) \o loop
  BY DEF StatusEvents
<1> HIDE DEF new, image, down, loop
<1>4. CASE known[d] = NotThere
  <2>1. Range(new \o loop) = Range(new) \cup Range(loop)
    BY <1>1, RangeConcatenation
  <2> QED
    BY <1>2, <1>3, <1>4, <2>1
<1>5. CASE known[d] # NotThere
  <2>1. image \o down \in Seq(rules) /\ Range(image \o down) = Range(image) \cup Range(down)
    BY <1>1, RangeConcatenation, ConcatProperties
  <2>2. Range((image \o down) \o loop) = Range(image \o down) \cup Range(loop)
    <3> DEFINE both == image \o down
    <3>1. both \in Seq(rules)
      BY <2>1
    <3> HIDE DEF both
    <3>2. Range(both \o loop) = Range(both) \cup Range(loop)
      BY <1>1, <3>1, RangeConcatenation
    <3> QED
      BY <3>2 DEF both
  <2> QED
    BY <1>2, <1>3, <1>5, <2>1, <2>2
<1> QED
  BY <1>4, <1>5

\* A unit's event is not a container's.
LEMMA UnitsAreNotNew ==
  ASSUME NEW c, NEW scope, NEW ok
  PROVE  <<"docker_new", c>> \notin Range(UnitEvents(scope, ok))
  BY DEF UnitEvents, Range

LEMMA SteadyInit == AgentInit => SteadyIsKnown
  BY DEF AgentInit, SteadyIsKnown, Nothing

LEMMA SteadyStep == SteadyIsKnown /\ [AgentNext]_agentVars => SteadyIsKnown'
<1> SUFFICES ASSUME SteadyIsKnown, [AgentNext]_agentVars PROVE SteadyIsKnown'
  OBVIOUS
<1> USE DEF SteadyIsKnown
<1>1. CASE ReadBaseline \/ AgentRestart
  BY <1>1 DEF ReadBaseline, AgentRestart, Nothing, hostVars, baseVars
<1>2. ASSUME NEW ok \in BOOLEAN, DockerListed(ok) PROVE SteadyIsKnown'
  <2>1. /\ listed' = IF ok THEN containers ELSE Nothing
        /\ steady' = {c \in steady : listed'[c] # NotThere}
        /\ UNCHANGED <<known, containers>>
    BY <1>2 DEF DockerListed, hostVars, baseVars
  <2> QED
    BY <2>1 DEF Nothing
<1>3. ASSUME NEW ok \in BOOLEAN, SystemListed(ok) PROVE SteadyIsKnown'
  BY <1>3 DEF SystemListed, hostVars, baseVars
<1>4. ASSUME NEW ok \in BOOLEAN, NEW baseSaved \in BOOLEAN, UserListed(ok, baseSaved)
      PROVE  SteadyIsKnown'
  <2>1. UNCHANGED <<containers, listed>>
    BY <1>4 DEF UserListed, hostVars
  <2>2. \/ known' = listed /\ steady' = {c \in Container : listed[c] # NotThere}
        \/ UNCHANGED <<known, steady>>
    BY <1>4 DEF UserListed, KnownNow
  <2> QED
    BY <2>1, <2>2
<1>5. CASE Ship \/ Delivered \/ PostFails \/ \E r \in DockerRule : Lapse(r)
  BY <1>5 DEF Ship, Delivered, PostFails, Lapse, hostVars, baseVars, checkVars
<1>6. CASE HostChanges
  BY <1>6 DEF HostChanges, baseVars, checkVars
<1>7. CASE UNCHANGED agentVars
  BY <1>7 DEF agentVars, hostVars, baseVars, checkVars
<1> QED
  BY <1>1, <1>2, <1>3, <1>4, <1>5, <1>6, <1>7 DEF AgentNext

\* A container that a check listed, and every listing since, is not announced as
\* new, over any failing commands, refused writes and restarts
\* (DockerWatcher.check).
THEOREM SteadyIsNotNews == AgentSpec => SteadyNotAnnounced
<1>1. SteadyIsKnown /\ [AgentNext]_agentVars =>
        [\A c \in Container : <<"docker_new", c>> \in announced' => c \notin steady]_agentVars
  <2> SUFFICES ASSUME SteadyIsKnown, AgentNext,
                      NEW c \in Container, <<"docker_new", c>> \in announced'
               PROVE  c \notin steady
    OBVIOUS
  <2>1. ASSUME NEW ok \in BOOLEAN, DockerListed(ok) PROVE c \notin steady
    <3> DEFINE there == {d \in Container : listed'[d] # NotThere}
    <3>1. announced' = UNION {Range(StatusEvents(d, listed'[d])) : d \in there}
      BY <2>1 DEF DockerListed, Emit
    <3>2. PICK d \in there : <<"docker_new", c>> \in Range(StatusEvents(d, listed'[d]))
      BY <3>1
    <3>3. listed'[d] \in Status
      BY SteadyStep, <3>2 DEF SteadyIsKnown
    <3>4. c = d /\ known[d] = NotThere
      BY <3>2, <3>3, NewHasNoRow
    <3> QED
      BY <3>4 DEF SteadyIsKnown
  <2>2. ASSUME NEW ok \in BOOLEAN, SystemListed(ok) PROVE FALSE
    BY <2>2, UnitsAreNotNew DEF SystemListed, Emit
  <2>3. ASSUME NEW ok \in BOOLEAN, NEW baseSaved \in BOOLEAN, UserListed(ok, baseSaved) PROVE FALSE
    BY <2>3, UnitsAreNotNew DEF UserListed, Emit
  <2>4. ASSUME \/ ReadBaseline \/ Ship \/ Delivered \/ PostFails
               \/ HostChanges \/ AgentRestart \/ \E r \in DockerRule : Lapse(r)
        PROVE FALSE
    BY <2>4 DEF ReadBaseline, Ship, Delivered, PostFails, HostChanges, AgentRestart, Lapse,
                Silent, Ingest
  <2> QED
    BY <2>1, <2>2, <2>3, <2>4 DEF AgentNext
<1> QED
  BY <1>1, SteadyInit, SteadyStep, PTL DEF AgentSpec, SteadyNotAnnounced

-----------------------------------------------------------------------------
(***************************************************************************)
(* EdgeDrill: what the edge promises if one thread at a time is about to   *)
(* write it and the drill has a connection of its own.  The inductive      *)
(* invariant follows the thread under way: the files are as it left them,  *)
(* its list is the table's but for the enforce stage of a drill, and a     *)
(* drill restores the table's bans, whether it writes back what it found   *)
(* or reads the table again.                                               *)
(***************************************************************************)

LEMMA EdgeTypeInit == EdgeInit => EdgeTypeOK
BY EdgeDrillAssumption DEF EdgeInit, EdgeTypeOK, List, Places, Actuator

\* What is read as text is a file or a set, and the addresses in it are a list.
LEMMA TextTyped ==
  ASSUME EdgeTypeOK
  PROVE  /\ Text \in List \cup {NoFile}
         /\ \A text \in List \cup {NoFile} : Contents(text) \in List
BY DEF EdgeTypeOK, Text, Contents, List

LEMMA AfterSyncTyped ==
  ASSUME NEW t \in Hand
  PROVE  AfterSync(t) \in Places
BY DEF AfterSync, Places

LEMMA GotoTyped ==
  ASSUME EdgeTypeOK, NEW t \in Hand, NEW p \in Places, Goto(t, p)
  PROVE  /\ spot' \in [Hand -> Places]
         /\ spot'[t] = p /\ \A u \in Hand : u # t => spot'[u] = spot[u]
BY DEF EdgeTypeOK, Goto

LEMMA UpsetsTyped ==
  ASSUME EdgeTypeOK, Fails \/ Works
  PROVE  upsets' \in 0 .. MaxUpsets /\ clean' \in BOOLEAN
<1>1. CASE Fails
  <2>1. upsets' \in 0 .. MaxUpsets
    BY <1>1, EdgeDrillAssumption DEF EdgeTypeOK, Fails
  <2> QED
    BY <1>1, <2>1 DEF Fails
<1>2. CASE Works
  BY <1>2 DEF EdgeTypeOK, Works
<1> QED
  BY <1>1, <1>2

LEMMA SyncTyped ==
  ASSUME EdgeTypeOK, NEW t \in Hand, NEW ok \in BOOLEAN,
         \/ SyncTraefik(t) \/ Replace(t) \/ SyncNginx(t) \/ Reload(t, ok)
         \/ SyncNftables(t, ok) \/ Fill(t, ok) \/ SyncFailsToWrite(t)
  PROVE  EdgeTypeOK'
<1> USE AfterSyncTyped
<1>1. (Fails \/ Works) /\ UNCHANGED <<active, list, found, enforced, restored, actuator, ownConn, drills>>
  BY DEF SyncTraefik, Replace, SyncNginx, Reload, SyncNftables, Fill, SyncFailsToWrite,
         SyncFrom, Same, drillVars
<1>2. \E p \in Places : Goto(t, p)
  <2>1. {"replace", "reload", "fill"} \subseteq Places
    BY DEF Places
  <2> QED
    BY <2>1 DEF SyncTraefik, Replace, SyncNginx, Reload, SyncNftables, Fill, SyncFailsToWrite
<1>3. spot' \in [Hand -> Places]
  BY <1>2, GotoTyped
<1>4. {file', temp'} \subseteq List \cup {NoFile}
  BY DEF SyncTraefik, Replace, SyncNginx, Reload, SyncNftables, Fill, SyncFailsToWrite, edgeVars,
         EdgeTypeOK
<1>5. loaded' \in List
  <2>1. Contents(file) \in List /\ {} \in List /\ loaded \cup list[t] \in List
    BY TextTyped DEF EdgeTypeOK, List
  <2> QED
    BY <2>1 DEF SyncTraefik, Replace, SyncNginx, Reload, SyncNftables, Fill, SyncFailsToWrite, edgeVars,
         EdgeTypeOK
<1> QED
  BY <1>1, <1>3, <1>4, <1>5, UpsetsTyped DEF EdgeTypeOK

LEMMA DrillTyped ==
  ASSUME EdgeTypeOK, NEW d \in Drill,
         StartDrill(d) \/ Judge(d) \/ Restore(d) \/ WriteBack(d) \/ Verify(d)
  PROVE  EdgeTypeOK'
<1>1. d \in Hand /\ {"sync", "restore", "written back", "read", "idle", "verify"} \subseteq Places
  BY DEF Hand, Places
<1>2. Works /\ UNCHANGED <<active, loaded, actuator, ownConn>>
  BY DEF StartDrill, Judge, Restore, WriteBack, Verify, edgeVars, Same
<1>3. spot' \in [Hand -> Places]
  BY <1>1, GotoTyped DEF StartDrill, Judge, Restore, WriteBack, Verify
<1>4. drills' \in 0 .. MaxDrills
  <2>1. CASE StartDrill(d)
    BY <2>1, EdgeDrillAssumption DEF StartDrill, EdgeTypeOK
  <2>2. CASE Judge(d) \/ Restore(d) \/ WriteBack(d) \/ Verify(d)
    <3>1. drills' = drills
      BY <2>2 DEF Judge, Restore, WriteBack, Verify, Same
    <3> QED
      BY <3>1 DEF EdgeTypeOK
  <2> QED
    BY <2>1, <2>2
<1>5. list' \in [Hand -> List]
  <2>1. active \cup {Synthetic} \in List
    BY DEF EdgeTypeOK, List
  <2> QED
    BY <1>1, <2>1 DEF StartDrill, Judge, Restore, WriteBack, Verify, EdgeTypeOK
<1>6. found' \in [Drill -> List \cup {NoFile}]
  BY TextTyped DEF StartDrill, Judge, Restore, WriteBack, Verify, EdgeTypeOK
<1>7. {enforced', restored'} \subseteq [Drill -> {"none", "ok", "red"}]
  <2>1. /\ enforced' = enforced \/ \E r \in {"none", "ok", "red"} : enforced' = [enforced EXCEPT ![d] = r]
        /\ restored' = restored \/ \E r \in {"none", "ok", "red"} : restored' = [restored EXCEPT ![d] = r]
    BY DEF StartDrill, Judge, Restore, WriteBack, Verify
  <2> QED
    BY <2>1 DEF EdgeTypeOK
<1>8. {file', temp'} \subseteq List \cup {NoFile}
  BY DEF StartDrill, Judge, Restore, WriteBack, Verify, edgeVars, EdgeTypeOK
<1> QED
  BY <1>2, <1>3, <1>4, <1>5, <1>6, <1>7, <1>8, UpsetsTyped DEF EdgeTypeOK

LEMMA EdgeTypeNext == EdgeTypeOK /\ [EdgeNext]_edgeDrillVars => EdgeTypeOK'
<1> SUFFICES ASSUME EdgeTypeOK, [EdgeNext]_edgeDrillVars PROVE EdgeTypeOK'
  OBVIOUS
<1>1. ASSUME NEW t \in Hand, NEW ok \in BOOLEAN,
             \/ SyncTraefik(t) \/ Replace(t) \/ SyncNginx(t) \/ Reload(t, ok)
             \/ SyncNftables(t, ok) \/ Fill(t, ok) \/ SyncFailsToWrite(t)
      PROVE  EdgeTypeOK'
  BY <1>1, SyncTyped
<1>2. ASSUME NEW d \in Drill,
             StartDrill(d) \/ Judge(d) \/ Restore(d) \/ WriteBack(d) \/ Verify(d)
      PROVE  EdgeTypeOK'
  BY <1>2, DrillTyped
<1>3. ASSUME NEW t \in Hand, ReadActive(t) PROVE EdgeTypeOK'
  <2>1. Works /\ UNCHANGED <<active, file, temp, loaded, found, enforced, restored, actuator, ownConn, drills>>
    BY <1>3 DEF ReadActive, edgeVars, drillVars, Same
  <2>2. list' \in [Hand -> List]
    BY <1>3 DEF ReadActive, EdgeTypeOK, List
  <2>3. spot' \in [Hand -> Places]
    BY <1>3, GotoTyped DEF ReadActive, Places
  <2> QED
    BY <2>1, <2>2, <2>3, UpsetsTyped DEF EdgeTypeOK
<1>4. ASSUME NEW t \in Writer, Reconcile(t) PROVE EdgeTypeOK'
  <2>1. Works /\ UNCHANGED <<active, list, file, temp, loaded, found, enforced, restored, actuator, ownConn, drills>>
    BY <1>4 DEF Reconcile, edgeVars, drillVars, Same
  <2>2. spot' \in [Hand -> Places]
    BY <1>4, GotoTyped DEF Reconcile, Places, Hand
  <2> QED
    BY <2>1, <2>2, UpsetsTyped DEF EdgeTypeOK
<1>5. ASSUME NEW t \in Writer, NEW bans \in SUBSET Banned, ChangeTable(t, bans) PROVE EdgeTypeOK'
  <2>1. UNCHANGED <<list, file, temp, loaded, found, enforced, restored, actuator, ownConn, drills, clean>>
    BY <1>5 DEF ChangeTable, edgeVars, drillVars, Same
  <2>2. spot' \in [Hand -> Places]
    BY <1>5, GotoTyped DEF ChangeTable, Places, Hand
  <2>3. active' \in SUBSET Banned /\ upsets' \in 0 .. MaxUpsets
    BY <1>5, EdgeDrillAssumption DEF ChangeTable, EdgeTypeOK
  <2> QED
    BY <2>1, <2>2, <2>3 DEF EdgeTypeOK
<1>6. CASE EdgeCrash
  <2>1. Fails /\ UNCHANGED <<active, list, file, temp, loaded, found, enforced, restored, actuator, ownConn, drills>>
    BY <1>6 DEF EdgeCrash, edgeVars, drillVars, Same
  <2>2. spot' \in [Hand -> Places]
    BY <1>6 DEF EdgeCrash, Places
  <2> QED
    BY <2>1, <2>2, UpsetsTyped DEF EdgeTypeOK
<1>7. CASE UNCHANGED edgeDrillVars
  BY <1>7 DEF edgeDrillVars, edgeVars, threadVars, drillVars, EdgeTypeOK
<1> QED
  BY <1>1, <1>2, <1>3, <1>4, <1>5, <1>6, <1>7 DEF EdgeNext, EdgeStep, Hand

THEOREM EdgeTypeCorrect == EdgeSpec => []EdgeTypeOK
BY EdgeTypeInit, EdgeTypeNext, PTL DEF EdgeSpec

-----------------------------------------------------------------------------

\* One thread at a time is between reading the table and the end of its sync.
Alone == \A t, u \in Hand : spot[t] # "idle" /\ spot[u] # "idle" => t = u

AllIdle == \A t \in Hand : spot[t] = "idle"

\* Neither stage of a drill that touches the edge is red.
DrillsPass ==
  clean => \A d \in Drill : enforced[d] # "red" /\ restored[d] # "red"

\* Between two syncs the edge denies the active bans and nothing else; with nginx,
\* whose file a drill writes back without a reload, only until the first drill.
IdleEdgeIsCurrent ==
  clean /\ AllIdle /\ (actuator = "nginx" => drills = 0) => Denied = active

Syncing == {"sync", "replace", "reload", "fill"}

\* What a drill has come to: it found the table's bans, has or has not passed the
\* enforce stage, and restores what it found or the table.
DrillStage(d) ==
  /\ drills # 0
  /\ Contents(found[d]) = active
  /\ spot[d] \in {"read", "restore", "written back", "verify"} => enforced[d] = "ok"
  /\ spot[d] = "judge" => enforced[d] = "none" /\ list[d] \subseteq Contents(Text)
  /\ spot[d] \in Syncing => enforced[d] \in {"none", "ok"}
  /\ spot[d] \in Syncing \cup {"read"} /\ enforced[d] = "ok" => ~WritesBack(d)
  /\ spot[d] = "written back" => temp = found[d] /\ WritesBack(d)
  /\ spot[d] = "verify" => Contents(Text) = active /\ (WritesBack(d) => Text = found[d])

\* What the thread under way can rely on: the files are as it left them, and its
\* list is the table's, but for the enforce stage of a drill.
Stage(t) ==
  /\ spot[t] = "replace" => actuator = "traefik" /\ temp = list[t]
  /\ spot[t] = "reload" => actuator = "nginx" /\ file = list[t]
  /\ spot[t] = "fill" => actuator = "nftables" /\ loaded = {}
  /\ spot[t] \in Syncing => list[t] = active \/ (t \in Drill /\ enforced[t] = "none")
  /\ t \in Writer => spot[t] \in Syncing \cup {"read"}
  /\ t \in Drill => DrillStage(t)

NoneIsRed == \A d \in Drill : enforced[d] # "red" /\ restored[d] # "red"

\* What is there when no thread is under way.
AtRest == Contents(Text) = active /\ (actuator = "nginx" /\ drills = 0 => loaded = active)

ChainHolds ==
  /\ AllIdle => AtRest
  /\ \A t \in Hand : spot[t] # "idle" => Stage(t)
  /\ NoneIsRed

LoneInv == EdgeTypeOK /\ ownConn /\ (clean => ChainHolds)

-----------------------------------------------------------------------------

\* No other thread is under way, before the step or after it.
Only(t) == \A u \in Hand : u # t => spot[u] = "idle" /\ spot'[u] = "idle"

LEMMA OnlyOne ==
  ASSUME EdgeTypeOK, Alone, Alone', NEW t \in Hand, NEW p \in Places, Goto(t, p),
         spot[t] # "idle" \/ p # "idle"
  PROVE  Only(t)
<1>1. spot'[t] = p /\ \A u \in Hand : u # t => spot'[u] = spot[u]
  BY GotoTyped
<1> QED
  BY <1>1 DEF Only, Alone

\* Then the chain holds afterwards if that thread's stage is the right one.
LEMMA OnlyMatters ==
  ASSUME NEW t \in Hand, Only(t), NoneIsRed',
         spot'[t] = "idle" => AtRest', spot'[t] # "idle" => Stage(t)'
  PROVE  ChainHolds'
BY DEF Only, ChainHolds, AllIdle

\* A list is not the missing file.
LEMMA ListIsText ==
  ASSUME NEW l \in List
  PROVE  l # NoFile /\ Contents(l) = l
BY EdgeDrillAssumption DEF List, Contents

LEMMA Under ==
  ASSUME LoneInv, clean, NEW t \in Hand, spot[t] # "idle"
  PROVE  Stage(t) /\ NoneIsRed /\ EdgeTypeOK /\ ownConn
BY DEF LoneInv, ChainHolds

\* The end of a sync that left the list as the text of the edge.
LEMMA SyncEnds ==
  ASSUME LoneInv, clean, NEW t \in Hand, Only(t), spot[t] \in Syncing,
         Goto(t, AfterSync(t)), UNCHANGED <<actuator, active, drills, list, found, enforced, restored>>,
         Contents(Text') = list[t], actuator = "nginx" => loaded' = list[t]
  PROVE  ChainHolds'
<1>1. Stage(t) /\ NoneIsRed /\ EdgeTypeOK /\ ownConn
  BY Under DEF Syncing
<1>2. spot'[t] = AfterSync(t)
  BY <1>1, AfterSyncTyped, GotoTyped
<1>3. NoneIsRed'
  BY <1>1 DEF NoneIsRed
<1>4. list[t] = active => AtRest'
  BY DEF AtRest
<1>5. CASE t \in Writer
  <2>1. t \notin Drill /\ spot'[t] = "idle" /\ list[t] = active
    BY <1>1, <1>2, <1>5, EdgeDrillAssumption DEF AfterSync, Stage
  <2> QED
    BY <1>3, <1>4, <2>1, OnlyMatters
<1>6. CASE t \in Drill
  <2>1. t \notin Writer /\ DrillStage(t) /\ enforced[t] \in {"none", "ok"}
    BY <1>1, <1>6, EdgeDrillAssumption DEF Stage, DrillStage
  <2>2. WritesBack(t)' <=> WritesBack(t)
    BY DEF WritesBack
  <2>3. CASE enforced[t] = "none"
    <3>1. spot'[t] = "judge"
      BY <1>2, <2>1, <2>3 DEF AfterSync
    <3>2. DrillStage(t)'
      BY <2>1, <2>3, <3>1 DEF DrillStage, Syncing
    <3>3. Stage(t)'
      BY <1>6, <2>1, <3>1, <3>2 DEF Stage, Syncing
    <3> QED
      BY <1>3, <3>1, <3>3, OnlyMatters
  <2>4. CASE enforced[t] = "ok"
    <3>1. spot'[t] = "verify"
      BY <1>2, <2>1, <2>4 DEF AfterSync
    <3>2. Contents(Text') = active /\ ~WritesBack(t)
      BY <1>1, <2>1, <2>4 DEF Stage, DrillStage
    <3>3. DrillStage(t)'
      BY <2>1, <2>2, <2>4, <3>1, <3>2 DEF DrillStage, Syncing
    <3>4. Stage(t)'
      BY <1>6, <2>1, <3>1, <3>3 DEF Stage, Syncing
    <3> QED
      BY <1>3, <3>1, <3>4, OnlyMatters
  <2> QED
    BY <2>1, <2>3, <2>4
<1> QED
  BY <1>5, <1>6 DEF Hand

\* One more step of a sync.
LEMMA SyncGoesOn ==
  ASSUME LoneInv, clean, NEW t \in Hand, Only(t), spot[t] = "sync",
         NEW p \in {"replace", "reload", "fill"}, Goto(t, p),
         UNCHANGED <<actuator, active, drills, list, found, enforced, restored>>,
         p = "replace" => actuator = "traefik" /\ temp' = list[t] /\ file' = file,
         p = "reload" => actuator = "nginx" /\ file' = list[t],
         p = "fill" => actuator = "nftables" /\ loaded' = {}
  PROVE  ChainHolds'
<1>1. Stage(t) /\ NoneIsRed /\ EdgeTypeOK /\ ownConn
  BY Under
<1>2. spot'[t] = p /\ p # "idle" /\ p \in Places
  BY <1>1, GotoTyped DEF Places
<1>3. NoneIsRed'
  BY <1>1 DEF NoneIsRed
<1>4. t \in Drill => DrillStage(t)'
  <2>1. WritesBack(t)' <=> WritesBack(t)
    BY DEF WritesBack
  <2> QED
    BY <1>1, <1>2, <2>1 DEF Stage, DrillStage, Syncing
<1>5. Stage(t)'
  BY <1>1, <1>2, <1>4 DEF Stage, Syncing
<1> QED
  BY <1>2, <1>3, <1>5, OnlyMatters

\* The actuators, as long as no step fails.
LEMMA SyncHolds ==
  ASSUME LoneInv, Alone, Alone', clean, NEW t \in Hand,
         \/ SyncTraefik(t) \/ Replace(t) \/ SyncNginx(t) \/ Reload(t, TRUE)
         \/ SyncNftables(t, TRUE) \/ Fill(t, TRUE)
  PROVE  ChainHolds'
<1>1. spot[t] \in Syncing /\ spot[t] # "idle"
  BY DEF SyncTraefik, Replace, SyncNginx, Reload, SyncNftables, Fill, SyncFrom, Syncing
<1>2. Stage(t) /\ EdgeTypeOK
  BY <1>1, Under
<1>3. UNCHANGED <<actuator, active, drills, list, found, enforced, restored>>
  BY DEF SyncTraefik, Replace, SyncNginx, Reload, SyncNftables, Fill, SyncFrom, Same, drillVars
<1>4. Only(t)
  <2>1. {"replace", "reload", "fill"} \subseteq Places /\ AfterSync(t) \in Places
    BY AfterSyncTyped DEF Places
  <2>2. \E p \in Places : Goto(t, p)
    BY <2>1 DEF SyncTraefik, Replace, SyncNginx, Reload, SyncNftables, Fill
  <2> QED
    BY <1>1, <1>2, <2>2, OnlyOne
<1>5. list[t] \in List /\ list[t] # NoFile /\ Contents(list[t]) = list[t]
  BY <1>2, ListIsText DEF EdgeTypeOK
<1>6. CASE SyncTraefik(t)
  <2>1. CASE file = list[t]
    <3>1. Goto(t, AfterSync(t)) /\ Contents(Text') = list[t] /\ actuator # "nginx"
      BY <1>3, <1>5, <1>6, <2>1 DEF SyncTraefik, Text
    <3> QED
      BY <1>1, <1>3, <1>4, <3>1, SyncEnds
  <2>2. CASE file # list[t]
    <3>1. Goto(t, "replace") /\ actuator = "traefik" /\ temp' = list[t] /\ file' = file /\ spot[t] = "sync"
      BY <1>6, <2>2 DEF SyncTraefik, SyncFrom
    <3> QED
      BY <1>3, <1>4, <3>1, SyncGoesOn
  <2> QED
    BY <2>1, <2>2
<1>7. CASE Replace(t)
  <2>1. actuator = "traefik" /\ temp = list[t]
    BY <1>2, <1>7 DEF Replace, Stage
  <2>2. Goto(t, AfterSync(t)) /\ file' = list[t]
    BY <1>5, <1>7, <2>1 DEF Replace
  <2>3. Contents(Text') = list[t]
    BY <1>3, <1>5, <2>1, <2>2 DEF Text
  <2> QED
    BY <1>1, <1>3, <1>4, <2>1, <2>2, <2>3, SyncEnds
<1>8. CASE SyncNginx(t)
  <2>1. Goto(t, "reload") /\ actuator = "nginx" /\ file' = list[t] /\ spot[t] = "sync"
    BY <1>8 DEF SyncNginx, SyncFrom
  <2> QED
    BY <1>3, <1>4, <2>1, SyncGoesOn
<1>9. CASE Reload(t, TRUE)
  <2>1. Goto(t, AfterSync(t)) /\ actuator = "nginx" /\ file' = list[t]
    BY <1>2, <1>9 DEF Reload, Stage
  <2>2. Contents(Text') = list[t] /\ loaded' = list[t]
    BY <1>3, <1>5, <1>9, <2>1 DEF Text, Reload
  <2> QED
    BY <1>1, <1>3, <1>4, <2>1, <2>2, SyncEnds
<1>10. CASE SyncNftables(t, TRUE)
  <2>1. actuator = "nftables" /\ loaded' = {} /\ spot[t] = "sync"
    BY <1>10 DEF SyncNftables, SyncFrom
  <2>2. CASE list[t] = {}
    <3>1. Goto(t, AfterSync(t)) /\ Contents(Text') = list[t]
      BY <1>3, <1>5, <1>10, <2>1, <2>2 DEF SyncNftables, Text
    <3> QED
      BY <1>1, <1>3, <1>4, <2>1, <3>1, SyncEnds
  <2>3. CASE list[t] # {}
    <3>1. Goto(t, "fill")
      BY <1>10, <2>3 DEF SyncNftables
    <3> QED
      BY <1>3, <1>4, <2>1, <3>1, SyncGoesOn
  <2> QED
    BY <2>2, <2>3
<1>11. CASE Fill(t, TRUE)
  <2>1. Goto(t, AfterSync(t)) /\ actuator = "nftables" /\ loaded' = list[t]
    BY <1>2, <1>11 DEF Fill, Stage
  <2>2. Contents(Text') = list[t]
    BY <1>3, <1>5, <2>1 DEF Text
  <2> QED
    BY <1>1, <1>3, <1>4, <2>1, <2>2, SyncEnds
<1> QED
  BY <1>6, <1>7, <1>8, <1>9, <1>10, <1>11

\* write_file begins, and reads the table.
LEMMA BeginHolds ==
  ASSUME LoneInv, Alone, Alone', clean, NEW t \in Writer,
         spot[t] = "idle", Goto(t, "read"), UNCHANGED drillVars
  PROVE  ChainHolds'
<1>1. EdgeTypeOK /\ ChainHolds /\ t \in Hand /\ t \notin Drill /\ "read" \in Places
  BY EdgeDrillAssumption DEF LoneInv, Hand, Places
<1>2. Only(t) /\ spot'[t] = "read"
  BY <1>1, OnlyOne, GotoTyped
<1>3. NoneIsRed'
  BY <1>1 DEF drillVars, ChainHolds, NoneIsRed
<1>4. Stage(t)'
  BY <1>1, <1>2 DEF Stage, Syncing
<1> QED
  BY <1>1, <1>2, <1>3, <1>4, OnlyMatters

LEMMA ReadHolds ==
  ASSUME LoneInv, Alone, Alone', clean, NEW t \in Hand, ReadActive(t)
  PROVE  ChainHolds'
<1>1. /\ spot[t] = "read" /\ list' = [list EXCEPT ![t] = active] /\ Goto(t, "sync")
      /\ UNCHANGED <<actuator, active, drills, file, loaded, temp, found, enforced, restored>>
  BY DEF ReadActive, edgeVars, drillVars, Same
<1>2. Stage(t) /\ NoneIsRed /\ EdgeTypeOK
  BY <1>1, Under
<1>3. "sync" \in Places
  BY DEF Places
<1>4. Only(t) /\ spot'[t] = "sync"
  BY <1>1, <1>2, <1>3, OnlyOne, GotoTyped
<1>5. list'[t] = active'
  BY <1>1, <1>2 DEF EdgeTypeOK
<1>6. NoneIsRed' /\ (WritesBack(t)' <=> WritesBack(t))
  BY <1>1, <1>2 DEF NoneIsRed, WritesBack
<1>7. t \in Drill => DrillStage(t)'
  BY <1>1, <1>2, <1>4, <1>6 DEF Stage, DrillStage, Syncing
<1>8. Stage(t)'
  BY <1>1, <1>2, <1>4, <1>5, <1>6, <1>7 DEF Stage, Syncing
<1> QED
  BY <1>4, <1>6, <1>8, OnlyMatters

\* The drill's own stages.
LEMMA StartHolds ==
  ASSUME LoneInv, Alone, Alone', clean, NEW d \in Drill, StartDrill(d)
  PROVE  ChainHolds'
<1>1. d \in Hand /\ d \notin Writer /\ EdgeTypeOK /\ ChainHolds /\ ownConn /\ "sync" \in Places
  BY EdgeDrillAssumption DEF LoneInv, Hand, Places
<1>2. /\ spot[d] = "idle" /\ found' = [found EXCEPT ![d] = Text]
      /\ restored' = [restored EXCEPT ![d] = "none"]
      /\ enforced' = [enforced EXCEPT ![d] = "none"] /\ Goto(d, "sync")
      /\ active' = active /\ drills' = drills + 1
  BY <1>1 DEF StartDrill
<1>3. Only(d) /\ spot'[d] = "sync"
  BY <1>1, <1>2, OnlyOne, GotoTyped
<1>4. Contents(Text) = active
  BY <1>1, <1>2, <1>3 DEF ChainHolds, AllIdle, AtRest, Only
<1>5. found'[d] = Text /\ enforced'[d] = "none" /\ drills' # 0
  BY <1>1, <1>2 DEF EdgeTypeOK
<1>6. NoneIsRed'
  BY <1>1, <1>2 DEF EdgeTypeOK, ChainHolds, NoneIsRed
<1>7. DrillStage(d)'
  BY <1>2, <1>3, <1>4, <1>5 DEF DrillStage, Contents, Syncing
<1>8. Stage(d)'
  BY <1>1, <1>3, <1>5, <1>7 DEF Stage, Syncing
<1> QED
  BY <1>1, <1>3, <1>6, <1>8, OnlyMatters

LEMMA DrillHolds ==
  ASSUME LoneInv, Alone, Alone', clean, NEW d \in Drill,
         Judge(d) \/ Restore(d) \/ WriteBack(d) \/ Verify(d)
  PROVE  ChainHolds'
<1>1. d \in Hand /\ d \notin Writer /\ spot[d] \in {"judge", "restore", "written back", "verify"}
  BY EdgeDrillAssumption DEF Hand, Judge, Restore, WriteBack, Verify
<1>2. DrillStage(d) /\ NoneIsRed /\ EdgeTypeOK /\ ownConn
  BY <1>1, Under DEF Stage
<1>3. {"restore", "written back", "read", "idle", "verify"} \subseteq Places
  BY DEF Places
<1>4. /\ UNCHANGED <<actuator, active, drills, list, loaded, found>> /\ drills # 0
      /\ enforced \in [Drill -> {"none", "ok", "red"}] /\ restored \in [Drill -> {"none", "ok", "red"}]
  BY <1>2 DEF Judge, Restore, WriteBack, Verify, Same, edgeVars, EdgeTypeOK, DrillStage
<1>5. WritesBack(d)' <=> WritesBack(d)
  BY <1>4 DEF WritesBack
<1>6. CASE Judge(d)
  <2>1. /\ Goto(d, "restore") /\ UNCHANGED <<restored, file>>
        /\ enforced' = [enforced EXCEPT ![d] = "ok"] /\ spot[d] = "judge"
    BY <1>2, <1>6 DEF Judge, DrillStage, edgeVars
  <2>2. Only(d) /\ spot'[d] = "restore"
    BY <1>1, <1>2, <1>3, <2>1, OnlyOne, GotoTyped
  <2>3. enforced'[d] = "ok" /\ NoneIsRed'
    BY <1>2, <1>4, <2>1 DEF NoneIsRed
  <2>4. DrillStage(d)'
    BY <1>2, <1>4, <2>2, <2>3 DEF DrillStage, Syncing
  <2>5. Stage(d)'
    BY <1>1, <2>2, <2>4 DEF Stage, Syncing
  <2> QED
    BY <1>1, <2>2, <2>3, <2>5, OnlyMatters
<1>7. CASE Restore(d)
  <2>1. enforced' = enforced /\ restored' = restored /\ spot[d] = "restore"
    BY <1>2, <1>7 DEF Restore
  <2>2. NoneIsRed' /\ enforced'[d] = "ok"
    BY <1>2, <2>1 DEF NoneIsRed, DrillStage
  <2>3. CASE WritesBack(d)
    <3>1. Goto(d, "written back") /\ temp' = found[d]
      BY <1>7, <2>3 DEF Restore
    <3>2. Only(d) /\ spot'[d] = "written back"
      BY <1>1, <1>2, <1>3, <3>1, OnlyOne, GotoTyped
    <3>3. DrillStage(d)'
      BY <1>2, <1>4, <1>5, <2>2, <2>3, <3>1, <3>2 DEF DrillStage, Syncing
    <3>4. Stage(d)'
      BY <1>1, <3>2, <3>3 DEF Stage, Syncing
    <3> QED
      BY <1>1, <2>2, <3>2, <3>4, OnlyMatters
  <2>4. CASE ~WritesBack(d)
    <3>1. Goto(d, "read")
      BY <1>2, <1>7, <2>4 DEF Restore
    <3>2. Only(d) /\ spot'[d] = "read"
      BY <1>1, <1>2, <1>3, <3>1, OnlyOne, GotoTyped
    <3>3. DrillStage(d)'
      BY <1>2, <1>4, <1>5, <2>2, <2>4, <3>2 DEF DrillStage, Syncing
    <3>4. Stage(d)'
      BY <1>1, <3>2, <3>3 DEF Stage, Syncing
    <3> QED
      BY <1>1, <2>2, <3>2, <3>4, OnlyMatters
  <2> QED
    BY <2>3, <2>4
<1>8. CASE WriteBack(d)
  <2>1. spot[d] = "written back" /\ temp = found[d] /\ WritesBack(d)
    BY <1>2, <1>8 DEF WriteBack, DrillStage
  <2>2. Goto(d, "verify") /\ file' = found[d] /\ UNCHANGED <<enforced, restored>>
    BY <1>8, <2>1 DEF WriteBack, WritesBack
  <2>3. Only(d) /\ spot'[d] = "verify"
    BY <1>1, <1>2, <1>3, <2>1, <2>2, OnlyOne, GotoTyped
  <2>4. NoneIsRed' /\ enforced'[d] = "ok"
    BY <1>2, <2>1, <2>2 DEF NoneIsRed, DrillStage
  <2>5. Text' = found'[d] /\ Contents(Text') = active'
    BY <1>2, <1>4, <2>1, <2>2 DEF Text, Contents, WritesBack, DrillStage
  <2>6. DrillStage(d)'
    BY <1>2, <1>4, <2>3, <2>4, <2>5 DEF DrillStage, Syncing
  <2>7. Stage(d)'
    BY <1>1, <2>3, <2>6 DEF Stage, Syncing
  <2> QED
    BY <1>1, <2>3, <2>4, <2>7, OnlyMatters
<1>9. CASE Verify(d)
  <2>1. spot[d] = "verify" /\ Contents(Text) = active /\ (WritesBack(d) => Text = found[d])
    BY <1>2, <1>9 DEF Verify, DrillStage
  <2>2. Synthetic \notin Contents(Text)
    BY <1>2, <2>1, EdgeDrillAssumption DEF EdgeTypeOK
  <2>3. /\ Goto(d, "idle") /\ UNCHANGED <<enforced, file>>
        /\ restored' = [restored EXCEPT ![d] = "ok"]
    BY <1>9, <2>1, <2>2 DEF Verify, edgeVars
  <2>4. Only(d) /\ spot'[d] = "idle"
    BY <1>1, <1>2, <1>3, <2>1, <2>3, OnlyOne, GotoTyped
  <2>5. NoneIsRed' /\ AtRest'
    BY <1>2, <1>4, <2>1, <2>3 DEF NoneIsRed, AtRest, Text, Contents
  <2> QED
    BY <1>1, <2>4, <2>5, OnlyMatters
<1> QED
  BY <1>6, <1>7, <1>8, <1>9

LEMMA LoneInit == EdgeInit /\ ownConn => LoneInv
<1> SUFFICES ASSUME EdgeInit, ownConn PROVE LoneInv
  OBVIOUS
<1>1. EdgeTypeOK
  BY EdgeTypeInit
<1>2. ChainHolds
  <2>1. AllIdle
    BY DEF EdgeInit, AllIdle
  <2>2. NoneIsRed
    BY DEF EdgeInit, NoneIsRed
  <2>3. AtRest
    BY DEF EdgeInit, AtRest, Text, Contents
  <2> QED
    BY <2>1, <2>2, <2>3 DEF ChainHolds, AllIdle
<1> QED
  BY <1>1, <1>2 DEF LoneInv

LEMMA LoneNext ==
  ASSUME LoneInv, EdgeTypeOK', Alone, Alone', [EdgeNext]_edgeDrillVars
  PROVE  LoneInv'
<1>1. ownConn' = ownConn
  BY DEF EdgeNext, EdgeStep, SyncTraefik, Replace, SyncNginx, Reload, SyncNftables, Fill,
         SyncFailsToWrite, SyncFrom, ReadActive, Reconcile, ChangeTable, StartDrill, Judge, Restore,
         WriteBack, Verify, EdgeCrash, Same, edgeDrillVars
<1> SUFFICES ASSUME clean' PROVE ChainHolds'
  BY <1>1 DEF LoneInv
<1>2. ASSUME NEW t \in Hand, EdgeStep(t) PROVE ChainHolds'
  <2>1. clean
    BY <1>2 DEF EdgeStep, SyncTraefik, Replace, SyncNginx, Reload, SyncNftables, Fill, ReadActive,
                Works, Fails
  <2> QED
    BY <1>2, <2>1, SyncHolds, ReadHolds DEF EdgeStep
<1>3. ASSUME NEW t \in Hand,
             Reload(t, FALSE) \/ SyncNftables(t, FALSE) \/ Fill(t, FALSE) \/ SyncFailsToWrite(t)
      PROVE  ChainHolds'
  BY <1>3 DEF Reload, SyncNftables, Fill, SyncFailsToWrite, Fails
<1>4. ASSUME NEW t \in Writer, Reconcile(t) PROVE ChainHolds'
  <2>1. clean /\ spot[t] = "idle" /\ Goto(t, "read") /\ UNCHANGED drillVars
    BY <1>4 DEF Reconcile, Works
  <2> QED
    BY <2>1, BeginHolds
<1>5. ASSUME NEW t \in Writer, NEW bans \in SUBSET Banned, ChangeTable(t, bans) PROVE ChainHolds'
  <2>1. clean /\ spot[t] = "idle" /\ Goto(t, "read") /\ UNCHANGED drillVars
    BY <1>5 DEF ChangeTable
  <2> QED
    BY <2>1, BeginHolds
<1>6. ASSUME NEW d \in Drill,
             StartDrill(d) \/ Judge(d) \/ Restore(d) \/ WriteBack(d) \/ Verify(d)
      PROVE  ChainHolds'
  <2>1. clean
    BY <1>6 DEF StartDrill, Judge, Restore, WriteBack, Verify, Works
  <2> QED
    BY <1>6, <2>1, StartHolds, DrillHolds
<1>7. CASE EdgeCrash
  BY <1>7 DEF EdgeCrash, Fails
<1>8. CASE UNCHANGED edgeDrillVars
  <2>1. clean /\ ChainHolds
    BY <1>8 DEF edgeDrillVars, LoneInv
  <2>2. UNCHANGED <<actuator, active, drills, file, temp, loaded, spot, list, found, enforced, restored>>
    BY <1>8 DEF edgeDrillVars, edgeVars, threadVars, drillVars
  <2> QED
    BY <2>1, <2>2 DEF ChainHolds, AllIdle, AtRest, NoneIsRed, Stage, DrillStage, Text, Contents, WritesBack
<1> QED
  BY <1>2, <1>3, <1>4, <1>5, <1>6, <1>7, <1>8 DEF EdgeNext

\* A drill that has a connection of its own thread and the edge to itself passes both of
\* its stages with every actuator, unless a step fails: what the run "drill" finds
\* needs the foreign connection, or other writers at the same time (run_firedrill).
THEOREM LoneDrillsPass == EdgeSpec /\ ownConn /\ []Alone => []DrillsPass
<1>1. LoneInv => DrillsPass
  BY DEF LoneInv, ChainHolds, NoneIsRed, DrillsPass
<1>2. LoneInv /\ EdgeTypeOK' /\ Alone /\ Alone' /\ [EdgeNext]_edgeDrillVars => LoneInv'
  BY LoneNext
<1> QED
  BY <1>1, <1>2, LoneInit, EdgeTypeCorrect, PTL DEF EdgeSpec

\* Whichever of the actuators is used, what the edge denies is what the table bans as
\* long as the calls of write_file come one after the other and none of them fails
\* (write_file, banactuators.sync, run_firedrill).
THEOREM LoneSyncsKeepTheEdge == EdgeSpec /\ ownConn /\ []Alone => []IdleEdgeIsCurrent
<1>1. LoneInv => IdleEdgeIsCurrent
  <2> SUFFICES ASSUME LoneInv, clean, AllIdle, actuator = "nginx" => drills = 0
               PROVE  Denied = active
    BY DEF IdleEdgeIsCurrent
  <2>1. AtRest /\ EdgeTypeOK
    BY DEF LoneInv, ChainHolds
  <2>2. Contents(loaded) = loaded
    BY <2>1, ListIsText DEF EdgeTypeOK
  <2> QED
    BY <2>1, <2>2 DEF EdgeTypeOK, Actuator, AtRest, Text, Denied
<1>2. LoneInv /\ EdgeTypeOK' /\ Alone /\ Alone' /\ [EdgeNext]_edgeDrillVars => LoneInv'
  BY LoneNext
<1> QED
  BY <1>1, <1>2, LoneInit, EdgeTypeCorrect, PTL DEF EdgeSpec

-----------------------------------------------------------------------------
(***************************************************************************)
(* Roster: what the leaf has pushed.  Its high-water id is moved by        *)
(* answers, by joining and by restarts; the inductive invariant says what  *)
(* lies behind it in each case.                                            *)
(***************************************************************************)

\* Every event up to the leaf's high-water id is with a peer, or was there before a
\* start of the forwarding, although ids arrive twice, answers get lost, the first
\* peer changes and restarts move the id by themselves (push_events_since,
\* current_max_event_id).
NothingPassedOver == \A e \in 1 .. pushed : e \in arrived \cup skipped

\* With it: the forwarding has an id exactly if the leaf is a member, and nothing
\* recorded before that will ever be pushed.
LeafInv ==
  /\ events \in Nat /\ pushed \in -1 .. events
  /\ arrived \subseteq 1 .. events /\ skipped \subseteq 1 .. events
  /\ NothingPassedOver
  /\ Edge \in member => pushed # -1
  /\ pushed = -1 => 1 .. events \subseteq skipped

\* The last id of a batch is what the leaf remembers.
LEMMA BatchEnds ==
  ASSUME events \in Nat, pushed \in Nat, Batch # {}
  PROVE  /\ Batch = (pushed + 1) .. Max(Batch)
         /\ Max(Batch) \in (pushed + 1) .. events
<1> DEFINE last == IF pushed + BatchLimit < events THEN pushed + BatchLimit ELSE events
<1>1. last \in Nat /\ last <= events /\ Batch = (pushed + 1) .. last
  BY RosterAssumption DEF Batch
<1> HIDE DEF last
<1>2. last \in Batch /\ \A e \in Batch : last >= e
  BY <1>1
<1>3. Max(Batch) \in Batch /\ \A e \in Batch : Max(Batch) >= e
  BY <1>2 DEF Max
<1>4. Max(Batch) = last
  BY <1>1, <1>2, <1>3
<1> QED
  BY <1>1, <1>2, <1>4

LEMMA LeafInit == RosterInit => LeafInv
BY RosterAssumption DEF RosterInit, LeafInv, NothingPassedOver

LEMMA LeafNext == LeafInv /\ [RosterNext]_rosterVars => LeafInv'
<1> SUFFICES ASSUME LeafInv, [RosterNext]_rosterVars PROVE LeafInv'
  OBVIOUS
<1> USE DEF LeafInv, NothingPassedOver
<1>1. ASSUME NEW n \in Everyone, NEW p \in Queryable, JoinCluster(n, p) PROVE LeafInv'
  <2>1. events' = events /\ arrived' = arrived /\ member' = member \cup {n}
    BY <1>1 DEF JoinCluster
  <2>2. CASE n = Edge
    <3>1. pushed' = events /\ skipped' = skipped \cup 1 .. events
      BY <1>1, <2>2 DEF JoinCluster
    <3> QED
      BY <2>1, <3>1
  <2>3. CASE n # Edge
    <3>1. pushed' = pushed /\ skipped' = skipped
      BY <1>1, <2>3 DEF JoinCluster
    <3> QED
      BY <2>1, <2>3, <3>1
  <2> QED
    BY <2>2, <2>3
<1>2. ASSUME NEW n \in Everyone, NEW p \in Queryable, JoinUnanswered(n, p) PROVE LeafInv'
  BY <1>2 DEF JoinUnanswered, leafVars
<1>3. ASSUME NEW n \in Everyone, NEW q \in Everyone, RemovePeer(n, q) PROVE LeafInv'
  BY <1>3 DEF RemovePeer, leafVars
<1>4. ASSUME NEW n \in Everyone, BeginTick(n) PROVE LeafInv'
  BY <1>4 DEF BeginTick, leafVars
<1>5. ASSUME NEW n \in Everyone, NEW answered \in BOOLEAN, Exchange(n, answered) PROVE LeafInv'
  BY <1>5 DEF Exchange, leafVars
<1>6. ASSUME NEW answered \in BOOLEAN, PushEvents(answered) PROVE LeafInv'
  <2>1. /\ pushed \in Nat /\ Batch # {}
        /\ UNCHANGED <<events, skipped, member>>
        /\ arrived' \in {arrived, arrived \cup Batch}
        /\ pushed' = pushed \/ (pushed' = Max(Batch) /\ arrived' = arrived \cup Batch)
    BY <1>6 DEF PushEvents
  <2>2. Batch = (pushed + 1) .. Max(Batch) /\ Max(Batch) \in (pushed + 1) .. events
    BY <2>1, BatchEnds
  <2> HIDE DEF LeafInv, NothingPassedOver
  <2>3. CASE pushed' = pushed
    BY <2>1, <2>2, <2>3 DEF LeafInv, NothingPassedOver
  <2>4. CASE pushed' = Max(Batch) /\ arrived' = arrived \cup Batch
    <3>1. \A e \in 1 .. Max(Batch) : e \in 1 .. pushed \/ e \in Batch
      BY <2>1, <2>2
    <3>2. NothingPassedOver'
      BY <2>1, <2>4, <3>1 DEF LeafInv, NothingPassedOver
    <3>3. events' \in Nat /\ pushed' \in 1 .. events'
      BY <2>1, <2>2, <2>4 DEF LeafInv
    <3>4. Batch \subseteq 1 .. events
      BY <2>1, <2>2 DEF LeafInv
    <3>5. arrived' \subseteq 1 .. events' /\ skipped' \subseteq 1 .. events'
      BY <2>1, <2>4, <3>4 DEF LeafInv
    <3> QED
      BY <2>1, <3>2, <3>3, <3>5 DEF LeafInv
  <2> QED
    BY <2>1, <2>3, <2>4
<1>7. CASE LeafDetects
  <2>1. /\ events' = events + 1 /\ UNCHANGED <<pushed, arrived, member>>
        /\ skipped' = IF pushed = -1 THEN skipped \cup {events + 1} ELSE skipped
    BY <1>7 DEF LeafDetects, rosterNodeVars
  <2> QED
    BY <2>1
<1>8. CASE LeafRestarts
  <2>1. /\ Edge \in member /\ pushed' = events /\ UNCHANGED <<events, arrived, member>>
        /\ skipped' = skipped \cup ((pushed + 1) .. events)
    BY <1>8 DEF LeafRestarts
  <2>2. \A e \in 1 .. events : e \in 1 .. pushed \/ e \in (pushed + 1) .. events
    BY <2>1
  <2> QED
    BY <2>1, <2>2
<1>9. ASSUME NEW p \in Queryable, GoesDown(p) \/ ComesBack(p) PROVE LeafInv'
  BY <1>9 DEF GoesDown, ComesBack, rosterNodeVars, leafVars
<1>10. CASE UNCHANGED rosterVars
  BY <1>10 DEF rosterVars, rosterNodeVars, leafVars
<1> QED
  BY <1>1, <1>2, <1>3, <1>4, <1>5, <1>6, <1>7, <1>8, <1>9, <1>10 DEF RosterNext

THEOREM NoEventIsPassedOver == RosterSpec => []NothingPassedOver
<1>1. LeafInv => NothingPassedOver
  BY DEF LeafInv
<1> QED
  BY <1>1, LeafInit, LeafNext, PTL DEF RosterSpec
=============================================================================
