----------------------------- MODULE ProcWatch -----------------------------
(***************************************************************************)
(* The poll of processes and outbound connections (procwatch.py).  A       *)
(* process that matches a signature is reported when it was not there in   *)
(* the poll before; a destination when it is not in the learned baseline,  *)
(* which is kept in the meta table.  All reports carry no address, so the  *)
(* engine's suppression (module Response) has one entry for each rule.     *)
(* Signatures, /proc and name lookups are data.                            *)
(***************************************************************************)
EXTENDS Integers

CONSTANTS
  Pid,           \* process ids, which are used again
  Signature,     \* rules of scan_process
  Dest,          \* external addresses
  PollSuppress,  \* EVENT_SUPPRESS, in polls
  MaxPolls       \* bound of the clock

ASSUME ProcWatchAssumption == PollSuppress \in Nat \ {0} /\ MaxPolls \in Nat

NoHit == "no hit"
Egress == "egress_new"
ProcRule == Signature \cup {Egress}

VARIABLES
  polls,        \* the clock
  process,      \* process[p]: the signature the process p matches, or NoHit
  dests,        \* the established external connections
  seenProc,     \* seen_proc: the hits of the last poll
  firstSeen,    \* firstSeen[p]: the first of the polls without a break that saw
                \* the hit of p, or -1 (a history variable)
  egressSeen,   \* egress_seen, primed with
  primed,       \* egress_primed
  kept,         \* the baseline in the meta table
  procSuppress, \* suppress["-", rule]
  stored,       \* stored[r]: when an event of r was last stored, or -1, and
  reported      \* the destinations that got an event (history variables)

procVars == <<polls, process, dests, seenProc, firstSeen, egressSeen, primed, kept,
              procSuppress, stored, reported>>

PollTime == -1 .. MaxPolls
Hits == Pid \X Signature

ProcTypeOK ==
  /\ polls \in 0 .. MaxPolls
  /\ process \in [Pid -> Signature \cup {NoHit}]
  /\ seenProc \subseteq Hits
  /\ firstSeen \in [Pid -> PollTime] /\ stored \in [ProcRule -> PollTime]
  /\ {dests, egressSeen, kept, reported} \subseteq SUBSET Dest
  /\ primed \in BOOLEAN
  /\ procSuppress \in [ProcRule -> Nat]

ProcInit ==
  /\ polls = 0
  /\ process = [p \in Pid |-> NoHit] /\ dests \in SUBSET Dest
  /\ seenProc = {} /\ firstSeen = [p \in Pid |-> -1]
  /\ egressSeen = {} /\ primed = FALSE /\ kept = {}
  /\ procSuppress = [r \in ProcRule |-> 0]
  /\ stored = [r \in ProcRule |-> -1] /\ reported = {}

-----------------------------------------------------------------------------
(* check() *)

Live == {h \in Hits : process[h[1]] = h[2]}

\* A variant that never forgets a hit.
Accumulated == seenProc \cup Live

\* What the next poll compares with: only what is there now, so that a process id
\* can be reported again.
Remembered == Live

DueNow(r) == procSuppress[r] <= polls

\* Of several emits of one rule in one poll the first is stored and suppresses the
\* others.
Stores(rules) ==
  LET due == {r \in rules : DueNow(r)}
  IN /\ stored' = [r \in ProcRule |-> IF r \in due THEN polls ELSE stored[r]]
     /\ procSuppress' = [r \in ProcRule |->
          IF r \in due THEN polls + PollSuppress ELSE procSuppress[r]]

\* The first poll learns; a later one reports what is new, one emit after the
\* other in the order of the addresses, and learns it.
ProcPoll(first) ==
  LET new == {h[2] : h \in Live \ seenProc}
      strange == IF primed THEN dests \ egressSeen ELSE {}
      egress == IF strange = {} THEN {} ELSE {Egress}
  IN /\ Stores(new \cup egress)
     /\ seenProc' = Remembered
     /\ firstSeen' = [p \in Pid |->
          IF process[p] = NoHit THEN -1
          ELSE IF <<p, process[p]>> \in seenProc /\ firstSeen[p] # -1 THEN firstSeen[p]
          ELSE polls]
     /\ first \in strange \cup (IF strange = {} THEN Dest ELSE {})
     /\ reported' = IF egress # {} /\ DueNow(Egress) THEN reported \cup {first} ELSE reported
     /\ egressSeen' = egressSeen \cup dests /\ primed' = TRUE
     /\ kept' = IF ~primed \/ strange # {} THEN egressSeen' ELSE kept
     /\ UNCHANGED <<polls, process, dests>>

\* run() begins with the baseline of the table, primed if there is one.
ProcRestart ==
  /\ seenProc' = {} /\ firstSeen' = [p \in Pid |-> -1]
  /\ egressSeen' = kept /\ primed' = (kept # {})
  /\ procSuppress' = [r \in ProcRule |-> 0]
  /\ UNCHANGED <<polls, process, dests, kept, stored, reported>>

-----------------------------------------------------------------------------
(* The host *)

ProcessChanges(p, hit) ==
  /\ process' = [process EXCEPT ![p] = hit]
  /\ UNCHANGED <<polls, dests, seenProc, firstSeen, egressSeen, primed, kept, procSuppress,
                 stored, reported>>

ConnectionsChange(d) ==
  /\ dests' = IF d \in dests THEN dests \ {d} ELSE dests \cup {d}
  /\ UNCHANGED <<polls, process, seenProc, firstSeen, egressSeen, primed, kept, procSuppress,
                 stored, reported>>

ProcTick ==
  /\ polls < MaxPolls
  /\ polls' = polls + 1
  /\ UNCHANGED <<process, dests, seenProc, firstSeen, egressSeen, primed, kept, procSuppress,
                 stored, reported>>

ProcNext ==
  \/ \E d \in Dest : ProcPoll(d) \/ ConnectionsChange(d)
  \/ \E p \in Pid, hit \in Signature \cup {NoHit} : ProcessChanges(p, hit)
  \/ ProcRestart \/ ProcTick

ProcSpec == ProcInit /\ [][ProcNext]_procVars

-----------------------------------------------------------------------------
(* Properties *)

\* A suspicious process the polls see has an event of its rule, not older than the
\* suppression when the process first showed, whichever processes used its id
\* before ("so an exited-then-reused PID can re-alert", procwatch.py:182).
HitsAreStored ==
  \A h \in seenProc :
    firstSeen[h[1]] # -1 /\ process[h[1]] = h[2] =>
      stored[h[2]] # -1 /\ stored[h[2]] > firstSeen[h[1]] - PollSuppress

\* A destination that entered the baseline while the watcher compared was reported
\* ("new external egress destinations ... vs a learned baseline", procwatch.py:7).
EgressIsReported ==
  [][primed /\ primed' => egressSeen' \ egressSeen \subseteq reported']_procVars
=============================================================================
