----------------------------- MODULE Community -----------------------------
(***************************************************************************)
(* The community blocklist, seen through one address: installs report what *)
(* they ban themselves (crowd.py), the aggregator lists an address that    *)
(* enough of them reported within its window (aggregator.py), and installs *)
(* that consume the list ban what is on it (crowd_task).                   *)
(*                                                                         *)
(* A ban from the list must not become a report: the list would confirm    *)
(* itself and never forget.  The unit of time is long beside the 30 s of   *)
(* crowd_task, so reports and lists do not outlast a tick.                 *)
(***************************************************************************)
EXTENDS Integers, FiniteSets

CONSTANTS
  Install,         \* installations, each with a reporter id of its own
  Consensus,       \* AGG_CONSENSUS
  ListWindow,      \* AGG_WINDOW_DAYS
  CommunityTtl,    \* CROWD_BAN_TTL_HOURS
  OwnTtl,          \* BAN_TTL_HOURS
  PullEvery,       \* CROWD_PULL_INTERVAL
  MaxCommunityTime \* bound: the clock

ASSUME CommunityAssumption ==
  /\ {Consensus, ListWindow, CommunityTtl, OwnTtl, PullEvery, MaxCommunityTime} \subseteq Nat
  /\ Consensus > 0 /\ IsFiniteSet(Install)

VARIABLES
  day,       \* the clock
  ban,       \* ban[i]: the row of the address: until when, and by which rule
  unsent,    \* the outbox: the installs with a report waiting to be shipped
  reports,   \* reports[i]: the ts of i's row at the aggregator, or -1
  fetched,   \* the installs that hold a list with the address on it
  pulled,    \* last_pull
  seen       \* seen[i]: i's own last detection of the address, or -1 (history)

communityVars == <<day, ban, unsent, reports, fetched, pulled, seen>>

Row == [until : Nat, rule : {"own", "community"}]
NoRow == [until |-> 0, rule |-> "own"]
Instant == -1 .. MaxCommunityTime

CommunityTypeOK ==
  /\ day \in 0 .. MaxCommunityTime
  /\ ban \in [Install -> Row]
  /\ unsent \subseteq Install /\ fetched \subseteq Install
  /\ {reports, seen} \subseteq [Install -> Instant]
  /\ pulled \in [Install -> -PullEvery .. MaxCommunityTime]

CommunityInit ==
  /\ day = 0
  /\ ban = [i \in Install |-> NoRow]
  /\ unsent = {} /\ fetched = {}
  /\ reports = [i \in Install |-> -1] /\ seen = [i \in Install |-> -1]
  /\ pulled = [i \in Install |-> -PullEvery]

-----------------------------------------------------------------------------
(* An install *)

\* A variant that shares every ban.
SharesAll(rule) == TRUE

\* ban.add shares what was not received ("loop prevention").
Shares(rule) == rule # "community"

AddBan(i, rule, ttl) ==
  /\ ban' = [ban EXCEPT ![i] = [until |-> day + ttl, rule |-> rule]]
  /\ unsent' = IF Shares(rule) THEN unsent \cup {i} ELSE unsent

DetectAddress(i) ==
  /\ AddBan(i, "own", OwnTtl)
  /\ seen' = [seen EXCEPT ![i] = day]
  /\ UNCHANGED <<day, reports, fetched, pulled>>

\* The aggregator keeps one row for each reporter, with the time of the last report.
StoreReport(i) == reports' = [reports EXCEPT ![i] = day]

\* ship_outbox: a report that fails (no answer, the rate limit's 429) is dropped.
ShipReport(i, stored) ==
  /\ i \in unsent
  /\ unsent' = unsent \ {i}
  /\ IF stored THEN StoreReport(i) ELSE UNCHANGED reports
  /\ UNCHANGED <<day, ban, fetched, pulled, seen>>

\* The aggregator's query: the reporters within the window.
Reporters == {i \in Install : reports[i] # -1 /\ reports[i] >= day - ListWindow}

\* fetch_blocklist, on a thread; a failure is an empty list, and counts as a pull.
Fetch(i, answered) ==
  /\ day - pulled[i] >= PullEvery /\ i \notin fetched
  /\ pulled' = [pulled EXCEPT ![i] = day]
  /\ fetched' = IF answered /\ Cardinality(Reporters) >= Consensus THEN fetched \cup {i}
                ELSE fetched
  /\ UNCHANGED <<day, ban, unsent, reports, seen>>

\* crowd_task applies the list.
ApplyList(i) ==
  /\ i \in fetched
  /\ fetched' = fetched \ {i}
  /\ AddBan(i, "community", CommunityTtl)
  /\ UNCHANGED <<day, reports, pulled, seen>>

UnbanHere(i) ==
  /\ ban[i] # NoRow
  /\ ban' = [ban EXCEPT ![i] = NoRow]
  /\ UNCHANGED <<day, unsent, reports, fetched, pulled, seen>>

\* The outbox and last_pull are memory; the table is not.
InstallRestarts(i) ==
  /\ unsent' = unsent \ {i} /\ fetched' = fetched \ {i}
  /\ pulled' = [pulled EXCEPT ![i] = -PullEvery]
  /\ UNCHANGED <<day, ban, reports, seen>>

NextDay ==
  /\ day < MaxCommunityTime /\ unsent = {} /\ fetched = {}
  /\ day' = day + 1
  /\ ban' = [i \in Install |-> IF ban[i].until <= day + 1 THEN NoRow ELSE ban[i]]
  /\ UNCHANGED <<unsent, reports, fetched, pulled, seen>>

CommunityNext ==
  \/ \E i \in Install :
       \/ DetectAddress(i) \/ ApplyList(i) \/ UnbanHere(i) \/ InstallRestarts(i)
       \/ \E yes \in BOOLEAN : ShipReport(i, yes) \/ Fetch(i, yes)
  \/ NextDay

CommunitySpec == CommunityInit /\ [][CommunityNext]_communityVars

-----------------------------------------------------------------------------
(* Properties *)

\* A ban taken from the list rests on detections of the required number of
\* installs, none older than the list's window and the ban's lifetime: the list
\* does not feed on itself, however often it is pulled and applied (ban.add's "loop
\* prevention", blocklist's "reported by N distinct reporters").
ListRestsOnDetections ==
  \A i \in Install :
    ban[i].rule = "community" =>
      Cardinality({j \in Install :
        seen[j] # -1 /\ seen[j] >= day - ListWindow - CommunityTtl}) >= Consensus
=============================================================================
