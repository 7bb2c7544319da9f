--------------------------- MODULE UpdateCampaign ---------------------------
(***************************************************************************)
(* The fleet update (cluster.py, update.py): a peer stamps a campaign,     *)
(* records it on disk and pushes it to the peers; a receiver pushes it on  *)
(* to its own peers before it records and applies it; every node also      *)
(* polls the peers for the newest campaign.  Applying is self_update():    *)
(* git fetch, compare, fast-forward, schedule a restart.                   *)
(*                                                                         *)
(* Handlers, polls and updates run on worker threads of one process.  Each *)
(* loads the record, works on its copy and saves the copy.  A request to   *)
(* another node fails, or starts a handler there; the sender goes on when  *)
(* it is answered or after eight seconds, so at any moment.  Stamps are    *)
(* seconds of a clock that is the same everywhere; 0 is no campaign.       *)
(***************************************************************************)
EXTENDS Integers

CONSTANTS
  Peer,          \* nodes of role "peer", each knows all of them
  Leaf,          \* nodes of role "leaf": nobody can send them a request
  Threads,       \* bound of the worker threads of a node
  Allowed,       \* nodes with update.allow_remote
  Unreliable,    \* nodes whose git fetch may fail
  MaxCampaign,   \* bound of the campaigns
  MaxTip         \* bound of the releases

Node == Peer \cup Leaf
Stamp == 1 .. MaxCampaign
Slot == 1 .. Threads

ASSUME UpdateCampaignAssumption ==
  /\ Peer \cap Leaf = {}
  /\ Allowed \subseteq Node /\ Unreliable \subseteq Node
  /\ Threads \in Nat /\ MaxCampaign \in Nat /\ MaxTip \in Nat

VARIABLES
  tip,         \* the newest release at the origin
  head,        \* head[n]: the release checked out at n
  record,      \* record[n]: the update state on the disk of n
  thread,      \* thread[n][s]: what a worker thread of n does
  due,         \* the nodes whose restart is scheduled
  issued,      \* number of campaigns
  goal         \* goal[c]: the release of the author of c (history variable)

code == <<tip, head, due>>
campaigns == <<issued, goal>>
vars == <<code, record, thread, campaigns>>

Record == [campaign : 0 .. MaxCampaign, applied : 0 .. MaxCampaign]
Steps == {"idle", "receive", "fan", "apply", "update", "updating", "save"}
Works == {"none", "author", "push", "poll", "manual"}
Thread == [pc : Steps, work : Works, ts : 0 .. MaxCampaign, copy : Record, todo : SUBSET Peer]
Blank == [campaign |-> 0, applied |-> 0]
Idle == [pc |-> "idle", work |-> "none", ts |-> 0, copy |-> Blank, todo |-> {}]
Doing(pc, work, ts) == [Idle EXCEPT !.pc = pc, !.work = work, !.ts = ts]
Peers(n) == Peer \ {n}

TypeOK ==
  /\ tip \in 0 .. MaxTip
  /\ head \in [Node -> 0 .. MaxTip]
  /\ record \in [Node -> Record]
  /\ thread \in [Node -> [Slot -> Thread]]
  /\ due \in SUBSET Node
  /\ issued \in 0 .. MaxCampaign
  /\ goal \in [Stamp -> 0 .. MaxTip]

Init ==
  /\ tip = 0
  /\ head = [n \in Node |-> 0]
  /\ record = [n \in Node |-> Blank]
  /\ thread = [n \in Node |-> [s \in Slot |-> Idle]]
  /\ due = {}
  /\ issued = 0 /\ goal = [c \in Stamp |-> 0]

\* The first idle worker thread takes the next job.
Free(n, s) == thread[n][s].pc = "idle" /\ \A r \in Slot : r < s => thread[n][r].pc # "idle"
Locked(n) == \E r \in Slot : thread[n][r].pc = "updating"
Become(n, s, t) == thread' = [thread EXCEPT ![n][s] = t]

-----------------------------------------------------------------------------
(* Campaigns *)

\* request_fleet_update(): the author counts as updated.
Author(n, s) ==
  /\ n \in Peer /\ Free(n, s)
  /\ issued < MaxCampaign
  /\ issued' = issued + 1
  /\ goal' = [goal EXCEPT ![issued'] = head[n]]
  /\ Become(n, s, [Doing("save", "author", issued') EXCEPT
                     !.copy = [campaign |-> issued', applied |-> issued']])
  /\ UNCHANGED <<code, record>>

\* receive_update_campaign(): a campaign newer than the record is passed on first.
Receive(n, s) ==
  LET t == thread[n][s] IN
  /\ t.pc = "receive"
  /\ IF t.ts > record[n].campaign
     THEN Become(n, s, [t EXCEPT !.pc = "fan", !.todo = Peers(n)])
     ELSE Become(n, s, [t EXCEPT !.pc = "apply"])
  /\ UNCHANGED <<code, record, campaigns>>

\* _push_update_campaign(): one peer after the other.
PushLost(n, s, p) ==
  LET t == thread[n][s] IN
  /\ t.pc = "fan" /\ p \in t.todo
  /\ Become(n, s, [t EXCEPT !.todo = @ \ {p}])
  /\ UNCHANGED <<code, record, campaigns>>

Push(n, s, p, r) ==
  LET t == thread[n][s] IN
  /\ t.pc = "fan" /\ p \in t.todo
  /\ Free(p, r)
  /\ thread' = [thread EXCEPT ![n][s].todo = @ \ {p},
                              ![p][r] = Doing("receive", "push", t.ts)]
  /\ UNCHANGED <<code, record, campaigns>>

Pushed(n, s) ==
  LET t == thread[n][s] IN
  /\ t.pc = "fan" /\ t.todo = {}
  /\ Become(n, s, IF t.work = "author" THEN Idle ELSE [t EXCEPT !.pc = "apply"])
  /\ UNCHANGED <<code, record, campaigns>>

\* poll_update_campaign(), once a tick: the newest campaign of those who answer.
Poll(n, s, answering) ==
  /\ Free(n, s)
  /\ \A r \in Slot : thread[n][r].work # "poll"
  /\ \E p \in answering :
       /\ record[p].campaign > 0
       /\ \A q \in answering : record[q].campaign <= record[p].campaign
       /\ Become(n, s, Doing("apply", "poll", record[p].campaign))
  /\ UNCHANGED <<code, record, campaigns>>

-----------------------------------------------------------------------------
(* _maybe_apply_campaign() and self_update() *)

Later(c, d) == IF c > d THEN c ELSE d

\* A variant that stops at a campaign on record, whether applied or not.
KnownOnce(n, ts) == ts <= record[n].campaign

\* Nothing to do for a campaign that is on record and applied.
Known(n, ts) == ts <= record[n].campaign /\ ts <= record[n].applied

Apply(n, s) ==
  LET t == thread[n][s] IN
  /\ t.pc = "apply"
  /\ IF Known(n, t.ts)
     THEN Become(n, s, Idle)
     ELSE Become(n, s,
            [t EXCEPT
               !.pc = IF t.ts <= record[n].applied \/ n \notin Allowed
                      THEN "save" ELSE "update",
               !.copy = [campaign |-> Later(t.ts, record[n].campaign),
                         applied |-> record[n].applied]])
  /\ UNCHANGED <<code, record, campaigns>>

\* The dashboard's button, and update_task; nothing happens while another updates.
Manual(n, s) ==
  /\ Free(n, s) /\ ~Locked(n)
  /\ Become(n, s, Doing("updating", "manual", 0))
  /\ UNCHANGED <<code, record, campaigns>>

\* What follows an update that did not, or did, succeed.
AfterUpdate(t, ok) ==
  IF t.work = "manual" THEN Idle
  ELSE [t EXCEPT !.pc = "save", !.copy.applied = IF ok THEN t.ts ELSE @]

\* The lock is tried once.
Lock(n, s) ==
  LET t == thread[n][s] IN
  /\ t.pc = "update"
  /\ Become(n, s, IF Locked(n)
                  THEN AfterUpdate(t, FALSE) ELSE [t EXCEPT !.pc = "updating"])
  /\ UNCHANGED <<code, record, campaigns>>

\* A variant that takes a refused merge for an update.
SucceedsAnyway(current, merges) == TRUE

Succeeds(current, merges) == current \/ merges

\* The result of the fetch is not looked at: when it failed, the newest release
\* is one fetched before.  The merge may be refused.
Update(n, s, newest, merges) ==
  /\ thread[n][s].pc = "updating"
  /\ newest # tip => n \in Unreliable
  /\ head' = [head EXCEPT ![n] = IF merges THEN newest ELSE @]
  /\ due' = IF head' # head THEN due \cup {n} ELSE due
  /\ Become(n, s, AfterUpdate(thread[n][s], Succeeds(newest = head[n], merges)))
  /\ UNCHANGED <<tip, record, campaigns>>

Save(n, s) ==
  LET t == thread[n][s] IN
  /\ t.pc = "save"
  /\ record' = [record EXCEPT ![n] = t.copy]
  /\ Become(n, s, IF t.work = "author"
                  THEN [t EXCEPT !.pc = "fan", !.todo = Peers(n)] ELSE Idle)
  /\ UNCHANGED <<code, campaigns>>

\* systemd restarts the service; the threads are gone, the record stays.
Restart(n) ==
  /\ n \in due
  /\ due' = due \ {n}
  /\ thread' = [thread EXCEPT ![n] = [s \in Slot |-> Idle]]
  /\ UNCHANGED <<tip, head, record, campaigns>>

Release ==
  /\ tip < MaxTip
  /\ tip' = tip + 1
  /\ UNCHANGED <<head, due, record, thread, campaigns>>

Next ==
  \/ \E n \in Node, s \in Slot :
       \/ Author(n, s) \/ Receive(n, s) \/ Pushed(n, s) \/ Apply(n, s)
       \/ Manual(n, s) \/ Lock(n, s) \/ Save(n, s)
       \/ \E p \in Peer : PushLost(n, s, p) \/ \E r \in Slot : Push(n, s, p, r)
       \/ \E answering \in SUBSET Peers(n) : Poll(n, s, answering)
       \/ \E newest \in head[n] .. tip, merges \in BOOLEAN : Update(n, s, newest, merges)
  \/ \E n \in Node : Restart(n)
  \/ Release

Spec == Init /\ [][Next]_vars

\* Threads run on, requests are answered or time out, ticks go on, and neither
\* do all polls go unanswered for ever nor is the merge refused for ever.
Fairness ==
  \A n \in Node :
    /\ \A s \in Slot :
         WF_vars(\/ Receive(n, s) \/ Pushed(n, s) \/ Apply(n, s) \/ Lock(n, s) \/ Save(n, s)
                 \/ \E p \in Peer : PushLost(n, s, p)
                 \/ \E newest \in head[n] .. tip, merges \in BOOLEAN : Update(n, s, newest, merges))
    /\ SF_vars(\E s \in Slot : Poll(n, s, Peers(n)))
    /\ SF_vars(\E s \in Slot : Update(n, s, tip, TRUE))

FairSpec == Spec /\ Fairness

-----------------------------------------------------------------------------
(* Properties *)

\* A campaign counts as applied only at a node that has got the release of its
\* author, whatever threads, restarts, refused merges and other updates race with
\* it, provided git fetch works there (_maybe_apply_campaign, self_update).
Reached(n, c) == head[n] >= goal[c]

AppliedMeansUpdated ==
  \A n \in Node \ Unreliable, c \in Stamp : record[n].applied = c => Reached(n, c)

\* A campaign a peer has on record brings every node that allows it to the release
\* of its author, leaves too, unless another thread overwrites the record
\* (poll_update_campaign, _maybe_apply_campaign).
CampaignReachesAll ==
  \A c \in Stamp, p \in Peer, n \in Allowed \ Unreliable :
    record[p].campaign = c ~> record[p].campaign # c \/ Reached(n, c)

\* "The applied-record guard stops the flood from looping": a node that passes a
\* campaign on does not begin to pass it on again (receive_update_campaign).
PassedOnOnce ==
  \A n \in Node, s, r \in Slot :
    thread[n][s].pc = "fan" /\ thread[n][r].pc = "fan" /\ thread[n][s].ts = thread[n][r].ts
      => s = r
=============================================================================
