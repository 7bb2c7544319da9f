------------------------ MODULE UpdateCampaignProofs ------------------------
(***************************************************************************)
(* What UpdateCampaign promises for any fleet, any number of threads,      *)
(* campaigns and releases.  A node's record says that a campaign is        *)
(* applied because a thread's copy said so before, and a copy says so      *)
(* because the thread has seen the release of the campaign's author or     *)
(* has read it in the record; what is applied stays true, since a checkout *)
(* never goes back and a campaign's release is fixed when it is issued.    *)
(* At the end: under which condition no record is overwritten by an older  *)
(* one.                                                                    *)
(***************************************************************************)
EXTENDS UpdateCampaign, TLAPS

\* A record a node may hold, when its checkout is at h, the campaigns 1 .. i are
\* issued and g is their releases: it knows issued campaigns only, and what it
\* calls applied has been reached.
Fits(n, r, h, g, i) ==
  /\ r.campaign <= i /\ r.applied <= i
  /\ n \notin Unreliable /\ r.applied # 0 => h >= g[r.applied]

ThreadFits(n, t, h, g, i) == t.ts <= i /\ Fits(n, t.copy, h, g, i)

\* No checkout and no campaign is ahead of what was released.
ReleasesAreOut ==
  /\ \A n \in Node : head[n] <= tip
  /\ \A c \in Stamp : goal[c] <= tip

RecordsFit == \A n \in Node : Fits(n, record[n], head[n], goal, issued)

ThreadsFit ==
  \A n \in Node, s \in Slot : ThreadFits(n, thread[n][s], head[n], goal, issued)

UpdateInv == TypeOK /\ ReleasesAreOut /\ RecordsFit /\ ThreadsFit

-----------------------------------------------------------------------------
(* Facts about records and threads *)

LEMMA IdleIsThread == Blank \in Record /\ Idle \in Thread
BY UpdateCampaignAssumption DEF Blank, Idle, Record, Thread, Steps, Works

LEMMA DoingIsThread ==
  ASSUME NEW pc \in Steps, NEW work \in Works, NEW ts \in 0 .. MaxCampaign
  PROVE  /\ Doing(pc, work, ts) \in Thread
         /\ Doing(pc, work, ts).ts = ts /\ Doing(pc, work, ts).copy = Blank
BY IdleIsThread DEF Doing, Idle, Thread

LEMMA IdleFits ==
  ASSUME NEW n, NEW h, NEW g, NEW i \in Nat
  PROVE  Fits(n, Blank, h, g, i) /\ ThreadFits(n, Idle, h, g, i)
BY DEF Fits, ThreadFits, Blank, Idle

LEMMA BecomeTyped ==
  ASSUME TypeOK, NEW n \in Node, NEW s \in Slot, NEW t \in Thread, Become(n, s, t)
  PROVE  /\ thread' \in [Node -> [Slot -> Thread]]
         /\ \A m \in Node, r \in Slot :
              thread'[m][r] = IF m = n /\ r = s THEN t ELSE thread[m][r]
<1>1. thread \in [Node -> [Slot -> Thread]]
  BY DEF TypeOK
<1>2. thread' = [thread EXCEPT ![n][s] = t]
  BY DEF Become
<1> QED
  BY <1>1, <1>2

LEMMA FitsOn ==
  ASSUME NEW n, NEW r \in Record, NEW h \in Nat, NEW k \in Nat, h <= k,
         NEW g \in [Stamp -> Nat], NEW f \in [Stamp -> Nat], NEW i \in Nat, NEW j \in Nat, i <= j,
         \A c \in Stamp : c <= i => f[c] = g[c],
         Fits(n, r, h, g, i)
  PROVE  Fits(n, r, k, f, j)
<1>1. r.applied \in 0 .. MaxCampaign /\ r.campaign \in Nat
  BY DEF Record
<1>2. r.applied # 0 => r.applied \in Stamp
  BY <1>1 DEF Stamp
<1> QED
  BY <1>1, <1>2 DEF Fits

LEMMA Typed ==
  ASSUME TypeOK
  PROVE  /\ tip \in Nat /\ issued \in Nat /\ goal \in [Stamp -> Nat]
         /\ \A n \in Node : head[n] \in Nat /\ record[n] \in Record
         /\ \A n \in Node, s \in Slot : thread[n][s] \in Thread
BY UpdateCampaignAssumption DEF TypeOK

-----------------------------------------------------------------------------
(* Steps *)

\* The invariant survives if the world only grows and each record and thread is
\* either the old one or fits the new world.
LEMMA WorldStep ==
  ASSUME UpdateInv, TypeOK', ReleasesAreOut',
         issued <= issued', \A c \in Stamp : c <= issued => goal'[c] = goal[c],
         \A n \in Node : head[n] <= head'[n],
         \A n \in Node : record'[n] = record[n] \/ Fits(n, record'[n], head'[n], goal', issued'),
         \A n \in Node, s \in Slot :
           thread'[n][s] = thread[n][s] \/ ThreadFits(n, thread'[n][s], head'[n], goal', issued')
  PROVE  UpdateInv'
<1>1. TypeOK
  BY DEF UpdateInv
<1>2. /\ issued \in Nat /\ issued' \in Nat
      /\ goal \in [Stamp -> Nat] /\ goal' \in [Stamp -> Nat]
      /\ \A n \in Node : head[n] \in Nat /\ head'[n] \in Nat /\ record[n] \in Record
      /\ \A n \in Node, s \in Slot : thread[n][s] \in Thread
  <2>1. issued' \in Nat /\ goal' \in [Stamp -> Nat] /\ \A n \in Node : head'[n] \in Nat
    BY UpdateCampaignAssumption DEF TypeOK
  <2> QED
    BY <1>1, <2>1, Typed
<1>3. RecordsFit'
  <2> SUFFICES ASSUME NEW n \in Node PROVE Fits(n, record'[n], head'[n], goal', issued')
    BY DEF RecordsFit
  <2>1. Fits(n, record[n], head[n], goal, issued)
    BY DEF UpdateInv, RecordsFit
  <2>2. Fits(n, record[n], head'[n], goal', issued')
    BY <1>2, <2>1, FitsOn
  <2> QED
    BY <2>2
<1>4. ThreadsFit'
  <2> SUFFICES ASSUME NEW n \in Node, NEW s \in Slot
               PROVE  ThreadFits(n, thread'[n][s], head'[n], goal', issued')
    BY DEF ThreadsFit
  <2>1. ThreadFits(n, thread[n][s], head[n], goal, issued)
    BY DEF UpdateInv, ThreadsFit
  <2>2. thread[n][s].copy \in Record /\ thread[n][s].ts \in Nat
    BY <1>2 DEF Thread
  <2>3. Fits(n, thread[n][s].copy, head'[n], goal', issued')
    BY <1>2, <2>1, <2>2, FitsOn DEF ThreadFits
  <2>4. ThreadFits(n, thread[n][s], head'[n], goal', issued')
    BY <1>2, <2>1, <2>2, <2>3 DEF ThreadFits
  <2> QED
    BY <2>4
<1> QED
  BY <1>3, <1>4 DEF UpdateInv

\* A step that changes one thread and nothing else.
LEMMA ThreadStep ==
  ASSUME UpdateInv, UNCHANGED <<code, record, campaigns>>,
         NEW n \in Node, NEW s \in Slot, NEW t \in Thread, Become(n, s, t),
         ThreadFits(n, t, head[n], goal, issued)
  PROVE  UpdateInv'
<1>1. TypeOK /\ ReleasesAreOut /\ UNCHANGED <<tip, head, due, record, issued, goal>>
  BY DEF UpdateInv, code, campaigns
<1>2. /\ thread' \in [Node -> [Slot -> Thread]]
      /\ \A m \in Node, r \in Slot :
           thread'[m][r] = IF m = n /\ r = s THEN t ELSE thread[m][r]
  BY <1>1, BecomeTyped
<1>3. TypeOK'
  BY <1>1, <1>2 DEF TypeOK
<1>4. ReleasesAreOut'
  BY <1>1 DEF ReleasesAreOut
<1>5. issued <= issued' /\ \A m \in Node : head[m] <= head'[m]
  BY <1>1, Typed
<1>6. \A m \in Node, r \in Slot :
        thread'[m][r] = thread[m][r] \/ ThreadFits(m, thread'[m][r], head'[m], goal', issued')
  BY <1>1, <1>2
<1> QED
  BY <1>1, <1>3, <1>4, <1>5, <1>6, WorldStep

\* What the invariant says of one thread.
LEMMA OneThread ==
  ASSUME UpdateInv, NEW n \in Node, NEW s \in Slot
  PROVE  /\ TypeOK /\ thread[n][s] \in Thread /\ ThreadFits(n, thread[n][s], head[n], goal, issued)
         /\ record[n] \in Record /\ Fits(n, record[n], head[n], goal, issued)
         /\ head[n] \in Nat /\ issued \in Nat /\ issued <= MaxCampaign
<1>1. TypeOK
  BY DEF UpdateInv
<1>2. issued <= MaxCampaign
  BY <1>1, UpdateCampaignAssumption DEF TypeOK
<1> QED
  BY <1>1, <1>2, Typed DEF UpdateInv, ThreadsFit, RecordsFit

LEMMA AuthorStep ==
  ASSUME UpdateInv, NEW n \in Node, NEW s \in Slot, Author(n, s)
  PROVE  UpdateInv'
<1> DEFINE t == [Doing("save", "author", issued') EXCEPT
                   !.copy = [campaign |-> issued', applied |-> issued']]
<1>1. /\ TypeOK /\ ReleasesAreOut /\ issued < MaxCampaign /\ issued' = issued + 1
      /\ goal' = [goal EXCEPT ![issued'] = head[n]] /\ Become(n, s, t)
      /\ UNCHANGED <<tip, head, due, record>>
  BY DEF Author, UpdateInv, code
<1>2. /\ tip \in Nat /\ issued \in Nat /\ goal \in [Stamp -> 0 .. MaxTip]
      /\ \A m \in Node : head[m] \in 0 .. MaxTip
      /\ issued' \in Stamp /\ issued' \in 0 .. MaxCampaign
  BY <1>1, Typed, UpdateCampaignAssumption DEF TypeOK, Stamp
<1>3. /\ goal' \in [Stamp -> 0 .. MaxTip] /\ goal'[issued'] = head[n]
      /\ \A c \in Stamp : c # issued' => goal'[c] = goal[c]
  BY <1>1, <1>2
<1>4. Doing("save", "author", issued') \in Thread /\ Doing("save", "author", issued').ts = issued'
  BY <1>2, DoingIsThread DEF Steps, Works
<1>5. t \in Thread /\ t.ts = issued' /\ t.copy = [campaign |-> issued', applied |-> issued']
  BY <1>2, <1>4 DEF Thread, Record
<1> HIDE DEF t
<1>6. /\ thread' \in [Node -> [Slot -> Thread]]
      /\ \A m \in Node, r \in Slot :
           thread'[m][r] = IF m = n /\ r = s THEN t ELSE thread[m][r]
  BY <1>1, <1>5, BecomeTyped
<1>7. TypeOK'
  BY <1>1, <1>2, <1>3, <1>6 DEF TypeOK
<1>8. ReleasesAreOut'
  BY <1>1, <1>2, <1>3 DEF ReleasesAreOut
<1>9. ThreadFits(n, t, head'[n], goal', issued')
  BY <1>1, <1>2, <1>3, <1>5 DEF ThreadFits, Fits
<1>10. /\ issued <= issued' /\ \A c \in Stamp : c <= issued => goal'[c] = goal[c]
       /\ \A m \in Node : head[m] <= head'[m]
  BY <1>1, <1>2, <1>3
<1> QED
  BY <1>1, <1>6, <1>7, <1>8, <1>9, <1>10, WorldStep

\* Threads that pass a campaign on, or begin to work on one.
LEMMA FanStep ==
  ASSUME UpdateInv, NEW n \in Node, NEW s \in Slot,
         \/ Receive(n, s) \/ Pushed(n, s)
         \/ \E p \in Peer : PushLost(n, s, p)
  PROVE  UpdateInv'
<1> DEFINE t == thread[n][s]
<1>0. /\ t \in Thread /\ ThreadFits(n, t, head[n], goal, issued)
      /\ issued \in Nat
  BY OneThread
<1>1. Peers(n) \subseteq Peer
  BY DEF Peers
<1>2. PICK u \in Thread : Become(n, s, u) /\ (u = Idle \/ (u.ts = t.ts /\ u.copy = t.copy))
  <2>0. /\ \A pc \in Steps : /\ [t EXCEPT !.pc = pc] \in Thread
                             /\ [t EXCEPT !.pc = pc].ts = t.ts /\ [t EXCEPT !.pc = pc].copy = t.copy
        /\ LET u == [t EXCEPT !.pc = "fan", !.todo = Peers(n)]
           IN  u \in Thread /\ u.ts = t.ts /\ u.copy = t.copy
    BY <1>0, <1>1 DEF Thread, Steps
  <2> HIDE DEF t
  <2>1. CASE Receive(n, s)
    <3>1. \/ Become(n, s, [t EXCEPT !.pc = "fan", !.todo = Peers(n)])
          \/ Become(n, s, [t EXCEPT !.pc = "apply"])
      BY <2>1 DEF Receive, t
    <3> QED
      BY <2>0, <3>1 DEF Steps
  <2>2. CASE Pushed(n, s)
    <3>1. Become(n, s, Idle) \/ Become(n, s, [t EXCEPT !.pc = "apply"])
      BY <2>2 DEF Pushed, t
    <3> QED
      BY <2>0, <3>1, IdleIsThread DEF Steps
  <2>3. ASSUME NEW p \in Peer, PushLost(n, s, p)
        PROVE  \E u \in Thread : Become(n, s, u) /\ u.ts = t.ts /\ u.copy = t.copy
    <3>1. Become(n, s, [t EXCEPT !.todo = @ \ {p}])
      BY <2>3 DEF PushLost, t
    <3> QED
      BY <1>0, <3>1 DEF Thread
  <2> QED
    BY <2>1, <2>2, <2>3
<1>3. ThreadFits(n, u, head[n], goal, issued)
  BY <1>0, <1>2, IdleFits DEF ThreadFits
<1>4. UNCHANGED <<code, record, campaigns>>
  BY DEF Receive, Pushed, PushLost
<1> QED
  BY <1>2, <1>3, <1>4, ThreadStep

\* A push that arrives: the sender crosses the receiver off, which starts a handler.
LEMMA PushStep ==
  ASSUME UpdateInv, NEW n \in Node, NEW s \in Slot, NEW p \in Peer, NEW r \in Slot,
         Push(n, s, p, r)
  PROVE  UpdateInv'
<1> DEFINE t == thread[n][s]
           u == [t EXCEPT !.todo = @ \ {p}]
           v == Doing("receive", "push", t.ts)
<1>0. /\ TypeOK /\ ReleasesAreOut /\ t \in Thread /\ ThreadFits(n, t, head[n], goal, issued)
      /\ p \in Node /\ issued \in Nat
  BY OneThread DEF UpdateInv, Node
<1>1. u \in Thread /\ u.ts = t.ts /\ u.copy = t.copy /\ t.ts \in 0 .. MaxCampaign
  BY <1>0 DEF Thread
<1>2. v \in Thread /\ v.ts = t.ts /\ v.copy = Blank
  BY <1>1, DoingIsThread DEF Steps, Works
<1>3. /\ t.pc = "fan" /\ thread[p][r].pc = "idle"
      /\ thread' = [thread EXCEPT ![n][s].todo = @ \ {p}, ![p][r] = v]
      /\ UNCHANGED <<tip, head, due, record, issued, goal>>
  BY DEF Push, Free, code, campaigns
<1>4. /\ thread' \in [Node -> [Slot -> Thread]]
      /\ \A m \in Node, q \in Slot :
           thread'[m][q] = IF m = p /\ q = r THEN v
                           ELSE IF m = n /\ q = s THEN u ELSE thread[m][q]
  <2>1. thread \in [Node -> [Slot -> Thread]]
    BY <1>0 DEF TypeOK
  <2>2. thread' = [[thread EXCEPT ![n][s] = u] EXCEPT ![p][r] = v]
    BY <1>3, <2>1
  <2>3. [thread EXCEPT ![n][s] = u] \in [Node -> [Slot -> Thread]]
    BY <1>1, <2>1
  <2> QED
    BY <1>0, <1>1, <1>2, <2>1, <2>2, <2>3
<1> HIDE DEF t, u, v
<1>5. ThreadFits(n, u, head[n], goal, issued) /\ ThreadFits(p, v, head[p], goal, issued)
  BY <1>0, <1>1, <1>2, IdleFits DEF ThreadFits
<1>6. TypeOK'
  BY <1>0, <1>3, <1>4 DEF TypeOK
<1>7. ReleasesAreOut'
  BY <1>0, <1>3 DEF ReleasesAreOut
<1>8. issued <= issued' /\ \A m \in Node : head[m] <= head'[m]
  BY <1>0, <1>3, Typed
<1>9. \A m \in Node, q \in Slot :
        thread'[m][q] = thread[m][q] \/ ThreadFits(m, thread'[m][q], head'[m], goal', issued')
  BY <1>3, <1>4, <1>5
<1> QED
  BY <1>3, <1>6, <1>7, <1>8, <1>9, WorldStep

LEMMA BeginStep ==
  ASSUME UpdateInv, NEW n \in Node, NEW s \in Slot,
         Manual(n, s) \/ \E answering \in SUBSET Peers(n) : Poll(n, s, answering)
  PROVE  UpdateInv'
<1>1. PICK pc \in Steps, work \in Works, ts \in 0 .. MaxCampaign :
        Become(n, s, Doing(pc, work, ts)) /\ ts <= issued
  <2>1. CASE Manual(n, s)
    <3>1. Become(n, s, Doing("updating", "manual", 0)) /\ 0 <= issued
      BY <2>1, OneThread DEF Manual
    <3> QED
      BY <3>1, UpdateCampaignAssumption DEF Steps, Works
  <2>2. ASSUME NEW answering \in SUBSET Peers(n), Poll(n, s, answering)
        PROVE  \E ts \in 0 .. MaxCampaign : Become(n, s, Doing("apply", "poll", ts)) /\ ts <= issued
    <3>1. PICK p \in answering : Become(n, s, Doing("apply", "poll", record[p].campaign))
      BY <2>2 DEF Poll
    <3>2. p \in Node
      BY DEF Peers, Node
    <3>3. record[p] \in Record /\ record[p].campaign <= issued
      BY <3>2, OneThread DEF Fits
    <3> QED
      BY <3>1, <3>3 DEF Record
  <2> QED
    BY <2>1, <2>2 DEF Steps, Works
<1>2. Doing(pc, work, ts) \in Thread /\ ThreadFits(n, Doing(pc, work, ts), head[n], goal, issued)
  BY <1>1, DoingIsThread, IdleFits, OneThread DEF ThreadFits
<1>3. UNCHANGED <<code, record, campaigns>>
  BY DEF Manual, Poll
<1> QED
  BY <1>1, <1>2, <1>3, ThreadStep

\* _maybe_apply_campaign takes over from the record what it calls applied.
LEMMA ApplyStep ==
  ASSUME UpdateInv, NEW n \in Node, NEW s \in Slot, Apply(n, s)
  PROVE  UpdateInv'
<1> DEFINE t == thread[n][s]
           c == [campaign |-> Later(t.ts, record[n].campaign), applied |-> record[n].applied]
           u(pc) == [t EXCEPT !.pc = pc, !.copy = c]
<1>0. /\ t \in Thread /\ ThreadFits(n, t, head[n], goal, issued) /\ issued \in Nat
      /\ record[n] \in Record /\ Fits(n, record[n], head[n], goal, issued)
  BY OneThread
<1>1. PICK w \in {Idle, u("save"), u("update")} : Become(n, s, w)
  BY DEF Apply
<1>2. /\ t.ts \in 0 .. MaxCampaign /\ t.ts <= issued
      /\ record[n].campaign \in 0 .. MaxCampaign /\ record[n].applied \in 0 .. MaxCampaign
      /\ record[n].campaign <= issued
  BY <1>0 DEF Thread, Record, ThreadFits, Fits
<1>3. c \in Record /\ Fits(n, c, head[n], goal, issued)
  BY <1>0, <1>2 DEF Later, Record, Fits
<1>4. \A pc \in Steps : u(pc) \in Thread /\ u(pc).ts = t.ts /\ u(pc).copy = c
  BY <1>0, <1>3 DEF Thread
<1> HIDE DEF t, c, u
<1>5. w \in Thread /\ ThreadFits(n, w, head[n], goal, issued)
  BY <1>0, <1>1, <1>2, <1>3, <1>4, IdleIsThread, IdleFits DEF ThreadFits, Steps
<1>6. UNCHANGED <<code, record, campaigns>>
  BY DEF Apply
<1> QED
  BY <1>1, <1>5, <1>6, ThreadStep

\* An update that did not succeed leaves the copy as it was.
LEMMA AfterFailure ==
  ASSUME NEW t \in Thread
  PROVE  /\ AfterUpdate(t, FALSE) \in Thread
         /\ AfterUpdate(t, FALSE) = Idle
            \/ (AfterUpdate(t, FALSE).ts = t.ts /\ AfterUpdate(t, FALSE).copy = t.copy)
BY IdleIsThread DEF AfterUpdate, Thread, Record, Steps

LEMMA AfterSuccess ==
  ASSUME NEW t \in Thread
  PROVE  /\ AfterUpdate(t, TRUE) \in Thread
         /\ AfterUpdate(t, TRUE) = Idle
            \/ (AfterUpdate(t, TRUE).ts = t.ts
                /\ AfterUpdate(t, TRUE).copy = [campaign |-> t.copy.campaign, applied |-> t.ts])
BY IdleIsThread DEF AfterUpdate, Thread, Record, Steps

LEMMA LockStep ==
  ASSUME UpdateInv, NEW n \in Node, NEW s \in Slot, Lock(n, s)
  PROVE  UpdateInv'
<1> DEFINE t == thread[n][s]
           u == [t EXCEPT !.pc = "updating"]
<1>0. t \in Thread /\ ThreadFits(n, t, head[n], goal, issued) /\ issued \in Nat
  BY OneThread
<1>1. Become(n, s, AfterUpdate(t, FALSE)) \/ Become(n, s, u)
  BY DEF Lock
<1>2. u \in Thread /\ u.ts = t.ts /\ u.copy = t.copy
  BY <1>0 DEF Thread, Steps
<1> HIDE DEF t, u
<1>3. PICK w \in Thread : Become(n, s, w) /\ (w = Idle \/ (w.ts = t.ts /\ w.copy = t.copy))
  BY <1>0, <1>1, <1>2, AfterFailure
<1>4. ThreadFits(n, w, head[n], goal, issued)
  BY <1>0, <1>3, IdleFits DEF ThreadFits
<1>5. UNCHANGED <<code, record, campaigns>>
  BY DEF Lock
<1> QED
  BY <1>3, <1>4, <1>5, ThreadStep

\* self_update: a thread that reports success at a node whose fetch works is at the
\* newest release, which no campaign is ahead of.
LEMMA UpdateStep ==
  ASSUME UpdateInv, NEW n \in Node, NEW s \in Slot, NEW newest \in head[n] .. tip,
         NEW merges \in BOOLEAN, Update(n, s, newest, merges)
  PROVE  UpdateInv'
<1> DEFINE t == thread[n][s]
           ok == Succeeds(newest = head[n], merges)
           u == AfterUpdate(t, ok)
<1>0. /\ TypeOK /\ ReleasesAreOut /\ t \in Thread /\ ThreadFits(n, t, head[n], goal, issued)
      /\ issued \in Nat
  BY OneThread DEF UpdateInv
<1>1. /\ tip \in Nat /\ tip \in 0 .. MaxTip /\ goal \in [Stamp -> Nat]
      /\ \A m \in Node : head[m] \in 0 .. MaxTip /\ head[m] <= tip
      /\ newest \in 0 .. MaxTip /\ head[n] <= newest /\ newest <= tip
  BY <1>0, Typed, UpdateCampaignAssumption DEF TypeOK, ReleasesAreOut
<1>2. /\ newest # tip => n \in Unreliable
      /\ head' = [head EXCEPT ![n] = IF merges THEN newest ELSE @]
      /\ due' = IF head' # head THEN due \cup {n} ELSE due
      /\ Become(n, s, u)
      /\ UNCHANGED <<tip, record, issued, goal>>
  BY DEF Update, campaigns
<1>3. /\ head' \in [Node -> 0 .. MaxTip] /\ due' \in SUBSET Node
      /\ \A m \in Node : m # n => head'[m] = head[m]
      /\ head'[n] = IF merges THEN newest ELSE head[n]
  BY <1>0, <1>1, <1>2 DEF TypeOK
<1>4. u \in Thread
  <2>1. ok \in BOOLEAN
    BY DEF Succeeds
  <2> QED
    BY <1>0, <2>1, AfterSuccess, AfterFailure
<1>5. ThreadFits(n, u, head'[n], goal, issued)
  <2>0. /\ t.ts \in 0 .. MaxCampaign /\ t.ts <= issued /\ Fits(n, t.copy, head[n], goal, issued)
        /\ t.copy \in Record /\ head[n] \in Nat /\ head'[n] \in Nat /\ head[n] <= head'[n]
        /\ t.copy.campaign <= issued
    BY <1>0, <1>1, <1>3 DEF Thread, ThreadFits, Fits
  <2>1. CASE ok
    <3>1. u = AfterUpdate(t, TRUE)
      BY <2>1
    <3>2. n \notin Unreliable => head'[n] = tip
      BY <1>2, <1>3, <2>1 DEF Succeeds
    <3>3. t.ts # 0 => t.ts \in Stamp
      BY <2>0 DEF Stamp
    <3>4. Fits(n, [campaign |-> t.copy.campaign, applied |-> t.ts], head'[n], goal, issued)
      BY <1>0, <2>0, <3>2, <3>3 DEF Fits, ReleasesAreOut
    <3> HIDE DEF t, u, ok
    <3> QED
      BY <1>0, <2>0, <3>1, <3>4, AfterSuccess, IdleFits DEF ThreadFits
  <2>2. CASE ~ok
    <3>1. u = AfterUpdate(t, FALSE)
      BY <2>2 DEF Succeeds
    <3>2. Fits(n, t.copy, head'[n], goal, issued)
      BY <1>0, <1>1, <2>0, FitsOn
    <3> HIDE DEF t, u, ok
    <3> QED
      BY <1>0, <2>0, <3>1, <3>2, AfterFailure, IdleFits DEF ThreadFits
  <2> QED
    BY <2>1, <2>2
<1> HIDE DEF t, u, ok
<1>6. /\ thread' \in [Node -> [Slot -> Thread]]
      /\ \A m \in Node, r \in Slot :
           thread'[m][r] = IF m = n /\ r = s THEN u ELSE thread[m][r]
  BY <1>0, <1>2, <1>4, BecomeTyped
<1>7. TypeOK'
  BY <1>0, <1>2, <1>3, <1>6 DEF TypeOK
<1>8. ReleasesAreOut'
  BY <1>0, <1>1, <1>2, <1>3 DEF ReleasesAreOut
<1>9. issued <= issued' /\ \A m \in Node : head[m] <= head'[m]
  BY <1>0, <1>1, <1>2, <1>3
<1> QED
  BY <1>2, <1>5, <1>6, <1>7, <1>8, <1>9, WorldStep

\* A thread saves its copy, whatever the record has become meanwhile.
LEMMA SaveStep ==
  ASSUME UpdateInv, NEW n \in Node, NEW s \in Slot, Save(n, s)
  PROVE  UpdateInv'
<1> DEFINE t == thread[n][s]
           u == [t EXCEPT !.pc = "fan", !.todo = Peers(n)]
<1>0. /\ TypeOK /\ ReleasesAreOut /\ t \in Thread /\ ThreadFits(n, t, head[n], goal, issued)
      /\ issued \in Nat
  BY OneThread DEF UpdateInv
<1>1. /\ record' = [record EXCEPT ![n] = t.copy]
      /\ Become(n, s, Idle) \/ Become(n, s, u)
      /\ UNCHANGED <<tip, head, due, issued, goal>>
  BY DEF Save, code, campaigns
<1>2. u \in Thread /\ u.ts = t.ts /\ u.copy = t.copy /\ t.copy \in Record
  BY <1>0 DEF Thread, Steps, Peers
<1> HIDE DEF t, u
<1>3. PICK w \in Thread : Become(n, s, w) /\ (w = Idle \/ w = u)
  BY <1>1, <1>2, IdleIsThread
<1>4. ThreadFits(n, w, head[n], goal, issued) /\ Fits(n, t.copy, head[n], goal, issued)
  BY <1>0, <1>2, <1>3, IdleFits DEF ThreadFits
<1>5. /\ thread' \in [Node -> [Slot -> Thread]]
      /\ \A m \in Node, r \in Slot :
           thread'[m][r] = IF m = n /\ r = s THEN w ELSE thread[m][r]
  BY <1>0, <1>3, BecomeTyped
<1>6. record' \in [Node -> Record] /\ \A m \in Node : record'[m] = IF m = n THEN t.copy ELSE record[m]
  BY <1>0, <1>1, <1>2 DEF TypeOK
<1>7. TypeOK'
  BY <1>0, <1>1, <1>5, <1>6 DEF TypeOK
<1>8. ReleasesAreOut'
  BY <1>0, <1>1 DEF ReleasesAreOut
<1>9. issued <= issued' /\ \A m \in Node : head[m] <= head'[m]
  BY <1>0, <1>1, Typed
<1> QED
  BY <1>1, <1>4, <1>5, <1>6, <1>7, <1>8, <1>9, WorldStep

LEMMA RestartStep ==
  ASSUME UpdateInv, NEW n \in Node, Restart(n)
  PROVE  UpdateInv'
<1>0. /\ TypeOK /\ ReleasesAreOut /\ issued \in Nat
      /\ due' = due \ {n} /\ thread' = [thread EXCEPT ![n] = [s \in Slot |-> Idle]]
      /\ UNCHANGED <<tip, head, record, issued, goal>>
  BY Typed DEF UpdateInv, Restart, campaigns
<1>1. /\ thread' \in [Node -> [Slot -> Thread]]
      /\ \A m \in Node, r \in Slot : thread'[m][r] = thread[m][r] \/ thread'[m][r] = Idle
  BY <1>0, IdleIsThread DEF TypeOK
<1>2. TypeOK'
  BY <1>0, <1>1 DEF TypeOK
<1>3. ReleasesAreOut'
  BY <1>0 DEF ReleasesAreOut
<1>4. issued <= issued' /\ \A m \in Node : head[m] <= head'[m]
  BY <1>0, Typed
<1>5. \A m \in Node : ThreadFits(m, Idle, head'[m], goal', issued')
  BY <1>0, IdleFits
<1> QED
  BY <1>0, <1>1, <1>2, <1>3, <1>4, <1>5, WorldStep

LEMMA ReleaseStep ==
  ASSUME UpdateInv, Release
  PROVE  UpdateInv'
<1>0. /\ TypeOK /\ ReleasesAreOut /\ tip < MaxTip /\ tip' = tip + 1
      /\ UNCHANGED <<head, due, record, thread, issued, goal>>
  BY DEF UpdateInv, Release, campaigns
<1>1. /\ tip \in Nat /\ issued \in Nat /\ goal \in [Stamp -> Nat] /\ \A m \in Node : head[m] \in Nat
  BY <1>0, Typed
<1>2. TypeOK'
  BY <1>0, <1>1, UpdateCampaignAssumption DEF TypeOK
<1>3. ReleasesAreOut'
  BY <1>0, <1>1 DEF ReleasesAreOut
<1>4. issued <= issued' /\ \A m \in Node : head[m] <= head'[m]
  BY <1>0, <1>1
<1> QED
  BY <1>0, <1>2, <1>3, <1>4, WorldStep

-----------------------------------------------------------------------------
(* The invariant *)

LEMMA UpdateInvInit == Init => UpdateInv
<1> SUFFICES ASSUME Init PROVE UpdateInv
  OBVIOUS
<1>1. TypeOK
  BY IdleIsThread, UpdateCampaignAssumption DEF Init, TypeOK
<1>2. ReleasesAreOut
  BY DEF Init, ReleasesAreOut
<1>3. /\ issued = 0 /\ \A n \in Node : record[n] = Blank
      /\ \A n \in Node, s \in Slot : thread[n][s] = Idle
  BY DEF Init
<1>4. RecordsFit /\ ThreadsFit
  BY <1>3, IdleFits DEF RecordsFit, ThreadsFit
<1> QED
  BY <1>1, <1>2, <1>4 DEF UpdateInv

LEMMA UpdateInvNext == UpdateInv /\ [Next]_vars => UpdateInv'
<1> SUFFICES ASSUME UpdateInv, [Next]_vars PROVE UpdateInv'
  OBVIOUS
<1>1. ASSUME NEW n \in Node, NEW s \in Slot, Author(n, s) PROVE UpdateInv'
  BY <1>1, AuthorStep
<1>2. ASSUME NEW n \in Node, NEW s \in Slot,
             \/ Receive(n, s) \/ Pushed(n, s)
             \/ \E p \in Peer : PushLost(n, s, p)
      PROVE  UpdateInv'
  BY <1>2, FanStep
<1>3. ASSUME NEW n \in Node, NEW s \in Slot, Apply(n, s) PROVE UpdateInv'
  BY <1>3, ApplyStep
<1>4. ASSUME NEW n \in Node, NEW s \in Slot,
             Manual(n, s) \/ \E answering \in SUBSET Peers(n) : Poll(n, s, answering)
      PROVE  UpdateInv'
  BY <1>4, BeginStep
<1>5. ASSUME NEW n \in Node, NEW s \in Slot, Lock(n, s) PROVE UpdateInv'
  BY <1>5, LockStep
<1>6. ASSUME NEW n \in Node, NEW s \in Slot, Save(n, s) PROVE UpdateInv'
  BY <1>6, SaveStep
<1>7. ASSUME NEW n \in Node, NEW s \in Slot, NEW p \in Peer, NEW r \in Slot, Push(n, s, p, r)
      PROVE  UpdateInv'
  BY <1>7, PushStep
<1>8. ASSUME NEW n \in Node, NEW s \in Slot, NEW newest \in head[n] .. tip,
             NEW merges \in BOOLEAN, Update(n, s, newest, merges)
      PROVE  UpdateInv'
  BY <1>8, UpdateStep
<1>9. ASSUME NEW n \in Node, Restart(n) PROVE UpdateInv'
  BY <1>9, RestartStep
<1>10. CASE Release
  BY <1>10, ReleaseStep
<1>11. CASE UNCHANGED vars
  BY <1>11 DEF vars, code, campaigns, UpdateInv, TypeOK, ReleasesAreOut, RecordsFit, ThreadsFit
<1> QED
  BY <1>1, <1>2, <1>3, <1>4, <1>5, <1>6, <1>7, <1>8, <1>9, <1>10, <1>11 DEF Next

\* Releases, records and threads keep their types.
THEOREM UpdateTypeCorrect == Spec => []TypeOK
<1>1. UpdateInv => TypeOK
  BY DEF UpdateInv
<1> QED
  BY <1>1, UpdateInvInit, UpdateInvNext, PTL DEF Spec

\* At a node whose fetch works, a campaign counts as applied only if the node has
\* got the release of its author, whatever threads, restarts, refused merges and
\* other campaigns race with it (_maybe_apply_campaign, self_update).
THEOREM AppliedIsUpdated == Spec => []AppliedMeansUpdated
<1>1. UpdateInv => AppliedMeansUpdated
  <2> SUFFICES ASSUME UpdateInv, NEW n \in Node \ Unreliable, NEW c \in Stamp,
                      record[n].applied = c
               PROVE  head[n] >= goal[c]
    BY DEF AppliedMeansUpdated, Reached
  <2> QED
    BY DEF UpdateInv, RecordsFit, Fits, Stamp
<1> QED
  BY <1>1, UpdateInvInit, UpdateInvNext, PTL DEF Spec

-----------------------------------------------------------------------------
(* Records grow, if one copy at a time is under way *)

\* A thread that will save the copy of the record it has loaded.
Holds(n, s) ==
  \/ thread[n][s].pc \in {"update", "save"}
  \/ thread[n][s].pc = "updating" /\ thread[n][s].work # "manual"

\* No two threads of a node work on copies at the same time.
OneCopy == \A n \in Node, s, r \in Slot : Holds(n, s) /\ Holds(n, r) => s = r

\* A copy about to be saved says no less than the record, for a thread and a record.
CopyIsNewer(t, r) ==
  t.pc \in {"update", "save"} \/ (t.pc = "updating" /\ t.work # "manual") =>
    /\ t.copy.campaign >= r.campaign /\ t.copy.applied >= r.applied
    /\ t.pc # "save" => t.ts >= r.applied

CopiesAreCurrent == \A n \in Node, s \in Slot : CopyIsNewer(thread[n][s], record[n])

\* The steps of one thread that leave the records alone.
LEMMA CopyStep ==
  ASSUME TypeOK, CopiesAreCurrent, UNCHANGED record, NEW n \in Node, NEW s \in Slot,
         NEW t \in Thread, Become(n, s, t), CopyIsNewer(t, record[n])
  PROVE  CopiesAreCurrent'
BY BecomeTyped DEF CopiesAreCurrent

\* What a copy says next to the record it was loaded from.
LEMMA LoadedIsCurrent ==
  ASSUME TypeOK, CopiesAreCurrent, NEW n \in Node, NEW s \in Slot,
         Apply(n, s) \/ Lock(n, s)
  PROVE  CopiesAreCurrent'
<1> DEFINE t == thread[n][s]
           r == record[n]
<1>1. /\ t \in Thread /\ r \in Record /\ CopyIsNewer(t, r)
      /\ t.ts \in 0 .. MaxCampaign /\ t.copy \in Record
      /\ r.campaign \in 0 .. MaxCampaign /\ r.applied \in 0 .. MaxCampaign
      /\ MaxCampaign \in Nat
  BY Typed, UpdateCampaignAssumption DEF Thread, Record, CopiesAreCurrent
<1>2. UNCHANGED record
  BY DEF Apply, Lock
<1>3. CASE Apply(n, s)
  <2> DEFINE c == [campaign |-> Later(t.ts, r.campaign), applied |-> r.applied]
             u == [t EXCEPT !.pc = IF t.ts <= r.applied \/ n \notin Allowed
                                   THEN "save" ELSE "update",
                            !.copy = c]
  <2>1. c \in Record /\ c.campaign >= r.campaign /\ c.applied = r.applied
    BY <1>1 DEF Later, Record
  <2>2. /\ u \in Thread /\ u.ts = t.ts /\ u.copy = c
        /\ u.pc = IF t.ts <= r.applied \/ n \notin Allowed THEN "save" ELSE "update"
    BY <1>1, <2>1 DEF Thread, Steps
  <2>3. Become(n, s, Idle) \/ Become(n, s, u)
    BY <1>3 DEF Apply
  <2> HIDE DEF t, r, c, u
  <2>4. CopyIsNewer(Idle, r)
    BY DEF CopyIsNewer, Idle
  <2>5. CopyIsNewer(u, r)
    BY <1>1, <2>1, <2>2 DEF CopyIsNewer
  <2> QED
    BY <1>2, <2>2, <2>3, <2>4, <2>5, IdleIsThread, CopyStep DEF r
<1>4. CASE Lock(n, s)
  <2> DEFINE u == [t EXCEPT !.pc = "updating"]
             v == AfterUpdate(t, FALSE)
  <2>1. /\ u \in Thread /\ v \in Thread /\ t.pc = "update"
        /\ Become(n, s, u) \/ Become(n, s, v)
    BY <1>1, <1>4, IdleIsThread DEF Lock, AfterUpdate, Thread, Steps, Record
  <2>2. CopyIsNewer(u, r)
    BY <1>1, <2>1 DEF CopyIsNewer, Thread
  <2>3. CopyIsNewer(v, r)
    BY <1>1, <2>1 DEF CopyIsNewer, Thread, AfterUpdate, Idle, Record
  <2> QED
    BY <1>2, <2>1, <2>2, <2>3, CopyStep
<1> QED
  BY <1>3, <1>4

\* The steps of threads that hold no copy.
LEMMA PassingOnStep ==
  ASSUME UpdateInv, CopiesAreCurrent, NEW n \in Node, NEW s \in Slot,
         \/ Receive(n, s) \/ Pushed(n, s) \/ \E p \in Peer : PushLost(n, s, p)
         \/ Manual(n, s) \/ \E answering \in SUBSET Peers(n) : Poll(n, s, answering)
  PROVE  CopiesAreCurrent'
<1> DEFINE t == thread[n][s]
           Passing == {"idle", "receive", "fan", "apply"}
<1>1. TypeOK /\ t \in Thread
  BY OneThread DEF UpdateInv
<1>2. \A u \in Thread : u.pc \in Passing \/ (u.pc = "updating" /\ u.work = "manual") => CopyIsNewer(u, record[n])
  BY DEF CopyIsNewer
<1>3. UNCHANGED record
  BY DEF Receive, Pushed, PushLost, Manual, Poll
<1>4. Peers(n) \subseteq Peer
  BY DEF Peers
<1>5. PICK u \in Thread : Become(n, s, u) /\ (u.pc \in Passing \/ (u.pc = "updating" /\ u.work = "manual"))
  <2>1. CASE Receive(n, s)
    <3>1. \/ Become(n, s, [t EXCEPT !.pc = "fan", !.todo = Peers(n)])
          \/ Become(n, s, [t EXCEPT !.pc = "apply"])
      BY <2>1 DEF Receive
    <3>2. LET u == [t EXCEPT !.pc = "fan", !.todo = Peers(n)]
          IN  u \in Thread /\ u.pc = "fan"
      BY <1>1, <1>4 DEF Thread, Steps
    <3>3. [t EXCEPT !.pc = "apply"] \in Thread /\ [t EXCEPT !.pc = "apply"].pc = "apply"
      BY <1>1 DEF Thread, Steps
    <3> QED
      BY <3>1, <3>2, <3>3
  <2>2. CASE Pushed(n, s)
    BY <1>1, <2>2, IdleIsThread DEF Pushed, Thread, Steps, Idle
  <2>3. CASE \E p \in Peer : PushLost(n, s, p)
    BY <1>1, <2>3 DEF PushLost, Thread, Steps
  <2>4. CASE Manual(n, s)
    <3>1. /\ Doing("updating", "manual", 0) \in Thread
          /\ Doing("updating", "manual", 0).pc = "updating"
          /\ Doing("updating", "manual", 0).work = "manual"
      BY IdleIsThread, UpdateCampaignAssumption DEF Doing, Idle, Thread, Steps, Works
    <3> QED
      BY <2>4, <3>1 DEF Manual
  <2>5. CASE \E answering \in SUBSET Peers(n) : Poll(n, s, answering)
    <3>1. PICK p \in Peer : Become(n, s, Doing("apply", "poll", record[p].campaign))
      BY <1>4, <2>5 DEF Poll
    <3>2. record[p].campaign \in 0 .. MaxCampaign
      BY <1>1, Typed DEF Record, Node
    <3>3. \A ts \in 0 .. MaxCampaign :
            Doing("apply", "poll", ts) \in Thread /\ Doing("apply", "poll", ts).pc = "apply"
      BY IdleIsThread DEF Doing, Idle, Thread, Steps, Works
    <3> QED
      BY <3>1, <3>2, <3>3
  <2> QED
    BY <2>1, <2>2, <2>3, <2>4, <2>5
<1> QED
  BY <1>1, <1>2, <1>3, <1>5, CopyStep

\* A push that arrives changes two threads, neither of which holds a copy.
LEMMA ArrivingStep ==
  ASSUME UpdateInv, CopiesAreCurrent, NEW n \in Node, NEW s \in Slot, NEW p \in Peer,
         NEW r \in Slot, Push(n, s, p, r)
  PROVE  CopiesAreCurrent'
<1> DEFINE u == [thread[n][s] EXCEPT !.todo = @ \ {p}]
           v == Doing("receive", "push", thread[n][s].ts)
<1>1. thread \in [Node -> [Slot -> Thread]] /\ thread[n][s] \in Thread /\ p \in Node
  BY OneThread DEF UpdateInv, TypeOK, Node
<1>2. thread[n][s].pc = "fan" /\ UNCHANGED record /\ u.pc = "fan"
  BY <1>1 DEF Push, Thread
<1>3. v.pc = "receive"
  BY DEF Doing, Idle
<1>4. \A m \in Node, q \in Slot :
        thread'[m][q] = v \/ thread'[m][q] = u \/ thread'[m][q] = thread[m][q]
  <2>1. thread' = [[thread EXCEPT ![n][s] = u] EXCEPT ![p][r] = v]
    BY <1>1 DEF Push
  <2> QED
    BY <1>1, <2>1
<1> HIDE DEF u, v
<1>5. \A x : CopyIsNewer(u, x) /\ CopyIsNewer(v, x)
  BY <1>2, <1>3 DEF CopyIsNewer
<1> QED
  BY <1>2, <1>4, <1>5 DEF CopiesAreCurrent

\* An author's copy has the newest campaign of all.
LEMMA AuthorIsNewest ==
  ASSUME UpdateInv, CopiesAreCurrent, NEW n \in Node, NEW s \in Slot, Author(n, s)
  PROVE  CopiesAreCurrent'
<1> DEFINE c == [campaign |-> issued', applied |-> issued']
           u == [Doing("save", "author", issued') EXCEPT !.copy = c]
<1>1. /\ TypeOK /\ record[n] \in Record /\ issued' = issued + 1 /\ issued' \in 0 .. MaxCampaign
      /\ record[n].campaign <= issued /\ record[n].applied <= issued /\ issued \in Nat
  BY Typed, UpdateCampaignAssumption DEF UpdateInv, RecordsFit, Fits, Author
<1>2. c \in Record /\ u \in Thread /\ u.pc = "save" /\ u.copy = c
  BY <1>1, IdleIsThread DEF Doing, Idle, Thread, Steps, Works, Record
<1>3. CopyIsNewer(u, record[n])
  BY <1>1, <1>2 DEF CopyIsNewer, Record
<1> QED
  BY <1>1, <1>2, <1>3, CopyStep DEF Author

\* An update that succeeds makes its copy newer still.
LEMMA UpdatedIsNewer ==
  ASSUME UpdateInv, CopiesAreCurrent, NEW n \in Node, NEW s \in Slot,
         NEW newest, NEW merges \in BOOLEAN, Update(n, s, newest, merges)
  PROVE  CopiesAreCurrent'
<1> DEFINE t == thread[n][s]
           ok == Succeeds(newest = head[n], merges)
           u == AfterUpdate(t, ok)
<1>1. /\ TypeOK /\ t \in Thread /\ CopyIsNewer(t, record[n]) /\ record[n] \in Record
      /\ t.ts \in 0 .. MaxCampaign /\ t.copy \in Record /\ t.pc = "updating"
      /\ ok \in BOOLEAN
  BY OneThread, Typed DEF UpdateInv, CopiesAreCurrent, Thread, Update, Succeeds
<1>2. u \in Thread /\ Become(n, s, u) /\ UNCHANGED record
  BY <1>1, IdleIsThread DEF Update, AfterUpdate, Thread, Steps, Record
<1> HIDE DEF ok
<1>3. CopyIsNewer(u, record[n])
  <2>1. CASE t.work = "manual"
    BY <2>1 DEF AfterUpdate, CopyIsNewer, Idle
  <2>2. CASE t.work # "manual"
    <3>1. u = [t EXCEPT !.pc = "save", !.copy.applied = IF ok THEN t.ts ELSE @]
      BY <2>2 DEF AfterUpdate
    <3>2. /\ u.pc = "save" /\ u.copy.campaign = t.copy.campaign
          /\ u.copy.applied = t.ts \/ u.copy.applied = t.copy.applied
      BY <1>1, <3>1 DEF Thread, Record
    <3> QED
      BY <1>1, <2>2, <3>2 DEF CopyIsNewer
  <2> QED
    BY <2>1, <2>2
<1> QED
  BY <1>1, <1>2, <1>3, CopyStep

\* The record that is saved is the only copy there is.
LEMMA SavedAlone ==
  ASSUME UpdateInv, CopiesAreCurrent, OneCopy, NEW n \in Node, NEW s \in Slot, Save(n, s)
  PROVE  /\ CopiesAreCurrent'
         /\ \A m \in Node : /\ record'[m].campaign >= record[m].campaign
                            /\ record'[m].applied >= record[m].applied
<1> DEFINE t == thread[n][s]
<1>1. /\ TypeOK /\ t \in Thread /\ t.pc = "save" /\ CopyIsNewer(t, record[n])
      /\ record \in [Node -> Record] /\ record' = [record EXCEPT ![n] = t.copy]
  BY OneThread DEF UpdateInv, TypeOK, CopiesAreCurrent, Save
<1>2. PICK u \in Thread : Become(n, s, u) /\ u.pc \in {"idle", "fan"}
  <2>1. /\ [t EXCEPT !.pc = "fan", !.todo = Peers(n)] \in Thread
        /\ [t EXCEPT !.pc = "fan", !.todo = Peers(n)].pc = "fan"
    BY <1>1 DEF Thread, Steps, Peers
  <2>2. Idle \in Thread /\ Idle.pc = "idle"
    BY IdleIsThread DEF Idle
  <2>3. Become(n, s, Idle) \/ Become(n, s, [t EXCEPT !.pc = "fan", !.todo = Peers(n)])
    BY DEF Save
  <2> QED
    BY <2>1, <2>2, <2>3
<1>3. \A m \in Node, r \in Slot :
        thread'[m][r] = IF m = n /\ r = s THEN u ELSE thread[m][r]
  BY <1>1, <1>2, BecomeTyped
<1>4. ASSUME NEW m \in Node
      PROVE  /\ record'[m].campaign >= record[m].campaign
             /\ record'[m].applied >= record[m].applied
  <2>1. CASE m = n
    BY <1>1, <2>1 DEF CopyIsNewer
  <2>2. CASE m # n
    <3>1. record'[m] = record[m] /\ record[m].campaign \in Int /\ record[m].applied \in Int
      BY <1>1, <2>2 DEF Record
    <3> QED
      BY <3>1
  <2> QED
    BY <2>1, <2>2
<1>5. ASSUME NEW m \in Node, NEW r \in Slot PROVE CopyIsNewer(thread'[m][r], record'[m])
  <2>1. CASE m = n /\ r = s
    BY <1>2, <1>3, <2>1 DEF CopyIsNewer
  <2>2. CASE m = n /\ r # s
    <3>1. ~Holds(n, r) /\ thread'[m][r] = thread[n][r]
      BY <1>1, <1>3, <2>2 DEF OneCopy, Holds
    <3> QED
      BY <3>1 DEF CopyIsNewer, Holds
  <2>3. CASE m # n
    <3>1. record'[m] = record[m] /\ thread'[m][r] = thread[m][r]
      BY <1>1, <1>3, <2>3
    <3> QED
      BY <3>1 DEF CopiesAreCurrent
  <2> QED
    BY <2>1, <2>2, <2>3
<1> QED
  BY <1>4, <1>5 DEF CopiesAreCurrent

\* A campaign that a record knows, and one that it calls applied, is not forgotten.
RecordsGrow ==
  [][\A n \in Node : /\ record'[n].campaign >= record[n].campaign
                     /\ record'[n].applied >= record[n].applied]_vars

LEMMA CopiesNext ==
  UpdateInv /\ CopiesAreCurrent /\ OneCopy /\ [Next]_vars => CopiesAreCurrent'
<1> SUFFICES ASSUME UpdateInv, CopiesAreCurrent, OneCopy, [Next]_vars PROVE CopiesAreCurrent'
  OBVIOUS
<1>1. ASSUME NEW n \in Node, NEW s \in Slot, Author(n, s) PROVE CopiesAreCurrent'
  BY <1>1, AuthorIsNewest
<1>2. ASSUME NEW n \in Node, NEW s \in Slot,
             \/ Receive(n, s) \/ Pushed(n, s) \/ \E p \in Peer : PushLost(n, s, p)
             \/ Manual(n, s) \/ \E answering \in SUBSET Peers(n) : Poll(n, s, answering)
      PROVE  CopiesAreCurrent'
  BY <1>2, PassingOnStep
<1>3. ASSUME NEW n \in Node, NEW s \in Slot, Apply(n, s) \/ Lock(n, s)
      PROVE  CopiesAreCurrent'
  BY <1>3, LoadedIsCurrent DEF UpdateInv
<1>4. ASSUME NEW n \in Node, NEW s \in Slot, Save(n, s) PROVE CopiesAreCurrent'
  BY <1>4, SavedAlone
<1>5. ASSUME NEW n \in Node, NEW s \in Slot, NEW p \in Peer, NEW r \in Slot, Push(n, s, p, r)
      PROVE  CopiesAreCurrent'
  BY <1>5, ArrivingStep
<1>6. ASSUME NEW n \in Node, NEW s \in Slot, NEW newest \in head[n] .. tip,
             NEW merges \in BOOLEAN, Update(n, s, newest, merges)
      PROVE  CopiesAreCurrent'
  BY <1>6, UpdatedIsNewer
<1>7. ASSUME NEW n \in Node, Restart(n) PROVE CopiesAreCurrent'
  <2>1. \A m \in Node, s \in Slot : thread'[m][s] = Idle \/ thread'[m][s] = thread[m][s]
    BY <1>7 DEF Restart, UpdateInv, TypeOK
  <2> QED
    BY <1>7, <2>1 DEF Restart, CopiesAreCurrent, CopyIsNewer, Idle
<1>8. CASE Release \/ UNCHANGED vars
  BY <1>8 DEF Release, vars, CopiesAreCurrent
<1> QED
  BY <1>1, <1>2, <1>3, <1>4, <1>5, <1>6, <1>7, <1>8 DEF Next

\* As long as no two threads of a node work on copies of its update state at a time,
\* a save never brings back an older record; the code has no lock for this, so the
\* overlap is what can lose one (_maybe_apply_campaign, request_fleet_update).
THEOREM SerialCopiesKeepRecords == Spec /\ []OneCopy => RecordsGrow
<1>1. Init => CopiesAreCurrent
  BY DEF Init, CopiesAreCurrent, CopyIsNewer, Idle
<1>2. UpdateInv /\ CopiesAreCurrent /\ OneCopy /\ [Next]_vars =>
        [\A n \in Node : /\ record'[n].campaign >= record[n].campaign
                         /\ record'[n].applied >= record[n].applied]_vars
  <2> SUFFICES ASSUME UpdateInv, CopiesAreCurrent, OneCopy, Next, NEW m \in Node
               PROVE  /\ record'[m].campaign >= record[m].campaign
                      /\ record'[m].applied >= record[m].applied
    OBVIOUS
  <2>1. CASE \E n \in Node, s \in Slot : Save(n, s)
    BY <2>1, SavedAlone
  <2>2. CASE ~ \E n \in Node, s \in Slot : Save(n, s)
    <3>1. UNCHANGED record
      <4>1. ASSUME NEW n \in Node, NEW s \in Slot,
                   \/ Author(n, s) \/ Receive(n, s) \/ Pushed(n, s) \/ Apply(n, s)
                   \/ Manual(n, s) \/ Lock(n, s)
            PROVE  UNCHANGED record
        BY <4>1 DEF Author, Receive, Pushed, Apply, Manual, Lock
      <4>2. ASSUME NEW n \in Node, NEW s \in Slot,
                   \/ \E p \in Peer : PushLost(n, s, p) \/ \E r \in Slot : Push(n, s, p, r)
                   \/ \E answering \in SUBSET Peers(n) : Poll(n, s, answering)
                   \/ \E newest \in head[n] .. tip, merges \in BOOLEAN :
                        Update(n, s, newest, merges)
            PROVE  UNCHANGED record
        BY <4>2 DEF PushLost, Push, Poll, Update
      <4>3. ASSUME (\E n \in Node : Restart(n)) \/ Release PROVE UNCHANGED record
        BY <4>3 DEF Restart, Release
      <4> QED
        BY <2>2, <4>1, <4>2, <4>3 DEF Next
    <3>2. record[m].campaign \in Int /\ record[m].applied \in Int
      BY Typed DEF UpdateInv, Record
    <3> QED
      BY <3>1, <3>2
  <2> QED
    BY <2>1, <2>2
<1> QED
  BY <1>1, <1>2, CopiesNext, UpdateInvInit, UpdateInvNext, PTL DEF Spec, RecordsGrow
=============================================================================
