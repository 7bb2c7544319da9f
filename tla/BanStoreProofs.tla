--------------------------- MODULE BanStoreProofs ---------------------------
(***************************************************************************)
(* Theorems about BanStore, for every set of addresses, pool of threads,   *)
(* set of lifetimes and actuator limit.                                    *)
(***************************************************************************)
EXTENDS BanStore, TLAPS

\* What a thread may be about to do with the address of its job.
JobsAreSafe ==
  \A t \in Threads :
    /\ pc[t] = "insert" \/ job[t].then = "share" => job[t].ip \in IP \ Protected
    /\ pc[t] = "load" \/ job[t].then = "allow" => job[t].ip \in IP

\* The inductive invariant: ProtectedNeverDenied alone is not, because a thread
\* past the checks of add() carries an address that is in no table yet.
Inv == TypeOK /\ JobsAreSafe /\ ProtectedNeverDenied

\* The table, the clock and the truncation as seen by the invariant.
LEMMA RowsInIP == Rows \subseteq IP /\ Active \subseteq IP
BY DEF Rows, Active

LEMMA ActiveAreRows == TypeOK => Active \subseteq Rows
BY DEF TypeOK, Rows, Active

LEMMA TruncationsOfS ==
  ASSUME NEW S, NEW T \in Truncations(S)
  PROVE  T \subseteq S /\ Cardinality(T) <= MaxActive
BY DEF Truncations

LEMMA InitInv == Init => Inv
<1> SUFFICES ASSUME Init PROVE Inv
  OBVIOUS
<1> USE BanStoreAssumption DEF Init, NoJob
<1>1. TypeOK
  <2>1. NoJob \in Jobs
    BY DEF Jobs, Afters
  <2>2. now \in 1 .. MaxTime /\ pc \in [Threads -> Steps]
    BY DEF Steps
  <2> QED BY <2>1, <2>2 DEF TypeOK
<1>2. JobsAreSafe
  BY DEF JobsAreSafe
<1>3. ProtectedNeverDenied
  BY DEF ProtectedNeverDenied, Rows
<1> QED BY <1>1, <1>2, <1>3 DEF Inv

LEMMA StepInv == Inv /\ [Next]_vars => Inv'
<1> SUFFICES ASSUME Inv, [Next]_vars PROVE Inv'
  OBVIOUS
<1> USE BanStoreAssumption DEF Inv, TypeOK, JobsAreSafe, ProtectedNeverDenied,
        Rows, Threads, Steps, Afters, Jobs, NoJob, JobFor
<1>1. ASSUME NEW t \in Threads, NEW ip \in IP, NEW ttl \in Ttls,
             NEW received \in BOOLEAN, AddBegin(t, ip, ttl, received)
      PROVE  Inv'
  BY <1>1 DEF AddBegin, Refused, EndOfBan, history
<1>2. ASSUME NEW t \in Threads, Insert(t) PROVE Inv'
  BY <1>2 DEF Insert, Overtaken
<1>3. ASSUME NEW t \in Threads, Read(t) PROVE Inv'
  <2>1. PICK T \in Truncations(Active) : draft' = [draft EXCEPT ![t] = T]
    BY <1>3 DEF Read, Listed
  <2>2. T \subseteq Rows
    BY <2>1, TruncationsOfS, ActiveAreRows
  <2> QED BY <1>3, <2>1, <2>2 DEF Read
<1>4. ASSUME NEW t \in Threads, Sync(t) PROVE Inv'
  <2>1. TypeOK'
    <3>1. job' \in [Threads -> Jobs] /\ pc' \in [Threads -> Steps]
      BY <1>4 DEF Sync, Leave
    <3>2. outbox' \in SUBSET IP /\ edge' \in SUBSET IP /\ draft' \in [Threads -> SUBSET IP]
      BY <1>4 DEF Sync, Leave
    <3> QED BY <1>4, <3>1, <3>2 DEF Sync, Leave
  <2>2. JobsAreSafe'
    BY <1>4 DEF Sync, Leave
  <2>3. ProtectedNeverDenied'
    BY <1>4 DEF Sync, Leave
  <2> QED BY <2>1, <2>2, <2>3
<1>5. ASSUME NEW t \in Threads, SyncFails(t) PROVE Inv'
  BY <1>5 DEF SyncFails, Leave
<1>6. ASSUME NEW t \in Workers, NEW ip \in IP, NEW never \in BOOLEAN,
             Unban(t, ip, never)
      PROVE  Inv'
  <2>1. TypeOK'
    <3>1. job' \in [Threads -> Jobs] /\ pc' \in [Threads -> Steps]
      BY <1>6 DEF Unban
    <3>2. expires' \in [IP -> Nat] /\ created' \in [IP -> Nat]
      BY <1>6 DEF Unban, Delete
    <3>3. late' \in SUBSET Threads
      BY <1>6 DEF Unban, Delete, Overtaken
    <3> QED BY <1>6, <3>1, <3>2, <3>3 DEF Unban
  <2>2. JobsAreSafe'
    BY <1>6 DEF Unban, Delete, Overtaken
  <2>3. ProtectedNeverDenied'
    BY <1>6 DEF Unban, Delete, Overtaken
  <2> QED BY <2>1, <2>2, <2>3
<1>7. ASSUME Expire PROVE Inv'
  BY <1>7 DEF Expire, Delete, Overtaken
<1>8. ASSUME NEW t \in Workers, LoadAfterUnban(t) PROVE Inv'
  BY <1>8 DEF LoadAfterUnban, Edited, history
<1>9. ASSUME NEW t \in Workers, Save(t) PROVE Inv'
  BY <1>9 DEF Save, history
<1>10. ASSUME NEW t \in Workers, NEW ip \in IP, NEW add \in BOOLEAN, Edit(t, ip, add)
       PROVE  Inv'
  <2>1. TypeOK'
    <3>1. job' \in [Threads -> Jobs] /\ pc' \in [Threads -> Steps]
      BY <1>10 DEF Edit, Edited
    <3>2. copy' \in [Threads -> SUBSET IP]
      BY <1>10 DEF Edit, Edited
    <3> QED BY <1>10, <3>1, <3>2 DEF Edit, history
  <2>2. JobsAreSafe'
    BY <1>10 DEF Edit, Edited
  <2>3. ProtectedNeverDenied'
    BY <1>10 DEF Edit, Edited
  <2> QED BY <2>1, <2>2, <2>3
<1>11. CASE Ship
  BY <1>11 DEF Ship, memory, history
<1>12. CASE Tick
  BY <1>12 DEF Tick, memory, history
<1>13. CASE Restart
  <2>1. TypeOK'
    BY <1>13 DEF Restart
  <2>2. JobsAreSafe'
    BY <1>13 DEF Restart
  <2>3. ProtectedNeverDenied'
    BY <1>13 DEF Restart
  <2> QED BY <2>1, <2>2, <2>3
<1>14. CASE UNCHANGED vars
  BY <1>14 DEF vars, memory, history
<1> QED
  BY <1>1, <1>2, <1>3, <1>4, <1>5, <1>6, <1>7, <1>8, <1>9, <1>10, <1>11, <1>12,
     <1>13, <1>14 DEF Next

THEOREM InvHolds == Spec => []Inv
BY InitInv, StepInv, PTL DEF Spec

\* The table, the files and every thread's memory keep their types.
THEOREM TypeCorrect == Spec => []TypeOK
BY InvHolds, PTL DEF Inv

\* No interleaving of any number of threads, restarts and failed writes bans,
\* publishes or shares a trusted address or a proxy edge.
THEOREM ProtectedAreSafe == Spec => []ProtectedNeverDenied
BY InvHolds, PTL DEF Inv

-----------------------------------------------------------------------------
(* An allowlisted address is refused to whoever asks after the entry is in. *)

\* Only AddBegin makes an address pending, and it refuses an allowlisted one;
\* only Insert prolongs a ban, of an address that is pending.
LEMMA AllowlistStep ==
  ASSUME Inv, [Next]_vars, NEW ip \in allow, ~Pending(ip)
  PROVE  ~Pending(ip)' /\ expires'[ip] <= expires[ip]
<1> USE BanStoreAssumption DEF Inv, TypeOK, Threads, Pending
<1>0. ip \in IP /\ expires[ip] \in Nat
  OBVIOUS
<1>1. ASSUME NEW t \in Threads, NEW i \in IP, NEW ttl \in Ttls,
             NEW received \in BOOLEAN, AddBegin(t, i, ttl, received)
      PROVE  ~Pending(ip)' /\ expires'[ip] <= expires[ip]
  <2>1. i # ip /\ UNCHANGED expires
    BY <1>1 DEF AddBegin, Refused
  <2>2. \A u \in Threads : u # t => pc'[u] = pc[u] /\ job'[u] = job[u]
    BY <1>1 DEF AddBegin
  <2>3. job'[t].ip = i
    BY <1>1 DEF AddBegin
  <2> QED BY <1>0, <2>1, <2>2, <2>3
<1>2. ASSUME NEW t \in Threads, Insert(t)
      PROVE  ~Pending(ip)' /\ expires'[ip] <= expires[ip]
  <2>1. job[t].ip # ip
    BY <1>2 DEF Insert
  <2>2. expires'[ip] = expires[ip]
    BY <1>0, <1>2, <2>1 DEF Insert
  <2>3. pc'[t] # "insert" /\ \A u \in Threads : u # t => pc'[u] = pc[u] /\ job'[u] = job[u]
    BY <1>2 DEF Insert, Steps
  <2> QED BY <1>0, <2>2, <2>3
<1>3. ASSUME NEW t \in Threads, Read(t) \/ Sync(t) \/ SyncFails(t) \/ LoadAfterUnban(t) \/ Save(t)
      PROVE  ~Pending(ip)' /\ expires'[ip] <= expires[ip]
  <2>1. UNCHANGED expires /\ pc'[t] # "insert"
    BY <1>3 DEF Read, Sync, SyncFails, Leave, LoadAfterUnban, Save, Steps
  <2>2. \A u \in Threads : u # t => pc'[u] = pc[u] /\ job'[u] = job[u]
    BY <1>3 DEF Read, Sync, SyncFails, Leave, LoadAfterUnban, Save
  <2> QED BY <1>0, <2>1, <2>2
<1>4. ASSUME NEW t \in Workers, NEW i \in IP, NEW yes \in BOOLEAN,
             Unban(t, i, yes) \/ Edit(t, i, yes)
      PROVE  ~Pending(ip)' /\ expires'[ip] <= expires[ip]
  <2>1. expires'[ip] \in {0, expires[ip]} /\ pc'[t] # "insert"
    BY <1>0, <1>4 DEF Unban, Edit, Delete, Steps
  <2>2. \A u \in Threads : u # t => pc'[u] = pc[u] /\ job'[u] = job[u]
    BY <1>4 DEF Unban, Edit
  <2> QED BY <1>0, <2>1, <2>2
<1>5. ASSUME Expire PROVE ~Pending(ip)' /\ expires'[ip] <= expires[ip]
  <2>1. expires'[ip] \in {0, expires[ip]} /\ pc'[Loop] # "insert" /\ UNCHANGED job
    BY <1>0, <1>5 DEF Expire, Delete, Steps
  <2>2. \A u \in Threads : u # Loop => pc'[u] = pc[u]
    BY <1>5 DEF Expire
  <2> QED BY <1>0, <2>1, <2>2
<1>6. ASSUME Ship \/ Tick \/ Restart \/ UNCHANGED vars
      PROVE  ~Pending(ip)' /\ expires'[ip] <= expires[ip]
  BY <1>0, <1>6 DEF Ship, Tick, Restart, memory, vars
<1> QED
  BY <1>1, <1>2, <1>3, <1>4, <1>5, <1>6 DEF Next

THEOREM AllowlistIsRespected == Spec => AllowlistRespected
<1>1. Inv /\ [Next]_vars =>
        [\A ip \in allow : ~Pending(ip) => ~Pending(ip)' /\ expires'[ip] <= expires[ip]]_vars
  BY AllowlistStep
<1> QED
  BY <1>1, InvHolds, PTL DEF Spec, AllowlistRespected

-----------------------------------------------------------------------------
(* The edge follows the table. *)

\* What makes EdgeFollowsTable inductive: a list on its way to the edge follows
\* the table unless its thread is late, and so does the edge when no list is.
EdgeInv ==
  /\ \A t \in Threads : pc[t] = "sync" /\ t \notin late => Follows(draft[t])
  /\ up /\ ~stale /\ (\A t \in Threads : pc[t] \notin {"read", "sync"}) => Follows(edge)

\* A list goes on following a table that changes only by bans running out.
LEMMA FollowsKept ==
  ASSUME TypeOK, now' \in Nat, now' >= now, expires' = expires,
         \A ip \in Rows : created'[ip] = created[ip],
         NEW list, Follows(list)
  PROVE  Follows(list)'
<1> USE DEF TypeOK
<1>1. Rows' = Rows
  BY DEF Rows
<1>2. Active' \subseteq Active
  BY DEF Active
<1>3. Active \subseteq Rows
  BY ActiveAreRows
<1> QED BY <1>1, <1>2, <1>3 DEF Follows

\* The list that a thread reads follows the table.
LEMMA TruncationFollows ==
  ASSUME TypeOK, NEW T \in Truncations(Active)
  PROVE  Follows(T)
<1>1. T \subseteq Rows
  BY TruncationsOfS, ActiveAreRows
<1>2. Cardinality(T) < MaxActive => Active \subseteq T
  BY BanStoreAssumption DEF Truncations
<1>3. \A b \in T, a \in Active \ T : created[b] >= created[a]
  BY DEF Truncations
<1> QED BY <1>1, <1>2, <1>3 DEF Follows

\* A step that changes neither the table nor the edge, nor who is publishing.
LEMMA EdgeInvKept ==
  ASSUME TypeOK, EdgeInv, now' \in Nat, now' >= now,
         UNCHANGED <<expires, edge, draft, late, stale, up>>,
         \A ip \in Rows : created'[ip] = created[ip],
         \A t \in Threads :
           pc'[t] = pc[t] \/ {pc[t], pc'[t]} \cap {"read", "sync"} = {}
  PROVE  EdgeInv'
<1>1. ASSUME NEW t \in Threads, pc'[t] = "sync", t \notin late'
      PROVE  Follows(draft[t])'
  <2>1. Follows(draft[t])
    BY <1>1 DEF EdgeInv
  <2> QED BY <2>1, FollowsKept
<1>2. ASSUME up', ~stale', \A t \in Threads : pc'[t] \notin {"read", "sync"}
      PROVE  Follows(edge)'
  <2>1. Follows(edge)
    BY <1>2 DEF EdgeInv
  <2> QED BY <2>1, FollowsKept
<1> QED BY <1>1, <1>2 DEF EdgeInv

\* A step of a thread that changes the table: every list on its way is late.
LEMMA EdgeInvOvertaken ==
  ASSUME EdgeInv, {u \in Threads : pc[u] = "sync"} \subseteq late',
         NEW t \in Threads, pc'[t] = "read", \A u \in Threads \ {t} : pc'[u] = pc[u]
  PROVE  EdgeInv'
BY DEF EdgeInv

LEMMA EdgeStep == Inv /\ EdgeInv /\ [Next]_vars => EdgeInv'
<1> SUFFICES ASSUME Inv, EdgeInv, [Next]_vars PROVE EdgeInv'
  OBVIOUS
<1> USE BanStoreAssumption DEF Inv, TypeOK, Threads
<1>0. now \in Nat /\ now' \in Nat /\ now' >= now
  <2>1. now' = now \/ now' = now + 1
    BY DEF Next, AddBegin, Insert, Read, Sync, SyncFails, Unban, Expire,
           LoadAfterUnban, Save, Edit, Ship, Tick, Restart, vars
  <2> QED BY <2>1
<1>1. ASSUME NEW t \in Threads, NEW ip \in IP, NEW ttl \in Ttls,
             NEW received \in BOOLEAN, AddBegin(t, ip, ttl, received)
      PROVE  EdgeInv'
  <2>1. \A u \in Threads : pc'[u] = pc[u] \/ {pc[u], pc'[u]} \cap {"read", "sync"} = {}
    BY <1>1 DEF AddBegin
  <2> QED BY <1>0, <1>1, <2>1, EdgeInvKept DEF AddBegin, history
<1>2. ASSUME NEW t \in Threads, Insert(t) PROVE EdgeInv'
  BY <1>2, EdgeInvOvertaken DEF Insert, Overtaken
<1>3. ASSUME NEW t \in Threads, Read(t) PROVE EdgeInv'
  <2>1. PICK T \in Truncations(Active) : draft' = [draft EXCEPT ![t] = T]
    BY <1>3 DEF Read, Listed
  <2>2. Follows(T)
    BY <2>1, TruncationFollows
  <2>3. \A S : Follows(S) => Follows(S)'
    BY <1>3 DEF Read, Follows, Rows, Active
  <2>4. ASSUME NEW u \in Threads, pc'[u] = "sync", u \notin late'
        PROVE  Follows(draft[u])'
    <3>1. CASE u = t
      <4>1. draft'[u] = T
        BY <2>1, <3>1
      <4> QED BY <2>2, <2>3, <4>1 DEF Follows
    <3>2. CASE u # t
      <4>1. draft'[u] = draft[u] /\ pc[u] = "sync" /\ u \notin late
        BY <1>3, <2>1, <2>4, <3>2 DEF Read
      <4>2. Follows(draft[u])
        BY <4>1 DEF EdgeInv
      <4> QED BY <2>3, <4>1, <4>2 DEF Follows
    <3> QED BY <3>1, <3>2
  <2>5. pc'[t] = "sync"
    BY <1>3 DEF Read
  <2> QED BY <2>4, <2>5 DEF EdgeInv
<1>4. ASSUME NEW t \in Threads, Sync(t) PROVE EdgeInv'
  <2>1. /\ pc[t] = "sync" /\ pc'[t] # "sync" /\ edge' = draft[t]
        /\ stale' = (t \in late) /\ late' = late \ {t}
        /\ UNCHANGED <<expires, created, now>>
        /\ \A u \in Threads \ {t} : pc'[u] = pc[u] /\ draft'[u] = draft[u]
    BY <1>4 DEF Sync, Leave
  <2>2. ASSUME NEW u \in Threads, pc'[u] = "sync", u \notin late'
        PROVE  Follows(draft[u])'
    <3>1. u # t /\ pc[u] = "sync" /\ u \notin late /\ draft'[u] = draft[u]
      BY <2>1, <2>2
    <3>2. Follows(draft[u])
      BY <3>1 DEF EdgeInv
    <3> QED BY <2>1, <3>1, <3>2 DEF Follows, Rows, Active
  <2>3. ASSUME ~stale' PROVE Follows(edge)'
    <3>1. Follows(draft[t])
      BY <2>1, <2>3 DEF EdgeInv
    <3> QED BY <2>1, <3>1 DEF Follows, Rows, Active
  <2> QED BY <2>2, <2>3 DEF EdgeInv
<1>5. ASSUME NEW t \in Threads, SyncFails(t) PROVE EdgeInv'
  <2>1. /\ pc'[t] # "sync" /\ stale' /\ late' = late \ {t}
        /\ UNCHANGED <<expires, created, now>>
        /\ \A u \in Threads \ {t} : pc'[u] = pc[u] /\ draft'[u] = draft[u]
    BY <1>5 DEF SyncFails, Leave
  <2>2. ASSUME NEW u \in Threads, pc'[u] = "sync", u \notin late'
        PROVE  Follows(draft[u])'
    <3>1. u # t /\ pc[u] = "sync" /\ u \notin late /\ draft'[u] = draft[u]
      BY <2>1, <2>2
    <3>2. Follows(draft[u])
      BY <3>1 DEF EdgeInv
    <3> QED BY <2>1, <3>1, <3>2 DEF Follows, Rows, Active
  <2> QED BY <2>1, <2>2 DEF EdgeInv
<1>6. ASSUME NEW t \in Workers, NEW ip \in IP, NEW never \in BOOLEAN,
             Unban(t, ip, never)
      PROVE  EdgeInv'
  <2>1. CASE ip \in Rows
    BY <1>6, <2>1, EdgeInvOvertaken DEF Unban, Delete, Overtaken
  <2>2. CASE ip \notin Rows
    <3>1. expires' = expires
      BY <1>6, <2>2 DEF Unban, Delete, Rows
    <3>2. late' = late
      BY <1>6, <2>2 DEF Unban, Delete
    <3>3. \A u \in Threads : pc'[u] = pc[u] \/ {pc[u], pc'[u]} \cap {"read", "sync"} = {}
      BY <1>6, <2>2 DEF Unban
    <3>4. \A r \in Rows : created'[r] = created[r]
      BY <1>6, <2>2 DEF Unban, Delete, Rows
    <3> QED BY <1>0, <1>6, <3>1, <3>2, <3>3, <3>4, EdgeInvKept DEF Unban
  <2> QED BY <2>1, <2>2
<1>7. ASSUME Expire PROVE EdgeInv'
  <2>1. pc'[Loop] = "read" /\ \A u \in Threads \ {Loop} : pc'[u] = pc[u]
    BY <1>7 DEF Expire
  <2>2. CASE (Rows \ Active) \cap Rows # {}
    BY <1>7, <2>1, <2>2, EdgeInvOvertaken DEF Expire, Delete, Overtaken
  <2>3. CASE (Rows \ Active) \cap Rows = {}
    <3>1. UNCHANGED <<late, draft, now, expires>>
      BY <1>7, <2>3 DEF Expire, Delete, Rows
    <3>2. \A r \in Rows : created'[r] = created[r]
      BY <1>7, <2>3 DEF Expire, Delete, Rows
    <3>3. ASSUME NEW u \in Threads, pc'[u] = "sync", u \notin late'
          PROVE  Follows(draft[u])'
      <4>1. u # Loop /\ pc[u] = "sync" /\ u \notin late
        BY <2>1, <3>1, <3>3
      <4>2. Follows(draft[u])
        BY <4>1 DEF EdgeInv
      <4> QED BY <1>0, <3>1, <3>2, <4>2, FollowsKept
    <3> QED BY <2>1, <3>3 DEF EdgeInv
  <2> QED BY <2>2, <2>3
<1>8. ASSUME NEW t \in Workers, LoadAfterUnban(t) \/ Save(t) PROVE EdgeInv'
  <2>1. \A u \in Threads : pc'[u] = pc[u] \/ {pc[u], pc'[u]} \cap {"read", "sync"} = {}
    BY <1>8 DEF LoadAfterUnban, Save
  <2> QED BY <1>0, <1>8, <2>1, EdgeInvKept DEF LoadAfterUnban, Save, history
<1>9. ASSUME NEW t \in Workers, NEW ip \in IP, NEW yes \in BOOLEAN, Edit(t, ip, yes)
      PROVE  EdgeInv'
  <2>1. \A u \in Threads : pc'[u] = pc[u] \/ {pc[u], pc'[u]} \cap {"read", "sync"} = {}
    BY <1>9 DEF Edit
  <2> QED BY <1>0, <1>9, <2>1, EdgeInvKept DEF Edit, history
<1>10. ASSUME Ship \/ Tick \/ UNCHANGED vars PROVE EdgeInv'
  BY <1>0, <1>10, EdgeInvKept DEF Ship, Tick, vars, memory, history
<1>11. ASSUME Restart PROVE EdgeInv'
  BY <1>11 DEF Restart, EdgeInv
<1> QED
  BY <1>1, <1>2, <1>3, <1>4, <1>5, <1>6, <1>7, <1>8, <1>9, <1>10, <1>11 DEF Next

\* Between calls the edge denies what the table says, over any interleaving of any
\* number of threads in which the last write was not overtaken or lost.
THEOREM EdgeIsCurrent == Spec => []EdgeFollowsTable
<1>1. Init => EdgeInv
  BY DEF Init, EdgeInv
<1>2. EdgeInv => EdgeFollowsTable
  BY DEF EdgeInv, EdgeFollowsTable
<1> QED
  BY <1>1, <1>2, EdgeStep, InvHolds, PTL DEF Spec

-----------------------------------------------------------------------------
(* The node implements the abstract ban list. *)

Drafts == {draft[t] : t \in {u \in Threads : pc[u] = "sync"}}

LEMMA InitRefines == Init => Published!Init
BY DEF Init, Published!Init, Active

\* A step that leaves the unexpired bans, the edge and the drafts alone.
LEMMA Stutters ==
  ASSUME Active' = Active, edge' = edge, Drafts' = Drafts
  PROVE  UNCHANGED Published!vars
BY DEF Published!vars, Drafts

\* A step of one thread that neither starts nor ends a publication.
LEMMA DraftsKept ==
  ASSUME TypeOK, NEW t \in Threads, pc[t] # "sync", pc'[t] # "sync", UNCHANGED draft,
         \A u \in Threads \ {t} : pc'[u] = pc[u]
  PROVE  Drafts' = Drafts
BY DEF Drafts

LEMMA StepRefines == Inv /\ [Next]_vars => [Published!Next]_(Published!vars)
<1> SUFFICES ASSUME Inv, [Next]_vars PROVE [Published!Next]_(Published!vars)
  OBVIOUS
<1> USE BanStoreAssumption DEF Inv, TypeOK, Threads
<1>1. ASSUME NEW t \in Threads, NEW ip \in IP, NEW ttl \in Ttls,
             NEW received \in BOOLEAN, AddBegin(t, ip, ttl, received)
      PROVE  UNCHANGED Published!vars
  <2>1. Drafts' = Drafts
    BY <1>1, DraftsKept DEF AddBegin
  <2> QED BY <1>1, <2>1, Stutters DEF AddBegin, Active
<1>2. ASSUME NEW t \in Threads, Insert(t)
      PROVE  Published!Next
  <2>1. Drafts' = Drafts
    BY <1>2, DraftsKept DEF Insert
  <2>2. job[t].ip \in IP \ Protected
    BY <1>2 DEF Insert, JobsAreSafe
  <2>3. CASE job[t].expires > now
    <3>1. Active' = Active \cup {job[t].ip}
      BY <1>2, <2>2, <2>3 DEF Insert, Active, Jobs
    <3>2. Published!Ban(job[t].ip)
      BY <1>2, <2>1, <2>2, <3>1 DEF Insert, Published!Ban, Drafts
    <3> QED BY <2>2, <3>2 DEF Published!Next
  <2>4. CASE ~(job[t].expires > now)
    <3>1. Active' = Active \ {job[t].ip}
      BY <1>2, <2>2, <2>4 DEF Insert, Active, Jobs
    <3>2. Published!Lift({job[t].ip})
      BY <1>2, <2>1, <3>1 DEF Insert, Published!Lift, Drafts
    <3> QED BY <2>2, <3>2 DEF Published!Next
  <2> QED BY <2>3, <2>4
<1>3. ASSUME NEW t \in Threads, Read(t)
      PROVE  Published!Next
  <2>1. PICK T \in Truncations(Active) : draft' = [draft EXCEPT ![t] = T]
    BY <1>3 DEF Read, Listed
  <2>2. T \subseteq Active /\ T \in SUBSET IP /\ Cardinality(T) <= MaxActive
    BY <2>1, TruncationsOfS, RowsInIP
  <2>3. Drafts' = Drafts \cup {T}
    BY <1>3, <2>1 DEF Read, Drafts
  <2>4. Active' = Active /\ edge' = edge
    BY <1>3 DEF Read, Active
  <2>5. Published!Draft(T)
    BY <2>2, <2>3, <2>4 DEF Published!Draft, Drafts
  <2> QED BY <2>2, <2>5 DEF Published!Next
<1>4. ASSUME NEW t \in Threads, Sync(t)
      PROVE  Published!Next
  <2>1. PICK d \in SUBSET IP : d = draft[t]
    OBVIOUS
  <2>2. /\ \A u \in Threads : u # t => pc'[u] = pc[u] /\ draft'[u] = draft[u]
        /\ pc[t] = "sync" /\ pc'[t] # "sync"
    BY <1>4 DEF Sync, Leave
  <2>3. Drafts' \in {Drafts, Drafts \ {d}}
    <3>1. CASE \E u \in Threads \ {t} : pc[u] = "sync" /\ draft[u] = d
      <4>1. Drafts' = Drafts
        BY <2>1, <2>2, <3>1 DEF Drafts
      <4> QED BY <4>1
    <3>2. CASE ~\E u \in Threads \ {t} : pc[u] = "sync" /\ draft[u] = d
      <4>1. Drafts' = Drafts \ {d}
        BY <2>1, <2>2, <3>2 DEF Drafts
      <4> QED BY <4>1
    <3> QED BY <3>1, <3>2
  <2>4. d \in Drafts /\ Active' = Active /\ edge' = d
    BY <1>4, <2>1, <2>2 DEF Sync, Active, Drafts
  <2>5. Published!Publish(d)
    BY <2>3, <2>4 DEF Published!Publish, Drafts
  <2> QED BY <2>5 DEF Published!Next
<1>5. ASSUME NEW t \in Threads, SyncFails(t)
      PROVE  Published!Next
  <2>1. /\ \A u \in Threads : u # t => pc'[u] = pc[u] /\ draft'[u] = draft[u]
        /\ pc'[t] # "sync"
    BY <1>5 DEF SyncFails, Leave
  <2>2. Drafts' \subseteq Drafts
    BY <2>1 DEF Drafts
  <2>3. Active' = Active /\ edge' = edge
    BY <1>5 DEF SyncFails, Active
  <2>4. Published!Abandon
    BY <2>2, <2>3 DEF Published!Abandon, Drafts
  <2> QED BY <2>4 DEF Published!Next
<1>6. ASSUME NEW t \in Workers, NEW ip \in IP, NEW never \in BOOLEAN,
             Unban(t, ip, never)
      PROVE  Published!Next
  <2>1. Drafts' = Drafts
    BY <1>6, DraftsKept DEF Unban
  <2>2. Active' = Active \ {ip} /\ edge' = edge
    BY <1>6 DEF Unban, Delete, Active
  <2>3. Published!Lift({ip})
    BY <2>1, <2>2 DEF Published!Lift, Drafts
  <2> QED BY <2>3 DEF Published!Next
<1>7. ASSUME Expire PROVE UNCHANGED Published!vars
  <2>1. Drafts' = Drafts
    BY <1>7, DraftsKept DEF Expire
  <2>2. Active' = Active
    BY <1>7 DEF Expire, Delete, Overtaken, Active, Rows
  <2> QED BY <1>7, <2>1, <2>2, Stutters DEF Expire
<1>8. ASSUME NEW t \in Workers, LoadAfterUnban(t) \/ Save(t)
      PROVE  UNCHANGED Published!vars
  <2>1. Drafts' = Drafts
    <3>1. pc[t] # "sync" /\ pc'[t] # "sync" /\ UNCHANGED draft
      BY <1>8 DEF LoadAfterUnban, Save, Steps
    <3>2. \A u \in Threads \ {t} : pc'[u] = pc[u]
      BY <1>8 DEF LoadAfterUnban, Save
    <3> QED BY <3>1, <3>2, DraftsKept
  <2>2. UNCHANGED <<expires, now, edge>>
    BY <1>8 DEF LoadAfterUnban, Save
  <2> QED BY <2>1, <2>2, Stutters DEF Active
<1>9. ASSUME NEW t \in Workers, NEW ip \in IP, NEW add \in BOOLEAN, Edit(t, ip, add)
      PROVE  UNCHANGED Published!vars
  <2>1. Drafts' = Drafts
    BY <1>9, DraftsKept DEF Edit
  <2> QED BY <1>9, <2>1, Stutters DEF Edit, Active
<1>10. CASE Ship
  BY <1>10, Stutters DEF Ship, memory, Active, Drafts
<1>11. ASSUME Tick PROVE Published!Next
  <2>1. Active' = Active \ {ip \in IP : expires[ip] = now + 1}
    BY <1>11 DEF Tick, Active
  <2>2. Drafts' = Drafts /\ edge' = edge
    BY <1>11 DEF Tick, memory, Drafts
  <2>3. Published!Lift({ip \in IP : expires[ip] = now + 1})
    BY <2>1, <2>2 DEF Published!Lift, Drafts
  <2> QED BY <2>3 DEF Published!Next
<1>12. ASSUME Restart PROVE Published!Next
  <2>1. Drafts' = {} /\ Active' = Active /\ edge' = edge
    BY <1>12 DEF Restart, Drafts, Active
  <2>2. Published!Abandon
    BY <2>1 DEF Published!Abandon, Drafts
  <2> QED BY <2>2 DEF Published!Next
<1>13. CASE UNCHANGED vars
  BY <1>13, Stutters DEF vars, memory, Active, Drafts
<1> QED
  BY <1>1, <1>2, <1>3, <1>4, <1>5, <1>6, <1>7, <1>8, <1>9, <1>10, <1>11, <1>12,
     <1>13 DEF Next

\* Whatever the edge denies was, as a whole and within the actuator's limit, a
\* part of the ban list at some moment of its publication.
THEOREM ImplementsBanList == Spec => PublishesTheBanList
BY InitRefines, StepRefines, InvHolds, PTL DEF Spec, PublishesTheBanList, Published!Spec

-----------------------------------------------------------------------------
(* Entries stay in the allowlist, if its edits come one at a time. *)

\* No two requests are between the load and the replacement of the file.  The code
\* has no lock that sees to it.
OneEditor ==
  \A t, u \in Workers : pc[t] = "save" /\ pc[u] = "save" => t = u

\* The copy a thread is about to save is the file with its one edit, and the edit
\* that follows an unban adds.
EditsAreCurrent ==
  \A t \in Workers :
    /\ pc[t] = "load" => job[t].then = "allow"
    /\ pc[t] = "save" =>
         \/ job[t].then = "allow" /\ copy[t] = allow \cup {job[t].ip}
         \/ job[t].then = "done" /\ copy[t] = allow \ {job[t].ip}

\* A step of one thread that neither saves nor begins an edit.
LEMMA EditsKept ==
  ASSUME EditsAreCurrent, NEW t \in Threads, UNCHANGED allow,
         \A u \in Threads \ {t} : pc'[u] = pc[u] /\ job'[u] = job[u] /\ copy'[u] = copy[u],
         pc'[t] # "save", pc'[t] = "load" => job'[t].then = "allow"
  PROVE  EditsAreCurrent'
BY DEF EditsAreCurrent, Threads

\* A step of one thread that begins an edit.
LEMMA EditBegins ==
  ASSUME EditsAreCurrent, NEW t \in Threads, UNCHANGED allow,
         \A u \in Threads \ {t} : pc'[u] = pc[u] /\ job'[u] = job[u] /\ copy'[u] = copy[u],
         pc'[t] = "save",
         \/ job'[t].then = "allow" /\ copy'[t] = allow \cup {job'[t].ip}
         \/ job'[t].then = "done" /\ copy'[t] = allow \ {job'[t].ip}
  PROVE  EditsAreCurrent'
BY DEF EditsAreCurrent, Threads

LEMMA EditStep == Inv /\ OneEditor /\ EditsAreCurrent /\ [Next]_vars => EditsAreCurrent'
<1> SUFFICES ASSUME Inv, OneEditor, EditsAreCurrent, [Next]_vars PROVE EditsAreCurrent'
  OBVIOUS
<1>0. /\ pc \in [Threads -> Steps] /\ job \in [Threads -> Jobs]
      /\ copy \in [Threads -> SUBSET IP] /\ Workers \subseteq Threads /\ Loop \in Threads
  BY DEF Inv, TypeOK, Threads
<1>1. ASSUME NEW t \in Threads, NEW ip \in IP, NEW ttl \in Ttls,
             NEW received \in BOOLEAN, AddBegin(t, ip, ttl, received)
      PROVE  EditsAreCurrent'
  BY <1>0, <1>1, EditsKept DEF AddBegin
<1>2. ASSUME NEW t \in Threads, Insert(t) \/ Read(t) PROVE EditsAreCurrent'
  <2>1. /\ \A u \in Threads \ {t} : pc'[u] = pc[u] /\ job'[u] = job[u] /\ copy'[u] = copy[u]
        /\ pc'[t] \in {"read", "sync"} /\ UNCHANGED allow
    BY <1>0, <1>2 DEF Insert, Read
  <2> QED BY <2>1, EditsKept
<1>3. ASSUME NEW t \in Threads, Sync(t) \/ SyncFails(t) PROVE EditsAreCurrent'
  <2>1. /\ \A u \in Threads \ {t} : pc'[u] = pc[u] /\ job'[u] = job[u] /\ copy'[u] = copy[u]
        /\ pc'[t] \in {"idle", "load"} /\ UNCHANGED allow
        /\ pc'[t] = "load" => job'[t].then = "allow"
    BY <1>0, <1>3 DEF Sync, SyncFails, Leave
  <2> QED BY <2>1, EditsKept
<1>4. ASSUME NEW t \in Workers, NEW ip \in IP, NEW never \in BOOLEAN, Unban(t, ip, never)
      PROVE  EditsAreCurrent'
  <2>1. /\ \A u \in Threads \ {t} : pc'[u] = pc[u] /\ job'[u] = job[u] /\ copy'[u] = copy[u]
        /\ pc'[t] \in {"read", "load"} /\ UNCHANGED allow
        /\ pc'[t] = "load" => ip \notin Rows
        /\ job'[t] = JobFor(ip, IF never THEN "allow" ELSE "done")
        /\ ip \in Rows \/ never
    BY <1>0, <1>4 DEF Unban
  <2>2. pc'[t] = "load" => job'[t].then = "allow"
    BY <2>1 DEF JobFor, NoJob
  <2> QED BY <1>0, <2>1, <2>2, EditsKept
<1>5. ASSUME Expire PROVE EditsAreCurrent'
  BY <1>0, <1>5, EditsKept DEF Expire
<1>6. ASSUME NEW t \in Workers, LoadAfterUnban(t) PROVE EditsAreCurrent'
  <2>1. /\ \A u \in Threads \ {t} : pc'[u] = pc[u] /\ job'[u] = job[u] /\ copy'[u] = copy[u]
        /\ UNCHANGED allow
    BY <1>0, <1>6 DEF LoadAfterUnban
  <2>2. job[t].then = "allow"
    BY <1>6 DEF LoadAfterUnban, EditsAreCurrent
  <2>3. CASE job[t].ip \in allow
    <3>1. pc'[t] = "idle"
      BY <1>0, <1>6, <2>3 DEF LoadAfterUnban
    <3> QED BY <1>0, <2>1, <3>1, EditsKept
  <2>4. CASE job[t].ip \notin allow
    <3>1. /\ pc'[t] = "save" /\ job'[t] = job[t]
          /\ copy'[t] = allow \cup {job[t].ip}
      BY <1>0, <1>6, <2>4 DEF LoadAfterUnban, Edited
    <3> QED BY <1>0, <2>1, <2>2, <3>1, EditBegins
  <2> QED BY <2>3, <2>4
<1>7. ASSUME NEW t \in Workers, NEW ip \in IP, NEW add \in BOOLEAN, Edit(t, ip, add)
      PROVE  EditsAreCurrent'
  <2>1. /\ \A u \in Threads \ {t} : pc'[u] = pc[u] /\ job'[u] = job[u] /\ copy'[u] = copy[u]
        /\ UNCHANGED allow /\ pc'[t] = "save" /\ copy'[t] = Edited(ip, add)
        /\ job'[t] = JobFor(ip, IF add THEN "allow" ELSE "done")
    BY <1>0, <1>7 DEF Edit
  <2>2. job'[t].ip = ip /\ job'[t].then = IF add THEN "allow" ELSE "done"
    BY <2>1 DEF JobFor, NoJob
  <2>3. \/ job'[t].then = "allow" /\ copy'[t] = allow \cup {job'[t].ip}
        \/ job'[t].then = "done" /\ copy'[t] = allow \ {job'[t].ip}
    BY <2>1, <2>2 DEF Edited
  <2> QED BY <1>0, <2>1, <2>3, EditBegins
<1>8. ASSUME NEW t \in Workers, Save(t) PROVE EditsAreCurrent'
  <2>1. /\ \A u \in Threads \ {t} : pc'[u] = pc[u] /\ job'[u] = job[u] /\ copy'[u] = copy[u]
        /\ pc'[t] = "idle"
    BY <1>0, <1>8 DEF Save
  <2>2. \A u \in Workers \ {t} : pc'[u] # "save"
    BY <1>0, <1>8, <2>1 DEF Save, OneEditor
  <2> QED BY <1>0, <2>1, <2>2 DEF EditsAreCurrent
<1>9. ASSUME Restart PROVE EditsAreCurrent'
  BY <1>0, <1>9 DEF Restart, EditsAreCurrent
<1>10. ASSUME Ship \/ Tick \/ UNCHANGED vars PROVE EditsAreCurrent'
  BY <1>10 DEF Ship, Tick, vars, memory, EditsAreCurrent
<1> QED
  BY <1>1, <1>2, <1>3, <1>4, <1>5, <1>6, <1>7, <1>8, <1>9, <1>10 DEF Next

\* In a pool of any size, as long as no two edits overlap, an entry of the
\* allowlist goes only when a request removes it (allowlist.add, allowlist.remove):
\* the missing lock is the only way to lose one.
THEOREM SerialEditsKeepEntries == Spec /\ []OneEditor => AllowlistKeepsEntries
<1>1. Init => EditsAreCurrent
  BY DEF Init, EditsAreCurrent, Threads
<1>2. Inv /\ EditsAreCurrent /\ [Next]_vars =>
        [\A ip \in allow \ allow' :
           \E t \in Workers : pc[t] = "save" /\ job[t].ip = ip /\ job[t].then = "done"]_vars
  <2> SUFFICES ASSUME EditsAreCurrent, Next, NEW ip \in allow \ allow'
               PROVE  \E t \in Workers :
                        pc[t] = "save" /\ job[t].ip = ip /\ job[t].then = "done"
    BY DEF vars
  <2>1. PICK t \in Workers : Save(t)
    BY DEF Next, AddBegin, Insert, Read, Sync, SyncFails, Unban, Expire, LoadAfterUnban, Edit,
           Ship, Tick, Restart
  <2>2. ip \notin copy[t] /\ pc[t] = "save"
    BY <2>1 DEF Save
  <2> QED BY <2>2 DEF EditsAreCurrent
<1> QED
  BY <1>1, <1>2, EditStep, InvHolds, PTL DEF Spec, AllowlistKeepsEntries

\* With one pool thread, as the run has it, nothing can overlap.
COROLLARY OneWorkerKeepsEntries ==
  ASSUME \A t, u \in Workers : t = u
  PROVE  Spec => AllowlistKeepsEntries
<1>1. OneEditor
  BY DEF OneEditor
<1> QED
  BY <1>1, SerialEditsKeepEntries, PTL
=============================================================================
