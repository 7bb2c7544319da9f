----------------------------- MODULE BanStore ------------------------------
(***************************************************************************)
(* The ban list of one secwatch node: the bans table of the SQLite file,   *)
(* the edge actuator that enforces it (ban.py, banactuators.py) and the    *)
(* never-ban allowlist file that guards it (allowlist.py).                 *)
(*                                                                         *)
(* Two kinds of threads run this code in the web process.  The event loop  *)
(* bans for the detection engine, for the cluster and for the community    *)
(* list, and expires old bans at startup and from the maintenance task.    *)
(* The endpoints /api/ban, /api/unban and /api/allowlist are plain         *)
(* functions, so each call runs on a thread of the server's pool, beside   *)
(* the loop.  A thread is cut at every point where another one can come    *)
(* between: a committed SQL statement, the query that lists the active     *)
(* bans, the replacement of the edge's file, the reading and the           *)
(* replacement of the allowlist file.                                      *)
(***************************************************************************)
EXTENDS FiniteSets, Integers

CONSTANTS
  IP,          \* addresses, all of them valid
  Protected,   \* those in network.trusted_nets or ban.exempt_nets
  Loop,        \* the thread of the event loop
  Workers,     \* the threads of the server's pool
  Ttls,        \* lifetimes a ban may be given
  MaxActive,   \* BAN_MAX_ACTIVE
  MaxTime,     \* bound of the clock
  NoIP         \* no address

ASSUME BanStoreAssumption ==
  /\ IsFiniteSet(IP)
  /\ Protected \subseteq IP
  /\ NoIP \notin IP
  /\ Loop \notin Workers
  /\ Ttls \subseteq Nat \ {0}
  /\ MaxActive \in Nat \ {0}
  /\ MaxTime \in Nat \ {0}

VARIABLES
  expires,     \* expires[ip]: end of the ban of ip, 0 when it has no row
  created,     \* created[ip]: when that row was inserted, 0 without a row
  edge,        \* the addresses the edge denies
  allow,       \* the content of the allowlist file
  outbox,      \* addresses queued for the cluster and the community
  up,          \* the server answers requests (startup is over)
  now,         \* the clock, from 1
  pc,          \* pc[t]: the next step of thread t
  job,         \* job[t]: what t is doing
  draft,       \* draft[t]: the list of active bans t has read
  copy,        \* copy[t]: the allowlist t has read and edited
  late,        \* the threads whose draft is older than the table, and
  stale        \* the last call of the actuator failed or came from such a
               \* thread (history variables)

memory == <<pc, job, draft, copy>>
history == <<late, stale>>
vars == <<expires, created, edge, allow, outbox, up, now, memory, history>>

Threads == {Loop} \cup Workers
Steps == {"idle", "insert", "read", "sync", "load", "save"}
Afters == {"done", "share", "allow"}
Jobs == [ip : IP \cup {NoIP}, expires : Nat, created : Nat, then : Afters]
NoJob == [ip |-> NoIP, expires |-> 0, created |-> 0, then |-> "done"]
JobFor(ip, then) == [NoJob EXCEPT !.ip = ip, !.then = then]

Rows == {ip \in IP : expires[ip] # 0}
Active == {ip \in IP : expires[ip] > now}

\* A variant with the order of the query turned round.
OldestFirst(S) ==
  {T \in SUBSET S :
     /\ Cardinality(T) <= MaxActive
     /\ T # S => Cardinality(T) = MaxActive
     /\ \A a \in T, b \in S \ T : created[a] <= created[b]}

\* sync() keeps the first MaxActive rows of active(), which lists the newest
\* ban first; rows of the same instant come in any order.
Truncations(S) ==
  {T \in SUBSET S :
     /\ Cardinality(T) <= MaxActive
     /\ T # S => Cardinality(T) = MaxActive
     /\ \A a \in T, b \in S \ T : created[a] >= created[b]}

TypeOK ==
  /\ expires \in [IP -> Nat]
  /\ created \in [IP -> Nat]
  /\ edge \in SUBSET IP
  /\ allow \in SUBSET IP
  /\ outbox \in SUBSET IP
  /\ up \in BOOLEAN
  /\ now \in 1 .. MaxTime
  /\ pc \in [Threads -> Steps]
  /\ job \in [Threads -> Jobs]
  /\ draft \in [Threads -> SUBSET IP]
  /\ copy \in [Threads -> SUBSET IP]
  /\ late \in SUBSET Threads
  /\ stale \in BOOLEAN

Init ==
  /\ expires = [ip \in IP |-> 0]
  /\ created = [ip \in IP |-> 0]
  /\ edge = {} /\ allow = {} /\ outbox = {}
  /\ up = FALSE
  /\ now = 1
  /\ pc = [t \in Threads |-> "idle"]
  /\ job = [t \in Threads |-> NoJob]
  /\ draft = [t \in Threads |-> {}]
  /\ copy = [t \in Threads |-> {}]
  /\ late = {} /\ stale = FALSE

-----------------------------------------------------------------------------
(* Banning *)

\* Variants with one of the two checks missing, and with a lost clock.
RefusedByAllowlist(ip) == ip \in allow
RefusedByTrust(ip) == ip \in Protected
TtlAsAge(ttl) == 0 - ttl

\* The end of a ban that starts now.
EndOfBan(ttl) == now + ttl

\* The addresses add() refuses to ban.
Refused(ip) == ip \in Protected \/ ip \in allow

\* add() up to its INSERT: the checks, then the clock.  A ban received from
\* a peer or from the community is not shared again; only the loop receives.
AddBegin(t, ip, ttl, received) ==
  /\ up /\ pc[t] = "idle"
  /\ received => t = Loop
  /\ ~Refused(ip)
  /\ pc' = [pc EXCEPT ![t] = "insert"]
  /\ job' = [job EXCEPT ![t] =
               [ip |-> ip, expires |-> EndOfBan(ttl), created |-> now,
                then |-> IF received THEN "done" ELSE "share"]]
  /\ UNCHANGED <<expires, created, edge, allow, outbox, up, now, draft, copy, history>>

\* The threads behind the table once it changes.
Overtaken == late \cup {t \in Threads : pc[t] = "sync"}

\* INSERT ... ON CONFLICT DO UPDATE keeps the created time of an old row.
Insert(t) ==
  /\ pc[t] = "insert"
  /\ LET ip == job[t].ip IN
       /\ expires' = [expires EXCEPT ![ip] = job[t].expires]
       /\ created' = [created EXCEPT ![ip] = IF expires[ip] = 0
                                             THEN job[t].created ELSE @]
  /\ pc' = [pc EXCEPT ![t] = "read"]
  /\ job' = [job EXCEPT ![t].expires = 0, ![t].created = 0]
  /\ late' = Overtaken
  /\ UNCHANGED <<edge, allow, outbox, up, now, draft, copy, stale>>

\* A variant that adds the address to what the edge already denies.
Incremental(t) == {edge \cup ({job[t].ip} \ {NoIP})}

\* write_file() reads the unexpired bans ...
Listed(t) == Truncations(Active)

Read(t) ==
  /\ pc[t] = "read"
  /\ \E T \in Listed(t) : draft' = [draft EXCEPT ![t] = T]
  /\ pc' = [pc EXCEPT ![t] = "sync"]
  /\ late' = late \ {t}
  /\ UNCHANGED <<expires, created, edge, allow, outbox, up, now, job, copy, stale>>

\* ... and hands them to the actuator, which may fail and only logs it.  Then
\* add() queues its own ban for the peers, and /api/unban edits the allowlist.
\* The write that ends the startup opens the server.
Leave(t) ==
  /\ up' = TRUE
  /\ late' = late \ {t}
  /\ draft' = [draft EXCEPT ![t] = {}]
  /\ outbox' = IF job[t].then = "share" THEN outbox \cup {job[t].ip} ELSE outbox
  /\ IF job[t].then = "allow"
     THEN pc' = [pc EXCEPT ![t] = "load"] /\ UNCHANGED job
     ELSE pc' = [pc EXCEPT ![t] = "idle"] /\ job' = [job EXCEPT ![t] = NoJob]

Sync(t) ==
  /\ pc[t] = "sync"
  /\ edge' = draft[t]
  /\ stale' = (t \in late)
  /\ Leave(t)
  /\ UNCHANGED <<expires, created, allow, now, copy>>

SyncFails(t) ==
  /\ pc[t] = "sync"
  /\ stale' = TRUE
  /\ Leave(t)
  /\ UNCHANGED <<expires, created, edge, allow, now, copy>>

-----------------------------------------------------------------------------
(* Lifting bans *)

Delete(gone) ==
  /\ late' = IF gone \cap Rows = {} THEN late ELSE Overtaken
  /\ expires' = [ip \in IP |-> IF ip \in gone THEN 0 ELSE expires[ip]]
  /\ created' = [ip \in IP |-> IF ip \in gone THEN 0 ELSE created[ip]]

\* remove(), and the allowlisting /api/unban may be asked to do afterwards.
\* The edge is rewritten only when a row was deleted.
Unban(t, ip, never) ==
  /\ up /\ pc[t] = "idle" /\ t \in Workers
  /\ ip \in Rows \/ never
  /\ Delete({ip})
  /\ pc' = [pc EXCEPT ![t] = IF ip \in Rows THEN "read" ELSE "load"]
  /\ job' = [job EXCEPT ![t] = JobFor(ip, IF never THEN "allow" ELSE "done")]
  /\ UNCHANGED <<edge, allow, outbox, up, now, draft, copy, stale>>

\* A variant that, like remove(), writes the edge only when a row went.
ExpireWhenNeeded ==
  /\ pc[Loop] = "idle"
  /\ Delete(Rows \ Active)
  /\ pc' = [pc EXCEPT ![Loop] = IF up /\ Rows = Active THEN "idle" ELSE "read"]
  /\ UNCHANGED <<edge, allow, outbox, up, now, job, draft, copy, stale>>

\* expire_and_sync(), from the lifespan before the server opens and from the
\* maintenance task; it writes the edge whether or not a ban expired.
Expire ==
  /\ pc[Loop] = "idle"
  /\ Delete(Rows \ Active)
  /\ pc' = [pc EXCEPT ![Loop] = "read"]
  /\ UNCHANGED <<edge, allow, outbox, up, now, job, draft, copy, stale>>

-----------------------------------------------------------------------------
(* The allowlist file: load, edit, replace *)

\* A variant whose edit forgets the entries it has read.
EditAlone(ip, add) == IF add THEN {ip} ELSE {}

\* The entries as edited by allowlist.add and allowlist.remove.
Edited(ip, add) == IF add THEN allow \cup {ip} ELSE allow \ {ip}

\* The tail of /api/unban: allowlist.add() does nothing for an entry it finds.
LoadAfterUnban(t) ==
  /\ pc[t] = "load"
  /\ IF job[t].ip \in allow
     THEN /\ pc' = [pc EXCEPT ![t] = "idle"]
          /\ job' = [job EXCEPT ![t] = NoJob]
          /\ UNCHANGED copy
     ELSE /\ pc' = [pc EXCEPT ![t] = "save"]
          /\ copy' = [copy EXCEPT ![t] = Edited(job[t].ip, TRUE)]
          /\ UNCHANGED job
  /\ UNCHANGED <<expires, created, edge, allow, outbox, up, now, draft, history>>

\* /api/allowlist, and the button of the address page: add or remove an entry.
Edit(t, ip, add) ==
  /\ up /\ pc[t] = "idle" /\ t \in Workers
  /\ add => ip \notin allow
  /\ pc' = [pc EXCEPT ![t] = "save"]
  /\ copy' = [copy EXCEPT ![t] = Edited(ip, add)]
  /\ job' = [job EXCEPT ![t] = JobFor(ip, IF add THEN "allow" ELSE "done")]
  /\ UNCHANGED <<expires, created, edge, allow, outbox, up, now, draft, history>>

Save(t) ==
  /\ pc[t] = "save"
  /\ allow' = copy[t]
  /\ copy' = [copy EXCEPT ![t] = {}]
  /\ pc' = [pc EXCEPT ![t] = "idle"]
  /\ job' = [job EXCEPT ![t] = NoJob]
  /\ UNCHANGED <<expires, created, edge, outbox, up, now, draft, history>>

-----------------------------------------------------------------------------
(* The world *)

\* The gossip and crowd tasks take what is queued.
Ship ==
  /\ outbox # {}
  /\ outbox' = {}
  /\ UNCHANGED <<expires, created, edge, allow, up, now, memory, history>>

Tick ==
  /\ now < MaxTime
  /\ now' = now + 1
  /\ UNCHANGED <<expires, created, edge, allow, outbox, up, memory, history>>

\* A crash and a restart: the table and the files survive.
Restart ==
  /\ up
  /\ up' = FALSE
  /\ outbox' = {}
  /\ pc' = [t \in Threads |-> "idle"]
  /\ job' = [t \in Threads |-> NoJob]
  /\ draft' = [t \in Threads |-> {}]
  /\ copy' = [t \in Threads |-> {}]
  /\ late' = {}
  /\ UNCHANGED <<expires, created, edge, allow, now, stale>>

Next ==
  \/ \E t \in Threads, ip \in IP, ttl \in Ttls, received \in BOOLEAN :
       AddBegin(t, ip, ttl, received)
  \/ \E t \in Threads : Insert(t) \/ Read(t) \/ Sync(t) \/ SyncFails(t)
  \/ \E t \in Workers, ip \in IP, never \in BOOLEAN : Unban(t, ip, never)
  \/ Expire
  \/ \E t \in Workers : LoadAfterUnban(t) \/ Save(t)
  \/ \E t \in Workers, ip \in IP, add \in BOOLEAN : Edit(t, ip, add)
  \/ Ship \/ Tick \/ Restart

Spec == Init /\ [][Next]_vars

\* The loop and the pool keep running the steps of a call they have begun, the
\* maintenance timer gets its turn however busy the loop is, and the edge's
\* file does not stay unwritable for ever.
Fairness ==
  /\ \A t \in Threads :
       WF_vars(Insert(t) \/ Read(t) \/ Sync(t) \/ SyncFails(t))
  /\ \A t \in Workers : WF_vars(LoadAfterUnban(t) \/ Save(t))
  /\ SF_vars(Expire)
  /\ SF_vars(Sync(Loop))

FairSpec == Spec /\ Fairness

-----------------------------------------------------------------------------
(* Properties *)

\* A trusted network or a shared proxy edge is never denied: no entry point,
\* whatever it races with, puts such an address in the table, in a list on its
\* way to the edge, on the edge, or in what the peers are told to ban (ban.add).
ProtectedNeverDenied ==
  Protected \cap (Rows \cup edge \cup outbox \cup UNION {draft[t] : t \in Threads}) = {}

\* write_file() makes the edge follow the table: between calls, unless the last
\* write failed or was overtaken by a change of the table while it was under way,
\* the edge denies only addresses that have a row and every unexpired ban, or,
\* when they do not all fit, no older ban in the place of a newer one
\* (ban.write_file, banactuators.sync).
Follows(list) ==
  /\ list \subseteq Rows
  /\ Cardinality(list) < MaxActive => Active \subseteq list
  /\ \A b \in list, a \in Active \ list : created[b] >= created[a]

EdgeFollowsTable ==
  up /\ ~stale /\ (\A t \in Threads : pc[t] = "idle") => Follows(edge)

\* A thread is past the checks of add() for ip and has not inserted its row.
Pending(ip) == \E t \in Threads : pc[t] = "insert" /\ job[t].ip = ip

\* An allowlisted address is not banned by anyone who starts to after the entry
\* is in the file: with no add() of it under way, none gets past the checks and
\* its ban is not prolonged (allowlist.matches in ban.add).
AllowlistRespected ==
  [][\A ip \in allow : ~Pending(ip) => ~Pending(ip)' /\ expires'[ip] <= expires[ip]]_vars

\* The operator's entries stay in the allowlist until a request removes them:
\* editing one entry never drops another (allowlist.add, allowlist.remove).
AllowlistKeepsEntries ==
  [][\A ip \in allow \ allow' :
       \E t \in Workers : pc[t] = "save" /\ job[t].ip = ip /\ job[t].then = "done"]_vars

\* The node implements the abstract ban list: what the edge denies was, as a
\* whole, a part of the unexpired bans at some moment of its publication.
Published == INSTANCE BanList WITH
  Lists <- {S \in SUBSET IP : Cardinality(S) <= MaxActive},
  list <- Active,
  drafts <- {draft[t] : t \in {u \in Threads : pc[u] = "sync"}}

PublishesTheBanList == Published!Spec

\* A ban that ran out does not stay on the edge (maintenance_task, every 300 s).
ExpiredBanLifted ==
  \A ip \in IP : (ip \in edge /\ ip \notin Active) ~> (ip \notin edge \/ ip \in Active)

\* A ban in the table reaches the edge, after a crash or a failed write as well.
BanReachesEdge ==
  \A ip \in IP : ip \in Active ~> (ip \in edge \/ ip \notin Active)
=============================================================================
