------------------------------ MODULE Windows ------------------------------
(***************************************************************************)
(* The sliding windows of the detection engine for one untrusted address   *)
(* (Engine.feed, _check_endpoints, _trim, _prune_idle): deques of request  *)
(* times trimmed as requests come, the map of identifiers of an            *)
(* enumeration rule, and the pruning of idle addresses that each flush     *)
(* does.  What a rule decides is compared with what the requests of its    *)
(* window say, counted from the whole history.                             *)
(*                                                                         *)
(* An endpoint rule counts requests in the same way whether it is a rate   *)
(* or an auth_abuse rule, so one of them stands for both.                  *)
(***************************************************************************)
EXTENDS FiniteSets, FiniteSetsExt, Integers, Sequences

CONSTANTS
  Token,            \* identifiers an enumeration rule extracts from a path
  RateWindow, RateLimit, ScanWindow, ScanLimit, BotWindow, BotLimit,
  StuffWindow, StuffLimit, EpWindow, EpLimit, EnumWindow, EnumLimit,
  EnumSlack,        \* identifiers kept without looking at their age (8)
  IdlePrune,        \* idle time after which an address is forgotten
  CrowdedPrune,     \* the same with more than MAX_TRACKED_IPS addresses
  StaleWindow,      \* idle time after which an endpoint window is forgotten
  MaxFeeds, MaxClock

ASSUME WindowsAssumption ==
  /\ {RateWindow, ScanWindow, BotWindow, StuffWindow, EpWindow, EnumWindow} \subseteq Nat
  /\ {RateLimit, ScanLimit, BotLimit, StuffLimit, EpLimit, EnumLimit} \subseteq Nat \ {0}
  /\ {MaxFeeds, MaxClock} \subseteq Nat \ {0}
  /\ EnumSlack \in Nat

Request == {"plain", "error", "login", "endpoint"} \cup Token

VARIABLES
  clock,       \* the clock
  req, e4xx, auth,   \* the deques of the address
  lastSeen,        \* last_seen of the address, 0 when it is not tracked
  ep,          \* the deque of the endpoint rule
  ids,         \* the enumeration rule's map: identifier -> last time, 0 when absent
  history,     \* every request so far, with its time
  fired        \* the rules the last request fired

windowVars == <<clock, req, e4xx, auth, lastSeen, ep, ids, history, fired>>

Times == Seq(1 .. MaxClock)
Rules == {"flood", "scan", "bot", "cred_stuff", "rate", "enumeration"}

WindowsTypeOK ==
  /\ clock \in 1 .. MaxClock
  /\ {req, e4xx, auth, ep} \subseteq Times
  /\ lastSeen \in 0 .. MaxClock
  /\ ids \in [Token -> 0 .. MaxClock]
  /\ history \in Seq([t : 1 .. MaxClock, kind : Request])
  /\ fired \subseteq Rules

WindowsInit ==
  /\ clock = 1
  /\ req = << >> /\ e4xx = << >> /\ auth = << >> /\ ep = << >>
  /\ lastSeen = 0
  /\ ids = [k \in Token |-> 0]
  /\ history = << >>
  /\ fired = {}

\* popleft() until the head is inside the window.
Trim(q, cutoff) ==
  LET kept == {i \in DOMAIN q : q[i] >= cutoff}
  IN  IF kept = {} THEN << >> ELSE SubSeq(q, Min(kept), Len(q))

Larger(a, b) == IF a > b THEN a ELSE b

\* A variant that never drops an identifier.
SeenForever(d, token) == [d EXCEPT ![token] = clock]

\* The identifiers after token is seen: old ones go only when there are many.
Seen(d, token) ==
  LET all == [d EXCEPT ![token] = clock]
  IN  IF Cardinality({k \in Token : all[k] # 0}) > EnumSlack
      THEN [k \in Token |-> IF all[k] < clock - EnumWindow THEN 0 ELSE all[k]]
      ELSE all

\* feed() and _check_endpoints() for one request.
Feed(kind) ==
  LET newReq == Trim(Append(req, clock), clock - Larger(RateWindow, BotWindow))
      new4xx == Trim(IF kind = "error" THEN Append(e4xx, clock) ELSE e4xx, clock - ScanWindow)
      newAuth == IF kind = "login" THEN Trim(Append(auth, clock), clock - StuffWindow) ELSE auth
      newEp == IF kind = "endpoint" THEN Trim(Append(ep, clock), clock - EpWindow) ELSE ep
      newIds == IF kind \in Token THEN Seen(ids, kind) ELSE ids
      recent == Cardinality({i \in DOMAIN newReq : newReq[i] >= clock - RateWindow})
  IN /\ Len(history) < MaxFeeds
     /\ req' = newReq /\ e4xx' = new4xx /\ auth' = newAuth
     /\ ep' = newEp /\ ids' = newIds
     /\ lastSeen' = clock
     /\ history' = Append(history, [t |-> clock, kind |-> kind])
     /\ fired' = {r \in Rules :
                    \/ r = "scan" /\ Len(new4xx) >= ScanLimit
                    \/ r = "flood" /\ recent >= RateLimit
                    \/ r = "bot" /\ Len(newReq) >= BotLimit
                    \/ r = "cred_stuff" /\ kind = "login" /\ Len(newAuth) >= StuffLimit
                    \/ r = "rate" /\ kind = "endpoint" /\ Len(newEp) >= EpLimit
                    \/ r = "enumeration" /\ kind \in Token
                         /\ Cardinality({k \in Token : newIds[k] # 0}) >= EnumLimit}
     /\ UNCHANGED clock

\* A variant that forgets an address once its rate window is over.
PruneEarly(crowded) ==
  /\ IF lastSeen < clock - RateWindow
     THEN req' = << >> /\ e4xx' = << >> /\ auth' = << >> /\ lastSeen' = 0
     ELSE UNCHANGED <<req, e4xx, auth, lastSeen>>
  /\ UNCHANGED <<clock, ep, ids, history, fired>>

\* _prune_idle(), at each flush.
PruneIdle(crowded) ==
  /\ IF lastSeen < clock - (IF crowded THEN CrowdedPrune ELSE IdlePrune)
     THEN req' = << >> /\ e4xx' = << >> /\ auth' = << >> /\ lastSeen' = 0
     ELSE UNCHANGED <<req, e4xx, auth, lastSeen>>
  /\ ep' = IF ep # << >> /\ ep[Len(ep)] < clock - StaleWindow THEN << >> ELSE ep
  /\ ids' = IF \A k \in Token : ids[k] < clock - StaleWindow
            THEN [k \in Token |-> 0] ELSE ids
  /\ UNCHANGED <<clock, history, fired>>

Pause ==
  /\ clock < MaxClock
  /\ clock' = clock + 1
  /\ UNCHANGED <<req, e4xx, auth, lastSeen, ep, ids, history, fired>>

WindowsNext ==
  \/ \E kind \in Request : Feed(kind)
  \/ \E crowded \in BOOLEAN : PruneIdle(crowded)
  \/ Pause

WindowsSpec == WindowsInit /\ [][WindowsNext]_windowVars

-----------------------------------------------------------------------------
(* Properties *)

\* The requests of the last window seconds before the last request.
Within(window, kinds) ==
  {i \in DOMAIN history :
     /\ history[i].kind \in kinds
     /\ history[i].t >= history[Len(history)].t - window}

\* The rules fire exactly when the last window holds as many requests as their
\* limit, however requests, pauses and prunings follow one another: no request
\* is forgotten inside its window, none is counted after it (Engine.feed).
WindowsAreExact ==
  history # << >> =>
    LET kind == history[Len(history)].kind IN
      /\ "scan" \in fired <=> Cardinality(Within(ScanWindow, {"error"})) >= ScanLimit
      /\ "flood" \in fired <=> Cardinality(Within(RateWindow, Request)) >= RateLimit
      /\ "bot" \in fired <=>
           Cardinality(Within(Larger(RateWindow, BotWindow), Request)) >= BotLimit
      /\ "cred_stuff" \in fired <=>
           kind = "login" /\ Cardinality(Within(StuffWindow, {"login"})) >= StuffLimit
      /\ "rate" \in fired <=>
           kind = "endpoint" /\ Cardinality(Within(EpWindow, {"endpoint"})) >= EpLimit

\* An enumeration event means as many different identifiers inside the window as
\* its text says ("%d distinct IDs ... in %d min", _check_endpoints), though the map
\* keeps old identifiers while it is small; and every such burst raises one.
EnumerationIsExact ==
  history # << >> =>
    ("enumeration" \in fired <=>
       /\ history[Len(history)].kind \in Token
       /\ Cardinality({history[i].kind : i \in Within(EnumWindow, Token)}) >= EnumLimit)
=============================================================================
