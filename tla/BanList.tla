------------------------------ MODULE BanList ------------------------------
(***************************************************************************)
(* What a ban list with a separate point of enforcement promises, whoever  *)
(* runs it: the edge only ever denies a list of addresses that was, in its *)
(* entirety, part of the ban list at some moment while its publication was *)
(* under way; the list never holds a protected address; and the edge never *)
(* denies more addresses than the actuator accepts.  Nothing is said of    *)
(* who drafts a list or how many publications overlap.                     *)
(***************************************************************************)
CONSTANTS
  IP,          \* addresses that can be banned
  Protected,   \* addresses that must never be denied (trusted, proxy edges)
  Lists        \* the lists short enough for the actuator

VARIABLES
  list,        \* the addresses banned now
  drafts,      \* lists taken from the ban list and not yet published
  edge         \* the addresses the edge denies

vars == <<list, drafts, edge>>

Init ==
  /\ list = {}
  /\ drafts = {}
  /\ edge = {}

\* Only a change of the list and the publication of a draft are visible; a
\* draft is taken from the list as it stands and may be abandoned.
Ban(ip) ==
  /\ ip \notin Protected
  /\ list' = list \cup {ip}
  /\ UNCHANGED <<drafts, edge>>

Lift(gone) ==
  /\ list' = list \ gone
  /\ UNCHANGED <<drafts, edge>>

Draft(d) ==
  /\ d \subseteq list
  /\ d \in Lists
  /\ drafts' = drafts \cup {d}
  /\ UNCHANGED <<list, edge>>

Publish(d) ==
  /\ d \in drafts
  /\ edge' = d
  /\ drafts' \in {drafts, drafts \ {d}}
  /\ UNCHANGED list

Abandon ==
  /\ drafts' \subseteq drafts
  /\ UNCHANGED <<list, edge>>

Next ==
  \/ \E ip \in IP : Ban(ip)
  \/ \E gone \in SUBSET IP : Lift(gone)
  \/ \E d \in SUBSET IP : Draft(d) \/ Publish(d)
  \/ Abandon

Spec == Init /\ [][Next]_vars
=============================================================================
