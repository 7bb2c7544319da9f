------------------------------ MODULE Sources ------------------------------
(***************************************************************************)
(* The log sources (logsources.Manager, config._build_log_sources): those  *)
(* of the YAML file, read at the start, and those the dashboard adds,      *)
(* which are kept in a file of their own; the list LOG_SOURCES that the    *)
(* status page shows; and the tail tasks, which the manager keeps by path. *)
(*                                                                         *)
(* add() and remove() run on the event loop without an await, but the file *)
(* they rewrite may refuse the write, and the YAML file is edited by hand  *)
(* at any time.  A source is its path; sniffing and validating are data.   *)
(***************************************************************************)
EXTENDS Naturals, FiniteSets

CONSTANTS
  Path,          \* access logs on the host
  Primary,       \* the fallback source of an empty YAML list
  MaxManaged,    \* MAX_MANAGED
  MaxDeaths      \* bound: tasks that die

ASSUME SourcesAssumption ==
  /\ Primary \in Path
  /\ MaxManaged \in Nat /\ MaxDeaths \in Nat

VARIABLES
  yaml,        \* log_sources of the YAML file
  store,       \* log_sources.json
  sources,     \* config.LOG_SOURCES
  handle,      \* the paths with a task in Manager.tasks
  running,     \* running[p]: the tail tasks of p that run
  readable,    \* the files that exist and can be read
  promised,    \* added with an "ok" and not removed since (a history variable)
  deaths

sourceVars == <<yaml, store, sources, handle, running, readable, promised, deaths>>

SourcesTypeOK ==
  /\ {yaml, store, sources, handle, readable, promised} \subseteq SUBSET Path
  /\ running \in [Path -> Nat]
  /\ Cardinality(store) <= MaxManaged
  /\ deaths \in 0 .. MaxDeaths

\* _build_log_sources: the YAML list or the primary, and the managed ones that are
\* not already there.
Listed(y, s) == (IF y = {} THEN {Primary} ELSE y) \cup s

\* lifespan: one task for each listed source.
Begin(y, s) ==
  /\ sources' = Listed(y, s) /\ handle' = Listed(y, s)
  /\ running' = [p \in Path |-> IF p \in Listed(y, s) THEN 1 ELSE 0]

SourcesInit ==
  /\ yaml \in SUBSET Path
  /\ store = {}
  /\ sources = Listed(yaml, {}) /\ handle = sources
  /\ running = [p \in Path |-> IF p \in sources THEN 1 ELSE 0]
  /\ readable = Path /\ promised = {} /\ deaths = 0

-----------------------------------------------------------------------------
(* The manager *)

\* The file is there, and the path is new to the list and to the store.
MayAdd(p) ==
  /\ p \in readable
  /\ p \notin sources \cup store
  /\ Cardinality(store) < MaxManaged

\* add(): the task first, the file last; a failing save leaves the other two.
AddSource(p, saved) ==
  /\ MayAdd(p)
  /\ running' = [running EXCEPT ![p] = @ + 1]
  /\ handle' = handle \cup {p}
  /\ sources' = sources \cup {p}
  /\ store' = IF saved THEN store \cup {p} ELSE store
  /\ promised' = IF saved THEN promised \cup {p} ELSE promised
  /\ UNCHANGED <<yaml, readable, deaths>>

\* A variant that leaves the task to itself.
RemoveWithoutCancel(p) ==
  /\ p \in store
  /\ store' = store \ {p} /\ sources' = sources \ {p} /\ promised' = promised \ {p}
  /\ handle' = handle \ {p}
  /\ UNCHANGED <<yaml, running, readable, deaths>>

\* remove(): anything in the store; a failing save raises before the rest.
RemoveSource(p) ==
  /\ p \in store
  /\ store' = store \ {p}
  /\ sources' = sources \ {p}
  /\ running' = IF p \in handle THEN [running EXCEPT ![p] = IF @ = 0 THEN 0 ELSE @ - 1]
                ELSE running
  /\ handle' = handle \ {p}
  /\ promised' = promised \ {p}
  /\ UNCHANGED <<yaml, readable, deaths>>

\* A tail task that raises ends, and is logged (_watch); its handle stays.
TailDies(p) ==
  /\ running[p] > 0 /\ deaths < MaxDeaths
  /\ running' = [running EXCEPT ![p] = @ - 1]
  /\ deaths' = deaths + 1
  /\ UNCHANGED <<yaml, store, sources, handle, readable, promised>>

-----------------------------------------------------------------------------
(* The host *)

FileComesOrGoes(p) ==
  /\ readable' = IF p \in readable THEN readable \ {p} ELSE readable \cup {p}
  /\ UNCHANGED <<yaml, store, sources, handle, running, promised, deaths>>

EditYaml(y) ==
  /\ y # yaml
  /\ yaml' = y
  /\ UNCHANGED <<store, sources, handle, running, readable, promised, deaths>>

SourcesRestart ==
  /\ Begin(yaml, store)
  /\ UNCHANGED <<yaml, store, readable, promised, deaths>>

SourcesNext ==
  \/ \E p \in Path, saved \in BOOLEAN : AddSource(p, saved)
  \/ \E p \in Path : RemoveSource(p) \/ TailDies(p) \/ FileComesOrGoes(p)
  \/ \E y \in SUBSET Path : EditYaml(y)
  \/ SourcesRestart

SourcesSpec == SourcesInit /\ [][SourcesNext]_sourceVars

-----------------------------------------------------------------------------
(* Properties *)

\* Through adds, removals, edits of the YAML file, refused saves, dying tasks and
\* restarts: no file is tailed by two tasks, which would count its lines twice,
\* none is tailed that the list does not show, and a source the dashboard said is
\* added is in the list and comes back with a restart (Manager, _build_log_sources).
OneTailPerSource ==
  /\ \A p \in Path : running[p] <= 1 /\ (running[p] = 1 => p \in sources \cap handle)
  /\ promised \subseteq sources \cap Listed(yaml, store)
=============================================================================
