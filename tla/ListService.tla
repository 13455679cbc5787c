---------------------------- MODULE ListService ----------------------------
(***************************************************************************)
(* What GET /api/workitems promises a dashboard of a list of incidents,    *)
(* however the list is cached: an answer was in the database at most Bound *)
(* ticks ago (docs/API_DOCS.md:97 gives the cache ten seconds).            *)
(*                                                                         *)
(* A list is abstracted to its version, the number of writes it reflects.  *)
(***************************************************************************)
EXTENDS Naturals

CONSTANTS
    MaxVersion,   \* bound on the writes to the list
    Bound         \* how old an answer may be

VARIABLES
    version,      \* writes that the list in the database reflects
    retired,      \* retired[v]: ticks since version v was replaced
    served        \* the latest answer of this tick

lvars == <<version, retired, served>>

Versions == 0..MaxVersion
NoAnswer == MaxVersion + 1      \* none in this tick yet

Init ==
    /\ version = 0
    /\ retired = [v \in Versions |-> 0]
    /\ served = NoAnswer

Write ==
    /\ version < MaxVersion
    /\ version' = version + 1
    /\ UNCHANGED <<retired, served>>

Servable(v) == v <= version /\ retired[v] <= Bound

Answer(v) ==
    /\ Servable(v)
    /\ served' = v
    /\ UNCHANGED <<version, retired>>

\* Replaced versions grow older; beyond Bound their age no longer matters.
Older(v) ==
    IF v < version /\ retired[v] <= Bound THEN retired[v] + 1 ELSE retired[v]

Tick ==
    /\ retired' = [v \in Versions |-> Older(v)]
    /\ served' = NoAnswer
    /\ UNCHANGED version

Next ==
    \/ Write
    \/ \E v \in Versions : Answer(v)
    \/ Tick

Spec == Init /\ [][Next]_lvars
=============================================================================
