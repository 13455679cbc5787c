--------------------------- MODULE DashboardCache ---------------------------
(***************************************************************************)
(* An incident list of the dashboard and its copy in Redis: list_workitems *)
(* reads cache-aside with a TTL; every operation that changes incidents    *)
(* deletes the copies of both lists, first that of the active incidents,   *)
(* then that of the closed ones.  Nothing else connects the two lists, so  *)
(* the module follows one of them, whichever Init picks.                   *)
(*                                                                         *)
(* A list is its version, the number of writes it reflects.  A step is the *)
(* code between two awaits.  Updaters (transition_workitem, submit_rca,    *)
(* increment_signal_count) commit first and delete then; creators          *)
(* (create_work_item) delete first.                                        *)
(***************************************************************************)
EXTENDS Naturals

CONSTANTS
    Readers,      \* requests for the list that may be under way together
    Writers,      \* operations that may be under way together
    TTL,          \* life of a cached list, in ticks (10 s in the code)
    MaxRead,      \* ticks from the SELECT of a list to its SETEX, at most
    MaxVersion,   \* bound on the writes to the list
    MaxFaults     \* bound on the errors of Redis and PostgreSQL

ASSUME CacheAssumption ==
    /\ TTL \in Nat \ {0}
    /\ MaxRead \in Nat
    /\ MaxVersion \in Nat
    /\ MaxFaults \in Nat

\* The keys dashboard:workitems:active and dashboard:workitems:history.
Lists == {"active", "history"}

Versions == 0..MaxVersion
None == MaxVersion + 1          \* no such key

\* The oldest a list can be when it is answered.
Bound == MaxRead + TTL - 1

VARIABLES
    list,         \* the list that is followed
    version,      \* its version in PostgreSQL
    cached,       \* its copy in Redis
    age,          \* ticks since the copy was stored
    \* the requests
    rpc,          \* the await a reader is at
    rows,         \* the version its SELECT returned
    held,         \* ticks since that SELECT
    \* the operations
    wpc,          \* the await a writer is at
    touches,      \* whether its transaction changes the list
    creator,      \* whether it is a create_work_item before its commit
    wrote,        \* the version of the list it committed, 0 if none
    faults,
    \* history
    retired,      \* retired[v]: ticks since version v was replaced
    served,       \* the latest answer of this tick, None before it
    overtaken,    \* readers since whose SELECT the copy was deleted
    late,         \* whether the copy was stored by such a reader
    owed          \* latest version whose commit no deletion follows

dbVars == <<version, retired>>
cacheVars == <<cached, age, late>>
readerVars == <<rpc, rows, held, overtaken>>
writerVars == <<wpc, touches, creator, wrote>>

vars == <<list, dbVars, cacheVars, readerVars, writerVars, faults, served, owed>>

Promise == INSTANCE ListService

Init ==
    /\ list \in Lists
    /\ version = 0
    /\ cached = None
    /\ age = 0
    /\ rpc = [r \in Readers |-> "idle"]
    /\ rows = [r \in Readers |-> 0]
    /\ held = [r \in Readers |-> 0]
    /\ wpc = [w \in Writers |-> "idle"]
    /\ touches = [w \in Writers |-> FALSE]
    /\ creator = [w \in Writers |-> FALSE]
    /\ wrote = [w \in Writers |-> 0]
    /\ faults = 0
    /\ retired = [v \in Versions |-> 0]
    /\ served = None
    /\ overtaken = {}
    /\ late = FALSE
    /\ owed = 0

-----------------------------------------------------------------------------
(* list_workitems                                                          *)

ReaderAt(r, from, to) ==
    /\ rpc[r] = from
    /\ rpc' = [rpc EXCEPT ![r] = to]
    /\ UNCHANGED <<list, dbVars, writerVars, owed>>

Ask(r) ==
    /\ ReaderAt(r, "idle", "get")
    /\ UNCHANGED <<cacheVars, rows, held, overtaken, faults, served>>

\* Mutant of Hit: reading the key renews its time to live.
HitRenews(r) ==
    /\ ReaderAt(r, "get", "idle")
    /\ cached # None
    /\ served' = cached
    /\ age' = 0
    /\ UNCHANGED <<cached, late, rows, held, overtaken, faults>>

\* The key is there and its list is the answer.
Hit(r) ==
    /\ ReaderAt(r, "get", "idle")
    /\ cached # None
    /\ served' = cached
    /\ UNCHANGED <<cacheVars, rows, held, overtaken, faults>>

Miss(r) ==
    /\ ReaderAt(r, "get", "select")
    /\ cached = None
    /\ UNCHANGED <<cacheVars, rows, held, overtaken, faults, served>>

Select(r) ==
    /\ ReaderAt(r, "select", "setex")
    /\ rows' = [rows EXCEPT ![r] = version]
    /\ UNCHANGED <<cacheVars, held, overtaken, faults, served>>

\* SETEX starts the key's time to live over.
Setex(r) ==
    /\ cached' = rows[r]
    /\ age' = 0
    /\ late' = (r \in overtaken)

\* The locals of a request go with it.
Forget(r) ==
    /\ rows' = [rows EXCEPT ![r] = 0]
    /\ held' = [held EXCEPT ![r] = 0]
    /\ overtaken' = overtaken \ {r}

Fill(r) ==
    /\ ReaderAt(r, "setex", "idle")
    /\ Setex(r)
    /\ served' = rows[r]
    /\ Forget(r)
    /\ UNCHANGED faults

Fault ==
    /\ faults < MaxFaults
    /\ faults' = faults + 1

\* An error at any await ends the request; that of the SETEX may come after
\* the key was stored.
ReadFails(r) ==
    /\ Fault
    /\ rpc[r] # "idle"
    /\ ReaderAt(r, rpc[r], "idle")
    /\ \/ UNCHANGED cacheVars
       \/ rpc[r] = "setex" /\ Setex(r)
    /\ Forget(r)
    /\ UNCHANGED served

-----------------------------------------------------------------------------
(* The operations that change incidents.                                   *)

WriterAt(w, from, to) ==
    /\ wpc[w] = from
    /\ wpc' = [wpc EXCEPT ![w] = to]
    /\ UNCHANGED <<list, served>>

\* create_work_item adds an active incident.  The others may change either
\* list: a signal may be counted in an incident that has been closed.
Begin(w, changes, creates) ==
    /\ WriterAt(w, "idle", IF creates THEN "delActive" ELSE "commit")
    /\ creates => changes = (list = "active")
    /\ touches' = [touches EXCEPT ![w] = changes]
    /\ creator' = [creator EXCEPT ![w] = creates]
    /\ UNCHANGED <<dbVars, cacheVars, readerVars, wrote, faults, owed>>

\* The transaction.
Transaction(w) ==
    /\ touches[w] => version < MaxVersion
    /\ version' = IF touches[w] THEN version + 1 ELSE version
    /\ UNCHANGED retired

\* Nothing deletes the copy after the commit of a creator.
Commit(w) ==
    /\ WriterAt(w, "commit", IF creator[w] THEN "publish" ELSE "delActive")
    /\ Transaction(w)
    /\ wrote' = [wrote EXCEPT ![w] = IF touches[w] THEN version' ELSE 0]
    /\ owed' = IF creator[w] /\ touches[w] THEN version' ELSE owed
    /\ UNCHANGED <<cacheVars, readerVars, touches, creator, faults>>

\* The unique index refuses the row: create_work_item goes on to count the
\* signal in the incident that is there, as increment_signal_count does.
Conflict(w) ==
    /\ creator[w]
    /\ WriterAt(w, "commit", "commit")
    /\ creator' = [creator EXCEPT ![w] = FALSE]
    /\ UNCHANGED <<dbVars, cacheVars, readerVars, touches, wrote, faults, owed>>

\* DEL of the key.
Delete ==
    /\ cached' = None
    /\ age' = 0
    /\ late' = FALSE
    /\ overtaken' = overtaken \cup {r \in Readers : rpc[r] = "setex"}
    /\ UNCHANGED <<rpc, rows, held>>

DeleteKey(key) ==
    IF key = list THEN Delete ELSE UNCHANGED <<cacheVars, readerVars>>

DeleteActive(w) ==
    /\ WriterAt(w, "delActive", "delHistory")
    /\ DeleteKey("active")
    /\ UNCHANGED <<dbVars, touches, creator, wrote, faults, owed>>

\* Mutant of DeleteHistory: the first key twice.
DeleteActiveAgain(w) ==
    /\ WriterAt(w, "delHistory", IF creator[w] THEN "commit" ELSE "publish")
    /\ DeleteKey("active")
    /\ UNCHANGED <<dbVars, touches, creator, wrote, faults, owed>>

DeleteHistory(w) ==
    /\ WriterAt(w, "delHistory", IF creator[w] THEN "commit" ELSE "publish")
    /\ DeleteKey("history")
    /\ UNCHANGED <<dbVars, touches, creator, wrote, faults, owed>>

\* The reply of a DEL is late, and the Redis client repeats the command.
DeleteTimeout(w) ==
    /\ Fault
    /\ wpc[w] \in {"delActive", "delHistory"}
    /\ DeleteKey(IF wpc[w] = "delActive" THEN "active" ELSE "history")
    /\ UNCHANGED <<list, dbVars, writerVars, served, owed>>

\* The locals of an operation go with it.
Finish(w) ==
    /\ touches' = [touches EXCEPT ![w] = FALSE]
    /\ creator' = [creator EXCEPT ![w] = FALSE]
    /\ wrote' = [wrote EXCEPT ![w] = 0]

\* PUBLISH to incidents:updates.
Publish(w) ==
    /\ WriterAt(w, "publish", "idle")
    /\ Finish(w)
    /\ UNCHANGED <<dbVars, cacheVars, readerVars, faults, owed>>

\* Whether the copy is still to be deleted after a commit.
DeletionDue(w) ==
    /\ ~creator[w]
    /\ \/ wpc[w] = "delActive"
       \/ wpc[w] = "delHistory" /\ list = "history"

\* An error at any await ends the operation, a transaction's perhaps after it
\* was committed.  What was to be deleted stays.
WriteFails(w) ==
    /\ Fault
    /\ wpc[w] # "idle"
    /\ WriterAt(w, wpc[w], "idle")
    /\ \/ /\ UNCHANGED dbVars
          /\ owed' = IF DeletionDue(w) /\ owed < wrote[w] THEN wrote[w] ELSE owed
       \/ /\ wpc[w] = "commit"
          /\ Transaction(w)
          /\ owed' = IF touches[w] THEN version' ELSE owed
    /\ Finish(w)
    /\ UNCHANGED <<cacheVars, readerVars>>

-----------------------------------------------------------------------------

\* Mutant of Expire: the key lives one tick longer.
ExpireLate ==
    IF cached # None /\ age + 1 <= TTL
    THEN age' = age + 1 /\ UNCHANGED <<cached, late>>
    ELSE cached' = None /\ age' = 0 /\ late' = FALSE

\* Mutant of Expire: SET in place of SETEX.
ExpireNever == UNCHANGED cacheVars

\* A key whose time to live is over is gone.
Expire ==
    IF cached # None /\ age + 1 < TTL
    THEN age' = age + 1 /\ UNCHANGED <<cached, late>>
    ELSE cached' = None /\ age' = 0 /\ late' = FALSE

\* A SELECT and the SETEX after it are over within MaxRead ticks.
Tick ==
    /\ \A r \in Readers : rpc[r] = "setex" => held[r] < MaxRead
    /\ held' = [r \in Readers |-> IF rpc[r] = "setex" THEN held[r] + 1 ELSE held[r]]
    /\ Expire
    /\ retired' = [v \in Versions |-> Promise!Older(v)]
    /\ served' = None
    /\ UNCHANGED <<list, version, rpc, rows, overtaken, writerVars, faults, owed>>

Read(r) == Hit(r) \/ Miss(r) \/ Select(r) \/ Fill(r)

Change(w) ==
    \/ Commit(w) \/ Conflict(w) \/ DeleteActive(w) \/ DeleteHistory(w) \/ Publish(w)

Next ==
    \/ \E r \in Readers : Ask(r) \/ Read(r) \/ ReadFails(r)
    \/ \E w \in Writers :
         \/ \E changes, creates \in BOOLEAN : Begin(w, changes, creates)
         \/ Change(w) \/ DeleteTimeout(w) \/ WriteFails(w)
    \/ Tick

Spec == Init /\ [][Next]_vars

\* Time passes, and requests and operations that have begun go on.
FairSpec ==
    /\ Spec
    /\ WF_vars(Tick)
    /\ \A r \in Readers : WF_vars(Read(r))
    /\ \A w \in Writers : WF_vars(Change(w))

-----------------------------------------------------------------------------
(* Properties                                                              *)

TypeOK ==
    /\ list \in Lists
    /\ version \in Versions
    /\ cached \in Versions \cup {None}
    /\ age \in 0..TTL - 1
    /\ rpc \in [Readers -> {"idle", "get", "select", "setex"}]
    /\ rows \in [Readers -> Versions]
    /\ held \in [Readers -> 0..MaxRead]
    /\ wpc \in [Writers -> {"idle", "commit", "delActive", "delHistory", "publish"}]
    /\ touches \in [Writers -> BOOLEAN]
    /\ creator \in [Writers -> BOOLEAN]
    /\ wrote \in [Writers -> Versions]
    /\ faults \in 0..MaxFaults
    /\ retired \in [Versions -> 0..Bound + 1]
    /\ served \in Versions \cup {None}
    /\ overtaken \subseteq Readers
    /\ late \in BOOLEAN
    /\ owed \in Versions

\* "Redis (10s TTL)" (docs/API_DOCS.md:97): a cached list was in the database
\* no longer ago than its age and the duration of one read, and so, with the
\* TTL, than Bound, whatever is written, deleted or failing in between.
StalenessBounded ==
    cached # None => cached <= version /\ retired[cached] <= MaxRead + age

\* "Lazy invalidation on writes" (db/redis.py:17): if the copy is behind the
\* database, then it was read before a deletion and stored after it, or the
\* write it lacks is of a creator or was cut off, or its deletion is due.
StaleForAReason ==
    cached # None /\ cached < version =>
        \/ late
        \/ cached < owed
        \/ \E w \in Writers : DeletionDue(w) /\ cached < wrote[w]

\* Whatever races, the reader gets what ListService promises.
ImplementsListService == Promise!Spec

\* After the last write the copy does not stay behind for good.
EventuallyFresh == <>[](cached \in {None, version})

=============================================================================
