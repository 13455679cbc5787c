---------------------------- MODULE IncidentDedup ----------------------------
(***************************************************************************)
(* How the signals of one component become an incident: resolve_work_item  *)
(* and what it calls (services/ingestion.py), run by several worker tasks  *)
(* at the same time.                                                       *)
(*                                                                         *)
(* A step is one await: a Redis command, or a PostgreSQL transaction,      *)
(* which holds the row it updates.  Severities are ranks, 0 for P0.  The   *)
(* ten seconds of the window, of the debounce key and of the linking query *)
(* are nondeterministic: what may have expired may or may not have.        *)
(***************************************************************************)
EXTENDS Integers, Sequences, FiniteSets

CONSTANTS
    Signals,        \* queue_ids of the signals of the component
    NoSignal,       \* a task at work on none
    Tasks,          \* worker tasks, of any process
    Threshold,      \* the 100 signals that open an incident
    MaxAttempts,    \* attempts of retry_postgres_write
    Rank,           \* declared severity of each signal
    Expiry,         \* whether ten seconds pass within the behaviour
    MaxDeliveries,  \* bound: times each signal is delivered
    MaxCloses,      \* bound: incidents closed in a behaviour
    MaxFaults       \* bound: failures of a behaviour

ASSUME DedupAssumption ==
    /\ IsFiniteSet(Signals) /\ IsFiniteSet(Tasks)
    /\ NoSignal \notin Signals
    /\ Threshold \in Nat \ {0}
    /\ MaxAttempts \in Nat \ {0}
    /\ Rank \in [Signals -> 0..3]
    /\ Expiry \in BOOLEAN
    /\ MaxDeliveries \in Nat
    /\ MaxCloses \in Nat
    /\ MaxFaults \in Nat

Steps == {"idle", "cache", "lookup", "fill", "zadd", "trim", "card", "recheck",
          "create", "conflict", "conflictIncr", "announce", "cacheNew", "link",
          "clear", "alert", "incr"}

\* The steps after a task's signal is counted in the incident it holds.
Counted == {"announce", "cacheNew", "link", "clear", "alert"}

\* The steps at which it has still to be counted, or left.
Uncounted == Steps \ (Counted \cup {"idle"})

VARIABLES
    items,       \* work_items rows of the component, in order of creation
    debounce,    \* debounce:<component>: index of an item, 0 when absent
    window,      \* members of debounce_window:<component>
    stored,      \* signals recorded in MongoDB
    linked,      \* work_item_id of each: index of an item, 0 for None
    pc,          \* the await each task is at
    signal,      \* the signal it resolves
    sized,       \* the window its ZCARD counted
    found,       \* the item id it holds
    attempt,     \* attempt of create_work_item's retry loop
    tries,       \* attempt of increment_signal_count's retry loop
    delivered,   \* times each signal was handed to a task
    returned,    \* <<signal, item>>: ids resolve_work_item returned
    failed,      \* calls of resolve_work_item that ended in an exception
    closes,      \* incidents closed so far
    faults       \* failures so far

redisVars == <<debounce, window>>
mongoVars == <<stored, linked>>
taskVars == <<pc, signal, sized, found, attempt, tries>>
historyVars == <<delivered, returned, failed>>
boundVars == <<closes, faults>>
vars == <<items, redisVars, mongoVars, taskVars, historyVars, boundVars>>

Init ==
    /\ items = <<>>
    /\ debounce = 0
    /\ window = {}
    /\ stored = {}
    /\ linked = [s \in Signals |-> 0]
    /\ pc = [t \in Tasks |-> "idle"]
    /\ signal = [t \in Tasks |-> NoSignal]
    /\ sized = [t \in Tasks |-> {}]
    /\ found = [t \in Tasks |-> 0]
    /\ attempt = [t \in Tasks |-> 1]
    /\ tries = [t \in Tasks |-> 1]
    /\ delivered = [s \in Signals |-> 0]
    /\ returned = {}
    /\ failed = 0
    /\ closes = 0
    /\ faults = 0

Active == {i \in DOMAIN items : items[i].active}

Goto(t, from, to) ==
    /\ pc[t] = from
    /\ pc' = [pc EXCEPT ![t] = to]

Finds(t, item) == found' = [found EXCEPT ![t] = item]

\* resolve_work_item ends: it returns an id or None, or raises.
Leave(t) ==
    /\ pc' = [pc EXCEPT ![t] = "idle"]
    /\ signal' = [signal EXCEPT ![t] = NoSignal]
    /\ sized' = [sized EXCEPT ![t] = {}]
    /\ found' = [found EXCEPT ![t] = 0]
    /\ attempt' = [attempt EXCEPT ![t] = 1]
    /\ tries' = [tries EXCEPT ![t] = 1]

Return(t) ==
    /\ Leave(t)
    /\ returned' = returned \cup {<<signal[t], found[t]>>}
    /\ UNCHANGED failed

\* flush_batch gives up the rest of its batch.
Raise(t) ==
    /\ Leave(t)
    /\ failed' = failed + 1

-----------------------------------------------------------------------------
(* Finding the active incident.                                            *)

\* record_signals_bulk of the signal's batch.
RecordSignal(s) ==
    /\ s \notin stored
    /\ stored' = stored \cup {s}
    /\ UNCHANGED <<items, redisVars, linked, taskVars, historyVars, boundVars>>

\* A delivery, or redelivery, of the signal reaches a task.
Receive(t, s) ==
    /\ s \in stored
    /\ delivered[s] < MaxDeliveries
    /\ Goto(t, "idle", "cache")
    /\ signal' = [signal EXCEPT ![t] = s]
    /\ delivered' = [delivered EXCEPT ![s] = @ + 1]
    /\ UNCHANGED <<items, redisVars, mongoVars, sized, found, attempt, tries,
                   returned, failed, boundVars>>

\* GET debounce:<component>, at the start and again before a creation.
CheckCache(t) ==
    /\ \/ debounce # 0 /\ (Goto(t, "cache", "incr") \/ Goto(t, "recheck", "incr"))
       \/ debounce = 0 /\ (Goto(t, "cache", "lookup") \/ Goto(t, "recheck", "create"))
    /\ Finds(t, debounce)
    /\ UNCHANGED <<items, redisVars, mongoVars, signal, sized, attempt, tries,
                   historyVars, boundVars>>

\* get_existing_workitem_id
Lookup(t) ==
    /\ \/ /\ Goto(t, "lookup", "fill")
          /\ \E i \in Active : Finds(t, i)
       \/ /\ Active = {}
          /\ Goto(t, "lookup", "zadd")
          /\ UNCHANGED found
    /\ UNCHANGED <<items, redisVars, mongoVars, signal, sized, attempt, tries,
                   historyVars, boundVars>>

FillCache(t) ==
    /\ Goto(t, "fill", "incr")
    /\ debounce' = found[t]
    /\ UNCHANGED <<items, window, mongoVars, signal, sized, found, attempt, tries,
                   historyVars, boundVars>>

-----------------------------------------------------------------------------
(* The debounce window.                                                    *)

ZAdd(t) ==
    /\ Goto(t, "zadd", "trim")
    /\ window' = window \cup {signal[t]}
    /\ UNCHANGED <<items, debounce, mongoVars, signal, sized, found, attempt, tries,
                   historyVars, boundVars>>

\* ZREMRANGEBYSCORE drops members older than ten seconds, never the task's own.
Trim(t) ==
    /\ Goto(t, "trim", "card")
    /\ \E old \in SUBSET (window \ {signal[t]}) :
         /\ old # {} => Expiry
         /\ window' = window \ old
    /\ UNCHANGED <<items, debounce, mongoVars, signal, sized, found, attempt, tries,
                   historyVars, boundVars>>

\* Mutant of CountWindow: only the signal that fills the window opens an
\* incident.
CountWindowExactly(t) ==
    /\ pc[t] = "card"
    /\ IF Cardinality(window) = Threshold
         THEN /\ Goto(t, "card", "recheck")
              /\ sized' = [sized EXCEPT ![t] = window]
              /\ UNCHANGED <<signal, found, attempt, tries>>
         ELSE Leave(t)
    /\ UNCHANGED <<items, redisVars, mongoVars, historyVars, boundVars>>

\* Mutant of CountWindow: the window opens an incident one signal too early.
CountWindowEarly(t) ==
    /\ pc[t] = "card"
    /\ IF Cardinality(window) + 1 >= Threshold
         THEN /\ Goto(t, "card", "recheck")
              /\ sized' = [sized EXCEPT ![t] = window]
              /\ UNCHANGED <<signal, found, attempt, tries>>
         ELSE Leave(t)
    /\ UNCHANGED <<items, redisVars, mongoVars, historyVars, boundVars>>

\* ZCARD: below the threshold resolve_work_item returns None.
CountWindow(t) ==
    /\ pc[t] = "card"
    /\ IF Cardinality(window) >= Threshold
         THEN /\ Goto(t, "card", "recheck")
              /\ sized' = [sized EXCEPT ![t] = window]
              /\ UNCHANGED <<signal, found, attempt, tries>>
         ELSE Leave(t)
    /\ UNCHANGED <<items, redisVars, mongoVars, historyVars, boundVars>>

-----------------------------------------------------------------------------
(* create_work_item.                                                       *)

Fault ==
    /\ faults < MaxFaults
    /\ faults' = faults + 1
    /\ UNCHANGED closes

\* The other tasks at work on signals of the window that t counted.
Racers(t) ==
    {u \in Tasks \ {t} : pc[u] \in Uncounted /\ signal[u] \in sized[t]}

\* uq_active_work_item_component admits one active row per component.  The last
\* three fields are history.
Insert(t) ==
    /\ Active = {}
    /\ items' = Append(items, [active |-> TRUE,
                               count |-> Cardinality(sized[t]),
                               severity |-> Rank[signal[t]],
                               base |-> sized[t],
                               opener |-> signal[t],
                               racers |-> Cardinality(Racers(t))])

\* Mutant of Retry: one attempt too many.
RetryOnceMore(t) ==
    \/ /\ attempt[t] <= MaxAttempts
       /\ attempt' = [attempt EXCEPT ![t] = @ + 1]
       /\ tries' = [tries EXCEPT ![t] = 1]
       /\ pc' = [pc EXCEPT ![t] = "create"]
       /\ UNCHANGED <<signal, sized, found, failed>>
    \/ attempt[t] > MaxAttempts /\ Raise(t)

\* retry_postgres_write: IntegrityError is a DBAPIError and retried like one.
Retry(t) ==
    \/ /\ attempt[t] < MaxAttempts
       /\ attempt' = [attempt EXCEPT ![t] = @ + 1]
       /\ tries' = [tries EXCEPT ![t] = 1]
       /\ pc' = [pc EXCEPT ![t] = "create"]
       /\ UNCHANGED <<signal, sized, found, failed>>
    \/ attempt[t] = MaxAttempts /\ Raise(t)

Create(t) ==
    /\ Goto(t, "create", "announce")
    /\ Insert(t)
    /\ Finds(t, Len(items'))
    /\ UNCHANGED <<redisVars, mongoVars, signal, sized, attempt, tries,
                   historyVars, boundVars>>

\* The INSERT violates the unique index: IntegrityError.
CreateConflicts(t) ==
    /\ Goto(t, "create", "conflict")
    /\ Active # {}
    /\ UNCHANGED <<items, redisVars, mongoVars, signal, sized, found, attempt, tries,
                   historyVars, boundVars>>

\* Mutant of ConflictLookup: the other worker's item is returned as it is.
ConflictLookupUncounted(t) ==
    /\ pc[t] = "conflict"
    /\ \/ /\ Goto(t, "conflict", "announce")
          /\ \E i \in Active : Finds(t, i)
          /\ UNCHANGED <<signal, sized, attempt, tries, failed>>
       \/ Active = {} /\ Retry(t)
    /\ UNCHANGED <<items, redisVars, mongoVars, delivered, returned, boundVars>>

\* The handler looks the other worker's item up.  If it has been closed in the
\* meantime the IntegrityError is raised again.
ConflictLookup(t) ==
    /\ pc[t] = "conflict"
    /\ \/ /\ Goto(t, "conflict", "conflictIncr")
          /\ \E i \in Active : Finds(t, i)
          /\ UNCHANGED <<signal, sized, attempt, tries, failed>>
       \/ Active = {} /\ Retry(t)
    /\ UNCHANGED <<items, redisVars, mongoVars, delivered, returned, boundVars>>

\* A transient error of the transaction or of the lookup.
CreateFails(t) ==
    /\ Fault
    /\ pc[t] \in {"create", "conflict"}
    /\ Retry(t)
    /\ UNCHANGED <<items, redisVars, mongoVars, delivered, returned>>

\* The row is committed but the outcome lost.
CreateOutcomeLost(t) ==
    /\ Fault
    /\ pc[t] = "create"
    /\ Insert(t)
    /\ Retry(t)
    /\ UNCHANGED <<redisVars, mongoVars, delivered, returned>>

\* PUBLISH of INCIDENT_CREATED.
Announce(t) ==
    /\ Goto(t, "announce", "cacheNew")
    /\ UNCHANGED <<items, redisVars, mongoVars, signal, sized, found, attempt, tries,
                   historyVars, boundVars>>

CacheNew(t) ==
    /\ Goto(t, "cacheNew", "link")
    /\ debounce' = found[t]
    /\ UNCHANGED <<items, window, mongoVars, signal, sized, found, attempt, tries,
                   historyVars, boundVars>>

\* update_many: the unlinked signals recorded in the last ten seconds.
Link(t) ==
    /\ Goto(t, "link", "clear")
    /\ \E old \in SUBSET stored :
         /\ old # {} => Expiry
         /\ linked' = [s \in Signals |->
                         IF s \in stored \ old /\ linked[s] = 0
                           THEN found[t] ELSE linked[s]]
    /\ UNCHANGED <<items, redisVars, stored, signal, sized, found, attempt, tries,
                   historyVars, boundVars>>

\* DEL debounce_window:<component>
ClearWindow(t) ==
    /\ Goto(t, "clear", "alert")
    /\ window' = {}
    /\ UNCHANGED <<items, debounce, mongoVars, signal, sized, found, attempt, tries,
                   historyVars, boundVars>>

\* Mutant of Alert: a failure of the alert is not swallowed.
AlertRaises(t) ==
    /\ pc[t] = "alert"
    /\ Return(t) \/ (Raise(t) /\ UNCHANGED returned)
    /\ UNCHANGED <<items, redisVars, mongoVars, delivered, boundVars>>

\* The alert is sent, or its failure is swallowed.
Alert(t) ==
    /\ pc[t] = "alert"
    /\ Return(t)
    /\ UNCHANGED <<items, redisVars, mongoVars, delivered, boundVars>>

-----------------------------------------------------------------------------
(* increment_signal_count, by id and whatever the item's status.           *)

\* Mutant of WithSignal: the ranks are compared the wrong way round.
WithSignalDowngraded(row, s) ==
    [row EXCEPT !.count = row.count + 1,
                !.severity = IF Rank[s] > row.severity THEN Rank[s] ELSE row.severity]

\* One signal more, and its severity if that is the worse.
WithSignal(row, s) ==
    [row EXCEPT !.count = row.count + 1,
                !.severity = IF Rank[s] < row.severity THEN Rank[s] ELSE row.severity]

CountSignal(t) ==
    items' = [items EXCEPT ![found[t]] = WithSignal(items[found[t]], signal[t])]

Increment(t) ==
    /\ pc[t] = "incr"
    /\ CountSignal(t)
    /\ Return(t)
    /\ UNCHANGED <<redisVars, mongoVars, delivered, boundVars>>

\* Mutant of ConflictIncrement: the signal is counted again as one that found
\* the incident.
ConflictIncrementTwice(t) ==
    /\ Goto(t, "conflictIncr", "incr")
    /\ CountSignal(t)
    /\ UNCHANGED <<redisVars, mongoVars, signal, sized, found, attempt, tries,
                   historyVars, boundVars>>

ConflictIncrement(t) ==
    /\ Goto(t, "conflictIncr", "announce")
    /\ CountSignal(t)
    /\ UNCHANGED <<redisVars, mongoVars, signal, sized, found, attempt, tries,
                   historyVars, boundVars>>

\* A transient error, before the commit or after it.  The increment of a
\* creation runs inside that creation's own retry loop.
IncrementFails(t) ==
    /\ Fault
    /\ pc[t] \in {"incr", "conflictIncr"}
    /\ CountSignal(t) \/ UNCHANGED items
    /\ \/ /\ tries[t] < MaxAttempts
          /\ tries' = [tries EXCEPT ![t] = @ + 1]
          /\ UNCHANGED <<pc, signal, sized, found, attempt, failed>>
       \/ /\ tries[t] = MaxAttempts
          /\ IF pc[t] = "incr" THEN Raise(t) ELSE Retry(t)
    /\ UNCHANGED <<redisVars, mongoVars, delivered, returned>>

-----------------------------------------------------------------------------
(* The environment.                                                        *)

\* A Redis or MongoDB error, an open circuit, a timeout of wait_for, or the
\* end of the worker, at any await; of a transaction, after its commit.
Abort(t) ==
    /\ Fault
    /\ pc[t] # "idle"
    /\ \/ UNCHANGED items
       \/ pc[t] = "create" /\ Insert(t)
       \/ pc[t] \in {"incr", "conflictIncr"} /\ CountSignal(t)
    /\ Raise(t)
    /\ UNCHANGED <<redisVars, mongoVars, delivered, returned>>

\* transition_workitem to CLOSED; it leaves the debounce key alone.
Close(i) ==
    /\ closes < MaxCloses
    /\ closes' = closes + 1
    /\ items[i].active
    /\ items' = [items EXCEPT ![i].active = FALSE]
    /\ UNCHANGED <<redisVars, mongoVars, taskVars, historyVars, faults>>

\* The TTL of one of the two keys runs out.
Expire ==
    /\ Expiry
    /\ \/ debounce # 0 /\ debounce' = 0 /\ UNCHANGED window
       \/ window # {} /\ window' = {} /\ UNCHANGED debounce
    /\ UNCHANGED <<items, mongoVars, taskVars, historyVars, boundVars>>

Work(t) ==
    \/ CheckCache(t) \/ Lookup(t) \/ FillCache(t)
    \/ ZAdd(t) \/ Trim(t) \/ CountWindow(t)
    \/ Create(t) \/ CreateConflicts(t) \/ ConflictLookup(t) \/ Announce(t)
    \/ CacheNew(t) \/ Link(t) \/ ClearWindow(t) \/ Alert(t)
    \/ Increment(t) \/ ConflictIncrement(t)

Disturb(t) ==
    CreateFails(t) \/ CreateOutcomeLost(t) \/ IncrementFails(t) \/ Abort(t)

Next ==
    \/ \E s \in Signals : RecordSignal(s) \/ \E t \in Tasks : Receive(t, s)
    \/ \E t \in Tasks : Work(t) \/ Disturb(t)
    \/ \E i \in DOMAIN items : Close(i)
    \/ Expire

Spec == Init /\ [][Next]_vars

\* asyncio runs the tasks.  No signal need be delivered: a failure may have
\* dropped the batch it was in.
FairSpec == Spec /\ \A t \in Tasks : WF_vars(Work(t))

-----------------------------------------------------------------------------
(* Properties                                                              *)

Rows == [active : BOOLEAN, count : Nat, severity : 0..3,
         base : SUBSET Signals, opener : Signals, racers : Nat]

TypeOK ==
    /\ items \in Seq(Rows)
    /\ debounce \in 0..Len(items)
    /\ window \subseteq stored
    /\ stored \subseteq Signals
    /\ linked \in [Signals -> 0..Len(items)]
    /\ pc \in [Tasks -> Steps]
    /\ signal \in [Tasks -> Signals \cup {NoSignal}]
    /\ sized \in [Tasks -> SUBSET Signals]
    /\ found \in [Tasks -> 0..Len(items)]
    /\ attempt \in [Tasks -> 1..MaxAttempts]
    /\ tries \in [Tasks -> 1..MaxAttempts]
    /\ delivered \in [Signals -> 0..MaxDeliveries]
    /\ returned \subseteq (Signals \X (1..Len(items)))
    /\ failed \in Nat
    /\ closes \in 0..MaxCloses
    /\ faults \in 0..MaxFaults

\* "At most ONE active incident per component" (docs/PROMPTS.md:49), whatever
\* workers race, retry or fail.
OneActive == Cardinality(Active) <= 1

Attributed(i) == {s \in Signals : <<s, i>> \in returned}

\* The count of an incident includes every signal it was opened with and every
\* signal resolve_work_item attributed to it, those of the workers that lost
\* the race to create it too.  Only the signal that opened it is left out if
\* its own member was gone from the window when it was counted.
NothingUncounted ==
    \A i \in DOMAIN items :
        items[i].count >=
            Cardinality(items[i].base \cup (Attributed(i) \ {items[i].opener}))

\* An incident is at least as severe as each signal attributed to it was
\* declared.
SeverityCovers == \A r \in returned : items[r[2]].severity <= Rank[r[1]]

\* The signals counted in an incident, by a task that returned its id or is about
\* to.
Credited(i) ==
    Attributed(i) \cup
        {signal[t] : t \in {u \in Tasks : pc[u] \in Counted /\ found[u] = i}}

\* The deliveries of signals that had been delivered before.
Redeliveries == UNION {{s} \X (2..delivered[s]) : s \in Signals}

\* The count of an incident is not the number of its signals: a signal that is in
\* the window of which the incident is opened is counted in signal_count =
\* window_size, and once more by its task if that then loses the race to create
\* (services/ingestion.py:308) or finds the incident cached (229).  But only the
\* signals whose tasks were at work when the row was inserted are counted
\* twice, and those that are redelivered, or whose count a failure hid.
CountedTwiceBounded ==
    \A i \in DOMAIN items :
        items[i].count <= Cardinality(items[i].base \cup Credited(i)) + items[i].racers
                            + Cardinality(Redeliveries) + faults

\* The incidents whose creating signal neither was returned their id nor is on
\* its way to it.
Unfinished ==
    {i \in DOMAIN items :
       /\ <<items[i].opener, i>> \notin returned
       /\ ~ \E t \in Tasks :
              /\ pc[t] \in Counted
              /\ signal[t] = items[i].opener
              /\ found[t] = i}

\* The signal that creates an incident also caches, links and alerts for it,
\* whatever other tasks do to the window, the cache and the incident meanwhile:
\* at most one incident for each failure is left without.
OpenersFinish == Cardinality(Unfinished) <= faults

\* What a reader of work_items sees of the incidents.
LedgerRows ==
    [i \in DOMAIN items |-> [active |-> items[i].active,
                             count |-> items[i].count,
                             severity |-> items[i].severity]]

Ledger ==
    INSTANCE IncidentLedger WITH
        incidents <- LedgerRows, MaxBurst <- Cardinality(Signals)

\* The incidents follow the ledger at every step: each is opened by a full
\* window, although the window that was counted may be trimmed, deleted and
\* counted by other tasks before the creation, and its creation retried; and no
\* step changes an incident in a way the ledger does not know.
ImplementsLedger == Ledger!Spec

\* The audit trail is stable: a signal linked to an incident is never linked to
\* another one, although creators may link at the same time.
LinkIsFinal ==
    [][\A s \in Signals : linked[s] # 0 => linked'[s] = linked[s]]_vars

\* A burst becomes an incident, without another signal and even if several
\* arrive between two counts of the window: while there is none, the window
\* does not stay full with a signal to spare for each call that failed.
BurstBecomesIncident ==
    Cardinality(window) >= Threshold + failed
        ~> items # <<>> \/ Cardinality(window) < Threshold + failed

\* "Check Redis cache for active work item" (services/ingestion.py:193): the
\* item it names is active, so that no closed incident is counted up.
CacheNamesActive == debounce # 0 => items[debounce].active
=============================================================================
