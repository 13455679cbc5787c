------------------------ MODULE IncidentDedupProofs ------------------------
(***************************************************************************)
(* Theorems about IncidentDedup, for every number of signals and tasks,    *)
(* every threshold, any number of attempts and every bound.                *)
(***************************************************************************)
EXTENDS IncidentDedup, FiniteSetTheorems, SequenceTheorems, TLAPS

\* The steps of resolve_work_item that hold the id of an incident.
Holding == {"fill", "conflictIncr", "announce", "cacheNew", "link", "clear",
            "alert", "incr"}

\* A task at work has a signal, one that was stored, and, where the code uses
\* one, the id of an incident.
AtWork(t) ==
    /\ pc[t] # "idle" => signal[t] \in stored
    /\ pc[t] \in Holding => found[t] # 0

WorkInv == TypeOK /\ \A t \in Tasks : AtWork(t)

\* The severity of the incident a task holds covers the signal it has counted.
CoverInv ==
    /\ SeverityCovers
    /\ \A t \in Tasks :
         pc[t] \in Counted => items[found[t]].severity <= Rank[signal[t]]

-----------------------------------------------------------------------------
(* What the steps do to the work_items rows.                               *)

\* The fields of a row are typed.
LEMMA RowFields ==
    ASSUME TypeOK, NEW i \in 1..Len(items)
    PROVE  /\ items[i] \in Rows
           /\ items[i].active \in BOOLEAN
           /\ items[i].count \in Nat
           /\ items[i].severity \in 0..3
           /\ items[i].base \in SUBSET Signals
           /\ items[i].racers \in Nat
<1>1. items[i] \in Rows
  BY ElementOfSeq DEF TypeOK
<1> QED
  BY <1>1 DEF Rows

\* A created row is appended; the others stay.
LEMMA InsertEffect ==
    ASSUME WorkInv, NEW t \in Tasks, pc[t] = "create", Insert(t)
    PROVE  /\ items' \in Seq(Rows)
           /\ Len(items') = Len(items) + 1
           /\ \A i \in 1..Len(items) : items'[i] = items[i]
           /\ items'[Len(items) + 1].severity = Rank[signal[t]]
           /\ items'[Len(items) + 1].base = sized[t]
           /\ items'[Len(items) + 1].opener = signal[t]
           /\ items'[Len(items) + 1].racers = Cardinality(Racers(t))
           /\ items'[Len(items) + 1].count = Cardinality(sized[t])
<1> DEFINE row == [active |-> TRUE, count |-> Cardinality(sized[t]),
                   severity |-> Rank[signal[t]], base |-> sized[t],
                   opener |-> signal[t], racers |-> Cardinality(Racers(t))]
<1>1. signal[t] \in Signals /\ sized[t] \in SUBSET Signals
  BY DEF WorkInv, AtWork, TypeOK
<1>2. Cardinality(sized[t]) \in Nat
  BY <1>1, DedupAssumption, FS_Subset, FS_CardinalityType
<1>3. Rank[signal[t]] \in 0..3
  BY <1>1, DedupAssumption
<1>8. Cardinality(Racers(t)) \in Nat
  BY DedupAssumption, FS_Subset, FS_CardinalityType DEF Racers
<1>4. row \in Rows
  BY <1>1, <1>2, <1>3, <1>8 DEF Rows
<1>5. /\ row.racers = Cardinality(Racers(t))
      /\ row.severity = Rank[signal[t]] /\ row.base = sized[t]
      /\ row.opener = signal[t] /\ row.count = Cardinality(sized[t])
  OBVIOUS
<1>6. items' = Append(items, row)
  BY DEF Insert
<1> HIDE DEF row
<1>7. items \in Seq(Rows)
  BY DEF WorkInv, TypeOK
<1> QED
  BY <1>4, <1>5, <1>6, <1>7, AppendProperties

\* Counting a signal keeps a row a row, and makes it as severe as the signal.
LEMMA WithSignalEffect ==
    ASSUME NEW row \in Rows, NEW s, Rank[s] \in 0..3
    PROVE  /\ WithSignal(row, s) \in Rows
           /\ WithSignal(row, s).active = row.active
           /\ WithSignal(row, s).count = row.count + 1
           /\ WithSignal(row, s).base = row.base
           /\ WithSignal(row, s).opener = row.opener
           /\ WithSignal(row, s).racers = row.racers
           /\ WithSignal(row, s).severity <= row.severity
           /\ WithSignal(row, s).severity <= Rank[s]
<1> DEFINE worst == IF Rank[s] < row.severity THEN Rank[s] ELSE row.severity
<1>1. row.severity \in 0..3 /\ row.count \in Nat
  BY DEF Rows
<1>2. worst \in 0..3 /\ worst <= row.severity /\ worst <= Rank[s]
  BY <1>1
<1>3. WithSignal(row, s) = [row EXCEPT !.count = row.count + 1, !.severity = worst]
  BY DEF WithSignal
<1> HIDE DEF worst
<1>4. /\ row.count + 1 \in Nat
      /\ row = [active |-> row.active, count |-> row.count, severity |-> row.severity,
                base |-> row.base, opener |-> row.opener,
                racers |-> row.racers]
      /\ row.racers \in Nat
      /\ row.active \in BOOLEAN
      /\ row.base \in SUBSET Signals
      /\ row.opener \in Signals
  BY <1>1 DEF Rows
<1>5. WithSignal(row, s) = [active |-> row.active, count |-> row.count + 1,
                            severity |-> worst, base |-> row.base,
                            opener |-> row.opener, racers |-> row.racers]
  BY <1>3, <1>4
<1>6. WithSignal(row, s) \in Rows
  BY <1>2, <1>4, <1>5 DEF Rows
<1>7. /\ WithSignal(row, s).active = row.active
      /\ WithSignal(row, s).count = row.count + 1
      /\ WithSignal(row, s).base = row.base
      /\ WithSignal(row, s).opener = row.opener
      /\ WithSignal(row, s).racers = row.racers
      /\ WithSignal(row, s).severity = worst
  BY <1>5
<1> QED
  BY <1>2, <1>6, <1>7

\* Counting a signal changes one row: its severity only goes up, to cover the
\* signal's.
LEMMA CountEffect ==
    ASSUME WorkInv, NEW t \in Tasks, pc[t] \in {"incr", "conflictIncr"}, CountSignal(t)
    PROVE  /\ items' \in Seq(Rows)
           /\ Len(items') = Len(items)
           /\ found[t] \in 1..Len(items)
           /\ \A i \in 1..Len(items) :
                /\ items'[i].active = items[i].active
                /\ items'[i].severity <= items[i].severity
                /\ items'[i].base = items[i].base
                /\ items'[i].opener = items[i].opener
                /\ items'[i].racers = items[i].racers
                /\ items'[i].count = IF i = found[t] THEN items[i].count + 1
                                                    ELSE items[i].count
           /\ items'[found[t]].severity <= Rank[signal[t]]
<1>1. signal[t] \in Signals /\ found[t] \in 1..Len(items) /\ items \in Seq(Rows)
  BY DEF WorkInv, AtWork, TypeOK, Holding
<1>2. Rank[signal[t]] \in 0..3
  BY <1>1, DedupAssumption
<1> DEFINE old == items[found[t]]
           row == WithSignal(old, signal[t])
<1>3. old \in Rows
  BY <1>1, RowFields DEF WorkInv
<1>4. /\ row \in Rows
      /\ row.active = old.active /\ row.count = old.count + 1
      /\ row.base = old.base /\ row.opener = old.opener
      /\ row.racers = old.racers
      /\ row.severity <= old.severity /\ row.severity <= Rank[signal[t]]
  BY <1>1, <1>2, <1>3, WithSignalEffect
<1>5. items' = [items EXCEPT ![found[t]] = row]
  BY DEF CountSignal
<1> HIDE DEF row
<1>7. /\ items' \in Seq(Rows)
      /\ Len(items') = Len(items)
      /\ \A i \in 1..Len(items) : items'[i] = IF i = found[t] THEN row ELSE items[i]
  BY <1>1, <1>4, <1>5, ExceptSeq
<1>8. \A i \in 1..Len(items) : items[i].severity \in 0..3
  BY RowFields DEF WorkInv
<1>9. \A i \in 1..Len(items) :
        /\ items'[i].active = items[i].active
        /\ items'[i].severity <= items[i].severity
        /\ items'[i].base = items[i].base
        /\ items'[i].opener = items[i].opener
        /\ items'[i].racers = items[i].racers
        /\ items'[i].count = IF i = found[t] THEN items[i].count + 1
                                            ELSE items[i].count
  BY <1>4, <1>7, <1>8
<1>10. items'[found[t]].severity <= Rank[signal[t]]
  BY <1>1, <1>4, <1>7
<1> QED
  BY <1>1, <1>7, <1>9, <1>10

\* Closing deactivates one row.
LEMMA CloseEffect ==
    ASSUME WorkInv, NEW j \in DOMAIN items, Close(j)
    PROVE  /\ items' \in Seq(Rows)
           /\ Len(items') = Len(items)
           /\ \A i \in 1..Len(items) :
                /\ items'[i].active => items[i].active
                /\ items'[i].severity = items[i].severity
                /\ items'[i].count = items[i].count
                /\ items'[i].base = items[i].base
                /\ items'[i].opener = items[i].opener
                /\ items'[i].racers = items[i].racers
<1>1. items \in Seq(Rows) /\ j \in 1..Len(items)
  BY DEF WorkInv, TypeOK
<1> DEFINE row == [items[j] EXCEPT !.active = FALSE]
<1>2. items[j] \in Rows
  BY <1>1, RowFields DEF WorkInv
<1>3. items' = [items EXCEPT ![j] = row]
  BY DEF Close
<1>4. /\ row \in Rows /\ ~row.active
      /\ row.severity = items[j].severity /\ row.count = items[j].count
      /\ row.base = items[j].base /\ row.opener = items[j].opener
      /\ row.racers = items[j].racers
  BY <1>2 DEF Rows
<1> HIDE DEF row
<1>5. /\ items' \in Seq(Rows)
      /\ Len(items') = Len(items)
      /\ \A i \in 1..Len(items) : items'[i] = IF i = j THEN row ELSE items[i]
  BY <1>1, <1>3, <1>4, ExceptSeq
<1> QED
  BY <1>4, <1>5

\* The step of a task inserts a row, counts a signal, or leaves the rows alone.
LEMMA TaskItems ==
    ASSUME NEW t \in Tasks, Work(t) \/ Disturb(t)
    PROVE  \/ UNCHANGED items
           \/ pc[t] = "create" /\ Insert(t)
           \/ pc[t] \in {"incr", "conflictIncr"} /\ CountSignal(t)
<1>1. CASE Work(t)
  BY <1>1 DEF Work, CheckCache, Lookup, FillCache, ZAdd, Trim, CountWindow, Create,
     CreateConflicts, ConflictLookup, Announce, CacheNew, Link, ClearWindow, Alert,
     Increment, ConflictIncrement, Goto
<1>2. CASE Disturb(t)
  BY <1>2 DEF Disturb, CreateFails, CreateOutcomeLost, IncrementFails, Abort
<1> QED
  BY <1>1, <1>2

\* A step of the system changes the rows in one of three ways, or not at all.
LEMMA ItemSteps ==
    ASSUME [Next]_vars
    PROVE  \/ UNCHANGED items
           \/ \E t \in Tasks : pc[t] = "create" /\ Insert(t)
           \/ \E t \in Tasks : pc[t] \in {"incr", "conflictIncr"} /\ CountSignal(t)
           \/ \E i \in DOMAIN items : Close(i)
<1>1. CASE UNCHANGED vars
  BY <1>1 DEF vars
<1>2. ASSUME NEW s \in Signals, RecordSignal(s) \/ \E t \in Tasks : Receive(t, s)
      PROVE  UNCHANGED items
  BY <1>2 DEF RecordSignal, Receive
<1>3. ASSUME NEW t \in Tasks, Work(t) \/ Disturb(t)
      PROVE  \/ UNCHANGED items
             \/ pc[t] = "create" /\ Insert(t)
             \/ pc[t] \in {"incr", "conflictIncr"} /\ CountSignal(t)
  BY <1>3, TaskItems
<1>4. CASE Expire
  BY <1>4 DEF Expire
<1> QED
  BY <1>1, <1>2, <1>3, <1>4 DEF Next

\* Rows are never deleted, and an incident never becomes less severe.
LEMMA ItemsGrow ==
    ASSUME WorkInv, [Next]_vars
    PROVE  /\ items' \in Seq(Rows)
           /\ Len(items) \in Nat
           /\ Len(items') \in Nat
           /\ Len(items) <= Len(items')
           /\ \A i \in 1..Len(items) :
                /\ items[i].severity \in 0..3
                /\ items'[i].severity \in 0..3
                /\ items'[i].severity <= items[i].severity
                /\ items[i].count \in Nat
                /\ items'[i].count \in Nat
                /\ items'[i].count >= items[i].count
                /\ items[i].base \in SUBSET Signals
                /\ items'[i].base = items[i].base
                /\ items'[i].opener = items[i].opener
                /\ items'[i].racers = items[i].racers
<1>1. items \in Seq(Rows) /\ Len(items) \in Nat
  BY DEF WorkInv, TypeOK
<1>2. \A i \in 1..Len(items) :
        /\ items[i].severity \in 0..3
        /\ items[i].count \in Nat
        /\ items[i].base \in SUBSET Signals
  BY RowFields DEF WorkInv
<1>3. /\ items' \in Seq(Rows)
      /\ Len(items) <= Len(items')
      /\ \A i \in 1..Len(items) :
           /\ items'[i].severity <= items[i].severity
           /\ items'[i].count >= items[i].count
           /\ items'[i].base = items[i].base
           /\ items'[i].opener = items[i].opener
           /\ items'[i].racers = items[i].racers
  <2>1. CASE UNCHANGED items
    BY <2>1, <1>1, <1>2
  <2>2. CASE \E t \in Tasks : pc[t] = "create" /\ Insert(t)
    BY <2>2, <1>1, <1>2, InsertEffect
  <2>3. CASE \E t \in Tasks : pc[t] \in {"incr", "conflictIncr"} /\ CountSignal(t)
    BY <2>3, <1>1, <1>2, CountEffect
  <2>4. CASE \E i \in DOMAIN items : Close(i)
    BY <2>4, <1>1, <1>2, CloseEffect
  <2> QED
    BY <2>1, <2>2, <2>3, <2>4, ItemSteps
<1>4. Len(items') \in Nat
  BY <1>3
<1>5. \A i \in 1..Len(items') : items'[i].severity \in 0..3 /\ items'[i].count \in Nat
  <2>1. \A i \in 1..Len(items') : items'[i] \in Rows
    BY <1>3, ElementOfSeq
  <2> QED
    BY <2>1 DEF Rows
<1> QED
  BY <1>1, <1>2, <1>3, <1>4, <1>5

-----------------------------------------------------------------------------
(* Type correctness.                                                       *)

\* It holds at the start.
LEMMA InitWorkInv == Init => WorkInv
<1> SUFFICES ASSUME Init PROVE WorkInv
  OBVIOUS
<1>1. items \in Seq(Rows) /\ Len(items) = 0
  BY EmptySeq DEF Init
<1> QED
  BY <1>1, DedupAssumption DEF Init, WorkInv, TypeOK, AtWork, Steps, Holding, Counted

\* The part of the invariant about the tasks.
TaskOK ==
    /\ pc \in [Tasks -> Steps]
    /\ signal \in [Tasks -> Signals \cup {NoSignal}]
    /\ sized \in [Tasks -> SUBSET Signals]
    /\ found \in [Tasks -> 0..Len(items)]
    /\ attempt \in [Tasks -> 1..MaxAttempts]
    /\ tries \in [Tasks -> 1..MaxAttempts]
    /\ \A t \in Tasks : AtWork(t)

\* What a task holds keeps its type when the task leaves or tries again.
LEMMA RetryType ==
    ASSUME WorkInv, [Next]_vars, NEW t \in Tasks, pc[t] # "idle", stored' = stored,
           Retry(t) \/ Leave(t)
    PROVE  TaskOK'
<1>1. 0..Len(items) \subseteq 0..Len(items')
  <2>1. Len(items) \in Nat /\ Len(items') \in Nat /\ Len(items) <= Len(items')
    BY ItemsGrow
  <2> QED
    BY <2>1
<1> USE DedupAssumption DEF WorkInv, TypeOK, AtWork, Steps, Holding, TaskOK
<1>2. found' \in [Tasks -> 0..Len(items)] => found' \in [Tasks -> 0..Len(items')]
  BY <1>1
<1>3. CASE Leave(t)
  BY <1>2, <1>3 DEF Leave
<1>4. CASE /\ attempt[t] < MaxAttempts
           /\ attempt' = [attempt EXCEPT ![t] = @ + 1]
           /\ tries' = [tries EXCEPT ![t] = 1]
           /\ pc' = [pc EXCEPT ![t] = "create"]
           /\ UNCHANGED <<signal, sized, found>>
  BY <1>2, <1>4
<1> QED
  BY <1>3, <1>4 DEF Retry, Raise

\* Failed calls are counted.
LEMMA FailuresCounted ==
    ASSUME WorkInv, [Next]_vars
    PROVE  failed' \in Nat
<1> DEFINE Ok == failed' = failed \/ failed' = failed + 1
<1>1. failed \in Nat
  BY DEF WorkInv, TypeOK
<1>2. ASSUME NEW t \in Tasks, Work(t) PROVE Ok
  BY <1>2 DEF Work, CheckCache, Lookup, FillCache, ZAdd, Trim, CountWindow, Create,
     CreateConflicts, ConflictLookup, Announce, CacheNew, Link, ClearWindow, Alert,
     Increment, ConflictIncrement, Return, Retry, Raise, historyVars
<1>3. ASSUME NEW t \in Tasks, Disturb(t) PROVE Ok
  BY <1>3 DEF Disturb, CreateFails, CreateOutcomeLost, IncrementFails, Abort, Retry, Raise
<1>4. ASSUME \/ UNCHANGED vars
             \/ \E s \in Signals : RecordSignal(s) \/ \E t \in Tasks : Receive(t, s)
             \/ \E i \in DOMAIN items : Close(i)
             \/ Expire
      PROVE  Ok
  BY <1>4 DEF vars, RecordSignal, Receive, Close, Expire, historyVars
<1>5. Ok
  BY <1>2, <1>3, <1>4 DEF Next
<1> QED
  BY <1>1, <1>5

\* Every step keeps the invariant.
LEMMA NextWorkInv == WorkInv /\ [Next]_vars => WorkInv'
<1> SUFFICES ASSUME WorkInv, [Next]_vars PROVE WorkInv'
  OBVIOUS
<1> DEFINE n == Len(items)
           Rest == /\ debounce \in 0..n
                   /\ window \subseteq stored
                   /\ stored \subseteq Signals
                   /\ linked \in [Signals -> 0..n]
                   /\ TaskOK
                   /\ delivered \in [Signals -> 0..MaxDeliveries]
                   /\ returned \subseteq (Signals \X (1..n))
                   /\ closes \in 0..MaxCloses
                   /\ faults \in 0..MaxFaults
<1>1. /\ n \in Nat /\ n' \in Nat /\ n <= n'
      /\ DOMAIN items = 1..n
  BY ItemsGrow DEF WorkInv, TypeOK
<1>2. Rest
  BY DEF WorkInv, TypeOK, TaskOK
<1>3. Rest' => WorkInv'
  BY ItemsGrow, FailuresCounted DEF WorkInv, TypeOK, TaskOK
<1> HIDE DEF n
<1> USE DedupAssumption DEF Steps, Holding, AtWork, TaskOK
<1>4. ASSUME NEW s \in Signals, RecordSignal(s) PROVE Rest'
  BY <1>4, <1>1, <1>2 DEF RecordSignal, n, redisVars, taskVars, historyVars, boundVars
<1>5. ASSUME NEW s \in Signals, NEW t \in Tasks, Receive(t, s) PROVE Rest'
  <2>1. UNCHANGED <<items, debounce, window, stored, linked, sized, found,
                    attempt, tries, returned, closes, faults>>
    BY <1>5 DEF Receive, redisVars, mongoVars, boundVars
  <2>2. delivered' \in [Signals -> 0..MaxDeliveries]
    BY <1>5, <1>2 DEF Receive
  <2>3. TaskOK'
    BY <1>5, <2>1, <1>2 DEF Receive, Goto, n
  <2> HIDE DEF TaskOK
  <2> QED
    BY <2>1, <2>2, <2>3, <1>1, <1>2 DEF n
<1>6. ASSUME NEW t \in Tasks, CheckCache(t) PROVE Rest'
  BY <1>6, <1>1, <1>2 DEF n, redisVars, mongoVars, taskVars, historyVars, boundVars,
     CheckCache, Goto, Finds
<1>7. ASSUME NEW t \in Tasks, Lookup(t) PROVE Rest'
  <2>1. UNCHANGED <<items, debounce, window, stored, linked, signal, sized,
                    attempt, tries, delivered, returned, closes, faults>>
    BY <1>7 DEF Lookup, redisVars, mongoVars, historyVars, boundVars
  <2>2. CASE \E i \in Active : Goto(t, "lookup", "fill") /\ Finds(t, i)
    <3>1. PICK i \in 1..n : Goto(t, "lookup", "fill") /\ Finds(t, i)
      BY <2>2, <1>1 DEF Active
    <3>2. TaskOK'
      BY <2>1, <3>1, <1>1, <1>2 DEF n, Goto, Finds
    <3> QED
      BY <2>1, <3>2, <1>1, <1>2 DEF n
  <2>3. CASE Goto(t, "lookup", "zadd") /\ UNCHANGED found
    BY <2>1, <2>3, <1>1, <1>2 DEF n, Goto
  <2> QED
    BY <1>7, <2>2, <2>3 DEF Lookup
<1>8. ASSUME NEW t \in Tasks, FillCache(t) PROVE Rest'
  BY <1>8, <1>1, <1>2 DEF n, redisVars, mongoVars, taskVars, historyVars, boundVars,
     FillCache, Goto
<1>9. ASSUME NEW t \in Tasks, ZAdd(t) PROVE Rest'
  BY <1>9, <1>1, <1>2 DEF n, redisVars, mongoVars, taskVars, historyVars, boundVars,
     ZAdd, Goto
<1>10. ASSUME NEW t \in Tasks, Trim(t) PROVE Rest'
  BY <1>10, <1>1, <1>2 DEF n, redisVars, mongoVars, taskVars, historyVars, boundVars,
     Trim, Goto
<1>11. ASSUME NEW t \in Tasks, CountWindow(t) PROVE Rest'
  <2>1. UNCHANGED <<items, debounce, window, stored, linked,
                    delivered, returned, closes, faults>>
    BY <1>11 DEF CountWindow, redisVars, mongoVars, historyVars, boundVars
  <2>2. CASE /\ Goto(t, "card", "recheck")
             /\ sized' = [sized EXCEPT ![t] = window]
             /\ UNCHANGED <<signal, found, attempt, tries>>
    BY <2>1, <2>2, <1>1, <1>2 DEF n, Goto
  <2>3. CASE Leave(t)
    BY <2>1, <2>3, <1>1, <1>2 DEF n, Leave
  <2> QED
    BY <1>11, <2>2, <2>3 DEF CountWindow
<1>12. ASSUME NEW t \in Tasks, Create(t) PROVE Rest'
  BY <1>12, <1>1, <1>2 DEF n, redisVars, mongoVars, taskVars, historyVars, boundVars,
     Create, Goto, Finds, Insert
<1>13. ASSUME NEW t \in Tasks, CreateConflicts(t) PROVE Rest'
  BY <1>13, <1>1, <1>2 DEF n, redisVars, mongoVars, taskVars, historyVars, boundVars,
     CreateConflicts, Goto
<1>14. ASSUME NEW t \in Tasks, ConflictLookup(t) PROVE Rest'
  <2>1. UNCHANGED <<items, debounce, window, stored, linked,
                    delivered, returned, closes, faults>>
    BY <1>14 DEF ConflictLookup, redisVars, mongoVars, historyVars, boundVars
  <2>2. CASE /\ \E i \in Active : Goto(t, "conflict", "conflictIncr") /\ Finds(t, i)
             /\ UNCHANGED <<signal, sized, attempt, tries>>
    BY <2>1, <2>2, <1>1, <1>2 DEF n, Goto, Finds, Active
  <2>3. CASE Retry(t)
    <3>1. pc[t] # "idle"
      BY <1>14 DEF ConflictLookup
    <3>2. TaskOK'
      BY <2>1, <2>3, <3>1, RetryType
    <3> QED
      BY <2>1, <3>2, <1>1, <1>2 DEF n
  <2> QED
    BY <1>14, <2>2, <2>3 DEF ConflictLookup
<1>15. ASSUME NEW t \in Tasks, Announce(t) PROVE Rest'
  BY <1>15, <1>1, <1>2 DEF n, redisVars, mongoVars, taskVars, historyVars, boundVars,
     Announce, Goto
<1>16. ASSUME NEW t \in Tasks, CacheNew(t) PROVE Rest'
  BY <1>16, <1>1, <1>2 DEF n, redisVars, mongoVars, taskVars, historyVars, boundVars,
     CacheNew, Goto
<1>17. ASSUME NEW t \in Tasks, Link(t) PROVE Rest'
  BY <1>17, <1>1, <1>2 DEF n, redisVars, mongoVars, taskVars, historyVars, boundVars,
     Link, Goto
<1>18. ASSUME NEW t \in Tasks, ClearWindow(t) PROVE Rest'
  BY <1>18, <1>1, <1>2 DEF n, redisVars, mongoVars, taskVars, historyVars, boundVars,
     ClearWindow, Goto
<1>19. ASSUME NEW t \in Tasks, Alert(t) PROVE Rest'
  BY <1>19, <1>1, <1>2 DEF n, redisVars, mongoVars, taskVars, historyVars, boundVars,
     Alert, Return, Leave
<1>20. ASSUME NEW t \in Tasks, Increment(t) PROVE Rest'
  BY <1>20, <1>1, <1>2 DEF n, redisVars, mongoVars, taskVars, historyVars, boundVars,
     Increment, Return, Leave
<1>21. ASSUME NEW t \in Tasks, ConflictIncrement(t) PROVE Rest'
  BY <1>21, <1>1, <1>2 DEF n, redisVars, mongoVars, taskVars, historyVars, boundVars,
     ConflictIncrement, Goto
<1>22. ASSUME NEW t \in Tasks, CreateFails(t) PROVE Rest'
  <2>1. UNCHANGED <<debounce, window, stored, linked, delivered,
                    returned, closes>>
    BY <1>22 DEF CreateFails, Fault, redisVars, mongoVars, historyVars
  <2>2. faults' \in 0..MaxFaults
    BY <1>22, <1>2 DEF CreateFails, Fault
  <2>3. pc[t] # "idle" /\ Retry(t)
    BY <1>22 DEF CreateFails
  <2>4. TaskOK'
    BY <2>1, <2>3, RetryType
  <2> HIDE DEF TaskOK
  <2> QED
    BY <2>1, <2>2, <2>4, <1>1, <1>2
<1>23. ASSUME NEW t \in Tasks, CreateOutcomeLost(t) PROVE Rest'
  <2>1. UNCHANGED <<debounce, window, stored, linked, delivered,
                    returned, closes>>
    BY <1>23 DEF CreateOutcomeLost, Fault, redisVars, mongoVars, historyVars
  <2>2. faults' \in 0..MaxFaults
    BY <1>23, <1>2 DEF CreateOutcomeLost, Fault
  <2>3. pc[t] # "idle" /\ Retry(t)
    BY <1>23 DEF CreateOutcomeLost
  <2>4. TaskOK'
    BY <2>1, <2>3, RetryType
  <2> HIDE DEF TaskOK
  <2> QED
    BY <2>1, <2>2, <2>4, <1>1, <1>2
<1>24. ASSUME NEW t \in Tasks, IncrementFails(t) PROVE Rest'
  <2>1. UNCHANGED <<debounce, window, stored, linked, delivered,
                    returned, closes>>
    BY <1>24 DEF IncrementFails, Fault, redisVars, mongoVars, historyVars
  <2>2. faults' \in 0..MaxFaults
    BY <1>24, <1>2 DEF IncrementFails, Fault
  <2>3. CASE /\ tries[t] < MaxAttempts
             /\ tries' = [tries EXCEPT ![t] = @ + 1]
             /\ UNCHANGED <<pc, signal, sized, found, attempt>>
    <3>1. TaskOK'
      BY <2>1, <2>3, <1>1, <1>2 DEF n
    <3> HIDE DEF TaskOK
    <3> QED
      BY <2>1, <2>2, <3>1, <1>1, <1>2
  <2>4. CASE Retry(t) \/ Leave(t)
    <3>1. pc[t] # "idle"
      BY <1>24 DEF IncrementFails
    <3>2. TaskOK'
      BY <2>1, <2>4, <3>1, RetryType
    <3> HIDE DEF TaskOK
    <3> QED
      BY <2>1, <2>2, <3>2, <1>1, <1>2
  <2> QED
    BY <1>24, <2>3, <2>4 DEF IncrementFails, Raise
<1>25. ASSUME NEW t \in Tasks, Abort(t) PROVE Rest'
  BY <1>25, <1>1, <1>2 DEF n, redisVars, mongoVars, taskVars, historyVars, boundVars,
     Abort, Fault, Leave, Raise
<1>26. ASSUME NEW i \in DOMAIN items, Close(i) PROVE Rest'
  <2>1. UNCHANGED <<debounce, window, stored, linked, pc, signal, sized, found,
                    attempt, tries, delivered, returned, faults>>
    BY <1>26 DEF Close, redisVars, mongoVars, taskVars, historyVars
  <2>2. closes' \in 0..MaxCloses
    BY <1>26, <1>2 DEF Close
  <2>3. TaskOK'
    BY <2>1, <1>1, <1>2 DEF n
  <2> HIDE DEF TaskOK
  <2> QED
    BY <2>1, <2>2, <2>3, <1>1, <1>2
<1>27. ASSUME Expire PROVE Rest'
  <2>1. UNCHANGED <<items, stored, linked, pc, signal, sized, found,
                    attempt, tries, delivered, returned, closes, faults>>
    BY <1>27 DEF Expire, mongoVars, taskVars, historyVars, boundVars
  <2>2. debounce' \in 0..n /\ window' \subseteq stored
    BY <1>27, <1>1, <1>2 DEF Expire
  <2> QED
    BY <2>1, <2>2, <1>2 DEF n
<1>28. ASSUME UNCHANGED vars PROVE Rest'
  <2>1. UNCHANGED <<items, debounce, window, stored, linked, pc, signal, sized, found,
                    attempt, tries, delivered, returned, closes, faults>>
    BY <1>28 DEF vars,
     redisVars, mongoVars, taskVars, historyVars, boundVars
  <2> QED
    BY <2>1, <1>2 DEF n
<1> QED
  BY <1>3, <1>4, <1>5, <1>6, <1>7, <1>8, <1>9, <1>10, <1>11, <1>12,
     <1>13, <1>14, <1>15, <1>16, <1>17, <1>18, <1>19, <1>20, <1>21, <1>22,
     <1>23, <1>24, <1>25, <1>26, <1>27, <1>28 DEF Next, Work, Disturb

\* It holds throughout.
LEMMA WorkInvariant == Spec => []WorkInv
<1> QED
  BY InitWorkInv, NextWorkInv, PTL DEF Spec

\* Every row, key, index and counter keeps its type, and no task holds an
\* incident that does not exist.
THEOREM TypeCorrect == Spec => []TypeOK
<1>1. WorkInv => TypeOK
  BY DEF WorkInv
<1> QED
  BY <1>1, WorkInvariant, PTL

-----------------------------------------------------------------------------
(* At most one active incident.                                            *)

Unique == \A i, j \in Active : i = j

\* A set without two different members has at most one.
LEMMA UniqueIsOne == ASSUME WorkInv, Unique PROVE OneActive
<1>1. CASE Active = {}
  BY <1>1, FS_EmptySet DEF OneActive
<1>2. CASE Active # {}
  <2>1. PICK i : Active = {i}
    BY <1>2 DEF Unique
  <2>2. Cardinality(Active) = 1
    BY <2>1, FS_Singleton
  <2> QED
    BY <2>2 DEF OneActive
<1> QED
  BY <1>1, <1>2

\* Only an insertion adds an active row, and only when there is none.
LEMMA NextUnique == ASSUME WorkInv, Unique, [Next]_vars PROVE Unique'
<1>1. /\ DOMAIN items = 1..Len(items) /\ DOMAIN items' = 1..Len(items')
      /\ Len(items) \in Nat
  BY ItemsGrow
<1>2. CASE UNCHANGED items
  BY <1>2 DEF Unique, Active
<1>3. ASSUME NEW t \in Tasks, pc[t] = "create", Insert(t)
      PROVE  Unique'
  <2>1. /\ Len(items') = Len(items) + 1
        /\ \A i \in 1..Len(items) : items'[i] = items[i]
    BY <1>3, InsertEffect
  <2>2. \A i \in 1..Len(items) : ~items[i].active
    BY <1>1, <1>3 DEF Insert, Active
  <2>3. Active' \subseteq {Len(items) + 1}
    BY <1>1, <2>1, <2>2 DEF Active
  <2> QED
    BY <2>3 DEF Unique
<1>4. ASSUME NEW t \in Tasks, pc[t] \in {"incr", "conflictIncr"}, CountSignal(t)
      PROVE  Unique'
  <2>1. Len(items') = Len(items) /\ \A i \in 1..Len(items) : items'[i].active = items[i].active
    BY <1>4, CountEffect
  <2> QED
    BY <1>1, <2>1 DEF Unique, Active
<1>5. ASSUME NEW j \in DOMAIN items, Close(j)
      PROVE  Unique'
  <2>1. /\ Len(items') = Len(items)
        /\ \A i \in 1..Len(items) : items'[i].active => items[i].active
    BY <1>5, CloseEffect
  <2> QED
    BY <1>1, <2>1 DEF Unique, Active
<1> QED
  BY <1>2, <1>3, <1>4, <1>5, ItemSteps

\* However many workers race to create it, a component has at most one active
\* incident: the partial unique index holds against every retry.
THEOREM AtMostOneActive == Spec => []OneActive
<1>1. Init => Unique
  BY DEF Init, Unique, Active
<1>2. WorkInv /\ Unique /\ [Next]_vars => Unique'
  BY NextUnique
<1>3. WorkInv /\ Unique => OneActive
  BY UniqueIsOne
<1> QED
  BY <1>1, <1>2, <1>3, WorkInvariant, PTL DEF Spec

-----------------------------------------------------------------------------
(* Links are final.                                                        *)

\* Creators that link at the same time never take a signal from one another:
\* each links only what is unlinked.
THEOREM LinksAreFinal == Spec => LinkIsFinal
<1>1. WorkInv /\ [Next]_vars
        => [\A s \in Signals : linked[s] # 0 => linked'[s] = linked[s]]_vars
  <2> SUFFICES ASSUME WorkInv, [Next]_vars
               PROVE  [\A s \in Signals : linked[s] # 0 => linked'[s] = linked[s]]_vars
    OBVIOUS
  <2>1. ASSUME NEW t \in Tasks, Link(t)
        PROVE  \A s \in Signals : linked[s] # 0 => linked'[s] = linked[s]
    BY <2>1 DEF Link
  <2>2. ASSUME NEW t \in Tasks, Work(t), ~Link(t)
        PROVE  UNCHANGED linked
    BY <2>2 DEF Work, CheckCache, Lookup, FillCache, ZAdd, Trim, CountWindow, Create,
       CreateConflicts, ConflictLookup, Announce, CacheNew, ClearWindow, Alert,
       Increment, ConflictIncrement, mongoVars
  <2>3. ASSUME NEW t \in Tasks, Disturb(t)
        PROVE  UNCHANGED linked
    BY <2>3 DEF Disturb, CreateFails, CreateOutcomeLost, IncrementFails, Abort, mongoVars
  <2>4. ASSUME NEW s \in Signals, RecordSignal(s) \/ \E t \in Tasks : Receive(t, s)
        PROVE  UNCHANGED linked
    BY <2>4 DEF RecordSignal, Receive, mongoVars
  <2>5. ASSUME (\E i \in DOMAIN items : Close(i)) \/ Expire
        PROVE  UNCHANGED linked
    BY <2>5 DEF Close, Expire, mongoVars
  <2> QED
    BY <2>1, <2>2, <2>3, <2>4, <2>5 DEF Next
<1> QED
  BY <1>1, WorkInvariant, PTL DEF Spec, LinkIsFinal

-----------------------------------------------------------------------------
(* Who is credited with what: the incidents of the signals counted.        *)

\* The task keeps its credit, or has none.
Kept(u) ==
    pc'[u] \in Counted =>
        pc[u] \in Counted /\ found'[u] = found[u] /\ signal'[u] = signal[u]

\* A step of a task that neither creates nor counts gives no task a credit.
LEMMA TaskKeeps ==
    ASSUME WorkInv, NEW t \in Tasks, NEW u \in Tasks,
           Work(t) \/ Disturb(t), ~Create(t), ~ConflictIncrement(t)
    PROVE  Kept(u)
<1>1. /\ pc \in [Tasks -> Steps] /\ found \in [Tasks -> 0..Len(items)]
      /\ signal \in [Tasks -> Signals \cup {NoSignal}]
  BY DEF WorkInv, TypeOK
<1> USE <1>1 DEF Kept, Counted
<1>4. ASSUME CheckCache(t) PROVE Kept(u)
  BY <1>4 DEF CheckCache, Finds, Goto,
     redisVars, mongoVars, taskVars, historyVars, boundVars
<1>5. ASSUME Lookup(t) PROVE Kept(u)
  BY <1>5 DEF Lookup, Finds, Goto,
     redisVars, mongoVars, taskVars, historyVars, boundVars
<1>6. ASSUME FillCache(t) PROVE Kept(u)
  BY <1>6 DEF FillCache, Goto,
     redisVars, mongoVars, taskVars, historyVars, boundVars
<1>7. ASSUME ZAdd(t) PROVE Kept(u)
  BY <1>7 DEF ZAdd, Goto,
     redisVars, mongoVars, taskVars, historyVars, boundVars
<1>8. ASSUME Trim(t) PROVE Kept(u)
  BY <1>8 DEF Trim, Goto,
     redisVars, mongoVars, taskVars, historyVars, boundVars
<1>9. ASSUME CountWindow(t) PROVE Kept(u)
  BY <1>9 DEF CountWindow, Goto, Leave,
     redisVars, mongoVars, taskVars, historyVars, boundVars
<1>10. ASSUME CreateConflicts(t) PROVE Kept(u)
  BY <1>10 DEF CreateConflicts, Goto,
     redisVars, mongoVars, taskVars, historyVars, boundVars
<1>11. ASSUME ConflictLookup(t) PROVE Kept(u)
  BY <1>11 DEF ConflictLookup, Finds, Goto, Retry, Leave,
     redisVars, mongoVars, taskVars, historyVars, boundVars, Raise
<1>12. ASSUME Announce(t) PROVE Kept(u)
  BY <1>12 DEF Announce, Goto,
     redisVars, mongoVars, taskVars, historyVars, boundVars
<1>13. ASSUME CacheNew(t) PROVE Kept(u)
  BY <1>13 DEF CacheNew, Goto,
     redisVars, mongoVars, taskVars, historyVars, boundVars
<1>14. ASSUME Link(t) PROVE Kept(u)
  BY <1>14 DEF Link, Goto,
     redisVars, mongoVars, taskVars, historyVars, boundVars
<1>15. ASSUME ClearWindow(t) PROVE Kept(u)
  BY <1>15 DEF ClearWindow, Goto,
     redisVars, mongoVars, taskVars, historyVars, boundVars
<1>16. ASSUME Alert(t) PROVE Kept(u)
  BY <1>16 DEF Alert, Return, Leave,
     redisVars, mongoVars, taskVars, historyVars, boundVars
<1>17. ASSUME Increment(t) PROVE Kept(u)
  BY <1>17 DEF Increment, Return, Leave,
     redisVars, mongoVars, taskVars, historyVars, boundVars, Raise
<1>18. ASSUME CreateFails(t) PROVE Kept(u)
  BY <1>18 DEF CreateFails, Retry, Leave,
     redisVars, mongoVars, taskVars, historyVars, boundVars, Raise
<1>19. ASSUME CreateOutcomeLost(t) PROVE Kept(u)
  BY <1>19 DEF CreateOutcomeLost, Retry, Leave,
     redisVars, mongoVars, taskVars, historyVars, boundVars, Raise
<1>20. ASSUME IncrementFails(t) PROVE Kept(u)
  BY <1>20 DEF IncrementFails, Retry, Leave,
     redisVars, mongoVars, taskVars, historyVars, boundVars, Raise
<1>21. ASSUME Abort(t) PROVE Kept(u)
  BY <1>21 DEF Abort, Leave,
     redisVars, mongoVars, taskVars, historyVars, boundVars, Raise
<1> QED
  BY <1>4, <1>5, <1>6, <1>7, <1>8, <1>9, <1>10, <1>11, <1>12, <1>13, <1>14, <1>15,
     <1>16, <1>17, <1>18, <1>19, <1>20, <1>21 DEF Work, Disturb

\* A creation or a counted signal credits the task that made it, and no other.
LEMMA TaskCredited ==
    ASSUME WorkInv, NEW t \in Tasks, Create(t) \/ ConflictIncrement(t)
    PROVE  /\ signal' = signal
           /\ \A u \in Tasks \ {t} : Kept(u)
           /\ Create(t) => found'[t] = Len(items')
           /\ ConflictIncrement(t) => found'[t] = found[t]
<1>1. pc \in [Tasks -> Steps] /\ found \in [Tasks -> 0..Len(items)]
  BY DEF WorkInv, TypeOK
<1> QED
  BY <1>1 DEF Create, ConflictIncrement, Goto, Finds, Kept

\* The other steps credit nobody.
LEMMA OthersKeep ==
    ASSUME WorkInv, NEW u \in Tasks,
           \/ UNCHANGED vars
           \/ \E s \in Signals : RecordSignal(s) \/ \E t \in Tasks : Receive(t, s)
           \/ \E i \in DOMAIN items : Close(i)
           \/ Expire
    PROVE  Kept(u) /\ returned' = returned
<1>1. /\ pc \in [Tasks -> Steps] /\ signal \in [Tasks -> Signals \cup {NoSignal}]
  BY DEF WorkInv, TypeOK
<1>2. ASSUME NEW t \in Tasks, NEW s \in Signals, Receive(t, s)
      PROVE  Kept(u) /\ returned' = returned
  BY <1>1, <1>2 DEF Receive, Goto, Kept, Counted
<1> QED
  BY <1>2 DEF vars, RecordSignal, Close, Expire, Kept, taskVars, historyVars

\* What resolve_work_item returns, a task was credited with or just counted.
LEMMA TaskReturns ==
    ASSUME NEW t \in Tasks, Work(t) \/ Disturb(t), returned' # returned
    PROVE  /\ returned' = returned \cup {<<signal[t], found[t]>>}
           /\ Increment(t) \/ Alert(t)
<1>1. ASSUME Work(t), ~Increment(t), ~Alert(t) PROVE returned' = returned
  BY <1>1 DEF Work, CheckCache, Lookup, FillCache, ZAdd, Trim, CountWindow, Create,
     CreateConflicts, ConflictLookup, Announce, CacheNew, Link, ClearWindow,
     ConflictIncrement, historyVars
<1>2. ASSUME Disturb(t) PROVE returned' = returned
  BY <1>2 DEF Disturb, CreateFails, CreateOutcomeLost, IncrementFails, Abort, historyVars
<1> QED
  BY <1>1, <1>2 DEF Increment, Alert, Return

\* A task with a credit holds an incident and a signal.
LEMMA CreditTyped ==
    ASSUME WorkInv, NEW u \in Tasks, pc[u] \in Counted \cup {"incr", "conflictIncr"}
    PROVE  found[u] \in 1..Len(items) /\ signal[u] \in Signals
  BY DEF WorkInv, TypeOK, AtWork, Counted, Holding

-----------------------------------------------------------------------------
(* Severity.                                                               *)

\* The invariant about the severities is inductive.
LEMMA NextCover == ASSUME WorkInv, CoverInv, [Next]_vars PROVE CoverInv'
<1> DEFINE Holds(u) == pc[u] \in Counted => items[found[u]].severity <= Rank[signal[u]]
<1>1. /\ Len(items) \in Nat
      /\ \A i \in 1..Len(items) :
           /\ items[i].severity \in 0..3
           /\ items'[i].severity \in 0..3
           /\ items'[i].severity <= items[i].severity
  BY ItemsGrow
<1>2. \A r \in returned : r[1] \in Signals /\ r[2] \in 1..Len(items)
  BY DEF WorkInv, TypeOK
<1>3. \A s \in Signals : Rank[s] \in 0..3
  BY DedupAssumption
<1>4. \A r \in returned : items'[r[2]].severity <= Rank[r[1]]
  BY <1>1, <1>2, <1>3 DEF CoverInv, SeverityCovers
<1>5. ASSUME NEW u \in Tasks, Kept(u)
      PROVE  Holds(u)'
  <2> SUFFICES ASSUME pc'[u] \in Counted
               PROVE  items'[found'[u]].severity <= Rank[signal'[u]]
    OBVIOUS
  <2>1. pc[u] \in Counted /\ found'[u] = found[u] /\ signal'[u] = signal[u]
    BY <1>5 DEF Kept
  <2>2. found[u] \in 1..Len(items) /\ signal[u] \in Signals
    BY <2>1, CreditTyped
  <2>3. items[found[u]].severity <= Rank[signal[u]]
    BY <2>1 DEF CoverInv
  <2> QED
    BY <2>1, <2>2, <2>3, <1>1, <1>3
<1>6. ASSUME NEW t \in Tasks, Create(t) \/ ConflictIncrement(t)
      PROVE  CoverInv'
  <2>1. returned' = returned
    BY <1>6 DEF Create, ConflictIncrement, historyVars
  <2>2. signal' = signal /\ \A u \in Tasks \ {t} : Kept(u)
    BY <1>6, TaskCredited
  <2>3. items'[found'[t]].severity <= Rank[signal[t]]
    <3>1. CASE Create(t)
      <4>1. pc[t] = "create" /\ Insert(t)
        BY <3>1 DEF Create, Goto
      <4>2. Len(items') = Len(items) + 1
            /\ items'[Len(items) + 1].severity = Rank[signal[t]]
        BY <4>1, InsertEffect
      <4>3. found'[t] = Len(items')
        BY <3>1, TaskCredited
      <4>4. signal[t] \in Signals
        BY <4>1 DEF WorkInv, TypeOK, AtWork
      <4> QED
        BY <4>2, <4>3, <4>4, <1>3
    <3>2. CASE ConflictIncrement(t)
      <4>1. pc[t] = "conflictIncr" /\ CountSignal(t)
        BY <3>2 DEF ConflictIncrement, Goto
      <4> QED
        BY <3>2, <4>1, CountEffect, TaskCredited
    <3> QED
      BY <1>6, <3>1, <3>2
  <2>4. \A u \in Tasks : Holds(u)'
    BY <1>5, <2>2, <2>3
  <2> QED
    BY <1>4, <2>1, <2>4 DEF CoverInv, SeverityCovers
<1>7. ASSUME NEW t \in Tasks, Work(t) \/ Disturb(t), ~Create(t), ~ConflictIncrement(t)
      PROVE  CoverInv'
  <2>1. \A u \in Tasks : Holds(u)'
    BY <1>5, <1>7, TaskKeeps
  <2>2. ASSUME returned' # returned
        PROVE  /\ returned' = returned \cup {<<signal[t], found[t]>>}
               /\ items'[found[t]].severity <= Rank[signal[t]]
    <3>1. returned' = returned \cup {<<signal[t], found[t]>>}
      BY <1>7, <2>2, TaskReturns
    <3>2. CASE Increment(t)
      BY <3>1, <3>2, CountEffect DEF Increment
    <3>3. CASE Alert(t)
      <4>1. UNCHANGED items /\ pc[t] \in Counted
        BY <3>3 DEF Alert, Counted
      <4> QED
        BY <3>1, <4>1 DEF CoverInv
    <3> QED
      BY <1>7, <2>2, <3>2, <3>3, TaskReturns
  <2> QED
    BY <1>4, <2>1, <2>2 DEF CoverInv, SeverityCovers
<1>8. ASSUME \/ UNCHANGED vars
             \/ \E s \in Signals : RecordSignal(s) \/ \E t \in Tasks : Receive(t, s)
             \/ \E i \in DOMAIN items : Close(i)
             \/ Expire
      PROVE  CoverInv'
  <2>1. \A u \in Tasks : Kept(u)
    BY <1>8, OthersKeep
  <2>2. returned' = returned
    BY <1>8 DEF vars, RecordSignal, Receive, Close, Expire, historyVars
  <2>3. \A u \in Tasks : Holds(u)'
    BY <1>5, <2>1
  <2> QED
    BY <1>4, <2>2, <2>3 DEF CoverInv, SeverityCovers
<1> QED
  BY <1>6, <1>7, <1>8 DEF Next

\* An incident is at least as severe as every signal a worker attributed to it,
\* the losers of the race to create it included: no lost update of severity.
THEOREM SeverityAlwaysCovers == Spec => []SeverityCovers
<1>1. Init => CoverInv
  BY DEF Init, CoverInv, SeverityCovers, Counted
<1>2. WorkInv /\ CoverInv /\ [Next]_vars => CoverInv'
  BY NextCover
<1>3. CoverInv => SeverityCovers
  BY DEF CoverInv
<1> QED
  BY <1>1, <1>2, <1>3, WorkInvariant, PTL DEF Spec

-----------------------------------------------------------------------------
(* Counting.                                                               *)

CountedRow(i) ==
    items[i].count >=
        Cardinality(items[i].base \cup (Credited(i) \ {items[i].opener}))

CountInv == \A i \in 1..Len(items) : CountedRow(i)

\* Only signals are credited.
LEMMA CreditedSignals ==
    ASSUME WorkInv, NEW i
    PROVE  Credited(i) \subseteq Signals
<1>1. \A u \in Tasks : pc[u] \in Counted => signal[u] \in Signals
  BY CreditTyped
<1> QED
  BY <1>1 DEF Credited, Attributed

\* A row stays counted when it is credited with nothing new, or with one signal
\* that its count goes up for.
LEMMA RowStaysCounted ==
    ASSUME WorkInv, [Next]_vars, NEW i \in 1..Len(items), CountedRow(i),
           \/ Credited(i)' \subseteq Credited(i)
           \/ \E s : /\ Credited(i)' \subseteq Credited(i) \cup {s}
                     /\ items'[i].count = items[i].count + 1
    PROVE  CountedRow(i)'
<1> DEFINE old == items[i].base \cup (Credited(i) \ {items[i].opener})
           new == items[i].base \cup (Credited(i)' \ {items[i].opener})
<1>1. /\ items[i].count \in Nat /\ items'[i].count \in Nat
      /\ items'[i].count >= items[i].count
      /\ items[i].base \in SUBSET Signals
      /\ items'[i].base = items[i].base
      /\ items'[i].opener = items[i].opener
      /\ items'[i].racers = items[i].racers
  BY ItemsGrow
<1>2. IsFiniteSet(old) /\ Cardinality(old) \in Nat
  <2>1. old \in SUBSET Signals
    BY <1>1, CreditedSignals
  <2> QED
    BY <2>1, DedupAssumption, FS_Subset, FS_CardinalityType
<1>3. items[i].count >= Cardinality(old)
  BY DEF CountedRow
<1>4. SUFFICES items'[i].count >= Cardinality(new)
  BY <1>1 DEF CountedRow
<1>5. CASE Credited(i)' \subseteq Credited(i)
  <2>1. new \in SUBSET old
    BY <1>5
  <2>2. Cardinality(new) <= Cardinality(old) /\ Cardinality(new) \in Nat
    BY <2>1, <1>2, FS_Subset, FS_CardinalityType
  <2> QED
    BY <2>2, <1>1, <1>2, <1>3
<1>6. CASE \E s : /\ Credited(i)' \subseteq Credited(i) \cup {s}
                  /\ items'[i].count = items[i].count + 1
  <2>1. PICK s : /\ Credited(i)' \subseteq Credited(i) \cup {s}
                 /\ items'[i].count = items[i].count + 1
    BY <1>6
  <2>2. new \in SUBSET (old \cup {s})
    BY <2>1
  <2>3. /\ IsFiniteSet(old \cup {s})
        /\ Cardinality(old \cup {s}) \in Nat
        /\ Cardinality(old \cup {s}) <= Cardinality(old) + 1
    <3> HIDE DEF old
    <3>1. IsFiniteSet(old \cup {s})
      BY <1>2, FS_AddElement
    <3>2. Cardinality(old \cup {s})
            = IF s \in old THEN Cardinality(old) ELSE Cardinality(old) + 1
      BY <1>2, FS_AddElement
    <3> QED
      BY <1>2, <3>1, <3>2
  <2>4. Cardinality(new) <= Cardinality(old \cup {s}) /\ Cardinality(new) \in Nat
    BY <2>2, <2>3, FS_Subset, FS_CardinalityType
  <2> HIDE DEF old, new
  <2> QED
    BY <2>1, <2>3, <2>4, <1>1, <1>2, <1>3
<1> QED
  BY <1>5, <1>6

\* Tasks that keep their credit, and returns of credited tasks, add nothing.
LEMMA CreditKept ==
    ASSUME NEW i, \A u \in Tasks : Kept(u),
           \/ returned' = returned
           \/ \E t \in Tasks : /\ pc[t] \in Counted
                               /\ returned' = returned \cup {<<signal[t], found[t]>>}
    PROVE  Credited(i)' \subseteq Credited(i)
  BY DEF Credited, Attributed, Kept

\* One task that counts a signal adds that signal, to one incident.
LEMMA CreditGains ==
    ASSUME NEW i, NEW t \in Tasks, \A u \in Tasks \ {t} : Kept(u),
           signal'[t] = signal[t] \/ pc'[t] \notin Counted,
           returned' \subseteq returned \cup {<<signal[t], found[t]>>}
    PROVE  /\ Credited(i)' \subseteq Credited(i) \cup {signal[t]}
           /\ /\ returned' = returned \/ found[t] # i
              /\ found'[t] # i \/ pc'[t] \notin Counted
              => Credited(i)' \subseteq Credited(i)
  BY DEF Credited, Attributed, Kept

\* The rows there were stay counted.
LEMMA OldRowsCounted ==
    ASSUME WorkInv, CountInv, [Next]_vars, NEW i \in 1..Len(items)
    PROVE  CountedRow(i)'
<1>1. CountedRow(i) /\ i # Len(items) + 1
  BY ItemsGrow DEF CountInv
<1>2. ASSUME NEW t \in Tasks, Create(t)
      PROVE  CountedRow(i)'
  <2>1. pc[t] = "create" /\ Insert(t) /\ returned' = returned
    BY <1>2 DEF Create, Goto, historyVars
  <2>2. found'[t] = Len(items) + 1 /\ signal' = signal /\ \A u \in Tasks \ {t} : Kept(u)
    BY <1>2, <2>1, InsertEffect, TaskCredited
  <2>3. Credited(i)' \subseteq Credited(i)
    BY <1>1, <2>1, <2>2, CreditGains
  <2> QED
    BY <1>1, <2>3, RowStaysCounted
<1>3. ASSUME NEW t \in Tasks, ConflictIncrement(t)
      PROVE  CountedRow(i)'
  <2>1. pc[t] = "conflictIncr" /\ CountSignal(t) /\ returned' = returned
    BY <1>3 DEF ConflictIncrement, Goto, historyVars
  <2>2. found'[t] = found[t] /\ signal' = signal /\ \A u \in Tasks \ {t} : Kept(u)
    BY <1>3, TaskCredited
  <2>3. CASE i = found[t]
    <3>1. items'[i].count = items[i].count + 1
      BY <2>1, <2>3, CountEffect
    <3>2. Credited(i)' \subseteq Credited(i) \cup {signal[t]}
      BY <2>1, <2>2, CreditGains
    <3> QED
      BY <1>1, <3>1, <3>2, RowStaysCounted
  <2>4. CASE i # found[t]
    <3>1. Credited(i)' \subseteq Credited(i)
      BY <2>1, <2>2, <2>4, CreditGains
    <3> QED
      BY <1>1, <3>1, RowStaysCounted
  <2> QED
    BY <2>3, <2>4
<1>4. ASSUME NEW t \in Tasks, Increment(t)
      PROVE  CountedRow(i)'
  <2>1. /\ pc[t] = "incr" /\ CountSignal(t)
        /\ returned' = returned \cup {<<signal[t], found[t]>>}
    BY <1>4 DEF Increment, Return
  <2>2. pc'[t] \notin Counted
    BY <1>4 DEF Increment, Return, Leave, WorkInv, TypeOK, Counted
  <2>3. \A u \in Tasks : Kept(u)
    BY <1>4, <2>1, TaskKeeps DEF Work, Create, ConflictIncrement, Goto
  <2>4. CASE i = found[t]
    <3>1. items'[i].count = items[i].count + 1
      BY <2>1, <2>4, CountEffect
    <3>2. Credited(i)' \subseteq Credited(i) \cup {signal[t]}
      BY <2>1, <2>2, <2>3, CreditGains
    <3> QED
      BY <1>1, <3>1, <3>2, RowStaysCounted
  <2>5. CASE i # found[t]
    <3>1. Credited(i)' \subseteq Credited(i)
      BY <2>1, <2>2, <2>3, <2>5, CreditGains
    <3> QED
      BY <1>1, <3>1, RowStaysCounted
  <2> QED
    BY <2>4, <2>5
<1>5. ASSUME NEW t \in Tasks, Work(t) \/ Disturb(t),
             ~Create(t), ~ConflictIncrement(t), ~Increment(t)
      PROVE  CountedRow(i)'
  <2>1. \A u \in Tasks : Kept(u)
    BY <1>5, TaskKeeps
  <2>2. \/ returned' = returned
        \/ /\ pc[t] \in Counted
           /\ returned' = returned \cup {<<signal[t], found[t]>>}
    BY <1>5, TaskReturns DEF Alert, Counted
  <2>3. Credited(i)' \subseteq Credited(i)
    BY <2>1, <2>2, CreditKept
  <2> QED
    BY <1>1, <2>3, RowStaysCounted
<1>6. ASSUME \/ UNCHANGED vars
             \/ \E s \in Signals : RecordSignal(s) \/ \E t \in Tasks : Receive(t, s)
             \/ \E j \in DOMAIN items : Close(j)
             \/ Expire
      PROVE  CountedRow(i)'
  <2>1. \A u \in Tasks : Kept(u) /\ returned' = returned
    BY <1>6, OthersKeep
  <2>2. returned' = returned
    BY <1>6 DEF vars, RecordSignal, Receive, Close, Expire, historyVars
  <2>3. Credited(i)' \subseteq Credited(i)
    BY <2>1, <2>2, CreditKept
  <2> QED
    BY <1>1, <2>3, RowStaysCounted
<1> QED
  BY <1>2, <1>3, <1>4, <1>5, <1>6 DEF Next

\* A row that is created is credited with its opener alone, if with anything.
LEMMA NewRowCounted ==
    ASSUME WorkInv, CountInv, [Next]_vars, NEW t \in Tasks, pc[t] = "create", Insert(t),
           NEW k, k = Len(items) + 1
    PROVE  CountedRow(k)'
<1>1. /\ Len(items) \in Nat /\ Len(items') = k
      /\ items'[k].base = sized[t] /\ items'[k].opener = signal[t]
      /\ items'[k].count = Cardinality(sized[t])
  BY InsertEffect, ItemsGrow
<1>2. sized[t] \in SUBSET Signals /\ Cardinality(sized[t]) \in Nat
  BY DedupAssumption, FS_Subset, FS_CardinalityType DEF WorkInv, TypeOK
<1>3. ASSUME NEW r \in returned' PROVE r[2] # k
  <2>1. CASE r \in returned
    BY <2>1, <1>1 DEF WorkInv, TypeOK
  <2>2. CASE r \notin returned
    <3>1. PICK u \in Tasks : (Work(u) \/ Disturb(u)) /\ returned' # returned
      BY <2>2, OthersKeep DEF Next
    <3>2. r = <<signal[u], found[u]>> /\ pc[u] \in Counted \cup {"incr"}
      BY <2>2, <3>1, TaskReturns DEF Increment, Alert, Counted
    <3> QED
      BY <3>2, <1>1, CreditTyped
  <2> QED
    BY <2>1, <2>2
<1>4. ASSUME NEW u \in Tasks, Kept(u), pc'[u] \in Counted PROVE found'[u] # k
  <2>1. pc[u] \in Counted /\ found'[u] = found[u]
    BY <1>4 DEF Kept
  <2> QED
    BY <2>1, <1>1, CreditTyped
<1>5. ASSUME NEW u \in Tasks, pc'[u] \in Counted, found'[u] = k
      PROVE  signal'[u] = signal[t]
  <2>1. ~Kept(u)
    BY <1>4, <1>5
  <2>2. PICK v \in Tasks : Work(v) \/ Disturb(v)
    BY <2>1, OthersKeep DEF Next
  <2>3. Create(v) \/ ConflictIncrement(v)
    BY <2>1, <2>2, TaskKeeps
  <2>4. u = v /\ signal' = signal
    BY <2>1, <2>3, TaskCredited
  <2>5. CASE Create(v)
    <3>1. pc[v] = "create" /\ Insert(v)
      BY <2>5 DEF Create, Goto
    <3>2. items'[k].opener = signal[v]
      BY <3>1, InsertEffect
    <3> QED
      BY <3>2, <2>4, <1>1
  <2>6. CASE ConflictIncrement(v)
    <3>1. pc[v] = "conflictIncr" /\ CountSignal(v)
      BY <2>6 DEF ConflictIncrement, Goto
    <3>2. Len(items') = Len(items)
      BY <3>1, CountEffect
    <3> QED
      BY <3>2, <1>1
  <2> QED
    BY <2>3, <2>5, <2>6
<1>6. Credited(k)' \subseteq {signal[t]}
  <2>1. Attributed(k)' = {}
    BY <1>3 DEF Attributed
  <2> QED
    BY <2>1, <1>5, <1>1 DEF Credited
<1>7. items'[k].base \cup (Credited(k)' \ {items'[k].opener}) = sized[t]
  BY <1>1, <1>6
<1>8. items'[k].count >= Cardinality(sized[t])
  BY <1>1, <1>2
<1> QED
  BY <1>7, <1>8 DEF CountedRow

\* The invariant about the counts is inductive.
LEMMA NextCount == ASSUME WorkInv, CountInv, [Next]_vars PROVE CountInv'
<1>1. \A i \in 1..Len(items) : CountedRow(i)'
  BY OldRowsCounted
<1>2. Len(items) \in Nat /\ Len(items') \in Nat
  BY ItemsGrow
<1>3. CASE \E t \in Tasks : pc[t] = "create" /\ Insert(t)
  <2>1. Len(items') = Len(items) + 1
    BY <1>3, InsertEffect
  <2>2. \A k \in 1..Len(items') : k = Len(items) + 1 => CountedRow(k)'
    BY <1>3, NewRowCounted
  <2>3. \A k \in 1..Len(items') : CountedRow(k)'
    BY <1>1, <1>2, <2>1, <2>2
  <2> QED
    BY <2>3 DEF CountInv
<1>4. CASE ~ \E t \in Tasks : pc[t] = "create" /\ Insert(t)
  <2>1. Len(items') = Len(items)
    BY <1>4, ItemSteps, CountEffect, CloseEffect
  <2> QED
    BY <1>1, <2>1 DEF CountInv
<1> QED
  BY <1>3, <1>4

\* No signal attributed to an incident is missing from its count, whoever
\* created the incident and whatever failed in between.
THEOREM NothingGoesUncounted == Spec => []NothingUncounted
<1>1. Init => CountInv
  BY DEF Init, CountInv
<1>2. WorkInv /\ CountInv /\ [Next]_vars => CountInv'
  BY NextCount
<1>3. ASSUME WorkInv, CountInv PROVE NothingUncounted
  <2> SUFFICES ASSUME NEW i \in 1..Len(items)
               PROVE  items[i].count >=
                        Cardinality(items[i].base \cup (Attributed(i) \ {items[i].opener}))
    <3>1. DOMAIN items = 1..Len(items)
      BY <1>3 DEF WorkInv, TypeOK
    <3> QED
      BY <3>1 DEF NothingUncounted
  <2> DEFINE all == items[i].base \cup (Credited(i) \ {items[i].opener})
             some == items[i].base \cup (Attributed(i) \ {items[i].opener})
  <2>1. all \in SUBSET Signals /\ items[i].count \in Nat
    BY <1>3, CreditedSignals, RowFields DEF WorkInv
  <2>2. some \in SUBSET all
    BY DEF Credited
  <2>3. items[i].count >= Cardinality(all)
    BY <1>3 DEF CountInv, CountedRow
  <2> HIDE DEF all, some
  <2>4. IsFiniteSet(all) /\ Cardinality(all) \in Nat
    BY <2>1, DedupAssumption, FS_Subset, FS_CardinalityType
  <2>5. Cardinality(some) <= Cardinality(all) /\ Cardinality(some) \in Nat
    BY <2>2, <2>4, FS_Subset, FS_CardinalityType
  <2>6. items[i].count >= Cardinality(some)
    BY <2>1, <2>3, <2>4, <2>5
  <2> QED
    BY <2>6 DEF some
<1> QED
  BY <1>1, <1>2, <1>3, WorkInvariant, PTL DEF Spec

-----------------------------------------------------------------------------
(* A delivery writes to work_items once.                                   *)

\* The writes of resolve_work_item to work_items: one for each incident that was
\* created, and one for each increment of its count.
Writes ==
    UNION {{i} \X (Cardinality(items[i].base)..items[i].count) : i \in DOMAIN items}

\* The times a signal was handed to a task.
Deliveries == UNION {{s} \X (1..delivered[s]) : s \in Signals}

\* A delivery creates one incident, or adds one to the count of one incident, or
\* does neither, however often the task loses a race or retries; each failure
\* may add one write more, as the transaction it hides may have committed.
OneWritePerDelivery == Cardinality(Writes) <= Cardinality(Deliveries) + faults

Charging == {t \in Tasks : pc[t] \in Uncounted}

\* A delivery pays for one write, made or still to be made by a task.
ChargeInv ==
    /\ IsFiniteSet(Writes)
    /\ IsFiniteSet(Charging)
    /\ Cardinality(Writes) + Cardinality(Charging) <= Cardinality(Deliveries) + faults

\* The deliveries are finitely many, however they are spread over the signals.
LEMMA DeliveriesFinite ==
    ASSUME NEW d \in [Signals -> 0..MaxDeliveries]
    PROVE  /\ IsFiniteSet(UNION {{s} \X (1..d[s]) : s \in Signals})
           /\ Cardinality(UNION {{s} \X (1..d[s]) : s \in Signals}) \in Nat
<1>1. UNION {{s} \X (1..d[s]) : s \in Signals} \subseteq Signals \X (1..MaxDeliveries)
  BY DedupAssumption
<1>2. IsFiniteSet(1..MaxDeliveries)
  BY DedupAssumption, FS_Interval
<1>3. IsFiniteSet(Signals \X (1..MaxDeliveries))
  BY <1>2, DedupAssumption, FS_Product
<1> QED
  BY <1>1, <1>3, FS_Subset, FS_CardinalityType

\* A pair is a write when the count of the incident has reached it.
LEMMA WritesMembers ==
    ASSUME NEW i, NEW n
    PROVE  <<i, n>> \in Writes <=>
             /\ i \in DOMAIN items
             /\ n \in Cardinality(items[i].base)..items[i].count
  BY DEF Writes

\* Every write is such a pair.
LEMMA WritesPairs ==
    ASSUME NEW c \in Writes
    PROVE  \E i, n : c = <<i, n>>
  BY DEF Writes

\* Closing an incident is not among them.
LEMMA CloseWritesNone ==
    ASSUME WorkInv, NEW j \in DOMAIN items, Close(j)
    PROVE  Writes' \subseteq Writes
<1>1. items \in Seq(Rows) /\ items' \in Seq(Rows)
  BY CloseEffect DEF WorkInv, TypeOK
<1>2. /\ DOMAIN items' = DOMAIN items
      /\ \A i \in DOMAIN items : /\ items'[i].count = items[i].count
                                 /\ items'[i].base = items[i].base
  BY <1>1, CloseEffect
<1> QED
  BY <1>2 DEF Writes

\* Creating an incident and counting a signal is one write each; nothing else
\* is.
LEMMA WritesSteps ==
    ASSUME WorkInv, [Next]_vars
    PROVE  \/ Writes' \subseteq Writes
           \/ \E t \in Tasks :
                /\ \/ pc[t] = "create" /\ Insert(t)
                   \/ pc[t] \in {"incr", "conflictIncr"} /\ CountSignal(t)
                /\ \E c : Writes' \subseteq Writes \cup {c}
<1>1. /\ DOMAIN items = 1..Len(items) /\ DOMAIN items' = 1..Len(items')
      /\ Len(items) \in Nat
      /\ \A i \in 1..Len(items) : /\ items[i].count \in Nat
                                  /\ items'[i].base = items[i].base
  BY ItemsGrow
<1>2. ASSUME NEW i, NEW n
      PROVE  <<i, n>> \in Writes' <=>
               /\ i \in DOMAIN items'
               /\ n \in Cardinality(items'[i].base)..items'[i].count
  BY DEF Writes
<1>3. \A c \in Writes' : \E i, n : c = <<i, n>>
  BY DEF Writes
<1>4. CASE UNCHANGED items
  BY <1>4 DEF Writes
<1>5. ASSUME NEW t \in Tasks, pc[t] = "create", Insert(t)
      PROVE  Writes' \subseteq Writes \cup {<<Len(items) + 1, Cardinality(sized[t])>>}
  <2>1. /\ Len(items') = Len(items) + 1
        /\ \A i \in 1..Len(items) : items'[i] = items[i]
        /\ items'[Len(items) + 1].base = sized[t]
        /\ items'[Len(items) + 1].count = Cardinality(sized[t])
    BY <1>5, InsertEffect
  <2>2. ASSUME NEW i, NEW n, <<i, n>> \in Writes'
        PROVE  <<i, n>> \in Writes \/ (i = Len(items) + 1 /\ n = Cardinality(sized[t]))
    <3>1. CASE i \in 1..Len(items)
      BY <3>1, <2>1, <2>2, <1>1, <1>2, WritesMembers
    <3>2. CASE i = Len(items) + 1
      <4>1. n \in Cardinality(sized[t])..Cardinality(sized[t])
        BY <3>2, <2>1, <2>2, <1>2
      <4>2. Cardinality(sized[t]) \in Nat
        BY DedupAssumption, FS_Subset, FS_CardinalityType DEF WorkInv, TypeOK
      <4> QED
        BY <3>2, <4>1, <4>2
    <3> QED
      BY <3>1, <3>2, <2>1, <2>2, <1>1, <1>2
  <2> QED
    BY <2>2, <1>3
<1>6. ASSUME NEW t \in Tasks, pc[t] \in {"incr", "conflictIncr"}, CountSignal(t)
      PROVE  Writes' \subseteq Writes \cup {<<found[t], items[found[t]].count + 1>>}
  <2>1. /\ Len(items') = Len(items)
        /\ \A i \in 1..Len(items) :
             items'[i].count = IF i = found[t] THEN items[i].count + 1
                                               ELSE items[i].count
    BY <1>6, CountEffect
  <2>2. ASSUME NEW i, NEW n, <<i, n>> \in Writes'
        PROVE  <<i, n>> \in Writes \/ (i = found[t] /\ n = items[i].count + 1)
    <3>1. i \in 1..Len(items) /\ n \in Cardinality(items[i].base)..items'[i].count
      BY <2>1, <2>2, <1>1, <1>2
    <3>2. Cardinality(items[i].base) \in Nat
      BY <3>1, ItemsGrow, DedupAssumption, FS_Subset, FS_CardinalityType
    <3>3. n = items'[i].count \/ n <= items'[i].count - 1
      <4>1. items'[i].count \in Nat
        BY <3>1, ItemsGrow
      <4> QED
        BY <3>1, <3>2, <4>1
    <3> QED
      BY <3>1, <3>2, <3>3, <2>1, <1>1, WritesMembers
  <2> QED
    BY <2>2, <1>3
<1>7. ASSUME NEW j \in DOMAIN items, Close(j)
      PROVE  Writes' \subseteq Writes
  BY <1>7, CloseWritesNone
<1> QED
  BY <1>4, <1>5, <1>6, <1>7, ItemSteps

\* What one step may do to the three sides of the balance.
Charges(t) ==       \* a task counts its signal
    /\ pc[t] \in Uncounted
    /\ Charging' \subseteq Charging \ {t}
    /\ UNCHANGED <<delivered, faults>>

Fails ==            \* a failure, its transaction committed or not
    /\ Charging' \subseteq Charging
    /\ faults' = faults + 1
    /\ UNCHANGED delivered

Hands(t, s) ==      \* a signal is handed to a task
    /\ Charging' \subseteq Charging \cup {t}
    /\ delivered' = [delivered EXCEPT ![s] = @ + 1]
    /\ UNCHANGED <<items, faults>>

Idles ==            \* anything else
    /\ Charging' \subseteq Charging
    /\ Writes' \subseteq Writes
    /\ UNCHANGED <<delivered, faults>>

\* The steps of a task that neither charge nor fail leave no more to charge.
LEMMA WorkIdles ==
    ASSUME WorkInv, NEW t \in Tasks, Work(t),
           ~Create(t), ~Increment(t), ~ConflictIncrement(t)
    PROVE  Idles
<1>1. pc \in [Tasks -> Steps]
  BY DEF WorkInv, TypeOK
<1>15. items' = items => Writes' = Writes
  BY DEF Writes
<1> USE <1>1, <1>15 DEF Idles, Charging, Uncounted, Counted, Steps
<1>2. ASSUME CheckCache(t) PROVE Idles
  BY <1>2 DEF CheckCache, Goto, historyVars, boundVars
<1>3. ASSUME Lookup(t) PROVE Idles
  BY <1>3 DEF Lookup, Goto, historyVars, boundVars
<1>4. ASSUME FillCache(t) PROVE Idles
  BY <1>4 DEF FillCache, Goto, historyVars, boundVars
<1>5. ASSUME ZAdd(t) PROVE Idles
  BY <1>5 DEF ZAdd, Goto, historyVars, boundVars
<1>6. ASSUME Trim(t) PROVE Idles
  BY <1>6 DEF Trim, Goto, historyVars, boundVars
<1>7. ASSUME CountWindow(t) PROVE Idles
  BY <1>7 DEF CountWindow, Goto, Leave, historyVars, boundVars
<1>8. ASSUME CreateConflicts(t) PROVE Idles
  BY <1>8 DEF CreateConflicts, Goto, historyVars, boundVars
<1>9. ASSUME ConflictLookup(t) PROVE Idles
  BY <1>9 DEF ConflictLookup, Goto, Retry, Leave, historyVars, boundVars, Raise
<1>10. ASSUME Announce(t) PROVE Idles
  BY <1>10 DEF Announce, Goto, historyVars, boundVars
<1>11. ASSUME CacheNew(t) PROVE Idles
  BY <1>11 DEF CacheNew, Goto, historyVars, boundVars
<1>12. ASSUME Link(t) PROVE Idles
  BY <1>12 DEF Link, Goto, historyVars, boundVars
<1>13. ASSUME ClearWindow(t) PROVE Idles
  BY <1>13 DEF ClearWindow, Goto, historyVars, boundVars
<1>14. ASSUME Alert(t) PROVE Idles
  BY <1>14 DEF Alert, Return, Leave, historyVars, boundVars
<1> QED
  BY <1>2, <1>3, <1>4, <1>5, <1>6, <1>7, <1>8, <1>9, <1>10, <1>11, <1>12, <1>13,
     <1>14 DEF Work

\* Creating and counting is done once: the task has then counted its signal.
LEMMA WorkCharges ==
    ASSUME WorkInv, NEW t \in Tasks, Create(t) \/ Increment(t) \/ ConflictIncrement(t)
    PROVE  Charges(t)
<1>1. pc \in [Tasks -> Steps]
  BY DEF WorkInv, TypeOK
<1> USE <1>1 DEF Charges, Charging, Uncounted, Counted, Steps
<1>2. ASSUME Create(t) PROVE Charges(t)
  BY <1>2 DEF Create, Goto, historyVars, boundVars
<1>3. ASSUME Increment(t) PROVE Charges(t)
  BY <1>3 DEF Increment, Return, Leave, boundVars
<1>4. ASSUME ConflictIncrement(t) PROVE Charges(t)
  BY <1>4 DEF ConflictIncrement, Goto, historyVars, boundVars
<1> QED
  BY <1>2, <1>3, <1>4

\* A failed transaction is tried again by a task that had yet to count.
LEMMA DisturbFails ==
    ASSUME WorkInv, NEW t \in Tasks, Disturb(t)
    PROVE  Fails
<1>1. pc \in [Tasks -> Steps]
  BY DEF WorkInv, TypeOK
<1> USE <1>1 DEF Fails, Charging, Uncounted, Counted, Steps, Fault, historyVars
<1>2. ASSUME CreateFails(t) PROVE Fails
  BY <1>2 DEF CreateFails, Retry, Leave, Raise
<1>3. ASSUME CreateOutcomeLost(t) PROVE Fails
  BY <1>3 DEF CreateOutcomeLost, Retry, Leave, Raise
<1>4. ASSUME IncrementFails(t) PROVE Fails
  BY <1>4 DEF IncrementFails, Retry, Leave, Raise
<1>5. ASSUME Abort(t) PROVE Fails
  BY <1>5 DEF Abort, Leave, Raise
<1> QED
  BY <1>2, <1>3, <1>4, <1>5 DEF Disturb

\* The steps of the environment.
LEMMA OthersIdle ==
    ASSUME WorkInv, [Next]_vars, ~ \E t \in Tasks : Work(t) \/ Disturb(t)
    PROVE  \/ Idles
           \/ \E t \in Tasks, s \in Signals : Hands(t, s)
<1>6. items' = items => Writes' = Writes
  BY DEF Writes
<1>1. ASSUME NEW s \in Signals, NEW t \in Tasks, Receive(t, s) PROVE Hands(t, s)
  <2>1. pc \in [Tasks -> Steps]
    BY DEF WorkInv, TypeOK
  <2> QED
    BY <1>1, <2>1 DEF Receive, Goto, Hands, Charging, boundVars
<1>2. ASSUME NEW s \in Signals, RecordSignal(s) PROVE Idles
  BY <1>2, <1>6 DEF RecordSignal, Idles, Charging, taskVars, historyVars, boundVars
<1>3. ASSUME NEW i \in DOMAIN items, Close(i) PROVE Idles
  BY <1>3, CloseWritesNone DEF Close, Idles, Charging, taskVars, historyVars
<1>4. CASE Expire
  BY <1>4, <1>6 DEF Expire, Idles, Charging, taskVars, historyVars, boundVars
<1>5. CASE UNCHANGED vars
  BY <1>5, <1>6 DEF vars, Idles, Charging, taskVars, historyVars, boundVars
<1> QED
  BY <1>1, <1>2, <1>3, <1>4, <1>5 DEF Next

\* A set that grows by at most one member is finite, and one larger at most.
LEMMA GrowsByOne ==
    ASSUME NEW S, NEW T, NEW x, IsFiniteSet(S), T \subseteq S \cup {x}
    PROVE  /\ IsFiniteSet(T)
           /\ Cardinality(S) \in Nat /\ Cardinality(T) \in Nat
           /\ Cardinality(T) <= Cardinality(S) + 1
<1>1. IsFiniteSet(S \cup {x})
  BY FS_AddElement
<1>2. Cardinality(S \cup {x}) <= Cardinality(S) + 1 /\ Cardinality(S) \in Nat
  BY FS_AddElement, FS_CardinalityType
<1>3. IsFiniteSet(T) /\ Cardinality(T) <= Cardinality(S \cup {x})
  BY <1>1, FS_Subset
<1>4. Cardinality(T) \in Nat /\ Cardinality(S \cup {x}) \in Nat
  BY <1>1, <1>3, FS_CardinalityType
<1> QED
  BY <1>2, <1>3, <1>4

\* One that does not grow is no larger.
LEMMA GrowsByNone ==
    ASSUME NEW S, NEW T, IsFiniteSet(S), T \subseteq S
    PROVE  /\ IsFiniteSet(T)
           /\ Cardinality(S) \in Nat /\ Cardinality(T) \in Nat
           /\ Cardinality(T) <= Cardinality(S)
  BY FS_Subset, FS_CardinalityType

\* One that loses a member is smaller.
LEMMA LosesOne ==
    ASSUME NEW S, NEW T, NEW x \in S, IsFiniteSet(S), T \subseteq S \ {x}
    PROVE  /\ IsFiniteSet(T)
           /\ Cardinality(S) \in Nat /\ Cardinality(T) \in Nat
           /\ Cardinality(T) + 1 <= Cardinality(S)
<1>1. /\ IsFiniteSet(S \ {x})
      /\ Cardinality(S \ {x}) = Cardinality(S) - 1
  BY FS_RemoveElement
<1>2. IsFiniteSet(T) /\ Cardinality(T) <= Cardinality(S \ {x})
  BY <1>1, FS_Subset
<1>3. Cardinality(S) \in Nat /\ Cardinality(T) \in Nat
  BY <1>2, FS_CardinalityType
<1> QED
  BY <1>1, <1>2, <1>3

\* Handing a signal to a task is one delivery more.
LEMMA DeliveryCounts ==
    ASSUME WorkInv, WorkInv', NEW s \in Signals,
           delivered' = [delivered EXCEPT ![s] = @ + 1]
    PROVE  Cardinality(Deliveries') >= Cardinality(Deliveries) + 1
<1> DEFINE d == <<s, delivered[s] + 1>>
<1>1. /\ delivered \in [Signals -> 0..MaxDeliveries]
      /\ delivered[s] \in Nat
  BY DedupAssumption DEF WorkInv, TypeOK
<1>2. d \in Deliveries'
  BY <1>1 DEF Deliveries
<1>3. Deliveries \subseteq Deliveries' \ {d}
  <2>1. ASSUME NEW r \in Signals, NEW n \in 1..delivered[r]
        PROVE  <<r, n>> \in Deliveries' \ {d}
    <3>1. delivered[r] \in Nat /\ delivered'[r] \in Nat /\ delivered'[r] >= delivered[r]
      BY <1>1, DedupAssumption
    <3>2. <<r, n>> \in Deliveries'
      BY <3>1 DEF Deliveries
    <3>3. <<r, n>> # d
      BY <3>1
    <3> QED
      BY <3>2, <3>3
  <2> QED
    BY <2>1 DEF Deliveries
<1>4. /\ IsFiniteSet(Deliveries')
      /\ Cardinality(Deliveries') \in Nat /\ Cardinality(Deliveries) \in Nat
  <2>1. /\ delivered \in [Signals -> 0..MaxDeliveries]
        /\ delivered' \in [Signals -> 0..MaxDeliveries]
    BY DEF WorkInv, TypeOK
  <2> QED
    BY <2>1, DeliveriesFinite DEF Deliveries
<1> HIDE DEF d
<1>5. Cardinality(Deliveries) + 1 <= Cardinality(Deliveries')
  BY <1>2, <1>3, <1>4, LosesOne
<1> QED
  BY <1>4, <1>5

\* The balance is inductive.
LEMMA NextCharge == ASSUME WorkInv, ChargeInv, [Next]_vars PROVE ChargeInv'
<1> DEFINE charged == Cardinality(Writes)
           charging == Cardinality(Charging)
           handed == Cardinality(Deliveries)
           Balance == /\ IsFiniteSet(Writes') /\ IsFiniteSet(Charging')
                      /\ charged' + charging' <= handed' + faults'
<1>1. WorkInv'
  BY NextWorkInv
<1>2. /\ charged \in Nat /\ charging \in Nat /\ handed \in Nat
      /\ faults \in Nat
      /\ charged + charging <= handed + faults
  <2>1. delivered \in [Signals -> 0..MaxDeliveries] /\ faults \in Nat
    BY DedupAssumption DEF WorkInv, TypeOK
  <2>2. handed \in Nat
    BY <2>1, DeliveriesFinite DEF Deliveries
  <2> QED
    BY <2>1, <2>2, FS_CardinalityType DEF ChargeInv
<1>3. handed' \in Nat /\ faults' \in Nat
  <2>1. delivered' \in [Signals -> 0..MaxDeliveries] /\ faults' \in Nat
    BY <1>1, DedupAssumption DEF WorkInv, TypeOK
  <2> QED
    BY <2>1, DeliveriesFinite DEF Deliveries
<1>4. IsFiniteSet(Writes) /\ IsFiniteSet(Charging)
  BY DEF ChargeInv
<1>5. delivered' = delivered => handed' = handed
  BY DEF Deliveries
<1>6. Balance => ChargeInv'
  BY DEF ChargeInv
<1>7. ASSUME \E c : Writes' \subseteq Writes \cup {c}
      PROVE  IsFiniteSet(Writes') /\ charged' \in Nat /\ charged' <= charged + 1
  BY <1>4, <1>7, GrowsByOne
<1>8. ASSUME Writes' \subseteq Writes
      PROVE  IsFiniteSet(Writes') /\ charged' \in Nat /\ charged' <= charged
  BY <1>4, <1>8, GrowsByNone
<1>9. ASSUME Charging' \subseteq Charging
      PROVE  IsFiniteSet(Charging') /\ charging' \in Nat /\ charging' <= charging
  BY <1>4, <1>9, GrowsByNone
<1>10. (\E c : Writes' \subseteq Writes \cup {c}) \/ Writes' \subseteq Writes
  BY WritesSteps
<1>11. ASSUME NEW t \in Tasks, Charges(t)
       PROVE  IsFiniteSet(Charging') /\ charging' \in Nat /\ charging' + 1 <= charging
  BY <1>4, <1>11, LosesOne DEF Charges, Charging
<1>12. ASSUME NEW t \in Tasks, NEW s \in Signals, Hands(t, s)
       PROVE  /\ IsFiniteSet(Charging') /\ charging' \in Nat
              /\ charging' <= charging + 1
              /\ handed' >= handed + 1
              /\ Writes' = Writes
  BY <1>1, <1>4, <1>12, GrowsByOne, DeliveryCounts DEF Hands, Writes
<1> HIDE DEF charged, charging, handed
<1>13. ASSUME NEW t \in Tasks, Charges(t)
       PROVE  Balance
  <2>1. faults' = faults /\ handed' = handed
    BY <1>13, <1>5 DEF Charges
  <2> QED
    BY <2>1, <1>2, <1>7, <1>8, <1>10, <1>11, <1>13
<1>14. CASE Fails
  <2>1. faults' = faults + 1 /\ handed' = handed /\ Charging' \subseteq Charging
    BY <1>14, <1>5 DEF Fails
  <2>2. Balance
    BY <2>1, <1>2, <1>7, <1>8, <1>9, <1>10
  <2> QED
    BY <2>2, <1>6
<1>15. ASSUME NEW t \in Tasks, NEW s \in Signals, Hands(t, s)
       PROVE  Balance
  <2>1. faults' = faults
    BY <1>15 DEF Hands
  <2>2. IsFiniteSet(Writes') /\ charged' \in Nat /\ charged' <= charged
    BY <1>8, <1>12, <1>15
  <2> QED
    BY <2>1, <2>2, <1>2, <1>3, <1>12, <1>15
<1>16. CASE Idles
  <2>1. /\ faults' = faults /\ handed' = handed
        /\ Charging' \subseteq Charging /\ Writes' \subseteq Writes
    BY <1>16, <1>5 DEF Idles
  <2>2. Balance
    BY <2>1, <1>2, <1>8, <1>9
  <2> QED
    BY <2>2, <1>6
<1> HIDE DEF Balance
<1>17. ASSUME NEW t \in Tasks, Work(t)
       PROVE  ChargeInv'
  BY <1>6, <1>13, <1>16, <1>17, WorkCharges, WorkIdles
<1>18. ASSUME NEW t \in Tasks, Disturb(t)
       PROVE  ChargeInv'
  BY <1>14, <1>18, DisturbFails
<1> QED
  BY <1>6, <1>15, <1>16, <1>17, <1>18, OthersIdle

\* However often a race is lost or a transaction retried, a delivery makes no
\* second insertion or increment unless a failure hid the first.
THEOREM DeliveriesWriteOnce == Spec => []OneWritePerDelivery
<1>1. Init => ChargeInv
  <2> SUFFICES ASSUME Init PROVE ChargeInv
    OBVIOUS
  <2>1. Writes = {} /\ Charging = {}
    BY EmptySeq DEF Init, Writes, Charging, Uncounted
  <2>2. Deliveries = {}
    BY DEF Init, Deliveries
  <2> QED
    BY <2>1, <2>2, FS_EmptySet DEF ChargeInv, Init
<1>2. WorkInv /\ ChargeInv /\ [Next]_vars => ChargeInv'
  BY NextCharge
<1>3. WorkInv /\ ChargeInv => OneWritePerDelivery
  <2> SUFFICES ASSUME WorkInv, ChargeInv PROVE OneWritePerDelivery
    OBVIOUS
  <2>1. delivered \in [Signals -> 0..MaxDeliveries] /\ faults \in Nat
    BY DedupAssumption DEF WorkInv, TypeOK
  <2>2. Cardinality(Deliveries) \in Nat
    BY <2>1, DeliveriesFinite DEF Deliveries
  <2>3. Cardinality(Writes) \in Nat /\ Cardinality(Charging) \in Nat
    BY FS_CardinalityType DEF ChargeInv
  <2> QED
    BY <2>1, <2>2, <2>3 DEF ChargeInv, OneWritePerDelivery
<1> QED
  BY <1>1, <1>2, <1>3, WorkInvariant, PTL DEF Spec

-----------------------------------------------------------------------------
(* The task that creates an incident finishes it.                          *)

\* A task that has an incident to finish is not diverted from it.
Persists(u) ==
    pc[u] \in Counted =>
        pc'[u] \in Counted /\ found'[u] = found[u] /\ signal'[u] = signal[u]

\* An incident in the hands of its opener.
Carried(i, u) ==
    /\ pc[u] \in Counted
    /\ signal[u] = items[i].opener
    /\ found[u] = i

\* The unfinished incidents are those neither returned nor carried.
LEMMA UnfinishedMembers ==
    ASSUME NEW i
    PROVE  i \in Unfinished <=>
             /\ i \in DOMAIN items
             /\ <<items[i].opener, i>> \notin returned
             /\ \A u \in Tasks : ~Carried(i, u)
  BY DEF Unfinished, Carried, Counted

\* An incident stays finished if each task that carries it goes on with it, or
\* returns it.
LEMMA FinishedKept ==
    ASSUME WorkInv, [Next]_vars, NEW i \in 1..Len(items), i \notin Unfinished,
           returned \subseteq returned',
           \A u \in Tasks : Carried(i, u) =>
               Persists(u) \/ <<items[i].opener, i>> \in returned'
    PROVE  i \notin Unfinished'
<1>1. /\ DOMAIN items = 1..Len(items)
      /\ items'[i].opener = items[i].opener
      /\ items'[i].racers = items[i].racers
  BY ItemsGrow
<1>2. \/ <<items[i].opener, i>> \in returned
      \/ \E u \in Tasks : Carried(i, u)
  BY <1>1, UnfinishedMembers
<1>3. CASE <<items[i].opener, i>> \in returned'
  BY <1>1, <1>3 DEF Unfinished
<1>4. ASSUME NEW u \in Tasks, Carried(i, u), Persists(u)
      PROVE  i \notin Unfinished'
  BY <1>1, <1>4 DEF Unfinished, Carried, Persists, Counted
<1> QED
  BY <1>2, <1>3, <1>4

\* Only the end of resolve_work_item and an abort take an incident from a task.
LEMMA TaskPersists ==
    ASSUME WorkInv, NEW t \in Tasks, NEW u \in Tasks,
           Work(t) \/ Disturb(t), ~Alert(t), ~Abort(t)
    PROVE  Persists(u)
<1>1. /\ pc \in [Tasks -> Steps] /\ found \in [Tasks -> 0..Len(items)]
      /\ signal \in [Tasks -> Signals \cup {NoSignal}]
  BY DEF WorkInv, TypeOK
<1> USE <1>1 DEF Persists, Counted
<1>2. ASSUME CheckCache(t) PROVE Persists(u)
  BY <1>2 DEF CheckCache, Finds, Goto
<1>3. ASSUME Lookup(t) PROVE Persists(u)
  BY <1>3 DEF Lookup, Finds, Goto
<1>4. ASSUME FillCache(t) PROVE Persists(u)
  BY <1>4 DEF FillCache, Goto
<1>5. ASSUME ZAdd(t) PROVE Persists(u)
  BY <1>5 DEF ZAdd, Goto
<1>6. ASSUME Trim(t) PROVE Persists(u)
  BY <1>6 DEF Trim, Goto
<1>7. ASSUME CountWindow(t) PROVE Persists(u)
  BY <1>7 DEF CountWindow, Goto, Leave
<1>8. ASSUME Create(t) PROVE Persists(u)
  BY <1>8 DEF Create, Finds, Goto
<1>9. ASSUME CreateConflicts(t) PROVE Persists(u)
  BY <1>9 DEF CreateConflicts, Goto
<1>10. ASSUME ConflictLookup(t) PROVE Persists(u)
  BY <1>10 DEF ConflictLookup, Finds, Goto, Retry, Leave, Raise
<1>11. ASSUME Announce(t) PROVE Persists(u)
  BY <1>11 DEF Announce, Goto
<1>12. ASSUME CacheNew(t) PROVE Persists(u)
  BY <1>12 DEF CacheNew, Goto
<1>13. ASSUME Link(t) PROVE Persists(u)
  BY <1>13 DEF Link, Goto
<1>14. ASSUME ClearWindow(t) PROVE Persists(u)
  BY <1>14 DEF ClearWindow, Goto
<1>15. ASSUME Increment(t) PROVE Persists(u)
  BY <1>15 DEF Increment, Return, Leave
<1>16. ASSUME ConflictIncrement(t) PROVE Persists(u)
  BY <1>16 DEF ConflictIncrement, Goto
<1>17. ASSUME CreateFails(t) PROVE Persists(u)
  BY <1>17 DEF CreateFails, Retry, Leave, Raise
<1>18. ASSUME CreateOutcomeLost(t) PROVE Persists(u)
  BY <1>18 DEF CreateOutcomeLost, Retry, Leave, Raise
<1>19. ASSUME IncrementFails(t) PROVE Persists(u)
  BY <1>19 DEF IncrementFails, Retry, Leave, Raise
<1> QED
  BY <1>2, <1>3, <1>4, <1>5, <1>6, <1>7, <1>8, <1>9, <1>10, <1>11, <1>12, <1>13,
     <1>14, <1>15, <1>16, <1>17, <1>18, <1>19 DEF Work, Disturb

\* Neither do the steps of the environment.
LEMMA OthersPersist ==
    ASSUME WorkInv, NEW u \in Tasks,
           \/ UNCHANGED vars
           \/ \E s \in Signals : RecordSignal(s) \/ \E t \in Tasks : Receive(t, s)
           \/ \E i \in DOMAIN items : Close(i)
           \/ Expire
    PROVE  Persists(u)
<1>1. /\ pc \in [Tasks -> Steps] /\ signal \in [Tasks -> Signals \cup {NoSignal}]
  BY DEF WorkInv, TypeOK
<1>2. ASSUME NEW t \in Tasks, NEW s \in Signals, Receive(t, s)
      PROVE  Persists(u)
  BY <1>1, <1>2 DEF Receive, Goto, Persists, Counted
<1> QED
  BY <1>2 DEF vars, RecordSignal, Close, Expire, Persists, taskVars

\* What is returned is never taken back.
LEMMA ReturnedGrows == ASSUME WorkInv, [Next]_vars PROVE returned \subseteq returned'
<1>1. ASSUME NEW t \in Tasks, Work(t) \/ Disturb(t)
      PROVE  returned \subseteq returned'
  BY <1>1, TaskReturns
<1>2. CASE ~ \E t \in Tasks : Work(t) \/ Disturb(t)
  BY <1>2 DEF Next, vars, RecordSignal, Receive, Close, Expire, historyVars
<1> QED
  BY <1>1, <1>2

\* Of the incidents there were, only an abort leaves one unfinished: the one the
\* task that aborts was finishing.
LEMMA OldUnfinished ==
    ASSUME WorkInv, [Next]_vars, NEW i \in 1..Len(items), i \notin Unfinished,
           i \in Unfinished'
    PROVE  \E t \in Tasks : Abort(t) /\ pc[t] \in Counted /\ i = found[t]
<1>1. PICK u \in Tasks : /\ Carried(i, u) /\ ~Persists(u)
                         /\ <<items[i].opener, i>> \notin returned'
  BY FinishedKept, ReturnedGrows
<1>2. PICK t \in Tasks : Work(t) \/ Disturb(t)
  BY <1>1, OthersPersist DEF Next
<1>3. Alert(t) \/ Abort(t)
  BY <1>1, <1>2, TaskPersists
<1>4. u = t
  <2>1. /\ pc \in [Tasks -> Steps] /\ found \in [Tasks -> 0..Len(items)]
        /\ signal \in [Tasks -> Signals \cup {NoSignal}]
    BY DEF WorkInv, TypeOK
  <2> QED
    BY <1>1, <1>3, <2>1 DEF Alert, Abort, Return, Leave, Persists, Raise
<1>5. ~Alert(t)
  BY <1>1, <1>4 DEF Alert, Return, Carried
<1> QED
  BY <1>1, <1>3, <1>4, <1>5 DEF Carried

\* A row inserted by Create is in the hands of the task that inserted it.
LEMMA CreatedCarried ==
    ASSUME WorkInv, NEW t \in Tasks, Create(t)
    PROVE  Len(items) + 1 \notin Unfinished'
<1>1. /\ pc \in [Tasks -> Steps] /\ found \in [Tasks -> 0..Len(items)]
  BY DEF WorkInv, TypeOK
<1>2. /\ Len(items') = Len(items) + 1
      /\ items'[Len(items) + 1].opener = signal[t]
  BY InsertEffect DEF Create, Goto
<1>3. /\ pc'[t] = "announce" /\ found'[t] = Len(items) + 1 /\ signal' = signal
  BY <1>1, <1>2 DEF Create, Goto, Finds
<1> QED
  BY <1>2, <1>3 DEF Unfinished, Counted

\* The rows that come to be unfinished: none, or one and a failure.
LEMMA UnfinishedSteps ==
    ASSUME WorkInv, [Next]_vars
    PROVE  \/ Unfinished' \subseteq Unfinished /\ faults' >= faults
           \/ \E i : Unfinished' \subseteq Unfinished \cup {i} /\ faults' = faults + 1
<1>1. /\ DOMAIN items = 1..Len(items) /\ DOMAIN items' = 1..Len(items')
      /\ Len(items) \in Nat /\ Len(items') \in Nat
  BY ItemsGrow
<1>2. Unfinished' \subseteq DOMAIN items'
  BY DEF Unfinished
<1>3. faults \in Nat
  BY DedupAssumption DEF WorkInv, TypeOK
<1>4. ASSUME NEW t \in Tasks, Disturb(t)
      PROVE  faults' = faults + 1
  BY <1>4 DEF Disturb, CreateFails, CreateOutcomeLost, IncrementFails, Abort, Fault
<1>5. ASSUME NEW t \in Tasks, Work(t)
      PROVE  faults' = faults
  BY <1>5 DEF Work, CheckCache, Lookup, FillCache, ZAdd, Trim, CountWindow, Create,
     CreateConflicts, ConflictLookup, Announce, CacheNew, Link, ClearWindow, Alert,
     Increment, ConflictIncrement, boundVars
<1>6. faults' >= faults
  <2>1. CASE ~ \E t \in Tasks : Work(t) \/ Disturb(t)
    BY <2>1, <1>3 DEF Next, vars, RecordSignal, Receive, Close, Expire, boundVars
  <2> QED
    BY <2>1, <1>3, <1>4, <1>5
<1>7. CASE \E t \in Tasks : pc[t] = "create" /\ Insert(t)
  <2>1. Len(items') = Len(items) + 1
    BY <1>7, InsertEffect
  <2>2. PICK t \in Tasks : Work(t) \/ Disturb(t)
    <3>1. CASE ~ \E t \in Tasks : Work(t) \/ Disturb(t)
      <4>1. Len(items') = Len(items)
        BY <3>1, CloseEffect DEF Next, vars, RecordSignal, Receive, Expire
      <4> QED
        BY <2>1, <4>1, <1>1
    <3> QED
      BY <3>1
  <2>3. ASSUME NEW i \in Unfinished', i \notin Unfinished, i # Len(items) + 1
        PROVE  FALSE
    <3>1. i \in 1..Len(items)
      BY <2>1, <2>3, <1>1, <1>2
    <3>2. PICK u \in Tasks : Abort(u) /\ pc[u] \in Counted /\ i = found[u]
      BY <3>1, <2>3, OldUnfinished
    <3>3. items' = items
      BY <3>2 DEF Abort, Counted
    <3> QED
      BY <3>3, <2>1, <1>1
  <2>4. Unfinished' \subseteq Unfinished \cup {Len(items) + 1}
    BY <2>3
  <2>5. CASE Create(t)
    BY <2>4, <2>5, <1>6, CreatedCarried
  <2>6. CASE Disturb(t)
    BY <2>4, <2>6, <1>4
  <2>7. ASSUME Work(t), ~Create(t)
        PROVE  FALSE
    <3>1. \/ UNCHANGED items
          \/ pc[t] \in {"incr", "conflictIncr"} /\ CountSignal(t)
      BY <2>7 DEF Work, CheckCache, Lookup, FillCache, ZAdd, Trim, CountWindow,
         CreateConflicts, ConflictLookup, Announce, CacheNew, Link, ClearWindow,
         Alert, Increment, ConflictIncrement, Goto
    <3>2. Len(items') = Len(items)
      BY <3>1, CountEffect
    <3> QED
      BY <3>2, <2>1, <1>1
  <2> QED
    BY <2>2, <2>5, <2>6, <2>7
<1>8. CASE ~ \E t \in Tasks : pc[t] = "create" /\ Insert(t)
  <2>1. Len(items') = Len(items)
    BY <1>8, ItemSteps, CountEffect, CloseEffect
  <2>2. CASE Unfinished' \subseteq Unfinished
    BY <2>2, <1>6
  <2>3. CASE \E i \in Unfinished' : i \notin Unfinished
    <3>1. PICK t \in Tasks : Abort(t)
      BY <2>1, <2>3, <1>1, <1>2, OldUnfinished
    <3>2. ASSUME NEW i \in Unfinished', i \notin Unfinished
          PROVE  i = found[t]
      <4>1. PICK u \in Tasks : Abort(u) /\ pc[u] \in Counted /\ i = found[u]
        BY <3>2, <2>1, <1>1, <1>2, OldUnfinished
      <4>2. u = t
        <5>1. pc \in [Tasks -> Steps]
          BY DEF WorkInv, TypeOK
        <5> QED
          BY <3>1, <4>1, <5>1 DEF Abort, Leave, Raise
      <4> QED
        BY <4>1, <4>2
    <3>3. Unfinished' \subseteq Unfinished \cup {found[t]}
      BY <3>2
    <3>4. faults' = faults + 1
      BY <3>1, <1>4 DEF Disturb
    <3> QED
      BY <3>3, <3>4
  <2> QED
    BY <2>2, <2>3
<1> QED
  BY <1>7, <1>8

\* The incidents are finitely many.
LEMMA UnfinishedFinite ==
    ASSUME NEW n \in Nat, NEW S \in SUBSET (1..n)
    PROVE  IsFiniteSet(S) /\ Cardinality(S) \in Nat
<1>1. IsFiniteSet(1..n)
  BY FS_Interval
<1> QED
  BY <1>1, FS_Subset, FS_CardinalityType

\* An incident is announced, cached, linked and alerted for by the task that
\* created it, unless a failure stops that task.
THEOREM CreatorsFinish == Spec => []OpenersFinish
<1>1. Init => OpenersFinish
  <2> SUFFICES ASSUME Init PROVE OpenersFinish
    OBVIOUS
  <2>1. Unfinished = {}
    BY EmptySeq DEF Init, Unfinished
  <2> QED
    BY <2>1, FS_EmptySet DEF OpenersFinish, Init
<1>2. WorkInv /\ OpenersFinish /\ [Next]_vars => OpenersFinish'
  <2> SUFFICES ASSUME WorkInv, OpenersFinish, [Next]_vars PROVE OpenersFinish'
    OBVIOUS
  <2> DEFINE old == Cardinality(Unfinished)
             new == Cardinality(Unfinished')
  <2>1. Unfinished \in SUBSET (1..Len(items)) /\ Len(items) \in Nat
    BY ItemsGrow DEF Unfinished
  <2>2. IsFiniteSet(Unfinished) /\ old \in Nat
    BY <2>1, UnfinishedFinite
  <2>3. faults \in Nat /\ old <= faults
    BY DedupAssumption DEF OpenersFinish, WorkInv, TypeOK
  <2>4. CASE Unfinished' \subseteq Unfinished /\ faults' >= faults
    <3>1. new <= old /\ new \in Nat
      BY <2>2, <2>4, GrowsByNone
    <3>2. faults' \in Nat
      BY NextWorkInv, DedupAssumption DEF WorkInv, TypeOK
    <3> HIDE DEF old, new
    <3>3. new <= faults'
      BY <3>1, <3>2, <2>2, <2>3, <2>4
    <3> QED
      BY <3>3 DEF new, OpenersFinish
  <2>5. CASE \E i : Unfinished' \subseteq Unfinished \cup {i} /\ faults' = faults + 1
    <3>1. new <= old + 1 /\ new \in Nat
      BY <2>2, <2>5, GrowsByOne
    <3> HIDE DEF old, new
    <3>2. new <= faults'
      BY <3>1, <2>2, <2>3, <2>5
    <3> QED
      BY <3>2 DEF new, OpenersFinish
  <2> QED
    BY <2>4, <2>5, UnfinishedSteps
<1> QED
  BY <1>1, <1>2, WorkInvariant, PTL DEF Spec

-----------------------------------------------------------------------------
(* What is counted twice.                                                  *)

\* The signals that were delivered.
Seen == {s \in Signals : delivered[s] > 0}

\* Whatever is in a window, counted or returned was delivered.
SeenInv ==
    /\ window \subseteq Seen
    /\ \A t \in Tasks : sized[t] \subseteq Seen /\ (pc[t] # "idle" => signal[t] \in Seen)
    /\ \A i \in 1..Len(items) : items[i].base \subseteq Seen
    /\ \A r \in returned : r[1] \in Seen

\* What a step of a task leaves alone.
Moves(t) ==
    /\ pc[t] # "idle"
    /\ \A u \in Tasks \ {t} : /\ pc'[u] = pc[u] /\ signal'[u] = signal[u]
                              /\ found'[u] = found[u] /\ sized'[u] = sized[u]
    /\ pc'[t] = "idle" \/ signal'[t] = signal[t]
    /\ pc'[t] \in Uncounted => pc[t] \in Uncounted
    /\ sized'[t] \in {sized[t], window, {}}
    /\ window' \subseteq window \cup {signal[t]}
    /\ delivered' = delivered

\* A step of a task moves that task only, and counts what it counts for good.
LEMMA TaskMoves ==
    ASSUME WorkInv, NEW t \in Tasks, Work(t) \/ Disturb(t)
    PROVE  Moves(t)
<1>1. /\ pc \in [Tasks -> Steps] /\ found \in [Tasks -> 0..Len(items)]
      /\ signal \in [Tasks -> Signals \cup {NoSignal}]
      /\ sized \in [Tasks -> SUBSET Signals]
  BY DEF WorkInv, TypeOK
<1> USE <1>1 DEF Moves, Counted, Uncounted, Steps, Goto, historyVars, redisVars
<1>2. ASSUME CheckCache(t) PROVE Moves(t)
  BY <1>2 DEF CheckCache, Finds
<1>3. ASSUME Lookup(t) PROVE Moves(t)
  BY <1>3 DEF Lookup, Finds
<1>4. ASSUME FillCache(t) PROVE Moves(t)
  BY <1>4 DEF FillCache
<1>5. ASSUME ZAdd(t) PROVE Moves(t)
  BY <1>5 DEF ZAdd
<1>6. ASSUME Trim(t) PROVE Moves(t)
  BY <1>6 DEF Trim
<1>7. ASSUME CountWindow(t) PROVE Moves(t)
  BY <1>7 DEF CountWindow, Leave
<1>8. ASSUME Create(t) PROVE Moves(t)
  BY <1>8 DEF Create, Finds
<1>9. ASSUME CreateConflicts(t) PROVE Moves(t)
  BY <1>9 DEF CreateConflicts
<1>10. ASSUME ConflictLookup(t) PROVE Moves(t)
  BY <1>10 DEF ConflictLookup, Finds, Retry, Leave, Raise
<1>11. ASSUME Announce(t) PROVE Moves(t)
  BY <1>11 DEF Announce
<1>12. ASSUME CacheNew(t) PROVE Moves(t)
  BY <1>12 DEF CacheNew
<1>13. ASSUME Link(t) PROVE Moves(t)
  BY <1>13 DEF Link
<1>14. ASSUME ClearWindow(t) PROVE Moves(t)
  BY <1>14 DEF ClearWindow
<1>15. ASSUME Alert(t) PROVE Moves(t)
  BY <1>15 DEF Alert, Return, Leave
<1>16. ASSUME Increment(t) PROVE Moves(t)
  BY <1>16 DEF Increment, Return, Leave
<1>17. ASSUME ConflictIncrement(t) PROVE Moves(t)
  BY <1>17 DEF ConflictIncrement
<1>18. ASSUME CreateFails(t) PROVE Moves(t)
  BY <1>18 DEF CreateFails, Retry, Leave, Raise
<1>19. ASSUME CreateOutcomeLost(t) PROVE Moves(t)
  BY <1>19 DEF CreateOutcomeLost, Retry, Leave, Raise
<1>20. ASSUME IncrementFails(t) PROVE Moves(t)
  BY <1>20 DEF IncrementFails, Retry, Leave, Raise
<1>21. ASSUME Abort(t) PROVE Moves(t)
  BY <1>21 DEF Abort, Leave, Raise
<1> QED
  BY <1>2, <1>3, <1>4, <1>5, <1>6, <1>7, <1>8, <1>9, <1>10, <1>11, <1>12, <1>13,
     <1>14, <1>15, <1>16, <1>17, <1>18, <1>19, <1>20, <1>21 DEF Work, Disturb

\* The bases of the rows there were, and of the one a step may add.
LEMMA BaseSteps ==
    ASSUME WorkInv, [Next]_vars, NEW i \in 1..Len(items')
    PROVE  \/ i \in 1..Len(items) /\ items'[i].base = items[i].base
           \/ \E t \in Tasks : pc[t] = "create" /\ items'[i].base = sized[t]
<1>1. Len(items) \in Nat
  BY ItemsGrow
<1>2. CASE i \in 1..Len(items)
  BY <1>2, ItemsGrow
<1>3. CASE i \notin 1..Len(items)
  <2>1. Len(items') # Len(items)
    BY <1>3
  <2>2. PICK t \in Tasks : pc[t] = "create" /\ Insert(t)
    BY <2>1, ItemSteps, CountEffect, CloseEffect
  <2>3. Len(items') = Len(items) + 1 /\ items'[Len(items) + 1].base = sized[t]
    BY <2>2, InsertEffect
  <2>4. i = Len(items) + 1
    BY <1>1, <1>3, <2>3
  <2> QED
    BY <2>2, <2>3, <2>4
<1> QED
  BY <1>2, <1>3

\* That all of these were delivered is inductive.
LEMMA NextSeen == ASSUME WorkInv, SeenInv, [Next]_vars PROVE SeenInv'
<1>1. delivered \in [Signals -> 0..MaxDeliveries] /\ MaxDeliveries \in Nat
  BY DedupAssumption DEF WorkInv, TypeOK
<1> DEFINE Bases == \A i \in 1..Len(items') : items'[i].base \subseteq Seen'
           Others == /\ window' \subseteq Seen'
                     /\ \A t \in Tasks : /\ sized'[t] \subseteq Seen'
                                         /\ pc'[t] # "idle" => signal'[t] \in Seen'
                     /\ \A r \in returned' : r[1] \in Seen'
<1>2. Seen \subseteq Seen' => Bases
  BY BaseSteps DEF SeenInv
<1>3. ASSUME NEW t \in Tasks, Work(t) \/ Disturb(t)
      PROVE  Seen \subseteq Seen' /\ Others
  <2>1. Moves(t)
    BY <1>3, TaskMoves
  <2>2. Seen' = Seen
    BY <2>1 DEF Moves, Seen
  <2>3. returned' \subseteq returned \cup {<<signal[t], found[t]>>}
    BY <1>3, TaskReturns
  <2> QED
    BY <2>1, <2>2, <2>3 DEF Moves, SeenInv
<1>4. ASSUME NEW t \in Tasks, NEW s \in Signals, Receive(t, s)
      PROVE  Seen \subseteq Seen' /\ Others
  <2>1. Seen \subseteq Seen' /\ s \in Seen'
    BY <1>1, <1>4 DEF Receive, Seen
  <2>2. /\ signal \in [Tasks -> Signals \cup {NoSignal}] /\ pc \in [Tasks -> Steps]
    BY DEF WorkInv, TypeOK
  <2>3. UNCHANGED <<window, sized, returned>>
    BY <1>4 DEF Receive, redisVars
  <2>4. \A u \in Tasks : IF u = t THEN signal'[u] = s
                                  ELSE signal'[u] = signal[u] /\ pc'[u] = pc[u]
    BY <1>4, <2>2 DEF Receive, Goto
  <2> QED
    BY <2>1, <2>3, <2>4 DEF SeenInv
<1>5. ASSUME \/ UNCHANGED vars
             \/ \E s \in Signals : RecordSignal(s)
             \/ \E j \in DOMAIN items : Close(j)
             \/ Expire
      PROVE  Seen \subseteq Seen' /\ Others
  <2>1. UNCHANGED <<pc, signal, sized, delivered, returned>> /\ window' \subseteq window
    BY <1>5 DEF vars, RecordSignal, Close, Expire, redisVars, taskVars, historyVars
  <2>2. Seen' = Seen
    BY <2>1 DEF Seen
  <2> QED
    BY <2>1, <2>2 DEF SeenInv
<1>6. Seen \subseteq Seen' /\ Others
  BY <1>3, <1>4, <1>5 DEF Next
<1> QED
  BY <1>2, <1>6 DEF SeenInv

\* It holds throughout.
LEMMA SeenInvariant == Spec => []SeenInv
<1>1. Init => SeenInv
  BY EmptySeq DEF Init, SeenInv
<1>2. WorkInv /\ SeenInv /\ [Next]_vars => SeenInv'
  BY NextSeen
<1> QED
  BY <1>1, <1>2, WorkInvariant, PTL DEF Spec

\* The signals that tasks have still to count.
Pending == {signal[t] : t \in Charging}

\* The tasks among them whose signal is outside of a set.
Outside(B) == {t \in Charging : signal[t] \notin B}

\* The signals that an incident has counted, or may come to count.
Known(i) == items[i].base \cup Credited(i) \cup Pending

\* Tasks at work on the same signal are paid for by its redelivery.
SpreadInv ==
    \A B \in SUBSET Signals :
        Cardinality(Outside(B)) <= Cardinality(Pending \ B) + Cardinality(Redeliveries)

\* Each task still to count may do so for a signal that is known.
RowPaid(i) ==
    items[i].count + Cardinality(Charging)
        <= Cardinality(Known(i)) + items[i].racers + Cardinality(Redeliveries) + faults

PaidInv == SpreadInv /\ \A i \in 1..Len(items) : RowPaid(i)

\* The sets that are counted, and how large they are.
PaidSets ==
    /\ IsFiniteSet(Charging) /\ Cardinality(Charging) \in Nat
    /\ Pending \subseteq Signals
    /\ IsFiniteSet(Pending)
    /\ \A B : IsFiniteSet(Outside(B)) /\ Cardinality(Outside(B)) \in Nat
    /\ \A B : IsFiniteSet(Pending \ B) /\ Cardinality(Pending \ B) \in Nat
    /\ \A i \in 1..Len(items) :
         /\ Known(i) \subseteq Signals
         /\ IsFiniteSet(Known(i)) /\ Cardinality(Known(i)) \in Nat
    /\ IsFiniteSet(Redeliveries) /\ Cardinality(Redeliveries) \in Nat
    /\ faults \in Nat

\* All these sets are finite.
LEMMA PaidFinite == WorkInv => PaidSets
<1> SUFFICES ASSUME WorkInv PROVE PaidSets
  OBVIOUS
<1>1. IsFiniteSet(Charging) /\ Cardinality(Charging) \in Nat
  BY DedupAssumption, FS_Subset, FS_CardinalityType DEF Charging
<1>2. \A B : Outside(B) \subseteq Charging
  BY DEF Outside
<1>3. \A B : IsFiniteSet(Outside(B)) /\ Cardinality(Outside(B)) \in Nat
  BY <1>1, <1>2, FS_Subset, FS_CardinalityType
<1>4. Pending \subseteq Signals
  BY DEF Pending, Charging, Uncounted, WorkInv, AtWork, TypeOK
<1>5. /\ IsFiniteSet(Pending)
      /\ \A B : IsFiniteSet(Pending \ B) /\ Cardinality(Pending \ B) \in Nat
  BY <1>4, DedupAssumption, FS_Subset, FS_CardinalityType
<1>6. ASSUME NEW i \in 1..Len(items)
      PROVE  /\ Known(i) \subseteq Signals
             /\ IsFiniteSet(Known(i)) /\ Cardinality(Known(i)) \in Nat
  <2>1. items[i].base \in SUBSET Signals
    BY RowFields DEF WorkInv
  <2>2. Credited(i) \subseteq Signals
    BY CreditedSignals
  <2>3. Known(i) \subseteq Signals
    BY <2>1, <2>2, <1>4 DEF Known
  <2> QED
    BY <2>3, DedupAssumption, FS_Subset, FS_CardinalityType
<1>7. Redeliveries \subseteq UNION {{s} \X (1..delivered[s]) : s \in Signals}
  BY DEF Redeliveries, WorkInv, TypeOK
<1>8. IsFiniteSet(Redeliveries) /\ Cardinality(Redeliveries) \in Nat
  <2>1. delivered \in [Signals -> 0..MaxDeliveries]
    BY DEF WorkInv, TypeOK
  <2> QED
    BY <2>1, <1>7, DeliveriesFinite, FS_Subset, FS_CardinalityType
<1>9. faults \in Nat
  BY DedupAssumption DEF WorkInv, TypeOK
<1> QED
  BY <1>1, <1>3, <1>4, <1>5, <1>6, <1>8, <1>9 DEF PaidSets

\* They stay finite.
LEMMA PaidFiniteNext == WorkInv' => PaidSets'
  BY PaidFinite, PTL

\* A delivery of a signal that was seen is a redelivery.
LEMMA RedeliveryCounts ==
    ASSUME WorkInv, WorkInv', NEW s \in Signals,
           delivered' = [delivered EXCEPT ![s] = @ + 1]
    PROVE  /\ Cardinality(Redeliveries') >= Cardinality(Redeliveries)
           /\ s \in Seen => Cardinality(Redeliveries') >= Cardinality(Redeliveries) + 1
<1> DEFINE d == <<s, delivered[s] + 1>>
<1>1. /\ delivered \in [Signals -> 0..MaxDeliveries]
      /\ delivered[s] \in Nat
  BY DedupAssumption DEF WorkInv, TypeOK
<1>2. s \in Seen => d \in Redeliveries'
  BY <1>1 DEF Redeliveries, Seen
<1>3. Redeliveries \subseteq Redeliveries' \ {d}
  <2>1. ASSUME NEW r \in Signals, NEW n \in 2..delivered[r]
        PROVE  <<r, n>> \in Redeliveries' \ {d}
    <3>1. delivered[r] \in Nat /\ delivered'[r] \in Nat /\ delivered'[r] >= delivered[r]
      BY <1>1, DedupAssumption
    <3>2. <<r, n>> \in Redeliveries'
      BY <3>1 DEF Redeliveries
    <3>3. <<r, n>> # d
      BY <3>1
    <3> QED
      BY <3>2, <3>3
  <2> QED
    BY <2>1 DEF Redeliveries
<1>4. /\ IsFiniteSet(Redeliveries')
      /\ Cardinality(Redeliveries') \in Nat /\ Cardinality(Redeliveries) \in Nat
  BY PaidFinite, PaidFiniteNext DEF PaidSets
<1> HIDE DEF d
<1>5. Cardinality(Redeliveries') >= Cardinality(Redeliveries)
  BY <1>3, <1>4, GrowsByNone
<1>6. ASSUME s \in Seen
      PROVE  Cardinality(Redeliveries') >= Cardinality(Redeliveries) + 1
  BY <1>2, <1>3, <1>4, <1>6, LosesOne
<1> QED
  BY <1>5, <1>6

\* A failure of a task is counted, and nothing else is.
LEMMA TaskFaults ==
    ASSUME WorkInv, NEW t \in Tasks
    PROVE  /\ Work(t) => faults' = faults /\ ~Disturb(t)
           /\ Disturb(t) => faults' = faults + 1
<1>1. faults \in Nat
  BY DedupAssumption DEF WorkInv, TypeOK
<1>2. ASSUME Work(t) PROVE faults' = faults
  BY <1>2 DEF Work, CheckCache, Lookup, FillCache, ZAdd, Trim, CountWindow, Create,
     CreateConflicts, ConflictLookup, Announce, CacheNew, Link, ClearWindow, Alert,
     Increment, ConflictIncrement, boundVars
<1>3. ASSUME Disturb(t) PROVE faults' = faults + 1
  BY <1>3 DEF Disturb, CreateFails, CreateOutcomeLost, IncrementFails, Abort, Fault
<1> QED
  BY <1>1, <1>2, <1>3

\* What a step of a task does to the tasks that have still to count.
LEMMA ChargingMoves ==
    ASSUME WorkInv, NEW t \in Tasks, Work(t) \/ Disturb(t)
    PROVE  /\ Charging' \subseteq Charging
           /\ t \notin Charging' => Charging' \subseteq Charging \ {t}
           /\ Pending \subseteq Pending' \cup {signal[t]}
           /\ t \in Charging' \/ t \notin Charging => Pending \subseteq Pending'
           /\ \A B : /\ Outside(B)' \subseteq Outside(B)
                     /\ t \notin Charging' => Outside(B)' \subseteq Outside(B) \ {t}
<1>1. Moves(t)
  BY TaskMoves
<1>2. \A u \in Tasks \ {t} : pc'[u] = pc[u] /\ signal'[u] = signal[u]
  BY <1>1 DEF Moves
<1>3. pc'[t] \in Uncounted => pc[t] \in Uncounted /\ signal'[t] = signal[t]
  BY <1>1 DEF Moves, Uncounted
<1> QED
  BY <1>2, <1>3 DEF Charging, Pending, Outside

\* What it does to the signals known to an incident.
LEMMA KnownMoves ==
    ASSUME WorkInv, [Next]_vars, NEW t \in Tasks, Work(t) \/ Disturb(t),
           NEW i \in 1..Len(items)
    PROVE  /\ Known(i) \subseteq Known(i)' \cup {signal[t]}
           /\ t \in Charging' => Known(i) \subseteq Known(i)'
           /\ Work(t) /\ t \notin Charging => Known(i) \subseteq Known(i)'
           /\ (Increment(t) \/ ConflictIncrement(t)) /\ found[t] = i
                => Known(i) \subseteq Known(i)'
<1>1. Moves(t) /\ returned \subseteq returned' /\ items'[i].base = items[i].base
  BY TaskMoves, ReturnedGrows, ItemsGrow
<1>2. /\ Pending \subseteq Pending' \cup {signal[t]}
      /\ t \in Charging' \/ t \notin Charging => Pending \subseteq Pending'
  BY ChargingMoves
<1> DEFINE mine == IF pc[t] \in Counted /\ found[t] = i THEN {signal[t]} ELSE {}
<1>3. Credited(i) \subseteq Credited(i)' \cup mine
  BY <1>1 DEF Credited, Attributed, Moves
<1>4. ASSUME signal[t] \in Credited(i)' \/ signal[t] \in Pending' \/ mine = {}
      PROVE  Credited(i) \subseteq Known(i)'
  BY <1>3, <1>4 DEF Known
<1>5. Known(i) \subseteq Known(i)' \cup {signal[t]}
  BY <1>1, <1>2, <1>3 DEF Known
<1>6. ASSUME t \in Charging' PROVE Known(i) \subseteq Known(i)'
  <2>1. pc[t] \notin Counted
    BY <1>1, <1>6 DEF Moves, Charging, Uncounted
  <2> QED
    BY <2>1, <1>1, <1>2, <1>4, <1>6 DEF Known
<1>7. ASSUME Work(t), t \notin Charging PROVE Known(i) \subseteq Known(i)'
  <2>1. mine = {} \/ (pc[t] \in Counted /\ found[t] = i)
    OBVIOUS
  <2>2. ASSUME pc[t] \in Counted, found[t] = i
        PROVE  signal[t] \in Credited(i)'
    <3>1. CASE Alert(t)
      <4>1. <<signal[t], i>> \in returned' /\ signal[t] \in Signals
        BY <3>1, <2>2, CreditTyped DEF Alert, Return
      <4> QED
        BY <4>1 DEF Credited, Attributed
    <3>2. CASE ~Alert(t)
      <4>1. ~Disturb(t)
        BY <1>7, TaskFaults
      <4>2. Persists(t)
        BY <4>1, <3>2, <1>7, TaskPersists DEF Disturb
      <4> QED
        BY <4>2, <2>2 DEF Persists, Credited
    <3> QED
      BY <3>1, <3>2
  <2> QED
    BY <2>1, <2>2, <1>1, <1>2, <1>4, <1>7 DEF Known
<1>8. ASSUME Increment(t) \/ ConflictIncrement(t), found[t] = i
      PROVE  Known(i) \subseteq Known(i)'
  <2>1. signal[t] \in Signals
    BY <1>1 DEF Moves, WorkInv, AtWork, TypeOK
  <2>2. signal[t] \in Credited(i)'
    <3>1. CASE Increment(t)
      BY <3>1, <2>1, <1>8 DEF Increment, Return, Credited, Attributed
    <3>2. CASE ConflictIncrement(t)
      <4>1. pc'[t] = "announce" /\ UNCHANGED <<signal, found>>
        BY <3>2 DEF ConflictIncrement, Goto, WorkInv, TypeOK
      <4> QED
        BY <4>1, <1>8 DEF Credited, Counted
    <3> QED
      BY <3>1, <3>2, <1>8
  <2> QED
    BY <2>2, <1>1, <1>2, <1>4 DEF Known
<1> QED
  BY <1>5, <1>6, <1>7, <1>8

\* What it does to the counts and the failures.
LEMMA TaskCounts ==
    ASSUME WorkInv, [Next]_vars, NEW t \in Tasks, NEW i \in 1..Len(items)
    PROVE  /\ Work(t) =>
                /\ faults' = faults
                /\ \/ items'[i].count = items[i].count
                   \/ /\ items'[i].count = items[i].count + 1
                      /\ found[t] = i
                      /\ Increment(t) \/ ConflictIncrement(t)
           /\ Disturb(t) =>
                /\ faults' = faults + 1
                /\ \/ items'[i].count = items[i].count
                   \/ /\ items'[i].count = items[i].count + 1
                      /\ t \in Charging
<1>1. ASSUME Work(t)
      PROVE  \/ items'[i].count = items[i].count
             \/ /\ items'[i].count = items[i].count + 1
                /\ found[t] = i
                /\ Increment(t) \/ ConflictIncrement(t)
  <2>1. CASE Create(t)
    BY <2>1, InsertEffect DEF Create, Goto
  <2>2. CASE Increment(t) \/ ConflictIncrement(t)
    <3>1. pc[t] \in {"incr", "conflictIncr"} /\ CountSignal(t)
      BY <2>2 DEF Increment, ConflictIncrement, Goto
    <3> QED
      BY <3>1, <2>2, CountEffect
  <2>3. CASE ~Create(t) /\ ~Increment(t) /\ ~ConflictIncrement(t)
    BY <2>3, <1>1 DEF Work, CheckCache, Lookup, FillCache, ZAdd, Trim, CountWindow,
       CreateConflicts, ConflictLookup, Announce, CacheNew, Link, ClearWindow, Alert
  <2> QED
    BY <2>1, <2>2, <2>3
<1>2. ASSUME Disturb(t)
      PROVE  \/ items'[i].count = items[i].count
             \/ /\ items'[i].count = items[i].count + 1
                /\ t \in Charging
  <2>1. \/ UNCHANGED items
        \/ pc[t] = "create" /\ Insert(t)
        \/ pc[t] \in {"incr", "conflictIncr"} /\ CountSignal(t)
    BY <1>2 DEF Disturb, CreateFails, CreateOutcomeLost, IncrementFails, Abort
  <2>2. pc[t] \in {"incr", "conflictIncr"} => t \in Charging
    BY DEF Charging, Uncounted, Counted, Steps
  <2> QED
    BY <2>1, <2>2, InsertEffect, CountEffect
<1> QED
  BY <1>1, <1>2, TaskFaults

\* A set that is covered by another and one value more is larger by one at most.
LEMMA CoveredButOne ==
    ASSUME NEW S, NEW T, NEW x, IsFiniteSet(T), S \subseteq T \cup {x}
    PROVE  Cardinality(S) <= Cardinality(T) + 1
  BY GrowsByOne

\* The step of a task keeps the tasks at work on one signal paid for.
LEMMA TaskSpread ==
    ASSUME WorkInv, WorkInv', SpreadInv, NEW t \in Tasks, Work(t) \/ Disturb(t)
    PROVE  SpreadInv'
<1> SUFFICES ASSUME NEW B \in SUBSET Signals
             PROVE  Cardinality(Outside(B)')
                      <= Cardinality(Pending' \ B) + Cardinality(Redeliveries')
  BY DEF SpreadInv
<1> DEFINE o == Cardinality(Outside(B))
           p == Cardinality(Pending \ B)
           q == Cardinality(Redeliveries)
           o1 == Cardinality(Outside(B)')
           p1 == Cardinality(Pending' \ B)
           q1 == Cardinality(Redeliveries')
<1>1. /\ o \in Nat /\ p \in Nat /\ q \in Nat
      /\ IsFiniteSet(Outside(B)) /\ IsFiniteSet(Pending \ B)
      /\ o <= p + q
  BY PaidFinite DEF SpreadInv, PaidSets
<1>2. o1 \in Nat /\ p1 \in Nat /\ IsFiniteSet(Pending' \ B)
  BY PaidFiniteNext DEF PaidSets
<1>3. q1 = q
  <2>1. delivered' = delivered
    BY TaskMoves DEF Moves
  <2> QED
    BY <2>1 DEF Redeliveries
<1>4. Outside(B)' \subseteq Outside(B)
  BY ChargingMoves
<1>5. o1 <= o
  BY <1>1, <1>4, GrowsByNone
<1>6. CASE Pending \ B \subseteq Pending' \ B
  <2>1. p <= p1
    BY <1>2, <1>6, GrowsByNone
  <2> HIDE DEF o, p, q, o1, p1, q1
  <2>2. o1 <= p1 + q1
    BY <2>1, <1>1, <1>2, <1>3, <1>5
  <2> QED
    BY <2>2 DEF o1, p1, q1
<1>7. CASE ~(Pending \ B \subseteq Pending' \ B)
  <2>1. /\ t \in Charging /\ t \notin Charging'
        /\ Pending \ B \subseteq (Pending' \ B) \cup {signal[t]}
    BY <1>7, ChargingMoves
  <2>2. signal[t] \notin B
    BY <2>1, <1>7
  <2>3. t \in Outside(B) /\ Outside(B)' \subseteq Outside(B) \ {t}
    BY <2>1, <2>2, ChargingMoves DEF Outside
  <2>4. o1 + 1 <= o
    BY <1>1, <2>3, LosesOne
  <2>5. p <= p1 + 1
    BY <1>2, <2>1, CoveredButOne
  <2> HIDE DEF o, p, q, o1, p1, q1
  <2>6. o1 <= p1 + q1
    BY <2>4, <2>5, <1>1, <1>2, <1>3
  <2> QED
    BY <2>6 DEF o1, p1, q1
<1> QED
  BY <1>6, <1>7

\* It keeps the rows there were paid for.
LEMMA TaskPays ==
    ASSUME WorkInv, WorkInv', [Next]_vars, NEW t \in Tasks, Work(t) \/ Disturb(t),
           NEW i \in 1..Len(items), RowPaid(i)
    PROVE  RowPaid(i)'
<1> DEFINE c == Cardinality(Charging)
           k == Cardinality(Known(i))
           q == Cardinality(Redeliveries)
           n == items[i].count
           r == items[i].racers
           c1 == Cardinality(Charging')
           k1 == Cardinality(Known(i)')
           q1 == Cardinality(Redeliveries')
           n1 == items'[i].count
           r1 == items'[i].racers
<1>1. /\ c \in Nat /\ k \in Nat /\ q \in Nat /\ n \in Nat /\ r \in Nat /\ faults \in Nat
      /\ IsFiniteSet(Charging) /\ IsFiniteSet(Known(i))
      /\ n + c <= k + r + q + faults
  BY PaidFinite, RowFields DEF RowPaid, WorkInv, PaidSets
<1>2. i \in 1..Len(items') /\ r1 = r /\ n1 \in Nat
  BY ItemsGrow
<1>3. c1 \in Nat /\ k1 \in Nat /\ IsFiniteSet(Known(i)')
  BY <1>2, PaidFiniteNext DEF PaidSets
<1>4. q1 = q
  <2>1. delivered' = delivered
    BY TaskMoves DEF Moves
  <2> QED
    BY <2>1 DEF Redeliveries
<1>5. c1 <= c
  BY <1>1, ChargingMoves, GrowsByNone
<1>6. ASSUME t \in Charging, t \notin Charging' PROVE c1 + 1 <= c
  BY <1>1, <1>6, ChargingMoves, LosesOne
<1>7. k <= k1 + 1
  BY <1>3, KnownMoves, CoveredButOne
<1>8. ASSUME Known(i) \subseteq Known(i)' PROVE k <= k1
  BY <1>3, <1>8, GrowsByNone
<1>9. /\ t \in Charging' => k <= k1
      /\ Work(t) /\ t \notin Charging => k <= k1
      /\ (Increment(t) \/ ConflictIncrement(t)) /\ found[t] = i => k <= k1
  BY <1>8, KnownMoves
<1>10. t \in Charging' => t \in Charging
  BY ChargingMoves
<1>11. ASSUME Increment(t) \/ ConflictIncrement(t)
       PROVE  t \in Charging /\ t \notin Charging'
  BY <1>11, WorkCharges DEF Charges, Charging
<1>12. /\ Work(t) => /\ faults' = faults
                     /\ \/ n1 = n
                        \/ /\ n1 = n + 1
                           /\ found[t] = i
                           /\ Increment(t) \/ ConflictIncrement(t)
       /\ Disturb(t) => /\ faults' = faults + 1
                        /\ n1 = n \/ (n1 = n + 1 /\ t \in Charging)
  BY TaskCounts
<1> HIDE DEF c, k, q, n, r, c1, k1, q1, n1, r1
<1>13. n1 + c1 <= k1 + r1 + q1 + faults'
  <2>1. CASE Work(t)
    BY <2>1, <1>1, <1>2, <1>3, <1>4, <1>5, <1>6, <1>7, <1>9, <1>10, <1>11, <1>12
  <2>2. CASE Disturb(t)
    BY <2>2, <1>1, <1>2, <1>3, <1>4, <1>5, <1>6, <1>7, <1>9, <1>10, <1>12
  <2> QED
    BY <2>1, <2>2
<1> QED
  BY <1>13 DEF RowPaid, c1, k1, q1, n1, r1

\* A set that two others cover is no larger than the two.
LEMMA CoveredByTwo ==
    ASSUME NEW S, NEW T, NEW U, IsFiniteSet(T), IsFiniteSet(U), S \subseteq T \cup U
    PROVE  Cardinality(S) <= Cardinality(T) + Cardinality(U)
<1>1. /\ IsFiniteSet(T \cup U)
      /\ Cardinality(T \cup U) = Cardinality(T) + Cardinality(U) - Cardinality(T \cap U)
  BY FS_Union
<1>2. IsFiniteSet(S) /\ Cardinality(S) <= Cardinality(T \cup U) /\ IsFiniteSet(T \cap U)
  BY <1>1, FS_Subset
<1>3. /\ Cardinality(S) \in Nat /\ Cardinality(T \cup U) \in Nat
      /\ Cardinality(T \cap U) \in Nat
      /\ Cardinality(T) \in Nat /\ Cardinality(U) \in Nat
  BY <1>1, <1>2, FS_CardinalityType
<1> QED
  BY <1>1, <1>2, <1>3

\* A set that covers two others holds the one and what the other has besides.
LEMMA CoversTwo ==
    ASSUME NEW S, NEW T, NEW K, IsFiniteSet(K), S \cup T \subseteq K
    PROVE  Cardinality(S) + Cardinality(T \ S) <= Cardinality(K)
<1>1. IsFiniteSet(S) /\ IsFiniteSet(T \ S) /\ IsFiniteSet(S \cup T)
  BY FS_Subset
<1>2. S \cup (T \ S) = S \cup T /\ S \cap (T \ S) = {}
  OBVIOUS
<1>3. Cardinality({}) = 0
  BY FS_EmptySet
<1>4. Cardinality(S \cup T) = Cardinality(S) + Cardinality(T \ S) - 0
  BY <1>1, <1>2, <1>3, FS_Union
<1>5. Cardinality(S \cup T) <= Cardinality(K)
  BY FS_Subset
<1>6. /\ Cardinality(S) \in Nat /\ Cardinality(T \ S) \in Nat
      /\ Cardinality(S \cup T) \in Nat /\ Cardinality(K) \in Nat
  BY <1>1, FS_CardinalityType
<1> QED
  BY <1>4, <1>5, <1>6

\* A row that a task inserts is paid for: by the racers it is inserted before, by
\* the signals of the other tasks at work, and by the failure that loses its task.
LEMMA NewRowPaid ==
    ASSUME WorkInv, WorkInv', SpreadInv, NEW t \in Tasks, Work(t) \/ Disturb(t),
           pc[t] = "create", Insert(t), NEW i, i = Len(items')
    PROVE  RowPaid(i)'
<1> DEFINE b == Cardinality(sized[t])
           r == Cardinality(Racers(t))
           o == Cardinality(Outside(sized[t]))
           p == Cardinality(Pending \ sized[t])
           q == Cardinality(Redeliveries)
           c1 == Cardinality(Charging')
           k1 == Cardinality(Known(i)')
           q1 == Cardinality(Redeliveries')
<1>1. /\ i \in 1..Len(items')
      /\ items'[i].count = b /\ items'[i].base = sized[t] /\ items'[i].racers = r
  <2>1. items \in Seq(Rows)
    BY DEF WorkInv, TypeOK
  <2> QED
    BY <2>1, InsertEffect
<1>2. /\ b \in Nat /\ r \in Nat /\ o \in Nat /\ p \in Nat /\ q \in Nat /\ faults \in Nat
      /\ IsFiniteSet(Racers(t)) /\ IsFiniteSet(Outside(sized[t]))
      /\ IsFiniteSet(Charging)
      /\ o <= p + q
  <2>1. sized[t] \in SUBSET Signals
    BY DEF WorkInv, TypeOK
  <2>2. Racers(t) \subseteq Tasks
    BY DEF Racers
  <2>3. b \in Nat /\ r \in Nat /\ IsFiniteSet(Racers(t))
    BY <2>1, <2>2, DedupAssumption, FS_Subset, FS_CardinalityType
  <2> QED
    BY <2>1, <2>3, PaidFinite DEF PaidSets, SpreadInv
<1>3. /\ c1 \in Nat /\ k1 \in Nat /\ q1 \in Nat /\ IsFiniteSet(Known(i)')
  BY <1>1, PaidFiniteNext DEF PaidSets
<1>4. q1 = q
  <2>1. delivered' = delivered
    BY TaskMoves DEF Moves
  <2> QED
    BY <2>1 DEF Redeliveries
<1>5. Charging \ {t} \subseteq Racers(t) \cup Outside(sized[t])
  BY DEF Charging, Racers, Outside
<1>6. ASSUME t \notin Charging' PROVE c1 <= r + o
  <2>1. Charging' \subseteq Racers(t) \cup Outside(sized[t])
    BY <1>5, <1>6, ChargingMoves
  <2> QED
    BY <2>1, <1>2, CoveredByTwo
<1>7. c1 <= r + o + 1
  <2>1. Cardinality(Charging \ {t}) <= r + o
    BY <1>2, <1>5, CoveredByTwo
  <2>2. IsFiniteSet(Charging \ {t}) /\ Cardinality(Charging \ {t}) \in Nat
    BY <1>2, GrowsByNone
  <2>3. Charging' \subseteq (Charging \ {t}) \cup {t}
    BY ChargingMoves
  <2>4. c1 <= Cardinality(Charging \ {t}) + 1
    BY <2>2, <2>3, GrowsByOne
  <2> HIDE DEF r, o, c1
  <2> QED
    BY <2>1, <2>2, <2>4, <1>2, <1>3
<1>8. ASSUME Pending \subseteq Pending' \/ signal[t] \in Known(i)'
      PROVE  b + p <= k1
  <2>1. Pending \subseteq Pending' \cup {signal[t]}
    BY ChargingMoves
  <2>2. sized[t] \cup Pending \subseteq Known(i)'
    BY <2>1, <1>1, <1>8 DEF Known
  <2> QED
    BY <2>2, <1>3, CoversTwo
<1>9. b + p <= k1 + 1
  <2>1. Pending \subseteq Pending' \cup {signal[t]}
    BY ChargingMoves
  <2> DEFINE K == Known(i)' \cup {signal[t]}
  <2>2. sized[t] \cup Pending \subseteq K
    BY <2>1, <1>1 DEF Known
  <2>3. IsFiniteSet(K) /\ Cardinality(K) \in Nat /\ Cardinality(K) <= k1 + 1
    BY <1>3, GrowsByOne
  <2>4. b + p <= Cardinality(K)
    BY <2>2, <2>3, CoversTwo
  <2> HIDE DEF b, p, k1, K
  <2> QED
    BY <2>3, <2>4, <1>2, <1>3
<1>10. CASE Work(t)
  <2>1. Create(t)
    BY <1>10 DEF Work, CheckCache, Lookup, FillCache, ZAdd, Trim, CountWindow,
       CreateConflicts, ConflictLookup, Announce, CacheNew, Link, ClearWindow, Alert,
       Increment, ConflictIncrement, Goto, Insert
  <2>2. pc'[t] = "announce" /\ found'[t] = i /\ signal' = signal
    BY <2>1 DEF Create, Goto, Finds, WorkInv, TypeOK
  <2>3. t \notin Charging' /\ signal[t] \in Known(i)'
    BY <2>2 DEF Charging, Uncounted, Counted, Known, Credited
  <2>4. faults' = faults
    BY <1>10, TaskFaults
  <2>5. c1 <= r + o /\ b + p <= k1
    BY <2>3, <1>6, <1>8
  <2> HIDE DEF b, r, o, p, q, c1, k1, q1
  <2>6. b + c1 <= k1 + r + q1 + faults'
    BY <2>4, <2>5, <1>2, <1>3, <1>4
  <2> QED
    BY <2>6, <1>1 DEF RowPaid, c1, k1, q1
<1>11. CASE Disturb(t)
  <2>1. faults' = faults + 1
    BY <1>11, TaskFaults
  <2>2. t \in Charging' => b + p <= k1
    BY <1>8, ChargingMoves
  <2>3. t \notin Charging' => c1 <= r + o
    BY <1>6
  <2> HIDE DEF b, r, o, p, q, c1, k1, q1
  <2>4. b + c1 <= k1 + r + q1 + faults'
    BY <2>1, <2>2, <2>3, <1>2, <1>3, <1>4, <1>7, <1>9
  <2> QED
    BY <2>4, <1>1 DEF RowPaid, c1, k1, q1
<1> QED
  BY <1>10, <1>11

\* The steps of nobody's task leave the counts and what pays for them alone.
LEMMA QuietPays ==
    ASSUME WorkInv, [Next]_vars, PaidInv,
           \/ UNCHANGED vars
           \/ \E s \in Signals : RecordSignal(s)
           \/ \E j \in DOMAIN items : Close(j)
           \/ Expire
    PROVE  SpreadInv' /\ \A i \in 1..Len(items) : RowPaid(i)'
<1>1. UNCHANGED <<pc, signal, found, delivered, returned, faults>>
  BY DEF vars, RecordSignal, Close, Expire, taskVars, historyVars, boundVars
<1>2. /\ Charging' = Charging /\ Pending' = Pending /\ Redeliveries' = Redeliveries
      /\ \A B : Outside(B)' = Outside(B)
      /\ \A i : Credited(i)' = Credited(i)
  BY <1>1 DEF Charging, Pending, Redeliveries, Outside, Credited, Attributed
<1>3. SpreadInv'
  BY <1>2 DEF PaidInv, SpreadInv
<1>4. ASSUME NEW i \in 1..Len(items) PROVE RowPaid(i)'
  <2>1. items'[i].base = items[i].base /\ items'[i].racers = items[i].racers
    BY ItemsGrow
  <2>2. items'[i].count = items[i].count
    <3>1. CASE \E j \in DOMAIN items : Close(j)
      BY <3>1, CloseEffect
    <3>2. CASE ~ \E j \in DOMAIN items : Close(j)
      BY <3>2 DEF vars, RecordSignal, Expire
    <3> QED
      BY <3>1, <3>2
  <2>3. Known(i)' = Known(i)
    BY <2>1, <1>2 DEF Known
  <2> QED
    BY <2>1, <2>2, <2>3, <1>1, <1>2 DEF PaidInv, RowPaid
<1> QED
  BY <1>3, <1>4

\* A delivery is paid for by its signal, if that is new, or is a redelivery.
LEMMA ReceivePays ==
    ASSUME WorkInv, WorkInv', SeenInv, PaidInv,
           NEW t \in Tasks, NEW s \in Signals, Receive(t, s)
    PROVE  SpreadInv' /\ \A i \in 1..Len(items) : RowPaid(i)'
<1>1. /\ pc[t] = "idle" /\ t \notin Charging
      /\ items' = items /\ faults' = faults /\ returned' = returned
      /\ delivered' = [delivered EXCEPT ![s] = @ + 1]
      /\ \A u \in Tasks : found'[u] = found[u]
      /\ pc'[t] = "cache" /\ signal'[t] = s
      /\ \A u \in Tasks \ {t} : pc'[u] = pc[u] /\ signal'[u] = signal[u]
  BY DEF Receive, Goto, WorkInv, TypeOK, Charging, Uncounted, Counted, boundVars
<1>2. Charging' = Charging \cup {t} /\ Pending' = Pending \cup {s}
  BY <1>1 DEF Charging, Uncounted, Counted, Steps, Pending
<1> DEFINE q == Cardinality(Redeliveries)
           q1 == Cardinality(Redeliveries')
<1>3. /\ q \in Nat /\ q1 \in Nat /\ faults \in Nat
      /\ q1 >= q
      /\ s \in Seen => q1 >= q + 1
  BY <1>1, PaidFinite, PaidFiniteNext, RedeliveryCounts DEF PaidSets
<1>4. ASSUME NEW B \in SUBSET Signals
      PROVE  Cardinality(Outside(B)')
               <= Cardinality(Pending' \ B) + Cardinality(Redeliveries')
  <2> DEFINE o == Cardinality(Outside(B))
             p == Cardinality(Pending \ B)
             o1 == Cardinality(Outside(B)')
             p1 == Cardinality(Pending' \ B)
  <2>1. /\ o \in Nat /\ p \in Nat /\ o1 \in Nat /\ p1 \in Nat
        /\ IsFiniteSet(Outside(B)) /\ IsFiniteSet(Pending' \ B)
        /\ o <= p + q
    BY PaidFinite, PaidFiniteNext DEF PaidSets, PaidInv, SpreadInv
  <2>2. p <= p1
    BY <1>2, <2>1, GrowsByNone
  <2>3. /\ Outside(B)' \subseteq Outside(B) \cup {t}
        /\ s \in B => Outside(B)' \subseteq Outside(B)
    <3>1. \A u \in Charging : u # t /\ signal'[u] = signal[u]
      BY <1>1 DEF Charging
    <3> QED
      BY <1>1, <1>2, <3>1 DEF Outside
  <2>4. o1 <= o + 1 /\ (s \in B => o1 <= o)
    BY <2>1, <2>3, GrowsByOne, GrowsByNone
  <2>5. ASSUME s \notin B, s \notin Pending PROVE p + 1 <= p1
    BY <1>2, <2>1, <2>5, LosesOne
  <2>6. s \in Pending => s \in Seen
    BY DEF Pending, Charging, Uncounted, SeenInv
  <2> HIDE DEF o, p, q, o1, p1, q1
  <2>7. o1 <= p1 + q1
    BY <1>3, <2>1, <2>2, <2>4, <2>5, <2>6
  <2> QED
    BY <2>7 DEF o1, p1, q1
<1>5. ASSUME NEW i \in 1..Len(items) PROVE RowPaid(i)'
  <2> DEFINE c == Cardinality(Charging)
             k == Cardinality(Known(i))
             n == items[i].count
             r == items[i].racers
             c1 == Cardinality(Charging')
             k1 == Cardinality(Known(i)')
  <2>1. /\ c \in Nat /\ k \in Nat /\ n \in Nat /\ r \in Nat
        /\ IsFiniteSet(Charging)
        /\ n + c <= k + r + q + faults
    BY PaidFinite, RowFields DEF WorkInv, PaidSets, PaidInv, RowPaid
  <2>2. c1 \in Nat /\ k1 \in Nat /\ IsFiniteSet(Known(i)')
    BY <1>1, PaidFiniteNext DEF PaidSets
  <2>3. c1 <= c + 1
    BY <1>2, <2>1, GrowsByOne
  <2>4. Credited(i)' = Credited(i)
    BY <1>1 DEF Credited, Attributed, Counted
  <2>5. Known(i)' = Known(i) \cup {s}
    BY <1>1, <1>2, <2>4 DEF Known
  <2>6. k <= k1
    BY <2>2, <2>5, GrowsByNone
  <2>7. ASSUME s \notin Known(i) PROVE k + 1 <= k1
    BY <2>2, <2>5, <2>7, LosesOne
  <2>8. ASSUME s \in Known(i) PROVE s \in Seen
    <3>1. CASE s \in items[i].base
      BY <3>1 DEF SeenInv
    <3>2. CASE s \in Credited(i)
      BY <3>2 DEF SeenInv, Credited, Attributed, Counted
    <3>3. CASE s \in Pending
      BY <3>3 DEF SeenInv, Pending, Charging, Uncounted
    <3> QED
      BY <2>8, <3>1, <3>2, <3>3 DEF Known
  <2> HIDE DEF c, k, n, r, q, c1, k1, q1
  <2>9. n + c1 <= k1 + r + q1 + faults
    BY <1>3, <2>1, <2>2, <2>3, <2>6, <2>7, <2>8
  <2> QED
    BY <2>9, <1>1 DEF RowPaid, n, r, c1, k1, q1
<1> QED
  BY <1>4, <1>5 DEF SpreadInv

\* That every count is paid for is inductive.
LEMMA NextPaid ==
    ASSUME WorkInv, SeenInv, PaidInv, [Next]_vars
    PROVE  PaidInv'
<1>1. WorkInv'
  BY NextWorkInv
<1>2. ASSUME NEW t \in Tasks, Work(t) \/ Disturb(t)
      PROVE  SpreadInv' /\ \A i \in 1..Len(items) : RowPaid(i)'
  BY <1>1, <1>2, TaskSpread, TaskPays DEF PaidInv
<1>3. SpreadInv' /\ \A i \in 1..Len(items) : RowPaid(i)'
  BY <1>1, <1>2, QuietPays, ReceivePays DEF Next
<1>4. ASSUME NEW i \in 1..Len(items'), i \notin 1..Len(items)
      PROVE  RowPaid(i)'
  <2>1. Len(items) \in Nat /\ Len(items') # Len(items)
    BY <1>4, ItemsGrow
  <2>2. PICK t \in Tasks : (Work(t) \/ Disturb(t)) /\ items' # items
    BY <2>1, CloseEffect DEF Next, vars, RecordSignal, Receive, Expire
  <2>3. pc[t] = "create" /\ Insert(t)
    BY <2>1, <2>2, TaskItems, CountEffect
  <2>4. Len(items') = Len(items) + 1
    BY <2>3, InsertEffect
  <2>5. i = Len(items')
    BY <1>4, <2>1, <2>4
  <2> QED
    BY <1>1, <2>2, <2>3, <2>5, NewRowPaid DEF PaidInv
<1> QED
  BY <1>3, <1>4 DEF PaidInv

\* Where every count is paid for, few signals are counted twice.
LEMMA PaidBounds == ASSUME WorkInv, PaidInv PROVE CountedTwiceBounded
<1>1. Cardinality(Pending) <= Cardinality(Charging)
  <2> DEFINE f == [t \in Charging |-> signal[t]]
  <2>1. f \in Surjection(Charging, Pending)
    BY DEF Surjection, Pending
  <2> QED
    BY <2>1, PaidFinite, FS_Surjection DEF PaidSets
<1>2. SUFFICES ASSUME NEW i \in 1..Len(items)
               PROVE  items[i].count
                        <= Cardinality(items[i].base \cup Credited(i)) + items[i].racers
                             + Cardinality(Redeliveries) + faults
  <2>1. DOMAIN items = 1..Len(items)
    BY DEF WorkInv, TypeOK
  <2> QED
    BY <2>1 DEF CountedTwiceBounded
<1> DEFINE D == items[i].base \cup Credited(i)
<1>3. IsFiniteSet(D)
  <2>1. D \subseteq Known(i)
    BY DEF Known
  <2> QED
    BY <2>1, PaidFinite, FS_Subset DEF PaidSets
<1>4. Cardinality(Known(i)) <= Cardinality(D) + Cardinality(Pending)
  <2>1. Known(i) \subseteq D \cup Pending
    BY DEF Known
  <2> QED
    BY <2>1, <1>3, PaidFinite, CoveredByTwo DEF PaidSets
<1> DEFINE c == Cardinality(Charging)
           d == Cardinality(D)
           k == Cardinality(Known(i))
           p == Cardinality(Pending)
           q == Cardinality(Redeliveries)
<1>5. /\ c \in Nat /\ d \in Nat /\ k \in Nat /\ p \in Nat /\ q \in Nat /\ faults \in Nat
      /\ items[i].count \in Nat /\ items[i].racers \in Nat
      /\ items[i].count + c <= k + items[i].racers + q + faults
  BY <1>3, PaidFinite, RowFields, FS_CardinalityType DEF WorkInv, PaidSets, PaidInv, RowPaid
<1>6. p <= c /\ k <= d + p
  BY <1>1, <1>4
<1> HIDE DEF c, d, k, p, q
<1>7. items[i].count <= d + items[i].racers + q + faults
  BY <1>5, <1>6
<1> QED
  BY <1>7 DEF d, q

\* An incident counts the signals it was opened with and those attributed to it,
\* some of them twice: at most one signal more for each task that was at work on
\* a member of its window when it was created, for each redelivery and for each
\* failure, whatever races, retries, closings and expiries there are.
THEOREM CountedTwiceForAReason == Spec => []CountedTwiceBounded
<1>1. Init => PaidInv
  <2> SUFFICES ASSUME Init PROVE PaidInv
    OBVIOUS
  <2>1. Len(items) = 0
    BY EmptySeq DEF Init
  <2>2. \A B : Outside(B) = {} /\ Pending \ B = {}
    BY DEF Init, Outside, Pending, Charging, Uncounted
  <2>3. Redeliveries = {}
    BY DEF Init, Redeliveries
  <2> QED
    BY <2>1, <2>2, <2>3, FS_EmptySet DEF PaidInv, SpreadInv
<1>2. WorkInv /\ SeenInv /\ PaidInv /\ [Next]_vars => PaidInv'
  BY NextPaid
<1>3. WorkInv /\ PaidInv => CountedTwiceBounded
  BY PaidBounds
<1> QED
  BY <1>1, <1>2, <1>3, WorkInvariant, SeenInvariant, PTL DEF Spec

-----------------------------------------------------------------------------
(* The incidents implement IncidentLedger.                                 *)

\* A task that may create an incident has counted a full window.
SizedInv ==
    \A t \in Tasks :
        pc[t] \in {"recheck", "create", "conflict", "conflictIncr"} =>
            Cardinality(sized[t]) >= Threshold

Sized(u) ==
    pc'[u] \in {"recheck", "create", "conflict", "conflictIncr"} =>
        Cardinality(sized'[u]) >= Threshold

\* A retry works on with the window it was called with.
LEMMA RetrySized ==
    ASSUME WorkInv, SizedInv, NEW t \in Tasks, NEW u \in Tasks,
           Retry(t) \/ Leave(t),
           pc[t] \in {"create", "conflict", "conflictIncr"} \/ Leave(t)
    PROVE  Sized(u)
<1>1. /\ pc \in [Tasks -> Steps] /\ sized \in [Tasks -> SUBSET Signals]
  BY DEF WorkInv, TypeOK
<1> QED
  BY <1>1 DEF Retry, Leave, Sized, SizedInv, Raise

\* The invariant is kept by every step of a task.
LEMMA TaskSized ==
    ASSUME WorkInv, SizedInv, NEW t \in Tasks, NEW u \in Tasks, Work(t) \/ Disturb(t)
    PROVE  Sized(u)
<1>1. /\ pc \in [Tasks -> Steps] /\ sized \in [Tasks -> SUBSET Signals]
  BY DEF WorkInv, TypeOK
<1>2. pc[u] \in {"recheck", "create", "conflict", "conflictIncr"} =>
        Cardinality(sized[u]) >= Threshold
  BY DEF SizedInv
<1> USE <1>1, <1>2 DEF Sized
<1>3. ASSUME CheckCache(t) PROVE Sized(u)
  BY <1>3 DEF CheckCache, Goto
<1>4. ASSUME Lookup(t) PROVE Sized(u)
  BY <1>4 DEF Lookup, Goto
<1>5. ASSUME FillCache(t) \/ ZAdd(t) \/ Trim(t) PROVE Sized(u)
  BY <1>5 DEF FillCache, ZAdd, Trim, Goto
<1>6. ASSUME CountWindow(t) PROVE Sized(u)
  <2>1. CASE Cardinality(window) >= Threshold
    BY <1>6, <2>1 DEF CountWindow, Goto
  <2>2. CASE ~(Cardinality(window) >= Threshold)
    BY <1>6, <2>2, RetrySized DEF CountWindow
  <2> QED
    BY <2>1, <2>2
<1>7. ASSUME Create(t) \/ CreateConflicts(t) PROVE Sized(u)
  BY <1>7 DEF Create, CreateConflicts, Goto
<1>8. ASSUME ConflictLookup(t) PROVE Sized(u)
  <2>1. CASE Goto(t, "conflict", "conflictIncr") /\ UNCHANGED sized
    BY <2>1 DEF Goto
  <2>2. CASE pc[t] = "conflict" /\ Retry(t)
    BY <2>2, RetrySized
  <2> QED
    BY <1>8, <2>1, <2>2 DEF ConflictLookup
<1>9. ASSUME Announce(t) \/ CacheNew(t) \/ Link(t) \/ ClearWindow(t) PROVE Sized(u)
  BY <1>9 DEF Announce, CacheNew, Link, ClearWindow, Goto
<1>10. ASSUME Alert(t) \/ Increment(t) PROVE Sized(u)
  BY <1>10, RetrySized DEF Alert, Increment, Return
<1>11. ASSUME ConflictIncrement(t) PROVE Sized(u)
  BY <1>11 DEF ConflictIncrement, Goto
<1>12. ASSUME CreateFails(t) \/ CreateOutcomeLost(t) PROVE Sized(u)
  BY <1>12, RetrySized DEF CreateFails, CreateOutcomeLost
<1>13. ASSUME IncrementFails(t) PROVE Sized(u)
  <2>1. CASE UNCHANGED <<pc, sized>>
    BY <2>1
  <2>2. CASE pc[t] = "incr" /\ Leave(t)
    BY <2>2, RetrySized
  <2>3. CASE pc[t] = "conflictIncr" /\ Retry(t)
    BY <2>3, RetrySized
  <2> QED
    BY <1>13, <2>1, <2>2, <2>3 DEF IncrementFails, Raise
<1>14. ASSUME Abort(t) PROVE Sized(u)
  BY <1>14, RetrySized DEF Abort, Raise
<1> QED
  BY <1>3, <1>4, <1>5, <1>6, <1>7, <1>8, <1>9, <1>10, <1>11, <1>12, <1>13, <1>14
  DEF Work, Disturb

\* It is inductive.
LEMMA NextSized == ASSUME WorkInv, SizedInv, [Next]_vars PROVE SizedInv'
<1> SUFFICES ASSUME NEW u \in Tasks PROVE Sized(u)
  BY DEF SizedInv, Sized
<1>1. ASSUME NEW t \in Tasks, NEW s \in Signals, Receive(t, s)
      PROVE  Sized(u)
  <2>1. pc \in [Tasks -> Steps]
    BY DEF WorkInv, TypeOK
  <2> QED
    BY <1>1, <2>1 DEF Receive, Goto, SizedInv, Sized
<1>2. CASE UNCHANGED <<pc, sized>>
  BY <1>2 DEF SizedInv, Sized
<1> QED
  BY <1>1, <1>2, TaskSized DEF Next, vars, taskVars, RecordSignal, Close, Expire

Entries == [active : BOOLEAN, count : Nat, severity : 0..3]

Entry(row) == [active |-> row.active, count |-> row.count, severity |-> row.severity]

\* The ledger has one entry for each row.
LEMMA LedgerEntries ==
    ASSUME NEW rows \in Seq(Rows), NEW ledger,
           ledger = [i \in DOMAIN rows |-> [active |-> rows[i].active,
                                            count |-> rows[i].count,
                                            severity |-> rows[i].severity]]
    PROVE  /\ ledger \in Seq(Entries)
           /\ Len(ledger) = Len(rows)
           /\ DOMAIN ledger = 1..Len(rows)
           /\ \A i \in 1..Len(rows) : ledger[i] = Entry(rows[i])
<1>1. DOMAIN rows = 1..Len(rows) /\ Len(rows) \in Nat
  OBVIOUS
<1>2. \A i \in 1..Len(rows) : rows[i] \in Rows
  BY ElementOfSeq
<1>3. \A i \in 1..Len(rows) : Entry(rows[i]) \in Entries
  BY <1>2 DEF Rows, Entries, Entry
<1>4. ledger = [i \in 1..Len(rows) |-> Entry(rows[i])]
  BY <1>1 DEF Entry
<1>5. ledger \in Seq(Entries)
  BY <1>1, <1>3, <1>4
<1>6. Len(ledger) = Len(rows)
  BY <1>1, <1>4
<1> QED
  BY <1>1, <1>4, <1>5, <1>6

\* What closing does to one entry.
LEMMA RecordClosed ==
    ASSUME NEW e \in Entries, NEW f, f = [e EXCEPT !.active = FALSE]
    PROVE  f = [active |-> FALSE, count |-> e.count, severity |-> e.severity]
<1>1. /\ e = [active |-> e.active, count |-> e.count, severity |-> e.severity]
      /\ e.active \in BOOLEAN /\ e.count \in Nat /\ e.severity \in 0..3
  BY DEF Entries
<1> QED
  BY <1>1

\* Inserting a row opens an entry.
LEMMA InsertOpens ==
    ASSUME WorkInv, SizedInv, NEW t \in Tasks, pc[t] = "create", Insert(t)
    PROVE  Ledger!Next
<1> DEFINE old == LedgerRows
           new == LedgerRows'
           opened == [active |-> TRUE, count |-> Cardinality(sized[t]),
                      severity |-> Rank[signal[t]]]
<1>1. /\ items \in Seq(Rows) /\ items' \in Seq(Rows)
      /\ Len(items) \in Nat
      /\ Len(items') = Len(items) + 1
      /\ \A i \in 1..Len(items) : items'[i] = items[i]
      /\ items'[Len(items) + 1].count = Cardinality(sized[t])
      /\ items'[Len(items) + 1].severity = Rank[signal[t]]
  BY InsertEffect DEF WorkInv, TypeOK
<1>2. items'[Len(items) + 1].active = TRUE
  <2> DEFINE row == [active |-> TRUE, count |-> Cardinality(sized[t]),
                     severity |-> Rank[signal[t]], base |-> sized[t],
                     opener |-> signal[t], racers |-> Cardinality(Racers(t))]
  <2>1. items' = Append(items, row)
    BY DEF Insert
  <2>2. row.active = TRUE
    OBVIOUS
  <2> HIDE DEF row
  <2>3. items'[Len(items) + 1] = row
    BY <1>1, <2>1
  <2> QED
    BY <2>2, <2>3
<1>3. /\ old \in Seq(Entries) /\ Len(old) = Len(items) /\ DOMAIN old = 1..Len(items)
      /\ \A i \in 1..Len(items) : old[i] = Entry(items[i])
  BY <1>1, LedgerEntries DEF LedgerRows
<1>4. /\ new \in Seq(Entries) /\ Len(new) = Len(items')
      /\ \A i \in 1..Len(items') : new[i] = Entry(items'[i])
  BY <1>1, LedgerEntries DEF LedgerRows
<1>5. /\ signal[t] \in Signals /\ sized[t] \in SUBSET Signals
      /\ Cardinality(sized[t]) >= Threshold
      /\ Cardinality(sized[t]) \in Nat
      /\ Rank[signal[t]] \in 0..3
  BY DedupAssumption, FS_Subset, FS_CardinalityType
  DEF WorkInv, AtWork, TypeOK, SizedInv
<1>6. opened \in Entries
  BY <1>5 DEF Entries
<1>7. \A i \in DOMAIN old : ~old[i].active
  BY <1>1, <1>3 DEF Insert, Active, Entry
<1> HIDE DEF old, new
<1>8. new[Len(items) + 1] = opened
  <2>1. Entry(items'[Len(items) + 1]) = opened
    BY <1>1, <1>2, Zenon DEF Entry
  <2> HIDE DEF opened
  <2> QED
    BY <2>1, <1>1, <1>4
<1>9. \A i \in 1..Len(items) : new[i] = old[i]
  BY <1>1, <1>3, <1>4
<1> HIDE DEF opened
<1>10. new = Append(old, opened)
  <2>1. /\ Append(old, opened) \in Seq(Entries)
        /\ Len(Append(old, opened)) = Len(items) + 1
        /\ \A i \in 1..Len(items) : Append(old, opened)[i] = old[i]
        /\ Append(old, opened)[Len(items) + 1] = opened
    BY <1>3, <1>6, AppendProperties
  <2>2. \A i \in 1..Len(new) : new[i] = Append(old, opened)[i]
    BY <1>1, <1>4, <1>8, <1>9, <2>1
  <2> QED
    BY <1>1, <1>4, <2>1, <2>2, SeqEqual
<1>11. Ledger!Open(Cardinality(sized[t]), Rank[signal[t]])
  <2>1. LedgerRows' = Append(LedgerRows, opened)
    BY <1>10 DEF old, new
  <2>2. \A i \in DOMAIN LedgerRows : ~LedgerRows[i].active
    BY <1>7 DEF old
  <2> QED
    BY <2>1, <2>2, Zenon DEF Ledger!Open, opened
<1>12. Cardinality(sized[t]) \in Threshold..Cardinality(Signals)
  <2>1. Cardinality(sized[t]) <= Cardinality(Signals) /\ Cardinality(Signals) \in Nat
    BY <1>5, DedupAssumption, FS_Subset, FS_CardinalityType
  <2> QED
    BY <2>1, <1>5, DedupAssumption
<1> QED
  BY <1>5, <1>11, <1>12 DEF Ledger!Next, Ledger!Severities

\* Counting a signal counts one in the entry.
LEMMA CountCounts ==
    ASSUME WorkInv, NEW t \in Tasks, pc[t] \in {"incr", "conflictIncr"}, CountSignal(t)
    PROVE  Ledger!Next
<1> DEFINE old == LedgerRows
           new == LedgerRows'
           k == found[t]
           worst == items'[k].severity
           more == [active |-> old[k].active, count |-> old[k].count + 1,
                    severity |-> worst]
           counted == [old EXCEPT ![k] = more]
<1>1. /\ items \in Seq(Rows) /\ items' \in Seq(Rows)
      /\ Len(items) \in Nat
      /\ Len(items') = Len(items)
      /\ k \in 1..Len(items)
      /\ \A i \in 1..Len(items) :
           /\ items'[i].active = items[i].active
           /\ items'[i].severity <= items[i].severity
           /\ items'[i].count = IF i = k THEN items[i].count + 1 ELSE items[i].count
  BY CountEffect DEF WorkInv, TypeOK
<1>2. \A i \in 1..Len(items) : i # k => items'[i] = items[i]
  BY <1>1 DEF CountSignal
<1>3. /\ old \in Seq(Entries) /\ Len(old) = Len(items) /\ DOMAIN old = 1..Len(items)
      /\ \A i \in 1..Len(items) : old[i] = Entry(items[i])
  BY <1>1, LedgerEntries DEF LedgerRows
<1>4. /\ new \in Seq(Entries) /\ Len(new) = Len(items) /\ DOMAIN new = 1..Len(items)
      /\ \A i \in 1..Len(items) : new[i] = Entry(items'[i])
  BY <1>1, LedgerEntries DEF LedgerRows
<1>5. worst \in 0..3 /\ worst <= old[k].severity
  <2>1. items'[k] \in Rows
    BY <1>1, ElementOfSeq
  <2>2. worst \in 0..3
    BY <2>1 DEF Rows
  <2>3. old[k].severity = items[k].severity
    BY <1>1, <1>3 DEF Entry
  <2> HIDE DEF old
  <2> QED
    BY <2>2, <2>3, <1>1
<1> HIDE DEF old, new, k
<1>6. new[k] = more
  <2>1. /\ old[k] = Entry(items[k]) /\ new[k] = Entry(items'[k])
        /\ items'[k].active = items[k].active
        /\ items'[k].count = items[k].count + 1
    BY <1>1, <1>3, <1>4
  <2>2. old[k].active = items[k].active /\ old[k].count = items[k].count
    BY <2>1 DEF Entry
  <2>3. new[k] = [active |-> items'[k].active, count |-> items'[k].count,
                  severity |-> worst]
    BY <2>1 DEF Entry
  <2> QED
    BY <2>1, <2>2, <2>3, Zenon
<1>7. \A i \in 1..Len(items) : i # k => new[i] = old[i]
  BY <1>2, <1>3, <1>4
<1> HIDE DEF worst, more
<1>8. new = counted
  <2>1. DOMAIN counted = 1..Len(items)
    BY <1>3
  <2>2. \A i \in 1..Len(items) : new[i] = counted[i]
    BY <1>1, <1>3, <1>6, <1>7
  <2>3. new = [i \in 1..Len(items) |-> new[i]]
    BY <1>4
  <2>4. counted = [i \in 1..Len(items) |-> counted[i]]
    BY <1>3
  <2> HIDE DEF counted
  <2> QED
    BY <2>2, <2>3, <2>4
<1>9. Ledger!CountOne(k, worst)
  BY <1>5, <1>8 DEF Ledger!CountOne, old, new, more
<1>10. k \in DOMAIN LedgerRows
  BY <1>1, <1>3 DEF old
<1> QED
  BY <1>5, <1>9, <1>10 DEF Ledger!Next, Ledger!Severities

\* Closing an incident closes its entry.
LEMMA CloseCloses ==
    ASSUME WorkInv, NEW j \in DOMAIN items, Close(j)
    PROVE  Ledger!Next
<1> DEFINE old == LedgerRows
           new == LedgerRows'
           closed == [old EXCEPT ![j].active = FALSE]
<1>1. /\ items \in Seq(Rows) /\ items' \in Seq(Rows)
      /\ Len(items) \in Nat
      /\ Len(items') = Len(items)
      /\ j \in 1..Len(items)
      /\ \A i \in 1..Len(items) :
           /\ items'[i].severity = items[i].severity
           /\ items'[i].count = items[i].count
  BY CloseEffect DEF WorkInv, TypeOK
<1>2. /\ items[j].active
      /\ items' = [items EXCEPT ![j].active = FALSE]
  BY DEF Close
<1>3. /\ old \in Seq(Entries) /\ Len(old) = Len(items) /\ DOMAIN old = 1..Len(items)
      /\ \A i \in 1..Len(items) : old[i] = Entry(items[i])
  BY <1>1, LedgerEntries DEF LedgerRows
<1>4. /\ new \in Seq(Entries) /\ Len(new) = Len(items) /\ DOMAIN new = 1..Len(items)
      /\ \A i \in 1..Len(items) : new[i] = Entry(items'[i])
  BY <1>1, LedgerEntries DEF LedgerRows
<1>5. \A i \in 1..Len(items) : i # j => items'[i] = items[i]
  BY <1>1, <1>2
<1>6. items'[j].active = FALSE
  <2>1. items[j] \in Rows
    BY <1>1, ElementOfSeq
  <2> QED
    BY <1>1, <1>2, <2>1 DEF Rows
<1> HIDE DEF old, new
<1>7. new[j] = [old[j] EXCEPT !.active = FALSE] /\ old[j].active
  <2>1. old[j] = Entry(items[j]) /\ old[j] \in Entries
    BY <1>1, <1>3
  <2>2. /\ old[j].active = items[j].active
        /\ old[j].count = items[j].count
        /\ old[j].severity = items[j].severity
    BY <2>1 DEF Entry
  <2>3. new[j] = [active |-> FALSE, count |-> old[j].count,
                  severity |-> old[j].severity]
    <3>1. new[j] = Entry(items'[j])
      BY <1>1, <1>4
    <3>2. items'[j].count = items[j].count /\ items'[j].severity = items[j].severity
      BY <1>1
    <3> QED
      BY <3>1, <3>2, <2>2, <1>6, Zenon DEF Entry
  <2>4. ASSUME NEW f, f = [old[j] EXCEPT !.active = FALSE]
        PROVE  f = new[j]
    BY <2>1, <2>3, <2>4, RecordClosed
  <2> QED
    BY <2>2, <2>4, <1>2
<1>8. \A i \in 1..Len(items) : i # j => new[i] = old[i]
  BY <1>3, <1>4, <1>5
<1>9. new = closed
  <2>1. \A i \in 1..Len(items) : new[i] = closed[i]
    BY <1>1, <1>3, <1>7, <1>8
  <2>2. new = [i \in 1..Len(items) |-> new[i]]
    BY <1>4
  <2>3. closed = [i \in 1..Len(items) |-> closed[i]]
    BY <1>3
  <2> HIDE DEF closed
  <2> QED
    BY <2>1, <2>2, <2>3
<1>10. Ledger!Close(j)
  BY <1>7, <1>9 DEF Ledger!Close, old, new
<1>11. j \in DOMAIN LedgerRows
  BY <1>1, <1>3 DEF old
<1> QED
  BY <1>10, <1>11 DEF Ledger!Next

\* Every step is one of the ledger's, or leaves it alone.
LEMMA LedgerStep ==
    ASSUME WorkInv, SizedInv, [Next]_vars
    PROVE  [Ledger!Next]_LedgerRows
<1>1. CASE UNCHANGED items
  BY <1>1 DEF LedgerRows
<1> QED
  BY <1>1, ItemSteps, InsertOpens, CountCounts, CloseCloses

\* A component's incidents behave as the ledger says, however many workers
\* resolve its signals and whatever fails.
THEOREM LedgerImplemented == Spec => ImplementsLedger
<1>1. Init => Ledger!Init
  <2> SUFFICES ASSUME Init PROVE Ledger!Init
    OBVIOUS
  <2>1. items = <<>> /\ DOMAIN items = {}
    BY EmptySeq DEF Init
  <2>2. LedgerRows = <<>>
    BY <2>1 DEF LedgerRows
  <2> QED
    BY <2>2 DEF Ledger!Init
<1>2. Init => SizedInv
  BY DEF Init, SizedInv
<1>3. WorkInv /\ SizedInv /\ [Next]_vars => SizedInv'
  BY NextSized
<1>4. WorkInv /\ SizedInv /\ [Next]_vars => [Ledger!Next]_LedgerRows
  BY LedgerStep
<1> QED
  BY <1>1, <1>2, <1>3, <1>4, WorkInvariant, PTL DEF Spec, ImplementsLedger, Ledger!Spec
=============================================================================
