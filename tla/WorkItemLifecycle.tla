------------------------- MODULE WorkItemLifecycle -------------------------
(***************************************************************************)
(* The life of one work item: PATCH /{id}/transition and POST /{id}/rca    *)
(* (services/workitems.py), the state machine they go through              *)
(* (services/state_machine.py) and the retries around both                 *)
(* (db/postgres.py).                                                       *)
(*                                                                         *)
(* The row is locked with FOR UPDATE, so what a transaction reads and      *)
(* writes is one step.  A commit may be applied and its outcome lost; the  *)
(* retry then starts over.  An RCA is abstracted to the minutes between    *)
(* its incident_start and incident_end; its texts are never empty because  *)
(* the schema refuses blank ones.                                          *)
(***************************************************************************)
EXTENDS Integers, Sequences, FiniteSets

CONSTANTS
    Requests,      \* HTTP requests on the work item
    Durations,     \* incident lengths, in minutes, that requests submit
    Submissions,   \* what the requests may ask for together: functions on Requests
    MaxAttempts    \* attempts of retry_postgres_write

Statuses == {"OPEN", "INVESTIGATING", "RESOLVED", "CLOSED"}

\* Before create_work_item has committed there is no row.
Absent == "absent"

Transition(target) == [kind |-> "transition", arg |-> target]
Rca(minutes) == [kind |-> "rca", arg |-> minutes]

Ops == {Transition(target) : target \in Statuses} \cup {Rca(m) : m \in Durations}

ASSUME LifecycleAssumption ==
    /\ Durations \subseteq Int
    /\ MaxAttempts \in Nat \ {0}
    /\ Submissions \subseteq [Requests -> Ops]

Steps == {"new", "txn", "refresh", "notify", "answered"}
Answers == {"none", "ok", "notFound", "conflict", "invalid", "error"}

VARIABLES
    status,    \* work_items.status
    rcaId,     \* work_items.rca_id: index into rcas, 0 for NULL
    mttr,      \* work_items.mttr_minutes, 0 for NULL
    rcas,      \* rows of the rca table in insertion order
    history,   \* rows of work_item_status_history in insertion order
    op,        \* what each request asks for
    pc,        \* where each request stands
    attempt,   \* current attempt of its retry loop
    answer,    \* what it was answered
    writes     \* transactions of the request that changed the row

rowVars == <<status, rcaId, mttr, rcas, history>>
requestVars == <<op, pc, attempt, answer, writes>>
vars == <<rowVars, requestVars>>

Init ==
    /\ status = Absent
    /\ rcaId = 0
    /\ mttr = 0
    /\ rcas = <<>>
    /\ history = <<>>
    /\ op \in Submissions
    /\ pc = [r \in Requests |-> "new"]
    /\ attempt = [r \in Requests |-> 1]
    /\ answer = [r \in Requests |-> "none"]
    /\ writes = [r \in Requests |-> 0]

\* create_work_item: the row and its first history entry in one transaction.
Create ==
    /\ status = Absent
    /\ status' = "OPEN"
    /\ history' = <<[from |-> Absent, to |-> "OPEN"]>>
    /\ UNCHANGED <<rcaId, mttr, rcas, requestVars>>

Goto(r, from, to) ==
    /\ pc[r] = from
    /\ pc' = [pc EXCEPT ![r] = to]

Answer(r, result) ==
    /\ pc' = [pc EXCEPT ![r] = "answered"]
    /\ answer' = [answer EXCEPT ![r] = result]

-----------------------------------------------------------------------------
(* The state machine.                                                      *)

HasCompleteRca == rcaId # 0

\* The only state each state can be left for.
Successor == [s \in Statuses |->
    CASE s = "OPEN" -> "INVESTIGATING"
      [] s = "INVESTIGATING" -> "RESOLVED"
      [] s = "RESOLVED" -> "CLOSED"
      [] s = "CLOSED" -> "CLOSED"]

\* Mutant: the guard on the RCA is missing.
AllowedWithoutRca(target) == target \in {status, Successor[status]}

\* Mutant: a resolved item may be reopened.
AllowedToReopen(target) ==
    \/ target \in {status, "INVESTIGATING"} /\ status # "CLOSED"
    \/ /\ target = Successor[status]
       /\ target = "CLOSED" => HasCompleteRca

Allowed(target) ==
    \/ target = status
    \/ /\ target = Successor[status]
       /\ target = "CLOSED" => HasCompleteRca

-----------------------------------------------------------------------------
(* A request.                                                              *)

\* RCARequest refuses an incident that does not end after it starts.
Receive(r) ==
    /\ pc[r] = "new"
    /\ IF op[r].kind = "rca" /\ op[r].arg <= 0
         THEN Answer(r, "invalid")
         ELSE Goto(r, "new", "txn") /\ UNCHANGED answer
    /\ UNCHANGED <<rowVars, op, attempt, writes>>

\* The transaction raises an HTTPException: nothing is written or retried.
Refuse(r) ==
    /\ pc[r] = "txn"
    /\ \/ status = Absent /\ Answer(r, "notFound")
       \/ /\ status # Absent
          /\ \/ op[r].kind = "transition" /\ ~Allowed(op[r].arg)
             \/ op[r].kind = "rca" /\ status = "CLOSED"
          /\ Answer(r, "conflict")
    /\ UNCHANGED <<rowVars, op, attempt, writes>>

CountWrite(r) == writes' = [writes EXCEPT ![r] = @ + 1]

\* Mutant: a history entry is added even if the status stays the same.
WriteTransitionAlwaysLogged(r) ==
    /\ op[r].kind = "transition"
    /\ Allowed(op[r].arg)
    /\ status' = op[r].arg
    /\ history' = Append(history, [from |-> status, to |-> op[r].arg])
    /\ CountWrite(r)
    /\ UNCHANGED <<rcaId, mttr, rcas>>

WriteTransition(r) ==
    /\ op[r].kind = "transition"
    /\ Allowed(op[r].arg)
    /\ status' = op[r].arg
    /\ IF op[r].arg # status
         THEN /\ history' = Append(history, [from |-> status, to |-> op[r].arg])
              /\ CountWrite(r)
         ELSE UNCHANGED <<history, writes>>
    /\ UNCHANGED <<rcaId, mttr, rcas>>

\* Mutant: a closed item still takes an RCA.
WriteRcaToClosed(r) ==
    /\ op[r].kind = "rca"
    /\ rcas' = Append(rcas, op[r].arg)
    /\ rcaId' = Len(rcas) + 1
    /\ mttr' = op[r].arg
    /\ CountWrite(r)
    /\ UNCHANGED <<status, history>>

WriteRca(r) ==
    /\ op[r].kind = "rca"
    /\ status # "CLOSED"
    /\ rcas' = Append(rcas, op[r].arg)
    /\ rcaId' = Len(rcas) + 1
    /\ mttr' = op[r].arg
    /\ CountWrite(r)
    /\ UNCHANGED <<status, history>>

Write(r) ==
    /\ status # Absent
    /\ WriteTransition(r) \/ WriteRca(r)

\* The transaction commits.  A transition then reads the row once more.
Commit(r) ==
    /\ Goto(r, "txn", IF op[r].kind = "transition" THEN "refresh" ELSE "notify")
    /\ Write(r)
    /\ UNCHANGED <<op, attempt, answer>>

\* session.refresh(item)
Refresh(r) ==
    /\ Goto(r, "refresh", "notify")
    /\ UNCHANGED <<rowVars, op, attempt, answer, writes>>

\* invalidate_workitems_cache and PUBLISH.
Notify(r) ==
    /\ pc[r] = "notify"
    /\ Answer(r, "ok")
    /\ UNCHANGED <<rowVars, op, attempt, writes>>

\* Mutants of Retry: one attempt too many, attempts not counted, and running
\* out of attempts not reported.
RetryOnceMore(r) ==
    \/ /\ attempt[r] <= MaxAttempts
       /\ attempt' = [attempt EXCEPT ![r] = @ + 1]
       /\ pc' = [pc EXCEPT ![r] = "txn"]
       /\ UNCHANGED answer
    \/ Answer(r, "error") /\ UNCHANGED attempt

RetryUncounted(r) ==
    \/ /\ pc' = [pc EXCEPT ![r] = "txn"]
       /\ UNCHANGED <<answer, attempt>>
    \/ Answer(r, "error") /\ UNCHANGED attempt

RetrySilently(r) ==
    \/ /\ attempt[r] < MaxAttempts
       /\ attempt' = [attempt EXCEPT ![r] = @ + 1]
       /\ pc' = [pc EXCEPT ![r] = "txn"]
       /\ UNCHANGED answer
    \/ Answer(r, "ok") /\ UNCHANGED attempt

\* A database error: transient ones are retried while attempts remain.
Retry(r) ==
    \/ /\ attempt[r] < MaxAttempts
       /\ attempt' = [attempt EXCEPT ![r] = @ + 1]
       /\ pc' = [pc EXCEPT ![r] = "txn"]
       /\ UNCHANGED answer
    \/ Answer(r, "error") /\ UNCHANGED attempt

TxnFails(r) ==
    /\ pc[r] = "txn"
    /\ Retry(r)
    /\ UNCHANGED <<rowVars, op, writes>>

\* The commit is applied but the connection is lost before its outcome.
CommitOutcomeLost(r) ==
    /\ pc[r] = "txn"
    /\ Write(r)
    /\ Retry(r)
    /\ UNCHANGED op

RefreshFails(r) ==
    /\ pc[r] = "refresh"
    /\ Retry(r)
    /\ UNCHANGED <<rowVars, op, writes>>

\* A Redis error is not transient to is_transient_error.
NotifyFails(r) ==
    /\ pc[r] = "notify"
    /\ Answer(r, "error")
    /\ UNCHANGED <<rowVars, op, attempt, writes>>

Serve(r) == Receive(r) \/ Refuse(r) \/ Commit(r) \/ Refresh(r) \/ Notify(r)

Disturb(r) ==
    TxnFails(r) \/ CommitOutcomeLost(r) \/ RefreshFails(r) \/ NotifyFails(r)

Next == Create \/ \E r \in Requests : Serve(r) \/ Disturb(r)

Spec == Init /\ [][Next]_vars

FairSpec == Spec /\ \A r \in Requests : WF_vars(Serve(r) \/ Disturb(r))

-----------------------------------------------------------------------------
(* Properties                                                              *)

TypeOK ==
    /\ status \in Statuses \cup {Absent}
    /\ rcaId \in 0..Len(rcas)
    /\ mttr \in Durations \cup {0}
    /\ rcas \in Seq(Durations)
    /\ history \in Seq([from : Statuses \cup {Absent}, to : Statuses])
    /\ op \in [Requests -> Ops]
    /\ pc \in [Requests -> Steps]
    /\ attempt \in [Requests -> 1..MaxAttempts]
    /\ answer \in [Requests -> Answers]
    /\ writes \in [Requests -> Nat]

\* An item is closed only with an RCA, whichever requests raced and were
\* retried on the way, and its MTTR is that RCA's: the latest one submitted,
\* of positive length.
ClosedHasRca ==
    /\ status = "CLOSED" => rcaId # 0
    /\ rcaId # 0 => rcaId = Len(rcas) /\ mttr = rcas[rcaId] /\ mttr > 0
    /\ rcaId = 0 => mttr = 0

\* The history is an unbroken trail from creation to the current status, one
\* entry per transition and only along the lifecycle: retries neither skip
\* nor repeat an entry.
HistoryIsTrail ==
    /\ status = Absent <=> history = <<>>
    /\ history # <<>> =>
         /\ history[1] = [from |-> Absent, to |-> "OPEN"]
         /\ history[Len(history)].to = status
    /\ \A i \in 2..Len(history) :
         /\ history[i].from = history[i - 1].to
         /\ history[i].from # history[i].to
         /\ history[i].to = Successor[history[i].from]

\* A closed item is final: neither its status nor the RCA and MTTR it was
\* closed with ever change again.
ClosedIsFinal ==
    [][status = "CLOSED" => UNCHANGED <<status, rcaId, mttr, history>>]_vars

\* However often a transition is retried after its outcome was lost, it takes
\* effect once.
TransitionAppliedOnce ==
    \A r \in Requests : op[r].kind = "transition" => writes[r] <= 1

\* The attempts the requests that submit an RCA have made so far.
RcaAttempts ==
    UNION {{r} \X (1..attempt[r]) :
             r \in {q \in Requests : op[q].kind = "rca" /\ pc[q] # "new"}}

\* An RCA whose outcome was lost is stored again, but no attempt of any request
\* stores more than one row.
RcaRowsBounded == Len(rcas) <= Cardinality(RcaAttempts)

\* An answer of 200 tells the truth: the item did get to the requested state,
\* or the submitted RCA was stored.
OkIsTrue ==
    \A r \in Requests : answer[r] = "ok" =>
        IF op[r].kind = "transition"
          THEN \E i \in 1..Len(history) : history[i].to = op[r].arg
          ELSE writes[r] > 0 /\ \E i \in 1..Len(rcas) : rcas[i] = op[r].arg

\* Every request is answered: retrying comes to an end.
EveryRequestAnswered == \A r \in Requests : <>(pc[r] = "answered")
=============================================================================
