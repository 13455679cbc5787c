---------------------- MODULE WorkItemLifecycleProofs ----------------------
(***************************************************************************)
(* Safety of WorkItemLifecycle for any number of requests, any durations   *)
(* and any bound on attempts.                                              *)
(*                                                                         *)
(* A step leaves the row alone, creates it, or is a transaction of one     *)
(* request that holds the row lock: RowSteps.  The properties of the row   *)
(* are proved from these three cases, whatever the requests do between     *)
(* their transactions.                                                     *)
(***************************************************************************)
EXTENDS WorkItemLifecycle, FiniteSetTheorems, TLAPS

\* An RCA that reaches the database has a positive length.
RcaChecked ==
    \A r \in Requests :
        op[r].kind = "rca" /\ pc[r] \notin {"new", "answered"} => op[r].arg > 0

RowInv == TypeOK /\ RcaChecked /\ ClosedHasRca /\ HistoryIsTrail

Rank == [s \in Statuses |->
    CASE s = "OPEN" -> 0
      [] s = "INVESTIGATING" -> 1
      [] s = "RESOLVED" -> 2
      [] s = "CLOSED" -> 3]

\* A transition that took effect is at or behind the current status.
Passed ==
    \A r \in Requests : op[r].kind = "transition" /\ writes[r] > 0 =>
        /\ status \in Statuses
        /\ Rank[op[r].arg] <= Rank[status]

-----------------------------------------------------------------------------
(* What a step does to the row.                                            *)

\* What a request asks for is a transition or an RCA.
LEMMA OpShape ==
    ASSUME NEW r \in Requests, op \in [Requests -> Ops]
    PROVE  /\ op[r].kind = "transition" => op[r].arg \in Statuses
           /\ op[r].kind = "rca" => op[r].arg \in Durations
           /\ op[r].kind \in {"transition", "rca"}
  BY DEF Ops, Transition, Rca

\* Only Create and the transaction of one request change the row.
LEMMA RowSteps ==
    ASSUME [Next]_vars
    PROVE  /\ op' = op
           /\ \/ UNCHANGED <<rowVars, writes>>
              \/ Create
              \/ \E r \in Requests : pc[r] = "txn" /\ Write(r)
<1>1. CASE UNCHANGED vars
  BY <1>1 DEF vars, rowVars, requestVars
<1>2. CASE Create
  BY <1>2 DEF Create, requestVars
<1>3. ASSUME NEW r \in Requests, Serve(r)
      PROVE  /\ op' = op
             /\ UNCHANGED <<rowVars, writes>> \/ (pc[r] = "txn" /\ Write(r))
  <2>1. CASE Commit(r)
    BY <2>1 DEF Commit, Goto
  <2>2. CASE Receive(r) \/ Refuse(r) \/ Refresh(r) \/ Notify(r)
    BY <2>2 DEF Receive, Refuse, Refresh, Notify
  <2> QED
    BY <1>3, <2>1, <2>2 DEF Serve
<1>4. ASSUME NEW r \in Requests, Disturb(r)
      PROVE  /\ op' = op
             /\ UNCHANGED <<rowVars, writes>> \/ (pc[r] = "txn" /\ Write(r))
  <2>1. CASE CommitOutcomeLost(r)
    BY <2>1 DEF CommitOutcomeLost
  <2>2. CASE TxnFails(r) \/ RefreshFails(r) \/ NotifyFails(r)
    BY <2>2 DEF TxnFails, RefreshFails, NotifyFails
  <2> QED
    BY <1>4, <2>1, <2>2 DEF Disturb
<1> QED
  BY <1>1, <1>2, <1>3, <1>4 DEF Next

\* A transaction keeps the types of the row.
LEMMA WriteTyping ==
    ASSUME NEW r \in Requests, TypeOK, Write(r)
    PROVE  /\ status' \in Statuses
           /\ rcas' \in Seq(Durations)
           /\ rcaId' \in 0..Len(rcas')
           /\ mttr' \in Durations \cup {0}
           /\ history' \in Seq([from : Statuses \cup {Absent}, to : Statuses])
           /\ writes' \in [Requests -> Nat]
<1> USE DEF TypeOK, CountWrite
<1>1. CASE WriteTransition(r)
  <2>1. op[r].arg \in Statuses /\ status \in Statuses
    BY <1>1, OpShape DEF WriteTransition, Write, Absent
  <2>2. status' \in Statuses /\ UNCHANGED <<rcaId, mttr, rcas>>
    BY <1>1, <2>1 DEF WriteTransition
  <2>3. CASE op[r].arg # status
    <3> DEFINE entry == [from |-> status, to |-> op[r].arg]
    <3>1. entry \in [from : Statuses \cup {Absent}, to : Statuses]
      BY <2>1
    <3>2. history' = Append(history, entry) /\ CountWrite(r)
      BY <1>1, <2>3 DEF WriteTransition
    <3> HIDE DEF entry
    <3>3. history' \in Seq([from : Statuses \cup {Absent}, to : Statuses])
      BY <3>1, <3>2
    <3> QED
      BY <2>2, <3>2, <3>3
  <2>4. CASE op[r].arg = status
    BY <1>1, <2>2, <2>4 DEF WriteTransition
  <2> QED
    BY <2>3, <2>4
<1>2. CASE WriteRca(r)
  <2>1. op[r].arg \in Durations /\ status \in Statuses
    BY <1>2, OpShape DEF WriteRca, Write
  <2>2. rcas' \in Seq(Durations) /\ Len(rcas') = Len(rcas) + 1
    BY <1>2, <2>1 DEF WriteRca
  <2> QED
    BY <1>2, <2>1, <2>2 DEF WriteRca
<1> QED
  BY <1>1, <1>2 DEF Write

-----------------------------------------------------------------------------
(* Type correctness.                                                       *)

\* The control state of the requests keeps its types.
LEMMA ControlTyping ==
    ASSUME TypeOK, [Next]_vars
    PROVE  /\ pc' \in [Requests -> Steps]
           /\ attempt' \in [Requests -> 1..MaxAttempts]
           /\ answer' \in [Requests -> Answers]
<1> USE DEF TypeOK, Steps, Answers
<1>1. CASE UNCHANGED vars
  BY <1>1 DEF vars, requestVars
<1>2. CASE Create
  BY <1>2 DEF Create, requestVars
<1>3. ASSUME NEW r \in Requests, Serve(r)
      PROVE  /\ pc' \in [Requests -> Steps]
             /\ attempt' \in [Requests -> 1..MaxAttempts]
             /\ answer' \in [Requests -> Answers]
  BY <1>3 DEF Serve, Receive, Refuse, Commit, Refresh, Notify, Goto, Answer
<1>4. ASSUME NEW r \in Requests, Disturb(r)
      PROVE  /\ pc' \in [Requests -> Steps]
             /\ attempt' \in [Requests -> 1..MaxAttempts]
             /\ answer' \in [Requests -> Answers]
  <2>1. CASE NotifyFails(r)
    BY <2>1 DEF NotifyFails, Answer
  <2>2. CASE Retry(r)
    <3>1. CASE Answer(r, "error") /\ UNCHANGED attempt
      BY <3>1 DEF Answer
    <3>2. CASE /\ attempt[r] < MaxAttempts
               /\ attempt' = [attempt EXCEPT ![r] = @ + 1]
               /\ pc' = [pc EXCEPT ![r] = "txn"]
               /\ UNCHANGED answer
      <4>1. attempt[r] + 1 \in 1..MaxAttempts
        BY <3>2, LifecycleAssumption
      <4> QED
        BY <3>2, <4>1
    <3> QED
      BY <2>2, <3>1, <3>2 DEF Retry
  <2> QED
    BY <1>4, <2>1, <2>2 DEF Disturb, TxnFails, CommitOutcomeLost, RefreshFails
<1> QED
  BY <1>1, <1>2, <1>3, <1>4 DEF Next

\* Every step keeps the types.
LEMMA TypeStep ==
    ASSUME TypeOK, [Next]_vars
    PROVE  TypeOK'
<1>1. /\ op' = op
      /\ \/ UNCHANGED <<rowVars, writes>>
         \/ Create
         \/ \E r \in Requests : pc[r] = "txn" /\ Write(r)
  BY RowSteps
<1>2. /\ pc' \in [Requests -> Steps]
      /\ attempt' \in [Requests -> 1..MaxAttempts]
      /\ answer' \in [Requests -> Answers]
  BY ControlTyping
<1>3. CASE UNCHANGED <<rowVars, writes>>
  BY <1>1, <1>2, <1>3 DEF TypeOK, rowVars
<1>4. CASE Create
  <2>1. history' \in Seq([from : Statuses \cup {Absent}, to : Statuses])
    BY <1>4 DEF Create, Statuses
  <2> QED
    BY <1>1, <1>2, <1>4, <2>1 DEF TypeOK, Create, Statuses, requestVars
<1>5. ASSUME NEW r \in Requests, Write(r)
      PROVE  TypeOK'
  BY <1>1, <1>2, <1>5, WriteTyping DEF TypeOK
<1> QED
  BY <1>1, <1>3, <1>4, <1>5

\* The types hold at the start.
LEMMA InitTyping == Init => TypeOK
  BY LifecycleAssumption DEF Init, TypeOK, Steps, Answers

\* Every variable keeps its type, attempts stay within the bound of
\* retry_postgres_write and rca_id names a row of the rca table.
THEOREM TypeCorrect == Spec => []TypeOK
  BY InitTyping, TypeStep, PTL DEF Spec

-----------------------------------------------------------------------------
(* The row: closing needs an RCA, and the history is a trail.              *)

\* Requests never get past "new" with an RCA the schema refuses.
LEMMA RcaCheckedStep ==
    ASSUME TypeOK, RcaChecked, [Next]_vars
    PROVE  RcaChecked'
<1> SUFFICES ASSUME NEW q \in Requests, op'[q].kind = "rca",
                    pc'[q] \notin {"new", "answered"}
             PROVE  op'[q].arg > 0
  BY DEF RcaChecked
<1>1. op' = op
  BY RowSteps
<1>2. op[q].arg \in Int
  BY <1>1, OpShape, LifecycleAssumption DEF TypeOK
<1>3. CASE pc[q] \notin {"new", "answered"}
  BY <1>1, <1>3 DEF RcaChecked
<1>4. CASE UNCHANGED vars \/ Create
  BY <1>1, <1>4 DEF vars, requestVars, Create, RcaChecked
<1>5. ASSUME NEW r \in Requests, Receive(r), pc[q] \in {"new", "answered"}
      PROVE  op[q].arg > 0
  <2>1. CASE op[r].kind = "rca" /\ op[r].arg <= 0
    BY <1>5, <2>1 DEF Receive, Answer, TypeOK
  <2>2. CASE ~(op[r].kind = "rca" /\ op[r].arg <= 0)
    BY <1>1, <1>2, <1>5, <2>2 DEF Receive, Goto, TypeOK
  <2> QED
    BY <2>1, <2>2
<1>6. ASSUME NEW r \in Requests,
             \/ Refuse(r) \/ Commit(r) \/ Refresh(r) \/ Notify(r) \/ Disturb(r)
      PROVE  /\ pc[r] \notin {"new", "answered"}
             /\ \E to \in Steps : pc' = [pc EXCEPT ![r] = to]
  BY <1>6 DEF Refuse, Commit, Refresh, Notify, Disturb, TxnFails,
     CommitOutcomeLost, RefreshFails, NotifyFails, Retry, Goto, Answer, Steps
<1>7. ASSUME NEW r \in Requests, pc[q] \in {"new", "answered"},
             pc[r] \notin {"new", "answered"},
             \E to \in Steps : pc' = [pc EXCEPT ![r] = to]
      PROVE  op[q].arg > 0
  BY <1>7 DEF TypeOK
<1> QED
  BY <1>1, <1>3, <1>4, <1>5, <1>6, <1>7 DEF Next, Serve

\* No step closes an item without an RCA or parts its MTTR from it.
LEMMA ClosedHasRcaStep ==
    ASSUME TypeOK, RcaChecked, ClosedHasRca, [Next]_vars
    PROVE  ClosedHasRca'
<1>1. CASE UNCHANGED <<rowVars, writes>>
  BY <1>1 DEF rowVars, ClosedHasRca
<1>2. CASE Create
  BY <1>2 DEF Create, ClosedHasRca
<1>3. ASSUME NEW r \in Requests, pc[r] = "txn", WriteTransition(r)
      PROVE  ClosedHasRca'
  <2>1. UNCHANGED <<rcaId, mttr, rcas>> /\ status' = op[r].arg
    BY <1>3 DEF WriteTransition
  <2>2. ASSUME status' = "CLOSED" PROVE rcaId # 0
    BY <1>3, <2>1, <2>2 DEF WriteTransition, Allowed, HasCompleteRca, ClosedHasRca
  <2> QED
    BY <2>1, <2>2 DEF ClosedHasRca
<1>4. ASSUME NEW r \in Requests, pc[r] = "txn", WriteRca(r)
      PROVE  ClosedHasRca'
  <2>1. op[r].arg \in Durations /\ op[r].arg > 0
    BY <1>4, OpShape DEF TypeOK, RcaChecked, WriteRca
  <2>2. /\ Len(rcas') = Len(rcas) + 1
        /\ rcas'[Len(rcas')] = op[r].arg
    BY <1>4, <2>1 DEF WriteRca, TypeOK
  <2>3. rcaId' = Len(rcas') /\ mttr' = op[r].arg /\ status' # "CLOSED"
    BY <1>4, <2>2 DEF WriteRca
  <2>4. Len(rcas) \in Nat
    BY DEF TypeOK
  <2> QED
    BY <2>1, <2>2, <2>3, <2>4 DEF ClosedHasRca
<1> QED
  BY <1>1, <1>2, <1>3, <1>4, RowSteps DEF Write

\* One more transition extends the trail.
LEMMA TrailExtended ==
    ASSUME TypeOK, HistoryIsTrail, status # Absent,
           NEW to \in Statuses, to # status, to = Successor[status],
           status' = to, history' = Append(history, [from |-> status, to |-> to])
    PROVE  HistoryIsTrail'
<1> DEFINE entry == [from |-> status, to |-> to]
           n == Len(history)
<1>1. /\ history \in Seq([from : Statuses \cup {Absent}, to : Statuses])
      /\ entry \in [from : Statuses \cup {Absent}, to : Statuses]
  BY DEF TypeOK
<1>2. /\ n \in Nat \ {0}
      /\ history[n].to = status
      /\ history[1] = [from |-> Absent, to |-> "OPEN"]
  BY <1>1 DEF HistoryIsTrail
<1>3. history' = Append(history, entry)
  OBVIOUS
<1>4. /\ entry.from = status /\ entry.to = to
      /\ Absent \notin Statuses
  BY DEF Absent, Statuses
<1> HIDE DEF entry
<1>5. /\ Len(history') = n + 1
      /\ history'[n + 1] = entry
      /\ \A i \in 1..n : history'[i] = history[i]
  BY <1>1, <1>3
<1>6. history' # <<>> /\ status' # Absent
  BY <1>1, <1>2, <1>4, <1>5
<1>7. history'[1] = [from |-> Absent, to |-> "OPEN"]
  BY <1>2, <1>5
<1>8. ASSUME NEW i \in 2..Len(history')
      PROVE  /\ history'[i].from = history'[i - 1].to
             /\ history'[i].from # history'[i].to
             /\ history'[i].to = Successor[history'[i].from]
  <2>1. CASE i = n + 1
    BY <1>2, <1>4, <1>5, <2>1
  <2>2. CASE i \in 2..n
    <3>1. i - 1 \in 1..n /\ i \in 1..n
      BY <1>2, <2>2
    <3> QED
      BY <1>5, <2>2, <3>1 DEF HistoryIsTrail
  <2> QED
    BY <1>2, <1>5, <2>1, <2>2
<1> QED
  BY <1>4, <1>5, <1>6, <1>7, <1>8 DEF HistoryIsTrail

\* Every step extends the trail or leaves it.
LEMMA TrailStep ==
    ASSUME TypeOK, HistoryIsTrail, [Next]_vars
    PROVE  HistoryIsTrail'
<1>1. CASE UNCHANGED <<rowVars, writes>>
  BY <1>1 DEF rowVars, HistoryIsTrail
<1>2. CASE Create
  <2>1. /\ status' = "OPEN"
        /\ history' = <<[from |-> Absent, to |-> "OPEN"]>>
    BY <1>2 DEF Create
  <2>2. /\ Len(history') = 1 /\ history' # <<>>
        /\ history'[1] = [from |-> Absent, to |-> "OPEN"]
    BY <2>1
  <2> QED
    BY <2>1, <2>2 DEF HistoryIsTrail, Absent
<1>3. ASSUME NEW r \in Requests, WriteTransition(r), status # Absent
      PROVE  HistoryIsTrail'
  <2>1. op[r].arg \in Statuses
    BY <1>3, OpShape DEF TypeOK, WriteTransition
  <2>2. CASE op[r].arg = status
    BY <1>3, <2>2 DEF WriteTransition, HistoryIsTrail
  <2>3. CASE op[r].arg # status
    <3>1. /\ op[r].arg = Successor[status]
          /\ status' = op[r].arg
          /\ history' = Append(history, [from |-> status, to |-> op[r].arg])
      BY <1>3, <2>3 DEF WriteTransition, Allowed
    <3> QED
      BY <1>3, <2>1, <2>3, <3>1, TrailExtended
  <2> QED
    BY <2>2, <2>3
<1>4. ASSUME NEW r \in Requests, WriteRca(r)
      PROVE  HistoryIsTrail'
  BY <1>4 DEF WriteRca, HistoryIsTrail
<1> QED
  BY <1>1, <1>2, <1>3, <1>4, RowSteps DEF Write

\* The inductive invariant of the row.
LEMMA RowInvariant == Spec => []RowInv
<1>1. Init => RowInv
  <2> SUFFICES ASSUME Init PROVE RowInv
    OBVIOUS
  <2>1. TypeOK /\ RcaChecked /\ ClosedHasRca
    BY InitTyping DEF Init, RcaChecked, ClosedHasRca, Absent
  <2>2. status = Absent /\ history = <<>> /\ Len(history) = 0
    BY DEF Init
  <2>3. HistoryIsTrail
    BY <2>2 DEF HistoryIsTrail
  <2> QED
    BY <2>1, <2>3 DEF RowInv
<1>2. RowInv /\ [Next]_vars => RowInv'
  BY TypeStep, RcaCheckedStep, ClosedHasRcaStep, TrailStep DEF RowInv
<1> QED
  BY <1>1, <1>2, PTL DEF Spec

\* Whichever requests race and are retried, an item that is closed has an RCA
\* and the MTTR of the latest one submitted.
THEOREM ClosedOnlyWithRca == Spec => []ClosedHasRca
  BY RowInvariant, PTL DEF RowInv

\* The status history never misses, repeats or invents a transition.
THEOREM HistoryTrail == Spec => []HistoryIsTrail
  BY RowInvariant, PTL DEF RowInv

\* No request changes an item once it is closed.
THEOREM ClosedStaysFinal == Spec => ClosedIsFinal
<1>1. ASSUME [Next]_vars, status = "CLOSED"
      PROVE  UNCHANGED <<status, rcaId, mttr, history>>
  <2>1. CASE UNCHANGED <<rowVars, writes>>
    BY <2>1 DEF rowVars
  <2>2. CASE Create
    BY <1>1, <2>2 DEF Create, Absent
  <2>3. ASSUME NEW r \in Requests, Write(r)
        PROVE  UNCHANGED <<status, rcaId, mttr, history>>
    <3>1. WriteTransition(r)
      BY <1>1, <2>3 DEF Write, WriteRca
    <3>2. op[r].arg = status
      BY <1>1, <3>1 DEF WriteTransition, Allowed, Successor, Statuses
    <3> QED
      BY <3>1, <3>2 DEF WriteTransition
  <2> QED
    BY <1>1, <2>1, <2>2, <2>3, RowSteps
<1> QED
  BY <1>1, PTL DEF Spec, ClosedIsFinal

-----------------------------------------------------------------------------
(* Retries: a transition takes effect once, and 200 tells the truth.       *)

AppliedOnce == TransitionAppliedOnce /\ Passed

\* No step applies a transition again that was applied before.
LEMMA AppliedOnceStep ==
    ASSUME TypeOK, AppliedOnce, [Next]_vars
    PROVE  AppliedOnce'
<1> SUFFICES ASSUME NEW q \in Requests, op'[q].kind = "transition"
             PROVE  /\ writes'[q] <= 1
                    /\ writes'[q] > 0 =>
                         /\ status' \in Statuses
                         /\ Rank[op'[q].arg] <= Rank[status']
  BY DEF AppliedOnce, TransitionAppliedOnce, Passed
<1>1. /\ op' = op
      /\ op[q].arg \in Statuses
      /\ writes[q] \in Nat
  BY RowSteps, OpShape DEF TypeOK
<1>2. /\ writes[q] <= 1
      /\ writes[q] > 0 => status \in Statuses /\ Rank[op[q].arg] <= Rank[status]
  BY <1>1 DEF AppliedOnce, TransitionAppliedOnce, Passed
<1>3. CASE UNCHANGED <<rowVars, writes>>
  BY <1>1, <1>2, <1>3 DEF rowVars
<1>4. CASE Create
  BY <1>1, <1>2, <1>4 DEF Create, requestVars, Absent, Statuses
<1>5. ASSUME NEW r \in Requests, WriteTransition(r), status # Absent
      PROVE  /\ writes'[q] <= 1
             /\ writes'[q] > 0 =>
                  /\ status' \in Statuses
                  /\ Rank[op'[q].arg] <= Rank[status']
  <2>1. op[r].arg \in Statuses /\ status \in Statuses /\ status' = op[r].arg
    BY <1>5, OpShape DEF TypeOK, WriteTransition
  <2>2. CASE op[r].arg = status
    BY <1>1, <1>2, <1>5, <2>1, <2>2 DEF WriteTransition
  <2>3. CASE op[r].arg # status
    <3>1. writes' = [writes EXCEPT ![r] = @ + 1] /\ op[r].arg = Successor[status]
      BY <1>5, <2>3 DEF WriteTransition, CountWrite, Allowed
    <3>2. Rank[status'] > Rank[status] /\ Rank[status] \in Nat /\ Rank[status'] \in Nat
      BY <2>1, <2>3, <3>1 DEF Rank, Successor, Statuses
    <3>3. Rank[op[q].arg] \in Nat
      BY <1>1 DEF Rank, Statuses
    <3>4. CASE q = r
      <4>1. writes[q] = 0
        BY <1>1, <1>2, <2>1, <3>2, <3>4
      <4> QED
        BY <1>1, <2>1, <3>1, <3>2, <3>4, <4>1 DEF TypeOK
    <3>5. CASE q # r
      <4>1. writes'[q] = writes[q]
        BY <3>1, <3>5 DEF TypeOK
      <4> QED
        BY <1>1, <1>2, <2>1, <3>2, <3>3, <4>1
    <3> QED
      BY <3>4, <3>5
  <2> QED
    BY <2>2, <2>3
<1>6. ASSUME NEW r \in Requests, WriteRca(r)
      PROVE  /\ writes'[q] <= 1
             /\ writes'[q] > 0 =>
                  /\ status' \in Statuses
                  /\ Rank[op'[q].arg] <= Rank[status']
  <2>1. q # r /\ status' = status /\ writes' = [writes EXCEPT ![r] = @ + 1]
    BY <1>1, <1>6 DEF WriteRca, CountWrite
  <2>2. writes'[q] = writes[q]
    BY <2>1 DEF TypeOK
  <2> QED
    BY <1>1, <1>2, <2>1, <2>2
<1> QED
  BY <1>3, <1>4, <1>5, <1>6, RowSteps DEF Write

\* However often its outcome is lost and it is retried, a transition changes
\* the item at most once.
THEOREM TransitionsApplyOnce == Spec => []TransitionAppliedOnce
<1>1. Init => AppliedOnce
  BY DEF Init, AppliedOnce, TransitionAppliedOnce, Passed
<1>2. TypeOK /\ AppliedOnce /\ [Next]_vars => AppliedOnce'
  BY AppliedOnceStep
<1> QED
  BY <1>1, <1>2, TypeCorrect, PTL DEF Spec, AppliedOnce

\* What an answer of 200 claims: OkIsTrue for one request.
Done(r) ==
    IF op[r].kind = "transition"
      THEN \E i \in 1..Len(history) : history[i].to = op[r].arg
      ELSE writes[r] > 0 /\ \E i \in 1..Len(rcas) : rcas[i] = op[r].arg

\* A request that is past its transaction is done.
DoneInv ==
    \A r \in Requests :
        pc[r] \in {"refresh", "notify"} \/ answer[r] = "ok" => Done(r)

\* No step undoes what a request has done.
LEMMA DoneStays ==
    ASSUME TypeOK, HistoryIsTrail, [Next]_vars, NEW q \in Requests, Done(q)
    PROVE  Done(q)'
<1>1. op' = op
  BY RowSteps
<1>2. CASE UNCHANGED <<rowVars, writes>>
  BY <1>1, <1>2 DEF rowVars, Done
<1>3. CASE Create
  <2>1. history = <<>> /\ UNCHANGED <<rcas, writes>>
    BY <1>3 DEF Create, HistoryIsTrail, requestVars
  <2> QED
    BY <1>1, <2>1 DEF Done
<1>4. ASSUME NEW r \in Requests, WriteTransition(r)
      PROVE  Done(q)'
  <2>1. /\ UNCHANGED rcas
        /\ UNCHANGED writes \/ writes' = [writes EXCEPT ![r] = @ + 1]
    BY <1>4 DEF WriteTransition, CountWrite
  <2>3. writes[q] > 0 => writes'[q] > 0
    <3>1. writes \in [Requests -> Nat]
      BY DEF TypeOK
    <3> QED
      BY <2>1, <3>1
  <2>2. ASSUME NEW i \in 1..Len(history)
        PROVE  i \in 1..Len(history)' /\ history'[i] = history[i]
    BY <1>4, <2>2 DEF WriteTransition, TypeOK
  <2> QED
    BY <1>1, <2>1, <2>2, <2>3 DEF Done
<1>5. ASSUME NEW r \in Requests, WriteRca(r)
      PROVE  Done(q)'
  <2>1. /\ UNCHANGED history
        /\ writes[q] > 0 => writes'[q] > 0
    BY <1>5 DEF WriteRca, CountWrite, TypeOK
  <2>2. ASSUME NEW i \in 1..Len(rcas)
        PROVE  i \in 1..Len(rcas)' /\ rcas'[i] = rcas[i]
    BY <1>5, <2>2 DEF WriteRca, TypeOK
  <2> QED
    BY <1>1, <2>1, <2>2 DEF Done
<1> QED
  BY <1>2, <1>3, <1>4, <1>5, RowSteps DEF Write

\* A transaction that commits has done what was asked.
LEMMA CommitIsDone ==
    ASSUME TypeOK, HistoryIsTrail', NEW r \in Requests, Commit(r)
    PROVE  Done(r)'
<1>1. op' = op /\ status # Absent
  BY DEF Commit, Write
<1>2. CASE WriteTransition(r)
  <2>1. /\ op[r].kind = "transition" /\ status' = op[r].arg
        /\ op[r].arg \in Statuses
    BY <1>2, OpShape DEF WriteTransition, TypeOK
  <2>2. history' \in Seq([from : Statuses \cup {Absent}, to : Statuses])
    BY <1>2, WriteTyping DEF Commit
  <2>3. history' # <<>>
    BY <2>1 DEF HistoryIsTrail, Absent, Statuses
  <2>4. Len(history') \in 1..Len(history') /\ history'[Len(history')].to = status'
    BY <2>2, <2>3 DEF HistoryIsTrail
  <2> QED
    BY <1>1, <2>1, <2>4 DEF Done
<1>3. CASE WriteRca(r)
  <2>1. /\ op[r].kind = "rca" /\ rcas' = Append(rcas, op[r].arg)
        /\ writes' = [writes EXCEPT ![r] = @ + 1]
        /\ op[r].arg \in Durations
    BY <1>3, OpShape DEF WriteRca, CountWrite, TypeOK
  <2>2. Len(rcas') \in 1..Len(rcas') /\ rcas'[Len(rcas')] = op[r].arg
    BY <2>1 DEF TypeOK
  <2>3. writes'[r] > 0
    BY <2>1 DEF TypeOK
  <2> QED
    BY <1>1, <2>1, <2>2, <2>3 DEF Done
<1> QED
  BY <1>2, <1>3 DEF Commit, Write

\* A request past its commit keeps having done what it was asked.
LEMMA DoneStep ==
    ASSUME TypeOK, HistoryIsTrail, DoneInv, [Next]_vars
    PROVE  DoneInv'
<1> SUFFICES ASSUME NEW q \in Requests,
                    pc'[q] \in {"refresh", "notify"} \/ answer'[q] = "ok"
             PROVE  Done(q)'
  BY DEF DoneInv
<1>1. CASE pc[q] \in {"refresh", "notify"} \/ answer[q] = "ok"
  BY <1>1, DoneStays DEF DoneInv
<1>2. CASE ~(pc[q] \in {"refresh", "notify"} \/ answer[q] = "ok")
  <2>1. ~UNCHANGED vars /\ ~Create
    BY <1>2 DEF vars, requestVars, Create
  <2>2. PICK r \in Requests : Serve(r) \/ Disturb(r)
    BY <2>1 DEF Next
  <2>3. CASE Commit(r)
    <3>1. r = q
      BY <1>2, <2>3 DEF Commit, Goto, TypeOK
    <3> QED
      BY <2>3, <3>1, CommitIsDone, TrailStep
  <2>4. CASE Receive(r) \/ Refuse(r)
    BY <1>2, <2>4 DEF Receive, Refuse, Goto, Answer, TypeOK
  <2>5. CASE Refresh(r) \/ Notify(r) \/ NotifyFails(r)
    BY <1>2, <2>5 DEF Refresh, Notify, NotifyFails, Goto, Answer, TypeOK
  <2>6. CASE Retry(r)
    BY <1>2, <2>6 DEF Retry, Answer, TypeOK
  <2> QED
    BY <2>2, <2>3, <2>4, <2>5, <2>6
       DEF Serve, Disturb, TxnFails, CommitOutcomeLost, RefreshFails
<1> QED
  BY <1>1, <1>2

\* A request answered 200 has done what was asked, through every retry.
THEOREM OkTellsTheTruth == Spec => []OkIsTrue
<1>1. Init => DoneInv
  BY DEF Init, DoneInv
<1>2. RowInv /\ DoneInv /\ [Next]_vars => DoneInv'
  BY DoneStep DEF RowInv
<1>3. DoneInv => OkIsTrue
  BY DEF DoneInv, OkIsTrue, Done
<1> QED
  BY <1>1, <1>2, <1>3, RowInvariant, PTL DEF Spec

-----------------------------------------------------------------------------
(* Retries: no attempt stores more than one RCA.                           *)

\* The requests with an RCA whose current attempt has stored nothing yet.
Storing == {r \in Requests : op[r].kind = "rca" /\ pc[r] = "txn"}

\* A request that has made no attempt is at its first, and only a transition
\* refreshes the row.
Starts ==
    \A r \in Requests :
        /\ pc[r] = "new" => attempt[r] = 1
        /\ pc[r] = "refresh" => op[r].kind = "transition"

\* An attempt pays for one row, stored or still to be stored.
RcaInv ==
    /\ Starts
    /\ IsFiniteSet(RcaAttempts)
    /\ IsFiniteSet(Storing)
    /\ Len(rcas) + Cardinality(Storing) <= Cardinality(RcaAttempts)

\* The attempts of one request are numbered from 1.
LEMMA AttemptMembers ==
    ASSUME NEW r, NEW n
    PROVE  <<r, n>> \in RcaAttempts <=>
             /\ r \in Requests /\ op[r].kind = "rca" /\ pc[r] # "new"
             /\ n \in 1..attempt[r]
  BY DEF RcaAttempts

\* How a step may move the two sets and the rows.
Rests ==            \* nothing new is attempted or stored
    /\ RcaAttempts' = RcaAttempts
    /\ Storing' \subseteq Storing
    /\ rcas' = rcas

Attempts(r) ==      \* a request makes its first attempt, or another one
    /\ \E n : RcaAttempts' = RcaAttempts \cup {<<r, n>>} /\ <<r, n>> \notin RcaAttempts
    /\ \/ Storing' \subseteq Storing \cup {r} /\ rcas' = rcas
       \/ Storing' \subseteq Storing /\ Len(rcas') = Len(rcas) + 1

Stores(r) ==        \* an attempt stores its row and is the last
    /\ RcaAttempts' = RcaAttempts
    /\ r \in Storing /\ Storing' \subseteq Storing \ {r}
    /\ Len(rcas') = Len(rcas) + 1

\* Steps at which a request keeps the number of its attempt, and has had one.
LEMMA SameAttempts ==
    ASSUME TypeOK, op' = op, attempt' = attempt,
           \A q \in Requests : op[q].kind = "rca" => (pc'[q] = "new" <=> pc[q] = "new")
    PROVE  RcaAttempts' = RcaAttempts
<1>1. {q \in Requests : op'[q].kind = "rca" /\ pc'[q] # "new"}
        = {q \in Requests : op[q].kind = "rca" /\ pc[q] # "new"}
  OBVIOUS
<1> QED
  BY <1>1 DEF RcaAttempts

\* A retry adds one attempt.
LEMMA RetryAttempts ==
    ASSUME TypeOK, NEW r \in Requests, op' = op, op[r].kind = "rca", pc[r] # "new",
           attempt' = [attempt EXCEPT ![r] = @ + 1],
           pc' = [pc EXCEPT ![r] = "txn"]
    PROVE  /\ RcaAttempts' = RcaAttempts \cup {<<r, attempt[r] + 1>>}
           /\ <<r, attempt[r] + 1>> \notin RcaAttempts
<1>1. /\ attempt \in [Requests -> 1..MaxAttempts] /\ pc \in [Requests -> Steps]
      /\ \A q \in Requests : attempt[q] \in Nat
  BY LifecycleAssumption DEF TypeOK
<1>2. ASSUME NEW q, NEW n
      PROVE  <<q, n>> \in RcaAttempts' <=>
               /\ q \in Requests /\ op'[q].kind = "rca" /\ pc'[q] # "new"
               /\ n \in 1..attempt'[q]
  BY DEF RcaAttempts
<1>3. ASSUME NEW q, NEW n
      PROVE  <<q, n>> \in RcaAttempts' <=>
               <<q, n>> \in RcaAttempts \/ (q = r /\ n = attempt[r] + 1)
  <2>1. CASE q \in Requests /\ q # r
    BY <2>1, <1>1, <1>2, AttemptMembers
  <2>2. CASE q = r
    <3>1. n \in 1..attempt'[q] <=> n \in 1..attempt[q] \/ n = attempt[r] + 1
      BY <2>2, <1>1
    <3> QED
      BY <3>1, <2>2, <1>1, <1>2, AttemptMembers
  <2>3. CASE q \notin Requests
    BY <2>3, <1>2, AttemptMembers
  <2> QED
    BY <2>1, <2>2, <2>3
<1>4. /\ \A c \in RcaAttempts : \E q, n : c = <<q, n>>
      /\ \A c \in RcaAttempts' : \E q, n : c = <<q, n>>
  BY DEF RcaAttempts
<1>5. <<r, attempt[r] + 1>> \notin RcaAttempts
  BY <1>1, AttemptMembers
<1> QED
  BY <1>3, <1>4, <1>5

\* So does the first one.
LEMMA FirstAttempt ==
    ASSUME TypeOK, NEW r \in Requests, op' = op, op[r].kind = "rca", pc[r] = "new",
           attempt[r] = 1, attempt' = attempt, NEW to, to # "new",
           pc' = [pc EXCEPT ![r] = to]
    PROVE  /\ RcaAttempts' = RcaAttempts \cup {<<r, 1>>}
           /\ <<r, 1>> \notin RcaAttempts
<1>1. /\ attempt \in [Requests -> 1..MaxAttempts] /\ pc \in [Requests -> Steps]
  BY LifecycleAssumption DEF TypeOK
<1>2. ASSUME NEW q, NEW n
      PROVE  <<q, n>> \in RcaAttempts' <=>
               /\ q \in Requests /\ op'[q].kind = "rca" /\ pc'[q] # "new"
               /\ n \in 1..attempt'[q]
  BY DEF RcaAttempts
<1>3. ASSUME NEW q, NEW n
      PROVE  <<q, n>> \in RcaAttempts' <=> <<q, n>> \in RcaAttempts \/ (q = r /\ n = 1)
  <2>1. CASE q \in Requests /\ q # r
    BY <2>1, <1>1, <1>2, AttemptMembers
  <2>2. CASE q = r
    BY <2>2, <1>1, <1>2, AttemptMembers
  <2>3. CASE q \notin Requests
    BY <2>3, <1>2, AttemptMembers
  <2> QED
    BY <2>1, <2>2, <2>3
<1>4. /\ \A c \in RcaAttempts : \E q, n : c = <<q, n>>
      /\ \A c \in RcaAttempts' : \E q, n : c = <<q, n>>
  BY DEF RcaAttempts
<1>5. <<r, 1>> \notin RcaAttempts
  BY AttemptMembers
<1> QED
  BY <1>3, <1>4, <1>5

\* Every step of a request is one of the three.
LEMMA RequestSteps ==
    ASSUME TypeOK, RcaInv, NEW r \in Requests, Serve(r) \/ Disturb(r)
    PROVE  Rests \/ Attempts(r) \/ Stores(r)
<1>1. /\ pc \in [Requests -> Steps] /\ attempt \in [Requests -> 1..MaxAttempts]
      /\ rcas \in Seq(Durations)
      /\ op[r].kind \in {"transition", "rca"}
  BY OpShape DEF TypeOK
<1>2. /\ pc[r] = "new" => attempt[r] = 1
      /\ pc[r] = "refresh" => op[r].kind = "transition"
  BY DEF RcaInv, Starts
<1>3. op' = op
  BY DEF Serve, Disturb, Receive, Refuse, Commit, Refresh, Notify, TxnFails,
     CommitOutcomeLost, RefreshFails, NotifyFails
<1>4. ASSUME pc[r] # "new", NEW to \in Steps \ {"new"}, pc' = [pc EXCEPT ![r] = to],
             attempt' = attempt
      PROVE  /\ RcaAttempts' = RcaAttempts
             /\ to # "txn" \/ op[r].kind # "rca" => Storing' \subseteq Storing \ {r}
  <2>1. \A q \in Requests : pc'[q] = "new" <=> pc[q] = "new"
    BY <1>1, <1>4 DEF Steps
  <2> QED
    BY <1>1, <1>3, <1>4, <2>1, SameAttempts DEF Storing
<1>5. ASSUME pc[r] = "txn", Write(r)
      PROVE  \/ op[r].kind = "transition" /\ rcas' = rcas
             \/ op[r].kind = "rca" /\ Len(rcas') = Len(rcas) + 1 /\ r \in Storing
  <2>1. CASE WriteTransition(r)
    BY <2>1 DEF WriteTransition
  <2>2. CASE WriteRca(r)
    <3>1. rcas' = Append(rcas, op[r].arg) /\ op[r].kind = "rca"
      BY <2>2 DEF WriteRca
    <3>2. op[r].arg \in Durations
      BY <3>1, OpShape DEF TypeOK
    <3> QED
      BY <1>1, <1>5, <3>1, <3>2 DEF Storing
  <2> QED
    BY <1>5, <2>1, <2>2 DEF Write
<1>6. ASSUME pc[r] \in {"txn", "refresh"}, Retry(r)
      PROVE  \/ RcaAttempts' = RcaAttempts /\ Storing' \subseteq Storing \ {r}
             \/ /\ op[r].kind = "transition"
                /\ RcaAttempts' = RcaAttempts /\ Storing' \subseteq Storing
             \/ /\ op[r].kind = "rca" /\ Storing' \subseteq Storing
                /\ \E n : /\ RcaAttempts' = RcaAttempts \cup {<<r, n>>}
                          /\ <<r, n>> \notin RcaAttempts
  <2>1. CASE Answer(r, "error") /\ UNCHANGED attempt
    <3>1. pc' = [pc EXCEPT ![r] = "answered"] /\ "answered" \in Steps \ {"new"}
      BY <2>1 DEF Answer, Steps
    <3> QED
      BY <1>4, <1>6, <2>1, <3>1
  <2>2. CASE /\ attempt' = [attempt EXCEPT ![r] = @ + 1]
             /\ pc' = [pc EXCEPT ![r] = "txn"]
    <3>1. CASE op[r].kind = "rca"
      <4>1. Storing' \subseteq Storing
        BY <1>1, <1>2, <1>3, <1>6, <2>2, <3>1 DEF Storing
      <4> QED
        BY <4>1, <1>3, <1>6, <2>2, <3>1, RetryAttempts
    <3>2. CASE op[r].kind = "transition"
      <4>1. Storing' \subseteq Storing
        BY <1>1, <1>3, <2>2, <3>2 DEF Storing
      <4>2. \A q \in Requests : op[q].kind = "rca" =>
              q # r /\ attempt'[q] = attempt[q] /\ pc'[q] = pc[q]
        BY <1>1, <2>2, <3>2
      <4>3. RcaAttempts' = RcaAttempts
        BY <1>3, <4>2 DEF RcaAttempts
      <4> QED
        BY <3>2, <4>1, <4>3
    <3> QED
      BY <1>1, <3>1, <3>2
  <2> QED
    BY <1>6, <2>1, <2>2 DEF Retry
<1>7. CASE Receive(r)
  <2>1. /\ pc[r] = "new" /\ attempt' = attempt /\ rcas' = rcas
        /\ \E to \in {"txn", "answered"} : pc' = [pc EXCEPT ![r] = to]
    BY <1>7 DEF Receive, Goto, Answer, rowVars
  <2>2. CASE op[r].kind = "rca"
    <3>1. Storing' \subseteq Storing \cup {r}
      BY <1>1, <1>3, <2>1 DEF Storing
    <3> QED
      BY <1>2, <1>3, <2>1, <2>2, <3>1, FirstAttempt DEF Attempts
  <2>3. CASE op[r].kind = "transition"
    <3>1. \A q \in Requests : op[q].kind = "rca" => q # r /\ pc'[q] = pc[q]
      BY <1>1, <2>1, <2>3
    <3>2. RcaAttempts' = RcaAttempts
      BY <1>3, <2>1, <3>1, SameAttempts
    <3>3. Storing' \subseteq Storing
      BY <1>3, <3>1 DEF Storing
    <3> QED
      BY <2>1, <3>2, <3>3 DEF Rests
  <2> QED
    BY <1>1, <2>2, <2>3
<1>8. CASE Refuse(r) \/ Refresh(r) \/ Notify(r) \/ NotifyFails(r)
  BY <1>8, <1>4 DEF Refuse, Refresh, Notify, NotifyFails, Goto, Answer, Rests, rowVars,
     Steps
<1>9. CASE Commit(r)
  <2>1. /\ pc[r] = "txn" /\ Write(r) /\ attempt' = attempt
        /\ \E to \in {"refresh", "notify"} : pc' = [pc EXCEPT ![r] = to]
    BY <1>9 DEF Commit, Goto
  <2>2. RcaAttempts' = RcaAttempts /\ Storing' \subseteq Storing \ {r}
    BY <1>4, <2>1 DEF Steps
  <2> QED
    BY <1>5, <2>1, <2>2 DEF Rests, Stores
<1>10. CASE TxnFails(r) \/ RefreshFails(r)
  <2>1. rcas' = rcas /\ pc[r] \in {"txn", "refresh"} /\ Retry(r)
    BY <1>10 DEF TxnFails, RefreshFails, rowVars
  <2> QED
    BY <1>6, <2>1 DEF Rests, Attempts
<1>11. CASE CommitOutcomeLost(r)
  <2>1. pc[r] = "txn" /\ Write(r) /\ Retry(r)
    BY <1>11 DEF CommitOutcomeLost
  <2>2. CASE op[r].kind = "transition" /\ rcas' = rcas
    BY <1>6, <2>1, <2>2 DEF Rests
  <2>3. CASE op[r].kind = "rca" /\ Len(rcas') = Len(rcas) + 1 /\ r \in Storing
    BY <1>6, <2>1, <2>3 DEF Attempts, Stores
  <2> QED
    BY <1>5, <2>1, <2>2, <2>3
<1> QED
  BY <1>7, <1>8, <1>9, <1>10, <1>11 DEF Serve, Disturb

\* The balance is inductive.
LEMMA RcaStep == ASSUME TypeOK, TypeOK', RcaInv, [Next]_vars PROVE RcaInv'
<1> DEFINE rows == Len(rcas)
           storing == Cardinality(Storing)
           attempts == Cardinality(RcaAttempts)
           Balance == /\ IsFiniteSet(RcaAttempts') /\ IsFiniteSet(Storing')
                      /\ rows' + storing' <= attempts'
<1>1. /\ rows \in Nat /\ rows' \in Nat /\ storing \in Nat /\ attempts \in Nat
      /\ rows + storing <= attempts
      /\ IsFiniteSet(RcaAttempts) /\ IsFiniteSet(Storing)
  BY FS_CardinalityType DEF TypeOK, RcaInv
<1>2. ASSUME Storing' \subseteq Storing
      PROVE  IsFiniteSet(Storing') /\ storing' \in Nat /\ storing' <= storing
  BY <1>1, <1>2, FS_Subset, FS_CardinalityType
<1>3. ASSUME NEW r, NEW n, RcaAttempts' = RcaAttempts \cup {<<r, n>>},
             <<r, n>> \notin RcaAttempts
      PROVE  IsFiniteSet(RcaAttempts') /\ attempts' = attempts + 1
  BY <1>1, <1>3, FS_AddElement
<1>4. ASSUME NEW r, Storing' \subseteq Storing \cup {r}
      PROVE  IsFiniteSet(Storing') /\ storing' \in Nat /\ storing' <= storing + 1
  <2>1. /\ IsFiniteSet(Storing \cup {r})
        /\ Cardinality(Storing \cup {r}) \in Nat
        /\ Cardinality(Storing \cup {r}) <= storing + 1
    <3>1. Cardinality(Storing \cup {r}) = storing \/ Cardinality(Storing \cup {r}) = storing + 1
      BY <1>1, FS_AddElement
    <3> QED
      BY <1>1, <3>1, FS_AddElement
  <2> QED
    BY <1>1, <1>4, <2>1, FS_Subset, FS_CardinalityType
<1>5. ASSUME NEW r \in Storing, Storing' \subseteq Storing \ {r}
      PROVE  IsFiniteSet(Storing') /\ storing' \in Nat /\ storing' <= storing - 1
  <2>1. IsFiniteSet(Storing \ {r}) /\ Cardinality(Storing \ {r}) = storing - 1
    BY <1>1, FS_RemoveElement
  <2> QED
    BY <1>1, <1>5, <2>1, FS_Subset, FS_CardinalityType
<1>6. rcas' = rcas => rows' = rows
  OBVIOUS
<1>7. RcaAttempts' = RcaAttempts => attempts' = attempts
  OBVIOUS
<1>8. Starts'
  <2>1. \A r \in Requests : /\ pc[r] = "new" => attempt[r] = 1
                            /\ pc[r] = "refresh" => op[r].kind = "transition"
    BY DEF RcaInv, Starts
  <2>2. /\ pc \in [Requests -> Steps] /\ attempt \in [Requests -> 1..MaxAttempts]
        /\ \A r \in Requests : op[r].kind \in {"transition", "rca"}
    BY OpShape DEF TypeOK
  <2> USE <2>1, <2>2 DEF Starts
  <2>3. ASSUME NEW r \in Requests, Serve(r)
        PROVE  Starts'
    <3>1. CASE Receive(r)
      BY <3>1 DEF Receive, Goto, Answer
    <3>2. CASE Refuse(r) \/ Refresh(r) \/ Notify(r)
      BY <3>2 DEF Refuse, Refresh, Notify, Goto, Answer
    <3>3. CASE Commit(r)
      BY <3>3 DEF Commit, Goto
    <3> QED
      BY <2>3, <3>1, <3>2, <3>3 DEF Serve
  <2>4. ASSUME NEW r \in Requests, Disturb(r)
        PROVE  Starts'
    <3>1. op' = op /\ pc[r] # "new"
      BY <2>4 DEF Disturb, TxnFails, CommitOutcomeLost, RefreshFails, NotifyFails
    <3>2. \/ Answer(r, "error") /\ UNCHANGED attempt
          \/ /\ attempt' = [attempt EXCEPT ![r] = @ + 1]
             /\ pc' = [pc EXCEPT ![r] = "txn"]
      BY <2>4 DEF Disturb, TxnFails, CommitOutcomeLost, RefreshFails, NotifyFails, Retry
    <3> QED
      BY <3>1, <3>2 DEF Answer
  <2>5. CASE Create \/ UNCHANGED vars
    BY <2>5 DEF Create, vars, requestVars
  <2> QED
    BY <2>3, <2>4, <2>5 DEF Next
<1>9. Balance => RcaInv'
  BY <1>8 DEF RcaInv
<1> HIDE DEF rows, storing, attempts
<1>10. CASE Rests
  <2>1. Balance
    BY <1>10, <1>1, <1>2, <1>6, <1>7 DEF Rests
  <2> QED
    BY <2>1, <1>9
<1>11. ASSUME NEW r \in Requests, Attempts(r)
       PROVE  RcaInv'
  <2>1. IsFiniteSet(RcaAttempts') /\ attempts' = attempts + 1
    BY <1>3, <1>11 DEF Attempts
  <2>2. CASE Storing' \subseteq Storing \cup {r} /\ rcas' = rcas
    <3>1. Balance
      BY <2>1, <2>2, <1>1, <1>4, <1>6
    <3> QED
      BY <3>1, <1>9
  <2>3. CASE Storing' \subseteq Storing /\ Len(rcas') = Len(rcas) + 1
    <3>1. rows' = rows + 1
      BY <2>3 DEF rows
    <3>2. Balance
      BY <2>1, <2>3, <3>1, <1>1, <1>2
    <3> QED
      BY <3>2, <1>9
  <2> QED
    BY <1>11, <2>2, <2>3 DEF Attempts
<1>12. ASSUME NEW r \in Requests, Stores(r)
       PROVE  RcaInv'
  <2>1. rows' = rows + 1
    BY <1>12 DEF Stores, rows
  <2>2. Balance
    BY <2>1, <1>1, <1>5, <1>7, <1>12 DEF Stores
  <2> QED
    BY <2>2, <1>9
<1>13. CASE Create \/ UNCHANGED vars
  <2>1. UNCHANGED <<requestVars, rcas>>
    BY <1>13 DEF Create, vars, rowVars
  <2> QED
    BY <1>10, <2>1 DEF Rests, RcaAttempts, Storing, requestVars
<1> QED
  BY <1>10, <1>11, <1>12, <1>13, RequestSteps DEF Next

\* Retries store an RCA again, but at most once for each attempt made.
THEOREM RcaRowsStayBounded == Spec => []RcaRowsBounded
<1>1. Init => RcaInv
  <2> SUFFICES ASSUME Init PROVE RcaInv
    OBVIOUS
  <2>1. RcaAttempts = {} /\ Storing = {}
    BY DEF Init, RcaAttempts, Storing
  <2>2. \A r \in Requests : pc[r] = "new" /\ attempt[r] = 1
    BY DEF Init
  <2>3. Len(rcas) = 0
    BY DEF Init
  <2> QED
    BY <2>1, <2>2, <2>3, FS_EmptySet DEF RcaInv, Starts
<1>2. TypeOK /\ TypeOK' /\ RcaInv /\ [Next]_vars => RcaInv'
  BY RcaStep
<1>3. TypeOK /\ RcaInv => RcaRowsBounded
  <2> SUFFICES ASSUME TypeOK, RcaInv PROVE RcaRowsBounded
    OBVIOUS
  <2>1. /\ Cardinality(Storing) \in Nat /\ Cardinality(RcaAttempts) \in Nat
        /\ Len(rcas) \in Nat
    BY FS_CardinalityType DEF RcaInv, TypeOK
  <2> QED
    BY <2>1 DEF RcaInv, RcaRowsBounded
<1> QED
  BY <1>1, <1>2, <1>3, TypeCorrect, PTL DEF Spec
=============================================================================
