------------------------ MODULE SignalPipelineProofs ------------------------
(***************************************************************************)
(* Theorems about SignalPipeline, for every number of signals, processes   *)
(* and tasks, every batch size and every threshold.                        *)
(***************************************************************************)
EXTENDS SignalPipeline, FiniteSetTheorems, SequenceTheorems, TLAPS

-----------------------------------------------------------------------------
(* Lemmas about the operators.                                             *)

\* How often a value occurs in a sequence is a number.
LEMMA OccurrencesType ==
    ASSUME NEW S, NEW seq \in Seq(S), NEW s
    PROVE  Occurrences(seq, s) \in Nat
<1>1. IsFiniteSet(DOMAIN seq)
  BY FS_Interval
<1>2. IsFiniteSet({i \in DOMAIN seq : seq[i] = s})
  BY <1>1, FS_Subset
<1> QED
  BY <1>2, FS_CardinalityType DEF Occurrences

\* What is absent from a sequence occurs in it zero times.
LEMMA OccurrencesAbsent ==
    ASSUME NEW S, NEW seq \in Seq(S), NEW s, s \notin ToSet(seq)
    PROVE  Occurrences(seq, s) = 0
<1>1. {i \in DOMAIN seq : seq[i] = s} = {}
  BY DEF ToSet
<1> QED
  BY <1>1, FS_EmptySet DEF Occurrences

\* LPUSH keeps what the list held and adds the envelope.
LEMMA ToSetAppend ==
    ASSUME NEW S, NEW seq \in Seq(S), NEW e \in S
    PROVE  ToSet(Append(seq, e)) = ToSet(seq) \cup {e}
<1>1. /\ Append(seq, e) \in Seq(S)
      /\ Len(Append(seq, e)) = Len(seq) + 1
      /\ \A i \in 1..Len(seq) : Append(seq, e)[i] = seq[i]
      /\ Append(seq, e)[Len(seq) + 1] = e
  BY AppendProperties
<1>2. DOMAIN Append(seq, e) = 1..Len(seq) + 1 /\ DOMAIN seq = 1..Len(seq)
  BY <1>1
<1>3. ToSet(seq) \cup {e} \subseteq ToSet(Append(seq, e))
  BY <1>1, <1>2 DEF ToSet
<1>4. ToSet(Append(seq, e)) \subseteq ToSet(seq) \cup {e}
  BY <1>1, <1>2 DEF ToSet
<1> QED
  BY <1>3, <1>4

\* Popping the head loses nothing but the head.
LEMMA ToSetTail ==
    ASSUME NEW S, NEW seq \in Seq(S), seq # <<>>
    PROVE  /\ Head(seq) \in S
           /\ Tail(seq) \in Seq(S)
           /\ ToSet(seq) = ToSet(Tail(seq)) \cup {Head(seq)}
<1>1. /\ Head(seq) \in S
      /\ Tail(seq) \in Seq(S)
      /\ Len(Tail(seq)) = Len(seq) - 1
      /\ \A i \in 1..Len(Tail(seq)) : Tail(seq)[i] = seq[i + 1]
      /\ Len(seq) \in Nat \ {0}
      /\ Head(seq) = seq[1]
  BY HeadTailProperties, EmptySeq
<1>2. DOMAIN Tail(seq) = 1..Len(seq) - 1 /\ DOMAIN seq = 1..Len(seq)
  BY <1>1
<1>3. ToSet(Tail(seq)) \cup {Head(seq)} \subseteq ToSet(seq)
  BY <1>1, <1>2 DEF ToSet
<1>4. ASSUME NEW i \in DOMAIN seq
      PROVE  seq[i] \in ToSet(Tail(seq)) \cup {Head(seq)}
  <2>1. CASE i = 1
    BY <2>1, <1>1
  <2>2. CASE i # 1
    <3>1. i - 1 \in 1..Len(seq) - 1 /\ Tail(seq)[i - 1] = seq[i]
      BY <1>1, <1>2, <2>2
    <3> QED
      BY <3>1, <1>2 DEF ToSet
  <2> QED
    BY <2>1, <2>2
<1> QED
  BY <1>1, <1>3, <1>4 DEF ToSet

-----------------------------------------------------------------------------
(* Type correctness.                                                       *)

\* The types hold at the start.
LEMMA InitTypeOK == Init => TypeOK
  BY PipelineAssumption DEF Init, TypeOK, ReqStates, ProcStates, TaskStates

\* What a pop returns and leaves behind has the right type.
LEMMA PopType ==
    ASSUME TypeOK, BRPopLPush
    PROVE  /\ Head(queue) \in Signals
           /\ queue' \in Seq(Signals)
           /\ processing' \in [Signals -> Nat]
<1>1. Head(queue) \in Signals /\ Tail(queue) \in Seq(Signals)
  BY ToSetTail DEF TypeOK, BRPopLPush
<1> QED
  BY <1>1 DEF TypeOK, BRPopLPush

\* So has what the end of a flush leaves behind.
LEMMA EndFlushType ==
    ASSUME TypeOK, NEW t \in Tasks, EndFlush(t)
    PROVE  /\ pc' \in [Tasks -> TaskStates]
           /\ popped' \in [Tasks -> Signals \cup {NoSignal}]
           /\ buffer' \in [Tasks -> Seq(Signals)]
           /\ done' \in [Tasks -> Nat]
  BY DEF TypeOK, EndFlush, TaskStates

\* A batch holds signals.
LEMMA BufferedSignals ==
    ASSUME TypeOK, NEW t \in Tasks
    PROVE  /\ buffer[t] \in Seq(Signals)
           /\ ToSet(buffer[t]) = {buffer[t][i] : i \in 1..Len(buffer[t])}
           /\ ToSet(buffer[t]) \subseteq Signals
<1>1. buffer[t] \in Seq(Signals)
  BY DEF TypeOK
<1>2. DOMAIN buffer[t] = 1..Len(buffer[t]) /\ \A i \in 1..Len(buffer[t]) : buffer[t][i] \in Signals
  BY <1>1, LenProperties, ElementOfSeq
<1> QED
  BY <1>1, <1>2 DEF ToSet

\* The signal a flush resolves next is one of its batch.
LEMMA NextToResolve ==
    ASSUME TypeOK, FlushDiscipline, NEW t \in Tasks, pc[t] = "resolve"
    PROVE  /\ done[t] + 1 \in 1..Len(buffer[t])
           /\ buffer[t][done[t] + 1] \in Signals
<1>1. done[t] \in Nat /\ done[t] < Len(buffer[t]) /\ buffer[t] \in Seq(Signals)
  BY DEF TypeOK, FlushDiscipline, FlushOK
<1>2. done[t] + 1 \in 1..Len(buffer[t])
  BY <1>1, LenProperties
<1> QED
  BY <1>1, <1>2, ElementOfSeq

\* Counting a signal keeps the counts typed.
LEMMA CountSignalType ==
    ASSUME TypeOK, NEW s \in Signals, CountSignal(s)
    PROVE  counted' \in [Signals -> Nat]
  BY DEF TypeOK, CountSignal

\* Every step keeps the types.
LEMMA NextTypeOK == TypeOK /\ FlushDiscipline /\ [Next]_vars => TypeOK'
<1> SUFFICES ASSUME TypeOK, FlushDiscipline, [Next]_vars
             PROVE  TypeOK'
  OBVIOUS
<1> USE PipelineAssumption
<1>1. ASSUME NEW s \in Signals, Ingest(s) PROVE TypeOK'
  BY <1>1 DEF Ingest, TypeOK, apiVars, listVars, storeVars, taskVars, ReqStates, ProcStates, TaskStates
<1>2. ASSUME NEW s \in Signals, Enqueue(s) PROVE TypeOK'
  BY <1>2 DEF Enqueue, TypeOK, apiVars, listVars, storeVars, taskVars, ReqStates, ProcStates, TaskStates
<1>3. ASSUME NEW s \in Signals, Push(s) PROVE TypeOK'
  BY <1>3 DEF Push, LPush, TypeOK, apiVars, listVars, storeVars, taskVars, ReqStates, ProcStates, TaskStates
<1>4. ASSUME NEW s \in Signals, PushTimeout(s) PROVE TypeOK'
  BY <1>4 DEF PushTimeout, LPush, Fault, TypeOK, apiVars, listVars, storeVars, taskVars, ReqStates, ProcStates, TaskStates
<1>5. ASSUME NEW p \in Procs, Start(p) PROVE TypeOK'
  BY <1>5 DEF Start, TypeOK, apiVars, listVars, storeVars, taskVars, ReqStates, ProcStates, TaskStates
<1>6. ASSUME NEW p \in Procs, RecoverCheck(p) PROVE TypeOK'
  BY <1>6 DEF RecoverCheck, TypeOK, apiVars, listVars, storeVars, taskVars, ReqStates, ProcStates, TaskStates
<1>7. ASSUME NEW p \in Procs, RecoverMove(p) PROVE TypeOK'
  <2>1. CASE ProcessingEmpty /\ UNCHANGED <<listVars, moves>>
    BY <1>7, <2>1 DEF RecoverMove, TypeOK, apiVars, listVars, storeVars, taskVars, ReqStates, ProcStates, TaskStates
  <2>2. ASSUME NEW s \in Signals,
               processing[s] > 0, moves < MaxMoves, moves' = moves + 1,
               processing' = [processing EXCEPT ![s] = @ - 1],
               queue' = Append(queue, s)
        PROVE  TypeOK'
    <3>1. processing' \in [Signals -> Nat]
      BY <2>2 DEF TypeOK
    <3>2. queue' \in Seq(Signals)
      BY <2>2, AppendProperties DEF TypeOK
    <3>3. moves' \in 0..MaxMoves
      BY <2>2 DEF TypeOK
    <3> QED
      BY <1>7, <3>1, <3>2, <3>3 DEF RecoverMove, TypeOK, apiVars, listVars, storeVars, taskVars, ReqStates, ProcStates, TaskStates
  <2> QED
    BY <1>7, <2>1, <2>2 DEF RecoverMove
<1>8. ASSUME NEW p \in Procs, Stopped(p) PROVE TypeOK'
  BY <1>8 DEF Stopped, TypeOK, apiVars, listVars, storeVars, taskVars, ReqStates, ProcStates, TaskStates
<1>9. ASSUME NEW p \in Procs, Stop(p) PROVE TypeOK'
  BY <1>9 DEF Stop, Fault, TypeOK, apiVars, listVars, storeVars, taskVars, ReqStates, ProcStates, TaskStates
<1>10. ASSUME NEW p \in Procs, Crash(p) PROVE TypeOK'
  BY <1>10 DEF Crash, Fault, TypeOK, apiVars, listVars, storeVars, taskVars, ReqStates, ProcStates, TaskStates
<1>11. ASSUME NEW t \in Tasks, Dequeue(t) PROVE TypeOK'
  BY <1>11, PopType DEF Dequeue, Goto, TypeOK, apiVars, listVars, storeVars, taskVars, ReqStates, ProcStates, TaskStates
<1>12. ASSUME NEW t \in Tasks, Buffer(t) PROVE TypeOK'
  <2>1. popped[t] \in Signals
    BY <1>12 DEF Buffer, TypeOK, FlushDiscipline, FlushOK
  <2>2. Append(buffer[t], popped[t]) \in Seq(Signals)
    BY <2>1, BufferedSignals, AppendProperties
  <2>3. buffer' \in [Tasks -> Seq(Signals)] /\ popped' \in [Tasks -> Signals \cup {NoSignal}]
    BY <1>12, <2>2 DEF Buffer, TypeOK
  <2>4. pc' \in [Tasks -> TaskStates]
    BY <1>12 DEF Buffer, TypeOK, TaskStates
  <2> QED
    BY <1>12, <2>3, <2>4 DEF Buffer, TypeOK, apiVars, listVars, storeVars, taskVars, ReqStates, ProcStates, TaskStates
<1>13. ASSUME NEW t \in Tasks, BatchTimeout(t) PROVE TypeOK'
  BY <1>13 DEF BatchTimeout, Goto, TypeOK, apiVars, listVars, storeVars, taskVars, ReqStates, ProcStates, TaskStates
<1>14. ASSUME NEW t \in Tasks, BackoffOver(t) PROVE TypeOK'
  BY <1>14 DEF BackoffOver, Goto, TypeOK, apiVars, listVars, storeVars, taskVars, ReqStates, ProcStates, TaskStates
<1>15. ASSUME NEW t \in Tasks, Record(t) PROVE TypeOK'
  BY <1>15, BufferedSignals DEF Record, Goto, TypeOK, apiVars, listVars, storeVars, taskVars, ReqStates, ProcStates, TaskStates
<1>16. ASSUME NEW t \in Tasks, Resolve(t) PROVE TypeOK'
  <2>1. counted' \in [Signals -> Nat]
    BY <1>16, NextToResolve, CountSignalType DEF Resolve
  <2> QED
    BY <1>16, <2>1, SMTT(30) DEF Resolve, TypeOK, apiVars, listVars, storeVars, taskVars,
       ReqStates, ProcStates, TaskStates
<1>17. ASSUME NEW t \in Tasks, Ack(t) PROVE TypeOK'
  <2>1. \A s \in Signals : Occurrences(buffer[t], s) \in Nat
    BY BufferedSignals, OccurrencesType
  <2>2. processing' \in [Signals -> Nat]
    BY <1>17, <2>1 DEF Ack, TypeOK
  <2> QED
    BY <1>17, <2>2 DEF Ack, Goto, TypeOK, apiVars, listVars, storeVars, taskVars, ReqStates, ProcStates, TaskStates
<1>18. ASSUME NEW t \in Tasks, FlushDone(t) PROVE TypeOK'
  BY <1>18 DEF FlushDone, EndFlush, TypeOK, apiVars, listVars, storeVars, taskVars, ReqStates, ProcStates, TaskStates
<1>19. ASSUME NEW t \in Tasks, IdlePoll(t) PROVE TypeOK'
  BY <1>19 DEF IdlePoll, vars, TypeOK, apiVars, listVars, storeVars, taskVars, ReqStates, ProcStates, TaskStates
<1>20. ASSUME NEW t \in Tasks, DequeueError(t) PROVE TypeOK'
  <2>1. queue' \in Seq(Signals) /\ processing' \in [Signals -> Nat]
    BY <1>20, PopType DEF DequeueError, TypeOK, listVars
  <2> QED
    BY <1>20, <2>1, SMTT(30) DEF DequeueError, Fault, TypeOK, apiVars, listVars, storeVars,
       taskVars, ReqStates, ProcStates, TaskStates
<1>21. ASSUME NEW t \in Tasks, RecordFails(t) PROVE TypeOK'
  <2>1. mongo' \subseteq Signals
    BY <1>21, BufferedSignals DEF RecordFails, TypeOK
  <2> QED
    BY <1>21, <2>1, EndFlushType DEF RecordFails, Fault, TypeOK, apiVars, listVars, storeVars, taskVars, ReqStates, ProcStates, TaskStates
<1>22. ASSUME NEW t \in Tasks, ResolveFails(t) PROVE TypeOK'
  <2>1. counted' \in [Signals -> Nat]
    BY <1>22, NextToResolve, CountSignalType DEF ResolveFails, TypeOK
  <2> QED
    <3>1. faults' \in 0..MaxFaults
      BY <1>22 DEF ResolveFails, Fault, TypeOK
    <3> QED
      BY <1>22, <2>1, <3>1, EndFlushType DEF ResolveFails, TypeOK, apiVars, listVars
<1>23. ASSUME NEW t \in Tasks, AckFails(t) PROVE TypeOK'
  BY <1>23 DEF AckFails, Fault, EndFlush, TypeOK, apiVars, listVars, storeVars, taskVars, ReqStates, ProcStates, TaskStates
<1>24. CASE UNCHANGED vars
  BY <1>24 DEF vars, TypeOK, apiVars, listVars, storeVars, taskVars, ReqStates, ProcStates, TaskStates
<1> QED
  BY <1>1, <1>2, <1>3, <1>4, <1>5, <1>6, <1>7, <1>8, <1>9, <1>10, <1>11, <1>12, <1>13, <1>14, <1>15, <1>16, <1>17, <1>18, <1>19, <1>20, <1>21, <1>22, <1>23, <1>24 DEF Next, Request, Process, Work

-----------------------------------------------------------------------------
(* The discipline of a flush.                                              *)

\* What has been stored and resolved stays so.
LEMMA HandledGrows ==
    ASSUME TypeOK, FlushDiscipline, [Next]_vars
    PROVE  /\ mongo \subseteq mongo'
           /\ \A s \in Signals : Handled(s) => Handled(s)'
<1>1. mongo \subseteq mongo'
  <2>1. ASSUME NEW t \in Tasks, Record(t) \/ RecordFails(t) PROVE mongo \subseteq mongo'
    BY <2>1 DEF Record, RecordFails
  <2> QED
    BY <2>1 DEF Next, Request, Process, Work, Ingest, Enqueue, Push, PushTimeout, Start,
        RecoverCheck, RecoverMove, Stopped, Stop, Crash, Dequeue, Buffer, BatchTimeout,
        BackoffOver, Resolve, Ack, FlushDone, IdlePoll, DequeueError, ResolveFails,
        AckFails, vars, storeVars
<1>2. \A s \in Signals : counted[s] > 0 => counted'[s] > 0
  <2>1. ASSUME NEW t \in Tasks, pc[t] = "resolve", CountSignal(buffer[t][done[t] + 1])
        PROVE  \A s \in Signals : counted[s] > 0 => counted'[s] > 0
    BY <2>1 DEF CountSignal, TypeOK
  <2>2. ASSUME NEW t \in Tasks, Resolve(t) \/ ResolveFails(t)
        PROVE  \A s \in Signals : counted[s] > 0 => counted'[s] > 0
    BY <2>1, <2>2 DEF Resolve, ResolveFails
  <2> QED
    BY <2>2 DEF Next, Request, Process, Work, Ingest, Enqueue, Push, PushTimeout, Start,
        RecoverCheck, RecoverMove, Stopped, Stop, Crash, Dequeue, Buffer, BatchTimeout,
        BackoffOver, Record, Ack, FlushDone, IdlePoll, DequeueError, RecordFails,
        AckFails, vars, storeVars
<1> QED
  BY <1>1, <1>2 DEF Handled

\* A task that does not move keeps to the discipline.
LEMMA FlushOKStable ==
    ASSUME TypeOK, FlushDiscipline, [Next]_vars, NEW t \in Tasks,
           pc'[t] = pc[t], popped'[t] = popped[t],
           buffer'[t] = buffer[t], done'[t] = done[t]
    PROVE  FlushOK(t)'
<1>1. \A i \in 1..Len(buffer[t]) : buffer[t][i] \in Signals
  BY BufferedSignals, ElementOfSeq
<1>2. pc[t] = "resolve" => \A i \in 1..done[t] : i \in 1..Len(buffer[t])
  BY BufferedSignals, LenProperties DEF TypeOK, FlushDiscipline, FlushOK
<1> QED
  BY <1>1, <1>2, HandledGrows DEF FlushDiscipline, FlushOK

\* A task whose flush ended, or that was killed, has nothing half done.
LEMMA FlushOKReset ==
    ASSUME NEW t \in Tasks, pc'[t] \in {"off", "idle", "backoff"}, done'[t] = 0
    PROVE  FlushOK(t)'
  BY DEF FlushOK

\* A flush that ends leaves its task disciplined.
LEMMA EndFlushOK ==
    ASSUME TypeOK, NEW t \in Tasks, EndFlush(t)
    PROVE  FlushOK(t)'
<1>1. pc'[t] \in {"off", "idle"} /\ done'[t] = 0
  BY DEF EndFlush, TypeOK
<1> QED
  BY <1>1, FlushOKReset

\* No task is at work in a process that does not run, after any step.
LEMMA NextOffWhileDown == TypeOK /\ OffWhileDown /\ [Next]_vars => OffWhileDown'
<1> SUFFICES ASSUME TypeOK, OffWhileDown, [Next]_vars, NEW u \in Tasks,
                    pstate'[ProcOf[u]] \notin {"running", "stopping"}
             PROVE  pc'[u] = "off"
  BY DEF OffWhileDown
<1>0. ProcOf[u] \in Procs
  BY PipelineAssumption
<1>1. CASE UNCHANGED <<pc, pstate>>
  BY <1>1 DEF OffWhileDown
<1>2. ASSUME NEW p \in Procs, Process(p) \/ Stop(p) \/ Crash(p)
      PROVE  pc'[u] = "off"
  <2>1. CASE ProcOf[u] # p
    BY <1>0, <1>2, <2>1 DEF OffWhileDown, TypeOK, Process, Start, RecoverCheck, RecoverMove,
        Stopped, Stop, Crash, TasksOf, taskVars
  <2>2. CASE ProcOf[u] = p
    BY <1>2, <2>2 DEF OffWhileDown, TypeOK, Process, Start, RecoverCheck, RecoverMove,
        Stopped, Stop, Crash, TasksOf, taskVars
  <2> QED
    BY <2>1, <2>2
<1>3. ASSUME NEW t \in Tasks, UNCHANGED pstate, pc[t] # "off",
             pc' = [pc EXCEPT ![t] = pc'[t]]
      PROVE  pc'[u] = "off"
  BY <1>3 DEF OffWhileDown, TypeOK
<1>4. ASSUME NEW t \in Tasks,
             \/ Work(t) \/ IdlePoll(t) \/ DequeueError(t)
             \/ RecordFails(t) \/ ResolveFails(t) \/ AckFails(t)
      PROVE  pc'[u] = "off"
  <2>1. CASE Dequeue(t) \/ Buffer(t) \/ BatchTimeout(t) \/ BackoffOver(t) \/ DequeueError(t)
    BY <1>3, <2>1 DEF TypeOK, Dequeue, Buffer, BatchTimeout, BackoffOver, DequeueError, Goto
  <2>2. CASE Record(t) \/ Resolve(t) \/ Ack(t)
    BY <1>3, <2>2 DEF TypeOK, Record, Resolve, Ack, Goto
  <2>3. CASE FlushDone(t) \/ RecordFails(t) \/ ResolveFails(t) \/ AckFails(t)
    BY <1>3, <2>3 DEF TypeOK, FlushDone, RecordFails, ResolveFails, AckFails, EndFlush
  <2>4. CASE IdlePoll(t)
    BY <1>1, <2>4 DEF IdlePoll, vars, taskVars
  <2> QED
    BY <1>4, <2>1, <2>2, <2>3, <2>4 DEF Work
<1> QED
  BY <1>1, <1>2, <1>4 DEF Next, Request, Ingest, Enqueue, Push, PushTimeout, taskVars, vars

\* Every step, failures and cancellations included, keeps a flush in order.
LEMMA NextFlushDiscipline ==
    TypeOK /\ OffWhileDown /\ FlushDiscipline /\ [Next]_vars => FlushDiscipline'
<1> SUFFICES ASSUME TypeOK, OffWhileDown, FlushDiscipline, [Next]_vars, NEW u \in Tasks
             PROVE  FlushOK(u)'
  BY DEF FlushDiscipline
<1>1. CASE UNCHANGED taskVars
  BY <1>1, FlushOKStable DEF taskVars
<1>2. ASSUME NEW p \in Procs, RecoverCheck(p) \/ Stop(p) \/ Crash(p)
      PROVE  FlushOK(u)'
  <2>1. CASE u \notin TasksOf(p)
    <3>1. pc'[u] = pc[u] /\ popped'[u] = popped[u] /\ buffer'[u] = buffer[u] /\ done'[u] = done[u]
      BY <1>2, <2>1 DEF RecoverCheck, Stop, Crash, TypeOK
    <3> QED
      BY <3>1, FlushOKStable
  <2>2. CASE u \in TasksOf(p) /\ RecoverCheck(p)
    <3>1. CASE ProcessingEmpty
      <4>1. pc'[u] = "idle" /\ UNCHANGED done
        BY <2>2, <3>1 DEF RecoverCheck
      <4>2. pc[u] = "off"
        BY <2>2 DEF RecoverCheck, OffWhileDown, TasksOf
      <4> QED
        BY <4>1, <4>2, FlushOKReset DEF FlushDiscipline, FlushOK
    <3>2. CASE ~ProcessingEmpty
      BY <2>2, <3>2, FlushOKStable DEF RecoverCheck
    <3> QED
      BY <3>1, <3>2
  <2>3. CASE u \in TasksOf(p) /\ Stop(p)
    <3>1. done'[u] = 0 /\ pc'[u] \in {"record", "off"}
      BY <2>3 DEF Stop
    <3>2. pc'[u] = "record" => buffer'[u] # <<>>
      BY <2>3 DEF Stop
    <3> QED
      BY <3>1, <3>2 DEF FlushOK
  <2>4. CASE u \in TasksOf(p) /\ Crash(p)
    <3>1. pc'[u] = "off" /\ done'[u] = 0
      BY <2>4 DEF Crash
    <3> QED
      BY <3>1, FlushOKReset
  <2> QED
    BY <1>2, <2>1, <2>2, <2>3, <2>4
<1>3. ASSUME NEW t \in Tasks, t # u,
             \/ Work(t) \/ IdlePoll(t) \/ DequeueError(t)
             \/ RecordFails(t) \/ ResolveFails(t) \/ AckFails(t)
      PROVE  FlushOK(u)'
  <2>1. pc'[u] = pc[u] /\ popped'[u] = popped[u] /\ buffer'[u] = buffer[u] /\ done'[u] = done[u]
    BY <1>3 DEF TypeOK, Work, Dequeue, Buffer, BatchTimeout, BackoffOver, Record, Resolve,
        Ack, FlushDone, IdlePoll, DequeueError, RecordFails, ResolveFails, AckFails,
        Goto, EndFlush, vars, taskVars
  <2> QED
    BY <2>1, FlushOKStable
<1>4. CASE Dequeue(u)
  <2>1. pc'[u] = "popped" /\ popped'[u] \in Signals /\ done'[u] = 0
    BY <1>4, PopType DEF Dequeue, Goto, TypeOK, FlushDiscipline, FlushOK
  <2> QED
    BY <2>1, PipelineAssumption DEF FlushOK
<1>5. CASE Buffer(u)
  <2>1. popped[u] \in Signals /\ done'[u] = 0 /\ pc'[u] \in {"record", "idle"}
    BY <1>5 DEF Buffer, TypeOK, FlushDiscipline, FlushOK
  <2>2. buffer'[u] = Append(buffer[u], popped[u]) /\ buffer[u] \in Seq(Signals)
    BY <1>5 DEF Buffer, TypeOK
  <2>3. buffer'[u] # <<>>
    BY <2>1, <2>2, AppendProperties
  <2> QED
    BY <2>1, <2>3 DEF FlushOK
<1>6. CASE BatchTimeout(u)
  BY <1>6 DEF BatchTimeout, Goto, TypeOK, FlushDiscipline, FlushOK
<1>7. CASE BackoffOver(u)
  BY <1>7 DEF BackoffOver, Goto, TypeOK, FlushDiscipline, FlushOK
<1>8. CASE Record(u)
  <2>1. pc[u] = "record" /\ pc'[u] = "resolve" /\ mongo' = mongo \cup ToSet(buffer[u])
        /\ UNCHANGED <<buffer, done>>
    BY <1>8 DEF Record, Goto, TypeOK
  <2>2. buffer[u] # <<>> /\ done[u] = 0
    BY <2>1 DEF FlushDiscipline, FlushOK
  <2>3. Len(buffer[u]) > 0
    BY <2>2, BufferedSignals, EmptySeq, LenProperties
  <2>4. \A i \in 1..Len(buffer[u]) : buffer[u][i] \in mongo'
    BY <2>1, BufferedSignals
  <2> QED
    BY <2>1, <2>2, <2>3, <2>4 DEF FlushOK
<1>9. CASE Resolve(u)
  <2> DEFINE n == done[u] + 1
  <2>1. pc[u] = "resolve" /\ CountSignal(buffer[u][n]) /\ done'[u] = n
        /\ pc'[u] = (IF n = Len(buffer[u]) THEN "ack" ELSE "resolve")
        /\ UNCHANGED <<mongo, buffer>>
    BY <1>9 DEF Resolve, TypeOK
  <2>2. n \in 1..Len(buffer[u]) /\ done[u] \in Nat /\ buffer[u] \in Seq(Signals)
        /\ Len(buffer[u]) \in Nat
    BY <2>1, NextToResolve, LenProperties DEF TypeOK
  <2>3. \A i \in 1..Len(buffer[u]) : buffer[u][i] \in Signals /\ buffer[u][i] \in mongo
    BY <2>1, <2>2, ElementOfSeq DEF FlushDiscipline, FlushOK
  <2>4. buffer[u][n] \in mongo' /\ counted'[buffer[u][n]] > 0
    <3>1. counted'[buffer[u][n]] = counted[buffer[u][n]] + 1
      BY <2>1, <2>2, <2>3 DEF CountSignal, TypeOK
    <3>2. counted[buffer[u][n]] \in Nat
      BY <2>2, <2>3 DEF TypeOK
    <3> QED
      BY <2>1, <2>2, <2>3, <3>1, <3>2
  <2>5. \A i \in 1..done[u] : buffer[u][i] \in mongo' /\ counted'[buffer[u][i]] > 0
    <3>1. \A i \in 1..done[u] : Handled(buffer[u][i]) /\ buffer[u][i] \in Signals
      BY <2>1, <2>2, <2>3 DEF FlushDiscipline, FlushOK
    <3> QED
      BY <3>1, HandledGrows DEF Handled
  <2>6. ASSUME NEW i \in 1..n
        PROVE  buffer[u][i] \in mongo' /\ counted'[buffer[u][i]] > 0
    <3>1. i = n \/ i \in 1..done[u]
      BY <2>2
    <3> QED
      BY <2>4, <2>5, <3>1
  <2> QED
    BY <2>1, <2>2, <2>3, <2>6 DEF FlushOK, Handled
<1>10. CASE Ack(u)
  <2>1. pc[u] = "ack" /\ pc'[u] = "acked" /\ UNCHANGED <<storeVars, buffer, done>>
    BY <1>10 DEF Ack, Goto, TypeOK
  <2> QED
    BY <2>1 DEF FlushDiscipline, FlushOK, Handled, storeVars
<1>11. CASE FlushDone(u) \/ RecordFails(u) \/ ResolveFails(u) \/ AckFails(u)
  BY <1>11, EndFlushOK DEF FlushDone, RecordFails, ResolveFails, AckFails
<1>12. CASE DequeueError(u)
  <2>1. pc'[u] = "backoff" /\ done'[u] = 0
    BY <1>12 DEF DequeueError, TypeOK, FlushDiscipline, FlushOK
  <2> QED
    BY <2>1, FlushOKReset
<1> QED
  BY <1>1, <1>2, <1>3, <1>4, <1>5, <1>6, <1>7, <1>8, <1>9, <1>10, <1>11, <1>12
     DEF Next, Request, Process, Work, Ingest, Enqueue, Push, PushTimeout, Start, RecoverMove,
         Stopped, IdlePoll, vars

-----------------------------------------------------------------------------
(* No accepted signal is lost.                                             *)

\* A pop moves an envelope from one list to the other.
LEMMA PopHolds ==
    ASSUME TypeOK, BRPopLPush, NEW s \in Signals, Held(s)
    PROVE  Held(s)'
<1>1. queue # <<>> /\ queue \in Seq(Signals) /\ queue' = Tail(queue)
      /\ processing' = [processing EXCEPT ![Head(queue)] = @ + 1]
      /\ processing \in [Signals -> Nat]
  BY DEF BRPopLPush, TypeOK
<1>2. Head(queue) \in Signals /\ ToSet(queue) = ToSet(queue') \cup {Head(queue)}
  BY <1>1, ToSetTail
<1>3. CASE s = Head(queue)
  <2>1. processing'[s] = processing[s] + 1
    BY <1>1, <1>2, <1>3
  <2>2. processing[s] \in Nat
    BY <1>1
  <2> QED
    BY <2>1, <2>2 DEF Held
<1>4. CASE s # Head(queue)
  BY <1>1, <1>2, <1>4 DEF Held
<1> QED
  BY <1>3, <1>4

\* Recovery moves one back.
LEMMA MoveHolds ==
    ASSUME TypeOK, NEW p \in Procs, RecoverMove(p), NEW s \in Signals, Held(s)
    PROVE  Held(s)'
<1>1. CASE UNCHANGED listVars
  BY <1>1 DEF Held, listVars
<1>2. ASSUME NEW e \in Signals,
             processing' = [processing EXCEPT ![e] = @ - 1],
             queue' = Append(queue, e)
      PROVE  Held(s)'
  <2>1. ToSet(queue') = ToSet(queue) \cup {e}
    BY <1>2, ToSetAppend DEF TypeOK
  <2>2. s # e => processing'[s] = processing[s]
    BY <1>2 DEF TypeOK
  <2> QED
    BY <2>1, <2>2 DEF Held
<1> QED
  BY <1>1, <1>2 DEF RecoverMove

\* An acknowledgement drops copies of handled envelopes only.
LEMMA AckHolds ==
    ASSUME TypeOK, FlushDiscipline, NEW t \in Tasks, Ack(t),
           NEW s \in Signals, Held(s), ~Handled(s)
    PROVE  Held(s)'
<1>1. pc[t] = "ack"
  BY DEF Ack, Goto
<1>2. s \notin ToSet(buffer[t])
  BY <1>1, BufferedSignals DEF FlushDiscipline, FlushOK
<1>3. Occurrences(buffer[t], s) = 0
  BY <1>2, BufferedSignals, OccurrencesAbsent
<1>4. processing'[s] = processing[s] /\ queue' = queue
  <2>1. processing[s] \in Nat
    BY DEF TypeOK
  <2> QED
    BY <1>3, <2>1 DEF Ack
<1> QED
  BY <1>4 DEF Held

\* A push adds its envelope to the queue and takes none away.
LEMMA PushHolds ==
    ASSUME TypeOK, NEW e \in Signals, LPush(e), UNCHANGED processing
    PROVE  /\ Held(e)'
           /\ \A s \in Signals : Held(s) => Held(s)'
           /\ pushed'[e] > 0
           /\ \A s \in Signals : s # e => pushed'[s] = pushed[s]
<1>1. ToSet(queue') = ToSet(queue) \cup {e}
  BY ToSetAppend DEF LPush, TypeOK
<1>2. pushed[e] \in Nat /\ pushed'[e] = pushed[e] + 1
  BY DEF LPush, TypeOK
<1>3. \A s \in Signals : s # e => pushed'[s] = pushed[s]
  BY DEF LPush, TypeOK
<1> QED
  BY <1>1, <1>2, <1>3 DEF Held

\* No step loses an envelope that was pushed and not yet handled.
LEMMA NextNoPushLost ==
    TypeOK /\ FlushDiscipline /\ NoPushLost /\ [Next]_vars => NoPushLost'
<1> SUFFICES ASSUME TypeOK, FlushDiscipline, NoPushLost, [Next]_vars, NEW s \in Signals
             PROVE  /\ req'[s] \in {"repushing", "accepted"} => pushed'[s] > 0
                    /\ pushed'[s] > 0 => Held(s)' \/ Handled(s)'
  BY DEF NoPushLost
<1> DEFINE Kept == /\ req'[s] \in {"repushing", "accepted"} => pushed'[s] > 0
                   /\ pushed'[s] > 0 => Held(s)' \/ Handled(s)'
<1>1. ASSUME UNCHANGED apiVars, Held(s) /\ ~Handled(s) => Held(s)'
      PROVE  Kept
  BY <1>1, HandledGrows DEF NoPushLost, apiVars
<1>2. ASSUME UNCHANGED <<pushed, listVars>>,
             req'[s] \in {"repushing", "accepted"} => req'[s] = req[s]
      PROVE  Kept
  BY <1>2, HandledGrows DEF NoPushLost, Held, listVars
<1>3. ASSUME NEW e \in Signals, Ingest(e) \/ Enqueue(e)
      PROVE  Kept
  <2>1. UNCHANGED <<pushed, listVars>>
    BY <1>3 DEF Ingest, Enqueue
  <2>2. req'[s] \in {"repushing", "accepted"} => req'[s] = req[s]
    BY <1>3 DEF Ingest, Enqueue, TypeOK
  <2> QED
    BY <1>2, <2>1, <2>2
<1>4. ASSUME NEW e \in Signals, Push(e) \/ PushTimeout(e)
      PROVE  Kept
  <2>1. LPush(e) /\ UNCHANGED processing
    BY <1>4 DEF Push, PushTimeout
  <2>2. s # e => req'[s] = req[s]
    BY <1>4 DEF Push, PushTimeout, TypeOK
  <2> QED
    BY <2>1, <2>2, PushHolds, HandledGrows DEF NoPushLost
<1>5. ASSUME NEW p \in Procs, Process(p) \/ Stop(p) \/ Crash(p)
      PROVE  Kept
  <2>1. CASE RecoverMove(p)
    BY <1>1, <2>1, MoveHolds DEF RecoverMove
  <2>2. CASE Start(p) \/ RecoverCheck(p) \/ Stopped(p) \/ Stop(p) \/ Crash(p)
    <3>1. UNCHANGED <<apiVars, listVars>>
      BY <2>2 DEF Start, RecoverCheck, Stopped, Stop, Crash
    <3> QED
      BY <1>1, <3>1 DEF Held, listVars
  <2> QED
    BY <1>5, <2>1, <2>2 DEF Process
<1>6. ASSUME NEW t \in Tasks,
             \/ Work(t) \/ IdlePoll(t) \/ DequeueError(t)
             \/ RecordFails(t) \/ ResolveFails(t) \/ AckFails(t)
      PROVE  Kept
  <2>1. CASE Dequeue(t) \/ DequeueError(t)
    <3>1. UNCHANGED apiVars /\ (UNCHANGED listVars \/ BRPopLPush)
      BY <2>1 DEF Dequeue, DequeueError
    <3> QED
      BY <1>1, <3>1, PopHolds DEF Held, listVars
  <2>2. CASE Ack(t)
    BY <1>1, <2>2, AckHolds DEF Ack
  <2>3. CASE \/ Buffer(t) \/ BatchTimeout(t) \/ BackoffOver(t) \/ Record(t)
             \/ Resolve(t) \/ FlushDone(t) \/ IdlePoll(t)
             \/ RecordFails(t) \/ ResolveFails(t) \/ AckFails(t)
    <3>1. UNCHANGED <<apiVars, listVars>>
      BY <2>3 DEF Buffer, BatchTimeout, BackoffOver, Record, Resolve, FlushDone, IdlePoll,
         RecordFails, ResolveFails, AckFails, vars
    <3> QED
      BY <1>1, <3>1 DEF Held, listVars
  <2> QED
    BY <1>6, <2>1, <2>2, <2>3 DEF Work
<1>7. CASE UNCHANGED vars
  BY <1>1, <1>7 DEF vars, Held, listVars, apiVars
<1> QED
  BY <1>3, <1>4, <1>5, <1>6, <1>7 DEF Next, Request

-----------------------------------------------------------------------------
(* The theorems.                                                           *)

\* The inductive invariant holds at the start.
LEMMA InitPipelineInv == Init => PipelineInv
<1> SUFFICES ASSUME Init
             PROVE  PipelineInv
  OBVIOUS
<1>1. TypeOK
  BY InitTypeOK
<1>2. OffWhileDown
  BY DEF Init, OffWhileDown
<1>3. FlushDiscipline
  BY DEF Init, FlushDiscipline, FlushOK
<1>4. NoPushLost
  BY DEF Init, NoPushLost
<1> QED
  BY <1>1, <1>2, <1>3, <1>4 DEF PipelineInv

\* Every step keeps it.
LEMMA NextPipelineInv == PipelineInv /\ [Next]_vars => PipelineInv'
  BY NextTypeOK, NextOffWhileDown, NextFlushDiscipline, NextNoPushLost DEF PipelineInv

\* The strengthened invariant holds in every reachable state.
THEOREM PipelineInvariant == Spec => []PipelineInv
  BY InitPipelineInv, NextPipelineInv, PTL DEF Spec

\* Every variable keeps its type: in particular the processing list never
\* holds a negative number of copies, although LREM may find none.
THEOREM TypeCorrect == Spec => []TypeOK
<1>1. PipelineInv => TypeOK
  BY DEF PipelineInv
<1> QED
  BY <1>1, PipelineInvariant, PTL

\* A flush works through a whole batch in order: flush_batch acknowledges no
\* envelope whose signal it has not stored and resolved, whatever failed,
\* was cancelled or was recovered before.
THEOREM FlushIsDisciplined == Spec => []FlushDiscipline
<1>1. PipelineInv => FlushDiscipline
  BY DEF PipelineInv
<1> QED
  BY <1>1, PipelineInvariant, PTL

\* At-least-once, safety half, for any number of worker processes and any
\* failures: a signal answered 202 is in one of the Redis lists or has been
\* stored in MongoDB and resolved.
THEOREM AcceptedNotLost == Spec => []NoSignalLost
<1>1. PipelineInv => NoSignalLost
  BY DEF PipelineInv, NoPushLost, NoSignalLost
<1> QED
  BY <1>1, PipelineInvariant, PTL

-----------------------------------------------------------------------------
(* Copies of an envelope.                                                  *)

\* A push adds one occurrence of its envelope.
LEMMA OccurrencesAppend ==
    ASSUME NEW S, NEW seq \in Seq(S), NEW e \in S, NEW s
    PROVE  Occurrences(Append(seq, e), s) = IF s = e THEN Occurrences(seq, s) + 1
                                                     ELSE Occurrences(seq, s)
<1> DEFINE A == {i \in DOMAIN seq : seq[i] = s}
           B == {i \in DOMAIN Append(seq, e) : Append(seq, e)[i] = s}
<1>1. /\ Len(seq) \in Nat /\ DOMAIN seq = 1..Len(seq)
      /\ DOMAIN Append(seq, e) = 1..Len(seq) + 1
      /\ \A i \in 1..Len(seq) : Append(seq, e)[i] = seq[i]
      /\ Append(seq, e)[Len(seq) + 1] = e
  BY AppendProperties, LenProperties
<1>2. IsFiniteSet(A)
  <2>1. IsFiniteSet(DOMAIN seq)
    BY <1>1, FS_Interval
  <2> QED
    BY <2>1, FS_Subset
<1>3. Len(seq) + 1 \notin A
  BY <1>1
<1>4. CASE s = e
  <2>1. B = A \cup {Len(seq) + 1}
    BY <1>1, <1>4
  <2> QED
    BY <1>2, <1>3, <1>4, <2>1, FS_AddElement DEF Occurrences
<1>5. CASE s # e
  <2>1. B = A
    BY <1>1, <1>5
  <2> QED
    BY <1>5, <2>1 DEF Occurrences
<1> QED
  BY <1>4, <1>5

\* A pop takes one occurrence of the head away.
LEMMA OccurrencesTail ==
    ASSUME NEW S, NEW seq \in Seq(S), seq # <<>>, NEW s
    PROVE  Occurrences(seq, s) = IF s = Head(seq) THEN Occurrences(Tail(seq), s) + 1
                                                  ELSE Occurrences(Tail(seq), s)
<1> DEFINE A == {i \in DOMAIN seq : seq[i] = s}
           B == {i \in DOMAIN Tail(seq) : Tail(seq)[i] = s}
           C == {i \in A : i # 1}
           f == [i \in B |-> i + 1]
<1>1. /\ Len(seq) \in Nat \ {0} /\ DOMAIN seq = 1..Len(seq)
      /\ DOMAIN Tail(seq) = 1..Len(seq) - 1
      /\ \A i \in 1..Len(seq) - 1 : Tail(seq)[i] = seq[i + 1]
      /\ Head(seq) = seq[1]
  BY HeadTailProperties, EmptySeq, LenProperties
<1>2. IsFiniteSet(B)
  <2>1. IsFiniteSet(DOMAIN Tail(seq))
    BY <1>1, FS_Interval
  <2> QED
    BY <2>1, FS_Subset
<1>3. f \in Bijection(B, C)
  <2>1. \A i \in B : i \in 1..Len(seq) - 1 /\ seq[i + 1] = s
    BY <1>1
  <2>2. \A i \in B : i + 1 \in C
    BY <1>1, <2>1
  <2>3. \A i, j \in B : f[i] = f[j] => i = j
    BY <2>1
  <2>4. ASSUME NEW k \in C
        PROVE  \E i \in B : f[i] = k
    <3>1. k - 1 \in 1..Len(seq) - 1 /\ seq[k - 1 + 1] = s /\ k - 1 + 1 = k
      BY <1>1
    <3>2. k - 1 \in B
      BY <1>1, <3>1
    <3> QED
      BY <3>1, <3>2
  <2> QED
    BY <2>2, <2>3, <2>4 DEF Bijection, Injection, Surjection, IsInjective
<1>4. IsFiniteSet(C) /\ Cardinality(C) = Cardinality(B)
  BY <1>2, <1>3, FS_Bijection DEF ExistsBijection
<1>5. CASE s = Head(seq)
  <2>1. A = C \cup {1} /\ 1 \notin C
    BY <1>1, <1>5
  <2> QED
    BY <1>4, <1>5, <2>1, FS_AddElement DEF Occurrences
<1>6. CASE s # Head(seq)
  <2>1. A = C
    BY <1>1, <1>6
  <2> QED
    BY <1>4, <1>6, <2>1 DEF Occurrences
<1> QED
  BY <1>5, <1>6

\* How many copies of an envelope Redis holds.
Copies(s) == Occurrences(queue, s) + processing[s]

\* The two summands are numbers.
LEMMA CopiesType ==
    ASSUME TypeOK, NEW s \in Signals
    PROVE  Occurrences(queue, s) \in Nat /\ processing[s] \in Nat
BY OccurrencesType DEF TypeOK

\* A pop and a recovery keep the number of copies.
LEMMA MovedCopies ==
    ASSUME TypeOK, NEW s \in Signals,
           BRPopLPush \/ \E p \in Procs : RecoverMove(p)
    PROVE  Occurrences(queue', s) + processing'[s] = Copies(s)
<1>1. Occurrences(queue, s) \in Nat /\ processing[s] \in Nat /\ queue \in Seq(Signals)
  BY CopiesType DEF TypeOK
<1>2. CASE BRPopLPush
  <2>1. /\ queue # <<>> /\ queue' = Tail(queue) /\ Head(queue) \in Signals
        /\ Tail(queue) \in Seq(Signals)
        /\ processing'[s] = IF s = Head(queue) THEN processing[s] + 1 ELSE processing[s]
    BY <1>2, ToSetTail DEF BRPopLPush, TypeOK
  <2>2. Occurrences(Tail(queue), s) \in Nat
    BY <2>1, OccurrencesType
  <2>3. CASE s = Head(queue)
    <3>1. Occurrences(queue, s) = Occurrences(Tail(queue), s) + 1
      BY <1>1, <2>1, <2>3, OccurrencesTail
    <3>2. Occurrences(queue', s) = Occurrences(Tail(queue), s) /\ processing'[s] = processing[s] + 1
      BY <2>1, <2>3
    <3> QED
      BY <1>1, <2>2, <3>1, <3>2 DEF Copies
  <2>4. CASE s # Head(queue)
    <3>1. Occurrences(queue, s) = Occurrences(Tail(queue), s)
      BY <1>1, <2>1, <2>4, OccurrencesTail
    <3> QED
      BY <2>1, <2>4, <3>1 DEF Copies
  <2> QED
    BY <2>3, <2>4
<1>3. CASE UNCHANGED listVars
  BY <1>3 DEF Copies, listVars
<1>4. ASSUME NEW e \in Signals, processing[e] > 0,
             processing' = [processing EXCEPT ![e] = @ - 1], queue' = Append(queue, e)
      PROVE  Occurrences(queue', s) + processing'[s] = Copies(s)
  <2>1. CASE s = e
    <3>1. Occurrences(queue', s) = Occurrences(queue, s) + 1 /\ processing'[s] = processing[s] - 1
      BY <1>1, <1>4, <2>1, OccurrencesAppend DEF TypeOK
    <3> QED
      BY <1>1, <3>1 DEF Copies
  <2>2. CASE s # e
    <3>1. Occurrences(queue', s) = Occurrences(queue, s) /\ processing'[s] = processing[s]
      BY <1>1, <1>4, <2>2, OccurrencesAppend DEF TypeOK
    <3> QED
      BY <3>1 DEF Copies
  <2> QED
    BY <2>1, <2>2
<1> QED
  BY <1>2, <1>3, <1>4 DEF RecoverMove

\* A push adds one copy of its envelope and is counted.
LEMMA PushedCopies ==
    ASSUME TypeOK, NEW s \in Signals, NEW e \in Signals, LPush(e), UNCHANGED processing
    PROVE  /\ s # e => Occurrences(queue', s) + processing'[s] = Copies(s)
                       /\ pushed'[s] = pushed[s]
           /\ s = e => Occurrences(queue', s) + processing'[s] = Copies(s) + 1
                       /\ pushed'[s] = pushed[s] + 1
<1>1. Occurrences(queue, s) \in Nat /\ processing[s] \in Nat /\ queue \in Seq(Signals)
  BY CopiesType DEF TypeOK
<1>2. CASE s = e
  <2>1. Occurrences(queue', s) = Occurrences(queue, s) + 1 /\ pushed'[s] = pushed[s] + 1
    BY <1>1, <1>2, OccurrencesAppend DEF LPush, TypeOK
  <2> QED
    BY <1>1, <1>2, <2>1 DEF Copies
<1>3. CASE s # e
  <2>1. Occurrences(queue', s) = Occurrences(queue, s) /\ pushed'[s] = pushed[s]
    BY <1>1, <1>3, OccurrencesAppend DEF LPush, TypeOK
  <2> QED
    BY <1>3, <2>1 DEF Copies
<1> QED
  BY <1>2, <1>3

\* An acknowledgement takes copies of handled envelopes only.
LEMMA AckedCopies ==
    ASSUME TypeOK, FlushDiscipline, NEW s \in Signals, NEW t \in Tasks, Ack(t)
    PROVE  /\ Occurrences(queue', s) + processing'[s] <= Copies(s)
           /\ Handled(s) \/ Occurrences(queue', s) + processing'[s] = Copies(s)
<1>1. Occurrences(queue, s) \in Nat /\ processing[s] \in Nat
      /\ Occurrences(buffer[t], s) \in Nat
  BY CopiesType, BufferedSignals, OccurrencesType
<1>2. queue' = queue
      /\ processing'[s] = IF processing[s] > Occurrences(buffer[t], s)
                            THEN processing[s] - Occurrences(buffer[t], s) ELSE 0
  BY DEF Ack
<1>3. Handled(s) \/ Occurrences(buffer[t], s) = 0
  <2>1. pc[t] = "ack"
    BY DEF Ack, Goto
  <2>2. CASE s \in ToSet(buffer[t])
    BY <2>1, <2>2, BufferedSignals DEF FlushDiscipline, FlushOK
  <2>3. CASE s \notin ToSet(buffer[t])
    BY <2>3, BufferedSignals, OccurrencesAbsent
  <2> QED
    BY <2>2, <2>3
<1>4. processing'[s] <= processing[s] /\ processing'[s] \in Nat
      /\ (Occurrences(buffer[t], s) = 0 => processing'[s] = processing[s])
  BY <1>1, <1>2
<1> QED
  BY <1>1, <1>2, <1>3, <1>4 DEF Copies

\* What a step does to the copies of an envelope.
LEMMA StepCopies ==
    ASSUME TypeOK, FlushDiscipline, [Next]_vars, NEW s \in Signals
    PROVE  \/ Occurrences(queue', s) + processing'[s] = Copies(s) /\ pushed'[s] = pushed[s]
           \/ Occurrences(queue', s) + processing'[s] = Copies(s) + 1
              /\ pushed'[s] = pushed[s] + 1
           \/ Occurrences(queue', s) + processing'[s] <= Copies(s) /\ pushed'[s] = pushed[s]
              /\ Handled(s)
<1> DEFINE Goal ==
           \/ Occurrences(queue', s) + processing'[s] = Copies(s) /\ pushed'[s] = pushed[s]
           \/ Occurrences(queue', s) + processing'[s] = Copies(s) + 1
              /\ pushed'[s] = pushed[s] + 1
           \/ Occurrences(queue', s) + processing'[s] <= Copies(s) /\ pushed'[s] = pushed[s]
              /\ Handled(s)
<1>1. CASE UNCHANGED <<listVars, pushed>>
  BY <1>1 DEF listVars, Copies
<1>2. ASSUME NEW e \in Signals, Request(e) \/ PushTimeout(e)
      PROVE  Goal
  <2>1. CASE Ingest(e) \/ Enqueue(e)
    BY <1>1, <2>1 DEF Ingest, Enqueue
  <2>2. CASE Push(e) \/ PushTimeout(e)
    BY <2>2, PushedCopies DEF Push, PushTimeout
  <2> QED
    BY <1>2, <2>1, <2>2 DEF Request
<1>3. ASSUME NEW p \in Procs, Process(p) \/ Stop(p) \/ Crash(p)
      PROVE  Goal
  <2>1. CASE RecoverMove(p)
    BY <2>1, MovedCopies DEF RecoverMove, apiVars
  <2>2. CASE Start(p) \/ RecoverCheck(p) \/ Stopped(p) \/ Stop(p) \/ Crash(p)
    BY <1>1, <2>2 DEF Start, RecoverCheck, Stopped, Stop, Crash, apiVars
  <2> QED
    BY <1>3, <2>1, <2>2 DEF Process
<1>4. ASSUME NEW t \in Tasks,
             \/ Work(t) \/ IdlePoll(t) \/ DequeueError(t)
             \/ RecordFails(t) \/ ResolveFails(t) \/ AckFails(t)
      PROVE  Goal
  <2>1. CASE Dequeue(t) \/ DequeueError(t)
    <3>1. pushed' = pushed /\ (UNCHANGED listVars \/ BRPopLPush)
      BY <2>1 DEF Dequeue, DequeueError, apiVars
    <3> QED
      BY <1>1, <3>1, MovedCopies
  <2>2. CASE Ack(t)
    BY <2>2, AckedCopies DEF Ack, apiVars
  <2>3. CASE \/ Buffer(t) \/ BatchTimeout(t) \/ BackoffOver(t) \/ Record(t)
             \/ Resolve(t) \/ FlushDone(t) \/ IdlePoll(t)
             \/ RecordFails(t) \/ ResolveFails(t) \/ AckFails(t)
    <3>1. UNCHANGED <<listVars, pushed>>
      BY <2>3 DEF Buffer, BatchTimeout, BackoffOver, Record, Resolve, FlushDone, IdlePoll,
         RecordFails, ResolveFails, AckFails, vars, apiVars
    <3> QED
      BY <1>1, <3>1
  <2> QED
    BY <1>4, <2>1, <2>2, <2>3 DEF Work
<1>5. CASE UNCHANGED vars
  BY <1>1, <1>5 DEF vars, apiVars
<1> QED
  BY <1>2, <1>3, <1>4, <1>5 DEF Next

\* Moving envelopes between the lists never multiplies them, for any number of
\* processes recovering, popping and acknowledging together: Redis holds no
\* more copies of an envelope than LPUSHes of it were applied.
THEOREM NeverMultiplied == Spec => []NoMultiplication
<1>1. Init => NoMultiplication
  <2> SUFFICES ASSUME Init, NEW s \in Signals
               PROVE  Occurrences(queue, s) + processing[s] <= pushed[s]
    BY DEF NoMultiplication
  <2>1. Occurrences(queue, s) = 0
    <3>1. queue = <<>> /\ <<>> \in Seq(Signals) /\ DOMAIN <<>> = {}
      BY EmptySeq DEF Init
    <3>2. s \notin ToSet(<<>>)
      BY <3>1 DEF ToSet
    <3> QED
      BY <3>1, <3>2, OccurrencesAbsent
  <2> QED
    BY <2>1 DEF Init
<1>2. PipelineInv /\ NoMultiplication /\ [Next]_vars => NoMultiplication'
  <2> SUFFICES ASSUME PipelineInv, NoMultiplication, [Next]_vars, NEW s \in Signals
               PROVE  Occurrences(queue', s) + processing'[s] <= pushed'[s]
    BY DEF NoMultiplication
  <2>1. TypeOK /\ FlushDiscipline /\ TypeOK'
    BY NextPipelineInv DEF PipelineInv
  <2>2. Copies(s) \in Nat /\ pushed[s] \in Nat /\ Copies(s) <= pushed[s]
    BY <2>1, CopiesType DEF Copies, NoMultiplication, TypeOK
  <2>3. Occurrences(queue', s) + processing'[s] \in Nat
    <3>1. Occurrences(queue', s) \in Nat
      BY <2>1, OccurrencesType DEF TypeOK
    <3> QED
      BY <2>1, <3>1 DEF TypeOK
  <2> QED
    BY <2>1, <2>2, <2>3, StepCopies
<1> QED
  BY <1>1, <1>2, PipelineInvariant, PTL DEF Spec

\* No step but the acknowledgement of a handled signal makes Redis hold fewer
\* copies of its envelope, whatever fails or is recovered meanwhile.
THEOREM OnlyHandledAcked == Spec => AckOnlyHandled
<1>1. PipelineInv /\ [Next]_vars
        => [\A s \in Signals :
              Occurrences(queue, s)' + processing[s]' < Occurrences(queue, s) + processing[s]
                => Handled(s)]_vars
  <2> SUFFICES ASSUME PipelineInv, [Next]_vars, NEW s \in Signals,
                      Occurrences(queue', s) + processing'[s] < Copies(s)
               PROVE  Handled(s)
    BY DEF Copies
  <2>1. TypeOK /\ FlushDiscipline
    BY DEF PipelineInv
  <2>2. Copies(s) \in Nat
    BY <2>1, CopiesType DEF Copies
  <2> QED
    BY <2>1, <2>2, StepCopies
<1> QED
  BY <1>1, PipelineInvariant, PTL DEF Spec, AckOnlyHandled

-----------------------------------------------------------------------------
(* The bound of the queue.                                                 *)

\* The requests whose LPUSH was, or is about to be, applied twice.
Repeated == {s \in Signals : pushed[s] > 1 \/ req[s] = "repushing"}

\* No LPUSH of a request is applied before the request comes to it.
PushesOfReq ==
    \A s \in Signals :
        /\ req[s] \notin {"repushing", "accepted"} => pushed[s] = 0
        /\ req[s] = "repushing" => pushed[s] > 0

\* Every step keeps that.
LEMMA NextPushesOfReq == TypeOK /\ PushesOfReq /\ [Next]_vars => PushesOfReq'
<1> SUFFICES ASSUME TypeOK, PushesOfReq, [Next]_vars, NEW s \in Signals
             PROVE  /\ req'[s] \notin {"repushing", "accepted"} => pushed'[s] = 0
                    /\ req'[s] = "repushing" => pushed'[s] > 0
  BY DEF PushesOfReq
<1>1. CASE UNCHANGED apiVars
  BY <1>1 DEF apiVars, PushesOfReq
<1>2. ASSUME NEW e \in Signals, Ingest(e) \/ Enqueue(e) \/ Push(e) \/ PushTimeout(e)
      PROVE  /\ req'[s] \notin {"repushing", "accepted"} => pushed'[s] = 0
             /\ req'[s] = "repushing" => pushed'[s] > 0
  <2>1. pushed[s] \in Nat /\ req \in [Signals -> ReqStates] /\ pushed \in [Signals -> Nat]
    BY DEF TypeOK
  <2>2. CASE s # e
    BY <1>2, <2>1, <2>2 DEF PushesOfReq, Ingest, Enqueue, Push, PushTimeout, LPush
  <2>3. CASE s = e
    BY <1>2, <2>1, <2>3 DEF PushesOfReq, Ingest, Enqueue, Push, PushTimeout, LPush
  <2> QED
    BY <2>2, <2>3
<1> QED
  BY <1>1, <1>2 DEF Next, Request, Process, Start, RecoverCheck, RecoverMove, Stopped, Stop,
     Crash, Work, Dequeue, Buffer, BatchTimeout, BackoffOver, Record, Resolve, Ack, FlushDone,
     IdlePoll, DequeueError, RecordFails, ResolveFails, AckFails, vars

\* The requests are finitely many.
LEMMA RequestsFinite ==
    /\ IsFiniteSet(InFlight) /\ Cardinality(InFlight) \in Nat
    /\ IsFiniteSet(Repeated) /\ Cardinality(Repeated) \in Nat
    /\ IsFiniteSet(InFlight') /\ Cardinality(InFlight') \in Nat
    /\ IsFiniteSet(Repeated') /\ Cardinality(Repeated') \in Nat
<1>1. InFlight \subseteq Signals /\ Repeated \subseteq Signals
      /\ InFlight' \subseteq Signals /\ Repeated' \subseteq Signals
  BY DEF InFlight, Repeated
<1>2. IsFiniteSet(Signals)
  BY PipelineAssumption
<1> QED
  BY <1>1, <1>2, FS_Subset, FS_CardinalityType

\* A request that is admitted has found room; a push takes its request out of
\* flight, or is repeated.
LEMMA RequestBound ==
    ASSUME TypeOK, PushesOfReq, AdmissionBound, NEW e \in Signals,
           Request(e) \/ PushTimeout(e)
    PROVE  AdmissionBound'
<1> DEFINE I == Cardinality(InFlight)
           R == Cardinality(Repeated)
           J == Cardinality(InFlight')
           Q == Cardinality(Repeated')
<1>1. /\ I \in Nat /\ R \in Nat /\ J \in Nat /\ Q \in Nat
      /\ Len(queue) \in Nat /\ moves \in Nat /\ ThrottleDepth \in Nat \ {0} /\ MaxConcurrent \in Nat
  BY RequestsFinite, LenProperties, PipelineAssumption DEF TypeOK
<1>2. Len(queue) + I <= ThrottleDepth - 1 + MaxConcurrent + moves + R
  BY DEF AdmissionBound, Repeated
<1>3. AdmissionBound' <=> Len(queue') + J <= ThrottleDepth - 1 + MaxConcurrent + moves' + Q
  BY DEF AdmissionBound, Repeated
<1>4. pushed \in [Signals -> Nat] /\ req \in [Signals -> ReqStates]
  BY DEF TypeOK
<1>5. CASE Ingest(e)
  <2>1. Repeated' = Repeated /\ queue' = queue /\ moves' = moves /\ I < MaxConcurrent
    BY <1>4, <1>5 DEF Ingest, Repeated, listVars
  <2>2. CASE Len(queue) >= ThrottleDepth
    <3>1. InFlight' = InFlight
      BY <1>4, <1>5, <2>2 DEF Ingest, InFlight
    <3> QED
      BY <1>1, <1>2, <1>3, <2>1, <3>1
  <2>3. CASE ~(Len(queue) >= ThrottleDepth)
    <3>1. InFlight' = InFlight \cup {e}
      BY <1>4, <1>5, <2>3 DEF Ingest, InFlight
    <3>2. J <= I + 1
      BY <1>1, <3>1, RequestsFinite, FS_AddElement
    <3> QED
      BY <1>1, <1>3, <2>1, <2>3, <3>2
  <2> QED
    BY <2>2, <2>3
<1>6. CASE Enqueue(e)
  <2>1. Repeated' = Repeated /\ queue' = queue /\ moves' = moves
    BY <1>4, <1>6 DEF Enqueue, Repeated, listVars
  <2>2. InFlight' \subseteq InFlight
    BY <1>4, <1>6 DEF Enqueue, InFlight
  <2>3. J <= I
    BY <2>2, RequestsFinite, FS_Subset
  <2> QED
    BY <1>1, <1>2, <1>3, <2>1, <2>3
<1>7. CASE Push(e) \/ PushTimeout(e)
  <2>1. Len(queue') = Len(queue) + 1 /\ moves' = moves
    BY <1>7, AppendProperties DEF Push, PushTimeout, LPush, TypeOK
  <2>2. CASE Push(e)
    <3>1. e \in InFlight /\ InFlight' = InFlight \ {e}
      BY <1>4, <2>2 DEF Push, InFlight
    <3>2. J = I - 1
      BY <3>1, RequestsFinite, FS_RemoveElement
    <3>3. Repeated \subseteq Repeated'
      <4>1. ASSUME NEW s \in Repeated
            PROVE  pushed'[s] > 1 \/ req'[s] = "repushing"
        <5>1. CASE s # e
          BY <1>4, <2>2, <4>1, <5>1 DEF Push, LPush, Repeated
        <5>2. CASE s = e
          <6>1. pushed[s] > 0 /\ pushed'[s] = pushed[s] + 1 /\ pushed[s] \in Nat
            BY <1>4, <4>1, <5>2, <2>2 DEF Repeated, PushesOfReq, Push, LPush
          <6> QED
            BY <6>1
        <5> QED
          BY <5>1, <5>2
      <4> QED
        BY <4>1 DEF Repeated
    <3>4. R <= Q
      BY <3>3, RequestsFinite, FS_Subset
    <3> QED
      BY <1>1, <1>2, <1>3, <2>1, <3>2, <3>4
  <2>3. CASE PushTimeout(e)
    <3>1. InFlight' = InFlight
      BY <1>4, <2>3 DEF PushTimeout, InFlight
    <3>2. pushed[e] = 0 /\ pushed'[e] = 1 /\ req[e] = "pushing" /\ req'[e] = "repushing"
      BY <1>4, <2>3 DEF PushTimeout, LPush, PushesOfReq
    <3>3. e \notin Repeated /\ Repeated' = Repeated \cup {e}
      BY <1>4, <2>3, <3>2 DEF PushTimeout, LPush, Repeated
    <3>4. Q = R + 1
      BY <3>3, RequestsFinite, FS_AddElement
    <3> QED
      BY <1>1, <1>2, <1>3, <2>1, <3>1, <3>4
  <2> QED
    BY <1>7, <2>2, <2>3
<1> QED
  BY <1>5, <1>6, <1>7 DEF Request

\* Other steps lengthen the queue only when recovery moves an envelope.
LEMMA WorkerBound ==
    ASSUME TypeOK, AdmissionBound, UNCHANGED apiVars,
           \/ UNCHANGED <<queue, moves>>
           \/ BRPopLPush /\ UNCHANGED moves
           \/ \E p \in Procs : RecoverMove(p)
    PROVE  AdmissionBound'
<1> DEFINE I == Cardinality(InFlight)
           R == Cardinality(Repeated)
<1>1. /\ I \in Nat /\ R \in Nat /\ Len(queue) \in Nat /\ moves \in Nat
      /\ ThrottleDepth \in Nat /\ MaxConcurrent \in Nat
  BY RequestsFinite, LenProperties, PipelineAssumption DEF TypeOK
<1>2. Len(queue) + I <= ThrottleDepth - 1 + MaxConcurrent + moves + R
  BY DEF AdmissionBound, Repeated
<1>3. InFlight' = InFlight /\ Repeated' = Repeated
  BY DEF apiVars, InFlight, Repeated
<1>4. AdmissionBound' <=> Len(queue') + I <= ThrottleDepth - 1 + MaxConcurrent + moves' + R
  BY <1>3 DEF AdmissionBound, Repeated
<1>5. \/ Len(queue') = Len(queue) /\ moves' = moves
      \/ Len(queue') = Len(queue) - 1 /\ moves' = moves
      \/ Len(queue') = Len(queue) + 1 /\ moves' = moves + 1
  BY HeadTailProperties, AppendProperties, EmptySeq
     DEF BRPopLPush, RecoverMove, listVars, TypeOK
<1> QED
  BY <1>1, <1>2, <1>4, <1>5

\* The queue is bounded although its depth is read and acted on in separate
\* awaits: by the threshold, what was in flight together, what recovery
\* brought back and what the Redis client pushed twice.
THEOREM QueueBounded == Spec => []AdmissionBound
<1>1. Init => PushesOfReq
  BY DEF Init, PushesOfReq
<1>2. Init => AdmissionBound
  <2> SUFFICES ASSUME Init PROVE AdmissionBound
    OBVIOUS
  <2>1. queue = <<>> /\ Len(<<>>) = 0 /\ moves = 0 /\ InFlight = {}
    BY DEF Init, InFlight
  <2>2. Cardinality(InFlight) = 0
    BY <2>1, FS_EmptySet
  <2>3. Cardinality(Repeated) \in Nat /\ ThrottleDepth \in Nat \ {0} /\ MaxConcurrent \in Nat \ {0}
    BY RequestsFinite, PipelineAssumption
  <2> QED
    BY <2>1, <2>2, <2>3 DEF AdmissionBound, Repeated
<1>3. TypeOK /\ PushesOfReq /\ AdmissionBound /\ [Next]_vars => AdmissionBound'
  <2> SUFFICES ASSUME TypeOK, PushesOfReq, AdmissionBound, [Next]_vars PROVE AdmissionBound'
    OBVIOUS
  <2>1. CASE UNCHANGED <<apiVars, queue, moves>>
    BY <2>1, WorkerBound
  <2>2. ASSUME NEW p \in Procs, Process(p) \/ Stop(p) \/ Crash(p)
        PROVE  AdmissionBound'
    <3>1. CASE RecoverMove(p)
      BY <3>1, WorkerBound DEF RecoverMove
    <3>2. CASE Start(p) \/ RecoverCheck(p) \/ Stopped(p) \/ Stop(p) \/ Crash(p)
      BY <2>1, <3>2 DEF Start, RecoverCheck, Stopped, Stop, Crash, listVars
    <3> QED
      BY <2>2, <3>1, <3>2 DEF Process
  <2>3. ASSUME NEW t \in Tasks,
               \/ Work(t) \/ IdlePoll(t) \/ DequeueError(t)
               \/ RecordFails(t) \/ ResolveFails(t) \/ AckFails(t)
        PROVE  AdmissionBound'
    <3>1. CASE Dequeue(t) \/ DequeueError(t)
      BY <3>1, WorkerBound DEF Dequeue, DequeueError, listVars
    <3>2. CASE \/ Buffer(t) \/ BatchTimeout(t) \/ BackoffOver(t) \/ Record(t) \/ Ack(t)
               \/ Resolve(t) \/ FlushDone(t) \/ IdlePoll(t)
               \/ RecordFails(t) \/ ResolveFails(t) \/ AckFails(t)
      BY <2>1, <3>2 DEF Buffer, BatchTimeout, BackoffOver, Record, Ack, Resolve, FlushDone,
         IdlePoll, RecordFails, ResolveFails, AckFails, vars, listVars
    <3> QED
      BY <2>3, <3>1, <3>2 DEF Work
  <2>4. CASE UNCHANGED vars
    BY <2>1, <2>4 DEF vars, listVars
  <2> QED
    BY <2>2, <2>3, <2>4, RequestBound DEF Next
<1> QED
  BY <1>1, <1>2, <1>3, NextPushesOfReq, TypeCorrect, PTL DEF Spec

-----------------------------------------------------------------------------
(* The pipeline implements Delivery.                                       *)

\* Redis holds an envelope as long as it holds a copy of it.
LEMMA HeldCopies ==
    ASSUME NEW s \in Signals, NEW q \in Seq(Signals), NEW n \in Nat
    PROVE  s \in ToSet(q) \/ n > 0 <=> Occurrences(q, s) + n > 0
<1> DEFINE A == {i \in DOMAIN q : q[i] = s}
<1>1. Occurrences(q, s) \in Nat
  BY OccurrencesType
<1>2. s \in ToSet(q) <=> A # {}
  BY DEF ToSet
<1>3. IsFiniteSet(A)
  <2>1. IsFiniteSet(DOMAIN q)
    BY FS_Interval, LenProperties
  <2> QED
    BY <2>1, FS_Subset
<1>4. A # {} <=> Occurrences(q, s) # 0
  BY <1>3, FS_EmptySet DEF Occurrences
<1> QED
  BY <1>1, <1>2, <1>4

\* What a worker has at hand was pushed, and what was counted is stored.
KnownInv ==
    /\ \A t \in Tasks :
         /\ popped[t] \in Signals => pushed[popped[t]] > 0
         /\ \A i \in 1..Len(buffer[t]) : pushed[buffer[t][i]] > 0
    /\ \A s \in Signals : counted[s] > 0 => s \in mongo

DeliveryInv == PipelineInv /\ NoMultiplication /\ PushesOfReq /\ KnownInv

\* What is in a list was pushed.
LEMMA HeldPushed ==
    ASSUME TypeOK, NoMultiplication, NEW s \in Signals, Held(s)
    PROVE  pushed[s] > 0
<1>1. Occurrences(queue, s) + processing[s] > 0
  BY HeldCopies DEF Held, TypeOK
<1>2. Occurrences(queue, s) \in Nat /\ processing[s] \in Nat /\ pushed[s] \in Nat
      /\ Occurrences(queue, s) + processing[s] <= pushed[s]
  BY CopiesType DEF NoMultiplication, TypeOK
<1> QED
  BY <1>1, <1>2

\* A push is not taken back.
LEMMA PushedGrows ==
    ASSUME TypeOK, FlushDiscipline, [Next]_vars, NEW s \in Signals, pushed[s] > 0
    PROVE  pushed'[s] > 0
<1>1. pushed[s] \in Nat
  BY DEF TypeOK
<1>2. pushed'[s] = pushed[s] \/ pushed'[s] = pushed[s] + 1
  BY StepCopies
<1> QED
  BY <1>1, <1>2

\* A task gets its envelopes from the queue, and its buffer from them.
LEMMA TaskGets ==
    ASSUME TypeOK, [Next]_vars, NEW u \in Tasks
    PROVE  /\ \/ popped'[u] = popped[u] \/ popped'[u] = NoSignal
              \/ queue # <<>> /\ popped'[u] = Head(queue)
           /\ \/ buffer'[u] = buffer[u] \/ buffer'[u] = <<>>
              \/ pc[u] = "popped" /\ buffer'[u] = Append(buffer[u], popped[u])
<1> DEFINE Goal ==
           /\ \/ popped'[u] = popped[u] \/ popped'[u] = NoSignal
              \/ queue # <<>> /\ popped'[u] = Head(queue)
           /\ \/ buffer'[u] = buffer[u] \/ buffer'[u] = <<>>
              \/ pc[u] = "popped" /\ buffer'[u] = Append(buffer[u], popped[u])
<1>1. /\ popped \in [Tasks -> Signals \cup {NoSignal}]
      /\ buffer \in [Tasks -> Seq(Signals)]
  BY DEF TypeOK
<1>2. CASE UNCHANGED <<popped, buffer>>
  BY <1>2
<1>3. ASSUME NEW p \in Procs, Process(p) \/ Stop(p) \/ Crash(p)
      PROVE  Goal
  <2>1. CASE Stop(p) \/ Crash(p)
    BY <2>1 DEF Stop, Crash
  <2>2. CASE Process(p)
    BY <1>2, <2>2 DEF Process, Start, RecoverCheck, RecoverMove, Stopped, taskVars
  <2> QED
    BY <1>3, <2>1, <2>2
<1>4. ASSUME NEW t \in Tasks,
             \/ Work(t) \/ IdlePoll(t) \/ DequeueError(t)
             \/ RecordFails(t) \/ ResolveFails(t) \/ AckFails(t)
      PROVE  Goal
  <2>1. CASE Dequeue(t)
    BY <1>1, <2>1 DEF Dequeue, BRPopLPush
  <2>2. CASE Buffer(t)
    BY <1>1, <2>2 DEF Buffer
  <2>3. CASE DequeueError(t)
    BY <1>1, <2>3 DEF DequeueError
  <2>4. CASE FlushDone(t) \/ RecordFails(t) \/ ResolveFails(t) \/ AckFails(t)
    BY <1>1, <2>4 DEF FlushDone, RecordFails, ResolveFails, AckFails, EndFlush
  <2>5. CASE BatchTimeout(t) \/ BackoffOver(t) \/ Record(t) \/ Resolve(t) \/ Ack(t) \/ IdlePoll(t)
    BY <1>2, <2>5 DEF BatchTimeout, BackoffOver, Record, Resolve, Ack, IdlePoll, vars, taskVars
  <2> QED
    BY <1>4, <2>1, <2>2, <2>3, <2>4, <2>5 DEF Work
<1> QED
  BY <1>2, <1>3, <1>4 DEF Next, Request, Ingest, Enqueue, Push, PushTimeout, vars, taskVars

\* What a step does to the stores: nothing, it stores signals of a batch, or
\* it counts the next signal of a batch, which is stored.
LEMMA StoreStep ==
    ASSUME TypeOK, FlushDiscipline, [Next]_vars
    PROVE  \/ UNCHANGED storeVars
           \/ /\ mongo \subseteq mongo' /\ UNCHANGED counted
              /\ UNCHANGED <<apiVars, listVars>>
           \/ \E t \in Tasks :
                /\ pc[t] = "resolve" /\ CountSignal(buffer[t][done[t] + 1])
                /\ UNCHANGED <<mongo, apiVars, listVars>>
<1>1. ASSUME NEW t \in Tasks, Record(t) \/ RecordFails(t)
      PROVE  mongo \subseteq mongo' /\ UNCHANGED <<counted, apiVars, listVars>>
  BY <1>1 DEF Record, RecordFails
<1>2. ASSUME NEW t \in Tasks, Resolve(t) \/ ResolveFails(t)
      PROVE  \/ UNCHANGED storeVars
             \/ /\ pc[t] = "resolve" /\ CountSignal(buffer[t][done[t] + 1])
                /\ UNCHANGED <<mongo, apiVars, listVars>>
  BY <1>2 DEF Resolve, ResolveFails, storeVars
<1> QED
  BY <1>1, <1>2 DEF Next, Request, Process, Work, Ingest, Enqueue, Push, PushTimeout, Start,
     RecoverCheck, RecoverMove, Stopped, Stop, Crash, Dequeue, Buffer, BatchTimeout,
     BackoffOver, Ack, FlushDone, IdlePoll, DequeueError, AckFails, vars, storeVars

\* Every step keeps to what was pushed and stored.
LEMMA NextKnownInv ==
    PipelineInv /\ NoMultiplication /\ KnownInv /\ [Next]_vars => KnownInv'
<1> SUFFICES ASSUME PipelineInv, NoMultiplication, KnownInv, [Next]_vars
             PROVE  KnownInv'
  OBVIOUS
<1>1. TypeOK /\ FlushDiscipline
  BY DEF PipelineInv
<1>2. ASSUME NEW u \in Tasks, popped'[u] \in Signals
      PROVE  pushed'[popped'[u]] > 0
  <2>1. CASE popped'[u] = popped[u]
    BY <1>1, <1>2, <2>1, PushedGrows DEF KnownInv
  <2>2. CASE queue # <<>> /\ popped'[u] = Head(queue)
    <3>1. Head(queue) \in Signals /\ Held(Head(queue))
      BY <1>1, <2>2, ToSetTail DEF TypeOK, Held
    <3> QED
      BY <1>1, <2>2, <3>1, HeldPushed, PushedGrows
  <2> QED
    BY <1>1, <1>2, <2>1, <2>2, TaskGets, PipelineAssumption
<1>3. ASSUME NEW u \in Tasks, NEW i \in 1..Len(buffer'[u])
      PROVE  pushed'[buffer'[u][i]] > 0
  <2>1. buffer[u] \in Seq(Signals) /\ Len(buffer[u]) \in Nat
        /\ \A j \in 1..Len(buffer[u]) : buffer[u][j] \in Signals /\ pushed[buffer[u][j]] > 0
    BY <1>1, BufferedSignals, LenProperties, ElementOfSeq DEF KnownInv
  <2>2. CASE buffer'[u] = buffer[u]
    BY <1>1, <1>3, <2>1, <2>2, PushedGrows
  <2>3. CASE buffer'[u] = <<>>
    BY <1>3, <2>3
  <2>4. CASE pc[u] = "popped" /\ buffer'[u] = Append(buffer[u], popped[u])
    <3>1. popped[u] \in Signals /\ pushed[popped[u]] > 0
      BY <1>1, <2>4 DEF TypeOK, FlushDiscipline, FlushOK, KnownInv
    <3>2. /\ Len(buffer'[u]) = Len(buffer[u]) + 1
          /\ \A j \in 1..Len(buffer[u]) : buffer'[u][j] = buffer[u][j]
          /\ buffer'[u][Len(buffer[u]) + 1] = popped[u]
      BY <2>1, <2>4, <3>1, AppendProperties
    <3>3. i \in 1..Len(buffer[u]) \/ i = Len(buffer[u]) + 1
      BY <1>3, <2>1, <3>2
    <3> QED
      BY <1>1, <2>1, <3>1, <3>2, <3>3, PushedGrows
  <2> QED
    BY <1>1, <2>2, <2>3, <2>4, TaskGets
<1>4. ASSUME NEW s \in Signals, counted'[s] > 0
      PROVE  s \in mongo'
  <2>1. CASE counted'[s] = counted[s]
    BY <1>1, <1>4, <2>1, HandledGrows DEF KnownInv
  <2>2. ASSUME NEW t \in Tasks, pc[t] = "resolve", CountSignal(buffer[t][done[t] + 1]),
               UNCHANGED mongo
        PROVE  s \in mongo'
    <3>1. buffer[t][done[t] + 1] \in Signals /\ buffer[t][done[t] + 1] \in mongo
      BY <1>1, <2>2, NextToResolve DEF FlushDiscipline, FlushOK
    <3>2. CASE s = buffer[t][done[t] + 1]
      BY <2>2, <3>1, <3>2
    <3>3. CASE s # buffer[t][done[t] + 1]
      BY <1>1, <2>1, <2>2, <3>1, <3>3 DEF CountSignal, TypeOK
    <3> QED
      BY <3>2, <3>3
  <2> QED
    BY <1>1, <2>1, <2>2, StoreStep DEF storeVars
<1> QED
  BY <1>2, <1>3, <1>4 DEF KnownInv

\* The invariant under which every step is one of Delivery.
LEMMA DeliveryInvariant == Spec => []DeliveryInv
<1>1. Init => PushesOfReq /\ KnownInv
  BY PipelineAssumption DEF Init, PushesOfReq, KnownInv
<1>2. PipelineInv /\ PushesOfReq /\ [Next]_vars => PushesOfReq'
  BY NextPushesOfReq DEF PipelineInv
<1> QED
  BY <1>1, <1>2, NextKnownInv, PipelineInvariant, NeverMultiplied, PTL DEF Spec, DeliveryInv

Processed == {s \in Signals : Handled(s)}

\* The mapping sees of a step what it does to these.
LEMMA MappedStep ==
    [Next]_vars /\ DeliveryInv => [D!Next]_(D!dvars)
<1> SUFFICES ASSUME [Next]_vars, DeliveryInv PROVE [D!Next]_(D!dvars)
  OBVIOUS
<1> USE DEF D!dvars
<1>1. /\ TypeOK /\ TypeOK' /\ FlushDiscipline /\ PushesOfReq /\ KnownInv /\ NoMultiplication
      /\ PushesOfReq'
  BY NextPipelineInv, NextPushesOfReq DEF DeliveryInv, PipelineInv
<1>2. CASE UNCHANGED <<Accepted, Settled, Processed>>
  BY <1>2 DEF Processed
<1>3. \A s \in Signals : /\ Held(s) <=> Copies(s) > 0
                         /\ Held(s)' <=> Occurrences(queue', s) + processing'[s] > 0
                         /\ Copies(s) \in Nat /\ pushed[s] \in Nat
                         /\ Occurrences(queue', s) + processing'[s] \in Nat
  <2> TAKE s \in Signals
  <2>1. /\ queue \in Seq(Signals) /\ queue' \in Seq(Signals)
        /\ processing[s] \in Nat /\ processing'[s] \in Nat /\ pushed[s] \in Nat
    BY <1>1 DEF TypeOK
  <2>2. Occurrences(queue, s) \in Nat /\ Occurrences(queue', s) \in Nat
    BY <2>1, OccurrencesType
  <2>3. Held(s) <=> Copies(s) > 0
    BY <2>1, HeldCopies DEF Held, Copies
  <2>4. Held(s)' <=> Occurrences(queue', s) + processing'[s] > 0
    BY <2>1, HeldCopies DEF Held
  <2> QED
    BY <2>1, <2>2, <2>3, <2>4 DEF Copies
<1>4. ASSUME UNCHANGED <<storeVars, pushed>>,
             \A s \in Signals : Held(s)' <=> Held(s),
             \A s \in Signals : req'[s] = "repushing" <=> req[s] = "repushing"
      PROVE  UNCHANGED <<Accepted, Settled, Processed>>
  BY <1>4 DEF Accepted, Settled, Processed, Handled, storeVars
<1>5. ASSUME NEW e \in Signals, Request(e) \/ PushTimeout(e)
      PROVE  [D!Next]_(D!dvars)
  <2>1. CASE Ingest(e) \/ Enqueue(e)
    BY <1>1, <1>2, <1>4, <2>1 DEF Ingest, Enqueue, Held, listVars, TypeOK
  <2>2. CASE Push(e) \/ PushTimeout(e)
    <3>1. /\ LPush(e) /\ UNCHANGED <<processing, storeVars>>
          /\ \A s \in Signals : s # e => req'[s] = req[s]
      BY <1>1, <2>2 DEF Push, PushTimeout, TypeOK
    <3>2. /\ Held(e)' /\ pushed'[e] > 0
          /\ \A s \in Signals : s # e => pushed'[s] = pushed[s]
                                         /\ (Held(s)' <=> Held(s))
      BY <1>1, <1>3, <3>1, PushHolds, PushedCopies
    <3>3. Processed' = Processed
      BY <3>1 DEF Processed, Handled, storeVars
    <3>4. Settled' = Settled
      <4>1. e \notin Settled /\ e \notin Settled'
        <5>1. req[e] \in {"pushing", "repushing"}
          BY <2>2 DEF Push, PushTimeout
        <5>2. req[e] = "pushing" => pushed[e] = 0
          BY <1>1 DEF PushesOfReq
        <5> QED
          BY <3>2, <5>1, <5>2 DEF Settled, Accepted
      <4> QED
        BY <3>1, <3>2, <4>1 DEF Settled, Accepted
    <3>5. CASE e \in Accepted
      <4>1. Accepted' = Accepted
        BY <3>2, <3>5 DEF Accepted
      <4> QED
        BY <1>2, <3>3, <3>4, <4>1
    <3>6. CASE e \notin Accepted
      <4>1. Accepted' = Accepted \cup {e}
        BY <3>2, <3>6 DEF Accepted
      <4>2. D!Accept(e)
        BY <3>3, <3>4, <3>6, <4>1 DEF D!Accept, Processed
      <4> QED
        BY <4>2 DEF D!Next
    <3> QED
      BY <3>5, <3>6
  <2> QED
    BY <1>5, <2>1, <2>2 DEF Request
<1>6. ASSUME NEW t \in Tasks, Ack(t)
      PROVE  [D!Next]_(D!dvars)
  <2> DEFINE batch == Settled' \ Settled
  <2>1. UNCHANGED <<apiVars, storeVars>>
    BY <1>6 DEF Ack
  <2>2. Accepted' = Accepted /\ Processed' = Processed
    BY <2>1 DEF Accepted, Processed, Handled, apiVars, storeVars
  <2>3. \A s \in Signals : Held(s)' => Held(s)
    BY <1>1, <1>3, <1>6, AckedCopies
  <2>4. \A s \in Signals : Held(s) /\ ~Held(s)' => Handled(s)
    BY <1>1, <1>3, <1>6, AckedCopies
  <2>5. Settled \subseteq Settled'
    BY <2>1, <2>2, <2>3 DEF Settled, Accepted, apiVars
  <2>6. batch \subseteq (Accepted \cap Processed) /\ batch \in SUBSET Signals
    BY <2>1, <2>2, <2>4 DEF Settled, Accepted, Processed, apiVars
  <2>7. Settled' = Settled \cup batch
    BY <2>5
  <2>8. D!Settle(batch)
    BY <2>2, <2>6, <2>7 DEF D!Settle, Processed
  <2> QED
    BY <2>6, <2>8 DEF D!Next
<1>7. ASSUME UNCHANGED <<apiVars, listVars>>
      PROVE  [D!Next]_(D!dvars)
  <2>1. Accepted' = Accepted /\ Settled' = Settled
    BY <1>7 DEF Accepted, Settled, Held, apiVars, listVars
  <2>2. CASE UNCHANGED storeVars
    BY <1>2, <2>1, <2>2 DEF Processed, Handled, storeVars
  <2>3. CASE mongo \subseteq mongo' /\ UNCHANGED counted
    BY <1>1, <1>2, <2>1, <2>3 DEF Processed, Handled, KnownInv
  <2>4. ASSUME NEW t \in Tasks, pc[t] = "resolve", CountSignal(buffer[t][done[t] + 1]),
               UNCHANGED mongo
        PROVE  [D!Next]_(D!dvars)
    <3> DEFINE s == buffer[t][done[t] + 1]
    <3>1. s \in Signals /\ s \in mongo /\ done[t] + 1 \in 1..Len(buffer[t])
      BY <1>1, <2>4, NextToResolve DEF FlushDiscipline, FlushOK
    <3>2. s \in Accepted
      BY <1>1, <3>1 DEF KnownInv, Accepted
    <3>3. counted[s] \in Nat /\ counted'[s] = counted[s] + 1
          /\ \A x \in Signals : x # s => counted'[x] = counted[x]
      BY <1>1, <2>4, <3>1 DEF CountSignal, TypeOK
    <3>4. Processed' = Processed \cup {s}
      <4>1. counted'[s] > 0
        BY <3>3
      <4> QED
        BY <2>4, <3>1, <3>3, <4>1 DEF Processed, Handled
    <3>5. D!Process(s)
      BY <2>1, <3>2, <3>4 DEF D!Process, Processed
    <3> QED
      BY <3>1, <3>5 DEF D!Next
  <2> QED
    BY <1>1, <2>2, <2>3, <2>4, StoreStep
<1>8. ASSUME UNCHANGED <<apiVars, storeVars>>, BRPopLPush \/ \E p \in Procs : RecoverMove(p)
      PROVE  [D!Next]_(D!dvars)
  <2>1. \A s \in Signals : Held(s)' <=> Held(s)
    BY <1>1, <1>3, <1>8, MovedCopies
  <2> QED
    BY <1>2, <1>4, <1>8, <2>1 DEF apiVars
<1>9. ASSUME NEW p \in Procs, Process(p) \/ Stop(p) \/ Crash(p)
      PROVE  [D!Next]_(D!dvars)
  <2>1. CASE RecoverMove(p)
    BY <1>8, <2>1 DEF RecoverMove
  <2>2. CASE Start(p) \/ RecoverCheck(p) \/ Stopped(p) \/ Stop(p) \/ Crash(p)
    BY <1>7, <2>2 DEF Start, RecoverCheck, Stopped, Stop, Crash
  <2> QED
    BY <1>9, <2>1, <2>2 DEF Process
<1>10. ASSUME NEW t \in Tasks,
              \/ Work(t) \/ IdlePoll(t) \/ DequeueError(t)
              \/ RecordFails(t) \/ ResolveFails(t) \/ AckFails(t)
       PROVE  [D!Next]_(D!dvars)
  <2>1. CASE Dequeue(t) \/ DequeueError(t)
    BY <1>7, <1>8, <2>1 DEF Dequeue, DequeueError
  <2>2. CASE \/ Buffer(t) \/ BatchTimeout(t) \/ BackoffOver(t) \/ Record(t)
             \/ Resolve(t) \/ FlushDone(t) \/ IdlePoll(t)
             \/ RecordFails(t) \/ ResolveFails(t) \/ AckFails(t)
    BY <1>7, <2>2 DEF Buffer, BatchTimeout, BackoffOver, Record, Resolve, FlushDone, IdlePoll,
       RecordFails, ResolveFails, AckFails, vars
  <2> QED
    BY <1>6, <1>10, <2>1, <2>2 DEF Work
<1>11. CASE UNCHANGED vars
  BY <1>7, <1>11 DEF vars
<1> QED
  BY <1>5, <1>9, <1>10, <1>11 DEF Next

\* The queue, its recoveries and the worker processes, failures included,
\* implement at-least-once delivery: a signal is settled only after it was
\* processed, and only what was accepted is processed.
THEOREM DeliveryImplemented == Spec => ImplementsDelivery
<1>1. Init => D!Init
  BY DEF Init, D!Init, Accepted, Settled, Handled
<1> QED
  BY <1>1, MappedStep, DeliveryInvariant, PTL DEF Spec, ImplementsDelivery, D!Spec
=============================================================================
