--------------------------- MODULE SignalPipeline ---------------------------
(***************************************************************************)
(* The ingestion boundary: POST /signals, the Redis queue and processing   *)
(* lists, and the worker processes that drain them (routers/signals.py,    *)
(* services/queue.py, worker.py, and worker_loop / flush_batch of          *)
(* services/ingestion.py).                                                 *)
(*                                                                         *)
(* A step is what runs between two awaits.  A signal stands for one queued *)
(* envelope, identified by its event_id.  The queue keeps its order        *)
(* (LPUSH at the end of the sequence, BRPOPLPUSH from its head); of the    *)
(* processing list only the number of copies of each envelope matters,     *)
(* because LREM looks an envelope up by value and recovery moves them all. *)
(* What resolve_work_item does to PostgreSQL is abstracted to the number   *)
(* of times it took effect for a signal.                                   *)
(***************************************************************************)
EXTENDS Naturals, Sequences, FiniteSets, SequencesExt

CONSTANTS
    Signals,        \* the envelopes clients try to enqueue
    NoSignal,       \* no envelope: the None of dequeue_signal
    Procs,          \* worker processes (docker-compose --scale worker=N)
    Tasks,          \* worker_loop tasks of all processes
    ProcOf,         \* the process a task belongs to
    ThrottleDepth,  \* int(queue_max_size * adaptive_throttle_threshold)
    QueueMax,       \* queue_max_size
    MaxConcurrent,  \* requests the API serves at the same time
    BatchSize,      \* worker_batch_size
    FaultKinds,     \* which failures may happen
    MaxFaults,      \* bound: failures of a behaviour
    MaxMoves        \* bound: envelopes recovery moves in a behaviour

ReqStates == {"new", "admitted", "pushing", "repushing",
              "accepted", "throttled", "refused"}
TaskStates == {"off", "idle", "popped", "record", "resolve", "ack", "acked",
               "backoff"}
ProcStates == {"down", "recovering", "moving", "running", "stopping"}
Failures == {"db", "redis", "push", "crash", "stop"}

ASSUME PipelineAssumption ==
    /\ IsFiniteSet(Signals)
    /\ NoSignal \notin Signals
    /\ ProcOf \in [Tasks -> Procs]
    /\ ThrottleDepth \in Nat \ {0}
    /\ QueueMax \in Nat
    /\ MaxConcurrent \in Nat \ {0}
    /\ BatchSize \in Nat \ {0}
    /\ FaultKinds \subseteq Failures
    /\ MaxFaults \in Nat
    /\ MaxMoves \in Nat

VARIABLES
    queue,       \* Redis list redis_signal_queue
    processing,  \* Redis list redis_processing_queue: copies of each signal
    req,         \* where each POST /signals request stands
    pushed,      \* LPUSHes applied for each signal
    mongo,       \* queue_ids upserted in the signals collection
    counted,     \* times resolve_work_item took effect for each signal
    pstate,      \* worker processes
    pc,          \* worker_loop tasks: the await each is at
    popped,      \* the envelope dequeue_signal holds before it is buffered
    buffer,      \* BatchBuffer of each task
    done,        \* signals of the batch already resolved by this flush
    faults,      \* failures so far
    moves        \* envelopes moved by recovery so far

apiVars == <<req, pushed>>
listVars == <<queue, processing>>
storeVars == <<mongo, counted>>
taskVars == <<pc, popped, buffer, done>>
vars == <<listVars, apiVars, storeVars, pstate, taskVars, faults, moves>>

Init ==
    /\ queue = <<>>
    /\ processing = [s \in Signals |-> 0]
    /\ req = [s \in Signals |-> "new"]
    /\ pushed = [s \in Signals |-> 0]
    /\ mongo = {}
    /\ counted = [s \in Signals |-> 0]
    /\ pstate = [p \in Procs |-> "down"]
    /\ pc = [t \in Tasks |-> "off"]
    /\ popped = [t \in Tasks |-> NoSignal]
    /\ buffer = [t \in Tasks |-> <<>>]
    /\ done = [t \in Tasks |-> 0]
    /\ faults = 0
    /\ moves = 0

\* A failure of the given kind happens, if the instance still allows one.
Fault(kind) ==
    /\ kind \in FaultKinds
    /\ faults < MaxFaults
    /\ faults' = faults + 1

NoFault == UNCHANGED faults

Occurrences(seq, s) == Cardinality({i \in DOMAIN seq : seq[i] = s})

TasksOf(p) == {t \in Tasks : ProcOf[t] = p}

-----------------------------------------------------------------------------
(***************************************************************************)
(* POST /signals: two reads of the queue depth and a push, one await each. *)
(***************************************************************************)
InFlight == {s \in Signals : req[s] \in {"admitted", "pushing", "repushing"}}

\* Mutant of Ingest: throttles only above the threshold.
IngestAboveThreshold(s) ==
    /\ req[s] = "new"
    /\ Cardinality(InFlight) < MaxConcurrent
    /\ req' = [req EXCEPT ![s] = IF Len(queue) > ThrottleDepth
                                   THEN "throttled" ELSE "admitted"]
    /\ UNCHANGED <<listVars, pushed, storeVars, pstate, taskVars, faults, moves>>

\* ingest_signal reads the depth and throttles.
Ingest(s) ==
    /\ req[s] = "new"
    /\ Cardinality(InFlight) < MaxConcurrent
    /\ req' = [req EXCEPT ![s] = IF Len(queue) >= ThrottleDepth
                                   THEN "throttled" ELSE "admitted"]
    /\ UNCHANGED <<listVars, pushed, storeVars, pstate, taskVars, faults, moves>>

\* enqueue_signal reads it again and refuses.
Enqueue(s) ==
    /\ req[s] = "admitted"
    /\ req' = [req EXCEPT ![s] = IF Len(queue) >= QueueMax
                                   THEN "refused" ELSE "pushing"]
    /\ UNCHANGED <<listVars, pushed, storeVars, pstate, taskVars, faults, moves>>

LPush(s) ==
    /\ queue' = Append(queue, s)
    /\ pushed' = [pushed EXCEPT ![s] = @ + 1]

Push(s) ==
    /\ req[s] \in {"pushing", "repushing"}
    /\ LPush(s)
    /\ req' = [req EXCEPT ![s] = "accepted"]
    /\ UNCHANGED <<processing, storeVars, pstate, taskVars, faults, moves>>

\* The LPUSH is applied but its reply times out: the client, built with
\* retry_on_timeout, sends the same command once more.
PushTimeout(s) ==
    /\ Fault("push")
    /\ req[s] = "pushing"
    /\ LPush(s)
    /\ req' = [req EXCEPT ![s] = "repushing"]
    /\ UNCHANGED <<processing, storeVars, pstate, taskVars, moves>>

-----------------------------------------------------------------------------
(***************************************************************************)
(* A worker process: recovery at startup, its tasks, shutdown, crash.      *)
(***************************************************************************)
Start(p) ==
    /\ pstate[p] = "down"
    /\ pstate' = [pstate EXCEPT ![p] = "recovering"]
    /\ UNCHANGED <<listVars, apiVars, storeVars, taskVars, faults, moves>>

ProcessingEmpty == \A s \in Signals : processing[s] = 0

\* Mutant of RecoverCheck: the tasks start without recovery.
RecoverCheckSkipped(p) ==
    /\ pstate[p] = "recovering"
    /\ pstate' = [pstate EXCEPT ![p] = "running"]
    /\ pc' = [t \in Tasks |-> IF t \in TasksOf(p) THEN "idle" ELSE pc[t]]
    /\ UNCHANGED <<listVars, apiVars, storeVars, popped, buffer, done, faults, moves>>

\* The loop head of recover_processing_queue: LLEN of the processing list.
\* When it is empty main() creates the worker tasks.
RecoverCheck(p) ==
    /\ pstate[p] = "recovering"
    /\ IF ProcessingEmpty
         THEN /\ pstate' = [pstate EXCEPT ![p] = "running"]
              /\ pc' = [t \in Tasks |-> IF t \in TasksOf(p) THEN "idle" ELSE pc[t]]
         ELSE /\ pstate' = [pstate EXCEPT ![p] = "moving"]
              /\ UNCHANGED pc
    /\ UNCHANGED <<listVars, apiVars, storeVars, popped, buffer, done, faults, moves>>

\* Mutant of RecoverMove: reads the stranded envelopes and pushes them back,
\* leaving them in the processing list (LINDEX and LPUSH for RPOPLPUSH).
RecoverCopy(p) ==
    /\ pstate[p] = "moving"
    /\ pstate' = [pstate EXCEPT ![p] = "recovering"]
    /\ \E s \in Signals :
         /\ processing[s] > 0
         /\ moves < MaxMoves
         /\ moves' = moves + 1
         /\ queue' = Append(queue, s)
    /\ UNCHANGED <<processing, apiVars, storeVars, taskVars, faults>>

\* Its body: RPOPLPUSH, which does nothing if another process emptied the list.
RecoverMove(p) ==
    /\ pstate[p] = "moving"
    /\ pstate' = [pstate EXCEPT ![p] = "recovering"]
    /\ \/ /\ ProcessingEmpty
          /\ UNCHANGED <<listVars, moves>>
       \/ \E s \in Signals :
            /\ processing[s] > 0
            /\ moves < MaxMoves
            /\ moves' = moves + 1
            /\ processing' = [processing EXCEPT ![s] = @ - 1]
            /\ queue' = Append(queue, s)
    /\ UNCHANGED <<apiVars, storeVars, taskVars, faults>>

\* SIGTERM: every task is cancelled at the await it is at.  A cancelled task
\* flushes a non-empty buffer once more, from the first step of flush_batch,
\* and ends; one that sleeps after an error, or whose buffer is empty, just
\* ends.  An envelope popped but not yet buffered is dropped by the task.
Stop(p) ==
    /\ Fault("stop")
    /\ pstate[p] = "running"
    /\ pstate' = [pstate EXCEPT ![p] = "stopping"]
    /\ LET Reflushes(t) == buffer[t] # <<>> /\ pc[t] # "backoff"
       IN  /\ pc' = [t \in Tasks |-> IF t \notin TasksOf(p) THEN pc[t]
                                     ELSE IF Reflushes(t) THEN "record" ELSE "off"]
           /\ buffer' = [t \in Tasks |-> IF t \notin TasksOf(p) \/ Reflushes(t)
                                           THEN buffer[t] ELSE <<>>]
    /\ popped' = [t \in Tasks |-> IF t \in TasksOf(p) THEN NoSignal ELSE popped[t]]
    /\ done' = [t \in Tasks |-> IF t \in TasksOf(p) THEN 0 ELSE done[t]]
    /\ UNCHANGED <<listVars, apiVars, storeVars, moves>>

Stopped(p) ==
    /\ pstate[p] = "stopping"
    /\ \A t \in TasksOf(p) : pc[t] = "off"
    /\ pstate' = [pstate EXCEPT ![p] = "down"]
    /\ UNCHANGED <<listVars, apiVars, storeVars, taskVars, faults, moves>>

Crash(p) ==
    /\ Fault("crash")
    /\ pstate[p] # "down"
    /\ pstate' = [pstate EXCEPT ![p] = "down"]
    /\ pc' = [t \in Tasks |-> IF t \in TasksOf(p) THEN "off" ELSE pc[t]]
    /\ popped' = [t \in Tasks |-> IF t \in TasksOf(p) THEN NoSignal ELSE popped[t]]
    /\ buffer' = [t \in Tasks |-> IF t \in TasksOf(p) THEN <<>> ELSE buffer[t]]
    /\ done' = [t \in Tasks |-> IF t \in TasksOf(p) THEN 0 ELSE done[t]]
    /\ UNCHANGED <<listVars, apiVars, storeVars, moves>>

-----------------------------------------------------------------------------
(***************************************************************************)
(* worker_loop: collecting a batch.                                        *)
(***************************************************************************)
Goto(t, from, to) ==
    /\ pc[t] = from
    /\ pc' = [pc EXCEPT ![t] = to]

\* Mutant of BRPopLPush: a plain BRPOP.
BRPop ==
    /\ queue # <<>>
    /\ queue' = Tail(queue)
    /\ UNCHANGED processing

\* Redis moves the oldest envelope to the processing list.
BRPopLPush ==
    /\ queue # <<>>
    /\ queue' = Tail(queue)
    /\ processing' = [processing EXCEPT ![Head(queue)] = @ + 1]

\* dequeue_signal has its envelope and awaits queue_depth().
Dequeue(t) ==
    /\ Goto(t, "idle", "popped")
    /\ BRPopLPush
    /\ popped' = [popped EXCEPT ![t] = Head(queue)]
    /\ UNCHANGED <<apiVars, storeVars, pstate, buffer, done, faults, moves>>

\* The envelope is buffered and the batch flushed when it is full or old
\* enough; nothing is awaited in between.
Buffer(t) ==
    /\ pc[t] = "popped"
    /\ buffer' = [buffer EXCEPT ![t] = Append(@, popped[t])]
    /\ popped' = [popped EXCEPT ![t] = NoSignal]
    /\ \/ pc' = [pc EXCEPT ![t] = "record"]
       \/ /\ Len(buffer[t]) + 1 < BatchSize
          /\ pc' = [pc EXCEPT ![t] = "idle"]
    /\ UNCHANGED <<listVars, apiVars, storeVars, pstate, done, faults, moves>>

\* The pop timed out on an empty queue and the batch is old enough.
BatchTimeout(t) ==
    /\ Goto(t, "idle", "record")
    /\ queue = <<>>
    /\ buffer[t] # <<>>
    /\ UNCHANGED <<listVars, apiVars, storeVars, pstate, popped, buffer, done,
                   faults, moves>>

\* The pop timed out and there is nothing to flush.
IdlePoll(t) ==
    /\ pc[t] = "idle"
    /\ queue = <<>>
    /\ UNCHANGED vars

\* dequeue_signal raises: at the pop, whose reply may be lost after it took
\* effect, or at the depth read or the parse that follow it.  The loop sleeps
\* and keeps its buffer; an envelope popped in vain stays in processing.
DequeueError(t) ==
    /\ Fault("redis")
    /\ pc[t] \in {"idle", "popped"}
    /\ pc' = [pc EXCEPT ![t] = "backoff"]
    /\ popped' = [popped EXCEPT ![t] = NoSignal]
    /\ \/ UNCHANGED listVars
       \/ pc[t] = "idle" /\ BRPopLPush
    /\ UNCHANGED <<apiVars, storeVars, pstate, buffer, done, moves>>

BackoffOver(t) ==
    /\ Goto(t, "backoff", "idle")
    /\ UNCHANGED <<listVars, apiVars, storeVars, pstate, popped, buffer, done,
                   faults, moves>>

-----------------------------------------------------------------------------
(***************************************************************************)
(* flush_batch.                                                            *)
(***************************************************************************)
\* Mutant of EndFlush: the buffer survives into the next flush.
EndFlushKeepsBuffer(t) ==
    /\ pc' = [pc EXCEPT ![t] = IF pstate[ProcOf[t]] = "stopping"
                                 THEN "off" ELSE "idle"]
    /\ done' = [done EXCEPT ![t] = 0]
    /\ UNCHANGED <<popped, buffer>>

\* After a flush worker_loop clears the buffer and goes on; a task flushing
\* because it was cancelled ends.
EndFlush(t) ==
    /\ pc' = [pc EXCEPT ![t] = IF pstate[ProcOf[t]] = "stopping"
                                 THEN "off" ELSE "idle"]
    /\ buffer' = [buffer EXCEPT ![t] = <<>>]
    /\ done' = [done EXCEPT ![t] = 0]
    /\ UNCHANGED popped

\* Mutant of Record: the batch is acknowledged once it is stored.
RecordThenAck(t) ==
    /\ Goto(t, "record", "ack")
    /\ mongo' = mongo \cup ToSet(buffer[t])
    /\ UNCHANGED <<listVars, apiVars, counted, pstate, popped, buffer, done,
                   faults, moves>>

\* Mutant of Record: a batch that is stored already, since it was delivered
\* before, is dropped as done.
RecordSkipsKnown(t) ==
    /\ pc[t] = "record"
    /\ IF ToSet(buffer[t]) \subseteq mongo
         THEN EndFlush(t) /\ UNCHANGED mongo
         ELSE /\ pc' = [pc EXCEPT ![t] = "resolve"]
              /\ mongo' = mongo \cup ToSet(buffer[t])
              /\ UNCHANGED <<popped, buffer, done>>
    /\ UNCHANGED <<listVars, apiVars, counted, pstate, faults, moves>>

\* record_signals_bulk: an upsert on queue_id for every signal of the batch.
Record(t) ==
    /\ Goto(t, "record", "resolve")
    /\ mongo' = mongo \cup ToSet(buffer[t])
    /\ UNCHANGED <<listVars, apiVars, counted, pstate, popped, buffer, done,
                   faults, moves>>

CountSignal(s) == counted' = [counted EXCEPT ![s] = @ + 1]

\* resolve_work_item for the next signal of the batch.
Resolve(t) ==
    /\ pc[t] = "resolve"
    /\ CountSignal(buffer[t][done[t] + 1])
    /\ done' = [done EXCEPT ![t] = @ + 1]
    /\ pc' = [pc EXCEPT ![t] = IF done[t] + 1 = Len(buffer[t])
                                 THEN "ack" ELSE "resolve"]
    /\ UNCHANGED <<listVars, apiVars, mongo, pstate, popped, buffer, faults, moves>>

\* Mutant of Ack: counts down instead of looking for a copy.
AckUnchecked(t) ==
    /\ Goto(t, "ack", "acked")
    /\ processing' = [s \in Signals |->
                        processing[s] - Occurrences(buffer[t], s)]
    /\ UNCHANGED <<queue, apiVars, storeVars, pstate, popped, buffer, done,
                   faults, moves>>

\* ack_signals_bulk: one transaction with an LREM of one copy per envelope.
Ack(t) ==
    /\ Goto(t, "ack", "acked")
    /\ processing' = [s \in Signals |->
                        IF processing[s] > Occurrences(buffer[t], s)
                          THEN processing[s] - Occurrences(buffer[t], s) ELSE 0]
    /\ UNCHANGED <<queue, apiVars, storeVars, pstate, popped, buffer, done,
                   faults, moves>>

\* The reply to the transaction arrives.
FlushDone(t) ==
    /\ pc[t] = "acked"
    /\ EndFlush(t)
    /\ UNCHANGED <<listVars, apiVars, storeVars, pstate, faults, moves>>

\* flush_batch swallows every error and worker_loop clears the buffer all the
\* same.  The unordered bulk write may have stored some of the batch, a
\* failing resolve_work_item may have counted its signal, and the
\* transaction may have been applied although its reply is lost.
RecordFails(t) ==
    /\ Fault("db")
    /\ pc[t] = "record"
    /\ \E written \in SUBSET ToSet(buffer[t]) : mongo' = mongo \cup written
    /\ EndFlush(t)
    /\ UNCHANGED <<listVars, apiVars, counted, pstate, moves>>

\* Mutant of ResolveFails: the error is caught per signal and the rest of the
\* batch goes on to be acknowledged.
ResolveFailsAndSkips(t) ==
    /\ Fault("db")
    /\ pc[t] = "resolve"
    /\ done' = [done EXCEPT ![t] = @ + 1]
    /\ pc' = [pc EXCEPT ![t] = IF done[t] + 1 = Len(buffer[t])
                                 THEN "ack" ELSE "resolve"]
    /\ UNCHANGED <<listVars, apiVars, storeVars, pstate, popped, buffer, moves>>

ResolveFails(t) ==
    /\ Fault("db")
    /\ pc[t] = "resolve"
    /\ CountSignal(buffer[t][done[t] + 1]) \/ UNCHANGED counted
    /\ EndFlush(t)
    /\ UNCHANGED <<listVars, apiVars, mongo, pstate, moves>>

AckFails(t) ==
    /\ Fault("redis")
    /\ pc[t] \in {"ack", "acked"}
    /\ EndFlush(t)
    /\ UNCHANGED <<listVars, apiVars, storeVars, pstate, moves>>

-----------------------------------------------------------------------------
Request(s) == Ingest(s) \/ Enqueue(s) \/ Push(s)

Process(p) == Start(p) \/ RecoverCheck(p) \/ RecoverMove(p) \/ Stopped(p)

Work(t) ==
    \/ Dequeue(t) \/ Buffer(t) \/ BatchTimeout(t) \/ BackoffOver(t)
    \/ Record(t) \/ Resolve(t) \/ Ack(t) \/ FlushDone(t)

Next ==
    \/ \E s \in Signals : Request(s) \/ PushTimeout(s)
    \/ \E p \in Procs : Process(p) \/ Stop(p) \/ Crash(p)
    \/ \E t \in Tasks :
         \/ Work(t) \/ IdlePoll(t) \/ DequeueError(t)
         \/ RecordFails(t) \/ ResolveFails(t) \/ AckFails(t)

Spec == Init /\ [][Next]_vars

\* asyncio runs every ready task, the API and the worker are separate
\* processes, and docker-compose restarts a worker that has stopped
\* (restart: unless-stopped).
Fairness ==
    /\ \A s \in Signals : WF_vars(Request(s))
    /\ \A p \in Procs : WF_vars(Process(p))
    /\ \A t \in Tasks : WF_vars(Work(t))

FairSpec == Spec /\ Fairness

-----------------------------------------------------------------------------
(***************************************************************************)
(* Properties.                                                             *)
(***************************************************************************)
TypeOK ==
    /\ queue \in Seq(Signals)
    /\ processing \in [Signals -> Nat]
    /\ req \in [Signals -> ReqStates]
    /\ pushed \in [Signals -> Nat]
    /\ mongo \subseteq Signals
    /\ counted \in [Signals -> Nat]
    /\ pstate \in [Procs -> ProcStates]
    /\ pc \in [Tasks -> TaskStates]
    /\ popped \in [Tasks -> Signals \cup {NoSignal}]
    /\ buffer \in [Tasks -> Seq(Signals)]
    /\ done \in [Tasks -> Nat]
    /\ faults \in 0..MaxFaults
    /\ moves \in 0..MaxMoves

\* Redis still holds a copy of the envelope.
Held(s) == s \in ToSet(queue) \/ processing[s] > 0

Handled(s) == s \in mongo /\ counted[s] > 0

FlushOK(t) ==
    /\ pc[t] = "popped" => popped[t] # NoSignal
    /\ pc[t] \in {"record", "resolve", "ack", "acked"} => buffer[t] # <<>>
    /\ pc[t] \in {"off", "idle", "popped", "record", "backoff"} => done[t] = 0
    /\ pc[t] = "resolve" =>
         /\ done[t] < Len(buffer[t])
         /\ \A i \in 1..Len(buffer[t]) : buffer[t][i] \in mongo
         /\ \A i \in 1..done[t] : Handled(buffer[t][i])
    /\ pc[t] \in {"ack", "acked"} =>
         \A i \in 1..Len(buffer[t]) : Handled(buffer[t][i])

\* A flush runs through a non-empty batch in order and from its start,
\* whatever flush failed or was cancelled before it, and reaches the
\* acknowledgement only when every signal of the batch is stored and resolved.
FlushDiscipline == \A t \in Tasks : FlushOK(t)

\* At-least-once, safety half: whatever crashes, restarts, recoveries and
\* failed flushes happen, a signal the API answered 202 for is still in one
\* of the two lists or has been stored in MongoDB and resolved.
NoSignalLost ==
    \A s \in Signals : req[s] = "accepted" => Held(s) \/ Handled(s)

\* The inductive strengthening of NoSignalLost: it speaks of every envelope
\* that was pushed, its request still waiting for the reply or not.
NoPushLost ==
    \A s \in Signals :
        /\ req[s] \in {"repushing", "accepted"} => pushed[s] > 0
        /\ pushed[s] > 0 => Held(s) \/ Handled(s)

\* Only a process past its recovery has tasks at work.
OffWhileDown ==
    \A t \in Tasks : pstate[ProcOf[t]] \notin {"running", "stopping"} => pc[t] = "off"

PipelineInv == TypeOK /\ OffWhileDown /\ FlushDiscipline /\ NoPushLost

\* Moving envelopes between the lists (pops, recoveries by several
\* processes, bulk acks) never multiplies them: Redis holds at most as many
\* copies of an envelope as LPUSHes of it were applied.
NoMultiplication ==
    \A s \in Signals : Occurrences(queue, s) + processing[s] <= pushed[s]

\* The two reads of the depth bound the queue although neither is atomic
\* with the push: only requests in flight together, envelopes brought back
\* by recovery and retried pushes take it past the throttling threshold.
AdmissionBound ==
    Len(queue) + Cardinality(InFlight)
      <= ThrottleDepth - 1 + MaxConcurrent + moves
         + Cardinality({s \in Signals : pushed[s] > 1 \/ req[s] = "repushing"})

\* Each push of an envelope, and each return of one to the queue by recovery,
\* lets resolve_work_item take effect once, and at most once more for each
\* failure: a flush that is cancelled or fails is repeated.
OverCountingBounded ==
    \A s \in Signals : counted[s] <= (pushed[s] + moves) * (1 + faults)

\* The i-th envelope a task has at hand is one of s: a place of its batch, or
\* the one after it for an envelope popped and not yet buffered.
AtSlot(t, i, s) ==
    \/ i \in 1..Len(buffer[t]) /\ buffer[t][i] = s
    \/ i = Len(buffer[t]) + 1 /\ popped[t] = s

Slots == UNION {{t} \X (1..Len(buffer[t]) + 1) : t \in Tasks}

AtHand(s) == {x \in Slots : AtSlot(x[1], x[2], s)}

Unacked(s) == {x \in AtHand(s) : pc[x[1]] # "acked"}

\* The processing list does not leak: until something fails, each envelope in
\* it is at hand of a task that is yet to acknowledge it, although starting
\* processes take from the list what others are working on, which is then
\* delivered and acknowledged twice.
StrandedByFailure ==
    faults = 0 => \A s \in Signals : processing[s] <= Cardinality(Unacked(s))

\* An acknowledgement, the only step that makes Redis hold fewer copies of
\* an envelope, never removes one that is not yet stored and resolved.
AckOnlyHandled ==
    [][\A s \in Signals :
         Occurrences(queue, s)' + processing[s]' < Occurrences(queue, s) + processing[s]
           => Handled(s)]_vars

\* At-least-once, liveness half: an accepted signal is eventually stored and
\* resolved and its envelope acknowledged for good.
EventuallySettled ==
    \A s \in Signals :
        req[s] = "accepted" ~> [](Handled(s) /\ ~Held(s))

\* "will be recovered or retried" (services/ingestion.py:127): a batch whose
\* flush failed is processed later on, by processes that keep running.
RecoveredOrRetried ==
    \A s \in Signals : req[s] = "accepted" ~> Handled(s)

\* The pipeline implements at-least-once delivery.  A signal becomes the
\* boundary's responsibility when its envelope is first pushed.
Accepted == {s \in Signals : pushed[s] > 0}

Settled == {s \in Accepted : ~Held(s) /\ req[s] # "repushing"}

D == INSTANCE Delivery WITH
        accepted <- Accepted,
        processed <- {s \in Signals : Handled(s)},
        settled <- Settled

ImplementsDelivery == D!Spec
=============================================================================
