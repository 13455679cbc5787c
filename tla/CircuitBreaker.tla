--------------------------- MODULE CircuitBreaker ---------------------------
(***************************************************************************)
(* The distributed circuit breaker of services/circuit_breaker.py: one     *)
(* breaker, kept in four Redis keys, and the tasks that call a database    *)
(* through it.                                                             *)
(*                                                                         *)
(* Every Redis command of get_state, call, _on_success and _on_failure is  *)
(* a step, since any other caller's commands may run between two of them.  *)
(* Time advances in ticks that count down the keys' TTLs.  The counters    *)
(* are kept up to the value from which on the code no longer tells them    *)
(* apart.                                                                  *)
(***************************************************************************)
EXTENDS Naturals, FiniteSets

CONSTANTS
    Callers,       \* tasks that call the database through the breaker
    Threshold,     \* failure_threshold
    HalfOpenMax,   \* half_open_max_calls
    Recovery,      \* recovery_timeout, in ticks: TTL of OPEN
    Grace,         \* the 60 seconds was_open outlives OPEN, in ticks
    CallTicks,     \* bound: ticks that may pass during one call
    Interrupts     \* whether calls may be cancelled and Redis may fail

ASSUME BreakerAssumption ==
    /\ IsFiniteSet(Callers)
    /\ Threshold \in Nat \ {0}
    /\ HalfOpenMax \in Nat \ {0}
    /\ Recovery \in Nat \ {0}
    /\ Grace \in Nat
    /\ CallTicks \in Nat
    /\ Interrupts \in BOOLEAN

FailTTL == 2 * Recovery
WasOpenTTL == Recovery + Grace

States == {"none", "OPEN", "HALF_OPEN"}
Steps == {"idle", "getWas", "setHalf", "delWas", "resetProbes", "incrProbes",
          "calling", "delState", "delFails", "delProbes", "clearFails",
          "incrFails", "expireFails", "expireThenTrip", "trip", "markWas"}

VARIABLES
    state,      \* cb:<name>:state, "none" when the key is absent
    stateTTL,   \* ticks until it expires, 0 when it is absent or persistent
    wasOpen,    \* ticks until cb:<name>:was_open expires, 0 when absent
    fails,      \* cb:<name>:failures, 0 when absent
    failsTTL,   \* ticks until it expires, 0 when absent or persistent
    probes,     \* cb:<name>:half_open_calls, 0 when absent
    pc,         \* the await each caller is at
    seen,       \* the state get_state returned to each caller
    age,        \* ticks the current call of each caller has seen
    sinceTrip,  \* ticks since the breaker last tripped
    late,       \* callers whose call began before the last trip
    forgiven    \* probes the count of probes has forgotten: under way when it
                \* was last set to zero

keyVars == <<state, stateTTL, wasOpen, fails, failsTTL, probes>>
callerVars == <<pc, seen, age>>
historyVars == <<sinceTrip, late, forgiven>>
vars == <<keyVars, callerVars, historyVars>>

AtMost(n, limit) == IF n < limit THEN n ELSE limit

\* The callers whose call a HALF_OPEN circuit has let through.
Probing == {c \in Callers : pc[c] = "calling" /\ seen[c] = "HALF_OPEN"}

Init ==
    /\ state = "none" /\ stateTTL = 0
    /\ wasOpen = 0
    /\ fails = 0 /\ failsTTL = 0
    /\ probes = 0
    /\ pc = [c \in Callers |-> "idle"]
    /\ seen = [c \in Callers |-> "none"]
    /\ age = [c \in Callers |-> 0]
    /\ sinceTrip = Recovery
    /\ late = {}
    /\ forgiven = {}

Goto(c, from, to) ==
    /\ pc[c] = from
    /\ pc' = [pc EXCEPT ![c] = to]
    /\ age' = IF to = "idle" THEN [age EXCEPT ![c] = 0] ELSE age

\* get_state returns: the call goes on as a probe, as a call through a closed
\* circuit ("none"), or is refused.
Returns(c, from, result) ==
    /\ seen' = [seen EXCEPT ![c] = result]
    /\ Goto(c, from, CASE result = "OPEN" -> "idle"
                       [] result = "HALF_OPEN" -> "incrProbes"
                       [] result = "none" -> "calling")

-----------------------------------------------------------------------------
(* get_state                                                               *)

\* Mutant of GetState: was_open is read whatever the state.
GetStateUnchecked(c) ==
    /\ Goto(c, "idle", "getWas")
    /\ late' = late \ {c}
    /\ UNCHANGED <<keyVars, seen, sinceTrip, forgiven>>

GetState(c) ==
    /\ \/ state # "none" /\ Returns(c, "idle", state)
       \/ state = "none" /\ Goto(c, "idle", "getWas") /\ UNCHANGED seen
    /\ late' = late \ {c}
    /\ UNCHANGED <<keyVars, sinceTrip, forgiven>>

GetWasOpen(c) ==
    /\ \/ wasOpen > 0 /\ Goto(c, "getWas", "setHalf") /\ UNCHANGED seen
       \/ wasOpen = 0 /\ Returns(c, "getWas", "none")
    /\ UNCHANGED <<keyVars, historyVars>>

\* SET without a TTL.
SetHalfOpen(c) ==
    /\ Goto(c, "setHalf", "delWas")
    /\ state' = "HALF_OPEN"
    /\ stateTTL' = 0
    /\ UNCHANGED <<wasOpen, fails, failsTTL, probes, seen, historyVars>>

DelWasOpen(c) ==
    /\ Goto(c, "delWas", "resetProbes")
    /\ wasOpen' = 0
    /\ UNCHANGED <<state, stateTTL, fails, failsTTL, probes, seen, historyVars>>

ResetProbes(c) ==
    /\ Returns(c, "resetProbes", "HALF_OPEN")
    /\ probes' = 0
    /\ forgiven' = Probing
    /\ UNCHANGED <<state, stateTTL, wasOpen, fails, failsTTL, sinceTrip, late>>

-----------------------------------------------------------------------------
(* call                                                                    *)

\* Mutant of IncrProbes: the count is compared before it is raised.
IncrProbesRead(c) ==
    /\ Goto(c, "incrProbes", IF probes > HalfOpenMax THEN "idle" ELSE "calling")
    /\ probes' = AtMost(probes + 1, HalfOpenMax + 1)
    /\ forgiven' = forgiven \ {c}
    /\ UNCHANGED <<state, stateTTL, wasOpen, fails, failsTTL, seen, sinceTrip, late>>

IncrProbes(c) ==
    /\ probes' = AtMost(probes + 1, HalfOpenMax + 1)
    /\ Goto(c, "incrProbes", IF probes' > HalfOpenMax THEN "idle" ELSE "calling")
    /\ forgiven' = forgiven \ {c}
    /\ UNCHANGED <<state, stateTTL, wasOpen, fails, failsTTL, seen, sinceTrip, late>>

Succeed(c) ==
    /\ Goto(c, "calling", IF seen[c] = "HALF_OPEN" THEN "delState" ELSE "clearFails")
    /\ UNCHANGED <<keyVars, seen, historyVars>>

Fail(c) ==
    /\ Goto(c, "calling", "incrFails")
    /\ UNCHANGED <<keyVars, seen, historyVars>>

-----------------------------------------------------------------------------
(* _on_success                                                             *)

DelState(c) ==
    /\ Goto(c, "delState", "delFails")
    /\ state' = "none"
    /\ stateTTL' = 0
    /\ UNCHANGED <<wasOpen, fails, failsTTL, probes, seen, historyVars>>

ForgetFails ==
    /\ fails' = 0
    /\ failsTTL' = 0

DelFails(c) ==
    /\ Goto(c, "delFails", "delProbes")
    /\ ForgetFails
    /\ UNCHANGED <<state, stateTTL, wasOpen, probes, seen, historyVars>>

DelProbes(c) ==
    /\ Goto(c, "delProbes", "idle")
    /\ probes' = 0
    /\ forgiven' = Probing
    /\ UNCHANGED <<state, stateTTL, wasOpen, fails, failsTTL, seen, sinceTrip, late>>

ClearFails(c) ==
    /\ Goto(c, "clearFails", "idle")
    /\ ForgetFails
    /\ UNCHANGED <<state, stateTTL, wasOpen, probes, seen, historyVars>>

-----------------------------------------------------------------------------
(* _on_failure                                                             *)

\* INCR creates the key without a TTL and keeps the TTL it had otherwise.
\* Whether to trip is decided by the value it returns.
IncrFails(c) ==
    /\ fails' = AtMost(fails + 1, Threshold)
    /\ Goto(c, "incrFails", IF fails' >= Threshold THEN "expireThenTrip" ELSE "expireFails")
    /\ UNCHANGED <<state, stateTTL, wasOpen, failsTTL, probes, seen, historyVars>>

\* EXPIRE does nothing to a key deleted in the meantime.
ExpireFails(c) ==
    /\ Goto(c, "expireFails", "idle") \/ Goto(c, "expireThenTrip", "trip")
    /\ failsTTL' = IF fails > 0 THEN FailTTL ELSE 0
    /\ UNCHANGED <<state, stateTTL, wasOpen, fails, probes, seen, historyVars>>

\* Mutant of Trip: SET for SETEX.
TripForever(c) ==
    /\ Goto(c, "trip", "markWas")
    /\ state' = "OPEN"
    /\ stateTTL' = 0
    /\ sinceTrip' = 0
    /\ late' = {d \in Callers : pc[d] # "idle"}
    /\ UNCHANGED <<wasOpen, fails, failsTTL, probes, seen, forgiven>>

Trip(c) ==
    /\ Goto(c, "trip", "markWas")
    /\ state' = "OPEN"
    /\ stateTTL' = Recovery
    /\ sinceTrip' = 0
    /\ late' = {d \in Callers : pc[d] # "idle"}
    /\ UNCHANGED <<wasOpen, fails, failsTTL, probes, seen, forgiven>>

\* Mutant of MarkWasOpen: the grace is added to the TTL of the failures.
MarkWasOpenLonger(c) ==
    /\ Goto(c, "markWas", "idle")
    /\ wasOpen' = FailTTL + Grace
    /\ UNCHANGED <<state, stateTTL, fails, failsTTL, probes, seen, historyVars>>

MarkWasOpen(c) ==
    /\ Goto(c, "markWas", "idle")
    /\ wasOpen' = WasOpenTTL
    /\ UNCHANGED <<state, stateTTL, fails, failsTTL, probes, seen, historyVars>>

-----------------------------------------------------------------------------
(* The environment                                                         *)

\* The call is cancelled (wait_for times out, or the worker shuts down), or a
\* Redis command outside the try block or in the handler raises: the caller
\* stops where it is.  CancelledError is no Exception, so _on_failure does not
\* run.
Abort(c) ==
    /\ Interrupts
    /\ pc[c] # "idle"
    /\ Goto(c, pc[c], "idle")
    /\ UNCHANGED <<keyVars, seen, historyVars>>

\* A Redis command of _on_success raises: it runs inside the try block, so the
\* successful call is recorded as a failure.
SuccessNotRecorded(c) ==
    /\ Interrupts
    /\ pc[c] \in {"delState", "delFails", "delProbes", "clearFails"}
    /\ Goto(c, pc[c], "incrFails")
    /\ UNCHANGED <<keyVars, seen, historyVars>>

Tick ==
    /\ \A c \in Callers : pc[c] = "idle" \/ age[c] < CallTicks
    /\ age' = [c \in Callers |-> IF pc[c] = "idle" THEN 0 ELSE age[c] + 1]
    /\ stateTTL' = IF stateTTL > 0 THEN stateTTL - 1 ELSE 0
    /\ state' = IF stateTTL = 1 THEN "none" ELSE state
    /\ wasOpen' = IF wasOpen > 0 THEN wasOpen - 1 ELSE 0
    /\ failsTTL' = IF failsTTL > 0 THEN failsTTL - 1 ELSE 0
    /\ fails' = IF failsTTL = 1 THEN 0 ELSE fails
    /\ sinceTrip' = AtMost(sinceTrip + 1, Recovery)
    /\ UNCHANGED <<probes, pc, seen, late, forgiven>>

Step(c) ==
    \/ GetState(c) \/ GetWasOpen(c) \/ SetHalfOpen(c) \/ DelWasOpen(c)
    \/ ResetProbes(c) \/ IncrProbes(c) \/ Succeed(c) \/ Fail(c)
    \/ DelState(c) \/ DelFails(c) \/ DelProbes(c) \/ ClearFails(c)
    \/ IncrFails(c) \/ ExpireFails(c) \/ Trip(c) \/ MarkWasOpen(c)

Next ==
    \/ \E c \in Callers : Step(c) \/ Abort(c) \/ SuccessNotRecorded(c)
    \/ Tick

Spec == Init /\ [][Next]_vars

\* Time passes, and signals keep coming so that callers keep calling.
FairSpec == Spec /\ WF_vars(Tick) /\ \A c \in Callers : WF_vars(Step(c))

-----------------------------------------------------------------------------
(* Properties                                                              *)

TypeOK ==
    /\ state \in States
    /\ stateTTL \in 0..Recovery
    /\ wasOpen \in 0..WasOpenTTL
    /\ fails \in 0..Threshold
    /\ failsTTL \in 0..FailTTL
    /\ probes \in 0..HalfOpenMax + 1
    /\ pc \in [Callers -> Steps]
    /\ seen \in [Callers -> States]
    /\ age \in [Callers -> 0..CallTicks]
    /\ sinceTrip \in 0..Recovery
    /\ late \subseteq Callers
    /\ forgiven \subseteq Callers

\* Whatever commands interleave and wherever callers are cut off, an OPEN
\* circuit always carries a TTL that still runs, and nothing else does: no
\* path leaves it OPEN for good.
OpenExpires == state = "OPEN" <=> stateTTL > 0

\* The circuit does not stay OPEN for good: late failures may trip it again,
\* but calls stop being admitted and the TTL of the last trip runs out.
OpenEnds == []<>(state # "OPEN")

\* "Workers stop attempting PostgreSQL writes for 30 seconds"
\* (docs/BACKPRESSURE.md:104).  The cooldown can be cut short, but only by a
\* caller that had got past get_state, or half through it, before the trip.
CooldownCutByLate ==
    [][state = "OPEN" /\ state' # "OPEN" =>
         \/ sinceTrip' >= Recovery
         \/ \E c \in late : pc[c] \in {"setHalf", "delState"} /\ pc'[c] # pc[c]]_vars

\* "limit probe calls across all workers" (services/circuit_breaker.py:76): at
\* most half_open_max_calls probes are under way together, whoever cut off or
\* late they are, besides those that were when the count was set to zero: by a
\* probe that closed the circuit, or by a second caller that had read was_open.
ProbesBounded == Cardinality(Probing \ forgiven) <= HalfOpenMax

\* "Probing via HALF_OPEN ensures safe recovery" (services/circuit_breaker.py:6-7):
\* probing ends, in CLOSED or in OPEN.
ProbingEnds == state = "HALF_OPEN" ~> state # "HALF_OPEN"
=============================================================================
