------------------------ MODULE CircuitBreakerProofs ------------------------
(***************************************************************************)
(* Theorems about CircuitBreaker, for every number of callers, threshold   *)
(* and timeout, with cancellation and Redis errors at every await.         *)
(***************************************************************************)
EXTENDS CircuitBreaker, FiniteSetTheorems, TLAPS

\* Where a caller goes next is a step, and its age stays within the bound.
LEMMA GotoType ==
    ASSUME TypeOK, NEW c \in Callers, NEW from, NEW to \in Steps, Goto(c, from, to)
    PROVE  pc' \in [Callers -> Steps] /\ age' \in [Callers -> 0..CallTicks]
<1>1. 0 \in 0..CallTicks
  BY BreakerAssumption
<1> QED
  BY <1>1 DEF Goto, TypeOK

\* What get_state returns leaves its caller typed.
LEMMA ReturnsType ==
    ASSUME TypeOK, NEW c \in Callers, NEW from, NEW result \in States,
           Returns(c, from, result)
    PROVE  /\ pc' \in [Callers -> Steps]
           /\ age' \in [Callers -> 0..CallTicks]
           /\ seen' \in [Callers -> States]
<1> DEFINE to == CASE result = "OPEN" -> "idle"
                   [] result = "HALF_OPEN" -> "incrProbes"
                   [] result = "none" -> "calling"
<1>1. to \in Steps
  BY DEF States, Steps
<1>2. Goto(c, from, to)
  BY DEF Returns
<1>3. seen' \in [Callers -> States]
  BY DEF Returns, TypeOK
<1> QED
  BY <1>1, <1>2, <1>3, GotoType

\* A value cut at a limit is within it.
LEMMA AtMostType ==
    ASSUME NEW n \in Nat, NEW limit \in Nat
    PROVE  AtMost(n, limit) \in 0..limit
  BY DEF AtMost

\* The types hold at the start.
LEMMA InitTypeOK == Init => TypeOK
  BY BreakerAssumption DEF Init, TypeOK, States, Steps, WasOpenTTL, FailTTL

\* Every Redis command, tick and cut keeps the types.
LEMMA NextTypeOK == TypeOK /\ [Next]_vars => TypeOK'
<1> SUFFICES ASSUME TypeOK, [Next]_vars
             PROVE  TypeOK'
  OBVIOUS
<1> USE BreakerAssumption
<1>1. ASSUME NEW c \in Callers, GetState(c) PROVE TypeOK'
  <2>1. CASE state # "none" /\ Returns(c, "idle", state)
    BY <1>1, <2>1, ReturnsType DEF GetState, TypeOK, keyVars, historyVars, States
  <2>2. CASE Goto(c, "idle", "getWas") /\ UNCHANGED seen
    BY <1>1, <2>2, GotoType DEF GetState, TypeOK, keyVars, historyVars, Steps
  <2> QED
    BY <1>1, <2>1, <2>2 DEF GetState
<1>2. ASSUME NEW c \in Callers, GetWasOpen(c) PROVE TypeOK'
  <2>1. CASE Returns(c, "getWas", "none")
    BY <1>2, <2>1, ReturnsType DEF GetWasOpen, TypeOK, keyVars, historyVars, States
  <2>2. CASE Goto(c, "getWas", "setHalf") /\ UNCHANGED seen
    BY <1>2, <2>2, GotoType DEF GetWasOpen, TypeOK, keyVars, historyVars, Steps
  <2> QED
    BY <1>2, <2>1, <2>2 DEF GetWasOpen
<1>3. ASSUME NEW c \in Callers, SetHalfOpen(c) PROVE TypeOK'
  BY <1>3, GotoType DEF SetHalfOpen, TypeOK, keyVars, historyVars, Steps, States
<1>4. ASSUME NEW c \in Callers, DelWasOpen(c) PROVE TypeOK'
  <2>1. pc' \in [Callers -> Steps] /\ age' \in [Callers -> 0..CallTicks]
    <3> DEFINE to == "resetProbes"
    <3>1. to \in Steps /\ Goto(c, "delWas", to)
      BY <1>4 DEF DelWasOpen, Steps
    <3> QED
      BY <3>1, GotoType
  <2> QED
    BY <1>4, <2>1 DEF DelWasOpen, TypeOK, keyVars, historyVars, WasOpenTTL
<1>5. ASSUME NEW c \in Callers, ResetProbes(c) PROVE TypeOK'
  BY <1>5, ReturnsType DEF ResetProbes, TypeOK, keyVars, historyVars, States, Probing
<1>6. ASSUME NEW c \in Callers, IncrProbes(c) PROVE TypeOK'
  <2>1. pc' \in [Callers -> Steps] /\ age' \in [Callers -> 0..CallTicks]
    <3> DEFINE to == IF probes' > HalfOpenMax THEN "idle" ELSE "calling"
    <3>1. to \in Steps /\ Goto(c, "incrProbes", to)
      BY <1>6 DEF IncrProbes, Steps
    <3> QED
      BY <3>1, GotoType
  <2>2. probes' \in 0..HalfOpenMax + 1
    BY <1>6, AtMostType DEF IncrProbes, TypeOK
  <2> QED
    BY <1>6, <2>1, <2>2 DEF IncrProbes, TypeOK, keyVars, historyVars
<1>7. ASSUME NEW c \in Callers, Succeed(c) PROVE TypeOK'
  <2>1. pc' \in [Callers -> Steps] /\ age' \in [Callers -> 0..CallTicks]
    <3> DEFINE to == IF seen[c] = "HALF_OPEN" THEN "delState" ELSE "clearFails"
    <3>1. to \in Steps /\ Goto(c, "calling", to)
      BY <1>7 DEF Succeed, Steps
    <3> QED
      BY <3>1, GotoType
  <2> QED
    BY <1>7, <2>1 DEF Succeed, TypeOK, keyVars, historyVars
<1>8. ASSUME NEW c \in Callers, Fail(c) PROVE TypeOK'
  <2>1. pc' \in [Callers -> Steps] /\ age' \in [Callers -> 0..CallTicks]
    <3> DEFINE to == "incrFails"
    <3>1. to \in Steps /\ Goto(c, "calling", to)
      BY <1>8 DEF Fail, Steps
    <3> QED
      BY <3>1, GotoType
  <2> QED
    BY <1>8, <2>1 DEF Fail, TypeOK, keyVars, historyVars
<1>9. ASSUME NEW c \in Callers, DelState(c) PROVE TypeOK'
  BY <1>9, GotoType DEF DelState, TypeOK, keyVars, historyVars, Steps, States
<1>10. ASSUME NEW c \in Callers, DelFails(c) PROVE TypeOK'
  <2>1. pc' \in [Callers -> Steps] /\ age' \in [Callers -> 0..CallTicks]
    <3> DEFINE to == "delProbes"
    <3>1. to \in Steps /\ Goto(c, "delFails", to)
      BY <1>10 DEF DelFails, Steps
    <3> QED
      BY <3>1, GotoType
  <2> QED
    BY <1>10, <2>1 DEF DelFails, TypeOK, keyVars, historyVars, ForgetFails, FailTTL
<1>11. ASSUME NEW c \in Callers, DelProbes(c) PROVE TypeOK'
  BY <1>11, GotoType DEF DelProbes, TypeOK, keyVars, historyVars, Steps, Probing
<1>12. ASSUME NEW c \in Callers, ClearFails(c) PROVE TypeOK'
  <2>1. pc' \in [Callers -> Steps] /\ age' \in [Callers -> 0..CallTicks]
    <3> DEFINE to == "idle"
    <3>1. to \in Steps /\ Goto(c, "clearFails", to)
      BY <1>12 DEF ClearFails, Steps
    <3> QED
      BY <3>1, GotoType
  <2> QED
    BY <1>12, <2>1 DEF ClearFails, TypeOK, keyVars, historyVars, ForgetFails, FailTTL
<1>13. ASSUME NEW c \in Callers, IncrFails(c) PROVE TypeOK'
  <2>1. pc' \in [Callers -> Steps] /\ age' \in [Callers -> 0..CallTicks]
    <3> DEFINE to == IF fails' >= Threshold THEN "expireThenTrip" ELSE "expireFails"
    <3>1. to \in Steps /\ Goto(c, "incrFails", to)
      BY <1>13 DEF IncrFails, Steps
    <3> QED
      BY <3>1, GotoType
  <2>2. fails' \in 0..Threshold
    BY <1>13, AtMostType DEF IncrFails, TypeOK
  <2> QED
    BY <1>13, <2>1, <2>2 DEF IncrFails, TypeOK, keyVars, historyVars
<1>14. ASSUME NEW c \in Callers, ExpireFails(c) PROVE TypeOK'
  BY <1>14, GotoType DEF ExpireFails, TypeOK, keyVars, historyVars, Steps, FailTTL, ForgetFails
<1>15. ASSUME NEW c \in Callers, Trip(c) PROVE TypeOK'
  BY <1>15, GotoType DEF Trip, TypeOK, keyVars, historyVars, Steps, States
<1>16. ASSUME NEW c \in Callers, MarkWasOpen(c) PROVE TypeOK'
  BY <1>16, GotoType DEF MarkWasOpen, TypeOK, keyVars, historyVars, Steps, WasOpenTTL
<1>17. ASSUME NEW c \in Callers, Abort(c) \/ SuccessNotRecorded(c) PROVE TypeOK'
  BY <1>17, GotoType DEF Abort, SuccessNotRecorded, TypeOK, keyVars, historyVars, Steps
<1>18. CASE Tick
  <2>1. age' \in [Callers -> 0..CallTicks]
    BY <1>18 DEF Tick, TypeOK
  <2>2. stateTTL' \in 0..Recovery /\ state' \in States
    BY <1>18 DEF Tick, TypeOK, States
  <2>3. wasOpen' \in 0..WasOpenTTL
    BY <1>18 DEF Tick, TypeOK, WasOpenTTL
  <2>4. failsTTL' \in 0..FailTTL /\ fails' \in 0..Threshold
    BY <1>18 DEF Tick, TypeOK, FailTTL
  <2>5. sinceTrip' \in 0..Recovery
    BY <1>18, AtMostType DEF Tick, TypeOK
  <2> QED
    BY <1>18, <2>1, <2>2, <2>3, <2>4, <2>5 DEF Tick, TypeOK
<1>19. CASE UNCHANGED vars
  BY <1>19 DEF vars, keyVars, callerVars, historyVars, TypeOK
<1> QED
  BY <1>1, <1>2, <1>3, <1>4, <1>5, <1>6, <1>7, <1>8, <1>9, <1>10, <1>11, <1>12, <1>13, <1>14, <1>15, <1>16, <1>17, <1>18, <1>19 DEF Next, Step

\* The keys, their TTLs and the callers' positions keep their types.
THEOREM TypeCorrect == Spec => []TypeOK
  BY InitTypeOK, NextTypeOK, PTL DEF Spec

\* No write to the state key leaves OPEN without a TTL.
LEMMA NextOpenExpires == TypeOK /\ OpenExpires /\ [Next]_vars => OpenExpires'
<1> SUFFICES ASSUME TypeOK, OpenExpires, [Next]_vars
             PROVE  OpenExpires'
  OBVIOUS
<1>1. CASE UNCHANGED <<state, stateTTL>>
  BY <1>1 DEF OpenExpires
<1>2. ASSUME NEW c \in Callers, SetHalfOpen(c) \/ DelState(c)
      PROVE  OpenExpires'
  BY <1>2 DEF SetHalfOpen, DelState, OpenExpires
<1>3. ASSUME NEW c \in Callers, Trip(c)
      PROVE  OpenExpires'
  BY <1>3, BreakerAssumption DEF Trip, OpenExpires
<1>4. CASE Tick
  BY <1>4 DEF Tick, OpenExpires, TypeOK
<1> QED
  BY <1>1, <1>2, <1>3, <1>4
     DEF Next, Step, GetState, GetWasOpen, DelWasOpen, ResetProbes, IncrProbes, Succeed,
         Fail, DelFails, DelProbes, ClearFails, IncrFails, ExpireFails, MarkWasOpen,
         Abort, SuccessNotRecorded, keyVars, vars

\* No interleaving of callers' commands, and no cancellation or error between
\* two of them, leaves the circuit OPEN without a TTL that closes it again.
THEOREM OpenAlwaysExpires == Spec => []OpenExpires
<1>1. Init => OpenExpires
  BY DEF Init, OpenExpires
<1> QED
  BY <1>1, TypeCorrect, NextOpenExpires, PTL DEF Spec

\* While the circuit is OPEN its TTL counts what is left of the cooldown, and
\* everybody past get_state, or within it, began before the trip.
CooldownInv ==
    state = "OPEN" =>
        /\ sinceTrip + stateTTL = Recovery
        /\ \A c \in Callers : pc[c] # "idle" => c \in late

\* A caller that begins while the circuit is OPEN is refused; a trip starts
\* the count over and makes everybody under way late.
LEMMA NextCooldown == TypeOK /\ OpenExpires /\ CooldownInv /\ [Next]_vars => CooldownInv'
<1> SUFFICES ASSUME TypeOK, OpenExpires, CooldownInv, [Next]_vars, state' = "OPEN"
             PROVE  /\ sinceTrip' + stateTTL' = Recovery
                    /\ \A c \in Callers : pc'[c] # "idle" => c \in late'
  BY DEF CooldownInv
<1> DEFINE Goal == /\ sinceTrip' + stateTTL' = Recovery
                   /\ \A c \in Callers : pc'[c] # "idle" => c \in late'
<1>1. ASSUME NEW c \in Callers, GetState(c) PROVE Goal
  <2>1. state = "OPEN" /\ sinceTrip' = sinceTrip /\ stateTTL' = stateTTL
    BY <1>1 DEF GetState, keyVars
  <2>2. Returns(c, "idle", "OPEN")
    BY <1>1, <2>1 DEF GetState
  <2>3. pc' = [pc EXCEPT ![c] = "idle"] /\ late' = late \ {c}
    BY <1>1, <2>2 DEF Returns, Goto, GetState
  <2> QED
    BY <2>1, <2>3 DEF CooldownInv, TypeOK
<1>2. ASSUME NEW c \in Callers, pc[c] # "idle", NEW to, Goto(c, pc[c], to),
             UNCHANGED <<state, stateTTL, sinceTrip, late>>
      PROVE  Goal
  BY <1>2 DEF Goto, CooldownInv, TypeOK
<1>3. ASSUME NEW c \in Callers,
             \/ GetWasOpen(c) \/ DelWasOpen(c) \/ ResetProbes(c) \/ IncrProbes(c)
             \/ Succeed(c) \/ Fail(c) \/ DelFails(c) \/ DelProbes(c) \/ ClearFails(c)
             \/ IncrFails(c) \/ ExpireFails(c) \/ MarkWasOpen(c)
             \/ Abort(c) \/ SuccessNotRecorded(c)
      PROVE  Goal
  <2>1. UNCHANGED <<state, stateTTL, sinceTrip, late>>
    BY <1>3 DEF GetWasOpen, DelWasOpen, ResetProbes, IncrProbes, Succeed, Fail, DelFails,
                DelProbes, ClearFails, IncrFails, ExpireFails, MarkWasOpen, Abort,
                SuccessNotRecorded, keyVars, historyVars
  <2>2. pc[c] # "idle" /\ \E to : Goto(c, pc[c], to)
    BY <1>3 DEF GetWasOpen, DelWasOpen, ResetProbes, IncrProbes, Succeed, Fail, DelFails,
                DelProbes, ClearFails, IncrFails, ExpireFails, MarkWasOpen, Abort,
                SuccessNotRecorded, Goto, Returns
  <2> QED
    BY <1>2, <2>1, <2>2
<1>4. ASSUME NEW c \in Callers, SetHalfOpen(c) \/ DelState(c) PROVE Goal
  BY <1>4 DEF SetHalfOpen, DelState
<1>5. ASSUME NEW c \in Callers, Trip(c) PROVE Goal
  BY <1>5, BreakerAssumption DEF Trip, Goto, TypeOK
<1>6. CASE Tick
  <2>1. state = "OPEN" /\ stateTTL > 1 /\ stateTTL' = stateTTL - 1
    BY <1>6 DEF Tick, OpenExpires, TypeOK
  <2>2. sinceTrip + 1 < Recovery \/ sinceTrip + 1 = Recovery
    BY <2>1, BreakerAssumption DEF CooldownInv, TypeOK
  <2>3. sinceTrip' = sinceTrip + 1
    BY <1>6, <2>2 DEF Tick, AtMost
  <2>4. sinceTrip' + stateTTL' = Recovery
    BY <2>1, <2>3, BreakerAssumption DEF CooldownInv, TypeOK
  <2> QED
    BY <1>6, <2>1, <2>4 DEF Tick, CooldownInv
<1>7. CASE UNCHANGED vars
  BY <1>7 DEF vars, keyVars, callerVars, historyVars, CooldownInv
<1> QED
  BY <1>1, <1>3, <1>4, <1>5, <1>6, <1>7 DEF Next, Step

\* A step that ends OPEN is the end of the cooldown or of a late caller.
LEMMA StepCut ==
    ASSUME TypeOK, OpenExpires, CooldownInv, [Next]_vars, state = "OPEN", state' # "OPEN"
    PROVE  \/ sinceTrip' >= Recovery
           \/ \E c \in late : pc[c] \in {"setHalf", "delState"} /\ pc'[c] # pc[c]
<1>1. ASSUME NEW c \in Callers, SetHalfOpen(c) \/ DelState(c)
      PROVE  c \in late /\ pc[c] \in {"setHalf", "delState"} /\ pc'[c] # pc[c]
  BY <1>1 DEF SetHalfOpen, DelState, Goto, CooldownInv, TypeOK
<1>2. CASE Tick
  <2>1. stateTTL = 1
    BY <1>2 DEF Tick
  <2>2. sinceTrip + 1 = Recovery
    BY <2>1 DEF CooldownInv
  <2>3. sinceTrip' = Recovery
    BY <1>2, <2>2 DEF Tick, AtMost
  <2> QED
    BY <2>3, BreakerAssumption
<1>3. ASSUME NEW c \in Callers, Trip(c) PROVE FALSE
  BY <1>3 DEF Trip
<1> QED
  BY <1>1, <1>2, <1>3
     DEF Next, Step, GetState, GetWasOpen, DelWasOpen, ResetProbes, IncrProbes, Succeed,
         Fail, DelFails, DelProbes, ClearFails, IncrFails, ExpireFails, MarkWasOpen,
         Abort, SuccessNotRecorded, keyVars, vars

\* The cooldown after a trip is cut short only by callers that were past the
\* check of the state, or half through it, when the breaker tripped.
THEOREM CooldownCutOnlyByLate == Spec => CooldownCutByLate
<1>1. Init => CooldownInv
  BY DEF Init, CooldownInv
<1>2. TypeOK /\ OpenExpires /\ CooldownInv /\ [Next]_vars =>
        [state = "OPEN" /\ state' # "OPEN" =>
           \/ sinceTrip' >= Recovery
           \/ \E c \in late : pc[c] \in {"setHalf", "delState"} /\ pc'[c] # pc[c]]_vars
  BY StepCut
<1> QED
  BY <1>1, <1>2, TypeCorrect, OpenAlwaysExpires, NextCooldown, PTL DEF Spec, CooldownCutByLate
-----------------------------------------------------------------------------
(* The limit on probes.                                                    *)

\* The probes the count has not forgotten are no more than it, and no more than
\* it lets through.
ProbesInv == Cardinality(Probing \ forgiven) <= AtMost(probes, HalfOpenMax)

\* The number of probes not forgotten is a number.
LEMMA ProbesFinite ==
    /\ IsFiniteSet(Probing \ forgiven)
    /\ Cardinality(Probing \ forgiven) \in Nat
<1>1. IsFiniteSet(Probing \ forgiven)
  BY BreakerAssumption, FS_Subset DEF Probing
<1> QED
  BY <1>1, FS_CardinalityType

\* Only IncrProbes lets a probe through; other callers come and go.
LEMMA ProbesLeave ==
    ASSUME TypeOK, [Next]_vars, ~ \E c \in Callers : IncrProbes(c)
    PROVE  Probing' \subseteq Probing
<1>1. ASSUME NEW c \in Callers, NEW from, NEW to, Goto(c, from, to), to # "calling",
             UNCHANGED seen
      PROVE  Probing' \subseteq Probing
  BY <1>1 DEF Goto, Probing, TypeOK
<1>2. ASSUME NEW c \in Callers, NEW from, NEW result \in States, Returns(c, from, result)
      PROVE  Probing' \subseteq Probing
  BY <1>2 DEF Returns, Goto, Probing, TypeOK, States
<1>3. ASSUME NEW c \in Callers, GetState(c) PROVE Probing' \subseteq Probing
  BY <1>1, <1>2, <1>3 DEF GetState, TypeOK
<1>4. ASSUME NEW c \in Callers, GetWasOpen(c) PROVE Probing' \subseteq Probing
  BY <1>1, <1>2, <1>4 DEF GetWasOpen, States
<1>5. ASSUME NEW c \in Callers, ResetProbes(c) PROVE Probing' \subseteq Probing
  BY <1>2, <1>5 DEF ResetProbes, States
<1>6. ASSUME NEW c \in Callers,
             \/ SetHalfOpen(c) \/ DelWasOpen(c) \/ Succeed(c) \/ Fail(c) \/ DelState(c)
             \/ DelFails(c) \/ DelProbes(c) \/ ClearFails(c) \/ IncrFails(c)
             \/ ExpireFails(c) \/ Trip(c) \/ MarkWasOpen(c) \/ Abort(c)
             \/ SuccessNotRecorded(c)
      PROVE  Probing' \subseteq Probing
  <2>1. \E from, to : Goto(c, from, to) /\ to # "calling"
    BY <1>6 DEF SetHalfOpen, DelWasOpen, Succeed, Fail, DelState, DelFails, DelProbes,
                ClearFails, IncrFails, ExpireFails, Trip, MarkWasOpen, Abort,
                SuccessNotRecorded
  <2>2. UNCHANGED seen
    BY <1>6 DEF SetHalfOpen, DelWasOpen, Succeed, Fail, DelState, DelFails, DelProbes,
                ClearFails, IncrFails, ExpireFails, Trip, MarkWasOpen, Abort,
                SuccessNotRecorded
  <2> QED
    BY <1>1, <2>1, <2>2
<1>7. CASE Tick \/ UNCHANGED vars
  BY <1>7 DEF Tick, vars, callerVars, Probing
<1> QED
  BY <1>3, <1>4, <1>5, <1>6, <1>7 DEF Next, Step

\* A probe is let through after the count was raised for it; a count set to
\* zero forgets all that are under way.
LEMMA NextProbes == TypeOK /\ ProbesInv /\ [Next]_vars => ProbesInv'
<1> SUFFICES ASSUME TypeOK, ProbesInv, [Next]_vars
             PROVE  ProbesInv'
  OBVIOUS
<1> DEFINE old == Probing \ forgiven
           new == Probing' \ forgiven'
<1>1. IsFiniteSet(old) /\ Cardinality(old) \in Nat
  BY ProbesFinite
<1>2. probes \in Nat /\ HalfOpenMax \in Nat /\ Cardinality(old) <= AtMost(probes, HalfOpenMax)
  BY BreakerAssumption DEF TypeOK, ProbesInv
<1>3. ASSUME new \subseteq old, AtMost(probes, HalfOpenMax) <= AtMost(probes', HalfOpenMax),
             probes' \in Nat
      PROVE  ProbesInv'
  <2>1. Cardinality(new) <= Cardinality(old) /\ Cardinality(new) \in Nat
    BY <1>1, <1>3, FS_Subset, FS_CardinalityType
  <2>2. AtMost(probes, HalfOpenMax) \in Nat /\ AtMost(probes', HalfOpenMax) \in Nat
    BY <1>2, <1>3 DEF AtMost
  <2> HIDE DEF old, new
  <2>3. Cardinality(new) <= AtMost(probes', HalfOpenMax)
    BY <1>1, <1>2, <1>3, <2>1, <2>2
  <2> QED
    BY <2>3 DEF ProbesInv, old, new
<1>4. ASSUME NEW c \in Callers, IncrProbes(c) PROVE ProbesInv'
  <2>1. probes' = AtMost(probes + 1, HalfOpenMax + 1) /\ forgiven' = forgiven \ {c}
    BY <1>4 DEF IncrProbes
  <2>2. CASE probes' > HalfOpenMax
    <3>1. new \subseteq old
      BY <1>4, <2>1, <2>2 DEF IncrProbes, Goto, Probing, TypeOK
    <3>2. probes' \in Nat /\ AtMost(probes, HalfOpenMax) <= AtMost(probes', HalfOpenMax)
      BY <1>2, <2>1, <2>2 DEF AtMost
    <3> QED
      BY <1>3, <3>1, <3>2
  <2>3. CASE ~(probes' > HalfOpenMax)
    <3>1. new \subseteq old \cup {c}
      BY <1>4, <2>1 DEF IncrProbes, Goto, Probing, TypeOK
    <3>2. IsFiniteSet(old \cup {c}) /\ Cardinality(old \cup {c}) <= Cardinality(old) + 1
      <4>1. CASE c \in old
        <5>1. old \cup {c} = old
          BY <4>1
        <5> HIDE DEF old
        <5> QED
          BY <1>1, <5>1
      <4>2. CASE c \notin old
        <5> HIDE DEF old
        <5> QED
          BY <1>1, <4>2, FS_AddElement
      <4> QED
        BY <4>1, <4>2
    <3>3. /\ Cardinality(new) <= Cardinality(old \cup {c})
          /\ Cardinality(new) \in Nat
          /\ Cardinality(old \cup {c}) \in Nat
      BY <3>1, <3>2, FS_Subset, FS_CardinalityType
    <3>4. probes' = probes + 1 /\ probes' <= HalfOpenMax
      BY <1>2, <2>1, <2>3 DEF AtMost
    <3> HIDE DEF old, new
    <3>5. Cardinality(new) <= AtMost(probes', HalfOpenMax)
      BY <1>1, <1>2, <3>2, <3>3, <3>4 DEF AtMost
    <3> QED
      BY <3>5 DEF ProbesInv, old, new
  <2> QED
    BY <2>2, <2>3
<1>5. ASSUME NEW c \in Callers, ResetProbes(c) \/ DelProbes(c),
             ~ \E d \in Callers : IncrProbes(d)
      PROVE  ProbesInv'
  <2>1. probes' = 0 /\ forgiven' = Probing
    BY <1>5 DEF ResetProbes, DelProbes
  <2>2. new = {}
    BY <1>5, <2>1, ProbesLeave
  <2>3. Cardinality(new) = 0
    BY <2>2, FS_EmptySet
  <2> HIDE DEF new
  <2>4. Cardinality(new) <= AtMost(probes', HalfOpenMax)
    BY <1>2, <2>1, <2>3 DEF AtMost
  <2> QED
    BY <2>4 DEF ProbesInv, new
<1>6. ASSUME ~ \E c \in Callers : IncrProbes(c) \/ ResetProbes(c) \/ DelProbes(c)
      PROVE  ProbesInv'
  <2>1. UNCHANGED <<probes, forgiven>>
    BY <1>6 DEF Next, Step, GetState, GetWasOpen, SetHalfOpen, DelWasOpen, Succeed, Fail,
                DelState, DelFails, ClearFails, IncrFails, ExpireFails, Trip, MarkWasOpen,
                Abort, SuccessNotRecorded, Tick, keyVars, historyVars, vars
  <2>2. new \subseteq old
    BY <1>6, <2>1, ProbesLeave
  <2>3. AtMost(probes, HalfOpenMax) <= AtMost(probes', HalfOpenMax) /\ probes' \in Nat
    BY <1>2, <2>1 DEF AtMost
  <2> QED
    BY <1>3, <2>2, <2>3
<1> QED
  BY <1>4, <1>5, <1>6

\* However callers interleave and wherever they are cut off, the count lets no
\* more than half_open_max_calls probes through between two times it is set to
\* zero.
THEOREM ProbesAreBounded == Spec => []ProbesBounded
<1>1. Init => ProbesInv
  <2> SUFFICES ASSUME Init PROVE ProbesInv
    OBVIOUS
  <2>1. Probing \ forgiven = {}
    BY DEF Init, Probing
  <2>2. Cardinality(Probing \ forgiven) = 0
    BY <2>1, FS_EmptySet
  <2>3. AtMost(probes, HalfOpenMax) = 0
    BY BreakerAssumption DEF Init, AtMost
  <2> QED
    BY <2>2, <2>3 DEF ProbesInv
<1>2. TypeOK /\ ProbesInv => ProbesBounded
  <2> SUFFICES ASSUME TypeOK, ProbesInv PROVE ProbesBounded
    OBVIOUS
  <2>1. AtMost(probes, HalfOpenMax) \in Nat /\ AtMost(probes, HalfOpenMax) <= HalfOpenMax
    BY BreakerAssumption DEF TypeOK, AtMost
  <2>2. Cardinality(Probing \ forgiven) \in Nat
    BY ProbesFinite
  <2> DEFINE number == Cardinality(Probing \ forgiven)
  <2> HIDE DEF number
  <2>3. number <= HalfOpenMax
    BY <2>1, <2>2, BreakerAssumption DEF ProbesInv, number
  <2> QED
    BY <2>3 DEF ProbesBounded, number
<1> QED
  BY <1>1, <1>2, TypeCorrect, NextProbes, PTL DEF Spec
=============================================================================
