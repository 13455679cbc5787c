-------------------------- MODULE SignalAtHandProofs --------------------------
(***************************************************************************)
(* Theorems about what the tasks of SignalPipeline have at hand: how often *)
(* it can be counted, and what remains of it in the processing list.       *)
(***************************************************************************)
EXTENDS SignalPipelineProofs

-----------------------------------------------------------------------------
(* Over-counting.                                                          *)

\* The envelopes at hand that the current flush has not resolved yet.
Pending(s) == {x \in AtHand(s) : x[2] > done[x[1]]}

\* How often s entered the queue, and how often it could be counted for that.
Entries(s) == pushed[s] + moves

Budget(s) ==
    /\ IsFiniteSet(AtHand(s))
    /\ Occurrences(queue, s) + Cardinality(AtHand(s)) <= Entries(s)
    /\ counted[s] + Cardinality(Pending(s)) + Occurrences(queue, s) * (1 + faults)
         <= Entries(s) * (1 + faults)

\* Only a task waiting for the depth read after its pop has an envelope that
\* is not in its batch.
PoppedInv == \A t \in Tasks : pc[t] # "popped" => popped[t] = NoSignal

BudgetInv == PipelineInv /\ PoppedInv /\ \A s \in Signals : Budget(s)

\* The envelopes at hand of any task.
LEMMA AtHandMembers ==
    ASSUME TypeOK
    PROVE  \A s, x : x \in AtHand(s) <=> x \in Tasks \X Nat /\ AtSlot(x[1], x[2], s)
<1>1. \A t \in Tasks : Len(buffer[t]) \in Nat
  BY BufferedSignals, LenProperties
<1>2. ASSUME NEW s, NEW x, x \in AtHand(s)
      PROVE  x \in Tasks \X Nat /\ AtSlot(x[1], x[2], s)
  <2>1. PICK t \in Tasks : x \in {t} \X (1..Len(buffer[t]) + 1)
    BY <1>2 DEF AtHand, Slots
  <2> QED
    BY <1>1, <1>2, <2>1 DEF AtHand
<1>3. ASSUME NEW s, NEW x \in Tasks \X Nat, AtSlot(x[1], x[2], s)
      PROVE  x \in AtHand(s)
  <2>1. x[1] \in Tasks /\ x[2] \in 1..Len(buffer[x[1]]) + 1 /\ x = <<x[1], x[2]>>
    BY <1>1, <1>3 DEF AtSlot
  <2>2. x \in Slots
    BY <2>1 DEF Slots
  <2> QED
    BY <1>3, <2>2 DEF AtHand
<1> QED
  BY <1>2, <1>3

\* Those after a step.
LEMMA AtHandMembersNext ==
    ASSUME TypeOK'
    PROVE  \A s, x : x \in AtHand(s)' <=> x \in Tasks \X Nat /\ AtSlot(x[1], x[2], s)'
<1>1. \A t \in Tasks : buffer'[t] \in Seq(Signals)
  BY DEF TypeOK
<1>2. \A t \in Tasks : Len(buffer'[t]) \in Nat
  BY <1>1, LenProperties
<1>3. ASSUME NEW s, NEW x, x \in AtHand(s)'
      PROVE  x \in Tasks \X Nat /\ AtSlot(x[1], x[2], s)'
  <2>1. PICK t \in Tasks : x \in {t} \X (1..Len(buffer'[t]) + 1)
    BY <1>3 DEF AtHand, Slots
  <2> QED
    BY <1>2, <1>3, <2>1 DEF AtHand
<1>4. ASSUME NEW s, NEW x \in Tasks \X Nat, AtSlot(x[1], x[2], s)'
      PROVE  x \in AtHand(s)'
  <2>1. x[1] \in Tasks /\ x[2] \in 1..Len(buffer'[x[1]]) + 1 /\ x = <<x[1], x[2]>>
    BY <1>2, <1>4 DEF AtSlot
  <2>2. x \in Slots'
    BY <2>1 DEF Slots
  <2> QED
    BY <1>4, <2>2 DEF AtHand
<1> QED
  BY <1>3, <1>4

\* What is at hand and pending depends on the tasks' batches only.
LEMMA HandUnchanged ==
    ASSUME UNCHANGED <<popped, buffer, done>>, NEW s
    PROVE  AtHand(s)' = AtHand(s) /\ Pending(s)' = Pending(s)
  BY DEF AtHand, AtSlot, Slots, Pending

\* Products of numbers are monotonic.
LEMMA TimesMonotonic ==
    ASSUME NEW a \in Nat, NEW b \in Nat, NEW k \in Nat, a <= b
    PROVE  /\ a * k \in Nat /\ b * k \in Nat
           /\ a * k <= b * k
<1>1. PICK d \in Nat : b = a + d
  <2>1. b - a \in Nat /\ b = a + (b - a)
    OBVIOUS
  <2> QED
    BY <2>1
<1>2. b * k = a * k + d * k
  BY <1>1
<1>3. a * k \in Nat /\ d * k \in Nat
  OBVIOUS
<1> QED
  BY <1>2, <1>3

\* What a fault, a push or a pop adds to a product.
LEMMA TimesSuccessor ==
    ASSUME NEW a \in Nat, NEW k \in Nat
    PROVE  /\ a * (1 + (k + 1)) = a * (1 + k) + a
           /\ (a + 1) * (1 + k) = a * (1 + k) + (1 + k)
  OBVIOUS

\* The numbers a budget speaks of.
LEMMA BudgetTypes ==
    ASSUME TypeOK, NEW s \in Signals, IsFiniteSet(AtHand(s))
    PROVE  /\ Occurrences(queue, s) \in Nat /\ Entries(s) \in Nat
           /\ counted[s] \in Nat /\ faults \in Nat
           /\ IsFiniteSet(Pending(s))
           /\ Cardinality(Pending(s)) \in Nat /\ Cardinality(AtHand(s)) \in Nat
           /\ Cardinality(Pending(s)) <= Cardinality(AtHand(s))
<1>1. Pending(s) \subseteq AtHand(s)
  BY DEF Pending
<1>2. /\ IsFiniteSet(Pending(s)) /\ Cardinality(Pending(s)) <= Cardinality(AtHand(s))
  BY <1>1, FS_Subset
<1>3. Occurrences(queue, s) \in Nat
  BY OccurrencesType DEF TypeOK
<1>4. pushed[s] \in Nat /\ moves \in Nat /\ counted[s] \in Nat /\ faults \in Nat
  BY PipelineAssumption DEF TypeOK
<1> QED
  BY <1>2, <1>3, <1>4, FS_CardinalityType DEF Entries

\* A step that neither pops s nor counts it nor fails keeps its budget.
LEMMA BudgetPassive ==
    ASSUME TypeOK, TypeOK', NEW s \in Signals, Budget(s),
           AtHand(s)' \subseteq AtHand(s), Pending(s)' \subseteq Pending(s),
           counted'[s] = counted[s], faults' = faults,
           \/ Occurrences(queue', s) <= Occurrences(queue, s) /\ Entries(s)' >= Entries(s)
           \/ Occurrences(queue', s) = Occurrences(queue, s) + 1
              /\ Entries(s)' = Entries(s) + 1
    PROVE  Budget(s)'
<1> DEFINE o == Occurrences(queue, s)  h == Cardinality(AtHand(s))
           p == Cardinality(Pending(s))  e == Entries(s)  k == 1 + faults  c == counted[s]
           oo == Occurrences(queue', s)  hh == Cardinality(AtHand(s)')
           pp == Cardinality(Pending(s)')  ee == Entries(s)'
<1>1. /\ o \in Nat /\ h \in Nat /\ p \in Nat /\ e \in Nat /\ faults \in Nat /\ c \in Nat
      /\ IsFiniteSet(AtHand(s)) /\ IsFiniteSet(Pending(s))
  BY BudgetTypes DEF Budget
<1>2. /\ IsFiniteSet(AtHand(s)') /\ hh <= h /\ pp <= p
  BY <1>1, FS_Subset
<1>3. oo \in Nat /\ hh \in Nat /\ pp \in Nat /\ ee \in Nat
  <2>1. queue' \in Seq(Signals) /\ pushed'[s] \in Nat /\ moves' \in Nat
    BY PipelineAssumption DEF TypeOK
  <2>2. IsFiniteSet(Pending(s)')
    BY <1>1, FS_Subset
  <2> QED
    BY <1>2, <2>1, <2>2, OccurrencesType, FS_CardinalityType DEF Entries
<1>4. o + h <= e /\ c + p + o * k <= e * k
  BY DEF Budget
<1>5. k \in Nat /\ o * k \in Nat /\ e * k \in Nat /\ oo * k \in Nat /\ ee * k \in Nat
  BY <1>1, <1>3
<1>6. oo + hh <= ee /\ c + pp + oo * k <= ee * k
  <2>1. CASE oo <= o /\ ee >= e
    <3>1. oo * k <= o * k /\ e * k <= ee * k
      BY <1>1, <1>3, <1>5, <2>1, TimesMonotonic
    <3> HIDE DEF o, h, p, e, k, c, oo, hh, pp, ee
    <3> QED
      BY <1>1, <1>2, <1>3, <1>4, <1>5, <2>1, <3>1
  <2>2. CASE oo = o + 1 /\ ee = e + 1
    <3>1. oo * k = o * k + k /\ ee * k = e * k + k
      <4>1. (o + 1) * (1 + faults) = o * (1 + faults) + (1 + faults)
        BY <1>1, TimesSuccessor
      <4>2. (e + 1) * (1 + faults) = e * (1 + faults) + (1 + faults)
        BY <1>1, TimesSuccessor
      <4> QED
        BY <2>2, <4>1, <4>2
    <3> HIDE DEF o, h, p, e, k, c, oo, hh, pp, ee
    <3> QED
      BY <1>1, <1>2, <1>3, <1>4, <1>5, <2>2, <3>1
  <2> QED
    BY <2>1, <2>2
<1> QED
  BY <1>2, <1>6 DEF Budget

\* Neither does a pop of s, which takes from the queue what it puts at hand.
LEMMA BudgetPop ==
    ASSUME TypeOK, TypeOK', NEW s \in Signals, Budget(s), NEW x,
           AtHand(s)' \subseteq AtHand(s) \cup {x}, Pending(s)' \subseteq Pending(s) \cup {x},
           counted'[s] = counted[s], faults' = faults, Entries(s)' = Entries(s),
           Occurrences(queue, s) = Occurrences(queue', s) + 1
    PROVE  Budget(s)'
<1> DEFINE o == Occurrences(queue, s)  h == Cardinality(AtHand(s))
           p == Cardinality(Pending(s))  e == Entries(s)  k == 1 + faults  c == counted[s]
           oo == Occurrences(queue', s)  hh == Cardinality(AtHand(s)')
           pp == Cardinality(Pending(s)')
<1>1. /\ o \in Nat /\ h \in Nat /\ p \in Nat /\ e \in Nat /\ faults \in Nat /\ c \in Nat
      /\ IsFiniteSet(AtHand(s)) /\ IsFiniteSet(Pending(s))
  BY BudgetTypes DEF Budget
<1>2. /\ IsFiniteSet(AtHand(s) \cup {x}) /\ Cardinality(AtHand(s) \cup {x}) <= h + 1
      /\ IsFiniteSet(Pending(s) \cup {x}) /\ Cardinality(Pending(s) \cup {x}) <= p + 1
      /\ Cardinality(AtHand(s) \cup {x}) \in Nat /\ Cardinality(Pending(s) \cup {x}) \in Nat
  <2>1. ASSUME NEW A, IsFiniteSet(A)
        PROVE  IsFiniteSet(A \cup {x}) /\ Cardinality(A \cup {x}) <= Cardinality(A) + 1
    <3>1. Cardinality(A) \in Nat
      BY <2>1, FS_CardinalityType
    <3>2. CASE x \in A
      <4>1. A \cup {x} = A
        BY <3>2
      <4> QED
        BY <2>1, <3>1, <4>1
    <3>3. CASE x \notin A
      <4>1. IsFiniteSet(A \cup {x}) /\ Cardinality(A \cup {x}) = Cardinality(A) + 1
        BY <2>1, <3>3, FS_AddElement
      <4> QED
        BY <3>1, <4>1
    <3> QED
      BY <3>2, <3>3
  <2> QED
    BY <1>1, <2>1, FS_CardinalityType
<1>3. /\ IsFiniteSet(AtHand(s)') /\ IsFiniteSet(Pending(s)')
      /\ hh <= Cardinality(AtHand(s) \cup {x}) /\ pp <= Cardinality(Pending(s) \cup {x})
  BY <1>2, FS_Subset
<1>4. oo \in Nat /\ hh \in Nat /\ pp \in Nat
  <2>1. queue' \in Seq(Signals)
    BY DEF TypeOK
  <2> QED
    BY <1>3, <2>1, OccurrencesType, FS_CardinalityType
<1>5. hh <= h + 1 /\ pp <= p + 1
  <2> HIDE DEF h, p, hh, pp
  <2> QED
    BY <1>1, <1>2, <1>3, <1>4
<1>6. o + h <= e /\ c + p + o * k <= e * k
  BY DEF Budget
<1>7. o * k = oo * k + k /\ k >= 1
  BY <1>1, <1>4, TimesSuccessor
<1>8. k \in Nat /\ o * k \in Nat /\ e * k \in Nat /\ oo * k \in Nat
  BY <1>1, <1>4
<1>9. oo + hh <= e /\ c + pp + oo * k <= e * k
  <2>1. o = oo + 1
    OBVIOUS
  <2> HIDE DEF o, h, p, e, k, c, oo, hh, pp
  <2> QED
    BY <1>1, <1>4, <1>5, <1>6, <1>7, <1>8, <2>1
<1> QED
  BY <1>3, <1>9 DEF Budget

\* A step that counts s takes the envelope it counts from the pending ones.
LEMMA BudgetCount ==
    ASSUME TypeOK, TypeOK', NEW s \in Signals, Budget(s), NEW x \in Pending(s),
           AtHand(s)' \subseteq AtHand(s), Pending(s)' \subseteq Pending(s) \ {x},
           counted'[s] = counted[s] + 1, Entries(s)' = Entries(s),
           Occurrences(queue', s) = Occurrences(queue, s),
           faults' = faults \/ faults' = faults + 1
    PROVE  Budget(s)'
<1> DEFINE o == Occurrences(queue, s)  h == Cardinality(AtHand(s))
           p == Cardinality(Pending(s))  e == Entries(s)  k == 1 + faults  c == counted[s]
           hh == Cardinality(AtHand(s)')  pp == Cardinality(Pending(s)')
           kk == 1 + faults'
<1>1. /\ o \in Nat /\ h \in Nat /\ p \in Nat /\ e \in Nat /\ faults \in Nat /\ c \in Nat
      /\ IsFiniteSet(AtHand(s)) /\ IsFiniteSet(Pending(s))
  BY BudgetTypes DEF Budget
<1>2. /\ IsFiniteSet(Pending(s) \ {x}) /\ Cardinality(Pending(s) \ {x}) = p - 1
  BY <1>1, FS_RemoveElement
<1>3. /\ IsFiniteSet(AtHand(s)') /\ IsFiniteSet(Pending(s)')
      /\ hh <= h /\ pp <= Cardinality(Pending(s) \ {x})
  BY <1>1, <1>2, FS_Subset
<1>4. hh \in Nat /\ pp \in Nat /\ pp <= p - 1
  BY <1>2, <1>3, FS_CardinalityType
<1>5. o + h <= e /\ c + p + o * k <= e * k
  BY DEF Budget
<1>6. k \in Nat /\ kk \in Nat /\ o * k \in Nat /\ e * k \in Nat
  BY <1>1
<1>7. o + hh <= e
  <2> HIDE DEF o, h, e, hh
  <2> QED
    BY <1>1, <1>3, <1>4, <1>5
<1>8. c + 1 + pp + o * k <= e * k
  <2> HIDE DEF o, p, e, k, c, pp
  <2> QED
    BY <1>1, <1>4, <1>5, <1>6
<1>9. c + 1 + pp + o * kk <= e * kk
  <2>1. CASE faults' = faults
    BY <1>8, <2>1
  <2>2. CASE faults' = faults + 1
    <3>1. o * kk = o * k + o /\ e * kk = e * k + e
      BY <1>1, <2>2, TimesSuccessor
    <3> HIDE DEF o, h, p, e, k, c, hh, pp, kk
    <3> QED
      BY <1>1, <1>4, <1>6, <1>7, <1>8, <3>1
  <2> QED
    BY <2>1, <2>2
<1> QED
  BY <1>3, <1>7, <1>9 DEF Budget

\* A failure may undo what the flushes of the tasks it hits have done: what
\* is at hand is pending again, and may be counted once more for it.
LEMMA BudgetFault ==
    ASSUME TypeOK, TypeOK', NEW s \in Signals, Budget(s),
           AtHand(s)' \subseteq AtHand(s), counted'[s] = counted[s], faults' = faults + 1,
           \/ Occurrences(queue', s) <= Occurrences(queue, s) /\ Entries(s)' = Entries(s)
           \/ Occurrences(queue', s) = Occurrences(queue, s) + 1
              /\ Entries(s)' = Entries(s) + 1
    PROVE  Budget(s)'
<1> DEFINE o == Occurrences(queue, s)  h == Cardinality(AtHand(s))
           p == Cardinality(Pending(s))  e == Entries(s)  k == 1 + faults  c == counted[s]
           oo == Occurrences(queue', s)  hh == Cardinality(AtHand(s)')
           pp == Cardinality(Pending(s)')  ee == Entries(s)'  kk == 1 + faults'
<1>1. /\ o \in Nat /\ h \in Nat /\ p \in Nat /\ e \in Nat /\ faults \in Nat /\ c \in Nat
      /\ IsFiniteSet(AtHand(s))
  BY BudgetTypes DEF Budget
<1>2. /\ IsFiniteSet(AtHand(s)') /\ hh <= h
  BY <1>1, FS_Subset
<1>3. Pending(s)' \subseteq AtHand(s)'
  BY DEF Pending
<1>4. IsFiniteSet(Pending(s)') /\ pp <= hh
  BY <1>2, <1>3, FS_Subset
<1>5. oo \in Nat /\ hh \in Nat /\ pp \in Nat /\ ee \in Nat
  <2>1. queue' \in Seq(Signals) /\ pushed'[s] \in Nat /\ moves' \in Nat
    BY PipelineAssumption DEF TypeOK
  <2> QED
    BY <1>2, <1>4, <2>1, OccurrencesType, FS_CardinalityType DEF Entries
<1>6. o + h <= e /\ c + p + o * k <= e * k
  BY DEF Budget
<1>7. k \in Nat /\ kk \in Nat /\ o * k \in Nat /\ e * k \in Nat /\ oo * k \in Nat /\ ee * k \in Nat
  BY <1>1, <1>5
<1>8. /\ oo * kk = oo * k + oo /\ ee * kk = ee * k + ee
  BY <1>1, <1>5, TimesSuccessor
<1>9. oo + hh <= ee /\ c + oo * k <= ee * k
  <2>1. CASE oo <= o /\ ee = e
    <3>1. oo * k <= o * k
      BY <1>1, <1>5, <1>7, <2>1, TimesMonotonic
    <3>2. ee * k = e * k
      BY <2>1
    <3> HIDE DEF o, h, p, e, k, c, oo, hh, pp, ee
    <3> QED
      BY <1>1, <1>2, <1>5, <1>6, <1>7, <2>1, <3>1, <3>2
  <2>2. CASE oo = o + 1 /\ ee = e + 1
    <3>1. oo * k = o * k + k /\ ee * k = e * k + k
      <4>1. (o + 1) * (1 + faults) = o * (1 + faults) + (1 + faults)
        BY <1>1, TimesSuccessor
      <4>2. (e + 1) * (1 + faults) = e * (1 + faults) + (1 + faults)
        BY <1>1, TimesSuccessor
      <4> QED
        BY <2>2, <4>1, <4>2
    <3> HIDE DEF o, h, p, e, k, c, oo, hh, pp, ee
    <3> QED
      BY <1>1, <1>2, <1>5, <1>6, <1>7, <2>2, <3>1
  <2> QED
    BY <2>1, <2>2
<1>10. c + pp + oo * kk <= ee * kk
  <2> HIDE DEF o, h, p, e, k, c, oo, hh, pp, ee, kk
  <2> QED
    BY <1>1, <1>4, <1>5, <1>7, <1>8, <1>9
<1> QED
  BY <1>2, <1>9, <1>10 DEF Budget

\* A task that keeps its batch, or drops it, gets nothing new at hand; what it
\* has resolved stays so unless it is dropped or its flush starts anew.
LEMMA HandShrinks ==
    ASSUME TypeOK, TypeOK', NEW s \in Signals,
           \A u \in Tasks :
             \/ buffer'[u] = buffer[u] /\ popped'[u] \in {popped[u], NoSignal}
             \/ buffer'[u] = <<>> /\ popped'[u] = NoSignal
    PROVE  /\ AtHand(s)' \subseteq AtHand(s)
           /\ (\A u \in Tasks : \/ buffer'[u] = <<>> /\ popped'[u] = NoSignal
                                \/ done'[u] = done[u])
                => Pending(s)' \subseteq Pending(s)
<1>1. ASSUME NEW x \in Tasks \X Nat, AtSlot(x[1], x[2], s)'
      PROVE  AtSlot(x[1], x[2], s) /\ ~(buffer'[x[1]] = <<>> /\ popped'[x[1]] = NoSignal)
  <2>1. x[1] \in Tasks /\ s # NoSignal
    BY PipelineAssumption
  <2>2. ~(buffer'[x[1]] = <<>> /\ popped'[x[1]] = NoSignal)
    BY <1>1, <2>1 DEF AtSlot
  <2> QED
    BY <1>1, <2>1, <2>2 DEF AtSlot
<1>2. AtHand(s)' \subseteq AtHand(s)
  BY <1>1, AtHandMembers, AtHandMembersNext
<1>3. ASSUME \A u \in Tasks : (buffer'[u] = <<>> /\ popped'[u] = NoSignal) \/ done'[u] = done[u]
      PROVE  Pending(s)' \subseteq Pending(s)
  <2>1. ASSUME NEW x \in Pending(s)'
        PROVE  x \in Pending(s)
    <3>1. x \in Tasks \X Nat /\ AtSlot(x[1], x[2], s)' /\ x[2] > done'[x[1]]
      BY <2>1, AtHandMembersNext DEF Pending
    <3>2. x[1] \in Tasks /\ x \in AtHand(s)
      BY <1>2, <2>1, AtHandMembers DEF Pending
    <3>3. done'[x[1]] = done[x[1]]
      BY <1>1, <1>3, <3>1, <3>2
    <3> QED
      BY <3>1, <3>2, <3>3 DEF Pending
  <2> QED
    BY <2>1
<1> QED
  BY <1>2, <1>3

\* Putting the popped envelope into the batch leaves what is at hand as it is.
LEMMA HandBuffered ==
    ASSUME TypeOK, TypeOK', NEW s \in Signals, NEW t \in Tasks, popped[t] \in Signals,
           buffer' = [buffer EXCEPT ![t] = Append(@, popped[t])],
           popped' = [popped EXCEPT ![t] = NoSignal], done' = done
    PROVE  AtHand(s)' \subseteq AtHand(s) /\ Pending(s)' \subseteq Pending(s)
<1>1. /\ buffer[t] \in Seq(Signals) /\ Len(buffer[t]) \in Nat
      /\ Len(Append(buffer[t], popped[t])) = Len(buffer[t]) + 1
      /\ \A i \in 1..Len(buffer[t]) : Append(buffer[t], popped[t])[i] = buffer[t][i]
      /\ Append(buffer[t], popped[t])[Len(buffer[t]) + 1] = popped[t]
  BY BufferedSignals, LenProperties, AppendProperties
<1>2. ASSUME NEW u \in Tasks
      PROVE  /\ u = t => buffer'[u] = Append(buffer[t], popped[t]) /\ popped'[u] = NoSignal
             /\ u # t => buffer'[u] = buffer[u] /\ popped'[u] = popped[u]
  BY DEF TypeOK
<1>3. ASSUME NEW u \in Tasks, NEW i \in Nat, AtSlot(u, i, s)'
      PROVE  AtSlot(u, i, s)
  <2>1. CASE u # t
    BY <1>2, <1>3, <2>1 DEF AtSlot
  <2>2. CASE u = t
    <3>1. i \in 1..Len(buffer[t]) + 1 /\ Append(buffer[t], popped[t])[i] = s
      BY <1>1, <1>2, <1>3, <2>2, PipelineAssumption DEF AtSlot
    <3>2. CASE i = Len(buffer[t]) + 1
      BY <1>1, <2>2, <3>1, <3>2 DEF AtSlot
    <3>3. CASE i # Len(buffer[t]) + 1
      <4>1. i \in 1..Len(buffer[t])
        BY <1>1, <3>1, <3>3
      <4> QED
        BY <1>1, <2>2, <3>1, <4>1 DEF AtSlot
    <3> QED
      BY <3>2, <3>3
  <2> QED
    BY <2>1, <2>2
<1>4. AtHand(s)' \subseteq AtHand(s)
  BY <1>3, AtHandMembers, AtHandMembersNext
<1> QED
  BY <1>4 DEF Pending

\* A pop puts its envelope at hand, in the one place after the batch.
LEMMA HandPopped ==
    ASSUME TypeOK, TypeOK', NEW s \in Signals, NEW t \in Tasks,
           popped' = [popped EXCEPT ![t] = Head(queue)], buffer' = buffer, done' = done
    PROVE  LET x == <<t, Len(buffer[t]) + 1>>
           IN  /\ AtHand(s)' \subseteq AtHand(s) \cup {x}
               /\ Pending(s)' \subseteq Pending(s) \cup {x}
               /\ s # Head(queue) => AtHand(s)' \subseteq AtHand(s)
                                     /\ Pending(s)' \subseteq Pending(s)
<1> DEFINE x == <<t, Len(buffer[t]) + 1>>
<1>1. ASSUME NEW u \in Tasks, NEW i \in Nat, AtSlot(u, i, s)'
      PROVE  AtSlot(u, i, s) \/ (<<u, i>> = x /\ s = Head(queue))
  <2>1. CASE u # t
    BY <1>1, <2>1 DEF AtSlot, TypeOK
  <2>2. CASE u = t
    BY <1>1, <2>2 DEF AtSlot, TypeOK
  <2> QED
    BY <2>1, <2>2
<1>2. ASSUME NEW y \in AtHand(s)'
      PROVE  y \in AtHand(s) \/ (y = x /\ s = Head(queue))
  BY <1>1, <1>2, AtHandMembers, AtHandMembersNext
<1>3. ASSUME NEW y \in Pending(s)'
      PROVE  y \in Pending(s) \/ (y = x /\ s = Head(queue))
  BY <1>2, <1>3 DEF Pending
<1> QED
  BY <1>2, <1>3

\* Resolving a signal takes its place of the batch, and no other, from the
\* pending ones.
LEMMA HandResolved ==
    ASSUME TypeOK, FlushDiscipline, NEW s \in Signals, NEW t \in Tasks, pc[t] = "resolve",
           popped' = popped, buffer' = buffer, done' = [done EXCEPT ![t] = @ + 1]
    PROVE  LET x == <<t, done[t] + 1>>
           IN  /\ AtHand(s)' = AtHand(s)
               /\ Pending(s)' \subseteq Pending(s) \ {x}
<1> DEFINE x == <<t, done[t] + 1>>
<1>1. AtHand(s)' = AtHand(s)
  BY DEF AtHand, AtSlot, Slots
<1>2. ASSUME NEW y \in Pending(s)'
      PROVE  y \in Pending(s) \ {x}
  <2>1. /\ y \in AtHand(s) /\ y \in Tasks \X Nat /\ y[2] > done'[y[1]]
        /\ y[1] \in Tasks /\ y[2] \in Nat
    BY <1>1, <1>2, AtHandMembers DEF Pending
  <2>2. /\ done[y[1]] \in Nat /\ done[t] \in Nat
        /\ done'[y[1]] = IF y[1] = t THEN done[t] + 1 ELSE done[y[1]]
    BY <2>1 DEF TypeOK
  <2>3. y[2] > done[y[1]]
    BY <2>1, <2>2
  <2>4. y # x
    BY <2>1, <2>2
  <2> QED
    BY <2>1, <2>3, <2>4 DEF Pending
<1> QED
  BY <1>1, <1>2

\* The signal a flush resolves next is pending.
LEMMA NextIsPending ==
    ASSUME TypeOK, FlushDiscipline, NEW t \in Tasks, pc[t] = "resolve"
    PROVE  <<t, done[t] + 1>> \in Pending(buffer[t][done[t] + 1])
<1>1. done[t] + 1 \in 1..Len(buffer[t]) /\ done[t] \in Nat /\ done[t] + 1 \in Nat
  BY NextToResolve DEF TypeOK
<1>2. <<t, done[t] + 1>> \in Tasks \X Nat
  BY <1>1
<1>3. <<t, done[t] + 1>> \in AtHand(buffer[t][done[t] + 1])
  BY <1>1, <1>2, AtHandMembers DEF AtSlot
<1> QED
  BY <1>1, <1>3 DEF Pending

\* An envelope is out of its batch only between the pop and the depth read.
LEMMA NextPoppedInv == PipelineInv /\ PoppedInv /\ [Next]_vars => PoppedInv'
<1> SUFFICES ASSUME PipelineInv, PoppedInv, [Next]_vars, NEW u \in Tasks, pc'[u] # "popped"
             PROVE  popped'[u] = NoSignal
  BY DEF PoppedInv
<1>1. TypeOK /\ OffWhileDown
  BY DEF PipelineInv
<1>2. /\ pc \in [Tasks -> TaskStates] /\ popped \in [Tasks -> Signals \cup {NoSignal}]
  BY <1>1 DEF TypeOK
<1>3. CASE popped'[u] = popped[u] /\ pc[u] # "popped"
  BY <1>3 DEF PoppedInv
<1>4. CASE UNCHANGED <<pc, popped>>
  BY <1>4 DEF PoppedInv
<1>5. ASSUME NEW p \in Procs, Process(p) \/ Stop(p) \/ Crash(p)
      PROVE  popped'[u] = NoSignal
  <2>1. CASE Start(p) \/ RecoverMove(p) \/ Stopped(p)
    BY <1>4, <2>1 DEF Start, RecoverMove, Stopped, taskVars
  <2>2. CASE RecoverCheck(p)
    <3>1. CASE ProcOf[u] = p
      BY <1>1, <1>3, <2>2, <3>1 DEF RecoverCheck, OffWhileDown
    <3>2. CASE ProcOf[u] # p
      BY <1>2, <1>3, <2>2, <3>2 DEF RecoverCheck, TasksOf
    <3> QED
      BY <3>1, <3>2
  <2>3. CASE Stop(p) \/ Crash(p)
    <3>1. CASE u \in TasksOf(p)
      BY <2>3, <3>1 DEF Stop, Crash
    <3>2. CASE u \notin TasksOf(p)
      BY <1>3, <2>3, <3>2 DEF Stop, Crash
    <3> QED
      BY <3>1, <3>2
  <2> QED
    BY <1>5, <2>1, <2>2, <2>3 DEF Process
<1>6. ASSUME NEW t \in Tasks,
             \/ Work(t) \/ IdlePoll(t) \/ DequeueError(t)
             \/ RecordFails(t) \/ ResolveFails(t) \/ AckFails(t)
      PROVE  popped'[u] = NoSignal
  <2>1. CASE u = t
    <3>1. CASE Dequeue(t) \/ Buffer(t) \/ DequeueError(t)
      BY <1>2, <2>1, <3>1 DEF Dequeue, Buffer, DequeueError, Goto
    <3>2. CASE \/ BatchTimeout(t) \/ BackoffOver(t) \/ Record(t) \/ Resolve(t) \/ Ack(t)
               \/ FlushDone(t) \/ RecordFails(t) \/ ResolveFails(t) \/ AckFails(t)
      BY <1>3, <2>1, <3>2 DEF BatchTimeout, BackoffOver, Record, Resolve, Ack, FlushDone,
         RecordFails, ResolveFails, AckFails, EndFlush, Goto
    <3>3. CASE IdlePoll(t)
      BY <1>4, <3>3 DEF IdlePoll, vars, taskVars
    <3> QED
      BY <1>6, <3>1, <3>2, <3>3 DEF Work
  <2>2. CASE u # t
    <3>1. pc'[u] = pc[u]
      BY <1>2, <1>6, <2>2 DEF Work, Dequeue, Buffer, DequeueError, BatchTimeout, BackoffOver,
         Record, Resolve, Ack, FlushDone, RecordFails, ResolveFails, AckFails, EndFlush,
         IdlePoll, vars, taskVars, Goto
    <3>2. popped'[u] = popped[u]
      BY <1>2, <1>6, <2>2 DEF Work, Dequeue, Buffer, DequeueError, BatchTimeout, BackoffOver,
         Record, Resolve, Ack, FlushDone, RecordFails, ResolveFails, AckFails, EndFlush,
         IdlePoll, vars, taskVars, Goto
    <3> QED
      BY <1>3, <3>1, <3>2
  <2> QED
    BY <2>1, <2>2
<1> QED
  BY <1>4, <1>5, <1>6 DEF Next, Request, Ingest, Enqueue, Push, PushTimeout, vars, taskVars

\* A push enters one envelope more for what it adds to the queue.
LEMMA PushEntries ==
    ASSUME TypeOK, NEW s \in Signals, NEW e \in Signals, LPush(e), UNCHANGED moves
    PROVE  \/ Occurrences(queue', s) <= Occurrences(queue, s) /\ Entries(s)' = Entries(s)
           \/ Occurrences(queue', s) = Occurrences(queue, s) + 1
              /\ Entries(s)' = Entries(s) + 1
<1>1. /\ queue \in Seq(Signals) /\ Occurrences(queue, s) \in Nat
      /\ pushed[s] \in Nat /\ moves \in Nat /\ pushed \in [Signals -> Nat]
  BY OccurrencesType, PipelineAssumption DEF TypeOK
<1>2. CASE s = e
  <2>1. Occurrences(queue', s) = Occurrences(queue, s) + 1 /\ pushed'[s] = pushed[s] + 1
    BY <1>1, <1>2, OccurrencesAppend DEF LPush
  <2> QED
    BY <1>1, <2>1 DEF Entries
<1>3. CASE s # e
  <2>1. Occurrences(queue', s) = Occurrences(queue, s) /\ pushed'[s] = pushed[s]
    BY <1>1, <1>3, OccurrencesAppend DEF LPush
  <2> QED
    BY <1>1, <2>1 DEF Entries
<1> QED
  BY <1>2, <1>3

\* So does a return of an envelope to the queue.
LEMMA MoveEntries ==
    ASSUME TypeOK, NEW s \in Signals, NEW p \in Procs, RecoverMove(p)
    PROVE  \/ Occurrences(queue', s) <= Occurrences(queue, s) /\ Entries(s)' >= Entries(s)
           \/ Occurrences(queue', s) = Occurrences(queue, s) + 1
              /\ Entries(s)' = Entries(s) + 1
<1>1. /\ queue \in Seq(Signals) /\ Occurrences(queue, s) \in Nat
      /\ pushed[s] \in Nat /\ moves \in Nat /\ pushed' = pushed
  BY OccurrencesType, PipelineAssumption DEF TypeOK, RecoverMove, apiVars
<1>2. CASE UNCHANGED <<listVars, moves>>
  BY <1>1, <1>2 DEF listVars, Entries
<1>3. ASSUME NEW e \in Signals, queue' = Append(queue, e), moves' = moves + 1
      PROVE  \/ Occurrences(queue', s) <= Occurrences(queue, s) /\ Entries(s)' >= Entries(s)
             \/ Occurrences(queue', s) = Occurrences(queue, s) + 1
                /\ Entries(s)' = Entries(s) + 1
  <2>1. Occurrences(queue', s) \in {Occurrences(queue, s), Occurrences(queue, s) + 1}
    BY <1>1, <1>3, OccurrencesAppend
  <2>2. Entries(s)' = Entries(s) + 1 /\ Entries(s) \in Nat
    BY <1>1, <1>3 DEF Entries
  <2> QED
    BY <1>1, <2>1, <2>2
<1> QED
  BY <1>2, <1>3 DEF RecoverMove

\* A pop takes an envelope from the queue.
LEMMA PopOccurrences ==
    ASSUME TypeOK, NEW s \in Signals, BRPopLPush
    PROVE  /\ s = Head(queue) => Occurrences(queue, s) = Occurrences(queue', s) + 1
           /\ s # Head(queue) => Occurrences(queue, s) = Occurrences(queue', s)
           /\ Occurrences(queue', s) <= Occurrences(queue, s)
<1>1. queue \in Seq(Signals) /\ queue # <<>> /\ queue' = Tail(queue) /\ queue' \in Seq(Signals)
  BY PopType DEF TypeOK, BRPopLPush
<1>2. Occurrences(queue', s) \in Nat
  BY <1>1, OccurrencesType
<1>3. Occurrences(queue, s) = IF s = Head(queue) THEN Occurrences(queue', s) + 1
                                                 ELSE Occurrences(queue', s)
  BY <1>1, OccurrencesTail
<1> QED
  BY <1>2, <1>3

\* A step that leaves the queue and the entries alone.
LEMMA QueueKept ==
    ASSUME TypeOK, NEW s \in Signals, UNCHANGED <<queue, pushed, moves>>
    PROVE  /\ Occurrences(queue', s) <= Occurrences(queue, s) /\ Entries(s)' = Entries(s)
           /\ Occurrences(queue', s) = Occurrences(queue, s)
           /\ Entries(s) \in Nat
<1>1. /\ Occurrences(queue, s) \in Nat /\ pushed[s] \in Nat /\ moves \in Nat
  BY OccurrencesType, PipelineAssumption DEF TypeOK
<1> QED
  BY <1>1 DEF Entries

\* The end of a flush drops its batch and touches nothing else at hand.
LEMMA EndFlushShrinks ==
    ASSUME TypeOK, TypeOK', PoppedInv, NEW s \in Signals, NEW t \in Tasks, pc[t] # "popped", EndFlush(t)
    PROVE  AtHand(s)' \subseteq AtHand(s) /\ Pending(s)' \subseteq Pending(s)
           /\ Pending(s)' \subseteq Pending(s) \ {<<t, done[t] + 1>>}
<1>1. ASSUME NEW u \in Tasks
      PROVE  \/ u # t /\ buffer'[u] = buffer[u] /\ popped'[u] = popped[u] /\ done'[u] = done[u]
             \/ u = t /\ buffer'[u] = <<>> /\ popped'[u] = NoSignal
  BY DEF EndFlush, TypeOK, PoppedInv
<1>2. AtHand(s)' \subseteq AtHand(s) /\ Pending(s)' \subseteq Pending(s)
  BY <1>1, HandShrinks
<1>3. <<t, done[t] + 1>> \notin AtHand(s)'
  BY <1>1, PipelineAssumption DEF AtHand, AtSlot
<1> QED
  BY <1>2, <1>3 DEF Pending

\* A request, a push among them, keeps the budget of every signal.
LEMMA RequestBudget ==
    ASSUME TypeOK, TypeOK', NEW s \in Signals, Budget(s),
           NEW e \in Signals, Request(e) \/ PushTimeout(e)
    PROVE  Budget(s)'
<1>1. /\ UNCHANGED <<popped, buffer, done, counted, moves>>
  BY DEF Request, Ingest, Enqueue, Push, PushTimeout, taskVars, storeVars
<1>2. AtHand(s)' = AtHand(s) /\ Pending(s)' = Pending(s)
  BY <1>1, HandUnchanged
<1>3. CASE Ingest(e) \/ Enqueue(e)
  <2>1. UNCHANGED <<queue, pushed, faults>>
    BY <1>3 DEF Ingest, Enqueue, listVars
  <2>2. Occurrences(queue', s) <= Occurrences(queue, s) /\ Entries(s)' >= Entries(s)
    BY <1>1, <2>1, QueueKept
  <2> QED
    BY <1>1, <1>2, <2>1, <2>2, BudgetPassive
<1>4. CASE Push(e)
  <2>1. LPush(e) /\ faults' = faults
    BY <1>4 DEF Push
  <2>2. \/ Occurrences(queue', s) <= Occurrences(queue, s) /\ Entries(s)' = Entries(s)
        \/ Occurrences(queue', s) = Occurrences(queue, s) + 1 /\ Entries(s)' = Entries(s) + 1
    BY <1>1, <2>1, PushEntries
  <2>3. Entries(s) \in Nat
    BY PipelineAssumption DEF TypeOK, Entries
  <2>4. \/ Occurrences(queue', s) <= Occurrences(queue, s) /\ Entries(s)' >= Entries(s)
        \/ Occurrences(queue', s) = Occurrences(queue, s) + 1 /\ Entries(s)' = Entries(s) + 1
    BY <2>2, <2>3
  <2> QED
    BY <1>1, <1>2, <2>1, <2>4, BudgetPassive
<1>5. CASE PushTimeout(e)
  <2>1. LPush(e) /\ faults' = faults + 1
    BY <1>5 DEF PushTimeout, Fault
  <2> QED
    BY <1>1, <1>2, <2>1, PushEntries, BudgetFault
<1> QED
  BY <1>3, <1>4, <1>5 DEF Request

\* So does a process that starts, recovers, stops or crashes.
LEMMA ProcessBudget ==
    ASSUME TypeOK, TypeOK', NEW s \in Signals, Budget(s),
           NEW p \in Procs, Process(p) \/ Stop(p) \/ Crash(p)
    PROVE  Budget(s)'
<1>1. CASE Process(p)
  <2>1. UNCHANGED <<popped, buffer, done, counted, faults>>
    BY <1>1 DEF Process, Start, RecoverCheck, RecoverMove, Stopped, taskVars, storeVars
  <2>2. AtHand(s)' = AtHand(s) /\ Pending(s)' = Pending(s)
    BY <2>1, HandUnchanged
  <2>3. CASE RecoverMove(p)
    BY <2>1, <2>2, <2>3, MoveEntries, BudgetPassive
  <2>4. CASE Start(p) \/ RecoverCheck(p) \/ Stopped(p)
    <3>1. UNCHANGED <<queue, pushed, moves>>
      BY <2>4 DEF Start, RecoverCheck, Stopped, listVars, apiVars
    <3>2. Occurrences(queue', s) <= Occurrences(queue, s) /\ Entries(s)' >= Entries(s)
      BY <3>1, QueueKept
    <3> QED
      BY <2>1, <2>2, <3>2, BudgetPassive
  <2> QED
    BY <1>1, <2>3, <2>4 DEF Process
<1>2. CASE Stop(p) \/ Crash(p)
  <2>1. UNCHANGED <<queue, pushed, moves, counted>> /\ faults' = faults + 1
    BY <1>2 DEF Stop, Crash, Fault, listVars, apiVars, storeVars
  <2>2. ASSUME NEW u \in Tasks
        PROVE  \/ buffer'[u] = buffer[u] /\ popped'[u] \in {popped[u], NoSignal}
               \/ buffer'[u] = <<>> /\ popped'[u] = NoSignal
    BY <1>2 DEF Stop, Crash
  <2>3. AtHand(s)' \subseteq AtHand(s)
    BY <2>2, HandShrinks
  <2>4. Occurrences(queue', s) <= Occurrences(queue, s) /\ Entries(s)' = Entries(s)
    BY <2>1, QueueKept
  <2> QED
    BY <2>1, <2>3, <2>4, BudgetFault
<1> QED
  BY <1>1, <1>2

\* So does a step that resolves a signal, whether it fails afterwards or not.
LEMMA ResolveBudget ==
    ASSUME TypeOK, TypeOK', FlushDiscipline, PoppedInv, NEW s \in Signals, Budget(s),
           NEW t \in Tasks, Resolve(t) \/ ResolveFails(t)
    PROVE  Budget(s)'
<1> DEFINE e == buffer[t][done[t] + 1]  x == <<t, done[t] + 1>>
<1>1. pc[t] = "resolve" /\ UNCHANGED <<queue, pushed, moves>>
  BY DEF Resolve, ResolveFails, listVars, apiVars
<1>2. /\ Occurrences(queue', s) = Occurrences(queue, s) /\ Entries(s)' = Entries(s)
      /\ Occurrences(queue', s) <= Occurrences(queue, s)
      /\ Entries(s)' >= Entries(s)
  BY <1>1, QueueKept
<1>3. AtHand(s)' \subseteq AtHand(s) /\ Pending(s)' \subseteq Pending(s) \ {x}
  <2>1. CASE Resolve(t)
    BY <1>1, <2>1, HandResolved DEF Resolve
  <2>2. CASE ResolveFails(t)
    BY <1>1, <2>2, EndFlushShrinks DEF ResolveFails
  <2> QED
    BY <2>1, <2>2
<1>4. faults' = faults \/ faults' = faults + 1
  BY DEF Resolve, ResolveFails, Fault
<1>5. e \in Signals /\ x \in Pending(e)
  BY <1>1, NextToResolve, NextIsPending
<1>6. CASE CountSignal(e) /\ s = e
  <2>1. counted'[s] = counted[s] + 1
    BY <1>6 DEF CountSignal, TypeOK
  <2>2. x \in Pending(s)
    BY <1>5, <1>6
  <2> HIDE DEF x
  <2> QED
    BY <1>2, <1>3, <1>4, <2>1, <2>2, BudgetCount
<1>7. CASE counted'[s] = counted[s]
  <2>1. Pending(s)' \subseteq Pending(s)
    BY <1>3
  <2> QED
    BY <1>2, <1>3, <1>4, <1>7, <2>1, BudgetPassive, BudgetFault
<1>8. (CountSignal(e) /\ s = e) \/ counted'[s] = counted[s]
  BY <1>5 DEF Resolve, ResolveFails, CountSignal, TypeOK
<1> QED
  BY <1>6, <1>7, <1>8

\* So does every other step of a task.
LEMMA TaskBudget ==
    ASSUME TypeOK, TypeOK', FlushDiscipline, PoppedInv, NEW s \in Signals, Budget(s),
           NEW t \in Tasks,
           \/ Work(t) \/ IdlePoll(t) \/ DequeueError(t)
           \/ RecordFails(t) \/ ResolveFails(t) \/ AckFails(t)
    PROVE  Budget(s)'
<1>1. CASE Resolve(t) \/ ResolveFails(t)
  BY <1>1, ResolveBudget
<1>2. CASE \/ BatchTimeout(t) \/ BackoffOver(t) \/ Record(t) \/ Ack(t) \/ IdlePoll(t)
  <2>1. UNCHANGED <<popped, buffer, done, counted, faults, queue, pushed, moves>>
    BY <1>2 DEF BatchTimeout, BackoffOver, Record, Ack, IdlePoll, vars, listVars, apiVars,
       storeVars, taskVars
  <2>2. AtHand(s)' = AtHand(s) /\ Pending(s)' = Pending(s)
    BY <2>1, HandUnchanged
  <2>3. Occurrences(queue', s) <= Occurrences(queue, s) /\ Entries(s)' >= Entries(s)
    BY <2>1, QueueKept
  <2> QED
    BY <2>1, <2>2, <2>3, BudgetPassive
<1>3. CASE FlushDone(t) \/ RecordFails(t) \/ AckFails(t)
  <2>1. /\ UNCHANGED <<counted, queue, pushed, moves>>
        /\ pc[t] # "popped" /\ EndFlush(t)
        /\ faults' = faults \/ faults' = faults + 1
    BY <1>3 DEF FlushDone, RecordFails, AckFails, Fault, listVars, apiVars, storeVars
  <2>2. AtHand(s)' \subseteq AtHand(s) /\ Pending(s)' \subseteq Pending(s)
    BY <2>1, EndFlushShrinks
  <2>3. /\ Occurrences(queue', s) <= Occurrences(queue, s)
        /\ Entries(s)' >= Entries(s) /\ Entries(s)' = Entries(s)
    BY <2>1, QueueKept
  <2> QED
    BY <2>1, <2>2, <2>3, BudgetPassive, BudgetFault
<1>4. CASE DequeueError(t)
  <2>1. /\ UNCHANGED <<counted, pushed, moves, buffer>> /\ faults' = faults + 1
        /\ popped' = [popped EXCEPT ![t] = NoSignal]
        /\ queue' = queue \/ BRPopLPush
    BY <1>4 DEF DequeueError, Fault, listVars, apiVars, storeVars
  <2>2. AtHand(s)' \subseteq AtHand(s)
    BY <2>1, HandShrinks DEF TypeOK
  <2>3. Occurrences(queue', s) <= Occurrences(queue, s)
    BY <2>1, QueueKept, PopOccurrences
  <2>4. Entries(s)' = Entries(s)
    BY <2>1 DEF Entries
  <2> QED
    BY <2>1, <2>2, <2>3, <2>4, BudgetFault
<1>5. CASE Dequeue(t)
  <2> DEFINE x == <<t, Len(buffer[t]) + 1>>
  <2>1. /\ UNCHANGED <<counted, pushed, moves, buffer, done, faults>>
        /\ popped' = [popped EXCEPT ![t] = Head(queue)] /\ BRPopLPush
    BY <1>5 DEF Dequeue, apiVars, storeVars
  <2>2. /\ AtHand(s)' \subseteq AtHand(s) \cup {x}
        /\ Pending(s)' \subseteq Pending(s) \cup {x}
        /\ s # Head(queue) => AtHand(s)' \subseteq AtHand(s) /\ Pending(s)' \subseteq Pending(s)
    BY <2>1, HandPopped
  <2>3. Entries(s)' = Entries(s) /\ Entries(s)' >= Entries(s)
    BY <2>1, PipelineAssumption DEF Entries, TypeOK
  <2>4. CASE s = Head(queue)
    <3>1. Occurrences(queue, s) = Occurrences(queue', s) + 1
      BY <2>1, <2>4, PopOccurrences
    <3> HIDE DEF x
    <3> QED
      BY <2>1, <2>2, <2>3, <3>1, BudgetPop
  <2>5. CASE s # Head(queue)
    <3>1. Occurrences(queue', s) <= Occurrences(queue, s)
      BY <2>1, PopOccurrences
    <3> QED
      BY <2>1, <2>2, <2>3, <2>5, <3>1, BudgetPassive
  <2> QED
    BY <2>4, <2>5
<1>6. CASE Buffer(t)
  <2>1. /\ UNCHANGED <<counted, queue, pushed, moves, done, faults>>
        /\ popped[t] \in Signals
    BY <1>6 DEF Buffer, listVars, apiVars, storeVars, FlushDiscipline, FlushOK, TypeOK
  <2>2. AtHand(s)' \subseteq AtHand(s) /\ Pending(s)' \subseteq Pending(s)
    BY <1>6, <2>1, HandBuffered DEF Buffer
  <2>3. Occurrences(queue', s) <= Occurrences(queue, s) /\ Entries(s)' >= Entries(s)
    BY <2>1, QueueKept
  <2> QED
    BY <2>1, <2>2, <2>3, BudgetPassive
<1> QED
  BY <1>1, <1>2, <1>3, <1>4, <1>5, <1>6 DEF Work

\* Every step keeps the budget of every signal.
LEMMA NextBudgetInv == BudgetInv /\ [Next]_vars => BudgetInv'
<1> SUFFICES ASSUME BudgetInv, [Next]_vars PROVE BudgetInv'
  OBVIOUS
<1>1. /\ TypeOK /\ TypeOK' /\ FlushDiscipline /\ PoppedInv
      /\ PipelineInv /\ PipelineInv' /\ \A s \in Signals : Budget(s)
  BY NextPipelineInv DEF BudgetInv, PipelineInv
<1>2. ASSUME NEW s \in Signals PROVE Budget(s)'
  <2>1. CASE UNCHANGED vars
    <3>1. UNCHANGED <<popped, buffer, done, counted, faults, queue, pushed, moves>>
      BY <2>1 DEF vars, listVars, apiVars, storeVars, taskVars
    <3>2. AtHand(s)' = AtHand(s) /\ Pending(s)' = Pending(s) /\ Entries(s)' = Entries(s)
      BY <3>1, HandUnchanged DEF Entries
    <3>3. Occurrences(queue', s) = Occurrences(queue, s)
      BY <3>1
    <3>4. Budget(s)
      BY <1>1
    <3> QED
      BY <3>1, <3>2, <3>3, <3>4 DEF Budget
  <2> QED
    BY <1>1, <2>1, RequestBudget, ProcessBudget, TaskBudget DEF Next
<1> QED
  BY <1>1, <1>2, NextPoppedInv DEF BudgetInv

\* At the start nothing was pushed, is queued or at hand, or was counted.
LEMMA InitBudgetInv == Init => BudgetInv
<1> SUFFICES ASSUME Init PROVE BudgetInv
  OBVIOUS
<1>1. PipelineInv /\ PoppedInv
  BY InitPipelineInv DEF Init, PoppedInv
<1>2. ASSUME NEW s \in Signals PROVE Budget(s)
  <2>1. AtHand(s) = {} /\ Pending(s) = {}
    <3>1. TypeOK
      BY InitTypeOK
    <3>2. \A t \in Tasks, i \in Nat : ~AtSlot(t, i, s)
      BY PipelineAssumption DEF Init, AtSlot
    <3> QED
      BY <3>1, <3>2, AtHandMembers DEF Pending
  <2>2. Occurrences(queue, s) = 0
    <3>1. queue \in Seq(Signals) /\ s \notin ToSet(queue)
      BY DEF Init, ToSet
    <3> QED
      BY <3>1, OccurrencesAbsent
  <2>3. counted[s] = 0 /\ Entries(s) = 0 /\ faults = 0
    BY DEF Init, Entries
  <2> QED
    BY <2>1, <2>2, <2>3, FS_EmptySet DEF Budget
<1> QED
  BY <1>1, <1>2 DEF BudgetInv

\* Over-counting has no source but these: each time an envelope entered the
\* queue is counted once, and once more for each failure, whatever crashes,
\* failed flushes, cancelled flushes and recoveries come together.
THEOREM CountBounded == Spec => []OverCountingBounded
<1>1. BudgetInv => OverCountingBounded
  <2> SUFFICES ASSUME BudgetInv, NEW s \in Signals
               PROVE  counted[s] <= Entries(s) * (1 + faults)
    BY DEF OverCountingBounded, Entries
  <2>1. TypeOK /\ Budget(s)
    BY DEF BudgetInv, PipelineInv
  <2>2. /\ counted[s] \in Nat /\ Cardinality(Pending(s)) \in Nat /\ Entries(s) \in Nat
        /\ faults \in Nat /\ Occurrences(queue, s) \in Nat
    BY <2>1, BudgetTypes DEF Budget
  <2>3. Occurrences(queue, s) * (1 + faults) \in Nat /\ Entries(s) * (1 + faults) \in Nat
    BY <2>2
  <2> QED
    BY <2>1, <2>2, <2>3 DEF Budget
<1> QED
  BY <1>1, InitBudgetInv, NextBudgetInv, PTL DEF Spec

-----------------------------------------------------------------------------
(* What the processing list holds.                                         *)

NotStranded(s) == faults = 0 => processing[s] <= Cardinality(Unacked(s))

StrandedInv == BudgetInv /\ \A s \in Signals : NotStranded(s)

\* The numbers it speaks of.
LEMMA UnackedTypes ==
    ASSUME TypeOK, NEW s \in Signals, IsFiniteSet(AtHand(s))
    PROVE  /\ IsFiniteSet(Unacked(s)) /\ Cardinality(Unacked(s)) \in Nat
           /\ processing[s] \in Nat
<1>1. Unacked(s) \subseteq AtHand(s)
  BY DEF Unacked
<1>2. IsFiniteSet(Unacked(s))
  BY <1>1, FS_Subset
<1> QED
  BY <1>2, FS_CardinalityType DEF TypeOK

\* A step after which what was at hand still is, unless it was acknowledged
\* before, and which adds nothing to the list, strands nothing.
LEMMA UnackedKept ==
    ASSUME TypeOK, TypeOK', NEW s \in Signals, IsFiniteSet(AtHand(s)), IsFiniteSet(AtHand(s)'),
           NotStranded(s), faults' = faults, processing'[s] <= processing[s],
           Unacked(s) \subseteq Unacked(s)'
    PROVE  NotStranded(s)'
<1> DEFINE u == Cardinality(Unacked(s))  uu == Cardinality(Unacked(s)')
<1>1. u \in Nat /\ processing[s] \in Nat /\ processing'[s] \in Nat
  BY UnackedTypes DEF TypeOK
<1>2. IsFiniteSet(Unacked(s)')
  <2>1. Unacked(s)' \subseteq AtHand(s)'
    BY DEF Unacked
  <2> QED
    BY <2>1, FS_Subset
<1>3. u <= uu /\ uu \in Nat
  BY <1>2, FS_Subset, FS_CardinalityType
<1> HIDE DEF u, uu
<1>4. processing[s] <= u => processing'[s] <= uu
  BY <1>1, <1>3
<1> QED
  BY <1>4 DEF NotStranded, u, uu

\* When the tasks keep their batches, each may go on to any step but the one
\* after the acknowledgement.
LEMMA UnackedMoves ==
    ASSUME NEW s, UNCHANGED <<popped, buffer>>,
           \A u \in Tasks : pc[u] # "acked" => pc'[u] # "acked"
    PROVE  Unacked(s) \subseteq Unacked(s)'
<1>1. AtHand(s)' = AtHand(s)
  BY DEF AtHand, AtSlot, Slots
<1>2. \A x \in AtHand(s) : x[1] \in Tasks
  BY DEF AtHand, Slots
<1> QED
  BY <1>1, <1>2 DEF Unacked

\* A pop makes the envelope it adds to the list an unacknowledged one.
LEMMA UnackedPopped ==
    ASSUME TypeOK, TypeOK', PoppedInv, NEW s \in Signals, IsFiniteSet(AtHand(s)),
           IsFiniteSet(AtHand(s)'), NotStranded(s), NEW t \in Tasks, Dequeue(t)
    PROVE  NotStranded(s)'
<1> DEFINE x == <<t, Len(buffer[t]) + 1>>
<1>1. /\ pc[t] = "idle" /\ pc' = [pc EXCEPT ![t] = "popped"] /\ popped[t] = NoSignal
      /\ popped' = [popped EXCEPT ![t] = Head(queue)] /\ buffer' = buffer
      /\ processing' = [processing EXCEPT ![Head(queue)] = @ + 1] /\ faults' = faults
      /\ popped'[t] = Head(queue) /\ pc'[t] = "popped"
  BY DEF Dequeue, Goto, BRPopLPush, PoppedInv, TypeOK
<1>2. Len(buffer[t]) \in Nat
  BY BufferedSignals, LenProperties
<1>3. ASSUME NEW y \in Unacked(s)
      PROVE  y \in Unacked(s)'
  <2>1. y \in Tasks \X Nat /\ AtSlot(y[1], y[2], s) /\ pc[y[1]] # "acked"
    BY <1>3, AtHandMembers DEF Unacked
  <2>2. AtSlot(y[1], y[2], s)'
    BY <1>1, <2>1, PipelineAssumption DEF AtSlot, TypeOK
  <2>3. pc'[y[1]] # "acked"
    BY <1>1, <2>1 DEF TypeOK
  <2> QED
    BY <2>1, <2>2, <2>3, AtHandMembersNext DEF Unacked
<1>4. CASE s # Head(queue)
  <2>1. processing'[s] <= processing[s]
    BY <1>1, <1>4 DEF TypeOK
  <2> QED
    BY <1>1, <1>3, <2>1, UnackedKept
<1>5. CASE s = Head(queue)
  <2>1. x \in Unacked(s)'
    <3>1. AtSlot(t, Len(buffer[t]) + 1, s)'
      BY <1>1, <1>5 DEF AtSlot
    <3>2. x \in Tasks \X Nat /\ x[1] = t /\ x[2] = Len(buffer[t]) + 1
      BY <1>2
    <3> HIDE DEF x
    <3> QED
      BY <1>1, <3>1, <3>2, AtHandMembersNext DEF Unacked
  <2>2. x \notin Unacked(s)
    <3>1. ~AtSlot(t, Len(buffer[t]) + 1, s)
      BY <1>1, <1>2, PipelineAssumption DEF AtSlot
    <3> QED
      BY <3>1, AtHandMembers DEF Unacked
  <2> DEFINE u == Cardinality(Unacked(s))  uu == Cardinality(Unacked(s)')
  <2>3. IsFiniteSet(Unacked(s)) /\ u \in Nat /\ processing[s] \in Nat
    BY UnackedTypes
  <2>4. /\ IsFiniteSet(Unacked(s) \cup {x}) /\ Cardinality(Unacked(s) \cup {x}) = u + 1
    BY <2>2, <2>3, FS_AddElement
  <2>5. IsFiniteSet(Unacked(s)')
    <3>1. Unacked(s)' \subseteq AtHand(s)'
      BY DEF Unacked
    <3> QED
      BY <3>1, FS_Subset
  <2>6. u + 1 <= uu /\ uu \in Nat
    <3>1. Unacked(s) \cup {x} \subseteq Unacked(s)'
      BY <1>3, <2>1
    <3> QED
      BY <2>4, <2>5, <3>1, FS_Subset, FS_CardinalityType
  <2>7. processing'[s] = processing[s] + 1
    BY <1>1, <1>5 DEF TypeOK
  <2> HIDE DEF u, uu
  <2>8. processing[s] <= u => processing'[s] <= uu
    BY <2>3, <2>6, <2>7
  <2> QED
    BY <1>1, <2>8 DEF NotStranded, u, uu
<1> QED
  BY <1>4, <1>5

\* The envelopes at hand of one task that is not about to buffer one are those
\* of its batch.
LEMMA AtHandOfTask ==
    ASSUME TypeOK, PoppedInv, NEW s \in Signals, NEW t \in Tasks, pc[t] # "popped"
    PROVE  LET B == {x \in AtHand(s) : x[1] = t}
           IN  IsFiniteSet(B) /\ Cardinality(B) = Occurrences(buffer[t], s)
<1> DEFINE B == {x \in AtHand(s) : x[1] = t}
           A == {i \in DOMAIN buffer[t] : buffer[t][i] = s}
           f == [i \in A |-> <<t, i>>]
<1>1. /\ buffer[t] \in Seq(Signals) /\ DOMAIN buffer[t] = 1..Len(buffer[t]) /\ Len(buffer[t]) \in Nat
  BY BufferedSignals, LenProperties
<1>2. IsFiniteSet(A)
  <2>1. IsFiniteSet(DOMAIN buffer[t])
    BY <1>1, FS_Interval
  <2> QED
    BY <2>1, FS_Subset
<1>3. \A i : i \in A <=> i \in Nat /\ AtSlot(t, i, s)
  BY <1>1, PipelineAssumption DEF PoppedInv, AtSlot
<1>4. \A x : x \in B <=> \E i \in A : x = <<t, i>>
  <2>1. ASSUME NEW x \in B PROVE \E i \in A : x = <<t, i>>
    <3>1. x \in Tasks \X Nat /\ AtSlot(x[1], x[2], s) /\ x[1] = t
      BY <2>1, AtHandMembers
    <3>2. x = <<t, x[2]>> /\ x[2] \in A
      BY <1>3, <3>1
    <3> QED
      BY <3>2
  <2>2. ASSUME NEW i \in A PROVE <<t, i>> \in B
    <3>1. <<t, i>> \in Tasks \X Nat /\ AtSlot(t, i, s)
      BY <1>3, <2>2
    <3>2. <<t, i>> \in AtHand(s)
      BY <3>1, AtHandMembers
    <3> QED
      BY <3>2
  <2> QED
    BY <2>1, <2>2
<1>5. f \in Bijection(A, B)
  <2>1. f \in [A -> B]
    BY <1>4
  <2>2. \A i, j \in A : f[i] = f[j] => i = j
    OBVIOUS
  <2>3. \A x \in B : \E i \in A : f[i] = x
    BY <1>4
  <2> HIDE DEF f, A, B
  <2> QED
    BY <2>1, <2>2, <2>3 DEF Bijection, Injection, Surjection, IsInjective
<1>6. ExistsBijection(A, B)
  BY <1>5 DEF ExistsBijection
<1>7. IsFiniteSet(B) /\ Cardinality(B) = Cardinality(A)
  <2> HIDE DEF A, B
  <2> QED
    BY <1>2, <1>6, FS_Bijection
<1> QED
  BY <1>7 DEF Occurrences

\* An acknowledgement takes a copy for each place of its batch, or all there are.
LEMMA UnackedAcked ==
    ASSUME TypeOK, TypeOK', PoppedInv, NEW s \in Signals, IsFiniteSet(AtHand(s)),
           NotStranded(s), NEW t \in Tasks, Ack(t)
    PROVE  NotStranded(s)'
<1> DEFINE B == {x \in AtHand(s) : x[1] = t}
           u == Cardinality(Unacked(s))  uu == Cardinality(Unacked(s)')
           n == Occurrences(buffer[t], s)
<1>1. /\ pc[t] = "ack" /\ pc' = [pc EXCEPT ![t] = "acked"] /\ faults' = faults
      /\ UNCHANGED <<popped, buffer>>
      /\ processing'[s] = IF processing[s] > n THEN processing[s] - n ELSE 0
  BY DEF Ack, Goto
<1>2. IsFiniteSet(B) /\ Cardinality(B) = n
  BY <1>1, AtHandOfTask
<1>3. AtHand(s)' = AtHand(s) /\ \A x \in AtHand(s) : x[1] \in Tasks
  BY <1>1 DEF AtHand, AtSlot, Slots
<1>4. Unacked(s) = Unacked(s)' \cup B /\ Unacked(s)' \cap B = {}
  BY <1>1, <1>3 DEF Unacked, TypeOK
<1>5. IsFiniteSet(Unacked(s)')
  <2>1. Unacked(s)' \subseteq AtHand(s)
    BY <1>3 DEF Unacked
  <2> QED
    BY <2>1, FS_Subset
<1>6. uu \in Nat /\ n \in Nat /\ u = uu + n
  <2> HIDE DEF B
  <2>1. Cardinality(Unacked(s)' \cap B) = 0
    BY <1>4, FS_EmptySet
  <2>2. uu \in Nat /\ Cardinality(B) \in Nat
    BY <1>2, <1>5, FS_CardinalityType
  <2>3. u = uu + Cardinality(B) - Cardinality(Unacked(s)' \cap B)
    BY <1>2, <1>4, <1>5, FS_Union
  <2> QED
    BY <1>2, <2>1, <2>2, <2>3
<1>7. processing[s] \in Nat
  BY DEF TypeOK
<1> HIDE DEF u, uu, n, B
<1>8. processing[s] <= u => processing'[s] <= uu
  BY <1>1, <1>6, <1>7
<1> QED
  BY <1>1, <1>8 DEF NotStranded, u, uu

\* The end of a flush forgets what was acknowledged, and nothing else.
LEMMA UnackedFlushed ==
    ASSUME TypeOK, TypeOK', NEW s \in Signals, NEW t \in Tasks, FlushDone(t)
    PROVE  Unacked(s) \subseteq Unacked(s)'
<1>1. pc[t] = "acked"
      /\ \A v \in Tasks \ {t} : pc'[v] = pc[v] /\ popped'[v] = popped[v] /\ buffer'[v] = buffer[v]
  BY DEF FlushDone, EndFlush, TypeOK
<1>2. ASSUME NEW x \in Unacked(s)
      PROVE  x \in Unacked(s)'
  <2>1. x \in Tasks \X Nat /\ AtSlot(x[1], x[2], s) /\ pc[x[1]] # "acked"
    BY <1>2, AtHandMembers DEF Unacked
  <2>2. x[1] \in Tasks \ {t}
    BY <1>1, <2>1
  <2>3. AtSlot(x[1], x[2], s)' /\ pc'[x[1]] # "acked"
    BY <1>1, <2>1, <2>2 DEF AtSlot
  <2> QED
    BY <2>1, <2>3, AtHandMembersNext DEF Unacked
<1> QED
  BY <1>2

\* Buffering the popped envelope keeps it at hand.
LEMMA UnackedBuffered ==
    ASSUME TypeOK, TypeOK', NEW s \in Signals, NEW t \in Tasks, popped[t] \in Signals, Buffer(t)
    PROVE  Unacked(s) \subseteq Unacked(s)'
<1>1. /\ buffer[t] \in Seq(Signals) /\ Len(buffer[t]) \in Nat
      /\ Len(Append(buffer[t], popped[t])) = Len(buffer[t]) + 1
      /\ \A i \in 1..Len(buffer[t]) : Append(buffer[t], popped[t])[i] = buffer[t][i]
      /\ Append(buffer[t], popped[t])[Len(buffer[t]) + 1] = popped[t]
  BY BufferedSignals, LenProperties, AppendProperties
<1>2. buffer'[t] = Append(buffer[t], popped[t]) /\ pc'[t] \in {"record", "idle"}
      /\ \A v \in Tasks \ {t} : pc'[v] = pc[v] /\ popped'[v] = popped[v] /\ buffer'[v] = buffer[v]
  BY DEF Buffer, TypeOK
<1>3. ASSUME NEW x \in Unacked(s)
      PROVE  x \in Unacked(s)'
  <2>1. x \in Tasks \X Nat /\ AtSlot(x[1], x[2], s) /\ pc[x[1]] # "acked"
    BY <1>3, AtHandMembers DEF Unacked
  <2>2. CASE x[1] = t
    <3>1. x[2] \in 1..Len(buffer[t]) + 1 /\ Append(buffer[t], popped[t])[x[2]] = s
      BY <1>1, <2>1, <2>2 DEF AtSlot
    <3>2. AtSlot(x[1], x[2], s)' /\ pc'[x[1]] # "acked"
      BY <1>1, <1>2, <2>2, <3>1 DEF AtSlot
    <3> QED
      BY <2>1, <3>2, AtHandMembersNext DEF Unacked
  <2>3. CASE x[1] # t
    <3>1. AtSlot(x[1], x[2], s)' /\ pc'[x[1]] # "acked"
      BY <1>2, <2>1, <2>3 DEF AtSlot
    <3> QED
      BY <2>1, <3>1, AtHandMembersNext DEF Unacked
  <2> QED
    BY <2>2, <2>3
<1> QED
  BY <1>3

\* Every step keeps the processing list free of stranded envelopes.
LEMMA NextStrandedInv == StrandedInv /\ [Next]_vars => StrandedInv'
<1> SUFFICES ASSUME StrandedInv, [Next]_vars PROVE StrandedInv'
  OBVIOUS
<1>1. /\ TypeOK /\ TypeOK' /\ FlushDiscipline /\ PoppedInv /\ OffWhileDown /\ BudgetInv'
      /\ \A s \in Signals : IsFiniteSet(AtHand(s)) /\ IsFiniteSet(AtHand(s)') /\ NotStranded(s)
  BY NextBudgetInv DEF StrandedInv, BudgetInv, PipelineInv, Budget
<1>2. ASSUME NEW s \in Signals PROVE NotStranded(s)'
  <2>0. processing[s] \in Nat /\ faults \in Nat
    BY <1>1, PipelineAssumption DEF TypeOK
  <2>1. CASE faults' = faults + 1
    BY <2>0, <2>1 DEF NotStranded
  <2>2. CASE /\ faults' = faults /\ processing'[s] <= processing[s]
             /\ UNCHANGED <<popped, buffer>>
             /\ \A u \in Tasks : pc[u] # "acked" => pc'[u] # "acked"
    BY <1>1, <2>2, UnackedMoves, UnackedKept
  <2>3. ASSUME NEW e \in Signals, Request(e) \/ PushTimeout(e)
        PROVE  NotStranded(s)'
    BY <2>0, <2>1, <2>2, <2>3 DEF Request, Ingest, Enqueue, Push, PushTimeout, Fault, taskVars, listVars
  <2>4. ASSUME NEW p \in Procs, Process(p) \/ Stop(p) \/ Crash(p)
        PROVE  NotStranded(s)'
    <3>1. CASE Stop(p) \/ Crash(p)
      BY <2>1, <3>1 DEF Stop, Crash, Fault
    <3>2. CASE Start(p) \/ Stopped(p)
      BY <2>0, <2>2, <3>2 DEF Start, Stopped, taskVars, listVars
    <3>3. CASE RecoverCheck(p)
      <4>1. \A u \in Tasks : pc[u] # "acked" => pc'[u] # "acked"
        BY <3>3 DEF RecoverCheck
      <4> QED
        BY <2>0, <2>2, <3>3, <4>1 DEF RecoverCheck, listVars
    <3>4. CASE RecoverMove(p)
      <4>1. processing'[s] <= processing[s]
        <5>1. CASE UNCHANGED listVars
          BY <2>0, <5>1 DEF listVars
        <5>2. ASSUME NEW e \in Signals, processing' = [processing EXCEPT ![e] = @ - 1]
              PROVE  processing'[s] <= processing[s]
          BY <1>1, <2>0, <5>2 DEF TypeOK
        <5> QED
          BY <3>4, <5>1, <5>2 DEF RecoverMove
      <4> QED
        BY <2>2, <3>4, <4>1 DEF RecoverMove, taskVars
    <3> QED
      BY <2>4, <3>1, <3>2, <3>3, <3>4 DEF Process
  <2>5. ASSUME NEW t \in Tasks,
               \/ Work(t) \/ IdlePoll(t) \/ DequeueError(t)
               \/ RecordFails(t) \/ ResolveFails(t) \/ AckFails(t)
        PROVE  NotStranded(s)'
    <3>1. CASE DequeueError(t) \/ RecordFails(t) \/ ResolveFails(t) \/ AckFails(t)
      BY <2>1, <3>1 DEF DequeueError, RecordFails, ResolveFails, AckFails, Fault
    <3>2. CASE Dequeue(t)
      BY <1>1, <3>2, UnackedPopped
    <3>3. CASE Ack(t)
      BY <1>1, <3>3, UnackedAcked
    <3>4. CASE FlushDone(t)
      <4>1. faults' = faults /\ processing'[s] <= processing[s]
        BY <2>0, <3>4 DEF FlushDone, listVars
      <4> QED
        BY <1>1, <3>4, <4>1, UnackedFlushed, UnackedKept
    <3>5. CASE Buffer(t)
      <4>1. faults' = faults /\ processing'[s] <= processing[s] /\ popped[t] \in Signals
        BY <1>1, <2>0, <3>5 DEF Buffer, listVars, FlushDiscipline, FlushOK, TypeOK
      <4> QED
        BY <1>1, <3>5, <4>1, UnackedBuffered, UnackedKept
    <3>6. CASE BatchTimeout(t) \/ BackoffOver(t) \/ Record(t) \/ Resolve(t)
      <4>1. \A u \in Tasks : pc[u] # "acked" => pc'[u] # "acked"
        BY <1>1, <3>6 DEF BatchTimeout, BackoffOver, Record, Resolve, Goto, TypeOK
      <4> QED
        BY <2>0, <2>2, <3>6, <4>1 DEF BatchTimeout, BackoffOver, Record, Resolve, listVars
    <3>7. CASE IdlePoll(t)
      BY <2>0, <2>2, <3>7 DEF IdlePoll, vars, taskVars, listVars
    <3> QED
      BY <2>5, <3>1, <3>2, <3>3, <3>4, <3>5, <3>6, <3>7 DEF Work
  <2>6. CASE UNCHANGED vars
    BY <2>0, <2>2, <2>6 DEF vars, taskVars, listVars
  <2> QED
    BY <2>3, <2>4, <2>5, <2>6 DEF Next
<1> QED
  BY <1>1, <1>2 DEF StrandedInv

\* The processing list does not leak, for any number of processes and tasks,
\* any batch size, and however starting processes take from it what others are
\* working on: nothing is stranded in it before something fails.
THEOREM OnlyFailuresStrand == Spec => []StrandedByFailure
<1>1. Init => StrandedInv
  <2> SUFFICES ASSUME Init PROVE StrandedInv
    OBVIOUS
  <2>1. BudgetInv
    BY InitBudgetInv
  <2>2. ASSUME NEW s \in Signals PROVE NotStranded(s)
    <3>1. IsFiniteSet(AtHand(s)) /\ TypeOK
      BY <2>1 DEF BudgetInv, PipelineInv, Budget
    <3>2. Cardinality(Unacked(s)) \in Nat
      BY <3>1, UnackedTypes
    <3>3. processing[s] = 0
      BY DEF Init
    <3> QED
      BY <3>2, <3>3 DEF NotStranded
  <2> QED
    BY <2>1, <2>2 DEF StrandedInv
<1>2. StrandedInv => StrandedByFailure
  BY DEF StrandedInv, StrandedByFailure, NotStranded
<1> QED
  BY <1>1, <1>2, NextStrandedInv, PTL DEF Spec
=============================================================================
