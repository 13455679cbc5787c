------------------------ MODULE DashboardCacheProofs ------------------------
(* Theorems about DashboardCache, for any number of readers and writers,   *)
(* any TTL and any bound on reads, writes and errors.                      *)
EXTENDS DashboardCache, TLAPS

\* The constants, and what arithmetic needs of Bound.
LEMMA Numbers ==
    /\ TTL \in Nat /\ TTL >= 1 /\ MaxRead \in Nat /\ MaxVersion \in Nat /\ MaxFaults \in Nat
    /\ Bound \in Nat /\ Bound = MaxRead + TTL - 1
    /\ None \notin Versions
    /\ 0 \in Versions /\ 0 \in 0..TTL - 1 /\ 0 \in 0..MaxRead /\ 0 \in 0..MaxFaults
    /\ 0 \in 0..Bound + 1
BY CacheAssumption DEF Bound, None, Versions

-----------------------------------------------------------------------------
(* Types.                                                                  *)

\* Replaced versions stay within their range as they grow older.
LEMMA OlderInRange ==
    ASSUME TypeOK, NEW v \in Versions
    PROVE  /\ Promise!Older(v) \in 0..Bound + 1
           /\ Promise!Older(v) >= retired[v]
           /\ Promise!Older(v) <= retired[v] + 1
           /\ v >= version => Promise!Older(v) = retired[v]
BY Numbers DEF TypeOK, Promise!Older, Versions

\* The readers' steps keep the types.
LEMMA ReaderTypes ==
    ASSUME TypeOK, NEW r \in Readers, Ask(r) \/ Read(r) \/ ReadFails(r)
    PROVE  TypeOK'
<1>1. CASE Ask(r)
  BY <1>1 DEF TypeOK, Ask, ReaderAt, cacheVars, dbVars, writerVars
<1>2. CASE Hit(r)
  BY <1>2 DEF TypeOK, Hit, ReaderAt, cacheVars, dbVars, writerVars
<1>3. CASE Miss(r)
  BY <1>3 DEF TypeOK, Miss, ReaderAt, cacheVars, dbVars, writerVars
<1>4. CASE Select(r)
  BY <1>4 DEF TypeOK, Select, ReaderAt, cacheVars, dbVars, writerVars
<1>5. CASE Fill(r)
  BY <1>5, Numbers DEF TypeOK, Fill, ReaderAt, Setex, Forget, dbVars, writerVars, Versions
<1>6. CASE ReadFails(r)
  <2>1. faults' \in 0..MaxFaults BY <1>6, Numbers DEF TypeOK, ReadFails, Fault
  <2>2. cached' \in Versions \cup {None} /\ age' \in 0..TTL - 1
    BY <1>6, Numbers DEF TypeOK, ReadFails, Setex, cacheVars
  <2>3. late' \in BOOLEAN
    <3>1. CASE UNCHANGED cacheVars BY <3>1 DEF TypeOK, cacheVars
    <3>2. CASE Setex(r) BY <3>2 DEF Setex
    <3>3. QED BY <1>6, <3>1, <3>2 DEF ReadFails
  <2>4. /\ rows' \in [Readers -> Versions]
        /\ held' \in [Readers -> 0..MaxRead]
        /\ overtaken' \subseteq Readers
        /\ rpc' \in [Readers -> {"idle", "get", "select", "setex"}]
    BY <1>6, Numbers DEF TypeOK, ReadFails, Forget, ReaderAt
  <2>5. QED
    BY <1>6, <2>1, <2>2, <2>3, <2>4 DEF TypeOK, ReadFails, ReaderAt, dbVars, writerVars
<1>7. QED BY <1>1, <1>2, <1>3, <1>4, <1>5, <1>6 DEF Read

\* A deletion keeps the types.
LEMMA DeleteTypes ==
    ASSUME TypeOK, NEW key \in Lists, DeleteKey(key)
    PROVE  /\ cached' \in Versions \cup {None}
           /\ age' \in 0..TTL - 1
           /\ late' \in BOOLEAN
           /\ overtaken' \subseteq Readers
           /\ UNCHANGED <<rpc, rows, held>>
<1>1. CASE key = list
  BY <1>1, Numbers DEF TypeOK, DeleteKey, Delete
<1>2. CASE key # list
  BY <1>2 DEF TypeOK, DeleteKey, cacheVars, readerVars
<1>3. QED BY <1>1, <1>2

\* A transaction keeps the types.
LEMMA TransactionTypes ==
    ASSUME TypeOK, NEW w \in Writers, Transaction(w)
    PROVE  /\ version' \in Versions
           /\ version' = IF touches[w] THEN version + 1 ELSE version
           /\ UNCHANGED retired
BY Numbers DEF TypeOK, Transaction, Versions

\* The end of an operation keeps the types of its locals.
LEMMA FinishTypes ==
    ASSUME TypeOK, NEW w \in Writers, Finish(w)
    PROVE  /\ touches' \in [Writers -> BOOLEAN]
           /\ creator' \in [Writers -> BOOLEAN]
           /\ wrote' \in [Writers -> Versions]
BY Numbers DEF TypeOK, Finish

\* So do the writers' steps.
LEMMA WriterTypes ==
    ASSUME TypeOK, NEW w \in Writers,
           \/ \E changes, creates \in BOOLEAN : Begin(w, changes, creates)
           \/ Change(w) \/ DeleteTimeout(w) \/ WriteFails(w)
    PROVE  TypeOK'
<1>1. ASSUME NEW changes \in BOOLEAN, NEW creates \in BOOLEAN, Begin(w, changes, creates)
      PROVE  TypeOK'
  BY <1>1 DEF TypeOK, Begin, WriterAt, cacheVars, dbVars, readerVars
<1>2. CASE Commit(w)
  <2>1. /\ version' \in Versions
        /\ retired' = retired
    BY <1>2, TransactionTypes DEF Commit
  <2>2. wrote' \in [Writers -> Versions]
    BY <1>2, <2>1, Numbers DEF TypeOK, Commit
  <2>3. owed' \in Versions
    BY <1>2, <2>1 DEF TypeOK, Commit
  <2>4. wpc' \in [Writers -> {"idle", "commit", "delActive", "delHistory", "publish"}]
    BY <1>2 DEF TypeOK, Commit, WriterAt
  <2>5. QED
    BY <1>2, <2>1, <2>2, <2>3, <2>4 DEF TypeOK, Commit, WriterAt, cacheVars, readerVars
<1>3. CASE Conflict(w)
  BY <1>3 DEF TypeOK, Conflict, WriterAt, cacheVars, dbVars, readerVars
<1>4. CASE DeleteActive(w)
  <2>1. DeleteKey("active") BY <1>4 DEF DeleteActive
  <2>2. QED BY <1>4, <2>1, DeleteTypes DEF TypeOK, DeleteActive, WriterAt, dbVars, Lists
<1>5. CASE DeleteHistory(w)
  <2>1. DeleteKey("history") BY <1>5 DEF DeleteHistory
  <2>2. QED BY <1>5, <2>1, DeleteTypes DEF TypeOK, DeleteHistory, WriterAt, dbVars, Lists
<1>6. CASE Publish(w)
  BY <1>6, FinishTypes, Numbers
  DEF TypeOK, Publish, WriterAt, cacheVars, dbVars, readerVars
<1>7. CASE DeleteTimeout(w)
  <2>1. PICK key \in Lists : DeleteKey(key) BY <1>7 DEF DeleteTimeout, Lists
  <2>2. QED
    BY <1>7, <2>1, DeleteTypes, Numbers DEF TypeOK, DeleteTimeout, Fault, dbVars, writerVars
<1>8. CASE WriteFails(w)
  <2>1. version' \in Versions /\ retired' = retired
    BY <1>8, TransactionTypes DEF WriteFails, dbVars, TypeOK
  <2>2. owed' \in Versions BY <1>8, <2>1 DEF WriteFails, TypeOK
  <2>3. faults' \in 0..MaxFaults BY <1>8, Numbers DEF WriteFails, Fault, TypeOK
  <2>4. QED
    BY <1>8, <2>1, <2>2, <2>3, FinishTypes
    DEF TypeOK, WriteFails, WriterAt, cacheVars, readerVars
<1>9. QED BY <1>1, <1>2, <1>3, <1>4, <1>5, <1>6, <1>7, <1>8 DEF Change

\* So does the passing of time.
LEMMA TickTypes ==
    ASSUME TypeOK, Tick
    PROVE  TypeOK'
<1>1. retired' \in [Versions -> 0..Bound + 1]
  BY OlderInRange DEF Tick, TypeOK
<1>2. held' \in [Readers -> 0..MaxRead]
  BY Numbers DEF Tick, TypeOK
<1>3. /\ cached' \in Versions \cup {None}
      /\ age' \in 0..TTL - 1
      /\ late' \in BOOLEAN
  <2>1. Expire BY DEF Tick
  <2>2. CASE cached # None /\ age + 1 < TTL
    BY <2>1, <2>2, Numbers DEF Expire, TypeOK
  <2>3. CASE ~(cached # None /\ age + 1 < TTL)
    BY <2>1, <2>3, Numbers DEF Expire, TypeOK
  <2>4. QED BY <2>2, <2>3
<1>4. QED BY <1>1, <1>2, <1>3 DEF Tick, TypeOK, writerVars

\* Every step keeps the types.
LEMMA TypeStep == TypeOK /\ [Next]_vars => TypeOK'
<1> SUFFICES ASSUME TypeOK, [Next]_vars PROVE TypeOK' OBVIOUS
<1>1. CASE UNCHANGED vars
  BY <1>1 DEF TypeOK, vars, dbVars, cacheVars, readerVars, writerVars
<1>2. CASE Next
  BY <1>2, ReaderTypes, WriterTypes, TickTypes DEF Next
<1>3. QED BY <1>1, <1>2

\* They hold in the beginning.
LEMMA TypeInit == Init => TypeOK
<1> SUFFICES ASSUME Init PROVE TypeOK OBVIOUS
<1>1. retired \in [Versions -> 0..Bound + 1] BY Numbers DEF Init
<1>2. QED BY <1>1, Numbers DEF Init, TypeOK

-----------------------------------------------------------------------------

\* The variables of the lists, their copies in Redis, the requests and the
\* operations keep their types.
THEOREM TypeCorrect == Spec => []TypeOK
BY TypeInit, TypeStep, PTL DEF Spec

-----------------------------------------------------------------------------
(* How old a list can be.  A version is replaced after it is read; from    *)
(* then on it ages no faster than the reader that holds it, and the copy.  *)

\* A version that is not replaced yet has no age.
CurrentIsNew == \A v \in Versions : v >= version => retired[v] = 0

\* A reader holds a version that was replaced after its SELECT, if at all.
RowsInv ==
    \A r \in Readers :
        /\ rpc[r] # "setex" => held[r] = 0
        /\ rpc[r] = "setex" => rows[r] <= version /\ retired[rows[r]] <= held[r]

AgeInv == TypeOK /\ CurrentIsNew /\ RowsInv /\ StalenessBounded

\* What a reader has read is not older than a read may take.
LEMMA RowsAge ==
    ASSUME AgeInv, NEW r \in Readers, rpc[r] = "setex"
    PROVE  /\ rows[r] \in Versions
           /\ rows[r] <= version
           /\ retired[rows[r]] <= MaxRead
<1>1. held[r] <= MaxRead /\ held[r] \in Nat /\ rows[r] \in Versions
  BY Numbers DEF AgeInv, TypeOK
<1>2. retired[rows[r]] \in Nat
  BY <1>1, Numbers DEF AgeInv, TypeOK
<1>3. QED BY <1>1, <1>2, Numbers DEF AgeInv, RowsInv

\* Storing it keeps the bound.
LEMMA SetexAge ==
    ASSUME AgeInv, NEW r \in Readers, rpc[r] = "setex", Setex(r), UNCHANGED dbVars
    PROVE  StalenessBounded'
<1>1. cached' = rows[r] /\ age' = 0 /\ version' = version /\ retired' = retired
  BY DEF Setex, dbVars
<1>2. retired[rows[r]] \in Nat
  BY RowsAge, Numbers DEF AgeInv, TypeOK
<1>3. QED BY <1>1, <1>2, RowsAge, Numbers DEF StalenessBounded

\* The readers' steps keep it.
LEMMA ReaderAge ==
    ASSUME AgeInv, NEW r \in Readers, Ask(r) \/ Read(r) \/ ReadFails(r)
    PROVE  AgeInv'
<1>1. TypeOK' BY ReaderTypes DEF AgeInv
<1>2. UNCHANGED dbVars
  BY DEF Ask, Read, Hit, Miss, Select, Fill, ReadFails, ReaderAt
<1>3. CurrentIsNew' BY <1>2 DEF AgeInv, CurrentIsNew, dbVars
<1>4. RowsInv'
  <2>1. CASE Ask(r) \/ Hit(r) \/ Miss(r)
    BY <2>1, <1>2 DEF AgeInv, RowsInv, Ask, Hit, Miss, ReaderAt, TypeOK, dbVars
  <2>2. CASE Select(r)
    <3>1. version \in Versions /\ retired[version] = 0
      BY Numbers DEF AgeInv, TypeOK, CurrentIsNew, Versions
    <3>2. rpc[r] = "select" /\ held[r] = 0
      BY <2>2 DEF Select, ReaderAt, AgeInv, RowsInv
    <3>3. QED
      BY <2>2, <3>1, <3>2, <1>2, Numbers
      DEF AgeInv, RowsInv, Select, ReaderAt, TypeOK, dbVars, Versions
  <2>3. CASE Fill(r) \/ ReadFails(r)
    BY <2>3, <1>2 DEF AgeInv, RowsInv, Fill, ReadFails, Forget, ReaderAt, TypeOK, dbVars
  <2>4. QED BY <2>1, <2>2, <2>3 DEF Read
<1>5. StalenessBounded'
  <2>1. CASE UNCHANGED cacheVars
    BY <2>1, <1>2 DEF AgeInv, StalenessBounded, cacheVars, dbVars
  <2>2. CASE rpc[r] = "setex" /\ Setex(r)
    BY <2>2, <1>2, SetexAge
  <2>3. QED BY <2>1, <2>2 DEF Ask, Read, Hit, Miss, Select, Fill, ReadFails, ReaderAt
<1>6. QED BY <1>1, <1>3, <1>4, <1>5 DEF AgeInv

\* What a writer's step does to the list and its copy.
LEMMA WriterEffect ==
    ASSUME TypeOK, NEW w \in Writers,
           \/ \E changes, creates \in BOOLEAN : Begin(w, changes, creates)
           \/ Change(w) \/ DeleteTimeout(w) \/ WriteFails(w)
    PROVE  /\ retired' = retired
           /\ version' \in {version, version + 1}
           /\ UNCHANGED <<rpc, rows, held>>
           /\ UNCHANGED <<cached, age>> \/ cached' = None
<1>1. CASE \E changes, creates \in BOOLEAN : Begin(w, changes, creates)
  BY <1>1 DEF Begin, dbVars, cacheVars, readerVars
<1>2. CASE Commit(w)
  BY <1>2, TransactionTypes DEF Commit, cacheVars, readerVars
<1>3. CASE Conflict(w)
  BY <1>3 DEF Conflict, dbVars, cacheVars, readerVars
<1>4. CASE DeleteActive(w) \/ DeleteHistory(w) \/ DeleteTimeout(w)
  BY <1>4
  DEF DeleteActive, DeleteHistory, DeleteTimeout, DeleteKey, Delete, dbVars, cacheVars, readerVars
<1>5. CASE Publish(w)
  BY <1>5 DEF Publish, dbVars, cacheVars, readerVars
<1>6. CASE WriteFails(w)
  BY <1>6, TransactionTypes DEF WriteFails, dbVars, cacheVars, readerVars
<1>7. QED BY <1>1, <1>2, <1>3, <1>4, <1>5, <1>6 DEF Change

\* The writers' steps keep the bound.
LEMMA WriterAge ==
    ASSUME AgeInv, NEW w \in Writers,
           \/ \E changes, creates \in BOOLEAN : Begin(w, changes, creates)
           \/ Change(w) \/ DeleteTimeout(w) \/ WriteFails(w)
    PROVE  AgeInv'
<1>1. TypeOK' BY WriterTypes DEF AgeInv
<1>2. /\ retired' = retired
      /\ version' \in {version, version + 1}
      /\ UNCHANGED <<rpc, rows, held>>
      /\ UNCHANGED <<cached, age>> \/ cached' = None
  BY WriterEffect DEF AgeInv
<1>3. version \in Nat /\ version' >= version
  BY <1>2, Numbers DEF AgeInv, TypeOK, Versions
<1>4. CurrentIsNew'
  BY <1>2, <1>3, Numbers DEF AgeInv, CurrentIsNew, Versions
<1>5. RowsInv'
  BY <1>2, <1>3, Numbers DEF AgeInv, RowsInv, TypeOK, Versions
<1>6. StalenessBounded'
  BY <1>2, <1>3, Numbers DEF AgeInv, StalenessBounded, TypeOK, Versions
<1>7. QED BY <1>1, <1>4, <1>5, <1>6 DEF AgeInv

\* Time passes for a version, its reader and its copy alike.
LEMMA TickAge ==
    ASSUME AgeInv, Tick
    PROVE  AgeInv'
<1>1. TypeOK' BY TickTypes DEF AgeInv
<1>2. version' = version /\ rpc' = rpc /\ rows' = rows
  BY DEF Tick
<1>3. ASSUME NEW v \in Versions
      PROVE  /\ retired'[v] \in Nat /\ retired[v] \in Nat
             /\ retired'[v] <= retired[v] + 1
             /\ v >= version => retired'[v] = retired[v]
  BY OlderInRange, <1>1, Numbers DEF AgeInv, TypeOK, Tick
<1>4. CurrentIsNew'
  BY <1>2, <1>3 DEF AgeInv, CurrentIsNew
<1>5. RowsInv'
  <2>1. SUFFICES ASSUME NEW r \in Readers
                 PROVE  /\ rpc[r] # "setex" => held'[r] = 0
                        /\ rpc[r] = "setex" =>
                             rows[r] <= version /\ retired'[rows[r]] <= held'[r]
    BY <1>2 DEF RowsInv
  <2>2. held[r] \in Nat /\ rows[r] \in Versions
    BY Numbers DEF AgeInv, TypeOK
  <2>3. held'[r] = IF rpc[r] = "setex" THEN held[r] + 1 ELSE held[r]
    BY DEF Tick
  <2>4. QED BY <2>2, <2>3, <1>3 DEF AgeInv, RowsInv
<1>6. StalenessBounded'
  <2>1. Expire BY DEF Tick
  <2>2. CASE cached # None /\ age + 1 < TTL
    <3>1. cached' = cached /\ age' = age + 1 BY <2>1, <2>2 DEF Expire
    <3>2. cached \in Versions /\ age \in Nat BY <2>2, Numbers DEF AgeInv, TypeOK
    <3>3. QED BY <2>2, <3>1, <3>2, <1>2, <1>3, Numbers DEF AgeInv, StalenessBounded
  <2>3. CASE ~(cached # None /\ age + 1 < TTL)
    BY <2>1, <2>3 DEF Expire, StalenessBounded
  <2>4. QED BY <2>2, <2>3
<1>7. QED BY <1>1, <1>4, <1>5, <1>6 DEF AgeInv

\* The bound is an invariant.
LEMMA AgeInvariant == Spec => []AgeInv
<1>1. Init => AgeInv
  <2> SUFFICES ASSUME Init PROVE AgeInv OBVIOUS
  <2>1. CurrentIsNew BY DEF Init, CurrentIsNew
  <2>2. RowsInv BY DEF Init, RowsInv
  <2>3. StalenessBounded BY DEF Init, StalenessBounded
  <2>4. QED BY <2>1, <2>2, <2>3, TypeInit DEF AgeInv
<1>2. AgeInv /\ [Next]_vars => AgeInv'
  <2> SUFFICES ASSUME AgeInv, [Next]_vars PROVE AgeInv' OBVIOUS
  <2>1. CASE UNCHANGED vars
    <3>1. TypeOK' BY <2>1, TypeStep DEF AgeInv
    <3>2. QED
      BY <2>1, <3>1
      DEF AgeInv, CurrentIsNew, RowsInv, StalenessBounded, vars, dbVars, cacheVars, readerVars
  <2>2. CASE Next
    BY <2>2, ReaderAge, WriterAge, TickAge DEF Next
  <2>3. QED BY <2>1, <2>2
<1>3. QED BY <1>1, <1>2, PTL DEF Spec

\* A copy is never older than its age and the longest read together, whatever
\* the readers and writers do and whatever fails.
THEOREM NeverTooStale == Spec => []StalenessBounded
<1>1. AgeInv => StalenessBounded BY DEF AgeInv
<1>2. QED BY <1>1, AgeInvariant, PTL

-----------------------------------------------------------------------------
(* The promise.                                                            *)

\* Every step is one of ListService, or hidden from it.
LEMMA PromisedStep == AgeInv /\ [Next]_vars => [Promise!Next]_(Promise!lvars)
<1> SUFFICES ASSUME AgeInv, [Next]_vars PROVE [Promise!Next]_(Promise!lvars)
  OBVIOUS
<1> USE DEF Promise!lvars
<1>1. Promise!Versions = Versions BY DEF Promise!Versions, Versions
<1>2. ASSUME NEW v \in Versions, v <= version, retired[v] <= Bound, served' = v, UNCHANGED dbVars
      PROVE  Promise!Next
  BY <1>1, <1>2 DEF Promise!Next, Promise!Answer, Promise!Servable, dbVars
<1>3. ASSUME NEW r \in Readers, Ask(r) \/ Read(r) \/ ReadFails(r)
      PROVE  [Promise!Next]_(Promise!lvars)
  <2>1. UNCHANGED dbVars
    BY <1>3 DEF Ask, Read, Hit, Miss, Select, Fill, ReadFails, ReaderAt
  <2>2. CASE Hit(r)
    <3>1. served' = cached /\ cached \in Versions /\ cached <= version
      BY <2>2 DEF Hit, AgeInv, TypeOK, StalenessBounded
    <3>2. retired[cached] <= Bound
      BY <2>2, <3>1, Numbers DEF Hit, AgeInv, TypeOK, StalenessBounded
    <3>3. QED BY <1>2, <2>1, <3>1, <3>2
  <2>3. CASE Fill(r)
    <3>1. rpc[r] = "setex" /\ served' = rows[r] BY <2>3 DEF Fill, ReaderAt
    <3>2. rows[r] \in Versions /\ rows[r] <= version /\ retired[rows[r]] <= MaxRead
      BY <3>1, RowsAge
    <3>3. retired[rows[r]] <= Bound
      BY <3>2, Numbers DEF AgeInv, TypeOK
    <3>4. QED BY <1>2, <2>1, <3>1, <3>2, <3>3
  <2>4. CASE Ask(r) \/ Miss(r) \/ Select(r) \/ ReadFails(r)
    BY <2>1, <2>4 DEF Ask, Miss, Select, ReadFails, dbVars
  <2>5. QED BY <1>3, <2>2, <2>3, <2>4 DEF Read
<1>4. ASSUME NEW w \in Writers,
             \/ \E changes, creates \in BOOLEAN : Begin(w, changes, creates)
             \/ Change(w) \/ DeleteTimeout(w) \/ WriteFails(w)
      PROVE  [Promise!Next]_(Promise!lvars)
  <2>1. retired' = retired /\ version' \in {version, version + 1}
    BY <1>4, WriterEffect DEF AgeInv
  <2>2. served' = served
    BY <1>4
    DEF Begin, Change, Commit, Conflict, DeleteActive, DeleteHistory, Publish, DeleteTimeout,
        WriteFails, WriterAt
  <2>3. version' \in Versions /\ version \in Versions
    BY <1>4, WriterTypes DEF AgeInv, TypeOK
  <2>4. CASE version' = version + 1
    <3>1. version < MaxVersion BY <2>3, <2>4, Numbers DEF Versions
    <3>2. QED BY <2>1, <2>2, <2>4, <3>1 DEF Promise!Next, Promise!Write
  <2>5. CASE version' = version
    BY <2>1, <2>2, <2>5
  <2>6. QED BY <2>1, <2>4, <2>5
<1>5. CASE Tick
  <2>1. retired' = [v \in Promise!Versions |-> Promise!Older(v)]
    BY <1>5, <1>1 DEF Tick
  <2>2. version' = version /\ served' = Promise!NoAnswer
    BY <1>5 DEF Tick, None, Promise!NoAnswer
  <2>3. QED BY <2>1, <2>2 DEF Promise!Next, Promise!Tick
<1>6. CASE UNCHANGED vars
  BY <1>6 DEF vars, dbVars
<1>7. QED BY <1>3, <1>4, <1>5, <1>6 DEF Next

\* The cached, racing, failing reads implement ListService: every answer was in
\* the database at most Bound ticks before.
THEOREM ListServiceImplemented == Spec => ImplementsListService
<1>1. Init => Promise!Init
  BY DEF Init, Promise!Init, Promise!Versions, Versions, None, Promise!NoAnswer
<1>2. QED
  BY <1>1, PromisedStep, AgeInvariant, PTL DEF Spec, ImplementsListService, Promise!Spec

-----------------------------------------------------------------------------
(* Why a list can be behind.  The argument is about lists that have been   *)
(* read as much as about the copy: what excuses the one excuses the other  *)
(* when it is stored.                                                      *)

\* A write that version v lacks has no deletion after it, or not yet.
Excused(v) ==
    \/ v < owed
    \/ \E w \in Writers : DeletionDue(w) /\ v < wrote[w]

RowsExcused ==
    \A r \in Readers : rpc[r] = "setex" /\ rows[r] < version =>
        r \in overtaken \/ Excused(rows[r])

ReasonInv == TypeOK /\ RowsExcused /\ StaleForAReason

\* The readers' steps leave the writers, and so the excuses, alone.
LEMMA ReaderReason ==
    ASSUME ReasonInv, NEW r \in Readers, Ask(r) \/ Read(r) \/ ReadFails(r)
    PROVE  ReasonInv'
<1>1. TypeOK' BY ReaderTypes DEF ReasonInv
<1>2. UNCHANGED <<list, version, wpc, creator, wrote, owed>>
  BY DEF Ask, Read, Hit, Miss, Select, Fill, ReadFails, ReaderAt, dbVars, writerVars
<1>3. ASSUME NEW v \in Versions
      PROVE  Excused(v)' <=> Excused(v)
  BY <1>2 DEF Excused, DeletionDue
<1>4. \A q \in Readers : q # r =>
        /\ rpc'[q] = rpc[q] /\ rows'[q] = rows[q]
        /\ q \in overtaken => q \in overtaken'
  BY DEF Ask, Read, Hit, Miss, Select, Fill, ReadFails, ReaderAt, Forget, ReasonInv, TypeOK
<1>5. rpc'[r] = "setex" => rows'[r] = version'
  BY <1>2
  DEF Ask, Read, Hit, Miss, Select, Fill, ReadFails, ReaderAt, ReasonInv, TypeOK
<1>6. RowsExcused'
  <2>1. SUFFICES ASSUME NEW q \in Readers, NEW v \in Versions,
                        rpc'[q] = "setex", v = rows'[q], v < version'
                 PROVE  q \in overtaken' \/ Excused(v)'
    BY <1>1 DEF TypeOK, RowsExcused, Excused, Versions
  <2>2. v \in Nat /\ version' \in Nat
    BY <1>1, Numbers DEF TypeOK, Versions
  <2>3. q # r BY <1>5, <2>1, <2>2
  <2>4. rpc[q] = "setex" /\ v = rows[q] /\ v < version
    BY <1>2, <1>4, <2>1, <2>3
  <2>5. q \in overtaken \/ Excused(v)
    BY <2>4 DEF ReasonInv, RowsExcused
  <2>6. QED BY <1>3, <1>4, <2>3, <2>5
<1>7. StaleForAReason'
  <2>1. CASE UNCHANGED cacheVars
    BY <2>1, <1>2 DEF ReasonInv, StaleForAReason, DeletionDue, cacheVars
  <2>2. CASE rpc[r] = "setex" /\ Setex(r)
    <3>1. cached' = rows[r] /\ (r \in overtaken => late') BY <2>2 DEF Setex
    <3>2. QED
      BY <2>2, <3>1, <1>2
      DEF ReasonInv, RowsExcused, Excused, StaleForAReason, DeletionDue
  <2>3. QED BY <2>1, <2>2 DEF Ask, Read, Hit, Miss, Select, Fill, ReadFails, ReaderAt
<1>8. QED BY <1>1, <1>6, <1>7 DEF ReasonInv

\* After a step of a writer, every list that was behind for a reason still is,
\* and so are those that a commit has put behind.
Kept ==
    \/ version' = version /\ \A v \in Versions : v < version /\ Excused(v) => Excused(v)'
    \/ \A v \in Versions : v < version' => Excused(v)'

\* It is enough that the writer at work owes nothing, or pays for it.
LEMMA KeptIf ==
    ASSUME TypeOK, NEW w \in Writers, UNCHANGED list, version' = version,
           \A q \in Writers : q # w =>
               wpc'[q] = wpc[q] /\ creator'[q] = creator[q] /\ wrote'[q] = wrote[q],
           owed' >= owed, owed' \in Versions,
           DeletionDue(w) =>
               \/ owed' >= wrote[w]
               \/ DeletionDue(w)' /\ wrote'[w] = wrote[w]
    PROVE  Kept
<1>1. SUFFICES ASSUME NEW v \in Versions, v < version, Excused(v)
               PROVE  Excused(v)'
  BY DEF Kept
<1>2. v \in Nat /\ owed \in Nat /\ owed' \in Nat /\ wrote[w] \in Nat
  BY Numbers DEF TypeOK, Versions
<1>3. CASE v < owed
  BY <1>2, <1>3 DEF Excused
<1>4. CASE \E q \in Writers : DeletionDue(q) /\ v < wrote[q]
  <2>1. PICK q \in Writers : DeletionDue(q) /\ v < wrote[q] BY <1>4
  <2>2. CASE q = w
    BY <1>2, <2>1, <2>2 DEF Excused
  <2>3. CASE q # w
    BY <2>1, <2>3 DEF Excused, DeletionDue
  <2>4. QED BY <2>2, <2>3
<1>5. QED BY <1>1, <1>3, <1>4 DEF Excused

\* A writer's step deletes the copy or keeps the reasons.
LEMMA WriterKeeps ==
    ASSUME TypeOK, NEW w \in Writers,
           \/ \E changes, creates \in BOOLEAN : Begin(w, changes, creates)
           \/ Change(w) \/ DeleteTimeout(w) \/ WriteFails(w)
    PROVE  \/ Delete
           \/ UNCHANGED <<cacheVars, readerVars>> /\ Kept
<1>1. owed \in Versions /\ owed >= owed BY DEF TypeOK, Versions
<1>2. ASSUME NEW changes \in BOOLEAN, NEW creates \in BOOLEAN, Begin(w, changes, creates)
      PROVE  UNCHANGED <<cacheVars, readerVars>> /\ Kept
  <2>1. ~DeletionDue(w) BY <1>2 DEF Begin, WriterAt, DeletionDue
  <2>2. QED BY <1>1, <1>2, <2>1, KeptIf DEF Begin, WriterAt, TypeOK, dbVars
<1>3. CASE Commit(w)
  <2>1. UNCHANGED <<cacheVars, readerVars, list>> /\ wpc[w] = "commit"
    BY <1>3 DEF Commit, WriterAt
  <2>2. version' \in Versions /\ version' = IF touches[w] THEN version + 1 ELSE version
    BY <1>3, TransactionTypes DEF Commit
  <2>3. CASE touches[w] /\ creator[w]
    <3>1. owed' = version' BY <1>3, <2>3 DEF Commit
    <3>2. QED BY <2>1, <3>1 DEF Kept, Excused
  <2>4. CASE touches[w] /\ ~creator[w]
    <3>1. wpc'[w] = "delActive" /\ ~creator'[w] /\ wrote'[w] = version'
      BY <1>3, <2>4 DEF Commit, WriterAt, TypeOK
    <3>2. DeletionDue(w)' BY <3>1 DEF DeletionDue
    <3>3. QED BY <2>1, <3>1, <3>2 DEF Kept, Excused
  <2>5. CASE ~touches[w]
    <3>1. ~DeletionDue(w) BY <2>1 DEF DeletionDue
    <3>2. owed' = owed /\ version' = version BY <1>3, <2>2, <2>5 DEF Commit
    <3>3. QED BY <1>1, <1>3, <2>1, <3>1, <3>2, KeptIf DEF Commit, WriterAt, TypeOK
  <2>6. QED BY <2>3, <2>4, <2>5
<1>4. CASE Conflict(w)
  <2>1. ~DeletionDue(w) BY <1>4 DEF Conflict, DeletionDue
  <2>2. QED BY <1>1, <1>4, <2>1, KeptIf DEF Conflict, WriterAt, TypeOK, dbVars
<1>5. CASE DeleteActive(w)
  <2>1. CASE list = "active"
    BY <1>5, <2>1 DEF DeleteActive, DeleteKey
  <2>2. CASE list # "active"
    <3>1. list = "history" BY <2>2 DEF TypeOK, Lists
    <3>2. wpc'[w] = "delHistory" /\ UNCHANGED <<list, creator, wrote>>
      BY <1>5 DEF DeleteActive, WriterAt, TypeOK
    <3>3. DeletionDue(w) => DeletionDue(w)' /\ wrote'[w] = wrote[w]
      BY <3>1, <3>2 DEF DeletionDue
    <3>4. UNCHANGED <<cacheVars, readerVars>>
      BY <1>5, <2>2 DEF DeleteActive, DeleteKey
    <3>5. QED
      BY <1>1, <1>5, <3>3, <3>4, KeptIf DEF DeleteActive, WriterAt, TypeOK, dbVars
  <2>3. QED BY <2>1, <2>2
<1>6. CASE DeleteHistory(w)
  <2>1. CASE list = "history"
    BY <1>6, <2>1 DEF DeleteHistory, DeleteKey
  <2>2. CASE list # "history"
    <3>1. ~DeletionDue(w) BY <1>6, <2>2 DEF DeleteHistory, WriterAt, DeletionDue
    <3>2. UNCHANGED <<cacheVars, readerVars>>
      BY <1>6, <2>2 DEF DeleteHistory, DeleteKey
    <3>3. QED
      BY <1>1, <1>6, <3>1, <3>2, KeptIf DEF DeleteHistory, WriterAt, TypeOK, dbVars
  <2>3. QED BY <2>1, <2>2
<1>7. CASE Publish(w)
  <2>1. ~DeletionDue(w) BY <1>7 DEF Publish, WriterAt, DeletionDue
  <2>2. QED BY <1>1, <1>7, <2>1, KeptIf DEF Publish, Finish, WriterAt, TypeOK, dbVars
<1>8. CASE DeleteTimeout(w)
  <2>1. UNCHANGED <<list, version, wpc, creator, wrote, owed>>
    BY <1>8 DEF DeleteTimeout, dbVars, writerVars
  <2>2. Kept BY <2>1 DEF Kept, Excused, DeletionDue
  <2>3. QED BY <1>8, <2>2 DEF DeleteTimeout, DeleteKey
<1>9. CASE WriteFails(w)
  <2>1. UNCHANGED <<cacheVars, readerVars, list>> BY <1>9 DEF WriteFails, WriterAt
  <2>2. \A q \in Writers : q # w =>
          wpc'[q] = wpc[q] /\ creator'[q] = creator[q] /\ wrote'[q] = wrote[q]
    BY <1>9 DEF WriteFails, WriterAt, Finish, TypeOK
  <2>3. CASE /\ UNCHANGED dbVars
             /\ owed' = IF DeletionDue(w) /\ owed < wrote[w] THEN wrote[w] ELSE owed
    <3>1. wrote[w] \in Versions /\ owed \in Nat /\ wrote[w] \in Nat
      BY Numbers DEF TypeOK, Versions
    <3>2. owed' \in Versions /\ owed' >= owed /\ (DeletionDue(w) => owed' >= wrote[w])
      BY <1>1, <2>3, <3>1
    <3>3. QED BY <2>1, <2>2, <2>3, <3>2, KeptIf DEF dbVars
  <2>4. CASE /\ wpc[w] = "commit"
             /\ Transaction(w)
             /\ owed' = IF touches[w] THEN version' ELSE owed
    <3>1. CASE touches[w]
      BY <2>1, <2>4, <3>1 DEF Kept, Excused
    <3>2. CASE ~touches[w]
      <4>1. version' = version /\ owed' = owed BY <2>4, <3>2 DEF Transaction
      <4>2. ~DeletionDue(w) BY <2>4 DEF DeletionDue
      <4>3. QED BY <1>1, <2>1, <2>2, <4>1, <4>2, KeptIf
    <3>3. QED BY <3>1, <3>2
  <2>5. QED BY <1>9, <2>3, <2>4 DEF WriteFails
<1>10. QED BY <1>2, <1>3, <1>4, <1>5, <1>6, <1>7, <1>8, <1>9 DEF Change

\* So the writers' steps keep the reasons.
LEMMA WriterReason ==
    ASSUME ReasonInv, NEW w \in Writers,
           \/ \E changes, creates \in BOOLEAN : Begin(w, changes, creates)
           \/ Change(w) \/ DeleteTimeout(w) \/ WriteFails(w)
    PROVE  ReasonInv'
<1>1. TypeOK' BY WriterTypes DEF ReasonInv
<1>2. UNCHANGED <<rpc, rows, held>> BY WriterEffect DEF ReasonInv
<1>3. CASE Delete
  <2>1. cached' = None /\ \A q \in Readers : rpc'[q] = "setex" => q \in overtaken'
    BY <1>3, <1>2 DEF Delete
  <2>2. QED BY <2>1, <1>1 DEF ReasonInv, RowsExcused, StaleForAReason
<1>4. CASE UNCHANGED <<cacheVars, readerVars>> /\ Kept
  <2>1. RowsExcused'
    <3>1. SUFFICES ASSUME NEW q \in Readers, NEW v \in Versions,
                          rpc[q] = "setex", v = rows[q], v < version'
                   PROVE  q \in overtaken \/ Excused(v)'
      BY <1>4 DEF ReasonInv, TypeOK, RowsExcused, readerVars, Excused
    <3>2. v < version => q \in overtaken \/ Excused(v)
      BY <3>1 DEF ReasonInv, RowsExcused
    <3>3. QED BY <1>4, <3>1, <3>2 DEF Kept
  <2>2. StaleForAReason'
    <3>1. SUFFICES ASSUME NEW v \in Versions, v = cached, cached # None, v < version'
                   PROVE  late \/ Excused(v)'
      BY <1>4 DEF ReasonInv, TypeOK, StaleForAReason, cacheVars, Excused
    <3>2. v < version => late \/ Excused(v)
      BY <3>1 DEF ReasonInv, StaleForAReason, Excused
    <3>3. QED BY <1>4, <3>1, <3>2 DEF Kept
  <2>3. QED BY <1>1, <2>1, <2>2 DEF ReasonInv
<1>5. QED BY <1>3, <1>4, WriterKeeps DEF ReasonInv

\* So does time, which only removes the copy.
LEMMA TickReason ==
    ASSUME ReasonInv, Tick
    PROVE  ReasonInv'
<1>1. TypeOK' BY TickTypes DEF ReasonInv
<1>2. UNCHANGED <<list, version, rpc, rows, overtaken, wpc, creator, wrote, owed>>
  BY DEF Tick, writerVars
<1>3. RowsExcused'
  BY <1>2 DEF ReasonInv, RowsExcused, Excused, DeletionDue
<1>4. cached' = None \/ UNCHANGED <<cached, late>>
  BY DEF Tick, Expire
<1>5. StaleForAReason'
  BY <1>2, <1>4, <1>1 DEF ReasonInv, StaleForAReason, DeletionDue
<1>6. QED BY <1>1, <1>3, <1>5 DEF ReasonInv

\* A copy is behind the database only for one of the four reasons.
THEOREM AlwaysForAReason == Spec => []StaleForAReason
<1>1. Init => ReasonInv
  <2> SUFFICES ASSUME Init PROVE ReasonInv OBVIOUS
  <2>1. RowsExcused BY DEF Init, RowsExcused
  <2>2. StaleForAReason BY DEF Init, StaleForAReason
  <2>3. QED BY <2>1, <2>2, TypeInit DEF ReasonInv
<1>2. ReasonInv /\ [Next]_vars => ReasonInv'
  <2> SUFFICES ASSUME ReasonInv, [Next]_vars PROVE ReasonInv' OBVIOUS
  <2>1. CASE UNCHANGED vars
    <3>1. TypeOK' BY <2>1, TypeStep DEF ReasonInv
    <3>2. QED
      BY <2>1, <3>1
      DEF ReasonInv, RowsExcused, StaleForAReason, Excused, DeletionDue,
          vars, dbVars, cacheVars, readerVars, writerVars
  <2>2. CASE Next
    BY <2>2, ReaderReason, WriterReason, TickReason DEF Next
  <2>3. QED BY <2>1, <2>2
<1>3. ReasonInv => StaleForAReason BY DEF ReasonInv
<1>4. QED BY <1>1, <1>2, <1>3, PTL DEF Spec
=============================================================================
