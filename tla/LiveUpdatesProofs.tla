-------------------------- MODULE LiveUpdatesProofs --------------------------
(***************************************************************************)
(* Theorems about LiveUpdates, for any number of pages, sockets, events    *)
(* and failures.                                                           *)
(***************************************************************************)
EXTENDS LiveUpdates, TLAPS, SequenceTheorems, FiniteSetTheorems

-----------------------------------------------------------------------------
(* What happens to the list of connections.                                *)

\* Removing an element of a sequence moves the later ones one to the front.
LEMMA RemoveAtProperties ==
    ASSUME NEW S, NEW q \in Seq(S), NEW k \in DOMAIN q
    PROVE  /\ RemoveAt(q, k) \in Seq(S)
           /\ Len(RemoveAt(q, k)) = Len(q) - 1
           /\ \A i \in 1..Len(q) - 1 :
                RemoveAt(q, k)[i] = IF i < k THEN q[i] ELSE q[i + 1]
<1> DEFINE before == SubSeq(q, 1, k - 1)
           after == SubSeq(q, k + 1, Len(q))
<1>1. Len(q) \in Nat /\ DOMAIN q = 1..Len(q) /\ k \in 1..Len(q)
  BY LenProperties
<1>2. \A i \in 1..Len(q) : q[i] \in S
  BY ElementOfSeq
<1>3. /\ before \in Seq(S) /\ Len(before) = k - 1
      /\ \A i \in 1..k - 1 : before[i] = q[i]
  <2>1. \A i \in 1..k - 1 : q[i] \in S
    BY <1>1, <1>2
  <2>2. /\ before \in Seq(S)
        /\ Len(before) = IF 1 <= k - 1 THEN k - 1 - 1 + 1 ELSE 0
        /\ \A i \in 1..k - 1 - 1 + 1 : before[i] = q[1 + i - 1]
    BY <1>1, <2>1, SubSeqProperties
  <2> QED
    BY <1>1, <2>2
<1>4. /\ after \in Seq(S) /\ Len(after) = Len(q) - k
      /\ \A i \in 1..Len(q) - k : after[i] = q[k + i]
  <2>1. \A i \in k + 1..Len(q) : q[i] \in S
    BY <1>1, <1>2
  <2>2. /\ after \in Seq(S)
        /\ Len(after) = IF k + 1 <= Len(q) THEN Len(q) - (k + 1) + 1 ELSE 0
        /\ \A i \in 1..Len(q) - (k + 1) + 1 : after[i] = q[k + 1 + i - 1]
    BY <1>1, <2>1, SubSeqProperties
  <2> QED
    BY <1>1, <2>2
<1>5. /\ before \o after \in Seq(S)
      /\ Len(before \o after) = Len(before) + Len(after)
      /\ \A i \in 1..Len(before) + Len(after) :
           (before \o after)[i] = IF i <= Len(before) THEN before[i]
                                  ELSE after[i - Len(before)]
  BY <1>3, <1>4, ConcatProperties
<1>6. RemoveAt(q, k) = before \o after
  BY DEF RemoveAt
<1> HIDE DEF before, after
<1>7. Len(before \o after) = Len(q) - 1
  BY <1>1, <1>3, <1>4, <1>5
<1>8. ASSUME NEW i \in 1..Len(q) - 1
      PROVE  (before \o after)[i] = IF i < k THEN q[i] ELSE q[i + 1]
  <2>1. i \in 1..Len(before) + Len(after)
    BY <1>1, <1>3, <1>4
  <2>2. CASE i < k
    BY <1>1, <1>3, <1>5, <2>1, <2>2
  <2>3. CASE ~(i < k)
    <3>1. i - Len(before) \in 1..Len(q) - k /\ k + (i - Len(before)) = i + 1
      BY <1>1, <1>3, <2>3
    <3>2. (before \o after)[i] = after[i - Len(before)]
      BY <1>3, <1>5, <2>1, <2>3, <1>1
    <3>3. after[i - Len(before)] = q[k + (i - Len(before))]
      BY <1>4, <3>1
    <3> QED
      BY <2>3, <3>1, <3>2, <3>3
  <2> QED
    BY <2>2, <2>3
<1> QED
  BY <1>5, <1>6, <1>7, <1>8

\* A list of connections, each in it once.
ListOK(q) == q \in Seq(Sockets) /\ IsInjective(q)

\* A connection that is not in the list may be added to it.
LEMMA AppendKeepsList ==
    ASSUME NEW q, ListOK(q), NEW s \in Sockets, s \notin Range(q)
    PROVE  ListOK(Append(q, s)) /\ Range(Append(q, s)) = Range(q) \cup {s}
<1>1. Len(q) \in Nat /\ DOMAIN q = 1..Len(q)
  BY LenProperties DEF ListOK
<1>2. /\ Append(q, s) \in Seq(Sockets)
      /\ Len(Append(q, s)) = Len(q) + 1
      /\ \A i \in 1..Len(q) : Append(q, s)[i] = q[i]
      /\ Append(q, s)[Len(q) + 1] = s
  BY AppendProperties DEF ListOK
<1>3. DOMAIN Append(q, s) = 1..Len(q) + 1
  BY <1>2, LenProperties
<1>4. \A i \in 1..Len(q) + 1 : i \in 1..Len(q) \/ i = Len(q) + 1
  BY <1>1
<1>5. \A i \in 1..Len(q) : q[i] # s
  BY <1>1 DEF Range
<1>6. IsInjective(Append(q, s))
  BY <1>1, <1>2, <1>3, <1>4, <1>5 DEF IsInjective, ListOK
<1>7. Range(Append(q, s)) = Range(q) \cup {s}
  BY <1>1, <1>2, <1>3, <1>4 DEF Range
<1> QED
  BY <1>2, <1>6, <1>7 DEF ListOK

\* Taking an element out of it leaves a list without that element.
LEMMA RemoveKeepsList ==
    ASSUME NEW q, ListOK(q), NEW k \in DOMAIN q
    PROVE  ListOK(RemoveAt(q, k)) /\ Range(RemoveAt(q, k)) = Range(q) \ {q[k]}
<1> DEFINE r == RemoveAt(q, k)
           old(i) == IF i < k THEN i ELSE i + 1
<1>1. Len(q) \in Nat /\ DOMAIN q = 1..Len(q) /\ k \in 1..Len(q)
  BY LenProperties DEF ListOK
<1>2. /\ r \in Seq(Sockets)
      /\ Len(r) = Len(q) - 1
      /\ \A i \in 1..Len(q) - 1 : r[i] = IF i < k THEN q[i] ELSE q[i + 1]
  BY RemoveAtProperties DEF ListOK
<1>3. DOMAIN r = 1..Len(q) - 1
  BY <1>2, LenProperties
<1>4. \A i \in 1..Len(q) - 1 : r[i] = q[old(i)] /\ old(i) \in 1..Len(q) \ {k}
  BY <1>1, <1>2
<1>5. \A i, j \in 1..Len(q) - 1 : old(i) = old(j) => i = j
  BY <1>1
<1>6. \A i \in 1..Len(q) \ {k} : \E j \in 1..Len(q) - 1 : old(j) = i
  <2> TAKE i \in 1..Len(q) \ {k}
  <2> DEFINE j == IF i < k THEN i ELSE i - 1
  <2> WITNESS j \in 1..Len(q) - 1
  <2> QED
    BY <1>1
<1> HIDE DEF r, old
<1>7. IsInjective(r)
  BY <1>1, <1>3, <1>4, <1>5 DEF IsInjective, ListOK
<1>8. ASSUME NEW x PROVE x \in Range(r) <=> x \in Range(q) /\ x # q[k]
  <2>1. x \in Range(r) <=> \E j \in 1..Len(q) - 1 : r[j] = x
    BY <1>3 DEF Range
  <2>2. x \in Range(q) <=> \E i \in 1..Len(q) : q[i] = x
    BY <1>1 DEF Range
  <2>3. \A i \in 1..Len(q) : q[i] = q[k] <=> i = k
    BY <1>1 DEF IsInjective, ListOK
  <2>4. ASSUME NEW j \in 1..Len(q) - 1, r[j] = x PROVE x \in Range(q) /\ x # q[k]
    BY <1>4, <2>2, <2>3, <2>4
  <2>5. ASSUME NEW i \in 1..Len(q), q[i] = x, x # q[k] PROVE x \in Range(r)
    <3>1. i \in 1..Len(q) \ {k}
      BY <2>5
    <3>2. PICK j \in 1..Len(q) - 1 : old(j) = i
      BY <1>6, <3>1
    <3> QED
      BY <1>4, <2>1, <2>5, <3>2
  <2> QED
    BY <2>1, <2>2, <2>4, <2>5
<1> QED
  BY <1>2, <1>7, <1>8 DEF ListOK, r

\* The types with the list by name.
LEMMA TypeOfList == TypeOK => ListOK(conns) /\ Members \subseteq Sockets
<1> SUFFICES ASSUME TypeOK PROVE ListOK(conns) /\ Members \subseteq Sockets
  OBVIOUS
<1>1. Members \subseteq Sockets
  BY ElementOfSeq, LenProperties DEF Members, TypeOK, Range
<1> QED
  BY <1>1 DEF TypeOK, ListOK

\* disconnect leaves a list without the connection.
LEMMA DroppedList ==
    ASSUME TypeOK, NEW s \in Sockets, Dropped(s)
    PROVE  ListOK(conns') /\ Range(conns') = Members \ {s} /\ left' \in Nat
<1>1. CASE s \notin Members /\ UNCHANGED <<conns, left>>
  BY <1>1, TypeOfList DEF Members, TypeOK, Range
<1>2. ASSUME NEW i \in DOMAIN conns, conns[i] = s, conns' = RemoveAt(conns, i),
             left' = IF i < next THEN left + 1 ELSE left
      PROVE  ListOK(conns') /\ Range(conns') = Members \ {s} /\ left' \in Nat
  BY <1>2, TypeOfList, RemoveKeepsList DEF Members, TypeOK
<1> QED
  BY <1>1, <1>2 DEF Dropped

\* The end of a broadcast leaves a list of connections that were in it.
LEMMA EndBroadcastList ==
    ASSUME TypeOK, EndBroadcast
    PROVE  ListOK(conns') /\ Range(conns') \subseteq Members
<1>1. Len(conns) \in Nat /\ DOMAIN conns = 1..Len(conns)
      /\ \A i \in 1..Len(conns) : conns[i] \in Sockets
  BY LenProperties, ElementOfSeq DEF TypeOK
<1>2. IsFiniteSet(Kept) /\ Kept \subseteq 1..Len(conns)
  <2>1. IsFiniteSet(1..Len(conns))
    BY <1>1, FS_Interval
  <2>2. Kept \subseteq 1..Len(conns)
    BY <1>1 DEF Kept
  <2> QED
    BY <2>1, <2>2, FS_Subset
<1>3. Cardinality(Kept) \in Nat
  BY <1>2, FS_CardinalityType
<1> DEFINE n == Cardinality(Kept)
<1>4. PICK order \in [1..n -> Kept] :
        /\ \A i, j \in DOMAIN order : i < j => order[i] < order[j]
        /\ conns' = [i \in DOMAIN order |-> conns[order[i]]]
  BY DEF EndBroadcast
<1> HIDE DEF n
<1>5. n \in Nat
  BY <1>3 DEF n
<1>6. DOMAIN conns' = 1..n /\ \A i \in 1..n : conns'[i] = conns[order[i]] /\ order[i] \in 1..Len(conns)
  BY <1>2, <1>4
<1>7. conns' \in [1..n -> Sockets]
  BY <1>1, <1>2, <1>4
<1>8. conns' \in Seq(Sockets)
  BY <1>5, <1>7, SeqDef
<1>9. \A i, j \in 1..n : i # j => order[i] # order[j]
  <2> SUFFICES ASSUME NEW i \in 1..n, NEW j \in 1..n, i < j
               PROVE  order[i] # order[j]
    BY <1>5
  <2>1. order[i] < order[j] /\ order[i] \in Nat
    BY <1>1, <1>4, <1>6
  <2> QED
    BY <2>1
<1>10. IsInjective(conns')
  BY <1>1, <1>6, <1>9 DEF IsInjective, TypeOK
<1>11. Range(conns') \subseteq Members
  BY <1>1, <1>6 DEF Range, Members
<1> QED
  BY <1>8, <1>10, <1>11 DEF ListOK

-----------------------------------------------------------------------------
(* Type correctness, and who is in the list.                               *)

\* The connections in the list are those whose endpoint waits for them.
ListInv == TypeOK /\ \A s \in Members : endpoint[s] = "open"

\* It holds at the start.
LEMMA InitListInv == Init => ListInv
<1> SUFFICES ASSUME Init PROVE ListInv
  OBVIOUS
<1>1. <<>> \in Seq(Sockets) /\ <<>> \in Seq(1..MaxMessages) /\ IsInjective(<<>>)
      /\ Range(<<>>) = {}
  BY EmptySeq DEF IsInjective, Range
<1> QED
  BY <1>1, LiveAssumption DEF Init, TypeOK, ListInv, Members

\* Events and broadcasts keep it.
LEMMA ListenListInv ==
    ASSUME ListInv, Publish \/ Listen
    PROVE  ListInv'
<1> USE LiveAssumption DEF ListInv
<1>1. CASE Publish
  <2>1. published + 1 \in 1..MaxMessages
    BY <1>1 DEF Publish, TypeOK
  <2>2. channel' \in Seq(1..MaxMessages)
    BY <1>1, <2>1, AppendProperties DEF Publish, TypeOK
  <2> QED
    BY <1>1, <2>1, <2>2 DEF Publish, TypeOK, browserVars, Members
<1>2. CASE Take
  <2>1. Head(channel) \in 1..MaxMessages /\ Tail(channel) \in Seq(1..MaxMessages)
    BY <1>2, HeadTailProperties DEF Take, TypeOK
  <2> QED
    BY <1>2, <2>1 DEF Take, TypeOK, browserVars, Members
<1>3. CASE Send
  <2>1. next \in 1..Len(conns)
    BY <1>3, LenProperties DEF Send, TypeOK
  <2>2. conns[next] \in Sockets
    BY <2>1, ElementOfSeq DEF TypeOK
  <2>3. got' \in [Sockets -> 0..MaxMessages] /\ failed' \subseteq Sockets
    BY <1>3, <2>2 DEF Send, TypeOK
  <2> QED
    BY <1>3, <2>3 DEF Send, TypeOK, browserVars, Members
<1>4. CASE EndBroadcast
  <2>1. conns' \in Seq(Sockets) /\ IsInjective(conns') /\ Members' \subseteq Members
    BY <1>4, EndBroadcastList DEF ListOK, Members
  <2> QED
    BY <1>4, <2>1 DEF EndBroadcast, TypeOK, browserVars
<1> QED
  BY <1>1, <1>2, <1>3, <1>4 DEF Listen

\* So do the endpoints.
LEMMA ServeListInv ==
    ASSUME ListInv, NEW s \in Sockets, Serve(s)
    PROVE  ListInv'
<1> USE DEF ListInv
<1>1. CASE Accept(s)
  <2>1. s \notin Members
    BY <1>1 DEF Accept
  <2> QED
    BY <1>1, <2>1 DEF Accept, TypeOK, serverVars, browserVars, Members
<1>2. CASE Register(s)
  <2>1. s \notin Range(conns)
    BY <1>2 DEF Register, Members
  <2>2. ListOK(conns') /\ Members' = Members \cup {s}
    BY <1>2, <2>1, TypeOfList, AppendKeepsList DEF Register, Members
  <2> QED
    BY <1>2, <2>2, TypeOfList DEF Register, TypeOK, serverVars, browserVars, ListOK
<1>3. CASE Disconnect(s)
  <2>1. ListOK(conns') /\ Members' = Members \ {s} /\ left' \in Nat
    BY <1>3, DroppedList DEF Disconnect, Members
  <2> QED
    BY <1>3, <2>1, TypeOfList DEF Disconnect, TypeOK, serverVars, browserVars, ListOK
<1> QED
  BY <1>1, <1>2, <1>3 DEF Serve

\* New sockets are well typed, and outside the list.
LEMMA ConnectListInv ==
    ASSUME ListInv, NEW m \in Pages, NEW new \in SUBSET Sockets, Connect(m, new),
           UNCHANGED conns
    PROVE  /\ endpoint' \in [Sockets -> {"none", "accepting", "open", "gone"}]
           /\ link' \in [Sockets -> {"none", "up", "lost"}]
           /\ got' \in [Sockets -> 0..MaxMessages]
           /\ owner' \in [Sockets -> Pages \cup {NoPage}]
           /\ socket' \in [Sockets -> {"none", "connecting", "open", "closing", "closed"}]
           /\ Members' = Members
           /\ \A t \in Members' : endpoint'[t] = "open"
           /\ new \cap Members = {}
<1> USE LiveAssumption DEF ListInv
<1>1. new \cap Members = {}
  BY DEF Connect, Unused
<1>2. Members' = Members
  BY DEF Members
<1>3. \A t \in Members' : endpoint'[t] = "open"
  BY <1>1, <1>2, TypeOfList DEF Connect, Set, TypeOK
<1>4. /\ endpoint' \in [Sockets -> {"none", "accepting", "open", "gone"}]
      /\ link' \in [Sockets -> {"none", "up", "lost"}]
      /\ got' \in [Sockets -> 0..MaxMessages]
  BY DEF Connect, Set, TypeOK
<1>5. /\ owner' \in [Sockets -> Pages \cup {NoPage}]
      /\ socket' \in [Sockets -> {"none", "connecting", "open", "closing", "closed"}]
  BY DEF Connect, Set, TypeOK
<1> QED
  BY <1>1, <1>2, <1>3, <1>4, <1>5

\* So do the pages,
LEMMA PageListInv ==
    ASSUME ListInv, NEW m \in Pages, NEW new \in SUBSET Sockets,
           \/ \E last \in new : Mount(m, new, last)
           \/ \E s \in Sockets : new = {s} /\ Reconnect(m, s)
    PROVE  ListInv'
<1> USE DEF ListInv
<1>1. ASSUME NEW last \in new, Mount(m, new, last) PROVE ListInv'
  <2>1. Connect(m, new) /\ UNCHANGED <<serverVars, conns, faults, left, timers, attempt>>
    BY <1>1 DEF Mount
  <2>2. first' \subseteq Sockets /\ page' \in [Pages -> {"new", "mounted", "left"}]
    BY <1>1 DEF Mount, TypeOK
  <2> QED
    BY <2>1, <2>2, ConnectListInv DEF TypeOK, serverVars
<1>2. ASSUME NEW s \in Sockets, new = {s}, Reconnect(m, s) PROVE ListInv'
  <2>1. Connect(m, new) /\ UNCHANGED <<serverVars, conns, faults, left, page, attempt>>
    BY <1>2 DEF Reconnect
  <2>2. first' \subseteq Sockets /\ timers' \in [Pages -> Nat]
    BY <1>2 DEF Reconnect, TypeOK
  <2> QED
    BY <2>1, <2>2, ConnectListInv DEF TypeOK, serverVars
<1> QED
  BY <1>1, <1>2

\* and so do failures.
LEMMA DisturbListInv ==
    ASSUME ListInv, Disturb
    PROVE  ListInv'
<1> USE LiveAssumption DEF ListInv
<1>1. /\ <<>> \in Seq(Sockets) /\ <<>> \in Seq(1..MaxMessages) /\ IsInjective(<<>>)
      /\ Range(<<>>) = {}
  BY EmptySeq DEF IsInjective, Range
<1>2. Fault => faults' \in 0..MaxFaults
  BY DEF Fault, TypeOK
<1>3. CASE ListenerFails
  BY <1>1, <1>2, <1>3 DEF ListenerFails, TypeOK, browserVars, Members
<1>4. CASE Resubscribe
  BY <1>1, <1>2, <1>4 DEF Resubscribe, TypeOK, browserVars, Members
<1>5. CASE Restart
  BY <1>1, <1>2, <1>5 DEF Restart, TypeOK, browserVars, Members
<1>6. ASSUME NEW s \in Sockets, LinkFails(s) PROVE ListInv'
  BY <1>2, <1>6 DEF LinkFails, TypeOK, serverVars, browserVars, Members
<1> QED
  BY <1>3, <1>4, <1>5, <1>6 DEF Disturb

\* Every step keeps it.
LEMMA NextListInv == ListInv /\ [Next]_vars => ListInv'
<1> SUFFICES ASSUME ListInv, [Next]_vars PROVE ListInv'
  OBVIOUS
<1>1. CASE UNCHANGED vars
  BY <1>1 DEF vars, serverVars, browserVars, ListInv, TypeOK, Members
<1>2. ASSUME NEW m \in Pages, Unmount(m) PROVE ListInv'
  BY <1>2 DEF Unmount, TypeOK, serverVars, Members, ListInv
<1>3. ASSUME NEW s \in Sockets, Browse(s) PROVE ListInv'
  <2>1. CASE OnOpen(s)
    <3>1. attempt' = [attempt EXCEPT ![owner[s]] = 0] /\ 0 \in 0..MaxReconnectAttempts
      BY <2>1, LiveAssumption DEF OnOpen
    <3>2. attempt' \in [Pages -> 0..MaxReconnectAttempts]
      BY <3>1 DEF TypeOK, ListInv
    <3> QED
      BY <2>1, <3>2 DEF OnOpen, TypeOK, serverVars, Members, ListInv
  <2>2. CASE OnClose(s)
    <3>1. /\ timers' = [timers EXCEPT ![owner[s]] = @ + 1]
          /\ attempt' = [attempt EXCEPT ![owner[s]] = 1]
          /\ 1 \in 0..MaxReconnectAttempts
      BY <2>2, LiveAssumption DEF OnClose, ReconnectAttempt
    <3>2. \A m \in Pages : timers[m] \in Nat /\ timers[m] + 1 \in Nat
      BY DEF TypeOK, ListInv
    <3>3. timers' \in [Pages -> Nat]
      BY <3>1, <3>2, Zenon DEF TypeOK, ListInv
    <3> QED
      BY <2>2, <3>1, <3>3 DEF OnClose, TypeOK, serverVars, Members, ListInv
  <2> QED
    BY <1>3, <2>1, <2>2 DEF Browse
<1> QED
  BY <1>1, <1>2, <1>3, ListenListInv, ServeListInv, PageListInv, DisturbListInv DEF Next

\* The variables keep their types, and a connection is in the list once.
THEOREM TypeCorrect == Spec => []TypeOK
<1>1. ListInv => TypeOK
  BY DEF ListInv
<1> QED
  BY <1>1, InitListInv, NextListInv, PTL DEF Spec

-----------------------------------------------------------------------------
(* The order of the events.                                                *)

\* The channel holds events in order, later than any that was sent; a
\* connection that is not in the list yet was sent none; and InOrder.
EventInv ==
    /\ \A i \in DOMAIN channel :
         /\ channel[i] <= published
         /\ message < channel[i]
         /\ \A s \in Sockets : got[s] < channel[i]
    /\ \A i, j \in DOMAIN channel : i < j => channel[i] < channel[j]
    /\ message <= published
    /\ \A s \in Sockets : got[s] <= published
    /\ IF listener = "broadcasting" THEN message > 0 ELSE message = 0
    /\ \A s \in Sockets : endpoint[s] \in {"none", "accepting"} => got[s] = 0
    /\ InOrder

\* The values that are compared are numbers.
LEMMA Numbers ==
    ASSUME TypeOK
    PROVE  /\ Len(channel) \in Nat /\ DOMAIN channel = 1..Len(channel)
           /\ \A i \in DOMAIN channel : channel[i] \in Nat /\ channel[i] \in 1..MaxMessages
           /\ Len(conns) \in Nat /\ DOMAIN conns = 1..Len(conns)
           /\ \A i \in DOMAIN conns : conns[i] \in Sockets
           /\ published \in Nat /\ message \in Nat /\ next \in Nat \ {0}
           /\ \A s \in Sockets : got[s] \in Nat
<1>1. Len(channel) \in Nat /\ DOMAIN channel = 1..Len(channel)
  BY LenProperties DEF TypeOK
<1>2. \A i \in 1..Len(channel) : channel[i] \in 1..MaxMessages
  <2>1. channel \in Seq(1..MaxMessages)
    BY DEF TypeOK
  <2> QED
    BY <2>1, ElementOfSeq
<1>3. Len(conns) \in Nat /\ DOMAIN conns = 1..Len(conns)
  BY LenProperties DEF TypeOK
<1>4. \A i \in 1..Len(conns) : conns[i] \in Sockets
  <2>1. conns \in Seq(Sockets)
    BY DEF TypeOK
  <2> QED
    BY <2>1, ElementOfSeq
<1>5. published \in Nat /\ message \in Nat /\ next \in Nat \ {0}
      /\ \A s \in Sockets : got[s] \in Nat
  BY DEF TypeOK
<1> QED
  BY <1>1, <1>2, <1>3, <1>4, <1>5

\* Publishing and taking an event keep it.
LEMMA PublishEventInv ==
    ASSUME ListInv, EventInv, Publish
    PROVE  EventInv'
<1> USE DEF ListInv, EventInv
<1>1. CASE listener = "down"
  <2>1. UNCHANGED <<channel, message, got, endpoint, listener, next, conns>>
        /\ published' = published + 1
    BY <1>1 DEF Publish
  <2>2. InOrder'
    BY <2>1 DEF InOrder
  <2>3. \A n \in Nat : n <= published => n <= published + 1
    BY Numbers
  <2> QED
    BY <2>1, <2>2, <2>3, Numbers
<1>2. CASE listener # "down"
  <2>1. published + 1 \in 1..MaxMessages
    BY LiveAssumption DEF Publish, TypeOK
  <2>2. /\ channel' \in Seq(1..MaxMessages)
        /\ Len(channel') = Len(channel) + 1
        /\ \A i \in 1..Len(channel) : channel'[i] = channel[i]
        /\ channel'[Len(channel) + 1] = published + 1
    BY <1>2, <2>1, AppendProperties DEF Publish, TypeOK
  <2>3. /\ Len(channel) \in Nat /\ DOMAIN channel = 1..Len(channel)
        /\ DOMAIN channel' = 1..Len(channel) + 1
    BY <2>2, LenProperties DEF TypeOK
  <2>4. \A i \in 1..Len(channel) + 1 : i \in 1..Len(channel) \/ i = Len(channel) + 1
    BY <2>3
  <2>5. \A i \in 1..Len(channel) : channel[i] \in Nat
    BY <2>3, Numbers
  <2>6. UNCHANGED <<message, got, endpoint, listener, next, conns>> /\ published' = published + 1
    BY DEF Publish
  <2>7. \A s \in Sockets : got[s] \in Nat
    BY DEF TypeOK
  <2>8. \A i \in DOMAIN channel' :
           /\ channel'[i] <= published'
           /\ message' < channel'[i]
           /\ \A s \in Sockets : got'[s] < channel'[i]
    <3> SUFFICES ASSUME NEW i \in 1..Len(channel) + 1
                 PROVE  /\ channel'[i] <= published + 1
                        /\ message < channel'[i]
                        /\ \A s \in Sockets : got[s] < channel'[i]
      BY <2>3, <2>6
    <3>1. CASE i \in 1..Len(channel)
      <4>1. channel'[i] = channel[i] /\ channel[i] \in Nat /\ published \in Nat
        BY <2>2, <2>5, <3>1, Numbers
      <4>2. /\ channel[i] <= published /\ message < channel[i]
            /\ \A s \in Sockets : got[s] < channel[i]
        BY <2>3, <3>1
      <4> QED
        BY <4>1, <4>2
    <3>2. CASE i = Len(channel) + 1
      <4>1. channel'[i] = published + 1 /\ published \in Nat /\ message \in Nat
        BY <2>2, <3>2, Numbers
      <4>2. message <= published /\ \A s \in Sockets : got[s] <= published
        OBVIOUS
      <4> QED
        BY <2>7, <4>1, <4>2
    <3> QED
      BY <2>4, <3>1, <3>2
  <2>9. \A i, j \in DOMAIN channel' : i < j => channel'[i] < channel'[j]
    <3> SUFFICES ASSUME NEW i \in 1..Len(channel) + 1, NEW j \in 1..Len(channel) + 1, i < j
                 PROVE  channel'[i] < channel'[j]
      BY <2>3
    <3>1. i \in 1..Len(channel)
      BY <2>3
    <3>2. CASE j \in 1..Len(channel)
      BY <2>2, <2>3, <3>1, <3>2
    <3>3. CASE j = Len(channel) + 1
      <4>1. channel[i] <= published /\ channel[i] \in Nat
        BY <2>3, <2>5, <3>1
      <4> QED
        BY <2>2, <3>1, <3>3, <4>1, Numbers
    <3> QED
      BY <2>4, <3>2, <3>3
  <2>10. InOrder'
    BY <2>6 DEF InOrder
  <2> QED
    BY <2>6, <2>7, <2>8, <2>9, <2>10 DEF TypeOK
<1> QED
  BY <1>1, <1>2

\* What the listener does with it keeps it.
LEMMA ListenEventInv ==
    ASSUME ListInv, EventInv, Listen
    PROVE  EventInv'
<1> USE DEF ListInv, EventInv
<1>1. CASE Take
  <2>1. /\ Head(channel) = channel[1]
        /\ Len(channel) \in Nat /\ Len(channel) > 0
        /\ DOMAIN channel = 1..Len(channel)
        /\ Tail(channel) \in Seq(1..MaxMessages)
        /\ Len(Tail(channel)) = Len(channel) - 1
        /\ \A i \in 1..Len(Tail(channel)) : Tail(channel)[i] = channel[i + 1]
    BY <1>1, HeadTailProperties, LenProperties, EmptySeq DEF Take, TypeOK
  <2>2. DOMAIN channel' = 1..Len(channel) - 1
        /\ \A i \in 1..Len(channel) - 1 : channel'[i] = channel[i + 1]
    BY <1>1, <2>1, LenProperties DEF Take
  <2>3. \A i \in 1..Len(channel) - 1 : i + 1 \in DOMAIN channel /\ 1 < i + 1
    BY <2>1
  <2>4. 1 \in DOMAIN channel /\ channel[1] \in 1..MaxMessages
    BY <2>1, Numbers
  <2>5. UNCHANGED <<published, got, conns, endpoint>>
    BY <1>1 DEF Take
  <2>6. \/ listener' = "broadcasting" /\ message' = channel[1]
        \/ listener' = "listening" /\ message' = 0
    BY <1>1, <2>1 DEF Take
  <2>7. \A i \in DOMAIN channel' :
           /\ channel'[i] <= published'
           /\ message' < channel'[i]
           /\ \A s \in Sockets : got'[s] < channel'[i]
    <3> TAKE i \in DOMAIN channel'
    <3>1. channel'[i] = channel[i + 1] /\ i + 1 \in DOMAIN channel /\ 1 < i + 1
      BY <2>2, <2>3
    <3>2. channel[1] < channel[i + 1] /\ channel[i + 1] \in Nat /\ channel[i + 1] > 0
      BY <2>4, <3>1, Numbers
    <3> QED
      BY <2>5, <2>6, <3>1, <3>2
  <2>8. \A i, j \in DOMAIN channel' : i < j => channel'[i] < channel'[j]
    BY <2>1, <2>2, <2>3
  <2>9. InOrder'
    <3>1. \A i \in 1..Len(conns) : conns[i] \in Sockets
      BY Numbers
    <3>2. next' \in Nat /\ next' = 1
      BY <1>1 DEF Take
    <3> QED
      BY <2>4, <2>5, <2>6, <3>1, <3>2 DEF InOrder
  <2> QED
    BY <2>4, <2>5, <2>6, <2>7, <2>8, <2>9 DEF TypeOK
<1>2. CASE Send
  <2>1. /\ UNCHANGED <<published, channel, listener, message, conns, endpoint>>
        /\ listener = "broadcasting" /\ next' = next + 1 /\ next \in 1..Len(conns)
    BY <1>2, LenProperties DEF Send, TypeOK
  <2>2. Len(conns) \in Nat /\ DOMAIN conns = 1..Len(conns)
        /\ \A i \in 1..Len(conns) : conns[i] \in Sockets
    BY LenProperties, ElementOfSeq DEF TypeOK
  <2>3. \A s \in Sockets : got'[s] = got[s] \/ (s = conns[next] /\ got'[s] = message)
    <3>1. got' = [got EXCEPT ![conns[next]] = message] \/ got' = got
      BY <1>2 DEF Send
    <3> QED
      BY <3>1 DEF TypeOK
  <2>4. \A i \in next + 1..Len(conns) : conns[i] # conns[next]
    <3>1. \A i, j \in 1..Len(conns) : conns[i] = conns[j] => i = j
      BY <2>2 DEF TypeOK, IsInjective
    <3> QED
      BY <2>1, <2>2, <3>1
  <2>5. InOrder'
    BY <2>1, <2>2, <2>3, <2>4 DEF InOrder, TypeOK
  <2>6. endpoint[conns[next]] = "open"
    BY <2>1, <2>2 DEF Members, Range
  <2> QED
    BY <2>1, <2>3, <2>5, <2>6
<1>3. CASE EndBroadcast
  BY <1>3, LiveAssumption DEF EndBroadcast, InOrder, TypeOK
<1> QED
  BY <1>1, <1>2, <1>3 DEF Listen

\* The endpoints keep it.
LEMMA ServeEventInv ==
    ASSUME ListInv, EventInv, NEW s \in Sockets, Serve(s)
    PROVE  EventInv'
<1> USE DEF ListInv, EventInv
<1>0. Len(conns) \in Nat /\ DOMAIN conns = 1..Len(conns)
  BY LenProperties DEF TypeOK
<1>1. CASE Accept(s)
  BY <1>1 DEF Accept, TypeOK, serverVars, InOrder
<1>2. CASE Register(s)
  <2>1. UNCHANGED <<serverVars, got>> /\ endpoint' = [endpoint EXCEPT ![s] = "open"]
    BY <1>2 DEF Register
  <2>2. Len(conns') = Len(conns) + 1 /\ conns'[Len(conns) + 1] = s
        /\ \A i \in 1..Len(conns) : conns'[i] = conns[i]
    BY <1>2, AppendProperties DEF Register, TypeOK
  <2>3. got[s] = 0
    BY <1>2 DEF Register
  <2>4. InOrder'
    <3> SUFFICES ASSUME listener = "broadcasting", NEW i \in next..Len(conns) + 1
                 PROVE  got[conns'[i]] < message
      BY <2>1, <2>2 DEF InOrder, serverVars
    <3>1. CASE i = Len(conns) + 1
      BY <2>2, <2>3, <3>1 DEF TypeOK
    <3>2. CASE i # Len(conns) + 1
      <4>1. i \in 1..Len(conns) /\ i \in next..Len(conns)
        BY <1>0, <3>2 DEF TypeOK
      <4> QED
        BY <2>2, <4>1 DEF InOrder
    <3> QED
      BY <3>1, <3>2
  <2> QED
    BY <2>1, <2>4 DEF serverVars, TypeOK
<1>3. CASE Disconnect(s)
  <2>1. UNCHANGED <<serverVars, got>> /\ endpoint' = [endpoint EXCEPT ![s] = "gone"]
    BY <1>3 DEF Disconnect
  <2>2. InOrder'
    <3>1. CASE UNCHANGED conns
      BY <2>1, <3>1 DEF InOrder, serverVars
    <3>2. ASSUME NEW k \in DOMAIN conns, conns' = RemoveAt(conns, k) PROVE InOrder'
      <4>1. Len(conns') = Len(conns) - 1
            /\ \A i \in 1..Len(conns) - 1 : conns'[i] = IF i < k THEN conns[i] ELSE conns[i + 1]
        BY <3>2, RemoveAtProperties, TypeOfList DEF ListOK
      <4> SUFFICES ASSUME listener = "broadcasting", NEW i \in next..Len(conns) - 1
                   PROVE  got[conns'[i]] < message
        BY <2>1, <4>1 DEF InOrder, serverVars
      <4>2. i \in 1..Len(conns) - 1 /\ i \in next..Len(conns) /\ i + 1 \in next..Len(conns)
        BY <1>0 DEF TypeOK
      <4> QED
        BY <4>1, <4>2 DEF InOrder
    <3> QED
      BY <1>3, <3>1, <3>2 DEF Disconnect, Dropped
  <2> QED
    BY <2>1, <2>2 DEF serverVars, TypeOK
<1> QED
  BY <1>1, <1>2, <1>3 DEF Serve

\* A new socket has got nothing, and is not in the list.
LEMMA ConnectEventInv ==
    ASSUME ListInv, EventInv, NEW m \in Pages, NEW new \in SUBSET Sockets, Connect(m, new),
           UNCHANGED <<serverVars, conns>>
    PROVE  EventInv'
<1> USE DEF ListInv, EventInv
<1>1. \A t \in Sockets : t \notin new => got'[t] = got[t] /\ endpoint'[t] = endpoint[t]
  BY DEF Connect, Set, TypeOK
<1>2. \A t \in new : got'[t] = 0 /\ endpoint'[t] = "none"
  BY DEF Connect, Set, TypeOK
<1>3. Len(conns) \in Nat /\ DOMAIN conns = 1..Len(conns)
      /\ \A i \in 1..Len(conns) : conns[i] \in Sockets /\ conns[i] \notin new
  <2>1. new \cap Members = {}
    BY ConnectListInv DEF serverVars
  <2> QED
    BY <2>1, LenProperties, ElementOfSeq DEF TypeOK, Members, Range
<1>4. InOrder'
  BY <1>1, <1>3 DEF InOrder, serverVars, TypeOK
<1>5. \A i \in DOMAIN channel : channel[i] \in Nat /\ channel[i] > 0
  BY Numbers
<1>6. UNCHANGED <<channel, published, message, listener>>
  BY DEF serverVars
<1>7. \A t \in Sockets :
        /\ \A i \in DOMAIN channel : got'[t] < channel[i]
        /\ got'[t] <= published
        /\ endpoint'[t] \in {"none", "accepting"} => got'[t] = 0
  <2> TAKE t \in Sockets
  <2>1. CASE t \in new
    BY <1>2, <1>5, <2>1, Numbers
  <2>2. CASE t \notin new
    BY <1>1, <2>2
  <2> QED
    BY <2>1, <2>2
<1> QED
  BY <1>4, <1>6, <1>7

\* Failures lose events, and keep the order of the rest.
LEMMA DisturbEventInv ==
    ASSUME ListInv, EventInv, Disturb
    PROVE  EventInv'
<1> USE LiveAssumption DEF ListInv, EventInv
<1>1. DOMAIN <<>> = {} /\ Len(<<>>) = 0
  OBVIOUS
<1>2. CASE ListenerFails
  BY <1>1, <1>2 DEF ListenerFails, InOrder, TypeOK
<1>3. CASE Resubscribe
  BY <1>1, <1>3 DEF Resubscribe, InOrder, TypeOK
<1>4. CASE Restart
  BY <1>1, <1>4 DEF Restart, InOrder, TypeOK
<1>5. ASSUME NEW s \in Sockets, LinkFails(s) PROVE EventInv'
  BY <1>5 DEF LinkFails, serverVars, InOrder
<1> QED
  BY <1>2, <1>3, <1>4, <1>5 DEF Disturb

\* Every step keeps it.
LEMMA NextEventInv == ListInv /\ EventInv /\ [Next]_vars => EventInv'
<1> SUFFICES ASSUME ListInv, EventInv, [Next]_vars PROVE EventInv'
  OBVIOUS
<1>1. CASE UNCHANGED vars
  BY <1>1 DEF vars, serverVars, EventInv, InOrder
<1>2. ASSUME NEW m \in Pages, Unmount(m) PROVE EventInv'
  BY <1>2 DEF Unmount, serverVars, EventInv, InOrder
<1>3. ASSUME NEW s \in Sockets, Browse(s) PROVE EventInv'
  BY <1>3 DEF Browse, OnOpen, OnClose, serverVars, EventInv, InOrder
<1>4. ASSUME NEW m \in Pages, NEW new \in SUBSET Sockets,
             \/ \E last \in new : Mount(m, new, last)
             \/ \E s \in Sockets : new = {s} /\ Reconnect(m, s)
      PROVE  EventInv'
  <2>1. Connect(m, new) /\ UNCHANGED <<serverVars, conns>>
    BY <1>4 DEF Mount, Reconnect
  <2> QED
    BY <2>1, ConnectEventInv
<1> QED
  BY <1>1, <1>2, <1>3, <1>4, PublishEventInv, ListenEventInv, ServeEventInv, DisturbEventInv
     DEF Next

\* Nobody is sent an event twice or events out of order, however connections
\* come and go under the loop.
THEOREM EventsInOrder == Spec => []InOrder
<1>1. Init => EventInv
  BY DEF Init, EventInv, InOrder
<1>2. EventInv => InOrder
  BY DEF EventInv
<1> QED
  BY <1>1, <1>2, InitListInv, NextListInv, NextEventInv, PTL DEF Spec

-----------------------------------------------------------------------------
(* Connections passed over.                                                *)

\* By how much the index is past the end of a list that has become shorter:
\* so many connections may still be added behind it.
Overrun == IF next > Len(conns) + 1 THEN next - 1 - Len(conns) ELSE 0

\* PassedOverBounded, with those that may still come.
LeftInv == listener = "broadcasting" => Cardinality(PassedOver) + Overrun <= left

\* The connections passed over are a finite set.
LEMMA PassedOverFinite == IsFiniteSet(PassedOver) /\ Cardinality(PassedOver) \in Nat
<1>1. PassedOver \subseteq Sockets
  BY DEF PassedOver
<1> QED
  BY <1>1, LiveAssumption, FS_Subset, FS_CardinalityType

\* So are those after a step.
LEMMA PassedOverFiniteNext == IsFiniteSet(PassedOver') /\ Cardinality(PassedOver') \in Nat
<1>1. PassedOver' \subseteq Sockets
  BY DEF PassedOver
<1> QED
  BY <1>1, LiveAssumption, FS_Subset, FS_CardinalityType

\* The overrun is a number.
LEMMA OverrunType == TypeOK => Overrun \in Nat
  BY Numbers DEF Overrun

\* A step that lets no other connection be passed over keeps LeftInv.
LEMMA NoMorePassedOver ==
    ASSUME TypeOK, LeftInv, PassedOver' \subseteq PassedOver, UNCHANGED <<listener, left>>,
           Overrun' = Overrun
    PROVE  LeftInv'
<1>1. Cardinality(PassedOver') <= Cardinality(PassedOver)
  BY PassedOverFinite, FS_Subset
<1> QED
  BY <1>1, PassedOverFinite, PassedOverFiniteNext, OverrunType DEF LeftInv, TypeOK

\* A step by which at most one more is passed over keeps it if the overrun gets
\* smaller, or one more connection has left.
LEMMA OneMorePassedOver ==
    ASSUME TypeOK, LeftInv, NEW s, PassedOver' \subseteq PassedOver \cup {s},
           UNCHANGED listener, left' \in Nat, Overrun' \in Nat,
           Overrun' + left + 1 <= Overrun + left'
    PROVE  LeftInv'
<1>0. /\ IsFiniteSet(PassedOver \cup {s})
      /\ \/ Cardinality(PassedOver \cup {s}) = Cardinality(PassedOver)
         \/ Cardinality(PassedOver \cup {s}) = Cardinality(PassedOver) + 1
  BY PassedOverFinite, FS_AddElement
<1>1. IsFiniteSet(PassedOver \cup {s})
      /\ Cardinality(PassedOver \cup {s}) <= Cardinality(PassedOver) + 1
  <2> HIDE DEF PassedOver
  <2> QED
    BY <1>0, PassedOverFinite
<1>2. Cardinality(PassedOver') <= Cardinality(PassedOver \cup {s})
  BY <1>1, FS_Subset
<1>3. Cardinality(PassedOver \cup {s}) \in Nat
  BY <1>1, FS_CardinalityType
<1>4. Cardinality(PassedOver') <= Cardinality(PassedOver) + 1
  BY <1>1, <1>2, <1>3, PassedOverFinite, PassedOverFiniteNext
<1>5. left \in Nat /\ Overrun \in Nat
  BY OverrunType DEF TypeOK
<1>6. listener = "broadcasting" => Cardinality(PassedOver) + Overrun <= left
  BY DEF LeftInv
<1>7. ASSUME listener' = "broadcasting"
      PROVE  Cardinality(PassedOver') + Overrun' <= left'
  <2>1. Cardinality(PassedOver) + Overrun <= left
    BY <1>6, <1>7
  <2>2. \A a, b, o, p, l, k \in Nat :
          a <= b + 1 /\ b + o <= l /\ p + l + 1 <= o + k => a + p <= k
    OBVIOUS
  <2>3. Overrun' + left + 1 <= Overrun + left' /\ left' \in Nat /\ Overrun' \in Nat
    OBVIOUS
  <2> QED
    BY <1>4, <1>5, <2>1, <2>2, <2>3, PassedOverFinite, PassedOverFiniteNext, Zenon
<1> QED
  BY <1>7 DEF LeftInv

\* Sockets that are not in the list may change as they like.
LEMMA OutsideList ==
    ASSUME ListInv, LeftInv, UNCHANGED <<listener, message, next, conns, left>>,
           \A t \in Members : got'[t] = got[t] /\ link'[t] = link[t]
    PROVE  LeftInv'
<1>1. TypeOK
  BY DEF ListInv
<1>2. PassedOver' \subseteq PassedOver
  <2>1. \A i \in DOMAIN conns : conns[i] \in Members
    BY DEF Members, Range
  <2> QED
    BY <2>1 DEF PassedOver
<1>3. Overrun' = Overrun
  BY DEF Overrun
<1> QED
  BY <1>1, <1>2, <1>3, NoMorePassedOver

\* The loop passes over nobody that is alive and there.
LEMMA ListenLeftInv ==
    ASSUME ListInv, LeftInv, Listen
    PROVE  LeftInv'
<1> USE DEF ListInv
<1>1. CASE Take
  <2>1. PassedOver' = {}
    BY <1>1, Numbers DEF Take, PassedOver
  <2>2. Overrun' = 0
    BY <1>1, Numbers DEF Take, Overrun
  <2> QED
    BY <1>1, <2>1, <2>2, FS_EmptySet DEF Take, LeftInv
<1>2. CASE Send
  <2>1. UNCHANGED <<listener, message, conns, link, left>> /\ next' = next + 1
        /\ next \in 1..Len(conns)
    BY <1>2, Numbers DEF Send
  <2>2. \A s \in Sockets :
          /\ got'[s] = got[s] \/ got'[s] = message
          /\ (s = conns[next] /\ link[s] = "up") => got'[s] = message
    BY <1>2 DEF Send, TypeOK
  <2>3. PassedOver' \subseteq PassedOver
    <3> SUFFICES ASSUME NEW s \in PassedOver' PROVE s \in PassedOver
      OBVIOUS
    <3>1. PICK i \in DOMAIN conns : i < next + 1 /\ conns[i] = s
      BY <2>1 DEF PassedOver
    <3>2. s \in Sockets /\ link[s] = "up" /\ got'[s] # message
      BY <2>1 DEF PassedOver
    <3>3. i # next /\ got[s] # message
      BY <2>2, <3>1, <3>2
    <3>4. i < next
      BY <3>1, <3>3, Numbers
    <3> QED
      BY <3>1, <3>2, <3>3, <3>4 DEF PassedOver
  <2>4. Overrun' = Overrun
    BY <2>1, Numbers DEF Overrun
  <2> QED
    BY <2>1, <2>3, <2>4, NoMorePassedOver
<1>3. CASE EndBroadcast
  BY <1>3 DEF EndBroadcast, LeftInv
<1> QED
  BY <1>1, <1>2, <1>3 DEF Listen

\* A connection that is added behind the index uses up some of the overrun.
LEMMA RegisterLeftInv ==
    ASSUME ListInv, LeftInv, NEW s \in Sockets, Register(s)
    PROVE  LeftInv'
<1> USE DEF ListInv
<1>1. UNCHANGED <<listener, message, next, link, got, left>>
  BY DEF Register, serverVars
<1>2. Len(conns') = Len(conns) + 1 /\ conns'[Len(conns) + 1] = s
      /\ (\A i \in 1..Len(conns) : conns'[i] = conns[i])
      /\ DOMAIN conns' = 1..Len(conns) + 1
  <2>1. conns \in Seq(Sockets)
    BY DEF TypeOK
  <2> QED
    BY <2>1, AppendProperties, LenProperties DEF Register
<1>3. PassedOver' \subseteq PassedOver \cup {s}
  <2> SUFFICES ASSUME NEW t \in PassedOver', t # s PROVE t \in PassedOver
    OBVIOUS
  <2>1. PICK i \in 1..Len(conns) + 1 : i < next /\ conns'[i] = t
    BY <1>1, <1>2 DEF PassedOver
  <2>2. i \in 1..Len(conns)
    BY <1>2, <2>1, Numbers
  <2> QED
    BY <1>1, <1>2, <2>1, <2>2, Numbers DEF PassedOver
<1>4. CASE next > Len(conns) + 1
  <2>1. Overrun' + 1 = Overrun /\ Overrun' \in Nat
    BY <1>1, <1>2, <1>4, Numbers DEF Overrun
  <2>2. Overrun' + left + 1 <= Overrun + left' /\ left' \in Nat
    BY <1>1, <2>1, OverrunType DEF TypeOK
  <2> QED
    BY <1>1, <1>3, <2>1, <2>2, OneMorePassedOver
<1>5. CASE next <= Len(conns) + 1
  <2>1. Overrun' = Overrun
    BY <1>1, <1>2, <1>5, Numbers DEF Overrun
  <2>2. PassedOver' \subseteq PassedOver
    <3> SUFFICES ASSUME NEW t \in PassedOver' PROVE t \in PassedOver
      OBVIOUS
    <3>1. PICK i \in 1..Len(conns) + 1 : i < next /\ conns'[i] = t
      BY <1>1, <1>2 DEF PassedOver
    <3>2. i \in 1..Len(conns)
      BY <1>5, <3>1, Numbers
    <3> QED
      BY <1>1, <1>2, <3>1, <3>2, Numbers DEF PassedOver
  <2> QED
    BY <1>1, <2>1, <2>2, NoMorePassedOver
<1> QED
  BY <1>4, <1>5, Numbers

\* A connection that leaves behind the index lets the next one slip by.
LEMMA DisconnectLeftInv ==
    ASSUME ListInv, LeftInv, NEW s \in Sockets, Disconnect(s)
    PROVE  LeftInv'
<1> USE DEF ListInv
<1>1. UNCHANGED <<listener, message, next, link, got>>
  BY DEF Disconnect, serverVars
<1>2. CASE UNCHANGED <<conns, left>>
  <2>1. PassedOver' \subseteq PassedOver /\ Overrun' = Overrun
    BY <1>1, <1>2 DEF PassedOver, Overrun
  <2> QED
    BY <1>1, <1>2, <2>1, NoMorePassedOver
<1>3. ASSUME NEW k \in DOMAIN conns, conns' = RemoveAt(conns, k),
             left' = IF k < next THEN left + 1 ELSE left
      PROVE  LeftInv'
  <2>1. Len(conns') = Len(conns) - 1 /\ conns' \in Seq(Sockets)
        /\ \A i \in 1..Len(conns) - 1 : conns'[i] = IF i < k THEN conns[i] ELSE conns[i + 1]
    BY <1>3, RemoveAtProperties, TypeOfList DEF ListOK
  <2>2. DOMAIN conns' = 1..Len(conns) - 1
    BY <2>1, LenProperties
  <2>3. ASSUME NEW t \in PassedOver'
        PROVE  \/ t \in PassedOver
               \/ k < next /\ next \in DOMAIN conns /\ t = conns[next]
    <3>1. PICK i \in 1..Len(conns) - 1 : i < next /\ conns'[i] = t
      BY <1>1, <2>2 DEF PassedOver
    <3>2. t \in Sockets /\ link[t] = "up" /\ got[t] # message
      BY <1>1 DEF PassedOver
    <3>3. CASE i < k
      <4>1. conns[i] = t /\ i \in DOMAIN conns
        BY <2>1, <3>1, <3>3, Numbers
      <4> QED
        BY <3>1, <3>2, <4>1 DEF PassedOver
    <3>4. CASE ~(i < k)
      <4>1. conns[i + 1] = t /\ i + 1 \in DOMAIN conns /\ k < next
        BY <2>1, <3>1, <3>4, Numbers
      <4>2. i + 1 < next \/ i + 1 = next
        BY <3>1, Numbers
      <4> QED
        BY <3>2, <4>1, <4>2 DEF PassedOver
    <3> QED
      BY <3>3, <3>4
  <2>4. CASE k < next
    <3>1. left' = left + 1 /\ left' \in Nat
      BY <1>3, <2>4 DEF TypeOK
    <3>2. CASE next <= Len(conns)
      <4>1. PassedOver' \subseteq PassedOver \cup {conns[next]}
        BY <2>3
      <4>2. Overrun' = 0 /\ Overrun = 0
        BY <1>1, <2>1, <3>2, Numbers DEF Overrun
      <4>3. Overrun' + left + 1 <= Overrun + left'
        BY <3>1, <4>2 DEF TypeOK
      <4> QED
        BY <1>1, <3>1, <4>1, <4>2, <4>3, OneMorePassedOver
    <3>3. CASE next > Len(conns)
      <4>1. PassedOver' \subseteq PassedOver
        BY <2>3, <3>3, Numbers
      <4>2. Overrun' = Overrun + 1
        BY <1>1, <2>1, <3>3, Numbers DEF Overrun
      <4>3. Cardinality(PassedOver') <= Cardinality(PassedOver)
        BY <4>1, PassedOverFinite, FS_Subset
      <4>4. left \in Nat /\ Overrun \in Nat
        BY OverrunType DEF TypeOK
      <4>5. listener = "broadcasting" => Cardinality(PassedOver) + Overrun <= left
        BY DEF LeftInv
      <4>6. listener' = "broadcasting" => Cardinality(PassedOver') + Overrun' <= left'
        <5>1. \A a, b, o, l \in Nat : a <= b /\ b + o <= l => a + (o + 1) <= l + 1
          OBVIOUS
        <5> QED
          BY <1>1, <3>1, <4>2, <4>3, <4>4, <4>5, <5>1, PassedOverFinite,
             PassedOverFiniteNext, Zenon
      <4> QED
        BY <4>6 DEF LeftInv
    <3> QED
      BY <3>2, <3>3, Numbers
  <2>5. CASE ~(k < next)
    <3>1. UNCHANGED <<listener, left>> /\ PassedOver' \subseteq PassedOver
      BY <1>1, <1>3, <2>3, <2>5
    <3>2. Overrun' = Overrun
      BY <1>1, <2>1, <2>5, Numbers DEF Overrun
    <3> QED
      BY <3>1, <3>2, NoMorePassedOver
  <2> QED
    BY <2>4, <2>5
<1> QED
  BY <1>2, <1>3 DEF Disconnect, Dropped

\* Every step keeps LeftInv.
LEMMA NextLeftInv == ListInv /\ LeftInv /\ [Next]_vars => LeftInv'
<1> SUFFICES ASSUME ListInv, LeftInv, [Next]_vars PROVE LeftInv'
  OBVIOUS
<1>1. ASSUME UNCHANGED <<listener, message, next, conns, got, left>>,
             \A s \in Sockets : link'[s] = "up" => link[s] = "up"
      PROVE  LeftInv'
  <2>1. PassedOver' \subseteq PassedOver /\ Overrun' = Overrun
    BY <1>1 DEF PassedOver, Overrun
  <2> QED
    BY <1>1, <2>1, NoMorePassedOver DEF ListInv
<1>2. CASE UNCHANGED vars
  BY <1>1, <1>2 DEF vars, serverVars
<1>3. CASE Publish
  BY <1>1, <1>3 DEF Publish
<1>4. ASSUME NEW s \in Sockets, Accept(s) PROVE LeftInv'
  <2>1. s \notin Members
    BY <1>4 DEF Accept, ListInv
  <2>2. \A t \in Members : got'[t] = got[t] /\ link'[t] = link[t]
    BY <1>4, <2>1, TypeOfList DEF Accept, ListInv, TypeOK
  <2>3. UNCHANGED <<listener, message, next, conns, left>>
    BY <1>4 DEF Accept, serverVars
  <2> QED
    BY <2>2, <2>3, OutsideList
<1>5. ASSUME NEW m \in Pages, NEW new \in SUBSET Sockets,
             \/ \E last \in new : Mount(m, new, last)
             \/ \E s \in Sockets : new = {s} /\ Reconnect(m, s)
      PROVE  LeftInv'
  <2>1. Connect(m, new) /\ UNCHANGED <<listener, message, next, conns, left>>
    BY <1>5 DEF Mount, Reconnect, serverVars
  <2>2. new \cap Members = {} /\ Members \subseteq Sockets
    BY <2>1, ConnectListInv, TypeOfList DEF ListInv
  <2>3. \A t \in Members : got'[t] = got[t] /\ link'[t] = link[t]
    BY <2>1, <2>2 DEF Connect, Set, ListInv, TypeOK
  <2> QED
    BY <2>1, <2>3, OutsideList
<1>6. ASSUME NEW m \in Pages, Unmount(m) PROVE LeftInv'
  <2>1. \A s \in Sockets : link'[s] = "up" => link[s] = "up"
    BY <1>6 DEF Unmount
  <2> QED
    BY <1>1, <1>6, <2>1 DEF Unmount, serverVars
<1>7. ASSUME NEW s \in Sockets, Browse(s) PROVE LeftInv'
  BY <1>1, <1>7 DEF Browse, OnOpen, OnClose, serverVars
<1>8. CASE Disturb
  <2>1. CASE ListenerFails \/ Restart
    BY <2>1 DEF ListenerFails, Restart, LeftInv
  <2>2. CASE Resubscribe
    BY <1>1, <2>2 DEF Resubscribe
  <2>3. ASSUME NEW s \in Sockets, LinkFails(s) PROVE LeftInv'
    <3>1. \A t \in Sockets : link'[t] = "up" => link[t] = "up"
      BY <2>3 DEF LinkFails, ListInv, TypeOK
    <3> QED
      BY <1>1, <2>3, <3>1 DEF LinkFails, serverVars
  <2> QED
    BY <1>8, <2>1, <2>2, <2>3 DEF Disturb
<1> QED
  BY <1>2, <1>3, <1>4, <1>5, <1>6, <1>7, <1>8, ListenLeftInv, RegisterLeftInv,
     DisconnectLeftInv DEF Next, Serve

\* A broadcast passes over at most one live connection for each one that left
\* the list behind its index meanwhile.
THEOREM PassedOverAtMost == Spec => []PassedOverBounded
<1>1. Init => LeftInv
  BY DEF Init, LeftInv
<1>2. ListInv /\ LeftInv => PassedOverBounded
  BY PassedOverFinite, OverrunType DEF LeftInv, PassedOverBounded, ListInv, TypeOK
<1> QED
  BY <1>1, <1>2, InitListInv, NextListInv, NextLeftInv, PTL DEF Spec
-----------------------------------------------------------------------------
(* One socket or one timer for a page.                                     *)

\* The live sockets of a page are a finite set.
LEMMA LiveFinite == \A m : IsFiniteSet(Live(m)) /\ Cardinality(Live(m)) \in Nat
<1> TAKE m
<1>1. Live(m) \subseteq Sockets
  BY DEF Live
<1> QED
  BY <1>1, LiveAssumption, FS_Subset, FS_CardinalityType

\* A step that changes nobody's sockets, timers or pages keeps the chains.
LEMMA SameChain ==
    ASSUME OneChain, UNCHANGED <<owner, timers>>,
           \A m \in Pages : page'[m] = "new" <=> page[m] = "new",
           \A s \in Sockets : socket'[s] \in {"connecting", "open", "closing"}
                              <=> socket[s] \in {"connecting", "open", "closing"}
    PROVE  OneChain'
<1>1. \A m \in Pages : Live(m)' = Live(m)
  BY DEF Live
<1> QED
  BY <1>1 DEF OneChain

\* New sockets are so many more for their page.
LEMMA ConnectChain ==
    ASSUME TypeOK, NEW m \in Pages, NEW new \in SUBSET Sockets, Connect(m, new)
    PROVE  /\ Cardinality(Live(m)') = Cardinality(Live(m)) + Cardinality(new)
           /\ \A n \in Pages : n # m => Live(n)' = Live(n)
<1>1. \A s \in new : socket[s] \notin {"connecting", "open", "closing"}
  BY DEF Connect, Unused
<1>2. /\ \A s \in new : owner'[s] = m /\ socket'[s] = "connecting"
      /\ \A t \in Sockets : t \notin new => owner'[t] = owner[t] /\ socket'[t] = socket[t]
  BY DEF Connect, Set, TypeOK
<1>3. Live(m)' = Live(m) \cup new /\ Live(m) \cap new = {}
  BY <1>1, <1>2 DEF Live
<1>4. \A n \in Pages : n # m => Live(n)' = Live(n)
  BY <1>1, <1>2 DEF Live
<1>5. IsFiniteSet(new) /\ Cardinality(new) \in Nat
  BY LiveAssumption, FS_Subset, FS_CardinalityType
<1>6. Cardinality(Live(m) \cup new)
        = Cardinality(Live(m)) + Cardinality(new) - Cardinality(Live(m) \cap new)
  BY <1>5, LiveFinite, FS_Union
<1>7. Cardinality(Live(m) \cap new) = 0
  BY <1>3, FS_EmptySet
<1> QED
  BY <1>3, <1>4, <1>5, <1>6, <1>7, LiveFinite

\* A socket that closes sets a timer in its place: the attempt count that its
\* handler sees is always below the maximum.
LEMMA OnCloseChain ==
    ASSUME TypeOK, OneChain, NEW s \in Sockets, OnClose(s), owner[s] \in Pages
    PROVE  OneChain'
<1> DEFINE m == owner[s]
<1>1. /\ socket[s] \in {"connecting", "open", "closing"}
      /\ socket'[s] = "closed"
      /\ \A t \in Sockets : t # s => socket'[t] = socket[t]
      /\ UNCHANGED <<owner, page>>
  BY DEF OnClose, TypeOK
<1>2. timers' = [timers EXCEPT ![m] = @ + 1]
  BY LiveAssumption DEF OnClose, ReconnectAttempt
<1>3. timers'[m] = timers[m] + 1 /\ timers[m] \in Nat
      /\ \A n \in Pages : n # m => timers'[n] = timers[n]
  BY <1>2 DEF TypeOK
<1>4. Live(m)' = Live(m) \ {s} /\ s \in Live(m)
  BY <1>1 DEF Live
<1>5. \A n \in Pages : n # m => Live(n)' = Live(n)
  BY <1>1 DEF Live
<1>6. Cardinality(Live(m)') = Cardinality(Live(m)) - 1
  BY <1>4, LiveFinite, FS_RemoveElement
<1>7. Cardinality(Live(m)') + timers'[m] = Cardinality(Live(m)) + timers[m]
  BY <1>3, <1>6, LiveFinite
<1> QED
  BY <1>1, <1>3, <1>5, <1>7 DEF OneChain

\* A live socket belongs to a page.
OwnerInv == \A s \in Sockets : socket[s] # "none" => owner[s] \in Pages

\* Every step keeps that.
LEMMA NextOwnerInv == TypeOK /\ OwnerInv /\ [Next]_vars => OwnerInv'
<1> SUFFICES ASSUME TypeOK, OwnerInv, [Next]_vars PROVE OwnerInv'
  OBVIOUS
<1>1. CASE UNCHANGED <<owner, socket>>
  BY <1>1 DEF OwnerInv
<1>2. ASSUME NEW m \in Pages, NEW new \in SUBSET Sockets,
             \/ \E last \in new : Mount(m, new, last)
             \/ \E s \in Sockets : new = {s} /\ Reconnect(m, s)
      PROVE  OwnerInv'
  <2>1. Connect(m, new)
    BY <1>2 DEF Mount, Reconnect
  <2> QED
    BY <2>1 DEF Connect, Set, OwnerInv, TypeOK
<1>3. ASSUME NEW m \in Pages, Unmount(m) PROVE OwnerInv'
  BY <1>3 DEF Unmount, OwnerInv, TypeOK
<1>4. ASSUME NEW s \in Sockets, Browse(s) PROVE OwnerInv'
  BY <1>4 DEF Browse, OnOpen, OnClose, OwnerInv, TypeOK
<1>5. CASE UNCHANGED vars \/ Publish \/ Listen \/ Disturb \/ \E s \in Sockets : Serve(s)
  BY <1>1, <1>5 DEF vars, Publish, Listen, Take, Send, EndBroadcast, Disturb, ListenerFails,
     Resubscribe, Restart, LinkFails, Serve, Accept, Register, Disconnect, browserVars
<1> QED
  BY <1>2, <1>3, <1>4, <1>5 DEF Next

\* Every step keeps the chains.
LEMMA NextOneChain == TypeOK /\ OwnerInv /\ OneChain /\ [Next]_vars => OneChain'
<1> SUFFICES ASSUME TypeOK, OwnerInv, OneChain, [Next]_vars PROVE OneChain'
  OBVIOUS
<1>1. CASE UNCHANGED browserVars
  BY <1>1, SameChain DEF browserVars
<1>2. ASSUME NEW m \in Pages, NEW new \in SUBSET Sockets, NEW last \in new,
             Mount(m, new, last)
      PROVE  OneChain'
  <2>1. /\ page[m] = "new" /\ page'[m] = "mounted"
        /\ \A n \in Pages : n # m => page'[n] = page[n]
        /\ UNCHANGED timers
        /\ EffectRuns \in Nat
    BY <1>2, LiveAssumption DEF Mount, TypeOK
  <2>2. /\ Cardinality(Live(m)') = Cardinality(Live(m)) + EffectRuns
        /\ \A n \in Pages : n # m => Live(n)' = Live(n)
    BY <1>2, ConnectChain DEF Mount
  <2>3. Cardinality(Live(m)) + timers[m] = 0 /\ timers[m] \in Nat
    BY <2>1 DEF OneChain, TypeOK
  <2>4. Cardinality(Live(m)') + timers[m] = EffectRuns
    BY <2>1, <2>2, <2>3, LiveFinite
  <2> QED
    BY <2>1, <2>2, <2>4 DEF OneChain
<1>3. ASSUME NEW m \in Pages, NEW s \in Sockets, Reconnect(m, s) PROVE OneChain'
  <2>1. /\ timers[m] \in Nat /\ timers[m] > 0 /\ timers'[m] = timers[m] - 1
        /\ \A n \in Pages : n # m => timers'[n] = timers[n]
        /\ UNCHANGED page
    BY <1>3 DEF Reconnect, TypeOK
  <2>2. /\ Cardinality(Live(m)') = Cardinality(Live(m)) + 1
        /\ \A n \in Pages : n # m => Live(n)' = Live(n)
    <3>1. Connect(m, {s}) /\ {s} \in SUBSET Sockets
      BY <1>3 DEF Reconnect
    <3>2. Cardinality({s}) = 1
      BY FS_Singleton
    <3>3. /\ Cardinality(Live(m)') = Cardinality(Live(m)) + Cardinality({s})
          /\ \A n \in Pages : n # m => Live(n)' = Live(n)
      BY <3>1, ConnectChain
    <3> QED
      BY <3>2, <3>3
  <2>3. Cardinality(Live(m)') + timers'[m] = Cardinality(Live(m)) + timers[m]
    BY <2>1, <2>2, LiveFinite
  <2> QED
    BY <2>1, <2>2, <2>3 DEF OneChain
<1>4. ASSUME NEW m \in Pages, Unmount(m) PROVE OneChain'
  <2>1. \A n \in Pages : page'[n] = "new" <=> page[n] = "new"
    BY <1>4 DEF Unmount, TypeOK
  <2>2. \A s \in Sockets : socket'[s] \in {"connecting", "open", "closing"}
                           <=> socket[s] \in {"connecting", "open", "closing"}
    BY <1>4 DEF Unmount
  <2> QED
    BY <1>4, <2>1, <2>2, SameChain DEF Unmount
<1>5. ASSUME NEW s \in Sockets, OnOpen(s) PROVE OneChain'
  BY <1>5, SameChain DEF OnOpen, TypeOK
<1>6. ASSUME NEW s \in Sockets, OnClose(s) PROVE OneChain'
  <2>1. owner[s] \in Pages
    BY <1>6 DEF OnClose, OwnerInv
  <2> QED
    BY <1>6, <2>1, OnCloseChain
<1>7. CASE UNCHANGED vars \/ Publish \/ Listen \/ Disturb \/ \E s \in Sockets : Serve(s)
  BY <1>1, <1>7 DEF vars, Publish, Listen, Take, Send, EndBroadcast, Disturb, ListenerFails,
     Resubscribe, Restart, LinkFails, Serve, Accept, Register, Disconnect
<1> QED
  BY <1>2, <1>3, <1>4, <1>5, <1>6, <1>7 DEF Next, Browse

\* A page that was opened has one socket or one timer for each run of its
\* effect, however it was left and whatever failed.
THEOREM OneChainForAPage == Spec => []OneChain
<1>1. Init => OwnerInv /\ OneChain
  <2> SUFFICES ASSUME Init PROVE OwnerInv /\ OneChain
    OBVIOUS
  <2>1. \A m : Live(m) = {}
    BY DEF Init, Live
  <2>2. \A m : Cardinality(Live(m)) = 0
    BY <2>1, FS_EmptySet
  <2>3. \A m \in Pages : page[m] = "new" /\ timers[m] = 0
    BY DEF Init
  <2>4. OneChain
    BY <2>2, <2>3 DEF OneChain
  <2>5. OwnerInv
    BY DEF Init, OwnerInv
  <2> QED
    BY <2>4, <2>5
<1>2. ListInv => TypeOK
  BY DEF ListInv
<1> QED
  BY <1>1, <1>2, InitListInv, NextListInv, NextOwnerInv, NextOneChain, PTL DEF Spec
=============================================================================
