------------------------ MODULE LiveDashboardProofs ------------------------
(***************************************************************************)
(* Proofs about LiveDashboard, for any number of pages, sockets, events    *)
(* and faults.  Its steps are steps of LiveUpdates, whose invariants hold  *)
(* here too, or errors that leave the state of LiveUpdates alone.          *)
(*                                                                         *)
(* A page that is behind the database stays in one of the cases of         *)
(* BehindForAReason: an event that it expects remains pending, arrives and *)
(* starts a load, or is gone, which is a reason; a load under way shows    *)
(* the database, or it shows something older or fails, which are reasons   *)
(* as well.                                                                *)
(***************************************************************************)
EXTENDS LiveDashboard, LiveUpdatesProofs

\* What an error outside LiveUpdates leaves alone.
Elsewhere ==
    Fault /\ UNCHANGED <<serverVars, conns, endpoint, link, browserVars, got, left>>

\* A step of LiveDashboard is one of LiveUpdates, none, or an error elsewhere.
LEMMA DashStep == [DashNext]_allVars => [Next]_vars \/ Elsewhere
<1> SUFFICES ASSUME [DashNext]_allVars PROVE [Next]_vars \/ Elsewhere
  OBVIOUS
<1>1. CASE UNCHANGED allVars \/ Commit
  BY <1>1 DEF allVars, Commit
<1>2. CASE Announce
  BY <1>2 DEF Announce, Next
<1>3. CASE AnnounceFails
  BY <1>3 DEF AnnounceFails, Elsewhere
<1>4. CASE Through(Listen) \/ Through(Disturb)
  BY <1>4 DEF Through, Next
<1>5. ASSUME NEW s \in Sockets, Through(Serve(s)) \/ Through(Browse(s)) PROVE Next
  BY <1>5 DEF Through, Next
<1>6. ASSUME NEW m \in Pages, NEW new \in SUBSET Sockets, NEW last \in new, Open(m, new, last)
      PROVE  Next
  BY <1>6 DEF Open, Next
<1>7. ASSUME NEW m \in Pages, NEW s \in Sockets, Through(Reconnect(m, s)) PROVE Next
  BY <1>7 DEF Through, Next
<1>8. ASSUME NEW m \in Pages, Leave(m) PROVE Next
  BY <1>8 DEF Leave, Next
<1>9. ASSUME NEW m \in Pages, Load(m) PROVE UNCHANGED vars
  BY <1>9 DEF Load, Read, Show
<1>10. ASSUME NEW m \in Pages, NEW v \in Versions \cup {Unread}, LoadFails(m, v)
       PROVE  Elsewhere
  BY <1>10 DEF LoadFails, Elsewhere
<1> QED
  BY <1>1, <1>2, <1>3, <1>4, <1>5, <1>6, <1>7, <1>8, <1>9, <1>10 DEF DashNext

\* The invariants of LiveUpdates hold here.
LEMMA DashStepKeepsInv ==
    ListInv /\ EventInv /\ [DashNext]_allVars => ListInv' /\ EventInv'
<1> SUFFICES ASSUME ListInv, EventInv, [DashNext]_allVars PROVE ListInv' /\ EventInv'
  OBVIOUS
<1>1. CASE [Next]_vars
  BY <1>1, NextListInv, NextEventInv
<1>2. CASE Elsewhere
  <2>1. faults' \in 0..MaxFaults
    BY <1>2, LiveAssumption DEF Elsewhere, Fault, ListInv, TypeOK
  <2>2. ListInv'
    BY <1>2, <2>1 DEF Elsewhere, serverVars, browserVars, ListInv, TypeOK, Members
  <2>3. EventInv'
    BY <1>2 DEF Elsewhere, serverVars, EventInv, InOrder
  <2> QED
    BY <2>2, <2>3
<1> QED
  BY <1>1, <1>2, DashStep

\* They hold at the start.
LEMMA DashInitInv == DashInit => ListInv /\ EventInv
<1>1. Init => EventInv
  BY DEF Init, EventInv, InOrder
<1> QED
  BY <1>1, InitListInv DEF DashInit

-----------------------------------------------------------------------------
(* Type correctness.                                                       *)

\* The types, and that no load was answered with a version to come.
ViewInv ==
    /\ DashTypeOK
    /\ \A m \in Pages : \A v \in Versions : loads[m][v] > 0 => v <= version

\* A version is a number, and not Unread.
LEMMA VersionsAreNumbers ==
    /\ MaxMessages \in Nat /\ Unread \in Nat /\ Unread \notin Versions
    /\ \A v \in Versions : v \in Nat /\ v <= MaxMessages
BY LiveAssumption DEF Versions, Unread

\* What the pages heard are events.
LEMMA HearType ==
    ASSUME DashTypeOK, EventInv, Hear, published' \in Nat, published <= published'
    PROVE  heard' \in [Pages -> 0..published']
<1>1. message \in Nat /\ published \in Nat /\ message <= published
  BY DEF DashTypeOK, TypeOK, EventInv
<1>2. \A m \in Pages : heard[m] \in Nat /\ heard[m] <= published
  BY <1>1 DEF DashTypeOK
<1> QED
  BY <1>1, <1>2 DEF Hear

\* Reasons are among those listed.
LEMMA ReasonsType ==
    ASSUME DashTypeOK, NEW found, Explain(found), \A m \in Pages : found[m] \subseteq Reasons
    PROVE  reasons' \in [Pages -> SUBSET Reasons]
<1>1. \A m \in Pages : Missed(m) \subseteq Reasons
  BY DEF Missed, Reasons
<1>2. \A m \in Pages : reasons[m] \cup Missed(m) \cup found[m] \in SUBSET Reasons
  BY <1>1 DEF DashTypeOK
<1> QED
  BY <1>2 DEF Explain

\* Adding a load, and turning or dropping one, keeps the loads well typed.
LEMMA LoadsType ==
    ASSUME DashTypeOK, NEW m \in Pages, NEW v \in Versions \cup {Unread},
           NEW w \in Versions \cup {Unread}, loads[m][v] > 0
    PROVE  /\ [loads EXCEPT ![m][v] = @ - 1] \in [Pages -> [Versions \cup {Unread} -> Nat]]
           /\ [loads EXCEPT ![m][v] = @ - 1, ![m][w] = @ + 1]
                 \in [Pages -> [Versions \cup {Unread} -> Nat]]
<1>1. loads[m] \in [Versions \cup {Unread} -> Nat]
  BY DEF DashTypeOK
<1>2. loads[m][v] - 1 \in Nat /\ \A u \in Versions \cup {Unread} : loads[m][u] \in Nat
  BY <1>1
<1>3. [loads[m] EXCEPT ![v] = @ - 1] \in [Versions \cup {Unread} -> Nat]
  BY <1>1, <1>2
<1>4. [loads[m] EXCEPT ![v] = @ - 1, ![w] = @ + 1] \in [Versions \cup {Unread} -> Nat]
  BY <1>1, <1>2
<1>5. [loads EXCEPT ![m][v] = @ - 1] \in [Pages -> [Versions \cup {Unread} -> Nat]]
  BY <1>3 DEF DashTypeOK
<1>6. [loads EXCEPT ![m][v] = @ - 1, ![m][w] = @ + 1]
         \in [Pages -> [Versions \cup {Unread} -> Nat]]
  BY <1>4 DEF DashTypeOK
<1> QED
  BY <1>5, <1>6

\* It holds at the start.
LEMMA InitViewInv == DashInit => ViewInv
<1> SUFFICES ASSUME DashInit PROVE ViewInv
  OBVIOUS
<1>1. TypeOK
  BY DashInitInv DEF ListInv
<1>2. 0 \in Versions /\ published = 0 /\ NoLoads \in [Versions \cup {Unread} -> Nat]
  BY LiveAssumption DEF DashInit, Init, Versions, NoLoads
<1> QED
  BY <1>1, <1>2 DEF DashInit, ViewInv, DashTypeOK, NoLoads, Reasons

\* Writes and announcements keep it.
LEMMA WriteViewInv ==
    ASSUME ViewInv, ListInv', EventInv, Commit \/ Announce \/ AnnounceFails
    PROVE  ViewInv'
<1> USE DEF ViewInv
<1>1. /\ version \in Nat /\ published \in Nat /\ unannounced \in Nat /\ MaxMessages \in Nat
      /\ version <= MaxMessages /\ published + unannounced <= version
  BY VersionsAreNumbers DEF DashTypeOK, TypeOK
<1>2. TypeOK'
  BY DEF ListInv
<1>3. UNCHANGED <<loads, shown>>
  BY DEF Commit, Announce, AnnounceFails
<1>4. CASE Commit
  <2>1. version' = version + 1 /\ unannounced' = unannounced + 1 /\ published' = published
        /\ version < MaxMessages
    BY <1>4 DEF Commit, vars, serverVars
  <2>2. version' \in Versions /\ unannounced' \in Nat /\ published' + unannounced' <= version'
    BY <1>1, <2>1 DEF Versions
  <2>3. heard' \in [Pages -> 0..published']
    BY <1>1, <1>4, <2>1, HearType DEF Commit
  <2>4. reasons' \in [Pages -> SUBSET Reasons]
    BY <1>4, ReasonsType DEF Commit, Nothing
  <2>5. \A m \in Pages : \A v \in Versions : loads'[m][v] > 0 => v <= version'
    BY <1>1, <1>3, <2>1, VersionsAreNumbers
  <2> QED
    BY <1>2, <1>3, <2>2, <2>3, <2>4, <2>5 DEF DashTypeOK
<1>5. CASE Announce
  <2>1. version' = version /\ unannounced' = unannounced - 1 /\ published' = published + 1
        /\ unannounced > 0
    BY <1>5 DEF Announce, Publish
  <2>2. version' \in Versions /\ unannounced' \in Nat /\ published' + unannounced' <= version'
    BY <1>1, <2>1 DEF DashTypeOK
  <2>3. heard' \in [Pages -> 0..published']
    BY <1>1, <1>5, <2>1, HearType DEF Announce
  <2>4. reasons' \in [Pages -> SUBSET Reasons]
    BY <1>5, ReasonsType DEF Announce, Nothing
  <2> QED
    BY <1>2, <1>3, <2>1, <2>2, <2>3, <2>4 DEF DashTypeOK
<1>6. CASE AnnounceFails
  <2>1. version' = version /\ unannounced' = unannounced - 1 /\ published' = published
        /\ unannounced > 0
    BY <1>6 DEF AnnounceFails, serverVars
  <2>2. version' \in Versions /\ unannounced' \in Nat /\ published' + unannounced' <= version'
    BY <1>1, <2>1 DEF DashTypeOK
  <2>3. heard' \in [Pages -> 0..published']
    BY <1>1, <1>6, <2>1, HearType DEF AnnounceFails
  <2>4. reasons' \in [Pages -> SUBSET Reasons]
    <3>1. \A m \in Pages : [n \in Pages |-> {"unannounced"}][m] \subseteq Reasons
      BY DEF Reasons
    <3> QED
      BY <1>6, <3>1, ReasonsType DEF AnnounceFails
  <2> QED
    BY <1>2, <1>3, <2>1, <2>2, <2>3, <2>4 DEF DashTypeOK
<1> QED
  BY <1>4, <1>5, <1>6
\* What an answer from list_workitems does to the loads,
LEMMA ReadLoads ==
    ASSUME DashTypeOK, NEW m \in Pages, NEW v \in Versions, Read(m, v)
    PROVE  /\ loads' \in [Pages -> [Versions \cup {Unread} -> Nat]]
           /\ loads'[m][v] > 0
           /\ \A u \in Versions : u # v => loads'[m][u] = loads[m][u]
           /\ \A n \in Pages : n # m => loads'[n] = loads[n]
           /\ v <= version
<1>1. v # Unread /\ Unread \in Versions \cup {Unread} /\ v \in Versions \cup {Unread}
  BY VersionsAreNumbers
<1>2. loads[m] \in [Versions \cup {Unread} -> Nat]
  BY DEF DashTypeOK
<1>3. loads' = [loads EXCEPT ![m][Unread] = @ - 1, ![m][v] = @ + 1] /\ loads[m][Unread] > 0
  BY DEF Read, Turn
<1>4. loads' \in [Pages -> [Versions \cup {Unread} -> Nat]]
  BY <1>1, <1>3, LoadsType
<1>5. \A n \in Pages : n # m => loads'[n] = loads[n]
  BY <1>3 DEF DashTypeOK
<1>6. loads'[m][v] = loads[m][v] + 1 /\ loads[m][v] \in Nat
  BY <1>1, <1>2, <1>3 DEF DashTypeOK
<1>7. \A u \in Versions : u # v => loads'[m][u] = loads[m][u]
  BY <1>1, <1>2, <1>3, VersionsAreNumbers DEF DashTypeOK
<1>8. v <= version
  BY DEF Read
<1>9. loads'[m][v] > 0
  BY <1>6
<1> QED
  BY <1>4, <1>5, <1>7, <1>8, <1>9

\* and what the end of a load does.
LEMMA DropLoads ==
    ASSUME DashTypeOK, NEW m \in Pages, NEW v \in Versions \cup {Unread}, Drop(m, v)
    PROVE  /\ loads' \in [Pages -> [Versions \cup {Unread} -> Nat]]
           /\ \A u \in Versions \cup {Unread} : u # v => loads'[m][u] = loads[m][u]
           /\ \A n \in Pages : n # m => loads'[n] = loads[n]
           /\ loads[m][v] > 0 /\ loads[m][v] \in Nat /\ loads'[m][v] = loads[m][v] - 1
<1>1. loads[m] \in [Versions \cup {Unread} -> Nat]
  BY DEF DashTypeOK
<1>2. loads' \in [Pages -> [Versions \cup {Unread} -> Nat]]
  BY LoadsType DEF Drop
<1> QED
  BY <1>1, <1>2 DEF Drop, DashTypeOK

\* Loads keep ViewInv,
LEMMA LoadViewInv ==
    ASSUME ViewInv, ListInv', EventInv, NEW m \in Pages,
           Load(m) \/ \E v \in Versions \cup {Unread} : LoadFails(m, v)
    PROVE  ViewInv'
<1> USE DEF ViewInv
<1>1. TypeOK' /\ published \in Nat /\ UNCHANGED <<version, unannounced>>
  <2>1. TypeOK'
    BY DEF ListInv
  <2>3. published \in Nat
    BY DEF DashTypeOK, TypeOK
  <2>2. UNCHANGED <<version, unannounced>>
    BY DEF Load, Read, Show, LoadFails
  <2> QED
    BY <2>1, <2>2, <2>3
<1>2. ASSUME NEW v \in Versions, Read(m, v) PROVE ViewInv'
  <2>1. published' = published /\ shown' = shown
    BY <1>2 DEF Read, vars, serverVars
  <2>2. heard' \in [Pages -> 0..published']
    BY <1>1, <1>2, <2>1, HearType DEF Read
  <2>3. reasons' \in [Pages -> SUBSET Reasons]
    <3> DEFINE found == [n \in Pages |-> IF n = m /\ v < version THEN {"stale"} ELSE {}]
    <3>1. \A n \in Pages : found[n] \subseteq Reasons
      BY DEF Reasons
    <3>2. Explain(found)
      BY <1>2 DEF Read
    <3> HIDE DEF found
    <3> QED
      BY <3>1, <3>2, ReasonsType
  <2>4. \A n \in Pages : \A u \in Versions : loads'[n][u] > 0 => u <= version'
    BY <1>1, <1>2, ReadLoads
  <2> QED
    BY <1>1, <1>2, <2>1, <2>2, <2>3, <2>4, ReadLoads DEF DashTypeOK
<1>3. ASSUME NEW v \in Versions, Show(m, v) PROVE ViewInv'
  <2>1. published' = published /\ shown' = [shown EXCEPT ![m] = v]
    BY <1>3 DEF Show, vars, serverVars
  <2>2. heard' \in [Pages -> 0..published']
    BY <1>1, <1>3, <2>1, HearType DEF Show
  <2>3. reasons' \in [Pages -> SUBSET Reasons]
    <3> DEFINE found == [n \in Pages |-> IF n = m /\ v < shown[m] THEN {"overtaken"} ELSE {}]
    <3>1. \A n \in Pages : found[n] \subseteq Reasons
      BY DEF Reasons
    <3>2. Explain(found)
      BY <1>3 DEF Show
    <3> HIDE DEF found
    <3> QED
      BY <3>1, <3>2, ReasonsType
  <2>4. Drop(m, v)
    BY <1>3 DEF Show
  <2>5. \A n \in Pages : \A u \in Versions : loads'[n][u] > 0 => u <= version'
    BY <1>1, <2>4, DropLoads
  <2> QED
    BY <1>1, <2>1, <2>2, <2>3, <2>4, <2>5, DropLoads DEF DashTypeOK
<1>4. ASSUME NEW v \in Versions \cup {Unread}, LoadFails(m, v) PROVE ViewInv'
  <2>1. published' = published /\ shown' = shown
    BY <1>4 DEF LoadFails, serverVars
  <2>2. heard' \in [Pages -> 0..published']
    BY <1>1, <1>4, <2>1, HearType DEF LoadFails
  <2>3. reasons' \in [Pages -> SUBSET Reasons]
    <3> DEFINE found == [n \in Pages |-> IF n = m THEN {"failed"} ELSE {}]
    <3>1. \A n \in Pages : found[n] \subseteq Reasons
      BY DEF Reasons
    <3>2. Explain(found)
      BY <1>4 DEF LoadFails
    <3> HIDE DEF found
    <3> QED
      BY <3>1, <3>2, ReasonsType
  <2>4. Drop(m, v)
    BY <1>4 DEF LoadFails
  <2>5. \A n \in Pages : \A u \in Versions : loads'[n][u] > 0 => u <= version'
    BY <1>1, <2>4, DropLoads
  <2> QED
    BY <1>1, <2>1, <2>2, <2>3, <2>4, <2>5, DropLoads DEF DashTypeOK
<1> QED
  BY <1>2, <1>3, <1>4 DEF Load

\* and so do the steps of LiveUpdates, and opening and leaving a page.
LEMMA PageViewInv ==
    ASSUME ViewInv, ListInv', EventInv,
           \/ Hear /\ Follow /\ Explain(Nothing) /\ published' = published
           \/ \E m \in Pages : Leave(m)
           \/ \E m \in Pages, new \in SUBSET Sockets : \E last \in new : Open(m, new, last)
    PROVE  ViewInv'
<1> USE DEF ViewInv
<1>1. /\ Hear /\ Explain(Nothing) /\ published' = published
      /\ UNCHANGED <<version, unannounced>>
  BY DEF Follow, Leave, Open, Unmount, Mount, serverVars
<1>2. TypeOK' /\ published \in Nat
  <2>1. TypeOK'
    BY DEF ListInv
  <2>2. published \in Nat
    BY DEF DashTypeOK, TypeOK
  <2> QED
    BY <2>1, <2>2
<1>3. heard' \in [Pages -> 0..published']
  BY <1>1, <1>2, HearType
<1>4. reasons' \in [Pages -> SUBSET Reasons]
  BY <1>1, ReasonsType DEF Nothing
<1>5. 0 \in Versions /\ EffectRuns \in Nat /\ Unread \notin Versions
      /\ NoLoads \in [Versions \cup {Unread} -> Nat]
  BY LiveAssumption, VersionsAreNumbers DEF Versions, NoLoads
<1>6. /\ loads' \in [Pages -> [Versions \cup {Unread} -> Nat]]
      /\ shown' \in [Pages -> Versions]
      /\ \A n \in Pages : \A u \in Versions : loads'[n][u] > 0 => u <= version'
  <2>1. CASE Follow
    <3>1. \A n \in Pages : \/ loads'[n] = loads[n]
                           \/ loads'[n] = [loads[n] EXCEPT ![Unread] = @ + 1]
      BY <2>1 DEF Follow
    <3>2. \A n \in Pages : loads[n] \in [Versions \cup {Unread} -> Nat]
      BY DEF DashTypeOK
    <3>3. \A n \in Pages : /\ loads'[n] \in [Versions \cup {Unread} -> Nat]
                           /\ \A u \in Versions : loads'[n][u] = loads[n][u]
      <4> SUFFICES ASSUME NEW n \in Pages
                   PROVE  /\ loads'[n] \in [Versions \cup {Unread} -> Nat]
                          /\ \A u \in Versions : loads'[n][u] = loads[n][u]
        OBVIOUS
      <4>1. CASE loads'[n] = loads[n]
        BY <3>2, <4>1
      <4>2. CASE loads'[n] = [loads[n] EXCEPT ![Unread] = @ + 1]
        BY <1>5, <3>2, <4>2
      <4> QED
        BY <3>1, <4>1, <4>2
    <3>4. loads' = [n \in Pages |-> loads'[n]]
      BY <2>1 DEF Follow
    <3>5. loads' \in [Pages -> [Versions \cup {Unread} -> Nat]]
      BY <3>3, <3>4
    <3>6. \A n \in Pages : \A u \in Versions : loads'[n][u] > 0 => u <= version'
      BY <1>1, <3>3
    <3>7. shown' \in [Pages -> Versions]
      BY <2>1 DEF Follow, DashTypeOK
    <3> QED
      BY <3>5, <3>6, <3>7
  <2>2. ASSUME NEW m \in Pages, Leave(m)
        PROVE  /\ loads' \in [Pages -> [Versions \cup {Unread} -> Nat]]
               /\ shown' \in [Pages -> Versions]
               /\ \A n \in Pages : \A u \in Versions : loads'[n][u] > 0 => u <= version'
    <3>1. loads' = [loads EXCEPT ![m] = NoLoads] /\ shown' = [shown EXCEPT ![m] = 0]
      BY <2>2 DEF Leave
    <3>2. \A u \in Versions : NoLoads[u] = 0
      BY DEF NoLoads
    <3> QED
      BY <1>1, <1>5, <3>1, <3>2 DEF DashTypeOK
  <2>3. ASSUME NEW m \in Pages, NEW new \in SUBSET Sockets, NEW last \in new, Open(m, new, last)
        PROVE  /\ loads' \in [Pages -> [Versions \cup {Unread} -> Nat]]
               /\ shown' \in [Pages -> Versions]
               /\ \A n \in Pages : \A u \in Versions : loads'[n][u] > 0 => u <= version'
    <3>1. loads' = [loads EXCEPT ![m][Unread] = EffectRuns] /\ shown' = shown
      BY <2>3 DEF Open
    <3>2. loads[m] \in [Versions \cup {Unread} -> Nat]
      BY DEF DashTypeOK
    <3> QED
      BY <1>1, <1>5, <3>1, <3>2 DEF DashTypeOK
  <2> QED
    BY <2>1, <2>2, <2>3
<1> QED
  BY <1>1, <1>2, <1>3, <1>4, <1>6 DEF DashTypeOK
\* The steps of LiveUpdates that are taken as they are.
Network ==
    Listen \/ Disturb \/ (\E s \in Sockets : Serve(s) \/ Browse(s))
    \/ \E m \in Pages, s \in Sockets : Reconnect(m, s)

\* They neither publish, nor open or leave a page.
LEMMA NetworkAlone == Network => UNCHANGED <<published, page>>
BY DEF Network, Listen, Take, Send, EndBroadcast, Disturb, ListenerFails, Resubscribe, Restart,
   LinkFails, Serve, Accept, Register, Disconnect, Browse, OnOpen, OnClose, Reconnect,
   serverVars, browserVars

\* The steps, grouped by what they do to the view of a page.
LEMMA DashCases ==
    ASSUME [DashNext]_allVars
    PROVE  \/ UNCHANGED allVars
           \/ Commit \/ Announce \/ AnnounceFails
           \/ Network /\ Hear /\ Follow /\ Explain(Nothing)
           \/ \E m \in Pages, new \in SUBSET Sockets : \E last \in new : Open(m, new, last)
           \/ \E m \in Pages : Leave(m)
           \/ \E m \in Pages : Load(m) \/ \E v \in Versions \cup {Unread} : LoadFails(m, v)
<1>1. Through(Listen) \/ Through(Disturb) => Network /\ Hear /\ Follow /\ Explain(Nothing)
  BY DEF Through, Network
<1>2. \A s \in Sockets : Through(Serve(s)) \/ Through(Browse(s))
                         => Network /\ Hear /\ Follow /\ Explain(Nothing)
  BY DEF Through, Network
<1>3. \A m \in Pages, s \in Sockets :
         Through(Reconnect(m, s)) => Network /\ Hear /\ Follow /\ Explain(Nothing)
  BY DEF Through, Network
<1> QED
  BY <1>1, <1>2, <1>3 DEF DashNext

\* Every step keeps ViewInv.
LEMMA NextViewInv ==
    ListInv /\ EventInv /\ ViewInv /\ [DashNext]_allVars => ViewInv'
<1> SUFFICES ASSUME ListInv, EventInv, ViewInv, [DashNext]_allVars PROVE ViewInv'
  OBVIOUS
<1>1. ListInv'
  BY DashStepKeepsInv
<1>2. CASE UNCHANGED allVars
  <2>1. TypeOK'
    BY <1>1 DEF ListInv
  <2> QED
    BY <1>2, <2>1 DEF allVars, vars, serverVars, dashVars, ViewInv, DashTypeOK
<1>3. CASE Commit \/ Announce \/ AnnounceFails
  BY <1>1, <1>3, WriteViewInv
<1>4. CASE Network /\ Hear /\ Follow /\ Explain(Nothing)
  BY <1>1, <1>4, NetworkAlone, PageViewInv
<1>5. CASE \/ \E m \in Pages, new \in SUBSET Sockets : \E last \in new : Open(m, new, last)
           \/ \E m \in Pages : Leave(m)
  BY <1>1, <1>5, PageViewInv
<1>6. ASSUME NEW m \in Pages,
             Load(m) \/ \E v \in Versions \cup {Unread} : LoadFails(m, v)
      PROVE  ViewInv'
  BY <1>1, <1>6, LoadViewInv
<1> QED
  BY <1>2, <1>3, <1>4, <1>5, <1>6, DashCases

\* No more is published than was committed, and everything keeps its type.
THEOREM DashTypeCorrect == DashSpec => []DashTypeOK
<1>1. ViewInv => DashTypeOK
  BY DEF ViewInv
<1> QED
  BY <1>1, DashInitInv, InitViewInv, DashStepKeepsInv, NextViewInv, PTL DEF DashSpec

-----------------------------------------------------------------------------
(* A page that is behind the database.                                     *)

\* What BehindForAReason says of one page.
Excused(m) ==
    page[m] = "mounted" /\ shown[m] # version =>
        Catching(m) \/ Expecting(m) \/ reasons[m] # {}

\* Reasons stay as long as the page is behind, and new ones are added.
LEMMA ReasonsStay ==
    ASSUME NEW m \in Pages, NEW found, Explain(found),
           page'[m] = "mounted", shown'[m] # version'
    PROVE  reasons'[m] = reasons[m] \cup Missed(m) \cup found[m]
BY DEF Explain

\* An event that a page expects stays pending, or is gone, which is a reason.
LEMMA ExpectedOrMissed ==
    ASSUME NEW m \in Pages, Expecting(m), NEW found, Explain(found),
           page'[m] = "mounted", shown'[m] # version',
           unannounced' = unannounced, heard'[m] = heard[m]
    PROVE  Expecting(m)' \/ reasons'[m] # {}
<1>1. CASE unannounced > 0
  BY <1>1 DEF Expecting
<1>2. ASSUME NEW e \in Pending, heard[m] < e PROVE Expecting(m)' \/ reasons'[m] # {}
  <2>1. CASE e \in Pending'
    BY <1>2, <2>1 DEF Expecting
  <2>2. CASE e \notin Pending'
    <3>1. e \in Gone
      BY <2>2 DEF Gone
    <3>2. Missed(m) = {"missed"}
      BY <1>2, <3>1 DEF Missed
    <3> QED
      BY <3>2, ReasonsStay
  <2> QED
    BY <2>1, <2>2
<1> QED
  BY <1>1, <1>2 DEF Expecting

\* A step that does nothing to a page keeps it excused.
LEMMA StillExcused ==
    ASSUME NEW m \in Pages, Excused(m), NEW found, Explain(found),
           UNCHANGED <<version, unannounced>>, page'[m] = page[m], shown'[m] = shown[m],
           heard'[m] = heard[m],
           \A v \in {Unread, version} : loads[m][v] > 0 => loads'[m][v] > 0
    PROVE  Excused(m)'
<1> SUFFICES ASSUME page'[m] = "mounted", shown'[m] # version'
             PROVE  Catching(m)' \/ Expecting(m)' \/ reasons'[m] # {}
  BY DEF Excused
<1>1. CASE Catching(m)
  BY <1>1 DEF Catching, Unread
<1>2. CASE Expecting(m)
  BY <1>2, ExpectedOrMissed
<1>3. CASE reasons[m] # {}
  BY <1>3, ReasonsStay
<1> QED
  BY <1>1, <1>2, <1>3 DEF Excused

\* Nobody hears anything in a step that leaves the sockets alone.
LEMMA NothingHeard ==
    ASSUME TypeOK, DashTypeOK, Hear, got' = got
    PROVE  heard' = heard
<1>1. \A s \in Sockets : ~(got'[s] > got[s])
  BY Numbers
<1>2. \A m \in Pages : ~Told(m)
  BY <1>1 DEF Told
<1> QED
  BY <1>2 DEF Hear, DashTypeOK

\* A write is an event to expect, unless it is never published.
LEMMA WriteExcused ==
    ASSUME ListInv, EventInv, ViewInv, Commit \/ Announce \/ AnnounceFails, NEW m \in Pages,
           Excused(m)
    PROVE  Excused(m)'
<1> USE DEF ViewInv, ListInv
<1> SUFFICES ASSUME page'[m] = "mounted", shown'[m] # version'
             PROVE  Expecting(m)' \/ reasons'[m] # {}
  BY DEF Excused
<1>1. CASE Commit
  <2>1. unannounced' > 0
    BY <1>1 DEF Commit, DashTypeOK
  <2> QED
    BY <2>1 DEF Expecting
<1>2. CASE Announce
  <2>1. heard' = heard /\ Explain(Nothing) /\ message' = message /\ published' = published + 1
    BY <1>2, NothingHeard DEF Announce, Publish
  <2>2. heard[m] < published + 1 /\ published + 1 \in Nat
    BY DEF DashTypeOK, TypeOK
  <2>3. CASE listener = "down"
    <3>1. \A e \in Pending' : e # published + 1
      <4>1. channel' = channel
        BY <1>2, <2>3 DEF Announce, Publish
      <4>2. message # published + 1 /\ message \in Nat
        BY Numbers DEF EventInv
      <4>3. \A i \in DOMAIN channel : channel[i] # published + 1
        BY Numbers DEF EventInv
      <4> QED
        BY <2>1, <4>1, <4>2, <4>3 DEF Pending, Range
    <3>2. published + 1 \in Gone
      <4>1. published + 1 \in published + 1..published'
        BY <2>1, <2>2
      <4> QED
        BY <3>1, <4>1 DEF Gone
    <3>3. Missed(m) = {"missed"}
      BY <2>1, <2>2, <3>2 DEF Missed
    <3> QED
      BY <2>1, <3>3, ReasonsStay
  <2>4. CASE listener # "down"
    <3>1. channel' = Append(channel, published + 1)
      BY <1>2, <2>4 DEF Announce, Publish
    <3>2. channel \in Seq(1..MaxMessages) /\ published + 1 \in 1..MaxMessages
      BY <1>2, LiveAssumption DEF Announce, Publish, TypeOK
    <3>3. /\ channel'[Len(channel) + 1] = published + 1
          /\ Len(channel) + 1 \in DOMAIN channel'
      BY <3>1, <3>2, AppendProperties, LenProperties
    <3>4. published + 1 \in Pending'
      BY <3>3 DEF Pending, Range
    <3> QED
      BY <2>1, <2>2, <3>4 DEF Expecting
  <2> QED
    BY <2>3, <2>4
<1>3. CASE AnnounceFails
  <2> DEFINE found == [n \in Pages |-> {"unannounced"}]
  <2>1. Explain(found) /\ found[m] = {"unannounced"}
    BY <1>3 DEF AnnounceFails
  <2> HIDE DEF found
  <2> QED
    BY <2>1, ReasonsStay
<1> QED
  BY <1>1, <1>2, <1>3

\* An event that arrives starts a load; otherwise the network does nothing to
\* the page, or loses the event.
LEMMA NetworkExcused ==
    ASSUME ListInv, ViewInv, Network, Hear, Follow, Explain(Nothing), NEW m \in Pages,
           Excused(m)
    PROVE  Excused(m)'
<1>1. UNCHANGED <<published, page, version, unannounced, shown>>
  BY NetworkAlone DEF Follow
<1>2. CASE Told(m) /\ page[m] = "mounted"
  <2>1. loads'[m] = [loads[m] EXCEPT ![Unread] = @ + 1]
    BY <1>2 DEF Follow
  <2>2. loads[m] \in [Versions \cup {Unread} -> Nat]
    BY DEF ViewInv, DashTypeOK
  <2>3. loads'[m][Unread] > 0
    BY <2>1, <2>2
  <2> QED
    BY <2>3 DEF Excused, Catching, Unread
<1>3. CASE Told(m) /\ page[m] # "mounted"
  BY <1>1, <1>3 DEF Excused
<1>4. CASE ~Told(m)
  <2>1. heard'[m] = heard[m] /\ loads'[m] = loads[m]
    BY <1>4 DEF Hear, Follow
  <2> QED
    BY <1>1, <2>1, StillExcused
<1> QED
  BY <1>2, <1>3, <1>4

\* A page that is opened loads the list; one that is left is not looked at.
LEMMA PageExcused ==
    ASSUME ListInv, ViewInv, NEW m \in Pages, Excused(m), NEW n \in Pages,
           Leave(n) \/ \E new \in SUBSET Sockets : \E last \in new : Open(n, new, last)
    PROVE  Excused(m)'
<1> USE DEF ViewInv, ListInv
<1>1. CASE Leave(n)
  <2>1. /\ Explain(Nothing) /\ UNCHANGED <<version, unannounced>> /\ heard' = heard
        /\ page' = [page EXCEPT ![n] = "left"] /\ loads' = [loads EXCEPT ![n] = NoLoads]
        /\ shown' = [shown EXCEPT ![n] = 0]
    BY <1>1, NothingHeard DEF Leave, Unmount
  <2>2. CASE m = n
    BY <2>1, <2>2 DEF Excused, DashTypeOK, TypeOK
  <2>3. CASE m # n
    <3>1. page'[m] = page[m] /\ loads'[m] = loads[m] /\ shown'[m] = shown[m]
      BY <2>1, <2>3 DEF DashTypeOK, TypeOK
    <3> QED
      BY <2>1, <3>1, StillExcused
  <2> QED
    BY <2>2, <2>3
<1>2. ASSUME NEW new \in SUBSET Sockets, NEW last \in new, Open(n, new, last)
      PROVE  Excused(m)'
  <2>1. /\ Hear /\ Explain(Nothing) /\ UNCHANGED <<version, unannounced, shown>>
        /\ page' = [page EXCEPT ![n] = "mounted"]
        /\ loads' = [loads EXCEPT ![n][Unread] = EffectRuns]
    BY <1>2 DEF Open, Mount
  <2>2. CASE m = n
    <3>1. loads[m] \in [Versions \cup {Unread} -> Nat]
      BY DEF DashTypeOK
    <3>2. loads'[m][Unread] > 0
      BY <2>1, <2>2, <3>1, LiveAssumption DEF DashTypeOK
    <3> QED
      BY <3>2 DEF Excused, Catching, Unread
  <2>3. CASE m # n
    <3>1. page'[m] = page[m] /\ loads'[m] = loads[m] /\ shown'[m] = shown[m]
      BY <2>1, <2>3 DEF DashTypeOK, TypeOK
    <3>2. \A s \in Sockets : ~(got'[s] > got[s])
      <4>1. \A s \in Sockets : got'[s] = got[s] \/ got'[s] = 0
        BY <1>2 DEF Open, Mount, Connect, Set
      <4>2. \A s \in Sockets : got[s] \in Nat
        BY Numbers
      <4> QED
        BY <4>1, <4>2
    <3>3. heard'[m] = heard[m]
      BY <2>1, <3>2 DEF Hear, Told
    <3> QED
      BY <2>1, <3>1, <3>3, StillExcused
  <2> QED
    BY <2>2, <2>3
<1> QED
  BY <1>1, <1>2

\* A load brings the database, something older for a reason, or an error.
LEMMA LoadExcused ==
    ASSUME ListInv, ViewInv, NEW m \in Pages, Excused(m), NEW n \in Pages,
           Load(n) \/ \E v \in Versions \cup {Unread} : LoadFails(n, v)
    PROVE  Excused(m)'
<1> USE DEF ViewInv, ListInv
<1>1. version \in Versions /\ Unread \notin Versions
  BY VersionsAreNumbers DEF DashTypeOK
<1>2. /\ Hear /\ UNCHANGED <<version, unannounced, page, got>>
  BY DEF Load, Read, Show, LoadFails, vars, browserVars
<1>3. heard' = heard
  BY <1>2, NothingHeard
<1>4. ASSUME NEW v \in Versions, Read(n, v) PROVE Excused(m)'
  <2> DEFINE found == [k \in Pages |-> IF k = n /\ v < version THEN {"stale"} ELSE {}]
  <2>1. Explain(found) /\ shown' = shown /\ (m = n /\ v < version => found[m] = {"stale"})
    BY <1>4 DEF Read
  <2> HIDE DEF found
  <2>2. CASE m = n /\ v = version
    <3>1. loads'[m][version] > 0
      BY <1>4, <2>2, ReadLoads
    <3>2. Catching(m)'
      BY <1>2, <3>1 DEF Catching
    <3> QED
      BY <3>2 DEF Excused
  <2>3. CASE m = n /\ v # version
    <3>1. v < version
      <4>1. v <= version
        BY <1>4, ReadLoads
      <4>2. v \in Nat /\ version \in Nat
        BY <1>1, VersionsAreNumbers
      <4> QED
        BY <2>3, <4>1, <4>2
    <3> QED
      BY <2>1, <2>3, <3>1, ReasonsStay DEF Excused
  <2>4. CASE m # n
    <3>1. loads'[m] = loads[m]
      BY <1>4, <2>4, ReadLoads
    <3> QED
      BY <1>2, <1>3, <2>1, <3>1, StillExcused
  <2> QED
    BY <2>2, <2>3, <2>4
<1>5. ASSUME NEW v \in Versions, Show(n, v) PROVE Excused(m)'
  <2> DEFINE found == [k \in Pages |-> IF k = n /\ v < shown[n] THEN {"overtaken"} ELSE {}]
  <2>1. /\ Explain(found) /\ Drop(n, v) /\ shown' = [shown EXCEPT ![n] = v]
        /\ (m = n /\ v < shown[n] => found[m] = {"overtaken"})
    BY <1>5 DEF Show
  <2> HIDE DEF found
  <2>2. CASE m = n /\ v = version
    BY <1>2, <2>1, <2>2 DEF Excused, DashTypeOK
  <2>3. CASE m = n /\ v # version /\ shown[m] = version
    <3>1. v < shown[n]
      BY <1>1, <2>1, <2>3, DropLoads, VersionsAreNumbers
    <3> QED
      BY <2>1, <2>3, <3>1, ReasonsStay DEF Excused
  <2>4. CASE m = n /\ v # version /\ shown[m] # version
    <3> SUFFICES ASSUME page'[m] = "mounted", shown'[m] # version'
                 PROVE  Catching(m)' \/ Expecting(m)' \/ reasons'[m] # {}
      BY DEF Excused
    <3>1. \A u \in {Unread, version} : loads'[m][u] = loads[m][u]
      BY <1>1, <2>1, <2>4, DropLoads
    <3>2. Catching(m) => Catching(m)'
      BY <1>2, <3>1 DEF Catching, Unread
    <3>3. Expecting(m) => Expecting(m)' \/ reasons'[m] # {}
      BY <1>2, <1>3, <2>1, ExpectedOrMissed
    <3>4. reasons[m] # {} => reasons'[m] # {}
      BY <2>1, ReasonsStay
    <3> QED
      BY <1>2, <2>4, <3>2, <3>3, <3>4 DEF Excused
  <2>5. CASE m # n
    <3>1. loads'[m] = loads[m] /\ shown'[m] = shown[m]
      BY <2>1, <2>5, DropLoads DEF DashTypeOK
    <3> QED
      BY <1>2, <1>3, <2>1, <3>1, StillExcused
  <2> QED
    BY <2>2, <2>3, <2>4, <2>5
<1>6. ASSUME NEW v \in Versions \cup {Unread}, LoadFails(n, v) PROVE Excused(m)'
  <2> DEFINE found == [k \in Pages |-> IF k = n THEN {"failed"} ELSE {}]
  <2>1. Explain(found) /\ Drop(n, v) /\ shown' = shown /\ (m = n => found[m] = {"failed"})
    BY <1>6 DEF LoadFails
  <2> HIDE DEF found
  <2>2. CASE m = n
    BY <2>1, <2>2, ReasonsStay DEF Excused
  <2>3. CASE m # n
    <3>1. loads'[m] = loads[m]
      BY <2>1, <2>3, DropLoads
    <3> QED
      BY <1>2, <1>3, <2>1, <3>1, StillExcused
  <2> QED
    BY <2>2, <2>3
<1> QED
  BY <1>4, <1>5, <1>6 DEF Load

\* A page that does not show the database is loading it, is about to hear of
\* it, or missed an event, was answered from the cache, had its answers
\* overtake each other, or met an error.
THEOREM NeverBehindWithoutReason == DashSpec => []BehindForAReason
<1>1. DashInit => BehindForAReason
  BY DEF DashInit, Init, BehindForAReason
<1>2. BehindForAReason <=> \A m \in Pages : Excused(m)
  BY DEF BehindForAReason, Excused
<1>3. ListInv /\ EventInv /\ ViewInv /\ BehindForAReason /\ [DashNext]_allVars
        => BehindForAReason'
  <2> SUFFICES ASSUME ListInv, EventInv, ViewInv, BehindForAReason, [DashNext]_allVars
               PROVE  BehindForAReason'
    OBVIOUS
  <2> SUFFICES ASSUME NEW m \in Pages PROVE Excused(m)'
    BY DEF BehindForAReason, Excused
  <2>1. Excused(m)
    BY <1>2
  <2>2. CASE UNCHANGED allVars
    BY <2>1, <2>2 DEF allVars, vars, serverVars, browserVars, dashVars, Excused, Catching,
       Expecting, Pending
  <2>3. CASE Commit \/ Announce \/ AnnounceFails
    BY <2>1, <2>3, WriteExcused
  <2>4. CASE Network /\ Hear /\ Follow /\ Explain(Nothing)
    BY <2>1, <2>4, NetworkExcused
  <2>5. ASSUME NEW n \in Pages,
               Leave(n) \/ \E new \in SUBSET Sockets : \E last \in new : Open(n, new, last)
        PROVE  Excused(m)'
    BY <2>1, <2>5, PageExcused
  <2>6. ASSUME NEW n \in Pages,
               Load(n) \/ \E v \in Versions \cup {Unread} : LoadFails(n, v)
        PROVE  Excused(m)'
    BY <2>1, <2>6, LoadExcused
  <2> QED
    BY <2>2, <2>3, <2>4, <2>5, <2>6, DashCases
<1> QED
  BY <1>1, <1>3, DashInitInv, InitViewInv, DashStepKeepsInv, NextViewInv, PTL DEF DashSpec
=============================================================================
