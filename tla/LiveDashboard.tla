---------------------------- MODULE LiveDashboard ----------------------------
(***************************************************************************)
(* Whether a dashboard page shows what is in the database: the writes and  *)
(* their events, the network of LiveUpdates that brings the events to the  *)
(* pages, and the loads by which a page follows them.  The list a load is  *)
(* answered with is any that ListService allows, time left out: the        *)
(* current version or an earlier one.                                      *)
(***************************************************************************)
EXTENDS LiveUpdates

VARIABLES
    version,      \* version of the list in the database: writes committed
    unannounced,  \* operations between their commit and their PUBLISH
    loads,        \* loads[m][v]: loads of page m answered with version v
    shown,        \* the version a page shows
    \* history
    heard,        \* the latest event a page got
    reasons       \* what went wrong since a page last showed the database

dashVars == <<version, unannounced, loads, shown>>

allVars == <<vars, dashVars, heard, reasons>>

Versions == 0..MaxMessages      \* every write publishes at most one event
Unread == MaxMessages + 1       \* the load's list has not been read yet

Reasons == {"unannounced", "missed", "stale", "overtaken", "failed"}

NoLoads == [v \in Versions \cup {Unread} |-> 0]

DashInit ==
    /\ Init
    /\ version = 0
    /\ unannounced = 0
    /\ loads = [m \in Pages |-> NoLoads]
    /\ shown = [m \in Pages |-> 0]
    /\ heard = [m \in Pages |-> 0]
    /\ reasons = [m \in Pages |-> {}]

-----------------------------------------------------------------------------
(* What a step does to the pages.                                          *)

\* An event arrives at a page.
Told(m) == \E s \in Sockets : owner[s] = m /\ got'[s] > got[s]

\* Mutant of Follow: the event itself changes nothing.
FollowNot ==
    /\ UNCHANGED <<version, unannounced, loads, shown>>

\* onmessage calls loadItems, whether other loads are under way or not.
Follow ==
    /\ loads' = [m \in Pages |-> IF Told(m) /\ page[m] = "mounted"
                                 THEN [loads[m] EXCEPT ![Unread] = @ + 1] ELSE loads[m]]
    /\ UNCHANGED <<version, unannounced, shown>>

Hear == heard' = [m \in Pages |-> IF Told(m) THEN message ELSE heard[m]]

\* The events that somebody may still get.
Pending == Range(channel) \cup ({message} \ {0})

\* The events nobody gets any more after a step.
Gone == (Pending \cup published + 1..published') \ Pending'

Missed(m) == IF \E e \in Gone : heard'[m] < e THEN {"missed"} ELSE {}

\* Once a page shows the database nothing of what went wrong before matters.
Explain(found) ==
    reasons' = [m \in Pages |->
                  IF page'[m] # "mounted" \/ shown'[m] = version' THEN {}
                  ELSE reasons[m] \cup Missed(m) \cup found[m]]

Nothing == [m \in Pages |-> {}]

-----------------------------------------------------------------------------
(* The operations that change incidents.                                   *)

Commit ==
    /\ version < MaxMessages
    /\ version' = version + 1
    /\ unannounced' = unannounced + 1
    /\ UNCHANGED <<vars, loads, shown>>
    /\ Hear
    /\ Explain(Nothing)

\* Mutant of Announce: it may run before the commit.
AnnounceEarly ==
    /\ published < MaxMessages
    /\ unannounced' = IF unannounced > 0 THEN unannounced - 1 ELSE 0
    /\ Publish
    /\ UNCHANGED <<version, loads, shown>>
    /\ Hear
    /\ Explain(Nothing)

\* PUBLISH to incidents:updates, after the commit.
Announce ==
    /\ unannounced > 0
    /\ unannounced' = unannounced - 1
    /\ Publish
    /\ UNCHANGED <<version, loads, shown>>
    /\ Hear
    /\ Explain(Nothing)

\* An error between the commit and the PUBLISH.
AnnounceFails ==
    /\ Fault
    /\ unannounced > 0
    /\ unannounced' = unannounced - 1
    /\ UNCHANGED <<serverVars, conns, endpoint, link, browserVars, got, left>>
    /\ UNCHANGED <<version, loads, shown>>
    /\ Hear
    /\ Explain([m \in Pages |-> {"unannounced"}])

-----------------------------------------------------------------------------
(* The loads of a page.                                                    *)

\* A load with version v becomes one with version w.
Turn(m, v, w) ==
    /\ loads[m][v] > 0
    /\ loads' = [loads EXCEPT ![m][v] = @ - 1, ![m][w] = @ + 1]

\* list_workitems answers, from the database or from its cache.
Read(m, v) ==
    /\ v <= version
    /\ Turn(m, Unread, v)
    /\ UNCHANGED <<vars, version, unannounced, shown>>
    /\ Hear
    /\ Explain([n \in Pages |-> IF n = m /\ v < version THEN {"stale"} ELSE {}])

Drop(m, v) ==
    /\ loads[m][v] > 0
    /\ loads' = [loads EXCEPT ![m][v] = @ - 1]

\* setItems: answers arrive in any order, and each replaces what is shown.
Show(m, v) ==
    /\ v # Unread
    /\ Drop(m, v)
    /\ shown' = [shown EXCEPT ![m] = v]
    /\ UNCHANGED <<vars, version, unannounced>>
    /\ Hear
    /\ Explain([n \in Pages |-> IF n = m /\ v < shown[m] THEN {"overtaken"} ELSE {}])

\* The request for the list or that for the time series fails: setError.
LoadFails(m, v) ==
    /\ Fault
    /\ Drop(m, v)
    /\ UNCHANGED <<serverVars, conns, endpoint, link, browserVars, got, left>>
    /\ UNCHANGED <<version, unannounced, shown>>
    /\ Hear
    /\ Explain([n \in Pages |-> IF n = m THEN {"failed"} ELSE {}])

\* The effect loads and connects; no load is tied to onopen.
Open(m, new, last) ==
    /\ Mount(m, new, last)
    /\ loads' = [loads EXCEPT ![m][Unread] = EffectRuns]
    /\ UNCHANGED <<version, unannounced, shown>>
    /\ Hear
    /\ Explain(Nothing)

\* Nobody sees what a page shows after it was left.
Leave(m) ==
    /\ Unmount(m)
    /\ loads' = [loads EXCEPT ![m] = NoLoads]
    /\ shown' = [shown EXCEPT ![m] = 0]
    /\ UNCHANGED <<version, unannounced>>
    /\ Hear
    /\ Explain(Nothing)

\* A step of LiveUpdates that is not part of one of the above.
Through(A) ==
    /\ A
    /\ Hear
    /\ Follow
    /\ Explain(Nothing)

Load(m) == \E v \in Versions : Read(m, v) \/ Show(m, v)

DashNext ==
    \/ Commit \/ Announce \/ AnnounceFails
    \/ Through(Listen)
    \/ Through(Disturb)
    \/ \E s \in Sockets : Through(Serve(s)) \/ Through(Browse(s))
    \/ \E m \in Pages :
         \/ \E new \in SUBSET Sockets : \E last \in new : Open(m, new, last)
         \/ \E s \in Sockets : Through(Reconnect(m, s))
         \/ Leave(m) \/ Load(m)
         \/ \E v \in Versions \cup {Unread} : LoadFails(m, v)

DashSpec == DashInit /\ [][DashNext]_allVars

\* As in LiveUpdates; an operation that has committed publishes, and requests
\* are answered.
DashFairSpec ==
    /\ DashSpec
    /\ WF_allVars(Announce)
    /\ WF_allVars(Through(Listen))
    /\ \A s \in Sockets : WF_allVars(Through(Serve(s))) /\ WF_allVars(Through(Browse(s)))
    /\ \A m \in Pages :
         WF_allVars(\E s \in Sockets : Through(Reconnect(m, s))) /\ WF_allVars(Load(m))

-----------------------------------------------------------------------------
(* Properties                                                              *)

DashTypeOK ==
    /\ TypeOK
    /\ version \in Versions
    /\ unannounced \in Nat
    /\ published + unannounced <= version
    /\ loads \in [Pages -> [Versions \cup {Unread} -> Nat]]
    /\ shown \in [Pages -> Versions]
    /\ heard \in [Pages -> 0..published]
    /\ reasons \in [Pages -> SUBSET Reasons]

\* A load under way that will show the database.
Catching(m) == \E v \in {Unread, version} : loads[m][v] > 0

\* An event that the page may still get.
Expecting(m) == unannounced > 0 \/ \E e \in Pending : heard[m] < e

\* "User sees updated incident" (docs/RCA_FLOW.md:162): a page that is behind
\* the database is about to catch up, unless it missed an event, was answered
\* from the cache, had its answers overtake each other, or something failed.
BehindForAReason ==
    \A m \in Pages :
        page[m] = "mounted" /\ shown[m] # version =>
            Catching(m) \/ Expecting(m) \/ reasons[m] # {}

\* In the end it does catch up, with the same exceptions.
CatchesUp ==
    <>[](\A m \in Pages :
           page[m] = "mounted" => shown[m] = version \/ reasons[m] # {})
=============================================================================
