---------------------------- MODULE LiveUpdates ----------------------------
(***************************************************************************)
(* How an event published by a write reaches the browsers: the Redis       *)
(* channel, the listener task of the API process, its list of WebSockets,  *)
(* the endpoint coroutine of each of them, and the sockets and timers by   *)
(* which a dashboard page stays connected.                                 *)
(*                                                                         *)
(* A step is the code between two awaits, or a browser event.  Each        *)
(* connectWebSocket makes a new socket.                                    *)
(*                                                                         *)
(* Under React.StrictMode (main.jsx:12) the development build, which the   *)
(* frontend's container runs, executes an effect, its cleanup and the      *)
(* effect again when a page is mounted: EffectRuns is 2 there, and 1 in a  *)
(* production build.                                                       *)
(***************************************************************************)
EXTENDS Naturals, FiniteSets, SequencesExt

CONSTANTS
    Pages,        \* the times a Dashboard component is mounted
    Sockets,      \* the sockets that exist together
    NoPage,
    EffectRuns,   \* how often React runs the effect of a page that is mounted
    MaxReconnectAttempts,  \* 5
    MaxMessages,  \* bound on the events
    MaxFaults     \* bound on failures of Redis, the network and the process

ASSUME LiveAssumption ==
    /\ NoPage \notin Pages
    /\ EffectRuns \in Nat \ {0}
    /\ MaxReconnectAttempts \in Nat \ {0}
    /\ MaxMessages \in Nat
    /\ MaxFaults \in Nat
    /\ IsFiniteSet(Sockets)

VARIABLES
    \* the API process
    published,    \* number of events published; they are numbered
    channel,      \* events the subscription holds for the listener
    listener,     \* "listening", "broadcasting" or "down"
    message,      \* the event being broadcast
    next,         \* index of the next connection in the loop of broadcast
    failed,       \* its list of connections that refused the event
    conns,        \* active_connections
    endpoint,     \* where a socket's websocket_endpoint is
    \* the network
    link,         \* whether a socket's connection is "up" or "lost"
    \* the browsers
    page,         \* "new", "mounted" or "left"
    owner,        \* the page whose connectWebSocket made the socket
    socket,       \* its readyState
    first,        \* the sockets that the cleanups to come refer to
    timers,       \* timers[m]: calls of connectWebSocket that are due
    attempt,      \* reconnectAttempt in the state of the page's component
    faults,
    \* history
    got,          \* the latest event a socket got, 0 if none
    left          \* how many connections left behind the loop of broadcast

serverVars == <<published, channel, listener, message, next, failed>>
browserVars == <<page, owner, socket, first, timers, attempt>>

vars == <<serverVars, conns, endpoint, link, browserVars, faults, got, left>>

Members == Range(conns)

Init ==
    /\ published = 0
    /\ channel = <<>>
    /\ listener = "listening"
    /\ message = 0
    /\ next = 1
    /\ failed = {}
    /\ conns = <<>>
    /\ endpoint = [s \in Sockets |-> "none"]
    /\ link = [s \in Sockets |-> "none"]
    /\ page = [m \in Pages |-> "new"]
    /\ owner = [s \in Sockets |-> NoPage]
    /\ socket = [s \in Sockets |-> "none"]
    /\ first = {}
    /\ timers = [m \in Pages |-> 0]
    /\ attempt = [m \in Pages |-> 0]
    /\ faults = 0
    /\ got = [s \in Sockets |-> 0]
    /\ left = 0

Fault ==
    /\ faults < MaxFaults
    /\ faults' = faults + 1

-----------------------------------------------------------------------------
(* The listener and the broadcast.                                         *)

\* An event reaches the channel as long as somebody listens to it.
Publish ==
    /\ published < MaxMessages
    /\ published' = published + 1
    /\ channel' = IF listener = "down" THEN channel ELSE Append(channel, published + 1)
    /\ UNCHANGED <<listener, message, next, failed, conns, endpoint, link, browserVars,
                   faults, got, left>>

\* Mutant of Take: the index starts at zero.
TakeFromZero ==
    /\ listener = "listening"
    /\ channel # <<>>
    /\ channel' = Tail(channel)
    /\ IF conns = <<>>
       THEN UNCHANGED <<listener, message>>
       ELSE listener' = "broadcasting" /\ message' = Head(channel)
    /\ next' = 0
    /\ failed' = {}
    /\ left' = 0
    /\ UNCHANGED <<published, conns, endpoint, link, browserVars, faults, got>>

\* The listener takes an event; without connections there is nothing to do.
Take ==
    /\ listener = "listening"
    /\ channel # <<>>
    /\ channel' = Tail(channel)
    /\ IF conns = <<>>
       THEN UNCHANGED <<listener, message>>
       ELSE listener' = "broadcasting" /\ message' = Head(channel)
    /\ next' = 1
    /\ failed' = {}
    /\ left' = 0
    /\ UNCHANGED <<published, conns, endpoint, link, browserVars, faults, got>>

\* Mutant of Send: a connection that refuses is removed within the loop.
SendAndRemove ==
    /\ listener = "broadcasting"
    /\ next <= Len(conns)
    /\ next' = next + 1
    /\ LET s == conns[next] IN
         IF link[s] = "up"
         THEN /\ got' = [got EXCEPT ![s] = message]
              /\ UNCHANGED conns
         ELSE /\ conns' = SelectSeq(conns, LAMBDA c : c # s)
              /\ UNCHANGED got
    /\ UNCHANGED <<published, channel, listener, message, failed, endpoint, link, browserVars,
                   faults, left>>

\* The loop runs over the list as it is now: the connection at index next is
\* sent the event.  A lost one refuses it, or the network swallows it.
Send ==
    /\ listener = "broadcasting"
    /\ next <= Len(conns)
    /\ next' = next + 1
    /\ LET s == conns[next] IN
         IF link[s] = "up"
         THEN /\ got' = [got EXCEPT ![s] = message]
              /\ UNCHANGED failed
         ELSE /\ failed' \in {failed, failed \cup {s}}
              /\ UNCHANGED got
    /\ UNCHANGED <<published, channel, listener, message, conns, endpoint, link, browserVars,
                   faults, left>>

\* The indices of the connections that stay in the list.
Kept == {i \in DOMAIN conns : conns[i] \notin failed}

\* After the loop the connections that refused it are disconnected.
EndBroadcast ==
    /\ listener = "broadcasting"
    /\ next > Len(conns)
    /\ \E order \in [1..Cardinality(Kept) -> Kept] :
         /\ \A i, j \in DOMAIN order : i < j => order[i] < order[j]
         /\ conns' = [i \in DOMAIN order |-> conns[order[i]]]
    /\ listener' = "listening"
    /\ message' = 0
    /\ next' = 1
    /\ failed' = {}
    /\ left' = 0
    /\ UNCHANGED <<published, channel, endpoint, link, browserVars, faults, got>>

\* A Redis error ends the listener task, which nobody starts again,
ListenerFails ==
    /\ Fault
    /\ listener = "listening"
    /\ listener' = "down"
    /\ channel' = <<>>
    /\ UNCHANGED <<published, message, next, failed, conns, endpoint, link, browserVars,
                   got, left>>

\* or the Redis client connects and subscribes again, and events are lost.
Resubscribe ==
    /\ Fault
    /\ channel' = <<>>
    /\ UNCHANGED <<published, listener, message, next, failed, conns, endpoint, link,
                   browserVars, got, left>>

\* The API process is killed and started again (docker-compose.yml).
Restart ==
    /\ Fault
    /\ channel' = <<>>
    /\ listener' = "listening"
    /\ message' = 0
    /\ next' = 1
    /\ failed' = {}
    /\ left' = 0
    /\ conns' = <<>>
    /\ endpoint' = [s \in Sockets |-> IF endpoint[s] = "none" THEN "none" ELSE "gone"]
    /\ link' = [s \in Sockets |-> IF link[s] = "up" THEN "lost" ELSE link[s]]
    /\ UNCHANGED <<published, browserVars, got>>

-----------------------------------------------------------------------------
(* websocket_endpoint.                                                     *)

\* connect awaits accept, which answers the browser,
Accept(s) ==
    /\ socket[s] = "connecting"
    /\ endpoint[s] = "none"
    /\ link[s] = "none"
    /\ endpoint' = [endpoint EXCEPT ![s] = "accepting"]
    /\ link' = [link EXCEPT ![s] = "up"]
    /\ UNCHANGED <<serverVars, conns, browserVars, faults, got, left>>

\* Mutant of Register: the newest connection comes first.
RegisterFirst(s) ==
    /\ endpoint[s] = "accepting"
    /\ endpoint' = [endpoint EXCEPT ![s] = "open"]
    /\ conns' = <<s>> \o conns
    /\ UNCHANGED <<serverVars, link, browserVars, faults, got, left>>

\* and only then adds the connection to the list.
Register(s) ==
    /\ endpoint[s] = "accepting"
    /\ endpoint' = [endpoint EXCEPT ![s] = "open"]
    /\ conns' = Append(conns, s)
    /\ UNCHANGED <<serverVars, link, browserVars, faults, got, left>>

\* disconnect.  The later elements move to the front, next does not.
Dropped(s) ==
    \/ /\ s \notin Members
       /\ UNCHANGED <<conns, left>>
    \/ \E i \in DOMAIN conns :
         /\ conns[i] = s
         /\ conns' = RemoveAt(conns, i)
         /\ left' = IF i < next THEN left + 1 ELSE left

\* receive_text or accept raises.
Disconnect(s) ==
    /\ endpoint[s] \in {"accepting", "open"}
    /\ link[s] = "lost"
    /\ endpoint' = [endpoint EXCEPT ![s] = "gone"]
    /\ Dropped(s)
    /\ UNCHANGED <<serverVars, link, browserVars, faults, got>>

-----------------------------------------------------------------------------
(* The dashboard page.                                                     *)

\* A socket that both ends have forgotten may stand for a new one.
Unused(s) ==
    /\ socket[s] \in {"none", "closed"}
    /\ endpoint[s] \in {"none", "gone"}
    /\ s \notin failed

Set(f, new, value) == [s \in Sockets |-> IF s \in new THEN value ELSE f[s]]

\* connectWebSocket makes a new socket.
Connect(m, new) ==
    /\ \A s \in new : Unused(s)
    /\ socket' = Set(socket, new, "connecting")
    /\ owner' = Set(owner, new, m)
    /\ endpoint' = Set(endpoint, new, "none")
    /\ link' = Set(link, new, "none")
    /\ got' = Set(got, new, 0)

\* The cleanups between the runs of the effect find connecting sockets, and
\* leave them alone; that of the last run is still to come.
Mount(m, new, last) ==
    /\ page[m] = "new"
    /\ Cardinality(new) = EffectRuns
    /\ page' = [page EXCEPT ![m] = "mounted"]
    /\ Connect(m, new)
    /\ first' = (first \ new) \cup {last}
    /\ UNCHANGED <<serverVars, conns, timers, attempt, faults, left>>

OnOpen(s) ==
    /\ socket[s] = "connecting"
    /\ link[s] = "up"
    /\ socket' = [socket EXCEPT ![s] = "open"]
    /\ attempt' = [attempt EXCEPT ![owner[s]] = 0]
    /\ UNCHANGED <<serverVars, conns, endpoint, link, page, owner, first, timers, faults,
                   got, left>>

\* The value of reconnectAttempt that the handlers of every socket of a page
\* see: that of the render in which its effect ran, the first.
ReconnectAttempt == 0

\* Mutant of OnClose: the handler sees the attempts that were made.
OnCloseCounting(s) ==
    /\ socket[s] \in {"connecting", "open", "closing"}
    /\ link[s] = "lost"
    /\ socket' = [socket EXCEPT ![s] = "closed"]
    /\ IF attempt[owner[s]] < MaxReconnectAttempts
       THEN /\ attempt' = [attempt EXCEPT ![owner[s]] = @ + 1]
            /\ timers' = [timers EXCEPT ![owner[s]] = @ + 1]
       ELSE UNCHANGED <<attempt, timers>>
    /\ UNCHANGED <<serverVars, conns, endpoint, link, page, owner, first, faults, got,
                   left>>

\* onclose: the connection is gone, or could not be made.
OnClose(s) ==
    /\ socket[s] \in {"connecting", "open", "closing"}
    /\ link[s] = "lost"
    /\ socket' = [socket EXCEPT ![s] = "closed"]
    /\ IF ReconnectAttempt < MaxReconnectAttempts
       THEN /\ attempt' = [attempt EXCEPT ![owner[s]] = ReconnectAttempt + 1]
            /\ timers' = [timers EXCEPT ![owner[s]] = @ + 1]
       ELSE UNCHANGED <<attempt, timers>>
    /\ UNCHANGED <<serverVars, conns, endpoint, link, page, owner, first, faults, got,
                   left>>

\* A timer calls connectWebSocket, whether or not the page is still there.
Reconnect(m, s) ==
    /\ timers[m] > 0
    /\ timers' = [timers EXCEPT ![m] = @ - 1]
    /\ Connect(m, {s})
    /\ first' = first \ {s}
    /\ UNCHANGED <<serverVars, conns, page, attempt, faults, left>>

\* The cleanup closes the socket of its run of the effect, if that is open.
Unmount(m) ==
    /\ page[m] = "mounted"
    /\ page' = [page EXCEPT ![m] = "left"]
    /\ LET open == {s \in first : owner[s] = m /\ socket[s] = "open"} IN
         /\ socket' = [s \in Sockets |-> IF s \in open THEN "closing" ELSE socket[s]]
         /\ link' = [s \in Sockets |-> IF s \in open THEN "lost" ELSE link[s]]
    /\ UNCHANGED <<serverVars, conns, endpoint, owner, first, timers, attempt, faults, got,
                   left>>

\* The network, or a server that is down.
LinkFails(s) ==
    /\ Fault
    /\ socket[s] \in {"connecting", "open"}
    /\ link[s] # "lost"
    /\ link' = [link EXCEPT ![s] = "lost"]
    /\ UNCHANGED <<serverVars, conns, endpoint, browserVars, got, left>>

-----------------------------------------------------------------------------

Listen == Take \/ Send \/ EndBroadcast

Serve(s) == Accept(s) \/ Register(s) \/ Disconnect(s)

Browse(s) == OnOpen(s) \/ OnClose(s)

Disturb == ListenerFails \/ Resubscribe \/ Restart \/ \E s \in Sockets : LinkFails(s)

Next ==
    \/ Publish
    \/ Listen
    \/ \E s \in Sockets : Serve(s) \/ Browse(s)
    \/ \E m \in Pages :
         \/ Unmount(m)
         \/ \E new \in SUBSET Sockets : \E last \in new : Mount(m, new, last)
         \/ \E s \in Sockets : Reconnect(m, s)
    \/ Disturb

Spec == Init /\ [][Next]_vars

\* asyncio runs the listener and the endpoints, the browser its events and its
\* timers.
FairSpec ==
    /\ Spec
    /\ WF_vars(Listen)
    /\ \A s \in Sockets : WF_vars(Serve(s)) /\ WF_vars(Browse(s))
    /\ \A m \in Pages : WF_vars(\E s \in Sockets : Reconnect(m, s))

-----------------------------------------------------------------------------
(* Properties                                                              *)

TypeOK ==
    /\ published \in 0..MaxMessages
    /\ channel \in Seq(1..MaxMessages)
    /\ listener \in {"listening", "broadcasting", "down"}
    /\ message \in 0..MaxMessages
    /\ next \in Nat \ {0}
    /\ failed \subseteq Sockets
    /\ conns \in Seq(Sockets) /\ IsInjective(conns)
    /\ endpoint \in [Sockets -> {"none", "accepting", "open", "gone"}]
    /\ link \in [Sockets -> {"none", "up", "lost"}]
    /\ page \in [Pages -> {"new", "mounted", "left"}]
    /\ owner \in [Sockets -> Pages \cup {NoPage}]
    /\ socket \in [Sockets -> {"none", "connecting", "open", "closing", "closed"}]
    /\ first \subseteq Sockets
    /\ timers \in [Pages -> Nat]
    /\ attempt \in [Pages -> 0..MaxReconnectAttempts]
    /\ faults \in 0..MaxFaults
    /\ got \in [Sockets -> 0..MaxMessages]
    /\ left \in Nat

\* However the list changes under the loop, no client is sent an event twice,
\* or after a later one.
InOrder ==
    listener = "broadcasting" => \A i \in next..Len(conns) : got[conns[i]] < message

\* The live connections that the loop is past and that did not get the event.
PassedOver ==
    {s \in Sockets : /\ link[s] = "up"
                     /\ got[s] # message
                     /\ \E i \in DOMAIN conns : i < next /\ conns[i] = s}

\* "Broadcast a message to all connected clients" (services/ws_manager.py:26):
\* all that were there in time, but for at most one for each connection that
\* left the list meanwhile.
PassedOverBounded ==
    listener = "broadcasting" => Cardinality(PassedOver) <= left

\* The sockets by which a page is, or is about to be, connected.
Live(m) == {s \in Sockets : owner[s] = m /\ socket[s] \in {"connecting", "open", "closing"}}

\* The cleanup of a page does not end its connection: the onclose that it causes
\* connects again (Dashboard.jsx:55-67).  But whatever closes when, and however
\* often, a page never has more than one socket or timer for each run of its
\* effect, and never less.
OneChain ==
    \A m \in Pages :
        Cardinality(Live(m)) + timers[m] = IF page[m] = "new" THEN 0 ELSE EffectRuns

\* The handlers never see an attempt count other than 0, so that "WebSocket
\* reconnection failed after max attempts" (Dashboard.jsx:65) does not happen:
\* when failures end every page is registered again, and no lost connection
\* stays in the list.
Settles ==
    <>[]( /\ \A s \in Members : link[s] = "up"
          /\ \A m \in Pages : page[m] # "new" => \E s \in Members : owner[s] = m )
=============================================================================
