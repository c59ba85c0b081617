-------------------------------- MODULE Hub --------------------------------
(***************************************************************************)
(* internal/web/ws.go: the hub that fans deployer events out to WebSocket  *)
(* clients, the two pumps of every connection, and the one browser page of *)
(* frontend/src/hooks/useWebSocket.ts that subscribes, loses connections   *)
(* and reconnects.  Go channels are bounded sequences; the hub's register  *)
(* and unregister channels are unbuffered, so that a send is a step of the *)
(* hub.                                                                    *)
(***************************************************************************)
EXTENDS Naturals, Sequences

CONSTANTS
    Conns,       \* connections, each used once
    Projects,    \* project ids
    NoConn,      \* the page is not connected
    EventBuf,    \* capacity of Hub.event (256 in the code)
    SendBuf,     \* capacity of client.send (64 in the code)
    MaxEvents,   \* bound: events emitted
    MaxChanges   \* bound: changes of the page's interest

ASSUME HubAssumption ==
    /\ NoConn \notin Conns
    /\ EventBuf \in Nat \ {0} /\ SendBuf \in Nat \ {0}
    /\ MaxEvents \in Nat /\ MaxChanges \in Nat

VARIABLES
    running,    \* Hub.Run has not returned
    clients,    \* Hub.clients
    event,      \* Hub.event
    send,       \* client.send
    closed,     \* channels client.send that were closed
    panic,      \* a closed channel was closed or sent to
    projects,   \* client.projects
    conn,       \* the TCP connection: "new", "open" or "closed"
    reader,     \* readPump: "none", "reading", "leaving" or "done"
    writer,     \* writePump: "none", "running" or "done"
    leaving,    \* goroutines that send a slow client to unregister
    missed,     \* clients that the hub dropped an event for
    got,        \* events that reached the browser, by connection
    page, want, lastSent, up,  \* browser: connection, interest, last message
                               \* sent, messages on their way to the server
    emitted, changes

hubVars == <<running, clients, event, closed, panic, leaving, missed>>
pumpVars == <<conn, reader, writer, projects>>
pageVars == <<page, want, lastSent, up>>
vars == <<hubVars, send, pumpVars, got, pageVars, emitted, changes>>

TypeOK ==
    /\ running \in BOOLEAN /\ panic \in BOOLEAN
    /\ clients \subseteq Conns /\ closed \subseteq Conns /\ missed \subseteq Conns
    /\ event \in Seq([n : 1..MaxEvents, p : Projects]) /\ Len(event) <= EventBuf
    /\ send \in [Conns -> Seq(1..MaxEvents)]
    /\ \A c \in Conns : Len(send[c]) <= SendBuf
    /\ projects \in [Conns -> SUBSET Projects]
    /\ conn \in [Conns -> {"new", "open", "closed"}]
    /\ reader \in [Conns -> {"none", "reading", "leaving", "done"}]
    /\ writer \in [Conns -> {"none", "running", "done"}]
    /\ leaving \in [Conns -> 0..MaxEvents]
    /\ got \in [Conns -> Seq(1..MaxEvents)]
    /\ page \in Conns \cup {NoConn}
    /\ want \in SUBSET Projects /\ lastSent \in SUBSET Projects
    /\ up \in [Conns -> Seq(SUBSET Projects)]
    /\ emitted \in 0..MaxEvents /\ changes \in 0..MaxChanges

Init ==
    /\ running = TRUE /\ panic = FALSE
    /\ clients = {} /\ closed = {} /\ missed = {}
    /\ event = <<>>
    /\ send = [c \in Conns |-> <<>>]
    /\ projects = [c \in Conns |-> {}]
    /\ conn = [c \in Conns |-> "new"]
    /\ reader = [c \in Conns |-> "none"]
    /\ writer = [c \in Conns |-> "none"]
    /\ leaving = [c \in Conns |-> 0]
    /\ got = [c \in Conns |-> <<>>]
    /\ page = NoConn /\ want = {} /\ lastSent = {}
    /\ up = [c \in Conns |-> <<>>]
    /\ emitted = 0 /\ changes = 0

-----------------------------------------------------------------------------
\* The page.

\* syncSubscriptions: send the whole interest, unless it is what was sent last.
syncSubscriptions(c, sent, ids) ==
    /\ lastSent' = ids
    /\ up' = IF ids = sent THEN up ELSE [up EXCEPT ![c] = Append(@, ids)]

MutConnect(c) ==
    /\ page = NoConn /\ conn[c] = "new"
    /\ page' = c
    /\ conn' = [conn EXCEPT ![c] = "open"]
    /\ syncSubscriptions(c, lastSent, want)
    /\ UNCHANGED <<hubVars, send, reader, writer, projects, got, want, emitted, changes>>

\* connect and onopen: the server knows nothing of a new connection.
connect(c) ==
    /\ page = NoConn /\ conn[c] = "new"
    /\ page' = c
    /\ conn' = [conn EXCEPT ![c] = "open"]
    /\ syncSubscriptions(c, {}, want)
    /\ UNCHANGED <<hubVars, send, reader, writer, projects, got, want, emitted, changes>>

\* A component mounts, unmounts or asks for other projects.
subscribe(ids) ==
    /\ changes < MaxChanges /\ changes' = changes + 1
    /\ ids # want /\ want' = ids
    /\ IF page = NoConn THEN UNCHANGED <<lastSent, up>>
       ELSE syncSubscriptions(page, lastSent, ids)
    /\ UNCHANGED <<hubVars, send, pumpVars, got, page, emitted>>

onclose ==
    /\ page # NoConn /\ conn[page] = "closed"
    /\ page' = NoConn
    /\ UNCHANGED <<hubVars, send, pumpVars, got, want, lastSent, up, emitted, changes>>

\* The network breaks, the browser goes away, or no pong came for a minute.
Disconnect(c) ==
    /\ conn[c] = "open"
    /\ conn' = [conn EXCEPT ![c] = "closed"]
    /\ UNCHANGED <<hubVars, send, reader, writer, projects, got, pageVars, emitted, changes>>

-----------------------------------------------------------------------------
\* Hub.OnEvent never blocks the deployer: an event that finds the hub's own
\* buffer full is dropped for everybody, and nothing keeps a trace of it.
OnEvent(p) ==
    /\ emitted < MaxEvents /\ emitted' = emitted + 1
    /\ event' = IF Len(event) < EventBuf
                THEN Append(event, [n |-> emitted + 1, p |-> p]) ELSE event
    /\ UNCHANGED <<running, clients, closed, panic, leaving, missed, send, pumpVars,
                   got, pageVars, changes>>

\* Hub.Run, case register; HandleWS then starts the pumps.
Register(c) ==
    /\ running
    /\ conn[c] # "new" /\ reader[c] = "none"
    /\ clients' = clients \cup {c}
    /\ reader' = [reader EXCEPT ![c] = "reading"]
    /\ writer' = [writer EXCEPT ![c] = "running"]
    /\ UNCHANGED <<running, event, closed, panic, leaving, missed, send, conn, projects,
                   got, pageVars, emitted, changes>>

Subscribers(p) == {c \in clients : p \in projects[c]}

MutBroadcastSkips ==
    LET e == Head(event)
        full == {c \in Subscribers(e.p) : Len(send[c]) >= SendBuf}
    IN
    /\ running /\ event # <<>>
    /\ event' = Tail(event)
    /\ send' = [c \in Conns |-> IF c \in Subscribers(e.p) \ full
                                THEN Append(send[c], e.n) ELSE send[c]]
    /\ missed' = missed \cup full
    /\ UNCHANGED <<running, clients, closed, panic, leaving, pumpVars, got, pageVars,
                   emitted, changes>>

\* Case event: a subscriber whose buffer is full is sent to unregister by a
\* goroutine of its own.
Broadcast ==
    LET e == Head(event)
        full == {c \in Subscribers(e.p) : Len(send[c]) >= SendBuf}
    IN
    /\ running /\ event # <<>>
    /\ event' = Tail(event)
    /\ send' = [c \in Conns |-> IF c \in Subscribers(e.p) \ full
                                THEN Append(send[c], e.n) ELSE send[c]]
    /\ panic' = (panic \/ Subscribers(e.p) \cap closed # {})
    /\ leaving' = [c \in Conns |-> IF c \in full THEN leaving[c] + 1 ELSE leaving[c]]
    /\ missed' = missed \cup full
    /\ UNCHANGED <<running, clients, closed, pumpVars, got, pageVars, emitted, changes>>

CloseAll(cs) ==
    /\ panic' = (panic \/ cs \cap closed # {})
    /\ closed' = closed \cup cs
    /\ clients' = clients \ cs

MutUnregister(c) == CloseAll({c})

\* Case unregister: the client may have gone already.
Unregister(c) == CloseAll({c} \cap clients)

\* The two senders to the unregister channel.
UnregisterSlow(c) ==
    /\ running /\ leaving[c] > 0
    /\ leaving' = [leaving EXCEPT ![c] = @ - 1]
    /\ Unregister(c)
    /\ UNCHANGED <<running, event, missed, send, pumpVars, got, pageVars, emitted, changes>>

UnregisterReader(c) ==
    /\ running /\ reader[c] = "leaving"
    /\ reader' = [reader EXCEPT ![c] = "done"]
    /\ conn' = [conn EXCEPT ![c] = "closed"]
    /\ Unregister(c)
    /\ UNCHANGED <<running, event, leaving, missed, send, writer, projects, got, pageVars,
                   emitted, changes>>

\* Hub.Stop and the last turn of Run.
Stop ==
    /\ running /\ running' = FALSE
    /\ CloseAll(clients)
    /\ UNCHANGED <<event, leaving, missed, send, pumpVars, got, pageVars, emitted, changes>>

-----------------------------------------------------------------------------
\* readPump: a message replaces the subscriptions, an error ends the pump.
ReadMessage(c) ==
    /\ reader[c] = "reading" /\ conn[c] = "open" /\ up[c] # <<>>
    /\ projects' = [projects EXCEPT ![c] = Head(up[c])]
    /\ up' = [up EXCEPT ![c] = Tail(@)]
    /\ UNCHANGED <<hubVars, send, conn, reader, writer, got, page, want, lastSent,
                   emitted, changes>>

MutReadError(c) ==
    /\ reader[c] = "reading" /\ conn[c] = "closed"
    /\ reader' = [reader EXCEPT ![c] = "done"]
    /\ UNCHANGED <<hubVars, send, conn, writer, projects, got, pageVars, emitted, changes>>

ReadError(c) ==
    /\ reader[c] = "reading" /\ conn[c] = "closed"
    /\ reader' = [reader EXCEPT ![c] = "leaving"]
    /\ UNCHANGED <<hubVars, send, conn, writer, projects, got, pageVars, emitted, changes>>

\* writePump: a message is written, or the write fails or misses its deadline
\* of ten seconds, or the channel was closed; only then does the pump end.
WriteMessage(c) ==
    /\ writer[c] = "running" /\ conn[c] = "open" /\ send[c] # <<>>
    /\ send' = [send EXCEPT ![c] = Tail(@)]
    /\ got' = [got EXCEPT ![c] = Append(@, Head(send[c]))]
    /\ UNCHANGED <<hubVars, pumpVars, pageVars, emitted, changes>>

WriteError(c) ==
    /\ writer[c] = "running" /\ (conn[c] = "closed" \/ send[c] # <<>>)
    /\ writer' = [writer EXCEPT ![c] = "done"]
    /\ conn' = [conn EXCEPT ![c] = "closed"]
    /\ UNCHANGED <<hubVars, send, reader, projects, got, pageVars, emitted, changes>>

WriteClose(c) ==
    /\ writer[c] = "running" /\ send[c] = <<>> /\ c \in closed
    /\ writer' = [writer EXCEPT ![c] = "done"]
    /\ conn' = [conn EXCEPT ![c] = "closed"]
    /\ UNCHANGED <<hubVars, send, reader, projects, got, pageVars, emitted, changes>>

HubStep ==
    \/ \E c \in Conns : Register(c) \/ UnregisterSlow(c) \/ UnregisterReader(c)
    \/ Broadcast

Pumps(c) == ReadMessage(c) \/ ReadError(c) \/ WriteMessage(c) \/ WriteError(c) \/ WriteClose(c)

Next ==
    \/ \E c \in Conns : connect(c) \/ Disconnect(c) \/ Pumps(c)
    \/ \E ids \in SUBSET Projects : subscribe(ids)
    \/ onclose
    \/ \E p \in Projects : OnEvent(p)
    \/ HubStep
    \/ Stop

Spec == Init /\ [][Next]_vars

\* The pumps and the hub's select go on; select takes every ready case again
\* and again; the browser sees a closed connection and reconnects after three
\* seconds while it has a connection left.
FairSpec ==
    /\ Spec
    /\ \A c \in Conns :
        /\ WF_vars(Register(c)) /\ WF_vars(UnregisterSlow(c)) /\ WF_vars(UnregisterReader(c))
        /\ WF_vars(ReadMessage(c) \/ ReadError(c))
        /\ WF_vars(WriteMessage(c) \/ WriteError(c) \/ WriteClose(c))
    /\ WF_vars(Broadcast)
    /\ WF_vars(onclose) /\ WF_vars(\E c \in Conns : connect(c))

-----------------------------------------------------------------------------
\* However a reader, several goroutines for a slow client and Stop race to
\* unregister one client, its channel is closed once and nothing is sent to
\* it afterwards: Run would panic and take the daemon with it.
NoPanic == ~panic

\* A page sees the events of one connection in the order they were emitted, and
\* one that the hub took and could not hand to a client does not go unnoticed:
\* the client is about to be unregistered, or it is gone already.  Events that
\* OnEvent itself dropped are not counted: no client is told of these.
NoSilentGap ==
    /\ \A c \in Conns : LET s == got[c] \o send[c] IN
          \A i, j \in DOMAIN s : i < j => s[i] < s[j]
    /\ \A c \in missed \cap clients : leaving[c] > 0 \/ reader[c] = "leaving"

\* Once its messages have arrived, the server sends a connection's page the
\* projects it shows and no others, across reconnects and skipped messages.
SubscriptionsFollow ==
    page # NoConn /\ up[page] = <<>> => projects[page] = want

\* A slow or dead client does not stay registered.
SlowClientsLeave ==
    \A c \in Conns : (c \in missed \/ conn[c] = "closed") ~> (c \notin clients)
=============================================================================
