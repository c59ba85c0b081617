----------------------------- MODULE HubProofs -----------------------------
(***************************************************************************)
(* What holds of Hub for any number of connections, projects, events and   *)
(* any sizes of the buffers: no channel is closed twice or sent to after   *)
(* it was closed, events arrive in order and are not skipped silently, and *)
(* the subscriptions the server has are the ones of the page.              *)
(***************************************************************************)
EXTENDS Hub, TLAPS

Event == [n : Nat, p : Projects]

\* The types, with no bound on the counters.
Types ==
    /\ clients \subseteq Conns /\ closed \subseteq Conns /\ missed \subseteq Conns
    /\ event \in Seq(Event)
    /\ send \in [Conns -> Seq(Nat)] /\ got \in [Conns -> Seq(Nat)]
    /\ projects \in [Conns -> SUBSET Projects]
    /\ conn \in [Conns -> {"new", "open", "closed"}]
    /\ reader \in [Conns -> {"none", "reading", "leaving", "done"}]
    /\ writer \in [Conns -> {"none", "running", "done"}]
    /\ leaving \in [Conns -> Nat]
    /\ page \in Conns \cup {NoConn}
    /\ want \subseteq Projects /\ lastSent \subseteq Projects
    /\ up \in [Conns -> Seq(SUBSET Projects)]
    /\ emitted \in Nat

\* A registered client has an open channel, and a connection that was never
\* registered has neither been closed nor missed an event.
ChannelInv ==
    /\ ~panic
    /\ clients \cap closed = {}
    /\ \A c \in Conns : reader[c] = "none" => c \notin clients \cup closed \cup missed
    /\ \A c \in missed \cap clients : leaving[c] > 0 \/ reader[c] = "leaving"

Increasing(s) == \A i, j \in DOMAIN s : i < j => s[i] < s[j]
Below(s, n) == \A i \in DOMAIN s : s[i] < n

\* What the browser has is older than what is buffered for it, and both are
\* older than what the hub has not handed out yet.
OrderInv ==
    /\ \A c \in Conns :
        /\ Increasing(got[c]) /\ Increasing(send[c])
        /\ \A j \in DOMAIN send[c] : Below(got[c], send[c][j])
        /\ \A k \in DOMAIN event : Below(got[c], event[k].n) /\ Below(send[c], event[k].n)
        /\ Below(got[c], emitted + 1) /\ Below(send[c], emitted + 1)
    /\ \A k \in DOMAIN event : event[k].n < emitted + 1
    /\ \A k, l \in DOMAIN event : k < l => event[k].n < event[l].n

\* The newest thing the server knows or is about to read is what the page
\* wants; a connection that was not opened yet is untouched.
PageInv ==
    /\ \A c \in Conns : conn[c] = "new" => up[c] = <<>> /\ projects[c] = {} /\ page # c
    /\ page # NoConn =>
        /\ lastSent = want
        /\ up[page] = <<>> => projects[page] = want
        /\ up[page] # <<>> => up[page][Len(up[page])] = want

HubInv == Types /\ ChannelInv /\ OrderInv /\ PageInv

-----------------------------------------------------------------------------
USE HubAssumption

\* A queue after a message was put in at its end.
LEMMA AppendQueue ==
    ASSUME NEW S, NEW s \in Seq(S), NEW x \in S
    PROVE  /\ Append(s, x) \in Seq(S) /\ Append(s, x) # <<>>
           /\ Len(s) \in Nat /\ DOMAIN s = 1..Len(s)
           /\ Len(Append(s, x)) = Len(s) + 1
           /\ DOMAIN Append(s, x) = 1..(Len(s) + 1)
           /\ \A i \in DOMAIN s : Append(s, x)[i] = s[i]
           /\ Append(s, x)[Len(s) + 1] = x
  OBVIOUS

\* A queue after its first message was taken out.
LEMMA TakeQueue ==
    ASSUME NEW S, NEW s \in Seq(S), s # <<>>
    PROVE  /\ Head(s) = s[1] /\ Head(s) \in S /\ 1 \in DOMAIN s
           /\ Len(s) \in Nat /\ Len(s) >= 1 /\ DOMAIN s = 1..Len(s)
           /\ Tail(s) \in Seq(S) /\ Len(Tail(s)) = Len(s) - 1
           /\ DOMAIN Tail(s) = 1..(Len(s) - 1)
           /\ \A i \in DOMAIN Tail(s) : Tail(s)[i] = s[i + 1] /\ i + 1 \in DOMAIN s
  OBVIOUS

\* No step loses a type.
LEMMA TypesInductive == Types /\ [Next]_vars => Types'
  <1> SUFFICES ASSUME Types, [Next]_vars
               PROVE  Types'
    OBVIOUS
  <1> USE DEF Types, hubVars, pumpVars, pageVars
  <1>1. ASSUME NEW c \in Conns, connect(c)
        PROVE  Types'
    BY <1>1, AppendQueue DEF connect, syncSubscriptions
  <1>2. ASSUME NEW c \in Conns, Disconnect(c)
        PROVE  Types'
    BY <1>2 DEF Disconnect
  <1>3. ASSUME NEW c \in Conns, ReadMessage(c)
        PROVE  Types'
    BY <1>3 DEF ReadMessage
  <1>4. ASSUME NEW c \in Conns, ReadError(c)
        PROVE  Types'
    BY <1>4 DEF ReadError
  <1>5. ASSUME NEW c \in Conns, WriteMessage(c)
        PROVE  Types'
    <2>1. /\ Tail(send[c]) \in Seq(Nat) /\ Head(send[c]) \in Nat
          /\ Append(got[c], Head(send[c])) \in Seq(Nat)
      BY <1>5 DEF WriteMessage
    <2>2. send' \in [Conns -> Seq(Nat)] /\ got' \in [Conns -> Seq(Nat)]
      BY <1>5, <2>1 DEF WriteMessage
    <2> QED  BY <1>5, <2>2 DEF WriteMessage
  <1>6. ASSUME NEW c \in Conns, WriteError(c) \/ WriteClose(c)
        PROVE  Types'
    BY <1>6 DEF WriteError, WriteClose
  <1>7. ASSUME NEW ids \in SUBSET Projects, subscribe(ids)
        PROVE  Types'
    <2>1. up' \in [Conns -> Seq(SUBSET Projects)]
      <3>1. CASE page = NoConn
        BY <1>7, <3>1 DEF subscribe
      <3>2. CASE page # NoConn
        <4>1. Append(up[page], ids) \in Seq(SUBSET Projects)
          BY <3>2
        <4> QED  BY <1>7, <3>2, <4>1 DEF subscribe, syncSubscriptions
      <3> QED  BY <3>1, <3>2
    <2>2. lastSent' \subseteq Projects /\ want' \subseteq Projects
      BY <1>7 DEF subscribe, syncSubscriptions
    <2> QED  BY <1>7, <2>1, <2>2 DEF subscribe
  <1>8. CASE onclose
    BY <1>8 DEF onclose
  <1>9. ASSUME NEW p \in Projects, OnEvent(p)
        PROVE  Types'
    <2> DEFINE e == [n |-> emitted + 1, p |-> p]
    <2>1. e \in Event
      BY DEF Event
    <2> HIDE DEF e
    <2>2. event' \in Seq(Event)
      BY <1>9, <2>1 DEF OnEvent, e
    <2> QED  BY <1>9, <2>2 DEF OnEvent
  <1>10. ASSUME NEW c \in Conns, Register(c)
        PROVE  Types'
    BY <1>10 DEF Register
  <1>11. ASSUME NEW c \in Conns, UnregisterSlow(c)
        PROVE  Types'
    <2>1. leaving[c] - 1 \in Nat
      BY <1>11 DEF UnregisterSlow
    <2>2. leaving' \in [Conns -> Nat]
      BY <1>11, <2>1 DEF UnregisterSlow
    <2> QED  BY <1>11, <2>2 DEF UnregisterSlow, Unregister, CloseAll
  <1>12. ASSUME NEW c \in Conns, UnregisterReader(c)
        PROVE  Types'
    BY <1>12 DEF UnregisterReader, Unregister, CloseAll
  <1>13. CASE Broadcast
    <2> DEFINE e == Head(event)
               full == {c \in Subscribers(e.p) : Len(send[c]) >= SendBuf}
    <2>0. e \in Event /\ event' \in Seq(Event)
      BY <1>13, TakeQueue DEF Broadcast
    <2>1. e.n \in Nat
      BY <2>0 DEF Event
    <2>2. full \subseteq Conns
      BY DEF Subscribers
    <2> HIDE DEF e
    <2>3. ASSUME NEW c \in Conns
          PROVE  Append(send[c], e.n) \in Seq(Nat)
      BY <2>1
    <2>4. send' = [c \in Conns |-> IF c \in Subscribers(e.p) \ full
                                   THEN Append(send[c], e.n) ELSE send[c]]
      BY <1>13 DEF Broadcast, e
    <2>5. send' \in [Conns -> Seq(Nat)]
      BY <2>3, <2>4
    <2>6. leaving' = [c \in Conns |-> IF c \in full THEN leaving[c] + 1 ELSE leaving[c]]
          /\ missed' = missed \cup full
      BY <1>13 DEF Broadcast, e
    <2>7. leaving' \in [Conns -> Nat] /\ missed' \subseteq Conns
      BY <2>2, <2>6
    <2> QED  BY <1>13, <2>0, <2>5, <2>7 DEF Broadcast
  <1>14. CASE Stop
    BY <1>14 DEF Stop, CloseAll
  <1>15. CASE UNCHANGED vars
    BY <1>15 DEF vars
  <1> QED  BY <1>1, <1>2, <1>3, <1>4, <1>5, <1>6, <1>7, <1>8, <1>9, <1>10, <1>11, <1>12,
              <1>13, <1>14, <1>15 DEF Next, Pumps, HubStep

\* What leaves the hub and the readers alone preserves what holds of them.
LEMMA ChannelFrame ==
    ASSUME ChannelInv, UNCHANGED <<panic, clients, closed, missed, leaving, reader>>
    PROVE  ChannelInv'
  BY DEF ChannelInv

\* Unregistering closes the channels of registered clients only, and each of
\* them is no longer registered afterwards.
LEMMA CloseAllSafe ==
    ASSUME Types, ChannelInv, NEW cs \in SUBSET clients, CloseAll(cs)
    PROVE  /\ ~panic' /\ clients' \cap closed' = {}
           /\ clients' = clients \ cs /\ closed' = closed \cup cs
  BY DEF ChannelInv, CloseAll

\* No step closes a channel twice, sends to a closed one or forgets a client
\* that missed an event.
LEMMA ChannelInductive == Types /\ ChannelInv /\ [Next]_vars => ChannelInv'
  <1> SUFFICES ASSUME Types, ChannelInv, [Next]_vars
               PROVE  ChannelInv'
    OBVIOUS
  <1> USE DEF hubVars, pumpVars, pageVars
  <1>0. /\ clients \subseteq Conns /\ closed \subseteq Conns /\ missed \subseteq Conns
        /\ reader \in [Conns -> {"none", "reading", "leaving", "done"}]
        /\ leaving \in [Conns -> Nat]
    BY DEF Types
  <1>1. ASSUME NEW c \in Conns, connect(c) \/ Disconnect(c) \/ ReadMessage(c) \/ WriteMessage(c)
                                \/ WriteError(c) \/ WriteClose(c)
        PROVE  ChannelInv'
    BY <1>1, ChannelFrame DEF connect, Disconnect, ReadMessage, WriteMessage, WriteError, WriteClose
  <1>2. ASSUME NEW c \in Conns, ReadError(c)
        PROVE  ChannelInv'
    BY <1>0, <1>2 DEF ReadError, ChannelInv
  <1>3. ASSUME NEW ids \in SUBSET Projects, subscribe(ids)
        PROVE  ChannelInv'
    BY <1>3, ChannelFrame DEF subscribe
  <1>4. CASE onclose
    BY <1>4, ChannelFrame DEF onclose
  <1>5. ASSUME NEW p \in Projects, OnEvent(p)
        PROVE  ChannelInv'
    BY <1>5, ChannelFrame DEF OnEvent
  <1>6. ASSUME NEW c \in Conns, Register(c)
        PROVE  ChannelInv'
    BY <1>0, <1>6 DEF Register, ChannelInv
  <1>7. ASSUME NEW c \in Conns, UnregisterSlow(c)
        PROVE  ChannelInv'
    <2>1. CloseAll({c} \cap clients) /\ UNCHANGED <<missed, reader>>
          /\ \A d \in Conns : d # c => leaving'[d] = leaving[d]
      BY <1>0, <1>7 DEF UnregisterSlow, Unregister
    <2>2. /\ ~panic' /\ clients' \cap closed' = {}
          /\ clients' = clients \ {c} /\ closed' = closed \cup ({c} \cap clients)
      BY <2>1, CloseAllSafe
    <2> QED  BY <1>0, <2>1, <2>2 DEF ChannelInv
  <1>8. ASSUME NEW c \in Conns, UnregisterReader(c)
        PROVE  ChannelInv'
    <2>1. CloseAll({c} \cap clients) /\ UNCHANGED <<missed, leaving>>
          /\ reader'[c] = "done" /\ \A d \in Conns : d # c => reader'[d] = reader[d]
      BY <1>0, <1>8 DEF UnregisterReader, Unregister
    <2>2. /\ ~panic' /\ clients' \cap closed' = {}
          /\ clients' = clients \ {c} /\ closed' = closed \cup ({c} \cap clients)
      BY <2>1, CloseAllSafe
    <2> QED  BY <1>0, <2>1, <2>2 DEF ChannelInv
  <1>9. CASE Broadcast
    <2> DEFINE e == Head(event)
               full == {c \in Subscribers(e.p) : Len(send[c]) >= SendBuf}
    <2>1. Subscribers(e.p) \subseteq clients /\ full \subseteq clients
      BY DEF Subscribers
    <2>2. /\ panic' = (panic \/ Subscribers(e.p) \cap closed # {})
          /\ leaving' = [c \in Conns |-> IF c \in full THEN leaving[c] + 1 ELSE leaving[c]]
          /\ missed' = missed \cup full
          /\ UNCHANGED <<clients, closed, reader>>
      BY <1>9 DEF Broadcast
    <2> HIDE DEF e, full
    <2>3. ~panic'
      BY <2>1, <2>2 DEF ChannelInv
    <2>4. \A c \in missed' \cap clients' : leaving'[c] > 0 \/ reader'[c] = "leaving"
      BY <1>0, <2>1, <2>2 DEF ChannelInv
    <2> QED  BY <2>1, <2>2, <2>3, <2>4 DEF ChannelInv
  <1>10. CASE Stop
    <2>1. CloseAll(clients) /\ UNCHANGED <<missed, leaving, reader>>
      BY <1>10 DEF Stop
    <2>2. ~panic' /\ clients' = {} /\ closed' = closed \cup clients
      BY <2>1, CloseAllSafe
    <2> QED  BY <1>0, <2>1, <2>2 DEF ChannelInv
  <1>11. CASE UNCHANGED vars
    BY <1>11, ChannelFrame DEF vars
  <1> QED  BY <1>1, <1>2, <1>3, <1>4, <1>5, <1>6, <1>7, <1>8, <1>9, <1>10, <1>11
           DEF Next, Pumps, HubStep

\* The messages on their way always end in what the page wants.
LEMMA PageInductive == Types /\ PageInv /\ [Next]_vars => PageInv'
  <1> SUFFICES ASSUME Types, PageInv, [Next]_vars
               PROVE  PageInv'
    OBVIOUS
  <1> USE DEF hubVars, pumpVars, pageVars
  <1>0. /\ conn \in [Conns -> {"new", "open", "closed"}]
        /\ up \in [Conns -> Seq(SUBSET Projects)]
        /\ projects \in [Conns -> SUBSET Projects]
        /\ page \in Conns \cup {NoConn} /\ want \in SUBSET Projects
    BY DEF Types
  <1>1. ASSUME UNCHANGED <<page, want, lastSent, up, projects>>,
               \A c \in Conns : conn'[c] = "new" => conn[c] = "new"
        PROVE  PageInv'
    BY <1>1 DEF PageInv
  <1>2. ASSUME NEW c \in Conns, connect(c)
        PROVE  PageInv'
    <2>1. /\ conn[c] = "new" /\ up[c] = <<>> /\ projects[c] = {}
          /\ page' = c /\ UNCHANGED <<want, projects>> /\ lastSent' = want
          /\ up' = IF want = {} THEN up ELSE [up EXCEPT ![c] = Append(up[c], want)]
      BY <1>2 DEF connect, syncSubscriptions, PageInv
    <2>2. conn'[c] = "open" /\ \A d \in Conns : d # c => conn'[d] = conn[d]
      BY <1>0, <1>2 DEF connect
    <2>3. CASE want = {}
      BY <1>0, <2>1, <2>2, <2>3 DEF PageInv
    <2>4. CASE want # {}
      <3>1. Append(up[c], want) = <<want>>
        BY <2>1
      <3>2. up'[c] = <<want>> /\ \A d \in Conns : d # c => up'[d] = up[d]
        BY <1>0, <2>1, <2>4, <3>1
      <3>3. up'[c] # <<>> /\ up'[c][Len(up'[c])] = want
        BY <3>2
      <3> QED  BY <1>0, <2>1, <2>2, <3>2, <3>3 DEF PageInv
    <2> QED  BY <2>3, <2>4
  <1>3. ASSUME NEW c \in Conns, Disconnect(c) \/ WriteError(c) \/ WriteClose(c)
        PROVE  PageInv'
    BY <1>0, <1>1, <1>3 DEF Disconnect, WriteError, WriteClose
  <1>4. ASSUME NEW c \in Conns, ReadMessage(c)
        PROVE  PageInv'
    <2>1. /\ conn[c] = "open" /\ up[c] # <<>> /\ UNCHANGED <<page, want, lastSent, conn>>
          /\ projects' = [projects EXCEPT ![c] = Head(up[c])]
          /\ up' = [up EXCEPT ![c] = Tail(up[c])]
      BY <1>4 DEF ReadMessage
    <2>2. /\ Len(up[c]) \in Nat /\ Len(up[c]) >= 1 /\ Head(up[c]) = up[c][1]
          /\ Tail(up[c]) \in Seq(SUBSET Projects) /\ Len(Tail(up[c])) = Len(up[c]) - 1
          /\ \A i \in 1..(Len(up[c]) - 1) : Tail(up[c])[i] = up[c][i + 1]
      BY <1>0, <2>1, TakeQueue
    <2>3. up'[c] = Tail(up[c]) /\ projects'[c] = up[c][1]
      BY <1>0, <2>1, <2>2
    <2>4. ASSUME Tail(up[c]) = <<>>
          PROVE  Len(up[c]) = 1
      <3>1. Len(<<>>) = 0
        OBVIOUS
      <3>2. Len(Tail(up[c])) = Len(<<>>)
        BY <2>4, Zenon
      <3> QED  BY <2>2, <3>1, <3>2
    <2>5. Tail(up[c]) # <<>> => Tail(up[c])[Len(Tail(up[c]))] = up[c][Len(up[c])]
      BY <2>2
    <2>6. \A d \in Conns : d # c => up'[d] = up[d] /\ projects'[d] = projects[d]
      BY <1>0, <2>1
    <2> QED  BY <1>0, <2>1, <2>3, <2>4, <2>5, <2>6 DEF PageInv
  <1>5. ASSUME NEW c \in Conns, ReadError(c) \/ WriteMessage(c)
        PROVE  PageInv'
    BY <1>1, <1>5 DEF ReadError, WriteMessage
  <1>6. ASSUME NEW ids \in SUBSET Projects, subscribe(ids)
        PROVE  PageInv'
    <2>1. ids # want /\ want' = ids /\ UNCHANGED <<conn, projects, page>>
      BY <1>6 DEF subscribe
    <2>2. CASE page = NoConn
      BY <1>6, <2>1, <2>2 DEF subscribe, PageInv
    <2>3. CASE page # NoConn
      <3>1. lastSent' = ids /\ up' = [up EXCEPT ![page] = Append(up[page], ids)]
        BY <1>6, <2>1, <2>3 DEF subscribe, syncSubscriptions, PageInv
      <3>2. page \in Conns /\ conn[page] # "new"
        BY <1>0, <2>3 DEF PageInv
      <3>3. up'[page] = Append(up[page], ids) /\ \A d \in Conns : d # page => up'[d] = up[d]
        BY <1>0, <3>1, <3>2
      <3>4. up'[page] # <<>> /\ up'[page][Len(up'[page])] = ids
        <4>1. up[page] \in Seq(SUBSET Projects)
          BY <1>0, <3>2
        <4>2. /\ Append(up[page], ids) # <<>> /\ Len(Append(up[page], ids)) = Len(up[page]) + 1
              /\ Append(up[page], ids)[Len(up[page]) + 1] = ids
          BY <4>1, AppendQueue
        <4> QED  BY <3>3, <4>2
      <3> QED  BY <2>1, <3>1, <3>2, <3>3, <3>4 DEF PageInv
    <2> QED  BY <2>2, <2>3
  <1>7. CASE onclose
    BY <1>0, <1>7 DEF onclose, PageInv
  <1>8. ASSUME NEW p \in Projects, OnEvent(p)
        PROVE  PageInv'
    BY <1>1, <1>8 DEF OnEvent
  <1>9. ASSUME NEW c \in Conns, Register(c) \/ UnregisterSlow(c)
        PROVE  PageInv'
    BY <1>1, <1>9 DEF Register, UnregisterSlow
  <1>10. ASSUME NEW c \in Conns, UnregisterReader(c)
        PROVE  PageInv'
    BY <1>0, <1>1, <1>10 DEF UnregisterReader
  <1>11. CASE Broadcast \/ Stop
    BY <1>1, <1>11 DEF Broadcast, Stop
  <1>12. CASE UNCHANGED vars
    BY <1>1, <1>12 DEF vars
  <1> QED  BY <1>2, <1>3, <1>4, <1>5, <1>6, <1>7, <1>8, <1>9, <1>10, <1>11, <1>12
           DEF Next, Pumps, HubStep

\* Putting a larger number at the end keeps a queue increasing, and below
\* whatever that number and the queue are below.
LEMMA AppendIncreasing ==
    ASSUME NEW s \in Seq(Nat), NEW x \in Nat, Increasing(s), Below(s, x)
    PROVE  /\ Increasing(Append(s, x))
           /\ \A n \in Nat : x < n => Below(Append(s, x), n)
  <1> DEFINE t == Append(s, x)
  <1>1. /\ Len(s) \in Nat /\ DOMAIN s = 1..Len(s) /\ DOMAIN t = 1..(Len(s) + 1)
        /\ t[Len(s) + 1] = x /\ \A i \in 1..Len(s) : t[i] = s[i]
    BY AppendQueue
  <1>2. \A i \in 1..Len(s) : s[i] \in Nat
    OBVIOUS
  <1> HIDE DEF t
  <1>3. Increasing(t)
    BY <1>1, <1>2 DEF Increasing, Below
  <1>4. ASSUME NEW n \in Nat, x < n
        PROVE  Below(t, n)
    BY <1>1, <1>2, <1>4 DEF Below
  <1> QED  BY <1>3, <1>4 DEF t

\* What is left of an increasing queue is increasing, and above its head.
LEMMA TakeIncreasing ==
    ASSUME NEW s \in Seq(Nat), s # <<>>, Increasing(s)
    PROVE  /\ Increasing(Tail(s))
           /\ \A j \in DOMAIN Tail(s) : Head(s) < Tail(s)[j]
           /\ \A n \in Nat : Below(s, n) => Below(Tail(s), n)
  <1> DEFINE t == Tail(s)
  <1>1. /\ Len(s) \in Nat /\ DOMAIN s = 1..Len(s) /\ DOMAIN t = 1..(Len(s) - 1) /\ 1 \in DOMAIN s
        /\ Head(s) = s[1] /\ \A i \in DOMAIN t : t[i] = s[i + 1] /\ i + 1 \in DOMAIN s
    BY TakeQueue
  <1> HIDE DEF t
  <1>2. Increasing(t)
    <2> SUFFICES ASSUME NEW i \in DOMAIN t, NEW j \in DOMAIN t, i < j
                 PROVE  t[i] < t[j]
      BY DEF Increasing
    <2>1. i + 1 \in DOMAIN s /\ j + 1 \in DOMAIN s /\ i + 1 < j + 1
      BY <1>1
    <2> QED  BY <1>1, <2>1 DEF Increasing
  <1>3. ASSUME NEW j \in DOMAIN t
        PROVE  s[1] < t[j]
    <2>1. j + 1 \in DOMAIN s /\ 1 < j + 1
      BY <1>1
    <2> QED  BY <1>1, <2>1 DEF Increasing
  <1>4. ASSUME NEW n \in Nat, Below(s, n)
        PROVE  Below(t, n)
    BY <1>1, <1>4 DEF Below
  <1> QED  BY <1>1, <1>2, <1>3, <1>4 DEF t

\* What leaves the queues alone, or only grows the number of events, preserves
\* the order.
LEMMA OrderFrame ==
    ASSUME OrderInv, UNCHANGED <<event, send, got, emitted>>
    PROVE  OrderInv'
  BY DEF OrderInv

\* No step reorders or repeats an event.
LEMMA OrderInductive == Types /\ OrderInv /\ [Next]_vars => OrderInv'
  <1> SUFFICES ASSUME Types, OrderInv, [Next]_vars
               PROVE  OrderInv'
    OBVIOUS
  <1> USE DEF hubVars, pumpVars, pageVars
  <1>0. /\ event \in Seq(Event) /\ emitted \in Nat
        /\ send \in [Conns -> Seq(Nat)] /\ got \in [Conns -> Seq(Nat)]
        /\ DOMAIN event = 1..Len(event) /\ Len(event) \in Nat
    BY DEF Types
  <1>e. ASSUME NEW k \in DOMAIN event
        PROVE  event[k].n \in Nat
    <2>1. event[k] \in Event
      BY <1>0
    <2> QED  BY <2>1 DEF Event
  <1>1. ASSUME NEW c \in Conns, connect(c) \/ Disconnect(c) \/ ReadMessage(c) \/ ReadError(c)
                                \/ WriteError(c) \/ WriteClose(c)
        PROVE  OrderInv'
    BY <1>1, OrderFrame DEF connect, Disconnect, ReadMessage, ReadError, WriteError, WriteClose
  <1>2. ASSUME NEW c \in Conns, WriteMessage(c)
        PROVE  OrderInv'
    <2> DEFINE x == Head(send[c])
               s == Tail(send[c])
               g == Append(got[c], x)
    <2>1. /\ send[c] # <<>> /\ UNCHANGED <<event, emitted>>
          /\ send' = [send EXCEPT ![c] = s] /\ got' = [got EXCEPT ![c] = g]
      BY <1>2 DEF WriteMessage
    <2>2. /\ send[c] \in Seq(Nat) /\ got[c] \in Seq(Nat)
          /\ x = send[c][1] /\ x \in Nat /\ 1 \in DOMAIN send[c]
      BY <1>0, <2>1, TakeQueue
    <2>3. Increasing(got[c]) /\ Increasing(send[c]) /\ Below(got[c], x)
      BY <2>2 DEF OrderInv
    <2>4. /\ Increasing(s) /\ \A j \in DOMAIN s : x < s[j]
          /\ \A n \in Nat : Below(send[c], n) => Below(s, n)
      BY <2>1, <2>2, <2>3, TakeIncreasing
    <2>5. Increasing(g) /\ \A n \in Nat : x < n => Below(g, n)
      BY <2>2, <2>3, AppendIncreasing
    <2>6. \A j \in DOMAIN s : s[j] \in Nat
      <3>1. s \in Seq(Nat)
        BY <2>1, <2>2, TakeQueue
      <3> QED  BY <3>1
    <2>7. \A n \in Nat : Below(send[c], n) => x < n
      BY <2>2 DEF Below
    <2>8. send'[c] = s /\ got'[c] = g
          /\ \A d \in Conns : d # c => send'[d] = send[d] /\ got'[d] = got[d]
      BY <1>0, <2>1
    <2>10. /\ Below(send[c], emitted + 1)
           /\ \A k \in DOMAIN event : Below(send[c], event[k].n)
      BY DEF OrderInv
    <2> HIDE DEF x, s, g
    <2>11. /\ \A j \in DOMAIN s : Below(g, s[j])
           /\ \A k \in DOMAIN event : Below(g, event[k].n) /\ Below(s, event[k].n)
           /\ Below(g, emitted + 1) /\ Below(s, emitted + 1)
      BY <1>0, <1>e, <2>4, <2>5, <2>6, <2>7, <2>10
    <2> QED  BY <2>1, <2>4, <2>5, <2>8, <2>11 DEF OrderInv
  <1>3. ASSUME NEW ids \in SUBSET Projects, subscribe(ids)
        PROVE  OrderInv'
    BY <1>3, OrderFrame DEF subscribe
  <1>4. CASE onclose
    BY <1>4, OrderFrame DEF onclose
  <1>5. ASSUME NEW p \in Projects, OnEvent(p)
        PROVE  OrderInv'
    <2> DEFINE e == [n |-> emitted + 1, p |-> p]
               m == emitted + 1
    <2>1. e \in Event /\ e.n = m /\ m \in Nat
      BY <1>0 DEF Event
    <2> HIDE DEF e
    <2>2. emitted' = m /\ UNCHANGED <<send, got>> /\ event' \in {event, Append(event, e)}
      BY <1>5 DEF OnEvent, e
    <2>3. ASSUME NEW t \in Seq(Nat), Below(t, m)
          PROVE  Below(t, m + 1)
      <3>1. \A i \in DOMAIN t : t[i] \in Nat
        OBVIOUS
      <3> QED  BY <2>1, <2>3, <3>1 DEF Below
    <2>4. \A c \in Conns : Below(got[c], m + 1) /\ Below(send[c], m + 1)
      BY <1>0, <2>3 DEF OrderInv
    <2>5. \A k \in DOMAIN event : event[k].n < m /\ event[k].n < m + 1
      BY <1>e, <2>1 DEF OrderInv
    <2>6. CASE event' = event
      BY <2>2, <2>4, <2>5, <2>6 DEF OrderInv
    <2>7. CASE event' = Append(event, e)
      <3>1. /\ DOMAIN event' = 1..(Len(event) + 1) /\ event'[Len(event) + 1] = e
            /\ \A k \in DOMAIN event : event'[k] = event[k]
        BY <1>0, <2>1, <2>7, AppendQueue
      <3>2. ASSUME NEW k \in DOMAIN event'
            PROVE  \/ k \in DOMAIN event /\ event'[k].n = event[k].n
                   \/ k = Len(event) + 1 /\ event'[k].n = m
        <4>1. CASE k = Len(event) + 1
          BY <2>1, <3>1, <4>1
        <4>2. CASE k # Len(event) + 1
          <5>1. Len(event) \in Nat /\ DOMAIN event = 1..Len(event)
            BY <1>0
          <5>2. k \in DOMAIN event
            BY <3>1, <4>2, <5>1
          <5> QED  BY <3>1, <5>2
        <4> QED  BY <4>1, <4>2
      <3>3. \A k \in DOMAIN event' : event'[k].n < m + 1
        BY <2>1, <2>5, <3>2
      <3>4. \A k, l \in DOMAIN event' : k < l => event'[k].n < event'[l].n
        BY <1>0, <2>5, <3>2 DEF OrderInv
      <3>5. \A c \in Conns, k \in DOMAIN event' :
               Below(got[c], event'[k].n) /\ Below(send[c], event'[k].n)
        BY <3>2 DEF OrderInv
      <3> QED  BY <2>2, <2>4, <3>3, <3>4, <3>5 DEF OrderInv
    <2> QED  BY <2>2, <2>6, <2>7
  <1>6. ASSUME NEW c \in Conns, Register(c) \/ UnregisterSlow(c) \/ UnregisterReader(c)
        PROVE  OrderInv'
    BY <1>6, OrderFrame DEF Register, UnregisterSlow, UnregisterReader
  <1>7. CASE Broadcast
    <2> DEFINE e == Head(event)
               x == e.n
    <2>1. /\ event # <<>> /\ event' = Tail(event) /\ UNCHANGED <<got, emitted>>
          /\ \A c \in Conns : send'[c] \in {send[c], Append(send[c], x)}
      BY <1>7 DEF Broadcast
    <2>2. /\ 1 \in DOMAIN event /\ e = event[1] /\ DOMAIN event' = 1..(Len(event) - 1)
          /\ \A k \in DOMAIN event' : event'[k] = event[k + 1] /\ k + 1 \in DOMAIN event
      BY <1>0, <2>1, TakeQueue
    <2>3. x \in Nat /\ x = event[1].n
      BY <1>e, <2>2
    <2> HIDE DEF x, e
    <2>4. \A k \in DOMAIN event' : event'[k].n \in Nat /\ x < event'[k].n /\ event'[k].n < emitted + 1
      <3> SUFFICES ASSUME NEW k \in DOMAIN event'
                   PROVE  event'[k].n \in Nat /\ x < event'[k].n /\ event'[k].n < emitted + 1
        OBVIOUS
      <3>1. k + 1 \in DOMAIN event /\ 1 < k + 1 /\ event'[k].n = event[k + 1].n
        BY <1>0, <2>2
      <3> QED  BY <1>e, <2>2, <2>3, <3>1 DEF OrderInv
    <2>5. \A k, l \in DOMAIN event' : k < l => event'[k].n < event'[l].n
      <3> SUFFICES ASSUME NEW k \in DOMAIN event', NEW l \in DOMAIN event', k < l
                   PROVE  event'[k].n < event'[l].n
        OBVIOUS
      <3>1. k + 1 \in DOMAIN event /\ l + 1 \in DOMAIN event /\ k + 1 < l + 1
            /\ event'[k].n = event[k + 1].n /\ event'[l].n = event[l + 1].n
        BY <1>0, <2>2
      <3> QED  BY <3>1 DEF OrderInv
    <2>6. x < emitted + 1
      BY <2>2, <2>3 DEF OrderInv
    <2>7. ASSUME NEW c \in Conns
          PROVE  /\ Increasing(send'[c])
                 /\ \A j \in DOMAIN send'[c] : Below(got[c], send'[c][j])
                 /\ \A n \in Nat : x < n /\ Below(send[c], n) => Below(send'[c], n)
      <3>1. Increasing(send[c]) /\ Below(send[c], x) /\ Below(got[c], x) /\ send[c] \in Seq(Nat)
        BY <1>0, <2>2, <2>3 DEF OrderInv
      <3>2. CASE send'[c] = send[c]
        BY <3>1, <3>2 DEF OrderInv
      <3>3. CASE send'[c] = Append(send[c], x)
        <4>1. /\ DOMAIN send'[c] = 1..(Len(send[c]) + 1) /\ DOMAIN send[c] = 1..Len(send[c])
              /\ Len(send[c]) \in Nat /\ send'[c][Len(send[c]) + 1] = x
              /\ \A i \in DOMAIN send[c] : send'[c][i] = send[c][i]
          BY <2>3, <3>1, <3>3, AppendQueue
        <4>2. ASSUME NEW j \in DOMAIN send'[c]
              PROVE  Below(got[c], send'[c][j])
          BY <3>1, <4>1 DEF OrderInv
        <4>3. Increasing(send'[c]) /\ \A n \in Nat : x < n => Below(send'[c], n)
          BY <2>3, <3>1, <3>3, AppendIncreasing
        <4> QED  BY <4>2, <4>3
      <3> QED  BY <2>1, <3>2, <3>3
    <2>8. \A c \in Conns, k \in DOMAIN event' :
             Below(got[c], event'[k].n) /\ Below(send[c], event'[k].n)
      BY <2>2 DEF OrderInv
    <2>9. \A c \in Conns, k \in DOMAIN event' : Below(send'[c], event'[k].n)
      BY <2>4, <2>7, <2>8
    <2>10. \A c \in Conns : Below(send'[c], emitted + 1)
      <3>1. \A c \in Conns : Below(send[c], emitted + 1)
        BY DEF OrderInv
      <3> QED  BY <1>0, <2>6, <2>7, <3>1
    <2> QED  BY <2>1, <2>4, <2>5, <2>7, <2>8, <2>9, <2>10 DEF OrderInv
  <1>8. CASE Stop
    BY <1>8, OrderFrame DEF Stop
  <1>9. CASE UNCHANGED vars
    BY <1>9, OrderFrame DEF vars
  <1> QED  BY <1>1, <1>2, <1>3, <1>4, <1>5, <1>6, <1>7, <1>8, <1>9 DEF Next, Pumps, HubStep

-----------------------------------------------------------------------------
\* A hub without clients satisfies the invariant.
LEMMA InitInv == Init => HubInv
  <1> SUFFICES ASSUME Init
               PROVE  HubInv
    OBVIOUS
  <1>1. Types
    BY DEF Init, Types
  <1>2. ChannelInv /\ PageInv
    BY DEF Init, ChannelInv, PageInv
  <1>3. OrderInv
    BY DEF Init, OrderInv, Increasing, Below
  <1> QED  BY <1>1, <1>2, <1>3 DEF HubInv

\* The invariant holds in every reachable state.
LEMMA Invariance == Spec => []HubInv
  <1>1. HubInv /\ [Next]_vars => HubInv'
    BY TypesInductive, ChannelInductive, OrderInductive, PageInductive DEF HubInv
  <1> QED  BY <1>1, InitInv, PTL DEF Spec

\* Hub.Run never closes a closed channel and never sends to one.
THEOREM HubNeverPanics == Spec => []NoPanic
  <1>1. HubInv => NoPanic
    BY DEF HubInv, ChannelInv, NoPanic
  <1> QED  BY <1>1, Invariance, PTL

\* The elements of the concatenation of two sequences of numbers.
LEMMA ConcatQueue ==
  ASSUME NEW u \in Seq(Nat), NEW v \in Seq(Nat)
  PROVE  /\ Len(u) \in Nat /\ Len(v) \in Nat
         /\ DOMAIN u = 1..Len(u) /\ DOMAIN v = 1..Len(v)
         /\ DOMAIN (u \o v) = 1..(Len(u) + Len(v))
         /\ \A i \in 1..(Len(u) + Len(v)) :
               (u \o v)[i] = IF i <= Len(u) THEN u[i] ELSE v[i - Len(u)]
  <1>1. Len(u) \in Nat /\ Len(v) \in Nat /\ DOMAIN u = 1..Len(u) /\ DOMAIN v = 1..Len(v)
    OBVIOUS
  <1>2. u \o v \in Seq(Nat) /\ Len(u \o v) = Len(u) + Len(v)
    OBVIOUS
  <1>3. DOMAIN (u \o v) = 1..(Len(u) + Len(v))
    BY <1>2
  <1>4. ASSUME NEW i \in 1..(Len(u) + Len(v))
        PROVE  (u \o v)[i] = IF i <= Len(u) THEN u[i] ELSE v[i - Len(u)]
    BY <1>1
  <1> QED  BY <1>1, <1>3, <1>4

\* A connection gets its events in the order they were emitted, and a client
\* that an event was dropped for is on its way out.
THEOREM NoGapIsSilent == Spec => []NoSilentGap
  <1>1. HubInv => NoSilentGap
    <2> SUFFICES ASSUME HubInv
                 PROVE  NoSilentGap
      OBVIOUS
    <2>1. ASSUME NEW c \in Conns
          PROVE  LET s == got[c] \o send[c] IN \A i, j \in DOMAIN s : i < j => s[i] < s[j]
      <3> DEFINE s == got[c] \o send[c]
                 m == Len(got[c])
                 n == Len(send[c])
      <3>1. got[c] \in Seq(Nat) /\ send[c] \in Seq(Nat)
        BY DEF HubInv, Types
      <3>2. /\ m \in Nat /\ n \in Nat /\ DOMAIN s = 1..(m + n)
            /\ DOMAIN got[c] = 1..m /\ DOMAIN send[c] = 1..n
            /\ \A i \in 1..(m + n) : s[i] = IF i <= m THEN got[c][i] ELSE send[c][i - m]
        BY <3>1, ConcatQueue
      <3>3. /\ Increasing(got[c]) /\ Increasing(send[c])
            /\ \A j \in DOMAIN send[c] : Below(got[c], send[c][j])
        BY DEF HubInv, OrderInv
      <3> HIDE DEF s, m, n
      <3>4. ASSUME NEW i \in DOMAIN s, NEW j \in DOMAIN s, i < j
            PROVE  s[i] < s[j]
        <4>1. CASE j <= m
          BY <3>2, <3>3, <3>4, <4>1 DEF Increasing
        <4>2. CASE i <= m /\ j > m
          <5>1. i \in DOMAIN got[c] /\ j - m \in DOMAIN send[c]
            BY <3>2, <4>2
          <5> QED  BY <3>2, <3>3, <4>2, <5>1 DEF Below
        <4>3. CASE i > m
          <5>1. i - m \in DOMAIN send[c] /\ j - m \in DOMAIN send[c] /\ i - m < j - m
            BY <3>2, <3>4, <4>3
          <5>2. s[i] = send[c][i - m] /\ s[j] = send[c][j - m]
            BY <3>2, <3>4, <4>3
          <5> QED  BY <3>3, <5>1, <5>2 DEF Increasing
        <4> QED  BY <3>2, <3>4, <4>1, <4>2, <4>3
      <3> QED  BY <3>4 DEF s
    <2> QED  BY <2>1 DEF HubInv, ChannelInv, NoSilentGap
  <1> QED  BY <1>1, Invariance, PTL

\* Once the messages of a page have arrived, the server has its subscriptions.
THEOREM SubscriptionsArrive == Spec => []SubscriptionsFollow
  <1>1. HubInv => SubscriptionsFollow
    BY DEF HubInv, PageInv, SubscriptionsFollow
  <1> QED  BY <1>1, Invariance, PTL
=============================================================================
