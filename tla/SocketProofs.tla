---------------------------- MODULE SocketProofs ----------------------------
(***************************************************************************)
(* What SocketPair promises whatever the number of messages, and however   *)
(* the handlers of the two ends, the host and the network interleave.      *)
(***************************************************************************)
EXTENDS SocketPair, TLAPS

(***************************************************************************)
(* Logic and the session: who was told of what.                            *)
(***************************************************************************)
Told ==
    /\ arrivals = (IF session = "open" THEN 1 ELSE 0)
    /\ departures \in {0, arrivals}
    /\ mConnected <=> departures < arrivals

\* Logic is told of a session when mConnected changes, and only then.
LEMMA ToldStep ==
    ASSUME Told, ServerSocketNext
    PROVE  Told'
<1> USE DEF Told, sessionVars
<1>1. CASE AcceptConnection \/ AcceptFails \/ HttpOnRead
  BY <1>1 DEF AcceptConnection, AcceptFails, HttpOnRead
<1>2. CASE SessionOnAcceptFails \/ SessionOnAccept
  BY <1>2 DEF SessionOnAcceptFails, SessionOnAccept
<1>3. CASE SessionSend \/ SessionWrite \/ SessionOnWrite \/ SessionOnRead
  BY <1>3 DEF SessionSend, SessionWrite, SessionOnWrite, SessionOnRead
<1>4. CASE SessionOnWriteFails
  BY <1>4 DEF SessionOnWriteFails, Leave
<1>5. CASE SessionOnReadFails
  BY <1>5 DEF SessionOnReadFails, Leave
<1> QED
  BY <1>1, <1>2, <1>3, <1>4, <1>5 DEF ServerSocketNext, ServerHandler

\* The pair of counts and mConnected stay related for ever.
LEMMA ToldAlways == Spec => []Told
<1>1. Init => Told
  BY DEF Init, ServerSocketInit, Told
<1>2. ASSUME Told, UNCHANGED ssVars PROVE Told'
  BY <1>2 DEF Told, ssVars
<1>3. Told /\ [Next]_vars => Told'
  BY Zenon, <1>2, ToldStep DEF Next, Break, vars
<1> QED
  BY <1>1, <1>3, PTL DEF Spec

\* Logic is told once that a session came and at most once that it left, whichever of its
\* read and its write fails first (WebsocketServer.cpp:342).
THEOREM ToldOnce == Spec => []LogicToldOnce
<1>1. Told => LogicToldOnce
  BY DEF Told, LogicToldOnce
<1> QED
  BY <1>1, ToldAlways, PTL

(***************************************************************************)
(* The client may be connected without its logic knowing only when OnClose *)
(* was before the host: then there is nothing left to read.                *)
(***************************************************************************)
ClientTold == cConnected => told = "connected" \/ (link = "down" /\ toClient = <<>>)

\* No step of the client breaks it: connecting tells the logic, and leaving empties the wire.
LEMMA ClientToldInClient ==
    ASSUME ClientTold, ClientSocketNext
    PROVE  ClientTold'
<1> USE DEF ClientTold, linkVars, writeVars, readVars, pingVars, leaveVars
<1>1. CASE Proceed \/ ConnectFails \/ OnHandshake \/ Connect
  <2>1. CASE Proceed \/ Connect
    BY <2>1 DEF Proceed, Connect
  <2>2. CASE ConnectFails
    BY <2>2 DEF ConnectFails, DisconnectByHandler
  <2>3. CASE OnHandshake
    BY <2>3 DEF OnHandshake
  <2> QED
    BY <1>1, <2>1, <2>2, <2>3
<1>2. CASE ClientWrite \/ ClientOnWrite \/ ClientOnWriteFails \/ ClientSend
  BY <1>2 DEF ClientWrite, ClientOnWrite, ClientOnWriteFails, ClientSend, DisconnectByHandler
<1>3. CASE ClientOnRead \/ ClientOnReadFails
  BY <1>3 DEF ClientOnRead, ClientOnReadFails, DisconnectByHandler
<1>4. ASSUME NEW failed \in BOOLEAN, OnClose(failed) PROVE ClientTold'
  BY <1>4 DEF OnClose
<1>5. CASE Ping
  BY <1>5 DEF Ping, Close
<1>6. CASE OnPing
  BY <1>6 DEF OnPing, DisconnectByHandler
<1>7. CASE HostDisconnects
  BY <1>7 DEF HostDisconnects, Close
<1>8. CASE HostReturns
  BY <1>8 DEF HostReturns, HostCancelsTimer, HostClearsConnected
<1> QED
  BY <1>1, <1>2, <1>3, <1>4, <1>5, <1>6, <1>7, <1>8 DEF ClientSocketNext, ClientHandler

\* What the server does to the wires: it puts its messages on one and takes the client's
\* from the other.
LEMMA WiresInServer ==
    ASSUME ServerSocketNext
    PROVE  /\ link' = link \/ (link = "none" /\ link' = "up")
           /\ link = "down" => toClient' = toClient
           /\ received' # received => mConnected
           /\ UNCHANGED toClient \/ SessionOnWrite
<1> USE DEF linkVars, sessionVars
<1>1. CASE AcceptConnection \/ AcceptFails \/ HttpOnRead \/ SessionOnAcceptFails
  BY <1>1 DEF AcceptConnection, AcceptFails, HttpOnRead, SessionOnAcceptFails
<1>2. CASE SessionOnAccept
  BY <1>2 DEF SessionOnAccept
<1>3. CASE SessionSend \/ SessionWrite \/ SessionOnWriteFails \/ SessionOnReadFails
  BY <1>3 DEF SessionSend, SessionWrite, SessionOnWriteFails, SessionOnReadFails
<1>4. CASE SessionOnWrite
  BY <1>4 DEF SessionOnWrite, Put
<1>5. CASE SessionOnRead
  BY <1>5 DEF SessionOnRead
<1> QED
  BY <1>1, <1>2, <1>3, <1>4, <1>5 DEF ServerSocketNext, ServerHandler

\* A client that is connected, with something left to read, has told its logic so.
LEMMA ClientToldAlways == Spec => []ClientTold
<1>1. Init => ClientTold
  BY DEF Init, ClientSocketInit, ClientTold
<1>2. ASSUME ClientTold, ServerSocketNext, UNCHANGED csVars PROVE ClientTold'
  <2>1. cConnected' = cConnected /\ told' = told
    BY <1>2 DEF csVars
  <2>2. link = "down" => link' = "down" /\ toClient' = toClient
    BY <1>2, WiresInServer
  <2> QED
    BY <1>2, <2>1, <2>2 DEF ClientTold
<1>3. ASSUME ClientTold, Break PROVE ClientTold'
  BY <1>3 DEF ClientTold, Break, csVars
<1>4. ASSUME ClientTold, UNCHANGED vars PROVE ClientTold'
  BY <1>4 DEF ClientTold, vars, linkVars, csVars
<1>5. ClientTold /\ [Next]_vars => ClientTold'
  BY Zenon, <1>2, <1>3, <1>4, ClientToldInClient DEF Next
<1> QED
  BY <1>1, <1>5, PTL DEF Spec

\* Neither logic is given a message before it was told of the connection or after it was
\* told of its end (WebsocketServer.cpp:322, WebsocketClient.cpp:375).
THEOREM MessagesOnlyBetween == Spec => MessagesBetween
<1> DEFINE Between == /\ received' # received => arrivals = 1 /\ departures = 0
                      /\ got' # got /\ cConnected => told = "connected"
<1>1. ASSUME Told, ServerSocketNext, UNCHANGED csVars PROVE Between
  BY <1>1, WiresInServer DEF Told, csVars
<1>2. ASSUME ClientTold, ClientSocketNext, UNCHANGED ssVars PROVE Between
  <2>1. received' = received
    BY <1>2 DEF ssVars
  <2>2. got' # got => toClient # <<>>
    BY <1>2 DEF ClientSocketNext, ClientHandler, Proceed, ConnectFails, OnHandshake, Connect,
       ClientWrite, ClientOnWrite, ClientOnWriteFails, ClientSend, ClientOnRead,
       ClientOnReadFails, OnClose, Ping, OnPing, HostDisconnects, HostReturns,
       HostCancelsTimer, HostClearsConnected, readVars
  <2> QED
    BY <1>2, <2>1, <2>2 DEF ClientTold
<1>3. ASSUME Break \/ UNCHANGED vars PROVE Between
  BY <1>3 DEF Break, vars, csVars, ssVars
<1>4. Told /\ ClientTold /\ [Next]_vars => [Between]_vars
  BY Zenon, <1>1, <1>2, <1>3 DEF Next
<1> QED
  BY <1>4, ToldAlways, ClientToldAlways, PTL DEF Spec, MessagesBetween

(***************************************************************************)
(* The queues.  A queue that is written has its message in it until the    *)
(* write has completed; this is also why OnWrite never pops an empty one.  *)
(***************************************************************************)
ServerQueues ==
    /\ mWriteQueue \in Seq(Message) /\ posted \in Seq(Message)
    /\ inFlight \in Seq(Message) /\ replies \in Nat
    /\ inFlight = <<>> \/ (mWriteQueue # <<>> /\ inFlight = <<Head(mWriteQueue)>>)

ClientQueues ==
    /\ cWriteQueue \in Seq(Message) /\ cPosted \in Seq(Message)
    /\ cInFlight \in Seq(Message) /\ sent \in Nat
    /\ cInFlight = <<>> \/ \E m \in Message : cInFlight = <<m>> /\ IsIn(cWriteQueue, m)

Wires ==
    /\ toServer \in Seq(Message) /\ toClient \in Seq(Message)
    /\ received \in Seq(Message) /\ got \in Seq(Message)

Queues == ServerQueues /\ ClientQueues /\ Wires

\* What is in a queue stays when one is appended.
LEMMA IsInAppend ==
    ASSUME NEW q \in Seq(Message), NEW x \in Message
    PROVE  /\ Append(q, x) \in Seq(Message) /\ Append(q, x) # <<>>
           /\ IsIn(Append(q, x), x)
           /\ \A m : IsIn(q, m) => IsIn(Append(q, x), m)
           /\ q # <<>> => Head(Append(q, x)) = Head(q) /\ Len(Append(q, x)) > 1
           /\ q = <<>> => Head(Append(q, x)) = x
BY DEF IsIn

\* The ends of a queue are in it.
LEMMA IsInEnds ==
    ASSUME NEW q \in Seq(Message), q # <<>>
    PROVE  /\ Head(q) \in Message /\ IsIn(q, Head(q)) /\ Tail(q) \in Seq(Message)
           /\ q[Len(q)] \in Message /\ IsIn(q, q[Len(q)])
BY DEF IsIn

\* Queues of one message.
LEMMA One ==
    ASSUME NEW x \in Message
    PROVE  /\ <<x>> \in Seq(Message) /\ <<x>> # <<>>
           /\ Head(<<x>>) = x /\ Tail(<<x>>) = <<>> /\ Append(<<>>, x) = <<x>>
           /\ <<>> \in Seq(Message)
OBVIOUS

\* A write puts a message on a wire, or on none.
LEMMA PutType ==
    ASSUME NEW w \in Seq(Message), NEW x \in Message
    PROVE  Put(w, x) \in Seq(Message)
BY DEF Put

\* The buffer of the write under way is in the queue (WebsocketServer.cpp:249).
LEMMA QueuesInServer ==
    ASSUME Queues, ServerSocketNext
    PROVE  ServerQueues' /\ toServer' \in Seq(Message) /\ toClient' \in Seq(Message)
           /\ received' \in Seq(Message)
<1> USE DEF Queues, ServerQueues, Wires, linkVars, sessionVars
<1>1. CASE \/ AcceptConnection \/ AcceptFails \/ HttpOnRead
           \/ SessionOnAcceptFails \/ SessionOnAccept
  BY <1>1 DEF AcceptConnection, AcceptFails, HttpOnRead, SessionOnAcceptFails, SessionOnAccept
<1>2. CASE SessionSend
  <2>1. replies' \in Nat /\ replies' \in Message
    BY <1>2 DEF SessionSend, Message
  <2> QED
    BY <1>2, <2>1, IsInAppend DEF SessionSend
<1>3. CASE SessionWrite
  <2>1. Head(posted) \in Message /\ Tail(posted) \in Seq(Message)
    BY <1>3, IsInEnds DEF SessionWrite
  <2>2. /\ posted' = Tail(posted) /\ mWriteQueue' = Append(mWriteQueue, Head(posted))
        /\ UNCHANGED <<replies, received, linkVars>>
        /\ inFlight' = IF Len(mWriteQueue') > 1 THEN inFlight ELSE Append(inFlight, Head(posted))
    BY <1>3 DEF SessionWrite
  <2>3. CASE mWriteQueue = <<>>
    <3>1. inFlight = <<>> /\ Len(mWriteQueue') = 1 /\ Head(mWriteQueue') = Head(posted)
      BY <2>1, <2>2, <2>3
    <3>2. inFlight' = <<Head(posted)>>
      BY <2>1, <2>2, <3>1
    <3> QED
      BY <2>1, <2>2, <3>1, <3>2, IsInAppend, One
  <2>4. CASE mWriteQueue # <<>>
    <3>1. inFlight' = inFlight /\ Head(mWriteQueue') = Head(mWriteQueue) /\ mWriteQueue' # <<>>
      BY <2>1, <2>2, <2>4, IsInAppend
    <3> QED
      BY <2>1, <2>2, <3>1, IsInAppend
  <2> QED
    BY <2>3, <2>4
<1>4. CASE SessionOnWrite
  <2>1. mWriteQueue # <<>> /\ inFlight = <<Head(mWriteQueue)>> /\ Head(mWriteQueue) \in Message
    BY <1>4, IsInEnds DEF SessionOnWrite
  <2>2. toClient' \in Seq(Message)
    BY <1>4, <2>1, PutType, One DEF SessionOnWrite
  <2>3. UNCHANGED <<posted, replies, received, toServer>>
    BY <1>4 DEF SessionOnWrite
  <2>4. CASE ~mConnected
    BY <1>4, <2>1, <2>2, <2>3, <2>4, One DEF SessionOnWrite
  <2>5. CASE mConnected
    <3>1. mWriteQueue' = Tail(mWriteQueue) /\ mWriteQueue' \in Seq(Message)
      BY <1>4, <2>1, <2>5, IsInEnds DEF SessionOnWrite
    <3>2. inFlight' = IF mWriteQueue' = <<>> THEN <<>> ELSE <<Head(mWriteQueue')>>
      BY <1>4, <2>5 DEF SessionOnWrite
    <3>3. inFlight' \in Seq(Message)
      BY <3>1, <3>2, IsInEnds, One
    <3> QED
      BY <2>2, <2>3, <3>1, <3>2, <3>3
  <2> QED
    BY <2>4, <2>5
<1>5. CASE SessionOnWriteFails
  <2>1. inFlight' = <<>>
    BY <1>5, IsInEnds, One DEF SessionOnWriteFails
  <2> QED
    BY <1>5, <2>1, One DEF SessionOnWriteFails
<1>6. CASE SessionOnRead
  <2>1. Head(toServer) \in Message /\ Tail(toServer) \in Seq(Message)
    BY <1>6, IsInEnds DEF SessionOnRead
  <2>2. Append(received, Head(toServer)) \in Seq(Message)
    BY <2>1, IsInAppend
  <2>3. /\ toServer' = Tail(toServer) /\ received' \in {received, Append(received, Head(toServer))}
        /\ UNCHANGED <<mWriteQueue, posted, inFlight, replies, toClient>>
    BY <1>6, Zenon DEF SessionOnRead
  <2> QED
    BY <2>1, <2>2, <2>3
<1>7. CASE SessionOnReadFails
  BY <1>7 DEF SessionOnReadFails
<1> QED
  BY Zenon, <1>1, <1>2, <1>3, <1>4, <1>5, <1>6, <1>7 DEF ServerSocketNext, ServerHandler

\* The same for the client (WebsocketClient.cpp:157, :351).
LEMMA WritesInClient ==
    ASSUME Queues, ClientSocketNext
    PROVE  ClientQueues' /\ toServer' \in Seq(Message)
<1> USE DEF Queues, ClientQueues, Wires, linkVars, writeVars
<1>1. CASE ClientSend
  <2>1. sent' \in Nat /\ sent' \in Message
    BY <1>1 DEF ClientSend, Message
  <2> QED
    BY <1>1, <2>1, IsInAppend DEF ClientSend
<1>2. CASE ClientWrite
  <2>1. Head(cPosted) \in Message /\ Tail(cPosted) \in Seq(Message)
    BY <1>2, IsInEnds DEF ClientWrite
  <2>2. /\ cPosted' = Tail(cPosted) /\ cWriteQueue' = Append(cWriteQueue, Head(cPosted))
        /\ UNCHANGED <<sent, toServer>>
        /\ cInFlight' = IF ~cConnected \/ Len(cWriteQueue') > 1
                        THEN cInFlight ELSE Append(cInFlight, Head(cPosted))
    BY <1>2 DEF ClientWrite
  <2>3. CASE cInFlight = <<>>
    <3>1. cInFlight' = <<>> \/ cInFlight' = <<Head(cPosted)>>
      BY <2>1, <2>2, <2>3
    <3> QED
      BY <2>1, <2>2, <3>1, IsInAppend, One
  <2>4. CASE cInFlight # <<>>
    <3>1. PICK m \in Message : cInFlight = <<m>> /\ IsIn(cWriteQueue, m)
      BY <2>4
    <3>2. cWriteQueue # <<>>
      BY <3>1 DEF IsIn
    <3>3. cInFlight' = cInFlight
      BY <2>1, <2>2, <3>2, IsInAppend
    <3>4. IsIn(cWriteQueue', m)
      BY <2>1, <2>2, <3>1, IsInAppend
    <3> QED
      BY <2>1, <2>2, <3>1, <3>3, <3>4, IsInAppend
  <2> QED
    BY <2>3, <2>4
<1>3. CASE ClientOnWrite
  <2>1. PICK m \in Message : cInFlight = <<m>> /\ IsIn(cWriteQueue, m)
    BY <1>3 DEF ClientOnWrite
  <2>2. cWriteQueue # <<>>
    BY <2>1 DEF IsIn
  <2>3. toServer' \in Seq(Message)
    BY <1>3, <2>1, PutType, One DEF ClientOnWrite
  <2>4. cWriteQueue' \in Seq(Message)
    BY <1>3, <2>2, IsInEnds DEF ClientOnWrite
  <2>5. cInFlight' = IF cWriteQueue' = <<>> THEN <<>> ELSE <<cWriteQueue'[Len(cWriteQueue')]>>
    BY <1>3 DEF ClientOnWrite
  <2>6. \/ cInFlight' = <<>>
        \/ \E x \in Message : cInFlight' = <<x>> /\ IsIn(cWriteQueue', x)
    BY <2>4, <2>5, IsInEnds
  <2>7. cInFlight' \in Seq(Message)
    BY <2>6, One
  <2> QED
    BY <1>3, <2>3, <2>4, <2>6, <2>7 DEF ClientOnWrite
<1>4. CASE ClientOnWriteFails
  <2>1. cInFlight' = <<>>
    BY <1>4, One DEF ClientOnWriteFails
  <2> QED
    BY <1>4, <2>1, One DEF ClientOnWriteFails
<1>5. CASE UNCHANGED <<cWriteQueue, cPosted, cInFlight, sent, toServer>>
  BY <1>5
<1>6. CASE Proceed \/ ConnectFails \/ OnHandshake \/ Connect \/ ClientOnRead \/ ClientOnReadFails
           \/ Ping \/ OnPing \/ HostDisconnects \/ HostReturns
  BY <1>5, <1>6 DEF Proceed, ConnectFails, OnHandshake, Connect, ClientOnRead, ClientOnReadFails,
     Ping, OnPing, HostDisconnects, HostReturns, HostCancelsTimer, HostClearsConnected
<1>7. ASSUME NEW failed \in BOOLEAN, OnClose(failed) PROVE UNCHANGED <<writeVars, toServer>>
  BY <1>7 DEF OnClose
<1> QED
  BY Zenon, <1>1, <1>2, <1>3, <1>4, <1>5, <1>6, <1>7 DEF ClientSocketNext, ClientHandler

\* What the client does to the wire from the server.
WireInClient ==
    \/ UNCHANGED <<toClient, got>>
       /\ (link' = link \/ link' = "down" \/ (link = "none" /\ link' = "up"))
    \/ toClient' = <<>> /\ link' = "down" /\ got' = got
    \/ /\ toClient # <<>> /\ toClient' = Tail(toClient) /\ got' = Append(got, Head(toClient))
       /\ link' = link

\* What the client does to the wire to it, and to what it has read.
LEMMA ReadsInClient == ASSUME ClientSocketNext PROVE WireInClient
<1> USE DEF WireInClient, linkVars, readVars
<1>1. CASE Proceed \/ Connect \/ ClientSend \/ ClientWrite \/ ClientOnWrite \/ ClientOnWriteFails
  BY <1>1 DEF Proceed, Connect, ClientSend, ClientWrite, ClientOnWrite, ClientOnWriteFails
<1>2. CASE ConnectFails
  BY <1>2 DEF ConnectFails
<1>3. CASE OnHandshake
  BY <1>3 DEF OnHandshake
<1>4. CASE ClientOnRead
  BY <1>4 DEF ClientOnRead
<1>5. CASE ClientOnReadFails \/ Ping \/ OnPing \/ HostDisconnects \/ HostReturns
  BY <1>5 DEF ClientOnReadFails, Ping, OnPing, HostDisconnects, HostReturns, HostCancelsTimer,
     HostClearsConnected
<1>6. ASSUME NEW failed \in BOOLEAN, OnClose(failed) PROVE WireInClient
  BY <1>6 DEF OnClose
<1> QED
  BY Zenon, <1>1, <1>2, <1>3, <1>4, <1>5, <1>6 DEF ClientSocketNext, ClientHandler

\* Every step keeps the write queues and the wires.
LEMMA QueuesStep == Queues /\ [Next]_vars => Queues'
<1>1. ASSUME Queues, ServerSocketNext, UNCHANGED csVars PROVE Queues'
  BY <1>1, QueuesInServer DEF Queues, ClientQueues, Wires, csVars
<1>2. ASSUME Queues, ClientSocketNext, UNCHANGED ssVars PROVE Queues'
  <2>1. toClient' \in Seq(Message) /\ got' \in Seq(Message)
    <3>1. WireInClient
      BY <1>2, ReadsInClient
    <3>2. toClient # <<>> => Head(toClient) \in Message /\ Tail(toClient) \in Seq(Message)
      BY <1>2, IsInEnds DEF Queues, Wires
    <3>3. toClient \in Seq(Message) /\ got \in Seq(Message) /\ <<>> \in Seq(Message)
      BY <1>2 DEF Queues, Wires
    <3>4. ASSUME toClient # <<>> PROVE Append(got, Head(toClient)) \in Seq(Message)
      BY <3>2, <3>3, <3>4, IsInAppend
    <3> QED
      BY <3>1, <3>2, <3>3, <3>4 DEF WireInClient
  <2> QED
    BY <1>2, <2>1, WritesInClient DEF Queues, ServerQueues, Wires, ssVars
<1>3. ASSUME Queues, Break \/ UNCHANGED vars PROVE Queues'
  BY <1>3 DEF Queues, ServerQueues, ClientQueues, Wires, Break, vars, linkVars, csVars, ssVars
<1> QED
  BY Zenon, <1>1, <1>2, <1>3 DEF Next

\* The write queues and the wires are as they should be in every state.
LEMMA QueuesAlways == Spec => []Queues
<1>1. Init => Queues
  BY One DEF Init, LinkInit, ClientSocketInit, ServerSocketInit, Queues, ServerQueues,
     ClientQueues, Wires
<1> QED
  BY <1>1, QueuesStep, PTL DEF Spec

\* On both ends a write never starts under another, and the buffer of a write is a message
\* still in its queue (WebsocketClient.cpp:157, WebsocketServer.cpp:249).
THEOREM BuffersStayOwned == Spec => []BuffersOwned
<1>1. ASSUME Queues PROVE BuffersOwned
  <2>1. Len(inFlight) <= 1 /\ \A i \in 1..Len(inFlight) : IsIn(mWriteQueue, inFlight[i])
    BY <1>1, IsInEnds DEF Queues, ServerQueues
  <2>2. Len(cInFlight) <= 1 /\ \A i \in 1..Len(cInFlight) : IsIn(cWriteQueue, cInFlight[i])
    BY <1>1 DEF Queues, ClientQueues
  <2> QED
    BY <2>1, <2>2 DEF BuffersOwned
<1> QED
  BY <1>1, QueuesAlways, PTL

(***************************************************************************)
(* The session is an ordered channel.  As long as the connection is up,    *)
(* what was read, what is on the wire, what is in the queue and what is    *)
(* posted are together all of Logic's messages, in order; when it is down, *)
(* what was read and what is still on the wire are the first of them.      *)
(***************************************************************************)
Numbered(q, from) == \A i \in 1..Len(q) : q[i] = from + i

Delivered == Len(got) + Len(toClient)

InOrder ==
    /\ Numbered(got, 0)
    /\ Numbered(toClient, Len(got))
    /\ Delivered <= replies
    /\ link # "down" => /\ Numbered(mWriteQueue, Delivered)
                        /\ Numbered(posted, Delivered + Len(mWriteQueue))
                        /\ Delivered + Len(mWriteQueue) + Len(posted) = replies

\* A session that has not been opened has no messages, one that was left has no connection.
Alive ==
    /\ link \in {"none", "up", "down"}
    /\ session # "open" => mWriteQueue = <<>> /\ posted = <<>> /\ inFlight = <<>>
    /\ link = "none" => session # "open"
    /\ departures = 1 => link = "down"

\* Without its head a numbered queue starts one later.
LEMMA NumberedTail ==
    ASSUME NEW q \in Seq(Message), NEW n \in Nat, q # <<>>, Numbered(q, n)
    PROVE  Head(q) = n + 1 /\ Numbered(Tail(q), n + 1) /\ Len(Tail(q)) = Len(q) - 1
BY DEF Numbered

\* With the next number at its end it is still numbered.
LEMMA NumberedAppend ==
    ASSUME NEW q \in Seq(Message), NEW n \in Nat, NEW x \in Message, Numbered(q, n),
           x = n + Len(q) + 1
    PROVE  Numbered(Append(q, x), n) /\ Len(Append(q, x)) = Len(q) + 1
BY DEF Numbered

\* A session that writes is connected.
LEMMA AliveInServer ==
    ASSUME Told, Alive, Queues, ServerSocketNext
    PROVE  Alive'
<1> USE DEF Alive, Told, linkVars, sessionVars
<1>1. CASE AcceptConnection \/ AcceptFails \/ HttpOnRead \/ SessionOnAcceptFails
  BY <1>1 DEF AcceptConnection, AcceptFails, HttpOnRead, SessionOnAcceptFails
<1>2. CASE SessionOnAccept
  BY <1>2 DEF SessionOnAccept
<1>3. CASE SessionSend \/ SessionWrite \/ SessionOnWrite
  BY <1>3 DEF SessionSend, SessionWrite, SessionOnWrite
<1>4. CASE SessionOnWriteFails \/ SessionOnReadFails
  BY <1>4 DEF SessionOnWriteFails, SessionOnReadFails, Leave
<1>5. CASE SessionOnRead
  BY <1>5 DEF SessionOnRead
<1> QED
  BY Zenon, <1>1, <1>2, <1>3, <1>4, <1>5 DEF ServerSocketNext, ServerHandler

\* The server moves the next number from one stage to the next: queued, on the wire.
LEMMA InOrderInServer ==
    ASSUME Told, Alive, Queues, InOrder, ServerSocketNext, got' = got
    PROVE  InOrder'
<1> Delivered \in Nat /\ replies \in Nat /\ Len(mWriteQueue) \in Nat /\ Len(posted) \in Nat
    /\ Len(got) \in Nat
  BY DEF Queues, ServerQueues, Wires, Delivered
<1> mWriteQueue \in Seq(Message) /\ posted \in Seq(Message) /\ toClient \in Seq(Message)
  BY DEF Queues, ServerQueues, Wires
<1>1. CASE UNCHANGED <<toClient, mWriteQueue, posted, replies>>
  <2>1. link' # "down" => link # "down"
    BY WiresInServer
  <2> QED
    BY <1>1, <2>1 DEF InOrder, Delivered
<1>2. CASE SessionSend
  <2>1. replies' = replies + 1 /\ posted' = Append(posted, replies + 1)
        /\ UNCHANGED <<mWriteQueue, toClient, link>>
    BY <1>2 DEF SessionSend, linkVars
  <2>2. Delivered' = Delivered
    BY <2>1 DEF Delivered
  <2>3. replies + 1 \in Message
    BY DEF Message
  <2>4. ASSUME link # "down"
        PROVE  /\ Numbered(posted', Delivered + Len(mWriteQueue))
               /\ Delivered + Len(mWriteQueue) + Len(posted') = replies'
    <3>1. /\ Numbered(posted, Delivered + Len(mWriteQueue))
          /\ Delivered + Len(mWriteQueue) + Len(posted) = replies
      BY <2>4 DEF InOrder
    <3>2. Numbered(posted', Delivered + Len(mWriteQueue)) /\ Len(posted') = Len(posted) + 1
      <4>1. replies + 1 = (Delivered + Len(mWriteQueue)) + Len(posted) + 1
        BY <3>1
      <4>2. Delivered + Len(mWriteQueue) \in Nat
        OBVIOUS
      <4>3. /\ Numbered(Append(posted, replies + 1), Delivered + Len(mWriteQueue))
            /\ Len(Append(posted, replies + 1)) = Len(posted) + 1
        BY <2>3, <3>1, <4>1, <4>2, NumberedAppend
      <4> QED
        BY <2>1, <4>3
    <3> QED
      BY <2>1, <3>1, <3>2
  <2>5. Len(got') = Len(got) /\ Delivered <= replies'
    BY <2>1 DEF InOrder
  <2> QED
    BY <2>1, <2>2, <2>4, <2>5 DEF InOrder
<1>3. CASE SessionWrite
  <2>1. /\ posted # <<>> /\ posted' = Tail(posted)
        /\ mWriteQueue' = Append(mWriteQueue, Head(posted))
        /\ UNCHANGED <<replies, toClient, link>>
    BY <1>3 DEF SessionWrite, linkVars
  <2>2. Delivered' = Delivered
    BY <2>1 DEF Delivered
  <2>3. Head(posted) \in Message
    BY <2>1, IsInEnds
  <2>4. ASSUME link # "down"
        PROVE  /\ Numbered(mWriteQueue', Delivered) /\ Len(mWriteQueue') = Len(mWriteQueue) + 1
               /\ Numbered(posted', Delivered + Len(mWriteQueue) + 1)
               /\ Len(posted') = Len(posted) - 1
    <3>1. /\ Head(posted) = Delivered + Len(mWriteQueue) + 1
          /\ Numbered(Tail(posted), Delivered + Len(mWriteQueue) + 1)
          /\ Len(Tail(posted)) = Len(posted) - 1
      BY <2>1, <2>4, NumberedTail DEF InOrder
    <3>2. Numbered(mWriteQueue, Delivered)
      BY <2>4 DEF InOrder
    <3> QED
      BY <2>1, <2>3, <3>1, <3>2, NumberedAppend
  <2>5. ASSUME link # "down"
        PROVE  /\ Numbered(posted', Delivered + Len(mWriteQueue'))
               /\ Delivered + Len(mWriteQueue') + Len(posted') = replies
    <3>1. Delivered + Len(mWriteQueue) + Len(posted) = replies
      BY <2>5 DEF InOrder
    <3>2. Delivered + Len(mWriteQueue') = Delivered + Len(mWriteQueue) + 1
      BY <2>4, <2>5
    <3> QED
      BY <2>4, <2>5, <3>1, <3>2
  <2> QED
    BY <2>1, <2>2, <2>4, <2>5 DEF InOrder
<1>4. CASE SessionOnWrite
  <2>1. /\ inFlight # <<>> /\ toClient' = Put(toClient, Head(inFlight))
        /\ UNCHANGED <<posted, replies, link>>
        /\ mConnected => mWriteQueue' = Tail(mWriteQueue)
    BY <1>4 DEF SessionOnWrite
  <2>2. mWriteQueue # <<>> /\ Head(inFlight) = Head(mWriteQueue) /\ Head(mWriteQueue) \in Message
    BY <2>1, IsInEnds DEF Queues, ServerQueues
  <2>3. CASE link = "down"
    BY <2>1, <2>3 DEF InOrder, Put, Delivered
  <2>4. CASE link # "down"
    <3>1. session = "open" /\ link = "up" /\ mConnected
      <4>1. session = "open"
        BY <2>1 DEF Alive
      <4>2. departures = 0 /\ arrivals = 1
        BY <2>4, <4>1 DEF Alive, Told
      <4> QED
        BY <2>4, <4>1, <4>2 DEF Alive, Told
    <3>2. toClient' = Append(toClient, Head(mWriteQueue)) /\ mWriteQueue' = Tail(mWriteQueue)
      BY <2>1, <2>2, <3>1 DEF Put
    <3>3. /\ Head(mWriteQueue) = Delivered + 1 /\ Numbered(Tail(mWriteQueue), Delivered + 1)
          /\ Len(Tail(mWriteQueue)) = Len(mWriteQueue) - 1
      BY <2>2, <2>4, NumberedTail DEF InOrder
    <3>4. Numbered(toClient', Len(got)) /\ Len(toClient') = Len(toClient) + 1
      BY <2>2, <3>2, <3>3, NumberedAppend DEF InOrder, Delivered
    <3>5. Delivered' = Delivered + 1
      BY <3>4 DEF Delivered
    <3>6. /\ Numbered(posted, Delivered + Len(mWriteQueue))
          /\ Delivered + Len(mWriteQueue) + Len(posted) = replies
      BY <2>4 DEF InOrder
    <3>7. Len(mWriteQueue') = Len(mWriteQueue) - 1
      BY <3>2, <3>3
    <3>9. Delivered' + Len(mWriteQueue') = Delivered + Len(mWriteQueue)
      BY <3>5, <3>7
    <3>8. Delivered' <= replies
      BY <2>2, <3>5, <3>6
    <3> QED
      BY <2>1, <3>2, <3>3, <3>4, <3>5, <3>6, <3>7, <3>8, <3>9 DEF InOrder
  <2> QED
    BY <2>3, <2>4
<1>5. CASE \/ AcceptConnection \/ AcceptFails \/ HttpOnRead \/ SessionOnAcceptFails
           \/ SessionOnAccept \/ SessionOnWriteFails \/ SessionOnRead \/ SessionOnReadFails
  BY <1>1, <1>5 DEF AcceptConnection, AcceptFails, HttpOnRead, SessionOnAcceptFails,
     SessionOnAccept, SessionOnWriteFails, SessionOnRead, SessionOnReadFails, linkVars, sessionVars
<1> QED
  BY Zenon, <1>2, <1>3, <1>4, <1>5 DEF ServerSocketNext, ServerHandler

\* The client reads from the wire's head.
LEMMA InOrderInClient ==
    ASSUME Queues, InOrder, ClientSocketNext, UNCHANGED ssVars
    PROVE  InOrder'
<1> toClient \in Seq(Message) /\ got \in Seq(Message) /\ replies \in Nat
  BY DEF Queues, ServerQueues, Wires
<1>1. UNCHANGED <<mWriteQueue, posted, replies>>
  BY DEF ssVars
<1>2. WireInClient
  BY ReadsInClient
<1>3. CASE UNCHANGED <<toClient, got>>
           /\ (link' = link \/ link' = "down" \/ (link = "none" /\ link' = "up"))
  <2>1. Delivered' = Delivered /\ (link' # "down" => link # "down")
    BY <1>3 DEF Delivered
  <2> QED
    BY <1>1, <1>3, <2>1 DEF InOrder
<1>4. CASE toClient' = <<>> /\ link' = "down" /\ got' = got
  <2>1. Delivered' = Len(got) /\ Numbered(toClient', Len(got))
    BY <1>4 DEF Delivered, Numbered
  <2>2. Len(got) <= replies
    BY DEF InOrder, Delivered
  <2> QED
    BY <1>1, <1>4, <2>1, <2>2 DEF InOrder
<1>5. CASE /\ toClient # <<>> /\ toClient' = Tail(toClient) /\ got' = Append(got, Head(toClient))
           /\ link' = link
  <2>1. /\ Head(toClient) = Len(got) + 1 /\ Numbered(Tail(toClient), Len(got) + 1)
        /\ Len(Tail(toClient)) = Len(toClient) - 1
    BY <1>5, NumberedTail DEF InOrder
  <2>2. Head(toClient) \in Message
    BY <1>5, IsInEnds
  <2>3. Numbered(got', 0) /\ Len(got') = Len(got) + 1
    BY <1>5, <2>1, <2>2, NumberedAppend DEF InOrder
  <2>4. Delivered' = Delivered
    BY <1>5, <2>1, <2>3 DEF Delivered
  <2> QED
    BY <1>1, <1>5, <2>1, <2>3, <2>4 DEF InOrder
<1> QED
  BY <1>2, <1>3, <1>4, <1>5 DEF WireInClient

\* Every step keeps the order of all stages together.
LEMMA InOrderStep == Told /\ Alive /\ Queues /\ InOrder /\ [Next]_vars => Alive' /\ InOrder'
<1>1. ASSUME Told, Alive, Queues, InOrder, ServerSocketNext, UNCHANGED csVars
      PROVE  Alive' /\ InOrder'
  BY <1>1, AliveInServer, InOrderInServer DEF csVars
<1>2. ASSUME Alive, Queues, InOrder, ClientSocketNext, UNCHANGED ssVars
      PROVE  Alive' /\ InOrder'
  <2>1. link' = link \/ link' = "down" \/ (link = "none" /\ link' = "up")
    BY <1>2, ReadsInClient DEF WireInClient
  <2>2. Alive'
    BY <1>2, <2>1 DEF Alive, ssVars
  <2> QED
    BY <1>2, <2>2, InOrderInClient
<1>3. ASSUME Alive, InOrder, Break \/ UNCHANGED vars PROVE Alive' /\ InOrder'
  <2>1. /\ UNCHANGED <<session, mWriteQueue, posted, inFlight, departures, replies, got, toClient>>
        /\ link' = link \/ link' = "down"
    BY <1>3 DEF Break, vars, linkVars, csVars, ssVars
  <2>2. Alive'
    BY <1>3, <2>1 DEF Alive
  <2>3. Delivered' = Delivered
    BY <2>1 DEF Delivered
  <2>4. InOrder'
    BY <1>3, <2>1, <2>3 DEF InOrder
  <2> QED
    BY <2>2, <2>4
<1> QED
  BY Zenon, <1>1, <1>2, <1>3 DEF Next

\* All stages from Logic to the client's reads continue each other in every state.
LEMMA InOrderAlways == Spec => [](Alive /\ InOrder)
<1>1. Init => Alive /\ InOrder
  BY DEF Init, LinkInit, ClientSocketInit, ServerSocketInit, Alive, InOrder, Delivered, Numbered
<1> QED
  BY <1>1, InOrderStep, ToldAlways, QueuesAlways, PTL DEF Spec

\* What Logic sends on a session reaches the client's reads in order, none skipped and none
\* twice, up to where the connection ends (WebsocketServer.cpp:225-359).
THEOREM SessionIsChannel == Spec => ImplementsChannel
<1>1. Init => Channel!Init
  BY DEF Init, ClientSocketInit, ServerSocketInit, Channel!Init
<1>2. ASSUME Queues, ServerSocketNext, UNCHANGED csVars PROVE Channel!Send \/ UNCHANGED <<replies, got>>
  <2>1. got' = got
    BY <1>2 DEF csVars
  <2>2. replies' = replies + 1 \/ replies' = replies
    BY <1>2 DEF ServerSocketNext, ServerHandler, AcceptConnection, AcceptFails, HttpOnRead,
       SessionOnAcceptFails, SessionOnAccept, SessionSend, SessionWrite, SessionOnWrite,
       SessionOnWriteFails, SessionOnRead, SessionOnReadFails, linkVars, sessionVars
  <2> QED
    BY <2>1, <2>2 DEF Channel!Send
<1>3. ASSUME Queues, InOrder, ClientSocketNext, UNCHANGED ssVars
      PROVE  Channel!Deliver \/ UNCHANGED <<replies, got>>
  <2> toClient \in Seq(Message) /\ got \in Seq(Message) /\ replies \in Nat
    BY <1>3 DEF Queues, ServerQueues, Wires
  <2>1. replies' = replies
    BY <1>3 DEF ssVars
  <2>2. CASE toClient # <<>> /\ got' = Append(got, Head(toClient))
    <3>1. Head(toClient) = Len(got) + 1 /\ Len(toClient) > 0
      BY <1>3, <2>2, NumberedTail DEF InOrder
    <3>2. Len(got) < replies
      BY <1>3, <3>1 DEF InOrder, Delivered
    <3> QED
      BY <2>1, <2>2, <3>1, <3>2 DEF Channel!Deliver
  <2>3. CASE got' = got
    BY <2>1, <2>3
  <2>4. WireInClient
    BY <1>3, ReadsInClient
  <2> QED
    BY <2>2, <2>3, <2>4 DEF WireInClient
<1>4. ASSUME Break \/ UNCHANGED vars PROVE UNCHANGED <<replies, got>>
  BY <1>4 DEF Break, vars, csVars, ssVars
<1>5. Queues /\ InOrder /\ [Next]_vars => [Channel!Next]_(Channel!vars)
  BY Zenon, <1>2, <1>3, <1>4 DEF Next, Channel!Next, Channel!vars
<1> QED
  BY <1>1, <1>5, QueuesAlways, InOrderAlways, PTL DEF Spec, ImplementsChannel, Channel!Spec

(***************************************************************************)
(* The host that leaves.  When Connect was answered the handshake is over, *)
(* and only a handshake connects.                                          *)
(***************************************************************************)
HostLeaves ==
    /\ stage \in Pending => connectFuture = "pending"
    /\ host # "there" /\ ~hasty => stage \notin Pending \cup {"new"}
    /\ host = "left" /\ ~hasty => ~cConnected

\* Once a host that has waited is in Disconnect, no handler connects the client again.
LEMMA HostLeavesInClient ==
    ASSUME HostLeaves, ClientSocketNext
    PROVE  HostLeaves'
<1> USE DEF HostLeaves, linkVars, writeVars, readVars, pingVars, leaveVars
<1>1. CASE Connect \/ Proceed
  BY <1>1 DEF Connect, Proceed, Pending
<1>2. CASE ConnectFails
  BY <1>2 DEF ConnectFails, DisconnectByHandler, Pending
<1>3. CASE OnHandshake
  BY <1>3 DEF OnHandshake, Pending
<1>4. CASE HostDisconnects
  BY <1>4 DEF HostDisconnects
<1>5. CASE HostReturns
  BY <1>5 DEF HostReturns, HostCancelsTimer, HostClearsConnected
<1>6. CASE \/ ClientSend \/ ClientWrite \/ ClientOnWrite \/ ClientOnWriteFails
           \/ ClientOnRead \/ ClientOnReadFails \/ Ping \/ OnPing
           \/ \E failed \in BOOLEAN : OnClose(failed)
  <2>1. UNCHANGED <<stage, connectFuture, host, hasty>>
    BY Zenon, <1>6 DEF ClientSend, ClientWrite, ClientOnWrite, ClientOnWriteFails, ClientOnRead,
       ClientOnReadFails, Ping, OnPing, OnClose
  <2>2. cConnected' = cConnected \/ cConnected' = FALSE
    BY Zenon, <1>6 DEF ClientSend, ClientWrite, ClientOnWrite, ClientOnWriteFails, ClientOnRead,
       ClientOnReadFails, Ping, OnPing, OnClose, DisconnectByHandler
  <2> QED
    BY <2>1, <2>2
<1> QED
  BY Zenon, <1>1, <1>2, <1>3, <1>4, <1>5, <1>6 DEF ClientSocketNext, ClientHandler

\* A host that has waited for Connect's answer before it disconnects has left for good
\* (WebsocketClient.cpp:91, 303).
THEOREM WaitingHostLeaves == Spec => []WaitedLeftForGood
<1>1. Init => HostLeaves
  BY DEF Init, ClientSocketInit, HostLeaves, Pending
<1>2. ASSUME HostLeaves, UNCHANGED csVars PROVE HostLeaves'
  BY <1>2 DEF HostLeaves, csVars
<1>3. HostLeaves /\ [Next]_vars => HostLeaves'
  BY Zenon, <1>2, HostLeavesInClient DEF Next, Break, vars
<1>4. HostLeaves => WaitedLeftForGood
  BY DEF HostLeaves, WaitedLeftForGood, LeftForGood
<1> QED
  BY <1>1, <1>3, <1>4, PTL DEF Spec

(***************************************************************************)
(* The types.  Queues has those of the queues and wires; the rest are      *)
(* flags, places and futures.                                              *)
(***************************************************************************)
ClientPlaces ==
    /\ stage \in Pending \cup {"new", "open", "failed"}
    /\ cConnected \in BOOLEAN /\ cReading \in BOOLEAN /\ pinging \in BOOLEAN
    /\ mPingTimer \in {"off", "waiting", "cancelled"}
    /\ closing \in Seq({"host", "handler"})
    /\ host \in {"there", "cancelling", "clearing", "left"}
    /\ connectFuture \in Future /\ leaveFuture \in Future
    /\ told \in {"nothing", "connected", "disconnected"}
    /\ paced \in BOOLEAN /\ hasty \in BOOLEAN

ServerPlaces ==
    /\ accepting \in BOOLEAN
    /\ session \in {"none", "http", "upgrading", "open", "rejected"}
    /\ mConnected \in BOOLEAN /\ reading \in BOOLEAN

\* The handlers of the client and its host's calls keep the types of its flags.
LEMMA ClientPlacesStep ==
    ASSUME ClientPlaces, ClientSocketNext
    PROVE  ClientPlaces'
<1> USE DEF ClientPlaces, linkVars, writeVars, readVars, pingVars, leaveVars
<1>1. CASE Connect \/ Proceed
  BY <1>1 DEF Connect, Proceed, Pending, Future
<1>2. ASSUME NEW who \in {"host", "handler"}, Close(who)
      PROVE  /\ closing' \in Seq({"host", "handler"}) /\ leaveFuture' \in Future
             /\ told' \in {"nothing", "connected", "disconnected"}
  BY <1>2 DEF Close, Future
<1>3. ASSUME DisconnectByHandler
      PROVE  /\ closing' \in Seq({"host", "handler"}) /\ leaveFuture' \in Future
             /\ told' \in {"nothing", "connected", "disconnected"}
             /\ mPingTimer' \in {"off", "waiting", "cancelled"} /\ cConnected' = FALSE
  BY <1>2, <1>3 DEF DisconnectByHandler, Cancelled
<1>4. CASE ConnectFails
  BY <1>3, <1>4 DEF ConnectFails, Future
<1>5. CASE OnHandshake
  BY <1>5 DEF OnHandshake, Future
<1>6. CASE ClientSend \/ ClientWrite \/ ClientOnWrite
  <2>1. CASE ClientSend
    BY <2>1 DEF ClientSend
  <2>2. CASE ClientWrite
    BY <2>2 DEF ClientWrite
  <2>3. CASE ClientOnWrite
    BY <2>3 DEF ClientOnWrite
  <2>4. QED
    BY <1>6, <2>1, <2>2, <2>3
<1>7. CASE ClientOnWriteFails
  BY <1>3, <1>7 DEF ClientOnWriteFails
<1>8. CASE ClientOnRead \/ ClientOnReadFails
  BY <1>3, <1>8 DEF ClientOnRead, ClientOnReadFails
<1>9. CASE Ping
  BY <1>2, <1>9 DEF Ping
<1>10. CASE OnPing
  BY <1>3, <1>10 DEF OnPing
<1>11. CASE HostDisconnects
  BY <1>2, <1>11 DEF HostDisconnects
<1>12. CASE HostReturns
  BY <1>12 DEF HostReturns, HostCancelsTimer, HostClearsConnected, Cancelled
<1>13. ASSUME NEW failed \in BOOLEAN, OnClose(failed) PROVE ClientPlaces'
  <2>1. /\ leaveFuture' \in {leaveFuture, "true", "false", "broken"}
        /\ told' = "disconnected"
        /\ cConnected' \in {cConnected, FALSE} /\ mPingTimer' \in {mPingTimer, Cancelled}
        /\ UNCHANGED <<stage, writeVars, readVars, pinging, host, connectFuture>>
    BY <1>13 DEF OnClose
  <2>2. closing' \in {Tail(closing), Append(Tail(closing), "handler")} /\ closing # <<>>
    BY <1>13 DEF OnClose
  <2>3. closing' \in Seq({"host", "handler"})
    BY <2>2
  <2>4. leaveFuture' \in Future
    BY <2>1 DEF Future
  <2>5. mPingTimer' \in {"off", "waiting", "cancelled"} /\ cConnected' \in BOOLEAN
    BY <2>1 DEF Cancelled
  <2>6. UNCHANGED <<stage, cReading, pinging, host, connectFuture, paced, hasty>>
    BY <2>1
  <2>7. QED
    BY <2>1, <2>3, <2>4, <2>5, <2>6, Zenon
<1> QED
  BY Zenon, <1>1, <1>4, <1>5, <1>6, <1>7, <1>8, <1>9, <1>10, <1>11, <1>12, <1>13
  DEF ClientSocketNext, ClientHandler

\* The handlers of the session keep the types of its flags.
LEMMA ServerPlacesStep ==
    ASSUME ServerPlaces, ServerSocketNext
    PROVE  ServerPlaces'
<1> USE DEF ServerPlaces, linkVars, sessionVars
<1>1. CASE AcceptConnection \/ AcceptFails \/ HttpOnRead
  BY <1>1 DEF AcceptConnection, AcceptFails, HttpOnRead
<1>2. CASE SessionOnAcceptFails \/ SessionOnAccept
  BY <1>2 DEF SessionOnAcceptFails, SessionOnAccept
<1>3. CASE SessionSend \/ SessionWrite \/ SessionOnWrite \/ SessionOnRead
  BY <1>3 DEF SessionSend, SessionWrite, SessionOnWrite, SessionOnRead
<1>4. CASE SessionOnWriteFails \/ SessionOnReadFails
  BY <1>4 DEF SessionOnWriteFails, SessionOnReadFails, Leave
<1> QED
  BY Zenon, <1>1, <1>2, <1>3, <1>4 DEF ServerSocketNext, ServerHandler

\* Every variable of the two ends and the connection keeps its type, for any number of
\* messages (WebsocketClient.cpp, WebsocketServer.cpp).
THEOREM TypeCorrect == Spec => []TypeOK
<1>1. Init => ClientPlaces /\ ServerPlaces
  <2> SUFFICES ASSUME Init PROVE ClientPlaces /\ ServerPlaces
    OBVIOUS
  <2>1. <<>> \in Seq({"host", "handler"})
    OBVIOUS
  <2>2. ClientPlaces
    BY <2>1, Zenon DEF Init, ClientSocketInit, ClientPlaces, Future
  <2>3. ServerPlaces
    BY Zenon DEF Init, ServerSocketInit, ServerPlaces
  <2>4. QED
    BY <2>2, <2>3
<1>2. ASSUME ClientPlaces, ServerPlaces, [Next]_vars PROVE (ClientPlaces /\ ServerPlaces)'
  <2>1. ASSUME UNCHANGED csVars PROVE ClientPlaces'
    BY <1>2, <2>1 DEF ClientPlaces, csVars
  <2>2. ASSUME UNCHANGED ssVars PROVE ServerPlaces'
    BY <1>2, <2>2 DEF ServerPlaces, ssVars
  <2>3. QED
    BY Zenon, <1>2, <2>1, <2>2, ClientPlacesStep, ServerPlacesStep DEF Next, Break, vars
<1>3. ClientPlaces /\ ServerPlaces /\ Queues /\ Told /\ Alive => TypeOK
  BY DEF ClientPlaces, ServerPlaces, Queues, ClientQueues, ServerQueues, Wires, Told, Alive,
     TypeOK, LinkTypeOK, ClientSocketTypeOK, ServerSocketTypeOK
<1> QED
  BY <1>1, <1>2, <1>3, QueuesAlways, ToldAlways, InOrderAlways, PTL DEF Spec

(***************************************************************************)
(* What a paced host sends.  What the session has read, what is on the     *)
(* wire, what is in the client's queue and what is posted continue each    *)
(* other.  OnWrite writes the newest message of the queue; while there are *)
(* at most two, what is left when the oldest is gone is the newest and the *)
(* next.  The proof does not need that the host waits for the handshake:   *)
(* what is queued before it is never written, nor anything after it.       *)
(***************************************************************************)
Arrived == Len(received) + Len(toServer)

Paced ==
    /\ Len(cPosted) + Len(cWriteQueue) <= 2
    /\ cInFlight # <<>> => cInFlight = <<Head(cWriteQueue)>>
    /\ Numbered(received, 0)
    /\ departures = 0 => Numbered(toServer, Len(received))
    /\ link # "down" => /\ Numbered(cWriteQueue, Arrived)
                        /\ Numbered(cPosted, Arrived + Len(cWriteQueue))
                        /\ Arrived + Len(cWriteQueue) + Len(cPosted) = sent

\* Nothing is written or read before the handshake.
Shaken ==
    /\ cConnected \/ cInFlight # <<>> => link # "none"
    /\ reading => session = "open"
    /\ received # <<>> => session = "open"

Pace == Shaken /\ (paced => Paced)

\* The connection begins with the handshake, on either side.
LEMMA ShakenStep ==
    ASSUME Queues, Alive, Shaken, [Next]_vars
    PROVE  Shaken'
<1> USE DEF Shaken
<1>1. CASE ClientSocketNext /\ UNCHANGED ssVars
  <2>1. link' = "none" => link = "none"
    BY <1>1, ReadsInClient DEF WireInClient
  <2>2. UNCHANGED <<reading, session, received>>
    BY <1>1 DEF ssVars
  <2>3. cConnected' => cConnected \/ OnHandshake
    BY <1>1, Zenon DEF ClientSocketNext, ClientHandler, Connect, Proceed, ConnectFails,
       DisconnectByHandler, ClientSend, ClientWrite, ClientOnWrite, ClientOnWriteFails,
       ClientOnRead, ClientOnReadFails, Ping, OnPing, OnClose, HostDisconnects, HostReturns,
       HostCancelsTimer, HostClearsConnected
  <2>4. OnHandshake => link' # "none"
    BY DEF OnHandshake
  <2>5. cInFlight' # <<>> => cInFlight # <<>> \/ cConnected
    <3>1. CASE ClientWrite
      BY <3>1 DEF ClientWrite
    <3>2. CASE ClientOnWrite \/ ClientOnWriteFails
      BY <3>2 DEF ClientOnWrite, ClientOnWriteFails
    <3>3. ASSUME ~ClientWrite, ~ClientOnWrite, ~ClientOnWriteFails
          PROVE  cInFlight' = cInFlight
      BY <1>1, <3>3, Zenon DEF ClientSocketNext, ClientHandler, Connect, Proceed, ConnectFails,
         OnHandshake, ClientSend, ClientOnRead, ClientOnReadFails, Ping, OnPing, OnClose,
         HostDisconnects, HostReturns, HostCancelsTimer, HostClearsConnected, writeVars
    <3>4. QED
      BY <3>1, <3>2, <3>3
  <2>6. QED
    BY <2>1, <2>2, <2>3, <2>4, <2>5
<1>2. CASE ServerSocketNext /\ UNCHANGED csVars
  <2>1. link' = "none" => link = "none"
    BY <1>2, WiresInServer
  <2>2. UNCHANGED <<cConnected, cInFlight>>
    BY <1>2 DEF csVars
  <2>3. /\ reading' => reading \/ session' = "open"
        /\ received' # <<>> => received # <<>> \/ reading
        /\ session = "open" => session' = "open"
    <3> USE DEF sessionVars
    <3>1. CASE AcceptConnection \/ AcceptFails \/ HttpOnRead
      BY <3>1 DEF AcceptConnection, AcceptFails, HttpOnRead
    <3>2. CASE SessionOnAcceptFails \/ SessionOnAccept
      BY <3>2 DEF SessionOnAcceptFails, SessionOnAccept
    <3>3. CASE SessionSend \/ SessionWrite \/ SessionOnWrite \/ SessionOnWriteFails
      BY <3>3 DEF SessionSend, SessionWrite, SessionOnWrite, SessionOnWriteFails
    <3>4. CASE SessionOnRead \/ SessionOnReadFails
      BY <3>4 DEF SessionOnRead, SessionOnReadFails
    <3>5. QED
      BY <1>2, <3>1, <3>2, <3>3, <3>4 DEF ServerSocketNext, ServerHandler
  <2>4. QED
    BY <2>1, <2>2, <2>3
<1>3. CASE Break \/ UNCHANGED vars
  BY <1>3 DEF Break, vars, linkVars, csVars, ssVars
<1> QED
  BY <1>1, <1>2, <1>3 DEF Next

\* What Paced reads.
LEMMA PacedAlone ==
    ASSUME Pace, UNCHANGED <<cPosted, cWriteQueue, cInFlight, received, toServer, departures,
                             sent, paced>>,
           link' = link \/ link' = "down" \/ (link = "none" /\ link' = "up")
    PROVE  paced' => Paced'
BY DEF Pace, Paced, Arrived

\* A message is posted (WebsocketClient.cpp:121).
LEMMA PacedSend ==
    ASSUME Queues, Pace, ClientSend, UNCHANGED ssVars
    PROVE  paced' => Paced'
<1> SUFFICES ASSUME paced' PROVE Paced'
  OBVIOUS
<1>1. /\ cPosted \in Seq(Message) /\ cWriteQueue \in Seq(Message) /\ sent \in Nat
      /\ received \in Seq(Message) /\ toServer \in Seq(Message)
  BY DEF Queues, ClientQueues, Wires
<1>2. /\ Paced /\ Len(cPosted) + Len(cWriteQueue) < 2
      /\ sent' = sent + 1 /\ cPosted' = Append(cPosted, sent + 1)
      /\ UNCHANGED <<link, toServer, cWriteQueue, cInFlight, received, departures>>
  BY DEF ClientSend, Pace, linkVars, ssVars
<1>3. Len(cPosted') = Len(cPosted) + 1 /\ Len(cPosted') + Len(cWriteQueue) <= 2
  BY <1>1, <1>2
<1>4. Arrived' = Arrived /\ Arrived \in Nat
  BY <1>1, <1>2 DEF Arrived
<1>5. ASSUME link # "down"
      PROVE  /\ Numbered(cPosted', Arrived + Len(cWriteQueue))
             /\ Arrived + Len(cWriteQueue) + Len(cPosted') = sent'
  <2>1. /\ Numbered(cPosted, Arrived + Len(cWriteQueue))
        /\ sent + 1 = (Arrived + Len(cWriteQueue)) + Len(cPosted) + 1
    BY <1>1, <1>2, <1>4, <1>5 DEF Paced
  <2>2. Arrived + Len(cWriteQueue) \in Nat /\ sent + 1 \in Message
    BY <1>1, <1>4 DEF Message
  <2>3. Numbered(Append(cPosted, sent + 1), Arrived + Len(cWriteQueue))
    BY <1>1, <2>1, <2>2, NumberedAppend
  <2>4. QED
    BY <1>1, <1>2, <1>3, <1>4, <2>1, <2>3
<1> QED
  BY <1>2, <1>3, <1>4, <1>5 DEF Paced

\* The oldest posted message becomes the newest of the queue, and is written if it is the
\* only one (WebsocketClient.cpp:139).
LEMMA PacedWrite ==
    ASSUME Queues, Pace, ClientWrite, UNCHANGED ssVars
    PROVE  paced' => Paced'
<1> SUFFICES ASSUME paced' PROVE Paced'
  OBVIOUS
<1>1. /\ cPosted \in Seq(Message) /\ cWriteQueue \in Seq(Message) /\ sent \in Nat
      /\ received \in Seq(Message) /\ toServer \in Seq(Message) /\ cInFlight \in Seq(Message)
      /\ cInFlight # <<>> => cWriteQueue # <<>>
  BY DEF Queues, ClientQueues, Wires, IsIn
<1> DEFINE m == Head(cPosted)
<1>2. /\ Paced /\ cPosted # <<>>
      /\ cPosted' = Tail(cPosted) /\ cWriteQueue' = Append(cWriteQueue, m)
      /\ cInFlight' = IF ~cConnected \/ Len(cWriteQueue') > 1
                      THEN cInFlight ELSE Append(cInFlight, m)
      /\ UNCHANGED <<link, toServer, received, departures, sent>>
  BY DEF ClientWrite, Pace, linkVars, ssVars
<1>3. m \in Message
  BY <1>1, <1>2, IsInEnds
<1> HIDE DEF m
<1>4. Len(cPosted') = Len(cPosted) - 1 /\ Len(cWriteQueue') = Len(cWriteQueue) + 1
  BY <1>1, <1>2, <1>3
<1>5. Arrived' = Arrived /\ Arrived \in Nat
  BY <1>1, <1>2 DEF Arrived
<1>6. ASSUME link # "down"
      PROVE  /\ Numbered(cWriteQueue', Arrived)
             /\ Numbered(cPosted', Arrived + Len(cWriteQueue'))
             /\ Arrived + Len(cWriteQueue') + Len(cPosted') = sent
  <2>1. /\ Numbered(cWriteQueue, Arrived) /\ Numbered(cPosted, Arrived + Len(cWriteQueue))
        /\ Arrived + Len(cWriteQueue) + Len(cPosted) = sent
        /\ Arrived + Len(cWriteQueue) \in Nat
    BY <1>1, <1>2, <1>5, <1>6 DEF Paced
  <2>2. m = Arrived + Len(cWriteQueue) + 1 /\ Numbered(cPosted', Arrived + Len(cWriteQueue) + 1)
    BY <1>1, <1>2, <2>1, NumberedTail DEF m
  <2>3. Numbered(cWriteQueue', Arrived)
    BY <1>1, <1>2, <1>3, <1>5, <2>1, <2>2, NumberedAppend
  <2>4. Arrived + Len(cWriteQueue') = Arrived + Len(cWriteQueue) + 1
    BY <1>1, <1>4, <1>5
  <2>5. Arrived + Len(cWriteQueue') + Len(cPosted') = sent
    <3>1. Len(cWriteQueue) \in Nat /\ Len(cPosted) \in Nat
      BY <1>1
    <3>2. QED
      BY <3>1, <1>4, <1>5, <2>1
  <2>6. QED
    BY <2>2, <2>3, <2>4, <2>5
<1>7. ASSUME cInFlight' # <<>> PROVE cInFlight' = <<Head(cWriteQueue')>>
  <2>1. CASE cInFlight # <<>>
    <3>1. Head(cWriteQueue') = Head(cWriteQueue) /\ Len(cWriteQueue') > 1
      BY <1>1, <1>2, <1>3, <2>1, IsInAppend
    <3>2. QED
      BY <1>2, <2>1, <3>1 DEF Paced
  <2>2. CASE cInFlight = <<>>
    <3>1. cInFlight' = <<m>> /\ ~(Len(cWriteQueue') > 1)
      <4>1. Append(<<>>, m) = <<m>>
        BY <1>3, One
      <4>2. QED
        BY <1>2, <1>7, <2>2, <4>1, Zenon
    <3>2. cWriteQueue = <<>>
      <4>1. \A q \in Seq(Message) : Len(q) \in Nat /\ (Len(q) = 0 => q = <<>>)
        OBVIOUS
      <4>2. Len(cWriteQueue) \in Nat /\ Len(cWriteQueue) = 0
        BY <1>1, <1>4, <3>1, <4>1
      <4>3. QED
        BY <1>1, <4>1, <4>2
    <3>3. Head(Append(cWriteQueue, m)) = m
      BY <1>1, <1>3, <3>2, IsInAppend
    <3>4. QED
      BY <1>2, <3>1, <3>3, Zenon
  <2>3. QED
    BY <2>1, <2>2
<1>8. Len(cPosted') + Len(cWriteQueue') <= 2
  BY <1>1, <1>2, <1>4 DEF Paced
<1> QED
  BY <1>2, <1>5, <1>6, <1>7, <1>8 DEF Paced

\* The oldest message is on the wire, and the newest is the only one left to be the next
\* (WebsocketClient.cpp:331).
LEMMA PacedOnWrite ==
    ASSUME Queues, Alive, Pace, ClientOnWrite, UNCHANGED ssVars
    PROVE  paced' => Paced'
<1> SUFFICES ASSUME paced' PROVE Paced'
  OBVIOUS
<1> DEFINE m == Head(cWriteQueue)
<1>1. /\ cPosted \in Seq(Message) /\ cWriteQueue \in Seq(Message) /\ sent \in Nat
      /\ received \in Seq(Message) /\ toServer \in Seq(Message)
      /\ cInFlight # <<>> => cWriteQueue # <<>>
  BY DEF Queues, ClientQueues, Wires, IsIn
<1>2. /\ Paced /\ cInFlight = <<m>> /\ cWriteQueue # <<>> /\ link # "none"
      /\ UNCHANGED <<cPosted, link, received, departures, sent>>
      /\ cWriteQueue' = Tail(cWriteQueue)
      /\ cInFlight' = IF cWriteQueue' = <<>> THEN <<>> ELSE <<cWriteQueue'[Len(cWriteQueue')]>>
  BY <1>1 DEF ClientOnWrite, Pace, Shaken, Paced, ssVars
<1>3. m \in Message /\ cWriteQueue' \in Seq(Message)
  BY <1>1, <1>2, IsInEnds
<1>4. toServer' = Put(toServer, m)
  BY <1>2, <1>3, One DEF ClientOnWrite
<1>5. Len(cWriteQueue') = Len(cWriteQueue) - 1 /\ Len(cWriteQueue') <= 1
      /\ Len(cPosted) + Len(cWriteQueue') <= 2
  BY <1>1, <1>2 DEF Paced
<1> HIDE DEF m
<1>6. cInFlight' # <<>> => cInFlight' = <<Head(cWriteQueue')>>
  BY <1>2, <1>3, <1>5
<1>7. CASE link = "down"
  <2>1. toServer' = toServer
    BY <1>4, <1>7 DEF Put
  <2>2. QED
    BY <1>2, <1>5, <1>6, <1>7, <2>1 DEF Paced
<1>8. CASE link # "down"
  <2>1. toServer' = Append(toServer, m)
    BY <1>2, <1>4, <1>8 DEF Put, Alive
  <2>2. /\ Numbered(cWriteQueue, Arrived) /\ Numbered(cPosted, Arrived + Len(cWriteQueue))
        /\ Arrived + Len(cWriteQueue) + Len(cPosted) = sent
        /\ Arrived \in Nat
    BY <1>1, <1>2, <1>8 DEF Paced, Arrived
  <2>3. m = Arrived + 1 /\ Numbered(cWriteQueue', Arrived + 1)
    BY <1>1, <1>2, <2>2, NumberedTail DEF m
  <2>4. Len(toServer') = Len(toServer) + 1 /\ Arrived' = Arrived + 1
    BY <1>1, <1>2, <1>3, <2>1 DEF Arrived
  <2>5. departures = 0 => Numbered(toServer', Len(received))
    <3>1. m = Len(received) + Len(toServer) + 1 /\ Len(received) \in Nat
      BY <1>1, <2>3 DEF Arrived
    <3>2. ASSUME departures = 0 PROVE Numbered(toServer, Len(received))
      BY <1>2, <3>2 DEF Paced
    <3>3. QED
      BY <1>1, <1>3, <2>1, <3>1, <3>2, NumberedAppend
  <2>6. Arrived' + Len(cWriteQueue') = Arrived + Len(cWriteQueue)
    BY <1>1, <1>5, <2>2, <2>4
  <2>7. QED
    BY <1>2, <1>5, <1>6, <2>2, <2>3, <2>4, <2>5, <2>6 DEF Paced
<1> QED
  BY <1>7, <1>8

\* The session reads the next message, and drops it when it has left
\* (WebsocketServer.cpp:306).
LEMMA PacedOnRead ==
    ASSUME Queues, Told, Alive, Pace, SessionOnRead, UNCHANGED csVars
    PROVE  paced' => Paced'
<1> SUFFICES ASSUME paced' PROVE Paced'
  OBVIOUS
<1> DEFINE m == Head(toServer)
<1>1. /\ cPosted \in Seq(Message) /\ cWriteQueue \in Seq(Message) /\ sent \in Nat
      /\ received \in Seq(Message) /\ toServer \in Seq(Message)
  BY DEF Queues, ClientQueues, Wires
<1>2. /\ Paced /\ toServer # <<>> /\ toServer' = Tail(toServer) /\ reading
      /\ received' = IF mConnected THEN Append(received, m) ELSE received
      /\ UNCHANGED <<cPosted, cWriteQueue, cInFlight, link, departures, sent>>
  BY DEF SessionOnRead, Pace, csVars
<1>3. m \in Message
  BY <1>1, <1>2, IsInEnds
<1>4. CASE mConnected
  <2>1. departures = 0
    BY <1>4 DEF Told
  <2>2. /\ m = Len(received) + 1 /\ Numbered(toServer', Len(received) + 1)
        /\ Len(toServer') = Len(toServer) - 1
    BY <1>1, <1>2, <2>1, NumberedTail DEF Paced
  <2> HIDE DEF m
  <2>3. Numbered(received, 0) /\ m = 0 + Len(received) + 1
    BY <1>1, <1>2, <2>2 DEF Paced
  <2>4. received' = Append(received, m)
    BY <1>2, <1>4
  <2>5. Numbered(received', 0) /\ Len(received') = Len(received) + 1
    BY <1>1, <1>3, <2>3, <2>4, NumberedAppend
  <2>6. Arrived' = Arrived
    BY <1>1, <2>2, <2>5 DEF Arrived
  <2>7. QED
    BY <1>2, <2>2, <2>5, <2>6 DEF Paced
<1>5. CASE ~mConnected
  <2>1. departures = 1 /\ link = "down"
    BY <1>2, <1>5 DEF Told, Alive, Pace, Shaken
  <2>2. QED
    BY <1>2, <1>5, <2>1 DEF Paced
<1> QED
  BY <1>4, <1>5

\* What the other handlers leave alone.
LEMMA PaceOthers ==
    ASSUME Queues, Told, Pace,
           \/ /\ ClientSocketNext /\ UNCHANGED ssVars
              /\ ~ClientSend /\ ~ClientWrite /\ ~ClientOnWrite
           \/ ServerSocketNext /\ UNCHANGED csVars /\ ~SessionOnRead
           \/ Break \/ UNCHANGED vars
    PROVE  paced' => Paced'
<1>1. CASE Break \/ UNCHANGED vars
  BY <1>1, PacedAlone DEF Break, vars, linkVars, csVars, ssVars
<1>2. CASE /\ ClientSocketNext /\ UNCHANGED ssVars
           /\ ~ClientSend /\ ~ClientWrite /\ ~ClientOnWrite
  <2>1. link' = link \/ link' = "down" \/ (link = "none" /\ link' = "up")
    BY <1>2, ReadsInClient DEF WireInClient
  <2>2. UNCHANGED <<received, departures>>
    BY <1>2 DEF ssVars
  <2>3. CASE ClientOnWriteFails
    <3>1. UNCHANGED <<cPosted, cWriteQueue, toServer, sent, paced, link>> /\ link = "down"
      BY <2>3 DEF ClientOnWriteFails, linkVars
    <3>2. cInFlight' = <<>>
      BY <2>3, IsInEnds, One DEF ClientOnWriteFails, Queues, ClientQueues
    <3>3. QED
      BY <2>2, <3>1, <3>2 DEF Pace, Paced
  <2>4. CASE ~ClientOnWriteFails
    <3>1. UNCHANGED <<cPosted, cWriteQueue, cInFlight, toServer, sent, paced>>
      BY <1>2, <2>4, Zenon DEF ClientSocketNext, ClientHandler, Connect, Proceed, ConnectFails,
         OnHandshake, ClientOnRead, ClientOnReadFails, Ping, OnPing, OnClose,
         HostDisconnects, HostReturns, HostCancelsTimer, HostClearsConnected, writeVars, linkVars
    <3>2. QED
      BY <2>1, <2>2, <3>1, PacedAlone
  <2>5. QED
    BY <2>3, <2>4
<1>3. CASE ServerSocketNext /\ UNCHANGED csVars /\ ~SessionOnRead
  <2>1. link' = link \/ (link = "none" /\ link' = "up")
    BY <1>3, WiresInServer
  <2>2. UNCHANGED <<cPosted, cWriteQueue, cInFlight, sent, paced>>
    BY <1>3 DEF csVars
  <2>3. UNCHANGED <<received, toServer>>
    BY <1>3, Zenon DEF ServerSocketNext, ServerHandler, AcceptConnection, AcceptFails, HttpOnRead,
       SessionOnAcceptFails, SessionOnAccept, SessionSend, SessionWrite, SessionOnWrite,
       SessionOnWriteFails, SessionOnReadFails, linkVars, sessionVars
  <2>4. departures' = departures \/ departures' = departures + 1
    BY <1>3, Zenon DEF ServerSocketNext, ServerHandler, AcceptConnection, AcceptFails, HttpOnRead,
       SessionOnAcceptFails, SessionOnAccept, SessionSend, SessionWrite, SessionOnWrite,
       SessionOnWriteFails, SessionOnReadFails, Leave, sessionVars
  <2>5. departures' = 0 => departures = 0
    BY <2>4 DEF Told
  <2>6. QED
    BY <2>1, <2>2, <2>3, <2>5 DEF Pace, Paced, Arrived
<1> QED
  BY <1>1, <1>2, <1>3

\* As long as its host has at most two messages waiting, the server gets a client's
\* messages in order, none skipped and none twice (WebsocketClient.cpp:351).
THEOREM PacedHostInOrder == Spec => []PacedInOrder
<1>1. Init => Pace
  <2> SUFFICES ASSUME Init PROVE Pace
    OBVIOUS
  <2>1. /\ cPosted = <<>> /\ cWriteQueue = <<>> /\ cInFlight = <<>> /\ sent = 0
        /\ received = <<>> /\ toServer = <<>> /\ cConnected = FALSE /\ reading = FALSE
    BY Zenon DEF Init, LinkInit, ClientSocketInit, ServerSocketInit
  <2>2. QED
    BY <2>1 DEF Pace, Shaken, Paced, Arrived, Numbered
<1>2. ASSUME Queues, Told, Alive, Pace, [Next]_vars PROVE Pace'
  <2>1. Shaken'
    BY <1>2, ShakenStep DEF Pace
  <2>2. paced' => Paced'
    BY Zenon, <1>2, PacedSend, PacedWrite, PacedOnWrite, PacedOnRead, PaceOthers DEF Next
  <2>3. QED
    BY <2>1, <2>2 DEF Pace
<1>3. Pace /\ Told => PacedInOrder
  BY DEF Pace, Paced, Told, PacedInOrder, Numbered
<1> QED
  BY <1>1, <1>2, <1>3, QueuesAlways, ToldAlways, InOrderAlways, PTL DEF Spec
=============================================================================
