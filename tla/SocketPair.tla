------------------------------ MODULE SocketPair ------------------------------
(***************************************************************************)
(* A websocket client and the server session it connects to.  The client's *)
(* handshake ends when the server has written its answer, which it does    *)
(* while the session is upgrading.  The connection may break at any time.  *)
(***************************************************************************)
EXTENDS ClientSocket, ServerSocket

CONSTANT MaxTraffic    \* bound: messages sent, both ways together

vars == <<linkVars, csVars, ssVars>>

Init == LinkInit /\ ClientSocketInit /\ ServerSocketInit

\* A handshake is answered by a session that is upgrading, and then it has been.
Handshake ==
    /\ stage' = "open" /\ stage # "open" => session \in {"upgrading", "open"}
    /\ session = "upgrading" /\ session' = "rejected" => stage # "open"

Break ==
    /\ link = "up"
    /\ link' = "down"
    /\ UNCHANGED <<toServer, toClient, csVars, ssVars>>

Next ==
    \/ ClientSocketNext /\ UNCHANGED ssVars /\ Handshake /\ sent' + replies <= MaxTraffic
    \/ ServerSocketNext /\ UNCHANGED csVars /\ Handshake /\ sent + replies' <= MaxTraffic
    \/ Break

\* The io_contexts run what has completed; a Disconnect that was called goes on.  Nothing
\* makes the host send or leave, or the connection break.
Fairness ==
    /\ WF_vars(ClientHandler /\ UNCHANGED ssVars /\ Handshake)
    /\ WF_vars(ServerHandler /\ UNCHANGED csVars /\ Handshake)
    /\ WF_vars(HostReturns /\ UNCHANGED ssVars)

Spec == Init /\ [][Next]_vars /\ Fairness

TypeOK == LinkTypeOK /\ ClientSocketTypeOK /\ ServerSocketTypeOK

-----------------------------------------------------------------------------
IsIn(queue, m) == \E i \in 1..Len(queue) : queue[i] = m

\* An async_write is given a buffer it does not own and the stream takes one write at a
\* time (WebsocketClient.cpp:157, WebsocketServer.cpp:249): a write never starts under
\* another, and its message stays in the queue until it has completed, whatever order
\* messages, errors and disconnects come in, on both ends.
BuffersOwned ==
    /\ Len(cInFlight) <= 1 /\ Len(inFlight) <= 1
    /\ \A i \in 1..Len(cInFlight) : IsIn(cWriteQueue, cInFlight[i])
    /\ \A i \in 1..Len(inFlight) : IsIn(mWriteQueue, inFlight[i])

\* As long as the client's host sends nothing before it is connected and has at most two
\* messages waiting, the server gets its messages in order, none skipped and none
\* twice.  (With a third one waiting OnWrite, WebsocketClient.cpp:351, sends one twice
\* and another never.)
PacedInOrder ==
    paced => /\ \A i \in 1..Len(received) : received[i] = i
             /\ mConnected => \A i \in 1..Len(toServer) : toServer[i] = Len(received) + i

\* The session delivers Logic's messages in order, none skipped, none twice: it is an
\* ordered channel from Logic to the client's reads.
Channel == INSTANCE OrderedChannel WITH sent <- replies, got <- got
ImplementsChannel == Channel!Spec

\* Logic is told once that a session came and at most once that it left, although its
\* read and its write may both fail, in either order (WebsocketServer.cpp:342).
LogicToldOnce ==
    /\ departures <= arrivals /\ arrivals <= 1
    /\ mConnected <=> departures < arrivals

\* Neither logic is given a message before it was told of the connection or after it
\* was told of its end, by whichever handler.
MessagesBetween ==
    [][/\ received' # received => arrivals = 1 /\ departures = 0
       /\ got' # got /\ cConnected => told = "connected"]_vars

\* The host has left for good: no handler still to run connects the client again.  Kit.h:38
\* says of LiveSessionDisconnect that it "Disconnects from remote live server".
LeftForGood == host = "left" => ~cConnected

\* It holds for a host that has waited for Connect's answer, as Workspace does.
WaitedLeftForGood == ~hasty => LeftForGood

\* A host that has waited and leaves ends the connection, and Logic is told of the end
\* of every session it was told of, whoever ends it.
LeavingCloses == host = "left" /\ ~hasty /\ link = "up" ~> link = "down"
ServerNotices == arrivals = 1 /\ link = "down" ~> departures = 1
=============================================================================
