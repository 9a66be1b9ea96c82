----------------------------- MODULE ServerSocket -----------------------------
(***************************************************************************)
(* src/Sources/Networking/WebsocketServer.cpp: the accept loop, the        *)
(* HttpSession a connection starts as, and the WebsocketSession it is      *)
(* upgraded to.  Every handler of a session runs on the session's strand,  *)
(* so that each is one step.  Logic sends from other strands, which is why *)
(* Send only posts; Write takes what was posted.                           *)
(***************************************************************************)
EXTENDS SocketLink

CONSTANT MaxReplies    \* bound: messages Logic sends on the session

VARIABLES
    accepting,      \* an async_accept is pending
    session,        \* "none", "http", "upgrading", "open", "rejected"
    mConnected,
    mWriteQueue,
    posted,         \* messages whose Write is posted to the strand
    inFlight,       \* buffers of the async_writes not completed yet
    reading,        \* an async_read is pending
    replies,        \* not in the code: how many messages Logic has sent
    received,       \* not in the code: the messages given to Logic.OnMessage
    arrivals,       \* not in the code: calls of Logic.OnConnected
    departures      \* not in the code: calls of Logic.OnDisconnected

ssVars == <<accepting, session, mConnected, mWriteQueue, posted, inFlight,
            reading, replies, received, arrivals, departures>>

ServerSocketTypeOK ==
    /\ accepting \in BOOLEAN
    /\ session \in {"none", "http", "upgrading", "open", "rejected"}
    /\ mConnected \in BOOLEAN
    /\ mWriteQueue \in Seq(Message)
    /\ posted \in Seq(Message)
    /\ inFlight \in Seq(Message)
    /\ reading \in BOOLEAN
    /\ replies \in Nat
    /\ received \in Seq(Message)
    /\ arrivals \in Nat
    /\ departures \in Nat

\* WebsocketServer::Run has called Accept.
ServerSocketInit ==
    /\ accepting = TRUE
    /\ session = "none"
    /\ mConnected = FALSE
    /\ mWriteQueue = <<>>
    /\ posted = <<>>
    /\ inFlight = <<>>
    /\ reading = FALSE
    /\ replies = 0
    /\ received = <<>>
    /\ arrivals = 0
    /\ departures = 0

sessionVars == <<mConnected, mWriteQueue, posted, inFlight, reading, replies,
                 received, arrivals, departures>>

\* WebsocketServer::OnAccept: an error ends the accept loop; for the one session of this
\* module that makes a difference before it is accepted only.
AcceptConnection ==
    /\ accepting
    /\ session = "none"
    /\ session' = "http"
    /\ UNCHANGED <<accepting, sessionVars, linkVars>>

AcceptFails ==
    /\ accepting
    /\ session = "none"
    /\ accepting' = FALSE
    /\ UNCHANGED <<session, sessionVars, linkVars>>

\* HttpSession::OnRead: an upgrade request makes a WebsocketSession, anything else,
\* an error included, ends the connection.
HttpOnRead ==
    /\ session = "http"
    /\ session' \in {"upgrading", "rejected"}
    /\ UNCHANGED <<accepting, sessionVars, linkVars>>

\* WebsocketSession::OnAccept.
SessionOnAcceptFails ==
    /\ session = "upgrading"
    /\ session' = "rejected"
    /\ mConnected' = FALSE
    /\ UNCHANGED <<accepting, mWriteQueue, posted, inFlight, reading, replies,
                   received, arrivals, departures, linkVars>>

SessionOnAccept ==
    /\ session = "upgrading"
    /\ session' = "open"
    /\ mConnected' = TRUE
    /\ arrivals' = arrivals + 1
    /\ reading' = TRUE
    /\ link' = IF link = "none" THEN "up" ELSE link
    /\ UNCHANGED <<accepting, mWriteQueue, posted, inFlight, replies, received,
                   departures, toServer, toClient>>

-----------------------------------------------------------------------------
\* Mutant: counted after the message is posted.
SessionSendFromZero ==
    /\ arrivals > departures
    /\ replies < MaxReplies
    /\ replies' = replies + 1
    /\ posted' = Append(posted, replies)
    /\ UNCHANGED <<accepting, session, mConnected, mWriteQueue, inFlight, reading,
                   received, arrivals, departures, linkVars>>

\* WebsocketSession::Send, called by Logic for a session it holds.
SessionSend ==
    /\ arrivals > departures
    /\ replies < MaxReplies
    /\ replies' = replies + 1
    /\ posted' = Append(posted, replies')
    /\ UNCHANGED <<accepting, session, mConnected, mWriteQueue, inFlight, reading,
                   received, arrivals, departures, linkVars>>

\* WebsocketSession::Write: the newest message is the only one if it is written now.
SessionWrite ==
    /\ posted # <<>>
    /\ posted' = Tail(posted)
    /\ mWriteQueue' = Append(mWriteQueue, Head(posted))
    /\ inFlight' = IF Len(mWriteQueue') > 1 THEN inFlight ELSE Append(inFlight, Head(posted))
    /\ UNCHANGED <<accepting, session, mConnected, reading, replies, received,
                   arrivals, departures, linkVars>>

\* What OnRead and OnWrite do with an error.
Leave ==
    /\ mConnected' = FALSE
    /\ departures' = departures + 1

\* Mutant: the newest message is written next, as WebsocketClient::OnWrite does.
SessionOnWriteNewest ==
    /\ inFlight # <<>>
    /\ toClient' = Put(toClient, Head(inFlight))
    /\ IF ~mConnected
       THEN inFlight' = Tail(inFlight) /\ UNCHANGED mWriteQueue
       ELSE /\ mWriteQueue' = Tail(mWriteQueue)
            /\ inFlight' = IF mWriteQueue' = <<>> THEN <<>>
                           ELSE <<mWriteQueue'[Len(mWriteQueue')]>>
    /\ UNCHANGED <<accepting, session, mConnected, posted, reading, replies, received,
                   arrivals, departures, link, toServer>>

\* WebsocketSession::OnWrite.
SessionOnWrite ==
    /\ inFlight # <<>>
    /\ toClient' = Put(toClient, Head(inFlight))
    /\ IF ~mConnected
       THEN inFlight' = Tail(inFlight) /\ UNCHANGED mWriteQueue
       ELSE /\ mWriteQueue' = Tail(mWriteQueue)
            /\ inFlight' = IF mWriteQueue' = <<>> THEN <<>> ELSE <<Head(mWriteQueue')>>
    /\ UNCHANGED <<accepting, session, mConnected, posted, reading, replies, received,
                   arrivals, departures, link, toServer>>

\* Mutant: OnWrite does not look whether OnRead was first.
SessionOnWriteFailsAnyway ==
    /\ inFlight # <<>>
    /\ link = "down"
    /\ inFlight' = Tail(inFlight)
    /\ Leave
    /\ UNCHANGED <<accepting, session, mWriteQueue, posted, reading, replies, received,
                   arrivals, linkVars>>

SessionOnWriteFails ==
    /\ inFlight # <<>>
    /\ link = "down"
    /\ inFlight' = Tail(inFlight)
    /\ IF mConnected THEN Leave ELSE UNCHANGED <<mConnected, departures>>
    /\ UNCHANGED <<accepting, session, mWriteQueue, posted, reading, replies, received,
                   arrivals, linkVars>>

\* Mutant: OnRead does not look whether OnWrite was first.
SessionOnReadAnyway ==
    /\ reading
    /\ toServer # <<>>
    /\ toServer' = Tail(toServer)
    /\ received' = Append(received, Head(toServer))
    /\ UNCHANGED <<accepting, session, mConnected, mWriteQueue, posted, inFlight, reading,
                   replies, arrivals, departures, link, toClient>>

\* WebsocketSession::OnRead and the Read it calls.
SessionOnRead ==
    /\ reading
    /\ toServer # <<>>
    /\ toServer' = Tail(toServer)
    /\ IF mConnected
       THEN received' = Append(received, Head(toServer)) /\ UNCHANGED reading
       ELSE reading' = FALSE /\ UNCHANGED received
    /\ UNCHANGED <<accepting, session, mConnected, mWriteQueue, posted, inFlight, replies,
                   arrivals, departures, link, toClient>>

\* Mutant: an error is only reported, and nothing is read again.
SessionOnReadFailsSilently ==
    /\ reading
    /\ link = "down"
    /\ reading' = FALSE
    /\ UNCHANGED <<accepting, session, mConnected, mWriteQueue, posted, inFlight, replies,
                   received, arrivals, departures, linkVars>>

SessionOnReadFails ==
    /\ reading
    /\ link = "down"
    /\ reading' = FALSE
    /\ IF mConnected THEN Leave ELSE UNCHANGED <<mConnected, departures>>
    /\ UNCHANGED <<accepting, session, mWriteQueue, posted, inFlight, replies, received,
                   arrivals, linkVars>>

\* The handlers the io_context runs once their operation has completed.
ServerHandler ==
    \/ AcceptConnection \/ HttpOnRead \/ SessionOnAccept \/ SessionWrite
    \/ SessionOnWrite \/ SessionOnWriteFails \/ SessionOnRead \/ SessionOnReadFails

ServerSocketNext == ServerHandler \/ AcceptFails \/ SessionOnAcceptFails \/ SessionSend
=============================================================================
