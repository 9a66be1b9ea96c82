----------------------------- MODULE ClientSocket -----------------------------
(***************************************************************************)
(* src/Sources/Networking/WebsocketClient.cpp: one WebsocketClient, used   *)
(* for one connection.  Its handlers run one at a time on the thread       *)
(* Connect starts.  The host's Connect and Send only start or post         *)
(* something, but its Disconnect works on the members of the client from   *)
(* the host's thread: three steps, with handlers in between.               *)
(***************************************************************************)
EXTENDS SocketLink

CONSTANT MaxSent    \* bound: messages the host sends

VARIABLES
    stage,          \* the operation of connecting that is pending, or how it ended
    cConnected,     \* mConnected
    cWriteQueue,    \* mWriteQueue
    cPosted,        \* messages whose Write is posted to the strand
    cInFlight,      \* buffers of the async_writes not completed yet
    cReading,       \* an async_read is pending
    pinging,        \* an async_ping is pending
    mPingTimer,     \* "off", "waiting", "cancelled": its wait will be told so
    closing,        \* the async_closes pending: "host" or "handler" called Disconnect
    host,           \* where the host is in Disconnect; "left" when it has returned
    connectFuture,  \* what Connect has returned a future of
    leaveFuture,    \* what the host's Disconnect has returned a future of
    told,           \* the last of mLogic.OnConnected and OnDisconnected
    sent,           \* not in the code: how many messages the host has sent
    got,            \* not in the code: the messages read from the wire
    paced,          \* not in the code: see ClientSend
    hasty           \* not in the code: the host disconnected before Connect was answered

csVars == <<stage, cConnected, cWriteQueue, cPosted, cInFlight, cReading, pinging,
            mPingTimer, closing, host, connectFuture, leaveFuture, told, sent, got, paced,
            hasty>>

Pending == {"resolving", "connecting", "securing", "shaking"}
Future == {"none", "pending", "true", "false", "broken"}

ClientSocketTypeOK ==
    /\ stage \in Pending \cup {"new", "open", "failed"}
    /\ cConnected \in BOOLEAN
    /\ cWriteQueue \in Seq(Message) /\ cPosted \in Seq(Message)
    /\ cInFlight \in Seq(Message)
    /\ cReading \in BOOLEAN /\ pinging \in BOOLEAN
    /\ mPingTimer \in {"off", "waiting", "cancelled"}
    /\ closing \in Seq({"host", "handler"})
    /\ host \in {"there", "cancelling", "clearing", "left"}
    /\ connectFuture \in Future /\ leaveFuture \in Future
    /\ told \in {"nothing", "connected", "disconnected"}
    /\ sent \in Nat /\ got \in Seq(Message) /\ paced \in BOOLEAN /\ hasty \in BOOLEAN

ClientSocketInit ==
    /\ stage = "new"
    /\ cConnected = FALSE
    /\ cWriteQueue = <<>> /\ cPosted = <<>> /\ cInFlight = <<>>
    /\ cReading = FALSE /\ pinging = FALSE /\ mPingTimer = "off"
    /\ closing = <<>>
    /\ host = "there" /\ connectFuture = "none" /\ leaveFuture = "none"
    /\ told = "nothing"
    /\ sent = 0 /\ got = <<>> /\ paced = TRUE /\ hasty = FALSE

writeVars == <<cWriteQueue, cPosted, cInFlight, sent, paced, hasty>>
readVars == <<cReading, got>>
pingVars == <<pinging, mPingTimer>>
leaveVars == <<closing, told, leaveFuture>>

Cancelled == IF mPingTimer = "waiting" THEN "cancelled" ELSE mPingTimer

-----------------------------------------------------------------------------
\* Mutant: mConnected is cleared before it is looked at.
CloseNothing(who) ==
    /\ told' = "disconnected"
    /\ leaveFuture' = IF who = "host" THEN "true" ELSE leaveFuture
    /\ UNCHANGED closing

\* Disconnect, up to the place where the timer is cancelled.
Close(who) ==
    IF cConnected
    THEN /\ closing' = Append(closing, who)
         /\ leaveFuture' = IF who = "host" THEN "pending" ELSE leaveFuture
         /\ UNCHANGED told
    ELSE /\ told' = "disconnected"
         /\ leaveFuture' = IF who = "host" THEN "true" ELSE leaveFuture
         /\ UNCHANGED closing

\* Disconnect called by a handler, on the network thread, in one go.
DisconnectByHandler ==
    /\ Close("handler")
    /\ mPingTimer' = Cancelled
    /\ cConnected' = FALSE

\* Disconnect called by the host, which never uses the client again.
HostDisconnects ==
    /\ host = "there"
    /\ stage # "new"
    /\ host' = "cancelling"
    /\ hasty' = (connectFuture = "pending")
    /\ Close("host")
    /\ UNCHANGED <<linkVars, stage, cConnected, cWriteQueue, cPosted, cInFlight, sent, paced,
                   readVars, pingVars, connectFuture>>

HostCancelsTimer ==
    /\ host = "cancelling"
    /\ host' = "clearing"
    /\ mPingTimer' = Cancelled
    /\ UNCHANGED <<linkVars, stage, cConnected, writeVars, readVars, pinging, leaveVars,
                   connectFuture>>

\* Mutant: the connection is taken for closed when OnClose has run.
HostClearsNothing ==
    /\ host = "clearing"
    /\ host' = "left"
    /\ UNCHANGED <<linkVars, stage, cConnected, writeVars, readVars, pingVars, leaveVars,
                   connectFuture>>

HostClearsConnected ==
    /\ host = "clearing"
    /\ host' = "left"
    /\ cConnected' = FALSE
    /\ UNCHANGED <<linkVars, stage, writeVars, readVars, pingVars, leaveVars, connectFuture>>

\* WebsocketClient::OnClose.  What is still to be read is dropped; a promise nobody sets
\* breaks when its handler is gone.
OnClose(failed) ==
    /\ closing # <<>>
    /\ link' = "down"
    /\ toClient' = <<>>
    /\ LET who == Head(closing)
           Answer(a) == leaveFuture' = IF who = "host" THEN a ELSE leaveFuture
       IN  /\ told' = "disconnected"
           /\ IF ~cConnected
              THEN Answer("true") /\ closing' = Tail(closing) /\ UNCHANGED <<cConnected, mPingTimer>>
              ELSE IF failed
              THEN /\ Answer("false")
                   /\ closing' = Append(Tail(closing), "handler")
                   /\ mPingTimer' = Cancelled
                   /\ cConnected' = FALSE
              ELSE Answer("broken") /\ closing' = Tail(closing) /\ UNCHANGED <<cConnected, mPingTimer>>
    /\ UNCHANGED <<toServer, stage, writeVars, readVars, pinging, host, connectFuture>>

-----------------------------------------------------------------------------
\* WebsocketClient::Connect.
Connect ==
    /\ host = "there"
    /\ stage = "new"
    /\ stage' = "resolving"
    /\ connectFuture' = "pending"
    /\ UNCHANGED <<linkVars, cConnected, writeVars, readVars, pingVars, leaveVars, host>>

\* OnResolve, OnConnect (with TLS or without) and OnSslHandshake without an error.
Proceed ==
    /\ \/ stage = "resolving" /\ stage' = "connecting"
       \/ stage = "connecting" /\ stage' \in {"securing", "shaking"}
       \/ stage = "securing" /\ stage' = "shaking"
    /\ UNCHANGED <<linkVars, cConnected, writeVars, readVars, pingVars, leaveVars, host,
                   connectFuture>>

\* OnResolve, OnConnect, OnSslHandshake and OnHandshake with an error.
ConnectFails ==
    /\ stage \in Pending
    /\ stage' = "failed"
    /\ connectFuture' = "false"
    /\ DisconnectByHandler
    /\ link' = "down"
    /\ UNCHANGED <<toServer, toClient, writeVars, readVars, pinging, host>>

\* OnHandshake: connected; OnPing({}) starts the timer and OnRead({}, 0) the first read.
OnHandshake ==
    /\ stage = "shaking"
    /\ stage' = "open"
    /\ link' = IF link = "none" THEN "up" ELSE link
    /\ cConnected' = TRUE
    /\ told' = "connected"
    /\ connectFuture' = "true"
    /\ mPingTimer' = "waiting"
    /\ cReading' = TRUE
    /\ UNCHANGED <<toServer, toClient, writeVars, pinging, closing, host, leaveFuture, got>>

-----------------------------------------------------------------------------
\* WebsocketClient::Send.  The host is paced while it sends nothing before it is told
\* that it is connected, and never has more than two messages waiting.
ClientSend ==
    /\ host = "there"
    /\ stage # "new"
    /\ sent < MaxSent
    /\ sent' = sent + 1
    /\ cPosted' = Append(cPosted, sent')
    /\ paced' = (paced /\ told = "connected" /\ Len(cPosted) + Len(cWriteQueue) < 2)
    /\ UNCHANGED <<linkVars, stage, cConnected, cWriteQueue, cInFlight, hasty, readVars,
                   pingVars, leaveVars, host, connectFuture>>

\* Mutant: two messages in the queue do not keep a third from being written.
ClientWriteCheckedLate ==
    /\ cPosted # <<>>
    /\ cPosted' = Tail(cPosted)
    /\ cWriteQueue' = Append(cWriteQueue, Head(cPosted))
    /\ cInFlight' = IF ~cConnected THEN cInFlight ELSE Append(cInFlight, Head(cPosted))
    /\ UNCHANGED <<linkVars, stage, cConnected, sent, paced, hasty, readVars, pingVars, leaveVars,
                   host, connectFuture>>

\* WebsocketClient::Write.
ClientWrite ==
    /\ cPosted # <<>>
    /\ cPosted' = Tail(cPosted)
    /\ cWriteQueue' = Append(cWriteQueue, Head(cPosted))
    /\ cInFlight' = IF ~cConnected \/ Len(cWriteQueue') > 1
                    THEN cInFlight ELSE Append(cInFlight, Head(cPosted))
    /\ UNCHANGED <<linkVars, stage, cConnected, sent, paced, hasty, readVars, pingVars, leaveVars,
                   host, connectFuture>>

\* Mutant: the message is written again before it is taken out of the queue.
ClientOnWriteBeforePop ==
    /\ cInFlight # <<>>
    /\ toServer' = Put(toServer, Head(cInFlight))
    /\ cWriteQueue' = Tail(cWriteQueue)
    /\ cInFlight' = IF cWriteQueue' = <<>> THEN <<>> ELSE <<Head(cWriteQueue)>>
    /\ UNCHANGED <<link, toClient, stage, cConnected, cPosted, sent, paced, hasty, readVars, pingVars,
                   leaveVars, host, connectFuture>>

\* WebsocketClient::OnWrite: the oldest message leaves the queue, the newest is written.
ClientOnWrite ==
    /\ cInFlight # <<>>
    /\ toServer' = Put(toServer, Head(cInFlight))
    /\ cWriteQueue' = Tail(cWriteQueue)
    /\ cInFlight' = IF cWriteQueue' = <<>> THEN <<>> ELSE <<cWriteQueue'[Len(cWriteQueue')]>>
    /\ UNCHANGED <<link, toClient, stage, cConnected, cPosted, sent, paced, hasty, readVars, pingVars,
                   leaveVars, host, connectFuture>>

ClientOnWriteFails ==
    /\ cInFlight # <<>>
    /\ link = "down"
    /\ cInFlight' = Tail(cInFlight)
    /\ DisconnectByHandler
    /\ UNCHANGED <<linkVars, stage, cWriteQueue, cPosted, sent, paced, hasty, readVars, pinging, host,
                   connectFuture>>

-----------------------------------------------------------------------------
\* WebsocketClient::OnRead: Logic is given the message if the client is connected.
ClientOnRead ==
    /\ cReading
    /\ toClient # <<>>
    /\ toClient' = Tail(toClient)
    /\ got' = Append(got, Head(toClient))
    /\ cReading' = cConnected
    /\ UNCHANGED <<link, toServer, stage, cConnected, writeVars, pingVars, leaveVars, host,
                   connectFuture>>

ClientOnReadFails ==
    /\ cReading
    /\ link = "down"
    /\ cReading' = FALSE
    /\ IF cConnected THEN DisconnectByHandler
       ELSE UNCHANGED <<closing, leaveFuture, told, mPingTimer, cConnected>>
    /\ UNCHANGED <<linkVars, stage, writeVars, got, pinging, host, connectFuture>>

\* WebsocketClient::Ping, when the time has come or the timer was cancelled.
Ping ==
    /\ mPingTimer # "off"
    /\ IF ~cConnected
       THEN mPingTimer' = "off" /\ UNCHANGED <<pinging, closing, leaveFuture, told, cConnected>>
       ELSE IF mPingTimer = "cancelled"
       THEN /\ mPingTimer' = "off"
            /\ cConnected' = FALSE
            /\ Close("handler")
            /\ UNCHANGED pinging
       ELSE /\ mPingTimer' = "off"
            /\ pinging' = TRUE
            /\ UNCHANGED <<closing, leaveFuture, told, cConnected>>
    /\ UNCHANGED <<linkVars, stage, writeVars, readVars, host, connectFuture>>

\* WebsocketClient::OnPing.
OnPing ==
    /\ pinging
    /\ pinging' = FALSE
    /\ \/ /\ link = "up"
          /\ mPingTimer' = IF cConnected THEN "waiting" ELSE mPingTimer
          /\ UNCHANGED <<closing, leaveFuture, told, cConnected>>
       \/ /\ link = "down"
          /\ IF cConnected THEN DisconnectByHandler
             ELSE UNCHANGED <<closing, leaveFuture, told, mPingTimer, cConnected>>
    /\ UNCHANGED <<linkVars, stage, writeVars, readVars, host, connectFuture>>

\* The handlers the client's thread runs once their operation has completed, but for
\* the pings, which go on as long as the connection does.
ClientHandler ==
    \/ Proceed \/ OnHandshake \/ ClientWrite \/ ClientOnWrite \/ ClientOnWriteFails
    \/ ClientOnRead \/ ClientOnReadFails
    \/ \E failed \in BOOLEAN : OnClose(failed)

HostReturns == HostCancelsTimer \/ HostClearsConnected

ClientSocketNext ==
    \/ ClientHandler \/ ConnectFails \/ Ping \/ OnPing
    \/ Connect \/ ClientSend \/ HostDisconnects \/ HostReturns
=============================================================================
