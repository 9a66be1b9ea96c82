------------------------------ MODULE LiveServer ------------------------------
(***************************************************************************)
(* The live server (src/Sources/Server): Logic's handlers and the Channel  *)
(* they act on, under mMutex, so that each handler is one step.  Channels  *)
(* share nothing; this is one of them.  It exists in mChannels exactly     *)
(* while it has connections: OnConnected creates it with its first one,    *)
(* OnDisconnected erases it, history included, with its last.              *)
(***************************************************************************)
EXTENDS LiveWire

VARIABLES
    mConnections,   \* sessions of the channel
    mHistory,       \* [layer]: the numbered deltas since the layer was cleared
    serverUp,       \* sessions the server has accepted and not seen fail
    epoch           \* not in the code: [layer], how often its numbering restarted

serverVars == <<mConnections, mHistory, serverUp, epoch>>

ServerTypeOK ==
    /\ mConnections \subseteq Sessions
    /\ mHistory \in [Layers -> Seq(ServerDelta)]
    /\ serverUp \subseteq Sessions
    /\ epoch \in [Layers -> Nat]

ServerInit ==
    /\ mConnections = {}
    /\ mHistory = Silent
    /\ serverUp = {}
    /\ epoch = [l \in Layers |-> 0]

ChannelExists == mConnections # {}

\* Channel::RemoveConnection compares names: it takes every session of the user.
SessionsOf(user) == {s \in Sessions : ClientOf[s] = user}

GetSequenceNumberFromZero(l) == Len(mHistory[l])    \* mutant
GetSequenceNumber(l) == Len(mHistory[l]) + 1

\* Channel::Send, to everyone but the sessions of the sender's user, together with
\* what the sender itself is sent.
RecipientsWithSender(s) == mConnections             \* mutant
Recipients(s) == mConnections \ SessionsOf(ClientOf[s])

SendToOthers(s, l, event, toSender) ==
    toClient' = [t \in Sessions |-> [toClient[t] EXCEPT ![l] =
                    @ \o (IF t \in Recipients(s) THEN <<event>>
                          ELSE IF t = s THEN toSender ELSE <<>>)]]

TakeFromClient(s, l) ==
    /\ s \in serverUp
    /\ toServer[s][l] # <<>>
    /\ toServer' = [toServer EXCEPT ![s][l] = Tail(@)]

-----------------------------------------------------------------------------
\* Mutant: the history is not sent.
OnConnectedNoReplay(s) ==
    /\ serverUp' = serverUp \cup {s}
    /\ mConnections' = mConnections \cup {s}
    /\ UNCHANGED <<toClient, toServer, mHistory, epoch>>

\* Logic::OnConnected: join the channel and be sent its history.
OnConnected(s) ==
    /\ serverUp' = serverUp \cup {s}
    /\ mConnections' = mConnections \cup {s}
    /\ toClient' = [toClient EXCEPT ![s] = [l \in Layers |-> @[l] \o mHistory[l]]]
    /\ UNCHANGED <<toServer, mHistory, epoch>>

\* WebsocketSession::OnRead or OnWrite has failed, then Logic::OnDisconnected.
OnDisconnected(s) ==
    LET remaining == mConnections \ SessionsOf(ClientOf[s])
    IN  /\ s \in serverUp
        /\ serverUp' = serverUp \ {s}
        /\ toServer' = [toServer EXCEPT ![s] = Silent]
        /\ mConnections' = remaining
        /\ IF ChannelExists /\ remaining = {}
           THEN /\ mHistory' = Silent
                /\ epoch' = [l \in Layers |-> epoch[l] + 1]
           ELSE UNCHANGED <<mHistory, epoch>>
        /\ UNCHANGED toClient

\* Logic::OnMessage of a DeltaEvent: number it, keep it, send it to the others and
\* acknowledge it to its sender.
OnDeltaEvent(s, l) ==
    /\ TakeFromClient(s, l)
    /\ Head(toServer[s][l]).type = "Delta"
    /\ IF ~ChannelExists
       THEN UNCHANGED <<toClient, mHistory>>
       ELSE LET updates == Head(toServer[s][l]).updates
                acknowledgedDelta ==
                    [type |-> "Delta", user |-> ClientOf[s], updates |-> updates,
                     sequence |-> GetSequenceNumber(l), epoch |-> epoch[l]]
                ack ==
                    [type |-> "Acknowledge", updates |-> PathsOnly(updates),
                     sequence |-> GetSequenceNumber(l), epoch |-> epoch[l]]
            IN  /\ mHistory' = [mHistory EXCEPT ![l] = Append(@, acknowledgedDelta)]
                /\ SendToOthers(s, l, acknowledgedDelta, <<ack>>)
    /\ UNCHANGED <<mConnections, serverUp, epoch>>

\* Logic::OnMessage of a ReloadEvent: forget the history of the layer and tell the
\* others.  The sender gets no answer.
OnReloadEvent(s, l) ==
    /\ TakeFromClient(s, l)
    /\ Head(toServer[s][l]).type = "Reload"
    /\ IF ~ChannelExists
       THEN UNCHANGED <<toClient, mHistory, epoch>>
       ELSE /\ mHistory' = [mHistory EXCEPT ![l] = <<>>]
            /\ epoch' = [epoch EXCEPT ![l] = @ + 1]
            /\ SendToOthers(s, l,
                    [type |-> "Reload", sequence |-> GetSequenceNumber(l)], <<>>)
    /\ UNCHANGED <<mConnections, serverUp>>
=============================================================================
