------------------------------ MODULE LiveClient ------------------------------
(***************************************************************************)
(* The client side of live mode, one per user: RenderStudioFileFormat      *)
(* (src/Sources/Resolver/FileFormat.cpp) with the RenderStudioData of each *)
(* layer it has loaded.  Two threads act: the network thread runs          *)
(* OnMessage, which only accumulates events under mEventMutex; the host's  *)
(* thread edits layers, loads and reloads them and calls                   *)
(* ProcessLiveUpdates ("a tick").                                          *)
(*                                                                         *)
(* A tick is Tick, which moves the accumulated events out, reloads, sends  *)
(* the local edits and queues the events in the layers, then one           *)
(* ApplyRemoteUpdate per turn of the loop of ProcessRemoteUpdates; until   *)
(* that loop has ended for every layer the host's thread does nothing      *)
(* else.                                                                   *)
(***************************************************************************)
EXTENDS LiveWire

CONSTANTS
    File,               \* [layer]: the contents Read finds on the disk
    Unserializable,     \* fields whose values have a type no event can carry
    NoSession

ASSUME LiveClientAssumption ==
    /\ File \in [Layers -> Contents]
    /\ Unserializable \subseteq Keys
    /\ NoSession \notin Sessions

VARIABLES
    mWebsocketClient,           \* [client]: the session of the client, or NoSession
    link,                       \* [session]: "new", "up" (mConnected) or "down"
    mLayerRegistry,             \* [client]: layers loaded
    data,                       \* [client][layer]: LayerState
    mAccumulatedDeltas,         \* [client][layer]
    mAccumulatedAcknowledges,   \* [client][layer]
    mRequestedReloads,          \* [client]: layers (their order does not matter)
    processing                  \* [client]: layers whose loop has not ended

clientVars == <<mWebsocketClient, link, mLayerRegistry, data, mAccumulatedDeltas,
                mAccumulatedAcknowledges, mRequestedReloads, processing>>

ClientTypeOK ==
    /\ mWebsocketClient \in [Clients -> Sessions \cup {NoSession}]
    /\ link \in [Sessions -> {"new", "up", "down"}]
    /\ mLayerRegistry \in [Clients -> SUBSET Layers]
    /\ data \in [Clients -> [Layers -> LayerState]]
    /\ mAccumulatedDeltas \in [Clients -> [Layers -> Seq(ServerDelta)]]
    /\ mAccumulatedAcknowledges \in [Clients -> [Layers -> Seq(Acknowledge)]]
    /\ mRequestedReloads \in [Clients -> SUBSET Layers]
    /\ processing \in [Clients -> SUBSET Layers]

ClientInit ==
    /\ mWebsocketClient = [c \in Clients |-> NoSession]
    /\ link = [s \in Sessions |-> "new"]
    /\ mLayerRegistry = [c \in Clients |-> {}]
    /\ data = [c \in Clients |-> [l \in Layers |-> OnLoaded(File[l])]]
    /\ mAccumulatedDeltas = [c \in Clients |-> Silent]
    /\ mAccumulatedAcknowledges = [c \in Clients |-> Silent]
    /\ mRequestedReloads = [c \in Clients |-> {}]
    /\ processing = [c \in Clients |-> {}]

HostIdle(c) == processing[c] = {}

InLiveMode(c) == mWebsocketClient[c] # NoSession

IsConnected(c) == InLiveMode(c) /\ link[mWebsocketClient[c]] = "up"

\* WebsocketClient::Send of at most one event per layer: to[l] is a sequence.  What
\* is sent when the socket is down goes nowhere.
Send(c, to) ==
    toServer' = IF IsConnected(c)
                THEN [toServer EXCEPT ![mWebsocketClient[c]] =
                         [l \in Layers |-> @[l] \o to[l]]]
                ELSE toServer

-----------------------------------------------------------------------------
\* The network thread.
ClientOnConnected(c, s) ==
    /\ mWebsocketClient' = [mWebsocketClient EXCEPT ![c] = s]
    /\ link' = [link EXCEPT ![s] = "up"]
    /\ UNCHANGED <<mLayerRegistry, data, mAccumulatedDeltas, mAccumulatedAcknowledges,
                   mRequestedReloads, processing>>

\* A read or a write has failed; what was on its way to the client is lost.
ClientOnDisconnected(c) ==
    /\ IsConnected(c)
    /\ link' = [link EXCEPT ![mWebsocketClient[c]] = "down"]
    /\ toClient' = [toClient EXCEPT ![mWebsocketClient[c]] = Silent]
    /\ UNCHANGED <<toServer, mWebsocketClient, mLayerRegistry, data, mAccumulatedDeltas,
                   mAccumulatedAcknowledges, mRequestedReloads, processing>>

\* What a reload leaves of the events accumulated before it.
KeptOnReload(events) == events      \* mutant
LeftByReload(events) == <<>>

\* OnMessage: ProcessDeltaEvent, ProcessAcknowledgeEvent or ProcessReloadEvent, which
\* forgets what was accumulated for the layer and asks for the reload.
OnMessage(c, l) ==
    LET s == mWebsocketClient[c]
        event == Head(toClient[s][l])
    IN  /\ IsConnected(c)
        /\ toClient[s][l] # <<>>
        /\ toClient' = [toClient EXCEPT ![s][l] = Tail(@)]
        /\ mAccumulatedDeltas' = [mAccumulatedDeltas EXCEPT ![c][l] =
               CASE event.type = "Delta" -> Append(@, event)
                 [] event.type = "Reload" -> LeftByReload(@)
                 [] OTHER -> @]
        /\ mAccumulatedAcknowledges' = [mAccumulatedAcknowledges EXCEPT ![c][l] =
               CASE event.type = "Acknowledge" -> Append(@, event)
                 [] event.type = "Reload" -> LeftByReload(@)
                 [] OTHER -> @]
        /\ mRequestedReloads' = [mRequestedReloads EXCEPT ![c] =
               IF event.type = "Reload" THEN @ \cup {l} ELSE @]
        /\ UNCHANGED <<toServer, mWebsocketClient, link, mLayerRegistry, data, processing>>

-----------------------------------------------------------------------------
\* The host's thread: edit a field of a spec that exists, in a loaded layer.
Edit(c, l, p, k, v) ==
    /\ HostIdle(c)
    /\ l \in mLayerRegistry[c]
    /\ HasSpec(data[c][l], p)
    /\ data' = [data EXCEPT ![c][l] = Set(@, p, k, v)]
    /\ UNCHANGED <<wireVars, mWebsocketClient, link, mLayerRegistry, mAccumulatedDeltas,
                   mAccumulatedAcknowledges, mRequestedReloads, processing>>

\* Read, the first time the layer is opened: nobody is told.  A file that cannot be read
\* is not opened.
OpenLayer(c, l) ==
    /\ HostIdle(c)
    /\ l \notin mLayerRegistry[c]
    /\ mLayerRegistry' = [mLayerRegistry EXCEPT ![c] = @ \cup {l}]
    /\ data' = [data EXCEPT ![c][l] = OnLoaded(File[l])]
    /\ UNCHANGED <<wireVars, mWebsocketClient, link, mAccumulatedDeltas,
                   mAccumulatedAcknowledges, mRequestedReloads, processing>>

\* Read, because the host reloads the layer: the server is told.
ReloadLayer(c, l) ==
    /\ HostIdle(c)
    /\ l \in mLayerRegistry[c]
    /\ data' = [data EXCEPT ![c][l] = OnLoaded(File[l])]
    /\ Send(c, [m \in Layers |-> IF m = l THEN <<[type |-> "Reload"]>> ELSE <<>>])
    /\ UNCHANGED <<toClient, mWebsocketClient, link, mLayerRegistry, mAccumulatedDeltas,
                   mAccumulatedAcknowledges, mRequestedReloads, processing>>

\* The layers of a tick after its reloads.
Reloaded(c, l) ==
    IF l \in mRequestedReloads[c] THEN OnLoaded(File[l]) ELSE data[c][l]

\* The event a layer sends in a tick.  FetchLocalDeltas has taken the edits whether
\* or not building the event throws.
DeltaEvents(c, l) ==
    LET local == Reloaded(c, l).mLocalDeltas
        throws == \E p \in PathsOf(local) : \E i \in DOMAIN local[p] :
                      local[p][i].key \in Unserializable
    IN  IF l \in mLayerRegistry[c] /\ local # NoUpdates /\ ~throws
        THEN <<[type |-> "Delta", updates |-> local]>>
        ELSE <<>>

\* What the layer looks like when its loop starts.  What was accumulated for a layer
\* that is not loaded is dropped.
Accumulated(c, l) ==
    IF l \in mLayerRegistry[c]
    THEN AccumulateRemoteUpdates(
            AccumulateRemoteUpdates(
                FetchLocalDeltas(Reloaded(c, l)), mAccumulatedAcknowledges[c][l]),
            mAccumulatedDeltas[c][l])
    ELSE data[c][l]

\* ProcessLiveUpdates, up to the loops of ProcessRemoteUpdates.  Without a websocket
\* client the code dereferences a null pointer: the host ticks in live mode only.
Tick(c) ==
    /\ HostIdle(c)
    /\ InLiveMode(c)
    /\ mAccumulatedDeltas' = [mAccumulatedDeltas EXCEPT ![c] = Silent]
    /\ mAccumulatedAcknowledges' = [mAccumulatedAcknowledges EXCEPT ![c] = Silent]
    /\ mRequestedReloads' = [mRequestedReloads EXCEPT ![c] = {}]
    /\ data' = [data EXCEPT ![c] = [l \in Layers |-> Accumulated(c, l)]]
    /\ Send(c, [l \in Layers |-> DeltaEvents(c, l)])
    /\ processing' = [processing EXCEPT ![c] =
                         {l \in mLayerRegistry[c] : HasNextUpdate(Accumulated(c, l))}]
    /\ UNCHANGED <<toClient, mWebsocketClient, link, mLayerRegistry>>

\* One turn of the loop of ProcessRemoteUpdates for one layer.
ApplyRemoteUpdate(c, l) ==
    /\ l \in processing[c]
    /\ data' = [data EXCEPT ![c][l] = ApplyNextUpdate(@)]
    /\ processing' = [processing EXCEPT ![c] =
                         IF HasNextUpdate(data'[c][l]) THEN @ ELSE @ \ {l}]
    /\ UNCHANGED <<wireVars, mWebsocketClient, link, mLayerRegistry, mAccumulatedDeltas,
                   mAccumulatedAcknowledges, mRequestedReloads>>

\* StopLiveMode: WebsocketClient::Disconnect, then the client object is dropped.
Disconnect(c) ==
    /\ HostIdle(c)
    /\ InLiveMode(c)
    /\ mWebsocketClient' = [mWebsocketClient EXCEPT ![c] = NoSession]
    /\ link' = [link EXCEPT ![mWebsocketClient[c]] = "down"]
    /\ toClient' = [toClient EXCEPT ![mWebsocketClient[c]] = Silent]
    /\ UNCHANGED <<toServer, mLayerRegistry, data, mAccumulatedDeltas,
                   mAccumulatedAcknowledges, mRequestedReloads, processing>>
=============================================================================
