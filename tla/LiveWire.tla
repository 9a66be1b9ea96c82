------------------------------- MODULE LiveWire -------------------------------
(***************************************************************************)
(* What the live server and its clients share: the events of               *)
(* src/Sources/Serialization/Api.h and the websockets that carry them.     *)
(*                                                                         *)
(* A session is one websocket.  The socket keeps the order of what is      *)
(* written to it, and no handler relates two layers, so that only the      *)
(* order within a layer matters: a session carries one queue per layer and *)
(* direction.  A HistoryEvent marks the end of the replay for the log only *)
(* and is left out.                                                        *)
(***************************************************************************)
EXTENDS LayerData

CONSTANTS
    Clients,    \* users, each the process of one
    Sessions,   \* websockets, each used once
    ClientOf,   \* GetDebugName(): the user a websocket was opened for
    Layers

ASSUME LiveWireAssumption == ClientOf \in [Sessions -> Clients]

VARIABLES
    toServer,   \* [session][layer]: events on their way to the server
    toClient    \* [session][layer]: events on their way to the client

wireVars == <<toServer, toClient>>

\* What a client sends: DeltaEvent and ReloadEvent, both without a sequence.
ClientEvent ==
    [type : {"Delta"}, updates : Table] \cup [type : {"Reload"}]

\* What a server sends.  The epoch is not in the code (see LayerData).
ServerDelta ==
    [type : {"Delta"}, user : Clients, updates : Table, sequence : Nat \ {0}, epoch : Nat]

Acknowledge ==
    [type : {"Acknowledge"}, updates : Table, sequence : Nat \ {0}, epoch : Nat]

ServerReload ==
    [type : {"Reload"}, sequence : Nat \ {0}]

ServerEvent == ServerDelta \cup Acknowledge \cup ServerReload

WireTypeOK ==
    /\ toServer \in [Sessions -> [Layers -> Seq(ClientEvent)]]
    /\ toClient \in [Sessions -> [Layers -> Seq(ServerEvent)]]

WireInit ==
    /\ toServer = [s \in Sessions |-> [l \in Layers |-> <<>>]]
    /\ toClient = [s \in Sessions |-> [l \in Layers |-> <<>>]]

Silent == [l \in Layers |-> <<>>]
=============================================================================
