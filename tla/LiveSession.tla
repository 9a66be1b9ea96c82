----------------------------- MODULE LiveSession -----------------------------
(***************************************************************************)
(* Live editing of shared layers: the server, its clients and the sockets  *)
(* between them.  Clients join when they like, edit, tick, reload layers   *)
(* and lose their connection, in any order.                                *)
(***************************************************************************)
EXTENDS LiveServer, LiveClient

CONSTANTS
    MaxEdits,       \* bound: edits made in all
    MaxReloads,     \* bound: reloads asked for by hosts
    MayRemove,      \* whether hosts remove child prims, or only add them
    FieldsOf,       \* [path]: the fields hosts edit there
    Discipline,     \* [path]: when a host edits it (see MayEdit)
    Reloaders,      \* clients whose host reloads layers
    Leavers,        \* clients that disconnect or lose their connection
    NoticedFirst,   \* whether the server has noticed that a user's websocket is gone
                    \* before it accepts the next one of that user
    OpenedFirst     \* layers every host opens before it joins

ASSUME LiveSessionAssumption ==
    /\ MaxEdits \in Nat /\ MaxReloads \in Nat
    /\ MayRemove \in BOOLEAN
    /\ FieldsOf \in [Paths -> SUBSET Keys]
    /\ Discipline \in [Paths -> {"free", "settled", "locked"}]
    /\ Reloaders \subseteq Clients /\ Leavers \subseteq Clients
    /\ NoticedFirst \in BOOLEAN
    /\ OpenedFirst \subseteq Layers

VARIABLES edits, reloads    \* how many there have been, for the bounds

vars == <<wireVars, serverVars, clientVars, edits, reloads>>

TypeOK ==
    /\ WireTypeOK /\ ServerTypeOK /\ ClientTypeOK
    /\ edits \in Nat /\ reloads \in Nat

Init ==
    /\ WireInit /\ ServerInit /\ ClientInit
    /\ edits = 0 /\ reloads = 0

-----------------------------------------------------------------------------
\* The websocket handshake succeeds: Logic::OnConnected and the client's OnHandshake.
\* The client may be in live mode with a socket that is down: it connects again.
Join(c, s) ==
    /\ HostIdle(c)
    /\ ~IsConnected(c)
    /\ OpenedFirst \subseteq mLayerRegistry[c]
    /\ NoticedFirst => SessionsOf(c) \cap serverUp = {}
    /\ s \in SessionsOf(c) /\ link[s] = "new"
    /\ OnConnected(s)
    /\ ClientOnConnected(c, s)
    /\ UNCHANGED <<edits, reloads>>

Leave(c) ==
    /\ c \in Leavers
    /\ \/ ClientOnDisconnected(c) /\ UNCHANGED serverVars
       \/ Disconnect(c) /\ UNCHANGED serverVars
    /\ UNCHANGED <<edits, reloads>>

\* The server notices at any time that a client of Leavers is gone, before the client
\* does or after it has come back.
ServerNotices(s) ==
    /\ ClientOf[s] \in Leavers
    /\ OnDisconnected(s)
    /\ UNCHANGED <<clientVars, edits, reloads>>

ServerReceives(s, l) ==
    /\ OnDeltaEvent(s, l) \/ OnReloadEvent(s, l)
    /\ UNCHANGED <<clientVars, edits, reloads>>

ClientReceives(c, l) ==
    /\ OnMessage(c, l)
    /\ UNCHANGED <<serverVars, edits, reloads>>

\* An own edit of the path that the server has not numbered.
Unnumbered(c, l, p) ==
    \/ p \in PathsOf(data[c][l].mLocalDeltas)
    \/ \E s \in SessionsOf(c) : \E i \in DOMAIN toServer[s][l] :
           /\ toServer[s][l][i].type = "Delta"
           /\ p \in PathsOf(toServer[s][l][i].updates)

\* How hosts edit.  "free": at will.  "settled": not again while an own edit that was
\* sent is unacknowledged.  "locked": only while nobody else's edit of the path is
\* under way, as if the primitive were locked for the editor.
MayEdit(c, l, p) ==
    CASE Discipline[p] = "free" -> TRUE
      [] Discipline[p] = "settled" ->
            \/ p \notin data[c][l].mUnacknowledgedFields
            \/ p \in PathsOf(data[c][l].mLocalDeltas)
      [] Discipline[p] = "locked" ->
            /\ \A d \in Clients \ {c} : ~Unnumbered(d, l, p)
            /\ \A n \in DOMAIN mHistory[l] :
                   n > data[c][l].mLatestAppliedSequence /\ mHistory[l][n].user # c
                   => p \notin PathsOf(mHistory[l][n].updates)

\* A spec with an empty type name counts as erased: others erase it, its author keeps
\* it in that form.
Visible(spec) ==
    IF spec # None /\ TypeName \in Keys /\ spec[TypeName] = EmptyToken
    THEN None ELSE spec

\* What a host writes: a fresh token, or in a list of children one token more or less,
\* or the empty type name.
Inputs(old, k) ==
    LET fresh == {edits + 1}
    IN  CASE k = PrimChildren -> {old \cup fresh}
                                    \cup {old \ {x} : x \in IF MayRemove THEN old ELSE {}}
          [] k = TypeName     -> {fresh, EmptyToken}
          [] OTHER            -> {fresh}

HostEdits(c, l) ==
    \E p \in Paths : \E k \in FieldsOf[p] :
        /\ edits < MaxEdits
        /\ Visible(data[c][l].mData[p]) # None
        /\ MayEdit(c, l, p)
        /\ \E v \in Inputs(data[c][l].mData[p][k], k) : Edit(c, l, p, k, v)
        /\ edits' = edits + 1
        /\ UNCHANGED <<serverVars, reloads>>

HostTicks(c) ==
    /\ Tick(c)
    /\ UNCHANGED <<serverVars, edits, reloads>>

HostApplies(c, l) ==
    /\ ApplyRemoteUpdate(c, l)
    /\ UNCHANGED <<serverVars, edits, reloads>>

HostOpens(c, l) ==
    /\ OpenLayer(c, l)
    /\ UNCHANGED <<serverVars, edits, reloads>>

HostReloads(c, l) ==
    /\ c \in Reloaders
    /\ reloads < MaxReloads
    /\ ReloadLayer(c, l)
    /\ reloads' = reloads + 1
    /\ UNCHANGED <<serverVars, edits>>

Next ==
    \/ \E c \in Clients, s \in Sessions : Join(c, s)
    \/ \E c \in Clients : Leave(c) \/ HostTicks(c)
    \/ \E s \in Sessions : ServerNotices(s)
    \/ \E s \in Sessions, l \in Layers : ServerReceives(s, l)
    \/ \E c \in Clients, l \in Layers :
          \/ ClientReceives(c, l)
          \/ HostEdits(c, l)
          \/ HostApplies(c, l)
          \/ HostOpens(c, l)
          \/ HostReloads(c, l)

Spec == Init /\ [][Next]_vars

\* The server's threads and each client's network thread run; hosts tick in every
\* frame and a started loop goes on.
Fairness ==
    /\ \A s \in Sessions, l \in Layers : WF_vars(ServerReceives(s, l))
    /\ \A c \in Clients, l \in Layers :
          WF_vars(ClientReceives(c, l)) /\ WF_vars(HostApplies(c, l))
    /\ \A c \in Clients : WF_vars(HostTicks(c))

FairSpec == Spec /\ Fairness

-----------------------------------------------------------------------------
(***************************************************************************)
(* Properties.                                                             *)
(***************************************************************************)

\* Clients that neither reload nor leave, and the layers they loaded beforehand.
Steady == Clients \ (Reloaders \cup Leavers)

\* What is on its way to a client that it has not moved into the layer yet.
Arriving(c, l) ==
    mAccumulatedDeltas[c][l] \o mAccumulatedAcknowledges[c][l]
        \o (IF InLiveMode(c) THEN toClient[mWebsocketClient[c]][l] ELSE <<>>)

\* In how many places update n of the layer's history is, on its way to the client's
\* data or in it.
Held(c, l, n) ==
    LET d == data[c][l]
        arriving == {i \in DOMAIN Arriving(c, l) :
                        /\ Arriving(c, l)[i].type # "Reload"
                        /\ Arriving(c, l)[i].sequence = n
                        /\ Arriving(c, l)[i].epoch = epoch[l]}
        queued == {u \in d.mRemoteDeltasQueue : u.sequence = n /\ u.epoch = epoch[l]}
        applied == {m \in DOMAIN d.applied :
                        d.applied[m].sequence = n /\ d.applied[m].epoch = epoch[l]}
    IN  Cardinality(arriving) + Cardinality(queued) + Cardinality(applied)

\* Every update the server has numbered is, for every connected client, in exactly one
\* place between the server and the client's data: none is lost and none is there
\* twice, whether it came as a replay, a broadcast or an acknowledgement, and although
\* a tick moves the accumulated events out while others arrive and a reload drops some.
HeldOnce ==
    \A c \in Steady, l \in OpenedFirst :
        IsConnected(c) => \A n \in DOMAIN mHistory[l] : Held(c, l, n) = 1

\* What a client has applied since it loaded a layer is, number by number, what the
\* server's history holds, unless the server has restarted the history since: the
\* updates of others as they are, its own perhaps as an acknowledgement.  Whoever has
\* left and come back, reloaded or lost messages.
AppliedIsHistory ==
    \A c \in Clients, l \in Layers :
        LET applied == data[c][l].applied
        IN  \A n \in DOMAIN applied : applied[n].epoch = epoch[l] =>
                /\ n \in DOMAIN mHistory[l]
                /\ \/ applied[n].updates = mHistory[l][n].updates
                   \/ /\ mHistory[l][n].user = c
                      /\ applied[n].updates = PathsOnly(mHistory[l][n].updates)

\* x, on its way to client c or applied by it, is what the server numbered x.sequence in
\* this history, unless the history has been forgotten since.
Genuine(history, numbering, c, x) ==
    /\ x.epoch \in 0..numbering
    /\ x.epoch = numbering =>
          /\ x.sequence \in DOMAIN history
          /\ \/ x.updates = history[x.sequence].updates
             \/ /\ history[x.sequence].user = c
                /\ x.updates = PathsOnly(history[x.sequence].updates)

LayerGenuine(history, numbering, c, d) ==
    /\ \A u \in d.mRemoteDeltasQueue : Genuine(history, numbering, c, u)
    /\ \A n \in DOMAIN d.applied :
          d.applied[n].sequence = n /\ Genuine(history, numbering, c, d.applied[n])
    /\ d.mLatestAppliedSequence = Len(d.applied)

HistoryNumbered ==
    \A l \in Layers : \A n \in DOMAIN mHistory[l] :
        mHistory[l][n].sequence = n /\ mHistory[l][n].epoch = epoch[l]

OwnSessions ==
    \A c \in Clients : InLiveMode(c) => ClientOf[mWebsocketClient[c]] = c

WireGenuine ==
    \A s \in Sessions, l \in Layers : \A i \in DOMAIN toClient[s][l] :
        toClient[s][l][i].type # "Reload"
        => Genuine(mHistory[l], epoch[l], ClientOf[s], toClient[s][l][i])

AccumulatedGenuine ==
    \A c \in Clients, l \in Layers :
        /\ \A i \in DOMAIN mAccumulatedDeltas[c][l] :
              Genuine(mHistory[l], epoch[l], c, mAccumulatedDeltas[c][l][i])
        /\ \A i \in DOMAIN mAccumulatedAcknowledges[c][l] :
              Genuine(mHistory[l], epoch[l], c, mAccumulatedAcknowledges[c][l][i])

DataGenuine ==
    \A c \in Clients, l \in Layers :
        LayerGenuine(mHistory[l], epoch[l], c, data[c][l])

\* Why AppliedIsHistory holds: at every stage of its way, on the socket, accumulated,
\* queued and applied, an update is genuine, the history is numbered from 1 without gaps,
\* and a client's websocket is its own.
Delivery ==
    /\ HistoryNumbered
    /\ OwnSessions
    /\ WireGenuine
    /\ AccumulatedGenuine
    /\ DataGenuine

\* A client that has lost its connection and come back is sent the history again: while
\* the channel has lived on, whatever was lost with the old connection is on its way or
\* applied.  (Only if NoticedFirst: otherwise edits of the old session are kept from the
\* new one, which has the same name, and the end of the old one drops the new one.)
NothingMissing ==
    \A c \in Clients \ Reloaders, l \in OpenedFirst :
        IsConnected(c) /\ mWebsocketClient[c] \in serverUp /\ epoch[l] = 0
        => \A n \in DOMAIN mHistory[l] : Held(c, l, n) >= 1

\* An own edit of the path is sent and its acknowledgement not applied yet.
InFlight(c, l, p) ==
    LET d == data[c][l]
    IN  \/ \E s \in SessionsOf(c) : \E i \in DOMAIN toServer[s][l] :
              /\ toServer[s][l][i].type = "Delta"
              /\ p \in PathsOf(toServer[s][l][i].updates)
        \/ \E i \in DOMAIN Arriving(c, l) :
              /\ Arriving(c, l)[i].type = "Acknowledge"
              /\ p \in PathsOf(Arriving(c, l)[i].updates)
        \/ \E u \in d.mRemoteDeltasQueue :
              p \in PathsOf(u.updates) /\ u.updates[p] = <<>>

\* A path hides remote edits only while an own edit of it is unsent or in flight, or
\* the reload that will forget it is due: no path stays masked without a reason.
MaskHasCause ==
    \A c \in Steady, l \in OpenedFirst :
        \A p \in data[c][l].mUnacknowledgedFields :
            \/ p \in PathsOf(data[c][l].mLocalDeltas)
            \/ InFlight(c, l, p)
            \/ l \in mRequestedReloads[c]

\* Nothing of the layer is on its way between the clients that are connected.
AllQuiet(l) ==
    \A c \in Clients :
        IsConnected(c) =>
            /\ Arriving(c, l) = <<>>
            /\ toServer[mWebsocketClient[c]][l] = <<>>
            /\ data[c][l].mLocalDeltas = NoUpdates
            /\ ~HasNextUpdate(data[c][l])
            /\ l \notin mRequestedReloads[c]

\* When everything sent has been received and applied, the connected clients see the
\* same contents (Data.cpp:571, "would grant data consistency").
DataConsistency ==
    \A l \in OpenedFirst : AllQuiet(l) =>
        \A c, d \in {x \in Clients : IsConnected(x)} : \A p \in Paths :
            Visible(data[c][l].mData[p]) = Visible(data[d][l].mData[p])

\* All a client has applied since it loaded a layer was numbered between the same two
\* reloads of the layer (FileFormat.cpp:178, "we already discarded all the deltas
\* before reloading").
SameEpoch(c, l) ==
    \A i, j \in DOMAIN data[c][l].applied :
        data[c][l].applied[i].epoch = data[c][l].applied[j].epoch

\* ... for the clients that are told of a reload.
FollowersStartAfresh == \A c \in Steady, l \in Layers : SameEpoch(c, l)

\* ... for every client, those that reload included.
EveryoneStartsAfresh == \A c \in Clients, l \in Layers : SameEpoch(c, l)

\* A child prim added by a host whose edit has been numbered is in every client's list
\* when all is quiet (Data.cpp:94, "we need to have both own edit and other user edit,
\* overwrites prohibited").  For sessions in which hosts only add children.
BothEditsKept ==
    \A l \in OpenedFirst : AllQuiet(l) =>
        \A c \in {x \in Clients : IsConnected(x)}, n \in DOMAIN mHistory[l] :
            \A p \in PathsOf(mHistory[l][n].updates) :
                \A i \in DOMAIN mHistory[l][n].updates[p] :
                    mHistory[l][n].updates[p][i].key = PrimChildren
                    => mHistory[l][n].updates[p][i].value
                            \subseteq data[c][l].mData[p][PrimChildren]

\* The session implements the shared log: the history is the log, and what a client has
\* applied is what it has been given.
Log == INSTANCE SharedLog WITH
    log <- [l \in Layers |-> [n \in DOMAIN mHistory[l] |->
               [user |-> mHistory[l][n].user, updates |-> mHistory[l][n].updates]]],
    given <- [c \in Clients |-> [l \in Layers |->
               [n \in DOMAIN data[c][l].applied |-> data[c][l].applied[n].updates]]],
    Updates <- Table

ImplementsSharedLog == Log!Spec

\* An edit does not hide others' edits of its path for ever: its acknowledgement comes.
EveryMaskLifts ==
    \A c \in Steady, l \in OpenedFirst, p \in Paths :
        InLiveMode(c) /\ p \in data[c][l].mUnacknowledgedFields
        ~> p \notin data[c][l].mUnacknowledgedFields

\* What the server has numbered reaches the data of every connected client, unless the
\* server forgets it because the layer is reloaded.
EveryoneCatchesUp ==
    \A c \in Steady, l \in OpenedFirst, n \in 1..MaxEdits :
        IsConnected(c) /\ Len(mHistory[l]) >= n
        ~> data[c][l].mLatestAppliedSequence >= n \/ Len(mHistory[l]) < n
=============================================================================
